---------------------------- MODULE Sites_proofs ----------------------------
(***************************************************************************)
(* Proofs about what differs from site to site: the roster of a location,  *)
(* its catalogue and its connections.  Each component is an instance here, *)
(* on constants and variables it shares by name with the others; what a    *)
(* section says of one component reads nothing of another.                 *)
(***************************************************************************)
EXTENDS Naturals, FiniteSets, FiniteSetTheorems, TLAPS

CONSTANTS
  None, Faults,
  People, Pins, Pos, Cap, RosterFaults,    \* Roster
  Lanes, Table, Names, ShrinkCap,          \* CloverCatalog
  Locations, Elsewhere, Jobs, Syncs, MaxCalls  \* Connections

VARIABLES
  used, row,
  staff, pull, stopped,            \* Roster
  item, busy, kept, lane,          \* CloverCatalog
  conn, cache, job, sync, sched    \* Connections

Roster  == INSTANCE Roster WITH Faults <- RosterFaults
Catalog == INSTANCE CloverCatalog
Wiring  == INSTANCE Connections WITH Lanes <- Syncs

---------------------------------------------------------------------------
(* Roster.  A pull writes the rows of the PINs it fetched as listed; the   *)
(* others are as it read them until it closes them.                        *)

\* No row is the absence of one.
RosterNone == None \notin Roster!Row

\* The types the proofs need: what the rows are, and what a pull that has read
\* them holds.
RosterWriting == {"reactivating", "deactivating"}
RosterTyped ==
  /\ row \in [Pins -> Roster!Row \cup {None}]
  /\ pull = [pc |-> pull.pc, live |-> pull.live, rows |-> pull.rows, left |-> pull.left, calm |-> pull.calm]
  /\ pull.pc \in {"idle", "fetched", "pulled"} \cup RosterWriting
  /\ stopped \subseteq Pins /\ used \subseteq Roster!Kinds
  /\ pull.pc \in RosterWriting =>
       /\ pull.rows \in [Pins -> Roster!Row \cup {None}]
       /\ \A n \in Pins : n \in pull.left \/ pull.rows[n] # None => row[n] # None

\* What a pull nobody disturbed knows: the list is the POS's, and outside it the
\* rows are as read; then the open ones outside it are those left to close.
RosterCopied ==
  pull.calm =>
    /\ pull.pc # "idle" => pull.live = staff
    /\ pull.pc = "reactivating" =>
         /\ pull.left \subseteq Roster!LivePins(staff)
         /\ \A n \in Pins \ Roster!LivePins(staff) : row[n] = pull.rows[n]
    /\ pull.pc = "deactivating" /\ Roster!LeavingIsSafe(pull.live, pull.rows) =>
         \A n \in Roster!Managed(row) : row[n].active => n \in Roster!LivePins(staff) \cup pull.left
    /\ pull.pc = "pulled" /\ Roster!LeavingIsSafe(pull.live, pull.rows) =>
         \A n \in Roster!Managed(row) : row[n].active => n \in Roster!LivePins(staff)

\* What the sync notes on a row it closes is only on closed rows, and not on one
\* the owner closed, which no pull has left to open or to close.
RosterSpared ==
  used \cap {"late", "lift"} = {} =>
    /\ \A n \in Pins : row[n] # None /\ row[n].active => ~row[n].absent
    /\ \A n \in stopped :
         /\ row[n] # None /\ ~row[n].active /\ ~row[n].absent
         /\ pull.pc \in RosterWriting => n \notin pull.left
         /\ pull.pc = "reactivating" => pull.rows[n] # None /\ ~pull.rows[n].active

LEMMA RosterListed ==
  ASSUME NEW live, NEW n \in Roster!LivePins(live)
  PROVE  Roster!Holder(live, n) \in People
  BY DEF Roster!LivePins, Roster!Listed, Roster!Holder

LEMMA RosterUpserted ==
  ASSUME NEW live, NEW n \in Roster!LivePins(live), NEW prev \in Roster!Row \cup {None}
  PROVE  /\ Roster!Upserted(live, n, prev) \in Roster!Row
         /\ prev # None => /\ Roster!Upserted(live, n, prev).active = prev.active
                           /\ Roster!Upserted(live, n, prev).absent = prev.absent
         /\ prev = None => ~Roster!Upserted(live, n, prev).absent
  BY RosterListed DEF Roster!Upserted, Roster!RoleOf, Roster!Row

LEMMA RosterRowEdits ==
  ASSUME NEW r \in Roster!Row
  PROVE  /\ [r EXCEPT !.active = FALSE] \in Roster!Row
         /\ [r EXCEPT !.active = TRUE] \in Roster!Row
         /\ [r EXCEPT !.active = TRUE, !.absent = FALSE] \in Roster!Row
         /\ [r EXCEPT !.active = FALSE, !.absent = TRUE] \in Roster!Row
  BY DEF Roster!Row

\* What the upsert of a pull writes.
RosterBack == IF Pos = "omnivore" THEN Roster!Returns(pull.live, row) ELSE {}
LEMMA RosterUpsert ==
  ASSUME RosterNone, RosterTyped, Roster!Upsert, pull' # Roster!Resting
  PROVE  /\ row' \in [Pins -> Roster!Row \cup {None}]
         /\ \A n \in Pins :
              /\ n \notin Roster!LivePins(pull.live) => row'[n] = row[n]
              /\ row[n] # None => /\ row'[n] # None
                                  /\ n \notin RosterBack => /\ row'[n].active = row[n].active
                                                            /\ row'[n].absent = row[n].absent
                                  /\ n \in RosterBack => row'[n].active /\ ~row'[n].absent
              /\ row[n] = None /\ row'[n] # None => ~row'[n].absent
         /\ pull' = [pull EXCEPT !.pc = "reactivating", !.rows = row,
                                 !.left = IF Pos = "clover" THEN Roster!Returns(pull.live, row) ELSE {}]
<1> DEFINE writes == Roster!Writes(pull.live, row) \cup RosterBack
           New(n) == IF n \in RosterBack
                     THEN [Roster!Upserted(pull.live, n, row[n]) EXCEPT !.active = TRUE, !.absent = FALSE]
                     ELSE IF n \in writes THEN Roster!Upserted(pull.live, n, row[n]) ELSE row[n]
<1>1. row' = [n \in Pins |-> New(n)] BY DEF Roster!Upsert, RosterBack
<1>2. writes \subseteq Roster!LivePins(pull.live) /\ RosterBack \subseteq {n \in Roster!LivePins(pull.live) : row[n] # None}
  BY DEF Roster!Writes, RosterBack, Roster!Returns
<1>3. ASSUME NEW n \in Pins PROVE row[n] \in Roster!Row \cup {None} BY DEF RosterTyped
<1>4. ASSUME NEW n \in Pins, n \in Roster!LivePins(pull.live)
      PROVE  [Roster!Upserted(pull.live, n, row[n]) EXCEPT !.active = TRUE, !.absent = FALSE] \in Roster!Row
  BY <1>3, <1>4, RosterUpserted, RosterRowEdits
<1>5. ASSUME NEW n \in Pins PROVE New(n) \in Roster!Row \cup {None}
  BY <1>2, <1>3, <1>4, RosterUpserted
<1>6. row' \in [Pins -> Roster!Row \cup {None}] BY <1>1, <1>5
<1>7. ASSUME NEW n \in Pins
      PROVE  /\ n \notin Roster!LivePins(pull.live) => row'[n] = row[n]
             /\ row[n] # None => /\ row'[n] # None
                                 /\ n \notin RosterBack => /\ row'[n].active = row[n].active
                                                           /\ row'[n].absent = row[n].absent
                                 /\ n \in RosterBack => row'[n].active /\ ~row'[n].absent
             /\ row[n] = None /\ row'[n] # None => ~row'[n].absent
  <2>1. row'[n] = New(n) BY <1>1
  <2>2. CASE n \in RosterBack
    <3>1. Roster!Upserted(pull.live, n, row[n]) \in Roster!Row BY <1>2, <1>3, <2>2, RosterUpserted
    <3>2. row'[n].active /\ ~row'[n].absent BY <2>1, <2>2, <3>1 DEF Roster!Row
    <3> QED BY <1>2, <1>4, <2>1, <2>2, <3>2 DEF RosterNone
  <2>3. CASE n \notin RosterBack /\ n \in writes BY <1>2, <1>3, <2>1, <2>3, RosterUpserted DEF RosterNone
  <2>4. CASE n \notin RosterBack /\ n \notin writes BY <2>1, <2>4
  <2> QED BY <2>2, <2>3, <2>4
<1> QED BY <1>6, <1>7 DEF Roster!Upsert, RosterBack

LEMMA RosterTypedInit == Roster!Init => RosterTyped
  BY DEF Roster!Init, RosterTyped, RosterWriting, Roster!Resting

LEMMA RosterTypedNext == ASSUME RosterNone PROVE RosterTyped /\ [Roster!Next]_(Roster!vars) => RosterTyped'
<1> SUFFICES ASSUME RosterTyped, [Roster!Next]_(Roster!vars) PROVE RosterTyped'
  OBVIOUS
<1> USE DEF RosterTyped
<1>1. CASE Roster!RosterChanges
  <2>1. used' \subseteq Roster!Kinds BY <1>1 DEF Roster!RosterChanges, Roster!Happens
  <2>2. pull' = [pull EXCEPT !.calm = FALSE] /\ row' = row /\ stopped' \subseteq stopped
    BY <1>1 DEF Roster!RosterChanges, Roster!Disturb
  <2> QED BY <2>1, <2>2 DEF RosterWriting
<1>2. CASE Roster!OwnerEdits
  <2>1. used' \subseteq Roster!Kinds BY <1>2 DEF Roster!OwnerEdits, Roster!Happens
  <2>2. pull' = [pull EXCEPT !.calm = FALSE] BY <1>2 DEF Roster!OwnerEdits, Roster!Disturb
  <2>3. PICK n \in Pins :
          \/ /\ row[n] = None
             /\ \E r \in {"waiter", "admin"} :
                  row' = [row EXCEPT ![n] = [who |-> None, role |-> r, active |-> TRUE, absent |-> FALSE]]
             /\ stopped' = stopped
          \/ row[n] # None /\ row' = [row EXCEPT ![n].active = FALSE] /\ stopped' \subseteq stopped \cup {n}
          \/ row[n] # None /\ row' = [row EXCEPT ![n].active = TRUE] /\ stopped' \subseteq stopped
    BY <1>2 DEF Roster!OwnerEdits
  <2>4. row[n] # None => row[n] \in Roster!Row OBVIOUS
  <2>5. PICK new \in Roster!Row : row' = [row EXCEPT ![n] = new]
    <3>1. ASSUME NEW r \in {"waiter", "admin"}
          PROVE  [who |-> None, role |-> r, active |-> TRUE, absent |-> FALSE] \in Roster!Row
      BY DEF Roster!Row
    <3> QED BY <2>3, <2>4, <3>1, RosterRowEdits
  <2>6. stopped' \subseteq Pins BY <2>3
  <2>7. row' \in [Pins -> Roster!Row \cup {None}] /\ \A m \in Pins : row[m] # None => row'[m] # None
    BY <2>5 DEF RosterNone
  <2> QED BY <2>1, <2>2, <2>6, <2>7 DEF RosterWriting
<1>3. CASE Roster!Fetch
  BY <1>3 DEF Roster!Fetch, Roster!Resting, Roster!Happens, RosterWriting
<1>4. CASE Roster!Upsert
  <2>1. CASE pull' = Roster!Resting
    <3>1. row' = row BY <1>4, <2>1 DEF Roster!Upsert, Roster!Resting
    <3> QED BY <1>4, <2>1, <3>1 DEF Roster!Upsert, Roster!Resting, RosterWriting
  <2>2. CASE pull' # Roster!Resting
    <3>1. \A n \in Roster!Returns(pull.live, row) : row[n] # None BY DEF Roster!Returns
    <3>2. /\ row' \in [Pins -> Roster!Row \cup {None}]
          /\ \A n \in Pins : row[n] # None => row'[n] # None
          /\ pull' = [pull EXCEPT !.pc = "reactivating", !.rows = row,
                                  !.left = IF Pos = "clover" THEN Roster!Returns(pull.live, row) ELSE {}]
      BY <1>4, <2>2, RosterUpsert
    <3>3. PICK left \in SUBSET Roster!Returns(pull.live, row) :
            pull' = [pull EXCEPT !.pc = "reactivating", !.rows = row, !.left = left]
      BY <3>2
    <3>4. stopped' = stopped /\ used' = used BY <1>4 DEF Roster!Upsert
    <3>5. /\ pull'.pc = "reactivating" /\ pull'.rows = row /\ pull'.left = left
          /\ pull' = [pc |-> pull'.pc, live |-> pull'.live, rows |-> pull'.rows, left |-> pull'.left, calm |-> pull'.calm]
      BY <3>3
    <3> QED BY <3>1, <3>2, <3>4, <3>5 DEF RosterWriting
  <2> QED BY <2>1, <2>2
<1>5. CASE Roster!Reactivate
  <2>1. PICK n \in pull.left : /\ row' = [row EXCEPT ![n].active = TRUE, ![n].absent = FALSE]
                               /\ pull' = [pull EXCEPT !.left = pull.left \ {n}]
    BY <1>5 DEF Roster!Reactivate
  <2>2. n \in Pins => row[n] \in Roster!Row BY <1>5, <2>1 DEF Roster!Reactivate, RosterWriting
  <2>3. row' \in [Pins -> Roster!Row \cup {None}] /\ \A m \in Pins : row[m] # None => row'[m] # None
    BY <2>1, <2>2, RosterRowEdits DEF RosterNone
  <2> QED BY <1>5, <2>1, <2>3 DEF Roster!Reactivate, RosterWriting
<1>6. CASE Roster!BeginDeactivate
  <2>1. \A n \in Roster!Leavers(pull.live, pull.rows) : pull.rows[n] # None
    BY DEF Roster!Leavers, Roster!Managed
  <2>2. PICK left \in SUBSET Roster!Leavers(pull.live, pull.rows) :
          pull' = [pull EXCEPT !.pc = "deactivating", !.left = left]
    BY <1>6 DEF Roster!BeginDeactivate
  <2> QED BY <1>6, <2>1, <2>2 DEF Roster!BeginDeactivate, RosterWriting
<1>7. CASE Roster!Deactivate
  <2>1. PICK n \in pull.left : /\ row' = [row EXCEPT ![n].active = FALSE, ![n].absent = TRUE]
                               /\ pull' = [pull EXCEPT !.left = pull.left \ {n}]
    BY <1>7 DEF Roster!Deactivate
  <2>2. n \in Pins => row[n] \in Roster!Row BY <1>7, <2>1 DEF Roster!Deactivate, RosterWriting
  <2>3. row' \in [Pins -> Roster!Row \cup {None}] /\ \A m \in Pins : row[m] # None => row'[m] # None
    BY <2>1, <2>2, RosterRowEdits DEF RosterNone
  <2> QED BY <1>7, <2>1, <2>3 DEF Roster!Deactivate, RosterWriting
<1>8. CASE Roster!EndPull BY <1>8 DEF Roster!EndPull, RosterWriting
<1>9. CASE Roster!Leave BY <1>9 DEF Roster!Leave, Roster!Resting, Roster!Happens, RosterWriting
<1>10. CASE UNCHANGED Roster!vars BY <1>10 DEF Roster!vars
<1> QED BY <1>1, <1>2, <1>3, <1>4, <1>5, <1>6, <1>7, <1>8, <1>9, <1>10 DEF Roster!Next

LEMMA RosterAlwaysTyped == ASSUME RosterNone PROVE Roster!Spec => []RosterTyped
  BY RosterTypedInit, RosterTypedNext, PTL DEF Roster!Spec

LEMMA RosterCopiedNext ==
  ASSUME RosterNone
  PROVE  RosterTyped /\ RosterCopied /\ [Roster!Next]_(Roster!vars) => RosterCopied'
<1> SUFFICES ASSUME RosterTyped, RosterCopied, [Roster!Next]_(Roster!vars) PROVE RosterCopied'
  OBVIOUS
<1>1. CASE Roster!RosterChanges
  BY <1>1 DEF Roster!RosterChanges, Roster!Disturb, RosterTyped, RosterCopied
<1>2. CASE Roster!OwnerEdits
  BY <1>2 DEF Roster!OwnerEdits, Roster!Disturb, RosterTyped, RosterCopied
<1>3. CASE Roster!Fetch
  BY <1>3 DEF Roster!Fetch, Roster!Resting, RosterCopied
<1>4. CASE Roster!Upsert
  <2>1. CASE pull' = Roster!Resting BY <2>1 DEF Roster!Resting, RosterCopied
  <2>2. CASE pull' # Roster!Resting
    <3> SUFFICES ASSUME pull'.calm PROVE RosterCopied' BY DEF RosterCopied
    <3>1. /\ \A n \in Pins \ Roster!LivePins(pull.live) : row'[n] = row[n]
          /\ pull' = [pull EXCEPT !.pc = "reactivating", !.rows = row,
                                  !.left = IF Pos = "clover" THEN Roster!Returns(pull.live, row) ELSE {}]
      BY <1>4, <2>2, RosterUpsert
    <3>2. /\ pull'.pc = "reactivating" /\ pull'.rows = row /\ pull'.live = pull.live /\ pull.calm
          /\ pull'.left \subseteq Roster!LivePins(pull.live)
      BY <3>1 DEF RosterTyped, Roster!Returns
    <3>3. pull.live = staff /\ staff' = staff
      BY <1>4, <3>2 DEF RosterCopied, Roster!Upsert
    <3>4. Roster!LivePins(staff)' = Roster!LivePins(staff) BY <3>3 DEF Roster!LivePins, Roster!Listed
    <3> QED BY <3>1, <3>2, <3>3, <3>4 DEF RosterCopied
  <2> QED BY <2>1, <2>2
<1>5. CASE Roster!Reactivate
  <2>1. PICK n \in pull.left : /\ row' = [row EXCEPT ![n].active = TRUE, ![n].absent = FALSE]
                               /\ pull' = [pull EXCEPT !.left = pull.left \ {n}]
    BY <1>5 DEF Roster!Reactivate
  <2>2. Roster!LivePins(staff)' = Roster!LivePins(staff)
    BY <1>5 DEF Roster!Reactivate, Roster!LivePins, Roster!Listed
  <2> QED BY <1>5, <2>1, <2>2 DEF Roster!Reactivate, RosterTyped, RosterWriting, RosterCopied
<1>6. CASE Roster!BeginDeactivate
  <2>1. staff' = staff /\ row' = row /\ pull.pc = "reactivating" /\ pull'.pc = "deactivating"
        /\ pull'.live = pull.live /\ pull'.rows = pull.rows /\ pull'.calm = pull.calm
        /\ (Roster!LeavingIsSafe(pull.live, pull.rows) => pull'.left = Roster!Leavers(pull.live, pull.rows))
    BY <1>6 DEF Roster!BeginDeactivate, RosterTyped
  <2>2. Roster!LivePins(staff)' = Roster!LivePins(staff) /\ Roster!Managed(row)' = Roster!Managed(row)
    BY <2>1 DEF Roster!LivePins, Roster!Listed, Roster!Managed
  <2>3. ASSUME pull.calm, NEW n \in Roster!Managed(row), row[n].active, n \notin Roster!LivePins(staff)
        PROVE  n \in Roster!Leavers(pull.live, pull.rows)
    BY <2>1, <2>3 DEF RosterCopied, Roster!Managed, Roster!Leavers
  <2>4. pull.calm => pull.live = staff BY <2>1 DEF RosterCopied
  <2>5. Roster!LeavingIsSafe(pull.live, pull.rows)' <=> Roster!LeavingIsSafe(pull.live, pull.rows)
    BY <2>1 DEF Roster!LeavingIsSafe, Roster!Listed, Roster!Managed, Roster!Leavers, Roster!LivePins
  <2> QED BY <2>1, <2>2, <2>3, <2>4, <2>5 DEF RosterCopied
<1>7. CASE Roster!Deactivate
  <2>1. PICK n \in pull.left : /\ row' = [row EXCEPT ![n].active = FALSE, ![n].absent = TRUE]
                               /\ pull' = [pull EXCEPT !.left = pull.left \ {n}]
    BY <1>7 DEF Roster!Deactivate
  <2>2. staff' = staff /\ pull.pc = "deactivating" /\ pull'.pc = "deactivating"
        /\ pull'.live = pull.live /\ pull'.rows = pull.rows /\ pull'.calm = pull.calm
        /\ pull'.left = pull.left \ {n}
    BY <1>7, <2>1 DEF Roster!Deactivate, RosterTyped
  <2>3. Roster!LivePins(staff)' = Roster!LivePins(staff) BY <2>2 DEF Roster!LivePins, Roster!Listed
  <2>4. Roster!LeavingIsSafe(pull.live, pull.rows)' <=> Roster!LeavingIsSafe(pull.live, pull.rows)
    BY <2>2 DEF Roster!LeavingIsSafe, Roster!Listed, Roster!Managed, Roster!Leavers, Roster!LivePins
  <2>5. ASSUME NEW m \in Roster!Managed(row'), row'[m].active
        PROVE  m \in Roster!Managed(row) /\ row[m].active /\ m # n
    <3>1. m \in Pins /\ row' [m] # None /\ row'[m].who # None BY <2>5 DEF Roster!Managed
    <3>2. row \in [Pins -> Roster!Row \cup {None}] BY DEF RosterTyped
    <3>3. n \in Pins => row[n] \in Roster!Row BY <2>2, <3>2 DEF RosterTyped, RosterWriting
    <3>4. m # n
      <4> SUFFICES ASSUME m = n PROVE FALSE OBVIOUS
      <4>1. ~row'[m].active BY <2>1, <3>1, <3>2, <3>3 DEF Roster!Row
      <4> QED BY <2>5, <4>1
    <3>5. row'[m] = row[m] BY <2>1, <3>1, <3>2, <3>4
    <3> QED BY <2>5, <3>1, <3>4, <3>5 DEF Roster!Managed
  <2> QED BY <2>2, <2>3, <2>4, <2>5 DEF RosterCopied
<1>8. CASE Roster!EndPull
  <2>1. staff' = staff /\ row' = row /\ pull.pc = "deactivating" /\ pull'.pc = "pulled" /\ pull.left = {}
        /\ pull'.live = pull.live /\ pull'.rows = pull.rows /\ pull'.calm = pull.calm
    BY <1>8 DEF Roster!EndPull, RosterTyped
  <2>2. Roster!LivePins(staff)' = Roster!LivePins(staff) /\ Roster!Managed(row)' = Roster!Managed(row)
    BY <2>1 DEF Roster!LivePins, Roster!Listed, Roster!Managed
  <2>3. Roster!LeavingIsSafe(pull.live, pull.rows)' <=> Roster!LeavingIsSafe(pull.live, pull.rows)
    BY <2>1 DEF Roster!LeavingIsSafe, Roster!Listed, Roster!Managed, Roster!Leavers, Roster!LivePins
  <2> QED BY <2>1, <2>2, <2>3 DEF RosterCopied
<1>9. CASE Roster!Leave BY <1>9 DEF Roster!Leave, Roster!Resting, RosterCopied
<1>10. CASE UNCHANGED Roster!vars
  BY <1>10 DEF Roster!vars, RosterCopied, Roster!LivePins, Roster!Listed, Roster!Managed,
               Roster!LeavingIsSafe, Roster!Leavers
<1> QED BY <1>1, <1>2, <1>3, <1>4, <1>5, <1>6, <1>7, <1>8, <1>9, <1>10 DEF Roster!Next

\* fetch-employees.ts: a pull nobody disturbed leaves open only PINs that the POS
\* lists, when few enough are to close.
THEOREM NoPinIsOrphan == ASSUME RosterNone PROVE Roster!Spec => []Roster!NoOrphanPin
<1>1. Roster!Init => RosterCopied BY DEF Roster!Init, Roster!Resting, RosterCopied
<1>2. RosterTyped /\ RosterCopied /\ [Roster!Next]_(Roster!vars) => RosterCopied' BY RosterCopiedNext
<1>3. RosterTyped /\ RosterCopied => Roster!NoOrphanPin
  BY DEF RosterTyped, RosterCopied, Roster!NoOrphanPin
<1> QED BY <1>1, <1>2, <1>3, RosterAlwaysTyped, PTL DEF Roster!Spec

LEMMA RosterSparedNext ==
  ASSUME RosterNone
  PROVE  RosterTyped /\ RosterSpared /\ [Roster!Next]_(Roster!vars) => RosterSpared'
<1> SUFFICES ASSUME RosterTyped, RosterSpared, [Roster!Next]_(Roster!vars), used' \cap {"late", "lift"} = {}
             PROVE  RosterSpared'
  BY DEF RosterSpared
<1>a. used \subseteq used'
  BY DEF Roster!Next, Roster!vars, Roster!RosterChanges, Roster!OwnerEdits, Roster!Fetch, Roster!Upsert, Roster!Reactivate,
         Roster!BeginDeactivate, Roster!Deactivate, Roster!EndPull, Roster!Leave, Roster!Happens
<1>b. /\ \A n \in Pins : row[n] # None /\ row[n].active => ~row[n].absent
      /\ \A n \in stopped :
           /\ row[n] # None /\ ~row[n].active /\ ~row[n].absent
           /\ pull.pc \in RosterWriting => n \notin pull.left
           /\ pull.pc = "reactivating" => pull.rows[n] # None /\ ~pull.rows[n].active
  BY <1>a DEF RosterSpared
<1>c. row \in [Pins -> Roster!Row \cup {None}] /\ stopped \subseteq Pins BY DEF RosterTyped
<1>1. CASE Roster!RosterChanges
  <2>1. pull' = [pull EXCEPT !.calm = FALSE] /\ row' = row /\ stopped' \subseteq stopped
    BY <1>1 DEF Roster!RosterChanges, Roster!Disturb
  <2>2. pull'.pc = pull.pc /\ pull'.left = pull.left /\ pull'.rows = pull.rows
    BY <2>1 DEF RosterTyped
  <2> QED BY <1>b, <2>1, <2>2 DEF RosterSpared
<1>2. CASE Roster!OwnerEdits
  <2>1. pull' = [pull EXCEPT !.calm = FALSE] BY <1>2 DEF Roster!OwnerEdits, Roster!Disturb
  <2>2. pull'.pc = pull.pc /\ pull'.left = pull.left /\ pull'.rows = pull.rows
    BY <2>1 DEF RosterTyped
  <2>3. PICK n \in Pins :
          \/ /\ row[n] = None
             /\ \E r \in {"waiter", "admin"} :
                  row' = [row EXCEPT ![n] = [who |-> None, role |-> r, active |-> TRUE, absent |-> FALSE]]
             /\ stopped' = stopped
          \/ /\ row[n] # None /\ row[n].active /\ pull.pc = "idle"
             /\ row' = [row EXCEPT ![n].active = FALSE] /\ stopped' \subseteq stopped \cup {n}
    BY <1>2 DEF Roster!OwnerEdits, Roster!Happens
  <2>4. CASE row[n] = None
    BY <1>b, <1>c, <2>2, <2>3, <2>4 DEF RosterSpared
  <2>5. CASE row[n] # None
    <3>1. row[n] \in Roster!Row /\ [row[n] EXCEPT !.active = FALSE] \in Roster!Row
      BY <1>c, <2>5, RosterRowEdits
    <3>2. row' = [row EXCEPT ![n] = [row[n] EXCEPT !.active = FALSE]] BY <2>3, <2>5
    <3>3. row'[n] # None /\ ~row'[n].active /\ ~row'[n].absent
      BY <1>b, <1>c, <2>3, <2>5, <3>1, <3>2 DEF RosterNone, Roster!Row
    <3>4. \A m \in Pins \ {n} : row'[m] = row[m] BY <1>c, <3>2
    <3>5. pull.pc = "idle" /\ stopped' \subseteq stopped \cup {n} BY <2>3, <2>5
    <3> QED BY <1>b, <1>c, <2>2, <3>3, <3>4, <3>5 DEF RosterSpared, RosterWriting
  <2> QED BY <2>4, <2>5
<1>3. CASE Roster!Fetch
  <2>1. pull'.pc = "fetched" /\ row' = row /\ stopped' = stopped BY <1>3 DEF Roster!Fetch, Roster!Resting
  <2> QED BY <1>b, <2>1 DEF RosterSpared, RosterWriting
<1>4. CASE Roster!Upsert
  <2>0. stopped' = stopped BY <1>4 DEF Roster!Upsert
  <2>1. CASE pull' = Roster!Resting
    <3>1. row' = row
      BY <1>4, <2>1 DEF Roster!Upsert, Roster!Resting, RosterTyped
    <3> QED BY <1>b, <2>0, <2>1, <3>1 DEF RosterSpared, Roster!Resting, RosterWriting
  <2>2. CASE pull' # Roster!Resting
    <3>1. /\ \A n \in Pins :
              /\ row[n] # None => /\ row'[n] # None
                                  /\ n \notin RosterBack => /\ row'[n].active = row[n].active
                                                            /\ row'[n].absent = row[n].absent
                                  /\ n \in RosterBack => row'[n].active /\ ~row'[n].absent
              /\ row[n] = None /\ row'[n] # None => ~row'[n].absent
          /\ pull' = [pull EXCEPT !.pc = "reactivating", !.rows = row,
                                  !.left = IF Pos = "clover" THEN Roster!Returns(pull.live, row) ELSE {}]
      BY <1>4, <2>2, RosterUpsert
    <3>2. \A n \in Roster!Returns(pull.live, row) : row[n].absent BY DEF Roster!Returns
    <3>3. \A n \in stopped : n \notin RosterBack /\ n \notin Roster!Returns(pull.live, row)
      BY <1>b, <3>2 DEF RosterBack
    <3>4. pull'.rows = row /\ pull'.left \subseteq Roster!Returns(pull.live, row)
      BY <3>1 DEF RosterTyped
    <3> QED BY <1>b, <1>c, <2>0, <3>1, <3>3, <3>4 DEF RosterSpared
  <2> QED BY <2>1, <2>2
<1>5. CASE Roster!Reactivate
  <2>1. PICK n \in pull.left : /\ row' = [row EXCEPT ![n].active = TRUE, ![n].absent = FALSE]
                               /\ pull' = [pull EXCEPT !.left = pull.left \ {n}]
    BY <1>5 DEF Roster!Reactivate
  <2>2. /\ pull'.pc = pull.pc /\ pull'.left = pull.left \ {n} /\ pull'.rows = pull.rows /\ n \notin stopped
        /\ stopped' = stopped
    BY <1>5, <1>b, <2>1 DEF Roster!Reactivate, RosterTyped, RosterWriting
  <2>3. \A m \in Pins \ {n} : row'[m] = row[m] BY <1>c, <2>1
  <2>4. n \in Pins => ~row'[n].absent
    <3>1. n \in Pins => row[n] \in Roster!Row BY <1>5, <1>c DEF Roster!Reactivate, RosterTyped, RosterWriting
    <3> QED BY <1>c, <2>1, <3>1 DEF Roster!Row
  <2> QED BY <1>b, <1>c, <2>2, <2>3, <2>4 DEF RosterSpared
<1>6. CASE Roster!BeginDeactivate
  <2>1. PICK left \in SUBSET Roster!Leavers(pull.live, pull.rows) :
          pull' = [pull EXCEPT !.pc = "deactivating", !.left = left]
    BY <1>6 DEF Roster!BeginDeactivate
  <2>2. pull'.left = left /\ pull'.pc = "deactivating" BY <2>1 DEF RosterTyped
  <2>3. row' = row /\ stopped' = stopped /\ pull.pc = "reactivating" BY <1>6 DEF Roster!BeginDeactivate
  <2>4. \A n \in left : pull.rows[n].active BY DEF Roster!Leavers
  <2> QED BY <1>b, <2>2, <2>3, <2>4 DEF RosterSpared
<1>7. CASE Roster!Deactivate
  <2>1. PICK n \in pull.left : /\ row' = [row EXCEPT ![n].active = FALSE, ![n].absent = TRUE]
                               /\ pull' = [pull EXCEPT !.left = pull.left \ {n}]
    BY <1>7 DEF Roster!Deactivate
  <2>2. /\ pull'.pc = "deactivating" /\ pull'.left = pull.left \ {n} /\ n \notin stopped
        /\ stopped' = stopped
    BY <1>7, <1>b, <2>1 DEF Roster!Deactivate, RosterTyped, RosterWriting
  <2>3. \A m \in Pins \ {n} : row'[m] = row[m] BY <1>c, <2>1
  <2>4. n \in Pins => ~row'[n].active
    <3>1. n \in Pins => row[n] \in Roster!Row BY <1>7, <1>c DEF Roster!Deactivate, RosterTyped, RosterWriting
    <3> QED BY <1>c, <2>1, <3>1 DEF Roster!Row
  <2> QED BY <1>7, <1>b, <1>c, <2>2, <2>3, <2>4 DEF RosterSpared, Roster!Deactivate, RosterWriting
<1>8. CASE Roster!EndPull
  BY <1>8, <1>b DEF Roster!EndPull, RosterTyped, RosterSpared, RosterWriting
<1>9. CASE Roster!Leave BY <1>9, <1>b DEF Roster!Leave, Roster!Resting, RosterSpared, RosterWriting
<1>10. CASE UNCHANGED Roster!vars BY <1>10, <1>b DEF Roster!vars, RosterSpared
<1> QED BY <1>1, <1>2, <1>3, <1>4, <1>5, <1>6, <1>7, <1>8, <1>9, <1>10 DEF Roster!Next

\* fetch-employees.ts: a PIN the owner suspended is not opened by a pull while its
\* person is listed.
THEOREM SuspendedStaysClosed == ASSUME RosterNone PROVE Roster!Spec => []Roster!SuspendedStays
<1>1. Roster!Init => RosterSpared BY DEF Roster!Init, RosterSpared
<1>2. RosterTyped /\ RosterSpared /\ [Roster!Next]_(Roster!vars) => RosterSpared' BY RosterSparedNext
<1>3. RosterSpared => Roster!SuspendedStays BY DEF RosterSpared, Roster!SuspendedStays
<1> QED BY <1>1, <1>2, <1>3, RosterAlwaysTyped, PTL DEF Roster!Spec

---------------------------------------------------------------------------
(* CloverCatalog.  A name typed in MCM stands in the row and in what every *)
(* sweep read of it, over another baseline, so that the merge puts it back.*)

\* A row has a name; fetch_item_stock is no execution of fetch_products.
CatalogNone == None \notin Catalog!Row \cup Names /\ Catalog!Stock \notin Lanes /\ Names # {}

CatalogShape(l) == l = [pc |-> l.pc, table |-> l.table, snap |-> l.snap, complete |-> l.complete,
                        rows |-> l.rows, left |-> l.left, calm |-> l.calm]

CatalogTyped ==
  /\ item \in [Catalog!Elems -> Catalog!Item] /\ row \in [Catalog!Elems -> Catalog!Row \cup {None}]
  /\ kept \in [Catalog!Elems -> Names \cup {None}] /\ busy \subseteq Catalog!Elems
  /\ DOMAIN lane = Lanes \cup {Catalog!Stock}
  /\ \A k \in Lanes \cup {Catalog!Stock} : CatalogShape(lane[k])

\* What a sweep holds is of its table, and of rows that are there.
CatalogHeld ==
  /\ \A k \in Lanes : \A e \in Catalog!Rows(lane[k].table) :
       /\ lane[k].pc # "idle" => lane[k].snap[e] \in Catalog!Item
       /\ lane[k].pc \in {"merging", "archiving", "swept"} =>
            lane[k].rows[e] \in Catalog!Row \cup {None} /\ (lane[k].rows[e] # None => row[e] # None)
  /\ \A k \in Lanes : lane[k].pc \in {"merging", "archiving"} =>
       \A e \in lane[k].left : /\ e \in Catalog!Rows(lane[k].table)
                               /\ lane[k].pc = "archiving" => lane[k].rows[e] # None
  /\ lane[Catalog!Stock].pc = "merging" =>
       \A e \in lane[Catalog!Stock].left : e \in Catalog!Elems /\ row[e] # None

\* What a sweep that is not the one at work becomes.
CatalogOther(j) ==
  /\ lane'[j].pc = lane[j].pc /\ lane'[j].table = lane[j].table /\ lane'[j].snap = lane[j].snap
  /\ lane'[j].rows = lane[j].rows /\ lane'[j].left = lane[j].left /\ lane'[j].calm = FALSE

LEMMA CatalogLane ==
  ASSUME CatalogTyped, NEW k, NEW l, Catalog!Lane(k, l),
         CatalogShape(l)
  PROVE  /\ DOMAIN lane' = Lanes \cup {Catalog!Stock}
         /\ \A j \in Lanes \cup {Catalog!Stock} :
              /\ CatalogShape(lane'[j])
              /\ IF j = k THEN lane'[j] = l ELSE CatalogOther(j)
<1>1. DOMAIN lane' = Lanes \cup {Catalog!Stock} BY DEF Catalog!Lane, CatalogTyped
<1>2. ASSUME NEW j \in Lanes \cup {Catalog!Stock}
      PROVE  IF j = k THEN lane'[j] = l ELSE lane'[j] = [lane[j] EXCEPT !.calm = FALSE]
  BY <1>2 DEF Catalog!Lane, CatalogTyped
<1>3. ASSUME NEW j \in Lanes \cup {Catalog!Stock}, j # k
      PROVE  /\ CatalogShape(lane'[j])
             /\ CatalogOther(j)
  <2>1. ASSUME NEW x, NEW y, CatalogShape(x), y = [x EXCEPT !.calm = FALSE]
        PROVE  /\ CatalogShape(y)
               /\ y.pc = x.pc /\ y.table = x.table /\ y.snap = x.snap /\ y.rows = x.rows /\ y.left = x.left
               /\ y.calm = FALSE
    BY <2>1 DEF CatalogShape
  <2>2. lane'[j] = [lane[j] EXCEPT !.calm = FALSE] BY <1>2, <1>3
  <2>3. CatalogShape(lane[j])
    BY <1>3 DEF CatalogTyped
  <2> QED BY <2>1, <2>2, <2>3 DEF CatalogOther
<1> QED BY <1>1, <1>2, <1>3

LEMMA CatalogDisturb ==
  ASSUME CatalogTyped, Catalog!Disturb
  PROVE  /\ DOMAIN lane' = Lanes \cup {Catalog!Stock}
         /\ \A j \in Lanes \cup {Catalog!Stock} :
              /\ CatalogShape(lane'[j])
              /\ CatalogOther(j)
<1>1. DOMAIN lane' = Lanes \cup {Catalog!Stock} BY DEF Catalog!Disturb, CatalogTyped
<1>2. ASSUME NEW j \in Lanes \cup {Catalog!Stock} PROVE lane'[j] = [lane[j] EXCEPT !.calm = FALSE]
  BY <1>2 DEF Catalog!Disturb, CatalogTyped
<1>3. ASSUME NEW j \in Lanes \cup {Catalog!Stock}
      PROVE  /\ CatalogShape(lane'[j])
             /\ CatalogOther(j)
  <2>1. ASSUME NEW x, NEW y, CatalogShape(x), y = [x EXCEPT !.calm = FALSE]
        PROVE  /\ CatalogShape(y)
               /\ y.pc = x.pc /\ y.table = x.table /\ y.snap = x.snap /\ y.rows = x.rows /\ y.left = x.left
               /\ y.calm = FALSE
    BY <2>1 DEF CatalogShape
  <2>2. lane'[j] = [lane[j] EXCEPT !.calm = FALSE] BY <1>2, <1>3
  <2>3. CatalogShape(lane[j])
    BY <1>3 DEF CatalogTyped
  <2> QED BY <2>1, <2>2, <2>3 DEF CatalogOther
<1> QED BY <1>1, <1>2, <1>3

LEMMA CatalogFirst == ASSUME NEW S, S # {} PROVE Catalog!First(S) \in S
  BY DEF Catalog!First

\* The row a sweep wants is a row; what stands of the one read is its name.
LEMMA CatalogWanted ==
  ASSUME NEW e \in Catalog!Elems, NEW s \in Catalog!Item, NEW prev \in Catalog!Row
  PROVE  /\ Catalog!FromClover(e, s) \in Catalog!Row
         /\ Catalog!FromClover(e, s).stock =
              IF Table[e] \in {"product", "modifier"} /\ s.state = "out" THEN "out" ELSE "in"
         /\ ~Catalog!FromClover(e, s).archived
         /\ LET new == Catalog!Protected(prev, Catalog!FromClover(e, s))
                r   == Catalog!Written(e, prev, new)
            IN /\ new \in Catalog!Row /\ r \in Catalog!Row
               /\ new.stock = Catalog!FromClover(e, s).stock /\ r.stock = new.stock /\ ~new.archived /\ ~r.archived
               /\ r.baseline = s.name /\ ~r.adopt
               /\ Catalog!Overridden(prev, s.name) => r.name = prev.name
<1> DEFINE f == Catalog!FromClover(e, s)
<1>1. /\ f \in Catalog!Row /\ f.name = s.name /\ ~f.adopt /\ ~f.archived
      /\ f.stock = IF Table[e] \in {"product", "modifier"} /\ s.state = "out" THEN "out" ELSE "in"
  BY DEF Catalog!FromClover, Catalog!Row, Catalog!Item
<1> HIDE DEF f
<1> DEFINE new == Catalog!Protected(prev, f)
<1>2. /\ new \in Catalog!Row /\ new.baseline = f.name /\ new.adopt = f.adopt /\ new.archived = f.archived
      /\ new.stock = f.stock /\ (Catalog!Overridden(prev, f.name) => new.name = prev.name)
  BY <1>1 DEF Catalog!Protected, Catalog!Row, Catalog!Item, Catalog!Overridden
<1> HIDE DEF new
<1> DEFINE r == Catalog!Written(e, prev, new)
<1>3. /\ r \in Catalog!Row /\ r.baseline = new.baseline /\ r.adopt = new.adopt /\ r.archived = new.archived
      /\ r.stock = new.stock /\ r.name = new.name
  BY <1>2 DEF Catalog!Written, Catalog!Row
<1> QED BY <1>1, <1>2, <1>3 DEF f, new, r

\* On sale, or sold out, as Clover has it.
CatalogStocked(r, s) == ~r.archived /\ r.stock = IF s.state = "out" THEN "out" ELSE "in"

CatalogMerged(k, e, r) ==
  LET s    == lane[k].snap[e]
      prev == lane[k].rows[e]
  IN /\ e \in Catalog!Rows(lane[k].table) /\ row' = [row EXCEPT ![e] = r]
     /\ s \in Catalog!Item
     /\ r = row[e] \/ ~r.archived
     /\ kept' = [kept EXCEPT ![e] = IF kept[e] = s.name THEN None ELSE kept[e]]
     /\ Catalog!Lane(k, [lane[k] EXCEPT !.left = lane[k].left \ {e}])
     /\ prev # None => /\ prev \in Catalog!Row
                       /\ \/ r = row[e]
                          \/ /\ r.baseline = s.name /\ ~r.adopt
                             /\ Catalog!Overridden(prev, s.name) => r.name = prev.name
     /\ Table[e] = "product" =>
          (r = row[e] /\ prev # None /\ CatalogStocked(prev, s)) \/ CatalogStocked(r, s)

LEMMA CatalogMerge ==
  ASSUME CatalogNone, CatalogTyped, CatalogHeld, NEW k \in Lanes, Catalog!MergeRow(k)
  PROVE  \E e \in lane[k].left : \E r \in Catalog!Row : CatalogMerged(k, e, r)
<1> DEFINE e    == Catalog!First(lane[k].left)
           s    == lane[k].snap[e]
           prev == lane[k].rows[e]
           f    == Catalog!FromClover(e, s)
           new  == Catalog!Protected(prev, f)
<1>1. /\ lane[k].pc = "merging" /\ lane[k].left # {}
      /\ IF prev = None THEN row' = [row EXCEPT ![e] = IF row[e] = None \/ Table[e] = "product" THEN f ELSE row[e]]
         ELSE row' = [row EXCEPT ![e] = IF Catalog!Changed(e, prev, new) THEN Catalog!Written(e, prev, new) ELSE row[e]]
      /\ kept' = [kept EXCEPT ![e] = IF kept[e] = s.name THEN None ELSE kept[e]]
      /\ Catalog!Lane(k, [lane[k] EXCEPT !.left = lane[k].left \ {e}])
  BY DEF Catalog!MergeRow, Catalog!Insert
<1>2. e \in lane[k].left BY <1>1, CatalogFirst
<1> HIDE DEF e
<1>3. e \in Catalog!Rows(lane[k].table) /\ e \in Catalog!Elems BY <1>1, <1>2 DEF CatalogHeld, Catalog!Rows
<1>4. s \in Catalog!Item /\ prev \in Catalog!Row \cup {None} /\ (prev # None => row[e] # None)
  BY <1>1, <1>3 DEF CatalogHeld
<1>5. row[e] \in Catalog!Row \cup {None} BY <1>3 DEF CatalogTyped
<1> HIDE DEF s, prev, CatalogMerged
<1>6. f \in Catalog!Row /\ ~f.archived /\ (Table[e] = "product" => CatalogStocked(f, s))
  <2>1. f \in Catalog!Row BY <1>4 DEF Catalog!FromClover, Catalog!Row, Catalog!Item
  <2> QED BY <1>3, <1>4, <2>1, CatalogWanted DEF CatalogStocked
<1>7. CASE prev = None
  <2>1. CASE row[e] = None \/ Table[e] = "product"
    <3>1. row' = [row EXCEPT ![e] = f] BY <1>1, <1>7, <2>1
    <3> QED BY <1>1, <1>2, <1>3, <1>4, <1>6, <1>7, <3>1 DEF s, prev, CatalogMerged
  <2>2. CASE row[e] # None /\ Table[e] # "product"
    <3>1. row' = [row EXCEPT ![e] = row[e]] BY <1>1, <1>7, <2>2
    <3>2. row[e] \in Catalog!Row BY <1>5, <2>2
    <3> QED BY <1>1, <1>2, <1>3, <1>4, <1>7, <2>2, <3>1, <3>2 DEF s, prev, CatalogMerged
  <2> QED BY <2>1, <2>2
<1>8. CASE prev # None
  <2>0. prev \in Catalog!Row /\ row[e] \in Catalog!Row BY <1>4, <1>5, <1>8
  <2>1. CASE Catalog!Changed(e, prev, new)
    <3> DEFINE r == Catalog!Written(e, prev, new)
    <3>1. row' = [row EXCEPT ![e] = r] BY <1>1, <1>8, <2>1
    <3>2. /\ r \in Catalog!Row /\ ~r.archived /\ r.baseline = s.name /\ ~r.adopt /\ r.stock = f.stock
          /\ Catalog!Overridden(prev, s.name) => r.name = prev.name
      BY <1>3, <1>4, <2>0, CatalogWanted
    <3> HIDE DEF r, f, new
    <3>3. Table[e] = "product" => CatalogStocked(r, s) BY <1>6, <3>2 DEF CatalogStocked
    <3> QED BY <1>1, <1>2, <1>3, <1>4, <2>0, <3>1, <3>2, <3>3 DEF s, prev, CatalogMerged
  <2>2. CASE ~Catalog!Changed(e, prev, new)
    <3>1. row' = [row EXCEPT ![e] = row[e]] BY <1>1, <1>8, <2>2
    <3>2. new.stock = f.stock BY <1>3, <1>4, <2>0, CatalogWanted
    <3> HIDE DEF new, f
    <3>3. Table[e] = "product" => CatalogStocked(prev, s)
      BY <1>6, <2>2, <3>2 DEF Catalog!Changed, CatalogStocked
    <3> QED BY <1>1, <1>2, <1>3, <1>4, <1>8, <2>0, <3>1, <3>3 DEF s, prev, CatalogMerged
  <2> QED BY <2>1, <2>2
<1> QED BY <1>7, <1>8

LEMMA CatalogArchive ==
  ASSUME CatalogNone, CatalogTyped, CatalogHeld, NEW k \in Lanes, Catalog!ArchiveRow(k)
  PROVE  \E e \in lane[k].left : \E r \in Catalog!Row :
           /\ e \in Catalog!Rows(lane[k].table) /\ row' = [row EXCEPT ![e] = r]
           /\ lane[k].rows[e] \in Catalog!Row /\ row[e] \in Catalog!Row
           /\ r.name = row[e].name /\ r.baseline = lane[k].rows[e].baseline /\ r.adopt = lane[k].rows[e].adopt
           /\ Catalog!Lane(k, [lane[k] EXCEPT !.left = lane[k].left \ {e}])
<1> DEFINE e    == Catalog!First(lane[k].left)
           prev == lane[k].rows[e]
           r    == [row[e] EXCEPT !.archived = TRUE, !.baseline = prev.baseline, !.noted = prev.noted, !.adopt = prev.adopt,
                     !.status = IF Table[e] \in {"product", "category"} THEN "draft" ELSE @,
                     !.stock = IF Table[e] \in {"product", "modifier"} THEN "out" ELSE @]
<1>1. /\ lane[k].pc = "archiving" /\ lane[k].left # {} /\ row' = [row EXCEPT ![e] = r]
      /\ Catalog!Lane(k, [lane[k] EXCEPT !.left = lane[k].left \ {e}])
  BY DEF Catalog!ArchiveRow
<1>2. e \in lane[k].left BY <1>1, CatalogFirst
<1> HIDE DEF e
<1>3. e \in Catalog!Rows(lane[k].table) /\ prev # None BY <1>1, <1>2 DEF CatalogHeld
<1>4. prev \in Catalog!Row /\ row[e] # None BY <1>1, <1>3 DEF CatalogHeld
<1>5. row[e] \in Catalog!Row BY <1>3, <1>4 DEF CatalogTyped, Catalog!Rows
<1> HIDE DEF prev
<1>6. r \in Catalog!Row /\ r.name = row[e].name /\ r.baseline = prev.baseline /\ r.adopt = prev.adopt
  BY <1>4, <1>5 DEF Catalog!Row
<1> HIDE DEF r
<1> QED BY <1>1, <1>2, <1>3, <1>4, <1>5, <1>6 DEF prev

LEMMA CatalogStock ==
  ASSUME CatalogNone, CatalogTyped, CatalogHeld, Catalog!StockWrites
  PROVE  \E e \in lane[Catalog!Stock].left : \E r \in Catalog!Row :
           /\ e \in Catalog!Elems /\ row' = [row EXCEPT ![e] = r] /\ row[e] \in Catalog!Row
           /\ r.name = row[e].name /\ r.baseline = row[e].baseline /\ r.adopt = row[e].adopt
           /\ r.archived = row[e].archived
           /\ Catalog!Lane(Catalog!Stock, [lane[Catalog!Stock] EXCEPT !.left = lane[Catalog!Stock].left \ {e}])
<1> DEFINE e      == Catalog!First(lane[Catalog!Stock].left)
           sold   == lane[Catalog!Stock].snap[e].state = "sold"
           stock  == IF sold THEN "in" ELSE "out"
           status == IF sold THEN "published" ELSE "draft"
<1>1. /\ lane[Catalog!Stock].pc = "merging" /\ lane[Catalog!Stock].left # {}
      /\ row' = row \/ row' = [row EXCEPT ![e].stock = stock, ![e].status = status]
      /\ Catalog!Lane(Catalog!Stock, [lane[Catalog!Stock] EXCEPT !.left = lane[Catalog!Stock].left \ {e}])
  BY DEF Catalog!StockWrites
<1>2. e \in lane[Catalog!Stock].left BY <1>1, CatalogFirst
<1>3. stock \in {"in", "out"} /\ status \in {"published", "draft"} OBVIOUS
<1> HIDE DEF e, stock, status
<1>4. e \in Catalog!Elems /\ row[e] # None BY <1>1, <1>2 DEF CatalogHeld
<1>5. row[e] \in Catalog!Row /\ DOMAIN row = Catalog!Elems BY <1>4 DEF CatalogTyped
<1>6. PICK r : row' = [row EXCEPT ![e] = r] /\ r \in {row[e], [row[e] EXCEPT !.stock = stock, !.status = status]}
  <2>1. CASE row' = row BY <2>1, <1>4, <1>5 DEF CatalogTyped
  <2>2. CASE row' = [row EXCEPT ![e].stock = stock, ![e].status = status] BY <2>2, <1>4, <1>5
  <2> QED BY <1>1, <2>1, <2>2
<1>7. /\ r \in Catalog!Row /\ r.name = row[e].name /\ r.baseline = row[e].baseline /\ r.adopt = row[e].adopt
      /\ r.archived = row[e].archived
  BY <1>3, <1>5, <1>6 DEF Catalog!Row
<1> QED BY <1>1, <1>2, <1>4, <1>5, <1>6, <1>7

\* What a sweep becomes when it is the one at work.
CatalogLike(l, x) == l.table = x.table /\ l.snap = x.snap /\ l.calm = x.calm

\* What a sweep hides is gone from Clover and, unless its look for open orders
\* failed, not in use.
CatalogHides(es, x) == es \subseteq Catalog!Gone(x) /\ ("unseen" \notin used' => es \cap busy = {})

LEMMA CatalogOwn ==
  ASSUME CatalogTyped, NEW k \in Lanes
  PROVE  /\ Catalog!Fetch(k) =>
              \E l : /\ Catalog!Lane(k, l) /\ CatalogShape(l) /\ l.pc = "fetched"
                     /\ \A e \in Catalog!Rows(l.table) : l.snap[e] \in Catalog!Item /\ (l.calm => l.snap[e] = item[e])
         /\ Catalog!ReadRows(k) =>
              \E l : /\ Catalog!Lane(k, l) /\ CatalogShape(l) /\ CatalogLike(l, lane[k]) /\ l.pc = "merging"
                     /\ l.rows = Catalog!Of(lane[k].table, row) /\ l.left = Catalog!Present(lane[k])
         /\ \A es : LET l == [lane[k] EXCEPT !.left = es]
                    IN CatalogShape(l) /\ CatalogLike(l, lane[k]) /\ l.pc = lane[k].pc /\ l.rows = lane[k].rows /\ l.left = es
         /\ Catalog!BeginArchive(k) =>
              \E l : /\ Catalog!Lane(k, l) /\ CatalogShape(l) /\ CatalogLike(l, lane[k]) /\ l.pc = "archiving"
                     /\ l.rows = lane[k].rows /\ CatalogHides(l.left, lane[k])
         /\ Catalog!EndSweep(k) =>
              \E l : /\ Catalog!Lane(k, l) /\ CatalogShape(l) /\ CatalogLike(l, lane[k]) /\ l.pc = "swept"
                     /\ l.rows = lane[k].rows
         /\ Catalog!Leave(k) => \E l : Catalog!Lane(k, l) /\ CatalogShape(l) /\ l.pc = "idle"
<1>1. CatalogShape(lane[k]) BY DEF CatalogTyped, CatalogShape
<1>2. ASSUME Catalog!Fetch(k)
      PROVE  \E l : /\ Catalog!Lane(k, l) /\ CatalogShape(l) /\ l.pc = "fetched"
                    /\ \A e \in Catalog!Rows(l.table) : l.snap[e] \in Catalog!Item /\ (l.calm => l.snap[e] = item[e])
  <2>1. PICK t :
       \/ Catalog!Lane(k, [Catalog!Resting EXCEPT !.pc = "fetched", !.table = t, !.snap = Catalog!Of(t, item)])
       \/ \E e \in Catalog!Rows(t) : \E c :
            Catalog!Lane(k, [Catalog!Resting EXCEPT !.pc = "fetched", !.table = t, !.complete = c,
                                       !.snap = [Catalog!Of(t, item) EXCEPT ![e].state = "gone"], !.calm = FALSE])
    BY <1>2 DEF Catalog!Fetch
  <2>2. \A e \in Catalog!Rows(t) : Catalog!Of(t, item)[e] = item[e] /\ item[e] \in Catalog!Item
    BY DEF CatalogTyped, Catalog!Of, Catalog!Rows
  <2>3. CASE Catalog!Lane(k, [Catalog!Resting EXCEPT !.pc = "fetched", !.table = t, !.snap = Catalog!Of(t, item)])
    <3>1. PICK l : l = [Catalog!Resting EXCEPT !.pc = "fetched", !.table = t, !.snap = Catalog!Of(t, item)] OBVIOUS
    <3>2. CatalogShape(l) /\ l.pc = "fetched" /\ l.table = t /\ l.snap = Catalog!Of(t, item)
      BY <3>1 DEF Catalog!Resting, CatalogShape
    <3>3. \A e \in Catalog!Rows(l.table) : l.snap[e] \in Catalog!Item /\ (l.calm => l.snap[e] = item[e]) BY <2>2, <3>2
    <3>4. Catalog!Lane(k, l) BY <2>3, <3>1
    <3> QED BY <3>2, <3>3, <3>4
  <2>4. CASE \E e \in Catalog!Rows(t) : \E c :
            Catalog!Lane(k, [Catalog!Resting EXCEPT !.pc = "fetched", !.table = t, !.complete = c,
                                       !.snap = [Catalog!Of(t, item) EXCEPT ![e].state = "gone"], !.calm = FALSE])
    <3>0. PICK e \in Catalog!Rows(t) : \E c :
            Catalog!Lane(k, [Catalog!Resting EXCEPT !.pc = "fetched", !.table = t, !.complete = c,
                                       !.snap = [Catalog!Of(t, item) EXCEPT ![e].state = "gone"], !.calm = FALSE])
      BY <2>4
    <3>1. PICK c :
            Catalog!Lane(k, [Catalog!Resting EXCEPT !.pc = "fetched", !.table = t, !.complete = c,
                                       !.snap = [Catalog!Of(t, item) EXCEPT ![e].state = "gone"], !.calm = FALSE])
      BY <3>0
    <3>2. PICK s : s = [Catalog!Of(t, item) EXCEPT ![e].state = "gone"] OBVIOUS
    <3>3. s = [Catalog!Of(t, item) EXCEPT ![e] = [Catalog!Of(t, item)[e] EXCEPT !.state = "gone"]] BY <3>2
    <3>4. [item[e] EXCEPT !.state = "gone"] \in Catalog!Item BY <2>2 DEF Catalog!Item
    <3>5. \A d \in Catalog!Rows(t) : s[d] \in Catalog!Item BY <2>2, <3>3, <3>4 DEF Catalog!Of
    <3>6. PICK l : l = [Catalog!Resting EXCEPT !.pc = "fetched", !.table = t, !.complete = c, !.snap = s, !.calm = FALSE]
      OBVIOUS
    <3>7. CatalogShape(l) /\ l.pc = "fetched" /\ l.table = t /\ l.snap = s /\ l.calm = FALSE
      BY <3>6 DEF Catalog!Resting, CatalogShape
    <3> QED BY <3>1, <3>2, <3>5, <3>6, <3>7
  <2> QED BY <2>1, <2>3, <2>4
<1>3. ASSUME Catalog!ReadRows(k)
      PROVE  \E l : /\ Catalog!Lane(k, l) /\ CatalogShape(l) /\ CatalogLike(l, lane[k]) /\ l.pc = "merging"
                    /\ l.rows = Catalog!Of(lane[k].table, row) /\ l.left = Catalog!Present(lane[k])
  <2>1. PICK l : l = [lane[k] EXCEPT !.pc = "merging", !.rows = Catalog!Of(lane[k].table, row),
                                     !.left = Catalog!Present(lane[k])]
    OBVIOUS
  <2>2. /\ CatalogShape(l) /\ CatalogLike(l, lane[k]) /\ l.pc = "merging"
        /\ l.rows = Catalog!Of(lane[k].table, row) /\ l.left = Catalog!Present(lane[k])
    BY <1>1, <2>1 DEF CatalogShape, CatalogLike
  <2> QED BY <1>3, <2>1, <2>2 DEF Catalog!ReadRows
<1>4. ASSUME Catalog!BeginArchive(k)
      PROVE  \E l : /\ Catalog!Lane(k, l) /\ CatalogShape(l) /\ CatalogLike(l, lane[k]) /\ l.pc = "archiving"
                    /\ l.rows = lane[k].rows /\ CatalogHides(l.left, lane[k])
  <2>1. PICK es : /\ CatalogHides(es, lane[k])
                  /\ Catalog!Lane(k, [lane[k] EXCEPT !.pc = "archiving", !.left = es])
    BY <1>4 DEF Catalog!BeginArchive, Catalog!Happens, CatalogHides
  <2>2. PICK l : l = [lane[k] EXCEPT !.pc = "archiving", !.left = es] OBVIOUS
  <2>3. /\ CatalogShape(l) /\ CatalogLike(l, lane[k]) /\ l.pc = "archiving" /\ l.rows = lane[k].rows /\ l.left = es
    BY <1>1, <2>2 DEF CatalogShape, CatalogLike
  <2> QED BY <2>1, <2>2, <2>3
<1>5. ASSUME NEW es
      PROVE  LET l == [lane[k] EXCEPT !.left = es]
             IN CatalogShape(l) /\ CatalogLike(l, lane[k]) /\ l.pc = lane[k].pc /\ l.rows = lane[k].rows /\ l.left = es
  <2>1. PICK l : l = [lane[k] EXCEPT !.left = es] OBVIOUS
  <2>2. CatalogShape(l) /\ CatalogLike(l, lane[k]) /\ l.pc = lane[k].pc /\ l.rows = lane[k].rows /\ l.left = es
    BY <1>1, <2>1 DEF CatalogShape, CatalogLike
  <2> QED BY <2>1, <2>2
<1>6. ASSUME Catalog!EndSweep(k)
      PROVE  \E l : /\ Catalog!Lane(k, l) /\ CatalogShape(l) /\ CatalogLike(l, lane[k]) /\ l.pc = "swept"
                    /\ l.rows = lane[k].rows
  <2>1. PICK l : l = [lane[k] EXCEPT !.pc = "swept"] OBVIOUS
  <2>2. CatalogShape(l) /\ CatalogLike(l, lane[k]) /\ l.pc = "swept" /\ l.rows = lane[k].rows
    BY <1>1, <2>1 DEF CatalogShape, CatalogLike
  <2> QED BY <1>6, <2>1, <2>2 DEF Catalog!EndSweep
<1>7. ASSUME Catalog!Leave(k) PROVE \E l : Catalog!Lane(k, l) /\ CatalogShape(l) /\ l.pc = "idle"
  <2>1. CatalogShape(Catalog!Resting) /\ Catalog!Resting.pc = "idle" BY DEF Catalog!Resting, CatalogShape
  <2> QED BY <1>7, <2>1 DEF Catalog!Leave
<1> QED BY <1>2, <1>3, <1>4, <1>5, <1>6, <1>7

LEMMA CatalogInit == ASSUME CatalogNone PROVE Catalog!Init => CatalogTyped /\ CatalogHeld
<1> SUFFICES ASSUME Catalog!Init PROVE CatalogTyped /\ CatalogHeld
  OBVIOUS
<1>1. item \in [Catalog!Elems -> Catalog!Item]
  <2>1. PICK n : item = [e \in Catalog!Elems |-> [name |-> n, state |-> "sold"]] /\ n \in Names
    BY DEF Catalog!Init, CatalogNone
  <2> QED BY <2>1 DEF Catalog!Item
<1>2. \A k \in Lanes \cup {Catalog!Stock} : CatalogShape(lane[k]) /\ lane[k].pc = "idle"
  BY DEF Catalog!Init, Catalog!Resting, CatalogShape
<1> QED BY <1>1, <1>2 DEF Catalog!Init, CatalogTyped, CatalogHeld

\* The writes of a row: what the invariants need of every action that makes one.
LEMMA CatalogRows ==
  ASSUME CatalogNone, CatalogTyped, CatalogHeld, Catalog!Next
  PROVE  /\ UNCHANGED row \/ \E e \in Catalog!Elems, r \in Catalog!Row : row' = [row EXCEPT ![e] = r]
         /\ row' \in [Catalog!Elems -> Catalog!Row \cup {None}]
         /\ \A e \in Catalog!Elems : row[e] # None => row'[e] # None
<1>1. UNCHANGED row \/ \E e \in Catalog!Elems, r \in Catalog!Row : row' = [row EXCEPT ![e] = r]
  <2>1. CASE Catalog!StaffRenames
    <3>1. PICK e \in Catalog!Elems, n \in Names : row[e] # None /\ row' = [row EXCEPT ![e] = [row[e] EXCEPT !.name = n]]
      BY <2>1 DEF Catalog!StaffRenames
    <3>2. [row[e] EXCEPT !.name = n] \in Catalog!Row BY <3>1 DEF CatalogTyped, Catalog!Row
    <3> QED BY <3>1, <3>2
  <2>2. CASE Catalog!StaffAdopts
    <3>1. PICK e \in Catalog!Elems : row[e] # None /\ row' = [row EXCEPT ![e] = [row[e] EXCEPT !.adopt = TRUE]]
      BY <2>2 DEF Catalog!StaffAdopts
    <3>2. [row[e] EXCEPT !.adopt = TRUE] \in Catalog!Row BY <3>1 DEF CatalogTyped, Catalog!Row
    <3> QED BY <3>1, <3>2
  <2>3. ASSUME NEW k \in Lanes, Catalog!MergeRow(k)
        PROVE  \E e \in Catalog!Elems, r \in Catalog!Row : row' = [row EXCEPT ![e] = r]
    <3>1. PICK e \in lane[k].left, r \in Catalog!Row : CatalogMerged(k, e, r) BY <2>3, CatalogMerge
    <3> QED BY <3>1 DEF CatalogMerged, Catalog!Rows
  <2>4. ASSUME NEW k \in Lanes, Catalog!ArchiveRow(k)
        PROVE  \E e \in Catalog!Elems, r \in Catalog!Row : row' = [row EXCEPT ![e] = r]
    <3>1. PICK e \in lane[k].left, r \in Catalog!Row : e \in Catalog!Rows(lane[k].table) /\ row' = [row EXCEPT ![e] = r]
      BY <2>4, CatalogArchive
    <3> QED BY <3>1 DEF Catalog!Rows
  <2>5. CASE Catalog!StockWrites BY <2>5, CatalogStock
  <2>6. CASE UNCHANGED row BY <2>6
  <2> QED BY <2>1, <2>2, <2>3, <2>4, <2>5, <2>6
          DEF Catalog!Next, Catalog!MenuChanges, Catalog!Diners, Catalog!Fetch, Catalog!ReadRows, Catalog!BeginArchive,
              Catalog!EndSweep, Catalog!Leave, Catalog!StockReads, Catalog!StockEnds
<1>2. CASE UNCHANGED row BY <1>2 DEF CatalogTyped
<1>3. CASE \E e \in Catalog!Elems, r \in Catalog!Row : row' = [row EXCEPT ![e] = r]
  BY <1>3 DEF CatalogTyped, CatalogNone
<1> QED BY <1>1, <1>2, <1>3

LEMMA CatalogNext ==
  ASSUME CatalogNone
  PROVE  CatalogTyped /\ CatalogHeld /\ [Catalog!Next]_(Catalog!vars) => (CatalogTyped /\ CatalogHeld)'
<1> SUFFICES ASSUME CatalogTyped, CatalogHeld, [Catalog!Next]_(Catalog!vars) PROVE (CatalogTyped /\ CatalogHeld)'
  OBVIOUS
<1>1. CASE UNCHANGED Catalog!vars
  BY <1>1 DEF Catalog!vars, CatalogTyped, CatalogHeld, CatalogShape
<1>2. CASE Catalog!Next
  <2>1. item' \in [Catalog!Elems -> Catalog!Item]
    <3>1. CASE Catalog!MenuChanges
      <4>1. PICK e \in Catalog!Elems : \/ \E n \in Names : item' = [item EXCEPT ![e] = [item[e] EXCEPT !.name = n]]
                                       \/ \E v \in {"sold", "out", "hidden", "gone"} :
                                            item' = [item EXCEPT ![e] = [item[e] EXCEPT !.state = v]]
        BY <3>1 DEF Catalog!MenuChanges
      <4>2. item[e] \in Catalog!Item BY DEF CatalogTyped
      <4>3. PICK i \in Catalog!Item : item' = [item EXCEPT ![e] = i]
        <5>1. CASE \E n \in Names : item' = [item EXCEPT ![e] = [item[e] EXCEPT !.name = n]]
          BY <4>2, <5>1 DEF Catalog!Item
        <5>2. CASE \E v \in {"sold", "out", "hidden", "gone"} : item' = [item EXCEPT ![e] = [item[e] EXCEPT !.state = v]]
          BY <4>2, <5>2 DEF Catalog!Item
        <5> QED BY <4>1, <5>1, <5>2
      <4> QED BY <4>3 DEF CatalogTyped
    <3>2. CASE UNCHANGED item BY <3>2 DEF CatalogTyped
    <3> QED BY <1>2, <3>1, <3>2
            DEF Catalog!Next, Catalog!StaffRenames, Catalog!StaffAdopts, Catalog!Diners, Catalog!Fetch, Catalog!ReadRows,
                Catalog!MergeRow, Catalog!BeginArchive, Catalog!ArchiveRow, Catalog!EndSweep, Catalog!Leave,
                Catalog!StockReads, Catalog!StockWrites, Catalog!StockEnds
  <2>2. kept' \in [Catalog!Elems -> Names \cup {None}]
    <3>1. CASE Catalog!StaffRenames
      <4>1. PICK e \in Catalog!Elems, v \in Names \cup {None} : kept' = [kept EXCEPT ![e] = v]
        BY <3>1 DEF Catalog!StaffRenames
      <4> QED BY <4>1 DEF CatalogTyped
    <3>2. CASE Catalog!StaffAdopts BY <3>2 DEF Catalog!StaffAdopts, CatalogTyped
    <3>3. ASSUME NEW k \in Lanes, Catalog!MergeRow(k) PROVE kept' \in [Catalog!Elems -> Names \cup {None}]
      <4>1. PICK e, s : kept' = [kept EXCEPT ![e] = IF kept[e] = s THEN None ELSE kept[e]]
        BY <3>3 DEF Catalog!MergeRow
      <4> QED BY <4>1 DEF CatalogTyped
    <3>4. CASE UNCHANGED kept BY <3>4 DEF CatalogTyped
    <3> QED BY <1>2, <3>1, <3>2, <3>3, <3>4
            DEF Catalog!Next, Catalog!MenuChanges, Catalog!Diners, Catalog!Fetch, Catalog!ReadRows,
                Catalog!BeginArchive, Catalog!ArchiveRow, Catalog!EndSweep, Catalog!Leave,
                Catalog!StockReads, Catalog!StockWrites, Catalog!StockEnds
  <2>3. busy' \subseteq Catalog!Elems
    <3>1. CASE Catalog!Diners
      <4>1. busy' = {} \/ \E e \in Catalog!Elems : busy' = busy \cup {e} BY <3>1 DEF Catalog!Diners
      <4> QED BY <4>1 DEF CatalogTyped
    <3>2. CASE UNCHANGED busy BY <3>2 DEF CatalogTyped
    <3> QED BY <1>2, <3>1, <3>2
            DEF Catalog!Next, Catalog!MenuChanges, Catalog!StaffRenames, Catalog!StaffAdopts, Catalog!Fetch,
                Catalog!ReadRows, Catalog!MergeRow, Catalog!BeginArchive, Catalog!ArchiveRow, Catalog!EndSweep,
                Catalog!Leave, Catalog!StockReads, Catalog!StockWrites, Catalog!StockEnds
  <2>4. /\ row' \in [Catalog!Elems -> Catalog!Row \cup {None}]
        /\ \A e \in Catalog!Elems : row[e] # None => row'[e] # None
    BY <1>2, CatalogRows
  \* A step that moves no sweep, or moves one as it should.
  <2>5. ASSUME Catalog!Disturb PROVE (CatalogTyped /\ CatalogHeld)'
    <3>1. CatalogTyped' BY <2>1, <2>2, <2>3, <2>4, <2>5, CatalogDisturb DEF CatalogTyped
    <3>2. \A k \in Lanes \cup {Catalog!Stock} : CatalogOther(k) BY <2>5, CatalogDisturb
    <3> QED BY <2>4, <3>1, <3>2 DEF CatalogHeld, CatalogOther, Catalog!Rows
  <2>6. ASSUME NEW k \in Lanes \cup {Catalog!Stock}, NEW l, Catalog!Lane(k, l), CatalogShape(l),
               k \in Lanes => \A e \in Catalog!Rows(l.table) :
                 /\ l.pc # "idle" => l.snap[e] \in Catalog!Item
                 /\ l.pc \in {"merging", "archiving", "swept"} =>
                      l.rows[e] \in Catalog!Row \cup {None} /\ (l.rows[e] # None => row[e] # None),
               k \in Lanes /\ l.pc \in {"merging", "archiving"} =>
                 \A e \in l.left : e \in Catalog!Rows(l.table) /\ (l.pc = "archiving" => l.rows[e] # None),
               k = Catalog!Stock /\ l.pc = "merging" => \A e \in l.left : e \in Catalog!Elems /\ row[e] # None
        PROVE  (CatalogTyped /\ CatalogHeld)'
    <3>1. CatalogTyped' BY <2>1, <2>2, <2>3, <2>4, <2>6, CatalogLane DEF CatalogTyped
    <3>2. \A j \in Lanes \cup {Catalog!Stock} : IF j = k THEN lane'[j] = l ELSE CatalogOther(j) BY <2>6, CatalogLane
    <3>3. ASSUME NEW j \in Lanes, NEW e \in Catalog!Rows(lane'[j].table)
          PROVE  /\ lane'[j].pc # "idle" => lane'[j].snap[e] \in Catalog!Item
                 /\ lane'[j].pc \in {"merging", "archiving", "swept"} =>
                      lane'[j].rows[e] \in Catalog!Row \cup {None} /\ (lane'[j].rows[e] # None => row'[e] # None)
      <4>1. CASE j = k BY <2>4, <2>6, <3>2, <3>3, <4>1 DEF Catalog!Rows
      <4>2. CASE j # k BY <2>4, <3>2, <3>3, <4>2 DEF CatalogHeld, CatalogOther, Catalog!Rows
      <4> QED BY <4>1, <4>2
    <3>4. ASSUME NEW j \in Lanes, lane'[j].pc \in {"merging", "archiving"}, NEW e \in lane'[j].left
          PROVE  e \in Catalog!Rows(lane'[j].table) /\ (lane'[j].pc = "archiving" => lane'[j].rows[e] # None)
      <4>1. CASE j = k BY <2>6, <3>2, <3>4, <4>1
      <4>2. CASE j # k BY <3>2, <3>4, <4>2 DEF CatalogHeld, CatalogOther
      <4> QED BY <4>1, <4>2
    <3>5. ASSUME lane'[Catalog!Stock].pc = "merging", NEW e \in lane'[Catalog!Stock].left
          PROVE  e \in Catalog!Elems /\ row'[e] # None
      <4>1. CASE k = Catalog!Stock BY <2>4, <2>6, <3>2, <3>5, <4>1
      <4>2. CASE k # Catalog!Stock BY <2>4, <3>2, <3>5, <4>2 DEF CatalogHeld, CatalogOther
      <4> QED BY <4>1, <4>2
    <3>6. CatalogHeld' BY <3>3, <3>4, <3>5 DEF CatalogHeld, Catalog!Rows
    <3> QED BY <3>1, <3>6
  <2>7. CASE Catalog!MenuChanges \/ Catalog!StaffRenames \/ Catalog!StaffAdopts \/ Catalog!Diners
    BY <2>5, <2>7 DEF Catalog!MenuChanges, Catalog!StaffRenames, Catalog!StaffAdopts, Catalog!Diners
  <2>8. ASSUME NEW k \in Lanes, Catalog!Fetch(k) PROVE (CatalogTyped /\ CatalogHeld)'
    <3>1. PICK l : /\ Catalog!Lane(k, l) /\ CatalogShape(l) /\ l.pc = "fetched"
                   /\ \A e \in Catalog!Rows(l.table) : l.snap[e] \in Catalog!Item
      BY <2>8, CatalogOwn
    <3>2. k # Catalog!Stock BY DEF CatalogNone
    <3> QED BY <2>6, <3>1, <3>2
  <2>9. ASSUME NEW k \in Lanes, Catalog!ReadRows(k) PROVE (CatalogTyped /\ CatalogHeld)'
    <3>1. PICK l : /\ Catalog!Lane(k, l) /\ CatalogShape(l) /\ CatalogLike(l, lane[k]) /\ l.pc = "merging"
                   /\ l.rows = Catalog!Of(lane[k].table, row) /\ l.left = Catalog!Present(lane[k])
      BY <2>9, CatalogOwn
    <3>2. k # Catalog!Stock /\ lane[k].pc = "fetched" BY <2>9 DEF CatalogNone, Catalog!ReadRows
    <3>3. \A e \in Catalog!Rows(l.table) : /\ l.snap[e] \in Catalog!Item /\ l.rows[e] = row[e]
                                          /\ row[e] \in Catalog!Row \cup {None}
      BY <3>1, <3>2 DEF CatalogHeld, CatalogTyped, CatalogLike, Catalog!Of, Catalog!Rows
    <3>4. \A e \in l.left : e \in Catalog!Rows(l.table) BY <3>1 DEF CatalogLike, Catalog!Present
    <3> QED BY <2>6, <3>1, <3>2, <3>3, <3>4
  <2>10. ASSUME NEW k \in Lanes, Catalog!MergeRow(k) \/ Catalog!ArchiveRow(k) PROVE (CatalogTyped /\ CatalogHeld)'
    <3>1. PICK e : Catalog!Lane(k, [lane[k] EXCEPT !.left = lane[k].left \ {e}])
      BY <2>10 DEF Catalog!MergeRow, Catalog!ArchiveRow
    <3>2. PICK l : l = [lane[k] EXCEPT !.left = lane[k].left \ {e}] OBVIOUS
    <3>3. /\ CatalogShape(l) /\ CatalogLike(l, lane[k]) /\ l.pc = lane[k].pc /\ l.rows = lane[k].rows
          /\ l.left = lane[k].left \ {e}
      BY <3>2, CatalogOwn
    <3>4. k # Catalog!Stock BY DEF CatalogNone
    <3>5. \A d \in Catalog!Rows(l.table) :
             /\ l.pc # "idle" => l.snap[d] \in Catalog!Item
             /\ l.pc \in {"merging", "archiving", "swept"} =>
                  l.rows[d] \in Catalog!Row \cup {None} /\ (l.rows[d] # None => row[d] # None)
      BY <3>3 DEF CatalogHeld, CatalogLike
    <3>6. l.pc \in {"merging", "archiving"} =>
             \A d \in l.left : d \in Catalog!Rows(l.table) /\ (l.pc = "archiving" => l.rows[d] # None)
      BY <3>3 DEF CatalogHeld, CatalogLike
    <3>7. Catalog!Lane(k, l) BY <3>1, <3>2
    <3> QED BY <2>6, <3>3, <3>4, <3>5, <3>6, <3>7
  <2>11. ASSUME NEW k \in Lanes, Catalog!BeginArchive(k) PROVE (CatalogTyped /\ CatalogHeld)'
    <3>1. PICK l : /\ Catalog!Lane(k, l) /\ CatalogShape(l) /\ CatalogLike(l, lane[k]) /\ l.pc = "archiving"
                   /\ l.rows = lane[k].rows /\ l.left \subseteq Catalog!Gone(lane[k])
      BY <2>11, CatalogOwn DEF CatalogHides
    <3>2. k # Catalog!Stock /\ lane[k].pc = "merging" BY <2>11 DEF CatalogNone, Catalog!BeginArchive
    <3>3. \A e \in l.left : e \in Catalog!Rows(l.table) /\ l.rows[e] # None
      BY <3>1 DEF CatalogLike, Catalog!Gone, Catalog!Known
    <3> QED BY <2>6, <3>1, <3>2, <3>3 DEF CatalogHeld, CatalogLike
  <2>12. ASSUME NEW k \in Lanes, Catalog!EndSweep(k) PROVE (CatalogTyped /\ CatalogHeld)'
    <3>1. PICK l : /\ Catalog!Lane(k, l) /\ CatalogShape(l) /\ CatalogLike(l, lane[k]) /\ l.pc = "swept"
                   /\ l.rows = lane[k].rows
      BY <2>12, CatalogOwn
    <3>2. k # Catalog!Stock /\ lane[k].pc = "archiving" BY <2>12 DEF CatalogNone, Catalog!EndSweep
    <3> QED BY <2>6, <3>1, <3>2 DEF CatalogHeld, CatalogLike
  <2>13. ASSUME NEW k \in Lanes, Catalog!Leave(k) PROVE (CatalogTyped /\ CatalogHeld)'
    <3>1. PICK l : Catalog!Lane(k, l) /\ CatalogShape(l) /\ l.pc = "idle" BY <2>13, CatalogOwn
    <3>2. k # Catalog!Stock BY DEF CatalogNone
    <3> QED BY <2>6, <3>1, <3>2
  <2>14. CASE Catalog!StockReads
    <3> DEFINE es == {e \in Catalog!Rows("product") : item[e].state # "gone" /\ row[e] # None /\ ~row[e].archived}
    <3>1. PICK l : l = [Catalog!Resting EXCEPT !.pc = "merging", !.snap = Catalog!Of("product", item),
                                               !.rows = Catalog!Of("product", row), !.left = es]
      OBVIOUS
    <3>2. Catalog!Lane(Catalog!Stock, l) BY <2>14, <3>1 DEF Catalog!StockReads
    <3>3. \A e \in es : e \in Catalog!Elems /\ row[e] # None BY DEF Catalog!Rows
    <3> HIDE DEF es
    <3>4. CatalogShape(l) /\ l.left = es BY <3>1 DEF Catalog!Resting, CatalogShape
    <3>5. Catalog!Stock \notin Lanes BY DEF CatalogNone
    <3> QED BY <2>6, <3>2, <3>3, <3>4, <3>5
  <2>15. CASE Catalog!StockWrites
    <3>0. PICK e : Catalog!Lane(Catalog!Stock, [lane[Catalog!Stock] EXCEPT !.left = lane[Catalog!Stock].left \ {e}])
      BY <2>15, CatalogStock
    <3>1. PICK l : l = [lane[Catalog!Stock] EXCEPT !.left = lane[Catalog!Stock].left \ {e}] OBVIOUS
    <3>2. CatalogShape(lane[Catalog!Stock]) /\ Catalog!Stock \notin Lanes /\ lane[Catalog!Stock].pc = "merging"
      BY <2>15 DEF CatalogTyped, CatalogNone, Catalog!StockWrites
    <3>3. CatalogShape(l) /\ l.left = lane[Catalog!Stock].left \ {e} BY <3>1, <3>2 DEF CatalogShape
    <3>4. Catalog!Lane(Catalog!Stock, l) BY <3>0, <3>1
    <3>5. \A d \in l.left : d \in Catalog!Elems /\ row[d] # None BY <3>2, <3>3 DEF CatalogHeld
    <3> QED BY <2>6, <3>2, <3>3, <3>4, <3>5
  <2>16. CASE Catalog!StockEnds
    <3>1. CatalogShape(Catalog!Resting) /\ Catalog!Resting.pc = "idle" BY DEF Catalog!Resting, CatalogShape
    <3>2. Catalog!Stock \notin Lanes BY DEF CatalogNone
    <3> QED BY <2>6, <2>16, <3>1, <3>2 DEF Catalog!StockEnds
  <2> QED BY <1>2, <2>7, <2>8, <2>9, <2>10, <2>11, <2>12, <2>13, <2>14, <2>15, <2>16 DEF Catalog!Next
<1> QED BY <1>1, <1>2

LEMMA CatalogAlways == ASSUME CatalogNone PROVE Catalog!Spec => [](CatalogTyped /\ CatalogHeld)
  BY CatalogInit, CatalogNext, PTL DEF Catalog!Spec

\* A name that stands: nobody gave it up, and it is not what Clover says.
CatalogStands(r, n) == r \in Catalog!Row /\ r.name = n /\ ~r.adopt /\ r.baseline # n

CatalogNames ==
  "late" \notin used => \A e \in Catalog!Elems : kept[e] # None =>
    /\ CatalogStands(row[e], kept[e])
    /\ \A k \in Lanes : lane[k].pc \in {"merging", "archiving", "swept"} /\ e \in Catalog!Rows(lane[k].table) =>
         CatalogStands(lane[k].rows[e], kept[e])

\* Who moves the sweeps.
LEMMA CatalogMoves ==
  ASSUME CatalogNone, CatalogTyped, [Catalog!Next]_(Catalog!vars)
  PROVE  /\ used \subseteq used'
         /\ \A j \in Lanes :
              \/ CatalogOther(j) \/ UNCHANGED Catalog!vars
              \/ Catalog!Fetch(j) \/ Catalog!ReadRows(j) \/ Catalog!MergeRow(j) \/ Catalog!BeginArchive(j)
              \/ Catalog!ArchiveRow(j) \/ Catalog!EndSweep(j) \/ Catalog!Leave(j)
<1>1. used \subseteq used'
  BY DEF Catalog!vars, Catalog!Next, Catalog!MenuChanges, Catalog!StaffRenames, Catalog!StaffAdopts, Catalog!Diners,
         Catalog!Fetch, Catalog!ReadRows, Catalog!MergeRow, Catalog!BeginArchive, Catalog!ArchiveRow, Catalog!EndSweep,
         Catalog!Leave, Catalog!StockReads, Catalog!StockWrites, Catalog!StockEnds, Catalog!Happens
<1>2. ASSUME NEW k, NEW l, Catalog!Lane(k, l), NEW j \in Lanes, j # k PROVE CatalogOther(j)
  <2>1. CatalogShape(lane[j]) BY DEF CatalogTyped
  <2>2. lane'[j] = [lane[j] EXCEPT !.calm = FALSE] BY <1>2 DEF Catalog!Lane, CatalogTyped
  <2> QED BY <2>1, <2>2 DEF CatalogShape, CatalogOther
<1>3. ASSUME NEW k, NEW j \in Lanes, j # k,
             \/ Catalog!Fetch(k) \/ Catalog!ReadRows(k) \/ Catalog!MergeRow(k) \/ Catalog!BeginArchive(k)
             \/ Catalog!ArchiveRow(k) \/ Catalog!EndSweep(k) \/ Catalog!Leave(k)
      PROVE  CatalogOther(j)
  <2>1. \E l : Catalog!Lane(k, l)
    BY <1>3 DEF Catalog!Fetch, Catalog!ReadRows, Catalog!MergeRow, Catalog!BeginArchive, Catalog!ArchiveRow,
                Catalog!EndSweep, Catalog!Leave
  <2> QED BY <1>2, <1>3, <2>1
<1>4. ASSUME NEW j \in Lanes, Catalog!StockReads \/ Catalog!StockWrites \/ Catalog!StockEnds PROVE CatalogOther(j)
  <2>1. \E l : Catalog!Lane(Catalog!Stock, l) BY <1>4 DEF Catalog!StockReads, Catalog!StockWrites, Catalog!StockEnds
  <2>2. j # Catalog!Stock BY DEF CatalogNone
  <2> QED BY <1>2, <2>1, <2>2
<1>5. ASSUME NEW j \in Lanes,
             Catalog!MenuChanges \/ Catalog!StaffRenames \/ Catalog!StaffAdopts \/ Catalog!Diners
      PROVE  CatalogOther(j)
  BY <1>5, CatalogDisturb DEF Catalog!MenuChanges, Catalog!StaffRenames, Catalog!StaffAdopts, Catalog!Diners
<1> QED BY <1>1, <1>3, <1>4, <1>5 DEF Catalog!Next

\* A sweep keeps its table, what it fetched and, once read, its rows.
LEMMA CatalogKeeps ==
  ASSUME CatalogTyped, NEW j \in Lanes,
         Catalog!MergeRow(j) \/ Catalog!BeginArchive(j) \/ Catalog!ArchiveRow(j) \/ Catalog!EndSweep(j)
  PROVE  /\ CatalogLike(lane'[j], lane[j]) /\ lane'[j].rows = lane[j].rows
         /\ lane[j].pc \in {"merging", "archiving", "swept"}
         /\ Catalog!MergeRow(j) \/ Catalog!ArchiveRow(j) => lane'[j].pc = lane[j].pc
         /\ Catalog!BeginArchive(j) => /\ lane'[j].pc = "archiving" /\ CatalogHides(lane'[j].left, lane[j])
                                       /\ lane[j].pc = "merging" /\ lane[j].left = {}
         /\ Catalog!EndSweep(j) => lane'[j].pc = "swept" /\ lane[j].pc = "archiving"
<1> DEFINE Goal == /\ CatalogLike(lane'[j], lane[j]) /\ lane'[j].rows = lane[j].rows
                   /\ lane[j].pc \in {"merging", "archiving", "swept"}
                   /\ Catalog!MergeRow(j) \/ Catalog!ArchiveRow(j) => lane'[j].pc = lane[j].pc
                   /\ Catalog!BeginArchive(j) => /\ lane'[j].pc = "archiving"
                                                 /\ CatalogHides(lane'[j].left, lane[j])
                                                 /\ lane[j].pc = "merging" /\ lane[j].left = {}
                   /\ Catalog!EndSweep(j) => lane'[j].pc = "swept" /\ lane[j].pc = "archiving"
<1>0. \A l : Catalog!Lane(j, l) => lane'[j] = l BY DEF Catalog!Lane, CatalogTyped
<1>1. CASE Catalog!MergeRow(j) \/ Catalog!ArchiveRow(j)
  <2>1. PICK es : Catalog!Lane(j, [lane[j] EXCEPT !.left = es])
    BY <1>1 DEF Catalog!MergeRow, Catalog!ArchiveRow
  <2>2. lane[j].pc \in {"merging", "archiving"} /\ lane[j].left # {}
    BY <1>1 DEF Catalog!MergeRow, Catalog!ArchiveRow
  <2>3. ~Catalog!BeginArchive(j) /\ ~Catalog!EndSweep(j) BY <2>2 DEF Catalog!BeginArchive, Catalog!EndSweep
  <2>4. CatalogLike(lane'[j], lane[j]) /\ lane'[j].rows = lane[j].rows /\ lane'[j].pc = lane[j].pc
    <3>1. PICK l : l = [lane[j] EXCEPT !.left = es] OBVIOUS
    <3>2. CatalogLike(l, lane[j]) /\ l.rows = lane[j].rows /\ l.pc = lane[j].pc
      <4>1. CatalogShape(lane[j]) BY DEF CatalogTyped, CatalogShape
      <4> QED BY <3>1, <4>1 DEF CatalogShape, CatalogLike
    <3>3. lane'[j] = l BY <1>0, <2>1, <3>1
    <3> QED BY <3>2, <3>3
  <2> QED BY <2>2, <2>3, <2>4
<1>2. CASE Catalog!BeginArchive(j)
  <2>1. PICK l : /\ Catalog!Lane(j, l) /\ CatalogLike(l, lane[j]) /\ l.pc = "archiving"
                 /\ l.rows = lane[j].rows /\ CatalogHides(l.left, lane[j])
    BY <1>2, CatalogOwn
  <2>2. /\ ~Catalog!EndSweep(j) /\ ~Catalog!MergeRow(j) /\ ~Catalog!ArchiveRow(j)
        /\ lane[j].pc = "merging" /\ lane[j].left = {}
    BY <1>2 DEF Catalog!BeginArchive, Catalog!EndSweep, Catalog!MergeRow, Catalog!ArchiveRow
  <2> QED BY <1>0, <2>1, <2>2
<1>3. CASE Catalog!EndSweep(j)
  <2>1. PICK l : /\ Catalog!Lane(j, l) /\ CatalogLike(l, lane[j]) /\ l.pc = "swept" /\ l.rows = lane[j].rows
    BY <1>3, CatalogOwn
  <2>2. ~Catalog!BeginArchive(j) /\ ~Catalog!MergeRow(j) /\ ~Catalog!ArchiveRow(j) /\ lane[j].pc = "archiving"
    BY <1>3 DEF Catalog!BeginArchive, Catalog!EndSweep, Catalog!MergeRow, Catalog!ArchiveRow
  <2> QED BY <1>0, <2>1, <2>2
<1> QED BY <1>1, <1>2, <1>3

LEMMA CatalogNamesNext ==
  ASSUME CatalogNone
  PROVE  CatalogTyped /\ CatalogHeld /\ CatalogNames /\ [Catalog!Next]_(Catalog!vars) => CatalogNames'
<1> SUFFICES ASSUME CatalogTyped, CatalogHeld, CatalogNames, [Catalog!Next]_(Catalog!vars), "late" \notin used',
                    NEW e \in Catalog!Elems, kept'[e] # None
             PROVE  /\ CatalogStands(row'[e], kept'[e])
                    /\ \A k \in Lanes : lane'[k].pc \in {"merging", "archiving", "swept"}
                                          /\ e \in Catalog!Rows(lane'[k].table) =>
                         CatalogStands(lane'[k].rows[e], kept'[e])
  BY DEF CatalogNames, Catalog!Rows, CatalogStands, Catalog!Elems, Catalog!Row
<1>a. used \subseteq used' /\ "late" \notin used BY CatalogMoves
<1>b. \A k \in Lanes :
        kept[e] # None /\ lane[k].pc \in {"merging", "archiving", "swept"} /\ e \in Catalog!Rows(lane[k].table) =>
          CatalogStands(lane[k].rows[e], kept[e])
  BY <1>a DEF CatalogNames
<1>c. kept[e] # None => CatalogStands(row[e], kept[e]) BY <1>a DEF CatalogNames
<1>1. CASE Catalog!StaffRenames
  <2>1. PICK d \in Catalog!Elems, n \in Names :
          /\ row[d] # None
          /\ (\A k \in Lanes : lane[k].pc \in {"idle", "fetched"}) \/ "late" \in used'
          /\ row' = [row EXCEPT ![d] = [row[d] EXCEPT !.name = n]]
          /\ kept' = [kept EXCEPT ![d] = IF n = row[d].baseline \/ row[d].adopt THEN None ELSE n]
    BY <1>1 DEF Catalog!StaffRenames, Catalog!Happens
  <2>2. \A k \in Lanes : lane'[k].pc \in {"idle", "fetched"}
    BY <1>1, <2>1, CatalogDisturb DEF Catalog!StaffRenames, CatalogOther
  <2>3. CatalogStands(row'[e], kept'[e])
    <3>1. CASE e = d
      <4>1. row[d] \in Catalog!Row BY <2>1 DEF CatalogTyped
      <4>2. row'[d] = [row[d] EXCEPT !.name = n] /\ kept'[d] = n /\ n # row[d].baseline /\ ~row[d].adopt
        BY <2>1, <3>1 DEF CatalogTyped
      <4>3. /\ [row[d] EXCEPT !.name = n] \in Catalog!Row /\ [row[d] EXCEPT !.name = n].name = n
            /\ [row[d] EXCEPT !.name = n].baseline = row[d].baseline /\ [row[d] EXCEPT !.name = n].adopt = row[d].adopt
        BY <4>1 DEF Catalog!Row
      <4> QED BY <3>1, <4>2, <4>3 DEF CatalogStands
    <3>2. CASE e # d BY <1>c, <2>1, <3>2 DEF CatalogTyped
    <3> QED BY <3>1, <3>2
  <2> QED BY <2>2, <2>3
<1>2. CASE ~Catalog!StaffRenames
  <2>1. kept'[e] = kept[e] /\ CatalogStands(row'[e], kept[e])
    <3>1. CASE Catalog!StaffAdopts
      <4>1. PICK d \in Catalog!Elems : row' = [row EXCEPT ![d].adopt = TRUE] /\ kept' = [kept EXCEPT ![d] = None]
        BY <3>1 DEF Catalog!StaffAdopts
      <4>2. e # d BY <4>1 DEF CatalogTyped
      <4> QED BY <1>c, <4>1, <4>2 DEF CatalogTyped
    <3>2. ASSUME NEW k \in Lanes, Catalog!MergeRow(k) PROVE kept'[e] = kept[e] /\ CatalogStands(row'[e], kept[e])
      <4>0. PICK d \in lane[k].left, r \in Catalog!Row : CatalogMerged(k, d, r) BY <3>2, CatalogMerge
      <4>1. /\ d \in Catalog!Rows(lane[k].table) /\ row' = [row EXCEPT ![d] = r]
            /\ kept' = [kept EXCEPT ![d] = IF kept[d] = lane[k].snap[d].name THEN None ELSE kept[d]]
            /\ lane[k].rows[d] # None =>
                 /\ lane[k].rows[d] \in Catalog!Row
                 /\ \/ r = row[d]
                    \/ /\ r.baseline = lane[k].snap[d].name /\ ~r.adopt
                       /\ Catalog!Overridden(lane[k].rows[d], lane[k].snap[d].name) => r.name = lane[k].rows[d].name
        BY <4>0 DEF CatalogMerged
      <4>2. CASE e # d BY <1>c, <4>1, <4>2 DEF CatalogTyped
      <4>3. CASE e = d
        <5>1. kept'[d] = kept[d] /\ kept[d] # lane[k].snap[d].name /\ kept[d] # None /\ row'[d] = r
          BY <4>1, <4>3 DEF CatalogTyped, Catalog!Rows
        <5>2. CatalogStands(lane[k].rows[d], kept[d]) BY <1>b, <3>2, <4>1, <4>3, <5>1 DEF Catalog!MergeRow
        <5>3. lane[k].rows[d] # None BY <5>2 DEF CatalogStands, CatalogNone
        <5>4. Catalog!Overridden(lane[k].rows[d], lane[k].snap[d].name)
          BY <5>1, <5>2 DEF Catalog!Overridden, CatalogStands
        <5> QED BY <1>c, <4>1, <4>3, <5>1, <5>2, <5>3, <5>4 DEF CatalogStands
      <4> QED BY <4>2, <4>3
    <3>3. ASSUME NEW k \in Lanes, Catalog!ArchiveRow(k) PROVE kept'[e] = kept[e] /\ CatalogStands(row'[e], kept[e])
      <4>1. PICK d \in lane[k].left, r \in Catalog!Row :
              /\ d \in Catalog!Rows(lane[k].table) /\ row' = [row EXCEPT ![d] = r]
              /\ r.name = row[d].name /\ r.baseline = lane[k].rows[d].baseline /\ r.adopt = lane[k].rows[d].adopt
        BY <3>3, CatalogArchive
      <4>2. kept' = kept /\ lane[k].pc = "archiving" BY <3>3 DEF Catalog!ArchiveRow
      <4>3. CASE e # d BY <1>c, <4>1, <4>2, <4>3 DEF CatalogTyped
      <4>4. CASE e = d
        <5>1. CatalogStands(lane[k].rows[d], kept[d]) /\ CatalogStands(row[d], kept[d]) BY <1>b, <1>c, <4>1, <4>2, <4>4
        <5>2. row'[d] = r BY <4>1, <4>4 DEF CatalogTyped
        <5> QED BY <4>1, <4>2, <4>4, <5>1, <5>2 DEF CatalogStands
      <4> QED BY <4>3, <4>4
    <3>4. CASE Catalog!StockWrites
      <4>1. PICK d \in Catalog!Elems, r \in Catalog!Row :
              row' = [row EXCEPT ![d] = r] /\ r.name = row[d].name /\ r.baseline = row[d].baseline /\ r.adopt = row[d].adopt
        BY <3>4, CatalogStock
      <4>2. kept' = kept BY <3>4 DEF Catalog!StockWrites
      <4>3. row'[e] = row[e] \/ (e = d /\ row'[e] = r) BY <4>1 DEF CatalogTyped
      <4> QED BY <1>c, <4>1, <4>2, <4>3 DEF CatalogStands
    <3>5. CASE UNCHANGED <<row, kept>> BY <1>c, <3>5
    <3> QED BY <1>2, <3>1, <3>2, <3>3, <3>4, <3>5
            DEF Catalog!Next, Catalog!vars, Catalog!MenuChanges, Catalog!Diners, Catalog!Fetch, Catalog!ReadRows,
                Catalog!BeginArchive, Catalog!EndSweep, Catalog!Leave, Catalog!StockReads, Catalog!StockEnds
  <2>2. ASSUME NEW k \in Lanes, lane'[k].pc \in {"merging", "archiving", "swept"}, e \in Catalog!Rows(lane'[k].table)
        PROVE  CatalogStands(lane'[k].rows[e], kept[e])
    <3>1. CASE CatalogOther(k) \/ UNCHANGED Catalog!vars
      BY <1>b, <2>1, <2>2, <3>1 DEF CatalogOther, Catalog!vars
    <3>2. CASE Catalog!Fetch(k) \/ Catalog!Leave(k)
      <4>1. PICK l : Catalog!Lane(k, l) /\ l.pc \in {"idle", "fetched"} BY <3>2, CatalogOwn
      <4>2. lane'[k] = l BY <4>1 DEF Catalog!Lane, CatalogTyped
      <4> QED BY <2>2, <4>1, <4>2
    <3>3. CASE Catalog!ReadRows(k)
      <4>1. PICK l : Catalog!Lane(k, l) /\ CatalogLike(l, lane[k]) /\ l.rows = Catalog!Of(lane[k].table, row)
        BY <3>3, CatalogOwn
      <4>2. lane'[k] = l BY <4>1 DEF Catalog!Lane, CatalogTyped
      <4>3. lane'[k].rows[e] = row[e] BY <2>2, <4>1, <4>2 DEF CatalogLike, Catalog!Of
      <4> QED BY <1>c, <2>1, <4>3
    <3>4. CASE Catalog!MergeRow(k) \/ Catalog!BeginArchive(k) \/ Catalog!ArchiveRow(k) \/ Catalog!EndSweep(k)
      BY <1>b, <2>1, <2>2, <3>4, CatalogKeeps DEF CatalogLike
    <3> QED BY <3>1, <3>2, <3>3, <3>4, CatalogMoves
  <2> QED BY <2>1, <2>2
<1> QED BY <1>1, <1>2

\* local-overrides.ts: a name typed in MCM outlives every sweep until it is given
\* up, unless it was typed under a sweep that had read its row.
THEOREM TypedNameStays == ASSUME CatalogNone PROVE Catalog!Spec => []Catalog!EditsAreKept
<1>1. Catalog!Init => CatalogNames BY DEF Catalog!Init, CatalogNames
<1>2. CatalogNames => Catalog!EditsAreKept BY DEF CatalogNames, CatalogStands, Catalog!EditsAreKept
<1> QED BY <1>1, <1>2, CatalogAlways, CatalogNamesNext, PTL DEF Catalog!Spec

\* Who sits at a table sits at one the plan shows, and a sweep hides none of them.
CatalogSeats ==
  /\ \A e \in busy : row[e] # None
  /\ {"seatlate", "unseen"} \cap used = {} =>
       /\ \A e \in busy : ~row[e].archived
       /\ \A k \in Lanes : lane[k].pc = "archiving" => lane[k].left \cap busy = {}

LEMMA CatalogSeatsNext ==
  ASSUME CatalogNone
  PROVE  CatalogTyped /\ CatalogHeld /\ CatalogSeats /\ [Catalog!Next]_(Catalog!vars) => CatalogSeats'
<1> SUFFICES ASSUME CatalogTyped, CatalogHeld, CatalogSeats, [Catalog!Next]_(Catalog!vars) PROVE CatalogSeats'
  OBVIOUS
<1>1. used \subseteq used' BY CatalogMoves
<1>2. CASE Catalog!Diners
  <2>1. UNCHANGED row /\ \A k \in Lanes : CatalogOther(k) BY <1>2, CatalogDisturb DEF Catalog!Diners
  <2>2. \/ busy' = {}
        \/ \E e \in Catalog!Elems : /\ busy' = busy \cup {e} /\ row[e] # None /\ ~row[e].archived
                                    /\ "seatlate" \in used' \/ \A k \in Lanes : lane[k].pc # "archiving"
    BY <1>2 DEF Catalog!Diners, Catalog!Happens
  <2>3. CASE busy' = {} BY <2>3 DEF CatalogSeats
  <2>4. ASSUME NEW e \in Catalog!Elems, busy' = busy \cup {e}, row[e] # None, ~row[e].archived,
               "seatlate" \in used' \/ \A k \in Lanes : lane[k].pc # "archiving"
        PROVE  CatalogSeats'
    <3>2. \A d \in busy' : row'[d] # None BY <2>1, <2>4 DEF CatalogSeats
    <3>3. {"seatlate", "unseen"} \cap used' = {} => \A d \in busy' : ~row'[d].archived
      BY <1>1, <2>1, <2>4 DEF CatalogSeats
    <3>4. {"seatlate", "unseen"} \cap used' = {} => \A k \in Lanes : lane'[k].pc # "archiving"
      BY <2>1, <2>4 DEF CatalogOther
    <3> QED BY <3>2, <3>3, <3>4 DEF CatalogSeats
  <2> QED BY <2>2, <2>3, <2>4
<1>3. CASE ~Catalog!Diners
  <2>1. UNCHANGED busy
    BY <1>3 DEF Catalog!vars, Catalog!Next, Catalog!MenuChanges, Catalog!StaffRenames, Catalog!StaffAdopts, Catalog!Fetch,
                Catalog!ReadRows, Catalog!MergeRow, Catalog!BeginArchive, Catalog!ArchiveRow, Catalog!EndSweep,
                Catalog!Leave, Catalog!StockReads, Catalog!StockWrites, Catalog!StockEnds
  <2>2. ASSUME NEW e \in busy PROVE row'[e] # None
    <3>1. CASE Catalog!Next BY <2>2, <3>1, CatalogRows DEF CatalogSeats, CatalogTyped
    <3>2. CASE UNCHANGED row BY <2>2, <3>2 DEF CatalogSeats
    <3> QED BY <3>1, <3>2 DEF Catalog!vars
  <2>3. ASSUME {"seatlate", "unseen"} \cap used' = {}, NEW e \in busy PROVE ~row'[e].archived
    <3>1. ~row[e].archived /\ e \in Catalog!Elems /\ row[e] \in Catalog!Row
      BY <1>1, <2>3 DEF CatalogSeats, CatalogTyped
    <3>2. CASE Catalog!StaffRenames
      <4>1. PICK d, n : row' = [row EXCEPT ![d] = [row[d] EXCEPT !.name = n]] BY <3>2 DEF Catalog!StaffRenames
      <4>2. row'[e] = row[e] \/ row'[e] = [row[e] EXCEPT !.name = n] BY <3>1, <4>1 DEF CatalogTyped
      <4> QED BY <3>1, <4>2 DEF Catalog!Row
    <3>3. CASE Catalog!StaffAdopts
      <4>1. PICK d : row' = [row EXCEPT ![d] = [row[d] EXCEPT !.adopt = TRUE]] BY <3>3 DEF Catalog!StaffAdopts
      <4>2. row'[e] = row[e] \/ row'[e] = [row[e] EXCEPT !.adopt = TRUE] BY <3>1, <4>1 DEF CatalogTyped
      <4> QED BY <3>1, <4>2 DEF Catalog!Row
    <3>4. ASSUME NEW k \in Lanes, Catalog!MergeRow(k) PROVE ~row'[e].archived
      <4>1. PICK d \in lane[k].left, r \in Catalog!Row : CatalogMerged(k, d, r) BY <3>4, CatalogMerge
      <4>2. row' = [row EXCEPT ![d] = r] /\ (r = row[d] \/ ~r.archived) BY <4>1 DEF CatalogMerged
      <4> QED BY <3>1, <4>2 DEF CatalogTyped
    <3>5. ASSUME NEW k \in Lanes, Catalog!ArchiveRow(k) PROVE ~row'[e].archived
      <4>1. PICK d \in lane[k].left, r \in Catalog!Row :
              d \in Catalog!Rows(lane[k].table) /\ row' = [row EXCEPT ![d] = r]
        BY <3>5, CatalogArchive
      <4>2. d # e BY <1>1, <2>3, <3>5, <4>1 DEF CatalogSeats, Catalog!ArchiveRow
      <4> QED BY <3>1, <4>1, <4>2 DEF CatalogTyped
    <3>6. CASE Catalog!StockWrites
      <4>1. PICK d \in Catalog!Elems, r \in Catalog!Row : row' = [row EXCEPT ![d] = r] /\ r.archived = row[d].archived
        BY <3>6, CatalogStock
      <4> QED BY <3>1, <4>1 DEF CatalogTyped
    <3>7. CASE UNCHANGED row BY <3>1, <3>7
    <3> QED BY <1>3, <3>2, <3>3, <3>4, <3>5, <3>6, <3>7
            DEF Catalog!Next, Catalog!vars, Catalog!MenuChanges, Catalog!Fetch, Catalog!ReadRows,
                Catalog!BeginArchive, Catalog!EndSweep, Catalog!Leave, Catalog!StockReads, Catalog!StockEnds
  <2>4. ASSUME {"seatlate", "unseen"} \cap used' = {}, NEW k \in Lanes, lane'[k].pc = "archiving" PROVE lane'[k].left \cap busy = {}
    <3>0. lane[k].pc = "archiving" => lane[k].left \cap busy = {} BY <1>1, <2>4 DEF CatalogSeats
    <3>1. CASE CatalogOther(k) \/ UNCHANGED Catalog!vars
      BY <2>4, <3>0, <3>1 DEF CatalogOther, Catalog!vars
    <3>2. CASE Catalog!Fetch(k) \/ Catalog!Leave(k) \/ Catalog!ReadRows(k)
      <4>1. PICK l : Catalog!Lane(k, l) /\ l.pc \in {"idle", "fetched", "merging"} BY <3>2, CatalogOwn
      <4>2. lane'[k] = l BY <4>1 DEF Catalog!Lane, CatalogTyped
      <4> QED BY <2>4, <4>1, <4>2
    <3>3. CASE Catalog!MergeRow(k) \/ Catalog!EndSweep(k)
      BY <2>4, <3>3, CatalogKeeps DEF Catalog!MergeRow
    <3>4. CASE Catalog!BeginArchive(k) BY <2>4, <3>4, CatalogKeeps DEF CatalogHides
    <3>5. CASE Catalog!ArchiveRow(k)
      <4>1. PICK d : Catalog!Lane(k, [lane[k] EXCEPT !.left = lane[k].left \ {d}]) BY <3>5, CatalogArchive
      <4>2. PICK l : l = [lane[k] EXCEPT !.left = lane[k].left \ {d}] OBVIOUS
      <4>3. l.left = lane[k].left \ {d} BY <4>2, CatalogOwn
      <4>4. lane'[k] = l BY <4>1, <4>2 DEF Catalog!Lane, CatalogTyped
      <4> QED BY <3>0, <3>5, <4>3, <4>4 DEF Catalog!ArchiveRow
    <3> QED BY <3>1, <3>2, <3>3, <3>4, <3>5, CatalogMoves
  <2> QED BY <2>1, <2>2, <2>3, <2>4 DEF CatalogSeats
<1> QED BY <1>2, <1>3

\* fetch-tables.ts: a table with an open order is on the plan, unless a sweep's
\* look for open orders failed or they sat down after it.
THEOREM TableInUseIsShown == ASSUME CatalogNone PROVE Catalog!Spec => []Catalog!BusyTableShown
<1>1. Catalog!Init => CatalogSeats
  <2>1. Catalog!Init => busy = {} BY DEF Catalog!Init
  <2> QED BY <2>1 DEF CatalogSeats
<1>2. CatalogSeats => Catalog!BusyTableShown BY DEF CatalogSeats, Catalog!BusyTableShown
<1> QED BY <1>1, <1>2, CatalogAlways, CatalogSeatsNext, PTL DEF Catalog!Spec

\* What a sweep nobody disturbed has written is as Clover has it; what it has
\* not is as it read it.
CatalogShown(e) == CatalogStocked(row[e], item[e])

CatalogMirror ==
  \A k \in Lanes : lane[k].calm /\ lane[k].pc # "idle" /\ lane[k].table = "product" =>
    /\ \A e \in Catalog!Rows("product") : lane[k].snap[e] = item[e]
    /\ lane[k].pc = "merging" => \A e \in Catalog!Rows("product") :
         IF e \in lane[k].left THEN row[e] = lane[k].rows[e] ELSE e \in Catalog!Present(lane[k]) => CatalogShown(e)
    /\ lane[k].pc \in {"archiving", "swept"} => \A e \in Catalog!Present(lane[k]) : CatalogShown(e)
    /\ lane[k].pc = "archiving" => lane[k].left \cap Catalog!Present(lane[k]) = {}

LEMMA CatalogMirrorNext ==
  ASSUME CatalogNone
  PROVE  CatalogTyped /\ CatalogHeld /\ CatalogMirror /\ [Catalog!Next]_(Catalog!vars) => CatalogMirror'
<1> SUFFICES ASSUME CatalogTyped, CatalogHeld, CatalogMirror, [Catalog!Next]_(Catalog!vars),
                    NEW k \in Lanes, lane'[k].calm, lane'[k].pc # "idle", lane'[k].table = "product"
             PROVE  /\ \A e \in Catalog!Rows("product") : lane'[k].snap[e] = item'[e]
                    /\ lane'[k].pc = "merging" => \A e \in Catalog!Rows("product") :
                         IF e \in lane'[k].left THEN row'[e] = lane'[k].rows[e]
                         ELSE e \in Catalog!Present(lane'[k]) => CatalogShown(e)'
                    /\ lane'[k].pc \in {"archiving", "swept"} => \A e \in Catalog!Present(lane'[k]) : CatalogShown(e)'
                    /\ lane'[k].pc = "archiving" => lane'[k].left \cap Catalog!Present(lane'[k]) = {}
  BY DEF CatalogMirror, Catalog!Rows, Catalog!Elems, Catalog!Present, Catalog!Listed
<1>1. ~CatalogOther(k) BY DEF CatalogOther
<1>2. CASE UNCHANGED Catalog!vars BY <1>2 DEF Catalog!vars, CatalogMirror, CatalogShown
<1>3. CASE Catalog!Fetch(k)
  <2>1. PICK l : /\ Catalog!Lane(k, l) /\ l.pc = "fetched"
                 /\ \A e \in Catalog!Rows(l.table) : l.calm => l.snap[e] = item[e]
    BY <1>3, CatalogOwn
  <2>2. lane'[k] = l BY <2>1 DEF Catalog!Lane, CatalogTyped
  <2>3. UNCHANGED item BY <1>3 DEF Catalog!Fetch
  <2> QED BY <2>1, <2>2, <2>3
<1>4. CASE Catalog!ReadRows(k)
  <2>1. PICK l : /\ Catalog!Lane(k, l) /\ CatalogLike(l, lane[k]) /\ l.pc = "merging"
                 /\ l.rows = Catalog!Of(lane[k].table, row) /\ l.left = Catalog!Present(lane[k])
    BY <1>4, CatalogOwn
  <2>2. lane'[k] = l BY <2>1 DEF Catalog!Lane, CatalogTyped
  <2>3. UNCHANGED <<item, row>> /\ lane[k].pc = "fetched" BY <1>4 DEF Catalog!ReadRows
  <2>4. Catalog!Present(l) = Catalog!Present(lane[k]) BY <2>1 DEF CatalogLike, Catalog!Present
  <2>5. \A e \in Catalog!Rows("product") : l.rows[e] = row[e] BY <2>1, <2>2 DEF CatalogLike, Catalog!Of
  <2> QED BY <2>1, <2>2, <2>3, <2>4, <2>5 DEF CatalogMirror, CatalogLike
<1>5. CASE Catalog!Leave(k)
  <2>1. PICK l : Catalog!Lane(k, l) /\ l.pc = "idle" BY <1>5, CatalogOwn
  <2>2. lane'[k] = l BY <2>1 DEF Catalog!Lane, CatalogTyped
  <2> QED BY <2>1, <2>2
<1>6. CASE Catalog!MergeRow(k) \/ Catalog!BeginArchive(k) \/ Catalog!ArchiveRow(k) \/ Catalog!EndSweep(k)
  <2>1. UNCHANGED item
    BY <1>6 DEF Catalog!MergeRow, Catalog!BeginArchive, Catalog!ArchiveRow, Catalog!EndSweep
  <2>2. CatalogLike(lane'[k], lane[k]) /\ lane'[k].rows = lane[k].rows /\ lane[k].pc # "idle" BY <1>6, CatalogKeeps
  <2>3. Catalog!Present(lane'[k]) = Catalog!Present(lane[k]) BY <2>2 DEF CatalogLike, Catalog!Present
  <2>4. lane[k].calm /\ lane[k].table = "product" BY <2>2 DEF CatalogLike
  <2>5. \A e \in Catalog!Rows("product") : lane'[k].snap[e] = item'[e] /\ lane[k].snap[e] = item[e]
    BY <2>1, <2>2, <2>4 DEF CatalogMirror, CatalogLike
  <2>6. CASE Catalog!MergeRow(k)
    <3>0. PICK d \in lane[k].left, r \in Catalog!Row : CatalogMerged(k, d, r) BY <2>6, CatalogMerge
    <3>1. /\ d \in Catalog!Rows(lane[k].table) /\ row' = [row EXCEPT ![d] = r]
          /\ Catalog!Lane(k, [lane[k] EXCEPT !.left = lane[k].left \ {d}])
          /\ Table[d] = "product" =>
               \/ r = row[d] /\ CatalogStocked(lane[k].rows[d], lane[k].snap[d])
               \/ CatalogStocked(r, lane[k].snap[d])
      BY <3>0 DEF CatalogMerged
    <3>2. PICK l : l = [lane[k] EXCEPT !.left = lane[k].left \ {d}] OBVIOUS
    <3>3. l.left = lane[k].left \ {d} BY <3>2, CatalogOwn
    <3>4. lane'[k] = l BY <3>1, <3>2 DEF Catalog!Lane, CatalogTyped
    <3>5. lane[k].pc = "merging" /\ lane'[k].pc = "merging" BY <2>6, CatalogKeeps DEF Catalog!MergeRow
    <3>6. row'[d] = r /\ Table[d] = "product" BY <2>4, <3>1 DEF CatalogTyped, Catalog!Rows
    <3>7. row[d] = lane[k].rows[d] BY <2>4, <3>1, <3>5 DEF CatalogMirror
    <3>8. CatalogShown(d)' BY <2>1, <2>4, <2>5, <3>1, <3>6, <3>7 DEF CatalogShown
    <3>9. ASSUME NEW e \in Catalog!Rows("product")
          PROVE  IF e \in lane'[k].left THEN row'[e] = lane'[k].rows[e]
                 ELSE e \in Catalog!Present(lane'[k]) => CatalogShown(e)'
      <4>1. CASE e = d BY <3>3, <3>4, <3>8, <4>1
      <4>2. CASE e # d
        <5>1. row'[e] = row[e] BY <3>1, <4>2 DEF CatalogTyped, Catalog!Rows
        <5>2. (CatalogShown(e)' <=> CatalogShown(e)) BY <2>1, <5>1 DEF CatalogShown
        <5>3. e \in lane'[k].left <=> e \in lane[k].left BY <3>3, <3>4, <4>2
        <5> QED BY <2>2, <2>3, <2>4, <3>5, <5>1, <5>2, <5>3 DEF CatalogMirror
      <4> QED BY <4>1, <4>2
    <3> QED BY <2>5, <3>5, <3>9
  <2>7. CASE Catalog!BeginArchive(k)
    <3>1. /\ lane'[k].pc = "archiving" /\ lane'[k].left \subseteq Catalog!Gone(lane[k])
          /\ lane[k].pc = "merging" /\ lane[k].left = {}
      BY <2>7, CatalogKeeps DEF CatalogHides
    <3>2. Catalog!Gone(lane[k]) \cap Catalog!Present(lane[k]) = {} BY DEF Catalog!Gone
    <3>3. UNCHANGED row BY <2>7 DEF Catalog!BeginArchive
    <3>4. \A e \in Catalog!Present(lane[k]) : CatalogShown(e)
      BY <2>4, <3>1 DEF CatalogMirror, Catalog!Present
    <3> QED BY <2>1, <2>3, <2>5, <3>1, <3>2, <3>3, <3>4 DEF CatalogShown
  <2>8. CASE Catalog!ArchiveRow(k)
    <3>1. PICK d \in lane[k].left : \E r \in Catalog!Row :
           /\ d \in Catalog!Rows(lane[k].table) /\ row' = [row EXCEPT ![d] = r]
           /\ lane[k].rows[d] \in Catalog!Row /\ row[d] \in Catalog!Row
           /\ r.name = row[d].name /\ r.baseline = lane[k].rows[d].baseline /\ r.adopt = lane[k].rows[d].adopt
           /\ Catalog!Lane(k, [lane[k] EXCEPT !.left = lane[k].left \ {d}])
      BY <2>8, CatalogArchive
    <3>2. PICK l : l = [lane[k] EXCEPT !.left = lane[k].left \ {d}] OBVIOUS
    <3>3. l.left = lane[k].left \ {d} BY <3>2, CatalogOwn
    <3>4. lane'[k] = l BY <3>1, <3>2 DEF Catalog!Lane, CatalogTyped
    <3>5. lane[k].pc = "archiving" /\ lane'[k].pc = "archiving" BY <2>8, CatalogKeeps DEF Catalog!ArchiveRow
    <3>6. d \notin Catalog!Present(lane[k]) BY <2>4, <3>5 DEF CatalogMirror
    <3>7. ASSUME NEW e \in Catalog!Present(lane[k]) PROVE CatalogShown(e)'
      <4>1. e # d BY <3>6
      <4>2. row'[e] = row[e] BY <3>1, <4>1 DEF CatalogTyped
      <4>3. CatalogShown(e) BY <2>4, <3>5 DEF CatalogMirror
      <4> QED BY <2>1, <4>2, <4>3 DEF CatalogShown
    <3>8. lane'[k].left \cap Catalog!Present(lane'[k]) = {} BY <2>3, <2>4, <3>3, <3>4, <3>5 DEF CatalogMirror
    <3> QED BY <2>3, <2>5, <3>5, <3>7, <3>8
  <2>9. CASE Catalog!EndSweep(k)
    <3>1. lane'[k].pc = "swept" /\ lane[k].pc = "archiving" BY <2>9, CatalogKeeps
    <3>2. UNCHANGED row BY <2>9 DEF Catalog!EndSweep
    <3>3. \A e \in Catalog!Present(lane[k]) : CatalogShown(e) BY <2>4, <3>1 DEF CatalogMirror
    <3> QED BY <2>1, <2>3, <2>5, <3>1, <3>2, <3>3 DEF CatalogShown
  <2> QED BY <1>6, <2>6, <2>7, <2>8, <2>9
<1> QED BY <1>1, <1>2, <1>3, <1>4, <1>5, <1>6, CatalogMoves

\* catalog-sync.ts: after a sweep that nobody disturbed, what Clover lists is in
\* MCM with its stock, out of the archive.
THEOREM SweptIsMirrored == ASSUME CatalogNone PROVE Catalog!Spec => []Catalog!ProductsMirrored
<1>1. Catalog!Init => CatalogMirror
  <2>1. Catalog!Init => \A k \in Lanes : lane[k].pc = "idle" BY DEF Catalog!Init, Catalog!Resting
  <2> QED BY <2>1 DEF CatalogMirror
<1>2. CatalogMirror => Catalog!ProductsMirrored
  <2>1. \A e : (IF "product" \in {"product", "modifier"} /\ item[e].state = "out" THEN "out" ELSE "in") =
              (IF item[e].state = "out" THEN "out" ELSE "in")
    OBVIOUS
  <2> QED BY <2>1 DEF CatalogMirror, CatalogShown, CatalogStocked, Catalog!ProductsMirrored, Catalog!Mirrored
<1> QED BY <1>1, <1>2, CatalogAlways, CatalogMirrorNext, PTL DEF Catalog!Spec

---------------------------------------------------------------------------
(* Connections.  A location's row never has a key of its own, so whatever  *)
(* an injection reads has the key of the business; and what a sealed one   *)
(* uses has the Aloha of its seal.                                         *)

WiringPos  == Locations \cup {Elsewhere, None}
WiringSeal == [id : Locations, pos : WiringPos]
\* The absence of a row, a key, a setting and a seal is none of them; a location is not the business.
WiringNone == /\ None \notin {0, 1} \cup BOOLEAN \cup Locations \cup Wiring!Row \cup WiringSeal
              /\ None \notin Wiring!Rows /\ 0 \notin Locations

WiringGood(rows) == /\ rows \in Wiring!Rows /\ rows[0] # None /\ rows[0].key \in {0, 1}
                    /\ \A l \in Locations : rows[l] # None => rows[l].key = None
WiringJob  == [pc : {"none", "queued", "started", "read", "resolved", "failed"}, seal : WiringSeal \cup {None},
               got : Wiring!Row \cup {None}, conf : Wiring!Row \cup {None}, floor : {0, 1},
               talked : SUBSET WiringPos, calls : Nat]
WiringSync == [pc : {"idle", "loaded", "looked", "ended"}, rows : Wiring!Rows,
               status : {"none", "active", "disabled"}, one : BOOLEAN, calm : BOOLEAN]
WiringTyped ==
  /\ WiringGood(conn)
  /\ cache \in [one : Wiring!Row \cup {None}, rows : Wiring!Rows \cup {None}]
  /\ job \in [Jobs -> WiringJob]
  /\ \A k \in Jobs : /\ job[k].pc = "resolved" => job[k].conf # None
                     /\ job[k].seal # None => conn[job[k].seal.id] # None
  /\ sync \in [Syncs -> WiringSync] /\ sched \in {"none", "active", "disabled"}

\* A sealed injection talks to the Aloha of its seal.
WiringSealed ==
  \A k \in Jobs :
    /\ job[k].pc = "none" => job[k].talked = {}
    /\ job[k].seal # None => /\ job[k].talked \subseteq {job[k].seal.pos}
                             /\ job[k].pc = "resolved" => job[k].conf.pos = job[k].seal.pos

\* The key of the business is never older than one an injection began with, and
\* what it read since is not older either.
WiringFixed ==
  \A k \in Jobs \cap {"inject"} :
    /\ conn[0].key >= job[k].floor
    /\ job[k].pc = "read" /\ job[k].got # None /\ job[k].got.key # None => job[k].got.key >= job[k].floor
    /\ job[k].pc = "resolved" => job[k].conf.key >= job[k].floor

LEMMA WiringEffective ==
  ASSUME WiringNone, NEW rows, WiringGood(rows), NEW l \in Locations, rows[l] # None
  PROVE  Wiring!Effective(rows, l) \in Wiring!Row /\ Wiring!Effective(rows, l).key = rows[0].key
<1>1. rows[l] \in Wiring!Row /\ rows[0] \in Wiring!Row /\ rows[l].key = None
  BY DEF WiringGood, Wiring!Rows, Wiring!Ids, Wiring!Business
<1>2. DOMAIN rows[l] = {"active", "pos", "key", "stock"} BY <1>1 DEF Wiring!Row
<1>3. l # 0 BY DEF WiringNone
<1>4. Wiring!Effective(rows, l) = [f \in DOMAIN rows[l] |-> IF rows[l][f] = None THEN rows[0][f] ELSE rows[l][f]]
  BY <1>3 DEF Wiring!Effective, Wiring!Business
<1> DEFINE e == [f \in DOMAIN rows[l] |-> IF rows[l][f] = None THEN rows[0][f] ELSE rows[l][f]]
<1>5. e.key = rows[0].key BY <1>1, <1>2
<1>6. e \in Wiring!Row BY <1>1, <1>2, Zenon, SMTT(20) DEF Wiring!Row, WiringNone
<1> QED BY <1>4, <1>5, <1>6

\* pickConnection answers with a row, whose key, if it has one, is the business's.
LEMMA WiringPicks ==
  ASSUME WiringNone, NEW rows, WiringGood(rows), NEW asked \in Locations \cup {None},
         asked # None => rows[asked] # None
  PROVE  /\ Wiring!Pick(rows, asked) \in Wiring!Row \cup {None}
         /\ Wiring!Pick(rows, asked) # None /\ Wiring!Pick(rows, asked).key # None
              => Wiring!Pick(rows, asked).key = rows[0].key
<1>1. CASE asked # None
  <2>1. Wiring!Pick(rows, asked) = Wiring!Effective(rows, asked) BY <1>1 DEF Wiring!Pick
  <2> QED BY <1>1, <2>1, WiringEffective
<1>2. CASE asked = None
  <2>1. \A i \in Wiring!Active(rows) : /\ rows[i] \in Wiring!Row
                                       /\ rows[i].key # None => rows[i].key = rows[0].key
    BY DEF WiringGood, Wiring!Rows, Wiring!Ids, Wiring!Business, Wiring!Active, WiringNone
  <2>2. CASE 0 \in Wiring!Active(rows)
    BY <1>2, <2>1, <2>2 DEF Wiring!Pick, Wiring!Business
  <2>3. CASE 0 \notin Wiring!Active(rows) /\ Wiring!Cardinality(Wiring!Active(rows)) = 1
    <3>1. Wiring!Active(rows) # {}
      <4>1. Wiring!Cardinality({}) = Cardinality({}) BY DEF Wiring!Cardinality, Cardinality
      <4> QED BY <2>3, <4>1, FS_EmptySet
    <3>2. Wiring!Pick(rows, asked) = rows[CHOOSE i \in Wiring!Active(rows) : TRUE]
      BY <1>2, <2>3 DEF Wiring!Pick, Wiring!Business
    <3> QED BY <2>1, <3>1, <3>2
  <2>4. CASE 0 \notin Wiring!Active(rows) /\ Wiring!Cardinality(Wiring!Active(rows)) # 1
    BY <1>2, <2>4 DEF Wiring!Pick, Wiring!Business
  <2> QED BY <2>2, <2>3, <2>4
<1> QED BY <1>1, <1>2

\* Whatever the manager does, no row goes away and the key gets no older.
LEMMA WiringEdits ==
  ASSUME WiringNone, WiringGood(conn), Wiring!ManagerEdits
  PROVE  /\ WiringGood(conn') /\ conn'[0].key >= conn[0].key
         /\ \A i \in Wiring!Ids : conn[i] # None => conn'[i] # None
<1>1. PICK i \in Wiring!Ids :
        \/ conn[i] = None /\ conn' = [conn EXCEPT ![i] = Wiring!Connected(i)]
        \/ conn[i] # None /\ \E v \in BOOLEAN : conn' = [conn EXCEPT ![i] = [conn[i] EXCEPT !.active = v]]
        \/ conn' = [j \in Wiring!Ids |-> IF conn[j] = None \/ conn[j].key = None THEN conn[j]
                                         ELSE [conn[j] EXCEPT !.key = 1]]
        \/ conn[i] # None /\ conn' = [conn EXCEPT ![i] = [conn[i] EXCEPT !.pos = Elsewhere]]
        \/ conn[i] # None /\ \E v \in BOOLEAN \cup {None} : conn' = [conn EXCEPT ![i] = [conn[i] EXCEPT !.stock = v]]
  BY DEF Wiring!ManagerEdits, Wiring!Edit, Wiring!Active
<1>2. /\ conn \in [Wiring!Ids -> Wiring!Row \cup {None}] /\ 0 \in Wiring!Ids /\ Wiring!Ids = Locations \cup {0}
  BY DEF WiringGood, Wiring!Rows, Wiring!Ids, Wiring!Business
<1>3. conn[i] # None => conn[i] \in Wiring!Row BY <1>2
<1>4. CASE conn[i] = None /\ conn' = [conn EXCEPT ![i] = Wiring!Connected(i)]
  <2>1. i \in Locations BY <1>2, <1>4 DEF WiringGood
  <2>2. Wiring!Connected(i) \in Wiring!Row /\ Wiring!Connected(i).key = None
    BY <2>1 DEF Wiring!Connected, Wiring!Row
  <2>3. \A j \in Wiring!Ids : conn'[j] = IF j = i THEN Wiring!Connected(i) ELSE conn[j] BY <1>2, <1>4
  <2>4. conn' \in Wiring!Rows BY <1>2, <1>4, <2>2 DEF Wiring!Rows
  <2> QED BY <1>2, <1>4, <2>1, <2>2, <2>3, <2>4 DEF WiringGood, WiringNone
<1>5. ASSUME NEW r \in Wiring!Row, conn[i] # None, r.key = conn[i].key, conn' = [conn EXCEPT ![i] = r]
      PROVE  /\ WiringGood(conn') /\ conn'[0].key >= conn[0].key
             /\ \A j \in Wiring!Ids : conn[j] # None => conn'[j] # None
  <2>1. \A j \in Wiring!Ids : conn'[j] = IF j = i THEN r ELSE conn[j] BY <1>2, <1>5
  <2>2. conn' \in Wiring!Rows BY <1>2, <1>5 DEF Wiring!Rows
  <2>3. r # None BY DEF WiringNone
  <2>4. conn'[0].key = conn[0].key BY <1>2, <1>5, <2>1
  <2> QED BY <1>2, <1>5, <2>1, <2>2, <2>3, <2>4 DEF WiringGood
<1>6. CASE conn' = [j \in Wiring!Ids |-> IF conn[j] = None \/ conn[j].key = None THEN conn[j]
                                         ELSE [conn[j] EXCEPT !.key = 1]]
  <2>1. \A j \in Wiring!Ids :
          conn'[j] = IF conn[j] = None \/ conn[j].key = None THEN conn[j] ELSE [conn[j] EXCEPT !.key = 1]
    BY <1>6
  <2>2. \A r \in Wiring!Row : [r EXCEPT !.key = 1] \in Wiring!Row /\ [r EXCEPT !.key = 1].key = 1
    BY DEF Wiring!Row
  <2>3. conn' \in Wiring!Rows BY <1>2, <1>6, <2>2 DEF Wiring!Rows
  <2>4. \A l \in Locations : conn'[l] = conn[l] BY <1>2, <2>1 DEF WiringGood
  <2>5. conn'[0] = [conn[0] EXCEPT !.key = 1] /\ conn[0] \in Wiring!Row
    BY <1>2, <2>1 DEF WiringGood, WiringNone
  <2>6. conn'[0].key = 1 /\ conn'[0] # None BY <2>2, <2>5 DEF WiringNone
  <2>7. conn'[0].key >= conn[0].key BY <2>6 DEF WiringGood
  <2> QED BY <1>2, <2>3, <2>4, <2>6, <2>7 DEF WiringGood
<1>7. \A r \in Wiring!Row : /\ \A v \in BOOLEAN : [r EXCEPT !.active = v] \in Wiring!Row /\ [r EXCEPT !.active = v].key = r.key
                            /\ [r EXCEPT !.pos = Elsewhere] \in Wiring!Row /\ [r EXCEPT !.pos = Elsewhere].key = r.key
                            /\ \A v \in BOOLEAN \cup {None} : [r EXCEPT !.stock = v] \in Wiring!Row
                                                              /\ [r EXCEPT !.stock = v].key = r.key
  BY DEF Wiring!Row
<1> QED BY <1>1, <1>3, <1>4, <1>5, <1>6, <1>7

LEMMA WiringTypedInit == ASSUME WiringNone PROVE Wiring!Init => WiringTyped
<1> SUFFICES ASSUME Wiring!Init PROVE WiringTyped
  OBVIOUS
<1>1. PICK p \in Locations \cup {None}, L \in SUBSET Locations :
        conn = [i \in Wiring!Ids |-> CASE i = Wiring!Business -> [active |-> TRUE, pos |-> p, key |-> 0, stock |-> FALSE]
                                       [] i \in L -> Wiring!Connected(i)
                                       [] OTHER -> None]
  BY DEF Wiring!Init
<1>2. [active |-> TRUE, pos |-> p, key |-> 0, stock |-> FALSE] \in Wiring!Row BY DEF Wiring!Row
<1>3. \A l \in Locations : Wiring!Connected(l) \in Wiring!Row /\ Wiring!Connected(l).key = None
  BY DEF Wiring!Connected, Wiring!Row
<1>4. conn[0] = [active |-> TRUE, pos |-> p, key |-> 0, stock |-> FALSE]
  BY <1>1 DEF Wiring!Business, Wiring!Ids, WiringNone
<1>5. \A l \in Locations : conn[l] = Wiring!Connected(l) \/ conn[l] = None
  BY <1>1 DEF Wiring!Business, Wiring!Ids, WiringNone
<1>6. conn \in Wiring!Rows BY <1>1, <1>2, <1>3 DEF Wiring!Rows, Wiring!Ids, Wiring!Business
<1>7. WiringGood(conn)
  <2>1. conn[0] # None /\ conn[0].key = 0
    <3>1. conn[0] \in Wiring!Row BY <1>2, <1>4
    <3>2. conn[0].key = 0 BY <1>4
    <3> QED BY <3>1, <3>2 DEF WiringNone
  <2>2. \A l \in Locations : conn[l] # None => conn[l].key = None BY <1>3, <1>5
  <2> QED BY <1>6, <2>1, <2>2 DEF WiringGood
<1>8. [i \in Wiring!Ids |-> None] \in Wiring!Rows BY DEF Wiring!Rows
<1> QED BY <1>7, <1>8 DEF Wiring!Init, Wiring!NoJob, Wiring!Resting, WiringTyped, WiringJob, WiringSync

\* A step of one job.
LEMMA WiringOneJob ==
  ASSUME WiringTyped, NEW k \in Jobs, NEW r \in WiringJob, job' = [job EXCEPT ![k] = r]
  PROVE  /\ job' \in [Jobs -> WiringJob] /\ job'[k] = r
         /\ \A j \in Jobs : j # k => job'[j] = job[j]
  BY DEF WiringTyped

LEMMA WiringTypedNext ==
  ASSUME WiringNone
  PROVE  WiringTyped /\ [Wiring!Next]_(Wiring!vars) => WiringTyped' /\ conn'[0].key >= conn[0].key
<1> SUFFICES ASSUME WiringTyped, [Wiring!Next]_(Wiring!vars) PROVE WiringTyped' /\ conn'[0].key >= conn[0].key
  OBVIOUS
<1>a. conn' = conn => conn'[0].key >= conn[0].key BY DEF WiringTyped, WiringGood
<1>1. CASE Wiring!ManagerEdits
  <2>1. /\ WiringGood(conn') /\ conn'[0].key >= conn[0].key
        /\ \A i \in Wiring!Ids : conn[i] # None => conn'[i] # None
    BY <1>1, WiringEdits DEF WiringTyped
  <2>2. sync' \in [Syncs -> WiringSync] /\ cache' = cache /\ job' = job /\ sched' = sched
    BY <1>1 DEF Wiring!ManagerEdits, WiringTyped, WiringSync
  <2>3. \A k \in Jobs : job[k].seal # None => job[k].seal.id \in Wiring!Ids
    BY DEF WiringTyped, WiringJob, WiringSeal, Wiring!Ids
  <2> QED BY <2>1, <2>2, <2>3 DEF WiringTyped
<1>2. CASE Wiring!Expire
  BY <1>2, <1>a DEF Wiring!Expire, WiringTyped
<1>3. ASSUME NEW k \in Jobs, Wiring!Enqueue(k) PROVE WiringTyped' /\ conn'[0].key >= conn[0].key
  <2>1. /\ conn' = conn /\ cache' = cache /\ sync' = sync /\ sched' = sched /\ job[k].pc = "none"
    BY <1>3 DEF Wiring!Enqueue
  <2>2. PICK s \in WiringSeal \cup {None} :
          /\ job' = [job EXCEPT ![k] = [job[k] EXCEPT !.pc = "queued", !.seal = s]]
          /\ s = job[k].seal \/ (s # None => conn[s.id] # None)
    <3>1. job[k] \in WiringJob BY DEF WiringTyped
    <3>2. CASE job' = [job EXCEPT ![k].pc = "queued"]
      <4>1. job' = [job EXCEPT ![k] = [job[k] EXCEPT !.pc = "queued", !.seal = job[k].seal]]
        BY <3>1, <3>2 DEF WiringJob
      <4> QED BY <3>1, <4>1 DEF WiringJob
    <3>3. CASE \E l \in Wiring!Active(conn) \ {Wiring!Business} : job' = [job EXCEPT ![k].pc = "queued",
                 ![k].seal = IF k = "inject" THEN [id |-> l, pos |-> Wiring!Effective(conn, l).pos] ELSE None]
      <4>1. PICK l \in Wiring!Active(conn) \ {0} : job' = [job EXCEPT ![k].pc = "queued",
                 ![k].seal = IF k = "inject" THEN [id |-> l, pos |-> Wiring!Effective(conn, l).pos] ELSE None]
        BY <3>3 DEF Wiring!Business
      <4>2. l \in Locations /\ conn[l] # None BY DEF Wiring!Active, Wiring!Ids, Wiring!Business
      <4>3. Wiring!Effective(conn, l) \in Wiring!Row BY <4>2, WiringEffective DEF WiringTyped
      <4>4. [id |-> l, pos |-> Wiring!Effective(conn, l).pos] \in WiringSeal
        BY <4>2, <4>3 DEF WiringSeal, WiringPos, Wiring!Row
      <4>5. [id |-> l, pos |-> Wiring!Effective(conn, l).pos].id = l OBVIOUS
      <4>6. job' = [job EXCEPT ![k] = [job[k] EXCEPT !.pc = "queued",
                 !.seal = IF k = "inject" THEN [id |-> l, pos |-> Wiring!Effective(conn, l).pos] ELSE None]]
        BY <4>1 DEF WiringTyped
      <4> QED BY <4>2, <4>4, <4>5, <4>6
    <3> QED BY <1>3, <3>2, <3>3 DEF Wiring!Enqueue
  <2>3. [job[k] EXCEPT !.pc = "queued", !.seal = s] \in WiringJob BY DEF WiringTyped, WiringJob
  <2>4. \A j \in Jobs : job'[j] = IF j = k THEN [job[k] EXCEPT !.pc = "queued", !.seal = s] ELSE job[j]
    BY <2>2 DEF WiringTyped
  <2>5. [job[k] EXCEPT !.pc = "queued", !.seal = s].pc = "queued" /\ [job[k] EXCEPT !.pc = "queued", !.seal = s].seal = s
    BY DEF WiringTyped, WiringJob
  <2>6. job' \in [Jobs -> WiringJob] BY <2>2, <2>3 DEF WiringTyped
  <2>7. \A j \in Jobs : /\ job'[j].pc = "resolved" => job'[j].conf # None
                        /\ job'[j].seal # None => conn'[job'[j].seal.id] # None
    BY <2>1, <2>2, <2>4, <2>5 DEF WiringTyped
  <2> QED BY <1>a, <2>1, <2>6, <2>7 DEF WiringTyped
<1>4. ASSUME NEW k \in Jobs, Wiring!Start(k) PROVE WiringTyped' /\ conn'[0].key >= conn[0].key
  <2>a. PICK f \in {0, 1} : job' = [job EXCEPT ![k] = [job[k] EXCEPT !.pc = "started", !.floor = f]]
    BY <1>4 DEF Wiring!Start, WiringTyped
  <2>b. /\ [job[k] EXCEPT !.pc = "started", !.floor = f] \in WiringJob
        /\ [job[k] EXCEPT !.pc = "started", !.floor = f].pc = "started"
        /\ [job[k] EXCEPT !.pc = "started", !.floor = f].seal = job[k].seal
        /\ [job[k] EXCEPT !.pc = "started", !.floor = f].conf = job[k].conf
    BY DEF WiringTyped, WiringJob
  <2>1. job' \in [Jobs -> WiringJob] BY <2>a, <2>b, WiringOneJob
  <2>2. \A j \in Jobs : /\ job'[j].seal = job[j].seal /\ job'[j].conf = job[j].conf
                        /\ job'[j].pc = "resolved" => job[j].pc = "resolved"
    BY <2>a, <2>b, WiringOneJob
  <2> QED BY <1>4, <1>a, <2>1, <2>2 DEF Wiring!Start, WiringTyped
<1>5. ASSUME NEW k \in Jobs, Wiring!Read(k) PROVE WiringTyped' /\ conn'[0].key >= conn[0].key
  <2>1. Wiring!Pick(conn, Wiring!Asked(k)) \in Wiring!Row \cup {None}
    <3>1. /\ Wiring!Asked(k) \in Locations \cup {None} /\ WiringGood(conn)
          /\ Wiring!Asked(k) # None => conn[Wiring!Asked(k)] # None
      BY DEF Wiring!Asked, WiringTyped, WiringJob, WiringSeal
    <3> QED BY <3>1, WiringPicks
  <2>2. cache.one \in Wiring!Row \cup {None} BY DEF WiringTyped
  <2>3. PICK g \in Wiring!Row \cup {None} : job' = [job EXCEPT ![k] = [job[k] EXCEPT !.pc = "read", !.got = g]]
    BY <1>5, <2>1, <2>2 DEF Wiring!Read, WiringTyped
  <2>a. /\ [job[k] EXCEPT !.pc = "read", !.got = g] \in WiringJob
        /\ [job[k] EXCEPT !.pc = "read", !.got = g].pc = "read"
        /\ [job[k] EXCEPT !.pc = "read", !.got = g].seal = job[k].seal
        /\ [job[k] EXCEPT !.pc = "read", !.got = g].conf = job[k].conf
    BY DEF WiringTyped, WiringJob
  <2>4. job' \in [Jobs -> WiringJob] BY <2>3, <2>a, WiringOneJob
  <2>5. \A j \in Jobs : /\ job'[j].seal = job[j].seal /\ job'[j].conf = job[j].conf
                        /\ job'[j].pc = "resolved" => job[j].pc = "resolved"
    BY <2>3, <2>a, WiringOneJob
  <2> QED BY <1>5, <1>a, <2>4, <2>5 DEF Wiring!Read, WiringTyped
<1>6. ASSUME NEW k \in Jobs, Wiring!Resolve(k) PROVE WiringTyped' /\ conn'[0].key >= conn[0].key
  <2>1. job[k].got # None => Wiring!Sealed(k) \in Wiring!Row
    <3>1. job[k].got # None => job[k].got \in Wiring!Row BY DEF WiringTyped, WiringJob
    <3>2. job[k].seal # None => job[k].seal.pos \in WiringPos BY DEF WiringTyped, WiringJob, WiringSeal
    <3>3. \A r \in Wiring!Row, p \in WiringPos : [r EXCEPT !.pos = p] \in Wiring!Row BY DEF Wiring!Row, WiringPos
    <3> QED BY <3>1, <3>2, <3>3 DEF Wiring!Sealed
  <2>2. PICK p \in {"resolved", "failed"}, c \in Wiring!Row \cup {None} :
          /\ job' = [job EXCEPT ![k] = [job[k] EXCEPT !.pc = p, !.conf = c]]
          /\ p = "resolved" => c # None
    BY <1>6, <2>1 DEF Wiring!Resolve, WiringNone, WiringTyped
  <2>a. /\ [job[k] EXCEPT !.pc = p, !.conf = c] \in WiringJob /\ [job[k] EXCEPT !.pc = p, !.conf = c].pc = p
        /\ [job[k] EXCEPT !.pc = p, !.conf = c].conf = c /\ [job[k] EXCEPT !.pc = p, !.conf = c].seal = job[k].seal
    BY DEF WiringTyped, WiringJob
  <2>3. job' \in [Jobs -> WiringJob] BY <2>2, <2>a, WiringOneJob
  <2>4. \A j \in Jobs : /\ job'[j].seal = job[j].seal
                        /\ job'[j].pc = "resolved" => job'[j].conf # None
    BY <2>2, <2>a, WiringOneJob DEF WiringTyped
  <2>5. cache' \in [one : Wiring!Row \cup {None}, rows : Wiring!Rows \cup {None}]
    BY <1>6 DEF Wiring!Resolve, WiringTyped, WiringJob
  <2> QED BY <1>6, <1>a, <2>3, <2>4, <2>5 DEF Wiring!Resolve, WiringTyped
<1>7. ASSUME NEW k \in Jobs, Wiring!Talk(k) PROVE WiringTyped' /\ conn'[0].key >= conn[0].key
  <2>1. job[k].talked \cup {job[k].conf.pos} \in SUBSET WiringPos /\ job[k].calls + 1 \in Nat
    BY <1>7 DEF Wiring!Talk, WiringTyped, WiringJob, Wiring!Row, WiringPos
  <2>2. PICK t \in SUBSET WiringPos, c \in Nat :
          job' = [job EXCEPT ![k] = [job[k] EXCEPT !.pc = "queued", !.conf = None, !.got = None,
                    !.talked = t, !.calls = c]]
    BY <1>7, <2>1 DEF Wiring!Talk, WiringTyped
  <2> DEFINE r == [job[k] EXCEPT !.pc = "queued", !.conf = None, !.got = None, !.talked = t, !.calls = c]
  <2>a. r \in WiringJob /\ r.pc = "queued" /\ r.seal = job[k].seal
    BY DEF WiringTyped, WiringJob
  <2>3. job' \in [Jobs -> WiringJob] BY <2>2, <2>a, WiringOneJob
  <2>4. \A j \in Jobs : /\ job'[j].seal = job[j].seal
                        /\ job'[j].pc = "resolved" => job[j].pc = "resolved" /\ job'[j].conf = job[j].conf
    BY <2>2, <2>a, WiringOneJob
  <2> QED BY <1>7, <1>a, <2>3, <2>4 DEF Wiring!Talk, WiringTyped
<1>8. ASSUME NEW s \in Syncs, Wiring!Load(s) PROVE WiringTyped' /\ conn'[0].key >= conn[0].key
  <2> DEFINE rows == IF cache.rows # None THEN cache.rows ELSE conn
  <2>1. rows \in Wiring!Rows BY DEF WiringTyped, WiringGood
  <2>2. PICK one \in BOOLEAN, p \in {"loaded", "ended"} :
          /\ cache' = [cache EXCEPT !.rows = rows]
          /\ sync' = [sync EXCEPT ![s] = [Wiring!Resting EXCEPT !.pc = p, !.rows = rows, !.one = one, !.calm = rows = conn]]
    BY <1>8 DEF Wiring!Load
  <2>3. [Wiring!Resting EXCEPT !.pc = p, !.rows = rows, !.one = one, !.calm = rows = conn] \in WiringSync
    BY <2>1 DEF Wiring!Resting, WiringSync
  <2>4. /\ cache' \in [one : Wiring!Row \cup {None}, rows : Wiring!Rows \cup {None}]
        /\ sync' \in [Syncs -> WiringSync]
    BY <2>1, <2>2, <2>3 DEF WiringTyped
  <2> QED BY <1>8, <1>a, <2>4 DEF Wiring!Load, WiringTyped
<1>9. ASSUME NEW s \in Syncs, Wiring!Look(s) \/ Wiring!Ensure(s) \/ Wiring!End(s)
      PROVE  WiringTyped' /\ conn'[0].key >= conn[0].key
  <2>0. [i \in Wiring!Ids |-> None] \in Wiring!Rows BY DEF Wiring!Rows
  <2>a. ASSUME Wiring!Look(s) PROVE sync' \in [Syncs -> WiringSync]
    <3>1. sync' = [sync EXCEPT ![s] = [sync[s] EXCEPT !.pc = "looked", !.status = sched]]
      BY <2>a DEF Wiring!Look, WiringTyped
    <3>2. [sync[s] EXCEPT !.pc = "looked", !.status = sched] \in WiringSync BY DEF WiringTyped, WiringSync
    <3> QED BY <3>1, <3>2 DEF WiringTyped
  <2>b. ASSUME Wiring!Ensure(s) PROVE sync' \in [Syncs -> WiringSync]
    <3>1. \A t \in Syncs : /\ [sync[t] EXCEPT !.pc = "ended"] \in WiringSync
                           /\ [sync[t] EXCEPT !.calm = sync[t].calm /\ sync[s].rows = conn] \in WiringSync
      BY DEF WiringTyped, WiringSync
    <3> QED BY <2>b, <3>1 DEF Wiring!Ensure
  <2>c. ASSUME Wiring!End(s) PROVE sync' \in [Syncs -> WiringSync]
    BY <2>c, <2>0 DEF Wiring!End, Wiring!Resting, WiringTyped, WiringSync
  <2>1. sync' \in [Syncs -> WiringSync] BY <1>9, <2>a, <2>b, <2>c
  <2>2. sched' \in {"none", "active", "disabled"} /\ conn' = conn /\ job' = job /\ cache' = cache
    BY <1>9 DEF Wiring!Look, Wiring!Ensure, Wiring!End, WiringTyped
  <2> QED BY <1>a, <2>1, <2>2 DEF WiringTyped
<1>10. CASE UNCHANGED Wiring!vars BY <1>10, <1>a DEF Wiring!vars, WiringTyped
<1> QED BY <1>1, <1>2, <1>3, <1>4, <1>5, <1>6, <1>7, <1>8, <1>9, <1>10 DEF Wiring!Next

LEMMA WiringAlwaysTyped == ASSUME WiringNone PROVE Wiring!Spec => []WiringTyped
  BY WiringTypedInit, WiringTypedNext, PTL DEF Wiring!Spec

LEMMA WiringSealedNext ==
  ASSUME WiringNone PROVE WiringTyped /\ WiringSealed /\ [Wiring!Next]_(Wiring!vars) => WiringSealed'
<1> SUFFICES ASSUME WiringTyped, WiringSealed, [Wiring!Next]_(Wiring!vars) PROVE WiringSealed'
  OBVIOUS
<1>a. job' = job => WiringSealed' BY DEF WiringSealed
<1>b. job \in [Jobs -> WiringJob] BY DEF WiringTyped
\* One job steps to r.
<1>c. ASSUME NEW k \in Jobs, NEW r, job' = [job EXCEPT ![k] = r], r.pc # "none",
             r.seal # None => /\ r.talked \subseteq {r.seal.pos}
                              /\ r.pc = "resolved" => r.conf.pos = r.seal.pos
      PROVE  WiringSealed'
  <2>1. \A j \in Jobs : job'[j] = IF j = k THEN r ELSE job[j] BY <1>b, <1>c
  <2> QED BY <1>c, <2>1 DEF WiringSealed
<1>1. CASE Wiring!ManagerEdits \/ Wiring!Expire \/ UNCHANGED Wiring!vars
  BY <1>1, <1>a DEF Wiring!ManagerEdits, Wiring!Expire, Wiring!vars
<1>2. ASSUME NEW s \in Syncs, Wiring!Load(s) \/ Wiring!Look(s) \/ Wiring!Ensure(s) \/ Wiring!End(s)
      PROVE  WiringSealed'
  BY <1>2, <1>a DEF Wiring!Load, Wiring!Look, Wiring!Ensure, Wiring!End
<1>3. ASSUME NEW k \in Jobs, Wiring!Enqueue(k) PROVE WiringSealed'
  <2>1. PICK s : job' = [job EXCEPT ![k] = [job[k] EXCEPT !.pc = "queued", !.seal = s]]
    <3>1. CASE job' = [job EXCEPT ![k].pc = "queued"]
      <4>1. job' = [job EXCEPT ![k] = [job[k] EXCEPT !.pc = "queued", !.seal = job[k].seal]]
        BY <1>b, <3>1 DEF WiringJob
      <4> QED BY <4>1
    <3>2. CASE \E l \in Wiring!Active(conn) \ {Wiring!Business} : job' = [job EXCEPT ![k].pc = "queued",
                 ![k].seal = IF k = "inject" THEN [id |-> l, pos |-> Wiring!Effective(conn, l).pos] ELSE None]
      BY <1>b, <3>2
    <3> QED BY <1>3, <3>1, <3>2 DEF Wiring!Enqueue
  <2>2. LET r == [job[k] EXCEPT !.pc = "queued", !.seal = s]
        IN r.pc = "queued" /\ r.seal = s /\ r.talked = job[k].talked
    BY <1>b DEF WiringJob
  <2>3. job[k].talked = {} BY <1>3 DEF Wiring!Enqueue, WiringSealed
  <2> QED BY <1>c, <2>1, <2>2, <2>3
<1>4. ASSUME NEW k \in Jobs, Wiring!Start(k) PROVE WiringSealed'
  <2>1. PICK f : job' = [job EXCEPT ![k] = [job[k] EXCEPT !.pc = "started", !.floor = f]]
    BY <1>4, <1>b DEF Wiring!Start
  <2>2. LET r == [job[k] EXCEPT !.pc = "started", !.floor = f]
        IN r.pc = "started" /\ r.seal = job[k].seal /\ r.talked = job[k].talked
    BY <1>b DEF WiringJob
  <2>3. job[k].seal # None => job[k].talked \subseteq {job[k].seal.pos} BY DEF WiringSealed
  <2> QED BY <1>c, <2>1, <2>2, <2>3
<1>5. ASSUME NEW k \in Jobs, Wiring!Read(k) PROVE WiringSealed'
  <2>1. PICK g : job' = [job EXCEPT ![k] = [job[k] EXCEPT !.pc = "read", !.got = g]]
    BY <1>5, <1>b DEF Wiring!Read
  <2>2. LET r == [job[k] EXCEPT !.pc = "read", !.got = g]
        IN r.pc = "read" /\ r.seal = job[k].seal /\ r.talked = job[k].talked
    BY <1>b DEF WiringJob
  <2>3. job[k].seal # None => job[k].talked \subseteq {job[k].seal.pos} BY DEF WiringSealed
  <2> QED BY <1>c, <2>1, <2>2, <2>3
<1>6. ASSUME NEW k \in Jobs, Wiring!Resolve(k) PROVE WiringSealed'
  <2> DEFINE usable == job[k].got # None /\ Wiring!Sealed(k).key # None /\ Wiring!Sealed(k).pos # None
             p == IF usable THEN "resolved" ELSE "failed"
             c == IF usable THEN Wiring!Sealed(k) ELSE None
  <2>1. job' = [job EXCEPT ![k] = [job[k] EXCEPT !.pc = p, !.conf = c]]
    BY <1>6, <1>b DEF Wiring!Resolve
  <2>2. LET r == [job[k] EXCEPT !.pc = p, !.conf = c]
        IN r.pc = p /\ r.conf = c /\ r.seal = job[k].seal /\ r.talked = job[k].talked
    BY <1>b DEF WiringJob
  <2>3. job[k].seal # None => job[k].talked \subseteq {job[k].seal.pos} BY DEF WiringSealed
  <2>4. ASSUME job[k].seal # None, usable PROVE c.pos = job[k].seal.pos
    <3>1. job[k].got \in Wiring!Row BY <1>b, <2>4 DEF WiringJob
    <3>2. c = [job[k].got EXCEPT !.pos = job[k].seal.pos] BY <2>4 DEF Wiring!Sealed
    <3> QED BY <3>1, <3>2 DEF Wiring!Row
  <2>5. p = "resolved" => usable OBVIOUS
  <2> HIDE DEF usable, p, c
  <2>6. p # "none" BY DEF p
  <2> QED BY <1>c, <2>1, <2>2, <2>3, <2>4, <2>5, <2>6
<1>7. ASSUME NEW k \in Jobs, Wiring!Talk(k) PROVE WiringSealed'
  <2>1. job' = [job EXCEPT ![k] = [job[k] EXCEPT !.pc = "queued", !.conf = None, !.got = None,
                  !.talked = job[k].talked \cup {job[k].conf.pos}, !.calls = job[k].calls + 1]]
    BY <1>7, <1>b DEF Wiring!Talk
  <2>2. LET r == [job[k] EXCEPT !.pc = "queued", !.conf = None, !.got = None,
                  !.talked = job[k].talked \cup {job[k].conf.pos}, !.calls = job[k].calls + 1]
        IN r.pc = "queued" /\ r.seal = job[k].seal /\ r.talked = job[k].talked \cup {job[k].conf.pos}
    BY <1>b DEF WiringJob
  <2>3. job[k].seal # None => /\ job[k].talked \subseteq {job[k].seal.pos}
                              /\ job[k].conf.pos = job[k].seal.pos
    BY <1>7 DEF WiringSealed, Wiring!Talk
  <2> QED BY <1>c, <2>1, <2>2, <2>3
<1> QED BY <1>1, <1>2, <1>3, <1>4, <1>5, <1>6, <1>7 DEF Wiring!Next

\* connection.ts: every step and retry of a sealed injection talks to one Aloha.
THEOREM SealedGoesToOneAloha == ASSUME WiringNone PROVE Wiring!Spec => []Wiring!OneAloha
<1>1. Wiring!Init => WiringSealed BY DEF Wiring!Init, Wiring!NoJob, WiringSealed
<1>2. WiringTyped /\ WiringSealed /\ [Wiring!Next]_(Wiring!vars) => WiringSealed' BY WiringSealedNext
<1>3. WiringSealed => Wiring!OneAloha
  <2>1. \A S, x : S \subseteq {x} => Wiring!Cardinality(S) <= 1
    <3> TAKE S, x
    <3> HAVE S \subseteq {x}
    <3>1. Wiring!Cardinality(S) = Cardinality(S) BY DEF Wiring!Cardinality, Cardinality
    <3>2. S = {} \/ S = {x} OBVIOUS
    <3>3. Cardinality({}) = 0 BY FS_EmptySet
    <3>4. Cardinality({x}) = 1 BY FS_Singleton
    <3> QED BY <3>1, <3>2, <3>3, <3>4
  <2> QED BY <2>1 DEF WiringSealed, Wiring!OneAloha
<1> QED BY <1>1, <1>2, <1>3, WiringAlwaysTyped, PTL DEF Wiring!Spec

LEMMA WiringFixedNext ==
  ASSUME WiringNone PROVE WiringTyped /\ WiringFixed /\ [Wiring!Next]_(Wiring!vars) => WiringFixed'
<1> SUFFICES ASSUME WiringTyped, WiringFixed, [Wiring!Next]_(Wiring!vars) PROVE WiringFixed'
  OBVIOUS
<1>a. conn'[0].key >= conn[0].key /\ conn[0].key \in {0, 1} /\ conn'[0].key \in {0, 1} /\ WiringTyped'
  BY WiringTypedNext DEF WiringTyped, WiringGood
<1>b. job \in [Jobs -> WiringJob] BY DEF WiringTyped
<1>c. \A k \in Jobs : job[k].floor \in {0, 1} BY <1>b DEF WiringJob
<1>d. job' = job => WiringFixed'
  <2>1. ASSUME job' = job, NEW k \in Jobs \cap {"inject"} PROVE conn'[0].key >= job'[k].floor
    <3>1. conn[0].key >= job[k].floor BY DEF WiringFixed
    <3> QED BY <1>a, <1>c, <2>1, <3>1
  <2> QED BY <2>1 DEF WiringFixed
\* One job steps to r, and nothing else changes that matters here.
<1>e. ASSUME NEW k \in Jobs, NEW r, job' = [job EXCEPT ![k] = r], conn' = conn,
             k = "inject" => conn[0].key >= r.floor,
             k = "inject" /\ r.pc = "read" /\ r.got # None /\ r.got.key # None => r.got.key >= r.floor,
             k = "inject" /\ r.pc = "resolved" => r.conf.key >= r.floor
      PROVE  WiringFixed'
  <2>1. \A j \in Jobs : job'[j] = IF j = k THEN r ELSE job[j] BY <1>b, <1>e
  <2> QED BY <1>e, <2>1 DEF WiringFixed
<1>1. CASE Wiring!ManagerEdits \/ Wiring!Expire \/ UNCHANGED Wiring!vars
  BY <1>1, <1>d DEF Wiring!ManagerEdits, Wiring!Expire, Wiring!vars
<1>2. ASSUME NEW s \in Syncs, Wiring!Load(s) \/ Wiring!Look(s) \/ Wiring!Ensure(s) \/ Wiring!End(s)
      PROVE  WiringFixed'
  BY <1>2, <1>d DEF Wiring!Load, Wiring!Look, Wiring!Ensure, Wiring!End
<1>3. ASSUME NEW k \in Jobs, Wiring!Enqueue(k) PROVE WiringFixed'
  <2>1. PICK s : job' = [job EXCEPT ![k] = [job[k] EXCEPT !.pc = "queued", !.seal = s]]
    <3>1. CASE job' = [job EXCEPT ![k].pc = "queued"]
      <4>1. job' = [job EXCEPT ![k] = [job[k] EXCEPT !.pc = "queued", !.seal = job[k].seal]]
        BY <1>b, <3>1 DEF WiringJob
      <4> QED BY <4>1
    <3>2. CASE \E l \in Wiring!Active(conn) \ {Wiring!Business} : job' = [job EXCEPT ![k].pc = "queued",
                 ![k].seal = IF k = "inject" THEN [id |-> l, pos |-> Wiring!Effective(conn, l).pos] ELSE None]
      BY <1>b, <3>2
    <3> QED BY <1>3, <3>1, <3>2 DEF Wiring!Enqueue
  <2>2. LET r == [job[k] EXCEPT !.pc = "queued", !.seal = s] IN r.pc = "queued" /\ r.floor = job[k].floor
    BY <1>b DEF WiringJob
  <2>3. k = "inject" => conn[0].key >= job[k].floor BY DEF WiringFixed
  <2>4. conn' = conn BY <1>3 DEF Wiring!Enqueue
  <2> QED BY <1>e, <2>1, <2>2, <2>3, <2>4
<1>4. ASSUME NEW k \in Jobs, Wiring!Start(k) PROVE WiringFixed'
  <2> DEFINE f == IF \E i \in Wiring!Ids : conn[i] # None /\ conn[i].key = 1 THEN 1 ELSE 0
  <2>1. job' = [job EXCEPT ![k] = [job[k] EXCEPT !.pc = "started", !.floor = f]]
    BY <1>4, <1>b DEF Wiring!Start
  <2>2. conn[0].key >= f
    BY <1>a DEF WiringTyped, WiringGood, Wiring!Ids, Wiring!Business, WiringNone
  <2> HIDE DEF f
  <2>3. LET r == [job[k] EXCEPT !.pc = "started", !.floor = f] IN r.pc = "started" /\ r.floor = f
    BY <1>b DEF WiringJob
  <2>4. conn' = conn BY <1>4 DEF Wiring!Start
  <2> QED BY <1>e, <2>1, <2>2, <2>3, <2>4
<1>5. ASSUME NEW k \in Jobs, Wiring!Read(k) PROVE WiringFixed'
  <2> DEFINE g == IF Wiring!ReadsCache(k) THEN cache.one ELSE Wiring!Pick(conn, Wiring!Asked(k))
  <2>1. job' = [job EXCEPT ![k] = [job[k] EXCEPT !.pc = "read", !.got = g]]
    BY <1>5, <1>b DEF Wiring!Read
  <2>2. k = "inject" /\ g # None /\ g.key # None => g.key = conn[0].key
    <3>1. /\ Wiring!Asked(k) \in Locations \cup {None} /\ WiringGood(conn)
          /\ Wiring!Asked(k) # None => conn[Wiring!Asked(k)] # None
      BY DEF Wiring!Asked, WiringTyped, WiringJob, WiringSeal
    <3> QED BY <3>1, WiringPicks DEF Wiring!ReadsCache
  <2> HIDE DEF g
  <2>3. LET r == [job[k] EXCEPT !.pc = "read", !.got = g]
        IN r.pc = "read" /\ r.got = g /\ r.floor = job[k].floor
    BY <1>b DEF WiringJob
  <2>4. k = "inject" => conn[0].key >= job[k].floor BY DEF WiringFixed
  <2>5. conn' = conn BY <1>5 DEF Wiring!Read
  <2> QED BY <1>e, <2>1, <2>2, <2>3, <2>4, <2>5
<1>6. ASSUME NEW k \in Jobs, Wiring!Resolve(k) PROVE WiringFixed'
  <2> DEFINE usable == job[k].got # None /\ Wiring!Sealed(k).key # None /\ Wiring!Sealed(k).pos # None
             p == IF usable THEN "resolved" ELSE "failed"
             c == IF usable THEN Wiring!Sealed(k) ELSE None
  <2>1. job' = [job EXCEPT ![k] = [job[k] EXCEPT !.pc = p, !.conf = c]]
    BY <1>6, <1>b DEF Wiring!Resolve
  <2>2. LET r == [job[k] EXCEPT !.pc = p, !.conf = c] IN r.pc = p /\ r.conf = c /\ r.floor = job[k].floor
    BY <1>b DEF WiringJob
  <2>3. k = "inject" => conn[0].key >= job[k].floor BY DEF WiringFixed
  <2>4. ASSUME k = "inject", usable PROVE c.key >= job[k].floor
    <3>1. job[k].got \in Wiring!Row BY <1>b, <2>4 DEF WiringJob
    <3>2. Wiring!Sealed(k).key = job[k].got.key BY <3>1 DEF Wiring!Sealed, Wiring!Row
    <3>3. job[k].got # None /\ job[k].got.key # None /\ job[k].pc = "read"
      BY <1>6, <2>4, <3>2 DEF Wiring!Resolve
    <3>4. job[k].got.key >= job[k].floor BY <2>4, <3>3 DEF WiringFixed
    <3> QED BY <2>4, <3>2, <3>4
  <2>5. (p = "resolved" => usable) /\ p # "read" OBVIOUS
  <2> HIDE DEF usable, p, c
  <2>6. conn' = conn BY <1>6 DEF Wiring!Resolve
  <2> QED BY <1>e, <2>1, <2>2, <2>3, <2>4, <2>5, <2>6
<1>7. ASSUME NEW k \in Jobs, Wiring!Talk(k) PROVE WiringFixed'
  <2>1. job' = [job EXCEPT ![k] = [job[k] EXCEPT !.pc = "queued", !.conf = None, !.got = None,
                  !.talked = job[k].talked \cup {job[k].conf.pos}, !.calls = job[k].calls + 1]]
    BY <1>7, <1>b DEF Wiring!Talk
  <2>2. LET r == [job[k] EXCEPT !.pc = "queued", !.conf = None, !.got = None,
                  !.talked = job[k].talked \cup {job[k].conf.pos}, !.calls = job[k].calls + 1]
        IN r.pc = "queued" /\ r.floor = job[k].floor
    BY <1>b DEF WiringJob
  <2>3. k = "inject" => conn[0].key >= job[k].floor BY DEF WiringFixed
  <2>4. conn' = conn BY <1>7 DEF Wiring!Talk
  <2> QED BY <1>e, <2>1, <2>2, <2>3, <2>4
<1> QED BY <1>1, <1>2, <1>3, <1>4, <1>5, <1>6, <1>7 DEF Wiring!Next

\* credentials.ts:138: an attempt that starts after the key was corrected uses the corrected one.
THEOREM CorrectedKeyIsUsed == ASSUME WiringNone PROVE Wiring!Spec => []Wiring!FixIsUsed
<1>1. Wiring!Init => WiringFixed
  <2> SUFFICES ASSUME Wiring!Init PROVE WiringFixed
    OBVIOUS
  <2>1. conn[0].key \in {0, 1} BY WiringTypedInit DEF WiringTyped, WiringGood
  <2> QED BY <2>1 DEF Wiring!Init, Wiring!NoJob, WiringFixed
<1>2. WiringTyped /\ WiringFixed /\ [Wiring!Next]_(Wiring!vars) => WiringFixed' BY WiringFixedNext
<1>3. WiringFixed => Wiring!FixIsUsed BY DEF WiringFixed, Wiring!FixIsUsed
<1> QED BY <1>1, <1>2, <1>3, WiringAlwaysTyped, PTL DEF Wiring!Spec

\* A sync that ran undisturbed read the connections as they are; what it saw of the
\* schedule is so, or the schedule is right already.
WiringStock ==
  \A s \in Syncs : sync[s].calm =>
    /\ sync[s].pc \in {"loaded", "looked", "ended"} => sync[s].rows = conn
    /\ sync[s].pc = "looked" => \/ sync[s].status = sched
                               \/ (sched = "active" <=> Wiring!WantsStock(conn))
    /\ sync[s].pc = "ended" /\ ~sync[s].one /\ Wiring!Multi(conn) => (sched = "active" <=> Wiring!WantsStock(conn))

LEMMA WiringStockNext ==
  WiringTyped /\ WiringStock /\ [Wiring!Next]_(Wiring!vars) => WiringStock'
<1> SUFFICES ASSUME WiringTyped, WiringStock, [Wiring!Next]_(Wiring!vars) PROVE WiringStock'
  OBVIOUS
<1>a. sync \in [Syncs -> WiringSync] BY DEF WiringTyped
<1>b. sync' = sync /\ conn' = conn /\ sched' = sched => WiringStock'
  BY DEF WiringStock, Wiring!WantsStock, Wiring!Multi, Wiring!Connections, Wiring!Active, Wiring!Effective
<1>c. conn' = conn => /\ Wiring!WantsStock(conn)' <=> Wiring!WantsStock(conn)
                      /\ Wiring!Multi(conn)' <=> Wiring!Multi(conn)
  BY DEF Wiring!WantsStock, Wiring!Multi, Wiring!Connections, Wiring!Active, Wiring!Effective
<1>1. CASE Wiring!ManagerEdits
  <2>1. \A s \in Syncs : sync'[s].calm = FALSE BY <1>1, <1>a DEF Wiring!ManagerEdits, WiringSync
  <2> QED BY <2>1 DEF WiringStock
<1>2. CASE Wiring!Expire \/ UNCHANGED Wiring!vars BY <1>2, <1>b DEF Wiring!Expire, Wiring!vars
<1>3. ASSUME NEW k \in Jobs, Wiring!Enqueue(k) \/ Wiring!Start(k) \/ Wiring!Read(k) \/ Wiring!Resolve(k) \/ Wiring!Talk(k)
      PROVE  WiringStock'
  BY <1>3, <1>b DEF Wiring!Enqueue, Wiring!Start, Wiring!Read, Wiring!Resolve, Wiring!Talk
\* One sync steps to r.
<1>d. ASSUME NEW s \in Syncs, NEW r, sync' = [sync EXCEPT ![s] = r], conn' = conn, sched' = sched,
             r.calm => /\ r.pc \in {"loaded", "looked", "ended"} => r.rows = conn
                       /\ r.pc = "looked" => r.status = sched
                       /\ ~(r.pc = "ended" /\ ~r.one /\ Wiring!Multi(conn))
      PROVE  WiringStock'
  <2>1. \A t \in Syncs : sync'[t] = IF t = s THEN r ELSE sync[t] BY <1>a, <1>d
  <2> QED BY <1>c, <1>d, <2>1 DEF WiringStock
<1>4. ASSUME NEW s \in Syncs, Wiring!Load(s) PROVE WiringStock'
  <2> DEFINE rows == IF cache.rows # None THEN cache.rows ELSE conn
  <2>1. PICK one \in BOOLEAN :
          sync' = [sync EXCEPT ![s] = [Wiring!Resting EXCEPT
                     !.pc = IF Wiring!Multi(rows) /\ ~one THEN "loaded" ELSE "ended",
                     !.rows = rows, !.one = one, !.calm = rows = conn]]
    BY <1>4 DEF Wiring!Load
  <2> HIDE DEF rows
  <2> DEFINE r == [Wiring!Resting EXCEPT !.pc = IF Wiring!Multi(rows) /\ ~one THEN "loaded" ELSE "ended",
                     !.rows = rows, !.one = one, !.calm = rows = conn]
  <2>2. /\ r.pc = IF Wiring!Multi(rows) /\ ~one THEN "loaded" ELSE "ended"
        /\ r.rows = rows /\ r.one = one /\ (r.calm => rows = conn)
    BY DEF Wiring!Resting
  <2>3. sync' = [sync EXCEPT ![s] = r] /\ conn' = conn /\ sched' = sched BY <1>4, <2>1 DEF Wiring!Load
  <2> HIDE DEF r
  <2>4. r.calm /\ r.pc = "ended" /\ ~r.one => ~Wiring!Multi(conn)
    <3>1. CASE rows = conn BY <2>2, <3>1
    <3> QED BY <2>2, <3>1
  <2>5. r.pc # "looked" BY <2>2
  <2> QED BY <1>d, <2>2, <2>3, <2>4, <2>5
<1>5. ASSUME NEW s \in Syncs, Wiring!Look(s) PROVE WiringStock'
  <2>1. sync' = [sync EXCEPT ![s] = [sync[s] EXCEPT !.pc = "looked", !.status = sched]]
    BY <1>5, <1>a DEF Wiring!Look
  <2>2. LET r == [sync[s] EXCEPT !.pc = "looked", !.status = sched]
        IN r.pc = "looked" /\ r.status = sched /\ r.rows = sync[s].rows /\ r.calm = sync[s].calm
    BY <1>a DEF WiringSync
  <2>3. sync[s].calm => sync[s].rows = conn BY <1>5 DEF Wiring!Look, WiringStock
  <2>4. conn' = conn /\ sched' = sched BY <1>5 DEF Wiring!Look
  <2> DEFINE r == [sync[s] EXCEPT !.pc = "looked", !.status = sched]
  <2>5. /\ sync' = [sync EXCEPT ![s] = r] /\ r.pc = "looked" /\ r.status = sched
        /\ r.rows = sync[s].rows /\ (r.calm => sync[s].calm)
    BY <2>1, <2>2
  <2> HIDE DEF r
  <2> QED BY <1>d, <2>3, <2>4, <2>5
<1>6. ASSUME NEW s \in Syncs, Wiring!Ensure(s) PROVE WiringStock'
  <2>1. /\ sync[s].pc = "looked" /\ conn' = conn
        /\ sched' = CASE Wiring!WantsStock(sync[s].rows) /\ sync[s].status # "active"  -> "active"
                      [] ~Wiring!WantsStock(sync[s].rows) /\ sync[s].status = "active" -> "disabled"
                      [] OTHER -> sched
    BY <1>6 DEF Wiring!Ensure
  <2>2. \A t \in Syncs : sync'[t] = CASE t = s -> [sync[t] EXCEPT !.pc = "ended"]
                                   [] OTHER -> [sync[t] EXCEPT !.calm = sync[t].calm /\ sync[s].rows = conn]
    BY <1>6 DEF Wiring!Ensure
  <2>3. \A t \in Syncs : /\ sync'[t].rows = sync[t].rows /\ sync'[t].one = sync[t].one
                         /\ sync'[t].status = sync[t].status
                         /\ sync'[t].pc = IF t = s THEN "ended" ELSE sync[t].pc
                         /\ sync'[t].calm => sync[t].calm /\ (t = s \/ sync[s].rows = conn)
    <3> TAKE t \in Syncs
    <3>1. sync[t] \in WiringSync BY <1>a
    <3>2. CASE t = s
      <4>1. sync'[t] = [sync[t] EXCEPT !.pc = "ended"] BY <2>2, <3>2
      <4> QED BY <3>1, <3>2, <4>1 DEF WiringSync
    <3>3. CASE t # s
      <4>1. sync'[t] = [sync[t] EXCEPT !.calm = sync[t].calm /\ sync[s].rows = conn] BY <2>2, <3>3
      <4> QED BY <3>1, <3>3, <4>1 DEF WiringSync
    <3> QED BY <3>2, <3>3
  \* A sync that read the rows as they are leaves the schedule right, or as it was.
  <2>4. ASSUME sync[s].rows = conn PROVE sched' = sched \/ (sched' = "active" <=> Wiring!WantsStock(conn))
    BY <2>1, <2>4
  <2>5. ASSUME sync[s].calm PROVE sync[s].rows = conn /\ (sched' = "active" <=> Wiring!WantsStock(conn))
    <3>1. /\ sync[s].rows = conn
          /\ sync[s].status = sched \/ (sched = "active" <=> Wiring!WantsStock(conn))
      BY <2>1, <2>5 DEF WiringStock
    <3> QED BY <2>1, <3>1
  <2>6. ASSUME NEW t \in Syncs, sync'[t].calm
        PROVE  /\ sync'[t].pc \in {"loaded", "looked", "ended"} => sync'[t].rows = conn
               /\ sync'[t].pc = "looked" => \/ sync'[t].status = sched'
                                           \/ (sched' = "active" <=> Wiring!WantsStock(conn))
               /\ sync'[t].pc = "ended" /\ ~sync'[t].one /\ Wiring!Multi(conn)
                    => (sched' = "active" <=> Wiring!WantsStock(conn))
    <3>1. CASE t = s BY <2>3, <2>5, <2>6, <3>1
    <3>2. CASE t # s
      <4>1. sync[t].calm /\ sync[s].rows = conn BY <2>3, <2>6, <3>2
      <4>2. sched' = sched \/ (sched' = "active" <=> Wiring!WantsStock(conn)) BY <2>4, <4>1
      <4> QED BY <2>3, <3>2, <4>1, <4>2 DEF WiringStock
    <3> QED BY <3>1, <3>2
  <2> QED BY <1>c, <2>1, <2>6 DEF WiringStock
<1>7. ASSUME NEW s \in Syncs, Wiring!End(s) PROVE WiringStock'
  <2>1. sync' = [sync EXCEPT ![s] = Wiring!Resting] /\ conn' = conn /\ sched' = sched BY <1>7 DEF Wiring!End
  <2>2. Wiring!Resting.pc = "idle" BY DEF Wiring!Resting
  <2> QED BY <1>d, <2>1, <2>2
<1> QED BY <1>1, <1>2, <1>3, <1>4, <1>5, <1>6, <1>7 DEF Wiring!Next

\* connections.ts: after a sync that read the connections as they are, the stock by
\* location is scheduled if and only if one of them asks for it.
THEOREM StockIsScheduled == ASSUME WiringNone PROVE Wiring!Spec => []Wiring!StockFollowsConnections
<1>1. Wiring!Init => WiringStock BY DEF Wiring!Init, Wiring!Resting, WiringStock
<1>2. WiringTyped /\ WiringStock /\ [Wiring!Next]_(Wiring!vars) => WiringStock' BY WiringStockNext
<1>3. WiringStock => Wiring!StockFollowsConnections BY DEF WiringStock, Wiring!StockFollowsConnections
<1> QED BY <1>1, <1>2, <1>3, WiringAlwaysTyped, PTL DEF Wiring!Spec
=============================================================================
