---------------------------- MODULE Upkeep_proofs ----------------------------
(***************************************************************************)
(* Proofs about what keeps Omnivore and the books in step: the payment of  *)
(* a ticket, the products and modifier groups, the roster of several       *)
(* locations, auto-settle, subscriptions and alerts.  Each component is an *)
(* instance here, on constants and variables it shares by name with the    *)
(* others; what a section says of one reads nothing of another.            *)
(***************************************************************************)
EXTENDS Naturals, Sequences, SequenceTheorems, FiniteSets, FiniteSetTheorems,
        WellFoundedInduction, TLAPS

CONSTANTS
  None, Faults,
  Pays, Asked, Total, Unfired, Retries, MaxWaiting, TenderFaults,  \* OmnivoreTender
  Products,                                           \* the catalogue and the groups
  Names, ShrinkCap, Levels, PerSite, AutoLevel,       \* OmnivoreCatalog
  Groups, Modifiers, Ranges, ManageStock, Native,     \* OmnivoreModifiers
  Locations, Pins, People, Alike, RosterFaults,       \* RosterMulti
  Devices, OverdueAfter,                              \* AutoSettle
  Keys, Critical, Noisy, Dispatchers, Quota, MaxRows, MaxCount,  \* Alerts
  Orders, Units, Wants, Fits, Automatic, Card, MaxAttempts       \* Subscriptions

VARIABLES
  used, row, job, sweep,
  ticket, sky, fired, noted, issue, ex,               \* OmnivoreTender
  item, level, oos, chosen, manual, visit,            \* OmnivoreCatalog
  menu, ingr, grp, attached,                          \* OmnivoreModifiers
  staff, pull, admins,                                \* RosterMulti
  open, on, seen, settling, stamp, tries, said, excused,  \* AutoSettle
  plan, asset, vault,                                 \* Subscriptions
  outbox, log, desk, events                           \* Alerts

Tender  == INSTANCE OmnivoreTender WITH MaxAttempts <- Retries, Faults <- TenderFaults
Menu    == INSTANCE OmnivoreCatalog
Options == INSTANCE OmnivoreModifiers
Rosters == INSTANCE RosterMulti WITH Faults <- RosterFaults
Settle  == INSTANCE AutoSettle
Plans   == INSTANCE Subscriptions
Outbox  == INSTANCE Alerts

---------------------------------------------------------------------------
(* OmnivoreTender.  Without a lost answer, write or process, the marker of *)
(* a payment says what the POS has of it.                                  *)

TenderJobType == [status : {"queued", "running", "dead", "completed"}, attempts : Nat,
            max : {Retries, MaxWaiting}]
TenderExType  == [pc : Tender!Pc, due : Nat, adjust : Nat]
TenderRowType == [marker : {"none", "id", "closed"}, adjusted : Nat]

\* Where the execution of a payment stands: before its tender, with the tender
\* in and not yet marked, and past all it has to write about it.
TenderBefore  == {"items", "recon", "totals", "paid", "post"}
TenderUnsaved == {"mark", "closed"}
TenderPast    == {"siblings", "clear", "end"}

\* A job runs while it has an execution.
TenderRuns(p) == (job[p].status = "running") <=> (ex[p].pc # "idle")

\* What is to be applied and what is to be noted were read together.
TenderSplit(p) ==
  /\ ex[p].pc = "post" => Asked[p] = Tender!Amount(p) + ex[p].adjust
  /\ ex[p].pc \in {"mark", "note"} => Asked[p] = ticket.applied[p] + ex[p].adjust
  /\ ex[p].pc = "note" => row[p].marker = "id"
  /\ ex[p].pc \in TenderPast /\ row[p].marker # "closed" => Asked[p] = ticket.applied[p] + noted[p]

\* Without a lost answer, write or process, the marker says what the POS has:
\* a payment that is not marked has no tender and no note, except between the two
\* writes, and a payment marked by the id of its tender never starts again.
TenderHonest(p) ==
  /\ ticket.tenders[p] = IF row[p].marker # "none" \/ ex[p].pc \in TenderUnsaved THEN 1 ELSE 0
  /\ ticket.tenders[p] = 0 => ticket.applied[p] = 0
  /\ ex[p].pc \in TenderBefore \cup TenderUnsaved => row[p].marker = "none"
  /\ ex[p].pc = "applied" \/ job[p].status \in {"queued", "dead"} =>
       row[p].marker \in {"none", "closed"}
  /\ noted[p] = 0 \/ ex[p].pc \in TenderPast \/ job[p].status = "completed"
  /\ job[p].status = "completed" /\ row[p].marker # "closed" =>
       Asked[p] = ticket.applied[p] + noted[p]

TenderInv == Tender!NoDoubt =>
  /\ sky = {}
  /\ \A p \in Pays : TenderRuns(p) /\ TenderSplit(p) /\ TenderHonest(p)
---------------------------------------------------------------------------
(* Types.                                                                  *)

TenderAmounts == /\ Asked \in [Pays -> Nat] /\ Total \in Nat /\ Unfired \in Nat
           /\ Retries \in Nat /\ MaxWaiting \in Nat

\* The parts of TypeOK.
TenderPosTyped == /\ ticket \in [due : Nat, locked : BOOLEAN, tenders : [Pays -> Nat], applied : [Pays -> Nat]]
            /\ sky \subseteq (Pays \X Nat)
            /\ fired \in [lines : Nat, flying : BOOLEAN]
TenderTablesTyped == row \in [Pays -> TenderRowType] /\ noted \in [Pays -> Nat] /\ issue \in Pays \cup {None}
TenderJobsTyped   == job \in [Pays -> TenderJobType] /\ ex \in [Pays -> TenderExType]
TenderTyped == TenderPosTyped /\ TenderTablesTyped /\ TenderJobsTyped /\ used \subseteq Tender!Kinds

LEMMA TenderTypedOK == TenderTyped <=> Tender!TypeOK
  BY DEF TenderTyped, Tender!TypeOK, TenderPosTyped, TenderTablesTyped, TenderJobsTyped, TenderRowType, TenderJobType, TenderExType

LEMMA TenderTypedInit == ASSUME TenderAmounts PROVE Tender!Init => TenderTyped
  BY DEF TenderAmounts, Tender!Init, TenderTyped, TenderPosTyped, TenderTablesTyped, TenderJobsTyped, TenderRowType, TenderJobType, TenderExType, Tender!Pc, Tender!Resting

LEMMA TenderLeastType == ASSUME NEW a \in Nat, NEW b \in Nat
                   PROVE Tender!Least(a, b) \in Nat /\ Tender!Least(a, b) <= a /\ Tender!Least(a, b) <= b
  BY DEF Tender!Least

LEMMA TenderAmountType == ASSUME TenderAmounts, TenderTyped, NEW p \in Pays
                    PROVE Tender!Amount(p) \in Nat /\ Tender!Amount(p) <= Asked[p]
  BY TenderLeastType DEF TenderAmounts, TenderTyped, TenderJobsTyped, TenderExType, Tender!Amount

\* The execution moves on; the rest of it stays.
LEMMA TenderGoType ==
  ASSUME TenderTyped, NEW p \in Pays, NEW pc \in Tender!Pc, Tender!Go(p, pc)
  PROVE  /\ ex' \in [Pays -> TenderExType]
         /\ ex'[p].pc = pc /\ ex'[p].due = ex[p].due /\ ex'[p].adjust = ex[p].adjust
         /\ \A q \in Pays \ {p} : ex'[q] = ex[q]
  BY DEF TenderTyped, TenderJobsTyped, TenderExType, Tender!Go

\* The engine drops the execution of a job.
LEMMA TenderDroppedType ==
  ASSUME TenderTyped, NEW p \in Pays, NEW retryable \in BOOLEAN, NEW max \in {Retries, MaxWaiting},
         Tender!Dropped(p, retryable, max)
  PROVE  /\ TenderJobsTyped'
         /\ job'[p].status \in {"queued", "dead"} /\ ex'[p].pc = "idle"
         /\ \A q \in Pays \ {p} : ex'[q] = ex[q] /\ job'[q] = job[q]
  <1>1. job[p].attempts + 1 \in Nat BY DEF TenderTyped, TenderJobsTyped, TenderJobType
  <1> DEFINE s == IF Tender!Retries(p, retryable, max) THEN "queued" ELSE "dead"
             j == [status |-> s, attempts |-> job[p].attempts + 1, max |-> max]
  <1>2. j \in TenderJobType /\ j.status \in {"queued", "dead"} BY <1>1 DEF TenderJobType
  <1>3. job' = [job EXCEPT ![p] = j] /\ ex' = [ex EXCEPT ![p] = Tender!Resting] BY DEF Tender!Dropped
  <1>4. Tender!Resting \in TenderExType /\ Tender!Resting.pc = "idle" BY DEF Tender!Resting, TenderExType, Tender!Pc
  <1> HIDE DEF j
  <1> QED BY <1>2, <1>3, <1>4 DEF TenderTyped, TenderJobsTyped

\* A tender that the POS takes.
LEMMA TenderedType ==
  ASSUME TenderTyped, NEW p \in Pays, NEW n \in Nat, Tender!Takes(n), ticket' = Tender!Tendered(p, n)
  PROVE  /\ ticket' \in [due : Nat, locked : BOOLEAN, tenders : [Pays -> Nat], applied : [Pays -> Nat]]
         /\ ticket'.tenders[p] = ticket.tenders[p] + 1 /\ ticket'.applied[p] = ticket.applied[p] + n
         /\ \A q \in Pays \ {p} : /\ ticket'.tenders[q] = ticket.tenders[q]
                                  /\ ticket'.applied[q] = ticket.applied[q]
  <1>1. ticket.due - n \in Nat BY DEF TenderTyped, TenderPosTyped, Tender!Takes
  <1> DEFINE count == [ticket.tenders EXCEPT ![p] = ticket.tenders[p] + 1]
             sum == [ticket.applied EXCEPT ![p] = ticket.applied[p] + n]
  <1>2. count \in [Pays -> Nat] /\ sum \in [Pays -> Nat] BY DEF TenderTyped, TenderPosTyped
  <1>3. /\ count[p] = ticket.tenders[p] + 1 /\ sum[p] = ticket.applied[p] + n
        /\ \A q \in Pays \ {p} : count[q] = ticket.tenders[q] /\ sum[q] = ticket.applied[q]
    BY DEF TenderTyped, TenderPosTyped
  <1>4. ticket' = [ticket EXCEPT !.due = ticket.due - n, !.tenders = count, !.applied = sum]
    BY DEF Tender!Tendered, TenderTyped, TenderPosTyped
  <1> HIDE DEF count, sum
  <1>5. ticket'.due = ticket.due - n /\ ticket'.tenders = count /\ ticket'.applied = sum
        /\ ticket' \in [due : Nat, locked : BOOLEAN, tenders : [Pays -> Nat], applied : [Pays -> Nat]]
    BY <1>1, <1>2, <1>4 DEF TenderTyped, TenderPosTyped
  <1> QED BY <1>3, <1>5

\* A warning is about a payment of the order; a note is an amount.
LEMMA TenderWarnedType ==
  ASSUME TenderTyped, NEW p \in Pays, NEW r, NEW max, NEW always, Tender!Warned(p, r, max, always)
  PROVE  issue' \in Pays \cup {None}
  BY DEF TenderTyped, TenderTablesTyped, Tender!Warned

LEMMA TenderNotedType ==
  ASSUME TenderTyped, NEW p \in Pays, NEW n \in Nat, Tender!Noted(p, n)
  PROVE  noted' \in [Pays -> Nat] /\ used' \subseteq Tender!Kinds
  BY DEF TenderTyped, TenderTablesTyped, Tender!Noted, Tender!Happens

LEMMA TenderMarkedType ==
  ASSUME TenderTyped, NEW p \in Pays, NEW m \in {"none", "id", "closed"}, NEW n \in Nat, Tender!Marked(p, m, n)
  PROVE  row' \in [Pays -> TenderRowType] /\ used' \subseteq Tender!Kinds
  BY DEF TenderTyped, TenderTablesTyped, Tender!Marked, Tender!Happens, TenderRowType

LEMMA TenderTypedNext ==
  ASSUME TenderAmounts, TenderTyped, [Tender!Next]_(Tender!vars) PROVE TenderTyped'
  <1> USE DEF TenderTyped
  <1>1. CASE UNCHANGED Tender!vars
    BY <1>1 DEF Tender!vars, TenderPosTyped, TenderTablesTyped, TenderJobsTyped
  <1>2. ASSUME NEW p \in Pays, Tender!Start(p) PROVE TenderTyped'
    <2>1. ex' \in [Pays -> TenderExType] BY <1>2, TenderGoType DEF Tender!Start, Tender!Pc
    <2>2. job' \in [Pays -> TenderJobType] BY <1>2 DEF Tender!Start, TenderJobsTyped, TenderJobType
    <2> QED BY <1>2, <2>1, <2>2 DEF Tender!Start, Tender!pos, Tender!tables, TenderPosTyped, TenderTablesTyped, TenderJobsTyped
  <1>3. ASSUME NEW p \in Pays, Tender!Crash(p) PROVE TenderTyped'
    <2>1. ex' \in [Pays -> TenderExType]
      BY <1>3 DEF Tender!Crash, TenderJobsTyped, TenderExType, Tender!Resting, Tender!Pc
    <2>2. job' \in [Pays -> TenderJobType] BY <1>3 DEF Tender!Crash, TenderJobsTyped, TenderJobType
    <2> QED BY <1>3, <2>1, <2>2 DEF Tender!Crash, Tender!Happens, Tender!pos, Tender!tables, TenderPosTyped, TenderTablesTyped, TenderJobsTyped
  <1>4. ASSUME NEW p \in Pays, Tender!ReadFails(p) PROVE TenderTyped'
    <2>1. job[p].max \in {Retries, MaxWaiting} BY DEF TenderJobsTyped, TenderJobType
    <2>2. TenderJobsTyped' BY <1>4, <2>1, TenderDroppedType DEF Tender!ReadFails
    <2> QED BY <1>4, <2>2 DEF Tender!ReadFails, Tender!pos, Tender!tables, TenderPosTyped, TenderTablesTyped
  <1>5. ASSUME NEW p \in Pays,
               \/ Tender!ReadApplied(p) \/ Tender!Reconcile(p) \/ Tender!CountSiblings(p)
        PROVE TenderTyped'
    <2>1. ex' \in [Pays -> TenderExType]
      BY <1>5, TenderGoType DEF Tender!ReadApplied, Tender!Reconcile, Tender!CountSiblings, Tender!Pc
    <2> QED BY <1>5, <2>1 DEF Tender!ReadApplied, Tender!Reconcile, Tender!CountSiblings, Tender!pos, Tender!tables,
                              TenderPosTyped, TenderTablesTyped, TenderJobsTyped
  <1>6. ASSUME NEW p \in Pays, Tender!AssertItems(p) PROVE TenderTyped'
    <2>1. CASE \E pc \in {"recon", "totals"} : Tender!Go(p, pc) /\ UNCHANGED <<issue, job>>
      <3>1. ex' \in [Pays -> TenderExType] BY <2>1, TenderGoType DEF Tender!Pc
      <3>2. used' \subseteq Tender!Kinds BY <1>6 DEF Tender!AssertItems, Tender!Happens
      <3> QED BY <1>6, <2>1, <3>1, <3>2 DEF Tender!AssertItems, Tender!pos, TenderPosTyped, TenderTablesTyped, TenderJobsTyped
    <2>2. CASE Tender!Dropped(p, TRUE, MaxWaiting) /\ Tender!Warned(p, TRUE, MaxWaiting, FALSE) /\ UNCHANGED used
      <3>1. TenderJobsTyped' /\ issue' \in Pays \cup {None} BY <2>2, TenderDroppedType, TenderWarnedType
      <3> QED BY <1>6, <2>2, <3>1 DEF Tender!AssertItems, Tender!pos, TenderPosTyped, TenderTablesTyped
    <2> QED BY <1>6, <2>1, <2>2 DEF Tender!AssertItems
  <1>7. ASSUME NEW p \in Pays, Tender!ReadTotals(p) PROVE TenderTyped'
    <2> DEFINE e == [pc     |-> IF ticket.due = 0 THEN "paid" ELSE "post",
                     due    |-> ticket.due,
                     adjust |-> Asked[p] - Tender!Least(Asked[p], ticket.due)]
    <2>1. ticket.due \in Nat /\ Asked[p] \in Nat BY DEF TenderPosTyped, TenderAmounts
    <2>2. Asked[p] - Tender!Least(Asked[p], ticket.due) \in Nat BY <2>1 DEF Tender!Least
    <2>3. e \in TenderExType BY <2>1, <2>2 DEF TenderExType, Tender!Pc
    <2>4. ex' = [ex EXCEPT ![p] = e] BY <1>7 DEF Tender!ReadTotals
    <2> HIDE DEF e
    <2>5. ex' \in [Pays -> TenderExType] BY <2>3, <2>4 DEF TenderJobsTyped
    <2> QED BY <1>7, <2>5 DEF Tender!ReadTotals, Tender!pos, Tender!tables, TenderPosTyped, TenderTablesTyped, TenderJobsTyped
  <1>8. ASSUME NEW p \in Pays, Tender!AlreadyPaid(p) PROVE TenderTyped'
    <2>1. Asked[p] \in Nat BY DEF TenderAmounts
    <2>2. ex' \in [Pays -> TenderExType] BY <1>8, TenderGoType DEF Tender!AlreadyPaid, Tender!Pc
    <2>3. noted' \in [Pays -> Nat] /\ used' \subseteq Tender!Kinds BY <1>8, <2>1, TenderNotedType DEF Tender!AlreadyPaid
    <2>4. row' \in [Pays -> TenderRowType] BY <1>8, <2>1 DEF Tender!AlreadyPaid, TenderTablesTyped, TenderRowType
    <2> QED BY <1>8, <2>2, <2>3, <2>4 DEF Tender!AlreadyPaid, Tender!pos, TenderPosTyped, TenderTablesTyped, TenderJobsTyped
  <1>9. ASSUME NEW p \in Pays, Tender!Post(p) PROVE TenderTyped'
    <2>1. Tender!Amount(p) \in Nat BY TenderAmountType
    <2>2. ticket' \in [due : Nat, locked : BOOLEAN, tenders : [Pays -> Nat], applied : [Pays -> Nat]]
      BY <1>9, <2>1, TenderedType DEF Tender!Post
    <2>3. ex' \in [Pays -> TenderExType] BY <1>9, TenderGoType DEF Tender!Post, Tender!ClosingFailed, Tender!Pc
    <2>4. used' \subseteq Tender!Kinds BY <1>9 DEF Tender!Post, Tender!ClosingFailed, Tender!Happens
    <2> QED BY <1>9, <2>2, <2>3, <2>4 DEF Tender!Post, Tender!tables, TenderPosTyped, TenderTablesTyped, TenderJobsTyped
  <1>10. ASSUME NEW p \in Pays, Tender!MarkApplied(p) PROVE TenderTyped'
    <2>1. ex[p].adjust \in Nat BY DEF TenderJobsTyped, TenderExType
    <2>2. row' \in [Pays -> TenderRowType] /\ used' \subseteq Tender!Kinds
      BY <1>10, <2>1, TenderMarkedType DEF Tender!MarkApplied
    <2>3. ex' \in [Pays -> TenderExType] BY <1>10, TenderGoType DEF Tender!MarkApplied, Tender!Pc
    <2> QED BY <1>10, <2>2, <2>3 DEF Tender!MarkApplied, Tender!pos, TenderPosTyped, TenderTablesTyped, TenderJobsTyped
  <1>11. ASSUME NEW p \in Pays, Tender!MarkClosingFailed(p) PROVE TenderTyped'
    <2>1. job[p].max \in {Retries, MaxWaiting} BY DEF TenderJobsTyped, TenderJobType
    <2>2. row' \in [Pays -> TenderRowType] /\ used' \subseteq Tender!Kinds
      BY <1>11, TenderMarkedType DEF Tender!MarkClosingFailed
    <2>3. TenderJobsTyped' /\ issue' \in Pays \cup {None}
      BY <1>11, <2>1, TenderDroppedType, TenderWarnedType DEF Tender!MarkClosingFailed
    <2> QED BY <1>11, <2>2, <2>3 DEF Tender!MarkClosingFailed, Tender!pos, TenderPosTyped, TenderTablesTyped
  <1>12. ASSUME NEW p \in Pays, Tender!PostLocked(p) PROVE TenderTyped'
    <2>1. TenderJobsTyped' /\ issue' \in Pays \cup {None}
      BY <1>12, TenderDroppedType, TenderWarnedType DEF Tender!PostLocked
    <2> QED BY <1>12, <2>1 DEF Tender!PostLocked, Tender!pos, TenderPosTyped, TenderTablesTyped
  <1>13. ASSUME NEW p \in Pays, Tender!PostFails(p) PROVE TenderTyped'
    <2>1. job[p].max \in {Retries, MaxWaiting} BY DEF TenderJobsTyped, TenderJobType
    <2>2. \E retryable \in BOOLEAN :
            Tender!Dropped(p, retryable, job[p].max) /\ Tender!Warned(p, retryable, job[p].max, FALSE)
      BY <1>13 DEF Tender!PostFails
    <2>3. TenderJobsTyped' /\ issue' \in Pays \cup {None} BY <2>1, <2>2, TenderDroppedType, TenderWarnedType
    <2>4. Tender!Amount(p) \in Nat BY TenderAmountType
    <2>5. TenderPosTyped' /\ used' \subseteq Tender!Kinds
      <3>1. CASE UNCHANGED <<Tender!pos, used>> BY <1>13, <3>1 DEF Tender!PostFails, Tender!pos, TenderPosTyped
      <3>2. CASE /\ Tender!Takes(Tender!Amount(p)) /\ Tender!Happens("lost")
                 /\ ticket' = Tender!Tendered(p, Tender!Amount(p)) /\ UNCHANGED sky
        BY <1>13, <2>4, <3>2, TenderedType DEF Tender!PostFails, Tender!Happens, TenderPosTyped
      <3>3. CASE Tender!Happens("late") /\ sky' = sky \cup {<<p, Tender!Amount(p)>>} /\ UNCHANGED ticket
        BY <1>13, <2>4, <3>3 DEF Tender!PostFails, Tender!Happens, TenderPosTyped
      <3> QED BY <1>13, <3>1, <3>2, <3>3 DEF Tender!PostFails
    <2> QED BY <1>13, <2>3, <2>5 DEF Tender!PostFails, TenderTablesTyped
  <1>14. ASSUME NEW p \in Pays, Tender!NoteDifference(p) PROVE TenderTyped'
    <2>1. ex[p].adjust \in Nat BY DEF TenderJobsTyped, TenderExType
    <2>2. noted' \in [Pays -> Nat] /\ used' \subseteq Tender!Kinds
      BY <1>14, <2>1, TenderNotedType DEF Tender!NoteDifference
    <2>3. ex' \in [Pays -> TenderExType] BY <1>14, TenderGoType DEF Tender!NoteDifference, Tender!Pc
    <2> QED BY <1>14, <2>2, <2>3 DEF Tender!NoteDifference, Tender!pos, TenderPosTyped, TenderTablesTyped, TenderJobsTyped
  <1>15. ASSUME NEW p \in Pays, Tender!ClearIssue(p) PROVE TenderTyped'
    <2>1. ex' \in [Pays -> TenderExType] BY <1>15, TenderGoType DEF Tender!ClearIssue, Tender!Pc
    <2> QED BY <1>15, <2>1 DEF Tender!ClearIssue, Tender!pos, TenderPosTyped, TenderTablesTyped, TenderJobsTyped
  <1>16. ASSUME NEW p \in Pays, Tender!End(p) PROVE TenderTyped'
    <2>1. ex' \in [Pays -> TenderExType] BY <1>16 DEF Tender!End, TenderJobsTyped, TenderExType, Tender!Resting, Tender!Pc
    <2>2. job' \in [Pays -> TenderJobType] BY <1>16 DEF Tender!End, TenderJobsTyped, TenderJobType
    <2> QED BY <1>16, <2>1, <2>2 DEF Tender!End, Tender!pos, Tender!tables, TenderPosTyped, TenderTablesTyped, TenderJobsTyped
  <1>17. ASSUME NEW p \in Pays, Tender!Land(p) PROVE TenderTyped'
    <2>1. PICK r \in sky : /\ r[1] = p /\ sky' = sky \ {r}
                           /\ IF Tender!Takes(r[2]) THEN ticket' = Tender!Tendered(p, r[2]) ELSE UNCHANGED ticket
      BY <1>17 DEF Tender!Land
    <2>2. r[2] \in Nat BY DEF TenderPosTyped
    <2>3. TenderPosTyped' BY <1>17, <2>1, <2>2, TenderedType DEF Tender!Land, TenderPosTyped
    <2> QED BY <1>17, <2>3 DEF Tender!Land, Tender!tables, TenderTablesTyped, TenderJobsTyped
  <1>18. ASSUME NEW p \in Pays, Tender!RetryDeadLetter(p) PROVE TenderTyped'
    <2>1. job' \in [Pays -> TenderJobType] BY <1>18 DEF Tender!RetryDeadLetter, TenderJobsTyped, TenderJobType
    <2> QED BY <1>18, <2>1 DEF Tender!RetryDeadLetter, Tender!Happens, Tender!pos, Tender!tables, TenderPosTyped, TenderTablesTyped, TenderJobsTyped
  <1>19. CASE Tender!Lock
    BY <1>19 DEF Tender!Lock, Tender!Happens, Tender!tables, TenderPosTyped, TenderTablesTyped, TenderJobsTyped
  <1>20. CASE Tender!Fire
    BY <1>20 DEF Tender!Fire, Tender!Happens, Tender!pos, Tender!tables, TenderAmounts, TenderPosTyped, TenderTablesTyped, TenderJobsTyped
  <1> QED
    BY <1>1, <1>2, <1>3, <1>4, <1>5, <1>6, <1>7, <1>8, <1>9, <1>10, <1>11, <1>12, <1>13, <1>14,
       <1>15, <1>16, <1>17, <1>18, <1>19, <1>20 DEF Tender!Next

\* The types of OmnivoreTender.
THEOREM TendersTyped == ASSUME TenderAmounts PROVE Tender!Spec => []Tender!TypeOK
  <1>1. Tender!Init => TenderTyped BY TenderTypedInit
  <1>2. TenderTyped /\ [Tender!Next]_(Tender!vars) => TenderTyped' BY TenderTypedNext
  <1> QED BY <1>1, <1>2, TenderTypedOK, PTL DEF Tender!Spec

---------------------------------------------------------------------------
(* TenderedOnce and DifferenceIsNoted.                                     *)

TenderDoubts == {"lost", "late", "unmarked", "unnoted", "crash"}

\* What happened stays known: without a doubt now there was none before.
LEMMA TenderDoubtless ==
  ASSUME TenderTyped, Tender!NoDoubt', [Tender!Next]_(Tender!vars)
  PROVE  Tender!NoDoubt /\ \A k \in TenderDoubts : ~Tender!Happens(k)
  <1>1. ASSUME NEW k \in TenderDoubts, Tender!Happens(k) PROVE FALSE
    BY <1>1 DEF Tender!NoDoubt, Tender!Happens, TenderDoubts
  <1>2. used \subseteq used'
    BY DEF Tender!vars, Tender!Next, Tender!Start, Tender!Crash, Tender!ReadFails, Tender!ReadApplied, Tender!AssertItems, Tender!Reconcile, Tender!ReadTotals,
           Tender!AlreadyPaid, Tender!Noted, Tender!Post, Tender!ClosingFailed, Tender!MarkApplied, Tender!Marked, Tender!MarkClosingFailed, Tender!PostLocked,
           Tender!PostFails, Tender!NoteDifference, Tender!CountSiblings, Tender!ClearIssue, Tender!End, Tender!Land, Tender!RetryDeadLetter, Tender!Lock, Tender!Fire,
           Tender!Happens
  <1> QED BY <1>1, <1>2 DEF Tender!NoDoubt

\* A payment that no step touches.
TenderApart(q) ==
  /\ ex'[q] = ex[q] /\ job'[q] = job[q] /\ row'[q] = row[q] /\ noted'[q] = noted[q]
  /\ ticket'.tenders[q] = ticket.tenders[q] /\ ticket'.applied[q] = ticket.applied[q]
TenderSound(p) == TenderRuns(p) /\ TenderSplit(p) /\ TenderHonest(p)

LEMMA TenderApartStays == ASSUME NEW q \in Pays, TenderSound(q), TenderApart(q) PROVE TenderSound(q)'
  BY DEF TenderSound, TenderApart, TenderRuns, TenderSplit, TenderHonest, Tender!Amount, TenderBefore, TenderUnsaved, TenderPast

\* One step of a payment's job, or on its tender, without a doubt.
TenderPayStep(p) ==
  \/ Tender!Start(p) \/ Tender!Crash(p) \/ Tender!ReadFails(p) \/ Tender!ReadApplied(p) \/ Tender!AssertItems(p)
  \/ Tender!Reconcile(p) \/ Tender!ReadTotals(p) \/ Tender!AlreadyPaid(p) \/ Tender!Post(p) \/ Tender!MarkApplied(p)
  \/ Tender!MarkClosingFailed(p) \/ Tender!PostLocked(p) \/ Tender!PostFails(p) \/ Tender!NoteDifference(p) \/ Tender!CountSiblings(p)
  \/ Tender!ClearIssue(p) \/ Tender!End(p) \/ Tender!Land(p) \/ Tender!RetryDeadLetter(p)

LEMMA TenderOwnStep ==
  ASSUME TenderAmounts, TenderTyped, TenderTyped', sky = {}, NEW p \in Pays, TenderSound(p), TenderPayStep(p),
         \A k \in TenderDoubts : ~Tender!Happens(k)
  PROVE  sky' = {} /\ TenderSound(p)' /\ \A q \in Pays \ {p} : TenderApart(q)
  <1> DEFINE Rest == \A q \in Pays \ {p} : TenderApart(q)
             Written == row'[p] = row[p] /\ noted'[p] = noted[p]
             InPos   == ticket'.tenders[p] = ticket.tenders[p] /\ ticket'.applied[p] = ticket.applied[p]
  <1>0. /\ ex \in [Pays -> TenderExType] /\ job \in [Pays -> TenderJobType] /\ row \in [Pays -> TenderRowType]
        /\ noted \in [Pays -> Nat]
        /\ ex[p] \in TenderExType /\ job[p] \in TenderJobType /\ row[p] \in TenderRowType /\ Asked[p] \in Nat
        /\ ticket.tenders[p] \in Nat /\ ticket.applied[p] \in Nat
        /\ TenderRuns(p) /\ TenderSplit(p) /\ TenderHonest(p)
    BY DEF TenderTyped, TenderJobsTyped, TenderTablesTyped, TenderPosTyped, TenderAmounts, TenderSound
  <1>1. CASE Tender!Start(p)
    <2>1. ex'[p].pc = "applied" BY <1>1, TenderGoType DEF Tender!Start, Tender!Pc
    <2>2. job[p].status = "queued" /\ ex[p].pc = "idle" /\ job'[p].status = "running"
      BY <1>0, <1>1 DEF Tender!Start, Tender!At, TenderJobType
    <2>3. Rest /\ Written /\ InPos
      BY <1>0, <1>1, TenderGoType DEF Tender!Start, Tender!pos, Tender!tables, TenderApart, Tender!Pc
    <2> QED BY <1>0, <1>1, <2>1, <2>2, <2>3
            DEF Tender!Start, Tender!pos, TenderSound, TenderRuns, TenderSplit, TenderHonest, TenderBefore, TenderUnsaved, TenderPast
  <1>2. CASE Tender!Crash(p) BY <1>2 DEF Tender!Crash, TenderDoubts
  \* The drops: nothing was posted, and the job is queued or dead.
  <1>3. ASSUME NEW r \in BOOLEAN, NEW max \in {Retries, MaxWaiting}, Tender!Dropped(p, r, max),
               UNCHANGED <<ticket, noted>>, row' = row,
               ex[p].pc \in {"applied"} \cup TenderBefore
        PROVE  TenderSound(p)' /\ Rest
    <2>1. /\ job'[p].status \in {"queued", "dead"} /\ ex'[p].pc = "idle"
          /\ \A q \in Pays \ {p} : ex'[q] = ex[q] /\ job'[q] = job[q]
      BY <1>3, TenderDroppedType
    <2>2. row[p].marker \in {"none", "closed"} BY <1>0, <1>3 DEF TenderHonest, TenderBefore
    <2>3. noted[p] = 0 BY <1>0, <1>3 DEF TenderHonest, TenderRuns, TenderBefore, TenderPast
    <2>4. TenderSound(p)' BY <1>0, <1>3, <2>1, <2>2, <2>3
            DEF TenderSound, TenderRuns, TenderSplit, TenderHonest, TenderBefore, TenderUnsaved, TenderPast
    <2> QED BY <1>3, <2>1, <2>4 DEF TenderApart
  <1>4. CASE Tender!ReadFails(p)
    <2>1. \E r \in BOOLEAN : Tender!Dropped(p, r, job[p].max) BY <1>4 DEF Tender!ReadFails
    <2>2. job[p].max \in {Retries, MaxWaiting} BY <1>0 DEF TenderJobType
    <2> QED BY <1>3, <1>4, <2>1, <2>2 DEF Tender!ReadFails, Tender!pos, Tender!tables, TenderBefore
  \* The moves from place to place, with nothing written.
  <1>5. ASSUME NEW pc \in Tender!Pc, Tender!Go(p, pc), UNCHANGED <<ticket, row, noted, job>>,
               \/ ex[p].pc = "applied" /\ pc = (IF row[p].marker # "none" THEN "siblings" ELSE "items")
               \/ ex[p].pc = "items" /\ pc \in {"recon", "totals"}
               \/ ex[p].pc = "recon" /\ pc = "totals"
               \/ ex[p].pc \in TenderPast /\ pc \in TenderPast
        PROVE  TenderSound(p)' /\ Rest
    <2>1. /\ ex'[p].pc = pc /\ ex'[p].due = ex[p].due /\ ex'[p].adjust = ex[p].adjust
          /\ \A q \in Pays \ {p} : ex'[q] = ex[q]
      BY <1>5, TenderGoType
    <2>2. TenderSound(p)' BY <1>0, <1>5, <2>1
            DEF TenderSound, TenderRuns, TenderSplit, TenderHonest, TenderBefore, TenderUnsaved, TenderPast
    <2> QED BY <1>5, <2>1, <2>2 DEF TenderApart
  <1>6. CASE Tender!ReadApplied(p)
    BY <1>5, <1>6 DEF Tender!ReadApplied, Tender!At, Tender!pos, Tender!tables, Tender!Pc
  <1>7. CASE Tender!AssertItems(p)
    <2>1. CASE \E pc \in {"recon", "totals"} : Tender!Go(p, pc) /\ UNCHANGED <<issue, job>>
      BY <1>5, <1>7, <2>1 DEF Tender!AssertItems, Tender!At, Tender!pos, Tender!Pc
    <2>2. CASE Tender!Dropped(p, TRUE, MaxWaiting)
      BY <1>3, <1>7, <2>2 DEF Tender!AssertItems, Tender!At, Tender!pos, TenderBefore
    <2> QED BY <1>7, <2>1, <2>2 DEF Tender!AssertItems
  <1>8. CASE Tender!Reconcile(p)
    BY <1>5, <1>8 DEF Tender!Reconcile, Tender!At, Tender!pos, Tender!tables, Tender!Pc
  <1>9. CASE Tender!ReadTotals(p)
    <2> DEFINE e == [pc     |-> IF ticket.due = 0 THEN "paid" ELSE "post",
                     due    |-> ticket.due,
                     adjust |-> Asked[p] - Tender!Least(Asked[p], ticket.due)]
    <2>1. ex' = [ex EXCEPT ![p] = e] BY <1>9 DEF Tender!ReadTotals
    <2>2. ex'[p] = e /\ \A q \in Pays \ {p} : ex'[q] = ex[q] BY <1>0, <2>1
    <2>3. Tender!Amount(p)' = Tender!Least(Asked[p], ticket.due) BY <2>2 DEF Tender!Amount
    <2>4. ticket.due \in Nat BY DEF TenderTyped, TenderPosTyped
    <2>5. Asked[p] = Tender!Amount(p)' + ex'[p].adjust BY <1>0, <2>2, <2>3, <2>4 DEF Tender!Least
    <2>6. ex'[p].pc \in {"paid", "post"} BY <2>2
    <2>7. Rest /\ Written /\ InPos /\ job' = job /\ sky' = sky
      BY <1>9, <2>2 DEF Tender!ReadTotals, Tender!pos, Tender!tables, TenderApart
    <2> HIDE DEF e
    <2>8. TenderSound(p)'
      BY <1>0, <1>9, <2>5, <2>6, <2>7
      DEF Tender!ReadTotals, Tender!At, TenderSound, TenderRuns, TenderSplit, TenderHonest, TenderBefore, TenderUnsaved, TenderPast
    <2> QED BY <2>7, <2>8
  <1>10. CASE Tender!AlreadyPaid(p)
    <2>1. ex'[p].pc = "siblings" /\ \A q \in Pays \ {p} : ex'[q] = ex[q]
      BY <1>10, TenderGoType DEF Tender!AlreadyPaid, Tender!Pc
    <2>2. noted' = [noted EXCEPT ![p] = Asked[p]] BY <1>10 DEF Tender!AlreadyPaid, Tender!Noted, TenderDoubts
    <2>3. /\ row'[p].marker = row[p].marker
          /\ \A q \in Pays \ {p} : row'[q] = row[q]
      BY <1>0, <1>10 DEF Tender!AlreadyPaid, TenderRowType
    <2>4. noted'[p] = Asked[p] BY <1>0, <2>2
    <2>5. row[p].marker = "none" /\ ticket.applied[p] = 0
      BY <1>0, <1>10 DEF Tender!AlreadyPaid, Tender!At, TenderHonest, TenderBefore, TenderUnsaved
    <2>6. Rest /\ InPos /\ job' = job /\ sky' = sky
      BY <1>0, <1>10, <2>1, <2>2, <2>3 DEF Tender!AlreadyPaid, Tender!pos, TenderApart
    <2>7. TenderSound(p)'
      BY <1>0, <1>10, <2>1, <2>3, <2>4, <2>5, <2>6
      DEF Tender!AlreadyPaid, Tender!At, TenderSound, TenderRuns, TenderSplit, TenderHonest, TenderBefore, TenderUnsaved, TenderPast
    <2> QED BY <2>6, <2>7
  <1>11. CASE Tender!Post(p)
    <2>1. Tender!Amount(p) \in Nat BY TenderAmountType
    <2>2. /\ ticket'.tenders[p] = ticket.tenders[p] + 1
          /\ ticket'.applied[p] = ticket.applied[p] + Tender!Amount(p)
          /\ \A q \in Pays \ {p} : /\ ticket'.tenders[q] = ticket.tenders[q]
                                   /\ ticket'.applied[q] = ticket.applied[q]
      BY <1>11, <2>1, TenderedType DEF Tender!Post
    <2>3. /\ ex'[p].pc \in {"mark", "closed"} /\ ex'[p].adjust = ex[p].adjust
          /\ \A q \in Pays \ {p} : ex'[q] = ex[q]
      BY <1>11, TenderGoType DEF Tender!Post, Tender!ClosingFailed, Tender!Pc
    <2>4. Rest /\ Written /\ job' = job /\ sky' = sky
      BY <1>11, <2>2, <2>3 DEF Tender!Post, Tender!tables, TenderApart
    <2>5. ticket.tenders[p] = 0 /\ ticket.applied[p] = 0 /\ row[p].marker = "none"
      BY <1>0, <1>11 DEF Tender!Post, Tender!At, TenderHonest, TenderBefore, TenderUnsaved
    <2>6. Asked[p] = ticket'.applied[p] + ex'[p].adjust
      BY <1>0, <1>11, <2>1, <2>2, <2>3, <2>5 DEF Tender!Post, Tender!At, TenderSplit
    <2>7. TenderSound(p)'
      BY <1>0, <1>11, <2>2, <2>3, <2>4, <2>5, <2>6
      DEF Tender!Post, Tender!At, TenderSound, TenderRuns, TenderSplit, TenderHonest, TenderBefore, TenderUnsaved, TenderPast
    <2> QED BY <2>4, <2>7
  <1>12. CASE Tender!MarkApplied(p)
    <2>1. row' = [row EXCEPT ![p] = [marker |-> "id", adjusted |-> ex[p].adjust]]
      BY <1>12 DEF Tender!MarkApplied, Tender!Marked, TenderDoubts
    <2>2. row'[p].marker = "id" /\ \A q \in Pays \ {p} : row'[q] = row[q] BY <1>0, <2>1
    <2>3. /\ ex'[p].pc = (IF ex[p].adjust > 0 THEN "note" ELSE "siblings")
          /\ ex'[p].adjust = ex[p].adjust /\ \A q \in Pays \ {p} : ex'[q] = ex[q]
      BY <1>12, TenderGoType DEF Tender!MarkApplied, Tender!Pc
    <2>4. Rest /\ InPos /\ job' = job /\ sky' = sky /\ noted' = noted
      BY <1>12, <2>2, <2>3 DEF Tender!MarkApplied, Tender!pos, TenderApart
    <2>5. ex[p].adjust \in Nat /\ Asked[p] = ticket.applied[p] + ex[p].adjust
      BY <1>0, <1>12 DEF Tender!MarkApplied, Tender!At, TenderSplit, TenderExType
    <2>6. noted[p] = 0 /\ ticket.tenders[p] = 1
      BY <1>0, <1>12 DEF Tender!MarkApplied, Tender!At, TenderHonest, TenderRuns, TenderUnsaved, TenderPast
    <2>7. TenderSound(p)'
      BY <1>0, <1>12, <2>2, <2>3, <2>4, <2>5, <2>6
      DEF Tender!MarkApplied, Tender!At, TenderSound, TenderRuns, TenderSplit, TenderHonest, TenderBefore, TenderUnsaved, TenderPast
    <2> QED BY <2>4, <2>7
  <1>13. CASE Tender!MarkClosingFailed(p)
    <2>1. row' = [row EXCEPT ![p] = [marker |-> "closed", adjusted |-> 0]]
      BY <1>13 DEF Tender!MarkClosingFailed, Tender!Marked, TenderDoubts
    <2>2. row'[p].marker = "closed" /\ \A q \in Pays \ {p} : row'[q] = row[q] BY <1>0, <2>1
    <2>3. job[p].max \in {Retries, MaxWaiting} BY <1>0 DEF TenderJobType
    <2>4. /\ job'[p].status \in {"queued", "dead"} /\ ex'[p].pc = "idle"
          /\ \A q \in Pays \ {p} : ex'[q] = ex[q] /\ job'[q] = job[q]
      BY <1>13, <2>3, TenderDroppedType DEF Tender!MarkClosingFailed
    <2>5. Rest /\ InPos /\ sky' = sky /\ noted' = noted
      BY <1>13, <2>2, <2>4 DEF Tender!MarkClosingFailed, Tender!pos, TenderApart
    <2>6. noted[p] = 0 /\ ticket.tenders[p] = 1
      BY <1>0, <1>13 DEF Tender!MarkClosingFailed, Tender!At, TenderHonest, TenderRuns, TenderUnsaved, TenderPast
    <2>7. TenderSound(p)'
      BY <1>0, <2>2, <2>4, <2>5, <2>6 DEF TenderSound, TenderRuns, TenderSplit, TenderHonest, TenderBefore, TenderUnsaved, TenderPast
    <2> QED BY <2>5, <2>7
  <1>14. CASE Tender!PostLocked(p)
    BY <1>3, <1>14 DEF Tender!PostLocked, Tender!At, Tender!pos, TenderBefore
  <1>15. CASE Tender!PostFails(p)
    <2>1. UNCHANGED Tender!pos BY <1>15 DEF Tender!PostFails, TenderDoubts, Tender!pos
    <2>2. \E r \in BOOLEAN : Tender!Dropped(p, r, job[p].max) BY <1>15 DEF Tender!PostFails
    <2>3. job[p].max \in {Retries, MaxWaiting} BY <1>0 DEF TenderJobType
    <2> QED BY <1>3, <1>15, <2>1, <2>2, <2>3 DEF Tender!PostFails, Tender!At, Tender!pos, TenderBefore
  <1>16. CASE Tender!NoteDifference(p)
    <2>1. noted' = [noted EXCEPT ![p] = ex[p].adjust] BY <1>16 DEF Tender!NoteDifference, Tender!Noted, TenderDoubts
    <2>2. ex'[p].pc = "siblings" /\ \A q \in Pays \ {p} : ex'[q] = ex[q]
      BY <1>16, TenderGoType DEF Tender!NoteDifference, Tender!Pc
    <2>3. noted'[p] = ex[p].adjust /\ \A q \in Pays \ {p} : noted'[q] = noted[q] BY <1>0, <2>1
    <2>4. Rest /\ InPos /\ job' = job /\ sky' = sky /\ row' = row
      BY <1>16, <2>2, <2>3 DEF Tender!NoteDifference, Tender!pos, TenderApart
    <2>5. Asked[p] = ticket.applied[p] + ex[p].adjust /\ row[p].marker = "id"
      BY <1>0, <1>16 DEF Tender!NoteDifference, Tender!At, TenderSplit
    <2>6. TenderSound(p)'
      BY <1>0, <1>16, <2>2, <2>3, <2>4, <2>5
      DEF Tender!NoteDifference, Tender!At, TenderSound, TenderRuns, TenderSplit, TenderHonest, TenderBefore, TenderUnsaved, TenderPast
    <2> QED BY <2>4, <2>6
  <1>17. CASE Tender!CountSiblings(p)
    <2>1. \E pc \in {"clear", "end"} : Tender!Go(p, pc) BY <1>17 DEF Tender!CountSiblings
    <2> QED BY <1>5, <1>17, <2>1 DEF Tender!CountSiblings, Tender!At, Tender!pos, Tender!tables, Tender!Pc, TenderPast
  <1>18. CASE Tender!ClearIssue(p)
    BY <1>5, <1>18 DEF Tender!ClearIssue, Tender!At, Tender!pos, Tender!Pc, TenderPast
  <1>19. CASE Tender!End(p)
    <2>1. ex'[p].pc = "idle" /\ \A q \in Pays \ {p} : ex'[q] = ex[q]
      BY <1>0, <1>19 DEF Tender!End, Tender!Resting
    <2>2. job'[p].status = "completed" /\ \A q \in Pays \ {p} : job'[q] = job[q]
      BY <1>0, <1>19 DEF Tender!End, TenderJobType
    <2>3. Rest /\ InPos /\ Written /\ sky' = sky
      BY <1>19, <2>1, <2>2 DEF Tender!End, Tender!pos, Tender!tables, TenderApart
    <2>4. TenderSound(p)'
      BY <1>0, <1>19, <2>1, <2>2, <2>3
      DEF Tender!End, Tender!At, TenderSound, TenderRuns, TenderSplit, TenderHonest, TenderBefore, TenderUnsaved, TenderPast
    <2> QED BY <2>3, <2>4
  <1>20. CASE Tender!Land(p) BY <1>20 DEF Tender!Land
  <1>21. CASE Tender!RetryDeadLetter(p)
    <2>1. /\ job[p].status = "dead" /\ job'[p].status = "queued"
          /\ \A q \in Pays \ {p} : job'[q] = job[q]
      BY <1>0, <1>21 DEF Tender!RetryDeadLetter, TenderJobType
    <2>2. Rest /\ InPos /\ Written /\ sky' = sky /\ ex' = ex
      BY <1>21, <2>1 DEF Tender!RetryDeadLetter, Tender!pos, Tender!tables, TenderApart
    <2>3. TenderSound(p)'
      BY <1>0, <2>1, <2>2 DEF TenderSound, TenderRuns, TenderSplit, TenderHonest, Tender!Amount, TenderBefore, TenderUnsaved, TenderPast
    <2> QED BY <2>2, <2>3
  <1> QED
    BY <1>1, <1>2, <1>4, <1>6, <1>7, <1>8, <1>9, <1>10, <1>11, <1>12, <1>13, <1>14, <1>15, <1>16,
       <1>17, <1>18, <1>19, <1>20, <1>21 DEF TenderPayStep


LEMMA TenderNext ==
  ASSUME TenderAmounts, TenderTyped, TenderTyped', TenderInv, [Tender!Next]_(Tender!vars) PROVE TenderInv'
  <1> SUFFICES ASSUME Tender!NoDoubt' PROVE sky' = {} /\ \A q \in Pays : TenderSound(q)'
    BY DEF TenderInv, TenderSound
  <1>1. Tender!NoDoubt /\ \A k \in TenderDoubts : ~Tender!Happens(k) BY TenderDoubtless
  <1>2. sky = {} /\ \A q \in Pays : TenderSound(q) BY <1>1 DEF TenderInv, TenderSound
  <1>3. CASE \E p \in Pays : TenderPayStep(p)
    <2>1. PICK p \in Pays : TenderPayStep(p) BY <1>3
    <2>2. sky' = {} /\ TenderSound(p)' /\ \A q \in Pays \ {p} : TenderApart(q) BY <1>1, <1>2, <2>1, TenderOwnStep
    <2>3. \A q \in Pays : q # p => TenderSound(q)' BY <1>2, <2>2, TenderApartStays
    <2> QED BY <2>2, <2>3
  <1>4. CASE Tender!Lock \/ Tender!Fire \/ UNCHANGED Tender!vars
    <2>1. sky' = sky /\ \A q \in Pays : TenderApart(q)
      BY <1>4 DEF Tender!Lock, Tender!Fire, Tender!vars, Tender!tables, Tender!pos, TenderApart, TenderTyped, TenderPosTyped
    <2> QED BY <1>2, <2>1, TenderApartStays
  <1> QED BY <1>3, <1>4 DEF Tender!Next, TenderPayStep

LEMMA TenderInit == ASSUME TenderAmounts PROVE Tender!Init => TenderInv
  BY DEF TenderAmounts, Tender!Init, TenderInv, TenderRuns, TenderSplit, TenderHonest, Tender!Resting, TenderBefore, TenderUnsaved, TenderPast

\* payment.ts:66-95: unless an answer, a write or the process was lost, a payment is
\* tendered once at most, whatever is refused, fails to close, waits or is put back.
THEOREM OneTenderEach == ASSUME TenderAmounts PROVE Tender!Spec => []Tender!TenderedOnce
  <1>1. Tender!Init => TenderTyped /\ TenderInv BY TenderTypedInit, TenderInit
  <1>2. (TenderTyped /\ TenderInv) /\ [Tender!Next]_(Tender!vars) => (TenderTyped /\ TenderInv)' BY TenderTypedNext, TenderNext
  <1>3. TenderInv => Tender!TenderedOnce BY DEF TenderInv, Tender!TenderedOnce, TenderHonest
  <1> QED BY <1>1, <1>2, <1>3, PTL DEF Tender!Spec

\* payment.ts:376-380: the charge of a completed payment is on the ticket or noted, but
\* for one whose tender did not close the ticket.
THEOREM ChargedIsAccounted == ASSUME TenderAmounts PROVE Tender!Spec => []Tender!DifferenceIsNoted
  <1>1. Tender!Init => TenderTyped /\ TenderInv BY TenderTypedInit, TenderInit
  <1>2. (TenderTyped /\ TenderInv) /\ [Tender!Next]_(Tender!vars) => (TenderTyped /\ TenderInv)' BY TenderTypedNext, TenderNext
  <1>3. TenderInv => Tender!DifferenceIsNoted
    BY DEF TenderInv, Tender!DifferenceIsNoted, Tender!EveryCentNoted, Tender!Completed, TenderHonest
  <1> QED BY <1>1, <1>2, <1>3, PTL DEF Tender!Spec

---------------------------------------------------------------------------
(* OmnivoreCatalog.  A level that is in MCM and in the POS is in what the  *)
(* sweep fetched too, since the POS changes its levels once at most; so a  *)
(* sweep finds the level picked, and leaves it the default.                *)

\* A level has a name, and the level made for a product without one is not the POS's.
MenuNone == None \notin Levels \cup {AutoLevel, "ours", "manual"} /\ AutoLevel \notin Levels

MenuTyped ==
  /\ item = [p \in Products |-> [name |-> item[p].name, listed |-> item[p].listed, out |-> item[p].out,
                                 levels |-> item[p].levels, main |-> item[p].main]]
  /\ level = [p \in Products |-> [rows |-> level[p].rows, default |-> level[p].default]]
  /\ \A p \in Products : DOMAIN item[p].levels \subseteq Levels
  /\ chosen \in [Products -> Levels \cup {None}] /\ manual \in [Products -> BOOLEAN]
  /\ oos \in [Products -> {None, "ours", "manual"}]
  /\ sweep = [pc |-> sweep.pc, snap |-> sweep.snap, rows |-> sweep.rows, left |-> sweep.left, level |-> sweep.level]

\* What is both in MCM and in the POS was fetched.
MenuFetched ==
  /\ sweep.pc # "idle" => \A p \in Products : \A l \in DOMAIN level[p].rows \cap DOMAIN item[p].levels :
                            l \in DOMAIN sweep.snap[p].levels
  /\ "levels" \notin used => \A p \in Products :
       /\ DOMAIN level[p].rows \subseteq DOMAIN item[p].levels \cup {AutoLevel}
       /\ sweep.pc # "idle" => DOMAIN sweep.snap[p].levels = DOMAIN item[p].levels

\* The level picked is there, and the sweep that holds levels read it.
MenuPicked ==
  \A p \in Products : chosen[p] # None =>
    /\ chosen[p] \in DOMAIN item[p].levels
    /\ "late" \notin used =>
         /\ level[p].default = chosen[p] /\ chosen[p] \in DOMAIN level[p].rows
         /\ sweep.pc \in {"clear", "create", "set"} =>
              sweep.level[p].default = chosen[p] /\ chosen[p] \in DOMAIN sweep.level[p].rows

LEMMA MenuTypedInit == ASSUME MenuNone PROVE Menu!Init => MenuTyped
<1> SUFFICES ASSUME Menu!Init PROVE MenuTyped
  OBVIOUS
<1>1. PICK l \in Levels : item = [p \in Products |-> [name |-> CHOOSE n \in Names : TRUE, listed |-> TRUE,
                                                      out |-> FALSE, levels |-> [k \in {l} |-> 1], main |-> 1]]
  BY DEF Menu!Init
<1>2. /\ item = [p \in Products |-> [name |-> item[p].name, listed |-> item[p].listed, out |-> item[p].out,
                                     levels |-> item[p].levels, main |-> item[p].main]]
      /\ \A p \in Products : DOMAIN item[p].levels \subseteq Levels
  BY <1>1
<1>3. level = [p \in Products |-> [rows |-> level[p].rows, default |-> level[p].default]]
  BY DEF Menu!Init, Menu!NoLevel
<1> QED BY <1>2, <1>3 DEF Menu!Init, Menu!Resting, MenuTyped

\* What the POS may change.
LEMMA MenuItems ==
  ASSUME MenuTyped, Menu!MenuChanges
  PROVE  /\ item' = [p \in Products |-> [name |-> item'[p].name, listed |-> item'[p].listed, out |-> item'[p].out,
                                         levels |-> item'[p].levels, main |-> item'[p].main]]
         /\ \A p \in Products : DOMAIN item'[p].levels \subseteq Levels
         /\ (\A p \in Products : DOMAIN item'[p].levels = DOMAIN item[p].levels)
            \/ ("levels" \notin used /\ "levels" \in used')
<1>1. PICK p \in Products :
        \/ \E n \in Names : item' = [item EXCEPT ![p] = [item[p] EXCEPT !.name = n]]
        \/ \E l \in DOMAIN item[p].levels :
             item' = [item EXCEPT ![p] = [item[p] EXCEPT !.levels = [item[p].levels EXCEPT ![l] = 2], !.main = 2]]
        \/ /\ "levels" \notin used /\ "levels" \in used'
           /\ \E ls \in SUBSET Levels : item' = [item EXCEPT ![p] = [item[p] EXCEPT !.levels =
                [l \in ls |-> IF l \in DOMAIN item[p].levels THEN item[p].levels[l] ELSE 3]]]
        \/ \E v \in BOOLEAN : item' = [item EXCEPT ![p] = [item[p] EXCEPT !.listed = v]]
        \/ \E v \in BOOLEAN : item' = [item EXCEPT ![p] = [item[p] EXCEPT !.out = v]]
  <2>1. PICK p \in Products :
       \/ \E n \in Names \ {item[p].name} : Menu!Happens("rename") /\ item' = [item EXCEPT ![p].name = n]
       \/ /\ Menu!Happens("reprice")
          /\ \E l \in DOMAIN item[p].levels : item' = [item EXCEPT ![p].levels[l] = 2, ![p].main = 2]
       \/ /\ Menu!Happens("levels")
          /\ \E ls \in SUBSET Levels \ {DOMAIN item[p].levels} :
               item' = [item EXCEPT ![p].levels = [l \in ls |-> IF l \in DOMAIN @ THEN @[l] ELSE 3]]
       \/ item[p].listed /\ Menu!Happens("remove") /\ item' = [item EXCEPT ![p].listed = FALSE]
       \/ ~item[p].listed /\ Menu!Happens("restore") /\ item' = [item EXCEPT ![p].listed = TRUE]
       \/ ~item[p].out /\ Menu!Happens("out") /\ item' = [item EXCEPT ![p].out = TRUE]
       \/ item[p].out /\ Menu!Happens("back") /\ item' = [item EXCEPT ![p].out = FALSE]
    BY DEF Menu!MenuChanges
  <2>2. CASE Menu!Happens("levels") /\ \E ls \in SUBSET Levels \ {DOMAIN item[p].levels} :
               item' = [item EXCEPT ![p].levels = [l \in ls |-> IF l \in DOMAIN @ THEN @[l] ELSE 3]]
    BY <2>2 DEF Menu!Happens
  <2>3. CASE \E l \in DOMAIN item[p].levels : item' = [item EXCEPT ![p].levels[l] = 2, ![p].main = 2]
    <3>1. PICK l \in DOMAIN item[p].levels : item' = [item EXCEPT ![p].levels[l] = 2, ![p].main = 2] BY <2>3
    <3>2. item' = [item EXCEPT ![p] = [item[p] EXCEPT !.levels = [item[p].levels EXCEPT ![l] = 2], !.main = 2]]
      BY <3>1 DEF MenuTyped
    <3> QED BY <3>2
  <2> QED BY <2>1, <2>2, <2>3
<1>2. item = [q \in Products |-> [name |-> item[q].name, listed |-> item[q].listed, out |-> item[q].out,
                                  levels |-> item[q].levels, main |-> item[q].main]]
      /\ \A q \in Products : DOMAIN item[q].levels \subseteq Levels
  BY DEF MenuTyped
<1>3. ASSUME NEW r, item' = [item EXCEPT ![p] = r],
             r = [name |-> r.name, listed |-> r.listed, out |-> r.out, levels |-> r.levels, main |-> r.main],
             DOMAIN r.levels \subseteq Levels,
             DOMAIN r.levels = DOMAIN item[p].levels \/ ("levels" \notin used /\ "levels" \in used')
      PROVE  /\ item' = [q \in Products |-> [name |-> item'[q].name, listed |-> item'[q].listed, out |-> item'[q].out,
                                             levels |-> item'[q].levels, main |-> item'[q].main]]
             /\ \A q \in Products : DOMAIN item'[q].levels \subseteq Levels
             /\ (\A q \in Products : DOMAIN item'[q].levels = DOMAIN item[q].levels)
                \/ ("levels" \notin used /\ "levels" \in used')
  <2>1. DOMAIN item = Products BY <1>2
  <2>2. \A q \in Products : item'[q] = IF q = p THEN r ELSE item[q] BY <1>3, <2>1
  <2>3. \A q \in Products : item'[q] = [name |-> item'[q].name, listed |-> item'[q].listed, out |-> item'[q].out,
                                        levels |-> item'[q].levels, main |-> item'[q].main]
    BY <1>2, <1>3, <2>2
  <2>4. DOMAIN item' = Products BY <1>3, <2>1
  <2>5. item' = [q \in Products |-> item'[q]] BY <1>3, <2>1, <2>4
  <2> QED BY <1>2, <1>3, <2>2, <2>3, <2>5
<1>4. item[p] = [name |-> item[p].name, listed |-> item[p].listed, out |-> item[p].out,
                 levels |-> item[p].levels, main |-> item[p].main]
  BY <1>2
<1>5. CASE \E n \in Names : item' = [item EXCEPT ![p] = [item[p] EXCEPT !.name = n]] BY <1>2, <1>3, <1>4, <1>5
<1>6. CASE \E l \in DOMAIN item[p].levels :
             item' = [item EXCEPT ![p] = [item[p] EXCEPT !.levels = [item[p].levels EXCEPT ![l] = 2], !.main = 2]]
  BY <1>2, <1>3, <1>4, <1>6
<1>7. CASE /\ "levels" \notin used /\ "levels" \in used'
           /\ \E ls \in SUBSET Levels : item' = [item EXCEPT ![p] = [item[p] EXCEPT !.levels =
                [l \in ls |-> IF l \in DOMAIN item[p].levels THEN item[p].levels[l] ELSE 3]]]
  BY <1>2, <1>3, <1>4, <1>7
<1>8. CASE \E v \in BOOLEAN : item' = [item EXCEPT ![p] = [item[p] EXCEPT !.listed = v]] BY <1>2, <1>3, <1>4, <1>8
<1>9. CASE \E v \in BOOLEAN : item' = [item EXCEPT ![p] = [item[p] EXCEPT !.out = v]] BY <1>2, <1>3, <1>4, <1>9
<1> QED BY <1>1, <1>5, <1>6, <1>7, <1>8, <1>9

\* What each write of the sweep does to the levels of a product.
LEMMA MenuWrites ==
  ASSUME MenuTyped
  PROVE  /\ Menu!CreateLevels =>
            \/ sweep' = Menu!Resting /\ UNCHANGED level
            \/ /\ sweep' = [sweep EXCEPT !.pc = "set"] /\ DOMAIN level' = Products
               /\ \A p \in Products :
                    \/ level'[p] = level[p]
                    \/ /\ level'[p] = [rows |-> level'[p].rows, default |-> level'[p].default]
                       /\ DOMAIN level'[p].rows = DOMAIN level[p].rows \cup Menu!Missing(p)
                       /\ \/ level'[p].default = level[p].default
                          \/ Menu!DefaultOf(sweep.snap[p], sweep.level[p]) \in Menu!Missing(p)
         /\ Menu!SetDefaults =>
            \/ sweep' = Menu!Resting /\ UNCHANGED level
            \/ \E p \in sweep.left :
                 /\ sweep' = [sweep EXCEPT !.left = sweep.left \ {p}] /\ DOMAIN level' = Products
                 /\ \A q \in Products :
                      \/ level'[q] = level[q]
                      \/ /\ level'[q] = [rows |-> level'[q].rows, default |-> level'[q].default]
                         /\ DOMAIN level'[q].rows = DOMAIN level[q].rows
                         /\ level'[q].default = Menu!DefaultOf(sweep.snap[q], sweep.level[q])
<1>1. DOMAIN level = Products BY DEF MenuTyped
<1>2. ASSUME Menu!CreateLevels, sweep' # Menu!Resting
      PROVE  /\ sweep' = [sweep EXCEPT !.pc = "set"] /\ DOMAIN level' = Products
             /\ \A p \in Products :
                  \/ level'[p] = level[p]
                  \/ /\ level'[p] = [rows |-> level'[p].rows, default |-> level'[p].default]
                     /\ DOMAIN level'[p].rows = DOMAIN level[p].rows \cup Menu!Missing(p)
                     /\ \/ level'[p].default = level[p].default
                        \/ Menu!DefaultOf(sweep.snap[p], sweep.level[p]) \in Menu!Missing(p)
  <2> DEFINE d(p) == Menu!DefaultOf(sweep.snap[p], sweep.level[p])
             m(p) == Menu!Missing(p)
             w(p) == Menu!Wanted(sweep.snap[p])
  <2>1. /\ level' = [p \in Products |->
                  IF p \notin sweep.left THEN level[p]
                  ELSE [rows |-> [l \in DOMAIN level[p].rows \cup m(p) |->
                                    IF l \in m(p) THEN w(p)[l] ELSE level[p].rows[l]],
                        default |-> IF d(p) \in m(p) THEN d(p) ELSE level[p].default]]
        /\ sweep' = [sweep EXCEPT !.pc = "set"]
    BY <1>2 DEF Menu!CreateLevels
  <2> HIDE DEF d, m, w
  <2>2. DOMAIN level' = Products BY <2>1
  <2>3. ASSUME NEW p \in Products, level'[p] # level[p]
        PROVE  /\ level'[p] = [rows |-> level'[p].rows, default |-> level'[p].default]
               /\ DOMAIN level'[p].rows = DOMAIN level[p].rows \cup m(p)
               /\ level'[p].default = level[p].default \/ d(p) \in m(p)
    <3>1. level'[p] = [rows |-> [l \in DOMAIN level[p].rows \cup m(p) |->
                                    IF l \in m(p) THEN w(p)[l] ELSE level[p].rows[l]],
                       default |-> IF d(p) \in m(p) THEN d(p) ELSE level[p].default]
      BY <2>1, <2>3
    <3> QED BY <3>1
  <2> QED BY <2>1, <2>2, <2>3 DEF d, m
<1>3. ASSUME Menu!SetDefaults
      PROVE  \/ sweep' = Menu!Resting /\ UNCHANGED level
             \/ \E p \in sweep.left :
                 /\ sweep' = [sweep EXCEPT !.left = sweep.left \ {p}] /\ DOMAIN level' = Products
                 /\ \A q \in Products :
                      \/ level'[q] = level[q]
                      \/ /\ level'[q] = [rows |-> level'[q].rows, default |-> level'[q].default]
                         /\ DOMAIN level'[q].rows = DOMAIN level[q].rows
                         /\ level'[q].default = Menu!DefaultOf(sweep.snap[q], sweep.level[q])
  <2> DEFINE d(p) == Menu!DefaultOf(sweep.snap[p], sweep.level[p])
  <2>1. PICK p \in sweep.left :
             IF ~Menu!Rewritten(p, d(p)) THEN sweep' = [sweep EXCEPT !.left = @ \ {p}] /\ UNCHANGED level
             ELSE IF Menu!Clashes(p, d(p)) THEN sweep' = Menu!Resting /\ UNCHANGED level
             ELSE /\ level' = [level EXCEPT ![p].rows = Menu!Repriced(p, {d(p)}), ![p].default = d(p)]
                  /\ sweep' = [sweep EXCEPT !.left = @ \ {p}]
    BY <1>3 DEF Menu!SetDefaults
  <2>2. CASE ~Menu!Rewritten(p, d(p))
    <3>1. sweep' = [sweep EXCEPT !.left = sweep.left \ {p}] /\ UNCHANGED level BY <2>1, <2>2
    <3> QED BY <1>1, <3>1
  <2>3. CASE Menu!Rewritten(p, d(p)) /\ Menu!Clashes(p, d(p)) BY <2>1, <2>3
  <2>4. CASE Menu!Rewritten(p, d(p)) /\ ~Menu!Clashes(p, d(p))
    <3>1. /\ level' = [level EXCEPT ![p].rows = Menu!Repriced(p, {d(p)}), ![p].default = d(p)]
          /\ sweep' = [sweep EXCEPT !.left = sweep.left \ {p}]
      BY <2>1, <2>4
    <3>2. DOMAIN Menu!Repriced(p, {d(p)}) = DOMAIN level[p].rows BY DEF Menu!Repriced
    <3> HIDE DEF d
    <3>3. DOMAIN level' = Products BY <1>1, <3>1
    <3>4. \A q \in Products : q # p => level'[q] = level[q] BY <1>1, <3>1
    <3>5. ASSUME p \in Products
          PROVE  /\ level'[p] = [rows |-> level'[p].rows, default |-> level'[p].default]
                 /\ DOMAIN level'[p].rows = DOMAIN level[p].rows
                 /\ level'[p].default = d(p)
      <4>1. level[p] = [rows |-> level[p].rows, default |-> level[p].default] BY <3>5 DEF MenuTyped
      <4>2. level'[p] = [rows |-> Menu!Repriced(p, {d(p)}), default |-> d(p)] BY <1>1, <3>1, <3>5, <4>1
      <4> QED BY <3>2, <4>2
    <3> QED BY <3>1, <3>3, <3>4, <3>5 DEF d
  <2> QED BY <2>2, <2>3, <2>4
<1>4. ASSUME Menu!CreateLevels, sweep' = Menu!Resting PROVE UNCHANGED level \/ sweep' # Menu!Resting
  <2>1. (sweep' = Menu!Resting /\ UNCHANGED level) \/ sweep' = [sweep EXCEPT !.pc = "set"] BY <1>4 DEF Menu!CreateLevels
  <2>2. sweep.pc = "create" /\ [sweep EXCEPT !.pc = "set"].pc = "set" BY <1>4 DEF Menu!CreateLevels, MenuTyped
  <2> QED BY <1>4, <2>1, <2>2 DEF Menu!Resting
<1> QED BY <1>2, <1>3, <1>4

\* What the sweep and the operator may do to the levels of a product.
LEMMA MenuTypedNext ==
  ASSUME MenuNone PROVE MenuTyped /\ [Menu!Next]_(Menu!vars) => MenuTyped'
<1> SUFFICES ASSUME MenuTyped, [Menu!Next]_(Menu!vars) PROVE MenuTyped'
  OBVIOUS
<1>1. CASE Menu!MenuChanges
  <2>1. chosen' \in [Products -> Levels \cup {None}] BY <1>1 DEF Menu!MenuChanges, MenuTyped
  <2>2. UNCHANGED <<level, oos, manual, sweep>> BY <1>1 DEF Menu!MenuChanges
  <2> QED BY <1>1, <2>1, <2>2, MenuItems DEF MenuTyped
<1>2. CASE Menu!OperatorPicks
  <2>1. PICK p \in Products : \E l \in (DOMAIN level[p].rows \cap DOMAIN item[p].levels) \ {level[p].default} :
          level' = [level EXCEPT ![p].default = l] /\ chosen' = [chosen EXCEPT ![p] = l] /\ l \in Levels
    BY <1>2 DEF Menu!OperatorPicks, MenuTyped
  <2>2. PICK l \in Levels : level' = [level EXCEPT ![p] = [level[p] EXCEPT !.default = l]] /\ chosen' = [chosen EXCEPT ![p] = l]
    BY <2>1
  <2>3. level' = [q \in Products |-> [rows |-> level'[q].rows, default |-> level'[q].default]]
    BY <2>2 DEF MenuTyped
  <2>4. chosen' \in [Products -> Levels \cup {None}] BY <2>2 DEF MenuTyped
  <2>5. UNCHANGED <<item, oos, manual, sweep>> BY <1>2 DEF Menu!OperatorPicks
  <2> QED BY <2>3, <2>4, <2>5 DEF MenuTyped
<1>3. CASE Menu!OperatorRenames BY <1>3 DEF Menu!OperatorRenames, MenuTyped
<1>4. CASE Menu!StaffMarks BY <1>4 DEF Menu!StaffMarks, MenuTyped
<1>5. CASE Menu!Fetch
  <2>1. PICK s : sweep' = [Menu!Resting EXCEPT !.pc = "fetched", !.snap = s] BY <1>5 DEF Menu!Fetch
  <2> QED BY <1>5, <2>1 DEF Menu!Fetch, Menu!Resting, MenuTyped
<1>6. CASE Menu!ReadProducts
  <2>1. PICK s : sweep' = [sweep EXCEPT !.pc = "products", !.rows = row, !.left = s] BY <1>6 DEF Menu!ReadProducts
  <2> QED BY <1>6, <2>1 DEF Menu!ReadProducts, MenuTyped
<1>7. CASE Menu!UpdateProduct
  <2>1. PICK p \in sweep.left : sweep' = [sweep EXCEPT !.left = sweep.left \ {p}] BY <1>7 DEF Menu!UpdateProduct
  <2> QED BY <1>7, <2>1 DEF Menu!UpdateProduct, MenuTyped
<1>8. CASE Menu!DeleteLevels
  <2>1. level' = [p \in Products |-> [rows |-> level'[p].rows, default |-> level'[p].default]]
    BY <1>8 DEF Menu!DeleteLevels, MenuTyped
  <2> QED BY <1>8, <2>1 DEF Menu!DeleteLevels, MenuTyped
<1>9. CASE Menu!ClearDefaults
  <2>1. level' = [p \in Products |-> [rows |-> level'[p].rows, default |-> level'[p].default]]
    BY <1>9 DEF Menu!ClearDefaults, MenuTyped
  <2> QED BY <1>9, <2>1 DEF Menu!ClearDefaults, MenuTyped
<1>10. CASE Menu!CreateLevels \/ Menu!SetDefaults
  <2>1. level' = [p \in Products |-> [rows |-> level'[p].rows, default |-> level'[p].default]]
    <3>1. CASE level' = level BY <3>1 DEF MenuTyped
    <3>2. CASE /\ DOMAIN level' = Products
               /\ \A q \in Products : level'[q] = level[q] \/ level'[q] = [rows |-> level'[q].rows, default |-> level'[q].default]
      <4>1. level' = [q \in Products |-> level'[q]]
        <5>1. CASE Menu!CreateLevels BY <3>2, <5>1 DEF Menu!CreateLevels, MenuTyped
        <5>2. CASE Menu!SetDefaults BY <3>2, <5>2 DEF Menu!SetDefaults, MenuTyped
        <5> QED BY <1>10, <5>1, <5>2
      <4>2. \A q \in Products : level'[q] = [rows |-> level'[q].rows, default |-> level'[q].default]
        BY <3>2 DEF MenuTyped
      <4> QED BY <4>1, <4>2
    <3> QED BY <1>10, <3>1, <3>2, MenuWrites
  <2>2. sweep' = Menu!Resting \/ sweep' = [sweep EXCEPT !.pc = "set"]
          \/ \E p \in sweep.left : sweep' = [sweep EXCEPT !.left = sweep.left \ {p}]
    BY <1>10, MenuWrites
  <2>3. sweep' = [pc |-> sweep'.pc, snap |-> sweep'.snap, rows |-> sweep'.rows, left |-> sweep'.left, level |-> sweep'.level]
    BY <2>2 DEF Menu!Resting, MenuTyped
  <2> QED BY <1>10, <2>1, <2>3 DEF Menu!CreateLevels, Menu!SetDefaults, MenuTyped
<1>12. CASE Menu!Leave BY <1>12 DEF Menu!Leave, Menu!Resting, MenuTyped
<1>13. CASE Menu!VisitReads \/ UNCHANGED Menu!vars BY <1>13 DEF Menu!VisitReads, Menu!vars, MenuTyped
<1>14. CASE Menu!VisitDeletes BY <1>14 DEF Menu!VisitDeletes, MenuTyped
<1>15. CASE Menu!VisitInserts BY <1>15 DEF Menu!VisitInserts, MenuTyped
<1> QED BY <1>1, <1>2, <1>3, <1>4, <1>5, <1>6, <1>7, <1>8, <1>9, <1>10, <1>12, <1>13, <1>14, <1>15
        DEF Menu!Next

LEMMA MenuAlwaysTyped == ASSUME MenuNone PROVE Menu!Spec => []MenuTyped
  BY MenuTypedInit, MenuTypedNext, PTL DEF Menu!Spec

\* location-stock.ts: a mark of the staff is never lifted nor taken over by the sync.
THEOREM MarkOfTheStaffStays == ASSUME MenuNone PROVE Menu!Spec => []Menu!ManualStays
<1>1. Menu!Init => Menu!ManualStays BY DEF Menu!Init, Menu!ManualStays
<1>2. MenuTyped /\ Menu!ManualStays /\ [Menu!Next]_(Menu!vars) => Menu!ManualStays'
  <2> SUFFICES ASSUME MenuTyped, Menu!ManualStays, [Menu!Next]_(Menu!vars) PROVE Menu!ManualStays'
    OBVIOUS
  <2>1. CASE Menu!StaffMarks BY <2>1 DEF Menu!StaffMarks, MenuTyped, Menu!ManualStays
  <2>2. CASE Menu!VisitDeletes BY <2>2 DEF Menu!VisitDeletes, MenuTyped, Menu!ManualStays, MenuNone
  <2>3. CASE Menu!VisitInserts BY <2>3 DEF Menu!VisitInserts, MenuTyped, Menu!ManualStays, MenuNone
  <2>4. CASE UNCHANGED <<oos, manual>> BY <2>4 DEF Menu!ManualStays
  <2> QED BY <2>1, <2>2, <2>3, <2>4
          DEF Menu!Next, Menu!vars, Menu!MenuChanges, Menu!OperatorPicks, Menu!OperatorRenames, Menu!Fetch,
              Menu!ReadProducts, Menu!UpdateProduct, Menu!DeleteLevels, Menu!ClearDefaults, Menu!CreateLevels,
              Menu!SetDefaults, Menu!Leave, Menu!VisitReads
<1> QED BY <1>1, <1>2, MenuAlwaysTyped, PTL DEF Menu!Spec

\* What the sweep deletes and clears.
LEMMA MenuClears ==
  ASSUME MenuTyped, Menu!DeleteLevels \/ Menu!ClearDefaults, NEW p \in Products
  PROVE  /\ DOMAIN level'[p].rows \subseteq DOMAIN level[p].rows
         /\ Menu!DeleteLevels =>
              \/ level'[p] = level[p]
              \/ /\ DOMAIN level'[p].rows = DOMAIN level[p].rows \cap DOMAIN Menu!Wanted(sweep.snap[p])
                 /\ level[p].default \in DOMAIN level'[p].rows => level'[p].default = level[p].default
         /\ Menu!ClearDefaults =>
              /\ DOMAIN level'[p].rows = DOMAIN level[p].rows
              /\ level[p].default = Menu!DefaultOf(sweep.snap[p], sweep.level[p]) => level'[p].default = level[p].default
<1>1. CASE Menu!DeleteLevels
  <2>1. ~Menu!ClearDefaults BY <1>1 DEF Menu!DeleteLevels, Menu!ClearDefaults
  <2> QED BY <1>1, <2>1 DEF Menu!DeleteLevels
<1>2. CASE Menu!ClearDefaults
  <2>1. ~Menu!DeleteLevels BY <1>2 DEF Menu!DeleteLevels, Menu!ClearDefaults
  <2> QED BY <1>2, <2>1 DEF Menu!ClearDefaults, Menu!Repriced
<1> QED BY <1>1, <1>2

LEMMA MenuFetchedNext ==
  ASSUME MenuNone PROVE MenuTyped /\ MenuFetched /\ [Menu!Next]_(Menu!vars) => MenuFetched'
<1> SUFFICES ASSUME MenuTyped, MenuFetched, [Menu!Next]_(Menu!vars) PROVE MenuFetched'
  OBVIOUS
\* No level comes to MCM but the ones fetched, and the POS and the sweep stay.
<1>a. ASSUME UNCHANGED item, used \subseteq used',
             \/ sweep'.pc = "idle"
             \/ sweep.pc # "idle" /\ sweep'.snap = sweep.snap,
             \A p \in Products : \A l \in DOMAIN level'[p].rows :
               \/ l \in DOMAIN level[p].rows \/ l = AutoLevel
               \/ sweep.pc # "idle" /\ l \in DOMAIN sweep.snap[p].levels
      PROVE  MenuFetched'
  <2>1. ASSUME sweep'.pc # "idle", NEW p \in Products, NEW l \in DOMAIN level'[p].rows \cap DOMAIN item'[p].levels
        PROVE  l \in DOMAIN sweep'.snap[p].levels
    BY <1>a, <2>1 DEF MenuFetched, MenuTyped, MenuNone
  <2>2. ASSUME "levels" \notin used', NEW p \in Products
        PROVE  /\ DOMAIN level'[p].rows \subseteq DOMAIN item'[p].levels \cup {AutoLevel}
               /\ sweep'.pc # "idle" => DOMAIN sweep'.snap[p].levels = DOMAIN item'[p].levels
    BY <1>a, <2>2 DEF MenuFetched
  <2> QED BY <2>1, <2>2 DEF MenuFetched
<1>1. CASE Menu!MenuChanges
  <2>1. UNCHANGED <<level, sweep>> /\ used \subseteq used' BY <1>1 DEF Menu!MenuChanges, Menu!Happens
  <2>2. CASE \A p \in Products : DOMAIN item'[p].levels = DOMAIN item[p].levels
    BY <2>1, <2>2 DEF MenuFetched
  <2>3. CASE "levels" \notin used /\ "levels" \in used'
    <3>1. \A p \in Products : DOMAIN item'[p].levels \subseteq Levels BY <1>1, MenuItems
    <3> QED BY <2>1, <2>3, <3>1 DEF MenuFetched, MenuNone
  <2> QED BY <1>1, <2>2, <2>3, MenuItems
<1>2. CASE Menu!OperatorPicks
  <2>1. UNCHANGED <<item, sweep>> /\ used \subseteq used' BY <1>2 DEF Menu!OperatorPicks, Menu!Happens
  <2>2. \A p \in Products : DOMAIN level'[p].rows = DOMAIN level[p].rows
    BY <1>2 DEF Menu!OperatorPicks, MenuTyped
  <2> QED BY <1>a, <2>1, <2>2
<1>3. CASE Menu!Fetch
  <2>1. PICK s : /\ sweep' = [Menu!Resting EXCEPT !.pc = "fetched", !.snap = s]
                 /\ \/ s = item
                    \/ \E p \in Products : s = [item EXCEPT ![p].listed = FALSE]
    BY <1>3 DEF Menu!Fetch
  <2>2. \A p \in Products : s[p].levels = item[p].levels
    <3>1. DOMAIN item = Products BY DEF MenuTyped
    <3>2. \A p \in Products : item[p] = [name |-> item[p].name, listed |-> item[p].listed, out |-> item[p].out,
                                          levels |-> item[p].levels, main |-> item[p].main]
      BY DEF MenuTyped
    <3>3. \A p \in Products : [item[p] EXCEPT !.listed = FALSE].levels = item[p].levels BY <3>2
    <3>4. ASSUME NEW p \in Products, s = [item EXCEPT ![p].listed = FALSE], NEW q \in Products
          PROVE  s[q].levels = item[q].levels
      <4>1. s = [item EXCEPT ![p] = [item[p] EXCEPT !.listed = FALSE]] BY <3>4
      <4>2. s[q] = item[q] \/ s[q] = [item[q] EXCEPT !.listed = FALSE] BY <3>1, <4>1
      <4> QED BY <3>3, <4>2
    <3> QED BY <2>1, <3>4
  <2>3. sweep'.snap = s BY <2>1 DEF Menu!Resting
  <2>4. UNCHANGED <<item, level>> /\ used \subseteq used' BY <1>3 DEF Menu!Fetch, Menu!Happens
  <2> QED BY <2>2, <2>3, <2>4 DEF MenuFetched
<1>4. CASE Menu!ReadProducts
  <2>1. PICK s : sweep' = [sweep EXCEPT !.pc = "products", !.rows = row, !.left = s] BY <1>4 DEF Menu!ReadProducts
  <2>2. sweep'.snap = sweep.snap BY <2>1 DEF MenuTyped
  <2> QED BY <1>4, <1>a, <2>2 DEF Menu!ReadProducts
<1>5. CASE Menu!UpdateProduct
  <2>1. PICK p \in sweep.left : sweep' = [sweep EXCEPT !.left = sweep.left \ {p}] BY <1>5 DEF Menu!UpdateProduct
  <2>2. sweep'.snap = sweep.snap BY <2>1 DEF MenuTyped
  <2> QED BY <1>5, <1>a, <2>2 DEF Menu!UpdateProduct
<1>6. CASE Menu!DeleteLevels \/ Menu!ClearDefaults
  <2>1. \A p \in Products : DOMAIN level'[p].rows \subseteq DOMAIN level[p].rows BY <1>6, MenuClears
  <2>2. sweep'.snap = sweep.snap /\ sweep.pc # "idle" /\ UNCHANGED <<item, used>>
    BY <1>6 DEF Menu!DeleteLevels, Menu!ClearDefaults, MenuTyped
  <2> QED BY <1>a, <2>1, <2>2
<1>7. CASE Menu!CreateLevels
  <2>1. sweep.pc # "idle" /\ UNCHANGED <<item, used>> BY <1>7 DEF Menu!CreateLevels
  <2>2. sweep'.pc = "idle" \/ sweep'.snap = sweep.snap
    BY <1>7, MenuWrites DEF Menu!Resting, MenuTyped
  <2>3. \A p : \A l \in Menu!Missing(p) : l = AutoLevel \/ l \in DOMAIN sweep.snap[p].levels
    BY DEF Menu!Missing, Menu!Wanted
  <2>4. \A p \in Products : DOMAIN level'[p].rows \subseteq DOMAIN level[p].rows \cup Menu!Missing(p)
    BY <1>7, MenuWrites
  <2> QED BY <1>a, <2>1, <2>2, <2>3, <2>4
<1>8. CASE Menu!SetDefaults
  <2>1. sweep.pc # "idle" /\ UNCHANGED <<item, used>> BY <1>8 DEF Menu!SetDefaults
  <2>2. sweep'.pc = "idle" \/ sweep'.snap = sweep.snap
    BY <1>8, MenuWrites DEF Menu!Resting, MenuTyped
  <2>3. \A p \in Products : DOMAIN level'[p].rows = DOMAIN level[p].rows
    BY <1>8, MenuWrites
  <2> QED BY <1>a, <2>1, <2>2, <2>3
<1>9. CASE Menu!Leave
  <2>1. sweep'.pc = "idle" /\ UNCHANGED <<item, level>> /\ used \subseteq used'
    BY <1>9 DEF Menu!Leave, Menu!Resting, Menu!Happens
  <2> QED BY <1>a, <2>1
<1>10. CASE UNCHANGED <<item, level, sweep>> /\ used \subseteq used'
  BY <1>10 DEF MenuFetched
<1> QED BY <1>1, <1>2, <1>3, <1>4, <1>5, <1>6, <1>7, <1>8, <1>9, <1>10
        DEF Menu!Next, Menu!vars, Menu!OperatorRenames, Menu!StaffMarks, Menu!VisitReads, Menu!VisitDeletes,
            Menu!VisitInserts, Menu!Happens

LEMMA MenuPickedNext ==
  ASSUME MenuNone PROVE MenuTyped /\ MenuFetched /\ MenuPicked /\ [Menu!Next]_(Menu!vars) => MenuPicked'
<1> SUFFICES ASSUME MenuTyped, MenuFetched, MenuPicked, [Menu!Next]_(Menu!vars) PROVE MenuPicked'
  OBVIOUS
<1>a. used \subseteq used'
  BY DEF Menu!Next, Menu!vars, Menu!MenuChanges, Menu!OperatorPicks, Menu!OperatorRenames, Menu!StaffMarks, Menu!Fetch,
         Menu!ReadProducts, Menu!UpdateProduct, Menu!DeleteLevels, Menu!ClearDefaults, Menu!CreateLevels,
         Menu!SetDefaults, Menu!Leave, Menu!VisitReads, Menu!VisitDeletes, Menu!VisitInserts, Menu!Happens
\* The level picked is the default of what the sweep read.
<1>b. ASSUME NEW p \in Products, chosen[p] # None, "late" \notin used, sweep.pc # "idle"
      PROVE  /\ chosen[p] \in DOMAIN sweep.snap[p].levels
             /\ chosen[p] \in DOMAIN Menu!Wanted(sweep.snap[p])
             /\ sweep.pc \in {"clear", "create", "set"} =>
                  Menu!DefaultOf(sweep.snap[p], sweep.level[p]) = chosen[p]
  <2>1. chosen[p] \in DOMAIN sweep.snap[p].levels BY <1>b DEF MenuPicked, MenuFetched
  <2> QED BY <1>b, <2>1 DEF MenuPicked, Menu!Wanted, Menu!DefaultOf
\* The sweep leaves the picks and their levels.
<1>c. ASSUME UNCHANGED <<item, chosen>>,
             \A p \in Products : chosen[p] # None /\ "late" \notin used =>
               level'[p].default = chosen[p] /\ chosen[p] \in DOMAIN level'[p].rows,
             \/ sweep'.pc \notin {"clear", "create", "set"}
             \/ sweep.pc \in {"clear", "create", "set"} /\ sweep'.level = sweep.level
             \/ sweep'.level = level
      PROVE  MenuPicked'
  BY <1>a, <1>c DEF MenuPicked
<1>1. CASE Menu!MenuChanges
  <2>1. UNCHANGED <<level, sweep>> BY <1>1 DEF Menu!MenuChanges
  <2>2. \A p \in Products : chosen'[p] # None => chosen'[p] = chosen[p] /\ chosen'[p] \in DOMAIN item'[p].levels
    BY <1>1 DEF Menu!MenuChanges
  <2> QED BY <1>a, <2>1, <2>2 DEF MenuPicked
<1>2. CASE Menu!OperatorPicks
  <2>1. PICK p \in Products : \E l \in (DOMAIN level[p].rows \cap DOMAIN item[p].levels) \ {level[p].default} :
          /\ level' = [level EXCEPT ![p].default = l] /\ chosen' = [chosen EXCEPT ![p] = l]
          /\ "late" \in used' \/ sweep.pc \notin {"clear", "create", "set"}
    BY <1>2 DEF Menu!OperatorPicks, Menu!Happens
  <2>2. PICK l \in DOMAIN level[p].rows \cap DOMAIN item[p].levels :
          /\ level' = [level EXCEPT ![p].default = l] /\ chosen' = [chosen EXCEPT ![p] = l]
          /\ "late" \in used' \/ sweep.pc \notin {"clear", "create", "set"}
    BY <2>1
  <2>3. UNCHANGED <<item, sweep>> BY <1>2 DEF Menu!OperatorPicks
  <2>4. level[p] = [rows |-> level[p].rows, default |-> level[p].default] BY DEF MenuTyped
  <2>5. level'[p].default = l /\ level'[p].rows = level[p].rows /\ chosen'[p] = l
    BY <2>2, <2>4 DEF MenuTyped
  <2>6. \A q \in Products : q # p => level'[q] = level[q] /\ chosen'[q] = chosen[q]
    BY <2>2 DEF MenuTyped
  <2>7. ASSUME NEW q \in Products, chosen'[q] # None
        PROVE  /\ chosen'[q] \in DOMAIN item'[q].levels
               /\ "late" \notin used' =>
                  /\ level'[q].default = chosen'[q] /\ chosen'[q] \in DOMAIN level'[q].rows
                  /\ sweep'.pc \in {"clear", "create", "set"} =>
                       sweep'.level[q].default = chosen'[q] /\ chosen'[q] \in DOMAIN sweep'.level[q].rows
    <3>1. CASE q = p BY <2>2, <2>3, <2>5, <3>1
    <3>2. CASE q # p BY <1>a, <2>3, <2>6, <2>7, <3>2 DEF MenuPicked
    <3> QED BY <3>1, <3>2
  <2> QED BY <2>7 DEF MenuPicked
<1>3. CASE Menu!Fetch
  <2>1. sweep'.pc = "fetched" BY <1>3 DEF Menu!Fetch, Menu!Resting
  <2> QED BY <1>3, <1>a, <2>1 DEF Menu!Fetch, MenuPicked
<1>4. CASE Menu!ReadProducts
  <2>1. PICK s : sweep' = [sweep EXCEPT !.pc = "products", !.rows = row, !.left = s] BY <1>4 DEF Menu!ReadProducts
  <2>2. sweep'.pc = "products" BY <2>1 DEF MenuTyped
  <2> QED BY <1>4, <1>a, <2>2 DEF Menu!ReadProducts, MenuPicked
<1>5. CASE Menu!UpdateProduct
  <2>1. PICK p \in sweep.left : sweep' = [sweep EXCEPT !.left = sweep.left \ {p}] BY <1>5 DEF Menu!UpdateProduct
  <2>2. sweep'.pc = "products" BY <1>5, <2>1 DEF MenuTyped, Menu!UpdateProduct
  <2> QED BY <1>5, <1>a, <2>2 DEF Menu!UpdateProduct, MenuPicked
<1>6. CASE Menu!DeleteLevels
  <2>1. sweep'.level = level BY <1>6 DEF Menu!DeleteLevels, MenuTyped
  <2>2. sweep.pc # "idle" /\ UNCHANGED <<item, chosen>> BY <1>6 DEF Menu!DeleteLevels
  <2>3. ASSUME NEW p \in Products, chosen[p] # None, "late" \notin used
        PROVE  level'[p].default = chosen[p] /\ chosen[p] \in DOMAIN level'[p].rows
    <3>1. level[p].default = chosen[p] /\ chosen[p] \in DOMAIN level[p].rows BY <2>3 DEF MenuPicked
    <3>2. chosen[p] \in DOMAIN Menu!Wanted(sweep.snap[p]) BY <1>b, <2>2, <2>3
    <3> QED BY <1>6, <3>1, <3>2, MenuClears
  <2> QED BY <1>c, <2>1, <2>2, <2>3
<1>7. CASE Menu!ClearDefaults \/ Menu!CreateLevels \/ Menu!SetDefaults
  <2>1. sweep.pc \in {"clear", "create", "set"} /\ UNCHANGED <<item, chosen>>
    BY <1>7 DEF Menu!ClearDefaults, Menu!CreateLevels, Menu!SetDefaults
  <2>2. sweep'.pc \notin {"clear", "create", "set"} \/ sweep'.level = sweep.level
    <3>1. CASE Menu!ClearDefaults BY <3>1 DEF Menu!ClearDefaults, MenuTyped
    <3>2. CASE Menu!CreateLevels \/ Menu!SetDefaults BY <3>2, MenuWrites DEF Menu!Resting, MenuTyped
    <3> QED BY <1>7, <3>1, <3>2
  <2>3. ASSUME NEW p \in Products, chosen[p] # None, "late" \notin used
        PROVE  level'[p].default = chosen[p] /\ chosen[p] \in DOMAIN level'[p].rows
    <3>1. level[p].default = chosen[p] /\ chosen[p] \in DOMAIN level[p].rows BY <2>3 DEF MenuPicked
    <3>2. Menu!DefaultOf(sweep.snap[p], sweep.level[p]) = chosen[p] BY <1>b, <2>1, <2>3
    <3>3. chosen[p] \in DOMAIN sweep.level[p].rows BY <2>1, <2>3 DEF MenuPicked
    <3>4. CASE Menu!ClearDefaults BY <3>1, <3>2, <3>4, MenuClears
    <3>5. CASE Menu!CreateLevels
      <4>1. chosen[p] \notin Menu!Missing(p) BY <3>3 DEF Menu!Missing
      <4> QED BY <3>1, <3>2, <3>5, <4>1, MenuWrites
    <3>6. CASE Menu!SetDefaults BY <3>1, <3>2, <3>6, MenuWrites
    <3> QED BY <1>7, <3>4, <3>5, <3>6
  <2> QED BY <1>c, <2>1, <2>2, <2>3
<1>8. CASE Menu!Leave
  <2>1. sweep'.pc = "idle" BY <1>8 DEF Menu!Leave, Menu!Resting
  <2> QED BY <1>8, <1>a, <2>1 DEF Menu!Leave, MenuPicked
<1>9. CASE UNCHANGED <<item, level, chosen, sweep>>
  BY <1>9, <1>a DEF MenuPicked
<1> QED BY <1>1, <1>2, <1>3, <1>4, <1>5, <1>6, <1>7, <1>8, <1>9
        DEF Menu!Next, Menu!vars, Menu!OperatorRenames, Menu!StaffMarks, Menu!VisitReads, Menu!VisitDeletes,
            Menu!VisitInserts

\* products-helper.ts: the default level the operator picked stays the default
\* while the POS has it, wherever the sweep is and wherever one died, unless it
\* was picked under a sweep that had read the levels.
THEOREM PickedLevelStays == ASSUME MenuNone PROVE Menu!Spec => []Menu!ChoiceIsKept
<1>1. Menu!Init => MenuFetched /\ MenuPicked
  <2> SUFFICES ASSUME Menu!Init PROVE MenuFetched /\ MenuPicked
    OBVIOUS
  <2>1. \A p \in Products : DOMAIN level[p].rows = {} /\ chosen[p] = None BY DEF Menu!Init, Menu!NoLevel
  <2>2. sweep.pc = "idle" BY DEF Menu!Init, Menu!Resting
  <2> QED BY <2>1, <2>2 DEF MenuFetched, MenuPicked
<1>2. MenuPicked => Menu!ChoiceIsKept BY DEF MenuPicked, Menu!ChoiceIsKept
<1> QED BY <1>1, <1>2, MenuAlwaysTyped, MenuFetchedNext, MenuPickedNext, PTL DEF Menu!Spec

---------------------------------------------------------------------------
(* OmnivoreModifiers.  A sweep holds the rows it read while it writes, and *)
(* what was attached to them before is in them.                            *)

\* A row is there or not; Omnivore does not know MCM's own.
OptionsNone == None \notin Options!Row /\ Native \notin Modifiers \cup Products

OptionsAsks  == Products \X Groups \X Ranges
OptionsNests == Modifiers \X Groups \X Ranges
OptionsRows  == [Options!Keys -> Options!Row \cup {None}]
OptionsMenu  == [mods : [Groups -> SUBSET Modifiers], asks : SUBSET OptionsAsks, nests : SUBSET OptionsNests,
                 out : SUBSET Modifiers]
OptionsSweep == [pc : {"idle", "products", "groups", "nested", "stock", "written", "read", "created", "swept"},
                 full : BOOLEAN, calm : BOOLEAN, asks : SUBSET OptionsAsks, mods : [Groups -> SUBSET Modifiers],
                 nests : SUBSET OptionsNests, out : SUBSET Modifiers, prev : OptionsRows,
                 todo : SUBSET Options!Keys]
OptionsTyped ==
  /\ menu \in OptionsMenu /\ ingr \in [Modifiers -> {"none", "in", "out"}]
  /\ grp \in OptionsRows /\ sweep \in OptionsSweep /\ attached \subseteq Options!Keys \X Options!Fields

\* What the owner attached is in the row, and in the row the sweep read.
OptionsKept ==
  "late" \notin used => \A e \in attached :
    /\ grp[e[1]] # None /\ Native \in grp[e[1]][e[2]]
    /\ sweep.pc \in {"read", "created"} => sweep.prev[e[1]] # None /\ Native \in sweep.prev[e[1]][e[2]]

LEMMA OptionsTarget ==
  ASSUME OptionsNone, OptionsTyped, NEW k \in Options!Keys
  PROVE  /\ Options!Target(k) \in Options!Row
         /\ \A f \in Options!Fields : sweep.prev[k] # None /\ Native \in sweep.prev[k][f]
                                        => Native \in Options!Target(k)[f]
<1> DEFINE now == Options!Imported(sweep, k)
           Kept(f) == IF sweep.prev[k] = None THEN {} ELSE sweep.prev[k][f] \cap {Native}
           Known(S) == {m \in S : ingr[m] # "none"}
<1>1. Options!Target(k) = [ingredients |-> Known(now.ingredients) \cup Kept("ingredients"),
                           products |-> now.products \cup Kept("products"),
                           included |-> Known(now.included) \cup Kept("included")]
  BY DEF Options!Target
<1>2. now.ingredients \subseteq Modifiers
  BY DEF Options!Imported, OptionsTyped, OptionsSweep, Options!Keys
<1>3. now.products \subseteq Products
  BY DEF Options!Imported, OptionsTyped, OptionsSweep, OptionsAsks
<1>4. now.included \subseteq Modifiers
  BY DEF Options!Imported, Options!Included, OptionsTyped, OptionsSweep, OptionsNests
<1> HIDE DEF now
<1> QED BY <1>1, <1>2, <1>3, <1>4 DEF Options!Row, Options!Fields

LEMMA OptionsTypedInit == ASSUME OptionsNone PROVE Options!Init => OptionsTyped
<1> SUFFICES ASSUME Options!Init PROVE OptionsTyped
  OBVIOUS
<1>1. PICK q \in OptionsAsks : menu = [mods |-> [g \in Groups |-> Modifiers], asks |-> {q}, nests |-> {}, out |-> {}]
  BY DEF Options!Init, OptionsAsks
<1>2. menu \in OptionsMenu BY <1>1 DEF OptionsMenu
<1>3. [k \in Options!Keys |-> None] \in OptionsRows BY DEF OptionsRows
<1> QED BY <1>2, <1>3 DEF Options!Init, Options!Resting, OptionsTyped, OptionsSweep

LEMMA OptionsTypedNext ==
  ASSUME OptionsNone PROVE OptionsTyped /\ [Options!Next]_(Options!vars) => OptionsTyped'
<1> SUFFICES ASSUME OptionsTyped, [Options!Next]_(Options!vars) PROVE OptionsTyped'
  OBVIOUS
<1>1. CASE Options!MenuChanges
  <2>1. menu' \in OptionsMenu
    <3>1. CASE \E q \in OptionsAsks : menu' = [menu EXCEPT !.asks = Options!Flip(menu.asks, q)]
      BY <3>1 DEF OptionsTyped, OptionsMenu, Options!Flip
    <3>2. CASE \E q \in OptionsNests : menu' = [menu EXCEPT !.nests = Options!Flip(menu.nests, q)]
      BY <3>2 DEF OptionsTyped, OptionsMenu, Options!Flip
    <3>3. CASE \E g \in Groups, m \in Modifiers : menu' = [menu EXCEPT !.mods[g] = Options!Flip(@, m)]
      <4>1. PICK g \in Groups, m \in Modifiers :
              menu' = [menu EXCEPT !.mods = [menu.mods EXCEPT ![g] = Options!Flip(menu.mods[g], m)]]
        BY <3>3 DEF OptionsTyped, OptionsMenu
      <4>2. Options!Flip(menu.mods[g], m) \in SUBSET Modifiers BY DEF OptionsTyped, OptionsMenu, Options!Flip
      <4> QED BY <4>1, <4>2 DEF OptionsTyped, OptionsMenu
    <3>4. CASE \E m \in Modifiers : menu' = [menu EXCEPT !.out = Options!Flip(menu.out, m)]
      BY <3>4 DEF OptionsTyped, OptionsMenu, Options!Flip
    <3> QED BY <1>1, <3>1, <3>2, <3>3, <3>4 DEF Options!MenuChanges, OptionsAsks, OptionsNests
  <2>2. sweep' \in OptionsSweep BY <1>1 DEF Options!MenuChanges, OptionsTyped, OptionsSweep
  <2> QED BY <1>1, <2>1, <2>2 DEF Options!MenuChanges, OptionsTyped
<1>2. CASE Options!OwnerAttaches
  <2>1. PICK k \in Options!Keys, f \in Options!Fields :
          /\ grp[k] # None /\ grp' = [grp EXCEPT ![k][f] = @ \cup {Native}]
          /\ attached' = attached \cup {<<k, f>>}
    BY <1>2 DEF Options!OwnerAttaches
  <2>2. grp[k] \in Options!Row BY <2>1 DEF OptionsTyped, OptionsRows
  <2>3. [grp[k] EXCEPT ![f] = grp[k][f] \cup {Native}] \in Options!Row
    <3>1. CASE f = "ingredients" BY <2>2, <3>1 DEF Options!Row
    <3>2. CASE f = "products" BY <2>2, <3>2 DEF Options!Row
    <3>3. CASE f = "included" BY <2>2, <3>3 DEF Options!Row
    <3> QED BY <3>1, <3>2, <3>3 DEF Options!Fields
  <2>4. grp' = [grp EXCEPT ![k] = [grp[k] EXCEPT ![f] = grp[k][f] \cup {Native}]]
    BY <2>1 DEF OptionsTyped, OptionsRows
  <2>5. grp' \in OptionsRows BY <2>3, <2>4 DEF OptionsTyped, OptionsRows
  <2> QED BY <1>2, <2>1, <2>5 DEF Options!OwnerAttaches, OptionsTyped
<1>3. CASE Options!ReadProducts
  <2>1. PICK full \in BOOLEAN : sweep' = [Options!Resting EXCEPT !.pc = "products", !.full = full, !.asks = menu.asks]
    BY <1>3 DEF Options!ReadProducts
  <2>2. Options!Resting \in OptionsSweep BY DEF Options!Resting, OptionsSweep, OptionsRows
  <2>3. sweep' \in OptionsSweep BY <2>1, <2>2 DEF OptionsTyped, OptionsMenu, OptionsSweep
  <2> QED BY <1>3, <2>3 DEF Options!ReadProducts, OptionsTyped
<1>4. CASE Options!ReadGroups BY <1>4 DEF Options!ReadGroups, OptionsTyped, OptionsMenu, OptionsSweep
<1>5. CASE Options!ReadNested
  <2>1. PICK n \in SUBSET menu.nests : sweep' = [sweep EXCEPT !.pc = "nested", !.nests = n]
    BY <1>5 DEF Options!ReadNested
  <2>2. sweep' \in OptionsSweep BY <2>1 DEF OptionsTyped, OptionsMenu, OptionsSweep
  <2> QED BY <1>5, <2>2 DEF Options!ReadNested, OptionsTyped
<1>6. CASE Options!ReadStock BY <1>6 DEF Options!ReadStock, OptionsTyped, OptionsMenu, OptionsSweep
<1>7. CASE Options!WriteIngredients
  BY <1>7 DEF Options!WriteIngredients, OptionsTyped, OptionsSweep
<1>8. CASE Options!ReadRows
  <2>1. Options!ToImport(sweep) \subseteq Options!Keys
    BY DEF Options!ToImport, Options!ProductKeys, Options!ProductKey, Options!NestedKey, Options!Keys, OptionsTyped,
           OptionsSweep, OptionsAsks, OptionsNests
  <2>2. PICK t \in SUBSET Options!Keys : sweep' = [sweep EXCEPT !.pc = "read", !.prev = grp, !.todo = t]
    BY <1>8, <2>1 DEF Options!ReadRows
  <2>3. sweep' \in OptionsSweep BY <2>2 DEF OptionsTyped, OptionsSweep
  <2> QED BY <1>8, <2>3 DEF Options!ReadRows, OptionsTyped
<1>9. CASE Options!CreateGroups
  <2> DEFINE new == {k \in sweep.todo : sweep.prev[k] = None}
  <2>1. grp' = [k \in Options!Keys |-> IF k \in new THEN Options!Target(k) ELSE grp[k]]
    BY <1>9 DEF Options!CreateGroups
  <2>2. grp' \in OptionsRows BY <2>1, OptionsTarget DEF OptionsTyped, OptionsRows
  <2>3. PICK t \in SUBSET sweep.todo : sweep' = [sweep EXCEPT !.pc = "created", !.todo = t]
    BY <1>9 DEF Options!CreateGroups
  <2>4. sweep' \in OptionsSweep BY <2>3 DEF OptionsTyped, OptionsSweep
  <2> QED BY <1>9, <2>2, <2>4 DEF Options!CreateGroups, OptionsTyped
<1>10. ASSUME NEW k \in Options!Keys, Options!UpdateGroup(k) PROVE OptionsTyped'
  <2>1. grp' \in OptionsRows BY <1>10, OptionsTarget DEF Options!UpdateGroup, OptionsTyped, OptionsRows
  <2>2. sweep' \in OptionsSweep BY <1>10 DEF Options!UpdateGroup, OptionsTyped, OptionsSweep
  <2> QED BY <1>10, <2>1, <2>2 DEF Options!UpdateGroup, OptionsTyped
<1>11. CASE Options!Finish BY <1>11 DEF Options!Finish, OptionsTyped, OptionsSweep
<1>12. CASE Options!Leave
  <2>1. Options!Resting \in OptionsSweep BY DEF Options!Resting, OptionsSweep, OptionsRows
  <2> QED BY <1>12, <2>1 DEF Options!Leave, OptionsTyped
<1>13. CASE UNCHANGED Options!vars BY <1>13 DEF Options!vars, OptionsTyped
<1> QED BY <1>1, <1>2, <1>3, <1>4, <1>5, <1>6, <1>7, <1>8, <1>9, <1>10, <1>11, <1>12, <1>13 DEF Options!Next

LEMMA OptionsAlwaysTyped == ASSUME OptionsNone PROVE Options!Spec => []OptionsTyped
  BY OptionsTypedInit, OptionsTypedNext, PTL DEF Options!Spec

LEMMA OptionsKeptNext ==
  ASSUME OptionsNone PROVE OptionsTyped /\ OptionsKept /\ [Options!Next]_(Options!vars) => OptionsKept'
<1> SUFFICES ASSUME OptionsTyped, OptionsKept, [Options!Next]_(Options!vars), "late" \notin used' PROVE OptionsKept'
  BY DEF OptionsKept
<1>a. used \subseteq used'
  BY DEF Options!Next, Options!vars, Options!MenuChanges, Options!OwnerAttaches, Options!ReadProducts, Options!ReadGroups,
         Options!ReadNested, Options!ReadStock, Options!WriteIngredients, Options!ReadRows, Options!CreateGroups,
         Options!UpdateGroup, Options!Finish, Options!Leave, Options!Happens
<1>b. /\ grp \in OptionsRows /\ sweep \in OptionsSweep /\ attached \subseteq Options!Keys \X Options!Fields
  BY DEF OptionsTyped
<1>c. \A e \in attached :
        /\ e[1] \in Options!Keys /\ e[2] \in Options!Fields
        /\ grp[e[1]] # None /\ Native \in grp[e[1]][e[2]]
        /\ sweep.pc \in {"read", "created"} => sweep.prev[e[1]] # None /\ Native \in sweep.prev[e[1]][e[2]]
  BY <1>a, <1>b DEF OptionsKept
\* A step that writes no group.
<1>d. ASSUME grp' = grp, attached' = attached,
             sweep'.pc \in {"read", "created"} => sweep'.prev = grp \/ (sweep.pc \in {"read", "created"} /\ sweep'.prev = sweep.prev)
      PROVE  OptionsKept'
  BY <1>c, <1>d DEF OptionsKept
<1>1. CASE Options!MenuChanges
  <2>1. sweep'.pc = sweep.pc /\ sweep'.prev = sweep.prev BY <1>1, <1>b DEF Options!MenuChanges, OptionsSweep
  <2> QED BY <1>1, <1>d, <2>1 DEF Options!MenuChanges
<1>2. CASE Options!OwnerAttaches
  <2>1. PICK k \in Options!Keys, f \in Options!Fields :
          /\ grp[k] # None /\ grp' = [grp EXCEPT ![k][f] = @ \cup {Native}]
          /\ attached' = attached \cup {<<k, f>>}
    BY <1>2 DEF Options!OwnerAttaches
  <2>2. sweep' = sweep /\ sweep.pc \notin {"read", "created"}
    BY <1>2 DEF Options!OwnerAttaches, Options!Happens
  <2>3. grp[k] \in Options!Row /\ DOMAIN grp[k] = Options!Fields
    BY <1>b, <2>1 DEF OptionsRows, Options!Row, Options!Fields
  <2>4. grp'[k] = [grp[k] EXCEPT ![f] = grp[k][f] \cup {Native}] BY <1>b, <2>1 DEF OptionsRows
  <2>5. \A j \in Options!Keys : j # k => grp'[j] = grp[j] BY <1>b, <2>1 DEF OptionsRows
  <2>6. \A h \in Options!Fields : /\ h = f => Native \in grp'[k][h]
                                  /\ h # f => grp'[k][h] = grp[k][h]
    BY <2>3, <2>4
  <2>7. grp'[k] # None
    <3>1. [grp[k] EXCEPT ![f] = grp[k][f] \cup {Native}] \in Options!Row
      <4>1. CASE f = "ingredients" BY <2>3, <4>1 DEF Options!Row
      <4>2. CASE f = "products" BY <2>3, <4>2 DEF Options!Row
      <4>3. CASE f = "included" BY <2>3, <4>3 DEF Options!Row
      <4> QED BY <4>1, <4>2, <4>3 DEF Options!Fields
    <3> QED BY <2>4, <3>1 DEF OptionsNone
  <2>8. \A e \in attached' : grp'[e[1]] # None /\ Native \in grp'[e[1]][e[2]]
    <3>1. ASSUME NEW e \in attached PROVE grp'[e[1]] # None /\ Native \in grp'[e[1]][e[2]]
      BY <1>c, <2>5, <2>6, <2>7
    <3> QED BY <2>1, <2>6, <2>7, <3>1
  <2> QED BY <2>2, <2>8 DEF OptionsKept
<1>3. CASE Options!ReadProducts
  <2>1. sweep'.pc = "products" BY <1>3 DEF Options!ReadProducts, Options!Resting
  <2> QED BY <1>3, <1>d, <2>1 DEF Options!ReadProducts
<1>4. CASE Options!ReadGroups \/ Options!ReadNested \/ Options!ReadStock \/ Options!WriteIngredients \/ Options!Finish
  <2>1. sweep'.pc \in {"groups", "nested", "stock", "written", "swept"}
    BY <1>4, <1>b DEF Options!ReadGroups, Options!ReadNested, Options!ReadStock, Options!WriteIngredients, Options!Finish,
                      OptionsSweep
  <2> QED BY <1>4, <1>d, <2>1 DEF Options!ReadGroups, Options!ReadNested, Options!ReadStock, Options!WriteIngredients,
                                  Options!Finish
<1>8. CASE Options!ReadRows
  <2>1. sweep'.prev = grp BY <1>8, <1>b DEF Options!ReadRows, OptionsSweep
  <2> QED BY <1>8, <1>d, <2>1 DEF Options!ReadRows
<1>9. CASE Options!CreateGroups
  <2>1. /\ sweep.pc = "read" /\ sweep'.prev = sweep.prev /\ attached' = attached
    BY <1>9, <1>b DEF Options!CreateGroups, OptionsSweep
  <2>2. \A k \in Options!Keys : sweep.prev[k] # None => grp'[k] = grp[k]
    BY <1>9 DEF Options!CreateGroups
  <2> QED BY <1>c, <2>1, <2>2 DEF OptionsKept
<1>10. ASSUME NEW k \in Options!Keys, Options!UpdateGroup(k) PROVE OptionsKept'
  <2>1. /\ sweep.pc = "created" /\ sweep'.prev = sweep.prev /\ attached' = attached
        /\ grp' = [grp EXCEPT ![k] = Options!Target(k)]
    BY <1>10, <1>b DEF Options!UpdateGroup, OptionsSweep
  <2>2. \A j \in Options!Keys : grp'[j] = IF j = k THEN Options!Target(k) ELSE grp[j]
    BY <1>b, <2>1 DEF OptionsRows
  <2>3. /\ Options!Target(k) # None
        /\ \A f \in Options!Fields : sweep.prev[k] # None /\ Native \in sweep.prev[k][f]
                                        => Native \in Options!Target(k)[f]
    BY OptionsTarget DEF OptionsNone
  <2> QED BY <1>c, <2>1, <2>2, <2>3 DEF OptionsKept
<1>12. CASE Options!Leave
  <2>1. sweep'.pc = "idle" BY <1>12 DEF Options!Leave, Options!Resting
  <2> QED BY <1>12, <1>d, <2>1 DEF Options!Leave
<1>13. CASE UNCHANGED Options!vars BY <1>13, <1>d DEF Options!vars
<1> QED BY <1>1, <1>2, <1>3, <1>4, <1>8, <1>9, <1>10, <1>12, <1>13 DEF Options!Next

\* ingredients-helper.ts M3: what was attached by hand to a group outlives every sweep.
THEOREM AttachedByHandStays == ASSUME OptionsNone PROVE Options!Spec => []Options!HandAttachedStays
<1>1. Options!Init => OptionsKept BY DEF Options!Init, OptionsKept
<1>2. OptionsTyped /\ OptionsKept /\ [Options!Next]_(Options!vars) => OptionsKept' BY OptionsKeptNext
<1>3. OptionsKept => Options!HandAttachedStays BY DEF OptionsKept, Options!HandAttachedStays
<1> QED BY <1>1, <1>2, <1>3, OptionsAlwaysTyped, PTL DEF Options!Spec

\* What a sweep that nobody disturbed read is what is.
OptionsSeen ==
  sweep.calm =>
    /\ sweep.pc # "idle" => sweep.asks = menu.asks
    /\ sweep.pc \notin {"idle", "products"} => sweep.mods = menu.mods
    /\ sweep.pc \notin {"idle", "products", "groups"} =>
         sweep.nests = {q \in menu.nests : q[1] \in Options!ModifiersOf(sweep.mods, Options!ProductKeys(sweep.asks))}
    /\ sweep.pc \notin {"idle", "products", "groups", "nested"} => sweep.out = menu.out

\* A full sweep has a row of every modifier its groups need, as sold out as it read.
OptionsIds == Options!ModifiersOf(sweep.mods, Options!ToImport(sweep)) \cup {q[1] : q \in sweep.nests}
OptionsStocked ==
  sweep.full /\ sweep.pc \in {"written", "read", "created", "swept"} =>
    \A m \in OptionsIds \cap Modifiers :
      ingr[m] # "none" /\ (ManageStock => ingr[m] = IF m \in sweep.out THEN "out" ELSE "in")

\* A row r that has what Omnivore says of the group k, and one that has it as p has.
OptionsMatches(r, k) ==
  /\ r # None /\ r.ingredients \ {Native} = Options!Imported(sweep, k).ingredients
  /\ r.products \ {Native} = Options!Imported(sweep, k).products
  /\ Options!Imported(sweep, k).included \subseteq r.included
OptionsAlike(r, p) ==
  /\ r # None /\ r.ingredients \ {Native} = p.ingredients \ {Native}
  /\ r.products \ {Native} = p.products \ {Native} /\ p.included \subseteq r.included

\* The groups that a full sweep has no longer to write have what it read.
OptionsDone ==
  sweep.full =>
    /\ sweep.pc = "read" => /\ sweep.todo = Options!ToImport(sweep)
                            /\ \A k \in Options!Keys : sweep.prev[k] # None => OptionsAlike(grp[k], sweep.prev[k])
    /\ sweep.pc = "created" => \A k \in Options!ToImport(sweep) \ sweep.todo : OptionsMatches(grp[k], k)
    /\ sweep.pc = "swept"   => \A k \in Options!ToImport(sweep) : OptionsMatches(grp[k], k)

LEMMA OptionsSeenNext == OptionsTyped /\ OptionsSeen /\ [Options!Next]_(Options!vars) => OptionsSeen'
<1> SUFFICES ASSUME OptionsTyped, OptionsSeen, [Options!Next]_(Options!vars) PROVE OptionsSeen'
  OBVIOUS
<1>b. sweep \in OptionsSweep BY DEF OptionsTyped
<1>1. CASE Options!MenuChanges
  <2>1. sweep'.calm = FALSE BY <1>1, <1>b DEF Options!MenuChanges, OptionsSweep
  <2> QED BY <2>1 DEF OptionsSeen
<1>2. CASE Options!OwnerAttaches BY <1>2 DEF Options!OwnerAttaches, OptionsSeen, Options!ModifiersOf, Options!ProductKeys
<1>3. CASE Options!ReadProducts
  <2>1. sweep'.pc = "products" /\ sweep'.asks = menu.asks /\ menu' = menu
    BY <1>3 DEF Options!ReadProducts, Options!Resting
  <2> QED BY <2>1 DEF OptionsSeen
<1>4. CASE Options!ReadGroups
  <2>1. /\ sweep.pc = "products" /\ sweep'.pc = "groups" /\ sweep'.asks = sweep.asks /\ sweep'.calm = sweep.calm
        /\ sweep'.mods = menu.mods /\ menu' = menu
    BY <1>4, <1>b DEF Options!ReadGroups, OptionsSweep
  <2> QED BY <2>1 DEF OptionsSeen
<1>5. CASE Options!ReadNested
  <2>1. /\ sweep.pc = "groups" /\ sweep'.pc = "nested" /\ sweep'.asks = sweep.asks /\ sweep'.calm = sweep.calm
        /\ sweep'.mods = sweep.mods /\ menu' = menu
        /\ sweep'.nests = {q \in menu.nests : q[1] \in Options!ModifiersOf(sweep.mods, Options!ProductKeys(sweep.asks))}
    BY <1>5, <1>b DEF Options!ReadNested, OptionsSweep
  <2> QED BY <2>1 DEF OptionsSeen, Options!ModifiersOf, Options!ProductKeys
<1>6. CASE Options!ReadStock
  <2>1. /\ sweep.pc = "nested" /\ sweep'.pc = "stock" /\ sweep'.asks = sweep.asks /\ sweep'.calm = sweep.calm
        /\ sweep'.mods = sweep.mods /\ menu' = menu /\ sweep'.nests = sweep.nests /\ sweep'.out = menu.out
    BY <1>6, <1>b DEF Options!ReadStock, OptionsSweep
  <2> QED BY <2>1 DEF OptionsSeen, Options!ModifiersOf, Options!ProductKeys
\* From then on a sweep reads nothing of Omnivore.
<1>d. ASSUME sweep.pc \notin {"idle", "products", "groups", "nested"}, menu' = menu,
             sweep'.asks = sweep.asks, sweep'.calm = sweep.calm, sweep'.mods = sweep.mods,
             sweep'.nests = sweep.nests, sweep'.out = sweep.out
      PROVE  OptionsSeen'
  BY <1>d DEF OptionsSeen, Options!ModifiersOf, Options!ProductKeys
<1>7. CASE Options!WriteIngredients \/ Options!ReadRows \/ Options!CreateGroups \/ Options!Finish
  <2>1. /\ sweep.pc \notin {"idle", "products", "groups", "nested"} /\ menu' = menu
        /\ sweep'.asks = sweep.asks /\ sweep'.calm = sweep.calm /\ sweep'.mods = sweep.mods
        /\ sweep'.nests = sweep.nests /\ sweep'.out = sweep.out
    BY <1>7, <1>b DEF Options!WriteIngredients, Options!ReadRows, Options!CreateGroups, Options!Finish, OptionsSweep
  <2> QED BY <1>d, <2>1
<1>10. ASSUME NEW k \in Options!Keys, Options!UpdateGroup(k) PROVE OptionsSeen'
  <2>1. /\ sweep.pc = "created" /\ menu' = menu
        /\ sweep'.asks = sweep.asks /\ sweep'.calm = sweep.calm /\ sweep'.mods = sweep.mods
        /\ sweep'.nests = sweep.nests /\ sweep'.out = sweep.out
    BY <1>10, <1>b DEF Options!UpdateGroup, OptionsSweep
  <2> QED BY <1>d, <2>1
<1>12. CASE Options!Leave
  <2>1. sweep'.pc = "idle" BY <1>12 DEF Options!Leave, Options!Resting
  <2> QED BY <2>1 DEF OptionsSeen
<1>13. CASE UNCHANGED Options!vars
  BY <1>13 DEF Options!vars, OptionsSeen, Options!ModifiersOf, Options!ProductKeys
<1> QED BY <1>1, <1>2, <1>3, <1>4, <1>5, <1>6, <1>7, <1>10, <1>12, <1>13 DEF Options!Next

\* What a sweep is to import, and how, hangs on what it read of Omnivore.
LEMMA OptionsSame ==
  ASSUME sweep'.asks = sweep.asks, sweep'.mods = sweep.mods, sweep'.nests = sweep.nests
  PROVE  /\ Options!ToImport(sweep)' = Options!ToImport(sweep) /\ OptionsIds' = OptionsIds
         /\ \A k : /\ (Options!Imported(sweep, k).ingredients)' = Options!Imported(sweep, k).ingredients
                   /\ (Options!Imported(sweep, k).products)' = Options!Imported(sweep, k).products
                   /\ (Options!Imported(sweep, k).included)' = Options!Imported(sweep, k).included
  BY DEF Options!ToImport, OptionsIds, Options!ModifiersOf, Options!Imported, Options!Included, Options!ProductKeys,
         Options!ProductKey, Options!NestedKey

LEMMA OptionsStockedNext == OptionsTyped /\ OptionsStocked /\ [Options!Next]_(Options!vars) => OptionsStocked'
<1> SUFFICES ASSUME OptionsTyped, OptionsStocked, [Options!Next]_(Options!vars) PROVE OptionsStocked'
  OBVIOUS
<1>b. sweep \in OptionsSweep /\ ingr \in [Modifiers -> {"none", "in", "out"}] BY DEF OptionsTyped
<1>d. ASSUME sweep.pc \in {"written", "read", "created", "swept"}, ingr' = ingr, sweep'.full = sweep.full,
             sweep'.asks = sweep.asks, sweep'.mods = sweep.mods, sweep'.nests = sweep.nests, sweep'.out = sweep.out
      PROVE  OptionsStocked'
  BY <1>d, OptionsSame DEF OptionsStocked
<1>1. CASE Options!MenuChanges \/ Options!OwnerAttaches \/ UNCHANGED Options!vars
  <2>1. /\ ingr' = ingr /\ sweep'.full = sweep.full /\ sweep'.pc = sweep.pc
        /\ sweep'.asks = sweep.asks /\ sweep'.mods = sweep.mods /\ sweep'.nests = sweep.nests /\ sweep'.out = sweep.out
    BY <1>1, <1>b DEF Options!MenuChanges, Options!OwnerAttaches, Options!vars, OptionsSweep
  <2> QED BY <1>d, <2>1 DEF OptionsStocked
<1>3. CASE Options!ReadProducts \/ Options!ReadGroups \/ Options!ReadNested \/ Options!ReadStock \/ Options!Leave
  <2>1. ASSUME Options!ReadProducts \/ Options!Leave PROVE sweep'.pc \in {"idle", "products"}
    <3>1. ASSUME Options!ReadProducts PROVE sweep'.pc = "products"
      BY <3>1 DEF Options!ReadProducts, Options!Resting
    <3>2. ASSUME Options!Leave PROVE sweep'.pc = "idle" BY <3>2 DEF Options!Leave, Options!Resting
    <3> QED BY <2>1, <3>1, <3>2
  <2>2. ASSUME Options!ReadGroups \/ Options!ReadNested \/ Options!ReadStock
        PROVE  sweep'.pc \in {"groups", "nested", "stock"}
    BY <2>2, <1>b DEF Options!ReadGroups, Options!ReadNested, Options!ReadStock, OptionsSweep
  <2> QED BY <1>3, <2>1, <2>2 DEF OptionsStocked
<1>7. CASE Options!WriteIngredients
  <2>1. /\ sweep'.full = sweep.full /\ sweep'.asks = sweep.asks /\ sweep'.mods = sweep.mods
        /\ sweep'.nests = sweep.nests /\ sweep'.out = sweep.out
    BY <1>7, <1>b DEF Options!WriteIngredients, OptionsSweep
  <2> DEFINE At(m) == IF ManageStock /\ m \in sweep.out THEN "out" ELSE "in"
  <2>2. \A m \in Modifiers : ingr'[m] = CASE m \notin OptionsIds -> ingr[m]
                                          [] ingr[m] = "none" -> IF sweep.full THEN At(m) ELSE "none"
                                          [] OTHER -> IF ManageStock THEN At(m) ELSE ingr[m]
    BY <1>7 DEF Options!WriteIngredients, OptionsIds
  <2>3. ASSUME sweep.full, NEW m \in OptionsIds \cap Modifiers
        PROVE  ingr'[m] # "none" /\ (ManageStock => ingr'[m] = IF m \in sweep.out THEN "out" ELSE "in")
    BY <2>2, <2>3, <1>b
  <2> QED BY <2>1, <2>3, OptionsSame DEF OptionsStocked
<1>8. CASE Options!ReadRows \/ Options!CreateGroups \/ Options!Finish
  <2>1. /\ sweep.pc \in {"written", "read", "created", "swept"} /\ ingr' = ingr /\ sweep'.full = sweep.full
        /\ sweep'.asks = sweep.asks /\ sweep'.mods = sweep.mods /\ sweep'.nests = sweep.nests /\ sweep'.out = sweep.out
    BY <1>8, <1>b DEF Options!ReadRows, Options!CreateGroups, Options!Finish, OptionsSweep
  <2> QED BY <1>d, <2>1
<1>10. ASSUME NEW k \in Options!Keys, Options!UpdateGroup(k) PROVE OptionsStocked'
  <2>1. /\ sweep.pc = "created" /\ ingr' = ingr /\ sweep'.full = sweep.full
        /\ sweep'.asks = sweep.asks /\ sweep'.mods = sweep.mods /\ sweep'.nests = sweep.nests /\ sweep'.out = sweep.out
    BY <1>10, <1>b DEF Options!UpdateGroup, OptionsSweep
  <2> QED BY <1>d, <2>1
<1> QED BY <1>1, <1>3, <1>7, <1>8, <1>10 DEF Options!Next

\* What is written of a group to import has all that Omnivore says of it.
LEMMA OptionsTargetMatches ==
  ASSUME OptionsNone, OptionsTyped, OptionsStocked, sweep.full, sweep.pc \in {"read", "created"},
         NEW k \in Options!ToImport(sweep), k \in Options!Keys
  PROVE  OptionsMatches(Options!Target(k), k)
<1> DEFINE now == Options!Imported(sweep, k)
           Kept(f) == IF sweep.prev[k] = None THEN {} ELSE sweep.prev[k][f] \cap {Native}
           Known(S) == {m \in S : ingr[m] # "none"}
<1>1. Options!Target(k) = [ingredients |-> Known(now.ingredients) \cup Kept("ingredients"),
                           products |-> now.products \cup Kept("products"),
                           included |-> Known(now.included) \cup Kept("included")]
  BY DEF Options!Target
<1>2. now.ingredients \subseteq Modifiers /\ now.ingredients \subseteq OptionsIds
  BY DEF Options!Imported, OptionsTyped, OptionsSweep, Options!Keys, OptionsIds, Options!ModifiersOf
<1>3. now.products \subseteq Products
  BY DEF Options!Imported, OptionsTyped, OptionsSweep, OptionsAsks
<1>4. now.included \subseteq Modifiers /\ now.included \subseteq OptionsIds
  BY DEF Options!Imported, Options!Included, OptionsTyped, OptionsSweep, OptionsNests, OptionsIds
<1>5. Options!Target(k) # None BY OptionsTarget DEF OptionsNone
<1> HIDE DEF now
<1>6. Known(now.ingredients) = now.ingredients /\ Known(now.included) = now.included
  BY <1>2, <1>4 DEF OptionsStocked
<1>7. Native \notin now.ingredients \cup now.products BY <1>2, <1>3 DEF OptionsNone
<1>8. \A f : Kept(f) \subseteq {Native} OBVIOUS
<1>9. /\ Options!Target(k).ingredients = now.ingredients \cup Kept("ingredients")
      /\ Options!Target(k).products = now.products \cup Kept("products")
      /\ Options!Target(k).included = now.included \cup Kept("included")
  BY <1>1, <1>6
<1> HIDE DEF Kept, Known
<1>10. /\ (now.ingredients \cup Kept("ingredients")) \ {Native} = now.ingredients
       /\ (now.products \cup Kept("products")) \ {Native} = now.products
  BY <1>7, <1>8
<1> QED BY <1>5, <1>9, <1>10 DEF OptionsMatches, now

LEMMA OptionsDoneNext ==
  ASSUME OptionsNone
  PROVE  OptionsTyped /\ OptionsStocked /\ OptionsDone /\ [Options!Next]_(Options!vars) => OptionsDone'
<1> SUFFICES ASSUME OptionsTyped, OptionsStocked, OptionsDone, [Options!Next]_(Options!vars) PROVE OptionsDone'
  OBVIOUS
<1>b. sweep \in OptionsSweep /\ grp \in OptionsRows BY DEF OptionsTyped
<1>e. Options!ToImport(sweep) \subseteq Options!Keys
  BY DEF Options!ToImport, Options!ProductKeys, Options!ProductKey, Options!NestedKey, Options!Keys, OptionsTyped,
         OptionsSweep, OptionsAsks, OptionsNests
\* A step in which the sweep holds what it had and the groups have no less.
<1>d. ASSUME sweep'.full = sweep.full, sweep'.pc = sweep.pc, sweep'.asks = sweep.asks, sweep'.mods = sweep.mods,
             sweep'.nests = sweep.nests, sweep'.prev = sweep.prev, sweep'.todo = sweep.todo,
             \A k \in Options!Keys : grp[k] # None => OptionsAlike(grp'[k], grp[k])
      PROVE  OptionsDone'
  <2>1. ASSUME NEW k \in Options!Keys, sweep.prev[k] # None, OptionsAlike(grp[k], sweep.prev[k])
        PROVE  OptionsAlike(grp'[k], sweep'.prev[k])
    BY <1>d, <2>1 DEF OptionsAlike
  <2>2. ASSUME NEW k \in Options!Keys, OptionsMatches(grp[k], k) PROVE OptionsMatches(grp[k], k)'
    BY <1>d, <2>2, OptionsSame DEF OptionsAlike, OptionsMatches
  <2> QED BY <1>d, <1>e, <2>1, <2>2, OptionsSame DEF OptionsDone
<1>f. \A k \in Options!Keys : grp[k] # None => OptionsAlike(grp[k], grp[k]) BY DEF OptionsAlike
<1>1. CASE Options!MenuChanges \/ UNCHANGED Options!vars
  <2>1. /\ sweep'.full = sweep.full /\ sweep'.pc = sweep.pc /\ sweep'.asks = sweep.asks /\ sweep'.mods = sweep.mods
        /\ sweep'.nests = sweep.nests /\ sweep'.prev = sweep.prev /\ sweep'.todo = sweep.todo /\ grp' = grp
    BY <1>1, <1>b DEF Options!MenuChanges, Options!vars, OptionsSweep
  <2> QED BY <1>d, <1>f, <2>1
<1>2. CASE Options!OwnerAttaches
  <2>1. PICK k \in Options!Keys, f \in Options!Fields : grp[k] # None /\ grp' = [grp EXCEPT ![k][f] = @ \cup {Native}]
    BY <1>2 DEF Options!OwnerAttaches
  <2>2. grp[k] \in Options!Row BY <1>b, <2>1 DEF OptionsRows
  <2>3. /\ grp'[k] = [grp[k] EXCEPT ![f] = grp[k][f] \cup {Native}]
        /\ \A j \in Options!Keys : j # k => grp'[j] = grp[j]
    BY <1>b, <2>1 DEF OptionsRows
  <2> DEFINE r == [grp[k] EXCEPT ![f] = grp[k][f] \cup {Native}]
  <2>4. /\ r \in Options!Row /\ r.ingredients \ {Native} = grp[k].ingredients \ {Native}
        /\ r.products \ {Native} = grp[k].products \ {Native} /\ grp[k].included \subseteq r.included
    <3>1. CASE f = "ingredients" BY <2>2, <3>1 DEF Options!Row
    <3>2. CASE f = "products" BY <2>2, <3>2 DEF Options!Row
    <3>3. CASE f = "included" BY <2>2, <3>3 DEF Options!Row
    <3> QED BY <3>1, <3>2, <3>3 DEF Options!Fields
  <2>5. OptionsAlike(grp'[k], grp[k]) BY <2>3, <2>4 DEF OptionsAlike, OptionsNone
  <2>6. sweep' = sweep BY <1>2 DEF Options!OwnerAttaches
  <2> QED BY <1>d, <1>f, <2>3, <2>5, <2>6
<1>3. CASE Options!ReadProducts \/ Options!ReadGroups \/ Options!ReadNested \/ Options!ReadStock
           \/ Options!WriteIngredients \/ Options!Leave
  <2>1. ASSUME Options!ReadProducts \/ Options!Leave PROVE sweep'.pc \in {"idle", "products"}
    <3>1. ASSUME Options!ReadProducts PROVE sweep'.pc = "products"
      BY <3>1 DEF Options!ReadProducts, Options!Resting
    <3>2. ASSUME Options!Leave PROVE sweep'.pc = "idle" BY <3>2 DEF Options!Leave, Options!Resting
    <3> QED BY <2>1, <3>1, <3>2
  <2>2. ASSUME Options!ReadGroups \/ Options!ReadNested \/ Options!ReadStock \/ Options!WriteIngredients
        PROVE  sweep'.pc \in {"groups", "nested", "stock", "written"}
    BY <2>2, <1>b DEF Options!ReadGroups, Options!ReadNested, Options!ReadStock, Options!WriteIngredients, OptionsSweep
  <2> QED BY <1>3, <2>1, <2>2 DEF OptionsDone
<1>8. CASE Options!ReadRows
  <2>1. /\ sweep'.pc = "read" /\ sweep'.full = sweep.full /\ sweep'.prev = grp /\ grp' = grp
        /\ sweep'.todo = IF sweep.full THEN Options!ToImport(sweep) ELSE {}
        /\ sweep'.asks = sweep.asks /\ sweep'.mods = sweep.mods /\ sweep'.nests = sweep.nests
    BY <1>8, <1>b DEF Options!ReadRows, OptionsSweep
  <2>2. \A k \in Options!Keys : sweep'.prev[k] # None => OptionsAlike(grp'[k], sweep'.prev[k]) BY <1>f, <2>1
  <2> QED BY <2>1, <2>2, OptionsSame DEF OptionsDone
<1>9. CASE Options!CreateGroups
  <2> DEFINE new == {k \in sweep.todo : sweep.prev[k] = None}
  <2>1. /\ sweep.pc = "read" /\ sweep'.pc = "created" /\ sweep'.full = sweep.full
        /\ sweep'.todo = {k \in sweep.todo \ new : Options!Target(k) # sweep.prev[k]}
        /\ sweep'.asks = sweep.asks /\ sweep'.mods = sweep.mods /\ sweep'.nests = sweep.nests
        /\ grp' = [k \in Options!Keys |-> IF k \in new THEN Options!Target(k) ELSE grp[k]]
    BY <1>9, <1>b DEF Options!CreateGroups, OptionsSweep
  <2>2. ASSUME sweep.full, NEW k \in Options!ToImport(sweep), k \notin sweep'.todo PROVE OptionsMatches(grp[k], k)'
    <3>1. k \in Options!Keys /\ k \in sweep.todo BY <1>e, <2>1, <2>2 DEF OptionsDone
    <3>2. OptionsMatches(Options!Target(k), k) BY <2>1, <2>2, <3>1, OptionsTargetMatches
    <3>3. CASE k \in new
      <4>1. grp'[k] = Options!Target(k) BY <2>1, <3>1, <3>3
      <4> QED BY <2>1, <3>2, <4>1, OptionsSame DEF OptionsMatches
    <3>4. CASE k \notin new
      <4>1. grp'[k] = grp[k] /\ sweep.prev[k] # None /\ Options!Target(k) = sweep.prev[k]
        BY <2>1, <2>2, <3>1, <3>4
      <4>2. OptionsAlike(grp[k], sweep.prev[k]) BY <2>1, <2>2, <3>1, <4>1 DEF OptionsDone
      <4>3. OptionsMatches(grp[k], k) BY <3>2, <4>1, <4>2 DEF OptionsAlike, OptionsMatches
      <4> QED BY <2>1, <4>1, <4>3, OptionsSame DEF OptionsMatches
    <3> QED BY <3>3, <3>4
  <2> QED BY <2>1, <2>2, OptionsSame DEF OptionsDone
<1>10. ASSUME NEW k \in Options!Keys, Options!UpdateGroup(k) PROVE OptionsDone'
  <2>1. /\ sweep.pc = "created" /\ k \in sweep.todo /\ sweep'.pc = "created" /\ sweep'.full = sweep.full
        /\ sweep'.todo = sweep.todo \ {k} /\ grp' = [grp EXCEPT ![k] = Options!Target(k)]
        /\ sweep'.asks = sweep.asks /\ sweep'.mods = sweep.mods /\ sweep'.nests = sweep.nests
    BY <1>10, <1>b DEF Options!UpdateGroup, OptionsSweep
  <2>2. \A j \in Options!Keys : grp'[j] = IF j = k THEN Options!Target(k) ELSE grp[j]
    BY <1>b, <2>1 DEF OptionsRows
  <2>3. ASSUME sweep.full, NEW j \in Options!ToImport(sweep), j \notin sweep'.todo PROVE OptionsMatches(grp[j], j)'
    <3>1. CASE j = k
      <4>1. OptionsMatches(Options!Target(k), k) BY <2>1, <2>3, <3>1, OptionsTargetMatches
      <4> QED BY <2>1, <2>2, <3>1, <4>1, OptionsSame DEF OptionsMatches
    <3>2. CASE j # k
      <4>1. OptionsMatches(grp[j], j) BY <2>1, <2>3, <3>2 DEF OptionsDone
      <4> QED BY <1>e, <2>1, <2>2, <3>2, <4>1, OptionsSame DEF OptionsMatches
    <3> QED BY <3>1, <3>2
  <2> QED BY <2>1, <2>3, OptionsSame DEF OptionsDone
<1>11. CASE Options!Finish
  <2>1. /\ sweep.pc = "created" /\ sweep.todo = {} /\ sweep'.pc = "swept" /\ sweep'.full = sweep.full /\ grp' = grp
        /\ sweep'.asks = sweep.asks /\ sweep'.mods = sweep.mods /\ sweep'.nests = sweep.nests
    BY <1>11, <1>b DEF Options!Finish, OptionsSweep
  <2>2. ASSUME sweep.full, NEW k \in Options!ToImport(sweep) PROVE OptionsMatches(grp[k], k)'
    <3>1. OptionsMatches(grp[k], k) BY <2>1, <2>2 DEF OptionsDone
    <3> QED BY <2>1, <3>1, OptionsSame DEF OptionsMatches
  <2> QED BY <2>1, <2>2, OptionsSame DEF OptionsDone
<1> QED BY <1>1, <1>2, <1>3, <1>8, <1>9, <1>10, <1>11 DEF Options!Next

LEMMA OptionsMirror ==
  ASSUME OptionsTyped, OptionsSeen, OptionsStocked, OptionsDone PROVE Options!GroupsMirrored
<1> SUFFICES ASSUME sweep.pc = "swept", sweep.full, sweep.calm PROVE Options!GroupsMirrored
  BY DEF Options!GroupsMirrored
<1> DEFINE reached == Options!ModifiersOf(menu.mods, Options!ProductKeys(menu.asks))
<1>1. /\ sweep.asks = menu.asks /\ sweep.mods = menu.mods /\ sweep.out = menu.out
      /\ sweep.nests = {q \in menu.nests : q[1] \in reached}
  BY DEF OptionsSeen
<1>2. \A k \in Options!ToImport(sweep) : OptionsMatches(grp[k], k) BY DEF OptionsDone
<1>3. ASSUME NEW q \in menu.asks
      PROVE  LET k == Options!ProductKey(q)
             IN /\ grp[k] # None /\ grp[k].ingredients \ {Native} = menu.mods[q[2]]
                /\ grp[k].products \ {Native} = {r[1] : r \in {s \in menu.asks : Options!ProductKey(s) = k}}
  <2>1. Options!ProductKey(q) \in Options!ToImport(sweep)
    BY <1>1 DEF Options!ToImport, Options!ProductKeys
  <2>2. Options!ProductKey(q)[1] = q[2] BY DEF Options!ProductKey
  <2> QED BY <1>1, <1>2, <2>1, <2>2 DEF OptionsMatches, Options!Imported
<1>4. ASSUME NEW q \in menu.nests, q[1] \in reached
      PROVE  grp[Options!NestedKey(q)] # None /\ q[1] \in grp[Options!NestedKey(q)].included
  <2>1. q \in sweep.nests BY <1>1, <1>4
  <2>2. Options!NestedKey(q) \in Options!ToImport(sweep) BY <2>1 DEF Options!ToImport
  <2>3. Options!NestedKey(q)[1] = q[2] BY DEF Options!NestedKey
  <2>4. q[1] \in Options!Included(sweep, Options!NestedKey(q)) BY <2>1, <2>3 DEF Options!Included
  <2>5. Options!Imported(sweep, Options!NestedKey(q)).included = Options!Included(sweep, Options!NestedKey(q))
    BY DEF Options!Imported
  <2> QED BY <1>2, <2>2, <2>4, <2>5 DEF OptionsMatches
<1>5. ASSUME ManageStock, NEW m \in reached PROVE ingr[m] = IF m \in menu.out THEN "out" ELSE "in"
  <2>1. m \in OptionsIds BY <1>1 DEF OptionsIds, Options!ModifiersOf, Options!ToImport
  <2>2. m \in Modifiers
    BY DEF Options!ModifiersOf, Options!ProductKeys, Options!ProductKey, OptionsTyped, OptionsMenu, OptionsAsks
  <2> QED BY <1>1, <1>5, <2>1, <2>2 DEF OptionsStocked
<1> QED BY <1>3, <1>4, <1>5 DEF Options!GroupsMirrored

\* ingredients-helper.ts: after a full sweep nobody disturbed, what Omnivore offers with a
\* product or a modifier is offered with it, and in stock as Omnivore has it.
THEOREM GroupsAreMirrored == ASSUME OptionsNone PROVE Options!Spec => []Options!GroupsMirrored
<1>1. Options!Init => OptionsSeen /\ OptionsStocked /\ OptionsDone
  BY DEF Options!Init, Options!Resting, OptionsSeen, OptionsStocked, OptionsDone
<1>2. OptionsTyped /\ OptionsSeen /\ [Options!Next]_(Options!vars) => OptionsSeen' BY OptionsSeenNext
<1>3. OptionsTyped /\ OptionsStocked /\ [Options!Next]_(Options!vars) => OptionsStocked' BY OptionsStockedNext
<1>4. OptionsTyped /\ OptionsStocked /\ OptionsDone /\ [Options!Next]_(Options!vars) => OptionsDone'
  BY OptionsDoneNext
<1>5. OptionsTyped /\ OptionsSeen /\ OptionsStocked /\ OptionsDone => Options!GroupsMirrored BY OptionsMirror
<1> QED BY <1>1, <1>2, <1>3, <1>4, <1>5, OptionsAlwaysTyped, PTL DEF Options!Spec

---------------------------------------------------------------------------
(* RosterMulti.  What a pull read of a row is the row's until it writes,   *)
(* but for who is admin.                                                   *)

\* No row and no entry of a list is the absence of one.
RostersNone == None \notin Rosters!Row \cup [who : People, boss : BOOLEAN]

RostersPull == [pc : {"idle", "asking", "read", "pulled"}, of : [Locations -> {"asked", "answered", "failed"}],
                got : [Locations -> [Pins -> Rosters!Entry]], rows : [Pins -> Rosters!Row \cup {None}]]
RostersTyped ==
  /\ staff \in [Locations -> [Pins -> Rosters!Entry]]
  /\ row \in [Pins -> Rosters!Row \cup {None}]
  /\ pull \in RostersPull
  /\ admins \subseteq Pins /\ used \subseteq Rosters!Kinds

\* Whom the rows read have where.
RostersKept ==
  /\ pull.pc = "read" => \A n \in Pins : pull.rows[n] # None =>
       row[n] # None /\ row[n].holders = pull.rows[n].holders
  /\ Rosters!NobodyLosesALocation

\* Who was made admin is, in the row and in what a pull read of it.
RostersAdmins ==
  "late" \notin used => \A n \in admins :
    /\ row[n] # None /\ row[n].role = "admin"
    /\ pull.pc = "read" => pull.rows[n] # None /\ pull.rows[n].role = "admin"

LEMMA RostersTypedInit == Rosters!Init => RostersTyped
<1> SUFFICES ASSUME Rosters!Init PROVE RostersTyped OBVIOUS
<1>1. staff \in [Locations -> [Pins -> Rosters!Entry]]
  <2>1. [who : People, boss : {TRUE}] \subseteq Rosters!Entry BY DEF Rosters!Entry
  <2>2. staff \in [Locations -> [Pins -> [who : People, boss : {TRUE}]]] BY DEF Rosters!Init
  <2>3. ASSUME NEW l \in Locations, NEW n \in Pins PROVE staff[l][n] \in Rosters!Entry
    BY <2>1, <2>2
  <2>4. \A l \in Locations : staff[l] \in [Pins -> Rosters!Entry] BY <2>2, <2>3
  <2> QED BY <2>2, <2>4
<1>2. pull \in RostersPull BY DEF Rosters!Init, Rosters!Resting, RostersPull, Rosters!Entry
<1> QED BY <1>1, <1>2 DEF Rosters!Init, RostersTyped

LEMMA RostersHolders ==
  ASSUME RostersTyped, NEW n \in Pins
  PROVE  Rosters!Holders(pull.rows, n) \in [Locations -> Rosters!Entry]
  BY DEF RostersTyped, RostersPull, Rosters!Holders, Rosters!Row, Rosters!Entry

LEMMA RostersMerged ==
  ASSUME NEW h \in [Locations -> Rosters!Entry], NEW prev
  PROVE  /\ Rosters!Merged(h, prev) \in Rosters!Row
         /\ Rosters!Merged(h, prev).holders = h
         /\ prev # None /\ prev.role = "admin" => Rosters!Merged(h, prev).role = "admin"
  BY DEF Rosters!Merged, Rosters!Row

LEMMA RostersTypedNext ==
  ASSUME RostersNone PROVE RostersTyped /\ [Rosters!Next]_(Rosters!vars) => RostersTyped'
<1> SUFFICES ASSUME RostersTyped, [Rosters!Next]_(Rosters!vars) PROVE RostersTyped'
  OBVIOUS
<1> USE DEF RostersTyped, RostersPull
<1>1. CASE Rosters!RosterChanges
  <2>1. PICK l \in Locations, n \in Pins :
          \/ /\ Rosters!Happens("hire") \/ Rosters!Happens("hire2")
             /\ \E p \in People, b \in BOOLEAN : /\ staff[l][n] = None
                                                 /\ staff' = [staff EXCEPT ![l][n] = [who |-> p, boss |-> b]]
          \/ staff[l][n] # None /\ Rosters!Happens("leave") /\ staff' = [staff EXCEPT ![l][n] = None]
          \/ staff[l][n] # None /\ staff[l][n].boss /\ Rosters!Happens("demote")
             /\ staff' = [staff EXCEPT ![l][n].boss = FALSE]
          \/ staff[l][n] # None /\ ~staff[l][n].boss /\ Rosters!Happens("promote")
             /\ staff' = [staff EXCEPT ![l][n].boss = TRUE]
    BY <1>1 DEF Rosters!RosterChanges
  <2>2. PICK e \in Rosters!Entry : staff' = [staff EXCEPT ![l][n] = e]
    <3>1. staff[l][n] \in Rosters!Entry OBVIOUS
    <3>2. staff[l][n] # None => /\ [staff[l][n] EXCEPT !.boss = FALSE] \in Rosters!Entry
                                /\ [staff[l][n] EXCEPT !.boss = TRUE] \in Rosters!Entry
      BY <3>1 DEF Rosters!Entry
    <3>3. \A p \in People, b \in BOOLEAN : [who |-> p, boss |-> b] \in Rosters!Entry BY DEF Rosters!Entry
    <3>4. None \in Rosters!Entry BY DEF Rosters!Entry
    <3> QED BY <2>1, <3>2, <3>3, <3>4
  <2>3. staff' \in [Locations -> [Pins -> Rosters!Entry]] BY <2>2
  <2> QED BY <1>1, <2>3 DEF Rosters!RosterChanges, Rosters!Happens
<1>2. CASE Rosters!OwnerMakesAdmin
  <2>1. PICK n \in Pins : row[n] # None /\ row' = [row EXCEPT ![n].role = "admin"] /\ admins' = admins \cup {n}
    BY <1>2 DEF Rosters!OwnerMakesAdmin
  <2>2. [row[n] EXCEPT !.role = "admin"] \in Rosters!Row BY <2>1 DEF Rosters!Row
  <2>3. row' \in [Pins -> Rosters!Row \cup {None}] BY <2>1, <2>2
  <2> QED BY <1>2, <2>1, <2>3 DEF Rosters!OwnerMakesAdmin, Rosters!Happens
<1>3. CASE Rosters!Begin BY <1>3 DEF Rosters!Begin, Rosters!Resting, Rosters!Entry
<1>4. ASSUME NEW l \in Locations, Rosters!Answer(l) PROVE RostersTyped'
  <2>1. \/ pull' = [pull EXCEPT !.of[l] = "answered", !.got[l] = staff[l]]
        \/ pull' = [pull EXCEPT !.of[l] = "failed"]
    BY <1>4 DEF Rosters!Answer
  <2>2. /\ \A x \in {"answered", "failed"} : [pull.of EXCEPT ![l] = x] \in [Locations -> {"asked", "answered", "failed"}]
        /\ [pull.got EXCEPT ![l] = staff[l]] \in [Locations -> [Pins -> Rosters!Entry]]
    OBVIOUS
  <2>3. \/ pull' = [pull EXCEPT !.of = [pull.of EXCEPT ![l] = "answered"], !.got = [pull.got EXCEPT ![l] = staff[l]]]
        \/ pull' = [pull EXCEPT !.of = [pull.of EXCEPT ![l] = "failed"]]
    BY <2>1
  <2>4. pull' \in RostersPull BY <2>2, <2>3
  <2> QED BY <1>4, <2>4 DEF Rosters!Answer, Rosters!Happens
<1>5. CASE Rosters!ReadRows
  <2>1. Rosters!Resting \in RostersPull BY DEF Rosters!Resting, Rosters!Entry
  <2>2. [pull EXCEPT !.pc = "read", !.rows = row] \in RostersPull OBVIOUS
  <2> QED BY <1>5, <2>1, <2>2 DEF Rosters!ReadRows
<1>6. CASE Rosters!Upsert
  <2>1. row' \in [Pins -> Rosters!Row \cup {None}]
    BY <1>6, RostersHolders, RostersMerged DEF Rosters!Upsert
  <2> QED BY <1>6, <2>1 DEF Rosters!Upsert
<1>7. CASE Rosters!Leave BY <1>7 DEF Rosters!Leave, Rosters!Resting, Rosters!Entry, Rosters!Happens
<1>8. CASE UNCHANGED Rosters!vars BY <1>8 DEF Rosters!vars
<1> QED BY <1>1, <1>2, <1>3, <1>4, <1>5, <1>6, <1>7, <1>8 DEF Rosters!Next

LEMMA RostersAlwaysTyped == ASSUME RostersNone PROVE Rosters!Spec => []RostersTyped
  BY RostersTypedInit, RostersTypedNext, PTL DEF Rosters!Spec

LEMMA RostersKeptNext ==
  ASSUME RostersNone PROVE RostersTyped /\ RostersKept /\ [Rosters!Next]_(Rosters!vars) => RostersKept'
<1> SUFFICES ASSUME RostersTyped, RostersKept, [Rosters!Next]_(Rosters!vars) PROVE RostersKept'
  OBVIOUS
<1> USE DEF RostersKept, Rosters!NobodyLosesALocation, Rosters!Failed
<1>1. CASE Rosters!RosterChanges BY <1>1 DEF Rosters!RosterChanges
<1>2. CASE Rosters!OwnerMakesAdmin
  <2>1. PICK n \in Pins : row[n] # None /\ row' = [row EXCEPT ![n].role = "admin"]
    BY <1>2 DEF Rosters!OwnerMakesAdmin
  <2>2. \A m \in Pins : row[m] # None => row'[m] # None /\ row'[m].holders = row[m].holders
    <3>1. row \in [Pins -> Rosters!Row \cup {None}] BY DEF RostersTyped
    <3>2. row[n] \in Rosters!Row /\ row'[n] = [row[n] EXCEPT !.role = "admin"] BY <2>1, <3>1
    <3>3. row'[n] \in Rosters!Row /\ row'[n].holders = row[n].holders BY <3>2 DEF Rosters!Row
    <3>4. \A m \in Pins \ {n} : row'[m] = row[m] BY <2>1, <3>1
    <3> QED BY <3>3, <3>4 DEF RostersNone
  <2>3. pull' = pull BY <1>2 DEF Rosters!OwnerMakesAdmin
  <2>4. \A m \in Pins : row[m] = None => row'[m] = None BY <2>1 DEF RostersTyped
  <2>5. pull.pc = "pulled" => \A m \in Pins, l \in Rosters!Failed :
          pull.rows[m] # None /\ pull.rows[m].holders[l] # None => row[m] # None \/ row'[m] = row[m]
    BY <2>4
  <2> QED BY <2>2, <2>3, <2>5
<1>3. CASE Rosters!Begin BY <1>3 DEF Rosters!Begin, Rosters!Resting
<1>4. ASSUME NEW l \in Locations, Rosters!Answer(l) PROVE RostersKept'
  BY <1>4 DEF Rosters!Answer, RostersTyped, RostersPull
<1>5. CASE Rosters!ReadRows BY <1>5 DEF Rosters!ReadRows, Rosters!Resting, RostersTyped, RostersPull
<1>6. CASE Rosters!Upsert
  <2>1. pull' = [pull EXCEPT !.pc = "pulled"] /\ pull.pc = "read" BY <1>6 DEF Rosters!Upsert
  <2>2. pull'.pc = "pulled" /\ pull'.rows = pull.rows /\ pull'.of = pull.of BY <2>1 DEF RostersTyped, RostersPull
  <2>3. ASSUME NEW n \in Pins, NEW l \in Locations, pull.of[l] = "failed", pull.rows[n] # None,
               pull.rows[n].holders[l] # None
        PROVE  row'[n].holders[l] = pull.rows[n].holders[l]
    <3> DEFINE h == Rosters!Holders(pull.rows, n)
    <3>1. h[l] = pull.rows[n].holders[l] BY <2>3 DEF Rosters!Holders
    <3>2. Rosters!Held(h) # {} BY <2>3, <3>1 DEF Rosters!Held
    <3>3. Rosters!Merged(h, pull.rows[n]).holders = h BY RostersHolders, RostersMerged
    <3>4. row'[n] = IF Rosters!Merged(h, pull.rows[n]) # pull.rows[n] THEN Rosters!Merged(h, pull.rows[n]) ELSE row[n]
      BY <1>6, <3>2 DEF Rosters!Upsert
    <3>5. row[n].holders = pull.rows[n].holders BY <2>1, <2>3
    <3> QED BY <3>1, <3>3, <3>4, <3>5
  <2> QED BY <2>2, <2>3
<1>7. CASE Rosters!Leave BY <1>7 DEF Rosters!Leave, Rosters!Resting
<1>8. CASE UNCHANGED Rosters!vars BY <1>8 DEF Rosters!vars
<1> QED BY <1>1, <1>2, <1>3, <1>4, <1>5, <1>6, <1>7, <1>8 DEF Rosters!Next

\* employees-multi.ts: a location that did not answer takes nobody's place away.
THEOREM NobodyIsLost == ASSUME RostersNone PROVE Rosters!Spec => []Rosters!NobodyLosesALocation
<1>1. Rosters!Init => RostersKept
  BY DEF Rosters!Init, Rosters!Resting, RostersKept, Rosters!NobodyLosesALocation
<1>2. RostersTyped /\ RostersKept /\ [Rosters!Next]_(Rosters!vars) => RostersKept' BY RostersKeptNext
<1>3. RostersKept => Rosters!NobodyLosesALocation BY DEF RostersKept
<1> QED BY <1>1, <1>2, <1>3, RostersAlwaysTyped, PTL DEF Rosters!Spec

LEMMA RostersAdminsNext ==
  ASSUME RostersNone PROVE RostersTyped /\ RostersAdmins /\ [Rosters!Next]_(Rosters!vars) => RostersAdmins'
<1> SUFFICES ASSUME RostersTyped, RostersAdmins, [Rosters!Next]_(Rosters!vars), "late" \notin used'
             PROVE  RostersAdmins'
  BY DEF RostersAdmins
<1>a. used \subseteq used'
  BY DEF Rosters!Next, Rosters!vars, Rosters!RosterChanges, Rosters!OwnerMakesAdmin, Rosters!Begin, Rosters!Answer,
         Rosters!ReadRows, Rosters!Upsert, Rosters!Leave, Rosters!Happens
<1>b. \A n \in admins : /\ row[n] # None /\ row[n].role = "admin" /\ n \in Pins
                        /\ pull.pc = "read" => pull.rows[n] # None /\ pull.rows[n].role = "admin"
  BY <1>a DEF RostersAdmins, RostersTyped
<1>1. CASE Rosters!RosterChanges BY <1>1, <1>b DEF Rosters!RosterChanges, RostersAdmins
<1>2. CASE Rosters!OwnerMakesAdmin
  <2>1. PICK n \in Pins : row[n] # None /\ row' = [row EXCEPT ![n].role = "admin"] /\ admins' = admins \cup {n}
                          /\ pull.pc # "read"
    BY <1>2 DEF Rosters!OwnerMakesAdmin, Rosters!Happens
  <2>2. row \in [Pins -> Rosters!Row \cup {None}] /\ row[n] \in Rosters!Row BY <2>1 DEF RostersTyped
  <2>3. row'[n] \in Rosters!Row /\ row'[n].role = "admin" BY <2>1, <2>2 DEF Rosters!Row
  <2>4. \A m \in Pins \ {n} : row'[m] = row[m] BY <2>1, <2>2
  <2>5. pull' = pull BY <1>2 DEF Rosters!OwnerMakesAdmin
  <2> QED BY <1>b, <2>1, <2>3, <2>4, <2>5 DEF RostersAdmins, RostersNone
<1>3. CASE Rosters!Begin BY <1>3, <1>b DEF Rosters!Begin, Rosters!Resting, RostersAdmins
<1>4. ASSUME NEW l \in Locations, Rosters!Answer(l) PROVE RostersAdmins'
  BY <1>4, <1>b DEF Rosters!Answer, RostersAdmins, RostersTyped, RostersPull
<1>5. CASE Rosters!ReadRows
  BY <1>5, <1>b DEF Rosters!ReadRows, Rosters!Resting, RostersAdmins, RostersTyped, RostersPull
<1>6. CASE Rosters!Upsert
  <2>1. pull'.pc = "pulled" /\ pull.pc = "read" /\ admins' = admins
    BY <1>6 DEF Rosters!Upsert, RostersTyped, RostersPull
  <2>2. ASSUME NEW n \in admins PROVE row'[n] # None /\ row'[n].role = "admin"
    <3> DEFINE new == Rosters!Merged(Rosters!Holders(pull.rows, n), pull.rows[n])
    <3>1. new \in Rosters!Row /\ new.role = "admin" BY <1>b, <2>1, RostersHolders, RostersMerged
    <3>2. row'[n] \in {new, row[n]} BY <1>6, <1>b DEF Rosters!Upsert
    <3> QED BY <1>b, <3>1, <3>2 DEF RostersNone
  <2> QED BY <2>1, <2>2 DEF RostersAdmins
<1>7. CASE Rosters!Leave BY <1>7, <1>b DEF Rosters!Leave, Rosters!Resting, RostersAdmins
<1>8. CASE UNCHANGED Rosters!vars BY <1>8, <1>b DEF Rosters!vars, RostersAdmins
<1> QED BY <1>1, <1>2, <1>3, <1>4, <1>5, <1>6, <1>7, <1>8 DEF Rosters!Next

\* employees-multi.ts: the owner's admin is not demoted by a pull.
THEOREM AdminStaysAdmin == ASSUME RostersNone PROVE Rosters!Spec => []Rosters!AdminStays
<1>1. Rosters!Init => RostersAdmins BY DEF Rosters!Init, RostersAdmins
<1>2. RostersTyped /\ RostersAdmins /\ [Rosters!Next]_(Rosters!vars) => RostersAdmins' BY RostersAdminsNext
<1>3. RostersAdmins => Rosters!AdminStays BY DEF RostersAdmins, Rosters!AdminStays
<1> QED BY <1>1, <1>2, <1>3, RostersAlwaysTyped, PTL DEF Rosters!Spec

\* A merged row that opens as a manager for somebody unlike the holder in the first
\* location is of managers only.
RostersFair(r) ==
  /\ r.role = "manager"
  /\ \E l \in Rosters!Held(r.holders) : ~Rosters!Same(r.holders[l].who, r.holders[Rosters!First(r.holders)].who)
  => \A l \in Rosters!Held(r.holders) : r.holders[l].boss

LEMMA RostersMergedFair ==
  ASSUME NEW h, NEW prev PROVE RostersFair(Rosters!Merged(h, prev))
<1> DEFINE same == \A l \in Rosters!Held(h) : Rosters!Same(h[l].who, h[Rosters!First(h)].who)
           new  == Rosters!Merged(h, prev)
<1>1. new.holders = h /\ (new.role = "manager" /\ ~same => \A l \in Rosters!Held(h) : h[l].boss)
  BY DEF Rosters!Merged
<1> QED BY <1>1 DEF RostersFair

LEMMA RostersFairNext ==
  ASSUME RostersNone
  PROVE  RostersTyped /\ Rosters!SharedPinIsNoManager /\ [Rosters!Next]_(Rosters!vars)
         => Rosters!SharedPinIsNoManager'
<1> SUFFICES ASSUME RostersTyped, Rosters!SharedPinIsNoManager, [Rosters!Next]_(Rosters!vars)
             PROVE  \A n \in Pins : row'[n] # None => RostersFair(row'[n])
  BY DEF Rosters!SharedPinIsNoManager, RostersFair, Rosters!Held
<1>a. \A n \in Pins : row[n] # None => RostersFair(row[n])
  BY DEF Rosters!SharedPinIsNoManager, RostersFair
<1>1. CASE Rosters!OwnerMakesAdmin
  <2>1. PICK n \in Pins : row[n] # None /\ row' = [row EXCEPT ![n].role = "admin"]
    BY <1>1 DEF Rosters!OwnerMakesAdmin
  <2>2. row \in [Pins -> Rosters!Row \cup {None}] /\ row[n] \in Rosters!Row BY <2>1 DEF RostersTyped
  <2>3. row'[n].role = "admin" BY <2>1, <2>2 DEF Rosters!Row
  <2>4. \A m \in Pins \ {n} : row'[m] = row[m] BY <2>1, <2>2
  <2> QED BY <1>a, <2>3, <2>4 DEF RostersFair
<1>2. CASE Rosters!Upsert
  <2>1. ASSUME NEW n \in Pins
        PROVE  row'[n] \in {Rosters!Merged(Rosters!Holders(pull.rows, n), pull.rows[n]), row[n]}
    BY <1>2 DEF Rosters!Upsert
  <2> QED BY <1>a, <2>1, RostersHolders, RostersMergedFair
<1>3. CASE row' = row BY <1>3, <1>a
<1> QED BY <1>1, <1>2, <1>3
     DEF Rosters!Next, Rosters!vars, Rosters!RosterChanges, Rosters!Begin, Rosters!Answer, Rosters!ReadRows, Rosters!Leave

\* employees-multi.ts: a PIN shared with somebody whose name does not pass for that of
\* its holder in the first location opens as a manager only if each holder is one,
\* whatever names pass for whose.
THEOREM SharedPinsAreFair ==
  ASSUME RostersNone PROVE Rosters!Spec => []Rosters!SharedPinIsNoManager
<1>1. Rosters!Init => Rosters!SharedPinIsNoManager BY DEF Rosters!Init, Rosters!SharedPinIsNoManager
<1> QED BY <1>1, RostersFairNext, RostersAlwaysTyped, PTL DEF Rosters!Spec

---------------------------------------------------------------------------
(* AutoSettle.  The push holds a turn only between its claim and its       *)
(* release, and says that a terminal is overdue before it takes the turn.  *)

\* The absence of a claim, of a word and of a terminal is none of them.
SettleNone == /\ OverdueAfter \in Nat
              /\ None \notin Devices \cup {"push", "pull", "offline", "overdue", "failed"}

SettleSaid  == [Devices -> {None, "offline", "overdue", "failed"}]
SettleTries == [Devices -> 0 .. OverdueAfter]
SettleSweep == [pc : {"idle", "due", "seen", "turns", "claim", "dispatch", "release", "swept"},
                due : SUBSET Devices, stale : SUBSET Devices, fresh : SUBSET Devices,
                said : SettleSaid \cup {None}, tries : SettleTries \cup {None},
                at : Devices \cup {None}, watch : SUBSET Devices]
SettleWalking == {"turns", "claim", "dispatch", "release"}
SettleTyped ==
  /\ open \in [Devices -> BOOLEAN] /\ on \in [Devices -> BOOLEAN]
  /\ seen \in [Devices -> BOOLEAN] /\ settling \in [Devices -> BOOLEAN]
  /\ stamp \in [Devices -> {None, "push", "pull"}]
  /\ tries \in SettleTries /\ said \in SettleSaid
  /\ sweep \in SettleSweep
  /\ sweep.pc \in {"claim", "dispatch", "release"} => sweep.at \in Devices
  /\ sweep.pc \in SettleWalking => sweep.said \in SettleSaid /\ sweep.tries \in SettleTries
  /\ excused \subseteq Devices /\ used \subseteq Settle!Kinds

\* Whoever the push claimed and is still due is the one it waits for.
SettleTurns ==
  \A d \in Devices : open[d] /\ stamp[d] = "push" /\ d \notin excused =>
    sweep.at = d /\ sweep.pc \in {"dispatch", "release"}

\* Of a terminal that the sweep read and has not settled since, what was said when
\* it read still is; and if it was overdue, its turn is to come or it was said.
SettleShown ==
  /\ sweep.pc \in {"seen", "idle", "due"} => sweep.watch = {}
  /\ sweep.pc = "swept" => sweep.fresh = {}
  /\ "unwritten" \notin used /\ sweep.pc \in SettleWalking \cup {"swept"} =>
       \A d \in sweep.watch :
         /\ sweep.said[d] # None => said[d] # None
         /\ sweep.tries[d] >= OverdueAfter => d \in sweep.fresh \/ said[d] # None

LEMMA SettleTypedInit == ASSUME SettleNone PROVE Settle!Init => SettleTyped
  BY DEF SettleNone, Settle!Init, Settle!Resting, SettleTyped, SettleSweep, SettleSaid, SettleTries, SettleWalking

LEMMA SettleClaimTyped ==
  ASSUME SettleNone, SettleTyped, NEW d \in Devices, NEW by \in {"push", "pull"}, Settle!Claim(d, by)
  PROVE  stamp' \in [Devices -> {None, "push", "pull"}] /\ tries' \in SettleTries
  BY DEF SettleNone, SettleTyped, SettleTries, Settle!Claim

LEMMA SettleSettleTyped ==
  ASSUME SettleNone, SettleTyped, NEW d \in Devices, Settle!Settle(d)
  PROVE  /\ open' \in [Devices -> BOOLEAN] /\ tries' \in SettleTries /\ said' \in SettleSaid
         /\ excused' \subseteq Devices
  BY DEF SettleNone, SettleTyped, SettleTries, SettleSaid, Settle!Settle

LEMMA SettleSayTyped ==
  ASSUME SettleTyped, NEW d \in Devices, NEW what \in {"offline", "overdue"}, Settle!Say(d, what)
  PROVE  said' \in SettleSaid /\ used' \subseteq Settle!Kinds
  BY DEF SettleTyped, SettleSaid, Settle!Say, Settle!Happens

LEMMA SettleTypedNext == ASSUME SettleNone PROVE SettleTyped /\ [Settle!Next]_(Settle!vars) => SettleTyped'
<1> SUFFICES ASSUME SettleTyped, [Settle!Next]_(Settle!vars) PROVE SettleTyped'
  OBVIOUS
<1>1. ASSUME NEW d \in Devices, Settle!Power(d) PROVE SettleTyped'
  BY <1>1 DEF Settle!Power, SettleTyped
<1>2. ASSUME NEW d \in Devices, Settle!Heartbeat(d) PROVE SettleTyped'
  <2>1. stamp' \in [Devices -> {None, "push", "pull"}] /\ tries' \in SettleTries
    BY <1>2, SettleClaimTyped DEF Settle!Heartbeat, SettleTyped
  <2> QED BY <1>2, <2>1 DEF Settle!Heartbeat, SettleTyped
<1>3. ASSUME NEW d \in Devices, Settle!SettleEnds(d) PROVE SettleTyped'
  <2>1. /\ open' \in [Devices -> BOOLEAN] /\ tries' \in SettleTries /\ said' \in SettleSaid
        /\ excused' \subseteq Devices
    BY <1>3, SettleSettleTyped DEF Settle!SettleEnds, SettleTyped
  <2>2. sweep' = sweep \/ sweep' = [sweep EXCEPT !.watch = sweep.watch \ {d}]
    BY <1>3 DEF Settle!SettleEnds
  <2>3. /\ sweep' \in SettleSweep /\ sweep'.pc = sweep.pc /\ sweep'.at = sweep.at /\ sweep'.said = sweep.said
        /\ sweep'.tries = sweep.tries
    BY <2>2 DEF SettleTyped, SettleSweep
  <2> QED BY <1>3, <2>1, <2>3 DEF Settle!SettleEnds, SettleTyped
<1>4. ASSUME NEW d \in Devices, Settle!TimePasses(d) PROVE SettleTyped'
  BY <1>4 DEF Settle!TimePasses, SettleTyped
<1>5. CASE Settle!ReadDue
  BY <1>5 DEF Settle!ReadDue, Settle!Resting, SettleTyped, SettleSweep, SettleSaid, SettleTries, SettleWalking
<1>6. CASE Settle!Partition
  BY <1>6 DEF Settle!Partition, SettleTyped, SettleSweep, SettleWalking
<1>7. CASE Settle!ReadConfig
  <2>1. PICK s \in SettleSaid, t \in SettleTries, w \in SUBSET Devices :
          sweep' = [sweep EXCEPT !.pc = "turns", !.said = s, !.tries = t, !.watch = w]
    <3>1. [d \in Devices |-> None] \in SettleSaid /\ [d \in Devices |-> 0] \in SettleTries
      BY DEF SettleSaid, SettleTries, SettleNone
    <3>3. sweep.watch \in SUBSET Devices /\ sweep.fresh \in SUBSET Devices BY DEF SettleTyped, SettleSweep
    <3>4. CASE sweep' = [sweep EXCEPT !.pc = "turns", !.said = said, !.tries = tries, !.watch = sweep.fresh]
      BY <3>3, <3>4 DEF SettleTyped
    <3>5. CASE sweep' = [sweep EXCEPT !.pc = "turns", !.said = [d \in Devices |-> None],
                                      !.tries = [d \in Devices |-> 0]]
      <4>1. sweep' = [sweep EXCEPT !.pc = "turns", !.said = [d \in Devices |-> None],
                                   !.tries = [d \in Devices |-> 0], !.watch = sweep.watch]
        BY <3>5 DEF SettleTyped, SettleSweep
      <4> QED BY <3>1, <3>3, <4>1
    <3> QED BY <1>7, <3>4, <3>5 DEF Settle!ReadConfig
  <2>2. sweep' \in SettleSweep /\ sweep'.pc = "turns" /\ sweep'.said \in SettleSaid /\ sweep'.tries \in SettleTries
    BY <2>1 DEF SettleTyped, SettleSweep
  <2> QED BY <1>7, <2>2 DEF Settle!ReadConfig, Settle!Happens, SettleTyped
<1>8. CASE Settle!MarkOffline
  <2>1. PICK d \in sweep.stale : Settle!Say(d, "offline") /\ sweep' = [sweep EXCEPT !.stale = sweep.stale \ {d}]
    BY <1>8 DEF Settle!MarkOffline
  <2>2. said' \in SettleSaid /\ used' \subseteq Settle!Kinds
    BY <2>1, SettleSayTyped DEF SettleTyped, SettleSweep
  <2>3. /\ sweep' \in SettleSweep /\ sweep'.pc = sweep.pc /\ sweep'.at = sweep.at /\ sweep'.said = sweep.said
        /\ sweep'.tries = sweep.tries
    BY <2>1 DEF SettleTyped, SettleSweep
  <2> QED BY <1>8, <2>2, <2>3 DEF Settle!MarkOffline, SettleTyped
<1>9. CASE Settle!TakeTurn
  <2>1. PICK d \in sweep.fresh :
          /\ IF sweep.tries[d] >= OverdueAfter THEN Settle!Say(d, "overdue") ELSE UNCHANGED <<said, used>>
          /\ sweep' = [sweep EXCEPT !.pc = "claim", !.at = d, !.fresh = sweep.fresh \ {d}]
    BY <1>9 DEF Settle!TakeTurn
  <2>2. said' \in SettleSaid /\ used' \subseteq Settle!Kinds
    BY <2>1, SettleSayTyped DEF SettleTyped, SettleSweep
  <2>3. /\ sweep' \in SettleSweep /\ sweep'.pc = "claim" /\ sweep'.at \in Devices /\ sweep'.said = sweep.said
        /\ sweep'.tries = sweep.tries /\ sweep.pc = "turns"
    BY <1>9, <2>1 DEF Settle!TakeTurn, SettleTyped, SettleSweep
  <2> QED BY <1>9, <2>2, <2>3 DEF Settle!TakeTurn, SettleTyped, SettleWalking
<1>10. CASE Settle!ClaimDue
  <2>1. stamp' \in [Devices -> {None, "push", "pull"}] /\ tries' \in SettleTries
    BY <1>10, SettleClaimTyped DEF Settle!ClaimDue, SettleTyped
  <2>2. sweep' = [sweep EXCEPT !.pc = "dispatch"] \/ sweep' = [sweep EXCEPT !.pc = "turns", !.at = None]
    BY <1>10 DEF Settle!ClaimDue
  <2>3. /\ sweep' \in SettleSweep /\ sweep'.said = sweep.said /\ sweep'.tries = sweep.tries
        /\ sweep'.pc \in {"dispatch", "turns"} /\ (sweep'.pc = "dispatch" => sweep'.at = sweep.at)
    BY <2>2 DEF SettleTyped, SettleSweep
  <2>4. excused' \subseteq Devices /\ used' \subseteq Settle!Kinds
    BY <1>10 DEF Settle!ClaimDue, Settle!Happens, SettleTyped
  <2> QED BY <1>10, <2>1, <2>3, <2>4 DEF Settle!ClaimDue, SettleTyped, SettleWalking
<1>11. CASE Settle!Dispatch
  <2>0. sweep.at \in Devices BY <1>11 DEF Settle!Dispatch, SettleTyped
  <2>1. /\ open' \in [Devices -> BOOLEAN] /\ tries' \in SettleTries /\ said' \in SettleSaid
        /\ excused' \subseteq Devices
    BY <1>11, <2>0, SettleSettleTyped DEF Settle!Dispatch, SettleTyped
  <2>2. \/ sweep' = [sweep EXCEPT !.pc = "turns", !.at = None, !.watch = sweep.watch \ {sweep.at}]
        \/ sweep' = [sweep EXCEPT !.pc = "release"]
    BY <1>11 DEF Settle!Dispatch
  <2>3. /\ sweep' \in SettleSweep /\ sweep'.said = sweep.said /\ sweep'.tries = sweep.tries
        /\ sweep'.pc \in {"turns", "release"} /\ (sweep'.pc = "release" => sweep'.at = sweep.at)
    BY <2>2 DEF SettleTyped, SettleSweep
  <2>4. settling' \in [Devices -> BOOLEAN] BY <1>11 DEF Settle!Dispatch, SettleTyped
  <2> QED BY <1>11, <2>0, <2>1, <2>3, <2>4 DEF Settle!Dispatch, SettleTyped, SettleWalking
<1>12. CASE Settle!Release
  <2>1. sweep' \in SettleSweep /\ sweep'.said = sweep.said /\ sweep'.tries = sweep.tries /\ sweep'.pc = "turns"
    BY <1>12 DEF Settle!Release, SettleTyped, SettleSweep
  <2>2. said' \in SettleSaid BY <1>12 DEF Settle!Release, SettleTyped, SettleSaid
  <2>3. stamp' \in [Devices -> {None, "push", "pull"}] /\ excused' \subseteq Devices /\ used' \subseteq Settle!Kinds
    BY <1>12 DEF Settle!Release, Settle!Happens, SettleTyped
  <2> QED BY <1>12, <2>1, <2>2, <2>3 DEF Settle!Release, SettleTyped, SettleWalking
<1>13. CASE Settle!EndSweep
  <2>1. sweep' \in SettleSweep /\ sweep'.pc = "swept"
    BY <1>13 DEF Settle!EndSweep, SettleTyped, SettleSweep
  <2> QED BY <1>13, <2>1 DEF Settle!EndSweep, SettleTyped, SettleWalking
<1>14. CASE Settle!Leave
  <2>1. sweep' \in SettleSweep /\ sweep'.pc = "idle"
    BY <1>14 DEF Settle!Leave, Settle!Resting, SettleSweep
  <2>2. excused' \subseteq Devices /\ used' \subseteq Settle!Kinds
    BY <1>14 DEF Settle!Leave, Settle!Happens, SettleTyped
  <2> QED BY <1>14, <2>1, <2>2 DEF Settle!Leave, SettleTyped, SettleWalking
<1>15. CASE UNCHANGED Settle!vars BY <1>15 DEF Settle!vars, SettleTyped
<1> QED BY <1>1, <1>2, <1>3, <1>4, <1>5, <1>6, <1>7, <1>8, <1>9, <1>10, <1>11, <1>12, <1>13, <1>14, <1>15
        DEF Settle!Next

LEMMA SettleAlwaysTyped == ASSUME SettleNone PROVE Settle!Spec => []SettleTyped
  BY SettleTypedInit, SettleTypedNext, PTL DEF Settle!Spec

LEMMA SettleTurnsNext ==
  ASSUME SettleNone PROVE SettleTyped /\ SettleTurns /\ [Settle!Next]_(Settle!vars) => SettleTurns'
<1> SUFFICES ASSUME SettleTyped, SettleTurns, [Settle!Next]_(Settle!vars) PROVE SettleTurns'
  OBVIOUS
<1>a. /\ open \in [Devices -> BOOLEAN] /\ stamp \in [Devices -> {None, "push", "pull"}]
      /\ sweep \in SettleSweep
  BY DEF SettleTyped
<1>1. ASSUME NEW d \in Devices, Settle!Power(d) PROVE SettleTurns'
  BY <1>1 DEF Settle!Power, SettleTurns
<1>2. ASSUME NEW d \in Devices, Settle!Heartbeat(d) PROVE SettleTurns'
  <2>1. stamp' = [stamp EXCEPT ![d] = "pull"] \/ stamp' = stamp
    BY <1>2 DEF Settle!Heartbeat, Settle!Claim
  <2>2. \A e \in Devices : stamp'[e] = "push" => stamp[e] = "push" BY <1>a, <2>1
  <2> QED BY <1>2, <2>2 DEF Settle!Heartbeat, SettleTurns
<1>3. ASSUME NEW d \in Devices, Settle!SettleEnds(d) PROVE SettleTurns'
  <2>1. /\ \A e \in Devices : open'[e] => open[e] /\ (e \notin excused' => e \notin excused)
        /\ sweep'.pc = sweep.pc /\ sweep'.at = sweep.at /\ stamp' = stamp
    BY <1>3, <1>a DEF Settle!SettleEnds, Settle!Settle, SettleSweep
  <2> QED BY <2>1 DEF SettleTurns
<1>4. ASSUME NEW d \in Devices, Settle!TimePasses(d) PROVE SettleTurns'
  <2>1. \A e \in Devices : open'[e] /\ stamp'[e] = "push" /\ e \notin excused' =>
                             open[e] /\ stamp[e] = "push" /\ e \notin excused
    BY <1>4, <1>a DEF Settle!TimePasses, SettleNone
  <2> QED BY <1>4, <2>1 DEF Settle!TimePasses, SettleTurns
<1>5. CASE Settle!ReadDue BY <1>5 DEF Settle!ReadDue, SettleTurns
<1>6. CASE Settle!Partition BY <1>6 DEF Settle!Partition, SettleTurns
<1>7. CASE Settle!ReadConfig BY <1>7 DEF Settle!ReadConfig, SettleTurns
<1>8. CASE Settle!MarkOffline BY <1>8 DEF Settle!MarkOffline, SettleTurns
<1>9. CASE Settle!TakeTurn BY <1>9 DEF Settle!TakeTurn, SettleTurns
<1>10. CASE Settle!ClaimDue
  <2>1. \/ stamp' = [stamp EXCEPT ![sweep.at] = "push"] /\ sweep'.pc = "dispatch" /\ sweep'.at = sweep.at
           /\ excused' = excused
        \/ stamp' = stamp /\ excused' = excused
        \/ stamp' = [stamp EXCEPT ![sweep.at] = "push"] /\ excused' = excused \cup {sweep.at}
    BY <1>10, <1>a DEF Settle!ClaimDue, Settle!Claim, SettleSweep
  <2>2. \A e \in Devices : open[e] /\ stamp[e] = "push" => e \in excused
    BY <1>10 DEF Settle!ClaimDue, SettleTurns
  <2>3. open' = open BY <1>10 DEF Settle!ClaimDue
  <2> QED BY <1>a, <2>1, <2>2, <2>3 DEF SettleTurns
<1>11. CASE Settle!Dispatch
  <2>1. \/ /\ open' = [open EXCEPT ![sweep.at] = FALSE] /\ excused' = excused \ {sweep.at}
        \/ open' = open /\ excused' = excused /\ sweep'.pc = "release" /\ sweep'.at = sweep.at
    BY <1>11, <1>a DEF Settle!Dispatch, Settle!Settle, SettleSweep
  <2>2. stamp' = stamp BY <1>11 DEF Settle!Dispatch
  <2> QED BY <1>a, <2>1, <2>2 DEF SettleTurns
<1>12. CASE Settle!Release
  <2>1. \/ stamp' = [stamp EXCEPT ![sweep.at] = None] /\ excused' = excused
        \/ stamp' = stamp /\ excused' = excused \cup {sweep.at}
    BY <1>12 DEF Settle!Release
  <2>2. open' = open BY <1>12 DEF Settle!Release
  <2> QED BY <1>a, <2>1, <2>2 DEF SettleTurns, SettleNone
<1>13. CASE Settle!EndSweep BY <1>13 DEF Settle!EndSweep, SettleTurns
<1>14. CASE Settle!Leave BY <1>14 DEF Settle!Leave, SettleTurns
<1>15. CASE UNCHANGED Settle!vars BY <1>15 DEF Settle!vars, SettleTurns
<1> QED BY <1>1, <1>2, <1>3, <1>4, <1>5, <1>6, <1>7, <1>8, <1>9, <1>10, <1>11, <1>12, <1>13, <1>14, <1>15
        DEF Settle!Next

\* dispatch.ts: a push that failed does not keep the turn of the pull.
THEOREM FailedPushYields == ASSUME SettleNone PROVE Settle!Spec => []Settle!PushYields
<1>1. Settle!Init => SettleTurns BY DEF Settle!Init, SettleTurns, SettleNone
<1>2. SettleTyped /\ SettleTurns /\ [Settle!Next]_(Settle!vars) => SettleTurns' BY SettleTurnsNext
<1>3. SettleTurns => Settle!PushYields BY DEF SettleTurns, Settle!PushYields
<1> QED BY <1>1, <1>2, <1>3, SettleAlwaysTyped, PTL DEF Settle!Spec

\* The terminals that were read, still to settle, and the word each has.
SettleUnsaid ==
  \A d \in sweep.watch :
    /\ sweep.said[d] # None => said[d] # None
    /\ sweep.tries[d] >= OverdueAfter => d \in sweep.fresh \/ said[d] # None

LEMMA SettleShownNext ==
  ASSUME SettleNone PROVE SettleTyped /\ SettleShown /\ [Settle!Next]_(Settle!vars) => SettleShown'
<1> SUFFICES ASSUME SettleTyped, SettleShown, [Settle!Next]_(Settle!vars) PROVE SettleShown'
  OBVIOUS
<1> DEFINE Walks == SettleWalking \cup {"swept"}
<1>a. used \subseteq used'
  BY DEF Settle!Next, Settle!vars, Settle!Power, Settle!Heartbeat, Settle!SettleEnds, Settle!TimePasses, Settle!ReadDue,
         Settle!Partition, Settle!ReadConfig, Settle!MarkOffline, Settle!TakeTurn, Settle!ClaimDue, Settle!Dispatch,
         Settle!Release, Settle!EndSweep, Settle!Leave, Settle!Happens, Settle!Say
<1>b. sweep \in SettleSweep /\ said \in SettleSaid BY DEF SettleTyped
<1>c. ASSUME sweep.pc \in Walks, "unwritten" \notin used' PROVE SettleUnsaid
  BY <1>a, <1>c DEF SettleShown, SettleUnsaid
\* A step of the sweep that goes on with what it read, and unsays nothing.
<1>d. ASSUME sweep.pc \in Walks, sweep'.pc \in Walks, sweep'.pc = "swept" => sweep'.fresh = {},
             sweep'.watch \subseteq sweep.watch, sweep'.said = sweep.said, sweep'.tries = sweep.tries,
             "unwritten" \notin used' => \A d \in sweep'.watch : said[d] # None => said'[d] # None,
             "unwritten" \notin used' => \A d \in sweep'.watch :
               d \in sweep.fresh /\ sweep.tries[d] >= OverdueAfter => d \in sweep'.fresh \/ said'[d] # None
      PROVE  SettleShown'
  <2>1. sweep'.pc \notin {"seen", "idle", "due"} BY <1>d DEF SettleWalking
  <2>2. ASSUME "unwritten" \notin used' PROVE SettleUnsaid'
    BY <1>c, <1>d, <2>2 DEF SettleUnsaid
  <2> QED BY <1>d, <2>1, <2>2 DEF SettleShown, SettleUnsaid
\* A step in which nothing is walked.
<1>e. ASSUME sweep'.watch = {}, sweep'.pc \notin Walks PROVE SettleShown'
  BY <1>e DEF SettleShown
<1>f. ASSUME sweep' = sweep, said' = said PROVE SettleShown'
  BY <1>f, <1>a DEF SettleShown
<1>1. ASSUME NEW d \in Devices, Settle!Power(d) \/ Settle!Heartbeat(d) \/ Settle!TimePasses(d) PROVE SettleShown'
  <2>1. sweep' = sweep /\ said' = said BY <1>1 DEF Settle!Power, Settle!Heartbeat, Settle!TimePasses
  <2> QED BY <1>f, <2>1
<1>3. ASSUME NEW d \in Devices, Settle!SettleEnds(d) PROVE SettleShown'
  <2>1. \/ said' = said /\ sweep' = sweep
        \/ said' = [said EXCEPT ![d] = None] /\ sweep' = [sweep EXCEPT !.watch = sweep.watch \ {d}]
    BY <1>3 DEF Settle!SettleEnds, Settle!Settle
  <2>2. /\ sweep'.pc = sweep.pc /\ sweep'.watch \subseteq sweep.watch /\ sweep'.fresh = sweep.fresh
        /\ sweep'.said = sweep.said /\ sweep'.tries = sweep.tries
        /\ said' = said \/ (d \notin sweep'.watch /\ said' = [said EXCEPT ![d] = None])
    BY <1>b, <2>1 DEF SettleSweep
  <2>3. \A e \in sweep'.watch : said'[e] = said[e]
    BY <1>b, <2>2 DEF SettleSaid, SettleSweep
  <2>4. CASE sweep.pc \in Walks
    <3>1. sweep.pc = "swept" => sweep.fresh = {} BY DEF SettleShown
    <3> QED BY <1>d, <2>2, <2>3, <2>4, <3>1
  <2>5. CASE sweep.pc \notin Walks
    <3>1. sweep.pc \in {"seen", "idle", "due"} BY <1>b, <2>5 DEF SettleSweep, SettleWalking
    <3>2. sweep'.watch = {} BY <2>2, <3>1 DEF SettleShown
    <3> QED BY <1>e, <2>2, <2>5, <3>2
  <2> QED BY <2>4, <2>5
<1>5. CASE Settle!ReadDue
  <2>1. sweep'.pc = "due" /\ sweep'.watch = {} BY <1>5 DEF Settle!ReadDue, Settle!Resting
  <2> QED BY <1>e, <2>1 DEF SettleWalking
<1>6. CASE Settle!Partition
  <2>1. sweep'.pc = "seen" /\ sweep'.watch = sweep.watch /\ sweep.watch = {}
    BY <1>6, <1>b DEF Settle!Partition, SettleSweep, SettleShown
  <2> QED BY <1>e, <2>1 DEF SettleWalking
<1>7. CASE Settle!ReadConfig
  <2>1. CASE sweep' = [sweep EXCEPT !.pc = "turns", !.said = said, !.tries = tries, !.watch = sweep.fresh]
    <3>1. sweep'.said = said /\ sweep'.watch = sweep.fresh /\ sweep'.fresh = sweep.fresh /\ sweep'.pc = "turns"
      BY <1>b, <2>1 DEF SettleSweep
    <3>2. said' = said BY <1>7 DEF Settle!ReadConfig
    <3> QED BY <3>1, <3>2 DEF SettleShown
  <2>2. CASE sweep' = [sweep EXCEPT !.pc = "turns", !.said = [d \in Devices |-> None],
                                    !.tries = [d \in Devices |-> 0]]
    <3>1. sweep'.watch = sweep.watch /\ sweep.watch = {} /\ sweep'.pc = "turns"
      BY <1>7, <1>b, <2>2 DEF SettleSweep, SettleShown, Settle!ReadConfig
    <3> QED BY <3>1 DEF SettleShown
  <2> QED BY <1>7, <2>1, <2>2 DEF Settle!ReadConfig
<1>8. CASE Settle!MarkOffline
  <2>1. PICK d \in sweep.stale : Settle!Say(d, "offline") /\ sweep' = [sweep EXCEPT !.stale = sweep.stale \ {d}]
    BY <1>8 DEF Settle!MarkOffline
  <2>2. said' = said \/ said' = [said EXCEPT ![d] = "offline"]
    BY <2>1 DEF Settle!Say
  <2>3. \A e \in Devices : said[e] # None => said'[e] # None
    BY <1>b, <2>2 DEF SettleSaid, SettleNone
  <2>4. /\ sweep.pc = "turns" /\ sweep'.pc = "turns" /\ sweep'.fresh = sweep.fresh /\ sweep'.watch = sweep.watch
        /\ sweep'.said = sweep.said /\ sweep'.tries = sweep.tries /\ sweep.watch \subseteq Devices
    BY <1>8, <1>b, <2>1 DEF Settle!MarkOffline, SettleSweep
  <2> QED BY <1>d, <2>3, <2>4 DEF SettleWalking
<1>9. CASE Settle!TakeTurn
  <2>1. PICK d \in sweep.fresh :
          /\ IF sweep.tries[d] >= OverdueAfter THEN Settle!Say(d, "overdue") ELSE UNCHANGED <<said, used>>
          /\ sweep' = [sweep EXCEPT !.pc = "claim", !.at = d, !.fresh = sweep.fresh \ {d}]
    BY <1>9 DEF Settle!TakeTurn
  <2>2. /\ sweep.pc = "turns" /\ sweep'.pc = "claim" /\ sweep'.fresh = sweep.fresh \ {d}
        /\ sweep'.watch = sweep.watch /\ sweep'.said = sweep.said /\ sweep'.tries = sweep.tries
        /\ sweep.watch \subseteq Devices /\ d \in Devices /\ sweep.said \in SettleSaid
    BY <1>9, <1>b, <2>1 DEF Settle!TakeTurn, SettleSweep, SettleTyped, SettleWalking
  <2>3. said' = said \/ said' = [said EXCEPT ![d] = "overdue"]
    BY <2>1 DEF Settle!Say
  <2>4. \A e \in Devices : said[e] # None => said'[e] # None
    BY <1>b, <2>3 DEF SettleSaid, SettleNone
  <2>5. ASSUME "unwritten" \notin used', d \in sweep.watch, sweep.tries[d] >= OverdueAfter PROVE said'[d] # None
    <3>1. ~Settle!Happens("unwritten") BY <2>5 DEF Settle!Happens
    <3>2. said' = (IF sweep.said[d] = "overdue" THEN said ELSE [said EXCEPT ![d] = "overdue"])
      BY <2>1, <2>5, <3>1 DEF Settle!Say
    <3>3. sweep.said[d] = "overdue" => said[d] # None
      BY <1>c, <2>2, <2>5 DEF SettleUnsaid, SettleNone, SettleWalking
    <3> QED BY <1>b, <2>2, <3>2, <3>3 DEF SettleSaid, SettleNone
  <2>6. ASSUME "unwritten" \notin used', NEW e \in sweep'.watch, e \in sweep.fresh, sweep.tries[e] >= OverdueAfter
        PROVE  e \in sweep'.fresh \/ said'[e] # None
    BY <2>2, <2>5, <2>6
  <2> QED BY <1>d, <2>2, <2>4, <2>6 DEF SettleWalking
<1>10. CASE Settle!ClaimDue
  <2>1. /\ sweep.pc = "claim" /\ said' = said
        /\ sweep' = [sweep EXCEPT !.pc = "dispatch"] \/ sweep' = [sweep EXCEPT !.pc = "turns", !.at = None]
    BY <1>10 DEF Settle!ClaimDue
  <2>2. /\ sweep'.pc \in {"dispatch", "turns"} /\ sweep'.fresh = sweep.fresh /\ sweep'.watch = sweep.watch
        /\ sweep'.said = sweep.said /\ sweep'.tries = sweep.tries
    BY <1>b, <2>1 DEF SettleSweep
  <2> QED BY <1>d, <2>1, <2>2 DEF SettleWalking
<1>11. CASE Settle!Dispatch
  <2>0. sweep.pc = "dispatch" /\ sweep.at \in Devices BY <1>11 DEF Settle!Dispatch, SettleTyped
  <2>1. \/ /\ said' = [said EXCEPT ![sweep.at] = None]
           /\ sweep' = [sweep EXCEPT !.pc = "turns", !.at = None, !.watch = sweep.watch \ {sweep.at}]
        \/ said' = said /\ sweep' = [sweep EXCEPT !.pc = "release"]
    BY <1>11 DEF Settle!Dispatch, Settle!Settle
  <2>2. /\ sweep'.pc \in {"release", "turns"} /\ sweep'.fresh = sweep.fresh /\ sweep'.watch \subseteq sweep.watch
        /\ sweep'.said = sweep.said /\ sweep'.tries = sweep.tries /\ sweep.watch \subseteq Devices
        /\ said' = said \/ (sweep.at \notin sweep'.watch /\ said' = [said EXCEPT ![sweep.at] = None])
    <3>1. CASE said' = [said EXCEPT ![sweep.at] = None] /\
               sweep' = [sweep EXCEPT !.pc = "turns", !.at = None, !.watch = sweep.watch \ {sweep.at}]
      <4>1. /\ sweep'.pc = "turns" /\ sweep'.fresh = sweep.fresh /\ sweep'.watch = sweep.watch \ {sweep.at}
            /\ sweep'.said = sweep.said /\ sweep'.tries = sweep.tries /\ sweep.watch \subseteq Devices
        BY <1>b, <3>1 DEF SettleSweep
      <4> QED BY <3>1, <4>1
    <3>2. CASE said' = said /\ sweep' = [sweep EXCEPT !.pc = "release"]
      BY <1>b, <3>2 DEF SettleSweep
    <3> QED BY <2>1, <3>1, <3>2
  <2>3. \A e \in sweep'.watch : said'[e] = said[e]
    BY <1>b, <2>2 DEF SettleSaid
  <2> QED BY <1>d, <2>0, <2>2, <2>3 DEF SettleWalking
<1>12. CASE Settle!Release
  <2>0. sweep.pc = "release" /\ sweep.at \in Devices BY <1>12 DEF Settle!Release, SettleTyped
  <2>1. said' = [said EXCEPT ![sweep.at] = "failed"] \/ said' = said BY <1>12 DEF Settle!Release
  <2>2. \A e \in Devices : said[e] # None => said'[e] # None
    BY <1>b, <2>1 DEF SettleSaid, SettleNone
  <2>3. /\ sweep'.pc = "turns" /\ sweep'.fresh = sweep.fresh /\ sweep'.watch = sweep.watch
        /\ sweep'.said = sweep.said /\ sweep'.tries = sweep.tries /\ sweep.watch \subseteq Devices
    BY <1>12, <1>b DEF Settle!Release, SettleSweep
  <2> QED BY <1>d, <2>0, <2>2, <2>3 DEF SettleWalking
<1>13. CASE Settle!EndSweep
  <2>1. /\ sweep.pc = "turns" /\ sweep'.pc = "swept" /\ sweep'.fresh = sweep.fresh /\ sweep'.watch = sweep.watch
        /\ sweep'.said = sweep.said /\ sweep'.tries = sweep.tries /\ sweep.fresh = {} /\ said' = said
    BY <1>13, <1>b DEF Settle!EndSweep, SettleSweep
  <2> QED BY <1>d, <2>1 DEF SettleWalking
<1>14. CASE Settle!Leave
  <2>1. sweep'.pc = "idle" /\ sweep'.watch = {} BY <1>14 DEF Settle!Leave, Settle!Resting
  <2> QED BY <1>e, <2>1 DEF SettleWalking
<1>15. CASE UNCHANGED Settle!vars BY <1>15, <1>f DEF Settle!vars
<1> QED BY <1>1, <1>3, <1>5, <1>6, <1>7, <1>8, <1>9, <1>10, <1>11, <1>12, <1>13, <1>14, <1>15
        DEF Settle!Next

\* dispatch.ts: a sweep that could write leaves no overdue terminal looking fine.
THEOREM StuckTerminalIsVisible == ASSUME SettleNone PROVE Settle!Spec => []Settle!StuckIsVisible
<1>1. Settle!Init => SettleShown BY DEF Settle!Init, Settle!Resting, SettleShown, SettleWalking
<1>2. SettleTyped /\ SettleShown /\ [Settle!Next]_(Settle!vars) => SettleShown' BY SettleShownNext
<1>3. SettleShown => Settle!StuckIsVisible BY DEF SettleShown, Settle!StuckIsVisible
<1> QED BY <1>1, <1>2, <1>3, SettleAlwaysTyped, PTL DEF Settle!Spec

---------------------------------------------------------------------------
(* Subscriptions.  The units still to do have no plan and those done have  *)
(* one; the card of an order is on its plans or nothing is.                *)

PlansPcs == {"start", "units", "make", "period", "activate", "demote", "save", "attach", "done", "dead"}

PlansJobType == [pc : PlansPcs, todo : SUBSET Units, unit : Units \cup {None}, asset : BOOLEAN,
            plans : BOOLEAN, owned : BOOLEAN, tries : 0 .. MaxAttempts, silent : BOOLEAN]
PlansPlanType == [n : Nat, asset : BOOLEAN, period : BOOLEAN, card : Plans!Cards \cup {None}]

\* Where the execution of the job knows what the plans of its order are: between
\* LookAtUnits and the end.
PlansWalking  == {"make", "period", "activate"}
PlansClosing  == {"demote", "save", "attach"}

\* The types the proofs need: TypeOK, all fields of the job, and that the unit
\* whose period is inserted is one, and a card that is saved a card.
PlansTyped ==
  /\ plan \in [Orders -> [Units -> PlansPlanType]]
  /\ asset \in {"registered", "active"}
  /\ vault \in [stored : SUBSET Plans!Cards, default : SUBSET Plans!Cards]
  /\ row \in [Orders -> {"new-order", "in-kitchen", "check-closed"}]
  /\ job \in [Orders -> PlansJobType]
  /\ used \subseteq Plans!Kinds
  /\ \A o \in Orders : /\ job[o].pc \in {"period", "activate"} => job[o].unit \in Units
                       /\ job[o].pc \in PlansClosing => Card[o] # None

\* What the units of an order are while its job walks over them: those still to
\* do have no plan, those done have one; plans says whether there is any.  Past
\* the walk each has one.
PlansCounted(o) ==
  /\ \A u \in Units : plan[o][u].n \in {0, 1}
  /\ job[o].pc \in PlansWalking =>
       /\ \A u \in Units : plan[o][u].n = 0 <=> u \in job[o].todo
       /\ (\E u \in Units : plan[o][u].n = 1) => job[o].plans
  /\ job[o].pc \in PlansClosing => \A u \in Units : plan[o][u].n = 1
  /\ job[o].pc = "done" /\ ~job[o].silent => \A u \in Units : plan[o][u].n = 1

LEMMA PlansCardTyped == ASSUME NEW o \in Orders, Card[o] # None PROVE Card[o] \in Plans!Cards
  BY DEF Plans!Cards

LEMMA PlansTypedInit == ASSUME MaxAttempts \in Nat PROVE Plans!Init => PlansTyped
  BY DEF Plans!Init, PlansTyped, Plans!NoPlan, PlansPlanType, Plans!Fresh, PlansJobType, PlansPcs, PlansClosing

\* The job after a failed attempt.
LEMMA PlansFailingType ==
  ASSUME MaxAttempts \in Nat, PlansTyped, NEW o \in Orders
  PROVE  Plans!Failing(o) \in PlansJobType /\ Plans!Failing(o).pc \in {"start", "dead"}
  <1>1. job[o] \in PlansJobType BY DEF PlansTyped
  <1>2. job[o].tries \in 0 .. MaxAttempts BY <1>1 DEF PlansJobType
  <1>3. (IF job[o].tries < MaxAttempts THEN job[o].tries + 1 ELSE job[o].tries) \in 0 .. MaxAttempts
    BY <1>2
  <1> QED BY <1>1, <1>3 DEF Plans!Failing, PlansJobType, PlansPcs

\* The jobs' part of Typed, and the rest of it.
PlansJobsTyped ==
  /\ job \in [Orders -> PlansJobType]
  /\ \A o \in Orders : /\ job[o].pc \in {"period", "activate"} => job[o].unit \in Units
                       /\ job[o].pc \in PlansClosing => Card[o] # None
PlansRowsTyped ==
  /\ plan \in [Orders -> [Units -> PlansPlanType]]
  /\ asset \in {"registered", "active"}
  /\ vault \in [stored : SUBSET Plans!Cards, default : SUBSET Plans!Cards]
  /\ row \in [Orders -> {"new-order", "in-kitchen", "check-closed"}]
  /\ used \subseteq Plans!Kinds

\* The job of one order moves.
LEMMA PlansJobMoves ==
  ASSUME PlansTyped, NEW o \in Orders, NEW j \in PlansJobType, job' = [job EXCEPT ![o] = j],
         j.pc \in {"period", "activate"} => j.unit \in Units, j.pc \in PlansClosing => Card[o] # None
  PROVE  PlansJobsTyped'
  <1>1. job \in [Orders -> PlansJobType] /\ job' \in [Orders -> PlansJobType] BY DEF PlansTyped
  <1>2. \A p \in Orders : job'[p] = IF p = o THEN j ELSE job[p] BY <1>1
  <1> QED BY <1>1, <1>2 DEF PlansTyped, PlansJobsTyped

\* One plan of one order changes.
LEMMA PlansPlanMoves ==
  ASSUME PlansTyped, NEW o \in Orders, NEW u \in Units, NEW p \in PlansPlanType,
         plan' = [plan EXCEPT ![o] = [plan[o] EXCEPT ![u] = p]]
  PROVE  /\ plan' \in [Orders -> [Units -> PlansPlanType]]
         /\ \A q \in Orders, v \in Units : plan'[q][v] = IF q = o /\ v = u THEN p ELSE plan[q][v]
  <1>1. plan \in [Orders -> [Units -> PlansPlanType]] BY DEF PlansTyped
  <1> DEFINE f == [plan[o] EXCEPT ![u] = p]
  <1>2. f \in [Units -> PlansPlanType] /\ \A v \in Units : f[v] = IF v = u THEN p ELSE plan[o][v]
    BY <1>1
  <1>3. plan' = [plan EXCEPT ![o] = f] OBVIOUS
  <1> HIDE DEF f
  <1> QED BY <1>1, <1>2, <1>3

\* The same, by its place only.
LEMMA PlansJobGoes ==
  ASSUME PlansTyped, NEW o \in Orders, NEW pc \in PlansPcs, Plans!Go(o, pc),
         pc \in {"period", "activate"} => job[o].unit \in Units, pc \in PlansClosing => Card[o] # None
  PROVE  PlansJobsTyped'
  <1> DEFINE j == [job[o] EXCEPT !.pc = pc]
  <1>1. job' = [job EXCEPT ![o] = j] BY DEF Plans!Go, PlansTyped
  <1>2. job[o] \in PlansJobType BY DEF PlansTyped
  <1>3. j \in PlansJobType /\ j.pc = pc /\ j.unit = job[o].unit BY <1>2 DEF PlansJobType
  <1> HIDE DEF j
  <1> QED BY <1>1, <1>3, PlansJobMoves

LEMMA PlansTypedNext ==
  ASSUME MaxAttempts \in Nat, PlansTyped, [Plans!Next]_(Plans!vars) PROVE PlansTyped'
  <1>0. PlansRowsTyped /\ PlansJobsTyped /\ (PlansRowsTyped' /\ PlansJobsTyped' => PlansTyped')
    BY DEF PlansTyped, PlansJobsTyped, PlansRowsTyped
  <1>1. CASE UNCHANGED Plans!vars BY <1>1 DEF Plans!vars, PlansTyped, PlansClosing
  <1>2. ASSUME NEW o \in Orders, Plans!Read(o) PROVE PlansTyped'
    <2>1. CASE \E pc \in {"units", "dead"} : Plans!Go(o, pc)
      <3>1. PlansJobsTyped' BY <2>1, PlansJobGoes DEF PlansPcs, PlansClosing
      <3> QED BY <1>0, <1>2, <3>1 DEF Plans!Read, Plans!Blind, Plans!Happens, PlansRowsTyped
    <2>2. CASE job' = [job EXCEPT ![o].pc = "done", ![o].silent = TRUE]
      <3> DEFINE j == [job[o] EXCEPT !.pc = "done", !.silent = TRUE]
      <3>1. job' = [job EXCEPT ![o] = j] BY <2>2 DEF PlansTyped
      <3>2. j \in PlansJobType /\ j.pc = "done" BY DEF PlansTyped, PlansJobType, PlansPcs
      <3> HIDE DEF j
      <3>3. PlansJobsTyped' BY <3>1, <3>2, PlansJobMoves DEF PlansClosing
      <3> QED BY <1>0, <1>2, <3>3 DEF Plans!Read, Plans!Blind, Plans!Happens, PlansRowsTyped
    <2> QED BY <1>2, <2>1, <2>2 DEF Plans!Read, Plans!Blind
  <1>3. ASSUME NEW o \in Orders, Plans!LookAtUnits(o) PROVE PlansTyped'
    <2>1. PICK owned \in BOOLEAN, found \in BOOLEAN :
            job' = [job EXCEPT ![o] = [@ EXCEPT !.pc = "make", !.todo = Plans!Missing(o),
                      !.plans = Plans!HadPlans(o), !.unit = None, !.owned = owned, !.asset = found]]
      BY <1>3 DEF Plans!LookAtUnits
    <2> DEFINE j == [job[o] EXCEPT !.pc = "make", !.todo = Plans!Missing(o), !.plans = Plans!HadPlans(o),
                                   !.unit = None, !.owned = owned, !.asset = found]
    <2>2. job' = [job EXCEPT ![o] = j] BY <2>1
    <2>3. j \in PlansJobType /\ j.pc = "make"
      <3>1. Plans!Missing(o) \in SUBSET Units /\ Plans!HadPlans(o) \in BOOLEAN BY DEF Plans!Missing, Plans!HadPlans
      <3>2. job[o] \in PlansJobType BY DEF PlansTyped
      <3> QED BY <3>1, <3>2 DEF PlansJobType, PlansPcs
    <2> HIDE DEF j
    <2>4. PlansJobsTyped' BY <2>2, <2>3, PlansJobMoves DEF PlansClosing
    <2> QED BY <1>0, <1>3, <2>4 DEF Plans!LookAtUnits, Plans!Happens, PlansRowsTyped
  <1>4. ASSUME NEW o \in Orders, Plans!InsertPlan(o) PROVE PlansTyped'
    <2>1. PICK u \in job[o].todo :
            /\ plan' = [plan EXCEPT ![o][u].n = @ + 1, ![o][u].asset = Plans!Uses(o, u)]
            /\ job' = [job EXCEPT ![o] = [job[o] EXCEPT !.pc = "period", !.unit = u,
                                             !.plans = TRUE, !.todo = job[o].todo \ {u}]]
      BY <1>4 DEF Plans!InsertPlan, PlansTyped
    <2> DEFINE j == [job[o] EXCEPT !.pc = "period", !.unit = u, !.plans = TRUE,
                                   !.todo = job[o].todo \ {u}]
    <2>2. job' = [job EXCEPT ![o] = j] BY <2>1
    <2>3. u \in Units BY DEF PlansTyped, PlansJobType
    <2>4. j \in PlansJobType /\ j.pc = "period" /\ j.unit = u BY <2>3 DEF PlansTyped, PlansJobType, PlansPcs
    <2> HIDE DEF j
    <2>5. PlansJobsTyped' BY <2>2, <2>3, <2>4, PlansJobMoves DEF PlansClosing
    <2>6. Plans!Uses(o, u) \in BOOLEAN BY DEF Plans!Uses, PlansTyped, PlansJobType
    <2> DEFINE p == [plan[o][u] EXCEPT !.n = plan[o][u].n + 1, !.asset = Plans!Uses(o, u)]
    <2>7. plan' \in [Orders -> [Units -> PlansPlanType]]
      <3>1. plan[o][u] \in PlansPlanType BY <2>3 DEF PlansTyped
      <3>2. plan[o][u].n \in Nat /\ plan[o][u].n + 1 \in Nat BY <3>1 DEF PlansPlanType
      <3>3. p \in PlansPlanType BY <2>6, <3>1, <3>2 DEF PlansPlanType
      <3>4. plan' = [plan EXCEPT ![o] = [plan[o] EXCEPT ![u] = p]] BY <2>1, <2>3 DEF PlansTyped
      <3> HIDE DEF p
      <3> QED BY <2>3, <3>3, <3>4, PlansPlanMoves
    <2> QED BY <1>0, <1>4, <2>5, <2>7 DEF Plans!InsertPlan, PlansRowsTyped
  <1>5. ASSUME NEW o \in Orders, Plans!InsertPeriod(o) PROVE PlansTyped'
    <2>1. job[o].unit \in Units BY <1>5 DEF Plans!InsertPeriod, Plans!At, PlansTyped
    <2>2. PlansJobsTyped' BY <1>5, <2>1, PlansJobGoes DEF Plans!InsertPeriod, PlansPcs, PlansClosing
    <2> DEFINE p == [plan[o][job[o].unit] EXCEPT !.period = TRUE]
    <2>3. plan' \in [Orders -> [Units -> PlansPlanType]]
      <3>1. plan[o][job[o].unit] \in PlansPlanType BY <2>1 DEF PlansTyped
      <3>2. p \in PlansPlanType BY <3>1 DEF PlansPlanType
      <3>3. plan' = [plan EXCEPT ![o] = [plan[o] EXCEPT ![job[o].unit] = p]]
        BY <1>5 DEF Plans!InsertPeriod
      <3> HIDE DEF p
      <3> QED BY <2>1, <3>2, <3>3, PlansPlanMoves
    <2> QED BY <1>0, <1>5, <2>2, <2>3 DEF Plans!InsertPeriod, PlansRowsTyped
  <1>6. ASSUME NEW o \in Orders, Plans!Activate(o) PROVE PlansTyped'
    <2> DEFINE j == [job[o] EXCEPT !.pc = "make", !.asset = FALSE]
    <2>1. job' = [job EXCEPT ![o] = j] BY <1>6 DEF Plans!Activate, PlansTyped
    <2>2. j \in PlansJobType /\ j.pc = "make" BY DEF PlansTyped, PlansJobType, PlansPcs
    <2> HIDE DEF j
    <2>3. PlansJobsTyped' BY <2>1, <2>2, PlansJobMoves DEF PlansClosing
    <2> QED BY <1>0, <1>6, <2>3 DEF Plans!Activate, Plans!Activated, Plans!Happens, PlansRowsTyped
  <1>7. ASSUME NEW o \in Orders, Plans!CloseOrder(o) PROVE PlansTyped'
    <2>1. PlansJobsTyped' BY <1>7, PlansJobGoes DEF Plans!CloseOrder, PlansPcs, PlansClosing
    <2> QED BY <1>0, <1>7, <2>1 DEF Plans!CloseOrder, Plans!Closed, Plans!Happens, PlansRowsTyped
  <1>8. ASSUME NEW o \in Orders, Plans!DemoteOthers(o) PROVE PlansTyped'
    <2>1. Card[o] # None BY <1>8 DEF Plans!DemoteOthers, Plans!At, PlansTyped, PlansClosing
    <2>2. PlansJobsTyped' BY <1>8, <2>1, PlansJobGoes DEF Plans!DemoteOthers, PlansPcs, PlansClosing
    <2> QED BY <1>0, <1>8, <2>2 DEF Plans!DemoteOthers, PlansRowsTyped
  <1>9. ASSUME NEW o \in Orders, Plans!SaveCard(o) PROVE PlansTyped'
    <2>1. Card[o] # None BY <1>9 DEF Plans!SaveCard, Plans!At, PlansTyped, PlansClosing
    <2>2. Card[o] \in Plans!Cards BY <2>1, PlansCardTyped
    <2>3. CASE vault.default \subseteq {Card[o]}
      <3>1. PlansJobsTyped' BY <1>9, <2>1, <2>3, PlansJobGoes DEF Plans!SaveCard, PlansPcs, PlansClosing
      <3> QED BY <1>0, <1>9, <2>2, <2>3, <3>1 DEF Plans!SaveCard, PlansRowsTyped
    <2>4. CASE ~(vault.default \subseteq {Card[o]})
      <3>1. PlansJobsTyped' BY <1>9, <2>4, PlansFailingType, PlansJobMoves DEF Plans!SaveCard, PlansClosing
      <3> QED BY <1>0, <1>9, <2>4, <3>1 DEF Plans!SaveCard, PlansRowsTyped
    <2> QED BY <2>3, <2>4
  <1>10. ASSUME NEW o \in Orders, Plans!AttachCard(o) PROVE PlansTyped'
    <2>1. Card[o] \in Plans!Cards BY <1>10, PlansCardTyped DEF Plans!AttachCard, Plans!At, PlansTyped, PlansClosing
    <2>2. PlansJobsTyped' BY <1>10, PlansJobGoes DEF Plans!AttachCard, PlansPcs, PlansClosing
    <2>3. plan' \in [Orders -> [Units -> PlansPlanType]]
      <3>1. plan \in [Orders -> [Units -> PlansPlanType]] BY DEF PlansTyped
      <3>2. \A u \in Units : [plan[o][u] EXCEPT !.card = Card[o]] \in PlansPlanType
        BY <2>1, <3>1 DEF PlansPlanType
      <3> DEFINE f == [u \in Units |-> IF plan[o][u].n > 0 /\ u \in Automatic /\ plan[o][u].card = None
                                       THEN [plan[o][u] EXCEPT !.card = Card[o]] ELSE plan[o][u]]
      <3>3. f \in [Units -> PlansPlanType] BY <3>1, <3>2
      <3>4. plan' = [plan EXCEPT ![o] = f] BY <1>10 DEF Plans!AttachCard
      <3> HIDE DEF f
      <3> QED BY <3>1, <3>3, <3>4
    <2> QED BY <1>0, <1>10, <2>2, <2>3 DEF Plans!AttachCard, PlansRowsTyped
  <1>11. ASSUME NEW o \in Orders, Plans!Fail(o) PROVE PlansTyped'
    <2>1. CASE job' = [job EXCEPT ![o] = Plans!Failing(o)]
      <3>1. PlansJobsTyped' BY <2>1, PlansFailingType, PlansJobMoves DEF PlansClosing
      <3> QED BY <1>0, <1>11, <3>1 DEF Plans!Fail, Plans!Happens, PlansRowsTyped
    <2>2. CASE Plans!Go(o, "start")
      <3>1. PlansJobsTyped' BY <2>2, PlansJobGoes DEF PlansPcs, PlansClosing
      <3> QED BY <1>0, <1>11, <3>1 DEF Plans!Fail, Plans!Happens, PlansRowsTyped
    <2> QED BY <1>11, <2>1, <2>2 DEF Plans!Fail
  <1>12. ASSUME NEW o \in Orders, Plans!Requeue(o) PROVE PlansTyped'
    <2> DEFINE j == [job[o] EXCEPT !.pc = "start", !.tries = 0]
    <2>1. job' = [job EXCEPT ![o] = j] BY <1>12 DEF Plans!Requeue, PlansTyped
    <2>2. j \in PlansJobType /\ j.pc = "start"
      <3>1. 0 \in 0 .. MaxAttempts OBVIOUS
      <3>2. job[o] \in PlansJobType BY DEF PlansTyped
      <3> QED BY <3>1, <3>2 DEF PlansJobType, PlansPcs
    <2> HIDE DEF j
    <2>3. PlansJobsTyped' BY <2>1, <2>2, PlansJobMoves DEF PlansClosing
    <2> QED BY <1>0, <1>12, <2>3 DEF Plans!Requeue, Plans!Happens, PlansRowsTyped
  <1>13. ASSUME NEW o \in Orders, Plans!StaffMoves(o) PROVE PlansTyped'
    BY <1>0, <1>13 DEF Plans!StaffMoves, Plans!Happens, PlansRowsTyped, PlansJobsTyped
  <1> QED
    BY <1>1, <1>2, <1>3, <1>4, <1>5, <1>6, <1>7, <1>8, <1>9, <1>10, <1>11, <1>12, <1>13 DEF Plans!Next

\* The types of Subscriptions.
THEOREM SubscriptionsTyped == ASSUME MaxAttempts \in Nat PROVE Plans!Spec => []Plans!TypeOK
  <1>1. Plans!Init => PlansTyped BY PlansTypedInit
  <1>2. PlansTyped /\ [Plans!Next]_(Plans!vars) => PlansTyped' BY PlansTypedNext
  <1>3. PlansTyped => Plans!TypeOK BY DEF PlansTyped, Plans!TypeOK, PlansPlanType, PlansJobType, PlansPcs
  <1> QED BY <1>1, <1>2, <1>3, PTL DEF Plans!Spec

---------------------------------------------------------------------------
(* PaidInFull and CardReachesEveryPlan.                                    *)

\* The card of an order is on its plans or nothing is, and never on one collected
\* by hand; it was stored before it is attached; and the job that ends knowing the
\* owner has put it on each plan it belongs on.
PlansCharged(o, u) == IF u \in Automatic THEN Card[o] ELSE None

PlansCarded(o) ==
  /\ \A u \in Units : plan[o][u].card \in {None, PlansCharged(o, u)}
  /\ job[o].pc = "attach" => Card[o] \in vault.stored
  /\ job[o].pc = "done" /\ ~job[o].silent /\ job[o].owned /\ Card[o] # None =>
       /\ Card[o] \in vault.stored
       /\ \A u \in Units : plan[o][u].card = PlansCharged(o, u)

\* A job that goes on by its place only.
LEMMA PlansJobGone ==
  ASSUME PlansTyped, NEW o \in Orders, NEW pc, Plans!Go(o, pc)
  PROVE  /\ job'[o].pc = pc /\ job'[o].todo = job[o].todo /\ job'[o].unit = job[o].unit
         /\ job'[o].plans = job[o].plans /\ job'[o].silent = job[o].silent /\ job'[o].owned = job[o].owned
         /\ \A p \in Orders \ {o} : job'[p] = job[p]
  BY DEF PlansTyped, Plans!Go, PlansJobType

\* What the step of another order's job leaves of an order.
LEMMA PlansAside ==
  ASSUME NEW o \in Orders, PlansCounted(o), PlansCarded(o), job'[o] = job[o], plan'[o] = plan[o],
         vault.stored \subseteq vault'.stored
  PROVE  PlansCounted(o)' /\ PlansCarded(o)'
  BY DEF PlansCounted, PlansCarded

\* One step of the job of an order, seen from that order.
LEMMA PlansOwnStep ==
  ASSUME Units # {}, PlansTyped, NEW o \in Orders, PlansCounted(o), PlansCarded(o),
         \/ Plans!Read(o) \/ Plans!LookAtUnits(o) \/ Plans!InsertPlan(o) \/ Plans!InsertPeriod(o) \/ Plans!Activate(o)
         \/ Plans!CloseOrder(o) \/ Plans!DemoteOthers(o) \/ Plans!SaveCard(o) \/ Plans!AttachCard(o) \/ Plans!Fail(o)
         \/ Plans!Requeue(o) \/ Plans!StaffMoves(o)
  PROVE  /\ PlansCounted(o)' /\ PlansCarded(o)'
         /\ \A p \in Orders \ {o} : job'[p] = job[p] /\ plan'[p] = plan[p]
         /\ vault.stored \subseteq vault'.stored
  <1>0. job[o] \in PlansJobType /\ job \in [Orders -> PlansJobType] BY DEF PlansTyped
  <1> DEFINE Rest == /\ \A p \in Orders \ {o} : job'[p] = job[p] /\ plan'[p] = plan[p]
                     /\ vault.stored \subseteq vault'.stored
  <1>1. CASE Plans!Read(o)
    <2>1. job'[o].pc \in {"units", "dead"} \/ (job'[o].pc = "done" /\ job'[o].silent)
      BY <1>0, <1>1, PlansJobGone DEF Plans!Read, Plans!Blind, PlansJobType
    <2>2. Rest BY <1>0, <1>1, PlansJobGone DEF Plans!Read, Plans!Blind
    <2>3. plan' = plan BY <1>1 DEF Plans!Read
    <2> QED BY <2>1, <2>2, <2>3 DEF PlansCounted, PlansCarded, PlansWalking, PlansClosing
  <1>2. CASE Plans!LookAtUnits(o)
    <2>1. job'[o].pc = "make" /\ job'[o].todo = Plans!Missing(o) /\ job'[o].plans = Plans!HadPlans(o)
      BY <1>0, <1>2 DEF Plans!LookAtUnits, PlansJobType
    <2>2. Rest /\ plan' = plan BY <1>0, <1>2 DEF Plans!LookAtUnits
    <2>3. \A u \in Units : plan[o][u].n = 0 <=> u \in Plans!Missing(o)
      BY DEF PlansCounted, Plans!Missing, Plans!Existing
    <2>4. (\E u \in Units : plan[o][u].n = 1) => Plans!HadPlans(o) BY DEF Plans!HadPlans, Plans!Existing
    <2>5. PlansCounted(o)' BY <2>1, <2>2, <2>3, <2>4 DEF PlansCounted, PlansWalking, PlansClosing
    <2> QED BY <2>1, <2>2, <2>5 DEF PlansCarded
  <1>3. CASE Plans!InsertPlan(o)
    <2>1. PICK u \in job[o].todo :
            /\ plan' = [plan EXCEPT ![o][u].n = @ + 1, ![o][u].asset = Plans!Uses(o, u)]
            /\ job' = [job EXCEPT ![o] = [@ EXCEPT !.pc = "period", !.unit = u, !.plans = TRUE,
                                                   !.todo = job[o].todo \ {u}]]
      BY <1>3 DEF Plans!InsertPlan
    <2>2. u \in Units BY <1>0 DEF PlansJobType
    <2>3. /\ job'[o].pc = "period" /\ job'[o].todo = job[o].todo \ {u} /\ job'[o].plans
      BY <1>0, <2>1 DEF PlansJobType
    <2>4. \A v \in Units : /\ plan[o][v] \in PlansPlanType
                           /\ plan'[o][v].n = IF v = u THEN plan[o][v].n + 1 ELSE plan[o][v].n
                           /\ plan'[o][v].card = plan[o][v].card
      BY <2>1, <2>2 DEF PlansTyped, PlansPlanType
    <2>5. Rest BY <1>0, <1>3, <2>1 DEF Plans!InsertPlan, PlansTyped
    <2>6. plan[o][u].n = 0 BY <1>3, <2>2 DEF Plans!InsertPlan, Plans!At, PlansCounted, PlansWalking
    <2>7. PlansCounted(o)'
      <3>1. \A v \in Units : plan[o][v].n = 0 <=> v \in job[o].todo
        BY <1>3 DEF Plans!InsertPlan, Plans!At, PlansCounted, PlansWalking
      <3>2. \A v \in Units : plan'[o][v].n \in {0, 1} /\ (plan'[o][v].n = 0 <=> v \in job'[o].todo)
        BY <2>2, <2>3, <2>4, <2>6, <3>1 DEF PlansCounted
      <3> QED BY <2>3, <3>2 DEF PlansCounted, PlansClosing
    <2>8. PlansCarded(o)' BY <2>3, <2>4 DEF PlansCarded
    <2> QED BY <2>5, <2>7, <2>8
  <1>4. CASE Plans!InsertPeriod(o)
    <2> DEFINE u == job[o].unit
    <2>1. u \in Units BY <1>4 DEF Plans!InsertPeriod, Plans!At, PlansTyped
    <2>2. \A v \in Units : plan'[o][v].n = plan[o][v].n /\ plan'[o][v].card = plan[o][v].card
      BY <1>4, <2>1 DEF Plans!InsertPeriod, PlansTyped, PlansPlanType
    <2>3. job'[o].pc \in {"activate", "make"} /\ job'[o].todo = job[o].todo
          /\ job'[o].plans = job[o].plans
      BY <1>4, PlansJobGone DEF Plans!InsertPeriod
    <2>4. Rest BY <1>4, PlansJobGone DEF Plans!InsertPeriod, PlansTyped
    <2>5. PlansCounted(o)' BY <1>4, <2>2, <2>3 DEF Plans!InsertPeriod, Plans!At, PlansCounted, PlansWalking, PlansClosing
    <2>6. PlansCarded(o)' BY <2>2, <2>3 DEF PlansCarded
    <2> QED BY <2>4, <2>5, <2>6
  <1>5. CASE Plans!Activate(o)
    <2>1. job'[o].pc = "make" /\ job'[o].todo = job[o].todo /\ job'[o].plans = job[o].plans
      BY <1>0, <1>5 DEF Plans!Activate, PlansJobType
    <2>2. Rest /\ plan' = plan BY <1>0, <1>5 DEF Plans!Activate
    <2>3. PlansCounted(o)' BY <1>5, <2>1, <2>2 DEF Plans!Activate, Plans!At, PlansCounted, PlansWalking, PlansClosing
    <2> QED BY <2>1, <2>2, <2>3 DEF PlansCarded
  <1>6. CASE Plans!CloseOrder(o)
    <2>1. /\ job'[o].pc = IF job[o].plans /\ job[o].owned /\ Card[o] # None THEN "demote" ELSE "done"
          /\ job'[o].silent = job[o].silent /\ job'[o].owned = job[o].owned
      BY <1>6, PlansJobGone DEF Plans!CloseOrder
    <2>2. Rest /\ plan' = plan BY <1>6, PlansJobGone DEF Plans!CloseOrder
    <2>3. \A u \in Units : plan[o][u].n = 1 BY <1>6 DEF Plans!CloseOrder, Plans!At, PlansCounted, PlansWalking
    <2>4. job[o].plans BY <1>6, <2>3 DEF Plans!CloseOrder, Plans!At, PlansCounted, PlansWalking
    <2>5. PlansCounted(o)' BY <2>1, <2>2, <2>3 DEF PlansCounted, PlansWalking, PlansClosing
    <2>6. PlansCarded(o)' BY <2>1, <2>2, <2>4 DEF PlansCarded
    <2> QED BY <2>2, <2>5, <2>6
  <1>7. CASE Plans!DemoteOthers(o)
    <2>1. job'[o].pc = "save" BY <1>7, PlansJobGone DEF Plans!DemoteOthers
    <2>2. Rest /\ plan' = plan BY <1>7, PlansJobGone DEF Plans!DemoteOthers, PlansTyped
    <2>3. PlansCounted(o)' BY <1>7, <2>1, <2>2 DEF Plans!DemoteOthers, Plans!At, PlansCounted, PlansWalking, PlansClosing
    <2> QED BY <2>1, <2>2, <2>3 DEF PlansCarded
  <1>8. CASE Plans!SaveCard(o)
    <2>1. CASE vault.default \subseteq {Card[o]}
      <3>1. job'[o].pc = "attach" BY <1>8, <2>1, PlansJobGone DEF Plans!SaveCard
      <3>2. Rest /\ plan' = plan BY <1>8, <2>1, PlansJobGone DEF Plans!SaveCard
      <3>3. Card[o] \in vault'.stored BY <1>8, <2>1 DEF Plans!SaveCard
      <3>4. PlansCounted(o)' BY <1>8, <3>1, <3>2 DEF Plans!SaveCard, Plans!At, PlansCounted, PlansWalking, PlansClosing
      <3> QED BY <3>1, <3>2, <3>3, <3>4 DEF PlansCarded
    <2>2. CASE ~(vault.default \subseteq {Card[o]})
      <3>1. job'[o].pc \in {"start", "dead"}
        BY <1>0, <1>8, <2>2 DEF Plans!SaveCard, Plans!Failing, PlansJobType
      <3>2. Rest /\ plan' = plan BY <1>0, <1>8, <2>2 DEF Plans!SaveCard
      <3> QED BY <3>1, <3>2 DEF PlansCounted, PlansCarded, PlansWalking, PlansClosing
    <2> QED BY <2>1, <2>2
  <1>9. CASE Plans!AttachCard(o)
    <2>1. job'[o].pc = "done" BY <1>9, PlansJobGone DEF Plans!AttachCard
    <2>2. Rest /\ vault' = vault BY <1>9, PlansJobGone DEF Plans!AttachCard, PlansTyped
    <2>3. \A u \in Units : plan[o][u].n = 1 BY <1>9 DEF Plans!AttachCard, Plans!At, PlansCounted, PlansClosing
    <2>4. \A u \in Units : plan'[o][u].n = 1 /\ plan'[o][u].card = PlansCharged(o, u)
      <3>1. TAKE u \in Units
      <3>2. plan[o][u] \in PlansPlanType /\ plan[o][u].n = 1 BY <2>3 DEF PlansTyped
      <3>3. plan'[o][u] = IF plan[o][u].n > 0 /\ u \in Automatic /\ plan[o][u].card = None
                          THEN [plan[o][u] EXCEPT !.card = Card[o]] ELSE plan[o][u]
        BY <1>9 DEF Plans!AttachCard, PlansTyped
      <3> QED BY <3>2, <3>3 DEF PlansCarded, PlansPlanType, PlansCharged
    <2>5. PlansCounted(o)' BY <2>1, <2>4 DEF PlansCounted, PlansWalking, PlansClosing
    <2>6. Card[o] \in vault.stored BY <1>9 DEF Plans!AttachCard, Plans!At, PlansCarded
    <2>7. PlansCarded(o)' BY <2>1, <2>2, <2>4, <2>6 DEF PlansCarded
    <2> QED BY <2>2, <2>5, <2>7
  <1>10. CASE Plans!Fail(o)
    <2>1. job'[o].pc \in {"start", "dead"}
      <3>1. CASE Plans!Go(o, "start") BY <3>1, PlansJobGone
      <3>2. CASE job' = [job EXCEPT ![o] = Plans!Failing(o)]
        BY <1>0, <3>2 DEF Plans!Failing, PlansJobType
      <3> QED BY <1>10, <3>1, <3>2 DEF Plans!Fail
    <2>2. Rest /\ plan' = plan BY <1>0, <1>10, PlansJobGone DEF Plans!Fail
    <2> QED BY <2>1, <2>2 DEF PlansCounted, PlansCarded, PlansWalking, PlansClosing
  <1>11. CASE Plans!Requeue(o)
    <2>1. job'[o].pc = "start" BY <1>0, <1>11 DEF Plans!Requeue, PlansJobType
    <2>2. Rest /\ plan' = plan BY <1>0, <1>11 DEF Plans!Requeue
    <2> QED BY <2>1, <2>2 DEF PlansCounted, PlansCarded, PlansWalking, PlansClosing
  <1>12. CASE Plans!StaffMoves(o)
    <2>1. Rest /\ plan' = plan /\ job' = job BY <1>12 DEF Plans!StaffMoves
    <2> QED BY <2>1, PlansAside
  <1> QED BY <1>1, <1>2, <1>3, <1>4, <1>5, <1>6, <1>7, <1>8, <1>9, <1>10, <1>11, <1>12

PlansBilledInv == PlansTyped /\ \A o \in Orders : PlansCounted(o) /\ PlansCarded(o)

LEMMA PlansBilledNext ==
  ASSUME Units # {}, MaxAttempts \in Nat, PlansBilledInv, [Plans!Next]_(Plans!vars) PROVE PlansBilledInv'
  <1>1. PlansTyped' BY PlansTypedNext DEF PlansBilledInv
  <1>2. ASSUME NEW p \in Orders PROVE PlansCounted(p)' /\ PlansCarded(p)'
    <2>1. PlansTyped /\ PlansCounted(p) /\ PlansCarded(p) BY DEF PlansBilledInv
    <2>2. CASE UNCHANGED Plans!vars BY <2>1, <2>2, PlansAside DEF Plans!vars
    <2>3. CASE Plans!Next
      <3>1. PICK o \in Orders :
              \/ Plans!Read(o) \/ Plans!LookAtUnits(o) \/ Plans!InsertPlan(o) \/ Plans!InsertPeriod(o) \/ Plans!Activate(o)
              \/ Plans!CloseOrder(o) \/ Plans!DemoteOthers(o) \/ Plans!SaveCard(o) \/ Plans!AttachCard(o) \/ Plans!Fail(o)
              \/ Plans!Requeue(o) \/ Plans!StaffMoves(o)
        BY <2>3 DEF Plans!Next
      <3>2. PlansCounted(o) /\ PlansCarded(o) BY DEF PlansBilledInv
      <3>3. /\ PlansCounted(o)' /\ PlansCarded(o)'
            /\ \A q \in Orders \ {o} : job'[q] = job[q] /\ plan'[q] = plan[q]
            /\ vault.stored \subseteq vault'.stored
        BY <2>1, <3>1, <3>2, PlansOwnStep
      <3>4. CASE p = o BY <3>3, <3>4
      <3>5. CASE p # o BY <2>1, <3>3, <3>5, PlansAside
      <3> QED BY <3>4, <3>5
    <2> QED BY <2>2, <2>3
  <1> QED BY <1>1, <1>2 DEF PlansBilledInv

LEMMA PlansBilledInit == ASSUME MaxAttempts \in Nat PROVE Plans!Init => PlansBilledInv
  BY PlansTypedInit DEF Plans!Init, PlansBilledInv, PlansCounted, PlansCarded, Plans!NoPlan, Plans!Fresh, PlansWalking, PlansClosing

\* apply-payment.ts: no unit is subscribed twice, and none is missing once the job
\* says it is done, however often it fails or dies between its writes.
THEOREM EveryUnitOnce ==
  ASSUME Units # {}, MaxAttempts \in Nat PROVE Plans!Spec => []Plans!PaidInFull
  <1>1. Plans!Init => PlansBilledInv BY PlansBilledInit
  <1>2. PlansBilledInv /\ [Plans!Next]_(Plans!vars) => PlansBilledInv' BY PlansBilledNext
  <1>3. PlansBilledInv => Plans!PaidInFull
    <2> SUFFICES ASSUME PlansBilledInv PROVE Plans!PaidInFull OBVIOUS
    <2>1. \A o \in Orders : PlansCounted(o) BY DEF PlansBilledInv
    <2> QED BY <2>1 DEF Plans!PaidInFull, PlansCounted, Plans!At
  <1> QED BY <1>1, <1>2, <1>3, PTL DEF Plans!Spec

\* apply-payment.ts: the card a done order was paid with is stored and on each of its
\* plans collected automatically, also on those an earlier attempt created, and on no
\* other, if its last attempt knew whose the order is.
THEOREM EveryPlanHasItsCard ==
  ASSUME Units # {}, MaxAttempts \in Nat PROVE Plans!Spec => []Plans!CardReachesEveryPlan
  <1>1. Plans!Init => PlansBilledInv BY PlansBilledInit
  <1>2. PlansBilledInv /\ [Plans!Next]_(Plans!vars) => PlansBilledInv' BY PlansBilledNext
  <1>3. PlansBilledInv => Plans!CardReachesEveryPlan
    <2> SUFFICES ASSUME PlansBilledInv PROVE Plans!CardReachesEveryPlan OBVIOUS
    <2>1. \A o \in Orders : PlansCarded(o) BY DEF PlansBilledInv
    <2> QED BY <2>1 DEF Plans!CardReachesEveryPlan, PlansCarded, PlansCharged, Plans!At
  <1> QED BY <1>1, <1>2, <1>3, PTL DEF Plans!Spec

---------------------------------------------------------------------------
(* Alerts.  What the noisy site has mailed and is about to mail is below   *)
(* its ceiling, but for what nobody could count.                           *)

\* The quotas are numbers, and there are finitely many dispatchers, if any.
AlertsQuotas ==
  /\ Quota["critical"] \in Nat /\ Quota["other"] \in Nat /\ Quota["site"] \in Nat
  /\ IsFiniteSet(Dispatchers) /\ Dispatchers # {}

AlertsRow == [key : Keys, status : {"pending", "sent", "suppressed", "failed"}, count : Nat,
              recent : BOOLEAN, rivals : Nat, own : Nat, mails : Nat]

\* The types, and a dispatcher has rows in hand when it is at work on one.
AlertsTyped ==
  /\ IsFiniteSet(log) /\ log \subseteq Keys \X Nat
  /\ outbox \in Seq(AlertsRow)
  /\ desk \in [Dispatchers -> [pc : {"fetch", "judge", "mail", "record", "mark"},
                               batch : SUBSET Outbox!Rows]]
  /\ used \subseteq Outbox!Kinds
  /\ \A d \in Dispatchers : desk[d].pc # "fetch" => desk[d].batch # {}

\* Dispatchers that passed the quota with a row of the noisy site and have not
\* written it to the log.
NoisyMails    == {m \in log : m[1] \in Noisy \ Critical}
NoisyUnderWay == {d \in Dispatchers : /\ desk[d].pc \in {"mail", "record"}
                                      /\ outbox[Outbox!InHand(d)].key \in Noisy \ Critical}
NoisyBounded == Cardinality(NoisyMails) + Cardinality(NoisyUnderWay)
  < Quota["site"] + Cardinality(used \cap {"blind"}) + Cardinality(Dispatchers)

\* A set of numbers that is not empty has a least one.
LEMMA LeastNumber == ASSUME NEW B \in SUBSET Nat, B # {} PROVE \E r \in B : \A s \in B : r <= s
<1>1. PICK r \in B : \A s \in B : <<s, r>> \notin OpToRel(<, Nat)
  BY NatLessThanWellFounded, WFMin
<1>2. \A s \in B : ~(s < r) BY <1>1 DEF OpToRel
<1> QED BY <1>2

LEMMA AlertsRows == ASSUME AlertsTyped PROVE Outbox!Rows = 1 .. Len(outbox) /\ Outbox!Rows \subseteq Nat
  BY LenProperties DEF AlertsTyped, Outbox!Rows

\* The row in hand is one of the batch, hence of the outbox.
LEMMA AlertsInHand ==
  ASSUME AlertsTyped, NEW d \in Dispatchers, desk[d].pc # "fetch"
  PROVE  Outbox!InHand(d) \in desk[d].batch /\ Outbox!InHand(d) \in Outbox!Rows
<1>1. desk[d].batch \in SUBSET Nat /\ desk[d].batch # {} /\ desk[d].batch \subseteq Outbox!Rows
  BY AlertsRows DEF AlertsTyped
<1>2. \E r \in desk[d].batch : \A s \in desk[d].batch : r <= s BY <1>1, LeastNumber
<1> QED BY <1>1, <1>2 DEF Outbox!InHand

\* Cardinalities are the same inside and outside the instance.
LEMMA AlertsCount == \A S : Outbox!Cardinality(S) = Cardinality(S)
  BY DEF Outbox!Cardinality, Cardinality

\* Counting the mails of some keys gives a number.
LEMMA MailsType ==
  ASSUME AlertsTyped, NEW S
  PROVE  IsFiniteSet({m \in log : m[1] \in S}) /\ Outbox!Mails(S) \in Nat
<1>1. {m \in log : m[1] \in S} \in SUBSET log OBVIOUS
<1>2. IsFiniteSet({m \in log : m[1] \in S}) BY <1>1, FS_Subset DEF AlertsTyped
<1>3. Cardinality({m \in log : m[1] \in S}) \in Nat BY <1>2, FS_CardinalityType
<1>4. Outbox!Mails(S) = Cardinality({m \in log : m[1] \in S}) BY AlertsCount DEF Outbox!Mails
<1> QED BY <1>2, <1>3, <1>4

LEMMA AlertsTypedInit == Outbox!Init => AlertsTyped
  BY FS_EmptySet DEF Outbox!Init, AlertsTyped, Outbox!Waiting, Outbox!Rows, Outbox!Kinds

\* A change of the columns of one row leaves an outbox.
LEMMA AlertsRowChanged ==
  ASSUME AlertsTyped, NEW r \in Outbox!Rows, NEW v \in AlertsRow,
         outbox' = [outbox EXCEPT ![r] = v]
  PROVE  outbox' \in Seq(AlertsRow) /\ Outbox!Rows' = Outbox!Rows
         /\ outbox' = [q \in Outbox!Rows |-> IF q = r THEN v ELSE outbox[q]]
<1>1. r \in 1 .. Len(outbox) BY AlertsRows
<1>2. outbox' \in Seq(AlertsRow) /\ DOMAIN outbox' = DOMAIN outbox
  BY <1>1, ExceptSeq DEF AlertsTyped
<1>3. outbox' = [q \in DOMAIN outbox |-> IF q = r THEN v ELSE outbox[q]]
  OBVIOUS
<1> QED BY <1>2, <1>3 DEF Outbox!Rows

LEMMA AlertsRowTyped == ASSUME AlertsTyped, NEW r \in Outbox!Rows PROVE outbox[r] \in AlertsRow
  BY AlertsRows, ElementOfSeq DEF AlertsTyped

\* A step to the next row of a batch leaves the loops well typed.
LEMMA AlertsNextRow ==
  ASSUME AlertsTyped, NEW d \in Dispatchers, Outbox!NextRow(d)
  PROVE  /\ desk' \in [Dispatchers -> [pc : {"fetch", "judge", "mail", "record", "mark"},
                                       batch : SUBSET Outbox!Rows]]
         /\ \A e \in Dispatchers : desk'[e].pc # "fetch" => desk'[e].batch # {}
         /\ \A e \in Dispatchers \ {d} : desk'[e] = desk[e]
         /\ desk'[d].pc \in {"fetch", "judge"}
  BY DEF AlertsTyped, Outbox!NextRow, Outbox!Waiting

\* So does a step within a row.
LEMMA AlertsGo ==
  ASSUME AlertsTyped, NEW d \in Dispatchers, NEW pc \in {"mail", "record", "mark"},
         ~Outbox!At(d, "fetch"), Outbox!Go(d, pc)
  PROVE  /\ desk' \in [Dispatchers -> [pc : {"fetch", "judge", "mail", "record", "mark"},
                                       batch : SUBSET Outbox!Rows]]
         /\ \A e \in Dispatchers : desk'[e].pc # "fetch" => desk'[e].batch # {}
         /\ \A e \in Dispatchers \ {d} : desk'[e] = desk[e]
         /\ desk'[d].pc = pc /\ desk'[d].batch = desk[d].batch
  BY DEF AlertsTyped, Outbox!Go, Outbox!At

\* The row in hand is suppressed, with what was in the log.
AlertsSuppress(r) == outbox' = [outbox EXCEPT
  ![r].status = "suppressed", ![r].rivals = Outbox!Mails(Outbox!Rivals(outbox[r].key)),
  ![r].own = Outbox!Mails(Outbox!SameSite(outbox[r].key))]
LEMMA AlertsSuppressed ==
  ASSUME AlertsTyped, NEW r \in Outbox!Rows, AlertsSuppress(r)
  PROVE  /\ outbox' \in Seq(AlertsRow) /\ Outbox!Rows' = Outbox!Rows
         /\ \A q \in Outbox!Rows \ {r} : outbox'[q] = outbox[q]
         /\ outbox'[r] = [outbox[r] EXCEPT
              !.status = "suppressed", !.rivals = Outbox!Mails(Outbox!Rivals(outbox[r].key)),
              !.own = Outbox!Mails(Outbox!SameSite(outbox[r].key))]
<1> DEFINE m == Outbox!Mails(Outbox!Rivals(outbox[r].key))
<1> DEFINE n == Outbox!Mails(Outbox!SameSite(outbox[r].key))
<1> DEFINE v == [outbox[r] EXCEPT !.status = "suppressed", !.rivals = m, !.own = n]
<1>1. m \in Nat /\ n \in Nat BY MailsType
<1>2. outbox' = [outbox EXCEPT ![r].status = "suppressed", ![r].rivals = m, ![r].own = n]
  BY DEF AlertsSuppress
<1>3. outbox[r] \in AlertsRow BY AlertsRowTyped
<1> HIDE DEF m, n
<1>4. outbox' = [outbox EXCEPT ![r] = v] BY <1>2, <1>3 DEF Outbox!Rows, AlertsRow
<1>5. v \in AlertsRow BY <1>1, <1>3 DEF AlertsRow
<1>6. /\ outbox' \in Seq(AlertsRow) /\ Outbox!Rows' = Outbox!Rows
      /\ outbox' = [q \in Outbox!Rows |-> IF q = r THEN v ELSE outbox[q]]
  BY <1>4, <1>5, AlertsRowChanged
<1> QED BY <1>6 DEF m, n

\* Each step keeps the types.
LEMMA AlertsTypedNext == AlertsTyped /\ [Outbox!Next]_(Outbox!vars) => AlertsTyped'
<1> SUFFICES ASSUME AlertsTyped, [Outbox!Next]_(Outbox!vars) PROVE AlertsTyped'
  OBVIOUS
<1>1. ASSUME NEW k \in Keys, Outbox!Enqueue(k) PROVE AlertsTyped'
  <2>1. outbox' \in Seq(AlertsRow) /\ Outbox!Rows \subseteq Outbox!Rows'
    <3> DEFINE r == CHOOSE x \in Outbox!Into(k) : \A y \in Outbox!Into(k) : y <= x
    <3> HIDE DEF r
    <3>1. CASE Outbox!Into(k) # {} /\ outbox' = [outbox EXCEPT ![r].count = @ + 1]
      <4>2. CASE r \in Outbox!Rows
        <5>0. outbox[r] \in AlertsRow BY <4>2, AlertsRowTyped
        <5>1. [outbox[r] EXCEPT !.count = @ + 1] \in AlertsRow BY <5>0 DEF AlertsRow
        <5> QED BY <3>1, <4>2, <5>1, AlertsRowChanged
      <4>3. CASE r \notin Outbox!Rows
        <5>1. outbox' = outbox BY <3>1, <4>3 DEF Outbox!Rows, AlertsTyped
        <5> QED BY <5>1 DEF AlertsTyped, Outbox!Rows
      <4> QED BY <4>2, <4>3
    <3>2. CASE outbox' = Append(outbox, Outbox!NewRow(k))
      <4>1. Outbox!NewRow(k) \in AlertsRow BY DEF Outbox!NewRow, AlertsRow
      <4>2. outbox' \in Seq(AlertsRow) /\ Len(outbox') = Len(outbox) + 1
        BY <3>2, <4>1, AppendProperties DEF AlertsTyped
      <4>3. Outbox!Rows = 1 .. Len(outbox) /\ Len(outbox) \in Nat
        BY AlertsRows, LenProperties DEF AlertsTyped
      <4>4. Outbox!Rows' = 1 .. Len(outbox') BY <4>2, LenProperties DEF Outbox!Rows
      <4> QED BY <4>2, <4>3, <4>4
    <3> QED BY <1>1, <3>1, <3>2 DEF Outbox!Enqueue, r
  <2>2. used' \subseteq Outbox!Kinds BY <1>1 DEF Outbox!Enqueue, Outbox!Happens, AlertsTyped
  <2> QED BY <1>1, <2>1, <2>2 DEF Outbox!Enqueue, AlertsTyped
<1>2. CASE Outbox!HourPasses
  <2>1. \A r \in Outbox!Rows : [outbox[r] EXCEPT !.recent = FALSE] \in AlertsRow
    BY AlertsRowTyped DEF AlertsRow
  <2>2. outbox' \in [1 .. Len(outbox) -> AlertsRow] /\ Len(outbox) \in Nat
    BY <1>2, <2>1, AlertsRows, LenProperties DEF Outbox!HourPasses, AlertsTyped
  <2>3. outbox' \in Seq(AlertsRow) BY <2>2, SeqDef
  <2>4. Outbox!Rows' = Outbox!Rows BY <1>2 DEF Outbox!HourPasses, Outbox!Rows
  <2>5. used' \subseteq Outbox!Kinds BY <1>2 DEF Outbox!HourPasses, Outbox!Happens, AlertsTyped
  <2> QED BY <1>2, <2>3, <2>4, <2>5, FS_EmptySet DEF Outbox!HourPasses, AlertsTyped
<1>3. ASSUME NEW d \in Dispatchers, Outbox!Fetch(d) PROVE AlertsTyped'
  BY <1>3 DEF Outbox!Fetch, AlertsTyped, Outbox!Rows
<1>4. ASSUME NEW d \in Dispatchers, Outbox!Judge(d) PROVE AlertsTyped'
  <2>1. Outbox!InHand(d) \in Outbox!Rows BY <1>4, AlertsInHand DEF Outbox!Judge, Outbox!At
  <2>2. CASE Outbox!Go(d, "mail") /\ UNCHANGED <<outbox, log>>
    BY <1>4, <2>2, AlertsGo DEF Outbox!Judge, Outbox!At, AlertsTyped, Outbox!Rows, Outbox!Happens
  <2>3. CASE Outbox!NextRow(d) /\ UNCHANGED <<used, log>> /\ AlertsSuppress(Outbox!InHand(d))
    BY <2>1, <2>3, AlertsSuppressed, AlertsNextRow DEF AlertsTyped
  <2> QED BY <1>4, <2>2, <2>3 DEF Outbox!Judge, AlertsSuppress
<1>5. ASSUME NEW d \in Dispatchers, Outbox!Mail(d) PROVE AlertsTyped'
  <2> DEFINE r == Outbox!InHand(d)
  <2>1. r \in Outbox!Rows /\ outbox[r] \in AlertsRow
    BY <1>5, AlertsInHand, AlertsRowTyped DEF Outbox!Mail, Outbox!At
  <2>2. CASE Outbox!Go(d, "record") /\ outbox' = [outbox EXCEPT ![r].mails = @ + 1] /\ UNCHANGED <<used, log>>
    <3>1. [outbox[r] EXCEPT !.mails = @ + 1] \in AlertsRow BY <2>1 DEF AlertsRow
    <3>2. outbox' \in Seq(AlertsRow) /\ Outbox!Rows' = Outbox!Rows
      BY <2>1, <2>2, <3>1, AlertsRowChanged
    <3> QED BY <1>5, <2>2, <3>2, AlertsGo DEF Outbox!Mail, Outbox!At, AlertsTyped
  <2>3. CASE Outbox!Happens("bounce") /\ Outbox!NextRow(d)
             /\ outbox' = [outbox EXCEPT ![r].status = "failed"] /\ UNCHANGED log
    <3>1. [outbox[r] EXCEPT !.status = "failed"] \in AlertsRow BY <2>1 DEF AlertsRow
    <3>2. outbox' \in Seq(AlertsRow) /\ Outbox!Rows' = Outbox!Rows
      BY <2>1, <2>3, <3>1, AlertsRowChanged
    <3>3. used' \subseteq Outbox!Kinds BY <2>3 DEF Outbox!Happens, AlertsTyped
    <3> QED BY <2>3, <3>2, <3>3, AlertsNextRow DEF AlertsTyped
  <2> QED BY <1>5, <2>2, <2>3 DEF Outbox!Mail
<1>6. ASSUME NEW d \in Dispatchers, Outbox!Record(d) PROVE AlertsTyped'
  <2>1. Outbox!InHand(d) \in Outbox!Rows BY <1>6, AlertsInHand DEF Outbox!Record, Outbox!At
  <2>2. outbox[Outbox!InHand(d)].key \in Keys BY <2>1, AlertsRowTyped DEF AlertsRow
  <2>3. log' \subseteq Keys \X Nat /\ IsFiniteSet(log')
    <3>1. CASE UNCHANGED log BY <3>1 DEF AlertsTyped
    <3>2. CASE log' = log \cup {<<outbox[Outbox!InHand(d)].key, Outbox!Mails({outbox[Outbox!InHand(d)].key}) + 1>>}
      <4>1. Outbox!Mails({outbox[Outbox!InHand(d)].key}) \in Nat BY MailsType
      <4>2. IsFiniteSet(log) /\ log \subseteq Keys \X Nat BY DEF AlertsTyped
      <4>3. IsFiniteSet(log') BY <3>2, <4>2, FS_AddElement
      <4> QED BY <3>2, <4>1, <4>2, <4>3, <2>2
    <3> QED BY <1>6, <3>1, <3>2 DEF Outbox!Record
  <2>4. Outbox!Rows' = Outbox!Rows /\ outbox' \in Seq(AlertsRow)
    BY <1>6 DEF Outbox!Record, Outbox!Rows, AlertsTyped
  <2>5. used' \subseteq Outbox!Kinds BY <1>6 DEF Outbox!Record, Outbox!Happens, AlertsTyped
  <2>6. Outbox!Go(d, "mark") /\ ~Outbox!At(d, "fetch") BY <1>6 DEF Outbox!Record, Outbox!At
  <2> QED BY <2>3, <2>4, <2>5, <2>6, AlertsGo DEF AlertsTyped
<1>7. ASSUME NEW d \in Dispatchers, Outbox!MarkSent(d) PROVE AlertsTyped'
  <2> DEFINE r == Outbox!InHand(d)
  <2>1. r \in Outbox!Rows /\ outbox[r] \in AlertsRow
    BY <1>7, AlertsInHand, AlertsRowTyped DEF Outbox!MarkSent, Outbox!At
  <2>2. outbox' \in Seq(AlertsRow) /\ Outbox!Rows' = Outbox!Rows
    <3>1. CASE outbox' = [outbox EXCEPT ![r].status = "sent", ![r].recent = TRUE]
      <4>1. [outbox[r] EXCEPT !.status = "sent", !.recent = TRUE] \in AlertsRow BY <2>1 DEF AlertsRow
      <4>2. outbox' = [outbox EXCEPT ![r] = [outbox[r] EXCEPT !.status = "sent", !.recent = TRUE]]
        BY <3>1, <2>1 DEF Outbox!Rows
      <4> QED BY <2>1, <4>1, <4>2, AlertsRowChanged
    <3>2. CASE UNCHANGED outbox BY <3>2 DEF AlertsTyped, Outbox!Rows
    <3> QED BY <1>7, <3>1, <3>2 DEF Outbox!MarkSent
  <2>3. used' \subseteq Outbox!Kinds BY <1>7 DEF Outbox!MarkSent, Outbox!Happens, AlertsTyped
  <2> QED BY <1>7, <2>2, <2>3, AlertsNextRow DEF Outbox!MarkSent, AlertsTyped
<1>8. ASSUME NEW d \in Dispatchers, Outbox!Dies(d) PROVE AlertsTyped'
  BY <1>8 DEF Outbox!Dies, Outbox!Waiting, AlertsTyped, Outbox!Happens, Outbox!Rows
<1>9. CASE UNCHANGED Outbox!vars
  BY <1>9 DEF Outbox!vars, AlertsTyped, Outbox!Rows
<1> QED BY <1>1, <1>2, <1>3, <1>4, <1>5, <1>6, <1>7, <1>8, <1>9 DEF Outbox!Next

LEMMA AlertsAlwaysTyped == Outbox!Spec => []AlertsTyped
  BY AlertsTypedInit, AlertsTypedNext, PTL DEF Outbox!Spec

\* A set of mails counts at most those of two sets that cover it.
LEMMA MailsCovered ==
  ASSUME AlertsTyped, NEW S, NEW T, NEW U, S \cap Keys \subseteq T \cup U
  PROVE  Outbox!Mails(S) <= Outbox!Mails(T) + Outbox!Mails(U)
<1> DEFINE Of(X) == {m \in log : m[1] \in X}
<1>1. \A m \in log : m[1] \in Keys BY DEF AlertsTyped
<1>2. Of(S) \subseteq Of(T) \cup Of(U) BY <1>1
<1>3. IsFiniteSet(Of(S)) /\ IsFiniteSet(Of(T)) /\ IsFiniteSet(Of(U)) BY MailsType
<1>4. /\ Cardinality(Of(S)) \in Nat /\ Cardinality(Of(T)) \in Nat /\ Cardinality(Of(U)) \in Nat
      /\ Cardinality(Of(T) \cap Of(U)) \in Nat
  <2>1. IsFiniteSet(Of(T) \cap Of(U)) BY <1>3, FS_Intersection
  <2> QED BY <1>3, <2>1, FS_CardinalityType
<1>5. IsFiniteSet(Of(T) \cup Of(U))
      /\ Cardinality(Of(T) \cup Of(U)) = Cardinality(Of(T)) + Cardinality(Of(U)) - Cardinality(Of(T) \cap Of(U))
  BY <1>3, FS_Union
<1>6. Cardinality(Of(S)) <= Cardinality(Of(T) \cup Of(U)) BY <1>2, <1>5, FS_Subset
<1>7. /\ Outbox!Mails(S) = Cardinality(Of(S)) /\ Outbox!Mails(T) = Cardinality(Of(T))
      /\ Outbox!Mails(U) = Cardinality(Of(U))
  BY AlertsCount DEF Outbox!Mails
<1> HIDE DEF Of
<1> QED BY <1>4, <1>5, <1>6, <1>7

LEMMA NoisyNumbers ==
  ASSUME AlertsQuotas, AlertsTyped
  PROVE  /\ Cardinality(NoisyMails) \in Nat /\ Cardinality(NoisyUnderWay) \in Nat
         /\ IsFiniteSet(NoisyMails) /\ IsFiniteSet(NoisyUnderWay)
         /\ Cardinality(used \cap {"blind"}) \in Nat /\ Cardinality(Dispatchers) \in Nat
         /\ Cardinality(NoisyMails) = Outbox!Mails(Noisy \ Critical)
<1>1. NoisyUnderWay \in SUBSET Dispatchers BY DEF NoisyUnderWay
<1>2. IsFiniteSet(NoisyMails) BY MailsType DEF NoisyMails
<1>3. IsFiniteSet(NoisyUnderWay) BY <1>1, FS_Subset DEF AlertsQuotas
<1>4. IsFiniteSet(used \cap {"blind"}) BY FS_Singleton, FS_Subset
<1>5. Cardinality(NoisyMails) = Outbox!Mails(Noisy \ Critical)
  BY AlertsCount DEF Outbox!Mails, NoisyMails
<1> QED BY <1>2, <1>3, <1>4, <1>5, FS_CardinalityType DEF AlertsQuotas

LEMMA OneMore ==
  ASSUME NEW S, IsFiniteSet(S), NEW x, NEW T \in SUBSET (S \cup {x})
  PROVE  IsFiniteSet(T) /\ Cardinality(T) \in Nat /\ Cardinality(T) <= Cardinality(S) + 1
<1>1. IsFiniteSet(S \cup {x}) /\ Cardinality(S \cup {x}) \in Nat BY FS_AddElement, FS_CardinalityType
<1>2. Cardinality(S) \in Nat BY FS_CardinalityType
<1>3. Cardinality(S \cup {x}) <= Cardinality(S) + 1
  <2>1. CASE x \in S
    <3>1. S \cup {x} = S BY <2>1
    <3> QED BY <1>2, <3>1
  <2>2. CASE x \notin S
    <3>1. Cardinality(S \cup {x}) = Cardinality(S) + 1 BY <2>2, FS_AddElement
    <3> QED BY <1>2, <3>1
  <2> QED BY <2>1, <2>2
<1>4. IsFiniteSet(T) /\ Cardinality(T) <= Cardinality(S \cup {x}) BY <1>1, FS_Subset
<1>5. Cardinality(T) \in Nat BY <1>4, FS_CardinalityType
<1> QED BY <1>1, <1>2, <1>3, <1>4, <1>5

LEMMA BlindNumber ==
  ASSUME NEW U PROVE IsFiniteSet(U \cap {"blind"}) /\ Cardinality(U \cap {"blind"}) \in Nat
<1>1. IsFiniteSet({"blind"}) /\ U \cap {"blind"} \in SUBSET {"blind"} BY FS_Singleton
<1> QED BY <1>1, FS_Subset, FS_CardinalityType

\* A step that lets no dispatcher pass the quota and writes no mail keeps the bound.
LEMMA NoisyFewer ==
  ASSUME AlertsQuotas, AlertsTyped, NoisyBounded, log' \subseteq log,
         used \subseteq used', NoisyUnderWay' \subseteq NoisyUnderWay
  PROVE  NoisyBounded'
<1>1. NoisyMails' \in SUBSET NoisyMails BY DEF NoisyMails
<1>2. IsFiniteSet(NoisyMails') /\ Cardinality(NoisyMails') <= Cardinality(NoisyMails)
  BY <1>1, NoisyNumbers, FS_Subset
<1>3. IsFiniteSet(NoisyUnderWay') /\ Cardinality(NoisyUnderWay') <= Cardinality(NoisyUnderWay)
  BY NoisyNumbers, FS_Subset
<1>4. Cardinality(used \cap {"blind"}) <= Cardinality(used' \cap {"blind"})
  <2>1. used \cap {"blind"} \in SUBSET (used' \cap {"blind"}) OBVIOUS
  <2> QED BY <2>1, BlindNumber, FS_Subset
<1>5. /\ Cardinality(NoisyMails') \in Nat /\ Cardinality(NoisyUnderWay') \in Nat
      /\ Cardinality(used' \cap {"blind"}) \in Nat
  BY <1>2, <1>3, BlindNumber, FS_CardinalityType
<1> HIDE DEF NoisyMails, NoisyUnderWay
<1> QED BY <1>2, <1>3, <1>4, <1>5, NoisyNumbers DEF NoisyBounded, AlertsQuotas

\* A dispatcher that passes the quota of the site adds itself to those under way, of
\* which there are no more than dispatchers.
LEMMA NoisyAllowed ==
  ASSUME AlertsQuotas, AlertsTyped, UNCHANGED <<log, used>>,
         Outbox!Mails(Noisy \ Critical) < Quota["site"]
  PROVE  NoisyBounded'
<1>1. NoisyMails' = NoisyMails BY DEF NoisyMails
<1>2. NoisyUnderWay' \in SUBSET Dispatchers BY DEF NoisyUnderWay
<1>3. Cardinality(NoisyUnderWay') \in Nat /\ Cardinality(NoisyUnderWay') <= Cardinality(Dispatchers)
  BY <1>2, FS_Subset, FS_CardinalityType DEF AlertsQuotas
<1> QED BY <1>1, <1>3, NoisyNumbers DEF NoisyBounded, AlertsQuotas

\* A dispatcher that could not count adds itself, and what nobody could count.
LEMMA NoisyBlind ==
  ASSUME AlertsQuotas, AlertsTyped, NoisyBounded, UNCHANGED log, Outbox!Happens("blind"),
         NEW d \in Dispatchers, NoisyUnderWay' \subseteq NoisyUnderWay \cup {d}
  PROVE  NoisyBounded'
<1>1. NoisyMails' = NoisyMails BY DEF NoisyMails
<1>3. /\ Cardinality(NoisyUnderWay') <= Cardinality(NoisyUnderWay) + 1
      /\ Cardinality(NoisyUnderWay') \in Nat
  BY NoisyNumbers, OneMore
<1>4. used \cap {"blind"} = {} /\ used' \cap {"blind"} = {"blind"} BY DEF Outbox!Happens
<1>5. Cardinality(used \cap {"blind"}) = 0 /\ Cardinality(used' \cap {"blind"}) = 1
  BY <1>4, FS_EmptySet, FS_Singleton
<1> QED BY <1>1, <1>3, <1>5, NoisyNumbers DEF NoisyBounded, AlertsQuotas

\* A mail that is written to the log is no longer under way.
LEMMA NoisyWritten ==
  ASSUME AlertsQuotas, AlertsTyped, NoisyBounded, UNCHANGED used, NEW m, log' = log \cup {m},
         NEW d \in NoisyUnderWay, NoisyUnderWay' = NoisyUnderWay \ {d}
  PROVE  NoisyBounded'
<1>1. NoisyMails' \in SUBSET (NoisyMails \cup {m}) BY DEF NoisyMails
<1>3. Cardinality(NoisyMails') <= Cardinality(NoisyMails) + 1 /\ Cardinality(NoisyMails') \in Nat
  BY <1>1, NoisyNumbers, OneMore
<1>4. Cardinality(NoisyUnderWay') = Cardinality(NoisyUnderWay) - 1
  BY NoisyNumbers, FS_RemoveElement
<1> QED BY <1>3, <1>4, NoisyNumbers DEF NoisyBounded, AlertsQuotas

\* Rows keep their keys.
LEMMA AlertsKeysKept ==
  ASSUME AlertsTyped, [Outbox!Next]_(Outbox!vars)
  PROVE  \A r \in Outbox!Rows : r \in Outbox!Rows' /\ outbox'[r].key = outbox[r].key
<1>0. \A r \in Outbox!Rows : outbox[r] \in AlertsRow BY AlertsRowTyped
<1>1. ASSUME NEW k \in Keys, Outbox!Enqueue(k)
      PROVE \A r \in Outbox!Rows : r \in Outbox!Rows' /\ outbox'[r].key = outbox[r].key
  <2> DEFINE q == CHOOSE x \in Outbox!Into(k) : \A y \in Outbox!Into(k) : y <= x
  <2> HIDE DEF q
  <2>1. CASE outbox' = [outbox EXCEPT ![q].count = @ + 1]
    BY <1>0, <2>1 DEF Outbox!Rows, AlertsRow
  <2>2. CASE outbox' = Append(outbox, Outbox!NewRow(k))
    BY <2>2, AppendProperties, LenProperties DEF AlertsTyped, Outbox!Rows
  <2> QED BY <1>1, <2>1, <2>2 DEF Outbox!Enqueue, q
<1>2. ASSUME NEW d \in Dispatchers, Outbox!Judge(d)
      PROVE \A r \in Outbox!Rows : r \in Outbox!Rows' /\ outbox'[r].key = outbox[r].key
  <2>1. Outbox!InHand(d) \in Outbox!Rows BY <1>2, AlertsInHand DEF Outbox!Judge, Outbox!At
  <2>2. CASE AlertsSuppress(Outbox!InHand(d))
    BY <1>0, <2>1, <2>2, AlertsSuppressed DEF AlertsRow
  <2>3. CASE UNCHANGED outbox BY <2>3 DEF Outbox!Rows
  <2> QED BY <1>2, <2>2, <2>3 DEF Outbox!Judge, AlertsSuppress
<1>3. ASSUME NEW d \in Dispatchers, Outbox!Mail(d) \/ Outbox!MarkSent(d)
      PROVE \A r \in Outbox!Rows : r \in Outbox!Rows' /\ outbox'[r].key = outbox[r].key
  <2> DEFINE q == Outbox!InHand(d)
  <2> HIDE DEF q
  <2>1. CASE outbox' = [outbox EXCEPT ![q].mails = @ + 1] BY <1>0, <2>1 DEF Outbox!Rows, AlertsRow
  <2>2. CASE outbox' = [outbox EXCEPT ![q].status = "failed"] BY <1>0, <2>2 DEF Outbox!Rows, AlertsRow
  <2>3. CASE outbox' = [outbox EXCEPT ![q].status = "sent", ![q].recent = TRUE]
    BY <1>0, <2>3 DEF Outbox!Rows, AlertsRow
  <2>4. CASE UNCHANGED outbox BY <2>4 DEF Outbox!Rows
  <2> QED BY <1>3, <2>1, <2>2, <2>3, <2>4 DEF Outbox!Mail, Outbox!MarkSent, q
<1>4. CASE Outbox!HourPasses BY <1>0, <1>4 DEF Outbox!HourPasses, Outbox!Rows, AlertsRow
<1>5. CASE UNCHANGED outbox BY <1>5 DEF Outbox!Rows
<1> QED BY <1>1, <1>2, <1>3, <1>4, <1>5
  DEF Outbox!Next, Outbox!vars, Outbox!Fetch, Outbox!Record, Outbox!Dies

\* Who is under way changes with the one dispatcher that moves.
LEMMA NoisyMoves ==
  ASSUME AlertsTyped, [Outbox!Next]_(Outbox!vars), NEW d \in Dispatchers,
         \A e \in Dispatchers \ {d} : desk'[e] = desk[e]
  PROVE  /\ NoisyUnderWay' \ {d} = NoisyUnderWay \ {d}
         /\ desk'[d].pc \notin {"mail", "record"} => d \notin NoisyUnderWay'
         /\ desk'[d].pc \in {"mail", "record"} /\ desk'[d].batch = desk[d].batch
              /\ desk[d].pc # "fetch" =>
              (d \in NoisyUnderWay' <=> outbox[Outbox!InHand(d)].key \in Noisy \ Critical)
<1>1. ASSUME NEW e \in Dispatchers, desk[e].pc # "fetch", desk'[e].batch = desk[e].batch
      PROVE  outbox'[Outbox!InHand(e)'].key = outbox[Outbox!InHand(e)].key
  <2>1. Outbox!InHand(e)' = Outbox!InHand(e) BY <1>1 DEF Outbox!InHand
  <2>2. Outbox!InHand(e) \in Outbox!Rows BY <1>1, AlertsInHand
  <2> QED BY <2>1, <2>2, AlertsKeysKept
<1>2. \A e \in Dispatchers \ {d} : e \in NoisyUnderWay' <=> e \in NoisyUnderWay
  BY <1>1 DEF NoisyUnderWay
<1>3. NoisyUnderWay \subseteq Dispatchers /\ NoisyUnderWay' \subseteq Dispatchers
  BY DEF NoisyUnderWay
<1>4. NoisyUnderWay' \ {d} = NoisyUnderWay \ {d} BY <1>2, <1>3
<1> QED BY <1>1, <1>4 DEF NoisyUnderWay

LEMMA NoisyInit == ASSUME AlertsQuotas PROVE Outbox!Init => NoisyBounded
<1> SUFFICES ASSUME Outbox!Init PROVE NoisyBounded
  OBVIOUS
<1>1. NoisyMails = {} /\ NoisyUnderWay = {} /\ used \cap {"blind"} = {}
  BY DEF Outbox!Init, NoisyMails, NoisyUnderWay, Outbox!Waiting
<1>2. Cardinality(Dispatchers) \in Nat /\ Cardinality(Dispatchers) # 0
  BY FS_CardinalityType, FS_EmptySet DEF AlertsQuotas
<1>3. Cardinality({}) = 0 BY FS_EmptySet
<1> QED BY <1>1, <1>2, <1>3 DEF NoisyBounded, AlertsQuotas

LEMMA NoisyNext ==
  ASSUME AlertsQuotas
  PROVE  AlertsTyped /\ NoisyBounded /\ [Outbox!Next]_(Outbox!vars) => NoisyBounded'
<1> SUFFICES ASSUME AlertsTyped, NoisyBounded, [Outbox!Next]_(Outbox!vars) PROVE NoisyBounded'
  OBVIOUS
<1>1. ASSUME UNCHANGED desk, log' \subseteq log, used \subseteq used' PROVE NoisyBounded'
  <2>1. NoisyUnderWay' = NoisyUnderWay
    <3>1. ASSUME NEW e \in Dispatchers, desk[e].pc # "fetch"
          PROVE  outbox'[Outbox!InHand(e)'].key = outbox[Outbox!InHand(e)].key
      <4>1. Outbox!InHand(e)' = Outbox!InHand(e) BY <1>1 DEF Outbox!InHand
      <4> QED BY <3>1, <4>1, AlertsInHand, AlertsKeysKept
    <3> QED BY <1>1, <3>1 DEF NoisyUnderWay
  <2> QED BY <1>1, <2>1, NoisyFewer
<1>2. ASSUME NEW k \in Keys, Outbox!Enqueue(k) PROVE NoisyBounded'
  BY <1>1, <1>2 DEF Outbox!Enqueue, Outbox!Happens
<1>3. CASE Outbox!HourPasses BY <1>1, <1>3 DEF Outbox!HourPasses, Outbox!Happens
<1>4. CASE UNCHANGED Outbox!vars BY <1>1, <1>4 DEF Outbox!vars
\* The steps of a dispatcher that leave it before its judgement or after the log.
<1>5. ASSUME NEW d \in Dispatchers, \A e \in Dispatchers \ {d} : desk'[e] = desk[e],
             desk'[d].pc \notin {"mail", "record"}, log' \subseteq log, used \subseteq used'
      PROVE  NoisyBounded'
  <2>1. NoisyUnderWay' \subseteq NoisyUnderWay BY <1>5, NoisyMoves
  <2> QED BY <1>5, <2>1, NoisyFewer
<1>6. ASSUME NEW d \in Dispatchers, Outbox!Fetch(d) PROVE NoisyBounded'
  <2>1. /\ \A e \in Dispatchers \ {d} : desk'[e] = desk[e]
        /\ desk'[d].pc \notin {"mail", "record"}
    BY <1>6 DEF Outbox!Fetch, AlertsTyped
  <2> QED BY <1>5, <1>6, <2>1 DEF Outbox!Fetch
<1>7. ASSUME NEW d \in Dispatchers, Outbox!Judge(d) PROVE NoisyBounded'
  <2> DEFINE k == outbox[Outbox!InHand(d)].key
  <2>0. desk[d].pc = "judge" /\ ~Outbox!At(d, "fetch") /\ UNCHANGED log
    BY <1>7 DEF Outbox!Judge, Outbox!At
  <2>1. CASE Outbox!CanSend(k) /\ Outbox!Go(d, "mail") /\ UNCHANGED used
    <3>1. CASE k \in Noisy \ Critical
      <4>1. Outbox!SameSite(k) = Noisy \ Critical BY <3>1 DEF Outbox!SameSite
      <4>2. Outbox!Mails(Noisy \ Critical) < Quota["site"]
        BY <2>1, <3>1, <4>1 DEF Outbox!CanSend
      <4> QED BY <2>0, <2>1, <4>2, NoisyAllowed
    <3>2. CASE k \notin Noisy \ Critical
      <4>1. /\ \A e \in Dispatchers \ {d} : desk'[e] = desk[e]
            /\ desk'[d].pc = "mail" /\ desk'[d].batch = desk[d].batch
        BY <2>0, <2>1, AlertsGo
      <4>2. NoisyUnderWay' \subseteq NoisyUnderWay BY <2>0, <3>2, <4>1, NoisyMoves
      <4> QED BY <2>0, <2>1, <4>2, NoisyFewer
    <3> QED BY <3>1, <3>2
  <2>2. CASE Outbox!Happens("blind") /\ Outbox!Go(d, "mail")
    <3>1. \A e \in Dispatchers \ {d} : desk'[e] = desk[e] BY <2>0, <2>2, AlertsGo
    <3>2. NoisyUnderWay' \subseteq NoisyUnderWay \cup {d} BY <3>1, NoisyMoves
    <3> QED BY <2>0, <2>2, <3>2, NoisyBlind
  <2>3. CASE Outbox!NextRow(d) /\ UNCHANGED used
    <3>1. /\ \A e \in Dispatchers \ {d} : desk'[e] = desk[e]
          /\ desk'[d].pc \notin {"mail", "record"}
      BY <2>3, AlertsNextRow
    <3> QED BY <1>5, <2>0, <2>3, <3>1
  <2> QED BY <1>7, <2>1, <2>2, <2>3 DEF Outbox!Judge
<1>8. ASSUME NEW d \in Dispatchers, Outbox!Mail(d) PROVE NoisyBounded'
  <2>0. desk[d].pc = "mail" /\ ~Outbox!At(d, "fetch") /\ UNCHANGED log
    BY <1>8 DEF Outbox!Mail, Outbox!At
  <2>1. CASE Outbox!Go(d, "record") /\ UNCHANGED used
    <3>1. /\ \A e \in Dispatchers \ {d} : desk'[e] = desk[e]
          /\ desk'[d].pc = "record" /\ desk'[d].batch = desk[d].batch
      BY <2>0, <2>1, AlertsGo
    <3>2. d \in NoisyUnderWay' => d \in NoisyUnderWay
      BY <2>0, <3>1, NoisyMoves DEF NoisyUnderWay
    <3>3. NoisyUnderWay' \subseteq NoisyUnderWay BY <3>1, <3>2, NoisyMoves
    <3> QED BY <2>0, <2>1, <3>3, NoisyFewer
  <2>2. CASE Outbox!Happens("bounce") /\ Outbox!NextRow(d)
    <3>1. /\ \A e \in Dispatchers \ {d} : desk'[e] = desk[e]
          /\ desk'[d].pc \notin {"mail", "record"}
      BY <2>2, AlertsNextRow
    <3> QED BY <1>5, <2>0, <2>2, <3>1 DEF Outbox!Happens
  <2> QED BY <1>8, <2>1, <2>2 DEF Outbox!Mail
<1>9. ASSUME NEW d \in Dispatchers, Outbox!Record(d) PROVE NoisyBounded'
  <2> DEFINE k == outbox[Outbox!InHand(d)].key
  <2> DEFINE m == <<k, Outbox!Mails({k}) + 1>>
  <2>0. desk[d].pc = "record" /\ ~Outbox!At(d, "fetch") /\ Outbox!Go(d, "mark")
    BY <1>9 DEF Outbox!Record, Outbox!At
  <2>1. \A e \in Dispatchers \ {d} : desk'[e] = desk[e] /\ desk'[d].pc = "mark"
    BY <2>0, AlertsGo
  <2>2. desk'[d].pc = "mark" BY <2>0, AlertsGo
  <2>3. NoisyUnderWay' = NoisyUnderWay \ {d} BY <2>1, <2>2, NoisyMoves
  <2>4. CASE UNCHANGED log /\ used \subseteq used' BY <1>5, <2>1, <2>2, <2>4
  <2>5. CASE log' = log \cup {m} /\ UNCHANGED used
    <3>1. CASE k \in Noisy \ Critical
      <4>1. d \in NoisyUnderWay BY <2>0, <3>1 DEF NoisyUnderWay
      <4> HIDE DEF m
      <4> QED BY <2>3, <2>5, <4>1, NoisyWritten
    <3>2. CASE k \notin Noisy \ Critical
      <4>1. NoisyMails' = NoisyMails BY <2>5, <3>2 DEF NoisyMails
      <4>2. d \notin NoisyUnderWay BY <3>2 DEF NoisyUnderWay
      <4>3. NoisyUnderWay' = NoisyUnderWay BY <2>3, <4>2
      <4> QED BY <2>5, <4>1, <4>3 DEF NoisyBounded, AlertsQuotas
    <3> QED BY <3>1, <3>2
  <2> QED BY <1>9, <2>4, <2>5 DEF Outbox!Record, Outbox!Happens
<1>10. ASSUME NEW d \in Dispatchers, Outbox!MarkSent(d) PROVE NoisyBounded'
  <2>1. /\ \A e \in Dispatchers \ {d} : desk'[e] = desk[e]
        /\ desk'[d].pc \notin {"mail", "record"}
    BY <1>10, AlertsNextRow DEF Outbox!MarkSent
  <2> QED BY <1>5, <1>10, <2>1 DEF Outbox!MarkSent, Outbox!Happens
<1>11. ASSUME NEW d \in Dispatchers, Outbox!Dies(d) PROVE NoisyBounded'
  <2>1. /\ \A e \in Dispatchers \ {d} : desk'[e] = desk[e]
        /\ desk'[d].pc \notin {"mail", "record"}
    BY <1>11 DEF Outbox!Dies, Outbox!Waiting, AlertsTyped
  <2> QED BY <1>5, <1>11, <2>1 DEF Outbox!Dies, Outbox!Happens
<1> QED BY <1>2, <1>3, <1>4, <1>6, <1>7, <1>8, <1>9, <1>10, <1>11 DEF Outbox!Next

\* What a suppressed row was suppressed by stays a reason.
FairRow(w) == Outbox!FairlySuppressed(w.key, w.rivals, w.own)

\* A row that is suppressed now was suppressed already, or is the one just judged.
LEMMA AlertsSuppressedBefore ==
  ASSUME AlertsTyped, [Outbox!Next]_(Outbox!vars), NEW r \in Outbox!Rows',
         outbox'[r].status = "suppressed"
  PROVE  \/ /\ r \in Outbox!Rows /\ outbox[r].status = "suppressed"
            /\ outbox'[r].key = outbox[r].key /\ outbox'[r].rivals = outbox[r].rivals
            /\ outbox'[r].own = outbox[r].own
         \/ \E d \in Dispatchers :
              /\ ~Outbox!At(d, "fetch") /\ r = Outbox!InHand(d) /\ AlertsSuppress(r)
              /\ ~Outbox!CanSend(outbox[r].key) /\ UNCHANGED used
<1> DEFINE Before == /\ r \in Outbox!Rows /\ outbox[r].status = "suppressed"
                     /\ outbox'[r].key = outbox[r].key /\ outbox'[r].rivals = outbox[r].rivals
                     /\ outbox'[r].own = outbox[r].own
<1>0. \A q \in Outbox!Rows : outbox[q] \in AlertsRow BY AlertsRowTyped
<1>1. ASSUME NEW k \in Keys, Outbox!Enqueue(k) PROVE Before
  <2> DEFINE q == CHOOSE x \in Outbox!Into(k) : \A y \in Outbox!Into(k) : y <= x
  <2> HIDE DEF q
  <2>1. CASE outbox' = [outbox EXCEPT ![q].count = @ + 1]
    BY <1>0, <2>1 DEF Outbox!Rows, AlertsRow
  <2>2. CASE outbox' = Append(outbox, Outbox!NewRow(k))
    <3>1. /\ Outbox!Rows = 1 .. Len(outbox) /\ Outbox!Rows' = 1 .. Len(outbox) + 1
          /\ Len(outbox) \in Nat
      BY <2>2, AppendProperties, LenProperties DEF AlertsTyped, Outbox!Rows
    <3>2. /\ outbox'[Len(outbox) + 1] = Outbox!NewRow(k)
          /\ \A p \in 1 .. Len(outbox) : outbox'[p] = outbox[p]
      BY <2>2, AppendProperties DEF AlertsTyped
    <3>3. r # Len(outbox) + 1 BY <3>2 DEF Outbox!NewRow
    <3> QED BY <3>1, <3>2, <3>3
  <2> QED BY <1>1, <2>1, <2>2 DEF Outbox!Enqueue, q
<1>2. ASSUME Outbox!HourPasses PROVE Before
  BY <1>0, <1>2 DEF Outbox!HourPasses, Outbox!Rows, AlertsRow
<1>3. ASSUME UNCHANGED outbox PROVE Before
  BY <1>3 DEF Outbox!Rows
<1>4. ASSUME NEW d \in Dispatchers, Outbox!Mail(d) \/ Outbox!MarkSent(d) PROVE Before
  <2> DEFINE q == Outbox!InHand(d)
  <2> HIDE DEF q
  <2>1. CASE outbox' = [outbox EXCEPT ![q].mails = @ + 1] BY <1>0, <2>1 DEF Outbox!Rows, AlertsRow
  <2>2. CASE outbox' = [outbox EXCEPT ![q].status = "failed"] BY <1>0, <2>2 DEF Outbox!Rows, AlertsRow
  <2>3. CASE outbox' = [outbox EXCEPT ![q].status = "sent", ![q].recent = TRUE]
    BY <1>0, <2>3 DEF Outbox!Rows, AlertsRow
  <2>4. CASE UNCHANGED outbox BY <2>4 DEF Outbox!Rows
  <2> QED BY <1>4, <2>1, <2>2, <2>3, <2>4 DEF Outbox!Mail, Outbox!MarkSent, q
<1>5. ASSUME NEW d \in Dispatchers, Outbox!Judge(d), AlertsSuppress(Outbox!InHand(d)),
             ~Outbox!CanSend(outbox[Outbox!InHand(d)].key), UNCHANGED used
      PROVE  Before \/ /\ r = Outbox!InHand(d) /\ AlertsSuppress(r) /\ ~Outbox!At(d, "fetch")
                       /\ ~Outbox!CanSend(outbox[r].key)
  <2>1. ~Outbox!At(d, "fetch") BY <1>5 DEF Outbox!Judge, Outbox!At
  <2>2. Outbox!InHand(d) \in Outbox!Rows BY <2>1, AlertsInHand DEF Outbox!At
  <2>3. CASE r = Outbox!InHand(d) BY <1>5, <2>1, <2>3
  <2>4. CASE r # Outbox!InHand(d)
    BY <1>5, <2>2, <2>4, AlertsSuppressed
  <2> QED BY <2>3, <2>4
<1>6. ASSUME NEW d \in Dispatchers, Outbox!Judge(d), outbox' # outbox
      PROVE /\ AlertsSuppress(Outbox!InHand(d)) /\ UNCHANGED used
            /\ ~Outbox!CanSend(outbox[Outbox!InHand(d)].key)
  BY <1>6 DEF Outbox!Judge, AlertsSuppress
<1> HIDE DEF Before
<1>7. \/ Before
      \/ \E d \in Dispatchers : Outbox!Judge(d) /\ outbox' # outbox
  BY <1>1, <1>2, <1>3, <1>4 DEF Outbox!Next, Outbox!vars, Outbox!Fetch, Outbox!Record, Outbox!Dies
<1> QED BY <1>5, <1>6, <1>7 DEF Before

\* A row that the rate limiter holds back is held back by its own kind.
LEMMA AlertsJudgedFairly ==
  ASSUME AlertsQuotas, AlertsTyped, NoisyBounded, UNCHANGED used, NEW r \in Outbox!Rows,
         ~Outbox!CanSend(outbox[r].key), AlertsSuppress(r)
  PROVE  FairRow(outbox[r])' 
<1> DEFINE k == outbox[r].key
<1> DEFINE R == Outbox!Mails(Outbox!Rivals(k))
<1> DEFINE O == Outbox!Mails(Outbox!SameSite(k))
<1>0. k \in Keys BY AlertsRowTyped DEF AlertsRow
<1>1. outbox'[r].key = k /\ outbox'[r].rivals = R /\ outbox'[r].own = O
  <2>1. outbox[r] \in AlertsRow BY AlertsRowTyped
  <2> HIDE DEF R, O
  <2>2. outbox'[r] = [outbox[r] EXCEPT !.status = "suppressed", !.rivals = R, !.own = O]
    BY AlertsSuppressed DEF R, O
  <2> QED BY <2>1, <2>2 DEF AlertsRow
<1>2. R \in Nat /\ O \in Nat BY MailsType
<1>3. \/ Outbox!Mails(Outbox!InLane(Outbox!Lane(k))) >= Quota[Outbox!Lane(k)]
      \/ k \notin Critical /\ O >= Quota["site"]
  <2>1. Outbox!Mails(Outbox!InLane(Outbox!Lane(k))) \in Nat BY MailsType
  <2>2. Quota[Outbox!Lane(k)] \in Nat BY DEF Outbox!Lane, AlertsQuotas
  <2> HIDE DEF k
  <2>3. ASSUME Outbox!Mails(Outbox!InLane(Outbox!Lane(k))) < Quota[Outbox!Lane(k)],
               k \in Critical \/ O < Quota["site"]
        PROVE  Outbox!CanSend(k)
    BY <2>3 DEF Outbox!CanSend
  <2> HIDE DEF O
  <2>4. ~Outbox!CanSend(k) BY DEF k
  <2> QED BY <1>2, <2>1, <2>2, <2>3, <2>4 DEF AlertsQuotas
<1>4. CASE k \in Critical
  <2>1. Outbox!Lane(k) = "critical" /\ Outbox!Rivals(k) = Critical
    BY <1>4 DEF Outbox!Lane, Outbox!Rivals
  <2>2. Outbox!InLane("critical") = Keys \cap Critical BY DEF Outbox!InLane, Outbox!Lane
  <2>3. Outbox!Mails(Keys \cap Critical) <= Outbox!Mails(Critical) + Outbox!Mails({})
    BY MailsCovered
  <2>4. Outbox!Mails({}) = 0
    <3>1. {m \in log : m[1] \in {}} = {} OBVIOUS
    <3> QED BY <3>1, AlertsCount, FS_EmptySet DEF Outbox!Mails
  <2>5. R >= Quota["critical"]
    <3>1. Outbox!Mails(Keys \cap Critical) \in Nat /\ R = Outbox!Mails(Critical)
      BY <2>1, MailsType
    <3>2. Outbox!Mails(Keys \cap Critical) >= Quota["critical"] BY <1>3, <1>4, <2>1, <2>2
    <3> HIDE DEF R
    <3> QED BY <1>2, <2>3, <2>4, <3>1, <3>2 DEF AlertsQuotas
  <2> HIDE DEF k, R, O
  <2> QED BY <1>1, <1>4, <2>5 DEF FairRow, Outbox!FairlySuppressed
<1>5. CASE k \notin Critical /\ (k \in Noisy \/ O >= Quota["site"])
  <2> HIDE DEF k, R, O
  <2> QED BY <1>1, <1>5 DEF FairRow, Outbox!FairlySuppressed
<1>6. CASE k \notin Critical \cup Noisy /\ ~(O >= Quota["site"])
  <2>1. Outbox!Lane(k) = "other" /\ Outbox!Rivals(k) = Keys \ (Critical \cup Noisy)
    BY <1>6 DEF Outbox!Lane, Outbox!Rivals
  <2>2. Outbox!InLane("other") = Keys \ Critical BY DEF Outbox!InLane, Outbox!Lane
  <2>3. Outbox!Mails(Keys \ Critical)
          <= Outbox!Mails(Keys \ (Critical \cup Noisy)) + Outbox!Mails(Noisy \ Critical)
    BY MailsCovered
  <2>4. Outbox!Mails(Keys \ Critical) >= Quota["other"] BY <1>3, <1>6, <2>1, <2>2
  <2>5. R + Quota["site"] + Cardinality(used \cap {"blind"}) + Cardinality(Dispatchers) > Quota["other"]
    <3>1. /\ Outbox!Mails(Keys \ Critical) \in Nat /\ R = Outbox!Mails(Keys \ (Critical \cup Noisy))
          /\ Outbox!Mails(Noisy \ Critical) \in Nat
      BY <2>1, MailsType
    <3>2. Outbox!Mails(Noisy \ Critical) + Cardinality(NoisyUnderWay)
            < Quota["site"] + Cardinality(used \cap {"blind"}) + Cardinality(Dispatchers)
      BY NoisyNumbers DEF NoisyBounded
    <3> HIDE DEF R
    <3> QED BY <1>2, <2>3, <2>4, <3>1, <3>2, NoisyNumbers DEF AlertsQuotas
  <2>6. Outbox!Cardinality(used' \cap {"blind"}) = Cardinality(used \cap {"blind"})
        /\ Outbox!Cardinality(Dispatchers) = Cardinality(Dispatchers)
    BY AlertsCount
  <2> HIDE DEF k, R, O
  <2> QED BY <1>1, <1>6, <2>5, <2>6 DEF FairRow, Outbox!FairlySuppressed
<1> QED BY <1>4, <1>5, <1>6

\* Suppressing stays fair while more goes wrong.
LEMMA FairRowStays ==
  ASSUME AlertsQuotas, NEW k, NEW m \in Nat, NEW n, used \subseteq used',
         Outbox!FairlySuppressed(k, m, n)
  PROVE  Outbox!FairlySuppressed(k, m, n)'
<1>1. used \cap {"blind"} \in SUBSET (used' \cap {"blind"}) OBVIOUS
<1>2. Cardinality(used \cap {"blind"}) <= Cardinality(used' \cap {"blind"})
  BY <1>1, BlindNumber, FS_Subset
<1>3. /\ Cardinality(used \cap {"blind"}) \in Nat /\ Cardinality(used' \cap {"blind"}) \in Nat
      /\ Cardinality(Dispatchers) \in Nat
  BY BlindNumber, FS_CardinalityType DEF AlertsQuotas
<1>4. /\ Outbox!Cardinality(used \cap {"blind"}) = Cardinality(used \cap {"blind"})
      /\ Outbox!Cardinality(used' \cap {"blind"}) = Cardinality(used' \cap {"blind"})
      /\ Outbox!Cardinality(Dispatchers) = Cardinality(Dispatchers)
  BY AlertsCount
<1> QED BY <1>2, <1>3, <1>4 DEF Outbox!FairlySuppressed, AlertsQuotas

LEMMA LanesHoldNext ==
  ASSUME AlertsQuotas
  PROVE  AlertsTyped /\ NoisyBounded /\ Outbox!LanesHold /\ [Outbox!Next]_(Outbox!vars)
           => Outbox!LanesHold'
<1> SUFFICES ASSUME AlertsTyped, NoisyBounded, Outbox!LanesHold, [Outbox!Next]_(Outbox!vars),
                    NEW r \in Outbox!Rows', outbox'[r].status = "suppressed"
             PROVE  Outbox!FairlySuppressed(outbox[r].key, outbox[r].rivals, outbox[r].own)'
  BY DEF Outbox!LanesHold
<1>1. CASE /\ r \in Outbox!Rows /\ outbox[r].status = "suppressed"
           /\ outbox'[r].key = outbox[r].key /\ outbox'[r].rivals = outbox[r].rivals
           /\ outbox'[r].own = outbox[r].own
  <2>1. used \subseteq used'
    BY DEF Outbox!Next, Outbox!vars, Outbox!Enqueue, Outbox!HourPasses, Outbox!Fetch, Outbox!Judge,
           Outbox!Mail, Outbox!Record, Outbox!MarkSent, Outbox!Dies, Outbox!Happens
  <2>2. outbox[r].rivals \in Nat BY <1>1, AlertsRowTyped DEF AlertsRow
  <2>3. Outbox!FairlySuppressed(outbox[r].key, outbox[r].rivals, outbox[r].own)
    BY <1>1 DEF Outbox!LanesHold
  <2>4. ASSUME NEW k, NEW m \in Nat, NEW n, Outbox!FairlySuppressed(k, m, n)
        PROVE  Outbox!FairlySuppressed(k, m, n)'
    BY <2>1, <2>4, FairRowStays
  <2> QED BY <1>1, <2>2, <2>3, <2>4 DEF Outbox!FairlySuppressed
<1>2. CASE \E d \in Dispatchers :
             /\ ~Outbox!At(d, "fetch") /\ r = Outbox!InHand(d) /\ AlertsSuppress(r)
             /\ ~Outbox!CanSend(outbox[r].key) /\ UNCHANGED used
  <2>1. r \in Outbox!Rows BY <1>2, AlertsInHand DEF Outbox!At
  <2>2. FairRow(outbox[r])' BY <1>2, <2>1, AlertsJudgedFairly
  <2> QED BY <2>2 DEF FairRow
<1> QED BY <1>1, <1>2, AlertsSuppressedBefore

\* One incident does not silence another (rate-limiter.ts): what is suppressed was
\* suppressed by the mails of its own kind.
THEOREM LanesAreApart == ASSUME AlertsQuotas PROVE Outbox!Spec => []Outbox!LanesHold
<1>1. Outbox!Init => Outbox!LanesHold BY DEF Outbox!Init, Outbox!LanesHold, Outbox!Rows
<1> QED BY <1>1, AlertsTypedInit, AlertsTypedNext, NoisyInit, NoisyNext, LanesHoldNext, PTL
  DEF Outbox!Spec
==============================================================================
