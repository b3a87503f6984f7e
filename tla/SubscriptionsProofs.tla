------------------------- MODULE SubscriptionsProofs -------------------------
(***************************************************************************)
(* Proofs about Subscriptions, for every number of registrations, charges, *)
(* workers and requests.                                                   *)
(***************************************************************************)
EXTENDS Subscriptions, SequenceTheorems, FiniteSetTheorems, TLAPS

\* The local state of the coroutines.
LocalOK ==
    /\ pc \in [Actors -> Pcs]
    /\ msg \in [Workers -> Webhooks \cup {NoWebhook}]
    /\ seen \in [Actors -> Rows \cup {NoRow}]
    /\ clock \in [Actors -> 0..MaxNow] /\ found \in [Actors -> 0..MaxRecords]
    /\ target \in [Callers -> Rebills \cup {NoRebill}]
    /\ offer \in [Callers -> Prices \cup {NoPrice}]

ProviderOK ==
    /\ reg \in [Rebills -> {"free", "open", "live", "off"}]
    /\ quoted \in [Rebills -> Prices \cup {NoPrice}]
    /\ charged \in [Rebills -> 0..MaxCharges] /\ chargedAt \in [Rebills -> 0..MaxNow]
    /\ refunds \in [Charges -> 0..MaxRefunds]
    /\ outbox \subseteq Webhooks /\ acked \subseteq outbox

RowsOK ==
    /\ sub \in Rows \cup {NoRow}
    /\ records \in Seq(Records) /\ Len(records) <= MaxRecords
    /\ price \in Prices

\* Program points that hold a subscription row, and a payment record.
WithRow == {"cancelPicking", "cancelCalling", "cancelWriting",
            "adminPicking", "adminCalling", "adminWriting", "expiring"}
WithRecord == {"refundCalling", "refundWriting"}

\* What a coroutine has loaded is there, and does not vanish.
LoadedInv ==
    /\ \A a \in Actors :
          /\ seen[a] # NoRow => sub # NoRow
          /\ pc[a] \in WithRow => seen[a] # NoRow
          /\ found[a] # 0 => found[a] \in DOMAIN records
          /\ pc[a] \in WithRecord => found[a] # 0
    /\ \A w \in Workers : pc[w] # "idle" => msg[w] \in outbox

TypeInv ==
    /\ LocalOK /\ ProviderOK /\ RowsOK /\ now \in 0..MaxNow
    /\ LoadedInv

ActorStep(a) ==
    \/ a \in Workers /\ ((\E m \in Webhooks : Receive(a, m)) \/ Handle(a))
    \/ a \in Callers /\ (Request(a) \/ Serve(a))
    \/ Crash(a)

ProviderStep ==
    \E r \in Rebills : UserPays(r) \/ MonthlyCharge(r) \/ ProviderCancels(r)

LEMMA NextCases ==
    ASSUME [Next]_vars
    PROVE  \/ \E a \in Actors : ActorStep(a)
           \/ ProviderStep \/ Month \/ ChangePrice \/ UNCHANGED vars
BY DEF Next, ActorStep, ProviderStep, Actors, Idle

----------------------------------------------------------------------------
(* Records.                                                                 *)

LEMMA ClosedRecords ==
    ASSUME records \in Seq(Records), NEW i \in DOMAIN records
    PROVE  /\ Close(i) \in Seq(Records) /\ Len(Close(i)) = Len(records)
           /\ DOMAIN Close(i) = DOMAIN records
           /\ \A j \in DOMAIN records : Close(i)[j].charge = records[j].charge
           /\ \A j \in DOMAIN records \ {i} : Close(i)[j] = records[j]
           /\ Close(i)[i].state = "closed"
<1>1. /\ DOMAIN records = 1..Len(records) /\ Len(records) \in Nat
      /\ \A j \in DOMAIN records : records[j] \in Records
    OBVIOUS
<1>2. /\ DOMAIN Close(i) = DOMAIN records
      /\ \A j \in DOMAIN records \ {i} : Close(i)[j] = records[j]
      /\ Close(i)[i] = [records[i] EXCEPT !.state = "closed"]
    BY <1>1 DEF Close
<1>3. [records[i] EXCEPT !.state = "closed"] \in Records
    BY <1>1 DEF Records
<1>4. Close(i)[i].charge = records[i].charge /\ Close(i)[i].state = "closed"
    BY <1>1, <1>2 DEF Records
<1>5. Close(i) \in [1..Len(records) -> Records]
  <2>1. \A j \in DOMAIN records : Close(i)[j] \in Records
      BY <1>1, <1>2, <1>3
  <2>2. Close(i) = [j \in DOMAIN records |-> Close(i)[j]]
      BY <1>2 DEF Close
  <2> QED
      BY <1>1, <2>1, <2>2
<1>6. Close(i) \in Seq(Records) /\ Len(Close(i)) = Len(records)
    BY <1>1, <1>5, SeqDef
<1> QED
    BY <1>2, <1>4, <1>6

----------------------------------------------------------------------------
(* What the steps of a coroutine do to its local state.                     *)

LEMMA LeaveShape ==
    ASSUME LocalOK, NEW a \in Actors, Leave(a)
    PROVE  /\ LocalOK'
           /\ pc'[a] = "idle" /\ seen'[a] = NoRow /\ found'[a] = 0
           /\ \A b \in Actors \ {a} : /\ pc'[b] = pc[b] /\ seen'[b] = seen[b]
                                      /\ found'[b] = found[b]
           /\ \A w \in Workers \ {a} : msg'[w] = msg[w]
<1>1. pc' \in [Actors -> Pcs]
    BY DEF LocalOK, Leave, Goto, Pcs
<1>2. msg' \in [Workers -> Webhooks \cup {NoWebhook}]
    BY DEF LocalOK, Leave
<1>3. seen' \in [Actors -> Rows \cup {NoRow}]
    BY DEF LocalOK, Leave
<1>4. clock' \in [Actors -> 0..MaxNow] /\ found' \in [Actors -> 0..MaxRecords]
    BY ConstantsAssumption DEF LocalOK, Leave
<1>5. target' \in [Callers -> Rebills \cup {NoRebill}]
    BY DEF LocalOK, Leave
<1>6. offer' \in [Callers -> Prices \cup {NoPrice}]
    BY DEF LocalOK, Leave
<1> QED
    BY <1>1, <1>2, <1>3, <1>4, <1>5, <1>6 DEF LocalOK, Leave, Goto

LEMMA LoadShape ==
    ASSUME LocalOK, RowsOK, now \in 0..MaxNow, NEW a \in Actors, LoadSub(a)
    PROVE  /\ seen' \in [Actors -> Rows \cup {NoRow}]
           /\ clock' \in [Actors -> 0..MaxNow]
           /\ seen'[a] = sub
           /\ \A b \in Actors \ {a} : seen'[b] = seen[b]
BY DEF LocalOK, RowsOK, LoadSub

LEMMA MergedRow ==
    ASSUME NEW l \in Rows, NEW n \in Rows, sub \in Rows
    PROVE  Merged(l, n) \in Rows
<1>1. DOMAIN n = {"active", "renew", "expires"}
    BY DEF Rows
<1>2. Merged(l, n) = [f \in {"active", "renew", "expires"} |->
                        IF n[f] # l[f] THEN n[f] ELSE sub[f]]
    BY <1>1 DEF Merged
<1>3. Merged(l, n) =
        [active  |-> IF n.active # l.active THEN n.active ELSE sub.active,
         renew   |-> IF n.renew # l.renew THEN n.renew ELSE sub.renew,
         expires |-> IF n.expires # l.expires THEN n.expires ELSE sub.expires]
    BY <1>2
<1> QED
    BY <1>3 DEF Rows

\* The rows that commits write.
LEMMA WrittenRows ==
    ASSUME NEW l \in Rows
    PROVE  /\ StopRow(l) \in Rows /\ CancelledRow(l) \in Rows
           /\ [l EXCEPT !.active = FALSE] \in Rows
BY DEF StopRow, CancelledRow, Rows

----------------------------------------------------------------------------
(* The type invariant.                                                      *)

LoadedBy(a) ==
    /\ seen[a] # NoRow => sub # NoRow
    /\ pc[a] \in WithRow => seen[a] # NoRow
    /\ found[a] # 0 => found[a] \in DOMAIN records
    /\ pc[a] \in WithRecord => found[a] # 0
    /\ a \in Workers /\ pc[a] # "idle" => msg[a] \in outbox

\* A step of a, seen from the other coroutines.
Apart(a) ==
    /\ \A b \in Actors \ {a} : /\ pc'[b] = pc[b] /\ seen'[b] = seen[b]
                               /\ found'[b] = found[b]
    /\ \A w \in Workers \ {a} : msg'[w] = msg[w]

\* Nothing loaded is deleted.
Grows ==
    /\ sub # NoRow => sub' # NoRow
    /\ DOMAIN records \subseteq DOMAIN records'
    /\ outbox \subseteq outbox'

LEMMA LoadedSplit == LoadedInv <=> \A a \in Actors : LoadedBy(a)
BY DEF LoadedInv, LoadedBy, Actors

LEMMA LoadedKept ==
    ASSUME LoadedInv, NEW a \in Actors, Apart(a), Grows, LoadedBy(a)'
    PROVE  LoadedInv'
<1> SUFFICES ASSUME NEW b \in Actors PROVE LoadedBy(b)'
    BY LoadedSplit DEF LoadedInv, LoadedBy, Actors
<1>1. CASE b = a
    BY <1>1
<1>2. CASE b # a
  <2>1. LoadedBy(b)
      BY LoadedSplit
  <2> QED
      BY <1>2, <2>1 DEF LoadedBy, Apart, Grows, Actors
<1> QED
    BY <1>1, <1>2

\* A request that ends.
LEMMA LeavingKeeps ==
    ASSUME TypeInv, NEW a \in Actors, Leave(a), Grows,
           ProviderOK', RowsOK', UNCHANGED now
    PROVE  TypeInv'
<1>1. LocalOK' /\ Apart(a) /\ LoadedBy(a)'
    BY LeaveShape DEF TypeInv, Apart, LoadedBy, WithRow, WithRecord
<1>2. LoadedInv'
    BY <1>1, LoadedKept DEF TypeInv
<1> QED
    BY <1>1, <1>2 DEF TypeInv

\* A step that neither ends the request nor writes a row.
LEMMA MovingKeeps ==
    ASSUME TypeInv, NEW a \in Actors, LocalOK', Apart(a), Grows, LoadedBy(a)',
           ProviderOK', UNCHANGED <<rows, now>>
    PROVE  TypeInv'
<1>1. LoadedInv'
    BY LoadedKept DEF TypeInv
<1>2. RowsOK'
    BY DEF TypeInv, RowsOK, rows
<1> QED
    BY <1>1, <1>2 DEF TypeInv, rows

LEMMA AckKeeps ==
    ASSUME TypeInv, NEW w \in Workers, pc[w] # "idle", Ack(w), UNCHANGED provider
    PROVE  ProviderOK'
BY DEF TypeInv, ProviderOK, Ack, LoadedInv, provider

LEMMA ProviderStays ==
    ASSUME TypeInv, UNCHANGED provider, UNCHANGED acked
    PROVE  ProviderOK'
BY DEF TypeInv, ProviderOK, provider

LEMMA RowsStay ==
    ASSUME TypeInv, UNCHANGED rows
    PROVE  RowsOK'
BY DEF TypeInv, RowsOK, rows

LEMMA TypeOfLeaving ==
    ASSUME TypeInv, NEW a \in Actors, Leave(a), UNCHANGED <<rows, now, outbox>>, ProviderOK'
    PROVE  TypeInv'
<1>1. Grows
    BY DEF Grows, rows
<1> QED
    BY <1>1, RowsStay, LeavingKeeps

LEMMA TypeReceive ==
    ASSUME TypeInv, NEW w \in Workers, NEW m \in Webhooks, Receive(w, m)
    PROVE  TypeInv'
<1>1. ProviderOK' /\ Grows
    BY ProviderStays DEF Receive, Grows, rows, provider
<1>2. LocalOK'
    BY DEF Receive, TypeInv, LocalOK, Goto, Actors, Pcs
<1>3. Apart(w)
    BY DEF Receive, TypeInv, LocalOK, Goto, Actors, Apart
<1>4. LoadedBy(w)
    BY LoadedSplit DEF TypeInv, Actors
<1>5. pc'[w] = "checking" /\ msg'[w] = m
    BY DEF Receive, TypeInv, LocalOK, Goto, Actors
<1>6. LoadedBy(w)'
    BY <1>4, <1>5 DEF Receive, LoadedBy, WithRow, WithRecord, rows, provider
<1> QED
    BY <1>1, <1>2, <1>3, <1>6, MovingKeeps DEF Receive, Actors

LEMMA TypeIgnoreDuplicate ==
    ASSUME TypeInv, NEW w \in Workers, IgnoreDuplicate(w)
    PROVE  TypeInv'
<1>1. ProviderOK'
    BY AckKeeps DEF IgnoreDuplicate
<1> QED
    BY <1>1, TypeOfLeaving DEF IgnoreDuplicate, Actors, provider

LEMMA TypeMultipleResults ==
    ASSUME TypeInv, NEW w \in Workers, MultipleResults(w)
    PROVE  TypeInv'
BY ProviderStays, TypeOfLeaving DEF MultipleResults, Actors, provider

\* A worker that goes on without loading or writing anything.
LEMMA TypeOfMovingOn ==
    ASSUME TypeInv, NEW w \in Workers, pc[w] # "idle",
           NEW l \in {"pricing", "loading"}, Goto(w, l),
           UNCHANGED <<provider, acked, rows, msg, seen, clock, found, target, offer, now>>
    PROVE  TypeInv'
<1>1. ProviderOK' /\ Grows
    BY ProviderStays DEF Grows, rows, provider
<1>2. LocalOK' /\ Apart(w)
    BY DEF TypeInv, LocalOK, Goto, Actors, Pcs, Apart
<1>3. LoadedBy(w)
    BY LoadedSplit DEF TypeInv, Actors
<1>4. pc'[w] = l
    BY DEF TypeInv, LocalOK, Goto, Actors
<1>5. LoadedBy(w)'
    BY <1>3, <1>4 DEF LoadedBy, WithRow, WithRecord, rows, provider
<1> QED
    BY <1>1, <1>2, <1>5, MovingKeeps DEF Actors

LEMMA TypeNewPayment ==
    ASSUME TypeInv, NEW w \in Workers, NewPayment(w) \/ CheckPrice(w)
    PROVE  TypeInv'
BY TypeOfMovingOn DEF NewPayment, CheckPrice

LEMMA TypeRefused ==
    ASSUME TypeInv, NEW w \in Workers, RefusePrice(w) \/ RefuseForm(w)
    PROVE  TypeInv'
BY ProviderStays, TypeOfLeaving DEF RefusePrice, RefuseForm, Actors, provider

LEMMA TypeFindCancelled ==
    ASSUME TypeInv, NEW w \in Workers, FindCancelled(w)
    PROVE  TypeInv'
<1> DEFINE n == IF Known(msg[w].charge[1]) = {} THEN 0
                ELSE CHOOSE i \in Known(msg[w].charge[1]) : TRUE
<1>1. n = 0 \/ n \in DOMAIN records
    BY DEF Known, RecordsOf
<1>2. n \in 0..MaxRecords
  <2>1. /\ DOMAIN records = 1..Len(records) /\ Len(records) \in Nat
        /\ Len(records) <= MaxRecords
      BY DEF TypeInv, RowsOK
  <2> HIDE DEF n
  <2> QED
      BY <1>1, <2>1, ConstantsAssumption
<1>3. found' = [found EXCEPT ![w] = n]
    BY DEF FindCancelled
<1> HIDE DEF n
<1>4. ProviderOK' /\ Grows
    BY ProviderStays DEF FindCancelled, Grows, rows, provider
<1>5. LocalOK' /\ Apart(w)
    BY <1>2, <1>3 DEF FindCancelled, TypeInv, LocalOK, Goto, Actors, Pcs, Apart
<1>6. LoadedBy(w)
    BY LoadedSplit DEF TypeInv, Actors
<1>7. pc'[w] = "loading" /\ found'[w] = n
    BY <1>3 DEF FindCancelled, TypeInv, LocalOK, Goto, Actors
<1>8. LoadedBy(w)'
    BY <1>1, <1>6, <1>7 DEF FindCancelled, LoadedBy, WithRow, WithRecord, rows, provider
<1> QED
    BY <1>4, <1>5, <1>8, MovingKeeps DEF FindCancelled, Actors

LEMMA TypeLoadSubscription ==
    ASSUME TypeInv, NEW w \in Workers, LoadSubscription(w)
    PROVE  TypeInv'
<1> DEFINE l == IF msg[w].kind = "paid" THEN "activating" ELSE "deactivating"
<1>1. l \in Pcs \ (WithRow \cup WithRecord) /\ l \in Pcs
    BY DEF Pcs, WithRow, WithRecord
<1>2. pc' = [pc EXCEPT ![w] = l]
    BY DEF LoadSubscription, Goto
<1> HIDE DEF l
<1>3. LoadSub(w)
    BY DEF LoadSubscription
<1>4. ProviderOK' /\ Grows
    BY ProviderStays DEF LoadSubscription, Grows, rows, provider
<1>5. LocalOK'
    BY <1>1, <1>2, <1>3, LoadShape DEF LoadSubscription, TypeInv, LocalOK, Actors
<1>6. Apart(w) /\ pc'[w] = l /\ seen'[w] = sub
    BY <1>2, <1>3, LoadShape DEF LoadSubscription, TypeInv, LocalOK, Actors, Apart
<1>7. LoadedBy(w)
    BY LoadedSplit DEF TypeInv, Actors
<1>8. pc[w] # "idle"
    BY DEF LoadSubscription
<1>9. LoadedBy(w)'
    BY <1>1, <1>6, <1>7, <1>8 DEF LoadSubscription, LoadedBy, rows, provider
<1> QED
    BY <1>4, <1>5, <1>6, <1>9, MovingKeeps DEF LoadSubscription, Actors

LEMMA TypeActivate ==
    ASSUME TypeInv, NEW w \in Workers, Activate(w)
    PROVE  TypeInv'
<1> DEFINE row == [active |-> TRUE, renew |-> TRUE, expires |-> Renewed(clock[w])]
           rec == [charge |-> msg[w].charge, state |-> "paid"]
<1>1. row \in Rows
  <2>1. clock[w] \in 0..MaxNow
      BY DEF TypeInv, LocalOK, Actors
  <2>2. clock[w] + 1 \in 0..(MaxNow + 1)
      BY <2>1, ConstantsAssumption
  <2> QED
      BY <2>2 DEF Rows, Renewed
<1>2. w \in Actors /\ pc[w] # "idle"
    BY DEF Actors, Activate
<1>3. rec \in Records
  <2>1. msg[w] \in Webhooks
      BY <1>2 DEF TypeInv, LoadedInv, ProviderOK
  <2> QED
      BY <2>1 DEF Webhooks, Records
<1>4. seen[w] \in Rows \cup {NoRow} /\ sub \in Rows \cup {NoRow}
    BY <1>2 DEF TypeInv, LocalOK, RowsOK
<1>5. sub' = IF seen[w] = NoRow THEN row ELSE Merged(seen[w], row)
    BY DEF Activate
<1>6. records' = Append(records, rec) /\ Len(records) < MaxRecords
    BY DEF Activate
<1> HIDE DEF row, rec
<1>7. sub' \in Rows
  <2>1. CASE seen[w] = NoRow
      BY <1>1, <1>5, <2>1
  <2>2. CASE seen[w] # NoRow
    <3>1. seen[w] \in Rows /\ sub \in Rows
        BY <1>2, <1>4, <2>2 DEF TypeInv, LoadedInv
    <3> QED
        BY <1>1, <1>5, <2>2, <3>1, MergedRow
  <2> QED
      BY <2>1, <2>2
<1>8. /\ records' \in Seq(Records) /\ Len(records') <= MaxRecords
      /\ DOMAIN records \subseteq DOMAIN records'
  <2>1. records \in Seq(Records)
      BY DEF TypeInv, RowsOK
  <2>2. Len(records') = Len(records) + 1 /\ records' \in Seq(Records)
      BY <1>3, <1>6, <2>1
  <2> QED
      BY <1>6, <2>1, <2>2, ConstantsAssumption
<1>9. RowsOK' /\ Grows
    BY <1>7, <1>8, ConstantsAssumption DEF RowsOK, Grows, Activate, TypeInv, provider
<1>10. ProviderOK'
    BY <1>2, AckKeeps DEF Activate
<1> QED
    BY <1>2, <1>9, <1>10, LeavingKeeps DEF Activate

LEMMA TypeActivateConflicts ==
    ASSUME TypeInv, NEW w \in Workers, ActivateConflicts(w)
    PROVE  TypeInv'
BY ProviderStays, TypeOfLeaving DEF ActivateConflicts, Actors, provider

LEMMA TypeDeactivate ==
    ASSUME TypeInv, NEW w \in Workers, Deactivate(w)
    PROVE  TypeInv'
<1>1. w \in Actors /\ pc[w] # "idle" /\ LoadedBy(w)
    BY LoadedSplit DEF Actors, Deactivate, TypeInv
<1>2. seen[w] \in Rows \cup {NoRow} /\ sub \in Rows \cup {NoRow}
    BY <1>1 DEF TypeInv, LocalOK, RowsOK
<1>3. sub' \in Rows \cup {NoRow} /\ (sub # NoRow => sub' # NoRow)
  <2>1. CASE seen[w] = NoRow
      BY <1>2, <2>1 DEF Deactivate
  <2>2. CASE seen[w] # NoRow
    <3>1. seen[w] \in Rows /\ sub \in Rows
        BY <1>1, <1>2, <2>2 DEF LoadedBy
    <3>2. sub' = Merged(seen[w], StopRow(seen[w]))
        BY <2>2 DEF Deactivate
    <3> QED
        BY <3>1, <3>2, MergedRow, WrittenRows, ConstantsAssumption
  <2> QED
      BY <2>1, <2>2
<1>4. records \in Seq(Records) /\ Len(records) <= MaxRecords
    BY DEF TypeInv, RowsOK
<1>5. /\ records' \in Seq(Records) /\ Len(records') = Len(records)
      /\ DOMAIN records' = DOMAIN records
  <2>1. CASE found[w] = 0
      BY <1>4, <2>1 DEF Deactivate
  <2>2. CASE found[w] # 0
      BY <1>1, <1>4, <2>2, ClosedRecords DEF Deactivate, LoadedBy
  <2> QED
      BY <2>1, <2>2
<1>6. RowsOK' /\ Grows
    BY <1>3, <1>4, <1>5 DEF RowsOK, Grows, Deactivate, TypeInv, provider
<1>7. ProviderOK'
    BY <1>1, AckKeeps DEF Deactivate
<1> QED
    BY <1>1, <1>6, <1>7, LeavingKeeps DEF Deactivate

----------------------------------------------------------------------------
(* The requests.                                                            *)

\* A request that has just loaded the subscription.
LEMMA TypeOfLoading ==
    ASSUME TypeInv, NEW a \in Callers, NEW l \in Pcs, LoadSub(a), Goto(a, l),
           l \in WithRow => sub # NoRow, l \notin WithRecord,
           UNCHANGED <<provider, acked, rows, msg, found, target, offer, now>>
    PROVE  TypeInv'
<1>1. ProviderOK' /\ Grows
    BY ProviderStays DEF Grows, rows, provider
<1>2. LocalOK'
    BY LoadShape DEF TypeInv, LocalOK, Actors, Goto
<1>3. Apart(a) /\ pc'[a] = l /\ seen'[a] = sub
    BY LoadShape DEF TypeInv, LocalOK, Actors, Goto, Apart
<1>4. LoadedBy(a) /\ a \notin Workers
    BY LoadedSplit, ConstantsAssumption DEF TypeInv, Actors
<1>5. LoadedBy(a)'
    BY <1>3, <1>4 DEF LoadedBy, rows
<1> QED
    BY <1>1, <1>2, <1>3, <1>5, MovingKeeps DEF Actors

LEMMA TypeRequest ==
    ASSUME TypeInv, NEW a \in Callers, Request(a)
    PROVE  TypeInv'
<1>1. CASE Initiate(a)
    BY <1>1, TypeOfLoading DEF Initiate, Pcs, WithRow, WithRecord
<1>2. CASE Cancel(a)
    BY <1>2, TypeOfLoading DEF Cancel, Pcs, WithRow, WithRecord
<1>3. CASE AdminDeactivate(a)
    BY <1>3, TypeOfLoading DEF AdminDeactivate, Pcs, WithRow, WithRecord
<1>4. CASE View(a)
    BY <1>4, TypeOfLoading DEF View, Lapsed, Pcs, WithRow, WithRecord
<1>5. CASE Refund(a)
  <2>1. PICK i \in DOMAIN records : found' = [found EXCEPT ![a] = i]
      BY <1>5 DEF Refund
  <2>2. i \in 0..MaxRecords /\ i # 0
    <3>1. /\ DOMAIN records = 1..Len(records) /\ Len(records) \in Nat
          /\ Len(records) <= MaxRecords
        BY DEF TypeInv, RowsOK
    <3> QED
        BY <3>1, ConstantsAssumption
  <2>3. ProviderOK' /\ Grows
      BY <1>5, ProviderStays DEF Refund, Grows, rows, provider
  <2>4. LocalOK' /\ Apart(a)
      BY <1>5, <2>1, <2>2 DEF Refund, TypeInv, LocalOK, Goto, Actors, Pcs, Apart
  <2>5. pc'[a] = "refundCalling" /\ found'[a] = i
      BY <1>5, <2>1 DEF Refund, TypeInv, LocalOK, Goto, Actors
  <2>6. LoadedBy(a) /\ a \notin Workers
      BY LoadedSplit, ConstantsAssumption DEF TypeInv, Actors
  <2>7. LoadedBy(a)'
      BY <1>5, <2>2, <2>5, <2>6 DEF Refund, LoadedBy, WithRow, WithRecord, rows
  <2> QED
      BY <1>5, <2>3, <2>4, <2>7, MovingKeeps DEF Refund, Actors
<1> QED
    BY <1>1, <1>2, <1>3, <1>4, <1>5 DEF Request

\* A request that goes on with what it has loaded.
LEMMA TypeOfGoingOn ==
    ASSUME TypeInv, NEW a \in Callers, NEW l \in Pcs, Goto(a, l),
           pc[a] \in WithRow \cup WithRecord,
           l \in WithRow => pc[a] \in WithRow, l \in WithRecord => pc[a] \in WithRecord,
           target' \in [Callers -> Rebills \cup {NoRebill}],
           ProviderOK', outbox \subseteq outbox',
           UNCHANGED <<rows, msg, seen, clock, found, offer, now>>
    PROVE  TypeInv'
<1>1. Grows
    BY DEF Grows, rows
<1>2. LocalOK' /\ Apart(a) /\ pc'[a] = l
    BY DEF TypeInv, LocalOK, Goto, Actors, Apart
<1>3. LoadedBy(a) /\ a \notin Workers
    BY LoadedSplit, ConstantsAssumption DEF TypeInv, Actors
<1>4. LoadedBy(a)'
    BY <1>2, <1>3 DEF LoadedBy, rows
<1> QED
    BY <1>1, <1>2, <1>4, MovingKeeps DEF Actors

LEMMA TypeChoosePlan ==
    ASSUME TypeInv, NEW a \in Callers, ChoosePlan(a)
    PROVE  TypeInv'
<1>1. PICK l \in {"registering", "refused"} : Goto(a, l)
    BY DEF ChoosePlan
<1>2. offer' \in [Callers -> Prices \cup {NoPrice}]
    BY DEF ChoosePlan, TypeInv, LocalOK, RowsOK
<1>3. UNCHANGED <<provider, acked, rows, msg, seen, clock, found, target, now>>
    BY DEF ChoosePlan
<1>4. ProviderOK' /\ Grows
    BY <1>3, ProviderStays DEF Grows, rows, provider
<1>5. LocalOK' /\ Apart(a)
    BY <1>1, <1>2, <1>3 DEF TypeInv, LocalOK, Goto, Actors, Pcs, Apart
<1>6. LoadedBy(a) /\ a \notin Workers
    BY LoadedSplit, ConstantsAssumption DEF TypeInv, Actors
<1>7. pc'[a] = l
    BY <1>1 DEF TypeInv, LocalOK, Goto, Actors
<1>8. LoadedBy(a)'
    BY <1>3, <1>6, <1>7 DEF LoadedBy, WithRow, WithRecord, rows
<1> QED
    BY <1>3, <1>4, <1>5, <1>8, MovingKeeps DEF Actors

LEMMA TypeRegistration ==
    ASSUME TypeInv, NEW a \in Callers,
           ReplyRefused(a) \/ Register(a) \/ RegisterFails(a)
    PROVE  TypeInv'
<1>1. ProviderOK' /\ UNCHANGED outbox
  <2>1. CASE Register(a)
    <3>1. PICK r \in Rebills : /\ reg' = [reg EXCEPT ![r] = "open"]
                               /\ quoted' = [quoted EXCEPT ![r] = offer[a]]
        BY <2>1 DEF Register
    <3>2. offer[a] \in Prices \cup {NoPrice}
        BY DEF TypeInv, LocalOK
    <3> QED
        BY <2>1, <3>1, <3>2 DEF Register, TypeInv, ProviderOK
  <2>2. CASE ReplyRefused(a) \/ RegisterFails(a)
      BY <2>2, ProviderStays DEF ReplyRefused, RegisterFails, provider
  <2> QED
      BY <2>1, <2>2
<1> QED
    BY <1>1, TypeOfLeaving DEF ReplyRefused, Register, RegisterFails, Actors

LEMMA TypePickRebill ==
    ASSUME TypeInv, NEW a \in Callers, PickRebill(a)
    PROVE  TypeInv'
<1> DEFINE l == IF pc[a] = "cancelPicking" THEN "cancelCalling" ELSE "adminCalling"
           r == records[Len(records)].charge[1]
<1>1. l \in Pcs /\ l \in WithRow /\ l \notin WithRecord
    BY DEF Pcs, WithRow, WithRecord
<1>2. r \in Rebills
  <2>1. records \in Seq(Records) /\ records # <<>>
      BY DEF TypeInv, RowsOK, PickRebill
  <2>2. records[Len(records)] \in Records
      BY <2>1
  <2> QED
      BY <2>2 DEF Records, Charges
<1>3. pc[a] \in WithRow
    BY DEF PickRebill, WithRow
<1>4. target' = [target EXCEPT ![a] = r] /\ Goto(a, l)
    BY DEF PickRebill
<1> HIDE DEF l, r
<1>5. target' \in [Callers -> Rebills \cup {NoRebill}]
    BY <1>2, <1>4 DEF TypeInv, LocalOK
<1>6. ProviderOK' /\ outbox \subseteq outbox'
    BY ProviderStays DEF PickRebill, provider
<1> QED
    BY <1>1, <1>3, <1>4, <1>5, <1>6, TypeOfGoingOn DEF PickRebill

LEMMA TypeUnbill ==
    ASSUME TypeInv, NEW a \in Callers, Unbill(a)
    PROVE  TypeInv'
<1> DEFINE l == IF pc[a] = "cancelCalling" THEN "cancelWriting" ELSE "adminWriting"
<1>1. l \in Pcs /\ l \in WithRow /\ l \notin WithRecord /\ pc[a] \in WithRow
    BY DEF Pcs, WithRow, WithRecord, Unbill
<1>2. Goto(a, l)
    BY DEF Unbill
<1> HIDE DEF l
<1>3. ProviderOK' /\ outbox \subseteq outbox' /\ target' = target
    BY DEF Unbill, TypeInv, ProviderOK
<1>4. target' \in [Callers -> Rebills \cup {NoRebill}]
    BY <1>3 DEF TypeInv, LocalOK
<1> QED
    BY <1>1, <1>2, <1>3, <1>4, TypeOfGoingOn DEF Unbill

LEMMA TypeUnbillFails ==
    ASSUME TypeInv, NEW a \in Callers, UnbillFails(a)
    PROVE  TypeInv'
<1>1. ProviderOK' /\ outbox \subseteq outbox' /\ target' = target
    BY DEF UnbillFails, TypeInv, ProviderOK
<1>2. target' \in [Callers -> Rebills \cup {NoRebill}]
    BY <1>1 DEF TypeInv, LocalOK
<1>3. pc[a] \in WithRow /\ Goto(a, AfterFailure(pc[a]))
    BY DEF UnbillFails, WithRow
<1>4. AfterFailure(pc[a]) \in {"refused", "adminWriting"}
    BY DEF AfterFailure
<1>5. AfterFailure(pc[a]) \in Pcs /\ AfterFailure(pc[a]) \notin WithRecord
    BY <1>4 DEF Pcs, WithRecord
<1> QED
    BY <1>1, <1>2, <1>3, <1>5, TypeOfGoingOn DEF UnbillFails

\* The commits of the requests that change the subscription.
LEMMA TypeCommits ==
    ASSUME TypeInv, NEW a \in Callers,
           CancelCommit(a) \/ AdminCommit(a) \/ ExpireCommit(a)
    PROVE  TypeInv'
<1>1. pc[a] \in WithRow /\ LoadedBy(a) /\ a \in Actors
    BY LoadedSplit DEF CancelCommit, AdminCommit, ExpireCommit, WithRow, TypeInv, Actors
<1>2. seen[a] \in Rows /\ sub \in Rows
    BY <1>1 DEF LoadedBy, TypeInv, LocalOK, RowsOK
<1>3. PICK n \in Rows : sub' = Merged(seen[a], n)
    BY <1>2, WrittenRows DEF CancelCommit, AdminCommit, ExpireCommit
<1>4. sub' \in Rows
    BY <1>2, <1>3, MergedRow
<1>5. UNCHANGED <<provider, acked, records, price, now>> /\ Leave(a)
    BY DEF CancelCommit, AdminCommit, ExpireCommit
<1>6. RowsOK' /\ Grows /\ ProviderOK'
    BY <1>4, <1>5, ProviderStays, ConstantsAssumption
    DEF RowsOK, Grows, TypeInv, provider
<1> QED
    BY <1>1, <1>5, <1>6, LeavingKeeps

\* The charge that a refund is about.
LEMMA RefundedCharge ==
    ASSUME TypeInv, NEW a \in Callers, pc[a] \in WithRecord
    PROVE  /\ found[a] \in DOMAIN records
           /\ records[found[a]].charge \in Charges
<1>1. LoadedBy(a)
    BY LoadedSplit DEF TypeInv, Actors
<1>2. found[a] \in DOMAIN records /\ records \in Seq(Records)
    BY <1>1 DEF LoadedBy, TypeInv, RowsOK
<1>3. records[found[a]] \in Records
    BY <1>2
<1> QED
    BY <1>2, <1>3 DEF Records

LEMMA AcceptedRefund ==
    ASSUME TypeInv, NEW c \in Charges, AcceptRefund(c),
           UNCHANGED <<reg, quoted, charged, chargedAt, acked>>
    PROVE  ProviderOK' /\ outbox \subseteq outbox'
<1>1. [kind |-> "refund", charge |-> c] \in Webhooks
    BY DEF Webhooks
<1>2. refunds' \in [Charges -> 0..MaxRefunds]
  <2>1. refunds \in [Charges -> 0..MaxRefunds]
      BY DEF TypeInv, ProviderOK
  <2>2. refunds[c] + 1 \in 0..MaxRefunds
      BY <2>1, ConstantsAssumption DEF AcceptRefund
  <2> QED
      BY <2>1, <2>2 DEF AcceptRefund
<1> QED
    BY <1>1, <1>2 DEF AcceptRefund, Send, TypeInv, ProviderOK

LEMMA TypePayBack ==
    ASSUME TypeInv, NEW a \in Callers, PayBack(a)
    PROVE  TypeInv'
<1>1. pc[a] \in WithRecord /\ Goto(a, "refundWriting")
    BY DEF PayBack, WithRecord
<1>2. ProviderOK' /\ outbox \subseteq outbox'
    BY <1>1, RefundedCharge, AcceptedRefund DEF PayBack
<1>3. target' \in [Callers -> Rebills \cup {NoRebill}]
    BY DEF PayBack, TypeInv, LocalOK
<1> QED
    BY <1>1, <1>2, <1>3, TypeOfGoingOn DEF PayBack, Pcs, WithRow

LEMMA TypePayBackFails ==
    ASSUME TypeInv, NEW a \in Callers, PayBackFails(a)
    PROVE  TypeInv'
<1>1. pc[a] \in WithRecord
    BY DEF PayBackFails, WithRecord
<1>2. ProviderOK' /\ outbox \subseteq outbox'
  <2>1. CASE UNCHANGED <<refunds, outbox>>
      BY <2>1, ProviderStays DEF PayBackFails, provider
  <2>2. CASE AcceptRefund(records[found[a]].charge)
      BY <1>1, <2>2, RefundedCharge, AcceptedRefund DEF PayBackFails
  <2> QED
      BY <2>1, <2>2 DEF PayBackFails
<1>3. Grows /\ RowsOK'
    BY <1>2, RowsStay DEF PayBackFails, Grows, rows
<1> QED
    BY <1>2, <1>3, LeavingKeeps DEF PayBackFails, Actors

LEMMA TypeRefundCommit ==
    ASSUME TypeInv, NEW a \in Callers, RefundCommit(a)
    PROVE  TypeInv'
<1>1. pc[a] \in WithRecord
    BY DEF RefundCommit, WithRecord
<1>2. records \in Seq(Records) /\ found[a] \in DOMAIN records
    BY <1>1, RefundedCharge DEF TypeInv, RowsOK
<1>3. RowsOK' /\ Grows
    BY <1>2, ClosedRecords DEF RefundCommit, TypeInv, RowsOK, Grows, provider
<1>4. ProviderOK'
    BY ProviderStays DEF RefundCommit
<1> QED
    BY <1>3, <1>4, LeavingKeeps DEF RefundCommit, Actors

LEMMA TypeCrash ==
    ASSUME TypeInv, NEW a \in Actors, Crash(a)
    PROVE  TypeInv'
BY ProviderStays, TypeOfLeaving DEF Crash, provider

----------------------------------------------------------------------------
(* PayApp and the clock.                                                    *)

LEMMA LocalsStay ==
    ASSUME TypeInv, UNCHANGED local, UNCHANGED <<sub, records>>, price' \in Prices,
           outbox \subseteq outbox', ProviderOK', now' \in 0..MaxNow
    PROVE  TypeInv'
<1>1. LocalOK' /\ RowsOK'
    BY DEF TypeInv, LocalOK, RowsOK, local
<1>2. LoadedInv'
    BY DEF TypeInv, LoadedInv, local
<1> QED
    BY <1>1, <1>2 DEF TypeInv

LEMMA TypeCharge ==
    ASSUME TypeInv, NEW r \in Rebills, Charge(r),
           reg' \in [Rebills -> {"free", "open", "live", "off"}]
    PROVE  TypeInv'
<1>1. charged[r] + 1 \in 1..MaxCharges /\ charged[r] + 1 \in 0..MaxCharges
    BY ConstantsAssumption DEF TypeInv, ProviderOK, Charge
<1>2. [kind |-> "paid", charge |-> <<r, charged[r] + 1>>] \in Webhooks
    BY <1>1 DEF Webhooks, Charges
<1>3. ProviderOK' /\ outbox \subseteq outbox'
    BY <1>1, <1>2 DEF Charge, Send, TypeInv, ProviderOK
<1> QED
    BY <1>3, LocalsStay DEF Charge, TypeInv, RowsOK, rows

LEMMA TypeProvider ==
    ASSUME TypeInv, ProviderStep
    PROVE  TypeInv'
<1>1. PICK r \in Rebills : UserPays(r) \/ MonthlyCharge(r) \/ ProviderCancels(r)
    BY DEF ProviderStep
<1>2. CASE UserPays(r) \/ MonthlyCharge(r)
    BY <1>2, TypeCharge DEF UserPays, MonthlyCharge, TypeInv, ProviderOK
<1>3. CASE ProviderCancels(r)
  <2>1. charged[r] \in 1..MaxCharges
      BY <1>3, ConstantsAssumption DEF ProviderCancels, TypeInv, ProviderOK
  <2>2. [kind |-> "cancel", charge |-> <<r, charged[r]>>] \in Webhooks
      BY <2>1 DEF Webhooks, Charges
  <2>3. ProviderOK' /\ outbox \subseteq outbox'
      BY <1>3, <2>2 DEF ProviderCancels, Send, TypeInv, ProviderOK
  <2> QED
      BY <1>3, <2>3, LocalsStay DEF ProviderCancels, TypeInv, RowsOK, rows
<1> QED
    BY <1>1, <1>2, <1>3

LEMMA TypeMonth ==
    ASSUME TypeInv, Month
    PROVE  TypeInv'
<1>1. ProviderOK'
    BY ProviderStays DEF Month
<1>2. now' \in 0..MaxNow
    BY ConstantsAssumption DEF Month, TypeInv
<1> QED
    BY <1>1, <1>2, LocalsStay DEF Month, TypeInv, RowsOK, rows, provider

LEMMA TypeChangePrice ==
    ASSUME TypeInv, ChangePrice
    PROVE  TypeInv'
<1>1. ProviderOK' /\ now' = now
    BY ProviderStays DEF ChangePrice
<1> QED
    BY <1>1, LocalsStay DEF ChangePrice, TypeInv, provider

LEMMA TypeStutter ==
    ASSUME TypeInv, UNCHANGED vars
    PROVE  TypeInv'
<1>1. ProviderOK' /\ now' = now
    BY ProviderStays DEF vars
<1> QED
    BY <1>1, LocalsStay DEF vars, TypeInv, RowsOK, rows, provider

LEMMA TypeActor ==
    ASSUME TypeInv, NEW a \in Actors, ActorStep(a)
    PROVE  TypeInv'
<1>1. CASE a \in Workers /\ \E m \in Webhooks : Receive(a, m)
    BY <1>1, TypeReceive
<1>2. CASE a \in Workers /\ Handle(a)
    BY <1>2, TypeIgnoreDuplicate, TypeMultipleResults, TypeNewPayment,
       TypeRefused, TypeFindCancelled, TypeLoadSubscription, TypeActivate,
       TypeActivateConflicts, TypeDeactivate DEF Handle
<1>3. CASE a \in Callers /\ Request(a)
    BY <1>3, TypeRequest
<1>4. CASE a \in Callers /\ Serve(a)
    BY <1>4, TypeChoosePlan, TypeRegistration, TypePickRebill, TypeUnbill, TypeUnbillFails,
       TypeCommits, TypePayBack, TypePayBackFails, TypeRefundCommit DEF Serve
<1>5. CASE Crash(a)
    BY <1>5, TypeCrash
<1> QED
    BY <1>1, <1>2, <1>3, <1>4, <1>5 DEF ActorStep

LEMMA TypeStep ==
    ASSUME TypeInv, [Next]_vars
    PROVE  TypeInv'
BY NextCases, TypeActor, TypeProvider, TypeMonth, TypeChangePrice, TypeStutter

LEMMA TypeInit ==
    ASSUME Init
    PROVE  TypeInv
<1>1. LocalOK
    BY ConstantsAssumption DEF Init, LocalOK, Pcs, Actors
<1>2. ProviderOK /\ now \in 0..MaxNow
    BY ConstantsAssumption DEF Init, ProviderOK
<1>3. RowsOK
    BY ConstantsAssumption DEF Init, RowsOK
<1>4. LoadedInv
    BY DEF Init, LoadedInv, WithRow, WithRecord, Actors
<1> QED
    BY <1>1, <1>2, <1>3, <1>4 DEF TypeInv

LEMMA TypeInvariance == Spec => []TypeInv
BY TypeInit, TypeStep, PTL DEF Spec

\* The types of PayApp, the rows and the coroutines, for every set of
\* registrations, workers and requests and under every fault; a row or a record
\* that a handler (payment/service.py) has loaded is there when it commits.
THEOREM PaymentsTypeCorrect == Spec => []TypeOK
<1>1. TypeInv => TypeOK
    BY DEF TypeInv, LocalOK, ProviderOK, RowsOK, TypeOK
<1> QED
    BY <1>1, TypeInvariance, PTL

----------------------------------------------------------------------------
(* One record per charge.                                                   *)

\* The other coroutines do not see a step.
LEMMA StepApart ==
    ASSUME TypeInv, NEW a \in Actors, ActorStep(a)
    PROVE  Apart(a)
<1>1. ASSUME Leave(a) PROVE Apart(a)
    BY <1>1, LeaveShape DEF TypeInv, Apart
<1>2. ASSUME LoadSub(a), NEW l, Goto(a, l), UNCHANGED <<msg, found>> PROVE Apart(a)
    BY <1>2, LoadShape DEF TypeInv, LocalOK, Goto, Apart, Actors
<1>3. ASSUME UNCHANGED <<msg, seen, found>>, NEW l, Goto(a, l) PROVE Apart(a)
    BY <1>3 DEF TypeInv, LocalOK, Goto, Apart, Actors
<1>4. ASSUME UNCHANGED <<msg, seen>>, NEW l, Goto(a, l),
             NEW n, found' = [found EXCEPT ![a] = n] PROVE Apart(a)
    BY <1>4 DEF TypeInv, LocalOK, Goto, Apart, Actors
<1>5. CASE a \in Workers /\ \E m \in Webhooks : Receive(a, m)
    BY <1>5 DEF Receive, TypeInv, LocalOK, Goto, Apart, Actors
<1>6. CASE a \in Workers /\ Handle(a)
    BY <1>1, <1>2, <1>3, <1>4, <1>6
    DEF Handle, IgnoreDuplicate, MultipleResults, NewPayment, CheckPrice, RefusePrice,
        RefuseForm, FindCancelled, LoadSubscription, Activate, ActivateConflicts,
        Deactivate
<1>7. CASE a \in Callers /\ Request(a)
    BY <1>2, <1>4, <1>7 DEF Request, Initiate, Cancel, AdminDeactivate, Refund, View
<1>8. CASE a \in Callers /\ Serve(a)
    BY <1>1, <1>3, <1>8
    DEF Serve, ChoosePlan, ReplyRefused, Register, RegisterFails, PickRebill, Unbill,
        UnbillFails, CancelCommit, AdminCommit, PayBack, PayBackFails, RefundCommit,
        ExpireCommit
<1>9. CASE Crash(a)
    BY <1>1, <1>9 DEF Crash
<1> QED
    BY <1>5, <1>6, <1>7, <1>8, <1>9 DEF ActorStep

\* A record appears by an activation, and its charge stays.
LEMMA ChargesStay ==
    ASSUME TypeInv, NEW a \in Actors, ActorStep(a)
    PROVE  \/ a \in Workers /\ Activate(a)
           \/ /\ DOMAIN records' = DOMAIN records
              /\ \A i \in DOMAIN records : records'[i].charge = records[i].charge
<1>1. records \in Seq(Records)
    BY DEF TypeInv, RowsOK
<1>2. CASE UNCHANGED records
    BY <1>2
<1>3. CASE a \in Workers /\ Deactivate(a)
  <2>1. found[a] # 0 => found[a] \in DOMAIN records
      BY LoadedSplit DEF LoadedBy, TypeInv
  <2> QED
      BY <1>1, <1>3, <2>1, ClosedRecords DEF Deactivate
<1>4. CASE a \in Callers /\ RefundCommit(a)
  <2>1. found[a] \in DOMAIN records
      BY <1>4, RefundedCharge DEF RefundCommit, WithRecord
  <2> QED
      BY <1>1, <1>4, <2>1, ClosedRecords DEF RefundCommit
<1>5. \/ UNCHANGED records
      \/ a \in Workers /\ Deactivate(a)
      \/ a \in Callers /\ RefundCommit(a)
      \/ a \in Workers /\ Activate(a)
  <2>1. CASE a \in Workers /\ \E m \in Webhooks : Receive(a, m)
      BY <2>1 DEF Receive, rows
  <2>2. CASE a \in Workers /\ Handle(a)
      BY <2>2 DEF Handle, IgnoreDuplicate, MultipleResults, NewPayment, CheckPrice,
         RefusePrice, RefuseForm, FindCancelled, LoadSubscription, ActivateConflicts,
         rows
  <2>3. CASE a \in Callers /\ Request(a)
      BY <2>3 DEF Request, Initiate, Cancel, AdminDeactivate, Refund, View, rows
  <2>4. CASE a \in Callers /\ Serve(a)
      BY <2>4 DEF Serve, ChoosePlan, ReplyRefused, Register, RegisterFails, PickRebill,
         Unbill, UnbillFails, CancelCommit, AdminCommit, PayBack, PayBackFails,
         ExpireCommit, rows
  <2>5. CASE Crash(a)
      BY <2>5 DEF Crash, rows
  <2> QED
      BY <2>1, <2>2, <2>3, <2>4, <2>5 DEF ActorStep
<1> QED
    BY <1>2, <1>3, <1>4, <1>5

\* What an activation does to the records.
LEMMA NewRecord ==
    ASSUME TypeInv, NEW w \in Workers, Activate(w)
    PROVE  /\ DOMAIN records' = DOMAIN records \cup {Len(records) + 1}
           /\ Len(records) + 1 \notin DOMAIN records
           /\ \A i \in DOMAIN records : records'[i] = records[i]
           /\ records'[Len(records) + 1] = [charge |-> msg[w].charge, state |-> "paid"]
           /\ msg[w] \in Webhooks
<1>1. records \in Seq(Records) /\ Len(records) \in Nat
    BY DEF TypeInv, RowsOK
<1>2. msg[w] \in Webhooks
    BY DEF TypeInv, LoadedInv, ProviderOK, Activate
<1>3. records' = Append(records, [charge |-> msg[w].charge, state |-> "paid"])
    BY DEF Activate
<1>4. [charge |-> msg[w].charge, state |-> "paid"] \in Records
    BY <1>2 DEF Webhooks, Records
<1> QED
    BY <1>1, <1>2, <1>3, <1>4

\* No webhook is handled twice at the same time.
Serial == (\A v, w \in Workers : v = w) \/ "duplicate" \notin Faults

Unrecorded(w) == \A i \in DOMAIN records : records[i].charge # msg[w].charge

PaymentOf(w) ==
    /\ pc[w] = "activating" => msg[w].kind = "paid"
    /\ pc[w] \in {"pricing", "loading", "activating"} /\ msg[w].kind = "paid"
          => Unrecorded(w)

Distinct ==
    \A v, w \in Workers :
        v # w /\ pc[v] # "idle" /\ pc[w] # "idle" => msg[v] # msg[w]

DeliveryInv ==
    /\ TypeInv
    /\ Distinct
    /\ \A w \in Workers : PaymentOf(w)
    /\ OneRecordPerCharge

LEMMA DistinctStep ==
    ASSUME Serial, TypeInv, Distinct, NEW a \in Actors, ActorStep(a)
    PROVE  Distinct'
<1>1. Apart(a)
    BY StepApart
<1> SUFFICES ASSUME NEW v \in Workers, NEW w \in Workers, v # w,
                    pc'[v] # "idle", pc'[w] # "idle"
             PROVE  msg'[v] # msg'[w]
    BY DEF Distinct
<1>2. CASE a # v /\ a # w
    BY <1>1, <1>2 DEF Apart, Distinct, Actors
<1>3. ASSUME NEW x \in Workers, NEW y \in Workers, x # y, a = x,
             pc'[x] # "idle", pc'[y] # "idle"
      PROVE  msg'[x] # msg'[y]
  <2>1. pc'[y] = pc[y] /\ msg'[y] = msg[y] /\ y \in Actors
      BY <1>1, <1>3 DEF Apart, Actors
  <2>2. x \notin Callers
      BY ConstantsAssumption
  <2>3. CASE \E m \in Webhooks : Receive(x, m)
    <3>1. PICK m \in Webhooks : Receive(x, m)
        BY <2>3
    <3>2. m \notin {msg[u] : u \in Workers}
        BY <1>3, <3>1 DEF Receive, Serial
    <3>3. msg'[x] = m
        BY <3>1 DEF Receive, TypeInv, LocalOK
    <3> QED
        BY <2>1, <3>2, <3>3
  <2>4. CASE UNCHANGED msg /\ pc[x] # "idle"
      BY <1>3, <2>1, <2>4 DEF Distinct
  <2>5. CASE Leave(x)
      BY <1>3, <2>5, LeaveShape DEF TypeInv
  <2>6. CASE Handle(x)
      BY <2>4, <2>5, <2>6
      DEF Handle, IgnoreDuplicate, MultipleResults, NewPayment, CheckPrice,
          RefusePrice, RefuseForm, FindCancelled, LoadSubscription, Activate,
          ActivateConflicts, Deactivate
  <2> QED
      BY <1>3, <2>2, <2>3, <2>5, <2>6 DEF ActorStep, Crash
<1>4. CASE a = v
    BY <1>3, <1>4
<1>5. CASE a = w
    BY <1>3, <1>5
<1> QED
    BY <1>2, <1>4, <1>5

\* The coroutine that makes a step knows what it did to the payments.
LEMMA PaymentStep ==
    ASSUME DeliveryInv, NEW w \in Workers, ActorStep(w)
    PROVE  PaymentOf(w)'
<1>1. w \notin Callers /\ w \in Actors
    BY ConstantsAssumption DEF Actors
<1>2. PaymentOf(w)
    BY DEF DeliveryInv
<1>3. CASE Leave(w)
    BY <1>1, <1>3, LeaveShape DEF DeliveryInv, TypeInv, PaymentOf
<1>4. CASE \E m \in Webhooks : Receive(w, m)
  <2>1. pc'[w] = "checking"
      BY <1>1, <1>4 DEF Receive, Goto, DeliveryInv, TypeInv, LocalOK
  <2> QED
      BY <2>1 DEF PaymentOf
<1>5. CASE NewPayment(w)
  <2>1. Unrecorded(w)
      BY <1>5 DEF NewPayment, Known, RecordsOf, Unrecorded
  <2>2. pc'[w] = "pricing"
      BY <1>1, <1>5 DEF NewPayment, Goto, DeliveryInv, TypeInv, LocalOK
  <2> QED
      BY <1>5, <2>1, <2>2 DEF NewPayment, PaymentOf, Unrecorded, rows
<1>9. CASE CheckPrice(w)
  <2>1. pc[w] = "pricing" /\ pc'[w] = "loading"
      BY <1>1, <1>9 DEF CheckPrice, Goto, DeliveryInv, TypeInv, LocalOK
  <2> QED
      BY <1>2, <1>9, <2>1 DEF CheckPrice, PaymentOf, Unrecorded, rows
<1>6. CASE FindCancelled(w)
  <2>1. pc'[w] = "loading"
      BY <1>1, <1>6 DEF FindCancelled, Goto, DeliveryInv, TypeInv, LocalOK
  <2> QED
      BY <1>6, <2>1 DEF FindCancelled, PaymentOf
<1>7. CASE LoadSubscription(w)
  <2>1. pc'[w] = IF msg[w].kind = "paid" THEN "activating" ELSE "deactivating"
      BY <1>1, <1>7 DEF LoadSubscription, Goto, DeliveryInv, TypeInv, LocalOK
  <2> QED
      BY <1>2, <1>7, <2>1 DEF LoadSubscription, PaymentOf, Unrecorded, rows
<1>8. CASE Handle(w)
    BY <1>3, <1>5, <1>6, <1>7, <1>8, <1>9
    DEF Handle, IgnoreDuplicate, MultipleResults, RefusePrice, RefuseForm,
        Activate, ActivateConflicts, Deactivate
<1> QED
    BY <1>1, <1>3, <1>4, <1>8 DEF ActorStep, Crash

LEMMA DeliveryActor ==
    ASSUME Serial, DeliveryInv, NEW a \in Actors, ActorStep(a)
    PROVE  DeliveryInv'
<1>1. TypeInv' /\ Apart(a) /\ Distinct'
    BY TypeActor, StepApart, DistinctStep DEF DeliveryInv
<1>2. CASE a \in Workers /\ Activate(a)
  <2>1. PaymentOf(a) /\ pc[a] = "activating" /\ msg[a].kind = "paid" /\ Unrecorded(a)
      BY <1>2 DEF DeliveryInv, PaymentOf, Activate
  <2> DEFINE n == Len(records) + 1
  <2>5. /\ DOMAIN records' = DOMAIN records \cup {n}
        /\ \A i \in DOMAIN records : records'[i].charge = records[i].charge
        /\ records'[n].charge = msg[a].charge
    <3>1. /\ DOMAIN records' = DOMAIN records \cup {n}
          /\ \A i \in DOMAIN records : records'[i] = records[i]
          /\ records'[n] = [charge |-> msg[a].charge, state |-> "paid"]
        BY <1>2, NewRecord DEF DeliveryInv
    <3> QED
        BY <3>1
  <2> HIDE DEF n
  <2>2. OneRecordPerCharge'
    <3> SUFFICES ASSUME NEW i \in DOMAIN records', NEW j \in DOMAIN records',
                        records'[i].charge = records'[j].charge
                 PROVE  i = j
        BY DEF OneRecordPerCharge
    <3>1. CASE i \in DOMAIN records /\ j \in DOMAIN records
        BY <2>5, <3>1 DEF DeliveryInv, OneRecordPerCharge
    <3>2. CASE i = n /\ j \in DOMAIN records
        BY <2>1, <2>5, <3>2 DEF Unrecorded
    <3>3. CASE i \in DOMAIN records /\ j = n
        BY <2>1, <2>5, <3>3 DEF Unrecorded
    <3> QED
        BY <2>5, <3>1, <3>2, <3>3
  <2>3. ASSUME NEW w \in Workers, w # a PROVE PaymentOf(w)'
    <3>1. pc'[w] = pc[w] /\ msg'[w] = msg[w] /\ PaymentOf(w) /\ w \in Actors
        BY <1>1, <2>3 DEF Apart, Actors, DeliveryInv
    <3>2. ASSUME pc[w] \in {"pricing", "loading", "activating"}, msg[w].kind = "paid"
          PROVE  msg[w].charge # msg[a].charge
      <4>1. msg[w] # msg[a] /\ msg[w] \in Webhooks /\ msg[a] \in Webhooks
          BY <1>2, <2>1, <2>3, <3>1, <3>2, NewRecord
          DEF DeliveryInv, Distinct, TypeInv, LoadedInv, ProviderOK
      <4> QED
          BY <2>1, <3>2, <4>1 DEF Webhooks
    <3> QED
        BY <2>5, <3>1, <3>2 DEF PaymentOf, Unrecorded
  <2>4. PaymentOf(a)'
      BY <1>2, PaymentStep
  <2> QED
      BY <1>1, <2>2, <2>3, <2>4 DEF DeliveryInv
<1>3. CASE /\ DOMAIN records' = DOMAIN records
           /\ \A i \in DOMAIN records : records'[i].charge = records[i].charge
  <2>1. OneRecordPerCharge'
      BY <1>3 DEF DeliveryInv, OneRecordPerCharge
  <2>2. ASSUME NEW w \in Workers, w # a PROVE PaymentOf(w)'
    <3>1. pc'[w] = pc[w] /\ msg'[w] = msg[w] /\ PaymentOf(w) /\ w \in Actors
        BY <1>1, <2>2 DEF Apart, Actors, DeliveryInv
    <3> QED
        BY <1>3, <3>1 DEF PaymentOf, Unrecorded
  <2>3. a \in Workers => PaymentOf(a)'
      BY PaymentStep
  <2> QED
      BY <1>1, <2>1, <2>2, <2>3 DEF DeliveryInv
<1> QED
    BY <1>2, <1>3, ChargesStay DEF DeliveryInv

Outside == ProviderStep \/ Month \/ ChangePrice \/ UNCHANGED vars

\* PayApp, the clock and the prices touch neither subscription, records nor
\* coroutines.
LEMMA Elsewhere ==
    ASSUME Outside
    PROVE  UNCHANGED <<sub, records, local, acked, refunds>>
BY DEF Outside, ProviderStep, UserPays, MonthlyCharge, ProviderCancels, Charge, Month,
       ChangePrice, vars, provider, rows

LEMMA DeliveryStep ==
    ASSUME Serial, DeliveryInv, [Next]_vars
    PROVE  DeliveryInv'
<1>1. CASE \E a \in Actors : ActorStep(a)
    BY <1>1, DeliveryActor
<1>2. CASE Outside
  <2>1. TypeInv' /\ UNCHANGED <<records, local>>
      BY <1>2, Elsewhere, TypeStep DEF DeliveryInv
  <2> QED
      BY <2>1 DEF DeliveryInv, Distinct, PaymentOf, Unrecorded, OneRecordPerCharge,
         local
<1> QED
    BY <1>1, <1>2, NextCases DEF Outside

LEMMA DeliveryInit ==
    ASSUME Init
    PROVE  DeliveryInv
<1>1. \A w \in Workers : pc[w] = "idle"
    BY DEF Init, Actors
<1>2. DOMAIN records = {}
    BY DEF Init
<1> QED
    BY <1>1, <1>2, TypeInit DEF DeliveryInv, Distinct, PaymentOf, OneRecordPerCharge

\* However often PayApp repeats a webhook, and whatever fails in between, a
\* charge gets one payment record (payment/service.py:450), as long as no
\* webhook is handled twice at the same time.
THEOREM OneRecord ==
    ASSUME Serial
    PROVE  Spec => []OneRecordPerCharge
<1>1. DeliveryInv => OneRecordPerCharge
    BY DEF DeliveryInv
<1>2. Init => DeliveryInv
    BY DeliveryInit
<1>3. DeliveryInv /\ [Next]_vars => DeliveryInv'
    BY DeliveryStep
<1> QED
    BY <1>1, <1>2, <1>3, PTL DEF Spec

----------------------------------------------------------------------------
(* What is answered is recorded.                                            *)

Cancels(w) == pc[w] = "deactivating" => msg[w].kind # "paid"

RecordedInv ==
    /\ TypeInv
    /\ \A w \in Workers : Cancels(w)
    /\ ChargeRecorded

\* A webhook is answered where its handler ends.
LEMMA AnswersOf ==
    ASSUME NEW a \in Actors, ActorStep(a)
    PROVE  \/ acked' = acked
           \/ /\ a \in Workers /\ Ack(a)
              /\ IgnoreDuplicate(a) \/ Activate(a) \/ Deactivate(a)
<1>1. CASE a \in Workers /\ \E m \in Webhooks : Receive(a, m)
    BY <1>1 DEF Receive
<1>2. CASE a \in Workers /\ Handle(a)
    BY <1>2 DEF Handle, IgnoreDuplicate, MultipleResults, NewPayment, CheckPrice,
              RefusePrice, RefuseForm, FindCancelled, LoadSubscription, Activate,
              ActivateConflicts, Deactivate
<1>3. CASE a \in Callers /\ Request(a)
    BY <1>3 DEF Request, Initiate, Cancel, AdminDeactivate, Refund, View
<1>4. CASE a \in Callers /\ Serve(a)
    BY <1>4 DEF Serve, ChoosePlan, ReplyRefused, Register, RegisterFails, PickRebill,
              Unbill, UnbillFails, CancelCommit, AdminCommit, PayBack, PayBackFails,
              RefundCommit, ExpireCommit
<1>5. CASE Crash(a)
    BY <1>5 DEF Crash
<1> QED
    BY <1>1, <1>2, <1>3, <1>4, <1>5 DEF ActorStep

LEMMA CancelsStep ==
    ASSUME TypeInv, NEW w \in Workers, Cancels(w), ActorStep(w)
    PROVE  Cancels(w)'
<1>1. w \notin Callers /\ w \in Actors
    BY ConstantsAssumption DEF Actors
<1>2. CASE Leave(w)
    BY <1>1, <1>2, LeaveShape DEF TypeInv, Cancels
<1>3. CASE LoadSubscription(w)
  <2>1. pc'[w] = IF msg[w].kind = "paid" THEN "activating" ELSE "deactivating"
      BY <1>1, <1>3 DEF LoadSubscription, Goto, TypeInv, LocalOK
  <2> QED
      BY <1>3, <2>1 DEF LoadSubscription, Cancels
<1>4. CASE \/ \E m \in Webhooks : Receive(w, m)
           \/ NewPayment(w) \/ CheckPrice(w) \/ FindCancelled(w)
  <2>1. pc'[w] \in {"checking", "pricing", "loading"}
      BY <1>1, <1>4
      DEF Receive, NewPayment, CheckPrice, FindCancelled, Goto, TypeInv, LocalOK
  <2> QED
      BY <2>1 DEF Cancels
<1> QED
    BY <1>1, <1>2, <1>3, <1>4
    DEF ActorStep, Handle, Crash, IgnoreDuplicate, MultipleResults, RefusePrice,
        RefuseForm, Activate, ActivateConflicts, Deactivate

LEMMA RecordedActor ==
    ASSUME MaxCharges = 1, RecordedInv, NEW a \in Actors, ActorStep(a)
    PROVE  RecordedInv'
<1>1. TypeInv' /\ Apart(a)
    BY TypeActor, StepApart DEF RecordedInv
<1>2. \A w \in Workers : Cancels(w)'
  <2> SUFFICES ASSUME NEW w \in Workers PROVE Cancels(w)'
      OBVIOUS
  <2>1. CASE w = a
      BY <2>1, CancelsStep DEF RecordedInv
  <2>2. CASE w # a
      BY <1>1, <2>2 DEF RecordedInv, Cancels, Apart, Actors
  <2> QED
      BY <2>1, <2>2
<1>3. \A i \in DOMAIN records :
          i \in DOMAIN records' /\ records'[i].charge = records[i].charge
    BY ChargesStay, NewRecord DEF RecordedInv
<1>4. ASSUME NEW m \in acked, m.kind = "paid"
      PROVE  \E i \in DOMAIN records' : records'[i].charge = m.charge
    BY <1>3, <1>4 DEF RecordedInv, ChargeRecorded
<1>5. ASSUME a \in Workers, msg[a].kind = "paid", Ack(a),
             IgnoreDuplicate(a) \/ Activate(a) \/ Deactivate(a)
      PROVE  \E i \in DOMAIN records' : records'[i].charge = msg[a].charge
  <2>1. CASE IgnoreDuplicate(a)
    <3>1. msg[a] \in Webhooks /\ records \in Seq(Records)
        BY <1>5, <2>1 DEF IgnoreDuplicate, RecordedInv, TypeInv, LoadedInv,
                          ProviderOK, RowsOK
    <3>2. PICK i \in DOMAIN records : records[i].charge[1] = msg[a].charge[1]
      <4>1. Cardinality(Known(msg[a].charge[1])) # 0
          BY <2>1 DEF IgnoreDuplicate
      <4>2. Known(msg[a].charge[1]) # {}
          BY <4>1, FS_EmptySet
      <4> QED
          BY <4>2 DEF Known, RecordsOf
    <3>3. msg[a].charge \in Charges /\ records[i].charge \in Charges
      <4>1. records[i] \in Records
          BY <3>1, <3>2
      <4> QED
          BY <3>1, <4>1 DEF Webhooks, Records
    <3>4. ASSUME NEW c \in Charges, NEW d \in Charges, c[1] = d[1] PROVE c = d
      <4>1. PICK r \in Rebills, n \in 1..1 : c = <<r, n>>
          BY DEF Charges
      <4>2. PICK s \in Rebills, k \in 1..1 : d = <<s, k>>
          BY DEF Charges
      <4> QED
          BY <3>4, <4>1, <4>2
    <3>5. records[i].charge = msg[a].charge
        BY <3>2, <3>3, <3>4
    <3> QED
        BY <1>3, <3>2, <3>5
  <2>2. CASE Activate(a)
    <3>1. /\ DOMAIN records' = DOMAIN records \cup {Len(records) + 1}
          /\ records'[Len(records) + 1] = [charge |-> msg[a].charge, state |-> "paid"]
        BY <1>5, <2>2, NewRecord DEF RecordedInv
    <3>2. records'[Len(records) + 1].charge = msg[a].charge
        BY <3>1
    <3> QED
        BY <3>1, <3>2
  <2>3. CASE Deactivate(a)
      BY <1>5, <2>3 DEF Deactivate, RecordedInv, Cancels
  <2> QED
      BY <1>5, <2>1, <2>2, <2>3
<1>6. ChargeRecorded'
  <2>1. CASE acked' = acked
      BY <1>4, <2>1 DEF ChargeRecorded
  <2>2. CASE /\ a \in Workers /\ Ack(a)
             /\ IgnoreDuplicate(a) \/ Activate(a) \/ Deactivate(a)
    <3>1. acked' = acked \cup {msg[a]}
        BY <2>2 DEF Ack
    <3> QED
        BY <1>4, <1>5, <2>2, <3>1 DEF ChargeRecorded
  <2> QED
      BY <2>1, <2>2, AnswersOf
<1> QED
    BY <1>1, <1>2, <1>6 DEF RecordedInv

LEMMA RecordedStep ==
    ASSUME MaxCharges = 1, RecordedInv, [Next]_vars
    PROVE  RecordedInv'
<1>1. CASE \E a \in Actors : ActorStep(a)
    BY <1>1, RecordedActor
<1>2. CASE Outside
  <2>1. TypeInv' /\ UNCHANGED <<records, local, acked>>
      BY <1>2, Elsewhere, TypeStep DEF RecordedInv
  <2> QED
      BY <2>1 DEF RecordedInv, Cancels, ChargeRecorded, local
<1> QED
    BY <1>1, <1>2, NextCases DEF Outside

\* A payment that was answered is in the payment history, with any number of
\* webhooks at once, repeated, and cut off anywhere (payment/service.py:424),
\* as long as a registration is charged once: a renewal is answered and lost.
THEOREM AnsweredIsRecorded ==
    ASSUME MaxCharges = 1
    PROVE  Spec => []ChargeRecorded
<1>1. Init => RecordedInv
    BY TypeInit DEF Init, RecordedInv, Cancels, ChargeRecorded, Actors
<1>2. RecordedInv /\ [Next]_vars => RecordedInv'
    BY RecordedStep
<1>3. RecordedInv => ChargeRecorded
    BY DEF RecordedInv
<1> QED
    BY <1>1, <1>2, <1>3, PTL DEF Spec

----------------------------------------------------------------------------
(* One refund per payment.                                                  *)

\* Every call of PayApp ends with its answer.
CallsEnd == "timeout" \notin Faults /\ "crash" \notin Faults

Locking == {"refundCalling", "refundWriting", "deactivating"}

\* A record is locked by one transaction.
OneHolder ==
    \A a, b \in Actors :
        a # b /\ pc[a] \in Locking /\ pc[b] \in Locking /\ found[a] = found[b]
            => found[a] = 0

\* Who is about to ask for the money back knows that it was not given back.
CallsForPaid ==
    \A a \in Actors : pc[a] = "refundCalling" => records[found[a]].state = "paid"

Written(i) == \A a \in Actors : pc[a] = "refundWriting" => found[a] # i

\* A record that says "paid" is right, except to the transaction that holds it.
PaidIsKept ==
    \A i \in DOMAIN records :
        records[i].state = "paid" /\ Written(i) => refunds[records[i].charge] = 0

\* What has no record cannot be given back.
NotYetRefunded ==
    \A c \in Charges : (\A i \in DOMAIN records : records[i].charge # c) => refunds[c] = 0

MoneyInv == OneHolder /\ CallsForPaid /\ PaidIsKept /\ NotYetRefunded /\ RefundedOnce

\* Steps that touch neither a lock nor a refund.
Quiet(a) ==
    /\ UNCHANGED <<records, refunds>>
    /\ pc[a] # "refundWriting" /\ pc'[a] \notin Locking

LEMMA LeaveIdle ==
    ASSUME TypeInv, NEW a \in Actors, Leave(a)
    PROVE  pc'[a] \notin Locking
BY LeaveShape DEF TypeInv, Locking

LEMMA GotoShape ==
    ASSUME TypeInv, NEW a \in Actors, NEW l, Goto(a, l)
    PROVE  pc'[a] = l
BY DEF TypeInv, LocalOK, Goto

LEMMA RefundCases ==
    ASSUME CallsEnd, TypeInv, NEW a \in Actors, ActorStep(a)
    PROVE  \/ Quiet(a)
           \/ a \in Workers /\ LoadSubscription(a) /\ pc'[a] = "deactivating"
           \/ a \in Workers /\ (Deactivate(a) \/ Activate(a))
           \/ a \in Callers /\ (Refund(a) \/ PayBack(a) \/ RefundCommit(a))
<1>1. CASE a \in Workers /\ \E m \in Webhooks : Receive(a, m)
  <2>1. pc'[a] = "checking" /\ pc[a] = "idle"
      BY <1>1, GotoShape DEF Receive
  <2> QED
      BY <1>1, <2>1 DEF Receive, Quiet, Locking, rows, provider
<1>2. CASE a \in Workers /\ Handle(a)
  <2>1. CASE \/ IgnoreDuplicate(a) \/ MultipleResults(a) \/ ActivateConflicts(a)
             \/ RefusePrice(a) \/ RefuseForm(a)
      BY <2>1, LeaveIdle DEF IgnoreDuplicate, MultipleResults, ActivateConflicts,
                             RefusePrice, RefuseForm, Quiet, rows, provider
  <2>2. CASE NewPayment(a) \/ CheckPrice(a) \/ FindCancelled(a)
    <3>1. pc'[a] \in {"pricing", "loading"}
        BY <2>2, GotoShape DEF NewPayment, CheckPrice, FindCancelled
    <3> QED
        BY <2>2, <3>1 DEF NewPayment, CheckPrice, FindCancelled, Quiet, Locking,
                          rows, provider
  <2>3. CASE LoadSubscription(a)
    <3>1. pc'[a] = IF msg[a].kind = "paid" THEN "activating" ELSE "deactivating"
        BY <2>3, GotoShape DEF LoadSubscription
    <3>2. pc'[a] = "activating" \/ pc'[a] = "deactivating"
        BY <3>1
    <3> QED
        BY <1>2, <2>3, <3>2 DEF LoadSubscription, Quiet, Locking, rows, provider
  <2> QED
      BY <1>2, <2>1, <2>2, <2>3 DEF Handle
<1>3. CASE a \in Callers /\ Request(a)
  <2>1. CASE Initiate(a)
    <3>1. pc'[a] \in {"refused", "choosing"}
        BY <2>1, GotoShape DEF Initiate
    <3> QED
        BY <2>1, <3>1 DEF Initiate, Quiet, Locking, rows, provider
  <2>2. CASE Cancel(a) \/ AdminDeactivate(a) \/ View(a)
    <3>1. pc'[a] \in {"cancelPicking", "adminPicking", "expiring"}
        BY <2>2, GotoShape DEF Cancel, AdminDeactivate, View
    <3> QED
        BY <2>2, <3>1 DEF Cancel, AdminDeactivate, View, Quiet, Locking, rows, provider
  <2> QED
      BY <1>3, <2>1, <2>2 DEF Request
<1>4. CASE a \in Callers /\ Serve(a)
  <2>1. CASE ReplyRefused(a) \/ Register(a) \/ RegisterFails(a)
      BY <2>1, LeaveIdle DEF ReplyRefused, Register, RegisterFails, Quiet, rows,
         provider
  <2>2. CASE PickRebill(a)
    <3>1. pc'[a] \in {"cancelCalling", "adminCalling"}
        BY <2>2, GotoShape DEF PickRebill
    <3> QED
        BY <2>2, <3>1 DEF PickRebill, Quiet, Locking, rows, provider
  <2>3. CASE Unbill(a)
    <3>1. pc'[a] \in {"cancelWriting", "adminWriting"}
        BY <2>3, GotoShape DEF Unbill
    <3> QED
        BY <2>3, <3>1 DEF Unbill, Quiet, Locking, rows, provider
  <2>4. CASE UnbillFails(a)
    <3>1. pc'[a] \in {"refused", "adminWriting"}
        BY <2>4, GotoShape DEF UnbillFails, AfterFailure
    <3> QED
        BY <2>4, <3>1 DEF UnbillFails, Quiet, Locking, rows, provider
  <2>5. CASE CancelCommit(a) \/ AdminCommit(a) \/ ExpireCommit(a)
      BY <2>5, LeaveIdle DEF CancelCommit, AdminCommit, ExpireCommit, Quiet, provider
  <2>6. CASE PayBackFails(a)
      BY <2>6, LeaveIdle DEF CallsEnd, PayBackFails, Quiet, rows
  <2>7. CASE ChoosePlan(a)
    <3>1. pc'[a] \in {"refused", "registering"}
        BY <2>7, GotoShape DEF ChoosePlan
    <3> QED
        BY <2>7, <3>1 DEF ChoosePlan, Quiet, Locking, rows, provider
  <2> QED
      BY <1>4, <2>1, <2>2, <2>3, <2>4, <2>5, <2>6, <2>7 DEF Serve
<1> QED
    BY <1>1, <1>2, <1>3, <1>4 DEF ActorStep, Crash, CallsEnd

LEMMA QuietMoney ==
    ASSUME DeliveryInv, MoneyInv, NEW a \in Actors, ActorStep(a), Quiet(a)
    PROVE  MoneyInv'
<1>1. Apart(a)
    BY StepApart DEF DeliveryInv
<1>2. OneHolder' /\ CallsForPaid'
    BY <1>1 DEF MoneyInv, OneHolder, CallsForPaid, Quiet, Apart, Locking
<1>3. \A i \in DOMAIN records : Written(i)' => Written(i)
    BY <1>1 DEF Written, Quiet, Apart
<1> QED
    BY <1>2, <1>3 DEF MoneyInv, PaidIsKept, NotYetRefunded, RefundedOnce, Quiet

LEMMA LockingMoney ==
    ASSUME DeliveryInv, MoneyInv, NEW w \in Workers, LoadSubscription(w),
           pc'[w] = "deactivating"
    PROVE  MoneyInv'
<1>1. Apart(w) /\ w \in Actors
    BY StepApart DEF DeliveryInv, ActorStep, Handle, Actors
<1>2. UNCHANGED <<found, records, refunds>> /\ pc[w] = "loading"
    BY DEF LoadSubscription, rows, provider
<1>3. \A b \in Actors \ {w} : pc[b] \in Locking /\ found[b] = found[w] => found[w] = 0
    BY DEF LoadSubscription, RecordLocked, Locking
<1>4. OneHolder' /\ CallsForPaid'
    BY <1>1, <1>2, <1>3 DEF MoneyInv, OneHolder, CallsForPaid, Apart
<1>5. \A i \in DOMAIN records : Written(i)' => Written(i)
    BY <1>1, <1>2 DEF Written, Apart
<1> QED
    BY <1>2, <1>4, <1>5 DEF MoneyInv, PaidIsKept, NotYetRefunded, RefundedOnce

LEMMA RefundMoney ==
    ASSUME DeliveryInv, MoneyInv, NEW a \in Callers, Refund(a)
    PROVE  MoneyInv'
<1>1. Apart(a) /\ a \in Actors
    BY StepApart DEF DeliveryInv, ActorStep, Request, Actors
<1>2. PICK i \in DOMAIN records : Refundable(i) /\ found' = [found EXCEPT ![a] = i]
    BY DEF Refund
<1>3. /\ UNCHANGED <<records, refunds>> /\ pc[a] = "idle"
      /\ pc'[a] = "refundCalling" /\ found'[a] = i
    BY <1>1, <1>2, GotoShape DEF Refund, rows, provider, DeliveryInv, TypeInv, LocalOK
<1>4. records[i].state = "paid"
    BY <1>2 DEF Refundable
<1>5. \A b \in Actors : pc[b] \in Locking => found[b] # i
    BY <1>2 DEF Refundable, RecordLocked, Locking
<1>6. OneHolder' /\ CallsForPaid'
    BY <1>1, <1>3, <1>4, <1>5 DEF MoneyInv, OneHolder, CallsForPaid, Apart
<1>7. \A j \in DOMAIN records : Written(j)' => Written(j)
    BY <1>1, <1>3 DEF Written, Apart
<1> QED
    BY <1>3, <1>6, <1>7 DEF MoneyInv, PaidIsKept, NotYetRefunded, RefundedOnce

LEMMA PayBackMoney ==
    ASSUME DeliveryInv, MoneyInv, NEW a \in Callers, PayBack(a)
    PROVE  MoneyInv'
<1> DEFINE i == found[a]
           c == records[i].charge
<1>1. Apart(a) /\ a \in Actors
    BY StepApart DEF DeliveryInv, ActorStep, Serve, Actors
<1>2. i \in DOMAIN records /\ c \in Charges
    BY RefundedCharge DEF DeliveryInv, PayBack, WithRecord
<1>3. /\ UNCHANGED <<records, found>> /\ pc[a] = "refundCalling"
      /\ pc'[a] = "refundWriting"
      /\ refunds' = [refunds EXCEPT ![c] = @ + 1]
    BY <1>1, GotoShape DEF PayBack, AcceptRefund, rows, DeliveryInv
<1>4. i # 0
    BY DEF DeliveryInv, TypeInv, LoadedInv, PayBack, WithRecord, Actors
<1>5. records[i].state = "paid"
    BY <1>1, <1>3 DEF MoneyInv, CallsForPaid
<1>6. Written(i)
    BY <1>1, <1>3, <1>4 DEF Written, MoneyInv, OneHolder, Locking
<1>7. refunds[c] = 0
    BY <1>2, <1>5, <1>6 DEF MoneyInv, PaidIsKept
<1>8. refunds \in [Charges -> 0..MaxRefunds]
    BY DEF DeliveryInv, TypeInv, ProviderOK
<1>9. refunds'[c] = 1 /\ \A d \in Charges \ {c} : refunds'[d] = refunds[d]
    BY <1>2, <1>3, <1>7, <1>8
<1>10. \A j \in DOMAIN records \ {i} : records[j].charge # c
    BY <1>2 DEF DeliveryInv, OneRecordPerCharge
<1>11. \A j \in DOMAIN records : records[j].charge \in Charges
  <2>1. records \in Seq(Records)
      BY DEF DeliveryInv, TypeInv, RowsOK
  <2>2. \A j \in DOMAIN records : records[j] \in Records
      BY <2>1
  <2> QED
      BY <2>2 DEF Records
<1> HIDE DEF c
<1>12. OneHolder' /\ CallsForPaid'
    BY <1>1, <1>3 DEF MoneyInv, OneHolder, CallsForPaid, Apart, Locking
<1>13. PaidIsKept'
  <2> SUFFICES ASSUME NEW j \in DOMAIN records, records[j].state = "paid", Written(j)'
               PROVE  refunds'[records[j].charge] = 0
      BY <1>3 DEF PaidIsKept
  <2>1. j # i
      BY <1>1, <1>3 DEF Written
  <2>2. Written(j)
      BY <1>1, <1>3 DEF Written, Apart
  <2> QED
      BY <1>9, <1>10, <1>11, <2>1, <2>2 DEF MoneyInv, PaidIsKept
<1>14. NotYetRefunded'
  <2> SUFFICES ASSUME NEW d \in Charges, \A j \in DOMAIN records : records[j].charge # d
               PROVE  refunds'[d] = 0
      BY <1>3 DEF NotYetRefunded
  <2>1. d # c
      BY <1>2 DEF c
  <2> QED
      BY <1>9, <2>1 DEF MoneyInv, NotYetRefunded
<1>15. RefundedOnce'
    BY <1>9 DEF MoneyInv, RefundedOnce
<1> QED
    BY <1>12, <1>13, <1>14, <1>15 DEF MoneyInv

\* A commit that closes the record it holds, or changes none.
LEMMA ClosingMoney ==
    ASSUME DeliveryInv, MoneyInv, NEW a \in Actors, Apart(a), pc[a] \in Locking,
           pc'[a] \notin Locking, UNCHANGED refunds,
           pc[a] = "refundWriting" => found[a] # 0,
           found[a] = 0 \/ found[a] \in DOMAIN records,
           records' = IF found[a] = 0 THEN records ELSE Close(found[a])
    PROVE  MoneyInv'
<1> DEFINE i == found[a]
<1>1. OneHolder'
    BY DEF MoneyInv, OneHolder, Apart
<1>2. records \in Seq(Records)
    BY DEF DeliveryInv, TypeInv, RowsOK
<1>3. CASE i = 0
  <2>1. records' = records
      BY <1>3
  <2>2. CallsForPaid'
      BY <2>1 DEF MoneyInv, CallsForPaid, Apart, Locking
  <2>3. \A j \in DOMAIN records : Written(j)' => Written(j)
      BY <1>3 DEF Written, Apart
  <2> QED
      BY <1>1, <2>1, <2>2, <2>3 DEF MoneyInv, PaidIsKept, NotYetRefunded, RefundedOnce
<1>4. CASE i # 0
  <2>1. /\ DOMAIN records' = DOMAIN records
        /\ \A j \in DOMAIN records : records'[j].charge = records[j].charge
        /\ \A j \in DOMAIN records \ {i} : records'[j] = records[j]
        /\ records'[i].state = "closed"
      BY <1>2, <1>4, ClosedRecords
  <2>2. \A b \in Actors \ {a} : pc[b] \in Locking => found[b] # i
      BY <1>4 DEF MoneyInv, OneHolder
  <2>3. CallsForPaid'
    <3> SUFFICES ASSUME NEW b \in Actors, pc'[b] = "refundCalling"
                 PROVE  records'[found'[b]].state = "paid"
        BY DEF CallsForPaid
    <3>1. b # a /\ pc[b] = "refundCalling" /\ found'[b] = found[b]
        BY DEF Apart, Locking
    <3>2. found[b] # i /\ found[b] \in DOMAIN records
        BY <2>2, <3>1 DEF Locking, WithRecord, DeliveryInv, TypeInv, LoadedInv
    <3> QED
        BY <2>1, <3>1, <3>2 DEF MoneyInv, CallsForPaid
  <2>4. PaidIsKept'
    <3> SUFFICES ASSUME NEW j \in DOMAIN records', records'[j].state = "paid", Written(j)'
                 PROVE  refunds'[records'[j].charge] = 0
        BY DEF PaidIsKept
    <3>1. j \in DOMAIN records /\ j # i
        BY <2>1
    <3>2. Written(j)
        BY <3>1 DEF Written, Apart
    <3> QED
        BY <2>1, <3>1, <3>2 DEF MoneyInv, PaidIsKept
  <2>5. NotYetRefunded' /\ RefundedOnce'
      BY <2>1 DEF MoneyInv, NotYetRefunded, RefundedOnce
  <2> QED
      BY <1>1, <2>3, <2>4, <2>5 DEF MoneyInv
<1> QED
    BY <1>3, <1>4

LEMMA ActivateMoney ==
    ASSUME DeliveryInv, MoneyInv, NEW w \in Workers, Activate(w)
    PROVE  MoneyInv'
<1> DEFINE n == Len(records) + 1
<1>1. Apart(w) /\ w \in Actors
    BY StepApart DEF DeliveryInv, ActorStep, Handle, Actors
<1>2. /\ DOMAIN records' = DOMAIN records \cup {n} /\ n \notin DOMAIN records
      /\ \A i \in DOMAIN records : records'[i] = records[i]
      /\ records'[n] = [charge |-> msg[w].charge, state |-> "paid"]
      /\ msg[w] \in Webhooks
    BY NewRecord DEF DeliveryInv
<1>3. records'[n].charge = msg[w].charge /\ msg[w].charge \in Charges
    BY <1>2 DEF Webhooks
<1>4. pc[w] = "activating" /\ pc'[w] \notin Locking /\ UNCHANGED refunds
    BY <1>1, LeaveIdle DEF Activate, DeliveryInv, provider
<1>5. \A i \in DOMAIN records : records[i].charge # msg[w].charge
    BY <1>4 DEF DeliveryInv, PaymentOf, Unrecorded
<1>6. refunds[msg[w].charge] = 0
    BY <1>3, <1>5 DEF MoneyInv, NotYetRefunded
<1> HIDE DEF n
<1>7. OneHolder'
    BY <1>1, <1>4 DEF MoneyInv, OneHolder, Apart
<1>8. CallsForPaid'
  <2> SUFFICES ASSUME NEW b \in Actors, pc'[b] = "refundCalling"
               PROVE  records'[found'[b]].state = "paid"
      BY DEF CallsForPaid
  <2>1. b # w /\ pc[b] = "refundCalling" /\ found'[b] = found[b]
      BY <1>1, <1>4 DEF Apart, Locking
  <2>2. found[b] \in DOMAIN records
      BY <2>1 DEF WithRecord, DeliveryInv, TypeInv, LoadedInv
  <2> QED
      BY <1>2, <2>1, <2>2 DEF MoneyInv, CallsForPaid
<1>9. PaidIsKept'
  <2> SUFFICES ASSUME NEW j \in DOMAIN records', records'[j].state = "paid", Written(j)'
               PROVE  refunds'[records'[j].charge] = 0
      BY DEF PaidIsKept
  <2>1. CASE j = n
      BY <1>3, <1>4, <1>6, <2>1
  <2>2. CASE j \in DOMAIN records
    <3>1. Written(j)
        BY <1>1, <1>4 DEF Written, Apart
    <3> QED
        BY <1>2, <1>4, <2>2, <3>1 DEF MoneyInv, PaidIsKept
  <2> QED
      BY <1>2, <2>1, <2>2
<1>10. NotYetRefunded' /\ RefundedOnce'
    BY <1>2, <1>4 DEF MoneyInv, NotYetRefunded, RefundedOnce
<1> QED
    BY <1>7, <1>8, <1>9, <1>10 DEF MoneyInv

LEMMA MoneyActor ==
    ASSUME CallsEnd, DeliveryInv, MoneyInv, NEW a \in Actors, ActorStep(a)
    PROVE  MoneyInv'
<1>1. Apart(a) /\ LoadedBy(a)
    BY StepApart, LoadedSplit DEF DeliveryInv, TypeInv
<1>2. CASE a \in Workers /\ Deactivate(a)
  <2>1. pc'[a] \notin Locking
      BY <1>2, LeaveIdle DEF Deactivate, DeliveryInv
  <2> QED
      BY <1>1, <1>2, <2>1, ClosingMoney DEF Deactivate, Locking, LoadedBy, provider
<1>3. CASE a \in Callers /\ RefundCommit(a)
  <2>1. pc'[a] \notin Locking
      BY <1>3, LeaveIdle DEF RefundCommit, DeliveryInv
  <2>2. found[a] # 0 /\ found[a] \in DOMAIN records
      BY <1>1, <1>3 DEF RefundCommit, LoadedBy, WithRecord
  <2> QED
      BY <1>1, <1>3, <2>1, <2>2, ClosingMoney DEF RefundCommit, Locking, provider
<1> QED
    BY <1>2, <1>3, RefundCases, QuietMoney, LockingMoney, RefundMoney, PayBackMoney,
       ActivateMoney DEF DeliveryInv

LEMMA MoneyStep ==
    ASSUME CallsEnd, DeliveryInv, MoneyInv, [Next]_vars
    PROVE  MoneyInv'
<1>1. CASE \E a \in Actors : ActorStep(a)
    BY <1>1, MoneyActor
<1>2. CASE Outside
  <2>1. UNCHANGED <<records, local, refunds>>
      BY <1>2, Elsewhere
  <2> QED
      BY <2>1 DEF MoneyInv, OneHolder, CallsForPaid, PaidIsKept, Written,
                  NotYetRefunded, RefundedOnce, local
<1> QED
    BY <1>1, <1>2, NextCases DEF Outside

LEMMA MoneyInit ==
    ASSUME Init
    PROVE  MoneyInv
<1>1. DOMAIN records = {} /\ \A a \in Actors : pc[a] = "idle"
    BY DEF Init
<1>2. \A c \in Charges : refunds[c] = 0
    BY DEF Init
<1> QED
    BY <1>1, <1>2 DEF MoneyInv, OneHolder, CallsForPaid, PaidIsKept, NotYetRefunded,
                      RefundedOnce, Locking

\* However many refunds of a payment are requested at once, and whatever
\* webhooks close its record meanwhile, PayApp is asked once
\* (payment/service.py:588), as long as a call that PayApp accepts is answered
\* and a charge has one record.
THEOREM OneRefund ==
    ASSUME Serial, CallsEnd
    PROVE  Spec => []RefundedOnce
<1>1. Init => DeliveryInv /\ MoneyInv
    BY DeliveryInit, MoneyInit
<1>2. DeliveryInv /\ MoneyInv /\ [Next]_vars => DeliveryInv' /\ MoneyInv'
    BY DeliveryStep, MoneyStep
<1>3. MoneyInv => RefundedOnce
    BY DEF MoneyInv
<1> QED
    BY <1>1, <1>2, <1>3, PTL DEF Spec

----------------------------------------------------------------------------
(* A cancelled subscription is off.                                         *)

\* The user has one registration: none is opened while another is waiting for
\* its payment.  The runs show what two of them do.
OneRegistration == \A r, s \in Rebills : r = s

\* What stops a subscription stops its registration: nobody refunds a payment,
\* and the admin's call to PayApp is not refused.
StopsReach == "refund" \notin Ops /\ ("admin" \in Ops => "payapp" \notin Faults)

AllOff == \A r \in Rebills : reg[r] = "off"

\* What coroutine a knows of the registration.
OffOf(a) ==
    /\ pc[a] \in {"cancelWriting", "adminWriting"} => AllOff
    /\ a \in Callers /\ pc[a] \in {"cancelCalling", "adminCalling"} => target[a] \in Rebills
    /\ pc[a] \in {"adminPicking", "adminCalling"} => "admin" \in Ops
    /\ pc[a] \notin WithRecord
    /\ a \in Workers /\ pc[a] = "deactivating" => msg[a].kind # "paid"

OutboxOff == \A m \in outbox : m.kind # "refund" /\ (m.kind = "cancel" => AllOff)

RowOff == sub # NoRow /\ ~sub.renew => AllOff

OffInv == TypeInv /\ (\A a \in Actors : OffOf(a)) /\ OutboxOff /\ RowOff

\* The steps that write the row.
LEMMA RowWriters ==
    ASSUME NEW a \in Actors, ActorStep(a)
    PROVE  \/ UNCHANGED sub
           \/ a \in Workers /\ (Activate(a) \/ Deactivate(a))
           \/ a \in Callers /\ (CancelCommit(a) \/ AdminCommit(a) \/ ExpireCommit(a))
<1>1. CASE a \in Workers /\ \E m \in Webhooks : Receive(a, m)
    BY <1>1 DEF Receive, rows
<1>2. CASE a \in Workers /\ Handle(a)
    BY <1>2 DEF Handle, IgnoreDuplicate, MultipleResults, NewPayment, CheckPrice,
              RefusePrice, RefuseForm, FindCancelled, LoadSubscription,
              ActivateConflicts, rows
<1>3. CASE a \in Callers /\ Request(a)
    BY <1>3 DEF Request, Initiate, Cancel, AdminDeactivate, Refund, View, rows
<1>4. CASE a \in Callers /\ Serve(a)
    BY <1>4 DEF Serve, ChoosePlan, ReplyRefused, Register, RegisterFails, PickRebill,
              Unbill, UnbillFails, PayBack, PayBackFails, RefundCommit, rows
<1>5. CASE Crash(a)
    BY <1>5 DEF Crash, rows
<1> QED
    BY <1>1, <1>2, <1>3, <1>4, <1>5 DEF ActorStep

\* The steps that touch the registrations, and the ones that make PayApp speak.
LEMMA RegistrationSteps ==
    ASSUME NEW a \in Actors, ActorStep(a)
    PROVE  /\ \/ UNCHANGED reg
              \/ a \in Callers /\ (Register(a) \/ Unbill(a) \/ UnbillFails(a))
           /\ \/ UNCHANGED outbox
              \/ a \in Callers /\ (PayBack(a) \/ PayBackFails(a))
<1>1. UNCHANGED provider => UNCHANGED reg /\ UNCHANGED outbox
    BY DEF provider
<1>2. CASE a \in Workers /\ \E m \in Webhooks : Receive(a, m)
  <2>1. UNCHANGED provider
      BY <1>2 DEF Receive
  <2> QED
      BY <1>1, <2>1
<1>3. CASE a \in Workers /\ Handle(a)
  <2>1. UNCHANGED provider
      BY <1>3 DEF Handle, IgnoreDuplicate, MultipleResults, NewPayment, CheckPrice,
         RefusePrice, RefuseForm, FindCancelled, LoadSubscription, Activate,
         ActivateConflicts, Deactivate
  <2> QED
      BY <1>1, <2>1
<1>4. CASE a \in Callers /\ Request(a)
  <2>1. UNCHANGED provider
      BY <1>4 DEF Request, Initiate, Cancel, AdminDeactivate, Refund, View
  <2> QED
      BY <1>1, <2>1
<1>5. CASE a \in Callers /\ Serve(a)
  <2>1. CASE \/ ChoosePlan(a) \/ ReplyRefused(a) \/ RegisterFails(a) \/ PickRebill(a)
             \/ CancelCommit(a) \/ AdminCommit(a) \/ RefundCommit(a) \/ ExpireCommit(a)
    <3>1. UNCHANGED provider
        BY <2>1 DEF ChoosePlan, ReplyRefused, RegisterFails, PickRebill, CancelCommit,
           AdminCommit, RefundCommit, ExpireCommit
    <3> QED
        BY <1>1, <3>1
  <2>2. CASE Register(a) \/ Unbill(a) \/ UnbillFails(a)
      BY <1>5, <2>2 DEF Register, Unbill, UnbillFails
  <2>3. CASE PayBack(a) \/ PayBackFails(a)
      BY <1>5, <2>3 DEF PayBack, PayBackFails
  <2> QED
      BY <1>5, <2>1, <2>2, <2>3 DEF Serve
<1>6. CASE Crash(a)
  <2>1. UNCHANGED provider
      BY <1>6 DEF Crash
  <2> QED
      BY <1>1, <2>1
<1> QED
    BY <1>2, <1>3, <1>4, <1>5, <1>6 DEF ActorStep

\* The registration another request cancels stays the same.
LEMMA TargetsApart ==
    ASSUME NEW a \in Actors, ActorStep(a), target \in [Callers -> Rebills \cup {NoRebill}]
    PROVE  \A b \in Callers \ {a} : target'[b] = target[b]
<1>1. ASSUME Leave(a) PROVE \A b \in Callers \ {a} : target'[b] = target[b]
    BY <1>1 DEF Leave
<1>2. CASE a \in Workers /\ \E m \in Webhooks : Receive(a, m)
    BY <1>2 DEF Receive
<1>3. CASE a \in Workers /\ Handle(a)
    BY <1>1, <1>3 DEF Handle, IgnoreDuplicate, MultipleResults, NewPayment, CheckPrice,
       RefusePrice, RefuseForm, FindCancelled, LoadSubscription, Activate,
       ActivateConflicts, Deactivate
<1>4. CASE a \in Callers /\ Request(a)
    BY <1>4 DEF Request, Initiate, Cancel, AdminDeactivate, Refund, View
<1>5. CASE a \in Callers /\ Serve(a)
  <2>1. CASE PickRebill(a)
      BY <2>1 DEF PickRebill
  <2> QED
      BY <1>1, <1>5, <2>1 DEF Serve, ChoosePlan, ReplyRefused, Register, RegisterFails,
         Unbill, UnbillFails, CancelCommit, AdminCommit, PayBack, PayBackFails,
         RefundCommit, ExpireCommit
<1>6. CASE Crash(a)
    BY <1>1, <1>6 DEF Crash
<1> QED
    BY <1>2, <1>3, <1>4, <1>5, <1>6 DEF ActorStep

\* The registration is off for good, and a call that takes effect puts it off.
LEMMA OffStays ==
    ASSUME TypeInv, AllOff, [Next]_vars
    PROVE  AllOff'
<1>1. CASE \E a \in Actors : ActorStep(a)
  <2>1. PICK a \in Actors : ActorStep(a)
      BY <1>1
  <2>2. CASE Register(a)
      BY <2>2 DEF Register, AllOff
  <2>3. CASE Unbill(a) \/ UnbillFails(a)
      BY <2>3 DEF Unbill, UnbillFails, AllOff, TypeInv, ProviderOK, provider
  <2> QED
      BY <2>1, <2>2, <2>3, RegistrationSteps DEF AllOff
<1>2. CASE ProviderStep
    BY <1>2 DEF ProviderStep, UserPays, MonthlyCharge, ProviderCancels, AllOff
<1>3. CASE Month \/ ChangePrice \/ UNCHANGED vars
    BY <1>3 DEF Month, ChangePrice, vars, provider, AllOff
<1> QED
    BY <1>1, <1>2, <1>3, NextCases

LEMMA StoppedRegistration ==
    ASSUME OneRegistration, TypeInv, NEW r \in Rebills, reg' = [reg EXCEPT ![r] = "off"]
    PROVE  AllOff'
BY DEF OneRegistration, TypeInv, ProviderOK, AllOff

\* A step that keeps what the others know keeps the invariant.
LEMMA OffKept ==
    ASSUME OffInv, [Next]_vars, NEW a \in Actors, ActorStep(a),
           OffOf(a)', OutboxOff', RowOff'
    PROVE  OffInv'
<1>1. TypeInv' /\ Apart(a) /\ (AllOff => AllOff')
    BY TypeStep, StepApart, OffStays DEF OffInv
<1>2. \A b \in Callers \ {a} : target'[b] = target[b]
    BY TargetsApart DEF OffInv, TypeInv, LocalOK
<1>3. ASSUME NEW b \in Actors, b # a PROVE OffOf(b)'
  <2>1. OffOf(b)
      BY <1>3 DEF OffInv
  <2>2. pc'[b] = pc[b] /\ (b \in Workers => msg'[b] = msg[b])
      BY <1>1, <1>3 DEF Apart
  <2>3. b \in Callers => target'[b] = target[b]
      BY <1>2, <1>3
  <2> QED
      BY <1>1, <2>1, <2>2, <2>3 DEF OffOf
<1> QED
    BY <1>1, <1>3 DEF OffInv

\* What coroutine a knows after its step.
LEMMA OffLeaving ==
    ASSUME TypeInv, NEW a \in Actors, Leave(a)
    PROVE  OffOf(a)'
BY LeaveShape DEF TypeInv, OffOf, WithRecord

LEMMA OffKnown ==
    ASSUME OneRegistration, StopsReach, OffInv, NEW a \in Actors, ActorStep(a)
    PROVE  OffOf(a)'
<1>1. OffOf(a) /\ TypeInv /\ (a \in Workers => a \notin Callers)
    BY ConstantsAssumption DEF OffInv
<1> DEFINE Silent(l) == l \notin {"cancelWriting", "adminWriting", "cancelCalling",
                                  "adminCalling", "adminPicking", "deactivating"}
                                \cup WithRecord
<1>2. ASSUME NEW l, Goto(a, l), Silent(l) PROVE OffOf(a)'
  <2>1. pc'[a] = l
      BY <1>1, <1>2, GotoShape
  <2> QED
      BY <1>2, <2>1 DEF OffOf
<1>3. CASE a \in Workers /\ \E m \in Webhooks : Receive(a, m)
    BY <1>2, <1>3 DEF Receive, WithRecord
<1>4. CASE a \in Workers /\ Handle(a)
  <2>1. CASE NewPayment(a) \/ CheckPrice(a) \/ FindCancelled(a)
      BY <1>2, <2>1 DEF NewPayment, CheckPrice, FindCancelled, WithRecord
  <2>2. CASE LoadSubscription(a)
    <3>1. pc'[a] = IF msg[a].kind = "paid" THEN "activating" ELSE "deactivating"
        BY <1>1, <2>2, GotoShape DEF LoadSubscription
    <3>2. msg' = msg
        BY <2>2 DEF LoadSubscription
    <3> QED
        BY <1>1, <1>4, <3>1, <3>2 DEF OffOf, WithRecord
  <2> QED
      BY <1>1, <1>4, <2>1, <2>2, OffLeaving
      DEF Handle, IgnoreDuplicate, MultipleResults, RefusePrice, RefuseForm, Activate,
          ActivateConflicts, Deactivate
<1>5. CASE a \in Callers /\ Request(a)
  <2>1. ~Refund(a)
      BY DEF StopsReach, Refund
  <2>2. CASE AdminDeactivate(a)
    <3>1. pc'[a] = "adminPicking" /\ "admin" \in Ops
        BY <1>1, <2>2, GotoShape DEF AdminDeactivate
    <3> QED
        BY <3>1 DEF OffOf, WithRecord
  <2> QED
      BY <1>2, <1>5, <2>1, <2>2 DEF Request, Initiate, Cancel, View, WithRecord
<1>6. CASE a \in Callers /\ Serve(a)
  <2>1. CASE PickRebill(a)
    <3>1. pc'[a] = IF pc[a] = "cancelPicking" THEN "cancelCalling" ELSE "adminCalling"
        BY <1>1, <2>1, GotoShape DEF PickRebill
    <3>2. pc[a] \in {"cancelPicking", "adminPicking"}
        BY <2>1 DEF PickRebill
    <3>3. target'[a] \in Rebills
      <4>1. records \in Seq(Records) /\ records # <<>>
          BY <2>1 DEF OffInv, TypeInv, RowsOK, PickRebill
      <4>2. records[Len(records)] \in Records
          BY <4>1
      <4>3. records[Len(records)].charge[1] \in Rebills
          BY <4>2 DEF Records, Charges
      <4> QED
          BY <1>1, <1>6, <2>1, <4>3 DEF PickRebill, TypeInv, LocalOK
    <3> QED
        BY <1>1, <1>6, <3>1, <3>2, <3>3 DEF OffOf, WithRecord
  <2>2. CASE Unbill(a)
    <3>1. pc'[a] \in {"cancelWriting", "adminWriting"}
        BY <1>1, <2>2, GotoShape DEF Unbill
    <3>2. target[a] \in Rebills /\ reg' = [reg EXCEPT ![target[a]] = "off"]
        BY <1>1, <1>6, <2>2 DEF Unbill, OffOf
    <3>3. AllOff'
        BY <1>1, <3>2, StoppedRegistration
    <3> QED
        BY <1>1, <1>6, <3>1, <3>3 DEF OffOf, WithRecord
  <2>3. CASE UnbillFails(a)
    <3>1. pc'[a] = IF pc[a] = "cancelCalling" THEN "refused" ELSE "adminWriting"
        BY <1>1, <2>3, GotoShape DEF UnbillFails, AfterFailure
    <3>2. CASE pc[a] = "cancelCalling"
        BY <1>6, <1>1, <3>1, <3>2 DEF OffOf, WithRecord
    <3>3. CASE pc[a] # "cancelCalling"
      <4>1. pc[a] = "adminCalling" /\ target[a] \in Rebills /\ "payapp" \notin Faults
          BY <1>1, <1>6, <2>3, <3>3 DEF UnbillFails, OffOf, StopsReach
      <4>2. reg' = [reg EXCEPT ![target[a]] = "off"]
          BY <2>3, <4>1 DEF UnbillFails
      <4>3. AllOff'
          BY <1>1, <4>1, <4>2, StoppedRegistration
      <4> QED
          BY <1>1, <1>6, <3>1, <3>3, <4>3 DEF OffOf, WithRecord
    <3> QED
        BY <3>2, <3>3
  <2>4. ~PayBack(a)
      BY <1>1 DEF PayBack, OffOf, WithRecord
  <2>5. CASE ChoosePlan(a)
      BY <1>2, <2>5 DEF ChoosePlan, WithRecord
  <2> QED
      BY <1>1, <1>6, <2>1, <2>2, <2>3, <2>4, <2>5, OffLeaving
      DEF Serve, ReplyRefused, Register, RegisterFails, CancelCommit, AdminCommit,
          PayBackFails, RefundCommit, ExpireCommit
<1>7. CASE Crash(a)
    BY <1>1, <1>7, OffLeaving DEF Crash
<1> QED
    BY <1>3, <1>4, <1>5, <1>6, <1>7 DEF ActorStep

\* The columns of a commit.
LEMMA MergedRenew ==
    ASSUME NEW l \in Rows, NEW n \in Rows, sub \in Rows
    PROVE  Merged(l, n).renew = IF n.renew # l.renew THEN n.renew ELSE sub.renew
<1>1. DOMAIN n = {"active", "renew", "expires"}
    BY DEF Rows
<1> QED
    BY <1>1 DEF Merged

LEMMA MergedActive ==
    ASSUME NEW l \in Rows, NEW n \in Rows, sub \in Rows
    PROVE  Merged(l, n).active = IF n.active # l.active THEN n.active ELSE sub.active
<1>1. DOMAIN n = {"active", "renew", "expires"}
    BY DEF Rows
<1> QED
    BY <1>1 DEF Merged

LEMMA MergedExpires ==
    ASSUME NEW l \in Rows, NEW n \in Rows, sub \in Rows
    PROVE  Merged(l, n).expires = IF n.expires # l.expires THEN n.expires ELSE sub.expires
<1>1. DOMAIN n = {"active", "renew", "expires"}
    BY DEF Rows
<1> QED
    BY <1>1 DEF Merged

\* A coroutine that writes a row it has loaded.
LEMMA LoadedRows ==
    ASSUME TypeInv, NEW a \in Actors
    PROVE  seen[a] # NoRow => seen[a] \in Rows /\ sub \in Rows
BY DEF TypeInv, LocalOK, RowsOK, LoadedInv

\* A row that does not renew is written by a cancellation only.
LEMMA RowOffStep ==
    ASSUME StopsReach, OffInv, NEW a \in Actors, ActorStep(a), AllOff => AllOff'
    PROVE  RowOff'
<1>1. OffOf(a) /\ TypeInv /\ TypeInv' /\ RowOff
    BY TypeActor DEF OffInv
<1>2. CASE UNCHANGED sub
    BY <1>1, <1>2 DEF RowOff
<1>3. CASE a \in Workers /\ Activate(a)
  <2> DEFINE row == [active |-> TRUE, renew |-> TRUE, expires |-> Renewed(clock[a])]
  <2>1. row.renew = TRUE
      OBVIOUS
  <2>2. row \in Rows
    <3>1. clock[a] \in 0..MaxNow
        BY <1>1 DEF TypeInv, LocalOK
    <3>2. clock[a] + 1 \in 0..(MaxNow + 1)
        BY <3>1, ConstantsAssumption
    <3> QED
        BY <3>2 DEF Rows, Renewed
  <2>3. sub' = IF seen[a] = NoRow THEN row ELSE Merged(seen[a], row)
      BY <1>3 DEF Activate
  <2> HIDE DEF row
  <2>4. CASE seen[a] = NoRow
      BY <2>1, <2>3, <2>4 DEF RowOff
  <2>5. CASE seen[a] # NoRow
    <3>1. seen[a] \in Rows /\ sub \in Rows
        BY <1>1, <2>5, LoadedRows
    <3>2. sub'.renew = IF row.renew # seen[a].renew THEN row.renew ELSE sub.renew
        BY <2>2, <2>3, <2>5, <3>1, MergedRenew
    <3>3. ~sub'.renew => ~sub.renew
        BY <2>1, <3>2
    <3> QED
        BY <1>1, <3>1, <3>3, ConstantsAssumption DEF RowOff
  <2> QED
      BY <2>4, <2>5
<1>4. CASE a \in Workers /\ Deactivate(a)
  <2>1. msg[a] \in outbox /\ msg[a].kind # "paid"
      BY <1>1, <1>4 DEF Deactivate, OffOf, TypeInv, LoadedInv
  <2>2. msg[a] \in Webhooks
      BY <1>1, <2>1 DEF TypeInv, ProviderOK
  <2>3. AllOff
      BY <2>1, <2>2 DEF OffInv, OutboxOff, Webhooks
  <2> QED
      BY <2>3 DEF RowOff
<1>5. CASE a \in Callers /\ (CancelCommit(a) \/ AdminCommit(a))
    BY <1>1, <1>5 DEF CancelCommit, AdminCommit, OffOf, RowOff
<1>6. CASE a \in Callers /\ ExpireCommit(a)
  <2> DEFINE new == [seen[a] EXCEPT !.active = FALSE]
  <2>1. seen[a] # NoRow
      BY <1>6 DEF ExpireCommit, OffInv, TypeInv, LoadedInv, WithRow
  <2>2. seen[a] \in Rows /\ sub \in Rows
      BY <1>1, <2>1, LoadedRows
  <2>3. new \in Rows /\ new.renew = seen[a].renew
      BY <2>2 DEF Rows
  <2>4. sub' = Merged(seen[a], new)
      BY <1>6 DEF ExpireCommit
  <2> HIDE DEF new
  <2>5. sub'.renew = sub.renew
      BY <2>2, <2>3, <2>4, MergedRenew
  <2> QED
      BY <1>1, <2>2, <2>5, ConstantsAssumption DEF RowOff
<1> QED
    BY <1>2, <1>3, <1>4, <1>5, <1>6, RowWriters

LEMMA OffActor ==
    ASSUME OneRegistration, StopsReach, OffInv, NEW a \in Actors, ActorStep(a)
    PROVE  OffInv'
<1>1. [Next]_vars
    BY DEF Next, ActorStep, Actors
<1>2. OffOf(a) /\ TypeInv
    BY DEF OffInv
<1>3. AllOff => AllOff'
    BY <1>1, <1>2, OffStays
<1>4. OffOf(a)'
    BY OffKnown
<1>5. RowOff'
    BY <1>3, RowOffStep
<1>6. OutboxOff'
  <2>1. ~PayBack(a) /\ ~PayBackFails(a)
      BY <1>2 DEF PayBack, PayBackFails, OffOf, WithRecord
  <2>2. UNCHANGED outbox
      BY <2>1, RegistrationSteps
  <2> QED
      BY <1>3, <2>2 DEF OffInv, OutboxOff
<1> QED
    BY <1>1, <1>4, <1>5, <1>6, OffKept

\* PayApp speaks of a cancellation when it has put the registration off.
LEMMA OffElsewhere ==
    ASSUME OneRegistration, OffInv, Outside
    PROVE  OffInv'
<1>1. [Next]_vars
    BY DEF Next, Outside, ProviderStep
<1>2. TypeInv' /\ (AllOff => AllOff')
    BY <1>1, TypeStep, OffStays DEF OffInv
<1>3. UNCHANGED <<sub, pc, msg, target>>
    BY Elsewhere DEF local
<1>4. (\A a \in Actors : OffOf(a)') /\ RowOff'
    BY <1>2, <1>3 DEF OffInv, OffOf, RowOff
<1>5. OutboxOff'
  <2>1. CASE Month \/ ChangePrice \/ UNCHANGED vars
    <3>1. UNCHANGED provider
        BY <2>1 DEF Month, ChangePrice, vars
    <3>2. UNCHANGED outbox
        BY <3>1 DEF provider
    <3> QED
        BY <1>2, <3>2 DEF OffInv, OutboxOff
  <2>2. CASE ProviderStep
    <3>1. PICK r \in Rebills : UserPays(r) \/ MonthlyCharge(r) \/ ProviderCancels(r)
        BY <2>2 DEF ProviderStep
    <3>2. CASE UserPays(r) \/ MonthlyCharge(r)
      <4>1. outbox' = outbox \cup {[kind |-> "paid", charge |-> <<r, charged[r] + 1>>]}
          BY <3>2 DEF UserPays, MonthlyCharge, Charge, Send
      <4> QED
          BY <1>2, <4>1 DEF OffInv, OutboxOff
    <3>3. CASE ProviderCancels(r)
      <4>1. /\ outbox' = outbox \cup {[kind |-> "cancel", charge |-> <<r, charged[r]>>]}
            /\ reg' = [reg EXCEPT ![r] = "off"]
          BY <3>3 DEF ProviderCancels, Send
      <4>2. AllOff'
          BY <4>1, StoppedRegistration DEF OffInv
      <4> QED
          BY <4>1, <4>2 DEF OffInv, OutboxOff
    <3> QED
        BY <3>1, <3>2, <3>3
  <2> QED
      BY <2>1, <2>2 DEF Outside
<1> QED
    BY <1>2, <1>4, <1>5 DEF OffInv

LEMMA OffInit ==
    ASSUME Init
    PROVE  OffInv
<1>1. \A a \in Actors : OffOf(a)
    BY DEF Init, OffOf, WithRecord
<1>2. OutboxOff /\ RowOff
    BY DEF Init, OutboxOff, RowOff
<1> QED
    BY <1>1, <1>2, TypeInit DEF OffInv

\* A subscription that has been cancelled, by the user, the admin or PayApp, is
\* charged no more: whatever its cancellation races with and whatever fails
\* (payment/service.py:98, 187), as long as the user has one registration,
\* nobody refunds a payment and PayApp obeys the admin.
THEOREM CancelledIsNotCharged ==
    ASSUME OneRegistration, StopsReach
    PROVE  Spec => []CancelledIsOff
<1>1. Init => OffInv
    BY OffInit
<1>2. OffInv /\ [Next]_vars => OffInv'
    BY NextCases, OffActor, OffElsewhere DEF Outside
<1>3. OffInv => CancelledIsOff
    BY DEF OffInv, RowOff, AllOff, CancelledIsOff
<1> QED
    BY <1>1, <1>2, <1>3, PTL DEF Spec

----------------------------------------------------------------------------
(* What was paid can be used.                                               *)

\* One webhook is handled after the other.
OneWorker == \A v, w \in Workers : v = w

\* The user pays, cancels and looks at the subscription; nobody takes it away.
OnlyUser == Ops \subseteq {"initiate", "cancel", "view", "plans"}

\* With one registration the first payment makes the row, and only the first.
FirstPayment == sub = NoRow <=> records = <<>>

\* What coroutine a knows of the paid time.
TimeOf(a) ==
    /\ a \in Workers =>
          /\ pc[a] \in {"pricing", "loading", "activating"} => records = <<>>
          /\ pc[a] # "deactivating"
    /\ pc[a] \notin WithRecord \cup {"adminPicking", "adminCalling", "adminWriting"}
    /\ seen[a] # NoRow => seen[a].expires = sub.expires
    /\ pc[a] = "expiring" => seen[a].expires < now

OutboxPaid == \A m \in outbox : m.kind = "paid"

RowPaid == sub # NoRow /\ ~sub.active => sub.expires < now

PaidInv ==
    /\ TypeInv /\ FirstPayment
    /\ \A a \in Actors : TimeOf(a)
    /\ OutboxPaid /\ RowPaid

\* Only a payment ends the records' being empty, and only the clock moves on.
LEMMA RecordsOrActivate ==
    ASSUME TypeInv, NEW a \in Actors, ActorStep(a)
    PROVE  \/ a \in Workers /\ Activate(a)
           \/ records' = <<>> <=> records = <<>>
<1>1. records \in Seq(Records) /\ records' \in Seq(Records)
    BY TypeActor DEF TypeInv, RowsOK
<1>2. ASSUME DOMAIN records' = DOMAIN records PROVE records' = <<>> <=> records = <<>>
    BY <1>1, <1>2
<1> QED
    BY <1>2, ChargesStay

LEMMA ActorClock ==
    ASSUME NEW a \in Actors, ActorStep(a)
    PROVE  UNCHANGED now
<1>1. CASE a \in Workers /\ \E m \in Webhooks : Receive(a, m)
    BY <1>1 DEF Receive
<1>2. CASE a \in Workers /\ Handle(a)
    BY <1>2 DEF Handle, IgnoreDuplicate, MultipleResults, NewPayment, CheckPrice,
              RefusePrice, RefuseForm, FindCancelled, LoadSubscription, Activate,
              ActivateConflicts, Deactivate
<1>3. CASE a \in Callers /\ Request(a)
    BY <1>3 DEF Request, Initiate, Cancel, AdminDeactivate, Refund, View
<1>4. CASE a \in Callers /\ Serve(a)
    BY <1>4 DEF Serve, ChoosePlan, ReplyRefused, Register, RegisterFails, PickRebill,
              Unbill, UnbillFails, CancelCommit, AdminCommit, PayBack, PayBackFails,
              RefundCommit, ExpireCommit
<1>5. CASE Crash(a)
    BY <1>5 DEF Crash
<1> QED
    BY <1>1, <1>2, <1>3, <1>4, <1>5 DEF ActorStep

\* A payment of a registration without a record is the first of all.
LEMMA FirstOfAll ==
    ASSUME OneRegistration, TypeInv, NEW w \in Workers, NewPayment(w)
    PROVE  records = <<>>
<1>1. w \in Actors /\ msg[w] \in Webhooks
    BY DEF Actors, NewPayment, TypeInv, LoadedInv, ProviderOK
<1>2. msg[w].charge[1] \in Rebills
    BY <1>1 DEF Webhooks, Charges
<1>3. records \in Seq(Records)
    BY DEF TypeInv, RowsOK
<1>4. \A i \in DOMAIN records : records[i].charge[1] \in Rebills
  <2>1. \A i \in DOMAIN records : records[i] \in Records
      BY <1>3
  <2> QED
      BY <2>1 DEF Records, Charges
<1>5. DOMAIN records = {}
    BY <1>2, <1>4 DEF NewPayment, Known, RecordsOf, OneRegistration
<1> QED
    BY <1>3, <1>5

\* The rows of the two requests that write one.
LEMMA KeptUntilExpiry ==
    ASSUME PaidInv, NEW a \in Callers, CancelCommit(a) \/ ExpireCommit(a)
    PROVE  sub # NoRow /\ sub' # NoRow /\ sub'.expires = sub.expires /\ RowPaid'
<1>1. a \in Actors /\ TypeInv /\ TimeOf(a) /\ RowPaid
    BY DEF Actors, PaidInv
<1>2. seen[a] # NoRow
    BY <1>1 DEF CancelCommit, ExpireCommit, TypeInv, LoadedInv, WithRow
<1>3. seen[a] \in Rows /\ sub \in Rows
    BY <1>1, <1>2, LoadedRows
<1>4. now' = now
    BY DEF CancelCommit, ExpireCommit
<1>5. CASE CancelCommit(a)
  <2> DEFINE new == CancelledRow(seen[a])
  <2>1. new \in Rows /\ new.active = seen[a].active /\ new.expires = seen[a].expires
      BY <1>3 DEF CancelledRow, Rows
  <2>2. sub' = Merged(seen[a], new)
      BY <1>5 DEF CancelCommit
  <2> HIDE DEF new
  <2>3. sub'.active = sub.active /\ sub'.expires = sub.expires /\ sub' \in Rows
      BY <1>3, <2>1, <2>2, MergedActive, MergedExpires, MergedRow
  <2> QED
      BY <1>1, <1>3, <1>4, <2>3, ConstantsAssumption DEF RowPaid
<1>6. CASE ExpireCommit(a)
  <2> DEFINE new == [seen[a] EXCEPT !.active = FALSE]
  <2>1. new \in Rows /\ new.expires = seen[a].expires
      BY <1>3 DEF Rows
  <2>2. sub' = Merged(seen[a], new)
      BY <1>6 DEF ExpireCommit
  <2> HIDE DEF new
  <2>3. sub'.expires = sub.expires /\ sub' \in Rows
      BY <1>3, <2>1, <2>2, MergedExpires, MergedRow
  <2>4. sub.expires < now
      BY <1>1, <1>2, <1>6 DEF ExpireCommit, TimeOf
  <2> QED
      BY <1>3, <1>4, <2>3, <2>4, ConstantsAssumption DEF RowPaid
<1> QED
    BY <1>5, <1>6

LEMMA PaidFirst ==
    ASSUME PaidInv, NEW w \in Workers, Activate(w)
    PROVE  /\ sub = NoRow /\ sub' # NoRow /\ records' # <<>>
           /\ RowPaid'
<1>1. w \in Actors /\ TypeInv /\ TimeOf(w) /\ FirstPayment
    BY DEF Actors, PaidInv
<1>2. sub = NoRow
    BY <1>1 DEF Activate, TimeOf, FirstPayment
<1>3. seen[w] = NoRow
    BY <1>1, <1>2 DEF TypeInv, LoadedInv
<1>4. sub' = [active |-> TRUE, renew |-> TRUE, expires |-> Renewed(clock[w])]
    BY <1>3 DEF Activate
<1>5. sub' # NoRow
  <2>1. clock[w] \in 0..MaxNow
      BY <1>1 DEF TypeInv, LocalOK
  <2>2. Renewed(clock[w]) \in 0..(MaxNow + 1)
      BY <2>1, ConstantsAssumption DEF Renewed
  <2>3. sub' \in Rows
      BY <1>4, <2>2 DEF Rows
  <2> QED
      BY <2>3, ConstantsAssumption
<1>6. records' # <<>>
  <2>1. DOMAIN records' # {}
      BY <1>1, NewRecord
  <2> QED
      BY <2>1
<1>7. RowPaid'
    BY <1>4 DEF RowPaid
<1> QED
    BY <1>2, <1>5, <1>6, <1>7

\* What a request has loaded, it has loaded from the row of the moment.
LEMMA JustLoaded ==
    ASSUME TypeInv, NEW a \in Actors, LoadSub(a)
    PROVE  seen'[a] = sub
BY LoadShape DEF TypeInv

LEMMA TimeLeaving ==
    ASSUME TypeInv, NEW a \in Actors, Leave(a)
    PROVE  TimeOf(a)'
BY LeaveShape DEF TypeInv, TimeOf, WithRecord

\* The coroutine that makes a step knows what it did to the paid time.
LEMMA TimeKnown ==
    ASSUME OneRegistration, OnlyUser, PaidInv, NEW a \in Actors, ActorStep(a)
    PROVE  TimeOf(a)'
<1>1. /\ TimeOf(a) /\ TypeInv /\ now' = now
      /\ a \in Workers => a \notin Callers
    BY ConstantsAssumption, ActorClock DEF PaidInv
<1> DEFINE Silent(l) == l \notin {"expiring", "pricing", "loading", "activating",
                                  "deactivating", "adminPicking", "adminCalling",
                                  "adminWriting"}
                                \cup WithRecord
<1>2. ASSUME NEW l, Goto(a, l), Silent(l), UNCHANGED <<seen, sub>> PROVE TimeOf(a)'
  <2>1. pc'[a] = l /\ seen'[a] = seen[a] /\ sub' = sub
      BY <1>1, <1>2, GotoShape
  <2> QED
      BY <1>1, <1>2, <2>1 DEF TimeOf
<1>3. ASSUME NEW l, Goto(a, l), LoadSub(a), UNCHANGED sub, Silent(l) PROVE TimeOf(a)'
  <2>1. pc'[a] = l /\ seen'[a] = sub /\ sub' = sub
      BY <1>1, <1>3, GotoShape, JustLoaded
  <2> QED
      BY <1>3, <2>1 DEF TimeOf
<1>4. CASE a \in Workers /\ \E m \in Webhooks : Receive(a, m)
    BY <1>2, <1>4 DEF Receive, WithRecord, rows
<1>5. CASE a \in Workers /\ Handle(a)
  <2>1. CASE NewPayment(a)
    <3>1. pc'[a] = "pricing" /\ records = <<>>
        BY <1>1, <1>5, <2>1, GotoShape, FirstOfAll DEF NewPayment
    <3>2. UNCHANGED <<seen, sub, records>>
        BY <2>1 DEF NewPayment, rows
    <3> QED
        BY <1>1, <3>1, <3>2 DEF TimeOf, WithRecord
  <2>5. CASE CheckPrice(a)
    <3>1. pc'[a] = "loading" /\ pc[a] = "pricing"
        BY <1>1, <2>5, GotoShape DEF CheckPrice
    <3>2. UNCHANGED <<seen, sub, records>> /\ records = <<>>
        BY <1>1, <1>5, <2>5, <3>1 DEF CheckPrice, rows, TimeOf
    <3> QED
        BY <1>1, <3>1, <3>2 DEF TimeOf, WithRecord
  <2>2. pc[a] # "idle" => msg[a].kind = "paid"
      BY <1>1, <1>5 DEF PaidInv, OutboxPaid, TypeInv, LoadedInv
  <2>3. CASE LoadSubscription(a)
    <3>1. pc[a] = "loading" /\ msg[a].kind = "paid"
        BY <2>2, <2>3 DEF LoadSubscription
    <3>2. pc'[a] = "activating" /\ seen'[a] = sub
        BY <1>1, <2>3, <3>1, GotoShape, JustLoaded DEF LoadSubscription
    <3>3. UNCHANGED <<sub, records>> /\ records = <<>>
        BY <1>1, <1>5, <3>1, <2>3 DEF LoadSubscription, rows, TimeOf
    <3> QED
        BY <3>2, <3>3 DEF TimeOf, WithRecord
  <2>4. ~FindCancelled(a)
      BY <2>2 DEF FindCancelled
  <2> QED
      BY <1>1, <1>5, <2>1, <2>3, <2>4, <2>5, TimeLeaving
      DEF Handle, IgnoreDuplicate, MultipleResults, RefusePrice, RefuseForm, Activate,
          ActivateConflicts, Deactivate
<1>6. CASE a \in Callers /\ Request(a)
  <2>1. ~Refund(a) /\ ~AdminDeactivate(a)
      BY DEF OnlyUser, Refund, AdminDeactivate
  <2>2. CASE View(a)
    <3>1. pc'[a] = "expiring" /\ seen'[a] = sub
        BY <1>1, <2>2, GotoShape, JustLoaded DEF View
    <3>2. UNCHANGED <<sub, records>> /\ sub.expires < now
        BY <2>2 DEF View, Lapsed, rows
    <3> QED
        BY <1>1, <3>1, <3>2 DEF TimeOf, WithRecord
  <2>3. CASE Initiate(a)
    <3>1. UNCHANGED sub
        BY <2>3 DEF Initiate, rows
    <3> QED
        BY <1>3, <2>3, <3>1 DEF Initiate, WithRecord
  <2>4. CASE Cancel(a)
    <3>1. UNCHANGED sub
        BY <2>4 DEF Cancel, rows
    <3> QED
        BY <1>3, <2>4, <3>1 DEF Cancel, WithRecord
  <2> QED
      BY <1>6, <2>1, <2>2, <2>3, <2>4 DEF Request
<1>7. CASE a \in Callers /\ Serve(a)
  <2>1. CASE PickRebill(a)
    <3>1. pc[a] = "cancelPicking"
        BY <1>1, <2>1 DEF PickRebill, TimeOf
    <3> QED
        BY <1>2, <2>1, <3>1 DEF PickRebill, WithRecord, rows
  <2>2. CASE Unbill(a)
    <3>1. pc[a] = "cancelCalling"
        BY <1>1, <2>2 DEF Unbill, TimeOf
    <3> QED
        BY <1>2, <2>2, <3>1 DEF Unbill, WithRecord, rows
  <2>3. CASE UnbillFails(a)
    <3>1. pc[a] = "cancelCalling"
        BY <1>1, <2>3 DEF UnbillFails, TimeOf
    <3>2. Goto(a, "refused") /\ UNCHANGED <<seen, sub>>
        BY <2>3, <3>1 DEF UnbillFails, AfterFailure, rows
    <3> QED
        BY <1>2, <3>2 DEF WithRecord
  <2>4. ~PayBack(a)
      BY <1>1 DEF PayBack, TimeOf, WithRecord
  <2>5. CASE ChoosePlan(a)
    <3>1. UNCHANGED <<seen, sub>>
        BY <2>5 DEF ChoosePlan, rows
    <3> QED
        BY <1>2, <2>5, <3>1 DEF ChoosePlan, WithRecord
  <2> QED
      BY <1>1, <1>7, <2>1, <2>2, <2>3, <2>4, <2>5, TimeLeaving
      DEF Serve, ReplyRefused, Register, RegisterFails, CancelCommit, AdminCommit,
          PayBackFails, RefundCommit, ExpireCommit
<1>8. CASE Crash(a)
    BY <1>1, <1>8, TimeLeaving DEF Crash
<1> QED
    BY <1>4, <1>5, <1>6, <1>7, <1>8 DEF ActorStep

\* A step that does not touch the first payment and leaves the paid time alone.
LEMMA PaidKept ==
    ASSUME OneWorker, PaidInv, NEW a \in Actors, ActorStep(a), TimeOf(a)', RowPaid',
           FirstPayment',
           a \notin Workers => (records = <<>> => records' = <<>>),
           sub # NoRow => sub'.expires = sub.expires
    PROVE  PaidInv'
<1>1. TypeInv /\ TypeInv' /\ Apart(a) /\ now' = now
    BY TypeActor, StepApart, ActorClock DEF PaidInv
<1>2. ASSUME NEW b \in Actors, b # a PROVE TimeOf(b)'
  <2>1. TimeOf(b) /\ (seen[b] # NoRow => sub # NoRow)
      BY <1>1, <1>2 DEF PaidInv, TypeInv, LoadedInv
  <2>2. pc'[b] = pc[b] /\ seen'[b] = seen[b]
      BY <1>1, <1>2 DEF Apart
  <2>3. b \in Workers => a \notin Workers
      BY <1>2 DEF OneWorker
  <2> QED
      BY <1>1, <2>1, <2>2, <2>3 DEF TimeOf
<1>3. OutboxPaid'
  <2>1. ~PayBack(a) /\ ~PayBackFails(a)
      BY DEF PaidInv, TimeOf, PayBack, PayBackFails, WithRecord
  <2>2. UNCHANGED outbox
      BY <2>1, RegistrationSteps
  <2> QED
      BY <2>2 DEF PaidInv, OutboxPaid
<1> QED
    BY <1>1, <1>2, <1>3 DEF PaidInv

LEMMA PaidActor ==
    ASSUME OneRegistration, OneWorker, OnlyUser, PaidInv, NEW a \in Actors, ActorStep(a)
    PROVE  PaidInv'
<1>1. TimeOf(a)' /\ TimeOf(a) /\ now' = now /\ TypeInv
    BY TimeKnown, ActorClock DEF PaidInv
<1>2. CASE a \in Workers /\ Activate(a)
  <2>1. sub = NoRow /\ sub' # NoRow /\ records' # <<>> /\ RowPaid'
      BY <1>2, PaidFirst
  <2> QED
      BY <1>1, <1>2, <2>1, PaidKept DEF FirstPayment
<1>3. CASE ~(a \in Workers /\ Activate(a))
  <2>1. records' = <<>> <=> records = <<>>
      BY <1>1, <1>3, RecordsOrActivate
  <2>2. CASE UNCHANGED sub
    <3>1. RowPaid' /\ FirstPayment'
        BY <1>1, <2>1, <2>2 DEF PaidInv, RowPaid, FirstPayment
    <3> QED
        BY <1>1, <2>1, <2>2, <3>1, PaidKept
  <2>3. CASE a \in Callers /\ (CancelCommit(a) \/ ExpireCommit(a))
    <3>1. sub # NoRow /\ sub' # NoRow /\ sub'.expires = sub.expires /\ RowPaid'
        BY <2>3, KeptUntilExpiry
    <3>2. FirstPayment'
        BY <2>1, <3>1 DEF PaidInv, FirstPayment
    <3> QED
        BY <1>1, <2>1, <3>1, <3>2, PaidKept
  <2>4. ~(a \in Workers /\ Deactivate(a)) /\ ~AdminCommit(a)
      BY <1>1 DEF TimeOf, Deactivate, AdminCommit
  <2> QED
      BY <1>3, <2>2, <2>3, <2>4, RowWriters
<1> QED
    BY <1>2, <1>3

LEMMA PaidElsewhere ==
    ASSUME OnlyUser, PaidInv, Outside
    PROVE  PaidInv'
<1>1. TypeInv /\ TypeInv'
    BY TypeStep DEF PaidInv, Next, Outside, ProviderStep
<1>2. UNCHANGED <<sub, records, pc, seen>>
    BY Elsewhere DEF local
<1>3. \A t \in 0..(MaxNow + 1) : t < now => t < now'
  <2>1. now' = now \/ now' = now + 1
    <3>1. CASE ProviderStep
        BY <3>1 DEF ProviderStep, UserPays, MonthlyCharge, Charge, ProviderCancels
    <3>2. CASE Month \/ ChangePrice \/ UNCHANGED vars
        BY <3>2 DEF Month, ChangePrice, vars
    <3> QED
        BY <3>1, <3>2 DEF Outside
  <2>2. now \in Nat
      BY <1>1, ConstantsAssumption DEF TypeInv
  <2> QED
      BY <2>1, <2>2, ConstantsAssumption
<1>4. \A row \in Rows : row.expires < now => row.expires < now'
    BY <1>3 DEF Rows
<1>5. \A b \in Actors : seen[b] # NoRow => seen[b] \in Rows /\ sub \in Rows
    BY <1>1, LoadedRows
<1>6. ASSUME NEW b \in Actors PROVE TimeOf(b)'
  <2>1. TimeOf(b) /\ (pc[b] = "expiring" => seen[b] # NoRow)
      BY <1>1 DEF PaidInv, TypeInv, LoadedInv, WithRow
  <2> QED
      BY <1>2, <1>4, <1>5, <2>1 DEF TimeOf
<1>7. RowPaid' /\ FirstPayment'
    BY <1>1, <1>2, <1>4 DEF PaidInv, RowPaid, FirstPayment, TypeInv, RowsOK
<1>8. OutboxPaid'
  <2>1. CASE Month \/ ChangePrice \/ UNCHANGED vars
    <3>1. UNCHANGED provider
        BY <2>1 DEF Month, ChangePrice, vars
    <3>2. UNCHANGED outbox
        BY <3>1 DEF provider
    <3> QED
        BY <3>2 DEF PaidInv, OutboxPaid
  <2>2. CASE ProviderStep
    <3>1. PICK r \in Rebills : UserPays(r) \/ MonthlyCharge(r)
        BY <2>2 DEF ProviderStep, ProviderCancels, OnlyUser
    <3>2. outbox' = outbox \cup {[kind |-> "paid", charge |-> <<r, charged[r] + 1>>]}
        BY <3>1 DEF UserPays, MonthlyCharge, Charge, Send
    <3> QED
        BY <3>2 DEF PaidInv, OutboxPaid
  <2> QED
      BY <2>1, <2>2 DEF Outside
<1> QED
    BY <1>1, <1>6, <1>7, <1>8 DEF PaidInv

LEMMA PaidInit ==
    ASSUME Init
    PROVE  PaidInv
<1>1. \A a \in Actors : TimeOf(a)
    BY DEF Init, TimeOf, WithRecord, Actors
<1>2. FirstPayment /\ OutboxPaid /\ RowPaid
    BY DEF Init, FirstPayment, OutboxPaid, RowPaid
<1> QED
    BY <1>1, <1>2, TypeInit DEF PaidInv

\* What was paid stays usable until it expires: neither a cancellation nor the
\* lazy expiry of a view takes it away, however they race with the webhooks and
\* whatever fails (payment/service.py:185, 638), as long as the user has one
\* registration, webhooks are handled one after the other, and neither the
\* admin nor PayApp takes the subscription away.
THEOREM PaidIsUsable ==
    ASSUME OneRegistration, OneWorker, OnlyUser
    PROVE  Spec => []PaidUntilExpiry
<1>1. Init => PaidInv
    BY PaidInit
<1>2. PaidInv /\ [Next]_vars => PaidInv'
    BY NextCases, PaidActor, PaidElsewhere DEF Outside
<1>3. PaidInv => PaidUntilExpiry
  <2> SUFFICES ASSUME PaidInv, sub # NoRow, now <= sub.expires PROVE sub.active
      BY DEF PaidUntilExpiry
  <2>1. sub \in Rows /\ now \in Nat
      BY ConstantsAssumption DEF PaidInv, TypeInv, RowsOK
  <2>2. sub.expires \in Int
      BY <2>1, ConstantsAssumption DEF Rows
  <2> QED
      BY <2>1, <2>2 DEF PaidInv, RowPaid
<1> QED
    BY <1>1, <1>2, <1>3, PTL DEF Spec
=============================================================================
