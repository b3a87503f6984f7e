--------------------------- MODULE Subscriptions ---------------------------
(***************************************************************************)
(* Paid subscriptions: src/payment/service.py, with the lazy expiry of     *)
(* src/subscription/service.py, for one user and one subscription type     *)
(* (the rows of others never meet).                                        *)
(*                                                                         *)
(* PayApp, the payment provider, is outside the repository: it keeps       *)
(* recurring registrations (rebill_no), charges them every month (mul_no)  *)
(* and sends webhooks until one is answered "SUCCESS".                     *)
(*                                                                         *)
(* A handler reads rows in some statements and writes them in a later      *)
(* commit, without a row lock except in refund_payment.  SQLAlchemy's      *)
(* UPDATE carries only the columns whose value differs from the one        *)
(* loaded, so a commit mixes its columns into the row of that moment.      *)
(*                                                                         *)
(* Faults names the environment faults of a run:                           *)
(*   "duplicate"  PayApp sends a webhook again that is answered or under way *)
(*   "payapp"     a call to PayApp fails                                   *)
(*   "timeout"    a call to PayApp takes effect and its answer is lost     *)
(*   "crash"      the process stops, or a commit fails, between two steps  *)
(*   "form"       a webhook lacks the credentials of the settings, or a    *)
(*                user, plan or price that the code can read               *)
(***************************************************************************)
EXTENDS Integers, Sequences, FiniteSets

CONSTANTS
    Rebills,           \* registrations PayApp can open
    Workers,           \* coroutines that handle webhooks
    Callers,           \* coroutines that handle the requests of user and admin
    Prices,            \* prices of the plan
    NoRow, NoRebill, NoPrice,
    MaxNow, MaxCharges, MaxRecords, MaxRefunds,  \* bounds of the model
    Ops,               \* operations used in a run
    Faults

AllOps == {"initiate", "cancel", "admin", "refund", "view", "provider", "plans"}

\* The columns of the subscriptions row that the code below reads or writes.
Rows == [active : BOOLEAN, renew : BOOLEAN, expires : 0..(MaxNow + 1)]

ASSUME ConstantsAssumption ==
    /\ NoRow \notin Rows
    /\ Prices # {} /\ NoPrice \notin Prices
    /\ NoRebill \notin Rebills /\ Workers \cap Callers = {}
    /\ MaxNow \in Nat /\ MaxCharges \in Nat
    /\ MaxRecords \in Nat /\ MaxRefunds \in Nat
    /\ Ops \subseteq AllOps
    /\ Faults \subseteq {"duplicate", "payapp", "timeout", "crash", "form"}

Actors == Workers \cup Callers
Charges == Rebills \X (1..MaxCharges)
Webhooks == [kind : {"paid", "refund", "cancel"}, charge : Charges]
NoWebhook == [kind |-> "none", charge |-> <<NoRebill, 0>>]

VARIABLES
    \* PayApp
    reg,        \* state of each registration
    quoted,     \* the price it charges
    charged,    \* number of charges of each registration
    chargedAt,  \* time of its last charge
    refunds,    \* refunds[c]: accepted calls of cancel_payment for charge c
    outbox,     \* webhooks sent
    acked,      \* webhooks answered SUCCESS
    \* committed rows
    sub,        \* the row of subscriptions, or NoRow
    records,    \* payment_records, in the order of paid_at
    price,      \* the price in the plan's row of plans
    \* coroutines
    pc,
    msg,        \* the webhook a worker handles
    seen,       \* the subscriptions row as loaded
    clock,      \* datetime.now() of the handler
    found,      \* index of the payment record it loaded, 0 for none
    target,     \* the registration it cancels
    offer,      \* the price it has loaded
    \* time, in months
    now

provider == <<reg, quoted, charged, chargedAt, refunds, outbox>>
rows == <<sub, records, price>>
local == <<pc, msg, seen, clock, found, target, offer>>
vars == <<provider, acked, rows, local, now>>

Pcs == {"idle",
        "checking", "pricing", "loading",                        \* webhooks
        "activating", "deactivating",
        "choosing", "refused", "registering",                    \* initiate
        "cancelPicking", "cancelCalling", "cancelWriting",       \* cancel
        "adminPicking", "adminCalling", "adminWriting",          \* admin
        "refundCalling", "refundWriting",                        \* refund
        "expiring"}                                              \* view

Init ==
    /\ reg = [r \in Rebills |-> "free"]
    /\ quoted = [r \in Rebills |-> NoPrice]
    /\ charged = [r \in Rebills |-> 0]
    /\ chargedAt = [r \in Rebills |-> 0]
    /\ refunds = [c \in Charges |-> 0]
    /\ outbox = {} /\ acked = {}
    /\ sub = NoRow
    /\ records = <<>>
    /\ price \in Prices
    /\ pc = [a \in Actors |-> "idle"]
    /\ msg = [w \in Workers |-> NoWebhook]
    /\ seen = [a \in Actors |-> NoRow]
    /\ clock = [a \in Actors |-> 0]
    /\ found = [a \in Actors |-> 0]
    /\ target = [a \in Callers |-> NoRebill]
    /\ offer = [a \in Callers |-> NoPrice]
    /\ now = 0

Goto(a, label) == pc' = [pc EXCEPT ![a] = label]

\* The end of a request: its session is closed, its local state is gone.
Leave(a) ==
    /\ Goto(a, "idle")
    /\ msg' = [w \in Workers |-> IF w = a THEN NoWebhook ELSE msg[w]]
    /\ seen' = [seen EXCEPT ![a] = NoRow]
    /\ clock' = [clock EXCEPT ![a] = 0]
    /\ found' = [found EXCEPT ![a] = 0]
    /\ target' = [b \in Callers |-> IF b = a THEN NoRebill ELSE target[b]]
    /\ offer' = [b \in Callers |-> IF b = a THEN NoPrice ELSE offer[b]]

\* SELECT of the subscription, and the time of the handler.
LoadSub(a) ==
    /\ seen' = [seen EXCEPT ![a] = sub]
    /\ clock' = [clock EXCEPT ![a] = now]

\* UPDATE subscriptions SET <the columns that differ from the loaded ones>
Merged(loaded, new) ==
    [f \in DOMAIN new |-> IF new[f] # loaded[f] THEN new[f] ELSE sub[f]]

\* Indices of the payment records of a registration.
RecordsOf(r) == {i \in DOMAIN records : records[i].charge[1] = r}

\* A payment record stays locked until the commit of the transaction that read
\* it FOR UPDATE (refund_payment) or whose UPDATE of it is flushed (a cancel
\* webhook: the SELECT of the subscription flushes the session).
RecordLocked(i) ==
    \E a \in Actors :
        /\ pc[a] \in {"refundCalling", "refundWriting", "deactivating"}
        /\ found[a] = i

----------------------------------------------------------------------------
(* PayApp, and the user on its payment page (external).                    *)

Send(kind, c) == outbox' = outbox \cup {[kind |-> kind, charge |-> c]}

Charge(r) ==
    /\ charged[r] < MaxCharges
    /\ charged' = [charged EXCEPT ![r] = @ + 1]
    /\ chargedAt' = [chargedAt EXCEPT ![r] = now]
    /\ Send("paid", <<r, charged[r] + 1>>)
    /\ UNCHANGED <<quoted, refunds, acked, rows, local, now>>

UserPays(r) ==
    /\ reg[r] = "open"
    /\ reg' = [reg EXCEPT ![r] = "live"]
    /\ Charge(r)

MonthlyCharge(r) ==
    /\ reg[r] = "live" /\ chargedAt[r] < now
    /\ Charge(r)
    /\ UNCHANGED reg

\* A payment is cancelled on PayApp's side, and the registration with it.
ProviderCancels(r) ==
    /\ "provider" \in Ops
    /\ reg[r] = "live" /\ charged[r] > 0
    /\ reg' = [reg EXCEPT ![r] = "off"]
    /\ Send("cancel", <<r, charged[r]>>)
    /\ UNCHANGED <<quoted, charged, chargedAt, refunds, acked, rows, local, now>>

Month ==
    /\ now < MaxNow
    /\ now' = now + 1
    /\ UNCHANGED <<provider, acked, rows, local>>

\* The admin edits the plan in the database.
ChangePrice ==
    /\ "plans" \in Ops
    /\ price' \in Prices \ {price}
    /\ UNCHANGED <<provider, acked, sub, records, local, now>>

----------------------------------------------------------------------------
(* handle_webhook                                                          *)

\* A webhook about another pay_state is answered "SUCCESS" and changes nothing:
\* the model sends none.
Receive(w, m) ==
    /\ pc[w] = "idle" /\ m \in outbox
    /\ \/ m \notin acked /\ m \notin {msg[v] : v \in Workers}
       \/ "duplicate" \in Faults
    /\ msg' = [msg EXCEPT ![w] = m]
    /\ Goto(w, "checking")
    /\ UNCHANGED <<provider, acked, rows, seen, clock, found, target, offer, now>>

\* Mutant of Ack: the webhook about a refund the admin has recorded is refused.
AckOpenOnly(w) ==
    IF found[w] # 0 /\ records[found[w]].state = "closed" THEN UNCHANGED acked
    ELSE acked' = acked \cup {msg[w]}

\* "SUCCESS"
Ack(w) == acked' = acked \cup {msg[w]}

\* Mutant of Known: any payment of the user counts as a duplicate.
KnownUser(r) == DOMAIN records

\* Mutant of Known: there is no duplicate check.
NeverKnown(r) == {}

\* SELECT payment_records WHERE rebill_no = ...
Known(r) == RecordsOf(r)

\* A registration with a record is a duplicate.
IgnoreDuplicate(w) ==
    /\ pc[w] = "checking" /\ msg[w].kind = "paid"
    /\ Cardinality(Known(msg[w].charge[1])) = 1
    /\ Ack(w) /\ Leave(w)
    /\ UNCHANGED <<provider, rows, now>>

\* scalar_one_or_none finds several records: 500 Internal Server Error.
MultipleResults(w) ==
    /\ pc[w] = "checking"
    /\ Cardinality(Known(msg[w].charge[1])) > 1
    /\ Leave(w)
    /\ UNCHANGED <<provider, acked, rows, now>>

NewPayment(w) ==
    /\ pc[w] = "checking" /\ msg[w].kind = "paid"
    /\ Known(msg[w].charge[1]) = {}
    /\ Goto(w, "pricing")
    /\ UNCHANGED <<provider, acked, rows, msg, seen, clock, found, target, offer, now>>

\* The price of the webhook is the one the plan has now.
PriceAgrees(m) == quoted[m.charge[1]] = price

\* The plan is read and its price compared.
CheckPrice(w) ==
    /\ pc[w] = "pricing" /\ PriceAgrees(msg[w])
    /\ Goto(w, "loading")
    /\ UNCHANGED <<provider, acked, rows, msg, seen, clock, found, target, offer, now>>

\* "FAIL": the plan had another price when the payment page was opened.
RefusePrice(w) ==
    /\ pc[w] = "pricing" /\ ~PriceAgrees(msg[w])
    /\ Leave(w)
    /\ UNCHANGED <<provider, acked, rows, now>>

\* "FAIL" for the credentials (checking), for var1, var2 or a missing price
\* (pricing), or for var1 and var2 of a cancellation without a record (loading).
RefuseForm(w) ==
    /\ "form" \in Faults
    /\ \/ pc[w] \in {"checking", "pricing"}
       \/ pc[w] = "loading" /\ msg[w].kind # "paid" /\ found[w] = 0
    /\ Leave(w)
    /\ UNCHANGED <<provider, acked, rows, now>>

\* The record of the registration, or none when the payment is not known yet.
FindCancelled(w) ==
    /\ pc[w] = "checking" /\ msg[w].kind \in {"cancel", "refund"}
    /\ Cardinality(Known(msg[w].charge[1])) <= 1
    /\ found' = [found EXCEPT ![w] =
                    IF Known(msg[w].charge[1]) = {} THEN 0
                    ELSE CHOOSE i \in Known(msg[w].charge[1]) : TRUE]
    /\ Goto(w, "loading")
    /\ UNCHANGED <<provider, acked, rows, msg, seen, clock, target, offer, now>>

\* A cancel webhook first flushes the new state of its record.
LoadSubscription(w) ==
    /\ pc[w] = "loading"
    /\ found[w] # 0 => ~RecordLocked(found[w])
    /\ LoadSub(w)
    /\ Goto(w, IF msg[w].kind = "paid" THEN "activating" ELSE "deactivating")
    /\ UNCHANGED <<provider, acked, rows, msg, found, target, offer, now>>

\* 31 days of access
Renewed(t) == t + 1

\* _activate_subscription and the record, committed together.
Activate(w) ==
    LET row == [active |-> TRUE, renew |-> TRUE, expires |-> Renewed(clock[w])] IN
    /\ pc[w] = "activating" /\ Len(records) < MaxRecords
    /\ (seen[w] = NoRow) => (sub = NoRow)
    /\ sub' = IF seen[w] = NoRow THEN row ELSE Merged(seen[w], row)
    /\ records' = Append(records, [charge |-> msg[w].charge, state |-> "paid"])
    /\ Ack(w) /\ Leave(w)
    /\ UNCHANGED <<provider, price, now>>

\* uq_subscription_user_type refuses a second first row.
ActivateConflicts(w) ==
    /\ pc[w] = "activating" /\ seen[w] = NoRow /\ sub # NoRow
    /\ Leave(w)
    /\ UNCHANGED <<provider, acked, rows, now>>

\* The record's pay_state is no longer 4 (paid).
Close(i) == [records EXCEPT ![i].state = "closed"]

StopRow(row) == [row EXCEPT !.active = FALSE, !.renew = FALSE]

\* _deactivate_subscription and the state of the record.
Deactivate(w) ==
    /\ pc[w] = "deactivating"
    /\ sub' = IF seen[w] = NoRow THEN sub ELSE Merged(seen[w], StopRow(seen[w]))
    /\ records' = IF found[w] = 0 THEN records ELSE Close(found[w])
    /\ Ack(w) /\ Leave(w)
    /\ UNCHANGED <<provider, price, now>>

----------------------------------------------------------------------------
(* initiate_payment                                                        *)

\* Both a renewing and a cancelled subscription block until they expire.
Blocked(row) == row # NoRow /\ row.active /\ row.expires > now

Initiate(a) ==
    /\ "initiate" \in Ops /\ pc[a] = "idle"
    /\ LoadSub(a)
    /\ Goto(a, IF Blocked(sub) THEN "refused" ELSE "choosing")
    /\ UNCHANGED <<provider, acked, rows, msg, found, target, offer, now>>

\* The plan is read, unless it is not for sale.
ChoosePlan(a) ==
    /\ pc[a] = "choosing"
    /\ \/ Goto(a, "registering") /\ offer' = [offer EXCEPT ![a] = price]
       \/ Goto(a, "refused") /\ UNCHANGED offer
    /\ UNCHANGED <<provider, acked, rows, msg, seen, clock, found, target, now>>

ReplyRefused(a) ==
    /\ pc[a] = "refused"
    /\ Leave(a)
    /\ UNCHANGED <<provider, acked, rows, now>>

\* register_rebill opens a registration at the loaded price; the user gets its
\* payment page.
Register(a) ==
    /\ pc[a] = "registering"
    /\ \E r \in Rebills :
          /\ reg[r] = "free"
          /\ reg' = [reg EXCEPT ![r] = "open"]
          /\ quoted' = [quoted EXCEPT ![r] = offer[a]]
    /\ Leave(a)
    /\ UNCHANGED <<charged, chargedAt, refunds, outbox, acked, rows, now>>

\* PayApp refuses, or the model has no more registrations.
RegisterFails(a) ==
    /\ pc[a] = "registering"
    /\ "payapp" \in Faults \/ \A r \in Rebills : reg[r] # "free"
    /\ Leave(a)
    /\ UNCHANGED <<provider, acked, rows, now>>

----------------------------------------------------------------------------
(* cancel_subscription and admin_deactivate_subscription                   *)

Cancel(a) ==
    /\ "cancel" \in Ops /\ pc[a] = "idle"
    /\ sub # NoRow /\ sub.active /\ sub.renew
    /\ LoadSub(a)
    /\ Goto(a, "cancelPicking")
    /\ UNCHANGED <<provider, acked, rows, msg, found, target, offer, now>>

AdminDeactivate(a) ==
    /\ "admin" \in Ops /\ pc[a] = "idle"
    /\ sub # NoRow
    /\ LoadSub(a)
    /\ Goto(a, "adminPicking")
    /\ UNCHANGED <<provider, acked, rows, msg, found, target, offer, now>>

\* The registration of the latest payment record.
PickRebill(a) ==
    /\ pc[a] \in {"cancelPicking", "adminPicking"}
    /\ records # <<>>
    /\ target' = [target EXCEPT ![a] = records[Len(records)].charge[1]]
    /\ Goto(a, IF pc[a] = "cancelPicking" THEN "cancelCalling" ELSE "adminCalling")
    /\ UNCHANGED <<provider, acked, rows, msg, seen, clock, found, offer, now>>

\* cancel_rebill is accepted.
Unbill(a) ==
    /\ pc[a] \in {"cancelCalling", "adminCalling"}
    /\ reg' = [reg EXCEPT ![target[a]] = "off"]
    /\ Goto(a, IF pc[a] = "cancelCalling" THEN "cancelWriting" ELSE "adminWriting")
    /\ UNCHANGED <<quoted, charged, chargedAt, refunds, outbox, acked, rows,
                   msg, seen, clock, found, target, offer, now>>

\* Mutant of AfterFailure: the user's cancellation goes on without PayApp.
GoOn(label) == IF label = "cancelCalling" THEN "cancelWriting" ELSE "adminWriting"

\* The user's cancellation stops, the admin's goes on.
AfterFailure(label) == IF label = "cancelCalling" THEN "refused" ELSE "adminWriting"

\* cancel_rebill raises or is refused.
UnbillFails(a) ==
    /\ pc[a] \in {"cancelCalling", "adminCalling"}
    /\ \/ "payapp" \in Faults /\ UNCHANGED reg
       \/ "timeout" \in Faults /\ reg' = [reg EXCEPT ![target[a]] = "off"]
    /\ Goto(a, AfterFailure(pc[a]))
    /\ UNCHANGED <<quoted, charged, chargedAt, refunds, outbox, acked, rows,
                   msg, seen, clock, found, target, offer, now>>

\* Mutant of CancelledRow: the access ends with the cancellation.
StoppedRow(row) == StopRow(row)

CancelledRow(row) == [row EXCEPT !.renew = FALSE]

CancelCommit(a) ==
    /\ pc[a] = "cancelWriting"
    /\ sub' = Merged(seen[a], CancelledRow(seen[a]))
    /\ Leave(a)
    /\ UNCHANGED <<provider, acked, records, price, now>>

AdminCommit(a) ==
    /\ pc[a] = "adminWriting"
    /\ sub' = Merged(seen[a], StopRow(seen[a]))
    /\ Leave(a)
    /\ UNCHANGED <<provider, acked, records, price, now>>

----------------------------------------------------------------------------
(* refund_payment                                                          *)

\* Mutant of Refundable: the record is read without FOR UPDATE.
RefundableUnlocked(i) == records[i].state = "paid"

\* FOR UPDATE waits for a refund under way and then reads its result.
Refundable(i) == records[i].state = "paid" /\ ~RecordLocked(i)

Refund(a) ==
    /\ "refund" \in Ops /\ pc[a] = "idle"
    /\ \E i \in DOMAIN records :
          /\ Refundable(i)
          /\ found' = [found EXCEPT ![a] = i]
    /\ Goto(a, "refundCalling")
    /\ UNCHANGED <<provider, acked, rows, msg, seen, clock, target, offer, now>>

\* PayApp gives the money back and says so.
AcceptRefund(c) ==
    /\ refunds[c] < MaxRefunds
    /\ refunds' = [refunds EXCEPT ![c] = @ + 1]
    /\ Send("refund", c)

\* cancel_payment succeeds.
PayBack(a) ==
    /\ pc[a] = "refundCalling"
    /\ AcceptRefund(records[found[a]].charge)
    /\ Goto(a, "refundWriting")
    /\ UNCHANGED <<reg, quoted, charged, chargedAt, acked, rows,
                   msg, seen, clock, found, target, offer, now>>

\* cancel_payment raises or is refused, as PayApp does at the bound.
PayBackFails(a) ==
    LET c == records[found[a]].charge IN
    /\ pc[a] = "refundCalling"
    /\ \/ "payapp" \in Faults /\ UNCHANGED <<refunds, outbox>>
       \/ "timeout" \in Faults /\ AcceptRefund(c)
       \/ refunds[c] = MaxRefunds /\ UNCHANGED <<refunds, outbox>>
    /\ Leave(a)
    /\ UNCHANGED <<reg, quoted, charged, chargedAt, acked, rows, now>>

RefundCommit(a) ==
    /\ pc[a] = "refundWriting"
    /\ records' = Close(found[a])
    /\ Leave(a)
    /\ UNCHANGED <<provider, acked, sub, price, now>>

----------------------------------------------------------------------------
(* get_subscription_by_type, get_all_subscriptions: lazy expiry            *)

Lapsed(row) == row # NoRow /\ row.active /\ row.expires < now

View(a) ==
    /\ "view" \in Ops /\ pc[a] = "idle"
    /\ Lapsed(sub)
    /\ LoadSub(a)
    /\ Goto(a, "expiring")
    /\ UNCHANGED <<provider, acked, rows, msg, found, target, offer, now>>

ExpireCommit(a) ==
    /\ pc[a] = "expiring"
    /\ sub' = Merged(seen[a], [seen[a] EXCEPT !.active = FALSE])
    /\ Leave(a)
    /\ UNCHANGED <<provider, acked, records, price, now>>

----------------------------------------------------------------------------
Crash(a) ==
    /\ "crash" \in Faults /\ pc[a] # "idle"
    /\ Leave(a)
    /\ UNCHANGED <<provider, acked, rows, now>>

\* Nobody is being served; requests may come or not.
Idle ==
    /\ \A a \in Actors : pc[a] = "idle"
    /\ UNCHANGED vars

Handle(w) ==
    \/ IgnoreDuplicate(w) \/ MultipleResults(w) \/ NewPayment(w)
    \/ CheckPrice(w) \/ RefusePrice(w) \/ RefuseForm(w)
    \/ FindCancelled(w) \/ LoadSubscription(w)
    \/ Activate(w) \/ ActivateConflicts(w) \/ Deactivate(w)

\* A new request of the user or of the admin.
Request(a) ==
    Initiate(a) \/ Cancel(a) \/ AdminDeactivate(a) \/ Refund(a) \/ View(a)

\* The next step of a request.
Serve(a) ==
    \/ ChoosePlan(a) \/ ReplyRefused(a) \/ Register(a) \/ RegisterFails(a)
    \/ PickRebill(a) \/ Unbill(a) \/ UnbillFails(a)
    \/ CancelCommit(a) \/ AdminCommit(a)
    \/ PayBack(a) \/ PayBackFails(a) \/ RefundCommit(a)
    \/ ExpireCommit(a)

Next ==
    \/ \E r \in Rebills : UserPays(r) \/ MonthlyCharge(r) \/ ProviderCancels(r)
    \/ Month \/ ChangePrice
    \/ \E w \in Workers : (\E m \in Webhooks : Receive(w, m)) \/ Handle(w)
    \/ \E a \in Callers : Request(a) \/ Serve(a)
    \/ \E a \in Actors : Crash(a)
    \/ Idle

Spec == Init /\ [][Next]_vars

\* PayApp repeats every webhook until it is answered, so a worker that is free
\* again and again receives it; the event loop runs what has begun, and a row
\* lock that is released goes to the transaction that waits for it.
FairSpec ==
    /\ Spec
    /\ \A w \in Workers : SF_vars(Handle(w))
    /\ \A a \in Callers : WF_vars(Serve(a))
    /\ \A m \in Webhooks : SF_vars(\E w \in Workers : Receive(w, m))
----------------------------------------------------------------------------
(* Properties                                                              *)

Records == [charge : Charges, state : {"paid", "closed"}]

TypeOK ==
    /\ reg \in [Rebills -> {"free", "open", "live", "off"}]
    /\ quoted \in [Rebills -> Prices \cup {NoPrice}] /\ price \in Prices
    /\ charged \in [Rebills -> 0..MaxCharges] /\ chargedAt \in [Rebills -> 0..MaxNow]
    /\ refunds \in [Charges -> 0..MaxRefunds]
    /\ outbox \subseteq Webhooks /\ acked \subseteq outbox
    /\ sub \in Rows \cup {NoRow}
    /\ records \in Seq(Records)
    /\ Len(records) <= MaxRecords
    /\ pc \in [Actors -> Pcs]
    /\ msg \in [Workers -> Webhooks \cup {NoWebhook}]
    /\ seen \in [Actors -> Rows \cup {NoRow}]
    /\ clock \in [Actors -> 0..MaxNow] /\ found \in [Actors -> 0..MaxRecords]
    /\ target \in [Callers -> Rebills \cup {NoRebill}]
    /\ offer \in [Callers -> Prices \cup {NoPrice}]
    /\ now \in 0..MaxNow

\* However often PayApp repeats a webhook, a charge has at most one payment
\* record ("prevents duplicate webhooks", payment/service.py:450).
OneRecordPerCharge ==
    \A i, j \in DOMAIN records : records[i].charge = records[j].charge => i = j

\* A payment that was answered "SUCCESS" is in the payment history ("returns
\* the completed payments", payment/service.py:62).
ChargeRecorded ==
    \A m \in acked : m.kind = "paid" =>
        \E i \in DOMAIN records : records[i].charge = m.charge

\* Concurrent refunds of a payment reach PayApp once ("prevents a double refund
\* of simultaneous requests", payment/service.py:588).
RefundedOnce == \A c \in Charges : refunds[c] <= 1

\* A subscription that no longer renews is charged no more: PayApp's
\* registration is deleted (payment/service.py:98, 187).
CancelledIsOff ==
    sub # NoRow /\ sub.active /\ ~sub.renew => \A r \in Rebills : reg[r] # "live"

\* What was paid stays usable to its end, cancelled or viewed meanwhile
\* (payment/service.py:185, 638).
PaidUntilExpiry == sub # NoRow /\ now <= sub.expires => sub.active

\* PayApp repeats a webhook until it reads "SUCCESS" (payment/service.py:424):
\* that comes at last, whichever webhooks come first and whatever requests run at
\* the same time, if the plan is back for good at the price the user has paid.
\* A price that remains another one is answered "FAIL" for ever (475-481).
EveryWebhookAnswered ==
    \A m \in Webhooks :
        <>[](m \in outbox /\ (m.kind = "paid" => PriceAgrees(m))) => <>(m \in acked)
=============================================================================
