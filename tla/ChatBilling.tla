---------------------------- MODULE ChatBilling ----------------------------
(***************************************************************************)
(* The token accounting of a chat request: POST /projects/chats            *)
(* (src/chats/router.py) and the stream it starts (src/chats/service.py),  *)
(* on top of the user_tokens row of src/tokens/service.py.                 *)
(*                                                                         *)
(* A request runs several short database transactions.  Each one locks the *)
(* user's row with SELECT ... FOR UPDATE, computes the new balance in      *)
(* memory and writes that absolute value at COMMIT, so a transaction is    *)
(* two steps here and other requests run in between.                       *)
(*                                                                         *)
(* Faults names the environment faults of a run:                           *)
(*   "db"         a statement or a commit fails, which leaves the          *)
(*                AsyncSession unusable until a rollback() nobody calls    *)
(*   "history"    the same, for the read of the chat history that the AI   *)
(*                pipeline makes with the session of the request           *)
(*   "pool"       no connection can be checked out after a commit: the     *)
(*                statement fails but the session stays usable             *)
(*   "disconnect" the client goes away or the process stops: the coroutine *)
(*                is cancelled, which no `except Exception` catches        *)
(***************************************************************************)
EXTENDS Integers, FiniteSetsExt

CONSTANTS
    Users, Requests,
    Owner,            \* Owner[c]: the user who sent request c
    NoRequest,        \* nobody holds the row lock
    ChatCost, DraftCost, MonthlyTokens,
    OpeningBalances,  \* balances a user may start with
    MaxPeriod,        \* bound on billing periods
    Faults

ASSUME ConstantsAssumption ==
    /\ Owner \in [Requests -> Users]
    /\ NoRequest \notin Requests
    /\ ChatCost \in Nat /\ DraftCost \in Nat /\ MonthlyTokens \in Nat
    /\ 0 < ChatCost /\ ChatCost < DraftCost /\ 0 < MonthlyTokens
    /\ OpeningBalances \subseteq Nat
    /\ MaxPeriod \in Nat \ {0}
    /\ Faults \subseteq {"db", "history", "pool", "disconnect"}

VARIABLES
    \* committed rows
    balance,     \* user_tokens.balance
    lastGrant,   \* the period of user_tokens.last_monthly_grant_at, 0 for none
    ledger,      \* sum of the amounts of the user's token_transactions
    answer,      \* answer[c]: the assistant message of c is stored
    \* row lock and clock
    lock,        \* lock[u]: the request whose transaction locks u's row
    period,      \* period[u]: the billing period the clock is in
    \* the coroutine of each request
    pc,
    work,        \* token.balance of the request's in-memory UserToken
    pending,     \* amount of the TokenTransaction its transaction inserts
    stamp,       \* period of the last_monthly_grant_at its transaction writes
    broken,      \* its session refuses statements
    outcome,     \* how the AI stream ended
    \* history
    net,         \* net[c]: committed token movements of request c
    grants       \* grants[u]: monthly grants committed so far

vars == <<balance, lastGrant, ledger, answer, lock, period, pc, work, pending,
          stamp, broken, outcome, net, grants>>
money == <<balance, ledger, net>>
grantState == <<lastGrant, grants, period>>
stream == <<answer, outcome>>
transaction == <<work, pending, stamp>>

Pcs == {"start", "granting", "admitted", "debiting", "refused", "charged",
        "streaming", "settling", "saving", "answered", "refunding",
        "crediting", "done"}

\* Program points where the request's transaction holds the row lock.
Locking == {"granting", "debiting", "refused", "settling", "crediting"}

Init ==
    /\ balance \in [Users -> OpeningBalances]
    /\ lastGrant \in [Users -> 0..1]
    /\ ledger = balance
    /\ answer = [c \in Requests |-> FALSE]
    /\ lock = [u \in Users |-> NoRequest]
    /\ period = [u \in Users |-> 1]
    /\ pc = [c \in Requests |-> "start"]
    /\ work = [c \in Requests |-> 0]
    /\ pending = [c \in Requests |-> 0]
    /\ stamp = [c \in Requests |-> 0]
    /\ broken = [c \in Requests |-> FALSE]
    /\ outcome = [c \in Requests |-> "none"]
    /\ net = [c \in Requests |-> 0]
    /\ grants = lastGrant

Goto(c, label) == pc' = [pc EXCEPT ![c] = label]

----------------------------------------------------------------------------
(* Transactions on the user_tokens row.                                    *)

\* Mutant of Locked: the row is read without FOR UPDATE.
UnlockedRead(c) == lock' = [lock EXCEPT ![Owner[c]] = c]

\* SELECT ... FOR UPDATE waits until no other transaction holds the row.
Locked(c) ==
    /\ lock[Owner[c]] = NoRequest
    /\ lock' = [lock EXCEPT ![Owner[c]] = c]

\* get_or_create_balance(with_lock=True), token.balance += amount and the
\* TokenTransaction added to the session; nothing is visible to others yet.
Open(c, amount) ==
    /\ Locked(c)
    /\ work' = [work EXCEPT ![c] = balance[Owner[c]] + amount]
    /\ pending' = [pending EXCEPT ![c] = amount]

Unlock(c) ==
    lock' = [lock EXCEPT ![Owner[c]] = IF @ = c THEN NoRequest ELSE @]

\* COMMIT or ROLLBACK: the row lock goes, the session has no pending change.
EndTransaction(c) ==
    /\ Unlock(c)
    /\ work' = [work EXCEPT ![c] = 0]
    /\ pending' = [pending EXCEPT ![c] = 0]
    /\ stamp' = [stamp EXCEPT ![c] = 0]

\* COMMIT: UPDATE user_tokens SET balance = <the value computed in memory>
\* and INSERT INTO token_transactions become visible together.
WriteRow(c) ==
    /\ balance' = [balance EXCEPT ![Owner[c]] = work[c]]
    /\ ledger' = [ledger EXCEPT ![Owner[c]] = @ + pending[c]]
    /\ EndTransaction(c)
    /\ UNCHANGED broken

\* The same COMMIT when the transaction moves the tokens of request c.
WriteCharge(c) ==
    /\ WriteRow(c)
    /\ net' = [net EXCEPT ![c] = @ + pending[c]]

----------------------------------------------------------------------------
(* send_chat: the monthly grant and the admission check of the router.     *)

\* Mutant of GrantDue: granted again when the grant is from this period.
DueAgain(u) == lastGrant[u] <= period[u]

\* not already_granted: the last grant is older than the period's start.
GrantDue(u) == lastGrant[u] < period[u]

\* ensure_monthly_tokens: locks the row and adds the tokens that are due.
EnsureMonthly(c) ==
    LET u == Owner[c] IN
    /\ pc[c] = "start"
    /\ Open(c, IF GrantDue(u) THEN MonthlyTokens ELSE 0)
    /\ stamp' = [stamp EXCEPT ![c] = IF GrantDue(u) THEN period[u] ELSE 0]
    /\ Goto(c, "granting")
    /\ UNCHANGED <<money, grantState, stream, broken>>

\* session.commit(), then 429 unless the balance covers the dearest request.
EnsureMonthlyCommit(c) ==
    LET u == Owner[c] IN
    /\ pc[c] = "granting"
    /\ WriteRow(c)
    /\ IF stamp[c] > 0
       THEN /\ lastGrant' = [lastGrant EXCEPT ![u] = stamp[c]]
            /\ grants' = [grants EXCEPT ![u] = @ + 1]
       ELSE UNCHANGED <<lastGrant, grants>>
    /\ Goto(c, IF work[c] < DraftCost THEN "done" ELSE "admitted")
    /\ UNCHANGED <<net, period, stream>>

\* A statement of the admission or of the reservation fails: nothing of the
\* open transaction is kept.
AdmissionFails(c) ==
    /\ Faults \cap {"db", "pool"} # {}
    /\ pc[c] \in {"start", "granting", "admitted", "debiting"}
    /\ EndTransaction(c)
    /\ Goto(c, "done")
    /\ UNCHANGED <<money, grantState, stream, broken>>

----------------------------------------------------------------------------
(* send_chat_stream: reservation of the dearest cost before streaming.     *)

\* The question or the project is missing, or belongs to somebody else.
LookupFails(c) ==
    /\ pc[c] = "admitted"
    /\ Goto(c, "done")
    /\ UNCHANGED <<money, grantState, stream, lock, transaction, broken>>

\* Mutant of Affordable: the admission check of the router is trusted.
TrustAdmission(u) == TRUE

\* debit: the balance is checked again under the row lock.
Affordable(u) == balance[u] >= DraftCost

Debit(c) ==
    /\ pc[c] = "admitted"
    /\ Affordable(Owner[c])
    /\ Open(c, -DraftCost)
    /\ Goto(c, "debiting")
    /\ UNCHANGED <<money, grantState, stream, stamp, broken>>

DebitCommit(c) ==
    /\ pc[c] = "debiting"
    /\ WriteCharge(c)
    /\ Goto(c, "charged")
    /\ UNCHANGED <<grantState, stream>>

\* InsufficientTokensError: no rollback, so the row stays locked until the
\* response has been sent and the session is closed.
DebitRefused(c) ==
    /\ pc[c] = "admitted"
    /\ ~Affordable(Owner[c])
    /\ Locked(c)
    /\ Goto(c, "refused")
    /\ UNCHANGED <<money, grantState, stream, transaction, broken>>

CloseRefused(c) ==
    /\ pc[c] = "refused"
    /\ EndTransaction(c)
    /\ Goto(c, "done")
    /\ UNCHANGED <<money, grantState, stream, broken>>

\* create_user_chat
SaveUserMessage(c) ==
    /\ pc[c] = "charged"
    /\ Goto(c, "streaming")
    /\ UNCHANGED <<money, grantState, stream, lock, transaction, broken>>

\* create_user_chat raises: the call is outside the try block.
SaveUserMessageFails(c) ==
    /\ Faults \cap {"db", "pool"} # {}
    /\ pc[c] = "charged"
    /\ Goto(c, "done")
    /\ UNCHANGED <<money, grantState, stream, lock, transaction, broken>>

----------------------------------------------------------------------------
(* The end of the stream: settlement, or refund of the reservation.        *)

\* Mutant of SettlementRefund: the whole reservation is given back.
WholeReservation == DraftCost

\* DRAFT_TOKEN_COST - actual_cost for an answer that is not a draft.
SettlementRefund == DraftCost - ChatCost

\* "done" chunk of a chat answer: the difference is credited, uncommitted.
HandleChat(c) ==
    /\ Open(c, SettlementRefund)
    /\ outcome' = [outcome EXCEPT ![c] = "chat"]
    /\ Goto(c, "settling")
    /\ UNCHANGED <<money, grantState, answer, stamp, broken>>

SettleChat(c) == pc[c] = "streaming" /\ HandleChat(c)

\* create_assistant_chat commits the message together with the credit.
SettleChatCommit(c) ==
    /\ pc[c] = "settling"
    /\ WriteCharge(c)
    /\ answer' = [answer EXCEPT ![c] = TRUE]
    /\ Goto(c, "answered")
    /\ UNCHANGED <<grantState, outcome>>

\* "done" chunk of a draft: the reservation is the price, nothing to credit.
HandleDraft(c) ==
    /\ outcome' = [outcome EXCEPT ![c] = "draft"]
    /\ Goto(c, "saving")
    /\ UNCHANGED <<money, grantState, answer, lock, transaction, broken>>

DraftDone(c) == pc[c] = "streaming" /\ HandleDraft(c)

SaveDraft(c) ==
    /\ pc[c] = "saving"
    /\ answer' = [answer EXCEPT ![c] = TRUE]
    /\ Goto(c, "answered")
    /\ UNCHANGED <<money, grantState, outcome, lock, transaction, broken>>

\* The commit of create_assistant_chat fails: the database rolls back and
\* the session refuses what the except block is about to do.
SaveFails(c) ==
    /\ "db" \in Faults
    /\ pc[c] \in {"settling", "saving"}
    /\ EndTransaction(c)
    /\ broken' = [broken EXCEPT ![c] = TRUE]
    /\ Goto(c, "refunding")
    /\ UNCHANGED <<money, grantState, stream>>

\* refresh(ai_msg), then the "done" event.
Finish(c) ==
    /\ pc[c] = "answered"
    /\ Goto(c, "done")
    /\ UNCHANGED <<money, grantState, stream, lock, transaction, broken>>

\* refresh(ai_msg) raises after the commit: the except block refunds.
RefreshFails(c) ==
    /\ Faults \cap {"db", "pool"} # {}
    /\ pc[c] = "answered"
    /\ \E usable \in BOOLEAN :
          /\ usable => "pool" \in Faults
          /\ ~usable => "db" \in Faults
          /\ broken' = [broken EXCEPT ![c] = ~usable]
    /\ Goto(c, "refunding")
    /\ UNCHANGED <<money, grantState, stream, lock, transaction>>

\* The pipeline raises: an "error" chunk, or an exception of the stream.
\* The exception may come from the session, which the pipeline reads with.
HandleError(c, damaged) ==
    /\ outcome' = [outcome EXCEPT ![c] = "failed"]
    /\ broken' = [broken EXCEPT ![c] = damaged]
    /\ Goto(c, "refunding")
    /\ UNCHANGED <<money, grantState, answer, lock, transaction>>

StreamFails(c) ==
    /\ pc[c] = "streaming"
    /\ \E damaged \in BOOLEAN :
          /\ damaged => "history" \in Faults
          /\ HandleError(c, damaged)

\* Mutant of RefundAmount: only the price of a chat answer is given back.
ChatPrice == ChatCost

\* "AI error, full refund"
RefundAmount == DraftCost

\* _refund_prededuction: credit, then commit.
Refund(c) ==
    /\ pc[c] = "refunding" /\ ~broken[c]
    /\ Open(c, RefundAmount)
    /\ Goto(c, "crediting")
    /\ UNCHANGED <<money, grantState, stream, stamp, broken>>

RefundCommit(c) ==
    /\ pc[c] = "crediting"
    /\ WriteCharge(c)
    /\ Goto(c, "done")
    /\ UNCHANGED <<grantState, stream>>

\* Any exception of the refund is logged and swallowed.
RefundFails(c) ==
    /\ \/ pc[c] = "refunding" /\ (broken[c] \/ Faults \cap {"db", "pool"} # {})
       \/ pc[c] = "crediting" /\ "db" \in Faults
    /\ \E usable \in BOOLEAN :
          /\ usable => "pool" \in Faults /\ pc[c] = "refunding" /\ ~broken[c]
          /\ ~usable => "db" \in Faults \/ broken[c]
          /\ broken' = [broken EXCEPT ![c] = ~usable]
    /\ EndTransaction(c)
    /\ Goto(c, "done")
    /\ UNCHANGED <<money, grantState, stream>>

\* Cancellation at any await: the session is closed and rolls back.
Disconnect(c) ==
    /\ "disconnect" \in Faults
    /\ pc[c] \notin {"start", "done"}
    /\ EndTransaction(c)
    /\ outcome' = [outcome EXCEPT ![c] =
                      IF pc[c] = "streaming" THEN "failed" ELSE @]
    /\ Goto(c, "done")
    /\ UNCHANGED <<money, grantState, answer, broken>>

----------------------------------------------------------------------------
\* Midnight of the first day of user u's next billing period.
NewPeriod(u) ==
    /\ period[u] < MaxPeriod
    /\ period' = [period EXCEPT ![u] = @ + 1]
    /\ UNCHANGED <<money, lastGrant, grants, stream, lock, pc, transaction, broken>>

\* Every request has ended; the model has no more of them.
Idle ==
    /\ \A c \in Requests : pc[c] = "done"
    /\ UNCHANGED vars

Step(c) ==
    \/ EnsureMonthly(c)   \/ EnsureMonthlyCommit(c)
    \/ AdmissionFails(c) \/ LookupFails(c)
    \/ Debit(c)           \/ DebitCommit(c)
    \/ DebitRefused(c)    \/ CloseRefused(c)
    \/ SaveUserMessage(c) \/ SaveUserMessageFails(c)
    \/ SettleChat(c)      \/ SettleChatCommit(c)
    \/ DraftDone(c)       \/ SaveDraft(c)
    \/ SaveFails(c)
    \/ Finish(c)          \/ RefreshFails(c)
    \/ StreamFails(c)
    \/ Refund(c)          \/ RefundCommit(c)
    \/ RefundFails(c)

Next ==
    \/ \E c \in Requests : Step(c) \/ Disconnect(c)
    \/ \E u \in Users : NewPeriod(u)
    \/ Idle

Spec == Init /\ [][Next]_vars
----------------------------------------------------------------------------
(* Properties                                                              *)

TypeOK ==
    /\ balance \in [Users -> Int] /\ ledger \in [Users -> Int]
    /\ lastGrant \in [Users -> 0..MaxPeriod]
    /\ answer \in [Requests -> BOOLEAN]
    /\ lock \in [Users -> Requests \cup {NoRequest}]
    /\ period \in [Users -> 1..MaxPeriod]
    /\ pc \in [Requests -> Pcs]
    /\ work \in [Requests -> Int] /\ pending \in [Requests -> Int]
    /\ stamp \in [Requests -> 0..MaxPeriod]
    /\ broken \in [Requests -> BOOLEAN]
    /\ outcome \in [Requests -> {"none", "chat", "draft", "failed"}]
    /\ net \in [Requests -> Int]
    /\ grants \in [Users -> 0..MaxPeriod]

\* However concurrent requests of a user interleave, and wherever they are cut
\* off, the balance equals the sum of the user's token_transactions: the row
\* lock leaves no lost update between two reads and two absolute writes
\* (get_or_create_balance, tokens/service.py:32).
LedgerAgrees == \A u \in Users : balance[u] = ledger[u]

\* A user never goes below zero, although the admission check of the router is
\* made in an earlier transaction than the debit (chats/router.py:47,
\* tokens/service.py:147).
NeverOverdrawn == \A u \in Users : balance[u] >= 0

\* A billing period gives its tokens at most once, even to requests that find
\* the grant due at the same time (ensure_monthly_tokens).
MonthlyOnce == \A u \in Users : grants[u] <= period[u]

Price(c) == IF outcome[c] = "draft" THEN DraftCost ELSE ChatCost

\* A stored answer has cost its user the actual price, no more and no less
\* ("the actual cost is fixed, the difference is refunded",
\* chats/service.py:173).
AnswerCostsItsPrice == \A c \in Requests : answer[c] => net[c] = -Price(c)

\* Once the request is over, a stream that failed has cost nothing ("AI
\* streaming failed: refund the whole reservation", chats/service.py:206, 212).
FailedStreamRefunded ==
    \A c \in Requests : pc[c] = "done" /\ outcome[c] = "failed" => net[c] = 0

\* What the user's balance does not owe to a monthly grant or to a request.
Unexplained(u) ==
    balance[u] - MonthlyTokens * grants[u]
      - MapThenSumSet(LAMBDA c : net[c], {c \in Requests : Owner[c] = u})

\* Tokens appear and disappear only with a grant or with the movement of one
\* request: no step changes what the two do not explain.
TokensConserved == [][\A u \in Users : Unexplained(u)' = Unexplained(u)]_vars

\* The reservation of request c, as the abstract wallet sees it.
HoldOf(c) ==
    CASE answer[c] -> "settled"
      [] ~answer[c] /\ net[c] # 0 -> "held"
      [] ~answer[c] /\ net[c] = 0 /\ outcome[c] # "none" -> "released"
      [] OTHER -> "none"

Wallet == INSTANCE PrepaidWallet WITH
    available <- balance,
    hold <- [c \in Requests |-> HoldOf(c)]

\* The transactions of the stream implement the wallet: a request reserves
\* once, out of tokens that are there, and its reservation is settled or
\* released at most once and never both.
ImplementsWallet == Wallet!WSpec
=============================================================================
