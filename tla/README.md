# A TLA+ model of the Logit backend

Logit is a FastAPI service that helps its users write cover letters. Users keep
projects with questions, collect experiences, and chat with a language model
that answers in a stream. Chats cost tokens; tokens come from monthly grants
that depend on a paid subscription, from a daily attendance reward, from a
sign-up bonus and from referrals. The state is in PostgreSQL (SQLAlchemy 2,
asyncio, READ COMMITTED), in Redis and in Qdrant; payments go through PayApp and
logins through Google and Apple. One container of one worker process serves
(`Dockerfile`, `scripts/deploy.sh`), and two of them only while a deployment
swaps them. Every request is a coroutine with a database session of its own, so
any two requests interleave at every `await`; plain (`def`) handlers run on a
thread pool and interleave with everything.

This directory models the service's own logic, checks it with TLC on small
instances and proves the main results with TLAPS for every instance. Source
paths below are relative to `src/src/`.

## 1. The parts of the system

| Part | Code | State | What is hard | What makes it correct | Status |
|---|---|---|---|---|---|
| Chat billing | `chats/router.py`, `chats/service.py` | reservation and answer of each request | four transactions per request, an exception or a cancellation at any of them | an answer costs its price, a failure costs nothing | modelled |
| AI pipeline | `chats/llm_service.py` | task, queue and loop of a stream | a task nobody holds, errors as chunks, a heartbeat | one verdict, last; the whole text; an end | modelled |
| Chat history | `chats/service.py` | rows of `chats`, cursor | messages are stored while a client pages | no message skipped or repeated | modelled |
| Token account | `tokens/service.py` | rows of `user_tokens`, ledger | read, compute, write of an absolute value; first insert of a row; news that are claimed | balance = ledger, never negative, each reward once | modelled |
| Billing periods | `tokens/service.py`, `payment/service.py` | start of the period, last grant | month ends, leap years, 31-day subscriptions | periods follow each other, grants advance | modelled |
| Attendance event | `tokens/service.py` (`check_in`), `tokens/router.py` | Redis: counter, end flag, day keys; `attendance_logs` | Redis commands interleave and are not part of the transaction | pool never oversold, one reward a day, no claim left | modelled |
| Payments, subscriptions | `payment/`, `subscription/service.py` | `subscriptions`, `payment_records`, PayApp's registrations | webhooks repeated, concurrent, unordered; no transaction spans PayApp | a charge recorded once, refunded once; paid is usable | partly: card data, event log and MCP token column left out |
| Referrals and users | `users/` | `users.referred_by_user_id`, token rows | double taps, row locks in two orders | one reward per invitee, every call ends | partly: profile fields and the random codes left out |
| Authentication | `auth/`, `security.py` | refresh token, OAuth state, codes, cached keys | rotation compares a value read before; first logins race; responses overtake each other | one account per address, a deleted one stays out | modelled |
| Projects, questions | `projects/`, `questions/` | soft-deleted rows, `order` | load, await, write without a lock | deletions last, edits of other columns stay | modelled |
| Experiences | `experience/` | points in Qdrant | read, await two models, overwrite the whole point | vector embeds the stored text, dates in order | modelled |
| Usage limiter, plans | `subscription/usage.py`, `plans/` | Redis counters | nothing: no request counts or checks | | not modelled |
| Reports, AI usage | `report/`, `ai_usage/` | append-only rows | nothing that interleaves | | not modelled |
| Infrastructure | `database.py`, `config.py`, `main.py`, `common/`, `banners/` | settings, clients | nothing of its own | | not modelled |

How they meet. Chat billing, attendance, referrals, the sign-up bonus and the
monthly grant read, change and write the same `user_tokens` row under
`SELECT ... FOR UPDATE`. The pipeline passes chunks to the loop that bills them.
Subscriptions decide size and period of the monthly grant. PayApp's webhooks
change a subscription behind the back of requests that have read it. A deleted
account is met by requests that authenticated before.

The hazards of the code, each at its line and with the properties that would
catch it, are listed under `hazards` in `PROJECT.json`.

## 2. The modules

| Module | Models | Composed in |
|---|---|---|
| `PrepaidWallet` | abstract: reserve once, then settle or release, at most once | refined by `ChatBilling` |
| `ChatBilling` | `send_chat`, `send_chat_stream`, `ensure_monthly_tokens`, `credit`, `debit` | `MCChatBilling` |
| `ChatStream` | the pipeline task, its queue, the heartbeat and the billing loop | extends and refines `ChatBilling`; `MCChatStream` |
| `Attendance` | `check_in`, `_init_pool_if_needed`, the commit of `get_token_balance` | `MCAttendance` |
| `Subscriptions` | `payment/service.py`, lazy expiry, PayApp | `MCSubscriptions` |
| `TokenAccount` | sign-up, `GET /tokens/balance`, `apply_referral_code` | `MCAccounts` |
| `BillingCalendar` | start of a period, 31-day subscriptions, grants by date | `MCAccounts` |
| `Experiences` | every operation on points in Qdrant, validation included | `Content` |
| `Matching` | quality, tag score and ranking for a question | `Content` |
| `Projects` | every write of a project or a question | `Content` |
| `AuthSessions` | login, exchange, refresh, logout, deletion | `Content` |
| `SigningKeys` | `_get_jwks` and the verification of id tokens | `Content` |
| `ChatHistory` | storing messages, pages with a cursor | `Content` |
| `Content` | the six parts above side by side | `MCContent` is its instance |

and the proofs:

| Module | Theorems about |
|---|---|
| `ChatBillingProofs` | `ChatBilling` and its refinement of `PrepaidWallet` |
| `ChatStreamProofs` | `ChatStream` and its refinement of `ChatBilling` |
| `AttendanceProofs` | `Attendance` |
| `SubscriptionsProofs` | `Subscriptions` |
| `AccountsProofs` | `TokenAccount`, `BillingCalendar` |
| `AuthProofs` | `AuthSessions`, `SigningKeys` |
| `ExperiencesProofs` | `Experiences`, `Matching` |
| `ContentProofs` | `Projects`, `ChatHistory`, and the composition `Content` |

Every model has the same shape. A coroutine has a control point, and a step runs
from one `await` (or one command to Redis or Qdrant, or one lock) to the next.
What a session has loaded is state of the coroutine; what is committed is state
of the system; a commit makes the one into the other. A failing statement, a
lost answer, a cancelled task and a stopped process are steps of their own,
enabled by `Faults`.

### ChatBilling and PrepaidWallet

A transaction is two steps: the statement that locks the row and computes the
new balance in memory (`work`, `pending`), and the COMMIT that makes balance,
ledger and answer visible and frees the row (`WriteRow`). The lock is `lock[u]`.
The path is `EnsureMonthly`, `EnsureMonthlyCommit` (the router), `LookupFails` or
`Debit`/`DebitCommit` or `DebitRefused`, `SaveUserMessage`, the stream, then
`SettleChat`/`SettleChatCommit` for an answer of 5 tokens, `DraftDone`/`SaveDraft`
for a draft of 10, or `StreamFails`, `Refund`, `RefundCommit`.

`Faults`: `db`, a statement or commit fails, and the session refuses everything
until a rollback that this code never calls (`broken`); `history`, the same for
the read the pipeline makes with the request's session; `pool`, no connection
after a commit; `disconnect`, the coroutine is cancelled, which no
`except Exception` sees, or the process stops.

`PrepaidWallet` is what a user would be told. The refinement maps `available` to
the committed balance and `hold[c]` to what the committed rows say of request
`c`: held while its movements are not zero and no answer is stored, settled with
the answer, released when they are back to zero.

### ChatStream

`generate_ai_response_stream` runs the pipeline as a task and reads its chunks
from a queue. `task[c]` is the pipeline (classify, history, answer, generate,
draft; `Raise`, `PutError`, and `PutSentinel` of its `finally`), `queue[c]` what
the loop has not taken, `reader[c]` the loop. What ends the stream is a choice in
`ChatBilling` and a chunk of the queue here, and the loop handles whatever it
takes, as the code does: that a request is billed once is a property of what the
pipeline puts. `CancelTask` is a pipeline task that is cancelled or collected.
Every other step of the request is the step of `ChatBilling`, so the module
refines it with the identity mapping (`ImplementsBilling`), and inherits its
invariants.

### Attendance

Every Redis command is one step; the database part is the credit, which
`uq_attendance_user_date` may refuse, and the commit the router makes much later.
`Holding` names the calls that have tokens of the counter. A user has one call at
a time because `ensure_monthly_tokens` has locked the user's row before.

### Subscriptions

One user and one subscription type. PayApp is the environment: registrations
(`reg`), charges, refunds, and an `outbox` of webhooks that are repeated until
acknowledged. So is the admin who edits the plan (`ChangePrice`; nothing under
`src/` writes the table): `initiate_payment` reads the `price` (`ChoosePlan`) and
registers it with PayApp (`quoted`), and the webhook handler compares what was paid
with the price of its own moment (`CheckPrice`), answering `FAIL` when they differ
(`RefusePrice`). Its other `FAIL` answers, for credentials and for a user, plan or
price that it cannot read, are `RefuseForm`, under the fault `form`. A `FAIL`
changes nothing and PayApp repeats. Other values of `pay_state` are answered
`SUCCESS` without a change and are not sent in the model. A handler's reads and its commit are separate steps, and a commit
writes only the columns that differ from the loaded row (`Merged`), as SQLAlchemy
does. A payment record is locked from `refund_payment`'s `FOR UPDATE`, or from the
flush of a cancel webhook's UPDATE, to the commit (`RecordLocked`). Time counts
months. The record's `pay_state` is 4 or not 4.

### TokenAccount and BillingCalendar

`TokenAccount` has the rows of several users and PostgreSQL's locks: `SELECT ...
FOR UPDATE` locks nothing when there is no row, an INSERT waits for a
transaction that has inserted the same key and then fails, and a cycle of waits
is broken by aborting one of its transactions (`AbortDeadlock`). A call is
`signup`, `balance` or `apply`; `side` says which of its two rows it turns to.
`reported` is what committed balance calls have claimed of the two notified
rewards.

`BillingCalendar` has real dates: `_current_billing_period_start` with
`calendar.monthrange`, the payment's 31 days, and the comparison of the last
grant with the start of the period. Every day is a step.

### Experiences and Matching

A point is a payload (a function from field names to values) and the texts its
vector embeds. `update_experience` reads the point, checks the merged payload,
awaits tags and embedding and overwrites the point (`Upsert`), or writes the
payload alone when no text has changed (`SetPayload`). The event loop is a
resource of a worker: between two awaits a coroutine keeps it (`LoopBusy`), and
deletion and listing, which are plain functions, do not need it. `Matching` is
the scoring of `get_experiences_with_question_similarity` in exact integers.

### Projects

A request loads a row and its COMMIT writes the columns whose value differs from
the loaded one (`Changed`). The next `order` is computed in one step and inserted
in another. One user owns all rows.

### AuthSessions and SigningKeys

A JWT is its subject, type and second of issue; two tokens signed for a user in
one second are equal. States and codes in Redis are consumed by GETDEL and may
expire. The callback, the exchange, both mobile logins, refresh, logout and
deletion are coroutines with what they have loaded (`mine`, `inHand`). First
logins race for the unique e-mail address (`Conflict`). `SigningKeys` has the two
module variables of one provider's key cache, shared by all coroutines, with
responses that arrive in any order.

### ChatHistory

A message gets id and time when it is built and becomes visible when it commits.
`ReadPage` is the query with its cursor, an order by time alone, and the limit.

## 3. The runs

| Run | Result | What it checks |
|---|---|---|
| `chat_faults` | holds | three requests of one user over two periods, opening balance 0, 12 or 25, `db`, `history`, `disconnect` at every step: ledger, overdraft, grant, price, conservation, and that the wallet is implemented |
| `chat_stream` | holds | two streams with tasks, queues and heartbeats, the same faults and cancelled tasks: one verdict, whole answers, `ChatBilling` implemented; under fairness every stream ends and a failure that reached the loop is refunded when the session is sound |
| `chat_history` | violated | is a stream that failed always refunded? |
| `attendance_pool` | holds | three users race for a pool of two rewards, credits fail: no overselling, exact roll back, no claim left, every claim resolved |
| `attendance_loss` | holds | two users, two days, every fault and one loss of Redis: one reward a day |
| `subs_cancel` | holds | one registration, monthly charges, two requests at a time, PayApp failing or not answering, unreadable webhooks, crashes: cancelled is not charged, paid is usable |
| `subs_webhooks` | holds | one worker, repeated webhooks, two requests at a time, cancellations on PayApp's side, an admin who edits the plan's price: recorded once, refunded once, and answered at last when the plan is back for good at the price that was paid |
| `subs_workers` | holds | two workers, two registrations, crashes, repeated and unreadable webhooks, cancellations on PayApp's side: what is answered is recorded |
| `subs_renewal` | violated | is a renewal recorded? |
| `subs_expiry` | violated | is a paid month usable to its end? |
| `accounts` | holds | scenes of up to four calls of two users who enter each other's codes, failing commits, deadlocks: rewards paid once and reported once, every call ends; and every day from 30 December 2023 to 1 April 2024: periods without a gap, grants that advance, two grants a payment at most |
| `content` | holds | each of the six parts of `Content` in the interleavings of its own requests: vectors match texts, dates ordered, quality before bonuses, one account per address, rotation spends a token, deleted accounts, projects and questions stay deleted, edits keep other columns, rotated keys are found, pages are complete |

`Content` and `MCAccounts` hold parts that share no state: a behaviour runs one
of them while the others are at rest, so that one run explores them without the
product of their states. `ContentPlaysItsParts` proves that such a behaviour is a
behaviour of every part's own specification.

**Bounds.** The hazards of `ChatBilling` are between requests of one user, since
no two users share a row. Two requests give every race of two transactions; the
third gives a debit between another request's settlement and refund; opening
balances give none, one or two reservations; two periods give one boundary. In
`ChatStream` one content chunk before a verdict already gives every order of
content, verdict and sentinel (`MaxChunks`); the proofs hold for any number.
Three users and two rewards are the least with a winner, a loser and a call that
fails while holding the last reward. `Subscriptions` has two registrations, two
workers or two requests at a time where the question needs them; `MaxNow` covers
a renewal and the months around it, and is 0 in `subs_webhooks`, whose properties
do not depend on time; two `Prices` are the least for a plan that is dearer after
the payment page; `MaxRefunds = 2` is one more than the correct
number. In `accounts` a scene has at most four calls, which gives a double tap, a
deadlock, a pair of first inserts, and a claim of news between two credits; the
dates cross a year and a leap February, with payments on the 1st, 30th and 31st.
In `content` there are seven calls on three points of two owners; seven requests,
one for each operation, on two projects and four questions; up to five logins,
refreshes and deletions in each of four scenes, with a clock of two seconds; two keys and two verifications; four messages and
pages of one. `MatchQuestion` ranks every pair of experiences over the boundary
values of quality and similarity.

**Fairness.** `chat_stream`: weak fairness of the loop and of the pipeline; the
event loop runs what is ready, PostgreSQL gives a freed lock to a waiter, a
provider answers or times out. `attendance_pool`: weak fairness of calls that
have begun; nothing makes a user come back. `subs_webhooks`: weak fairness of
requests, strong fairness of a worker (the queue of a row lock that is taken and
freed repeatedly) and of a webhook's delivery (PayApp repeats it until SUCCESS).
Nothing makes the admin edit a plan: `EveryWebhookAnswered` assumes of a payment's
webhook that the plan's price is from some point on the one that was paid, and its
run that PayApp's webhooks are readable (no `form`).
`accounts`: weak fairness of calls that have begun. The other runs check safety
only. `Idle` steps let a system with nothing to do stand still, so that the
deadlock check finds only requests that wait for each other; `accounts` has none
and switches the check off, since its calls simply end and `CallsEnd` says so.

### Where the code and its documentation part

Three runs refute a sentence of the code's own comments.

* `chat_history`: `chats/service.py:206` refunds an error chunk on the session that
  the error may have broken. The refund fails, is logged and swallowed.
* `subs_renewal`: `payment/service.py:454` takes a monthly charge for a repetition of
  the first payment, since both have the registration's `rebill_no`. Nothing is
  recorded and nothing extended.
* `subs_expiry`: `subscription/service.py:79` commits `is_active=False` on a row it
  loaded before a payment renewed it.

The models contain more behaviour of this kind, which no property excludes. The
passing runs keep it apart by the constants named below.

Money and chat:

* A client that goes away during the stream keeps its reservation spent, and so
  does a failing `create_user_chat`, which is outside the `try`
  (`chats/service.py:137`). A cancelled pipeline task ends the stream without a
  verdict, and nothing is refunded then.
* A `refresh` without a connection after the commit refunds a stored answer
  (`AnswerCostsItsPrice` with `"pool"`), hence the assumption of `ExactPrice`.
* The pipeline task outlives a client that has gone and goes on using the
  request's session.

Attendance:

* Two initialisations of a missing counter oversell the pool
  (`tokens/service.py:281`); `attendance_pool` and `PoolBound` start with a counter.
* A credit that will fail, holding the last reward, makes another call end the
  event for good (`tokens/service.py:318`).
* A commit of `get_token_balance` that fails leaves the day's key in Redis
  (`ClaimBacked` with `"commit"`).

Payments:

* Two payment pages opened before the first webhook give two live registrations
  (`payment/service.py:98`), and a cancellation stops the latest only (209).
* A price edited between the payment page and the webhook answers `FAIL` to every
  repetition (475): the user has paid and gets no subscription unless the plan is
  edited back while PayApp still repeats. A webhook that never becomes readable
  is never answered either.
* Overlapping deliveries of one webhook insert two records (450), and every later
  one ends in `MultipleResultsFound`.
* A refund whose answer is lost, or a stop before its commit, lets a second
  refund reach PayApp (604).
* PayApp's webhook about a refund ends the subscription that `refund_payment`
  keeps (550). `admin_deactivate` goes on although PayApp failed (358, on
  purpose). `initiate_payment` refuses a cancelled subscription that has not
  lapsed, although its docstring allows it.

Accounts:

* A 31-day subscription can span two period starts and so bring two plan grants. A
  user who takes the free grant and pays the same day waits a period for the
  plan's tokens. `_period_ttl` computes the next period from a clamped day.
* Two users who enter each other's codes deadlock, and one of them gets a 500. A
  claimed notification is lost with the response that carries it.
* A Google and an Apple first login of one address at the same time: the loser
  gets an `OAuthError`.
* Two refreshes that both load the user before one commits both succeed, and one
  that races a logout or a deletion stores its token afterwards (the deleted
  account stays inactive). A logout with an old token ends the newer session.

Content:

* An update in flight brings a deleted point back and undoes the fields of another
  update. An explicit `null` for title, start date or format makes the point
  unreadable, and listing and search fail on it; one for a text that the format
  requires clears it. `create` accepts fields of another format.
* Two deletions can leave a project without a question, two creations can store
  the same `order`, two toggles can count as one, and questions can be added to
  a project that is being deleted.
* The docstring of the matching says 70/20/10, the code weighs 1/0.1/0.05. A long
  genuine text has few different characters for its length and may be taken for
  garbage by `unique_ratio < 0.2`.
* The history's cursor breaks ties of `created_at` by id but the query does not
  order by id (`chats/service.py:287`): with two messages of one microsecond one
  may be skipped. `WalkComplete` is checked with `SameInstant = FALSE`, and fails
  with `TRUE`.
* A key fetch that fails serves the cached keys however old they are.

## 4. The theorems

Every safety invariant and every action property of the passing runs is also a
theorem. The theorems hold for every value of the constants that satisfies the
named assumption of the module (`...Assumption`). Where a theorem says `ASSUME`,
it holds under that restriction only, and the table gives the reason.

| Theorem | Restriction | Why it is there |
|---|---|---|
| `ExactPrice`, `Refinement` | no `"pool"` | a `refresh` that fails on a sound session refunds a stored answer |
| `FailureCostsNothing` | no faults | `chat_history` refutes it with one |
| `TokensAreConserved`, `StreamTokens` | finitely many requests | a sum over all of them |
| `PoolBound` | the counter exists and Redis keeps it | two initialisations oversell the pool |
| `PoolToTheToken` | the counter exists; only credits fail | a call that is cut off gives nothing back |
| `KeysAreBacked` | only credits fail and Redis forgets | a call that is cut off gives nothing back |
| `OneRecord` | one worker, or no duplicates | overlapping deliveries insert twice |
| `AnsweredIsRecorded` | one charge per registration | `subs_renewal` refutes it with two |
| `OneRefund` | PayApp answers, serial webhooks | a lost answer lets a second refund out |
| `CancelledIsNotCharged` | `OneRegistration`, `StopsReach` | a cancellation stops the latest registration only; a refund of one payment and an admin whom PayApp refuses leave the registration |
| `PaidIsUsable` | `OneRegistration`, `OneWorker`, `OnlyUser` | `subs_expiry` refutes it with two registrations; a refund and the admin take the paid time away on purpose |
| `SearchesWhatIsShown` | one worker process | two of them interleave between a read and the write of the payload alone |
| `HistoryIsRead` | `~SameInstant` | the query does not order messages of one microsecond |

**ChatBilling.** `TypeCorrect`, `LedgerAgreement`, `NoOverdraft` and
`OneGrantPerPeriod` under every fault, then `ExactPrice` and `Refinement`. Price
and ledger are not inductive. The invariant adds what a request in the middle of
its path knows: who is in a locking section holds the lock and is the only one
(`LockInv`); `work` is the committed balance plus `pending` (`FreshInv`,
`AmountInv`); what a request has paid so far (`net`) is fixed by its control point
(`NetInv`); a grant being written is for a period later than the last
(`StampInv`). Every step of a request is then one step of the wallet or none.
`FailureCostsNothing` adds that a failed stream is on its way to the refund with a
sound session, or over and paid back (`RefundInv`). `TokensAreConserved`, under
every fault, needs what a sum over a set does when one of its terms changes
(`SumChanges`). The library states induction over finite sets with an operator
as a parameter, which no prover here can instantiate; the lemma is proved from a
smallest set that refutes it instead (`SmallestSet`, by `WFMin` and the
well-foundedness of strict inclusion).

**ChatStream.** `OneVerdict`, `WholeAnswer`, `StreamRefinement`, and through it
`StreamMoney` and `StreamTokens`. The invariant relates the pipeline's stage, the
queue and the loop: a queue is content, then at most one verdict, then the
sentinel (`PipeInv`), and content taken plus content queued is content put
(`TextInv`).

**TokenAccount.** `RewardsPaidOnce`, `NewsReportedOnce` and `HeldRowsKept`, for any
calls, failing commits and aborted deadlocks. A reward is an entry of the ledger, a
change of a row and, for a referral, of the user: `TokensInv` says which rows a
transaction in flight has changed, by how far it has come (`PathInv`), that it
holds exactly these (`HoldInv`), and that entries and news it has prepared are those
of the change from the row it found (`WorkInv`). A row that is held is committed
by nobody else, so that the row it found is still the row that it replaces; this
includes the row that was missing, which no `SELECT` could lock.

**BillingCalendar.** `PeriodsWithoutGaps`, `GrantsOfLaterPeriods` and
`AtMostTwoGrants`, for every range of dates and every history of payments,
cancellations and visits. `GrantsInv` keeps the first two periods of the running
payment: 31 days after a start reach at most into the second, since no month has
more days than that, and a second plan grant has been made in it.

**Attendance.** `PoolBound`: with an initialised counter that Redis keeps, what is
left in the counter, what calls will pay and what they will give back stay
together within the pool (`BudgetInv`); a call that is cut off only lowers the
sum. `OneRewardPerDay`, under every fault: a call that will write a row knows
that the row is not there (`PaidInv`). `PoolToTheToken` (`AccountInv`) and
`KeysAreBacked` (`KeyInv`).

**Subscriptions.** `PaymentsTypeCorrect`, under every fault. `OneRecord`: no two
handlers work on one webhook, and the record that a handler has not found is
still not there (`DeliveryInv`). `AnsweredIsRecorded`, for any repetition,
concurrency and crash: a webhook is acknowledged only after a record or in the
presence of one (`RecordedInv`). `OneRefund`: who has asked PayApp holds the lock
of the record, the record is still open, and nobody has asked before (`MoneyInv`).
`CancelledIsNotCharged`, for any workers, requests, repetitions and faults: a row
says that it is not renewed, a cancel webhook is on its way, or a coroutine is
about to say so, only when the registration is off, and nothing turns it on again
(`OffInv`). `PaidIsUsable`, for any requests and faults: with one registration the
first payment alone makes the row, every coroutine that has loaded it knows the
expiry as it is, and one that will deactivate it saw it lapsed (`PaidInv`).

**AuthSessions.** `OneAccountPerMail` and `NoResurrection` from one invariant on
what a coroutine has loaded (`AuthInv`): a login that will reactivate a row found
it inactive, and every other write of the row leaves `active` as the row has it
or clears it. `RotatedOnce`: who signed a token that a client holds has ended
(`HeldInv`), a rotation works on a row that held the token it was sent
(`RefreshInv`), so a rotated token is in a row again only if a second call has
signed the same token in the same second (`StoredInv`). **SigningKeys.**
`RotationsAreFollowed`: a response holds only keys that were still served when
its request was sent (`ArrivingInv`), and a key that has been served throughout
a verification is in every response to it (`SteadyInv`).

**Experiences.** `PayloadsTypeCorrect` and `DatesStayOrdered`: a call holds the
whole merged payload through its awaits and writes all of it (`PointInv`,
`CallsInv`). `SearchesWhatIsShown`: what a coroutine will write matches the
vector it will keep, because nothing that changes a text runs between its read and
a write of the payload alone. **Matching.** `MeaningFirst`, for all tags,
contents and similarities: without a meaningful content a score is at most 0.43,
and with one and a similarity of at least 0.334 it is at least 0.4338.
**Projects.** `DeletionsLast` and `EditsApart`: what a request holds was live when
it was loaded and is still there, deleted or not, and the commit writes only the
column it has changed (`ProjectsInv`). `RowsTypeCorrect`: nothing is inserted
before its order has been computed (`RowTypesInv`). **ChatHistory.**
`HistoryIsRead`, for every page size and number of messages: no two messages are
of one instant (`MessagesInv`), and one that was there at the first page has been
received or is older than the cursor (`WalkInv`). **Content.**
`ContentPlaysItsParts`: the composition refines each of its six parts, so their
theorems hold of it; `ContentTypeCorrect` even holds when three of the parts run
at the same time.

What the assumptions on constants add to their types is little:
`IsFiniteSet(Exps)` and `IsFiniteSet(QuestionIds)`, since a listing counts points and the next order is a largest one; that a
missing row, a missing date and nobody are no rows, dates or users; and that the
first day of the calendar exists. TLC evaluates each on the run of its module.

Only TLC checks liveness, which is out of the prover's reach:
`EveryStreamEnds`, `FailureIsRefunded`, `ClaimResolved`, `EveryWebhookAnswered` and
`CallsEnd`.

What the models take as given: `database.py` sets `expire_on_commit=False`, and
`SELECT ... FOR UPDATE` does not refresh an object already in the session; the
chat path keeps no `UserToken` object from one transaction to the next, so that
its locked reads are fresh.

## 5. Not modelled

* Usage limiter and plans: at this commit no request path calls the limiter's
  check or increment; the counters are read for a status endpoint. Of the plans,
  only the price that a payment depends on is modelled.
* Reports, usage log, banners, configuration, encryption of fields, Discord
  notifications: single-request reads and appends that share no state.
* What language models write, prompts, tags and embeddings: how a call ends and
  whether it fails is a choice in the models, its content is not.
* Card data, the payment event log and the MCP token column of payments; profile
  fields and the random generation of referral codes; token formats beyond
  subject, type and time.
* The test accounts of the development environment, who skip chat billing.
* The product of the parts that `Content` and `MCAccounts` put side by side:
  they share no state in the models. Where parts do share a row, chat billing
  and `TokenAccount` each model all accesses of their own requests, and the row
  lock is the interface between them.
