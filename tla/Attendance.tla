----------------------------- MODULE Attendance -----------------------------
(***************************************************************************)
(* The daily attendance reward: check_in of src/tokens/service.py, called  *)
(* by GET /tokens/balance (src/tokens/router.py).                          *)
(*                                                                         *)
(* The reward is paid out of a pool that all users share.  Redis holds the *)
(* pool's counter, a flag that the event has ended and one key per user    *)
(* and day; PostgreSQL holds the attendance log and the credit.  Every     *)
(* command to Redis is one step, and the calls of different users          *)
(* interleave.  A user has one call at a time: the row lock that           *)
(* ensure_monthly_tokens takes before check_in lasts until the commit.     *)
(*                                                                         *)
(* Faults names the environment faults of a run:                           *)
(*   "credit"     a statement of the credit raises                         *)
(*   "commit"     the commit of the request, after check_in, fails         *)
(*   "disconnect" the coroutine is cancelled or its process stops          *)
(*   "redis"      a command to Redis raises without effect                 *)
(*   "loss"       Redis loses its data (MaxLosses times at most)           *)
(***************************************************************************)
EXTENDS Integers, FiniteSets

CONSTANTS
    Users,
    Reward,        \* ATTENDANCE_TOKENS
    TotalPool,     \* ATTENDANCE_EVENT_TOTAL_POOL
    NoPool,        \* the counter's key does not exist
    PoolAtStart,   \* NoPool, or TotalPool for a counter already initialised
    MaxDay, MaxLosses,  \* bounds of the model
    Faults

ASSUME ConstantsAssumption ==
    /\ IsFiniteSet(Users)
    /\ Reward \in Nat \ {0} /\ TotalPool \in Nat
    /\ NoPool \notin Int /\ PoolAtStart \in {NoPool, TotalPool}
    /\ MaxDay \in Nat \ {0} /\ MaxLosses \in Nat
    /\ Faults \subseteq {"credit", "commit", "disconnect", "redis", "loss"}

VARIABLES
    \* Redis
    pool,      \* attendance:pool_remaining
    ended,     \* attendance:event_ended exists
    claimed,   \* the <<user, day>> whose attendance:{user}:{day} key exists
    \* PostgreSQL, committed
    log,       \* the <<user, day>> in attendance_logs
    paid,      \* sum of the ATTENDANCE token_transactions
    \* the call of each user
    pc,
    today,     \* the date the call took from the clock
    seen,      \* the sum it read from token_transactions
    \* environment
    day, losses

vars == <<pool, ended, claimed, log, paid, pc, today, seen, day, losses>>
redis == <<pool, ended, claimed>>
database == <<log, paid>>
environment == <<day, losses>>

Days == 1..MaxDay
Pcs == {"idle", "checking", "claiming", "reading", "summing", "storing",
        "closing", "taking", "restoring", "ending", "releasing",
        "crediting", "committing", "undoing", "unclaiming"}

\* Program points whose next command goes to Redis.
OnRedis == Pcs \ {"idle", "summing", "crediting", "committing"}

Init ==
    /\ pool = PoolAtStart
    /\ ended = FALSE
    /\ claimed = {}
    /\ log = {}
    /\ paid = 0
    /\ pc = [u \in Users |-> "idle"]
    /\ today = [u \in Users |-> 1]
    /\ seen = [u \in Users |-> 0]
    /\ day = 1
    /\ losses = 0

Goto(u, label) == pc' = [pc EXCEPT ![u] = label]
Claim(u) == <<u, today[u]>>

\* INCRBY and DECRBY take a missing key for 0.
IncrBy(amount) == pool' = (IF pool = NoPool THEN 0 ELSE pool) + amount

----------------------------------------------------------------------------
(* check_in, command by command.                                           *)

Start(u) ==
    /\ pc[u] = "idle"
    /\ today' = [today EXCEPT ![u] = day]
    /\ Goto(u, "checking")
    /\ UNCHANGED <<redis, database, seen, environment>>

\* 1. EXISTS attendance:event_ended
CheckEnded(u) ==
    /\ pc[u] = "checking"
    /\ Goto(u, IF ended THEN "idle" ELSE "claiming")
    /\ UNCHANGED <<redis, database, today, seen, environment>>

\* 2. SET attendance:{user}:{day} NX
ClaimDay(u) ==
    /\ pc[u] = "claiming"
    /\ claimed' = claimed \cup {Claim(u)}
    /\ Goto(u, IF Claim(u) \in claimed THEN "idle" ELSE "reading")
    /\ UNCHANGED <<pool, ended, database, today, seen, environment>>

\* 3. _init_pool_if_needed: GET, and if the key is missing SUM, SET and,
\* when nothing remains, SET event_ended.
ReadPool(u) ==
    /\ pc[u] = "reading"
    /\ Goto(u, IF pool = NoPool THEN "summing" ELSE "taking")
    /\ UNCHANGED <<redis, database, today, seen, environment>>

SumPaid(u) ==
    /\ pc[u] = "summing"
    /\ seen' = [seen EXCEPT ![u] = paid]
    /\ Goto(u, "storing")
    /\ UNCHANGED <<redis, database, today, environment>>

Remaining(u) == IF seen[u] < TotalPool THEN TotalPool - seen[u] ELSE 0

StorePool(u) ==
    /\ pc[u] = "storing"
    /\ pool' = Remaining(u)
    /\ Goto(u, IF Remaining(u) < Reward THEN "closing" ELSE "taking")
    /\ UNCHANGED <<ended, claimed, database, today, seen, environment>>

CloseEvent(u) ==
    /\ pc[u] \in {"closing", "ending"}
    /\ ended' = TRUE
    /\ Goto(u, IF pc[u] = "closing" THEN "taking" ELSE "releasing")
    /\ UNCHANGED <<pool, claimed, database, today, seen, environment>>

\* Mutant of Exhausted: the counter may go below zero by one reward.
ExhaustedTooLate(remaining) == remaining < -Reward

\* new_remaining < 0
Exhausted(remaining) == remaining < 0

\* 4. DECRBY
TakeReward(u) ==
    /\ pc[u] = "taking"
    /\ IncrBy(-Reward)
    /\ Goto(u, IF Exhausted(pool') THEN "restoring" ELSE "crediting")
    /\ UNCHANGED <<ended, claimed, database, today, seen, environment>>

\* Mutant of GiveBack: the counter is not restored.
GiveBackNothing == 0

GiveBack == Reward

\* INCRBY: when the pool was exhausted, or when the credit raised.
RestorePool(u) ==
    /\ pc[u] \in {"restoring", "undoing"}
    /\ IncrBy(GiveBack)
    /\ Goto(u, IF pc[u] = "restoring" THEN "ending" ELSE "unclaiming")
    /\ UNCHANGED <<ended, claimed, database, today, seen, environment>>

\* Mutant of Released: the user's key is kept.
KeepKey(u) == claimed

\* DEL attendance:{user}:{day}
Released(u) == claimed \ {Claim(u)}

ReleaseClaim(u) ==
    /\ pc[u] \in {"releasing", "unclaiming"}
    /\ claimed' = Released(u)
    /\ Goto(u, "idle")
    /\ UNCHANGED <<pool, ended, database, today, seen, environment>>

\* Mutant of AlreadyLogged: the table has no unique constraint.
Unconstrained(u) == FALSE

\* uq_attendance_user_date refuses the row that the credit flushes.
AlreadyLogged(u) == Claim(u) \in log

\* 5. AttendanceLog and credit.  The rows wait for the router's commit.
Credit(u) ==
    /\ pc[u] = "crediting"
    /\ Goto(u, IF AlreadyLogged(u) THEN "undoing" ELSE "committing")
    /\ UNCHANGED <<redis, database, today, seen, environment>>

CreditRaises(u) ==
    /\ "credit" \in Faults
    /\ pc[u] = "crediting"
    /\ Goto(u, "undoing")
    /\ UNCHANGED <<redis, database, today, seen, environment>>

\* session.commit() at the end of get_token_balance
Commit(u) ==
    /\ pc[u] = "committing"
    /\ log' = log \cup {Claim(u)}
    /\ paid' = paid + Reward
    /\ Goto(u, "idle")
    /\ UNCHANGED <<redis, today, seen, environment>>

----------------------------------------------------------------------------
(* The call ends early, and nothing compensates for what it did to Redis.  *)

CommitFails(u) ==
    /\ "commit" \in Faults
    /\ pc[u] = "committing"
    /\ Goto(u, "idle")
    /\ UNCHANGED <<redis, database, today, seen, environment>>

\* The router logs the exception and goes on without the attendance.
RedisFails(u) ==
    /\ "redis" \in Faults
    /\ pc[u] \in OnRedis
    /\ Goto(u, "idle")
    /\ UNCHANGED <<redis, database, today, seen, environment>>

Disconnect(u) ==
    /\ "disconnect" \in Faults
    /\ pc[u] # "idle"
    /\ Goto(u, "idle")
    /\ UNCHANGED <<redis, database, today, seen, environment>>

Midnight ==
    /\ day < MaxDay
    /\ day' = day + 1
    /\ UNCHANGED <<redis, database, pc, today, seen, losses>>

LoseRedis ==
    /\ "loss" \in Faults /\ losses < MaxLosses
    /\ pool' = NoPool /\ ended' = FALSE /\ claimed' = {}
    /\ losses' = losses + 1
    /\ UNCHANGED <<database, pc, today, seen, day>>

\* The call under way reaches its end.
Continue(u) ==
    \/ CheckEnded(u) \/ ClaimDay(u) \/ ReadPool(u) \/ SumPaid(u)
    \/ StorePool(u) \/ CloseEvent(u) \/ TakeReward(u) \/ RestorePool(u)
    \/ ReleaseClaim(u) \/ Credit(u) \/ CreditRaises(u) \/ Commit(u)

Next ==
    \/ \E u \in Users :
          Start(u) \/ Continue(u) \/ CommitFails(u) \/ RedisFails(u) \/ Disconnect(u)
    \/ Midnight
    \/ LoseRedis

Spec == Init /\ [][Next]_vars

\* The event loop and Redis serve a call that has begun; nothing makes a user
\* ask for the balance again.
FairSpec == Spec /\ \A u \in Users : WF_vars(Continue(u))
----------------------------------------------------------------------------
(* Properties                                                              *)

TypeOK ==
    /\ pool \in Int \cup {NoPool} /\ ended \in BOOLEAN
    /\ claimed \subseteq Users \X Days /\ log \subseteq Users \X Days
    /\ paid \in Nat
    /\ pc \in [Users -> Pcs] /\ today \in [Users -> Days]
    /\ seen \in [Users -> Nat]
    /\ day \in Days /\ losses \in 0..MaxLosses

\* No user is paid twice for a day, even when Redis has forgotten the day's
\* key and the call was cut off and retried: what was paid is one reward for
\* each attendance log (uq_attendance_user_date, tokens/models.py:69).
OncePerDay == paid = Reward * Cardinality(log)

\* The event never pays more than its pool ("total pool", tokens/constants.py:19)
\* and a credit under way has its tokens set aside.
Unpaid == {u \in Users : pc[u] \in {"crediting", "committing"}}
NeverOversold == paid + Reward * Cardinality(Unpaid) <= TotalPool

\* Calls that hold tokens of the counter.
Holding == {u \in Users : pc[u] \in {"crediting", "committing", "undoing", "restoring"}}

\* The counter, what calls have taken from it and what was paid make up the
\* pool: an exhausted pool and a failed credit give back what they took
\* (check_in, tokens/service.py:316 and 329).
PoolAccounted == pool + Reward * Cardinality(Holding) + paid = TotalPool

\* Between the claim of a day and the end of the call that made it.
Claiming(u, d) ==
    /\ today[u] = d
    /\ pc[u] \notin {"idle", "checking", "claiming"}

\* A user's key of the day says that the user was paid, or is about to be: a
\* failed credit leaves no key that would refuse the user for the rest of the
\* day ("roll Redis back on failure", tokens/service.py:322).
ClaimBacked ==
    \A u \in Users, d \in Days :
        <<u, d>> \in claimed => <<u, d>> \in log \/ Claiming(u, d)

\* A claim is not left hanging: the reward is paid or the key is released.
ClaimResolved ==
    \A u \in Users, d \in Days :
        <<u, d>> \in claimed ~> (<<u, d>> \in log \/ <<u, d>> \notin claimed)
=============================================================================
