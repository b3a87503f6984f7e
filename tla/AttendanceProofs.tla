-------------------------- MODULE AttendanceProofs --------------------------
(***************************************************************************)
(* Proofs about Attendance, for every set of users, every pool and reward  *)
(* and every number of days.                                               *)
(*                                                                         *)
(* That the pool is not oversold needs more than the bound itself: a call  *)
(* may take a reward only because what is left in the counter, what other  *)
(* calls will still pay and what other calls will give back never exceed   *)
(* the pool together (BudgetInv).  Losing a call in the middle only lowers *)
(* that sum.                                                               *)
(***************************************************************************)
EXTENDS Attendance, FiniteSetTheorems, TLAPS

Paying == {"crediting", "committing"}
GivingBack == {"restoring", "undoing"}

\* The calls whose control point, in f, is one of S.
At(S, f) == {u \in Users : f[u] \in S}

\* Tokens of calls that are about to pay them, or to give them back.
Due == Reward * Cardinality(At(Paying, pc))
Back == Reward * Cardinality(At(GivingBack, pc))

\* Nobody initialises a counter that is there from the start.
PcInv ==
    /\ pc \in [Users -> Pcs]
    /\ \A u \in Users : pc[u] \notin {"summing", "storing", "closing"}

BudgetInv ==
    /\ PcInv
    /\ pool \in Int /\ paid \in Int
    /\ paid + Due <= TotalPool
    /\ pool + Back + Due + paid <= TotalPool

----------------------------------------------------------------------------
\* How the number of calls at some control points changes when one call moves.
LEMMA CountMoves ==
    ASSUME pc \in [Users -> Pcs], NEW u \in Users, NEW l \in Pcs, Goto(u, l), NEW S
    PROVE  /\ Cardinality(At(S, pc)) \in Nat
           /\ Cardinality(At(S, pc')) =
                 (IF pc[u] \in S THEN Cardinality(At(S, pc)) - 1
                                 ELSE Cardinality(At(S, pc)))
                 + (IF l \in S THEN 1 ELSE 0)
<1> DEFINE A == At(S, pc)  C == A \ {u}
<1>1. IsFiniteSet(A) /\ Cardinality(A) \in Nat
  <2>1. A \in SUBSET Users
      BY DEF At
  <2> QED
      BY <2>1, ConstantsAssumption, FS_Subset, FS_CardinalityType
<1>2. u \in A <=> pc[u] \in S
    BY DEF At
<1>3. /\ IsFiniteSet(C) /\ Cardinality(C) \in Nat
      /\ Cardinality(C) = IF pc[u] \in S THEN Cardinality(A) - 1 ELSE Cardinality(A)
  <2>1. /\ IsFiniteSet(C)
        /\ Cardinality(C) = IF u \in A THEN Cardinality(A) - 1 ELSE Cardinality(A)
      BY <1>1, FS_RemoveElement
  <2> QED
      BY <1>2, <2>1, FS_CardinalityType
<1>4. Cardinality(C \cup {u}) = Cardinality(C) + 1
    BY <1>3, FS_AddElement
<1>5. At(S, pc') = IF l \in S THEN C \cup {u} ELSE C
    BY DEF At, Goto
<1>6. Cardinality(At(S, pc')) = Cardinality(C) + (IF l \in S THEN 1 ELSE 0)
  <2>1. CASE l \in S
      BY <1>4, <1>5, <2>1
  <2>2. CASE l \notin S
      BY <1>3, <1>5, <2>2
  <2> QED
      BY <2>1, <2>2
<1> QED
    BY <1>1, <1>3, <1>6

\* The same for the tokens those calls hold.
LEMMA TokensMove ==
    ASSUME pc \in [Users -> Pcs], NEW u \in Users, NEW l \in Pcs, Goto(u, l)
    PROVE  /\ Due \in Nat /\ Back \in Nat
           /\ Due' = Due + (IF l \in Paying THEN Reward ELSE 0)
                         - (IF pc[u] \in Paying THEN Reward ELSE 0)
           /\ Back' = Back + (IF l \in GivingBack THEN Reward ELSE 0)
                           - (IF pc[u] \in GivingBack THEN Reward ELSE 0)
<1>1. ASSUME NEW k \in Nat
      PROVE  /\ Reward * k \in Nat
             /\ Reward * (k + 1) = Reward * k + Reward
             /\ Reward * (k - 1) = Reward * k - Reward
    BY ConstantsAssumption
<1>2. /\ Due \in Nat
      /\ Due' = Due + (IF l \in Paying THEN Reward ELSE 0)
                    - (IF pc[u] \in Paying THEN Reward ELSE 0)
  <2> DEFINE n == Cardinality(At(Paying, pc))  m == Cardinality(At(Paying, pc'))
  <2>1. n \in Nat /\ m = (IF pc[u] \in Paying THEN n - 1 ELSE n)
                         + (IF l \in Paying THEN 1 ELSE 0)
      BY CountMoves
  <2>2. Due = Reward * n /\ Due' = Reward * m
      BY DEF Due, At
  <2> HIDE DEF n, m
  <2> QED
      BY <1>1, <2>1, <2>2, ConstantsAssumption
<1>3. /\ Back \in Nat
      /\ Back' = Back + (IF l \in GivingBack THEN Reward ELSE 0)
                      - (IF pc[u] \in GivingBack THEN Reward ELSE 0)
  <2> DEFINE n == Cardinality(At(GivingBack, pc))  m == Cardinality(At(GivingBack, pc'))
  <2>1. n \in Nat /\ m = (IF pc[u] \in GivingBack THEN n - 1 ELSE n)
                         + (IF l \in GivingBack THEN 1 ELSE 0)
      BY CountMoves
  <2>2. Back = Reward * n /\ Back' = Reward * m
      BY DEF Back, At
  <2> HIDE DEF n, m
  <2> QED
      BY <1>1, <2>1, <2>2, ConstantsAssumption
<1> QED
    BY <1>2, <1>3

----------------------------------------------------------------------------
LEMMA InitBudget == PoolAtStart = TotalPool /\ Init => BudgetInv
<1> SUFFICES ASSUME PoolAtStart = TotalPool, Init PROVE BudgetInv
    OBVIOUS
<1>1. At(Paying, pc) = {} /\ At(GivingBack, pc) = {}
    BY DEF Init, At, Paying, GivingBack
<1>2. Due = 0 /\ Back = 0
    BY <1>1, FS_EmptySet, ConstantsAssumption DEF Due, Back
<1> QED
    BY <1>2, ConstantsAssumption DEF Init, BudgetInv, PcInv, Pcs

\* A step of a call that touches neither the counter nor the credits.
LEMMA QuietSteps ==
    ASSUME BudgetInv, NEW u \in Users,
           \/ Start(u) \/ CheckEnded(u) \/ ClaimDay(u) \/ ReadPool(u)
           \/ CloseEvent(u) \/ ReleaseClaim(u) \/ Credit(u) \/ CreditRaises(u)
           \/ CommitFails(u) \/ RedisFails(u) \/ Disconnect(u)
    PROVE  BudgetInv'
<1>1. PICK l \in Pcs \ {"summing", "storing", "closing"} :
          /\ Goto(u, l)
          /\ l \in Paying => pc[u] \in Paying
          /\ l \in GivingBack => pc[u] \in Paying
    BY ConstantsAssumption
       DEF BudgetInv, PcInv, Start, CheckEnded, ClaimDay, ReadPool, CloseEvent,
           ReleaseClaim, Credit, CreditRaises, CommitFails, RedisFails,
           Disconnect, Goto, Pcs, Paying, GivingBack
<1>2. UNCHANGED <<pool, paid>>
    BY DEF Start, CheckEnded, ClaimDay, ReadPool, CloseEvent, ReleaseClaim,
           Credit, CreditRaises, CommitFails, RedisFails, Disconnect,
           redis, database
<1>3. PcInv'
    BY <1>1 DEF BudgetInv, PcInv, Goto
<1> QED
    BY <1>1, <1>2, <1>3, TokensMove, ConstantsAssumption
       DEF BudgetInv, PcInv, Paying, GivingBack

LEMMA TakeStep ==
    ASSUME BudgetInv, NEW u \in Users, TakeReward(u)
    PROVE  BudgetInv'
<1>1. pool' = pool - Reward /\ paid' = paid /\ pc[u] = "taking"
    BY ConstantsAssumption DEF BudgetInv, TakeReward, IncrBy, database
<1>2. CASE pool' < 0
  <2>1. Goto(u, "restoring")
      BY <1>2 DEF TakeReward, Exhausted
  <2>2. Due' = Due /\ Back' = Back + Reward /\ Due \in Nat /\ Back \in Nat
      BY <1>1, <2>1, TokensMove, ConstantsAssumption
         DEF BudgetInv, PcInv, Pcs, Paying, GivingBack
  <2>3. PcInv'
      BY <2>1 DEF BudgetInv, PcInv, Goto, Pcs
  <2> QED
      BY <1>1, <2>2, <2>3, ConstantsAssumption DEF BudgetInv
<1>3. CASE ~(pool' < 0)
  <2>1. Goto(u, "crediting")
      BY <1>3 DEF TakeReward, Exhausted
  <2>2. Due' = Due + Reward /\ Back' = Back /\ Due \in Nat /\ Back \in Nat
      BY <1>1, <2>1, TokensMove, ConstantsAssumption
         DEF BudgetInv, PcInv, Pcs, Paying, GivingBack
  <2>3. PcInv'
      BY <2>1 DEF BudgetInv, PcInv, Goto, Pcs
  <2> QED
      BY <1>1, <1>3, <2>2, <2>3, ConstantsAssumption DEF BudgetInv
<1> QED
    BY <1>2, <1>3

LEMMA RestoreStep ==
    ASSUME BudgetInv, NEW u \in Users, RestorePool(u)
    PROVE  BudgetInv'
<1>1. pool' = pool + Reward /\ paid' = paid /\ pc[u] \in GivingBack
    BY ConstantsAssumption
       DEF BudgetInv, RestorePool, IncrBy, GiveBack, database, GivingBack
<1>2. PICK l \in {"ending", "unclaiming"} : Goto(u, l)
    BY DEF RestorePool
<1>3. Due' = Due /\ Back' = Back - Reward /\ Due \in Nat /\ Back \in Nat
    BY <1>1, <1>2, TokensMove, ConstantsAssumption
       DEF BudgetInv, PcInv, Pcs, Paying, GivingBack
<1>4. PcInv'
    BY <1>2 DEF BudgetInv, PcInv, Goto, Pcs
<1> QED
    BY <1>1, <1>3, <1>4, ConstantsAssumption DEF BudgetInv

LEMMA CommitStep ==
    ASSUME BudgetInv, NEW u \in Users, Commit(u)
    PROVE  BudgetInv'
<1>1. /\ pool' = pool /\ paid' = paid + Reward
      /\ pc[u] = "committing" /\ Goto(u, "idle")
    BY DEF Commit, redis
<1>2. Due' = Due - Reward /\ Back' = Back /\ Due \in Nat /\ Back \in Nat
    BY <1>1, TokensMove, ConstantsAssumption
       DEF BudgetInv, PcInv, Pcs, Paying, GivingBack
<1>3. PcInv'
    BY <1>1 DEF BudgetInv, PcInv, Goto, Pcs
<1> QED
    BY <1>1, <1>2, <1>3, ConstantsAssumption DEF BudgetInv

LEMMA NextBudget ==
    ASSUME "loss" \notin Faults, BudgetInv, [Next]_vars
    PROVE  BudgetInv'
<1>1. ASSUME NEW u \in Users,
             Start(u) \/ Continue(u) \/ CommitFails(u) \/ RedisFails(u) \/ Disconnect(u)
      PROVE  BudgetInv'
  <2>1. ~SumPaid(u) /\ ~StorePool(u)
      BY DEF BudgetInv, PcInv, SumPaid, StorePool
  <2> QED
      BY <1>1, <2>1, QuietSteps, TakeStep, RestoreStep, CommitStep DEF Continue
<1>2. CASE Midnight \/ UNCHANGED vars
    BY <1>2 DEF Midnight, vars, redis, database, BudgetInv, PcInv, Due, Back
<1> QED
    BY <1>1, <1>2 DEF Next, LoseRedis

\* With an initialised counter that Redis keeps, the event never pays more than
\* its pool, wherever calls are cut off (check_in).
THEOREM PoolBound ==
    ASSUME PoolAtStart = TotalPool, "loss" \notin Faults
    PROVE  Spec => []NeverOversold
<1>1. BudgetInv => NeverOversold
    BY DEF BudgetInv, NeverOversold, Due, At, Unpaid, Paying
<1>2. Init => BudgetInv
    BY InitBudget
<1>3. BudgetInv /\ [Next]_vars => BudgetInv'
    BY NextBudget
<1> QED
    BY <1>1, <1>2, <1>3, PTL DEF Spec

----------------------------------------------------------------------------
(* One reward a day.  A call between its credit and its commit writes a row *)
(* that is not in the log: only calls of the same user could have added it. *)
PaidInv ==
    /\ pc \in [Users -> Pcs] /\ today \in [Users -> Days] /\ day \in Days
    /\ paid = Reward * Cardinality(log) /\ IsFiniteSet(log)
    /\ \A u \in Users : pc[u] = "committing" => Claim(u) \notin log

LEMMA InitPaid == Init => PaidInv
<1> SUFFICES ASSUME Init PROVE PaidInv
    OBVIOUS
<1> QED
    BY FS_EmptySet, ConstantsAssumption DEF Init, PaidInv, Pcs, Days

LEMMA CommitPaid ==
    ASSUME PaidInv, NEW u \in Users, Commit(u)
    PROVE  PaidInv'
<1>1. /\ pc[u] = "committing" /\ Claim(u) \notin log
      /\ log' = log \cup {Claim(u)} /\ paid' = paid + Reward
      /\ pc' = [pc EXCEPT ![u] = "idle"] /\ today' = today /\ day' = day
    BY DEF Commit, PaidInv, Goto, environment
<1>2. IsFiniteSet(log') /\ Cardinality(log') = Cardinality(log) + 1
    BY <1>1, FS_AddElement DEF PaidInv
<1>3. Cardinality(log) \in Nat
    BY FS_CardinalityType DEF PaidInv
<1>4. paid' = Reward * Cardinality(log')
  <2>1. Reward * (Cardinality(log) + 1) = Reward * Cardinality(log) + Reward
      BY <1>3, ConstantsAssumption
  <2> QED
      BY <1>1, <1>2, <2>1 DEF PaidInv
<1>5. \A v \in Users : pc'[v] = "committing" => Claim(v)' \notin log'
    BY <1>1 DEF PaidInv, Claim
<1>6. pc' \in [Users -> Pcs] /\ today' \in [Users -> Days] /\ day' \in Days
    BY <1>1 DEF PaidInv, Pcs
<1> QED
    BY <1>2, <1>4, <1>5, <1>6 DEF PaidInv

LEMMA OtherPaid ==
    ASSUME PaidInv, NEW u \in Users,
           \/ Start(u) \/ CheckEnded(u) \/ ClaimDay(u) \/ ReadPool(u) \/ SumPaid(u)
           \/ StorePool(u) \/ CloseEvent(u) \/ TakeReward(u) \/ RestorePool(u)
           \/ ReleaseClaim(u) \/ Credit(u) \/ CreditRaises(u)
           \/ CommitFails(u) \/ RedisFails(u) \/ Disconnect(u)
    PROVE  PaidInv'
<1>1. PICK l \in Pcs :
          /\ pc' = [pc EXCEPT ![u] = l]
          /\ l = "committing" => Claim(u)' \notin log
  <2>1. CASE Credit(u)
      BY <2>1 DEF Credit, Goto, Pcs, AlreadyLogged, Claim
  <2>2. CASE ~Credit(u)
    <3>1. /\ pc' = [pc EXCEPT ![u] = pc'[u]]
          /\ pc'[u] \in Pcs \ {"committing"}
        BY <2>2 DEF PaidInv, Goto, Start, CheckEnded, ClaimDay, ReadPool, SumPaid, StorePool,
               CloseEvent, TakeReward, RestorePool, ReleaseClaim, CreditRaises,
               CommitFails, RedisFails, Disconnect, Pcs
    <3> QED
        BY <3>1
  <2> QED
      BY <2>1, <2>2
<1>2. UNCHANGED <<log, paid, day>> /\ today' \in [Users -> Days]
      /\ \A v \in Users \ {u} : Claim(v)' = Claim(v)
    BY DEF PaidInv, environment, Start, CheckEnded, ClaimDay, ReadPool, SumPaid, StorePool, CloseEvent,
           TakeReward, RestorePool, ReleaseClaim, Credit, CreditRaises,
           CommitFails, RedisFails, Disconnect, database, Claim
<1> QED
    BY <1>1, <1>2 DEF PaidInv

LEMMA NextPaid == PaidInv /\ [Next]_vars => PaidInv'
<1> SUFFICES ASSUME PaidInv, [Next]_vars PROVE PaidInv'
    OBVIOUS
<1>1. ASSUME NEW u \in Users,
             Start(u) \/ Continue(u) \/ CommitFails(u) \/ RedisFails(u) \/ Disconnect(u)
      PROVE  PaidInv'
    BY <1>1, CommitPaid, OtherPaid DEF Continue
<1>2. CASE Midnight \/ LoseRedis \/ UNCHANGED vars
    BY <1>2, ConstantsAssumption DEF Days, Midnight, LoseRedis, vars, redis, database, PaidInv, Claim
<1> QED
    BY <1>1, <1>2 DEF Next

\* Nobody is paid twice for a day, under every fault and any loss of Redis
\* (uq_attendance_user_date behind check_in).
THEOREM OneRewardPerDay == Spec => []OncePerDay
<1>1. PaidInv => OncePerDay
    BY DEF PaidInv, OncePerDay
<1> QED
    BY <1>1, InitPaid, NextPaid, PTL DEF Spec

----------------------------------------------------------------------------
(* The pool to the token.  As long as calls end by themselves, what they    *)
(* hold is given back or paid and the budget is met with equality.          *)
AccountInv ==
    /\ PcInv
    /\ pool \in Int /\ paid \in Int
    /\ pool + Back + Due + paid = TotalPool

LEMMA InitAccount == PoolAtStart = TotalPool /\ Init => AccountInv
<1> SUFFICES ASSUME PoolAtStart = TotalPool, Init PROVE AccountInv
    OBVIOUS
<1>1. At(Paying, pc) = {} /\ At(GivingBack, pc) = {}
    BY DEF Init, At, Paying, GivingBack
<1>2. Due = 0 /\ Back = 0
    BY <1>1, FS_EmptySet, ConstantsAssumption DEF Due, Back
<1> QED
    BY <1>2, ConstantsAssumption DEF Init, AccountInv, PcInv, Pcs

\* A sum of four parts stays, if two of them take what the others give.
LEMMA SumMoves ==
    ASSUME NEW x \in Int, NEW y \in Int, NEW p \in Int, NEW q \in Int,
           NEW s \in Int, NEW t \in Int, NEW v \in Int, NEW w \in Int,
           s + t = x + y + (p - v) + (q - w)
    PROVE  v + s + t + w = p + x + y + q
OBVIOUS

\* Every step of a call moves what it takes from the counter to what it holds,
\* and what it holds to the counter or to what is paid.
LEMMA CallAccount ==
    ASSUME AccountInv, NEW u \in Users, Start(u) \/ Continue(u)
    PROVE  AccountInv'
<1>1. ~SumPaid(u) /\ ~StorePool(u)
    BY DEF AccountInv, PcInv, SumPaid, StorePool
<1>2. PICK l \in Pcs \ {"summing", "storing", "closing"} :
          /\ Goto(u, l)
          /\ \/ /\ UNCHANGED <<pool, paid>>
                /\ l \in Paying => pc[u] \in Paying
                /\ l \in GivingBack => pc[u] \in Paying
                /\ pc[u] \in Paying => l \in Paying \cup GivingBack
                /\ pc[u] \notin GivingBack
             \/ /\ pool' = pool - Reward /\ UNCHANGED paid
                /\ l \in Paying \cup GivingBack /\ pc[u] = "taking"
             \/ /\ pool' = pool + Reward /\ UNCHANGED paid
                /\ l \in {"ending", "unclaiming"} /\ pc[u] \in GivingBack
             \/ /\ UNCHANGED pool /\ paid' = paid + Reward
                /\ l = "idle" /\ pc[u] = "committing"
  <2>1. CASE Start(u) \/ CheckEnded(u) \/ ClaimDay(u) \/ ReadPool(u)
             \/ CloseEvent(u) \/ ReleaseClaim(u) \/ Credit(u) \/ CreditRaises(u)
      BY <2>1, ConstantsAssumption
         DEF AccountInv, PcInv, Start, CheckEnded, ClaimDay, ReadPool, CloseEvent,
             ReleaseClaim, Credit, CreditRaises, Goto, Pcs, Paying, GivingBack,
             redis, database
  <2>2. CASE TakeReward(u)
    <3>1. pool' = pool - Reward /\ paid' = paid /\ pc[u] = "taking"
        BY <2>2, ConstantsAssumption DEF AccountInv, TakeReward, IncrBy, database
    <3>2. Goto(u, "restoring") \/ Goto(u, "crediting")
        BY <2>2 DEF TakeReward
    <3> QED
        BY <3>1, <3>2 DEF Pcs, Paying, GivingBack
  <2>3. CASE RestorePool(u)
    <3>1. pool' = pool + Reward /\ paid' = paid /\ pc[u] \in GivingBack
        BY <2>3, ConstantsAssumption
           DEF AccountInv, RestorePool, IncrBy, GiveBack, database, GivingBack
    <3>2. Goto(u, "ending") \/ Goto(u, "unclaiming")
        BY <2>3 DEF RestorePool
    <3> QED
        BY <3>1, <3>2 DEF Pcs
  <2>4. CASE Commit(u)
      BY <2>4 DEF Commit, redis, Pcs
  <2> QED
      BY <1>1, <2>1, <2>2, <2>3, <2>4 DEF Continue
<1>3. PcInv'
    BY <1>2 DEF AccountInv, PcInv, Goto
<1>4. /\ Due \in Nat /\ Back \in Nat
      /\ Due' = Due + (IF l \in Paying THEN Reward ELSE 0)
                    - (IF pc[u] \in Paying THEN Reward ELSE 0)
      /\ Back' = Back + (IF l \in GivingBack THEN Reward ELSE 0)
                      - (IF pc[u] \in GivingBack THEN Reward ELSE 0)
    BY <1>2, TokensMove DEF AccountInv, PcInv
<1>5. Reward \in Int /\ TotalPool \in Int
    BY ConstantsAssumption
<1>6. Paying \cap GivingBack = {} /\ "idle" \notin Paying /\ "idle" \notin GivingBack
      /\ "ending" \notin Paying \cup GivingBack /\ "unclaiming" \notin Paying \cup GivingBack
      /\ "taking" \notin Paying \cup GivingBack
      /\ "committing" \in Paying
    BY DEF Paying, GivingBack
<1>7. pool' \in Int /\ paid' \in Int
    BY <1>2, <1>5 DEF AccountInv
<1>8. Back' + Due' = Back + Due + (pool - pool') + (paid - paid')
  <2>1. pool \in Int /\ paid \in Int
      BY DEF AccountInv
  <2>2. CASE /\ UNCHANGED <<pool, paid>>
             /\ (l \in Paying \cup GivingBack) = (pc[u] \in Paying)
             /\ pc[u] \notin GivingBack
    <3>1. Back' + Due' = Back + Due
        BY <1>4, <1>5, <1>6, <2>2
    <3> QED
        BY <1>4, <2>1, <2>2, <3>1
  <2>3. CASE /\ pool' = pool - Reward /\ UNCHANGED paid
             /\ l \in Paying \cup GivingBack /\ pc[u] = "taking"
    <3>1. Back' + Due' = Back + Due + Reward
        BY <1>4, <1>5, <1>6, <2>3
    <3> QED
        BY <1>4, <1>5, <2>1, <2>3, <3>1
  <2>4. CASE /\ pool' = pool + Reward /\ UNCHANGED paid
             /\ l \in {"ending", "unclaiming"} /\ pc[u] \in GivingBack
    <3>1. Back' = Back - Reward /\ Due' = Due
        BY <1>4, <1>5, <1>6, <2>4
    <3> QED
        BY <1>4, <1>5, <2>1, <2>4, <3>1
  <2>5. CASE /\ UNCHANGED pool /\ paid' = paid + Reward
             /\ l = "idle" /\ pc[u] = "committing"
    <3>1. Back' = Back /\ Due' = Due - Reward
        BY <1>4, <1>5, <1>6, <2>5
    <3> QED
        BY <1>4, <1>5, <2>1, <2>5, <3>1
  <2> QED
      BY <1>2, <2>2, <2>3, <2>4, <2>5
<1>9. Due' \in Int /\ Back' \in Int
  <2>1. /\ (IF l \in Paying THEN Reward ELSE 0) \in Int
        /\ (IF pc[u] \in Paying THEN Reward ELSE 0) \in Int
        /\ (IF l \in GivingBack THEN Reward ELSE 0) \in Int
        /\ (IF pc[u] \in GivingBack THEN Reward ELSE 0) \in Int
      BY <1>5
  <2> QED
      BY <1>4, <2>1
<1>10. pool' + Back' + Due' + paid' = TotalPool
  <2>1. /\ pool \in Int /\ paid \in Int /\ Due \in Int /\ Back \in Int
        /\ pool + Back + Due + paid = TotalPool
      BY <1>4 DEF AccountInv
  <2> QED
      BY <1>7, <1>8, <1>9, <2>1, SumMoves
<1> QED
    BY <1>3, <1>7, <1>10 DEF AccountInv

LEMMA NextAccount ==
    ASSUME Faults \subseteq {"credit"}, AccountInv, [Next]_vars
    PROVE  AccountInv'
<1>1. CASE \E u \in Users : Start(u) \/ Continue(u)
    BY <1>1, CallAccount
<1>2. CASE Midnight \/ UNCHANGED vars
    BY <1>2 DEF Midnight, vars, redis, database, AccountInv, PcInv, Due, Back
<1> QED
    BY <1>1, <1>2 DEF Next, LoseRedis, CommitFails, RedisFails, Disconnect

\* The calls that hold tokens of the counter are those that will pay them and
\* those that will give them back.
LEMMA HoldingSplit ==
    ASSUME AccountInv
    PROVE  Reward * Cardinality(Holding) = Back + Due
<1> DEFINE P == At(Paying, pc)  G == At(GivingBack, pc)
<1>1. P \in SUBSET Users /\ G \in SUBSET Users /\ P \cap G = {} /\ Holding = P \cup G
    BY DEF At, Paying, GivingBack, Holding
<1>2. /\ IsFiniteSet(P) /\ IsFiniteSet(G)
      /\ Cardinality(P) \in Nat /\ Cardinality(G) \in Nat
    BY <1>1, ConstantsAssumption, FS_Subset, FS_CardinalityType
<1>3. Cardinality(Holding) = Cardinality(P) + Cardinality(G) - Cardinality(P \cap G)
    BY <1>1, <1>2, FS_Union
<1>4. Cardinality(P \cap G) = 0
    BY <1>1, FS_EmptySet
<1>5. Due = Reward * Cardinality(P) /\ Back = Reward * Cardinality(G)
    BY DEF Due, Back
<1> HIDE DEF P, G
<1>6. Cardinality(Holding) = Cardinality(P) + Cardinality(G)
    BY <1>2, <1>3, <1>4
<1>7. ASSUME NEW m \in Nat, NEW n \in Nat
      PROVE  Reward * (m + n) = Reward * n + Reward * m
    BY ConstantsAssumption
<1> QED
    BY <1>2, <1>5, <1>6, <1>7

\* Where calls end by themselves, an exhausted pool and a failed credit give
\* back exactly what they took (check_in).
THEOREM PoolToTheToken ==
    ASSUME PoolAtStart = TotalPool, Faults \subseteq {"credit"}
    PROVE  Spec => []PoolAccounted
<1>1. AccountInv => PoolAccounted
  <2> SUFFICES ASSUME AccountInv PROVE PoolAccounted
      OBVIOUS
  <2>1. At(Paying, pc) \in SUBSET Users /\ At(GivingBack, pc) \in SUBSET Users
      BY DEF At
  <2>2. Cardinality(At(Paying, pc)) \in Nat /\ Cardinality(At(GivingBack, pc)) \in Nat
      BY <2>1, ConstantsAssumption, FS_Subset, FS_CardinalityType
  <2>3. ASSUME NEW k \in Nat PROVE Reward * k \in Int
      BY ConstantsAssumption
  <2>4. Due \in Int /\ Back \in Int
      BY <2>2, <2>3 DEF Due, Back
  <2>5. /\ pool \in Int /\ paid \in Int
        /\ pool + Back + Due + paid = TotalPool
        /\ Reward * Cardinality(Holding) = Back + Due
      BY HoldingSplit DEF AccountInv
  <2> QED
      BY <2>4, <2>5, ConstantsAssumption DEF PoolAccounted
<1>2. Init => AccountInv
    BY InitAccount
<1>3. AccountInv /\ [Next]_vars => AccountInv'
    BY NextAccount
<1> QED
    BY <1>1, <1>2, <1>3, PTL DEF Spec

----------------------------------------------------------------------------
(* The keys of the day.                                                     *)
KeyInv ==
    /\ pc \in [Users -> Pcs] /\ today \in [Users -> Days]
    /\ day \in Days
    /\ ClaimBacked

LEMMA CallKey ==
    ASSUME KeyInv, NEW u \in Users, Start(u) \/ Continue(u)
    PROVE  KeyInv'
<1>1. pc' \in [Users -> Pcs] /\ today' \in [Users -> Days] /\ day' = day
    BY DEF KeyInv, Continue, Goto, Start, CheckEnded, ClaimDay, ReadPool, SumPaid,
           StorePool, CloseEvent, TakeReward, RestorePool, ReleaseClaim, Credit,
           CreditRaises, Commit, Pcs, environment
<1>2. /\ log \subseteq log'
      /\ \A v \in Users \ {u} : pc'[v] = pc[v] /\ today'[v] = today[v]
      /\ claimed' \subseteq claimed \cup {Claim(u)}
    BY DEF KeyInv, Continue, Goto, Start, CheckEnded, ClaimDay, ReadPool, SumPaid,
           StorePool, CloseEvent, TakeReward, RestorePool, ReleaseClaim, Credit,
           CreditRaises, Commit, Pcs, redis, database, Released
<1>3. ASSUME NEW v \in Users, NEW d \in Days, <<v, d>> \in claimed', v # u
      PROVE  <<v, d>> \in log' \/ Claiming(v, d)'
  <2>1. <<v, d>> \in claimed
      BY <1>2, <1>3 DEF Claim
  <2> QED
      BY <1>2, <1>3, <2>1 DEF KeyInv, ClaimBacked, Claiming
<1>4. ASSUME NEW d \in Days, <<u, d>> \in claimed', <<u, d>> \notin log'
      PROVE  Claiming(u, d)'
  <2>1. CASE Start(u)
      BY <1>4, <2>1 DEF KeyInv, ClaimBacked, Claiming, Start, redis, database
  <2>2. CASE ClaimDay(u)
    <3>1. CASE <<u, d>> \in claimed
        BY <1>4, <2>2, <3>1 DEF KeyInv, ClaimBacked, Claiming, ClaimDay, database
    <3>2. CASE <<u, d>> \notin claimed
      <4>1. today[u] = d
          BY <1>4, <2>2, <3>2 DEF ClaimDay, Claim
      <4> QED
          BY <2>2, <3>2, <4>1 DEF KeyInv, Claiming, ClaimDay, Goto, Claim
    <3> QED
        BY <3>1, <3>2
  <2>3. CASE CheckEnded(u)
      BY <1>4, <2>3 DEF KeyInv, ClaimBacked, Claiming, CheckEnded, redis, database
  <2>4. CASE ReadPool(u) \/ SumPaid(u) \/ StorePool(u) \/ CloseEvent(u) \/ TakeReward(u)
             \/ RestorePool(u) \/ Credit(u) \/ CreditRaises(u)
    <3>1. <<u, d>> \in claimed /\ <<u, d>> \notin log /\ today' = today
        BY <1>4, <2>4 DEF ReadPool, SumPaid, StorePool, CloseEvent, TakeReward, RestorePool,
              Credit, CreditRaises, redis, database
    <3>2. pc'[u] \notin {"idle", "checking", "claiming"}
        BY <2>4 DEF KeyInv, Goto, ReadPool, SumPaid, StorePool, CloseEvent, TakeReward,
              RestorePool, Credit, CreditRaises
    <3> QED
        BY <3>1, <3>2 DEF KeyInv, ClaimBacked, Claiming
  <2>5. CASE ReleaseClaim(u)
    <3>1. <<u, d>> \in claimed /\ <<u, d>> \notin log /\ today[u] # d
        BY <1>4, <2>5 DEF ReleaseClaim, Released, Claim, database
    <3> QED
        BY <3>1 DEF KeyInv, ClaimBacked, Claiming
  <2>6. CASE Commit(u)
    <3>1. <<u, d>> \in claimed /\ <<u, d>> \notin log /\ today[u] # d
        BY <1>4, <2>6 DEF Commit, Claim, redis
    <3> QED
        BY <3>1 DEF KeyInv, ClaimBacked, Claiming
  <2> QED
      BY <2>1, <2>2, <2>3, <2>4, <2>5, <2>6 DEF Continue
<1>5. ClaimBacked'
    BY <1>3, <1>4 DEF ClaimBacked
<1> QED
    BY <1>1, <1>5 DEF KeyInv

LEMMA NextKey ==
    ASSUME Faults \subseteq {"credit", "loss"}, KeyInv, [Next]_vars
    PROVE  KeyInv'
<1>1. CASE \E u \in Users : Start(u) \/ Continue(u)
    BY <1>1, CallKey
<1>2. CASE Midnight
    BY <1>2, ConstantsAssumption
       DEF Midnight, KeyInv, ClaimBacked, Claiming, redis, database, Days
<1>3. CASE LoseRedis \/ UNCHANGED vars
    BY <1>3 DEF LoseRedis, vars, redis, database, environment, KeyInv, ClaimBacked, Claiming
<1> QED
    BY <1>1, <1>2, <1>3 DEF Next, CommitFails, RedisFails, Disconnect

\* A day's key never refuses a user who was not paid and is not about to be,
\* whatever Redis forgets: a failed credit rolls the key back (check_in).
THEOREM KeysAreBacked ==
    ASSUME Faults \subseteq {"credit", "loss"}
    PROVE  Spec => []ClaimBacked
<1>1. Init => KeyInv
    BY ConstantsAssumption DEF Init, KeyInv, ClaimBacked, Pcs, Days
<1>2. KeyInv /\ [Next]_vars => KeyInv'
    BY NextKey
<1>3. KeyInv => ClaimBacked
    BY DEF KeyInv
<1> QED
    BY <1>1, <1>2, <1>3, PTL DEF Spec

----------------------------------------------------------------------------
(* Types.                                                                   *)
LEMMA CallTypes ==
    ASSUME TypeOK, NEW u \in Users,
           Start(u) \/ Continue(u) \/ CommitFails(u) \/ RedisFails(u) \/ Disconnect(u)
    PROVE  TypeOK'
<1>1. pc' \in [Users -> Pcs] /\ today' \in [Users -> Days]
    BY DEF TypeOK, Continue, Goto, Start, CheckEnded, ClaimDay, ReadPool, SumPaid,
           StorePool, CloseEvent, TakeReward, RestorePool, ReleaseClaim, Credit,
           CreditRaises, Commit, Pcs, CommitFails, RedisFails, Disconnect
<1>2. UNCHANGED <<day, losses>>
    BY DEF Continue, Start, CheckEnded, ClaimDay, ReadPool, SumPaid,
           StorePool, CloseEvent, TakeReward, RestorePool, ReleaseClaim, Credit,
           CreditRaises, Commit, CommitFails, RedisFails, Disconnect, environment
<1>3. paid' \in Nat /\ seen' \in [Users -> Nat]
    BY ConstantsAssumption
       DEF TypeOK, Continue, Start, CheckEnded, ClaimDay, ReadPool, SumPaid,
           StorePool, CloseEvent, TakeReward, RestorePool, ReleaseClaim, Credit,
           CreditRaises, Commit, CommitFails, RedisFails, Disconnect, database
<1>4. Claim(u) \in Users \X Days
    BY DEF TypeOK, Claim
<1>5. claimed' \subseteq Users \X Days /\ log' \subseteq Users \X Days /\ ended' \in BOOLEAN
    BY <1>4 DEF TypeOK, Continue, Start, CheckEnded, ClaimDay, ReadPool, SumPaid,
           StorePool, CloseEvent, TakeReward, RestorePool, ReleaseClaim, Credit,
           CreditRaises, Commit, CommitFails, RedisFails, Disconnect, database, redis,
           Released
<1>6. pool' \in Int \cup {NoPool}
    BY ConstantsAssumption
       DEF TypeOK, Continue, Start, CheckEnded, ClaimDay, ReadPool, SumPaid,
           StorePool, CloseEvent, TakeReward, RestorePool, ReleaseClaim, Credit,
           CreditRaises, Commit, CommitFails, RedisFails, Disconnect, redis,
           IncrBy, GiveBack, Remaining
<1> QED
    BY <1>1, <1>2, <1>3, <1>5, <1>6 DEF TypeOK

\* The types of the counters, the keys and the calls, under every fault.
THEOREM AttendanceTypes == Spec => []TypeOK
<1>1. Init => TypeOK
  <2> SUFFICES ASSUME Init PROVE TypeOK
      OBVIOUS
  <2>1. pool \in Int \cup {NoPool} /\ paid \in Nat /\ seen \in [Users -> Nat]
      BY ConstantsAssumption DEF Init
  <2>2. 1 \in Days /\ day \in Days /\ losses \in 0..MaxLosses
      BY ConstantsAssumption DEF Init, Days
  <2>3. pc \in [Users -> Pcs] /\ today \in [Users -> Days]
      BY <2>2 DEF Init, Pcs
  <2> QED
      BY <2>1, <2>2, <2>3 DEF Init, TypeOK
<1>2. TypeOK /\ [Next]_vars => TypeOK'
  <2> SUFFICES ASSUME TypeOK, [Next]_vars PROVE TypeOK'
      OBVIOUS
  <2>1. CASE \E u \in Users : Start(u) \/ Continue(u) \/ CommitFails(u)
                              \/ RedisFails(u) \/ Disconnect(u)
      BY <2>1, CallTypes
  <2>2. CASE Midnight
    <3>1. day' \in Days
        BY <2>2, ConstantsAssumption DEF Midnight, TypeOK, Days
    <3> QED
        BY <2>2, <3>1 DEF Midnight, redis, database, TypeOK
  <2>3. CASE LoseRedis
    <3>1. losses' \in 0..MaxLosses
        BY <2>3, ConstantsAssumption DEF LoseRedis, TypeOK
    <3> QED
        BY <2>3, <3>1 DEF LoseRedis, database, TypeOK
  <2>4. CASE UNCHANGED vars
      BY <2>4 DEF vars, TypeOK
  <2> QED
      BY <2>1, <2>2, <2>3, <2>4 DEF Next
<1> QED
    BY <1>1, <1>2, PTL DEF Spec
=============================================================================
