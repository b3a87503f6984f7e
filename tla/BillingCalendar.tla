-------------------------- MODULE BillingCalendar --------------------------
(***************************************************************************)
(* Billing periods of one user: the monthly grant of tokens, whose period  *)
(* starts every month on the day the subscription started, or on the last  *)
(* day of a shorter month, and subscriptions that last 31 days.            *)
(*                                                                         *)
(* A date is a month, counted from January of year 0, and a day; the time  *)
(* of day matters only where the code compares with midnight.              *)
(***************************************************************************)
EXTENDS Integers, FiniteSets

CONSTANTS
    FirstDate, LastDate,  \* bounds of the clock
    PayDays,              \* days of the month on which the user may pay
    Never                 \* no grant yet

VARIABLES
    today,
    sub,        \* [active, plan, started, expires]
    lastGrant,  \* last_monthly_grant_at
    lastStart,  \* the start of the period of that grant
    paidGrants  \* grants since the last payment that were the plan's

cvars == <<today, sub, lastGrant, lastStart, paidGrants>>

----------------------------------------------------------------------------
(* calendar.monthrange, and dates *)

Leap(y) == y % 4 = 0 /\ (y % 100 # 0 \/ y % 400 = 0)
MonthLength(m) ==
    LET k == m % 12 IN
    IF k = 1 THEN IF Leap(m \div 12) THEN 29 ELSE 28
    ELSE IF k \in {3, 5, 8, 10} THEN 30 ELSE 31

Date(m, d) == [month |-> m, day |-> d]
Dates == [month : Int, day : 1 .. 31]
InItsMonth(a) == a.day <= MonthLength(a.month)

ASSUME BillingCalendarAssumption ==
    /\ FirstDate \in Dates /\ InItsMonth(FirstDate)
    /\ LastDate \in Dates
    /\ Never \notin Dates

Before(a, b) == a.month < b.month \/ (a.month = b.month /\ a.day < b.day)
NotAfter(a, b) == a = b \/ Before(a, b)
NextDate(a) == IF a.day < MonthLength(a.month) THEN Date(a.month, a.day + 1)
               ELSE Date(a.month + 1, 1)
Smaller(a, b) == IF a < b THEN a ELSE b
\* n days after a, for n no longer than a month and the month after
Later(a, n) ==
    LET d == a.day + n
        l == MonthLength(a.month)
        k == MonthLength(a.month + 1)
    IN  IF d <= l THEN Date(a.month, d)
        ELSE IF d - l <= k THEN Date(a.month + 1, d - l)
        ELSE Date(a.month + 2, d - l - k)

\* _current_billing_period_start and _billing_period_key of a subscription
\* that started on a day of the month (mutated form: the day is not clamped in
\* the month before).
Unclamped(day, m) == day
Anchor(day, m) == Smaller(day, MonthLength(m))
StartOf(day, t) ==
    IF Anchor(day, t.month) <= t.day
    THEN Date(t.month, Anchor(day, t.month))
    ELSE Date(t.month - 1, Anchor(day, t.month - 1))
PeriodStart(s, t) == IF s.active THEN StartOf(s.started.day, t)
                     ELSE Date(t.month, 1)

----------------------------------------------------------------------------
NoSub == [active |-> FALSE, plan |-> "free", started |-> FirstDate,
          expires |-> FirstDate]

CalendarInit ==
    /\ today = FirstDate /\ sub = NoSub
    /\ lastGrant = Never /\ lastStart = Never /\ paidGrants = 0

Midnight ==
    /\ Before(today, LastDate)
    /\ today' = NextDate(today)
    /\ UNCHANGED <<sub, lastGrant, lastStart, paidGrants>>

\* A payment's webhook: _activate_subscription.
Pay(plan) ==
    /\ today.day \in PayDays
    /\ sub' = [active |-> TRUE, plan |-> plan, started |-> today,
               expires |-> Later(today, 31)]
    /\ paidGrants' = 0
    /\ UNCHANGED <<today, lastGrant, lastStart>>

\* get_active_subscription finds the subscription expired, at some time of its
\* last day or later; a cancelled payment ends it at once.
End ==
    /\ sub.active
    /\ sub' = [sub EXCEPT !.active = FALSE]
    /\ UNCHANGED <<today, lastGrant, lastStart, paidGrants>>
Current == sub.active => NotAfter(today, sub.expires)

\* ensure_monthly_tokens (mutated form: > in place of >=).
GrantedAfter(start) == lastGrant # Never /\ Before(start, lastGrant)
Granted(start) == lastGrant # Never /\ NotAfter(start, lastGrant)
Visit ==
    LET start == PeriodStart(sub, today) IN
    /\ Current /\ ~Granted(start)
    /\ lastGrant' = today /\ lastStart' = start
    /\ paidGrants' = paidGrants + (IF sub.active THEN 1 ELSE 0)
    /\ UNCHANGED <<today, sub>>

CalendarNext == Midnight \/ Pay("lite") \/ End \/ Visit
CalendarSpec == CalendarInit /\ [][CalendarNext]_cvars

----------------------------------------------------------------------------
(* Properties *)

\* Every day of the month anchors periods that follow each other without a gap:
\* the start is the latest anniversary, clamped to its month, that is not in
\* the future (tokens/service.py:156-176, subscription/usage.py:34-61).
PeriodIsLatestAnniversary ==
    \A day \in 1 .. 31 :
        LET s == StartOf(day, today)
            anniversary(m) == Date(m, Smaller(day, MonthLength(m)))
        IN  /\ s.day \in 1 .. MonthLength(s.month)
            /\ \E m \in {today.month - 1, today.month} : s = anniversary(m)
            /\ NotAfter(s, today) /\ Before(today, anniversary(s.month + 1))

\* Two grants never belong to one period: the next one belongs to a later
\* period, whatever was paid, cancelled or expired in between.
GrantsAdvance ==
    [][lastGrant' # lastGrant /\ lastGrant # Never =>
          Before(lastStart, lastStart')]_cvars

\* 31 days may hold two starts of a period and never three: a payment brings
\* its plan's tokens at most twice (payment/service.py:651).
TwoGrantsPerPayment == paidGrants <= 2
=============================================================================
