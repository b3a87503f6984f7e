---------------------------- MODULE TokenAccount ----------------------------
(***************************************************************************)
(* The rows of user_tokens and users.referred_by_user_id of several users: *)
(* the sign-up bonus of a first login, GET /tokens/balance, which grants   *)
(* what is due and reports once what was granted elsewhere, and a referral *)
(* code, which credits two accounts in one transaction.                    *)
(*                                                                         *)
(* PostgreSQL, READ COMMITTED: SELECT ... FOR UPDATE locks the row it      *)
(* finds and nothing when there is none; an INSERT waits for a transaction *)
(* that has inserted the same key; a cycle of waits is broken by aborting  *)
(* one of its transactions.                                                *)
(***************************************************************************)
EXTENDS Naturals, FiniteSets

CONSTANTS
    Users,
    Calls,
    Kind,      \* signup, balance, apply
    User,      \* User[c]: who sends c
    Inviter,   \* Inviter[c]: the owner of the code in c, NoOne for no such code
    NoOne,
    Missing,   \* no row
    SIGNUP_BONUS_TOKENS, REFERRAL_TOKENS, ATTENDANCE_TOKENS, MONTHLY_TOKENS,
    MayFail    \* statements and commits may fail

\* The columns of a row of user_tokens; news are rewards not reported yet.
AccountRow == [balance : Nat, granted : BOOLEAN, bonus : BOOLEAN,
               bonusNews : Nat, referralNews : Nat, referralCount : Nat]

ASSUME TokenAccountAssumption ==
    /\ Kind \in [Calls -> {"signup", "balance", "apply"}]
    /\ User \in [Calls -> Users]
    /\ Inviter \in [Calls -> Users \cup {NoOne}]
    /\ NoOne \notin Users \cup Calls
    /\ SIGNUP_BONUS_TOKENS \in Nat \ {0} /\ REFERRAL_TOKENS \in Nat \ {0}
    /\ ATTENDANCE_TOKENS \in Nat \ {0} /\ MONTHLY_TOKENS \in Nat \ {0}
    /\ MayFail \in BOOLEAN
    /\ Missing \notin AccountRow

VARIABLES
    rows,      \* committed rows of user_tokens
    referred,  \* committed users.referred_by_user_id
    ledger,    \* committed token_transactions: <<call, user, type, amount>>
    reported,  \* rewards that committed balance calls have taken to report
    holder,    \* the transaction that locks or has inserted a user's row
    claimer,   \* the transaction that has updated a users row
    pc,
    side,      \* the row a call turns to: its user's or the inviter's
    draft,     \* rows a transaction has changed and not committed
    added,     \* its transactions, not committed
    taken      \* the rewards it is about to report

vars == <<rows, referred, ledger, reported, holder, claimer, pc, side, draft,
          added, taken>>

NewAccount == [balance |-> 0, granted |-> FALSE, bonus |-> FALSE,
               bonusNews |-> 0, referralNews |-> 0, referralCount |-> 0]
NoNews == [bonus |-> 0, referral |-> 0]
Ended == {"answered", "refused"}

Init ==
    /\ rows = [u \in Users |-> Missing]
    /\ referred = [u \in Users |-> NoOne]
    /\ ledger = {}
    /\ reported = [u \in Users |-> NoNews]
    /\ holder = [u \in Users |-> NoOne]
    /\ claimer = [u \in Users |-> NoOne]
    /\ pc = [c \in Calls |-> "start"]
    /\ side = [c \in Calls |-> "own"]
    /\ draft = [c \in Calls |-> [u \in Users |-> Missing]]
    /\ added = [c \in Calls |-> {}]
    /\ taken = [c \in Calls |-> NoNews]

Goto(c, l) == pc' = [pc EXCEPT ![c] = l]
Entry(c, u, type, amount) == <<c, u, type, amount>>
RowOf(c) == IF side[c] = "inviter" THEN Inviter[c] ELSE User[c]

----------------------------------------------------------------------------
(* What a call does to the row it has locked: the row afterwards, and its  *)
(* entries of the ledger.                                                  *)

Effect(r, e) == [row |-> r, entries |-> e, taken |-> NoNews]

\* grant_signup_bonus (mutated form: the flag is not looked at)
GrantAlways(c, u, x) ==
    Effect([x.row EXCEPT !.balance = @ + SIGNUP_BONUS_TOKENS, !.bonus = TRUE,
                         !.bonusNews = SIGNUP_BONUS_TOKENS],
           x.entries \cup {Entry(c, u, "signup_bonus", SIGNUP_BONUS_TOKENS)})
GrantSignupBonus(c, u, x) ==
    IF x.row.bonus THEN x ELSE GrantAlways(c, u, x)

\* ensure_monthly_tokens of a free account within one period
EnsureMonthly(c, u, x) ==
    IF x.row.granted THEN x
    ELSE Effect([x.row EXCEPT !.balance = @ + MONTHLY_TOKENS, !.granted = TRUE],
                x.entries \cup {Entry(c, u, "monthly_grant", MONTHLY_TOKENS)})

\* the credit of check_in, when the event gives a reward
Attend(c, u, x) ==
    Effect([x.row EXCEPT !.balance = @ + ATTENDANCE_TOKENS],
           x.entries \cup {Entry(c, u, "attendance", ATTENDANCE_TOKENS)})

\* claim_signup_bonus_notification and claim_referral_notification
Claim(x) ==
    [row |-> [x.row EXCEPT !.bonusNews = 0, !.referralNews = 0,
                           !.referralCount = 0],
     entries |-> x.entries,
     taken |-> [bonus |-> x.row.bonusNews, referral |-> x.row.referralNews]]

\* credit_referral_inviter, and the credit of the invitee
Credit(c, u, x) ==
    Effect([x.row EXCEPT !.balance = @ + REFERRAL_TOKENS],
           x.entries \cup {Entry(c, u, "referral_invitee", REFERRAL_TOKENS)})
CreditInviter(c, u, x) ==
    Effect([x.row EXCEPT !.balance = @ + REFERRAL_TOKENS,
                         !.referralNews = @ + REFERRAL_TOKENS,
                         !.referralCount = @ + 1],
           x.entries \cup {Entry(c, u, "referral_inviter", REFERRAL_TOKENS)})

Outcomes(c, u, x) ==
    CASE Kind[c] = "signup" -> {GrantSignupBonus(c, u, x)}
      [] Kind[c] = "balance" ->
            LET m == EnsureMonthly(c, u, x)
            IN  {Claim(GrantSignupBonus(c, u, y)) : y \in {m, Attend(c, u, m)}}
      [] side[c] = "inviter" -> {CreditInviter(c, u, x)}
      [] OTHER -> {Credit(c, u, x)}

\* The statements up to the next wait: after the inviter comes the invitee.
Perform(c, r, entries) ==
    LET u == RowOf(c) IN
    \E x \in Outcomes(c, u, Effect(r, entries)) :
        /\ draft' = [draft EXCEPT ![c][u] = x.row]
        /\ added' = [added EXCEPT ![c] = @ \cup x.entries]
        /\ taken' = [taken EXCEPT ![c] = x.taken]
        /\ holder' = [holder EXCEPT ![u] = c]
        /\ IF side[c] = "inviter"
           THEN Goto(c, "lock") /\ side' = [side EXCEPT ![c] = "own"]
           ELSE Goto(c, "commit") /\ UNCHANGED side

----------------------------------------------------------------------------
(* Transactions *)

\* get_current_user has loaded the user; apply_referral_code looks at its
\* referred_by_user_id in memory and up the code.
Start(c) ==
    /\ pc[c] = "start"
    /\ IF Kind[c] # "apply" THEN Goto(c, "lock")
       ELSE IF \/ referred[User[c]] # NoOne
               \/ Inviter[c] \in {NoOne, User[c]}
            THEN Goto(c, "refused")
            ELSE Goto(c, "claim")
    /\ UNCHANGED <<rows, referred, ledger, reported, holder, claimer, side,
                   draft, added, taken>>

\* UPDATE users ... WHERE referred_by_user_id IS NULL: it waits for another
\* transaction's UPDATE of the row and then looks at the row again (mutated
\* form: the check in memory is all).
Trusting(c) == TRUE
Unclaimed(c) == referred[User[c]] = NoOne
ClaimReferral(c) ==
    /\ pc[c] = "claim"
    /\ claimer[User[c]] = NoOne
    /\ IF Unclaimed(c)
       THEN /\ claimer' = [claimer EXCEPT ![User[c]] = c]
            /\ side' = [side EXCEPT ![c] = "inviter"]
            /\ Goto(c, "lock")
       ELSE Goto(c, "refused") /\ UNCHANGED <<claimer, side>>
    /\ UNCHANGED <<rows, referred, ledger, reported, holder, draft, added,
                   taken>>

\* get_or_create_balance(with_lock=True): no row, no lock (mutated form: the
\* row is read without waiting for its lock).
Unguarded(c, u) == TRUE
Free(c, u) == holder[u] = NoOne
Lock(c) ==
    LET u == RowOf(c) IN
    /\ pc[c] = "lock"
    /\ IF rows[u] = Missing
       THEN Goto(c, "insert") /\ UNCHANGED <<holder, side, draft, added,
                                                      taken>>
       ELSE Free(c, u) /\ Perform(c, rows[u], {})
    /\ UNCHANGED <<rows, referred, ledger, reported, claimer>>

\* What the end of a transaction releases (mutated form: a rollback keeps the
\* claim on the users row).
KeepClaims(c) == claimer
ReleaseClaims(c) ==
    [u \in Users |-> IF claimer[u] = c THEN NoOne ELSE claimer[u]]
ReleaseRows(c) == [u \in Users |-> IF holder[u] = c THEN NoOne ELSE holder[u]]

Rollback(c) ==
    /\ Goto(c, "refused")
    /\ holder' = ReleaseRows(c) /\ claimer' = ReleaseClaims(c)
    /\ draft' = [draft EXCEPT ![c] = [u \in Users |-> Missing]]
    /\ added' = [added EXCEPT ![c] = {}]
    /\ UNCHANGED <<rows, referred, ledger, reported, side, taken>>

\* INSERT: it waits for another transaction's INSERT of the key, and fails
\* with an IntegrityError when that one has committed.
Insert(c) ==
    LET u == RowOf(c) IN
    /\ pc[c] = "insert"
    /\ holder[u] = NoOne
    /\ IF rows[u] # Missing
       THEN Rollback(c)
       ELSE /\ Perform(c, NewAccount, {Entry(c, u, "balance_init", 0)})
            /\ UNCHANGED <<rows, referred, ledger, reported, claimer>>

Commit(c) ==
    LET u == User[c] IN
    /\ pc[c] = "commit"
    /\ rows' = [v \in Users |->
                   IF draft[c][v] = Missing THEN rows[v] ELSE draft[c][v]]
    /\ referred' = IF Kind[c] = "apply"
                   THEN [referred EXCEPT ![u] = Inviter[c]] ELSE referred
    /\ ledger' = ledger \cup added[c]
    /\ reported' = [reported EXCEPT ![u].bonus = @ + taken[c].bonus,
                                    ![u].referral = @ + taken[c].referral]
    /\ holder' = ReleaseRows(c) /\ claimer' = ReleaseClaims(c)
    /\ Goto(c, "answered")
    /\ UNCHANGED <<side, draft, added, taken>>

\* A failing statement or commit, or a lost process.  The transactions of
\* check_in's failing credit end here too: the session refuses the grants that
\* follow it.
Fail(c) ==
    /\ MayFail /\ pc[c] \notin Ended \cup {"start"}
    /\ Rollback(c)

\* The transaction c waits for, NoOne when it does not wait.
WaitsFor(c) ==
    CASE pc[c] = "claim" -> claimer[User[c]]
      [] pc[c] = "insert" -> holder[RowOf(c)]
      [] pc[c] = "lock" /\ rows[RowOf(c)] # Missing -> holder[RowOf(c)]
      [] OTHER -> NoOne
Waiting == {d \in Calls : WaitsFor(d) # NoOne}
Deadlocked(c) ==
    /\ c \in Waiting
    /\ \E S \in SUBSET Waiting : c \in S /\ S = {WaitsFor(d) : d \in S}
AbortDeadlock(c) ==
    /\ Deadlocked(c)
    /\ Rollback(c)

Progress(c) ==
    \/ Start(c) \/ ClaimReferral(c) \/ Lock(c) \/ Insert(c) \/ Commit(c)
    \/ AbortDeadlock(c)
Next == \E c \in Calls : Progress(c) \/ Fail(c)
Spec == Init /\ [][Next]_vars
\* asyncio runs every request, PostgreSQL hands out every lock that is released
\* and breaks every deadlock; clients need not send their requests.
Fairness == \A c \in Calls : WF_vars(pc[c] # "start" /\ Progress(c))

----------------------------------------------------------------------------
(* Properties *)

EntriesOf(u, type) == {e \in ledger : e[2] = u /\ e[3] = type}
Invitees(u) == {v \in Users : referred[v] = u}

\* However the requests of a double tap interleave, a user is rewarded for one
\* code, and both sides of it or none (users/referral.py:52, 75-85); the sign-up
\* bonus is granted once, by the login or by a later balance call
\* (tokens/service.py:225-226, tokens/router.py:40-42).
RewardedOnce ==
    \A u \in Users :
        /\ Cardinality(EntriesOf(u, "referral_invitee")) =
              IF referred[u] = NoOne THEN 0 ELSE 1
        /\ Cardinality(EntriesOf(u, "referral_inviter")) =
              Cardinality(Invitees(u))
        /\ Cardinality(EntriesOf(u, "signup_bonus")) =
              IF rows[u] # Missing /\ rows[u].bonus THEN 1 ELSE 0

\* A reward granted elsewhere is reported once or still waits to be: claims
\* and credits of other users' transactions lose none
\* (tokens/service.py:117-119, 255).
NewsKept ==
    \A u \in Users :
        LET news(f) == IF rows[u] = Missing THEN 0 ELSE rows[u][f] IN
        /\ Cardinality(EntriesOf(u, "referral_inviter")) * REFERRAL_TOKENS =
              reported[u].referral + news("referralNews")
        /\ news("referralCount") * REFERRAL_TOKENS = news("referralNews")
        /\ Cardinality(EntriesOf(u, "signup_bonus")) * SIGNUP_BONUS_TOKENS =
              reported[u].bonus + news("bonusNews")

\* Every call that has begun ends, also when users enter each other's codes at
\* the same time (users/referral.py:85-90).
CallsEnd == \A c \in Calls : pc[c] # "start" ~> pc[c] \in Ended
=============================================================================
