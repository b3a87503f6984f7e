--------------------------- MODULE AccountsProofs ---------------------------
(***************************************************************************)
(* Proofs about TokenAccount and BillingCalendar.                          *)
(*                                                                         *)
(* A reward is an entry of the ledger, a change of a row and sometimes of  *)
(* users.referred_by_user_id, which one commit makes visible together.     *)
(* The invariant says what a transaction in flight has prepared: which     *)
(* rows it has changed (PathInv), that it holds each of them (HoldInv),    *)
(* and that its entries and its news are those of the change (WorkInv).    *)
(* A row that is held is changed by nobody else, so that what was read is  *)
(* what the commit replaces.                                               *)
(***************************************************************************)
EXTENDS TokenAccount, BillingCalendar, FiniteSetTheorems, TLAPS

EntryTypes == {"balance_init", "signup_bonus", "monthly_grant", "attendance",
               "referral_invitee", "referral_inviter"}
Rewards == {"signup_bonus", "referral_invitee", "referral_inviter"}
Entries == Calls \X Users \X EntryTypes \X Nat
News == [bonus : Nat, referral : Nat]
Active == {"lock", "insert", "commit"}

TypeInv ==
    /\ rows \in [Users -> AccountRow \cup {Missing}]
    /\ referred \in [Users -> Users \cup {NoOne}]
    /\ ledger \subseteq Entries
    /\ reported \in [Users -> News]
    /\ holder \in [Users -> Calls \cup {NoOne}]
    /\ claimer \in [Users -> Calls \cup {NoOne}]
    /\ pc \in [Calls -> {"start", "claim"} \cup Active \cup Ended]
    /\ side \in [Calls -> {"own", "inviter"}]
    /\ draft \in [Calls -> [Users -> AccountRow \cup {Missing}]]
    /\ added \in [Calls -> SUBSET Entries]
    /\ taken \in [Calls -> News]

Changed(c) == {u \in Users : draft[c][u] # Missing}

\* The rows that call c has changed, by where it is.
Behind(c) ==
    (IF pc[c] = "commit" THEN {User[c]} ELSE {})
    \cup (IF Kind[c] = "apply" /\ side[c] = "own" /\ pc[c] \in Active
          THEN {Inviter[c]} ELSE {})

PathInv ==
    \A c \in Calls :
        /\ pc[c] # "answered" => Changed(c) = Behind(c)
        /\ side[c] = "inviter" /\ pc[c] # "refused" =>
              Kind[c] = "apply" /\ pc[c] \in {"lock", "insert"}
        /\ pc[c] = "claim" => Kind[c] = "apply"
        /\ Kind[c] = "apply" /\ pc[c] \in {"claim"} \cup Active =>
              Inviter[c] \in Users \ {User[c]}
        /\ Kind[c] = "apply" /\ pc[c] \in Active =>
              claimer[User[c]] = c /\ referred[User[c]] = NoOne

\* A changed row is held, and what is held is a changed row.
HoldInv ==
    \A c \in Calls, u \in Users :
        holder[u] = c <=> (pc[c] # "answered" /\ u \in Changed(c))

\* The row that a transaction found.
Base(u) == IF rows[u] = Missing THEN NewAccount ELSE rows[u]

Sound(r) ==
    /\ r \in AccountRow
    /\ ~r.bonus => r.bonusNews = 0
    /\ r.referralCount * REFERRAL_TOKENS = r.referralNews

Bonus(c, u) == Entry(c, u, "signup_bonus", SIGNUP_BONUS_TOKENS)
Invited(c, u) == Entry(c, u, "referral_invitee", REFERRAL_TOKENS)
Inviting(c, u) == Entry(c, u, "referral_inviter", REFERRAL_TOKENS)
Part(e, u, type) == {x \in e : x[2] = u /\ x[3] = type}
Once(condition, x) == IF condition THEN {x} ELSE {}
Amount(condition, n) == IF condition THEN n ELSE 0

\* A row r that call c makes of row b of user u, with entries e and news n.
Effected(c, u, b, r, e, n) ==
    /\ Sound(r)
    /\ r.bonus = (b.bonus \/ Kind[c] # "apply")
    /\ Part(e, u, "signup_bonus") = Once(r.bonus /\ ~b.bonus, Bonus(c, u))
    /\ Part(e, u, "referral_invitee") =
          Once(Kind[c] = "apply" /\ u = User[c], Invited(c, u))
    /\ Part(e, u, "referral_inviter") =
          Once(Kind[c] = "apply" /\ u = Inviter[c], Inviting(c, u))
    /\ b.bonusNews + Amount(r.bonus /\ ~b.bonus, SIGNUP_BONUS_TOKENS) =
          r.bonusNews + Amount(u = User[c], n.bonus)
    /\ b.referralNews + Amount(Kind[c] = "apply" /\ u = Inviter[c], REFERRAL_TOKENS) =
          r.referralNews + Amount(u = User[c], n.referral)

WorkInv ==
    \A c \in Calls : pc[c] # "answered" =>
        /\ \A e \in added[c] : e[1] = c /\ e[2] \in Changed(c)
        /\ \A u \in Changed(c) :
              Effected(c, u, Base(u), draft[c][u], added[c], taken[c])

RowsInv == \A u \in Users : rows[u] # Missing => Sound(rows[u])

LedgerInv ==
    /\ \A e \in ledger : pc[e[1]] = "answered"
    /\ \A u \in Users : /\ IsFiniteSet(Invitees(u))
                        /\ \A t \in Rewards : IsFiniteSet(EntriesOf(u, t))

TokensInv ==
    /\ TypeInv /\ PathInv /\ HoldInv /\ WorkInv /\ RowsInv /\ LedgerInv
    /\ RewardedOnce /\ NewsKept

----------------------------------------------------------------------------
(* What a call does to one row. *)

\* Entries of call c for u that are no reward of the properties.
Plain(c, u) == {Entry(c, u, t, a) : t \in {"balance_init", "monthly_grant", "attendance"},
                                    a \in Nat}

\* Entries that a call makes for u.
Own(c, u, e) == e \subseteq Entries /\ \A x \in e : x[1] = c /\ x[2] = u

LEMMA PlainParts ==
    ASSUME NEW c \in Calls, NEW u \in Users, NEW e \in SUBSET Plain(c, u)
    PROVE  /\ Part(e, u, "signup_bonus") = {}
           /\ Part(e, u, "referral_invitee") = {}
           /\ Part(e, u, "referral_inviter") = {}
           /\ Own(c, u, e)
<1> QED
    BY DEF Plain, Part, Entry, Entries, EntryTypes, Own

\* Entries f are e and x.
Adds(f, e, x) == f = e \cup {x}

\* A reward added to such entries is the only one of its type.
LEMMA AddedPart ==
    ASSUME NEW c \in Calls, NEW u \in Users, NEW e \in SUBSET Plain(c, u),
           NEW t \in Rewards, NEW n \in Nat, NEW f, Adds(f, e, Entry(c, u, t, n))
    PROVE  /\ Part(f, u, t) = {Entry(c, u, t, n)}
           /\ \A s \in Rewards \ {t} : Part(f, u, s) = {}
           /\ Own(c, u, f)
<1> DEFINE x == Entry(c, u, t, n)
<1>1. \A s \in Rewards : Part(e, u, s) = {}
    BY PlainParts DEF Rewards
<1>2. x[1] = c /\ x[2] = u /\ x[3] = t /\ x \in Entries
    BY DEF Entry, Entries, EntryTypes, Rewards
<1> HIDE DEF x
<1>3. f = e \cup {x}
    BY DEF x, Adds
<1>4. \A s : Part(f, u, s) = Part(e, u, s) \cup Once(s = t, x)
    BY <1>2, <1>3 DEF Part, Once
<1>5. /\ Part(f, u, t) = {x}
      /\ \A s \in Rewards \ {t} : Part(f, u, s) = {}
    BY <1>1, <1>4 DEF Once
<1>6. Own(c, u, f)
    BY <1>2, <1>3, PlainParts DEF Own
<1> QED
    BY <1>5, <1>6 DEF x

LEMMA BonusParts ==
    ASSUME NEW c \in Calls, NEW u \in Users, NEW e \in SUBSET Plain(c, u),
           NEW f, Adds(f, e, Bonus(c, u))
    PROVE  /\ Part(f, u, "signup_bonus") = {Bonus(c, u)}
           /\ Part(f, u, "referral_invitee") = {}
           /\ Part(f, u, "referral_inviter") = {}
           /\ Own(c, u, f)
<1>1. Bonus(c, u) = Entry(c, u, "signup_bonus", SIGNUP_BONUS_TOKENS) /\ SIGNUP_BONUS_TOKENS \in Nat
    BY TokenAccountAssumption DEF Bonus
<1>2. Adds(f, e, Entry(c, u, "signup_bonus", SIGNUP_BONUS_TOKENS))
    BY <1>1
<1>3. "signup_bonus" \in Rewards
    BY DEF Rewards
<1>4. /\ Part(f, u, "signup_bonus") = {Entry(c, u, "signup_bonus", SIGNUP_BONUS_TOKENS)}
      /\ \A s \in Rewards \ {"signup_bonus"} : Part(f, u, s) = {}
      /\ Own(c, u, f)
    BY <1>1, <1>2, <1>3, AddedPart
<1> QED
    BY <1>1, <1>4 DEF Rewards

LEMMA InvitedParts ==
    ASSUME NEW c \in Calls, NEW u \in Users, NEW e \in SUBSET Plain(c, u),
           NEW f, Adds(f, e, Invited(c, u))
    PROVE  /\ Part(f, u, "referral_invitee") = {Invited(c, u)}
           /\ Part(f, u, "signup_bonus") = {}
           /\ Part(f, u, "referral_inviter") = {}
           /\ Own(c, u, f)
<1>1. Invited(c, u) = Entry(c, u, "referral_invitee", REFERRAL_TOKENS) /\ REFERRAL_TOKENS \in Nat
    BY TokenAccountAssumption DEF Invited
<1>2. Adds(f, e, Entry(c, u, "referral_invitee", REFERRAL_TOKENS))
    BY <1>1
<1>3. "referral_invitee" \in Rewards
    BY DEF Rewards
<1>4. /\ Part(f, u, "referral_invitee") = {Entry(c, u, "referral_invitee", REFERRAL_TOKENS)}
      /\ \A s \in Rewards \ {"referral_invitee"} : Part(f, u, s) = {}
      /\ Own(c, u, f)
    BY <1>1, <1>2, <1>3, AddedPart
<1> QED
    BY <1>1, <1>4 DEF Rewards

LEMMA InvitingParts ==
    ASSUME NEW c \in Calls, NEW u \in Users, NEW e \in SUBSET Plain(c, u),
           NEW f, Adds(f, e, Inviting(c, u))
    PROVE  /\ Part(f, u, "referral_inviter") = {Inviting(c, u)}
           /\ Part(f, u, "signup_bonus") = {}
           /\ Part(f, u, "referral_invitee") = {}
           /\ Own(c, u, f)
<1>1. Inviting(c, u) = Entry(c, u, "referral_inviter", REFERRAL_TOKENS) /\ REFERRAL_TOKENS \in Nat
    BY TokenAccountAssumption DEF Inviting
<1>2. Adds(f, e, Entry(c, u, "referral_inviter", REFERRAL_TOKENS))
    BY <1>1
<1>3. "referral_inviter" \in Rewards
    BY DEF Rewards
<1>4. /\ Part(f, u, "referral_inviter") = {Entry(c, u, "referral_inviter", REFERRAL_TOKENS)}
      /\ \A s \in Rewards \ {"referral_inviter"} : Part(f, u, s) = {}
      /\ Own(c, u, f)
    BY <1>1, <1>2, <1>3, AddedPart
<1> QED
    BY <1>1, <1>4 DEF Rewards

\* The updates of a row's columns are rows again.
LEMMA RowUpdates ==
    ASSUME NEW r \in AccountRow, NEW n \in Nat
    PROVE  /\ [r EXCEPT !.balance = @ + n] \in AccountRow
           /\ [r EXCEPT !.granted = TRUE] \in AccountRow
           /\ [r EXCEPT !.bonus = TRUE] \in AccountRow
           /\ [r EXCEPT !.bonusNews = n] \in AccountRow
           /\ [r EXCEPT !.referralNews = n] \in AccountRow
           /\ [r EXCEPT !.referralCount = n] \in AccountRow
<1>1. [r EXCEPT !.balance = @ + n] \in AccountRow
    BY DEF AccountRow
<1>2. [r EXCEPT !.granted = TRUE] \in AccountRow
    BY DEF AccountRow
<1>3. [r EXCEPT !.bonus = TRUE] \in AccountRow
    BY DEF AccountRow
<1>4. [r EXCEPT !.bonusNews = n] \in AccountRow
    BY DEF AccountRow
<1>5. [r EXCEPT !.referralNews = n] \in AccountRow
    BY DEF AccountRow
<1>6. [r EXCEPT !.referralCount = n] \in AccountRow
    BY DEF AccountRow
<1> QED
    BY <1>1, <1>2, <1>3, <1>4, <1>5, <1>6

BonusRow(q, r, n) ==
    q = [r EXCEPT !.balance = @ + n, !.bonus = TRUE, !.bonusNews = n]
InviterRow(q, r, n) ==
    q = [r EXCEPT !.balance = @ + n, !.referralNews = @ + n, !.referralCount = @ + 1]

LEMMA BonusUpdate ==
    ASSUME NEW r \in AccountRow, NEW n \in Nat, NEW q, BonusRow(q, r, n)
    PROVE  /\ q \in AccountRow /\ q.bonus /\ q.bonusNews = n
           /\ q.referralNews = r.referralNews /\ q.referralCount = r.referralCount
<1> DEFINE q1 == [r EXCEPT !.balance = @ + n]
           q2 == [q1 EXCEPT !.bonus = TRUE]
<1>1. q = [q2 EXCEPT !.bonusNews = n]
    BY DEF AccountRow, BonusRow
<1>2. q \in AccountRow
  <2>1. q1 \in AccountRow
      BY RowUpdates
  <2>2. q2 \in AccountRow
      BY <2>1, RowUpdates
  <2> HIDE DEF q2
  <2> QED
      BY <1>1, <2>2, RowUpdates
<1> QED
    BY <1>2 DEF AccountRow, BonusRow

LEMMA InviterUpdate ==
    ASSUME NEW r \in AccountRow, NEW n \in Nat, NEW q, InviterRow(q, r, n)
    PROVE  /\ q \in AccountRow /\ q.bonus = r.bonus /\ q.bonusNews = r.bonusNews
           /\ q.referralNews = r.referralNews + n
           /\ q.referralCount = r.referralCount + 1
<1>1. r.referralNews + n \in Nat /\ r.referralCount + 1 \in Nat
    BY DEF AccountRow
<1> DEFINE q1 == [r EXCEPT !.balance = @ + n]
           q2 == [q1 EXCEPT !.referralNews = r.referralNews + n]
<1>2. q = [q2 EXCEPT !.referralCount = r.referralCount + 1]
    BY DEF AccountRow, InviterRow
<1>3. q \in AccountRow
  <2>1. q1 \in AccountRow
      BY RowUpdates
  <2>2. q2 \in AccountRow
      BY <1>1, <2>1, RowUpdates
  <2> HIDE DEF q2
  <2> QED
      BY <1>1, <1>2, <2>2, RowUpdates
<1> QED
    BY <1>3 DEF AccountRow, InviterRow

LEMMA ClaimUpdate ==
    ASSUME NEW r \in AccountRow,
           NEW q, q = [r EXCEPT !.bonusNews = 0, !.referralNews = 0, !.referralCount = 0]
    PROVE  /\ q \in AccountRow /\ q.bonus = r.bonus /\ q.bonusNews = 0
           /\ q.referralNews = 0 /\ q.referralCount = 0
<1> DEFINE q1 == [r EXCEPT !.bonusNews = 0]
           q2 == [q1 EXCEPT !.referralNews = 0]
<1>1. q = [q2 EXCEPT !.referralCount = 0]
    BY DEF AccountRow
<1>2. q \in AccountRow
  <2>1. q1 \in AccountRow
      BY RowUpdates
  <2>2. q2 \in AccountRow
      BY <2>1, RowUpdates
  <2> HIDE DEF q2
  <2> QED
      BY <1>1, <2>2, RowUpdates
<1> QED
    BY <1>2 DEF AccountRow

\* A row that differs from b in balance and grant only.
Alike(b, r) ==
    /\ r \in AccountRow
    /\ r.bonus = b.bonus /\ r.bonusNews = b.bonusNews
    /\ r.referralNews = b.referralNews /\ r.referralCount = b.referralCount

LEMMA GrantsAlike ==
    ASSUME NEW c \in Calls, NEW u \in Users, NEW b \in AccountRow,
           NEW x, Alike(b, x.row), x.entries \subseteq Plain(c, u)
    PROVE  \A y \in {EnsureMonthly(c, u, x), Attend(c, u, x)} :
               Alike(b, y.row) /\ y.entries \subseteq Plain(c, u)
<1>1. /\ ATTENDANCE_TOKENS \in Nat /\ MONTHLY_TOKENS \in Nat
    BY TokenAccountAssumption
<1>2. \A r \in AccountRow, n \in Nat :
          /\ [r EXCEPT !.balance = @ + n] \in AccountRow
          /\ [r EXCEPT !.balance = @ + n, !.granted = TRUE] \in AccountRow
  <2>1. TAKE r \in AccountRow, n \in Nat
  <2>2. [r EXCEPT !.balance = @ + n, !.granted = TRUE] =
            [[r EXCEPT !.balance = @ + n] EXCEPT !.granted = TRUE]
      BY DEF AccountRow
  <2> QED
      BY <2>2, RowUpdates
<1>3. \A n \in Nat, t \in {"monthly_grant", "attendance"} : Entry(c, u, t, n) \in Plain(c, u)
    BY DEF Plain
<1>4. Alike(b, EnsureMonthly(c, u, x).row)
  <2>1. CASE x.row.granted
    BY <2>1 DEF EnsureMonthly
  <2>2. CASE ~x.row.granted
    BY <1>1, <1>2, <2>2 DEF EnsureMonthly, Effect, Alike, AccountRow
  <2> QED BY <2>1, <2>2
<1>5. Alike(b, Attend(c, u, x).row)
    BY <1>1, <1>2 DEF Attend, Effect, Alike, AccountRow
<1>6. EnsureMonthly(c, u, x).entries \subseteq Plain(c, u)
    BY <1>1, <1>3 DEF EnsureMonthly, Effect
<1>7. Attend(c, u, x).entries \subseteq Plain(c, u)
    BY <1>1, <1>3 DEF Attend, Effect
<1> QED
    BY <1>4, <1>5, <1>6, <1>7

\* A call that adds only such entries to a row that it leaves alike.
LEMMA BonusEffect ==
    ASSUME NEW c \in Calls, NEW u \in Users, u = User[c], Kind[c] # "apply",
           NEW b, Sound(b),
           NEW x, Alike(b, x.row), x.entries \in SUBSET Plain(c, u), x.taken = NoNews,
           NEW y, y = GrantSignupBonus(c, u, x)
    PROVE  /\ Effected(c, u, b, y.row, y.entries, y.taken)
           /\ Own(c, u, y.entries)
           /\ y.taken = NoNews
<1> USE DEF Sound
<1>1. CASE b.bonus
  <2>1. y = x
      BY <1>1 DEF GrantSignupBonus, Alike
  <2>2. Effected(c, u, b, x.row, x.entries, x.taken)
    <3>1. Sound(x.row) /\ x.row.bonus
        BY <1>1 DEF Alike
    <3>2. /\ Part(x.entries, u, "signup_bonus") = {}
          /\ Part(x.entries, u, "referral_invitee") = {}
          /\ Part(x.entries, u, "referral_inviter") = {}
        BY PlainParts
    <3>3. x.taken.bonus = 0 /\ x.taken.referral = 0
        BY DEF NoNews
    <3>4. /\ b.bonusNews + 0 = x.row.bonusNews + 0
          /\ b.referralNews + 0 = x.row.referralNews + 0
        BY DEF Alike
    <3> QED
        BY <1>1, <3>1, <3>2, <3>3, <3>4 DEF Effected, Once, Amount
  <2> QED
      BY <2>1, <2>2, PlainParts
<1>2. CASE ~b.bonus
  <2> DEFINE n == SIGNUP_BONUS_TOKENS
  <2>0. n \in Nat
      BY TokenAccountAssumption
  <2>1. /\ BonusRow(y.row, x.row, n)
        /\ Adds(y.entries, x.entries, Bonus(c, u))
        /\ y.taken = NoNews
      BY <1>2 DEF GrantSignupBonus, GrantAlways, Effect, Alike, Bonus, BonusRow, Adds
  <2>2. /\ y.row \in AccountRow /\ y.row.bonus /\ y.row.bonusNews = n
        /\ y.row.referralNews = b.referralNews /\ y.row.referralCount = b.referralCount
    <3>1. x.row \in AccountRow
        BY DEF Alike
    <3> QED
        BY <2>0, <2>1, <3>1, BonusUpdate DEF Alike
  <2>3. b.bonusNews = 0
      BY <1>2
  <2>4. /\ Part(y.entries, u, "signup_bonus") = {Bonus(c, u)}
        /\ Part(y.entries, u, "referral_invitee") = {}
        /\ Part(y.entries, u, "referral_inviter") = {}
        /\ Own(c, u, y.entries)
      BY <2>1, BonusParts
  <2>5. Effected(c, u, b, y.row, y.entries, y.taken)
    <3>1. Sound(y.row)
        BY <2>2
    <3>2. y.taken.bonus = 0 /\ y.taken.referral = 0
        BY <2>1 DEF NoNews
    <3>3. /\ b.bonusNews + n = y.row.bonusNews + 0
          /\ b.referralNews + 0 = y.row.referralNews + 0
        BY <2>0, <2>2, <2>3
    <3> QED
        BY <1>2, <2>2, <2>4, <3>1, <3>2, <3>3 DEF Effected, Once, Amount
  <2> QED
      BY <2>1, <2>4, <2>5
<1> QED
    BY <1>1, <1>2

\* Claiming the news takes them out of the row.
LEMMA ClaimEffect ==
    ASSUME NEW c \in Calls, NEW u \in Users, u = User[c], Kind[c] # "apply",
           NEW b, Sound(b),
           NEW y, Effected(c, u, b, y.row, y.entries, y.taken), y.taken = NoNews,
           NEW z, z = Claim(y)
    PROVE  /\ Effected(c, u, b, z.row, z.entries, z.taken)
           /\ z.entries = y.entries /\ z.taken \in News
<1> DEFINE r == [y.row EXCEPT !.bonusNews = 0, !.referralNews = 0, !.referralCount = 0]
<1>0. REFERRAL_TOKENS \in Nat
    BY TokenAccountAssumption
<1>1. /\ z.row = r /\ z.entries = y.entries
      /\ z.taken.bonus = y.row.bonusNews /\ z.taken.referral = y.row.referralNews
      /\ z.taken = [bonus |-> y.row.bonusNews, referral |-> y.row.referralNews]
    BY DEF Claim
<1>2. /\ y.row \in AccountRow
      /\ y.row.bonusNews \in Nat /\ y.row.referralNews \in Nat
    BY DEF Effected, Sound, AccountRow
<1>3. /\ r \in AccountRow /\ r.bonus = y.row.bonus /\ r.bonusNews = 0
      /\ r.referralNews = 0 /\ r.referralCount = 0
    BY <1>2, ClaimUpdate
<1>4. Sound(r)
    BY <1>0, <1>3 DEF Sound
<1>5. Effected(c, u, b, y.row, y.entries, NoNews)
    BY DEF Effected
<1> HIDE DEF r
<1>6. Effected(c, u, b, r, y.entries, z.taken)
    BY <1>1, <1>2, <1>3, <1>4, <1>5 DEF Effected, Amount, NoNews
<1> QED
    BY <1>1, <1>2, <1>6 DEF News

\* The credits of a referral.
LEMMA CreditEffects ==
    ASSUME NEW c \in Calls, NEW u \in Users, Kind[c] = "apply",
           Inviter[c] \in Users \ {User[c]},
           NEW b, Sound(b), NEW e \in SUBSET Plain(c, u),
           NEW x, \/ u = Inviter[c] /\ x = CreditInviter(c, u, Effect(b, e))
                  \/ u = User[c] /\ x = Credit(c, u, Effect(b, e))
    PROVE  /\ Effected(c, u, b, x.row, x.entries, x.taken)
           /\ Own(c, u, x.entries)
           /\ x.taken = NoNews
<1> DEFINE n == REFERRAL_TOKENS
<1>0. n \in Nat /\ b \in AccountRow
    BY TokenAccountAssumption DEF Sound
<1>1. CASE u = Inviter[c]
  <2>1. /\ InviterRow(x.row, b, n)
        /\ Adds(x.entries, e, Inviting(c, u))
        /\ x.taken = NoNews
      BY <1>1 DEF CreditInviter, Effect, Inviting, InviterRow, Adds
  <2>2. /\ x.row \in AccountRow /\ x.row.bonus = b.bonus /\ x.row.bonusNews = b.bonusNews
        /\ x.row.referralNews = b.referralNews + n
        /\ x.row.referralCount = b.referralCount + 1
      BY <1>0, <2>1, InviterUpdate
  <2>3. b.referralCount \in Nat /\ b.referralNews \in Nat /\ b.bonusNews \in Nat
        /\ b.bonus \in BOOLEAN
      BY <1>0 DEF AccountRow
  <2>4. (b.referralCount + 1) * n = b.referralCount * n + n
      BY <1>0, <2>3
  <2>5. Sound(x.row)
      BY <2>2, <2>4 DEF Sound
  <2>6. /\ Part(x.entries, u, "referral_inviter") = {Inviting(c, u)}
        /\ Part(x.entries, u, "referral_invitee") = {}
        /\ Part(x.entries, u, "signup_bonus") = {}
        /\ Own(c, u, x.entries)
      BY <2>1, InvitingParts
  <2>7. Effected(c, u, b, x.row, x.entries, x.taken)
    <3>1. x.taken.bonus = 0 /\ x.taken.referral = 0
        BY <2>1 DEF NoNews
    <3>2. /\ b.bonusNews + 0 = x.row.bonusNews + 0
          /\ b.referralNews + n = x.row.referralNews + 0
        BY <1>0, <2>2, <2>3
    <3> QED
        BY <1>1, <2>2, <2>3, <2>5, <2>6, <3>1, <3>2 DEF Effected, Once, Amount
  <2> QED
      BY <2>1, <2>6, <2>7
<1>2. CASE u = User[c]
  <2>1. /\ x.row = [b EXCEPT !.balance = @ + n]
        /\ Adds(x.entries, e, Invited(c, u))
        /\ x.taken = NoNews
      BY <1>2 DEF Credit, Effect, Invited, Adds
  <2>2. /\ x.row \in AccountRow /\ x.row.bonus = b.bonus /\ x.row.bonusNews = b.bonusNews
        /\ x.row.referralNews = b.referralNews /\ x.row.referralCount = b.referralCount
      BY <1>0, <2>1 DEF AccountRow
  <2>3. b.referralNews \in Nat /\ b.bonusNews \in Nat /\ b.bonus \in BOOLEAN
      BY <1>0 DEF AccountRow
  <2>5. Sound(x.row)
      BY <2>2 DEF Sound
  <2>6. /\ Part(x.entries, u, "referral_invitee") = {Invited(c, u)}
        /\ Part(x.entries, u, "referral_inviter") = {}
        /\ Part(x.entries, u, "signup_bonus") = {}
        /\ Own(c, u, x.entries)
      BY <2>1, InvitedParts
  <2>7. Effected(c, u, b, x.row, x.entries, x.taken)
    <3>1. x.taken.bonus = 0 /\ x.taken.referral = 0
        BY <2>1 DEF NoNews
    <3>2. /\ b.bonusNews + 0 = x.row.bonusNews + 0
          /\ b.referralNews + 0 = x.row.referralNews + 0
        BY <2>2, <2>3
    <3> QED
        BY <1>2, <2>2, <2>3, <2>5, <2>6, <3>1, <3>2 DEF Effected, Once, Amount
  <2> QED
      BY <2>1, <2>6, <2>7
<1> QED
    BY <1>1, <1>2

\* Whatever a call does to the row it turns to, entries and news are those of
\* the change.
LEMMA OutcomeEffects ==
    ASSUME NEW c \in Calls, NEW u \in Users, u = RowOf(c),
           side[c] = "inviter" => Kind[c] = "apply", side[c] \in {"own", "inviter"},
           Kind[c] = "apply" => Inviter[c] \in Users \ {User[c]},
           NEW b, Sound(b), NEW e \in SUBSET Plain(c, u),
           NEW x \in Outcomes(c, u, Effect(b, e))
    PROVE  /\ Effected(c, u, b, x.row, x.entries, x.taken)
           /\ Own(c, u, x.entries)
           /\ x.taken \in News
           /\ Kind[c] = "apply" => x.taken = NoNews
<1> DEFINE w == Effect(b, e)
<1>0. /\ w.row = b /\ w.entries = e /\ w.taken = NoNews
      /\ b \in AccountRow /\ NoNews \in News /\ Alike(b, b)
    BY DEF Effect, Sound, NoNews, News, Alike
<1> HIDE DEF w
<1>1. CASE Kind[c] = "signup"
  <2>1. u = User[c] /\ x = GrantSignupBonus(c, u, w)
      BY <1>1 DEF RowOf, Outcomes, w
  <2> QED
      BY <1>0, <1>1, <2>1, BonusEffect
<1>2. CASE Kind[c] = "balance"
  <2>1. u = User[c]
      BY <1>2 DEF RowOf
  <2>2. PICK y : /\ y = EnsureMonthly(c, u, w) \/ y = Attend(c, u, EnsureMonthly(c, u, w))
                 /\ x = Claim(GrantSignupBonus(c, u, y))
      BY <1>2 DEF Outcomes, w
  <2>3. LET m == EnsureMonthly(c, u, w) IN
        Alike(b, m.row) /\ m.entries \in SUBSET Plain(c, u) /\ m.taken = NoNews
      BY <1>0, GrantsAlike DEF EnsureMonthly, Effect
  <2>4. Alike(b, y.row) /\ y.entries \in SUBSET Plain(c, u) /\ y.taken = NoNews
      BY <1>0, <2>2, <2>3, GrantsAlike DEF Attend, Effect
  <2> DEFINE z == GrantSignupBonus(c, u, y)
  <2>5. /\ Effected(c, u, b, z.row, z.entries, z.taken)
        /\ Own(c, u, z.entries)
        /\ z.taken = NoNews
      BY <1>2, <2>1, <2>4, BonusEffect
  <2> HIDE DEF z
  <2> QED
      BY <1>2, <2>1, <2>2, <2>5, ClaimEffect DEF z
<1>3. CASE Kind[c] = "apply"
  <2>1. \/ u = Inviter[c] /\ x = CreditInviter(c, u, Effect(b, e))
        \/ u = User[c] /\ x = Credit(c, u, Effect(b, e))
      BY <1>3 DEF RowOf, Outcomes
  <2> QED
      BY <1>0, <1>3, <2>1, CreditEffects
<1> QED
    BY <1>1, <1>2, <1>3, TokenAccountAssumption

----------------------------------------------------------------------------
(* The invariant: the initial state and the steps that commit nothing. *)

LEMMA TokensInit == Init => TokensInv
<1> SUFFICES ASSUME Init PROVE TokensInv
    OBVIOUS
<1> USE DEF Init
<1>1. TypeInv
  <2>1. NoNews \in News
      BY DEF NoNews, News
  <2> QED
      BY <2>1, TokenAccountAssumption DEF TypeInv
<1>2. \A c \in Calls : Changed(c) = {} /\ Behind(c) = {}
    BY DEF Changed, Behind, Active
<1>3. PathInv /\ HoldInv /\ WorkInv /\ RowsInv
    BY <1>2, TokenAccountAssumption DEF PathInv, HoldInv, WorkInv, RowsInv, Active
<1>4. \A u \in Users : Invitees(u) = {} /\ \A t : EntriesOf(u, t) = {}
    BY TokenAccountAssumption DEF Invitees, EntriesOf
<1>5. IsFiniteSet({}) /\ Cardinality({}) = 0
    BY FS_EmptySet
<1>6. LedgerInv
    BY <1>4, <1>5 DEF LedgerInv
<1>7. RewardedOnce
    BY <1>4, <1>5 DEF RewardedOnce
<1>8. NewsKept
  <2>1. 0 * REFERRAL_TOKENS = 0 /\ 0 * SIGNUP_BONUS_TOKENS = 0
      BY TokenAccountAssumption
  <2>2. \A u \in Users : /\ reported[u].referral = 0 /\ reported[u].bonus = 0
                          /\ rows[u] = Missing
      BY DEF NoNews
  <2> QED
      BY <1>4, <1>5, <2>1, <2>2 DEF NewsKept
<1> QED
    BY <1>1, <1>3, <1>6, <1>7, <1>8 DEF TokensInv

\* What is committed only a commit changes.
LEMMA Uncommitted ==
    ASSUME TokensInv, UNCHANGED <<rows, referred, ledger, reported>>,
           NEW c \in Calls, NEW l, pc' = [pc EXCEPT ![c] = l], pc[c] # "answered"
    PROVE  RowsInv' /\ LedgerInv' /\ RewardedOnce' /\ NewsKept'
<1>1. RowsInv'
    BY DEF TokensInv, RowsInv, Sound
<1>2. LedgerInv'
  <2>1. ASSUME NEW e \in ledger PROVE pc'[e[1]] = "answered"
    <3>1. e[1] \in Calls /\ pc[e[1]] = "answered"
        BY DEF TokensInv, TypeInv, LedgerInv, Entries
    <3> QED
        BY <3>1 DEF TokensInv, TypeInv
  <2> QED
      BY <2>1 DEF TokensInv, LedgerInv, Invitees, EntriesOf
<1>3. RewardedOnce' /\ NewsKept'
    BY DEF TokensInv, RewardedOnce, NewsKept, EntriesOf, Invitees
<1> QED
    BY <1>1, <1>2, <1>3

\* A step that moves on and touches no row.
LEMMA Moves ==
    ASSUME TokensInv, TypeInv',
           UNCHANGED <<rows, referred, ledger, reported, holder, draft, added, taken>>,
           NEW c \in Calls, NEW l, pc' = [pc EXCEPT ![c] = l], pc[c] # "answered",
           l # "answered"
    PROVE  HoldInv' /\ WorkInv' /\ RowsInv' /\ LedgerInv' /\ RewardedOnce' /\ NewsKept'
<1>1. RowsInv' /\ LedgerInv' /\ RewardedOnce' /\ NewsKept'
    BY Uncommitted
<1>2. \A d \in Calls : pc'[d] = "answered" <=> pc[d] = "answered"
    BY DEF TokensInv, TypeInv
<1>3. \A d \in Calls : Changed(d)' = Changed(d)
    BY DEF Changed
<1>4. HoldInv'
    BY <1>2, <1>3 DEF TokensInv, HoldInv
<1>5. ASSUME NEW d \in Calls, pc'[d] # "answered"
      PROVE  /\ \A e \in added'[d] : e[1] = d /\ e[2] \in Changed(d)'
             /\ \A u \in Changed(d)' :
                   Effected(d, u, Base(u), draft[d][u], added[d], taken[d])'
    BY <1>2, <1>3, <1>5 DEF TokensInv, WorkInv, Base, Effected, Sound
<1> QED
    BY <1>1, <1>4, <1>5 DEF WorkInv

LEMMA StartStep ==
    ASSUME TokensInv, NEW c \in Calls, Start(c)
    PROVE  TokensInv'
<1> USE DEF TokensInv
<1>1. PICK l \in {"lock", "refused", "claim"} :
          /\ pc' = [pc EXCEPT ![c] = l]
          /\ l = "claim" => Kind[c] = "apply" /\ Inviter[c] \notin {NoOne, User[c]}
          /\ l = "lock" => Kind[c] # "apply"
    BY DEF Start, Goto
<1>2. /\ pc[c] = "start"
      /\ UNCHANGED <<rows, referred, ledger, reported, holder, claimer, side,
                     draft, added, taken>>
    BY DEF Start
<1>3. TypeInv'
    BY <1>1, <1>2 DEF TypeInv, Active, Ended
<1>4. PathInv'
  <2>1. \A d \in Calls \ {c} : pc'[d] = pc[d] /\ Changed(d)' = Changed(d) /\ Behind(d)' = Behind(d)
      BY <1>1, <1>2 DEF Changed, Behind, TypeInv
  <2>2. pc'[c] = l /\ Changed(c)' = Changed(c) /\ Behind(c) = {} /\ Behind(c)' = {}
      BY <1>1, <1>2 DEF Changed, Behind, TypeInv, Active
  <2>3. Inviter[c] \in Users \cup {NoOne}
      BY TokenAccountAssumption
  <2> QED
      BY <1>1, <1>2, <2>1, <2>2, <2>3 DEF PathInv, Active
<1>5. l # "answered" /\ pc[c] # "answered"
    BY <1>1, <1>2
<1> QED
    BY <1>1, <1>2, <1>3, <1>4, <1>5, Moves

LEMMA ClaimStep ==
    ASSUME TokensInv, NEW c \in Calls, ClaimReferral(c)
    PROVE  TokensInv'
<1> USE DEF TokensInv
<1>1. /\ pc[c] = "claim" /\ claimer[User[c]] = NoOne
      /\ UNCHANGED <<rows, referred, ledger, reported, holder, draft, added, taken>>
      /\ User[c] \in Users /\ NoOne \notin Calls
    BY TokenAccountAssumption DEF ClaimReferral
<1>2. PICK l \in {"lock", "refused"} : pc' = [pc EXCEPT ![c] = l] /\
          IF l = "lock"
          THEN /\ referred[User[c]] = NoOne
               /\ claimer' = [claimer EXCEPT ![User[c]] = c]
               /\ side' = [side EXCEPT ![c] = "inviter"]
          ELSE UNCHANGED <<claimer, side>>
    BY DEF ClaimReferral, Goto, Unclaimed
<1>3. TypeInv'
    BY <1>1, <1>2 DEF TypeInv, Active, Ended
<1>4. PathInv'
  <2>1. \A d \in Calls \ {c} : /\ pc'[d] = pc[d] /\ side'[d] = side[d]
                               /\ Changed(d)' = Changed(d) /\ Behind(d)' = Behind(d)
      BY <1>1, <1>2 DEF Changed, Behind, TypeInv
  <2>2. pc'[c] = l /\ Changed(c)' = Changed(c) /\ Behind(c) = {} /\ Behind(c)' = {}
      BY <1>1, <1>2 DEF Changed, Behind, TypeInv, Active
  <2>3. Kind[c] = "apply" /\ Inviter[c] \in Users \ {User[c]} /\ side[c] \in {"own", "inviter"}
      BY <1>1 DEF PathInv, TypeInv
  <2>4. \A d \in Calls \ {c} : claimer[User[d]] = d => claimer'[User[d]] = d
    <3> TAKE d \in Calls \ {c}
    <3>1. User[d] \in Users /\ d # NoOne
        BY TokenAccountAssumption
    <3> QED
        BY <1>1, <1>2, <3>1 DEF TypeInv
  <2>5. l = "lock" => claimer'[User[c]] = c /\ side'[c] = "inviter"
      BY <1>1, <1>2 DEF TypeInv
  <2>6. l = "refused" => side'[c] = side[c]
      BY <1>2
  <2> QED
      BY <1>1, <1>2, <2>1, <2>2, <2>3, <2>4, <2>5, <2>6 DEF PathInv, Active
<1>5. l # "answered" /\ pc[c] # "answered"
    BY <1>1, <1>2
<1> QED
    BY <1>1, <1>2, <1>3, <1>4, <1>5, Moves

\* The SELECT that finds no row.
LEMMA NoRowStep ==
    ASSUME TokensInv, NEW c \in Calls, pc[c] = "lock", Goto(c, "insert"),
           UNCHANGED <<rows, referred, ledger, reported, holder, claimer, side,
                       draft, added, taken>>
    PROVE  TokensInv'
<1> USE DEF TokensInv
<1>1. pc' = [pc EXCEPT ![c] = "insert"] /\ pc[c] # "answered"
    BY DEF Goto
<1>2. TypeInv'
    BY <1>1 DEF TypeInv, Active, Ended
<1>3. PathInv'
  <2>1. \A d \in Calls : Changed(d)' = Changed(d) /\ Behind(d)' = Behind(d)
      BY <1>1 DEF Changed, Behind, TypeInv, Active
  <2>2. \A d \in Calls : pc'[d] = IF d = c THEN "insert" ELSE pc[d]
      BY <1>1 DEF TypeInv
  <2> QED
      BY <2>1, <2>2 DEF PathInv, Active
<1> QED
    BY <1>1, <1>2, <1>3, Moves

----------------------------------------------------------------------------
(* Steps on rows that commit nothing. *)

\* The statements up to the next wait.
LEMMA PerformStep ==
    ASSUME TokensInv, NEW c \in Calls, pc[c] \in {"lock", "insert"},
           holder[RowOf(c)] = NoOne,
           NEW e \in SUBSET Plain(c, RowOf(c)), Perform(c, Base(RowOf(c)), e),
           UNCHANGED <<rows, referred, ledger, reported, claimer>>
    PROVE  TokensInv'
<1> USE DEF TokensInv
<1> DEFINE u == RowOf(c)
           v == Inviter[c]
           s == side[c]
<1>0. /\ side[c] \in {"own", "inviter"}
      /\ side[c] = "inviter" => Kind[c] = "apply"
      /\ Kind[c] = "apply" => v \in Users \ {User[c]}
      /\ User[c] \in Users /\ NoOne \notin Calls /\ Missing \notin AccountRow
      /\ pc[c] # "answered"
    BY TokenAccountAssumption DEF PathInv, TypeInv, Active
<1>1. u \in Users /\ u = IF s = "inviter" THEN v ELSE User[c]
    BY <1>0 DEF RowOf
<1>2. Base(u) = IF rows[u] = Missing THEN NewAccount ELSE rows[u]
    BY DEF Base
<1>3. Sound(Base(u))
  <2>1. Sound(NewAccount)
    <3>1. NewAccount \in AccountRow
        BY DEF NewAccount, AccountRow
    <3>2. 0 * REFERRAL_TOKENS = 0
        BY TokenAccountAssumption
    <3> QED
        BY <3>1, <3>2 DEF Sound, NewAccount
  <2> QED
      BY <1>1, <2>1 DEF RowsInv, Base
<1> HIDE DEF u
<1>4. PICK x \in Outcomes(c, u, Effect(Base(u), e)) :
          /\ draft' = [draft EXCEPT ![c][u] = x.row]
          /\ added' = [added EXCEPT ![c] = @ \cup x.entries]
          /\ taken' = [taken EXCEPT ![c] = x.taken]
          /\ holder' = [holder EXCEPT ![u] = c]
          /\ IF s = "inviter"
             THEN Goto(c, "lock") /\ side' = [side EXCEPT ![c] = "own"]
             ELSE Goto(c, "commit") /\ UNCHANGED side
    BY DEF Perform, u
<1>5. /\ Effected(c, u, Base(u), x.row, x.entries, x.taken)
      /\ Own(c, u, x.entries)
      /\ x.taken \in News
      /\ Kind[c] = "apply" => x.taken = NoNews
  <2>1. u = RowOf(c) /\ e \in SUBSET Plain(c, u)
      BY DEF u
  <2> QED
      BY <1>0, <1>1, <1>3, <2>1, OutcomeEffects
<1>6. x.row \in AccountRow /\ x.row # Missing /\ x.entries \subseteq Entries
    BY <1>0, <1>5 DEF Effected, Sound, Own
<1> DEFINE l == IF s = "inviter" THEN "lock" ELSE "commit"
<1>7. /\ pc' = [pc EXCEPT ![c] = l] /\ l \in Active /\ l # "answered"
      /\ side' = [side EXCEPT ![c] = "own"]
    BY <1>0, <1>4 DEF Goto, Active, TypeInv
<1>8. TypeInv'
  <2>1. draft' \in [Calls -> [Users -> AccountRow \cup {Missing}]]
      BY <1>1, <1>4, <1>6 DEF TypeInv
  <2>2. added' \in [Calls -> SUBSET Entries]
      BY <1>4, <1>6 DEF TypeInv
  <2>3. taken' \in [Calls -> News] /\ holder' \in [Users -> Calls \cup {NoOne}]
      BY <1>1, <1>4, <1>5 DEF TypeInv
  <2>4. pc' \in [Calls -> {"start", "claim"} \cup Active \cup Ended]
      BY <1>7 DEF TypeInv
  <2>5. side' \in [Calls -> {"own", "inviter"}]
      BY <1>7 DEF TypeInv
  <2> QED
      BY <2>1, <2>2, <2>3, <2>4, <2>5 DEF TypeInv
<1>9. \A d \in Calls \ {c} :
          /\ pc'[d] = pc[d] /\ side'[d] = side[d] /\ draft'[d] = draft[d]
          /\ added'[d] = added[d] /\ taken'[d] = taken[d]
          /\ Changed(d)' = Changed(d) /\ Behind(d)' = Behind(d)
    BY <1>4, <1>7 DEF Changed, Behind, TypeInv
<1>10. /\ pc'[c] = l /\ side'[c] = "own" /\ added'[c] = added[c] \cup x.entries
       /\ taken'[c] = x.taken
       /\ draft'[c] = [draft[c] EXCEPT ![u] = x.row]
    BY <1>4, <1>7 DEF TypeInv
<1>11. /\ u \notin Changed(c) /\ Changed(c)' = Changed(c) \cup {u}
       /\ Changed(c) = Behind(c)
  <2>1. holder[u] # c
      BY <1>0 DEF u
  <2>2. u \notin Changed(c) /\ Changed(c) = Behind(c)
      BY <1>0, <1>1, <2>1 DEF HoldInv, PathInv
  <2>3. Changed(c)' = Changed(c) \cup {u}
      BY <1>1, <1>6, <1>10 DEF Changed, TypeInv
  <2> QED
      BY <2>2, <2>3
<1>12. PathInv'
  <2>1. Changed(c)' = Behind(c)'
    <3>1. Behind(c)' = Behind(c) \cup {u}
        BY <1>0, <1>1, <1>7, <1>10 DEF Behind, Active
    <3> QED
        BY <1>11, <3>1
  <2>2. Kind[c] = "apply" => claimer[User[c]] = c /\ referred[User[c]] = NoOne
      BY DEF PathInv, Active
  <2>3. pc'[c] \in Active /\ side'[c] = "own" /\ "claim" \notin Active
      BY <1>7, <1>10 DEF Active
  <2> QED
      BY <1>0, <1>9, <2>1, <2>2, <2>3 DEF PathInv
<1>13. HoldInv'
  <2> SUFFICES ASSUME NEW d \in Calls, NEW w \in Users
               PROVE  holder'[w] = d <=> (pc'[d] # "answered" /\ w \in Changed(d)')
      BY DEF HoldInv
  <2>1. holder'[w] = IF w = u THEN c ELSE holder[w]
      BY <1>4 DEF TypeInv
  <2>2. holder[u] = NoOne
      BY DEF u
  <2>3. holder[w] = d <=> (pc[d] # "answered" /\ w \in Changed(d))
      BY DEF HoldInv
  <2>4. CASE d = c
      BY <1>0, <1>7, <1>10, <1>11, <2>1, <2>3, <2>4
  <2>5. CASE d # c
      BY <1>0, <1>9, <2>1, <2>2, <2>3, <2>5
  <2> QED
      BY <2>4, <2>5
<1>14. WorkInv'
  <2> SUFFICES ASSUME NEW d \in Calls, pc'[d] # "answered"
               PROVE  /\ \A y \in added'[d] : y[1] = d /\ y[2] \in Changed(d)'
                      /\ \A w \in Changed(d)' :
                            Effected(d, w, Base(w), draft'[d][w], added'[d], taken'[d])
      BY DEF WorkInv, Effected, Base, Sound
  <2>1. CASE d # c
      BY <1>9, <2>1 DEF WorkInv
  <2>2. CASE d = c
    <3>1. /\ \A y \in added[c] : y[1] = c /\ y[2] \in Changed(c)
          /\ \A w \in Changed(c) : Effected(c, w, Base(w), draft[c][w], added[c], taken[c])
        BY <1>0 DEF WorkInv
    <3>2. \A y \in x.entries : y[1] = c /\ y[2] = u
        BY <1>5 DEF Own
    <3>3. \A y \in added'[c] : y[1] = c /\ y[2] \in Changed(c)'
        BY <1>10, <1>11, <3>1, <3>2
    <3>4. Effected(c, u, Base(u), draft'[c][u], added'[c], taken'[c])
      <4>1. \A t : Part(added'[c], u, t) = Part(x.entries, u, t)
          BY <1>10, <1>11, <3>1 DEF Part
      <4>2. draft'[c][u] = x.row
          BY <1>1, <1>10 DEF TypeInv
      <4> QED
          BY <1>5, <1>10, <4>1, <4>2 DEF Effected
    <3>5. ASSUME NEW w \in Changed(c)
          PROVE  Effected(c, w, Base(w), draft'[c][w], added'[c], taken'[c])
      <4>1. w # u /\ w \in Users
          BY <1>11 DEF Changed
      <4>2. \A t : Part(added'[c], w, t) = Part(added[c], w, t)
          BY <1>10, <3>2, <4>1 DEF Part
      <4>3. draft'[c][w] = draft[c][w]
          BY <1>1, <1>10, <4>1 DEF TypeInv
      <4>4. w # User[c]
          BY <1>0, <1>11 DEF Behind
      <4> QED
          BY <3>1, <4>2, <4>3, <4>4 DEF Effected, Amount
    <3> QED
        BY <1>11, <2>2, <3>3, <3>4, <3>5
  <2> QED
      BY <2>1, <2>2
<1>15. RowsInv' /\ LedgerInv' /\ RewardedOnce' /\ NewsKept'
    BY <1>0, <1>7, Uncommitted
<1> QED
    BY <1>8, <1>12, <1>13, <1>14, <1>15

\* A refused INSERT, a failure, an aborted deadlock.
LEMMA RollbackStep ==
    ASSUME TokensInv, NEW c \in Calls, pc[c] \in {"claim"} \cup Active, Rollback(c)
    PROVE  TokensInv'
<1> USE DEF TokensInv
<1>0. NoOne \notin Calls /\ \A d \in Calls : User[d] \in Users
    BY TokenAccountAssumption
<1>1. /\ pc' = [pc EXCEPT ![c] = "refused"]
      /\ holder' = [u \in Users |-> IF holder[u] = c THEN NoOne ELSE holder[u]]
      /\ claimer' = [u \in Users |-> IF claimer[u] = c THEN NoOne ELSE claimer[u]]
      /\ draft' = [draft EXCEPT ![c] = [u \in Users |-> Missing]]
      /\ added' = [added EXCEPT ![c] = {}]
      /\ UNCHANGED <<rows, referred, ledger, reported, side, taken>>
      /\ pc[c] # "answered"
    BY DEF Rollback, Goto, ReleaseRows, ReleaseClaims, Active
<1>2. TypeInv'
  <2>1. draft' \in [Calls -> [Users -> AccountRow \cup {Missing}]]
      BY <1>1 DEF TypeInv
  <2>2. added' \in [Calls -> SUBSET Entries]
      BY <1>1 DEF TypeInv
  <2>3. /\ holder' \in [Users -> Calls \cup {NoOne}]
        /\ claimer' \in [Users -> Calls \cup {NoOne}]
      BY <1>1 DEF TypeInv
  <2>4. pc' \in [Calls -> {"start", "claim"} \cup Active \cup Ended]
      BY <1>1 DEF TypeInv, Ended
  <2> QED
      BY <1>1, <2>1, <2>2, <2>3, <2>4 DEF TypeInv
<1>3. \A d \in Calls \ {c} :
          /\ pc'[d] = pc[d] /\ draft'[d] = draft[d] /\ added'[d] = added[d]
          /\ Changed(d)' = Changed(d) /\ Behind(d)' = Behind(d)
    BY <1>1 DEF Changed, Behind, TypeInv
<1>4. /\ pc'[c] = "refused" /\ added'[c] = {}
      /\ Changed(c)' = {} /\ Behind(c)' = {}
    BY <1>1 DEF Changed, Behind, TypeInv, Active
<1>5. PathInv'
  <2>1. \A d \in Calls \ {c} : claimer[User[d]] = d => claimer'[User[d]] = d
      BY <1>0, <1>1
  <2>2. "refused" \notin {"claim", "answered"} \cup Active
      BY DEF Active
  <2>3. side' = side /\ referred' = referred
      BY <1>1
  <2> QED
      BY <1>3, <1>4, <2>1, <2>2, <2>3 DEF PathInv
<1>6. HoldInv'
    BY <1>0, <1>1, <1>3, <1>4 DEF HoldInv
<1>7. WorkInv'
  <2> SUFFICES ASSUME NEW d \in Calls, pc'[d] # "answered"
               PROVE  /\ \A y \in added'[d] : y[1] = d /\ y[2] \in Changed(d)'
                      /\ \A w \in Changed(d)' :
                            Effected(d, w, Base(w), draft'[d][w], added'[d], taken'[d])
      BY <1>1 DEF WorkInv, Effected, Base, Sound
  <2>1. CASE d # c
      BY <1>1, <1>3, <2>1 DEF WorkInv
  <2>2. CASE d = c
      BY <1>4, <2>2
  <2> QED
      BY <2>1, <2>2
<1>8. RowsInv' /\ LedgerInv' /\ RewardedOnce' /\ NewsKept'
    BY <1>1, Uncommitted
<1> QED
    BY <1>2, <1>5, <1>6, <1>7, <1>8

----------------------------------------------------------------------------
(* The commit. *)

\* A set that may get one new member.
LEMMA Grows ==
    ASSUME NEW S, IsFiniteSet(S), NEW x, x \notin S, NEW b \in BOOLEAN
    PROVE  /\ IsFiniteSet(S \cup Once(b, x))
           /\ Cardinality(S) \in Nat
           /\ Cardinality(S \cup Once(b, x)) = Cardinality(S) + Amount(b, 1)
<1>1. Cardinality(S) \in Nat
    BY FS_CardinalityType
<1>2. CASE b
    BY <1>1, <1>2, FS_AddElement DEF Once, Amount
<1>3. CASE ~b
  <2>1. S \cup Once(b, x) = S
      BY <1>3 DEF Once
  <2>2. Cardinality(S \cup Once(b, x)) = Cardinality(S)
      BY <2>1
  <2>3. IsFiniteSet(S \cup Once(b, x))
      BY <2>1
  <2> QED
      BY <1>1, <1>3, <2>2, <2>3 DEF Amount
<1> QED
    BY <1>1, <1>2, <1>3

LEMMA Products ==
    ASSUME NEW n \in Nat, NEW k \in Nat, NEW b \in BOOLEAN
    PROVE  (n + Amount(b, 1)) * k = n * k + Amount(b, k)
<1>1. CASE b
  <2>1. (n + 1) * k = n * k + k
      OBVIOUS
  <2> QED
      BY <1>1, <2>1 DEF Amount
<1>2. CASE ~b
  <2>1. n + 0 = n /\ n * k + 0 = n * k
      OBVIOUS
  <2> QED
      BY <1>2, <2>1 DEF Amount
<1> QED
    BY <1>1, <1>2

\* What call c adds to the rewards of user u, and the user it makes u's invitee.
GetsBonus(c, u) == u \in Changed(c) /\ draft[c][u].bonus /\ ~Base(u).bonus
IsInvited(c, u) == Kind[c] = "apply" /\ u = User[c]
IsInviter(c, u) == Kind[c] = "apply" /\ u = Inviter[c]

LEMMA CommitStep ==
    ASSUME TokensInv, NEW c \in Calls, Commit(c)
    PROVE  TokensInv'
<1> USE DEF TokensInv
<1> DEFINE K == Changed(c)
           a == User[c]
           new(u) == draft[c][u]
           n == taken[c]
<1>0. /\ NoOne \notin Calls \cup Users /\ Missing \notin AccountRow
      /\ \A d \in Calls : User[d] \in Users
      /\ SIGNUP_BONUS_TOKENS \in Nat /\ REFERRAL_TOKENS \in Nat
    BY TokenAccountAssumption
<1>1. /\ pc[c] = "commit" /\ pc' = [pc EXCEPT ![c] = "answered"]
      /\ rows' = [v \in Users |-> IF new(v) = Missing THEN rows[v] ELSE new(v)]
      /\ referred' = IF Kind[c] = "apply" THEN [referred EXCEPT ![a] = Inviter[c]]
                     ELSE referred
      /\ ledger' = ledger \cup added[c]
      /\ reported' = [reported EXCEPT ![a].bonus = @ + n.bonus,
                                      ![a].referral = @ + n.referral]
      /\ holder' = [u \in Users |-> IF holder[u] = c THEN NoOne ELSE holder[u]]
      /\ claimer' = [u \in Users |-> IF claimer[u] = c THEN NoOne ELSE claimer[u]]
      /\ UNCHANGED <<side, draft, added, taken>>
    BY DEF Commit, Goto, ReleaseRows, ReleaseClaims
<1>2. /\ a \in Users /\ n \in News /\ n.bonus \in Nat /\ n.referral \in Nat
      /\ K \subseteq Users
    BY <1>0 DEF TypeInv, News, Changed
<1>3. Kind[c] = "apply" => /\ Inviter[c] \in Users \ {a}
                           /\ claimer[a] = c /\ referred[a] = NoOne
    BY <1>1 DEF PathInv, Active
<1>4. K = {a} \cup (IF Kind[c] = "apply" THEN {Inviter[c]} ELSE {})
    BY <1>1 DEF PathInv, Behind, TypeInv, Active
<1>5. /\ \A y \in added[c] : y[1] = c /\ y[2] \in K
      /\ \A u \in K : Effected(c, u, Base(u), new(u), added[c], n)
    BY <1>1 DEF WorkInv
<1>6. /\ \A u \in K : rows'[u] = new(u) /\ Sound(new(u)) /\ new(u) # Missing
      /\ \A u \in Users \ K : rows'[u] = rows[u]
    BY <1>0, <1>1, <1>5 DEF Changed, Effected, Sound
<1>7. \A d \in Calls \ {c} : /\ pc'[d] = pc[d] /\ Changed(d)' = Changed(d)
                             /\ Behind(d)' = Behind(d)
    BY <1>1 DEF Changed, Behind, TypeInv
<1>8. pc'[c] = "answered"
    BY <1>1 DEF TypeInv
<1>9. TypeInv'
  <2>1. rows' \in [Users -> AccountRow \cup {Missing}]
      BY <1>1 DEF TypeInv
  <2>2. referred' \in [Users -> Users \cup {NoOne}]
      BY <1>1, <1>3 DEF TypeInv
  <2>3. reported' \in [Users -> News]
    <3>1. \A r \in News : r.bonus + n.bonus \in Nat /\ r.referral + n.referral \in Nat
        BY <1>2 DEF News
    <3>2. \A r \in News : [r EXCEPT !.bonus = r.bonus + n.bonus] \in News
        BY <3>1 DEF News
    <3>3. \A r \in News : [r EXCEPT !.referral = r.referral + n.referral] \in News
        BY <3>1 DEF News
    <3>4. \A r \in News : [r EXCEPT !.bonus = r.bonus + n.bonus].referral = r.referral
        BY DEF News
    <3> DEFINE r1 == [reported[a] EXCEPT !.bonus = reported[a].bonus + n.bonus]
               r2 == [r1 EXCEPT !.referral = r1.referral + n.referral]
    <3>5. reported[a] \in News
        BY <1>2 DEF TypeInv
    <3>6. r1 \in News
        BY <3>2, <3>5
    <3>7. r2 \in News
      <4> HIDE DEF r1
      <4> QED
          BY <3>3, <3>6
    <3>8. reported' = [reported EXCEPT ![a] = r2]
        BY <1>1, <1>2 DEF TypeInv
    <3> HIDE DEF r2
    <3> QED
        BY <3>7, <3>8 DEF TypeInv
  <2>4. /\ holder' \in [Users -> Calls \cup {NoOne}]
        /\ claimer' \in [Users -> Calls \cup {NoOne}]
      BY <1>1 DEF TypeInv
  <2>5. pc' \in [Calls -> {"start", "claim"} \cup Active \cup Ended]
      BY <1>1 DEF TypeInv, Ended
  <2>6. ledger' \subseteq Entries
      BY <1>1 DEF TypeInv
  <2> QED
      BY <1>1, <2>1, <2>2, <2>3, <2>4, <2>5, <2>6 DEF TypeInv
<1>10. PathInv'
  <2>1. ASSUME NEW d \in Calls \ {c}, claimer[User[d]] = d, referred[User[d]] = NoOne
        PROVE  claimer'[User[d]] = d /\ referred'[User[d]] = NoOne
      BY <1>0, <1>1, <1>3, <2>1 DEF TypeInv
  <2>2. side' = side /\ side[c] # "inviter"
      BY <1>1 DEF PathInv
  <2>3. "answered" \notin {"claim"} \cup Active
      BY DEF Active
  <2> QED
      BY <1>7, <1>8, <2>1, <2>2, <2>3 DEF PathInv
<1>11. HoldInv'
  <2> SUFFICES ASSUME NEW d \in Calls, NEW u \in Users
               PROVE  holder'[u] = d <=> (pc'[d] # "answered" /\ u \in Changed(d)')
      BY DEF HoldInv
  <2>1. holder'[u] = IF holder[u] = c THEN NoOne ELSE holder[u]
      BY <1>1
  <2> QED
      BY <1>0, <1>7, <1>8, <2>1 DEF HoldInv
<1>12. WorkInv'
  <2> SUFFICES ASSUME NEW d \in Calls \ {c}, pc[d] # "answered"
               PROVE  /\ \A y \in added[d] : y[1] = d /\ y[2] \in Changed(d)
                      /\ \A w \in Changed(d) :
                            Effected(d, w, Base(w), draft[d][w], added[d], taken[d])'
    <3>1. UNCHANGED <<draft, added>>
        BY <1>1
    <3> QED
        BY <1>7, <1>8, <3>1 DEF WorkInv
  <2>1. ASSUME NEW w \in Changed(d) PROVE Base(w)' = Base(w)
    <3>1. w \in Users /\ holder[w] = d
        BY DEF HoldInv, Changed
    <3>2. w \notin K
        BY <1>1, <3>1 DEF HoldInv
    <3> QED
        BY <1>6, <3>1, <3>2 DEF Base
  <2>2. ASSUME NEW w \in Changed(d)
        PROVE  Effected(d, w, Base(w), draft[d][w], added[d], taken[d])'
    <3>1. Effected(d, w, Base(w), draft[d][w], added[d], taken[d])
        BY DEF WorkInv
    <3>2. UNCHANGED <<draft, added, taken>>
        BY <1>1
    <3> QED
        BY <2>1, <3>1, <3>2 DEF Effected, Sound
  <2> QED
      BY <2>2 DEF WorkInv
<1>13. RowsInv'
    BY <1>6 DEF RowsInv, Sound
<1> DEFINE grow(u, t) == Part(added[c], u, t)
<1>14. \A u, t : EntriesOf(u, t)' = EntriesOf(u, t) \cup grow(u, t)
    BY <1>1 DEF EntriesOf, Part
<1>15. \A u, t : c \in Calls /\ \A y \in EntriesOf(u, t) : y[1] # c
    BY <1>1 DEF LedgerInv, EntriesOf
<1>16. \A u \in Users :
          /\ grow(u, "signup_bonus") = Once(GetsBonus(c, u), Bonus(c, u))
          /\ grow(u, "referral_invitee") = Once(IsInvited(c, u), Invited(c, u))
          /\ grow(u, "referral_inviter") = Once(IsInviter(c, u), Inviting(c, u))
  <2> TAKE u \in Users
  <2>1. CASE u \in K
      BY <1>5, <2>1 DEF Effected, GetsBonus, IsInvited, IsInviter
  <2>2. CASE u \notin K
    <3>1. \A t : grow(u, t) = {}
        BY <1>5, <2>2 DEF Part
    <3>2. ~GetsBonus(c, u) /\ ~IsInvited(c, u) /\ ~IsInviter(c, u)
        BY <1>4, <2>2 DEF GetsBonus, IsInvited, IsInviter
    <3> HIDE DEF grow
    <3> QED
        BY <3>1, <3>2 DEF Once
  <2> QED
      BY <2>1, <2>2
<1> HIDE DEF grow
<1>17. \A u : /\ Bonus(c, u)[1] = c /\ Invited(c, u)[1] = c /\ Inviting(c, u)[1] = c
    BY DEF Bonus, Invited, Inviting, Entry
<1>18. \A u \in Users :
          /\ GetsBonus(c, u) \in BOOLEAN /\ IsInvited(c, u) \in BOOLEAN
          /\ IsInviter(c, u) \in BOOLEAN
    BY DEF GetsBonus, IsInvited, IsInviter
<1>19. ASSUME NEW u \in Users
       PROVE  /\ \A t \in Rewards : /\ IsFiniteSet(EntriesOf(u, t)')
                                    /\ Cardinality(EntriesOf(u, t)) \in Nat
              /\ Cardinality(EntriesOf(u, "signup_bonus")') =
                    Cardinality(EntriesOf(u, "signup_bonus")) + Amount(GetsBonus(c, u), 1)
              /\ Cardinality(EntriesOf(u, "referral_invitee")') =
                    Cardinality(EntriesOf(u, "referral_invitee")) + Amount(IsInvited(c, u), 1)
              /\ Cardinality(EntriesOf(u, "referral_inviter")') =
                    Cardinality(EntriesOf(u, "referral_inviter")) + Amount(IsInviter(c, u), 1)
  <2>1. \A t \in Rewards : IsFiniteSet(EntriesOf(u, t))
      BY DEF LedgerInv
  <2>2. /\ Bonus(c, u) \notin EntriesOf(u, "signup_bonus")
        /\ Invited(c, u) \notin EntriesOf(u, "referral_invitee")
        /\ Inviting(c, u) \notin EntriesOf(u, "referral_inviter")
      BY <1>15, <1>17
  <2>3. LET S == EntriesOf(u, "signup_bonus") IN
        /\ IsFiniteSet(S \cup Once(GetsBonus(c, u), Bonus(c, u))) /\ Cardinality(S) \in Nat
        /\ Cardinality(S \cup Once(GetsBonus(c, u), Bonus(c, u))) =
              Cardinality(S) + Amount(GetsBonus(c, u), 1)
      BY <1>18, <2>1, <2>2, Grows DEF Rewards
  <2>4. LET S == EntriesOf(u, "referral_invitee") IN
        /\ IsFiniteSet(S \cup Once(IsInvited(c, u), Invited(c, u))) /\ Cardinality(S) \in Nat
        /\ Cardinality(S \cup Once(IsInvited(c, u), Invited(c, u))) =
              Cardinality(S) + Amount(IsInvited(c, u), 1)
      BY <1>18, <2>1, <2>2, Grows DEF Rewards
  <2>5. LET S == EntriesOf(u, "referral_inviter") IN
        /\ IsFiniteSet(S \cup Once(IsInviter(c, u), Inviting(c, u))) /\ Cardinality(S) \in Nat
        /\ Cardinality(S \cup Once(IsInviter(c, u), Inviting(c, u))) =
              Cardinality(S) + Amount(IsInviter(c, u), 1)
      BY <1>18, <2>1, <2>2, Grows DEF Rewards
  <2> QED
      BY <1>14, <1>16, <2>3, <2>4, <2>5 DEF Rewards
<1>20. ASSUME NEW u \in Users
       PROVE  /\ IsFiniteSet(Invitees(u)') /\ Cardinality(Invitees(u)) \in Nat
              /\ Cardinality(Invitees(u)') =
                    Cardinality(Invitees(u)) + Amount(IsInviter(c, u), 1)
  <2>1. IsFiniteSet(Invitees(u))
      BY DEF LedgerInv
  <2>2. Invitees(u)' = Invitees(u) \cup Once(IsInviter(c, u), a)
    <3>1. CASE Kind[c] = "apply"
      <4>1. referred' = [referred EXCEPT ![a] = Inviter[c]] /\ referred[a] = NoOne
          BY <1>1, <1>3, <3>1
      <4> QED
          BY <1>0, <1>2, <3>1, <4>1 DEF Invitees, Once, IsInviter, TypeInv
    <3>2. CASE Kind[c] # "apply"
        BY <1>1, <3>2 DEF Invitees, Once, IsInviter
    <3> QED
        BY <3>1, <3>2
  <2>3. CASE IsInviter(c, u)
    <3>1. a \notin Invitees(u)
        BY <1>0, <1>3, <2>3 DEF Invitees, IsInviter
    <3> QED
        BY <1>18, <2>1, <2>2, <3>1, Grows
  <2>4. CASE ~IsInviter(c, u)
    <3>1. Invitees(u)' = Invitees(u)
        BY <2>2, <2>4 DEF Once
    <3>2. Cardinality(Invitees(u)) \in Nat
        BY <2>1, FS_CardinalityType
    <3> QED
        BY <2>1, <2>4, <3>1, <3>2 DEF Amount
  <2> QED
      BY <2>3, <2>4
<1>21. LedgerInv'
  <2>1. ASSUME NEW y \in ledger' PROVE pc'[y[1]] = "answered"
    <3>1. CASE y \in ledger
      <4>1. y[1] \in Calls /\ pc[y[1]] = "answered"
          BY <3>1 DEF TypeInv, LedgerInv, Entries
      <4> QED
          BY <1>7, <1>8, <4>1
    <3>2. CASE y \in added[c]
        BY <1>5, <1>8, <3>2
    <3> QED
        BY <1>1, <3>1, <3>2
  <2> QED
      BY <1>19, <1>20, <2>1 DEF LedgerInv
<1>22. RewardedOnce'
  <2> SUFFICES ASSUME NEW u \in Users
               PROVE  /\ Cardinality(EntriesOf(u, "referral_invitee")') =
                            IF referred'[u] = NoOne THEN 0 ELSE 1
                      /\ Cardinality(EntriesOf(u, "referral_inviter")') =
                            Cardinality(Invitees(u)')
                      /\ Cardinality(EntriesOf(u, "signup_bonus")') =
                            IF rows'[u] # Missing /\ rows'[u].bonus THEN 1 ELSE 0
      BY DEF RewardedOnce
  <2>1. /\ Cardinality(EntriesOf(u, "referral_invitee")) =
              IF referred[u] = NoOne THEN 0 ELSE 1
        /\ Cardinality(EntriesOf(u, "referral_inviter")) = Cardinality(Invitees(u))
        /\ Cardinality(EntriesOf(u, "signup_bonus")) =
              IF rows[u] # Missing /\ rows[u].bonus THEN 1 ELSE 0
      BY DEF RewardedOnce
  <2>2. Cardinality(EntriesOf(u, "referral_invitee")') =
            IF referred'[u] = NoOne THEN 0 ELSE 1
    <3>1. CASE IsInvited(c, u)
      <4>1. referred[u] = NoOne /\ referred'[u] # NoOne
          BY <1>0, <1>1, <1>3, <3>1 DEF IsInvited, TypeInv
      <4> QED
          BY <1>19, <2>1, <3>1, <4>1 DEF Amount
    <3>2. CASE ~IsInvited(c, u)
      <4>1. referred'[u] = referred[u]
          BY <1>1, <3>2 DEF IsInvited, TypeInv
      <4> QED
          BY <1>19, <2>1, <3>2, <4>1 DEF Amount
    <3> QED
        BY <3>1, <3>2
  <2>3. Cardinality(EntriesOf(u, "referral_inviter")') = Cardinality(Invitees(u)')
      BY <1>19, <1>20, <2>1
  <2>4. Cardinality(EntriesOf(u, "signup_bonus")') =
            IF rows'[u] # Missing /\ rows'[u].bonus THEN 1 ELSE 0
    <3>1. CASE u \notin K
        BY <1>6, <1>19, <2>1, <3>1 DEF GetsBonus, Amount
    <3>2. CASE u \in K
      <4>1. rows'[u] = new(u) /\ new(u) # Missing
          BY <1>6, <3>2
      <4>2. /\ new(u).bonus \in BOOLEAN /\ Base(u).bonus \in BOOLEAN
            /\ new(u).bonus = (Base(u).bonus \/ Kind[c] # "apply")
            /\ rows[u] = Missing => ~Base(u).bonus
        <5>1. new(u) \in AccountRow /\ Base(u) \in AccountRow
            BY <1>5, <3>2 DEF Effected, Sound, Base, RowsInv, NewAccount, AccountRow
        <5>2. rows[u] = Missing => ~Base(u).bonus
            BY DEF Base, NewAccount
        <5> QED
            BY <1>5, <3>2, <5>1, <5>2 DEF Effected, AccountRow
      <4>3. rows[u] # Missing => Base(u) = rows[u]
          BY DEF Base
      <4> QED
          BY <1>19, <2>1, <3>2, <4>1, <4>2, <4>3 DEF GetsBonus, Amount
    <3> QED
        BY <3>1, <3>2
  <2> QED
      BY <2>2, <2>3, <2>4
<1>23. NewsKept'
  <2> SUFFICES ASSUME NEW u \in Users
               PROVE  /\ Cardinality(EntriesOf(u, "referral_inviter")') * REFERRAL_TOKENS =
                            reported'[u].referral + Base(u).referralNews'
                      /\ Base(u).referralCount' * REFERRAL_TOKENS = Base(u).referralNews'
                      /\ Cardinality(EntriesOf(u, "signup_bonus")') * SIGNUP_BONUS_TOKENS =
                            reported'[u].bonus + Base(u).bonusNews'
    <3>1. /\ NewAccount.referralNews = 0 /\ NewAccount.referralCount = 0
          /\ NewAccount.bonusNews = 0
        BY DEF NewAccount
    <3> QED
        BY <3>1 DEF NewsKept, Base
  <2>1. /\ Cardinality(EntriesOf(u, "referral_inviter")) * REFERRAL_TOKENS =
              reported[u].referral + Base(u).referralNews
        /\ Base(u).referralCount * REFERRAL_TOKENS = Base(u).referralNews
        /\ Cardinality(EntriesOf(u, "signup_bonus")) * SIGNUP_BONUS_TOKENS =
              reported[u].bonus + Base(u).bonusNews
    <3>1. /\ NewAccount.referralNews = 0 /\ NewAccount.referralCount = 0
          /\ NewAccount.bonusNews = 0
        BY DEF NewAccount
    <3> QED
        BY <3>1 DEF NewsKept, Base
  <2>2. /\ Cardinality(EntriesOf(u, "referral_inviter")') * REFERRAL_TOKENS =
              reported[u].referral + Base(u).referralNews
                  + Amount(IsInviter(c, u), REFERRAL_TOKENS)
        /\ Cardinality(EntriesOf(u, "signup_bonus")') * SIGNUP_BONUS_TOKENS =
              reported[u].bonus + Base(u).bonusNews
                  + Amount(GetsBonus(c, u), SIGNUP_BONUS_TOKENS)
      BY <1>0, <1>18, <1>19, <2>1, Products DEF Rewards
  <2>3. CASE u \notin K
    <3>1. Base(u)' = Base(u) /\ u # a /\ ~IsInviter(c, u) /\ ~GetsBonus(c, u)
        BY <1>4, <1>6, <2>3 DEF Base, IsInviter, GetsBonus
    <3>2. reported'[u] = reported[u]
        BY <1>1, <3>1 DEF TypeInv
    <3>3. /\ reported[u].referral + Base(u).referralNews + 0 =
                reported[u].referral + Base(u).referralNews
          /\ reported[u].bonus + Base(u).bonusNews + 0 =
                reported[u].bonus + Base(u).bonusNews
      <4>1. reported[u] \in News /\ Base(u) \in AccountRow
          BY DEF TypeInv, Base, RowsInv, Sound, NewAccount, AccountRow
      <4> QED
          BY <4>1 DEF News, AccountRow
    <3>4. /\ Amount(IsInviter(c, u), REFERRAL_TOKENS) = 0
          /\ Amount(GetsBonus(c, u), SIGNUP_BONUS_TOKENS) = 0
        BY <3>1 DEF Amount
    <3> QED
        BY <2>1, <2>2, <3>1, <3>2, <3>3, <3>4
  <2>4. CASE u \in K
    <3>1. Base(u)' = new(u)
        BY <1>6, <2>4 DEF Base
    <3>2. new(u).referralCount * REFERRAL_TOKENS = new(u).referralNews
        BY <1>6, <2>4 DEF Sound
    <3>3. /\ reported'[u].referral = reported[u].referral + Amount(u = a, n.referral)
          /\ reported'[u].bonus = reported[u].bonus + Amount(u = a, n.bonus)
      <4>1. reported[u] \in News /\ reported[u].referral \in Nat /\ reported[u].bonus \in Nat
          BY DEF TypeInv, News
      <4> QED
          BY <1>1, <1>2, <4>1 DEF TypeInv, News, Amount
    <3>4. /\ Base(u).bonusNews + Amount(GetsBonus(c, u), SIGNUP_BONUS_TOKENS) =
                new(u).bonusNews + Amount(u = a, n.bonus)
          /\ Base(u).referralNews + Amount(IsInviter(c, u), REFERRAL_TOKENS) =
                new(u).referralNews + Amount(u = a, n.referral)
        BY <1>5, <2>4 DEF Effected, GetsBonus, IsInviter, Amount
    <3>5. /\ reported[u].referral \in Nat /\ reported[u].bonus \in Nat
          /\ Base(u).referralNews \in Nat /\ Base(u).bonusNews \in Nat
          /\ new(u).referralNews \in Nat /\ new(u).bonusNews \in Nat
          /\ Amount(u = a, n.referral) \in Nat /\ Amount(u = a, n.bonus) \in Nat
          /\ Amount(IsInviter(c, u), REFERRAL_TOKENS) \in Nat
          /\ Amount(GetsBonus(c, u), SIGNUP_BONUS_TOKENS) \in Nat
      <4>1. reported[u] \in News /\ Base(u) \in AccountRow /\ new(u) \in AccountRow
          BY <1>6, <2>4 DEF TypeInv, Base, RowsInv, Sound, NewAccount, AccountRow
      <4>2. \A b, m : m \in Nat => Amount(b, m) \in Nat
          BY DEF Amount
      <4> QED
          BY <1>0, <1>2, <4>1, <4>2 DEF News, AccountRow
    <3>6. /\ reported[u].referral + Base(u).referralNews
                  + Amount(IsInviter(c, u), REFERRAL_TOKENS) =
                reported'[u].referral + new(u).referralNews
          /\ reported[u].bonus + Base(u).bonusNews
                  + Amount(GetsBonus(c, u), SIGNUP_BONUS_TOKENS) =
                reported'[u].bonus + new(u).bonusNews
      <4>1. ASSUME NEW p \in Nat, NEW b \in Nat, NEW g \in Nat, NEW q \in Nat,
                   NEW m \in Nat, b + g = q + m
            PROVE  p + b + g = (p + m) + q
          BY <4>1
      <4>2. reported[u].referral + Base(u).referralNews
                + Amount(IsInviter(c, u), REFERRAL_TOKENS) =
              (reported[u].referral + Amount(u = a, n.referral)) + new(u).referralNews
          BY <3>4, <3>5, <4>1
      <4>3. reported[u].bonus + Base(u).bonusNews
                + Amount(GetsBonus(c, u), SIGNUP_BONUS_TOKENS) =
              (reported[u].bonus + Amount(u = a, n.bonus)) + new(u).bonusNews
          BY <3>4, <3>5, <4>1
      <4> QED
          BY <3>3, <4>2, <4>3
    <3> QED
        BY <2>2, <3>1, <3>2, <3>6
  <2> QED
      BY <2>3, <2>4
<1> QED
    BY <1>9, <1>10, <1>11, <1>12, <1>13, <1>21, <1>22, <1>23

LEMMA LockStep ==
    ASSUME TokensInv, NEW c \in Calls, Lock(c)
    PROVE  TokensInv'
<1> DEFINE u == RowOf(c)
<1>1. pc[c] = "lock"
    BY DEF Lock
<1>2. CASE rows[u] = Missing
  <2>1. Goto(c, "insert")
      BY <1>2 DEF Lock
  <2>2. UNCHANGED <<rows, referred, ledger, reported, holder, claimer, side,
                    draft, added, taken>>
      BY <1>2 DEF Lock
  <2> QED
      BY <1>1, <2>1, <2>2, NoRowStep
<1>3. CASE rows[u] # Missing
  <2>1. /\ holder[RowOf(c)] = NoOne /\ Perform(c, Base(RowOf(c)), {})
        /\ UNCHANGED <<rows, referred, ledger, reported, claimer>>
      BY <1>3 DEF Lock, Free, Base
  <2>2. {} \in SUBSET Plain(c, RowOf(c)) /\ pc[c] \in {"lock", "insert"}
      BY <1>1
  <2> QED
      BY <2>1, <2>2, PerformStep
<1> QED
    BY <1>2, <1>3

LEMMA InsertStep ==
    ASSUME TokensInv, NEW c \in Calls, Insert(c)
    PROVE  TokensInv'
<1> DEFINE u == RowOf(c)
           e == {Entry(c, u, "balance_init", 0)}
<1>1. pc[c] = "insert" /\ holder[RowOf(c)] = NoOne
    BY DEF Insert
<1>2. CASE rows[u] # Missing
  <2>1. Rollback(c) /\ pc[c] \in {"claim"} \cup Active
      BY <1>1, <1>2 DEF Insert, Active
  <2> QED
      BY <2>1, RollbackStep
<1>3. CASE rows[u] = Missing
  <2>1. Perform(c, Base(RowOf(c)), e) /\ UNCHANGED <<rows, referred, ledger, reported, claimer>>
      BY <1>3 DEF Insert, Base
  <2>2. e \in SUBSET Plain(c, RowOf(c)) /\ pc[c] \in {"lock", "insert"}
      BY <1>1 DEF Plain
  <2> HIDE DEF e
  <2> QED
      BY <1>1, <2>1, <2>2, PerformStep
<1> QED
    BY <1>2, <1>3

LEMMA TokensStutter ==
    ASSUME TokensInv, UNCHANGED vars
    PROVE  TokensInv'
<1> USE DEF vars
<1>1. \A c \in Calls : Changed(c)' = Changed(c) /\ Behind(c)' = Behind(c)
    BY DEF Changed, Behind
<1>2. TypeInv' /\ PathInv' /\ HoldInv'
    BY <1>1 DEF TokensInv, TypeInv, PathInv, HoldInv
<1>3. WorkInv'
    BY <1>1 DEF TokensInv, WorkInv, Effected, Sound, Base
<1>4. RowsInv' /\ LedgerInv' /\ RewardedOnce' /\ NewsKept'
    BY DEF TokensInv, RowsInv, Sound, LedgerInv, RewardedOnce, NewsKept,
           EntriesOf, Invitees
<1> QED
    BY <1>2, <1>3, <1>4 DEF TokensInv

LEMMA TokensNextStep ==
    ASSUME TokensInv, [Next]_vars
    PROVE  TokensInv'
<1>1. ASSUME NEW c \in Calls, Progress(c) \/ Fail(c)
      PROVE  TokensInv'
  <2>1. CASE Start(c)
      BY <2>1, StartStep
  <2>2. CASE ClaimReferral(c)
      BY <2>2, ClaimStep
  <2>3. CASE Lock(c)
      BY <2>3, LockStep
  <2>4. CASE Insert(c)
      BY <2>4, InsertStep
  <2>5. CASE Commit(c)
      BY <2>5, CommitStep
  <2>6. CASE AbortDeadlock(c)
    <3>1. pc[c] \in {"claim"} \cup Active /\ Rollback(c)
        BY <2>6 DEF AbortDeadlock, Deadlocked, Waiting, WaitsFor, Active
    <3> QED
        BY <3>1, RollbackStep
  <2>7. CASE Fail(c)
    <3>1. pc[c] \in {"claim"} \cup Active /\ Rollback(c)
        BY <2>7 DEF Fail, TokensInv, TypeInv, Ended
    <3> QED
        BY <3>1, RollbackStep
  <2> QED
      BY <1>1, <2>1, <2>2, <2>3, <2>4, <2>5, <2>6, <2>7 DEF Progress
<1> QED
    BY <1>1, TokensStutter DEF Next

\* The invariant of the token accounts, for any users, calls and amounts.
THEOREM TokensInvariant == Spec => []TokensInv
<1> QED
    BY TokensInit, TokensNextStep, PTL DEF Spec

\* However requests interleave, fail and deadlock: one reward per referral
\* code and user, both sides of it or none, and one sign-up bonus, as the rows
\* and users.referred_by_user_id say (users/referral.py:52, 75-85;
\* tokens/service.py:225-226).
THEOREM RewardsPaidOnce == Spec => []RewardedOnce
<1>1. TokensInv => RewardedOnce
    BY DEF TokensInv
<1> QED
    BY <1>1, TokensInvariant, PTL

\* Every reward that was granted elsewhere is reported once or still in the
\* row: no claim and no credit of another transaction loses one
\* (tokens/service.py:117-119, 255).
THEOREM NewsReportedOnce == Spec => []NewsKept
<1>1. TokensInv => NewsKept
    BY DEF TokensInv
<1> QED
    BY <1>1, TokensInvariant, PTL

\* The lock protects what a transaction read: a row that a call has changed and
\* not committed is written by no other commit (tokens/service.py:39-41).
HeldRowKept ==
    \A c \in Calls, u \in Users :
        holder[u] = c /\ rows'[u] # rows[u] => pc'[c] = "answered"
THEOREM HeldRowsKept == Spec => [][HeldRowKept]_vars
<1>1. ASSUME TokensInv, [Next]_vars
      PROVE  [HeldRowKept]_vars
  <2> SUFFICES ASSUME Next PROVE HeldRowKept
      BY <1>1
  <2> SUFFICES ASSUME NEW c \in Calls, NEW u \in Users, holder[u] = c, rows'[u] # rows[u]
               PROVE  pc'[c] = "answered"
      BY DEF HeldRowKept
  <2>1. PICK d \in Calls : Progress(d) \/ Fail(d)
      BY DEF Next
  <2>2. Commit(d)
      BY <2>1 DEF Progress, Fail, Start, ClaimReferral, Lock, Insert, AbortDeadlock, Rollback
  <2>3. u \in Changed(d) /\ pc[d] # "answered"
      BY <2>2, <1>1 DEF Commit, Changed
  <2>4. d = c
      BY <1>1, <2>3 DEF TokensInv, HoldInv
  <2> QED
      BY <1>1, <2>2, <2>4 DEF Commit, Goto, TokensInv, TypeInv
<1> QED
    BY <1>1, TokensInvariant, PTL DEF Spec

----------------------------------------------------------------------------
(* The calendar. *)

LEMMA MonthLengths ==
    ASSUME NEW m
    PROVE  MonthLength(m) \in 28 .. 31
<1> QED
    BY DEF MonthLength

\* Dates are in order.
LEMMA DateOrder ==
    ASSUME NEW a \in Dates, NEW b \in Dates, NEW c \in Dates
    PROVE  /\ NotAfter(a, b) <=> ~Before(b, a)
           /\ NotAfter(a, b) /\ NotAfter(b, c) => NotAfter(a, c)
           /\ NotAfter(a, b) /\ Before(b, c) => Before(a, c)
           /\ Before(a, b) /\ NotAfter(b, c) => Before(a, c)
<1>1. \A x, y \in Dates : x = y <=> x.month = y.month /\ x.day = y.day
    BY DEF Dates
<1>2. \A x \in Dates : x.month \in Int /\ x.day \in Int
    BY DEF Dates
<1> QED
    BY <1>1, <1>2 DEF NotAfter, Before

LEMMA DateFields ==
    ASSUME NEW m \in Int, NEW d \in 1 .. 31
    PROVE  /\ Date(m, d) \in Dates /\ Date(m, d).month = m /\ Date(m, d).day = d
<1> QED
    BY DEF Date, Dates

LEMMA AnchorDay ==
    ASSUME NEW day \in 1 .. 31, NEW m
    PROVE  /\ Anchor(day, m) \in 1 .. 31 /\ Anchor(day, m) <= MonthLength(m)
           /\ Anchor(day, m) = Smaller(day, MonthLength(m))
           /\ day <= MonthLength(m) => Anchor(day, m) = day
<1> QED
    BY MonthLengths DEF Anchor, Smaller

Anniversary(day, m) == Date(m, Anchor(day, m))

LEMMA AnniversaryFields ==
    ASSUME NEW day \in 1 .. 31, NEW m \in Int
    PROVE  /\ Anniversary(day, m) \in Dates
           /\ Anniversary(day, m).month = m
           /\ Anniversary(day, m).day = Anchor(day, m)
<1> QED
    BY AnchorDay, DateFields DEF Anniversary

\* A period starts with the latest anniversary that is not in the future.
LEMMA PeriodStarts ==
    ASSUME NEW day \in 1 .. 31, NEW t \in Dates, InItsMonth(t),
           NEW s, s = StartOf(day, t)
    PROVE  /\ s \in Dates /\ s.month \in {t.month - 1, t.month}
           /\ s = Anniversary(day, s.month)
           /\ NotAfter(s, t)
           /\ Before(t, Anniversary(day, s.month + 1))
<1>1. t.month \in Int /\ t.month - 1 \in Int /\ t.month + 1 \in Int /\ t.day \in 1 .. 31
    BY DEF Dates
<1>2. CASE Anchor(day, t.month) <= t.day
  <2>1. s = Anniversary(day, t.month)
      BY <1>2 DEF StartOf, Anniversary
  <2>2. s \in Dates /\ s.month = t.month /\ s.day = Anchor(day, t.month)
      BY <1>1, <2>1, AnniversaryFields
  <2>3. ~Before(t, s)
      BY <1>1, <1>2, <2>2, AnchorDay DEF Before
  <2>4. NotAfter(s, t)
      BY <2>2, <2>3, DateOrder
  <2>5. Anniversary(day, t.month + 1).month = t.month + 1
      BY <1>1, AnniversaryFields
  <2>6. Before(t, Anniversary(day, t.month + 1))
      BY <1>1, <2>5 DEF Before
  <2> QED
      BY <2>1, <2>2, <2>4, <2>6
<1>3. CASE ~(Anchor(day, t.month) <= t.day)
  <2>1. s = Anniversary(day, t.month - 1)
      BY <1>3 DEF StartOf, Anniversary
  <2>2. s \in Dates /\ s.month = t.month - 1
      BY <1>1, <2>1, AnniversaryFields
  <2>3. NotAfter(s, t)
      BY <1>1, <2>2 DEF NotAfter, Before
  <2>4. Before(t, Anniversary(day, t.month))
    <3>1. /\ Anniversary(day, t.month).month = t.month
          /\ Anniversary(day, t.month).day = Anchor(day, t.month)
        BY <1>1, AnniversaryFields
    <3>2. Anchor(day, t.month) \in 1 .. 31
        BY AnchorDay
    <3> QED
        BY <1>1, <1>3, <3>1, <3>2 DEF Before
  <2>5. (t.month - 1) + 1 = t.month
      BY <1>1
  <2> QED
      BY <2>1, <2>2, <2>3, <2>4, <2>5
<1> QED
    BY <1>2, <1>3

LEMMA NextDay ==
    ASSUME NEW t \in Dates, InItsMonth(t)
    PROVE  /\ NextDate(t) \in Dates /\ InItsMonth(NextDate(t))
           /\ Before(t, NextDate(t))
<1>1. t.month \in Int /\ t.month + 1 \in Int /\ t.day \in 1 .. 31
    BY DEF Dates
<1>2. CASE t.day < MonthLength(t.month)
  <2>1. t.day + 1 \in 1 .. 31 /\ t.day + 1 <= MonthLength(t.month)
      BY <1>1, <1>2, MonthLengths
  <2>2. NextDate(t) = Date(t.month, t.day + 1)
      BY <1>2 DEF NextDate
  <2>3. /\ NextDate(t) \in Dates /\ NextDate(t).month = t.month
        /\ NextDate(t).day = t.day + 1
      BY <1>1, <2>1, <2>2 DEF Date, Dates
  <2> QED
      BY <1>1, <2>1, <2>3 DEF InItsMonth, Before
<1>3. CASE ~(t.day < MonthLength(t.month))
  <2>1. NextDate(t) = Date(t.month + 1, 1)
      BY <1>3 DEF NextDate
  <2>2. 1 <= MonthLength(t.month + 1)
      BY MonthLengths
  <2>3. /\ NextDate(t) \in Dates /\ NextDate(t).month = t.month + 1
        /\ NextDate(t).day = 1
      BY <1>1, <2>1 DEF Date, Dates
  <2> QED
      BY <1>1, <2>2, <2>3 DEF InItsMonth, Before
<1> QED
    BY <1>2, <1>3

\* 31 days end before the second anniversary after them.
LEMMA Later31 ==
    ASSUME NEW t \in Dates, InItsMonth(t)
    PROVE  /\ Later(t, 31) \in Dates
           /\ Before(Later(t, 31), Anniversary(t.day, t.month + 2))
<1> DEFINE d == t.day + 31
           l == MonthLength(t.month)
           k == MonthLength(t.month + 1)
<1>1. /\ t.month \in Int /\ t.month + 1 \in Int /\ t.month + 2 \in Int
      /\ t.day \in 1 .. 31 /\ t.day <= l
    BY DEF Dates, InItsMonth
<1>2. l \in 28 .. 31 /\ k \in 28 .. 31 /\ MonthLength(t.month + 2) \in 28 .. 31
    BY MonthLengths
<1>3. ~(d <= l)
    BY <1>1, <1>2
<1>4. Later(t, 31) = IF d - l <= k THEN Date(t.month + 1, d - l)
                     ELSE Date(t.month + 2, d - l - k)
    BY <1>3 DEF Later
<1>5. /\ Anniversary(t.day, t.month + 2).month = t.month + 2
      /\ Anniversary(t.day, t.month + 2).day = Smaller(t.day, MonthLength(t.month + 2))
  <2>1. /\ Anniversary(t.day, t.month + 2).month = t.month + 2
        /\ Anniversary(t.day, t.month + 2).day = Anchor(t.day, t.month + 2)
      BY <1>1, AnniversaryFields
  <2>2. Anchor(t.day, t.month + 2) = Smaller(t.day, MonthLength(t.month + 2))
      BY DEF Anchor
  <2> QED
      BY <2>1, <2>2
<1>6. CASE d - l <= k
  <2>1. d - l \in 1 .. 31
      BY <1>1, <1>2, <1>6
  <2>2. Later(t, 31) = Date(t.month + 1, d - l)
      BY <1>4, <1>6
  <2>3. Later(t, 31) \in Dates /\ Later(t, 31).month = t.month + 1
    <3> HIDE DEF d, l
    <3> QED
        BY <1>1, <2>1, <2>2, DateFields
  <2> QED
      BY <1>1, <1>5, <2>3 DEF Before
<1>7. CASE ~(d - l <= k)
  <2>1. /\ d - l - k \in 1 .. 31
        /\ d - l - k < Smaller(t.day, MonthLength(t.month + 2))
      BY <1>1, <1>2, <1>7 DEF Smaller
  <2>2. Later(t, 31) = Date(t.month + 2, d - l - k)
      BY <1>4, <1>7
  <2>3. /\ Later(t, 31) \in Dates /\ Later(t, 31).month = t.month + 2
        /\ Later(t, 31).day = d - l - k
    <3> DEFINE x == d - l - k
    <3>1. x \in 1 .. 31 /\ Later(t, 31) = Date(t.month + 2, x)
        BY <2>1, <2>2
    <3> HIDE DEF x
    <3>2. /\ Later(t, 31) \in Dates /\ Later(t, 31).month = t.month + 2
          /\ Later(t, 31).day = x
        BY <1>1, <3>1 DEF Date, Dates
    <3> QED
        BY <3>2 DEF x
  <2> QED
      BY <1>1, <1>5, <2>1, <2>3 DEF Before
<1> QED
    BY <1>6, <1>7

----------------------------------------------------------------------------
(* The grants of a payment. *)

CalendarTypeOK ==
    /\ today \in Dates /\ InItsMonth(today)
    /\ sub \in [active : BOOLEAN, plan : {"free", "lite"}, started : Dates, expires : Dates]
    /\ InItsMonth(sub.started)
    /\ lastGrant \in Dates \cup {Never} /\ lastStart \in Dates \cup {Never}
    /\ paidGrants \in Nat

\* The first period of a payment starts with it, the next one a month later.
SecondStart == Anniversary(sub.started.day, sub.started.month + 1)

GrantsInv ==
    /\ CalendarTypeOK
    /\ NotAfter(sub.started, today)
    /\ sub.active => sub.expires = Later(sub.started, 31)
    /\ lastGrant # Never => /\ lastStart \in Dates
                            /\ NotAfter(lastStart, lastGrant)
                            /\ NotAfter(lastGrant, today)
    /\ paidGrants <= 2
    /\ sub.active /\ paidGrants >= 1 => /\ lastGrant # Never
                                        /\ NotAfter(sub.started, lastGrant)
    /\ sub.active /\ paidGrants = 2 => NotAfter(SecondStart, lastGrant)

\* A visit during a subscription is in one of its first two periods.
LEMMA StartsOfPayment ==
    ASSUME GrantsInv, sub.active, NotAfter(today, sub.expires),
           NEW s, s = StartOf(sub.started.day, today)
    PROVE  s \in {sub.started, SecondStart} /\ NotAfter(sub.started, SecondStart)
<1> DEFINE a == sub.started
           day == a.day
<1>1. /\ a \in Dates /\ InItsMonth(a) /\ today \in Dates /\ InItsMonth(today)
      /\ NotAfter(a, today) /\ sub.expires = Later(a, 31)
    BY DEF GrantsInv, CalendarTypeOK
<1>2. a.month \in Int /\ day \in 1 .. 31 /\ today.month \in Int
      /\ a.month + 1 \in Int /\ a.month + 2 \in Int
    BY <1>1 DEF Dates
<1> HIDE DEF a
<1>3. /\ s \in Dates /\ s = Anniversary(day, s.month) /\ NotAfter(s, today)
      /\ Before(today, Anniversary(day, s.month + 1))
    BY <1>1, <1>2, PeriodStarts DEF a
<1>4. a = Anniversary(day, a.month)
  <2>1. Anniversary(day, a.month).month = a.month /\ Anniversary(day, a.month).day = day
        /\ Anniversary(day, a.month) \in Dates
    <3>1. Anchor(day, a.month) = day
        BY <1>1, <1>2, AnchorDay DEF InItsMonth
    <3> QED
        BY <1>2, <3>1, AnniversaryFields
  <2> QED
      BY <1>1, <2>1 DEF Dates
<1>5. s.month \in Int /\ s.month + 1 \in Int
    BY <1>3 DEF Dates
<1>6. s.month < a.month + 2
  <2>1. /\ Later(a, 31) \in Dates /\ Before(Later(a, 31), Anniversary(day, a.month + 2))
        /\ Anniversary(day, a.month + 2) \in Dates
      BY <1>1, <1>2, Later31, AnniversaryFields
  <2>2. NotAfter(s, Later(a, 31))
      BY <1>1, <1>3, <2>1, DateOrder
  <2>3. Before(s, Anniversary(day, a.month + 2))
      BY <1>3, <2>1, <2>2, DateOrder
  <2>4. /\ s.month = a.month + 2 => s = Anniversary(day, a.month + 2)
        /\ Anniversary(day, a.month + 2).month = a.month + 2
      BY <1>2, <1>3, AnniversaryFields
  <2>5. \A x \in Dates : ~Before(x, x)
      BY DEF Before, Dates
  <2> QED
      BY <1>2, <1>3, <1>5, <2>3, <2>4, <2>5 DEF Before
<1>7. a.month <= s.month
  <2>1. Anniversary(day, s.month + 1) \in Dates /\ Anniversary(day, s.month + 1).month = s.month + 1
      BY <1>2, <1>5, AnniversaryFields
  <2>2. Before(a, Anniversary(day, s.month + 1))
      BY <1>1, <1>3, <2>1, DateOrder
  <2>3. a.month # s.month + 1
    <3>1. \A x \in Dates : ~Before(x, x)
        BY DEF Before, Dates
    <3> QED
        BY <1>1, <1>4, <2>2, <3>1
  <2> QED
      BY <1>2, <1>5, <2>1, <2>2, <2>3 DEF Before
<1>8. s.month = a.month \/ s.month = a.month + 1
    BY <1>2, <1>5, <1>6, <1>7
<1>9. NotAfter(a, Anniversary(day, a.month + 1))
  <2>1. Anniversary(day, a.month + 1).month = a.month + 1
      BY <1>2, AnniversaryFields
  <2> QED
      BY <1>2, <2>1 DEF NotAfter, Before
<1> QED
    BY <1>3, <1>4, <1>8, <1>9 DEF SecondStart, a

LEMMA CalendarStart == CalendarInit => GrantsInv
<1> SUFFICES ASSUME CalendarInit PROVE GrantsInv
    OBVIOUS
<1>1. sub.active = FALSE /\ sub.plan = "free" /\ sub.started = FirstDate
      /\ sub \in [active : BOOLEAN, plan : {"free", "lite"}, started : Dates, expires : Dates]
    BY BillingCalendarAssumption DEF CalendarInit, NoSub
<1> QED
    BY <1>1, BillingCalendarAssumption
    DEF CalendarInit, GrantsInv, CalendarTypeOK, NotAfter

LEMMA MidnightStep ==
    ASSUME GrantsInv, Midnight
    PROVE  GrantsInv'
<1>1. /\ today' = NextDate(today)
      /\ UNCHANGED <<sub, lastGrant, lastStart, paidGrants>>
    BY DEF Midnight
<1>2. today \in Dates /\ InItsMonth(today)
    BY DEF GrantsInv, CalendarTypeOK
<1>3. today' \in Dates /\ InItsMonth(today)' /\ Before(today, today')
    BY <1>1, <1>2, NextDay DEF InItsMonth
<1>4. \A a \in Dates : NotAfter(a, today) => NotAfter(a, today')
    BY <1>2, <1>3, DateOrder DEF NotAfter
<1>5. sub.started \in Dates /\ lastGrant \in Dates \cup {Never}
    BY DEF GrantsInv, CalendarTypeOK
<1>6. CalendarTypeOK'
    BY <1>1, <1>3 DEF GrantsInv, CalendarTypeOK, InItsMonth
<1>7. SecondStart' = SecondStart
    BY <1>1 DEF SecondStart
<1> QED
    BY <1>1, <1>4, <1>5, <1>6, <1>7 DEF GrantsInv

LEMMA PayStep ==
    ASSUME GrantsInv, Pay("lite")
    PROVE  GrantsInv'
<1>1. /\ sub' = [active |-> TRUE, plan |-> "lite", started |-> today,
                 expires |-> Later(today, 31)]
      /\ paidGrants' = 0 /\ UNCHANGED <<today, lastGrant, lastStart>>
    BY DEF Pay
<1>2. today \in Dates /\ InItsMonth(today) /\ Later(today, 31) \in Dates
    BY Later31 DEF GrantsInv, CalendarTypeOK
<1>3. sub'.started = today /\ sub'.expires = Later(today, 31)
      /\ sub' \in [active : BOOLEAN, plan : {"free", "lite"}, started : Dates, expires : Dates]
    BY <1>1, <1>2
<1>4. CalendarTypeOK'
    BY <1>1, <1>2, <1>3 DEF GrantsInv, CalendarTypeOK, InItsMonth
<1> QED
    BY <1>1, <1>3, <1>4 DEF GrantsInv, NotAfter

LEMMA EndStep ==
    ASSUME GrantsInv, End
    PROVE  GrantsInv'
<1>1. /\ sub' = [sub EXCEPT !.active = FALSE]
      /\ UNCHANGED <<today, lastGrant, lastStart, paidGrants>>
    BY DEF End
<1>2. sub'.active = FALSE /\ sub'.started = sub.started
      /\ sub' \in [active : BOOLEAN, plan : {"free", "lite"}, started : Dates, expires : Dates]
    BY <1>1 DEF GrantsInv, CalendarTypeOK
<1>3. CalendarTypeOK'
    BY <1>1, <1>2 DEF GrantsInv, CalendarTypeOK, InItsMonth
<1> QED
    BY <1>1, <1>2, <1>3 DEF GrantsInv

LEMMA VisitStep ==
    ASSUME GrantsInv, Visit
    PROVE  GrantsInv' /\ (lastGrant # Never => Before(lastStart, lastStart'))
<1> DEFINE start == PeriodStart(sub, today)
<1>1. /\ Current /\ ~Granted(start)
      /\ lastGrant' = today /\ lastStart' = start
      /\ paidGrants' = paidGrants + (IF sub.active THEN 1 ELSE 0)
      /\ UNCHANGED <<today, sub>>
    BY DEF Visit
<1>2. /\ today \in Dates /\ InItsMonth(today) /\ sub.started \in Dates
      /\ sub.started.day \in 1 .. 31 /\ today.month \in Int /\ today.day \in 1 .. 31
      /\ paidGrants \in Nat /\ lastGrant \in Dates \cup {Never}
      /\ sub.active \in BOOLEAN
    BY DEF GrantsInv, CalendarTypeOK, Dates
<1>3. start \in Dates /\ NotAfter(start, today)
  <2>1. CASE sub.active
      BY <1>2, <2>1, PeriodStarts DEF PeriodStart
  <2>2. CASE ~sub.active
    <3>1. start = Date(today.month, 1)
        BY <2>2 DEF PeriodStart
    <3>2. start \in Dates /\ start.month = today.month /\ start.day = 1
        BY <1>2, <3>1 DEF Date, Dates
    <3>3. ~Before(today, start)
        BY <1>2, <3>2 DEF Before
    <3> QED
        BY <1>2, <3>2, <3>3, DateOrder
  <2> QED
      BY <1>2, <2>1, <2>2
<1> HIDE DEF start
<1>4. lastGrant # Never => Before(lastGrant, start) /\ ~NotAfter(start, lastGrant)
    BY <1>1, <1>2, <1>3, DateOrder DEF Granted
<1>5. lastGrant # Never => Before(lastStart, lastStart')
    BY <1>1, <1>2, <1>3, <1>4, DateOrder DEF GrantsInv
<1>6. CalendarTypeOK'
    BY <1>1, <1>2, <1>3 DEF GrantsInv, CalendarTypeOK, InItsMonth
<1>7. NotAfter(today, today) /\ lastGrant' # Never
    BY <1>1, <1>2, BillingCalendarAssumption DEF NotAfter
<1>8. SecondStart' = SecondStart
    BY <1>1 DEF SecondStart
<1>9. CASE ~sub.active
  <2>1. paidGrants' = paidGrants
      BY <1>1, <1>2, <1>9
  <2> QED
      BY <1>1, <1>3, <1>5, <1>6, <1>7, <1>9, <2>1 DEF GrantsInv
<1>10. CASE sub.active
  <2>1. start \in {sub.started, SecondStart} /\ NotAfter(sub.started, SecondStart)
      BY <1>1, <1>10, StartsOfPayment DEF Current, PeriodStart, start
  <2>2. SecondStart \in Dates
    <3>1. sub.started.month + 1 \in Int
        BY <1>2 DEF Dates
    <3> QED
        BY <1>2, <3>1, AnniversaryFields DEF SecondStart
  <2>3. paidGrants' = paidGrants + 1
      BY <1>1, <1>10
  <2>4. NotAfter(sub.started, today)
      BY DEF GrantsInv
  <2>5. CASE paidGrants = 0
      BY <1>1, <1>3, <1>5, <1>6, <1>7, <1>10, <2>3, <2>4, <2>5 DEF GrantsInv
  <2>6. CASE paidGrants = 1
    <3>1. start = SecondStart
        BY <1>4, <1>10, <2>1, <2>6 DEF GrantsInv
    <3>2. NotAfter(SecondStart', lastGrant')
        BY <1>1, <1>3, <1>8, <3>1
    <3> QED
        BY <1>1, <1>3, <1>5, <1>6, <1>7, <1>10, <2>3, <2>4, <2>6, <3>2 DEF GrantsInv
  <2>7. CASE paidGrants = 2
    <3>1. /\ lastGrant # Never /\ lastGrant \in Dates
          /\ NotAfter(sub.started, lastGrant) /\ NotAfter(SecondStart, lastGrant)
        BY <1>2, <1>10, <2>7 DEF GrantsInv
    <3> QED
        BY <1>4, <2>1, <3>1
  <2>8. paidGrants \in 0 .. 2
      BY <1>2 DEF GrantsInv
  <2> QED
      BY <1>5, <2>5, <2>6, <2>7, <2>8
<1> QED
    BY <1>2, <1>9, <1>10, <1>5

LEMMA CalendarNextStep ==
    ASSUME GrantsInv, [CalendarNext]_cvars
    PROVE  /\ GrantsInv'
           /\ lastGrant' # lastGrant /\ lastGrant # Never => Before(lastStart, lastStart')
<1>1. CASE Midnight
    BY <1>1, MidnightStep DEF Midnight
<1>2. CASE Pay("lite")
    BY <1>2, PayStep DEF Pay
<1>3. CASE End
    BY <1>3, EndStep DEF End
<1>4. CASE Visit
    BY <1>4, VisitStep
<1>5. CASE UNCHANGED cvars
    BY <1>5 DEF cvars, GrantsInv, CalendarTypeOK, InItsMonth, SecondStart
<1> QED
    BY <1>1, <1>2, <1>3, <1>4, <1>5 DEF CalendarNext

\* The invariant of the billing periods, for any dates.
THEOREM GrantsInvariant == CalendarSpec => []GrantsInv
<1> QED
    BY CalendarStart, CalendarNextStep, PTL DEF CalendarSpec

\* 31 days never hold three starts of a period: a payment brings its plan's
\* tokens at most twice, whenever it is made (payment/service.py:651).
THEOREM AtMostTwoGrants == CalendarSpec => []TwoGrantsPerPayment
<1>1. GrantsInv => TwoGrantsPerPayment
    BY DEF GrantsInv, TwoGrantsPerPayment
<1> QED
    BY <1>1, GrantsInvariant, PTL

\* Each grant belongs to a later period than the one before it, whatever was
\* paid, cancelled or expired in between (tokens/service.py:197-199).
THEOREM GrantsOfLaterPeriods == CalendarSpec => GrantsAdvance
<1>1. ASSUME GrantsInv, [CalendarNext]_cvars
      PROVE  [lastGrant' # lastGrant /\ lastGrant # Never =>
                 Before(lastStart, lastStart')]_cvars
    BY <1>1, CalendarNextStep
<1> QED
    BY <1>1, GrantsInvariant, PTL DEF CalendarSpec, GrantsAdvance

\* On every day, for every day of the month that anchors the periods, the
\* period starts on the latest anniversary that is not in the future, leap
\* years and short months included (tokens/service.py:156-176).
THEOREM PeriodsWithoutGaps == CalendarSpec => []PeriodIsLatestAnniversary
<1>1. GrantsInv => PeriodIsLatestAnniversary
  <2> SUFFICES ASSUME today \in Dates, InItsMonth(today), NEW day \in 1 .. 31
               PROVE  LET s == StartOf(day, today)
                          anniversary(m) == Date(m, Smaller(day, MonthLength(m)))
                      IN  /\ s.day \in 1 .. MonthLength(s.month)
                          /\ \E m \in {today.month - 1, today.month} : s = anniversary(m)
                          /\ NotAfter(s, today) /\ Before(today, anniversary(s.month + 1))
      BY DEF GrantsInv, CalendarTypeOK, PeriodIsLatestAnniversary
  <2> DEFINE s == StartOf(day, today)
  <2>1. /\ s \in Dates /\ s.month \in {today.month - 1, today.month}
        /\ s = Anniversary(day, s.month) /\ NotAfter(s, today)
        /\ Before(today, Anniversary(day, s.month + 1))
      BY PeriodStarts
  <2>2. \A m : Anniversary(day, m) = Date(m, Smaller(day, MonthLength(m)))
      BY DEF Anniversary, Anchor
  <2>3. s.day \in 1 .. MonthLength(s.month)
    <3>1. s.month \in Int /\ s.day = Anchor(day, s.month)
        BY <2>1, AnniversaryFields DEF Dates
    <3> QED
        BY <3>1, AnchorDay, MonthLengths
  <2> HIDE DEF s
  <2> QED
      BY <2>1, <2>2, <2>3 DEF s
<1> QED
    BY <1>1, GrantsInvariant, PTL
====
