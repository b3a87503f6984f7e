----------------------------- MODULE AuthProofs -----------------------------
(***************************************************************************)
(* Proofs about AuthSessions, for every set of calls, addresses and clock  *)
(* bounds, and about SigningKeys, for every set of keys and verifications  *)
(* and every lifetime of the cache.                                        *)
(*                                                                         *)
(* That an account stays deleted is decided by what a session writes: the  *)
(* columns that changed since it loaded the row.  Only a login sets the    *)
(* column active to TRUE, and it gets there with a row it found deleted    *)
(* (LoginInv).  The rest of AuthInv says which tokens and rows the calls   *)
(* in flight may hold.                                                     *)
(*                                                                         *)
(* A token that has been rotated is stored again only by a call that has   *)
(* signed the same token: who signed it first has ended by then            *)
(* (RotationInv).                                                          *)
(*                                                                         *)
(* A response of a provider may come late and replace a younger cache, so  *)
(* what the cache holds says little about now.  What holds of a response   *)
(* on its way is relative to the request: its keys were served after the   *)
(* time it will be dated with (ArrivingInv), and the key of a token that   *)
(* has been served all the while is among them (SteadyInv).                *)
(***************************************************************************)
EXTENDS AuthSessions, SigningKeys, TLAPS

\* Where a login has not inserted a row yet.
Before == {"start", "provider", "find", "insert"}

\* A call that logs in, and the row it is about to reactivate.
LoginInv ==
    \A c \in AuthCalls :
        /\ stage[c] \in {"provider", "find", "reactivate", "insert", "conflict"} =>
              c \in Logins
        /\ stage[c] = "reactivate" => ~inHand[c].active
        /\ c \in DOMAIN users => stage[c] \notin Before

\* The refresh tokens on their way to a client belong to an account.
TokenInv ==
    /\ \A c \in AuthCalls : stage[c] \in {"store", "code"} =>
          token[c] \in Tokens /\ token[c].user \in DOMAIN users
    /\ \A c \in AuthCalls : stage[c] = "code" => AuthKind[c] = "callback"
    /\ \A k \in codes : /\ stage[k] = "answered"
                        /\ token[k] \in Tokens /\ token[k].user \in DOMAIN users

\* What a call was sent.
InputOK ==
    /\ DOMAIN input = AuthCalls
    /\ \A c \in AuthCalls :
        input[c] \in {NoInput} \cup
            (IF AuthKind[c] \in {"callback", "exchange"} THEN AuthCalls ELSE Tokens)

AuthInv == SessionsTypeOK /\ OneAccount /\ LoginInv /\ TokenInv

----------------------------------------------------------------------------
\* An UPDATE of one column keeps the row's type and its address.
LEMMA RowColumns ==
    ASSUME NEW r \in Rows
    PROVE  /\ r.email \in Emails /\ r.active \in BOOLEAN /\ r.refresh \in RefreshColumn
           /\ \A a \in BOOLEAN, v \in RefreshColumn :
                 /\ [r EXCEPT !.active = a] \in Rows
                 /\ [r EXCEPT !.active = a].email = r.email
                 /\ [r EXCEPT !.active = a].active = a
                 /\ [r EXCEPT !.refresh = v] \in Rows
                 /\ [r EXCEPT !.refresh = v].email = r.email
                 /\ [r EXCEPT !.refresh = v].active = r.active
<1> QED
    BY DEF Rows

LEMMA SignedToken ==
    ASSUME SessionsTypeOK, NEW i \in AuthCalls
    PROVE  Signed(i) \in Tokens /\ Signed(i).user = i
<1> QED
    BY DEF SessionsTypeOK, Signed, Tokens

LEMMA InitAuthInv == SessionsInit => AuthInv
<1> QED
    BY AuthSessionsAssumption
       DEF SessionsInit, AuthInv, SessionsTypeOK, OneAccount, LoginInv, TokenInv,
           Steps, AuthEnded, Before

\* A call moves on with what it may hold, and what it writes are rows.
LEMMA CallSteps ==
    ASSUME AuthInv, NEW c \in AuthCalls, NEW l \in Steps,
           stage[c] \notin AuthEnded, Proceed(c, l),
           UNCHANGED now,
           DOMAIN users \subseteq DOMAIN users', DOMAIN users' \subseteq AuthCalls,
           DOMAIN users' \subseteq DOMAIN users \cup {c},
           l \in Before => stage[c] \in Before /\ DOMAIN users' \subseteq DOMAIN users,
           \A i \in DOMAIN users' : users'[i] \in Rows,
           OneAccount',
           states' \subseteq Of("begin"), InputOK',
           \/ codes' \subseteq codes
           \/ stage[c] = "code" /\ l = "answered" /\ codes' = codes \cup {c},
           \/ UNCHANGED <<mine, inHand>>
           \/ \E i \in DOMAIN users : Load(c, i)
           \/ \E i \in AuthCalls \cup {mine[c]}, r \in Rows :
                  /\ mine' = [mine EXCEPT ![c] = i]
                  /\ inHand' = [inHand EXCEPT ![c] = r],
           \/ UNCHANGED token
           \/ stage[c] # "code" /\ \E t \in Tokens : token' = [token EXCEPT ![c] = t],
           l \in {"reactivate", "sign", "store", "code", "clear", "erase"} =>
              mine'[c] \in DOMAIN users' /\ inHand'[c] \in Rows,
           l \in {"provider", "find", "reactivate", "insert", "conflict"} => c \in Logins,
           l = "reactivate" => ~inHand'[c].active,
           l \in {"store", "code"} =>
              token'[c] \in Tokens /\ token'[c].user \in DOMAIN users,
           l = "code" => AuthKind[c] = "callback",
           held' \subseteq Tokens, \A u \in held' : u.user \in DOMAIN users,
           replayed' \subseteq Tokens
    PROVE  AuthInv'
<1> SessionsTypeOK /\ LoginInv /\ TokenInv /\ OneAccount
    BY DEF AuthInv
<1>1. stage' = [stage EXCEPT ![c] = l] /\ stage \in [AuthCalls -> Steps]
    BY DEF Proceed, SessionsTypeOK
<1>2. SessionsTypeOK'
  <2>1. /\ mine' \in [AuthCalls -> AuthCalls \cup {NoInput}]
        /\ inHand' \in [AuthCalls -> Rows \cup {Unset}]
        /\ \A d \in AuthCalls \ {c} : mine'[d] = mine[d] /\ inHand'[d] = inHand[d]
      BY DEF SessionsTypeOK, Load
  <2>2. token' \in [AuthCalls -> Tokens \cup {Unset}]
      BY DEF SessionsTypeOK
  <2>3. codes' \subseteq Of("callback")
      BY DEF SessionsTypeOK, TokenInv, Of
  <2>4. ASSUME NEW d \in AuthCalls,
               stage'[d] \in {"reactivate", "sign", "store", "code", "clear", "erase"}
        PROVE  mine'[d] \in DOMAIN users' /\ inHand'[d] \in Rows
      BY <1>1, <2>1, <2>4 DEF SessionsTypeOK
  <2> QED
      BY <1>1, <2>1, <2>2, <2>3, <2>4 DEF SessionsTypeOK, InputOK
<1>3. OneAccount'
    OBVIOUS
<1>4. LoginInv'
  <2>1. \A d \in AuthCalls \ {c} : inHand'[d] = inHand[d]
      BY DEF SessionsTypeOK, Load
  <2> QED
      BY <1>1, <2>1 DEF LoginInv
<1>5. TokenInv'
  <2>1. \A d \in AuthCalls \ {c} : token'[d] = token[d] /\ stage'[d] = stage[d]
      BY <1>1 DEF SessionsTypeOK
  <2>2. \A d \in AuthCalls : stage'[d] \in {"store", "code"} =>
            token'[d] \in Tokens /\ token'[d].user \in DOMAIN users
      BY <1>1, <2>1 DEF TokenInv
  <2>3. \A d \in AuthCalls : stage'[d] = "code" => AuthKind[d] = "callback"
      BY <1>1, <2>1 DEF TokenInv
  <2>4. ASSUME NEW k \in codes'
        PROVE  /\ stage'[k] = "answered"
               /\ token'[k] \in Tokens /\ token'[k].user \in DOMAIN users
    <3>1. CASE k \in codes
      <4>1. k # c /\ k \in AuthCalls
          BY <3>1 DEF SessionsTypeOK, TokenInv, AuthEnded, Of
      <4> QED
          BY <2>1, <3>1, <4>1 DEF TokenInv
    <3>2. CASE k = c /\ stage[c] = "code" /\ l = "answered"
        BY <1>1, <3>2 DEF TokenInv
    <3> QED
        BY <3>1, <3>2
  <2> QED
      BY <2>2, <2>3, <2>4 DEF TokenInv
<1> QED
    BY <1>2, <1>3, <1>4, <1>5 DEF AuthInv

\* The calls of a login, a refresh, a logout and a deletion that write no row.
LEMMA ReadingSteps ==
    ASSUME AuthInv, NEW c \in AuthCalls,
           \/ Begin(c) \/ \E s \in Of("begin") : VerifyState(c, s)
           \/ Identify(c) \/ Find(c) \/ Conflict(c) \/ Sign(c) \/ StoreCode(c)
           \/ \E k \in Of("callback") : Exchange(c, k)
           \/ \E t \in held : LoadRefresh(c, t) \/ LoadLogout(c, t) \/ Authenticate(c, t)
           \/ Fail(c)
    PROVE  AuthInv' /\ users' = users
<1> USE DEF AuthEnded, Steps, Before
<1> SessionsTypeOK /\ LoginInv /\ TokenInv /\ OneAccount
    BY DEF AuthInv
<1>0. users' = users => OneAccount' /\ DOMAIN users \subseteq AuthCalls
    BY DEF OneAccount, SessionsTypeOK
<1>1. /\ stage \in [AuthCalls -> Steps] /\ states \subseteq Of("begin")
      /\ held \subseteq Tokens /\ replayed \subseteq Tokens
      /\ \A t \in held : t.user \in DOMAIN users
      /\ \A i \in DOMAIN users : users[i] \in Rows
      /\ InputOK
      /\ mine \in [AuthCalls -> AuthCalls \cup {NoInput}]
      /\ inHand \in [AuthCalls -> Rows \cup {Unset}]
    BY DEF SessionsTypeOK, InputOK
<1>2. ASSUME NEW x, Sent(c, x),
             x \in IF AuthKind[c] \in {"callback", "exchange"} THEN AuthCalls ELSE Tokens
      PROVE  InputOK'
    BY <1>1, <1>2 DEF InputOK, Sent
<1>3. UNCHANGED input => InputOK'
    BY <1>1 DEF InputOK
<1>4. CASE Begin(c)
    BY <1>0, <1>1, <1>3, <1>4, CallSteps DEF Begin, Of
<1>5. ASSUME NEW s \in Of("begin"), VerifyState(c, s) PROVE AuthInv' /\ users' = users
  <2>1. InputOK'
      BY <1>2, <1>5 DEF VerifyState, Of
  <2>2. PICK l \in {"provider", "refused"} : Proceed(c, l)
      BY <1>5 DEF VerifyState
  <2>3. AuthKind[c] = "callback" /\ c \in Logins /\ stage[c] = "start"
      BY <1>5 DEF VerifyState, Logins, Of
  <2> QED
      BY <1>0, <1>1, <1>5, <2>1, <2>2, <2>3, CallSteps DEF VerifyState, Taken
<1>6. CASE Identify(c)
  <2>1. c \in Logins
      BY <1>6 DEF Identify, AskGoogle, AskApple, ToIdentify, LoginInv, Logins, Of
  <2>2. stage[c] \in {"start", "provider"} /\ Proceed(c, "find")
      BY <1>6 DEF Identify, AskGoogle, AskApple, ToIdentify
  <2> QED
      BY <1>0, <1>1, <1>3, <1>6, <2>1, <2>2, CallSteps DEF Identify
<1>7. CASE Find(c)
  <2>1. c \in Logins
      BY <1>7 DEF Find, LoginInv
  <2>2. CASE Account(MailOf[c]) = {}
      BY <1>0, <1>1, <1>3, <1>7, <2>1, <2>2, CallSteps DEF Find
  <2>3. ASSUME NEW i \in Account(MailOf[c]), Load(c, i),
               Proceed(c, IF users[i].active THEN "sign" ELSE "reactivate")
        PROVE  AuthInv' /\ users' = users
    <3>1. i \in DOMAIN users /\ mine'[c] = i /\ inHand'[c] = users[i]
        BY <1>1, <2>3 DEF Account, Load
    <3>2. PICK l \in {"sign", "reactivate"} :
              Proceed(c, l) /\ (l = "reactivate" => ~users[i].active)
        BY <2>3
    <3> QED
        BY <1>0, <1>1, <1>3, <1>7, <2>1, <2>3, <3>1, <3>2, CallSteps DEF Find
  <2> QED
      BY <1>7, <2>2, <2>3 DEF Find
<1>8. CASE Conflict(c)
  <2>1. \/ Proceed(c, "refused") /\ UNCHANGED <<mine, inHand>>
        \/ Proceed(c, "sign") /\ \E i \in Account(MailOf[c]) : Load(c, i)
      BY <1>8 DEF Conflict
  <2>2. CASE Proceed(c, "refused") /\ UNCHANGED <<mine, inHand>>
      BY <1>0, <1>1, <1>3, <1>8, <2>2, CallSteps DEF Conflict
  <2>3. ASSUME Proceed(c, "sign"), NEW i \in Account(MailOf[c]), Load(c, i)
        PROVE  AuthInv' /\ users' = users
    <3>1. i \in DOMAIN users /\ mine'[c] = i /\ inHand'[c] = users[i]
        BY <1>1, <2>3 DEF Account, Load
    <3> QED
        BY <1>0, <1>1, <1>3, <1>8, <2>3, <3>1, CallSteps DEF Conflict
  <2> QED
      BY <2>1, <2>2, <2>3
<1>9. CASE Sign(c)
  <2>1. mine[c] \in DOMAIN users /\ mine[c] \in AuthCalls /\ inHand[c] \in Rows
      BY <1>9 DEF Sign, SessionsTypeOK
  <2>2. /\ Signed(mine[c]) \in Tokens /\ token'[c] = Signed(mine[c])
        /\ token'[c].user \in DOMAIN users
      BY <1>9, <2>1, SignedToken DEF Sign, SessionsTypeOK
  <2> QED
      BY <1>0, <1>1, <1>3, <1>9, <2>1, <2>2, CallSteps DEF Sign
<1>10. CASE StoreCode(c)
    BY <1>0, <1>1, <1>3, <1>10, CallSteps DEF StoreCode
<1>11. ASSUME NEW k \in Of("callback"), Exchange(c, k) PROVE AuthInv' /\ users' = users
  <2>1. InputOK'
      BY <1>2, <1>11 DEF Exchange, Of
  <2>2. k \in codes => token[k] \in Tokens /\ token[k].user \in DOMAIN users
      BY DEF TokenInv
  <2>3. CASE k \in codes
      BY <1>0, <1>1, <1>11, <2>1, <2>2, <2>3, CallSteps DEF Exchange, Taken
  <2>4. CASE k \notin codes
      BY <1>0, <1>1, <1>11, <2>1, <2>4, CallSteps DEF Exchange, Taken
  <2> QED
      BY <2>3, <2>4
<1>12. ASSUME NEW t \in held, LoadRefresh(c, t) PROVE AuthInv' /\ users' = users
  <2>1. InputOK'
      BY <1>1, <1>2, <1>12 DEF LoadRefresh
  <2>2. t.user \in DOMAIN users /\ t.user \in AuthCalls /\ t \in Tokens
      BY <1>1 DEF SessionsTypeOK
  <2>3. CASE Accepts(t)
    <3>1. /\ mine'[c] = t.user /\ inHand'[c] = users[t.user] /\ users[t.user] \in Rows
          /\ Load(c, t.user) /\ Proceed(c, "store")
        BY <1>1, <1>12, <2>2, <2>3 DEF LoadRefresh, Load
    <3>2. /\ Signed(t.user) \in Tokens /\ token' = [token EXCEPT ![c] = Signed(t.user)]
          /\ token'[c] = Signed(t.user) /\ token'[c].user \in DOMAIN users
        BY <1>12, <2>2, <2>3, SignedToken DEF LoadRefresh, SessionsTypeOK
    <3>3. replayed' \subseteq Tokens
        BY <1>1, <1>12, <2>2, <2>3 DEF LoadRefresh
    <3> QED
        BY <1>0, <1>1, <1>12, <2>1, <2>2, <3>1, <3>2, <3>3, CallSteps DEF LoadRefresh
  <2>4. CASE ~Accepts(t)
      BY <1>0, <1>1, <1>12, <2>1, <2>4, CallSteps DEF LoadRefresh
  <2> QED
      BY <2>3, <2>4
<1>13. ASSUME NEW t \in held, LoadLogout(c, t) \/ Authenticate(c, t)
       PROVE  AuthInv' /\ users' = users
  <2>1. InputOK'
      BY <1>1, <1>2, <1>13 DEF LoadLogout, Authenticate
  <2>2. t.user \in DOMAIN users
      BY <1>1
  <2>3. PICK l \in {"clear", "erase", "answered", "refused"} :
            /\ Proceed(c, l)
            /\ \/ l \in {"clear", "erase"} /\ Load(c, t.user)
               \/ l \notin {"clear", "erase"} /\ UNCHANGED <<mine, inHand>>
      BY <1>13 DEF LoadLogout, Authenticate
  <2>4. l \in {"clear", "erase"} => mine'[c] \in DOMAIN users /\ inHand'[c] \in Rows
      BY <1>1, <2>2, <2>3 DEF Load
  <2> QED
      BY <1>0, <1>1, <1>13, <2>1, <2>2, <2>3, <2>4, CallSteps DEF LoadLogout, Authenticate
<1>14. CASE Fail(c)
    BY <1>0, <1>1, <1>3, <1>14, CallSteps DEF Fail
<1> QED
    BY <1>4, <1>5, <1>6, <1>7, <1>8, <1>9, <1>10, <1>11, <1>12, <1>13, <1>14

\* The steps that write a row, and what a deletion means to them.
LEMMA WritingSteps ==
    ASSUME AuthInv, NEW c \in AuthCalls,
           Reactivate(c) \/ CreateUser(c) \/ StoreToken(c) \/ Logout(c) \/ Delete(c)
    PROVE  /\ AuthInv'
           /\ \A i \in DOMAIN users : ~users[i].active /\ users'[i].active =>
                  c \in Logins /\ mine[c] = i /\ ~inHand[c].active
                  /\ stage[c] = "reactivate"
<1> USE DEF AuthEnded, Steps, Before
<1> SessionsTypeOK /\ LoginInv /\ TokenInv /\ OneAccount
    BY DEF AuthInv
<1>1. /\ states \subseteq Of("begin") /\ held \subseteq Tokens /\ replayed \subseteq Tokens
      /\ \A t \in held : t.user \in DOMAIN users
      /\ DOMAIN users \subseteq AuthCalls
      /\ \A i \in DOMAIN users : users[i] \in Rows
      /\ mine \in [AuthCalls -> AuthCalls \cup {NoInput}]
      /\ inHand \in [AuthCalls -> Rows \cup {Unset}]
    BY DEF SessionsTypeOK
<1>2. UNCHANGED input => InputOK'
    BY DEF SessionsTypeOK, InputOK
<1>3. ASSUME mine[c] \in DOMAIN users, NEW row \in Rows, Save(c, row),
             row.email = Row(c).email
      PROVE  /\ DOMAIN users' = DOMAIN users
             /\ \A i \in DOMAIN users' : users'[i] \in Rows
             /\ \A i \in DOMAIN users : i # mine[c] => users'[i] = users[i]
             /\ users'[mine[c]] = row
             /\ OneAccount'
    BY <1>1, <1>3 DEF Save, Row, OneAccount
<1>4. CASE Reactivate(c)
  <2> DEFINE row == [Row(c) EXCEPT !.active = TRUE]
  <2>1. mine[c] \in DOMAIN users /\ Row(c) \in Rows /\ inHand[c] \in Rows
      BY <1>1, <1>4 DEF Reactivate, SessionsTypeOK, Row
  <2>2. row \in Rows /\ row.email = Row(c).email
      BY <2>1, RowColumns DEF RefreshColumn
  <2>3. /\ inHand'[c] = row /\ mine'[c] = mine[c]
        /\ \E i \in AuthCalls \cup {mine[c]}, r \in Rows :
              /\ mine' = [mine EXCEPT ![c] = i]
              /\ inHand' = [inHand EXCEPT ![c] = r]
    <3>1. inHand' = [inHand EXCEPT ![c] = row] /\ mine' = [mine EXCEPT ![c] = mine[c]]
        BY <1>1, <1>4 DEF Reactivate
    <3> QED
        BY <1>1, <2>2, <3>1
  <2>4. c \in Logins /\ ~inHand[c].active /\ stage[c] = "reactivate"
      BY <1>4 DEF Reactivate, LoginInv
  <2>5. Save(c, row)
      BY <1>4 DEF Reactivate
  <2>6. AuthInv'
      BY <1>1, <1>2, <1>3, <1>4, <2>1, <2>2, <2>3, <2>5, CallSteps DEF Reactivate
  <2> QED
      BY <1>3, <2>1, <2>2, <2>4, <2>5, <2>6
<1>5. CASE CreateUser(c)
  <2>1. stage[c] = "insert" /\ c \in Logins
      BY <1>5 DEF CreateUser, LoginInv
  <2>2. CASE MailTaken(c)
      BY <1>1, <1>2, <1>5, <2>1, <2>2, CallSteps DEF CreateUser, OneAccount
  <2>3. CASE ~MailTaken(c)
    <3>1. NewRow(c) \in Rows /\ NewRow(c).email = MailOf[c]
        BY AuthSessionsAssumption DEF NewRow, Rows, RefreshColumn
    <3>0. c \notin DOMAIN users
        BY <2>1 DEF LoginInv
    <3>2. /\ DOMAIN users' = DOMAIN users \cup {c}
          /\ users'[c] = NewRow(c)
          /\ \A i \in DOMAIN users : i # c => users'[i] = users[i]
        BY <1>5, <2>3 DEF CreateUser
    <3>3. \A i \in DOMAIN users : users[i].email # MailOf[c]
        BY <2>3 DEF MailTaken, Account
    <3>4. OneAccount'
        BY <3>1, <3>2, <3>3 DEF OneAccount
    <3>5. /\ mine' = [mine EXCEPT ![c] = c] /\ inHand' = [inHand EXCEPT ![c] = NewRow(c)]
          /\ mine'[c] = c /\ inHand'[c] = NewRow(c) /\ Proceed(c, "sign")
        BY <1>1, <1>5, <2>3 DEF CreateUser
    <3>6. AuthInv'
        BY <1>1, <1>2, <1>5, <2>1, <3>1, <3>2, <3>4, <3>5, CallSteps DEF CreateUser
    <3> QED
        BY <3>0, <3>2, <3>6
  <2> QED
      BY <2>2, <2>3
<1>6. CASE StoreToken(c)
  <2> DEFINE row == [Row(c) EXCEPT !.refresh = Write(c, "refresh", token[c])]
  <2>1. /\ mine[c] \in DOMAIN users /\ Row(c) \in Rows /\ inHand[c] \in Rows
        /\ token[c] \in Tokens /\ token[c].user \in DOMAIN users
      BY <1>1, <1>6 DEF StoreToken, SessionsTypeOK, Row, TokenInv
  <2>2. Write(c, "refresh", token[c]) \in RefreshColumn
      BY <2>1, RowColumns DEF Write, RefreshColumn
  <2>3. row \in Rows /\ row.email = Row(c).email /\ row.active = Row(c).active
      BY <2>1, <2>2, RowColumns
  <2>4. Save(c, row)
      BY <1>6 DEF StoreToken
  <2>5. PICK l \in {"code", "answered"} :
            Proceed(c, l) /\ (l = "code" => AuthKind[c] = "callback")
      BY <1>6 DEF StoreToken
  <2>6. held' \subseteq Tokens /\ \A u \in held' : u.user \in DOMAIN users
      BY <1>1, <1>6, <2>1 DEF StoreToken
  <2>7. AuthInv'
      BY <1>1, <1>2, <1>3, <1>6, <2>1, <2>3, <2>4, <2>5, <2>6, CallSteps DEF StoreToken
  <2> QED
      BY <1>3, <2>1, <2>3, <2>4, <2>7 DEF Row
<1>7. CASE Logout(c)
  <2> DEFINE row == [Row(c) EXCEPT !.refresh = Write(c, "refresh", Blank)]
  <2>1. mine[c] \in DOMAIN users /\ Row(c) \in Rows /\ inHand[c] \in Rows
      BY <1>1, <1>7 DEF Logout, SessionsTypeOK, Row
  <2>2. Write(c, "refresh", Blank) \in RefreshColumn
      BY <2>1, RowColumns DEF Write, RefreshColumn
  <2>3. row \in Rows /\ row.email = Row(c).email /\ row.active = Row(c).active
      BY <2>1, <2>2, RowColumns
  <2>4. Save(c, row)
      BY <1>7 DEF Logout
  <2>5. AuthInv'
      BY <1>1, <1>2, <1>3, <1>7, <2>1, <2>3, <2>4, CallSteps DEF Logout
  <2> QED
      BY <1>3, <2>1, <2>3, <2>4, <2>5 DEF Row
<1>8. CASE Delete(c)
  <2> DEFINE a == Write(c, "active", FALSE)
             v == Write(c, "refresh", Unset)
             row == [Row(c) EXCEPT !.active = a, !.refresh = v]
  <2>1. mine[c] \in DOMAIN users /\ Row(c) \in Rows /\ inHand[c] \in Rows
      BY <1>1, <1>8 DEF Delete, SessionsTypeOK, Row
  <2>2. a \in BOOLEAN /\ v \in RefreshColumn /\ (a => Row(c).active)
      BY <2>1, RowColumns DEF Write, RefreshColumn
  <2>3. Save(c, row)
      BY <1>8 DEF Delete
  <2> HIDE DEF a, v
  <2>4. row \in Rows /\ row.email = Row(c).email /\ row.active = a
      BY <2>1, <2>2 DEF Rows
  <2>5. AuthInv'
      BY <1>1, <1>2, <1>3, <1>8, <2>1, <2>3, <2>4, CallSteps DEF Delete
  <2> QED
      BY <1>3, <2>1, <2>2, <2>3, <2>4, <2>5 DEF Row
<1> QED
    BY <1>4, <1>5, <1>6, <1>7, <1>8

----------------------------------------------------------------------------
\* The environment takes keys out of Redis and moves the clock.
LEMMA EnvironmentSteps ==
    ASSUME AuthInv, Expire \/ Tick
    PROVE  AuthInv' /\ users' = users
<1>1. UNCHANGED <<users, stage, input, mine, inHand, token, held, replayed>>
    BY DEF Expire, Tick
<1>2. states' \subseteq states /\ codes' \subseteq codes /\ now' \in 0 .. MaxSecond
    BY AuthSessionsAssumption DEF Expire, Tick, AuthInv, SessionsTypeOK
<1>3. SessionsTypeOK'
    BY <1>1, <1>2 DEF AuthInv, SessionsTypeOK
<1>4. OneAccount' /\ LoginInv' /\ TokenInv'
    BY <1>1, <1>2 DEF AuthInv, OneAccount, LoginInv, TokenInv
<1> QED
    BY <1>1, <1>3, <1>4 DEF AuthInv

\* A step that makes a deleted account active is the commit of a login that
\* found it deleted.
Returning(i) ==
    \E c \in Logins : /\ mine[c] = i /\ ~inHand[c].active
                      /\ stage[c] = "reactivate"

LEMMA NextAuthInv ==
    ASSUME AuthInv, [SessionsNext]_svars
    PROVE  /\ AuthInv'
           /\ \A i \in DOMAIN users :
                 ~users[i].active /\ users'[i].active => Returning(i)
<1>1. ASSUME NEW c \in AuthCalls, AuthStep(c)
      PROVE  /\ AuthInv'
             /\ \A i \in DOMAIN users :
                   ~users[i].active /\ users'[i].active => Returning(i)
  <2>1. CASE Reactivate(c) \/ CreateUser(c) \/ StoreToken(c) \/ Logout(c) \/ Delete(c)
      BY <2>1, WritingSteps DEF Returning
  <2>2. CASE \/ Begin(c) \/ \E s \in Of("begin") : VerifyState(c, s)
             \/ Identify(c) \/ Find(c) \/ Conflict(c) \/ Sign(c) \/ StoreCode(c)
             \/ \E k \in Of("callback") : Exchange(c, k)
             \/ \E t \in held : LoadRefresh(c, t) \/ LoadLogout(c, t) \/ Authenticate(c, t)
             \/ Fail(c)
      BY <2>2, ReadingSteps
  <2> QED
      BY <1>1, <2>1, <2>2 DEF AuthStep
<1>2. CASE Expire \/ Tick
    BY <1>2, EnvironmentSteps
<1>3. CASE UNCHANGED svars
    BY <1>3 DEF svars, AuthInv, SessionsTypeOK, OneAccount, LoginInv, TokenInv
<1> QED
    BY <1>1, <1>2, <1>3 DEF SessionsNext

\* Every reachable state satisfies the inductive invariant.
THEOREM SessionsInvariance == SessionsSpec => []AuthInv
<1> QED
    BY InitAuthInv, NextAuthInv, PTL DEF SessionsSpec

\* Calls work on rows that are there, and tokens belong to accounts
\* (get_current_user, _find_or_create_user).
THEOREM SessionsTypeCorrect == SessionsSpec => []SessionsTypeOK
<1>1. AuthInv => SessionsTypeOK
    BY DEF AuthInv
<1> QED
    BY <1>1, SessionsInvariance, PTL

\* Any number of first logins, of any providers, leave one account for an
\* e-mail address (_find_or_create_user, create_oauth_user).
THEOREM OneAccountPerMail == SessionsSpec => []OneAccount
<1>1. AuthInv => OneAccount
    BY DEF AuthInv
<1> QED
    BY <1>1, SessionsInvariance, PTL

\* A deleted account comes back only through a login that found it deleted,
\* whatever refreshes and logouts have loaded before (delete_user).
THEOREM NoResurrection == SessionsSpec => DeletedStaysOut
<1>1. AuthInv /\ [SessionsNext]_svars =>
          [\A i \in DOMAIN users :
              ~users[i].active /\ users'[i].active =>
                  \E c \in Logins : /\ mine[c] = i /\ ~inHand[c].active
                                    /\ stage[c] = "reactivate"]_svars
    BY NextAuthInv DEF Returning
<1> QED
    BY <1>1, SessionsInvariance, PTL DEF SessionsSpec, DeletedStaysOut

----------------------------------------------------------------------------
(* Rotation. *)

\* Calls that signed a token: an exchange hands out another call's.
Signs(c, t) == c \in AuthCalls \ Of("exchange") /\ token[c] = t
Twice(t) == \E c, d \in AuthCalls : c # d /\ Signs(c, t) /\ Signs(d, t)

\* Only some calls get to a stage, and a token in hand is never signed anew.
StagesInv ==
    \A c \in AuthCalls :
        /\ stage[c] = "sign" => c \in Logins
        /\ stage[c] = "store" => c \in Logins \cup Of("refresh")
        /\ stage[c] = "clear" => c \in Of("logout")
        /\ stage[c] = "erase" => c \in Of("delete")
        /\ token[c] # Unset => stage[c] \in {"store", "code"} \cup AuthEnded

\* Who signed a token that a client has received has ended.
HeldInv ==
    \A t \in held : \E c \in AuthCalls : Signs(c, t) /\ stage[c] \in AuthEnded

\* A rotation works on the row that held the token it was sent.
RefreshInv ==
    \A c \in Of("refresh") :
        /\ input[c] # NoInput => input[c] \in held
        /\ stage[c] = "store" => /\ input[c] \in held /\ input[c].user = mine[c]
                                 /\ inHand[c].refresh = input[c]

\* A rotated token that a row holds again was signed twice.
StoredInv ==
    \A t \in held :
        Rotated(t) /\ users[t.user].refresh = t => Twice(t)

RotationInv == StagesInv /\ HeldInv /\ RefreshInv /\ StoredInv /\ RotationSpends

\* A step of a call that stores no token keeps the invariant.
LEMMA QuietRotation ==
    ASSUME SessionsTypeOK, RotationInv,
           NEW c \in AuthCalls, NEW l \in Steps, Proceed(c, l), stage[c] \notin AuthEnded,
           DOMAIN users \subseteq DOMAIN users',
           \A i \in DOMAIN users :
              users'[i].refresh = users[i].refresh \/ users'[i].refresh \notin Tokens,
           held \subseteq held',
           \A t \in held' : t \in Tokens /\ t.user \in DOMAIN users
                /\ \E d \in AuthCalls : Signs(d, t) /\ stage[d] \in AuthEnded,
           \A t \in replayed' : t \in replayed \/ (Twice(t) /\ t # Unset),
           \/ UNCHANGED input
           \/ \E x : Sent(c, x) /\ (c \in Of("refresh") => x \in held),
           \/ UNCHANGED token /\ (l \in {"store", "code"} \cup AuthEnded \/ token[c] = Unset)
           \/ /\ stage[c] \in {"start", "sign"} /\ l \in {"store"} \cup AuthEnded
              /\ \E t : token' = [token EXCEPT ![c] = t],
           c \in Of("refresh") => l # "answered",
           l = "sign" => c \in Logins,
           l = "store" => c \in Logins \cup Of("refresh"),
           l = "clear" => c \in Of("logout"),
           l = "erase" => c \in Of("delete"),
           \A d \in AuthCalls \ {c} : mine'[d] = mine[d] /\ inHand'[d] = inHand[d],
           l = "store" /\ c \in Of("refresh") =>
              /\ input'[c] \in held /\ input'[c].user = mine'[c]
              /\ inHand'[c].refresh = input'[c]
    PROVE  RotationInv'
<1> USE DEF RotationInv
<1>1. /\ stage' = [stage EXCEPT ![c] = l] /\ stage \in [AuthCalls -> Steps]
      /\ DOMAIN input = AuthCalls /\ token \in [AuthCalls -> Tokens \cup {Unset}]
    BY DEF Proceed, SessionsTypeOK
<1>2. \A d \in AuthCalls \ {c} : /\ stage'[d] = stage[d] /\ token'[d] = token[d]
                                 /\ input'[d] = input[d]
    BY <1>1 DEF Sent
<1>3. stage'[c] = l
    BY <1>1
<1>4. ASSUME NEW t, NEW d \in AuthCalls, Signs(d, t), t # Unset
      PROVE  Signs(d, t)'
  <2>1. CASE d = c
    <3>1. token[c] = t /\ stage[c] \notin {"start", "sign"}
        BY <1>4, <2>1 DEF Signs, StagesInv, AuthEnded
    <3> QED
        BY <1>4, <2>1, <3>1 DEF Signs
  <2>2. CASE d # c
      BY <1>2, <1>4, <2>2 DEF Signs
  <2> QED
      BY <2>1, <2>2
<1>5. \A t : t # Unset /\ Twice(t) => Twice(t)'
    BY <1>4 DEF Twice
<1>6. StagesInv'
  <2>1. token'[c] # Unset => l \in {"store", "code"} \cup AuthEnded
      BY <1>1
  <2> QED
      BY <1>2, <1>3, <2>1 DEF StagesInv
<1>7. \A t \in held' : t # Unset
    BY AuthSessionsAssumption
<1>8. HeldInv'
  <2> SUFFICES ASSUME NEW t \in held'
               PROVE  \E d \in AuthCalls : Signs(d, t)' /\ stage'[d] \in AuthEnded
      BY DEF HeldInv, Signs
  <2>1. PICK d \in AuthCalls : Signs(d, t) /\ stage[d] \in AuthEnded
      OBVIOUS
  <2> QED
      BY <1>2, <1>4, <1>7, <2>1
<1>9. RefreshInv'
  <2> SUFFICES ASSUME NEW d \in Of("refresh")
               PROVE  /\ input'[d] # NoInput => input'[d] \in held'
                      /\ stage'[d] = "store" =>
                            /\ input'[d] \in held' /\ input'[d].user = mine'[d]
                            /\ inHand'[d].refresh = input'[d]
      BY DEF RefreshInv
  <2>1. d \in AuthCalls
      BY DEF Of
  <2>2. CASE d = c
    <3>1. input'[c] # NoInput => input'[c] \in held
        BY <1>1, <2>2 DEF Sent, RefreshInv
    <3> QED
        BY <1>3, <2>2, <3>1
  <2>3. CASE d # c
      BY <1>2, <2>1, <2>3 DEF RefreshInv
  <2> QED
      BY <2>2, <2>3
<1>10. StoredInv'
  <2> SUFFICES ASSUME NEW t \in held', Rotated(t)', users'[t.user].refresh = t
               PROVE  Twice(t)'
      BY DEF StoredInv
  <2>1. PICK d \in Of("refresh") : input'[d] = t /\ stage'[d] = "answered"
      BY DEF Rotated
  <2>2. d \in AuthCalls /\ d # c
      BY <1>3, <2>1 DEF Of
  <2>3. Rotated(t)
      BY <1>2, <2>1, <2>2 DEF Rotated
  <2>4. t \in held
    <3>1. t # NoInput
        BY AuthSessionsAssumption
    <3> QED
        BY <1>2, <2>1, <2>2, <3>1 DEF RefreshInv
  <2>5. users[t.user].refresh = t
      OBVIOUS
  <2> QED
      BY <1>5, <1>7, <2>3, <2>4, <2>5 DEF StoredInv
<1>11. RotationSpends'
  <2> SUFFICES ASSUME NEW t \in replayed' PROVE Twice(t)'
    <3>1. \A t : Twice(t)' => \E a, b \in AuthCalls \ Of("exchange") :
                                   a # b /\ token'[a] = t /\ token'[b] = t
        BY DEF Twice, Signs
    <3> QED
        BY <3>1 DEF RotationSpends
  <2>1. Twice(t)
    <3>1. CASE t \in replayed
        BY <3>1 DEF RotationSpends, Twice, Signs
    <3> QED
        BY <3>1
  <2>2. t # Unset
    <3>1. CASE t \in replayed
        BY <3>1, AuthSessionsAssumption DEF SessionsTypeOK
    <3> QED
        BY <3>1
  <2> QED
      BY <1>5, <2>1, <2>2
<1> QED
    BY <1>6, <1>8, <1>9, <1>10, <1>11

LEMMA StoreRotation ==
    ASSUME AuthInv, RotationInv, NEW c \in AuthCalls, StoreToken(c)
    PROVE  RotationInv'
<1> USE DEF RotationInv
<1> SessionsTypeOK /\ TokenInv
    BY DEF AuthInv
<1> DEFINE t == token[c]
           i == mine[c]
<1>1. /\ stage[c] = "store" /\ t \in Tokens /\ t # Unset /\ t.user \in DOMAIN users
      /\ i \in DOMAIN users /\ inHand[c] \in Rows /\ users[i] \in Rows
      /\ stage \in [AuthCalls -> Steps] /\ held \subseteq Tokens
    BY AuthSessionsAssumption DEF StoreToken, TokenInv, SessionsTypeOK
<1>2. UNCHANGED <<input, mine, inHand, token, replayed>>
    BY DEF StoreToken
<1>3. PICK l \in {"code", "answered"} :
          /\ stage' = [stage EXCEPT ![c] = l]
          /\ l = "code" => c \in Of("callback") /\ held' = held
          /\ l = "answered" => held' = held \cup {t} /\ c \notin Of("callback")
    BY DEF StoreToken, Proceed, Of
<1>4. /\ \A d \in AuthCalls : stage'[d] = IF d = c THEN l ELSE stage[d]
      /\ c \in Logins \cup Of("refresh")
    BY <1>1, <1>3 DEF StagesInv
<1>5. Signs(c, t) /\ c \notin Of("exchange") /\ c \notin Of("logout") /\ c \notin Of("delete")
    BY <1>4 DEF Signs, Of, Logins
<1>6. \A d, u : Signs(d, u)' <=> Signs(d, u)
    BY <1>2 DEF Signs
<1>7. \A u : Twice(u)' <=> Twice(u)
    BY <1>6 DEF Twice
<1>8. StagesInv'
    BY <1>2, <1>3, <1>4 DEF StagesInv, AuthEnded
<1>9. HeldInv'
  <2> SUFFICES ASSUME NEW u \in held'
               PROVE  \E d \in AuthCalls : Signs(d, u) /\ stage'[d] \in AuthEnded
      BY <1>6 DEF HeldInv
  <2>1. CASE u \in held
      BY <1>1, <1>4, <2>1 DEF HeldInv, AuthEnded
  <2>2. CASE u = t /\ l = "answered"
      BY <1>4, <1>5, <2>2 DEF AuthEnded
  <2> QED
      BY <1>3, <2>1, <2>2
<1>10. RefreshInv'
    BY <1>2, <1>3, <1>4 DEF RefreshInv, Of
\* The row holds the token of c only if it held it before or c has written it.
<1>11. /\ DOMAIN users' = DOMAIN users
       /\ \A j \in DOMAIN users : j # i => users'[j] = users[j]
       /\ users'[i].refresh = IF inHand[c].refresh = t THEN users[i].refresh ELSE t
  <2> DEFINE v == Write(c, "refresh", t)
             row == [users[i] EXCEPT !.refresh = v]
  <2>1. users' = [users EXCEPT ![i] = row]
      BY DEF StoreToken, Save, Row
  <2>2. v = IF inHand[c].refresh = t THEN users[i].refresh ELSE t
      BY DEF Write, Row
  <2> HIDE DEF v
  <2>3. row.refresh = v
      BY <1>1 DEF Rows
  <2> HIDE DEF row
  <2> QED
      BY <1>1, <2>1, <2>2, <2>3
\* Who signed a token that a client holds is another call than c.
<1>12. t \in held => Twice(t)
    BY <1>1, <1>5 DEF HeldInv, Twice, AuthEnded
<1>13. StoredInv'
  <2> SUFFICES ASSUME NEW u \in held', Rotated(u)', users'[u.user].refresh = u
               PROVE  Twice(u)
      BY <1>7 DEF StoredInv
  <2>1. PICK d \in Of("refresh") : input[d] = u /\ stage'[d] = "answered"
      BY <1>2 DEF Rotated
  <2>2. d \in AuthCalls
      BY DEF Of
  <2>3. u \in held
    <3>1. u # NoInput
      <4>1. u \in Tokens
          BY <1>1, <1>3
      <4> QED
          BY <4>1, AuthSessionsAssumption
    <3> QED
        BY <2>1, <3>1 DEF RefreshInv
  <2>4. CASE u = t
      BY <1>12, <2>3, <2>4
  <2>5. CASE u # t
    <3>1. users[u.user].refresh = u
      <4>1. CASE u.user = i
          BY <1>1, <1>11, <2>5, <4>1
      <4>2. CASE u.user # i
        <5>1. u.user \in DOMAIN users
            BY <2>3 DEF SessionsTypeOK
        <5> QED
            BY <1>11, <4>2, <5>1
      <4> QED
          BY <4>1, <4>2
    <3>2. CASE d = c
      <4>1. u.user = i /\ inHand[c].refresh = u
          BY <1>1, <2>1, <3>2 DEF RefreshInv
      <4> QED
          BY <1>11, <2>5, <4>1
    <3>3. CASE d # c
      <4>1. Rotated(u)
          BY <1>4, <2>1, <2>2, <3>3 DEF Rotated
      <4> QED
          BY <2>3, <3>1, <4>1 DEF StoredInv
    <3> QED
        BY <3>2, <3>3
  <2> QED
      BY <2>4, <2>5
<1>14. RotationSpends'
    BY <1>2 DEF RotationSpends
<1> QED
    BY <1>8, <1>9, <1>10, <1>13, <1>14

LEMMA CallRotation ==
    ASSUME AuthInv, RotationInv, NEW c \in AuthCalls, AuthStep(c)
    PROVE  RotationInv'
<1> USE DEF AuthEnded, Steps
<1> SessionsTypeOK /\ LoginInv /\ TokenInv /\ StagesInv /\ HeldInv /\ RefreshInv /\ StoredInv
    BY DEF AuthInv, RotationInv
<1>0. /\ \A t \in held : t \in Tokens /\ t # Unset /\ t.user \in DOMAIN users
             /\ \E d \in AuthCalls : Signs(d, t) /\ stage[d] \in AuthEnded
      /\ \A t \in replayed : t \in Tokens
      /\ stage[c] \in {"start", "provider", "find", "reactivate", "insert", "conflict",
                       "sign", "clear", "erase"} => token[c] = Unset
      /\ \A i \in DOMAIN users : users[i] \in Rows
      /\ mine \in [AuthCalls -> AuthCalls \cup {NoInput}]
      /\ inHand \in [AuthCalls -> Rows \cup {Unset}]
    BY AuthSessionsAssumption DEF SessionsTypeOK, HeldInv, StagesInv
<1>1. CASE Begin(c)
    BY <1>0, <1>1, QuietRotation DEF Begin, Of
<1>2. ASSUME NEW s \in Of("begin"), VerifyState(c, s) PROVE RotationInv'
  <2>1. PICK l \in {"provider", "refused"} : Proceed(c, l)
      BY <1>2 DEF VerifyState
  <2>2. c \notin Of("refresh")
      BY <1>2 DEF VerifyState, Of
  <2>3. /\ Sent(c, s) /\ stage[c] = "start"
        /\ UNCHANGED <<users, mine, inHand, token, held, replayed>>
      BY <1>2 DEF VerifyState
  <2> QED
      BY <1>0, <2>1, <2>2, <2>3, QuietRotation
<1>3. CASE Identify(c)
  <2>1. stage[c] \in {"start", "provider"}
      BY <1>3 DEF Identify, AskGoogle, AskApple, ToIdentify
  <2> QED
      BY <1>0, <1>3, <2>1, QuietRotation DEF Identify
<1>4. CASE Find(c)
  <2>1. c \in Logins /\ stage[c] = "find"
      BY <1>4 DEF Find, LoginInv
  <2>2. PICK l \in {"insert", "sign", "reactivate"} : Proceed(c, l)
      BY <1>4 DEF Find
  <2>3. \A d \in AuthCalls \ {c} : mine'[d] = mine[d] /\ inHand'[d] = inHand[d]
      BY <1>0, <1>4 DEF Find, Load
  <2>4. UNCHANGED <<users, input, token, held, replayed>>
      BY <1>4 DEF Find
  <2> QED
      BY <1>0, <2>1, <2>2, <2>3, <2>4, QuietRotation
<1>5. CASE Conflict(c)
  <2>1. c \in Logins /\ stage[c] = "conflict"
      BY <1>5 DEF Conflict, LoginInv
  <2>2. PICK l \in {"refused", "sign"} : Proceed(c, l)
      BY <1>5 DEF Conflict
  <2>3. \A d \in AuthCalls \ {c} : mine'[d] = mine[d] /\ inHand'[d] = inHand[d]
      BY <1>0, <1>5 DEF Conflict, Load
  <2>4. UNCHANGED <<users, input, token, held, replayed>>
      BY <1>5 DEF Conflict
  <2> QED
      BY <1>0, <2>1, <2>2, <2>3, <2>4, QuietRotation
<1>6. CASE Reactivate(c)
  <2>1. c \in Logins /\ stage[c] = "reactivate" /\ mine[c] \in DOMAIN users
      BY <1>6 DEF Reactivate, LoginInv, SessionsTypeOK
  <2>2. /\ DOMAIN users' = DOMAIN users
        /\ \A i \in DOMAIN users : users'[i].refresh = users[i].refresh
    <3> DEFINE row == [Row(c) EXCEPT !.active = TRUE]
    <3>1. users' = [users EXCEPT ![mine[c]] = row]
        BY <1>6 DEF Reactivate, Save
    <3>2. row.refresh = users[mine[c]].refresh
        BY <1>0, <2>1 DEF Row, Rows
    <3> HIDE DEF row
    <3> QED
        BY <2>1, <3>1, <3>2
  <2>3. \A d \in AuthCalls \ {c} : mine'[d] = mine[d] /\ inHand'[d] = inHand[d]
      BY <1>0, <1>6 DEF Reactivate
  <2>4. UNCHANGED <<input, token, held, replayed>> /\ Proceed(c, "sign")
      BY <1>6 DEF Reactivate
  <2> QED
      BY <1>0, <2>1, <2>2, <2>3, <2>4, QuietRotation
<1>7. CASE CreateUser(c)
  <2>1. c \in Logins /\ stage[c] = "insert" /\ c \notin DOMAIN users
      BY <1>7 DEF CreateUser, LoginInv, Before
  <2>2. PICK l \in {"conflict", "sign"} : Proceed(c, l)
      BY <1>7 DEF CreateUser
  <2>3. /\ DOMAIN users \subseteq DOMAIN users'
        /\ \A i \in DOMAIN users : users'[i].refresh = users[i].refresh
      BY <1>7, <2>1 DEF CreateUser
  <2>4. \A d \in AuthCalls \ {c} : mine'[d] = mine[d] /\ inHand'[d] = inHand[d]
      BY <1>0, <1>7 DEF CreateUser
  <2>5. UNCHANGED <<input, token, held, replayed>>
      BY <1>7 DEF CreateUser
  <2> QED
      BY <1>0, <2>1, <2>2, <2>3, <2>4, <2>5, QuietRotation
<1>8. CASE Sign(c)
  <2>1. c \in Logins /\ c \notin Of("refresh") /\ stage[c] = "sign"
      BY <1>8 DEF Sign, StagesInv, Logins, Of
  <2>2. /\ token' = [token EXCEPT ![c] = Signed(mine[c])] /\ Proceed(c, "store")
        /\ UNCHANGED <<users, input, mine, inHand, held, replayed>>
      BY <1>8 DEF Sign
  <2> QED
      BY <1>0, <2>1, <2>2, QuietRotation
<1>9. CASE StoreToken(c)
    BY <1>9, StoreRotation
<1>10. CASE StoreCode(c)
  <2>1. c \notin Of("refresh")
      BY <1>10 DEF StoreCode, TokenInv, Of
  <2> QED
      BY <1>0, <1>10, <2>1, QuietRotation DEF StoreCode
<1>11. ASSUME NEW k \in Of("callback"), Exchange(c, k) PROVE RotationInv'
  <2>1. /\ c \in Of("exchange") /\ c \notin Of("refresh") /\ stage[c] = "start"
        /\ k \in AuthCalls /\ k \notin Of("exchange")
      BY <1>11 DEF Exchange, Of
  <2>2. PICK l \in {"answered", "refused"} : Proceed(c, l)
      BY <1>11 DEF Exchange
  <2>3. /\ Sent(c, k)
        /\ UNCHANGED <<users, mine, inHand, replayed>>
      BY <1>11 DEF Exchange
  <2>4. CASE k \in codes
    <3>1. held' = held \cup {token[k]} /\ token' = [token EXCEPT ![c] = token[k]]
        BY <1>11, <2>4 DEF Exchange
    <3>2. /\ token[k] \in Tokens /\ token[k].user \in DOMAIN users
          /\ Signs(k, token[k]) /\ stage[k] \in AuthEnded
        BY <2>1, <2>4 DEF TokenInv, Signs
    <3> QED
        BY <1>0, <2>1, <2>2, <2>3, <3>1, <3>2, QuietRotation
  <2>5. CASE k \notin codes
    <3>1. UNCHANGED <<held, token>>
        BY <1>11, <2>5 DEF Exchange
    <3> QED
        BY <1>0, <2>1, <2>2, <2>3, <3>1, QuietRotation
  <2> QED
      BY <2>4, <2>5
<1>12. ASSUME NEW t \in held, LoadRefresh(c, t) PROVE RotationInv'
  <2>1. c \in Of("refresh") /\ stage[c] = "start" /\ Sent(c, t) /\ UNCHANGED <<users, held>>
      BY <1>12 DEF LoadRefresh, Of
  <2>2. input'[c] = t
      BY <2>1 DEF Sent, SessionsTypeOK
  <2>3. CASE Accepts(t)
    <3>1. /\ mine' = [mine EXCEPT ![c] = t.user]
          /\ inHand' = [inHand EXCEPT ![c] = users[t.user]]
          /\ token' = [token EXCEPT ![c] = Signed(t.user)] /\ Proceed(c, "store")
          /\ replayed' = IF Rotated(t) THEN replayed \cup {t} ELSE replayed
        BY <1>12, <2>3 DEF LoadRefresh, Load
    <3>2. users[t.user].refresh = t
        BY <2>3 DEF Accepts
    <3>3. \A u \in replayed' : u \in replayed \/ (Twice(u) /\ u # Unset)
        BY <1>0, <3>1, <3>2 DEF StoredInv
    <3>4. /\ \A d \in AuthCalls \ {c} : mine'[d] = mine[d] /\ inHand'[d] = inHand[d]
          /\ mine'[c] = t.user /\ inHand'[c].refresh = t
        BY <1>0, <3>1, <3>2
    <3> QED
        BY <1>0, <2>1, <2>2, <3>1, <3>3, <3>4, QuietRotation
  <2>4. CASE ~Accepts(t)
    <3>1. Proceed(c, "refused") /\ UNCHANGED <<mine, inHand, token, replayed>>
        BY <1>12, <2>4 DEF LoadRefresh
    <3> QED
        BY <1>0, <2>1, <3>1, QuietRotation
  <2> QED
      BY <2>3, <2>4
<1>13. ASSUME NEW t \in held, LoadLogout(c, t) \/ Authenticate(c, t) PROVE RotationInv'
  <2>1. PICK l \in {"clear", "erase", "answered", "refused"} :
            /\ Proceed(c, l)
            /\ l = "clear" => c \in Of("logout")
            /\ l = "erase" => c \in Of("delete")
      BY <1>13 DEF LoadLogout, Authenticate, Of
  <2>2. c \notin Of("refresh")
      BY <1>13 DEF LoadLogout, Authenticate, Of
  <2>3. \A d \in AuthCalls \ {c} : mine'[d] = mine[d] /\ inHand'[d] = inHand[d]
      BY <1>0, <1>13 DEF LoadLogout, Authenticate, Load
  <2>4. /\ Sent(c, t) /\ stage[c] = "start"
        /\ UNCHANGED <<users, token, held, replayed>>
      BY <1>13 DEF LoadLogout, Authenticate
  <2> QED
      BY <1>0, <2>1, <2>2, <2>3, <2>4, QuietRotation
<1>14. CASE Logout(c)
  <2>1. /\ c \notin Of("refresh") /\ stage[c] = "clear" /\ mine[c] \in DOMAIN users
        /\ Proceed(c, "answered") /\ UNCHANGED <<input, mine, inHand, token, held, replayed>>
      BY <1>14 DEF Logout, StagesInv, Of, SessionsTypeOK
  <2>2. /\ DOMAIN users' = DOMAIN users
        /\ \A i \in DOMAIN users :
              users'[i].refresh = users[i].refresh \/ users'[i].refresh \notin Tokens
    <3> DEFINE v == Write(c, "refresh", Blank)
               row == [Row(c) EXCEPT !.refresh = v]
    <3>1. users' = [users EXCEPT ![mine[c]] = row]
        BY <1>14 DEF Logout, Save
    <3>2. v = users[mine[c]].refresh \/ v \notin Tokens
        BY AuthSessionsAssumption DEF Write, Row
    <3> HIDE DEF v
    <3>3. row.refresh = v
        BY <1>0, <2>1 DEF Row, Rows
    <3> HIDE DEF row
    <3> QED
        BY <2>1, <3>1, <3>2, <3>3
  <2> QED
      BY <1>0, <2>1, <2>2, QuietRotation
<1>15. CASE Delete(c)
  <2>1. /\ c \notin Of("refresh") /\ stage[c] = "erase" /\ mine[c] \in DOMAIN users
        /\ Proceed(c, "answered") /\ UNCHANGED <<input, mine, inHand, token, held, replayed>>
      BY <1>15 DEF Delete, StagesInv, Of, SessionsTypeOK
  <2>2. /\ DOMAIN users' = DOMAIN users
        /\ \A i \in DOMAIN users :
              users'[i].refresh = users[i].refresh \/ users'[i].refresh \notin Tokens
    <3> DEFINE v == Write(c, "refresh", Unset)
               a == Write(c, "active", FALSE)
               row == [Row(c) EXCEPT !.active = a, !.refresh = v]
    <3>1. users' = [users EXCEPT ![mine[c]] = row]
        BY <1>15 DEF Delete, Save
    <3>2. v = users[mine[c]].refresh \/ v \notin Tokens
        BY AuthSessionsAssumption DEF Write, Row
    <3> HIDE DEF v, a
    <3>3. row.refresh = v
        BY <1>0, <2>1 DEF Row, Rows
    <3> HIDE DEF row
    <3> QED
        BY <2>1, <3>1, <3>2, <3>3
  <2> QED
      BY <1>0, <2>1, <2>2, QuietRotation
<1>16. CASE Fail(c)
    BY <1>0, <1>16, QuietRotation DEF Fail
<1> QED
    BY <1>1, <1>2, <1>3, <1>4, <1>5, <1>6, <1>7, <1>8, <1>9, <1>10, <1>11, <1>12, <1>13,
       <1>14, <1>15, <1>16 DEF AuthStep

LEMMA NextRotation ==
    ASSUME AuthInv, RotationInv, [SessionsNext]_svars
    PROVE  RotationInv'
<1>1. CASE \E c \in AuthCalls : AuthStep(c)
    BY <1>1, CallRotation
<1>2. CASE Expire \/ Tick \/ UNCHANGED svars
  <2>1. UNCHANGED <<users, stage, input, mine, inHand, token, held, replayed>>
      BY <1>2 DEF Expire, Tick, svars
  <2> QED
      BY <2>1 DEF RotationInv, StagesInv, HeldInv, RefreshInv, StoredInv, RotationSpends,
                  Signs, Twice, Rotated
<1> QED
    BY <1>1, <1>2 DEF SessionsNext

\* A refresh token whose rotation has been answered is accepted again only if
\* two calls have signed it in the same second, whatever logins, refreshes and
\* logouts run at the same time (refresh_access_token).
THEOREM RotatedOnce == SessionsSpec => []RotationSpends
<1>1. SessionsInit => RotationInv
  <2>1. \A c \in AuthCalls : NoInput \notin Tokens
      BY AuthSessionsAssumption
  <2> QED
      BY <2>1 DEF SessionsInit, RotationInv, StagesInv, HeldInv, RefreshInv, StoredInv,
                  RotationSpends, Of
<1>2. RotationInv => RotationSpends
    BY DEF RotationInv
<1> QED
    BY <1>1, <1>2, NextRotation, SessionsInvariance, PTL DEF SessionsSpec

----------------------------------------------------------------------------
(* The keys of the providers. *)

KeysTypeOK ==
    /\ instant \in Nat /\ fetchedAt \in Nat
    /\ published \subseteq KeyIds /\ jwks \subseteq KeyIds
    /\ lastServed \in [KeyIds -> Nat]
    /\ phase \in [Verifications -> Phases]
    /\ kid \in [Verifications -> KeyIds \cup {Unread}]
    /\ asked \in [Verifications -> Nat]
    /\ arriving \in [Verifications -> SUBSET KeyIds]
    /\ failed \in [Verifications -> BOOLEAN]
    /\ steady \in [Verifications -> BOOLEAN]

ArrivingInv ==
    /\ fetchedAt <= instant
    /\ \A k \in published : lastServed[k] = instant
    /\ \A v \in Verifications :
          /\ asked[v] <= instant
          /\ phase[v] \in {"waiting", "forced"} =>
                \A k \in arriving[v] : lastServed[k] >= asked[v]

SteadyInv ==
    \A v \in Verifications :
        steady[v] =>
            /\ kid[v] \in published
            /\ phase[v] \in {"waiting", "forced"} => kid[v] \in arriving[v]

KeysInv == KeysTypeOK /\ ArrivingInv /\ SteadyInv /\ RotationFollowed

----------------------------------------------------------------------------
LEMMA InitKeysInv == KeysInit => KeysInv
<1> QED
    BY DEF KeysInit, KeysInv, KeysTypeOK, ArrivingInv, SteadyInv,
           RotationFollowed, Phases

LEMMA VerificationSteps ==
    ASSUME KeysInv, NEW v \in Verifications,
           Lookup(v) \/ Serve(v) \/ Arrive(v) \/ FetchFails(v)
    PROVE  KeysInv'
<1> KeysTypeOK /\ ArrivingInv /\ SteadyInv /\ RotationFollowed
    BY DEF KeysInv
<1>1. CASE Lookup(v)
  <2>1. PICK k \in KeyIds, p \in {"accepted", "asking", "forcing"} :
            /\ kid' = [kid EXCEPT ![v] = k]
            /\ steady' = [steady EXCEPT ![v] = k \in published]
            /\ phase' = [phase EXCEPT ![v] = p]
      BY <1>1 DEF Lookup, Resolve, Enter
  <2>2. /\ asked' = [asked EXCEPT ![v] = instant]
        /\ UNCHANGED <<instant, published, lastServed, jwks, fetchedAt, arriving, failed>>
      BY <1>1 DEF Lookup, provider, cache
  <2>3. KeysTypeOK'
      BY <2>1, <2>2 DEF KeysTypeOK, Phases
  <2>4. ArrivingInv'
      BY <2>1, <2>2 DEF KeysTypeOK, ArrivingInv
  <2>5. SteadyInv'
      BY <2>1, <2>2 DEF KeysTypeOK, SteadyInv
  <2>6. RotationFollowed'
      BY <2>1, <2>2 DEF KeysTypeOK, RotationFollowed
  <2> QED
      BY <2>3, <2>4, <2>5, <2>6 DEF KeysInv
<1>2. CASE Serve(v)
  <2>1. PICK p \in {"waiting", "forced"} :
            /\ phase' = [phase EXCEPT ![v] = p]
            /\ arriving' = [arriving EXCEPT ![v] = published]
      BY <1>2 DEF Serve, Enter
  <2>2. UNCHANGED <<instant, published, lastServed, jwks, fetchedAt, kid, asked,
                    failed, steady>>
      BY <1>2 DEF Serve, provider, cache
  <2>3. KeysTypeOK'
      BY <2>1, <2>2 DEF KeysTypeOK, Phases
  <2>4. ArrivingInv'
      BY <2>1, <2>2 DEF KeysTypeOK, ArrivingInv
  <2>5. SteadyInv'
      BY <2>1, <2>2 DEF KeysTypeOK, SteadyInv
  <2>6. RotationFollowed'
      BY <2>1, <2>2 DEF KeysTypeOK, RotationFollowed
  <2> QED
      BY <2>3, <2>4, <2>5, <2>6 DEF KeysInv
<1>3. CASE Arrive(v)
  <2>1. PICK p \in {"accepted", "forcing", "rejected"} :
            /\ phase' = [phase EXCEPT ![v] = p]
            /\ p = "rejected" => kid[v] \notin arriving[v]
      BY <1>3 DEF Arrive, Resolve, Enter
  <2>2. /\ jwks' = arriving[v] /\ fetchedAt' = asked[v]
        /\ asked' = [asked EXCEPT ![v] = instant]
        /\ UNCHANGED <<instant, published, lastServed, kid, arriving, failed, steady>>
      BY <1>3 DEF Arrive, Dated, provider
  <2>3. phase[v] \in {"waiting", "forced"}
      BY <1>3 DEF Arrive
  <2>4. KeysTypeOK'
      BY <2>1, <2>2 DEF KeysTypeOK, Phases
  <2>5. ArrivingInv'
      BY <2>1, <2>2, <2>3 DEF KeysTypeOK, ArrivingInv
  <2>6. SteadyInv'
      BY <2>1, <2>2 DEF KeysTypeOK, SteadyInv
  <2>7. RotationFollowed'
    <3>1. \A k \in jwks' : lastServed'[k] >= fetchedAt'
        BY <2>2, <2>3 DEF ArrivingInv
    <3>2. steady[v] => kid[v] \in arriving[v]
        BY <2>3 DEF SteadyInv
    <3>3. ASSUME NEW w \in Verifications, phase'[w] = "rejected", steady'[w]
          PROVE  failed'[w]
        BY <2>1, <2>2, <3>2, <3>3 DEF KeysTypeOK, RotationFollowed
    <3> QED
        BY <3>1, <3>3 DEF RotationFollowed
  <2> QED
      BY <2>4, <2>5, <2>6, <2>7 DEF KeysInv
<1>4. CASE FetchFails(v)
  <2>1. PICK p \in {"accepted", "forcing", "rejected"} :
            phase' = [phase EXCEPT ![v] = p]
      BY <1>4 DEF FetchFails, Resolve, Enter
  <2>2. /\ failed' = [failed EXCEPT ![v] = TRUE]
        /\ asked' = [asked EXCEPT ![v] = instant]
        /\ UNCHANGED <<instant, published, lastServed, jwks, fetchedAt, kid, arriving,
                       steady>>
      BY <1>4 DEF FetchFails, provider, cache
  <2>3. KeysTypeOK'
      BY <2>1, <2>2 DEF KeysTypeOK, Phases
  <2>4. ArrivingInv'
      BY <2>1, <2>2 DEF KeysTypeOK, ArrivingInv
  <2>5. SteadyInv'
      BY <2>1, <2>2 DEF KeysTypeOK, SteadyInv
  <2>6. RotationFollowed'
      BY <2>1, <2>2 DEF KeysTypeOK, RotationFollowed
  <2> QED
      BY <2>3, <2>4, <2>5, <2>6 DEF KeysInv
<1> QED
    BY <1>1, <1>2, <1>3, <1>4

\* Keys that come, go and come back: when a key was last served only grows.
LEMMA ProviderSteps ==
    ASSUME KeysInv, Rotate \/ Elapse
    PROVE  KeysInv'
<1> KeysTypeOK /\ ArrivingInv /\ SteadyInv /\ RotationFollowed
    BY DEF KeysInv
<1>1. UNCHANGED <<jwks, fetchedAt, phase, kid, asked, arriving, failed>>
    BY DEF Rotate, Elapse, cache, lookup
<1>2. /\ instant' \in Nat /\ instant' >= instant
      /\ published' \subseteq KeyIds
      /\ lastServed' \in [KeyIds -> Nat]
      /\ \A k \in KeyIds : lastServed'[k] = lastServed[k] \/ lastServed'[k] >= instant
      /\ \A k \in published' : lastServed'[k] = instant'
  <2>1. CASE Rotate
    <3>1. PICK new \in SUBSET KeyIds \ {{}} :
              /\ published' = new
              /\ lastServed' = [k \in KeyIds |-> IF k \in published \cup new
                                                 THEN instant ELSE lastServed[k]]
        BY <2>1 DEF Rotate
    <3> QED
        BY <2>1, <3>1 DEF Rotate, KeysTypeOK
  <2>2. CASE Elapse
    <3>1. /\ instant' = instant + 1 /\ published' = published
          /\ lastServed' = [k \in KeyIds |-> IF k \in published THEN instant + 1
                                             ELSE lastServed[k]]
        BY <2>2 DEF Elapse
    <3> QED
        BY <3>1 DEF KeysTypeOK
  <2> QED
      BY <2>1, <2>2
<1>3. /\ steady' \in [Verifications -> BOOLEAN]
      /\ \A v \in Verifications : steady'[v] => steady[v] /\ kid[v] \in published'
    BY DEF Rotate, Elapse, KeysTypeOK, SteadyInv
<1>4. KeysTypeOK'
    BY <1>1, <1>2, <1>3 DEF KeysTypeOK
<1>5. ArrivingInv'
  <2>1. fetchedAt' <= instant' /\ \A v \in Verifications : asked'[v] <= instant'
    <3>1. ASSUME NEW a \in Nat, a <= instant PROVE a <= instant'
        BY <1>2, <3>1 DEF KeysTypeOK
    <3> QED
        BY <1>1, <3>1 DEF KeysTypeOK, ArrivingInv
  <2>2. ASSUME NEW v \in Verifications, phase'[v] \in {"waiting", "forced"},
               NEW k \in arriving'[v]
        PROVE  lastServed'[k] >= asked'[v]
    <3>1. /\ k \in KeyIds /\ lastServed[k] >= asked[v] /\ asked[v] <= instant
          /\ asked'[v] = asked[v] /\ asked[v] \in Nat /\ lastServed'[k] \in Nat
        BY <1>1, <1>2, <2>2 DEF KeysTypeOK, ArrivingInv
    <3>2. lastServed'[k] = lastServed[k] \/ lastServed'[k] >= instant
        BY <1>2, <3>1
    <3> QED
        BY <3>1, <3>2 DEF KeysTypeOK
  <2> QED
      BY <1>2, <2>1, <2>2 DEF ArrivingInv
<1>6. SteadyInv'
    BY <1>1, <1>3 DEF SteadyInv
<1>7. RotationFollowed'
  <2>1. ASSUME NEW k \in jwks' PROVE lastServed'[k] >= fetchedAt'
    <3>1. /\ k \in KeyIds /\ lastServed[k] >= fetchedAt /\ fetchedAt <= instant
          /\ lastServed'[k] \in Nat /\ fetchedAt' = fetchedAt
        BY <1>1, <1>2 DEF KeysTypeOK, ArrivingInv, RotationFollowed
    <3>2. lastServed'[k] = lastServed[k] \/ lastServed'[k] >= instant
        BY <1>2, <3>1
    <3> QED
        BY <3>1, <3>2 DEF KeysTypeOK
  <2> QED
      BY <1>1, <1>3, <2>1 DEF RotationFollowed
<1> QED
    BY <1>4, <1>5, <1>6, <1>7 DEF KeysInv

\* Every reachable state satisfies the inductive invariant.
THEOREM KeysInvariance == KeysSpec => []KeysInv
<1>1. KeysInv /\ UNCHANGED keyVars => KeysInv'
    BY DEF keyVars, KeysInv, KeysTypeOK, ArrivingInv, SteadyInv, RotationFollowed
<1>2. KeysInv /\ [KeysNext]_keyVars => KeysInv'
    BY <1>1, VerificationSteps, ProviderSteps DEF KeysNext
<1> QED
    BY <1>2, InitKeysInv, PTL DEF KeysSpec

\* Overlapping and late refreshes never date the cache later than its keys were
\* served, and a key served all the while is rejected only after a failed fetch
\* (_verify_google_id_token, auth/service.py:89).
THEOREM RotationsAreFollowed == KeysSpec => []RotationFollowed
<1>1. KeysInv => RotationFollowed
    BY DEF KeysInv
<1> QED
    BY <1>1, KeysInvariance, PTL
====
