---------------------------- MODULE AuthSessions ----------------------------
(***************************************************************************)
(* Logins, refresh tokens, logout and the deletion of accounts.            *)
(*                                                                         *)
(* A web login leaves a state in Redis, comes back from the provider with  *)
(* it, and hands the browser a temporary code for its tokens; a mobile     *)
(* login answers with the tokens themselves.  A users row keeps the one    *)
(* refresh token that may be rotated.  A JWT is its subject, its type and  *)
(* its expiry in whole seconds: two tokens signed for a user in the same   *)
(* second are equal.                                                       *)
(*                                                                         *)
(* A session writes, of a row it has loaded, the columns whose value       *)
(* changed since it loaded them, whatever the row holds by then.           *)
(***************************************************************************)
EXTENDS Naturals, FiniteSets

CONSTANTS
    AuthCalls,       \* HTTP requests
    AuthKind,        \* begin, callback, exchange, mobile, refresh, logout, delete
    Emails,
    MailOf,      \* the e-mail address the provider vouches for in a login
    ProviderOf,  \* google or apple
    MaxSecond,   \* bound of the clock
    Lifetime,    \* seconds a refresh token is valid
    Unset,       \* NULL in users.refresh_token
    Blank,       \* "" in users.refresh_token
    NoInput      \* a call that has not read its input yet

Tokens == [user : AuthCalls, at : 0 .. MaxSecond]
RefreshColumn == Tokens \cup {Unset, Blank}
Rows == [email : Emails, provider : {"google", "apple"}, active : BOOLEAN,
         refresh : RefreshColumn]
Of(k) == {c \in AuthCalls : AuthKind[c] = k}
Logins == Of("callback") \cup Of("mobile")

ASSUME AuthSessionsAssumption ==
    /\ AuthKind \in [AuthCalls -> {"begin", "callback", "exchange", "mobile",
                           "refresh", "logout", "delete"}]
    /\ MailOf \in [AuthCalls -> Emails]
    /\ ProviderOf \in [AuthCalls -> {"google", "apple"}]
    /\ MaxSecond \in Nat /\ Lifetime \in Nat
    /\ Unset \notin Tokens /\ Blank \notin Tokens /\ Unset # Blank
    /\ NoInput \notin AuthCalls \cup Tokens

VARIABLES
    users,    \* rows of users by the call that inserted them
    states,   \* oauth:state keys in Redis, by the call that began the login
    codes,    \* oauth:temp keys in Redis, by the login that stored them
    now,      \* the second the server's clock shows
    stage,    \* where a call is
    input,    \* the state, code or token a call was sent
    mine,     \* the users row a call works on
    inHand,   \* that row as the call's session loaded it
    token,    \* the refresh token a call has signed or been given
    held,     \* refresh tokens that clients have received
    replayed  \* tokens accepted although their rotation had been answered

svars == <<users, states, codes, now, stage, input, mine, inHand, token, held, replayed>>

AuthEnded == {"answered", "refused"}
Steps == {"start", "provider", "find", "reactivate", "insert", "conflict",
          "sign", "store", "code", "clear", "erase"} \cup AuthEnded

SessionsInit ==
    /\ users = [i \in {} |-> Unset]
    /\ states = {} /\ codes = {} /\ now = 0
    /\ stage = [c \in AuthCalls |-> "start"]
    /\ input = [c \in AuthCalls |-> NoInput]
    /\ mine = [c \in AuthCalls |-> NoInput]
    /\ inHand = [c \in AuthCalls |-> Unset]
    /\ token = [c \in AuthCalls |-> Unset]
    /\ held = {} /\ replayed = {}

Proceed(c, l) == stage' = [stage EXCEPT ![c] = l]
Sent(c, x) == input' = [input EXCEPT ![c] = x]
Load(c, i) == /\ mine' = [mine EXCEPT ![c] = i]
              /\ inHand' = [inHand EXCEPT ![c] = users[i]]
\* (mutated form: the whole loaded row is written back)
LoadedRow(c) == inHand[c]
Row(c) == users[mine[c]]
Account(mail) == {i \in DOMAIN users : users[i].email = mail}
Valid(t) == now < t.at + Lifetime
\* A refresh token signed now for a user.
Signed(i) == [user |-> i, at |-> now]

\* The columns an UPDATE of a loaded row writes.
Write(c, col, v) ==
    IF inHand[c][col] = v THEN Row(c)[col] ELSE v
Save(c, row) == users' = [users EXCEPT ![mine[c]] = row]

----------------------------------------------------------------------------
(* The provider's round trip: google_login, apple_login, the callbacks.    *)

Begin(c) ==
    /\ AuthKind[c] = "begin" /\ stage[c] = "start"
    /\ states' = states \cup {c}
    /\ Proceed(c, "answered")
    /\ UNCHANGED <<users, codes, now, input, mine, inHand, token, held,
                   replayed>>

\* GETDEL: the key is gone for whoever comes next.
Taken(keys, k) == keys \ {k}

VerifyState(c, s) ==
    /\ AuthKind[c] = "callback" /\ stage[c] = "start"
    /\ AuthKind[s] = "begin" /\ stage[s] = "answered"
    /\ Sent(c, s)
    /\ IF s \in states
       THEN Proceed(c, "provider")
       ELSE Proceed(c, "refused")
    /\ states' = Taken(states, s)
    /\ UNCHANGED <<users, codes, now, mine, inHand, token, held, replayed>>

\* A web login has a code of the provider, a mobile one an id_token.
ToIdentify(c) ==
    \/ stage[c] = "provider"
    \/ AuthKind[c] = "mobile" /\ stage[c] = "start"

\* Google answers for the code with the user's data; Apple with an id_token,
\* whose signature and nonce are verified as those of a mobile login's are.
AskGoogle(c) == ProviderOf[c] = "google" /\ ToIdentify(c)
AskApple(c) == ProviderOf[c] = "apple" /\ ToIdentify(c)

Identify(c) ==
    /\ AskGoogle(c) \/ AskApple(c)
    /\ Proceed(c, "find")
    /\ UNCHANGED <<users, states, codes, now, input, mine, inHand, token, held, replayed>>

(* _find_or_create_user *)
Find(c) ==
    /\ stage[c] = "find"
    /\ IF Account(MailOf[c]) = {}
       THEN Proceed(c, "insert") /\ UNCHANGED <<mine, inHand>>
       ELSE \E i \in Account(MailOf[c]) :
                /\ Load(c, i)
                /\ Proceed(c, IF users[i].active THEN "sign" ELSE "reactivate")
    /\ UNCHANGED <<users, states, codes, now, input, token, held,
                   replayed>>

\* The commit of is_active = True, and the refresh of the loaded row.
Reactivate(c) ==
    /\ stage[c] = "reactivate"
    /\ Save(c, [Row(c) EXCEPT !.active = TRUE])
    /\ inHand' = [inHand EXCEPT ![c] = [Row(c) EXCEPT !.active = TRUE]]
    /\ Proceed(c, "sign")
    /\ UNCHANGED <<states, codes, now, input, mine, token, held,
                   replayed>>

NewRow(c) == [email |-> MailOf[c], provider |-> ProviderOf[c], active |-> TRUE,
              refresh |-> Unset]
\* The unique index on users.email (mutated form: no index).
MailFree(c) == FALSE
MailTaken(c) == Account(MailOf[c]) # {}

\* create_oauth_user
CreateUser(c) ==
    /\ stage[c] = "insert"
    /\ IF MailTaken(c)
       THEN Proceed(c, "conflict") /\ UNCHANGED <<users, mine, inHand>>
       ELSE /\ users' = [i \in DOMAIN users \cup {c} |->
                            IF i = c THEN NewRow(c) ELSE users[i]]
            /\ mine' = [mine EXCEPT ![c] = c]
            /\ inHand' = [inHand EXCEPT ![c] = NewRow(c)]
            /\ Proceed(c, "sign")
    /\ UNCHANGED <<states, codes, now, input, token, held, replayed>>

\* After an IntegrityError the user is looked up by provider.
Conflict(c) ==
    LET same == {i \in Account(MailOf[c]) : users[i].provider = ProviderOf[c]}
    IN
    /\ stage[c] = "conflict"
    /\ IF same = {}
       THEN Proceed(c, "refused") /\ UNCHANGED <<mine, inHand>>
       ELSE \E i \in same : Load(c, i) /\ Proceed(c, "sign")
    /\ UNCHANGED <<users, states, codes, now, input, token, held,
                   replayed>>

(* _generate_tokens_for_user *)
Sign(c) ==
    /\ stage[c] = "sign"
    /\ token' = [token EXCEPT ![c] = Signed(mine[c])]
    /\ Proceed(c, "store")
    /\ UNCHANGED <<users, states, codes, now, input, mine, inHand, held, replayed>>

\* update_refresh_token; a mobile login and a refresh answer with the token.
StoreToken(c) ==
    /\ stage[c] = "store"
    /\ Save(c, [Row(c) EXCEPT !.refresh = Write(c, "refresh", token[c])])
    /\ IF AuthKind[c] = "callback"
       THEN Proceed(c, "code") /\ UNCHANGED held
       ELSE Proceed(c, "answered") /\ held' = held \cup {token[c]}
    /\ UNCHANGED <<states, codes, now, input, mine, inHand, token,
                   replayed>>

\* _store_temp_code_and_redirect
StoreCode(c) ==
    /\ stage[c] = "code"
    /\ codes' = codes \cup {c}
    /\ Proceed(c, "answered")
    /\ UNCHANGED <<users, states, now, input, mine, inHand, token, held, replayed>>

\* exchange_token
Exchange(c, k) ==
    /\ AuthKind[c] = "exchange" /\ stage[c] = "start"
    /\ AuthKind[k] = "callback" /\ stage[k] = "answered"
    /\ Sent(c, k)
    /\ IF k \in codes
       THEN /\ token' = [token EXCEPT ![c] = token[k]]
            /\ held' = held \cup {token[k]}
            /\ Proceed(c, "answered")
       ELSE Proceed(c, "refused") /\ UNCHANGED <<token, held>>
    /\ codes' = Taken(codes, k)
    /\ UNCHANGED <<users, states, now, mine, inHand, replayed>>

----------------------------------------------------------------------------
(* refresh_access_token, logout, delete_current_user *)

\* verify_token, the stored token and is_active, in that order (mutated form:
\* the stored token is not compared).
AcceptsUnexpired(t) == Valid(t) /\ users[t.user].active
Accepts(t) ==
    /\ Valid(t)
    /\ users[t.user].refresh = t
    /\ users[t.user].active

Rotated(t) == \E d \in Of("refresh") : input[d] = t /\ stage[d] = "answered"

LoadRefresh(c, t) ==
    /\ AuthKind[c] = "refresh" /\ stage[c] = "start"
    /\ t \in held
    /\ Sent(c, t)
    /\ IF Accepts(t)
       THEN /\ Load(c, t.user)
            /\ token' = [token EXCEPT ![c] = Signed(t.user)]
            /\ Proceed(c, "store")
            /\ replayed' = IF Rotated(t) THEN replayed \cup {t} ELSE replayed
       ELSE Proceed(c, "refused") /\ UNCHANGED <<mine, inHand, token, replayed>>
    /\ UNCHANGED <<users, states, codes, now, held>>

\* An expired token is answered all the same; nothing is compared.
LoadLogout(c, t) ==
    /\ AuthKind[c] = "logout" /\ stage[c] = "start"
    /\ t \in held
    /\ Sent(c, t)
    /\ IF Valid(t)
       THEN Load(c, t.user) /\ Proceed(c, "clear")
       ELSE Proceed(c, "answered") /\ UNCHANGED <<mine, inHand>>
    /\ UNCHANGED <<users, states, codes, now, token, held, replayed>>

Logout(c) ==
    /\ stage[c] = "clear"
    /\ Save(c, [Row(c) EXCEPT !.refresh = Write(c, "refresh", Blank)])
    /\ Proceed(c, "answered")
    /\ UNCHANGED <<states, codes, now, input, mine, inHand, token, held, replayed>>

\* get_current_user; the access token was received with a refresh token.
Authenticate(c, t) ==
    /\ AuthKind[c] = "delete" /\ stage[c] = "start"
    /\ t \in held
    /\ Sent(c, t)
    /\ IF users[t.user].active
       THEN Load(c, t.user) /\ Proceed(c, "erase")
       ELSE Proceed(c, "refused") /\ UNCHANGED <<mine, inHand>>
    /\ UNCHANGED <<users, states, codes, now, token, held, replayed>>

\* delete_user: session.get returns the row the dependency has loaded.
Delete(c) ==
    /\ stage[c] = "erase"
    /\ Save(c, [Row(c) EXCEPT !.active = Write(c, "active", FALSE),
                              !.refresh = Write(c, "refresh", Unset)])
    /\ Proceed(c, "answered")
    /\ UNCHANGED <<states, codes, now, input, mine, inHand, token, held, replayed>>

----------------------------------------------------------------------------
(* The environment *)

\* A provider that refuses, an error of PostgreSQL or Redis, a lost process.
Fail(c) ==
    /\ stage[c] \notin AuthEnded
    /\ Proceed(c, "refused")
    /\ UNCHANGED <<users, states, codes, now, input, mine, inHand, token, held, replayed>>

\* The 300 seconds of a state or the 60 seconds of a code are over.
Expire ==
    /\ \/ \E s \in states : states' = states \ {s} /\ UNCHANGED codes
       \/ \E k \in codes : codes' = codes \ {k} /\ UNCHANGED states
    /\ UNCHANGED <<users, now, stage, input, mine, inHand, token, held,
                   replayed>>

Tick ==
    /\ now < MaxSecond
    /\ now' = now + 1
    /\ UNCHANGED <<users, states, codes, stage, input, mine, inHand, token, held, replayed>>

AuthStep(c) ==
    \/ Begin(c)
    \/ \E s \in Of("begin") : VerifyState(c, s)
    \/ Identify(c) \/ Find(c) \/ Reactivate(c) \/ CreateUser(c) \/ Conflict(c)
    \/ Sign(c) \/ StoreToken(c) \/ StoreCode(c)
    \/ \E k \in Of("callback") : Exchange(c, k)
    \/ \E t \in held : \/ LoadRefresh(c, t)
                       \/ LoadLogout(c, t)
                       \/ Authenticate(c, t)
    \/ Logout(c) \/ Delete(c)
    \/ Fail(c)

SessionsNext == (\E c \in AuthCalls : AuthStep(c)) \/ Expire \/ Tick
SessionsSpec == SessionsInit /\ [][SessionsNext]_svars

----------------------------------------------------------------------------
(* Properties *)

\* What the variables hold; a call past its lookup works on an existing row.
SessionsTypeOK ==
    /\ DOMAIN users \subseteq AuthCalls
    /\ \A i \in DOMAIN users : users[i] \in Rows
    /\ states \subseteq Of("begin") /\ codes \subseteq Of("callback")
    /\ now \in 0 .. MaxSecond
    /\ stage \in [AuthCalls -> Steps]
    /\ DOMAIN input = AuthCalls
    /\ \A c \in AuthCalls :
        input[c] \in {NoInput} \cup
            (IF AuthKind[c] \in {"callback", "exchange"} THEN AuthCalls ELSE Tokens)
    /\ mine \in [AuthCalls -> AuthCalls \cup {NoInput}]
    /\ inHand \in [AuthCalls -> Rows \cup {Unset}]
    /\ token \in [AuthCalls -> Tokens \cup {Unset}]
    /\ held \subseteq Tokens /\ replayed \subseteq Tokens
    /\ \A t \in held : t.user \in DOMAIN users
    /\ \A c \in AuthCalls :
        stage[c] \in {"reactivate", "sign", "store", "code", "clear", "erase"} =>
            mine[c] \in DOMAIN users /\ inHand[c] \in Rows

\* First logins that race, of one provider or of two, leave one account for an
\* e-mail address (auth/service.py:122-123, 147).
OneAccount ==
    \A i, j \in DOMAIN users : users[i].email = users[j].email => i = j

\* No call that loaded an account before its deletion brings it back: only a
\* login that found it deleted does (users/service.py:71, auth/service.py:130).
DeletedStaysOut ==
    [][\A i \in DOMAIN users :
          ~users[i].active /\ users'[i].active =>
              \E c \in Logins : /\ mine[c] = i /\ ~inHand[c].active
                                /\ stage[c] = "reactivate"]_svars

\* A token whose rotation has been answered is accepted again only if it was
\* signed twice: by two logins, or by the rotation itself, in one second
\* (auth/router.py:399, 419).
RotationSpends ==
    \A t \in replayed :
        \E c, d \in AuthCalls \ Of("exchange") :
            c # d /\ token[c] = t /\ token[d] = t

=============================================================================
