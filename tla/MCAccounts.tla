----------------------------- MODULE MCAccounts -----------------------------
(* Token accounts of several users, and the billing periods of one.  The    *)
(* two share no state here: a behaviour runs one of them while the other is *)
(* at rest.                                                                 *)
EXTENDS TokenAccount, BillingCalendar

\* Two users who enter each other's codes, one of them twice, while both are
\* signed up and read their balances.
MCCalls == {"join", "read", "read2", "peer", "tap", "tap2", "back"}
MCKind == [c \in MCCalls |->
              CASE c = "join" -> "signup"
                [] c \in {"read", "read2", "peer"} -> "balance"
                [] OTHER -> "apply"]
MCUser == [c \in MCCalls |-> IF c \in {"peer", "back"} THEN "b" ELSE "a"]
MCInviter == [c \in MCCalls |->
                 IF c = "back" THEN "a" ELSE IF c = "tap2" THEN "x" ELSE "b"]

\* Over a leap February, and over the end of a year.
MCFirstDate == Date(2023 * 12 + 11, 30)
MCLastDate == Date(2024 * 12 + 3, 1)

\* A behaviour plays one scene: the calls that take part in it.
MCScenes == { {"join", "read", "peer", "back"},
              {"read", "peer", "tap", "back"},
              {"read", "tap", "tap2", "back"},
              {"join", "read", "read2", "tap"} }
CONSTANT Scenes
VARIABLE scene

AtRest == scene = {} /\ UNCHANGED <<vars, scene>>
CalendarAtRest ==
    /\ today = FirstDate /\ sub = NoSub /\ lastGrant = Never
    /\ UNCHANGED cvars
TokensNext ==
    \/ scene = {} /\ scene' \in Scenes /\ UNCHANGED vars
    \/ /\ scene # {} /\ UNCHANGED scene
       /\ \E c \in scene : Progress(c) \/ Fail(c)
AccountsInit == Init /\ CalendarInit /\ scene = {}
AccountsNext == \/ CalendarAtRest /\ TokensNext
                \/ AtRest /\ CalendarNext
AccountsSpec == /\ AccountsInit /\ [][AccountsNext]_<<vars, cvars, scene>>
                /\ Fairness
=============================================================================
