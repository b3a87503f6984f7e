--------------------------- MODULE PrepaidWallet ---------------------------
(***************************************************************************)
(* What the chat billing promises, without sessions, locks or commits.     *)
(* A request first reserves the dearest price it could cost, and the       *)
(* reservation is closed at most once: settled at the actual cost, or      *)
(* released in full.  Nothing else than a monthly deposit adds tokens.     *)
(***************************************************************************)
EXTENDS Integers

CONSTANTS Users, Requests, Owner, ChatCost, DraftCost, MonthlyTokens

VARIABLES available,   \* available[u]: tokens user u can spend
          hold         \* hold[c]: the reservation of request c

wvars == <<available, hold>>

WInit ==
    /\ available \in [Users -> Nat]
    /\ hold = [c \in Requests |-> "none"]

Deposit(u) ==
    /\ available' = [available EXCEPT ![u] = @ + MonthlyTokens]
    /\ UNCHANGED hold

Reserve(c) ==
    /\ hold[c] = "none"
    /\ available[Owner[c]] >= DraftCost
    /\ hold' = [hold EXCEPT ![c] = "held"]
    /\ available' = [available EXCEPT ![Owner[c]] = @ - DraftCost]

SettleAt(c, cost) ==
    /\ hold[c] = "held"
    /\ hold' = [hold EXCEPT ![c] = "settled"]
    /\ available' = [available EXCEPT ![Owner[c]] = @ + (DraftCost - cost)]

Release(c) ==
    /\ hold[c] = "held"
    /\ hold' = [hold EXCEPT ![c] = "released"]
    /\ available' = [available EXCEPT ![Owner[c]] = @ + DraftCost]

WNext ==
    \/ \E u \in Users : Deposit(u)
    \/ \E c \in Requests :
          \/ Reserve(c)
          \/ \E cost \in {ChatCost, DraftCost} : SettleAt(c, cost)
          \/ Release(c)

WSpec == WInit /\ [][WNext]_wvars
=============================================================================
