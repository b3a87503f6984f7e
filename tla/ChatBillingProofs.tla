------------------------- MODULE ChatBillingProofs -------------------------
(***************************************************************************)
(* Proofs about ChatBilling, for every set of users and requests, every    *)
(* prices, every bound on periods and every set of faults.                 *)
(*                                                                         *)
(* None of the safety invariants is inductive alone: a commit writes the   *)
(* absolute value a request computed at an earlier step.  They follow from *)
(* two facts about the row lock: it is held exactly by the request whose   *)
(* control point is inside a transaction (LockInv), and whoever holds it   *)
(* has computed its value from the row as it still is (FreshInv).          *)
(* That all movements are accounted for takes in addition what the sum of  *)
(* a set does when one of its terms changes (SumChanges).                  *)
(***************************************************************************)
EXTENDS ChatBilling, FiniteSetTheorems, WellFoundedInduction, TLAPS

\* The lock of a row and the control points agree.
LockInv ==
    /\ \A u \in Users : lock[u] \in Requests =>
          Owner[lock[u]] = u /\ pc[lock[u]] \in Locking
    /\ \A c \in Requests : pc[c] \in Locking => lock[Owner[c]] = c

\* The value a transaction is about to write is the row plus its movement.
FreshInv ==
    \A c \in Requests : pc[c] \in Locking \ {"refused"} =>
        work[c] = balance[Owner[c]] + pending[c]

\* What each transaction is about to move.
AmountInv ==
    \A c \in Requests :
        /\ pc[c] = "granting" => pending[c] \in {0, MonthlyTokens}
        /\ pc[c] = "debiting" =>
              pending[c] = -DraftCost /\ balance[Owner[c]] >= DraftCost
        /\ pc[c] = "settling" => pending[c] = DraftCost - ChatCost
        /\ pc[c] = "crediting" => pending[c] = DraftCost

\* A grant on its way is newer than the last one, and not from the future.
StampInv ==
    /\ \A u \in Users : grants[u] <= lastGrant[u] /\ lastGrant[u] <= period[u]
    /\ \A c \in Requests : pc[c] = "granting" /\ stamp[c] > 0 =>
          lastGrant[Owner[c]] < stamp[c] /\ stamp[c] <= period[Owner[c]]

IInv ==
    /\ TypeOK /\ LockInv /\ FreshInv /\ AmountInv /\ StampInv
    /\ LedgerAgrees /\ NeverOverdrawn

\* Where the money of a request stands at each of its control points, when no
\* statement can fail on a session that stays usable.
NetInv ==
    \A c \in Requests :
        /\ pc[c] \in {"start", "granting", "admitted", "debiting", "refused"} =>
              net[c] = 0 /\ ~answer[c] /\ outcome[c] = "none"
        /\ pc[c] \in {"charged", "streaming"} => outcome[c] = "none"
        /\ pc[c] = "settling" => outcome[c] = "chat"
        /\ pc[c] = "saving" => outcome[c] = "draft"
        /\ pc[c] \in {"answered", "refunding", "crediting"} => outcome[c] # "none"
        /\ \/ pc[c] \in {"charged", "streaming", "settling", "saving", "crediting"}
           \/ pc[c] = "refunding" /\ ~broken[c]
           => net[c] = -DraftCost /\ ~answer[c]
        /\ answer[c] => net[c] = -Price(c)

----------------------------------------------------------------------------
LEMMA InitIInv == Init => IInv
<1> SUFFICES ASSUME Init PROVE IInv
    OBVIOUS
<1>1. \A u \in Users : balance[u] \in Nat /\ lastGrant[u] \in 0..1
    BY ConstantsAssumption DEF Init
<1>2. TypeOK
    BY ConstantsAssumption, <1>1 DEF Init, TypeOK, Pcs
<1>3. LockInv /\ FreshInv /\ AmountInv
    BY ConstantsAssumption DEF Init, LockInv, FreshInv, AmountInv, Locking
<1>4. StampInv
    BY ConstantsAssumption, <1>1 DEF Init, StampInv
<1>5. LedgerAgrees /\ NeverOverdrawn
    BY <1>1 DEF Init, LedgerAgrees, NeverOverdrawn
<1> QED
    BY <1>2, <1>3, <1>4, <1>5 DEF IInv

----------------------------------------------------------------------------
(* Steps that write no row: they move the control point of the request, and *)
(* take or release the row lock with it.                                    *)
LEMMA ControlSteps ==
    ASSUME IInv, NEW c \in Requests,
           \/ LookupFails(c) \/ SaveUserMessage(c) \/ SaveUserMessageFails(c)
           \/ DraftDone(c) \/ SaveDraft(c) \/ Finish(c)
           \/ RefreshFails(c) \/ StreamFails(c)
           \/ AdmissionFails(c) \/ CloseRefused(c) \/ SaveFails(c)
           \/ RefundFails(c) \/ Disconnect(c) \/ DebitRefused(c)
    PROVE  IInv'
<1> USE ConstantsAssumption
    DEF Goto, Locking, Pcs, transaction, money, grantState, stream,
        IInv, TypeOK, LockInv, FreshInv, AmountInv,
        StampInv, LedgerAgrees, NeverOverdrawn
<1>1. CASE LookupFails(c)
    BY <1>1 DEF LookupFails
<1>2. CASE SaveUserMessage(c)
    BY <1>2 DEF SaveUserMessage
<1>3. CASE SaveUserMessageFails(c)
    BY <1>3 DEF SaveUserMessageFails
<1>4. CASE DraftDone(c)
    BY <1>4 DEF DraftDone, HandleDraft
<1>5. CASE SaveDraft(c)
    BY <1>5 DEF SaveDraft
<1>6. CASE Finish(c)
    BY <1>6 DEF Finish
<1>7. CASE RefreshFails(c)
    BY <1>7 DEF RefreshFails
<1>8. CASE StreamFails(c)
    BY <1>8 DEF StreamFails, HandleError
<1>9. CASE AdmissionFails(c)
    BY <1>9 DEF AdmissionFails, Unlock, EndTransaction
<1>10. CASE CloseRefused(c)
    BY <1>10 DEF CloseRefused, Unlock, EndTransaction
<1>11. CASE SaveFails(c)
    BY <1>11 DEF SaveFails, Unlock, EndTransaction
<1>12. CASE RefundFails(c)
    BY <1>12 DEF RefundFails, Unlock, EndTransaction
<1>13. CASE Disconnect(c)
    BY <1>13 DEF Disconnect, Unlock, EndTransaction
<1>14. CASE DebitRefused(c)
    BY <1>14 DEF DebitRefused, Locked
<1> QED
    BY <1>1, <1>2, <1>3, <1>4, <1>5, <1>6, <1>7,
       <1>8, <1>9, <1>10, <1>11, <1>12, <1>13, <1>14

----------------------------------------------------------------------------
(* Steps that open a transaction: the lock was free, so no other value was  *)
(* computed from the row, and the one computed now is fresh.                *)
LEMMA OpeningSteps ==
    ASSUME IInv, NEW c \in Requests,
           EnsureMonthly(c) \/ Debit(c) \/ SettleChat(c) \/ Refund(c)
    PROVE  IInv'
<1> USE ConstantsAssumption
    DEF Goto, Locking, Pcs, transaction, money, grantState, stream,
        Open, Locked, IInv, TypeOK, LockInv, FreshInv, AmountInv,
        StampInv, LedgerAgrees, NeverOverdrawn
<1>1. CASE EnsureMonthly(c)
    BY <1>1 DEF EnsureMonthly, GrantDue
<1>2. CASE Debit(c)
    BY <1>2 DEF Debit, Affordable
<1>3. CASE SettleChat(c)
    BY <1>3 DEF SettleChat, HandleChat, SettlementRefund
<1>4. CASE Refund(c)
    BY <1>4 DEF Refund, RefundAmount
<1> QED
    BY <1>1, <1>2, <1>3, <1>4

----------------------------------------------------------------------------
(* Steps that commit: the writer holds the lock, so nobody else is inside a *)
(* transaction on this row, and its value is the row plus its movement.     *)
LEMMA ChargeSteps ==
    ASSUME IInv, NEW c \in Requests,
           DebitCommit(c) \/ SettleChatCommit(c) \/ RefundCommit(c)
    PROVE  IInv'
<1> USE ConstantsAssumption
    DEF Goto, Locking, Pcs, transaction, money, grantState, stream,
        WriteCharge, WriteRow, EndTransaction, Unlock,
        IInv, TypeOK, LockInv, FreshInv, AmountInv,
        StampInv, LedgerAgrees, NeverOverdrawn
<1>1. CASE DebitCommit(c)
    BY <1>1 DEF DebitCommit
<1>2. CASE SettleChatCommit(c)
    BY <1>2 DEF SettleChatCommit
<1>3. CASE RefundCommit(c)
    BY <1>3 DEF RefundCommit
<1> QED
    BY <1>1, <1>2, <1>3

\* The commit of the monthly grant also moves lastGrant and grants.
LEMMA GrantStep ==
    ASSUME IInv, NEW c \in Requests, EnsureMonthlyCommit(c)
    PROVE  IInv'
<1> USE ConstantsAssumption
    DEF EnsureMonthlyCommit, Goto, stream,
        WriteRow, EndTransaction, Unlock
<1>1. TypeOK /\ LockInv /\ FreshInv /\ AmountInv /\ StampInv
      /\ LedgerAgrees /\ NeverOverdrawn
    BY DEF IInv
<1>2. /\ lastGrant' \in [Users -> 0..MaxPeriod]
      /\ grants' \in [Users -> 0..MaxPeriod]
      /\ StampInv'
  <2>1. CASE stamp[c] > 0
    <3>1. /\ lastGrant[Owner[c]] < stamp[c] /\ stamp[c] <= period[Owner[c]]
          /\ grants[Owner[c]] <= lastGrant[Owner[c]]
        BY <1>1, <2>1 DEF StampInv, TypeOK
    <3>2. /\ lastGrant' = [lastGrant EXCEPT ![Owner[c]] = stamp[c]]
          /\ grants' = [grants EXCEPT ![Owner[c]] = @ + 1]
        BY <2>1
    <3>3. \A d \in Requests : pc'[d] = "granting" /\ stamp'[d] > 0 =>
              Owner[d] # Owner[c] /\ pc[d] = "granting" /\ stamp[d] > 0
        BY <1>1 DEF TypeOK, LockInv, Locking
    <3> QED
        BY <1>1, <3>1, <3>2, <3>3 DEF TypeOK, StampInv
  <2>2. CASE ~(stamp[c] > 0)
    <3>1. lastGrant' = lastGrant /\ grants' = grants
        BY <2>2
    <3> QED
        BY <1>1, <3>1 DEF TypeOK, StampInv
  <2> QED
    BY <2>1, <2>2
<1>3. TypeOK'
    BY <1>1, <1>2 DEF TypeOK, Pcs
<1>4. LockInv'
    BY <1>1 DEF TypeOK, LockInv, Locking
<1>5. FreshInv' /\ AmountInv' /\ LedgerAgrees' /\ NeverOverdrawn'
    BY <1>1 DEF TypeOK, LockInv, Locking, FreshInv, AmountInv,
                LedgerAgrees, NeverOverdrawn
<1> QED
    BY <1>2, <1>3, <1>4, <1>5 DEF IInv

----------------------------------------------------------------------------
LEMMA NextIInv == IInv /\ [Next]_vars => IInv'
<1> SUFFICES ASSUME IInv, [Next]_vars PROVE IInv'
    OBVIOUS
<1>1. ASSUME NEW c \in Requests, Step(c) \/ Disconnect(c) PROVE IInv'
    BY <1>1, ControlSteps, OpeningSteps, ChargeSteps, GrantStep DEF Step
<1>2. ASSUME NEW u \in Users, NewPeriod(u) PROVE IInv'
    BY <1>2, ConstantsAssumption
       DEF NewPeriod, IInv, TypeOK, LockInv, FreshInv, AmountInv, StampInv,
           LedgerAgrees, NeverOverdrawn, money, stream, transaction
<1>3. CASE UNCHANGED vars
    BY <1>3 DEF vars, IInv, TypeOK, LockInv, FreshInv, AmountInv, StampInv,
                LedgerAgrees, NeverOverdrawn
<1> QED
    BY <1>1, <1>2, <1>3 DEF Next, Idle

\* Every reachable state satisfies the inductive invariant.
THEOREM Invariance == Spec => []IInv
<1> QED
    BY InitIInv, NextIInv, PTL DEF Spec

\* The variables keep their types: in particular the grants of a user stay
\* within the number of billing periods (ensure_monthly_tokens).
THEOREM TypeCorrect == Spec => []TypeOK
<1>1. IInv => TypeOK
    BY DEF IInv
<1> QED
    BY <1>1, Invariance, PTL

\* The balance is the sum of the user's token_transactions, for any number of
\* concurrent requests and any faults (get_or_create_balance, debit, credit).
THEOREM LedgerAgreement == Spec => []LedgerAgrees
<1>1. IInv => LedgerAgrees
    BY DEF IInv
<1> QED
    BY <1>1, Invariance, PTL

\* No balance ever goes below zero (debit, after the admission of send_chat).
THEOREM NoOverdraft == Spec => []NeverOverdrawn
<1>1. IInv => NeverOverdrawn
    BY DEF IInv
<1> QED
    BY <1>1, Invariance, PTL

\* A billing period is granted at most once (ensure_monthly_tokens).
THEOREM OneGrantPerPeriod == Spec => []MonthlyOnce
<1>1. IInv => MonthlyOnce
    BY DEF IInv, TypeOK, StampInv, MonthlyOnce
<1> QED
    BY <1>1, Invariance, PTL
----------------------------------------------------------------------------
(* The money of one request.  Without pool faults a refund never follows a *)
(* commit that settled the request, because the session is then broken.    *)
LEMMA InitNetInv == Init => NetInv
<1> QED
    BY DEF Init, NetInv

LEMMA StepNetInv ==
    ASSUME "pool" \notin Faults, TypeOK, AmountInv, NetInv,
           NEW c \in Requests, Step(c) \/ Disconnect(c)
    PROVE  NetInv'
<1> USE ConstantsAssumption
    DEF TypeOK, AmountInv, NetInv, Price, Goto, transaction, money, grantState,
        stream
<1>1. CASE \/ LookupFails(c) \/ SaveUserMessage(c) \/ SaveUserMessageFails(c)
           \/ DraftDone(c) \/ SaveDraft(c) \/ Finish(c)
    BY <1>1 DEF LookupFails, SaveUserMessage, SaveUserMessageFails,
                DraftDone, HandleDraft, SaveDraft, Finish
<1>2. CASE RefreshFails(c)
  <2>1. broken' = [broken EXCEPT ![c] = TRUE]
      BY <1>2 DEF RefreshFails
  <2> QED
      BY <1>2, <2>1 DEF RefreshFails
<1>3. CASE \/ AdmissionFails(c) \/ CloseRefused(c) \/ SaveFails(c)
           \/ RefundFails(c) \/ Disconnect(c) \/ DebitRefused(c)
    BY <1>3 DEF AdmissionFails, CloseRefused, SaveFails, RefundFails,
                Disconnect, DebitRefused, EndTransaction
<1>4. CASE EnsureMonthly(c) \/ Debit(c) \/ SettleChat(c) \/ Refund(c)
    BY <1>4 DEF EnsureMonthly, Debit, SettleChat, HandleChat, Refund, Open
<1>5. CASE EnsureMonthlyCommit(c)
    BY <1>5 DEF EnsureMonthlyCommit, WriteRow, EndTransaction
<1>6. CASE DebitCommit(c)
    BY <1>6 DEF DebitCommit, WriteCharge, WriteRow, EndTransaction
<1>7. CASE SettleChatCommit(c)
    BY <1>7 DEF SettleChatCommit, WriteCharge, WriteRow, EndTransaction
<1>8. CASE RefundCommit(c)
    BY <1>8 DEF RefundCommit, WriteCharge, WriteRow, EndTransaction
<1>9. CASE StreamFails(c)
  <2>1. /\ pc[c] = "streaming" /\ pc' = [pc EXCEPT ![c] = "refunding"]
        /\ outcome' = [outcome EXCEPT ![c] = "failed"]
        /\ UNCHANGED <<net, answer>>
        /\ \A d \in Requests \ {c} : broken'[d] = broken[d]
      BY <1>9 DEF StreamFails, HandleError
  <2> QED
      BY <2>1
<1> QED
    BY <1>1, <1>2, <1>3, <1>4, <1>5, <1>6, <1>7, <1>8, <1>9 DEF Step

LEMMA NextNetInv ==
    ASSUME "pool" \notin Faults, IInv, NetInv, [Next]_vars
    PROVE  NetInv'
<1>1. ASSUME NEW c \in Requests, Step(c) \/ Disconnect(c) PROVE NetInv'
    BY <1>1, StepNetInv DEF IInv
<1>2. ASSUME NEW u \in Users, NewPeriod(u) PROVE NetInv'
    BY <1>2 DEF NewPeriod, NetInv, Price, money, stream, transaction
<1>3. CASE UNCHANGED vars
    BY <1>3 DEF vars, NetInv, Price
<1> QED
    BY <1>1, <1>2, <1>3 DEF Next, Idle

\* A stored answer has cost exactly its price, whatever requests run with it,
\* wherever they are cut off and whichever commit fails (send_chat_stream), as
\* long as no statement fails on a session that remains usable.
THEOREM ExactPrice ==
    ASSUME "pool" \notin Faults PROVE Spec => []AnswerCostsItsPrice
<1>1. NetInv => AnswerCostsItsPrice
    BY DEF NetInv, AnswerCostsItsPrice
<1>2. IInv /\ NetInv /\ [Next]_vars => NetInv'
    BY NextNetInv
<1> QED
    BY InitNetInv, <1>1, <1>2, Invariance, PTL DEF Spec

----------------------------------------------------------------------------
\* Where a failed stream stands when no environment fault interferes: on its way
\* to the refund with a sound session, or over and paid back.
RefundInv ==
    \A c \in Requests :
        /\ ~broken[c]
        /\ outcome[c] = "failed" =>
              \/ pc[c] \in {"refunding", "crediting"}
              \/ pc[c] = "done" /\ net[c] = 0

LEMMA StepRefundInv ==
    ASSUME Faults = {}, IInv, NetInv, RefundInv, NEW c \in Requests, Step(c)
    PROVE  RefundInv'
<1> USE DEF Goto, transaction, money, grantState, stream
<1> ConstantsAssumption /\ TypeOK /\ AmountInv
    BY ConstantsAssumption DEF IInv
<1>1. CASE \/ LookupFails(c) \/ SaveUserMessage(c) \/ DraftDone(c)
           \/ SaveDraft(c) \/ Finish(c) \/ DebitRefused(c) \/ CloseRefused(c)
    BY <1>1 DEF TypeOK, RefundInv, NetInv, LookupFails, SaveUserMessage, DraftDone,
       HandleDraft, SaveDraft, Finish, DebitRefused, CloseRefused, EndTransaction
<1>2. CASE EnsureMonthly(c) \/ Debit(c) \/ SettleChat(c) \/ Refund(c)
    BY <1>2 DEF TypeOK, RefundInv, EnsureMonthly, Debit, SettleChat, HandleChat,
       Refund, Open
<1>3. CASE EnsureMonthlyCommit(c)
    BY <1>3 DEF TypeOK, RefundInv, EnsureMonthlyCommit, WriteRow, EndTransaction
<1>4. CASE DebitCommit(c)
    BY <1>4 DEF TypeOK, RefundInv, DebitCommit, WriteCharge, WriteRow, EndTransaction
<1>5. CASE SettleChatCommit(c)
    BY <1>5 DEF TypeOK, RefundInv, NetInv, SettleChatCommit, WriteCharge, WriteRow,
       EndTransaction
<1>6. CASE RefundCommit(c)
  <2>1. net[c] = -DraftCost /\ pending[c] = DraftCost
      BY <1>6 DEF RefundCommit, NetInv, AmountInv
  <2>2. net'[c] = 0
      BY <1>6, <2>1, ConstantsAssumption DEF RefundCommit, WriteCharge, TypeOK
  <2> QED
      BY <1>6, <2>2 DEF TypeOK, RefundInv, RefundCommit, WriteCharge, WriteRow,
         EndTransaction
<1>7. CASE StreamFails(c)
  <2>1. /\ pc' = [pc EXCEPT ![c] = "refunding"]
        /\ outcome' = [outcome EXCEPT ![c] = "failed"]
        /\ broken' = [broken EXCEPT ![c] = FALSE]
        /\ UNCHANGED net
      BY <1>7 DEF StreamFails, HandleError
  <2> QED
      BY <2>1 DEF TypeOK, RefundInv
<1>8. ~(AdmissionFails(c) \/ SaveUserMessageFails(c) \/ SaveFails(c)
         \/ RefreshFails(c) \/ RefundFails(c))
    BY DEF AdmissionFails, SaveUserMessageFails, SaveFails, RefreshFails,
       RefundFails, RefundInv
<1> QED
    BY <1>1, <1>2, <1>3, <1>4, <1>5, <1>6, <1>7, <1>8 DEF Step

\* A stream that fails costs nothing once its request is over, as long as no
\* statement fails and nobody goes away (send_chat_stream, chats/service.py:206):
\* a fault of the session is the only reason why a refund is ever missed.
THEOREM FailureCostsNothing ==
    ASSUME Faults = {} PROVE Spec => []FailedStreamRefunded
<1>1. Init => RefundInv
    BY DEF Init, RefundInv
<1>2. IInv /\ NetInv /\ RefundInv /\ [Next]_vars => NetInv' /\ RefundInv'
  <2> SUFFICES ASSUME IInv, NetInv, RefundInv, [Next]_vars
               PROVE  NetInv' /\ RefundInv'
      OBVIOUS
  <2>1. NetInv'
    <3>1. "pool" \notin Faults
        OBVIOUS
    <3> QED
        BY <3>1, NextNetInv
  <2>2. ASSUME NEW c \in Requests, Step(c) \/ Disconnect(c) PROVE RefundInv'
      BY <2>2, StepRefundInv DEF Disconnect
  <2>3. ASSUME NEW u \in Users, NewPeriod(u) PROVE RefundInv'
      BY <2>3 DEF NewPeriod, RefundInv, money, stream, transaction
  <2>4. ASSUME UNCHANGED vars PROVE RefundInv'
      BY <2>4 DEF vars, RefundInv
  <2>5. RefundInv'
      BY <2>2, <2>3, <2>4 DEF Next, Idle
  <2> QED
      BY <2>1, <2>5
<1>3. RefundInv => FailedStreamRefunded
    BY DEF RefundInv, FailedStreamRefunded
<1> QED
    BY InitNetInv, <1>1, <1>2, <1>3, Invariance, PTL DEF Spec

----------------------------------------------------------------------------
(* The stream implements the prepaid wallet.                               *)
LEMMA InitWallet == Init => Wallet!WInit
<1> SUFFICES ASSUME Init PROVE Wallet!WInit
    OBVIOUS
<1>1. balance \in [Users -> Nat]
    BY ConstantsAssumption DEF Init
<1> QED
    BY <1>1 DEF Init, Wallet!WInit, HoldOf

\* Holds as a function: a step that changes one request changes its entry only.
LEMMA HoldsUnchanged ==
    ASSUME UNCHANGED <<balance, answer, net>>,
           \A d \in Requests : outcome'[d] = outcome[d] \/ net[d] # 0
    PROVE  UNCHANGED Wallet!wvars
<1>1. \A d \in Requests : HoldOf(d)' = HoldOf(d)
    BY DEF HoldOf
<1> QED
    BY <1>1 DEF Wallet!wvars

LEMMA StepWallet ==
    ASSUME "pool" \notin Faults, IInv, NetInv, NEW c \in Requests,
           Step(c) \/ Disconnect(c)
    PROVE  [Wallet!WNext]_Wallet!wvars
<1> USE ConstantsAssumption
<1>0. Owner[c] \in Users /\ TypeOK /\ LockInv /\ FreshInv /\ AmountInv
    BY DEF IInv
<1>h. ASSUME \A d \in Requests \ {c} : UNCHANGED <<answer[d], net[d], outcome[d]>>
      PROVE  [d \in Requests |-> HoldOf(d)]' =
                [[d \in Requests |-> HoldOf(d)] EXCEPT ![c] = HoldOf(c)']
    BY <1>h DEF HoldOf
<1>1. CASE \/ LookupFails(c) \/ SaveUserMessage(c) \/ SaveUserMessageFails(c)
           \/ DraftDone(c) \/ Finish(c) \/ RefreshFails(c) \/ StreamFails(c)
           \/ AdmissionFails(c) \/ CloseRefused(c) \/ SaveFails(c)
           \/ RefundFails(c) \/ Disconnect(c) \/ DebitRefused(c)
           \/ EnsureMonthly(c) \/ Debit(c) \/ SettleChat(c) \/ Refund(c)
  <2>1. UNCHANGED <<balance, answer, net>>
      BY <1>1 DEF LookupFails, SaveUserMessage, SaveUserMessageFails, DraftDone,
             Finish, RefreshFails, StreamFails, AdmissionFails, CloseRefused,
             SaveFails, RefundFails, Disconnect, DebitRefused, EnsureMonthly,
             Debit, SettleChat, Refund, money, stream,
             HandleChat, HandleDraft, HandleError
  <2>2. \A d \in Requests : outcome'[d] = outcome[d] \/ net[d] # 0
      BY <1>0, <1>1 DEF LookupFails, SaveUserMessage, SaveUserMessageFails,
             DraftDone, Finish, RefreshFails, StreamFails, AdmissionFails,
             CloseRefused, SaveFails, RefundFails, Disconnect, DebitRefused,
             EnsureMonthly, Debit, SettleChat, Refund, stream, NetInv, TypeOK,
             HandleChat, HandleDraft, HandleError
  <2> QED
      BY <2>1, <2>2, HoldsUnchanged
<1>2. CASE EnsureMonthlyCommit(c)
  <2>1. /\ work[c] = balance[Owner[c]] + pending[c]
        /\ pending[c] \in {0, MonthlyTokens}
        /\ balance' = [balance EXCEPT ![Owner[c]] = work[c]]
        /\ UNCHANGED <<answer, net, outcome>>
      BY <1>0, <1>2 DEF EnsureMonthlyCommit, WriteRow, FreshInv, AmountInv,
             Locking, stream
  <2>2. UNCHANGED [d \in Requests |-> HoldOf(d)]
      BY <2>1 DEF HoldOf
  <2>3. CASE pending[c] = 0
      BY <1>0, <2>1, <2>2, <2>3 DEF TypeOK, Wallet!wvars
  <2>4. CASE pending[c] = MonthlyTokens
      BY <1>0, <2>1, <2>2, <2>4 DEF TypeOK, Wallet!WNext, Wallet!Deposit
  <2> QED
      BY <2>1, <2>3, <2>4
<1>3. CASE DebitCommit(c)
  <2>1. /\ work[c] = balance[Owner[c]] - DraftCost
        /\ balance[Owner[c]] >= DraftCost
        /\ balance' = [balance EXCEPT ![Owner[c]] = work[c]]
        /\ net' = [net EXCEPT ![c] = @ - DraftCost]
        /\ UNCHANGED <<answer, outcome>>
      BY <1>0, <1>3 DEF DebitCommit, WriteCharge, WriteRow, FreshInv, AmountInv,
             Locking, stream, TypeOK
  <2>2. HoldOf(c) = "none" /\ HoldOf(c)' = "held"
      BY <1>0, <1>3, <2>1 DEF DebitCommit, NetInv, HoldOf, TypeOK
  <2>3. Wallet!Reserve(c)
      BY <1>0, <1>h, <2>1, <2>2 DEF Wallet!Reserve, TypeOK
  <2> QED
      BY <2>3 DEF Wallet!WNext
<1>4. CASE SettleChatCommit(c)
  <2>1. /\ work[c] = balance[Owner[c]] + (DraftCost - ChatCost)
        /\ balance' = [balance EXCEPT ![Owner[c]] = work[c]]
        /\ net' = [net EXCEPT ![c] = @ + (DraftCost - ChatCost)]
        /\ answer' = [answer EXCEPT ![c] = TRUE]
        /\ UNCHANGED outcome
      BY <1>0, <1>4 DEF SettleChatCommit, WriteCharge, WriteRow, FreshInv,
             AmountInv, Locking, TypeOK
  <2>2. HoldOf(c) = "held" /\ HoldOf(c)' = "settled"
      BY <1>0, <1>4, <2>1 DEF SettleChatCommit, NetInv, HoldOf, TypeOK
  <2>3. Wallet!SettleAt(c, ChatCost)
      BY <1>0, <1>h, <2>1, <2>2 DEF Wallet!SettleAt, TypeOK
  <2> QED
      BY <2>3 DEF Wallet!WNext
<1>5. CASE SaveDraft(c)
  <2>1. /\ UNCHANGED <<balance, net, outcome>>
        /\ answer' = [answer EXCEPT ![c] = TRUE]
      BY <1>5 DEF SaveDraft, money
  <2>2. HoldOf(c) = "held" /\ HoldOf(c)' = "settled"
      BY <1>0, <1>5, <2>1 DEF SaveDraft, NetInv, HoldOf, TypeOK
  <2>3. Wallet!SettleAt(c, DraftCost)
      BY <1>0, <1>h, <2>1, <2>2 DEF Wallet!SettleAt, TypeOK
  <2> QED
      BY <2>3 DEF Wallet!WNext
<1>6. CASE RefundCommit(c)
  <2>1. /\ work[c] = balance[Owner[c]] + DraftCost
        /\ balance' = [balance EXCEPT ![Owner[c]] = work[c]]
        /\ net' = [net EXCEPT ![c] = @ + DraftCost]
        /\ UNCHANGED <<answer, outcome>>
      BY <1>0, <1>6 DEF RefundCommit, WriteCharge, WriteRow, FreshInv,
             AmountInv, Locking, stream, TypeOK
  <2>2. HoldOf(c) = "held" /\ HoldOf(c)' = "released"
      BY <1>0, <1>6, <2>1 DEF RefundCommit, NetInv, HoldOf, TypeOK
  <2>3. Wallet!Release(c)
      BY <1>0, <1>h, <2>1, <2>2 DEF Wallet!Release, TypeOK
  <2> QED
      BY <2>3 DEF Wallet!WNext
<1> QED
    BY <1>1, <1>2, <1>3, <1>4, <1>5, <1>6 DEF Step

\* Every step of the stream is a step of the wallet or invisible to it: a
\* request reserves once, out of tokens that are there, and the reservation is
\* closed at most once (send_chat_stream, _refund_prededuction).
THEOREM Refinement ==
    ASSUME "pool" \notin Faults PROVE Spec => ImplementsWallet
<1>1. IInv /\ NetInv /\ [Next]_vars => [Wallet!WNext]_Wallet!wvars
  <2> SUFFICES ASSUME IInv, NetInv, [Next]_vars
               PROVE  [Wallet!WNext]_Wallet!wvars
      OBVIOUS
  <2>1. ASSUME NEW c \in Requests, Step(c) \/ Disconnect(c)
        PROVE  [Wallet!WNext]_Wallet!wvars
      BY <2>1, StepWallet
  <2>2. CASE (\E u \in Users : NewPeriod(u)) \/ UNCHANGED vars
      BY <2>2, HoldsUnchanged DEF NewPeriod, vars, money, stream
  <2> QED
      BY <2>1, <2>2 DEF Next, Idle
<1>2. IInv /\ NetInv /\ [Next]_vars => NetInv'
    BY NextNetInv
<1> QED
    BY InitNetInv, InitWallet, <1>1, <1>2, Invariance, PTL
       DEF Spec, ImplementsWallet, Wallet!WSpec

----------------------------------------------------------------------------
(* The sum of the movements of a set of requests, which MapThenSumSet       *)
(* computes by a recursive function on the subsets.  What it computes is    *)
(* shown for a smallest set that would be an exception (WFMin).             *)

Sent(u) == {c \in Requests : Owner[c] = u}
Pick(s) == CHOOSE x \in s : TRUE

\* it[s] is the sum of f over s, for the subsets s of U.
Sums(f, U, it) ==
    it = [s \in SUBSET U |-> IF s = {} THEN 0 ELSE f[Pick(s)] + it[s \ {Pick(s)}]]

SumOf(f, U) == (CHOOSE it : Sums(f, U, it))[U]

LEMMA UnexplainedIsSum ==
    ASSUME NEW u
    PROVE  /\ Unexplained(u) =
                 balance[u] - MonthlyTokens * grants[u] - SumOf(net, Sent(u))
           /\ Unexplained(u)' =
                 balance'[u] - MonthlyTokens * grants'[u] - SumOf(net', Sent(u))
BY DEF Unexplained, MapThenSumSet, MapThenFoldSet, SumOf, Sums, Pick, Sent

\* Of a collection of subsets of a finite set, one contains no other.
LEMMA SmallestSet ==
    ASSUME NEW S, IsFiniteSet(S), NEW T \in SUBSET SUBSET S, T # {}
    PROVE  \E s \in T : \A r \in SUBSET s : r # s => r \notin T
<1> DEFINE R == StrictSubsetOrdering(S)
<1>1. T \subseteq FiniteSubsetsOf(S)
    BY FS_Subset DEF FiniteSubsetsOf
<1>2. IsWellFoundedOn(R, FiniteSubsetsOf(S))
    BY FS_StrictSubsetOrderingWellFounded
<1>3. PICK s \in T : \A r \in T : <<r, s>> \notin R
  <2> HIDE DEF R
  <2> QED
      BY <1>1, <1>2, WFMin
<1>4. ASSUME NEW r \in SUBSET s, r # s, r \in T PROVE FALSE
  <2>1. <<r, s>> \in R
      BY <1>4 DEF StrictSubsetOrdering
  <2> QED
      BY <1>3, <1>4, <2>1
<1> QED
    BY <1>4

LEMMA PickElement ==
    ASSUME NEW s, s # {}
    PROVE  Pick(s) \in s /\ s \ {Pick(s)} \in SUBSET s /\ s \ {Pick(s)} # s
BY DEF Pick

\* Sums of one function agree wherever both are given.
LEMMA SumsAgree ==
    ASSUME NEW f, NEW U, NEW V, NEW i, NEW j, Sums(f, U, i), Sums(f, V, j),
           NEW s \in SUBSET (U \cap V), IsFiniteSet(s)
    PROVE  i[s] = j[s]
<1> DEFINE T == {r \in SUBSET s : i[r] # j[r]}
<1> SUFFICES ASSUME s \in T PROVE FALSE
    OBVIOUS
<1>1. PICK r \in T : \A x \in SUBSET r : x # r => x \notin T
  <2>1. T \in SUBSET SUBSET s /\ T # {}
      OBVIOUS
  <2> HIDE DEF T
  <2> QED
      BY <2>1, SmallestSet
<1>2. r \in SUBSET U /\ r \in SUBSET V /\ r \in SUBSET s /\ i[r] # j[r]
    OBVIOUS
<1>3. /\ i[r] = IF r = {} THEN 0 ELSE f[Pick(r)] + i[r \ {Pick(r)}]
      /\ j[r] = IF r = {} THEN 0 ELSE f[Pick(r)] + j[r \ {Pick(r)}]
    BY <1>2 DEF Sums
<1>4. CASE r = {}
    BY <1>2, <1>3, <1>4
<1>5. CASE r # {}
  <2>1. r \ {Pick(r)} \in SUBSET r /\ r \ {Pick(r)} # r
      BY <1>5, PickElement
  <2>2. i[r \ {Pick(r)}] = j[r \ {Pick(r)}]
      BY <1>1, <1>2, <2>1
  <2> QED
      BY <1>2, <1>3, <1>5, <2>2
<1> QED
    BY <1>4, <1>5

\* The recursion defines a function.
LEMMA SumsExist ==
    ASSUME NEW f, NEW S, IsFiniteSet(S)
    PROVE  \E it : Sums(f, S, it)
<1> DEFINE T == {r \in SUBSET S : ~\E it : Sums(f, r, it)}
<1> SUFFICES ASSUME S \in T PROVE FALSE
    OBVIOUS
<1>1. PICK U \in T : \A V \in SUBSET U : V # U => V \notin T
  <2>1. T \in SUBSET SUBSET S /\ T # {}
      OBVIOUS
  <2> HIDE DEF T
  <2> QED
      BY <2>1, SmallestSet
<1> DEFINE G(V) == CHOOSE it : Sums(f, V, it)
           new == [s \in SUBSET U |->
                      IF s = {} THEN 0
                      ELSE f[Pick(s)] + G(s \ {Pick(s)})[s \ {Pick(s)}]]
<1>2. \A V \in SUBSET U : V # U => Sums(f, V, G(V))
  <2>1. \A V \in SUBSET U : V # U => \E it : Sums(f, V, it)
      BY <1>1
  <2> QED
      BY <2>1
<1> HIDE DEF G
<1>3. ASSUME NEW V \in SUBSET U, V # U PROVE new[V] = G(V)[V]
  <2>1. /\ G(V)[V] = IF V = {} THEN 0 ELSE f[Pick(V)] + G(V)[V \ {Pick(V)}]
        /\ new[V] = IF V = {} THEN 0 ELSE f[Pick(V)] + G(V \ {Pick(V)})[V \ {Pick(V)}]
    <3>1. Sums(f, V, G(V))
        BY <1>2, <1>3
    <3> QED
        BY <3>1 DEF Sums
  <2>2. CASE V # {}
    <3> DEFINE W == V \ {Pick(V)}
    <3>1. W \in SUBSET U /\ W # U /\ W \in SUBSET V
        BY <1>3, <2>2, PickElement
    <3>2. Sums(f, V, G(V)) /\ Sums(f, W, G(W))
        BY <1>2, <1>3, <3>1
    <3>3. IsFiniteSet(W) /\ W \in SUBSET (V \cap W)
        BY <3>1, FS_Subset
    <3>4. G(V)[W] = G(W)[W]
      <4> HIDE DEF W
      <4> QED
          BY <3>2, <3>3, SumsAgree
    <3> QED
        BY <2>1, <2>2, <3>4
  <2> QED
      BY <2>1, <2>2
<1>4. \A s \in SUBSET U : new[s] = IF s = {} THEN 0 ELSE f[Pick(s)] + new[s \ {Pick(s)}]
  <2> SUFFICES ASSUME NEW s \in SUBSET U, s # {}
               PROVE  new[s] = f[Pick(s)] + new[s \ {Pick(s)}]
      OBVIOUS
  <2>1. s \ {Pick(s)} \in SUBSET U /\ s \ {Pick(s)} # U
      BY PickElement
  <2>2. new[s \ {Pick(s)}] = G(s \ {Pick(s)})[s \ {Pick(s)}]
      BY <1>3, <2>1
  <2> QED
      BY <2>2
<1>5. new = [s \in SUBSET U |-> new[s]]
    OBVIOUS
<1> HIDE DEF new
<1>6. Sums(f, U, new)
    BY <1>4, <1>5 DEF Sums
<1> QED
    BY <1>6

LEMMA SumOfSums ==
    ASSUME NEW f, NEW S, IsFiniteSet(S)
    PROVE  \E it : Sums(f, S, it) /\ SumOf(f, S) = it[S]
<1>1. Sums(f, S, CHOOSE it : Sums(f, S, it))
    BY SumsExist
<1> QED
    BY <1>1 DEF SumOf

\* A sum changes by what one of its terms changes, and is a number.
LEMMA SumChanges ==
    ASSUME NEW S, IsFiniteSet(S), NEW c,
           NEW f, NEW g, \A x \in S : f[x] \in Int /\ g[x] \in Int,
           \A x \in S \ {c} : g[x] = f[x]
    PROVE  /\ SumOf(f, S) \in Int
           /\ SumOf(g, S) = SumOf(f, S) + (IF c \in S THEN g[c] - f[c] ELSE 0)
<1>1. PICK i : Sums(f, S, i) /\ SumOf(f, S) = i[S]
    BY SumOfSums
<1>2. PICK j : Sums(g, S, j) /\ SumOf(g, S) = j[S]
    BY SumOfSums
<1> DEFINE Change(s) == IF c \in s THEN g[c] - f[c] ELSE 0
           Fits(s) == i[s] \in Int /\ j[s] = i[s] + Change(s)
           T == {s \in SUBSET S : ~Fits(s)}
<1>3. Fits(S)
  <2> SUFFICES ASSUME S \in T PROVE FALSE
      OBVIOUS
  <2>1. PICK s \in T : \A r \in SUBSET s : r # s => r \notin T
    <3>1. T \in SUBSET SUBSET S /\ T # {}
        OBVIOUS
    <3> HIDE DEF T
    <3> QED
        BY <3>1, SmallestSet
  <2>2. s \in SUBSET S /\ ~Fits(s)
      OBVIOUS
  <2>3. /\ i[s] = IF s = {} THEN 0 ELSE f[Pick(s)] + i[s \ {Pick(s)}]
        /\ j[s] = IF s = {} THEN 0 ELSE g[Pick(s)] + j[s \ {Pick(s)}]
      BY <1>1, <1>2, <2>2 DEF Sums
  <2>4. CASE s = {}
      BY <2>2, <2>3, <2>4
  <2>5. CASE s # {}
    <3> DEFINE p == Pick(s)  r == s \ {p}
    <3>1. p \in s /\ r \in SUBSET s /\ r # s /\ p \in S
        BY <2>2, <2>5, PickElement
    <3>2. Fits(r)
        BY <2>1, <2>2, <3>1
    <3>3. /\ f[p] \in Int /\ g[p] \in Int /\ (p # c => g[p] = f[p])
          /\ (c \in S => f[c] \in Int /\ g[c] \in Int)
        BY <3>1
    <3>4. Change(s) = Change(r) + (g[p] - f[p]) /\ Change(r) \in Int
      <4>1. CASE p = c
        <5>1. c \in s /\ c \notin r
            BY <3>1, <4>1
        <5> QED
            BY <3>3, <4>1, <5>1
      <4>2. CASE p # c
        <5>1. (c \in s <=> c \in r) /\ (c \in s => c \in S)
            BY <2>2, <4>2
        <5> QED
            BY <3>3, <4>2, <5>1
      <4> QED
          BY <4>1, <4>2
    <3>5. i[s] = f[p] + i[r] /\ j[s] = g[p] + j[r]
        BY <2>3, <2>5
    <3>6. i[r] \in Int /\ j[r] = i[r] + Change(r)
        BY <3>2
    <3>7. i[s] \in Int /\ j[s] = i[s] + Change(s)
      <4> HIDE DEF Change, p, r
      <4> QED
          BY <3>3, <3>4, <3>5, <3>6
    <3> QED
        BY <2>2, <3>7
  <2> QED
      BY <2>4, <2>5
<1> QED
    BY <1>1, <1>2, <1>3

\* A grant on its way carries the monthly tokens exactly when it will be dated.
GrantInv ==
    \A c \in Requests : pc[c] = "granting" =>
        pending[c] = IF stamp[c] > 0 THEN MonthlyTokens ELSE 0

LEMMA NextGrantInv ==
    IInv /\ GrantInv /\ [Next]_vars => GrantInv'
<1> SUFFICES ASSUME IInv, GrantInv, [Next]_vars PROVE GrantInv'
    OBVIOUS
<1>1. ASSUME NEW c \in Requests, EnsureMonthly(c) PROVE GrantInv'
  <2>1. period[Owner[c]] \in Nat /\ period[Owner[c]] > 0
      BY ConstantsAssumption DEF IInv, TypeOK
  <2> QED
      BY <1>1, <2>1 DEF EnsureMonthly, Open, Goto, GrantInv, IInv, TypeOK
<1>2. ASSUME NEW c \in Requests, Step(c) \/ Disconnect(c), ~EnsureMonthly(c)
      PROVE  GrantInv'
  <2>1. /\ pc'[c] # "granting"
        /\ \A d \in Requests \ {c} : /\ pc'[d] = pc[d] /\ stamp'[d] = stamp[d]
                                     /\ pending'[d] = pending[d]
    <3>1. /\ c \in DOMAIN pc /\ DOMAIN pc = Requests /\ DOMAIN stamp = Requests
          /\ DOMAIN pending = Requests
        BY DEF IInv, TypeOK
    <3> USE <3>1 DEF Goto, transaction
    <3>2. CASE \/ LookupFails(c) \/ SaveUserMessage(c) \/ SaveUserMessageFails(c)
               \/ DraftDone(c) \/ SaveDraft(c) \/ Finish(c)
               \/ RefreshFails(c) \/ StreamFails(c)
        BY <3>2 DEF LookupFails, SaveUserMessage, SaveUserMessageFails, DraftDone,
           HandleDraft, SaveDraft, Finish, RefreshFails, StreamFails, HandleError
    <3>3. CASE \/ AdmissionFails(c) \/ CloseRefused(c) \/ SaveFails(c)
               \/ RefundFails(c) \/ Disconnect(c) \/ DebitRefused(c)
        BY <3>3 DEF AdmissionFails, CloseRefused, SaveFails, RefundFails,
           Disconnect, DebitRefused, EndTransaction
    <3>4. CASE Debit(c) \/ SettleChat(c) \/ Refund(c)
        BY <3>4 DEF Debit, SettleChat, HandleChat, Refund, Open
    <3>5. CASE \/ DebitCommit(c) \/ SettleChatCommit(c) \/ RefundCommit(c)
               \/ EnsureMonthlyCommit(c)
        BY <3>5 DEF DebitCommit, SettleChatCommit, RefundCommit, EnsureMonthlyCommit,
           WriteCharge, WriteRow, EndTransaction
    <3> QED
        BY <1>2, <3>2, <3>3, <3>4, <3>5 DEF Step
  <2> QED
      BY <2>1 DEF GrantInv
<1>3. CASE (\E u \in Users : NewPeriod(u)) \/ UNCHANGED vars
    BY <1>3 DEF NewPeriod, vars, transaction, GrantInv
<1> QED
    BY <1>1, <1>2, <1>3 DEF Next, Idle

\* The commit of a charge moves the balance and the request by the same amount.
LEMMA ChargeExplained ==
    ASSUME IsFiniteSet(Requests), IInv, NEW c \in Requests, WriteCharge(c),
           pc[c] \in Locking \ {"refused"}, UNCHANGED grants, NEW u \in Users
    PROVE  Unexplained(u)' = Unexplained(u)
<1>1. /\ Owner[c] \in Users /\ balance[u] \in Int /\ grants[u] \in Int
      /\ net \in [Requests -> Int] /\ pending[c] \in Int
      /\ DOMAIN balance = Users /\ MonthlyTokens \in Int
    BY ConstantsAssumption DEF IInv, TypeOK
<1>2. /\ balance' = [balance EXCEPT ![Owner[c]] = balance[Owner[c]] + pending[c]]
      /\ net' = [net EXCEPT ![c] = net[c] + pending[c]]
    BY <1>1 DEF WriteCharge, WriteRow, IInv, FreshInv
<1>3. IsFiniteSet(Sent(u)) /\ Sent(u) \subseteq Requests /\ (c \in Sent(u) <=> Owner[c] = u)
    BY FS_Subset DEF Sent
<1>4. /\ \A x \in Sent(u) : net[x] \in Int /\ net'[x] \in Int
      /\ \A x \in Sent(u) \ {c} : net'[x] = net[x]
      /\ net'[c] - net[c] = pending[c]
    BY <1>1, <1>2, <1>3
<1>5. /\ SumOf(net, Sent(u)) \in Int
      /\ SumOf(net', Sent(u)) = SumOf(net, Sent(u)) + (IF Owner[c] = u THEN pending[c] ELSE 0)
  <2>1. /\ SumOf(net, Sent(u)) \in Int
        /\ SumOf(net', Sent(u)) =
              SumOf(net, Sent(u)) + (IF c \in Sent(u) THEN net'[c] - net[c] ELSE 0)
      BY <1>3, <1>4, SumChanges
  <2> QED
      BY <1>3, <1>4, <2>1
<1>6. balance'[u] = balance[u] + (IF Owner[c] = u THEN pending[c] ELSE 0)
    BY <1>1, <1>2
<1> DEFINE given == MonthlyTokens * grants[u]
<1>7. given \in Int
    BY <1>1
<1>8. /\ Unexplained(u) = balance[u] - given - SumOf(net, Sent(u))
      /\ Unexplained(u)' = balance'[u] - given - SumOf(net', Sent(u))
    BY UnexplainedIsSum
<1> HIDE DEF given
<1> QED
    BY <1>1, <1>5, <1>6, <1>7, <1>8

\* The commit of a grant moves the balance by the tokens of one grant, if any.
LEMMA GrantExplained ==
    ASSUME IsFiniteSet(Requests), IInv, GrantInv, NEW c \in Requests,
           EnsureMonthlyCommit(c), NEW u \in Users
    PROVE  Unexplained(u)' = Unexplained(u)
<1>1. /\ Owner[c] \in Users /\ balance[u] \in Int /\ grants[u] \in Int
      /\ DOMAIN balance = Users /\ DOMAIN grants = Users /\ MonthlyTokens \in Int
      /\ net \in [Requests -> Int] /\ stamp[c] \in Int
    BY ConstantsAssumption DEF IInv, TypeOK
<1>2. /\ balance' = [balance EXCEPT ![Owner[c]] = balance[Owner[c]] + pending[c]]
      /\ net' = net
      /\ pending[c] = IF stamp[c] > 0 THEN MonthlyTokens ELSE 0
      /\ grants' = IF stamp[c] > 0 THEN [grants EXCEPT ![Owner[c]] = grants[Owner[c]] + 1]
                   ELSE grants
    BY <1>1 DEF EnsureMonthlyCommit, WriteRow, IInv, FreshInv, Locking, GrantInv
<1>3. SumOf(net, Sent(u)) \in Int
  <2>1. IsFiniteSet(Sent(u)) /\ Sent(u) \subseteq Requests
      BY FS_Subset DEF Sent
  <2>2. \A x \in Sent(u) : net[x] \in Int
      BY <1>1, <2>1
  <2> QED
      BY <2>1, <2>2, SumChanges
<1>4. /\ Unexplained(u) = balance[u] - MonthlyTokens * grants[u] - SumOf(net, Sent(u))
      /\ Unexplained(u)' = balance'[u] - MonthlyTokens * grants'[u] - SumOf(net, Sent(u))
    BY <1>2, UnexplainedIsSum
<1>5. CASE Owner[c] = u /\ stamp[c] > 0
  <2>1. balance'[u] = balance[u] + MonthlyTokens /\ grants'[u] = grants[u] + 1
      BY <1>1, <1>2, <1>5
  <2>2. MonthlyTokens * (grants[u] + 1) = MonthlyTokens * grants[u] + MonthlyTokens
        /\ MonthlyTokens * grants[u] \in Int
      BY <1>1
  <2> QED
      BY <1>1, <1>3, <1>4, <2>1, <2>2
<1>6. CASE ~(Owner[c] = u /\ stamp[c] > 0)
  <2>1. balance'[u] = balance[u] /\ grants'[u] = grants[u]
      BY <1>1, <1>2, <1>6
  <2> QED
      BY <1>4, <2>1
<1> QED
    BY <1>5, <1>6

\* Tokens appear and disappear only with a monthly grant or with the movement of
\* a request, however requests interleave, fail and are cut off
\* (ensure_monthly_tokens, debit, credit), for any finite number of requests.
THEOREM TokensAreConserved ==
    ASSUME IsFiniteSet(Requests) PROVE Spec => TokensConserved
<1>1. ASSUME IInv, GrantInv, [Next]_vars
      PROVE  [\A u \in Users : Unexplained(u)' = Unexplained(u)]_vars
  <2>1. ASSUME NEW c \in Requests, Step(c) \/ Disconnect(c), NEW u \in Users
        PROVE  Unexplained(u)' = Unexplained(u)
    <3>1. CASE DebitCommit(c) \/ SettleChatCommit(c) \/ RefundCommit(c)
        BY <1>1, <2>1, <3>1, ChargeExplained
           DEF DebitCommit, SettleChatCommit, RefundCommit, grantState, Locking
    <3>2. CASE EnsureMonthlyCommit(c)
        BY <1>1, <2>1, <3>2, GrantExplained
    <3>3. CASE ~(DebitCommit(c) \/ SettleChatCommit(c) \/ RefundCommit(c)
                 \/ EnsureMonthlyCommit(c))
      <4>1. UNCHANGED <<balance, net, grants>>
          BY <2>1, <3>3 DEF Step, LookupFails, SaveUserMessage, SaveUserMessageFails,
             DraftDone, SaveDraft, Finish, RefreshFails, StreamFails, AdmissionFails,
             CloseRefused, SaveFails, RefundFails, Disconnect, DebitRefused,
             EnsureMonthly, Debit, SettleChat, Refund, money, grantState, HandleChat,
             HandleDraft, HandleError
      <4> QED
          BY <4>1, UnexplainedIsSum
    <3> QED
        BY <3>1, <3>2, <3>3
  <2>2. CASE (\E u \in Users : NewPeriod(u)) \/ UNCHANGED vars
    <3>1. UNCHANGED <<balance, net, grants>>
        BY <2>2 DEF NewPeriod, vars, money
    <3> QED
        BY <3>1, UnexplainedIsSum
  <2> QED
      BY <1>1, <2>1, <2>2 DEF Next, Idle
<1>2. Init => GrantInv
    BY DEF Init, GrantInv
<1> QED
    BY <1>1, <1>2, NextGrantInv, Invariance, PTL DEF Spec, TokensConserved
=============================================================================
