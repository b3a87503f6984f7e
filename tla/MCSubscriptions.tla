-------------------------- MODULE MCSubscriptions --------------------------
(* One user; one or two registrations at PayApp, one or two workers for    *)
(* webhooks and two concurrent requests.                                   *)
EXTENDS Subscriptions

CONSTANTS r1, r2, w1, w2, a1, a2

MCOneRebill == {r1}
MCTwoRebills == {r1, r2}
MCOneWorker == {w1}
MCTwoWorkers == {w1, w2}
MCOneCaller == {a1}
MCTwoCallers == {a1, a2}
=============================================================================
