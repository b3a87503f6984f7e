---------------------------- MODULE MCChatStream ----------------------------
(* Two requests of one user, whose streams share the row of the user.      *)
EXTENDS ChatStream

CONSTANTS u1, c1, c2

MCUsers == {u1}
MCRequests == {c1, c2}
MCOwner == [c \in MCRequests |-> u1]
MCOpeningBalances == {12}
=============================================================================
