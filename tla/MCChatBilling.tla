--------------------------- MODULE MCChatBilling ---------------------------
(* One user who sends several requests at the same time: rows and locks of *)
(* different users never meet.                                             *)
EXTENDS ChatBilling

CONSTANTS u1, c1, c2, c3

MCUsers == {u1}
MCRequests2 == {c1, c2}
MCRequests3 == {c1, c2, c3}
MCOwner2 == [c \in MCRequests2 |-> u1]
MCOwner3 == [c \in MCRequests3 |-> u1]
MCOpeningBalances == {0, 12, 25}
=============================================================================
