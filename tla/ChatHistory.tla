---------------------------- MODULE ChatHistory ----------------------------
(***************************************************************************)
(* The history of a question's chat, which a client reads page by page     *)
(* from the newest message back (get_chat_history_response of              *)
(* src/chats/service.py) while requests store further messages.            *)
(*                                                                         *)
(* A message gets its id and its created_at when its object is built and   *)
(* becomes visible when its transaction commits.  Ids are random: their    *)
(* order says nothing about time.                                          *)
(***************************************************************************)
EXTENDS Naturals, FiniteSetsExt, SequencesExt

CONSTANTS
    MessageIds,  \* ids, ordered as PostgreSQL orders uuids
    Size,        \* page size
    SameInstant, \* two messages may be built in one microsecond
    NoCursor

ASSUME ChatHistoryAssumption ==
    /\ MessageIds \subseteq Nat /\ Size \in Nat \ {0}
    /\ SameInstant \in BOOLEAN /\ NoCursor \notin Nat

VARIABLES
    built,   \* messages whose transaction has not committed
    chats,   \* rows of chats
    clock,
    cursor,  \* next_cursor of the last page
    seen,    \* the pages so far, newest message first
    wanted,  \* history: the rows that were there at the first page
    reading  \* no page yet, more to come (has_more), at the end

hvars == <<built, chats, clock, cursor, seen, wanted, reading>>

Message == [id : MessageIds, at : 0 .. Cardinality(MessageIds)]

HistoryInit ==
    /\ built = {} /\ chats = {} /\ clock = 0
    /\ cursor = NoCursor /\ seen = <<>> /\ wanted = {} /\ reading = "no"

\* create_user_chat and create_assistant_chat
Build(i) ==
    /\ \A m \in built \cup chats : m.id # i
    /\ \E t \in (IF SameInstant THEN {clock, clock + 1} ELSE {clock + 1}) :
          /\ built' = built \cup {[id |-> i, at |-> t]}
          /\ clock' = t
    /\ UNCHANGED <<chats, cursor, seen, wanted, reading>>

Store(m) ==
    /\ m \in built
    /\ built' = built \ {m} /\ chats' = chats \cup {m}
    /\ UNCHANGED <<clock, cursor, seen, wanted, reading>>

\* WHERE created_at < the cursor's, or equal and a smaller id
Precedes(m, c) == m.at < c.at \/ (m.at = c.at /\ m.id < c.id)
Candidates ==
    IF cursor = NoCursor THEN chats
    ELSE LET c == CHOOSE x \in chats : x.id = cursor
         IN  {m \in chats : Precedes(m, c)}

\* ORDER BY created_at DESC leaves the order of equal instants open.
Orderings(s) ==
    {q \in SetToSeqs(s) : \A i, j \in DOMAIN q : i < j => q[i].at >= q[j].at}

\* Mutant of Cut: next_cursor is taken before the extra row is dropped.
CutLate(q) == Min({Len(q), Size + 1})

\* LIMIT size + 1 tells whether there is more; size rows are answered, and
\* the oldest of them is the next cursor.
Cut(q) == Min({Len(q), Size})

ReadPage ==
    /\ reading # "end"
    /\ \E q \in Orderings(Candidates) :
          /\ seen' = seen \o SubSeq(q, 1, Min({Len(q), Size}))
          /\ cursor' = IF Len(q) > Size THEN q[Cut(q)].id ELSE NoCursor
          /\ reading' = IF Len(q) > Size THEN "more" ELSE "end"
    /\ wanted' = IF reading = "no" THEN chats ELSE wanted
    /\ UNCHANGED <<built, chats, clock>>

HistoryNext ==
    \/ \E i \in MessageIds : Build(i)
    \/ \E m \in built : Store(m)
    \/ ReadPage
HistorySpec == HistoryInit /\ [][HistoryNext]_hvars
----------------------------------------------------------------------------
\* A client that follows the cursors to the end has received every message
\* that was there at its first page, once and newest first, whatever is built
\* before and committed during the walk (chats/service.py:288-295).
WalkComplete ==
    /\ \A i, j \in DOMAIN seen : i < j => seen[j].at <= seen[i].at /\ seen[i] # seen[j]
    /\ reading = "end" => wanted \subseteq {seen[i] : i \in DOMAIN seen}
=============================================================================
