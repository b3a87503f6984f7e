---------------------------- MODULE Experiences ----------------------------
(***************************************************************************)
(* The experiences of a user (src/experience): points in Qdrant, each with *)
(* a payload and the embedding of its text.                                *)
(*                                                                         *)
(* Creation and update are coroutines: they await the language model and   *)
(* the embedding, and between two awaits they keep the event loop of their *)
(* worker.  Deletion and listing are plain functions, which FastAPI runs   *)
(* on a thread pool: they interleave with everything at each call of the   *)
(* Qdrant client.  Qdrant has no transaction: a point is read, changed in  *)
(* memory and overwritten as a whole.                                      *)
(*                                                                         *)
(* A payload is a function from field names to values.  Dates and texts    *)
(* are numbers, 0 is None.  Tags and category are regenerated together     *)
(* with the vector and left out, as are titles' and texts' contents.       *)
(***************************************************************************)
EXTENDS Integers, FiniteSetsExt, SequencesExt

CONSTANTS
    Exps,        \* ids, numbered by created_at
    Calls, Workers, Users,
    Kind,        \* Kind[c]: one of Kinds
    Target,      \* Target[c]: the id a create, update or delete is about
    Caller, WorkerOf, OwnerOf,
    Existing,    \* ids whose points are there at the start
    Documents,   \* payloads a client may send to create
    Patches,     \* partial payloads a client may send to update
    Limits, Offsets,
    Faults       \* "openai": an embedding fails; "qdrant": a call fails

Kinds == {"create", "update", "delete", "list", "search", "match"}

Formats == {"STAR", "PSI", "FREE"}
None == "none"    \* format_type: null

BodyOf == [STAR |-> {"situation", "task", "action", "result"},
           PSI |-> {"problem", "solution", "insight"},
           FREE |-> {"content"},
           none |-> {}]
Body == UNION {BodyOf[f] : f \in Formats}
Texts == {"title"} \cup Body
Fields == Texts \cup {"format", "start", "end"}

IsPayload(d) ==
    /\ DOMAIN d = Fields
    /\ d["format"] \in Formats \cup {None}
    /\ \A f \in Fields \ {"format"} : d[f] \in Nat

\* end_date and start_date > end_date
Misordered(start, end) == end # 0 /\ start > end

\* ExperienceCreate: required fields, date order, the fields of the format.
\* Fields of another format are accepted and stored.
ValidCreate(d) ==
    /\ IsPayload(d)
    /\ d["title"] # 0 /\ d["start"] # 0 /\ d["format"] # None
    /\ ~Misordered(d["start"], d["end"])
    /\ \A f \in BodyOf[d["format"]] : d[f] # 0

\* ExperienceUpdate: a field that is sent may be null; the dates are compared
\* only when both are sent and not null.
ValidPatch(p) ==
    /\ DOMAIN p \subseteq Fields
    /\ "format" \in DOMAIN p => p["format"] \in Formats \cup {None}
    /\ \A f \in DOMAIN p \ {"format"} : p[f] \in Nat
    /\ {"start", "end"} \subseteq DOMAIN p /\ p["start"] # 0
          => ~Misordered(p["start"], p["end"])

ASSUME ExperiencesAssumption ==
    /\ Exps \subseteq Nat /\ IsFiniteSet(Exps) /\ Existing \subseteq Exps
    /\ Kind \in [Calls -> Kinds] /\ Target \in [Calls -> Exps]
    /\ Caller \in [Calls -> Users] /\ OwnerOf \in [Exps -> Users]
    /\ WorkerOf \in [Calls -> Workers]
    /\ \A d \in Documents : ValidCreate(d)
    /\ \A p \in Patches : ValidPatch(p)
    /\ Limits \subseteq Nat \ {0} /\ Offsets \subseteq Nat
    /\ Faults \subseteq {"openai", "qdrant"}
    \* a created id is a fresh uuid
    /\ \A c \in Calls : Kind[c] = "create" =>
          /\ Target[c] \notin Existing /\ OwnerOf[Target[c]] = Caller[c]
          /\ \A d \in Calls \ {c} : Kind[d] = "create" => Target[d] # Target[c]

VARIABLES
    payload,   \* payload[e]: the payload of point e, NoPoint when there is none
    vector,    \* vector[e]: the text that the vector of point e embeds
    pc,
    copy,      \* copy[c]: the Experience the call holds in memory
    total,     \* total[c]: the count a listing has read
    reply

vars == <<payload, vector, pc, copy, total, reply>>
points == <<payload, vector>>

NoPoint == [f \in {} |-> 0]
NoText == [f \in {} |-> 0]

Stored(e) == payload[e] # NoPoint

\* Experience(**payload): the fields that may not be null.
Readable(d) == d["title"] # 0 /\ d["start"] # 0 /\ d["format"] # None

\* _combine_text_for_embedding: the title and the texts of the format.
TextOf(d) == [f \in {"title"} \cup BodyOf[d["format"]] |-> d[f]]

Init ==
    /\ \E d \in Documents :
          payload = [e \in Exps |-> IF e \in Existing THEN d ELSE NoPoint]
    /\ vector = [e \in Exps |-> IF Stored(e) THEN TextOf(payload[e]) ELSE NoText]
    /\ pc = [c \in Calls |-> "start"]
    /\ copy = [c \in Calls |-> NoPoint]
    /\ total = [c \in Calls |-> 0]
    /\ reply = [c \in Calls |-> "none"]

Goto(c, label) == pc' = [pc EXCEPT ![c] = label]
\* The handler returns or raises; what it held in memory is gone.
Answer(c, what) ==
    /\ Goto(c, "done")
    /\ reply' = [reply EXCEPT ![c] = what]
    /\ copy' = [copy EXCEPT ![c] = NoPoint]

\* Another coroutine of the worker is between two awaits.
LoopBusy(c) ==
    \E d \in Calls \ {c} : WorkerOf[d] = WorkerOf[c] /\ pc[d] = "setting"

----------------------------------------------------------------------------
(* update_experience                                                       *)

\* "format_type" of the patch when it is one, the stored one otherwise.
NewFormat(p) == IF "format" \in DOMAIN p THEN p["format"] ELSE None
Effective(p, d) == IF NewFormat(p) # None THEN NewFormat(p) ELSE d["format"]
Changing(p, d) == NewFormat(p) \notin {None, d["format"]}

\* 400: a field of another format, or a change of format without all fields.
Accepted(p, d) ==
    LET f == Effective(p, d) IN
    /\ DOMAIN p \cap Body \subseteq BodyOf[f]
    /\ Changing(p, d) => \A x \in BodyOf[f] : x \in DOMAIN p /\ p[x] # 0

\* model_copy(update=...), with the texts of a format that is left cleared.
Merged(p, d) ==
    [f \in Fields |->
        IF f \in DOMAIN p THEN p[f]
        ELSE IF Changing(p, d) /\ f \in BodyOf[d["format"]] THEN 0
        ELSE d[f]]

\* Mutant of DatesFit: only what the request schema compares is compared.
PatchDatesFit(d) == TRUE

\* The merged dates; comparing None with a date raises TypeError.
DatesFit(d) == d["end"] # 0 => d["start"] # 0 /\ d["start"] <= d["end"]

\* Mutant of ContentChanged: the title is not counted as content.
BodyChanged(p, d) ==
    NewFormat(p) # None \/ DOMAIN p \cap BodyOf[Effective(p, d)] # {}

\* content_changed: a text of the format is sent, or a format at all.
ContentChanged(p, d) ==
    \/ NewFormat(p) # None
    \/ DOMAIN p \cap ({"title"} \cup BodyOf[Effective(p, d)]) # {}

\* get_experience: 404 for a missing point or one of another user, 500 for a
\* payload that is no Experience.
Loadable(c) ==
    LET e == Target[c] IN
    /\ Stored(e) /\ OwnerOf[e] = Caller[c] /\ Readable(payload[e])

LoadFails(c) ==
    /\ pc[c] = "start" /\ Kind[c] \in {"update", "delete"}
    /\ Kind[c] = "update" => ~LoopBusy(c)
    /\ ~Loadable(c) \/ "qdrant" \in Faults
    /\ Answer(c, "failed")
    /\ UNCHANGED <<points, total>>

\* The point is read, merged and validated; then the coroutine awaits the
\* model if the text changed, and otherwise goes on to the write.
UpdateRead(c) ==
    LET d == payload[Target[c]] IN
    /\ pc[c] = "start" /\ Kind[c] = "update" /\ ~LoopBusy(c)
    /\ Loadable(c)
    /\ \E p \in Patches :
          IF Accepted(p, d) /\ DatesFit(Merged(p, d))
          THEN /\ copy' = [copy EXCEPT ![c] = Merged(p, d)]
               /\ Goto(c, IF ContentChanged(p, d) THEN "tagging" ELSE "setting")
               /\ UNCHANGED reply
          ELSE Answer(c, "failed")
    /\ UNCHANGED <<points, total>>

\* create_experience builds the Experience before the first await.
CreateStart(c) ==
    /\ pc[c] = "start" /\ Kind[c] = "create" /\ ~LoopBusy(c)
    /\ \E d \in Documents : copy' = [copy EXCEPT ![c] = d]
    /\ Goto(c, "tagging")
    /\ UNCHANGED <<points, total, reply>>

\* _generate_tags_and_category: any failure falls back to default tags.
Tagged(c) ==
    /\ pc[c] = "tagging" /\ ~LoopBusy(c)
    /\ Goto(c, "embedding")
    /\ UNCHANGED <<points, copy, total, reply>>

\* upsert: vector and payload replace the point, or make it.
Put(c) ==
    /\ payload' = [payload EXCEPT ![Target[c]] = copy[c]]
    /\ vector' = [vector EXCEPT ![Target[c]] = TextOf(copy[c])]

\* The embedding arrives and the point is written without another await.
Upsert(c) ==
    /\ pc[c] = "embedding" /\ ~LoopBusy(c)
    /\ Put(c)
    /\ Answer(c, "ok")
    /\ UNCHANGED total

\* set_payload writes every field of a point that is there.
SetPayload(c) ==
    /\ pc[c] = "setting"
    /\ IF Stored(Target[c])
       THEN payload' = [payload EXCEPT ![Target[c]] = copy[c]] /\ Answer(c, "ok")
       ELSE UNCHANGED payload /\ Answer(c, "failed")
    /\ UNCHANGED <<vector, total>>

\* _generate_embedding raises: nothing has been written.
EmbeddingFails(c) ==
    /\ "openai" \in Faults
    /\ pc[c] \in {"embedding", "querying"} /\ ~LoopBusy(c)
    /\ Answer(c, "failed")
    /\ UNCHANGED <<points, total>>

\* Qdrant refuses the write or its answer is lost.
WriteFails(c) ==
    /\ "qdrant" \in Faults
    /\ \/ pc[c] = "embedding" /\ ~LoopBusy(c) /\ (Put(c) \/ UNCHANGED points)
       \/ pc[c] = "setting" /\ UNCHANGED points
       \/ pc[c] = "deleting" /\ UNCHANGED points
    /\ Answer(c, "failed")
    /\ UNCHANGED total

----------------------------------------------------------------------------
(* delete_experience, list_experiences and the searches                    *)

DeleteRead(c) ==
    /\ pc[c] = "start" /\ Kind[c] = "delete"
    /\ Loadable(c)
    /\ Goto(c, "deleting")
    /\ UNCHANGED <<points, copy, total, reply>>

DeletePoint(c) ==
    /\ pc[c] = "deleting"
    /\ payload' = [payload EXCEPT ![Target[c]] = NoPoint]
    /\ vector' = [vector EXCEPT ![Target[c]] = NoText]
    /\ Answer(c, "ok")
    /\ UNCHANGED total

Owned(u) == {e \in Exps : Stored(e) /\ OwnerOf[e] = u}

ListCount(c) ==
    /\ pc[c] = "start" /\ Kind[c] = "list"
    /\ total' = [total EXCEPT ![c] = Cardinality(Owned(Caller[c]))]
    /\ Goto(c, "scrolling")
    /\ UNCHANGED <<points, copy, reply>>

FetchLimit(c, limit, offset) == Min({limit + offset, total[c]})

\* The newest fetch_limit points, from which [offset : offset + limit] is cut;
\* a payload among them that is no Experience fails the whole listing.
ListScroll(c) ==
    /\ pc[c] = "scrolling"
    /\ \E limit \in Limits, offset \in Offsets :
       LET sorted == SetToSortSeq(Owned(Caller[c]), >)
           got == SubSeq(sorted, 1,
                         Min({Len(sorted), FetchLimit(c, limit, offset)}))
       IN
       Answer(c, IF \/ offset >= total[c]
                    \/ \A i \in DOMAIN got : Readable(payload[got[i]])
                 THEN "ok" ELSE "failed")
    /\ UNCHANGED <<points, total>>

\* Points of the answer that are no Experience fail the whole request.
Hits(c, es) ==
    Answer(c, IF \A e \in es : Readable(payload[e]) THEN "ok" ELSE "failed")

\* search_experiences: the query is embedded, and the nearest points of the
\* user are asked for.
SearchStart(c) ==
    /\ pc[c] = "start" /\ Kind[c] = "search" /\ ~LoopBusy(c)
    /\ Goto(c, "querying")
    /\ UNCHANGED <<points, copy, total, reply>>

SearchQuery(c) ==
    /\ pc[c] = "querying" /\ Kind[c] = "search" /\ ~LoopBusy(c)
    /\ \E es \in SUBSET Owned(Caller[c]) : Hits(c, es)
    /\ UNCHANGED <<points, total>>

\* get_experiences_with_question_similarity: 404 without the question or its
\* project; then both are embedded, and all points of the user are asked for.
MatchStart(c) ==
    /\ pc[c] = "start" /\ Kind[c] = "match" /\ ~LoopBusy(c)
    /\ \/ Goto(c, "querying") /\ UNCHANGED <<reply, copy>>
       \/ Answer(c, "missing")
    /\ UNCHANGED <<points, total>>

MatchQuery(c) ==
    /\ pc[c] = "querying" /\ Kind[c] = "match" /\ ~LoopBusy(c)
    /\ Hits(c, Owned(Caller[c]))
    /\ UNCHANGED <<points, total>>

ReadFails(c) ==
    /\ "qdrant" \in Faults
    /\ \/ pc[c] = "start" /\ Kind[c] = "list"
       \/ pc[c] \in {"scrolling", "querying"}
    /\ Answer(c, "failed")
    /\ UNCHANGED <<points, total>>

Idle == (\A c \in Calls : pc[c] = "done") /\ UNCHANGED vars

Step(c) ==
    \/ LoadFails(c)  \/ UpdateRead(c) \/ CreateStart(c) \/ Tagged(c)
    \/ Upsert(c)     \/ SetPayload(c) \/ EmbeddingFails(c) \/ WriteFails(c)
    \/ DeleteRead(c) \/ DeletePoint(c)
    \/ ListCount(c)  \/ ListScroll(c)
    \/ SearchStart(c) \/ SearchQuery(c) \/ MatchStart(c) \/ MatchQuery(c)
    \/ ReadFails(c)

Next == (\E c \in Calls : Step(c)) \/ Idle

Spec == Init /\ [][Next]_vars
----------------------------------------------------------------------------
(* Properties                                                              *)

TypeOK ==
    /\ \A e \in Exps : Stored(e) => IsPayload(payload[e])
    /\ DOMAIN payload = Exps /\ DOMAIN vector = Exps
    /\ pc \in [Calls -> {"start", "tagging", "embedding", "setting",
                         "deleting", "scrolling", "querying", "done"}]
    /\ \A c \in Calls : copy[c] # NoPoint => IsPayload(copy[c])
    /\ total \in [Calls -> 0..Cardinality(Exps)]
    /\ reply \in [Calls -> {"none", "ok", "missing", "failed"}]

\* A search compares with the text a user sees: however updates, creations and
\* deletions interleave and fail, a readable point's vector embeds the texts of
\* its payload (update_experience, experience/service.py:835).
VectorMatches ==
    \A e \in Exps : Stored(e) /\ Readable(payload[e]) => vector[e] = TextOf(payload[e])

\* Two updates that each change one date never combine into a start after the
\* end, although each is validated against what it read before its awaits
\* (experience/service.py:808).
DatesOrdered ==
    \A e \in Exps : Stored(e) => ~Misordered(payload[e]["start"], payload[e]["end"])
=============================================================================
