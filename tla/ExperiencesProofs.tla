-------------------------- MODULE ExperiencesProofs --------------------------
(***************************************************************************)
(* Proofs about Experiences and Matching, for every set of points, calls,  *)
(* documents and patches.                                                  *)
(*                                                                         *)
(* A patch is validated against what its call has read, and written after  *)
(* awaits during which anything may happen to the point.  What saves the   *)
(* dates is that the call holds the whole merged payload and writes all of *)
(* it (PointInv).  What saves the vector is that a write without a new     *)
(* vector follows its read without an await: within one worker nobody      *)
(* comes between (TextInv).                                                *)
(***************************************************************************)
EXTENDS Experiences, Matching, FiniteSetTheorems, TLAPS

Working == {"tagging", "embedding", "setting"}

Sound(d) == IsPayload(d) /\ ~Misordered(d["start"], d["end"])

PointInv ==
    /\ DOMAIN payload = Exps /\ DOMAIN vector = Exps
    /\ DOMAIN pc = Calls /\ DOMAIN copy = Calls
    /\ \A e \in Exps : Stored(e) => Sound(payload[e])
    /\ \A c \in Calls : pc[c] \in Working => Sound(copy[c])

\* A call that will keep the vector holds the texts that the vector embeds.
TextInv ==
    /\ VectorMatches
    /\ \A c \in Calls :
          pc[c] = "setting" /\ Stored(Target[c]) /\ Readable(copy[c])
             => vector[Target[c]] = TextOf(copy[c])

\* The deployment of the Dockerfile: `fastapi run` without --workers.
OneWorker == \A c, d \in Calls : WorkerOf[c] = WorkerOf[d]

----------------------------------------------------------------------------
(* Payloads.                                                                *)

\* A payload is not the absence of a point.
LEMMA PayloadIsPoint == ASSUME NEW d, IsPayload(d) PROVE d # NoPoint
<1>1. DOMAIN d = Fields /\ "format" \in Fields
    BY DEF IsPayload, Fields
<1>2. DOMAIN NoPoint = {}
    BY DEF NoPoint
<1> QED
    BY <1>1, <1>2

\* What a client may send to create is sound.
LEMMA DocumentsSound == ASSUME NEW d \in Documents PROVE Sound(d)
BY ExperiencesAssumption DEF ValidCreate, Sound

\* Merging a patch into a payload gives a payload.
LEMMA MergedPayload ==
    ASSUME NEW d, IsPayload(d), NEW p \in Patches
    PROVE  IsPayload(Merged(p, d))
<1>1. /\ DOMAIN p \subseteq Fields
      /\ "format" \in DOMAIN p => p["format"] \in Formats \cup {None}
      /\ \A f \in DOMAIN p \ {"format"} : p[f] \in Nat
    BY ExperiencesAssumption DEF ValidPatch
<1>2. DOMAIN Merged(p, d) = Fields
    BY DEF Merged
<1>3. Merged(p, d)["format"] \in Formats \cup {None}
  <2>1. "format" \in Fields
      BY DEF Fields
  <2>2. CASE "format" \in DOMAIN p
      BY <1>1, <2>1, <2>2 DEF Merged
  <2>3. CASE "format" \notin DOMAIN p
    <3>1. ~Changing(p, d)
        BY <2>3 DEF Changing, NewFormat
    <3> QED
        BY <2>1, <2>3, <3>1 DEF Merged, IsPayload
  <2> QED
      BY <2>2, <2>3
<1>4. ASSUME NEW f \in Fields \ {"format"} PROVE Merged(p, d)[f] \in Nat
    BY <1>1, <1>4 DEF Merged, IsPayload
<1> QED
    BY <1>2, <1>3, <1>4 DEF IsPayload

\* The merged dates are compared whatever the patch carries.
LEMMA MergedSound ==
    ASSUME NEW d, IsPayload(d), NEW p \in Patches, DatesFit(Merged(p, d))
    PROVE  Sound(Merged(p, d))
<1> DEFINE m == Merged(p, d)
<1>1. IsPayload(m)
    BY MergedPayload
<1>2. m["start"] \in Nat /\ m["end"] \in Nat
    BY <1>1 DEF IsPayload, Fields
<1>3. m["end"] # 0 => m["start"] <= m["end"]
    BY DEF DatesFit
<1> HIDE DEF m
<1>4. ~Misordered(m["start"], m["end"])
    BY <1>2, <1>3 DEF Misordered
<1> QED
    BY <1>1, <1>4 DEF Sound, m

\* A patch that changes no text of the format keeps the text that is embedded,
\* unless it takes the format away.
LEMMA TextKept ==
    ASSUME NEW d, IsPayload(d), NEW p \in Patches,
           ~ContentChanged(p, d), Readable(Merged(p, d))
    PROVE  TextOf(Merged(p, d)) = TextOf(d)
<1>1. NewFormat(p) = None /\ Effective(p, d) = d["format"] /\ ~Changing(p, d)
    BY DEF ContentChanged, Effective, Changing
<1>2. "format" \notin DOMAIN p
  <2>1. "format" \in DOMAIN p => Merged(p, d)["format"] = None
      BY <1>1 DEF NewFormat, Merged, Fields
  <2> QED
      BY <2>1 DEF Readable
<1>3. d["format"] \in Formats \cup {None} /\ "format" \in Fields
    BY DEF IsPayload, Fields
<1>4. {"title"} \cup BodyOf[d["format"]] \subseteq Fields
  <2>1. BodyOf[None] = {}
      BY DEF BodyOf, None
  <2>2. \A f \in Formats : BodyOf[f] \subseteq Body
      BY DEF Body
  <2> QED
      BY <1>3, <2>1, <2>2 DEF Fields, Texts
<1>5. Merged(p, d)["format"] = d["format"]
    BY <1>1, <1>2, <1>3 DEF Merged
<1>6. ASSUME NEW f \in {"title"} \cup BodyOf[d["format"]]
      PROVE  Merged(p, d)[f] = d[f]
  <2>1. f \notin DOMAIN p /\ f \in Fields
      BY <1>1, <1>4 DEF ContentChanged
  <2> QED
      BY <1>1, <2>1 DEF Merged
<1> QED
    BY <1>5, <1>6 DEF TextOf

----------------------------------------------------------------------------
(* Steps, by what they do to the points.                                    *)

\* Every step of a call keeps the points, writes its copy or deletes.
LEMMA StepShape ==
    ASSUME PointInv, NEW c \in Calls, Step(c)
    PROVE  /\ DOMAIN payload' = Exps /\ DOMAIN vector' = Exps
           /\ DOMAIN pc' = Calls /\ DOMAIN copy' = Calls
           /\ \A b \in Calls \ {c} : pc'[b] = pc[b] /\ copy'[b] = copy[b]
           /\ \/ UNCHANGED points
              \/ Put(c) /\ pc[c] = "embedding" /\ ~LoopBusy(c) /\ pc'[c] = "done"
              \/ /\ pc[c] = "setting" /\ Stored(Target[c]) /\ pc'[c] = "done"
                 /\ payload' = [payload EXCEPT ![Target[c]] = copy[c]]
                 /\ vector' = vector
              \/ /\ payload' = [payload EXCEPT ![Target[c]] = NoPoint]
                 /\ vector' = [vector EXCEPT ![Target[c]] = NoText]
                 /\ pc'[c] = "done"
<1>1. CASE LoadFails(c)
    BY <1>1 DEF PointInv, LoadFails, Answer, Goto, points
<1>2. CASE UpdateRead(c)
    BY <1>2 DEF PointInv, UpdateRead, Answer, Goto, points
<1>3. CASE CreateStart(c) \/ Tagged(c)
    BY <1>3 DEF PointInv, CreateStart, Tagged, Goto, points
<1>4. CASE Upsert(c)
    BY <1>4 DEF PointInv, Upsert, Put, Answer, Goto
<1>5. CASE SetPayload(c)
    BY <1>5 DEF PointInv, SetPayload, Answer, Goto, points
<1>6. CASE EmbeddingFails(c) \/ WriteFails(c)
    BY <1>6 DEF PointInv, EmbeddingFails, WriteFails, Put, Answer, Goto, points
<1>7. CASE DeleteRead(c) \/ ListCount(c)
    BY <1>7 DEF PointInv, DeleteRead, ListCount, Goto, points
<1>8. CASE DeletePoint(c)
    BY <1>8 DEF PointInv, DeletePoint, Answer, Goto
<1>9. CASE ListScroll(c) \/ SearchQuery(c) \/ MatchQuery(c) \/ ReadFails(c)
    BY <1>9 DEF PointInv, ListScroll, SearchQuery, MatchQuery, ReadFails, Hits,
                Answer, Goto, points
<1>10. CASE SearchStart(c) \/ MatchStart(c)
    BY <1>10 DEF PointInv, SearchStart, MatchStart, Answer, Goto, points
<1> QED
    BY <1>1, <1>2, <1>3, <1>4, <1>5, <1>6, <1>7, <1>8, <1>9, <1>10 DEF Step

\* A call that is still working holds what it read and merged, what a client
\* sent to create, or what it held before.
LEMMA WorkShape ==
    ASSUME PointInv, NEW c \in Calls, Step(c), pc'[c] \in Working
    PROVE  \/ copy'[c] \in Documents /\ pc'[c] # "setting"
           \/ /\ Stored(Target[c]) /\ Readable(payload[Target[c]])
              /\ UNCHANGED points
              /\ \E p \in Patches :
                    /\ DatesFit(Merged(p, payload[Target[c]]))
                    /\ copy'[c] = Merged(p, payload[Target[c]])
                    /\ pc'[c] = "setting" =>
                          ~ContentChanged(p, payload[Target[c]])
           \/ copy'[c] = copy[c] /\ pc[c] \in Working /\ pc'[c] # "setting"
<1>1. CASE UpdateRead(c)
    BY <1>1 DEF PointInv, UpdateRead, Answer, Goto, points, Working, Loadable
<1>2. CASE CreateStart(c)
    BY <1>2 DEF PointInv, CreateStart, Goto
<1>3. CASE Tagged(c)
    BY <1>3 DEF PointInv, Tagged, Goto, Working
<1>4. CASE LoadFails(c) \/ Upsert(c) \/ SetPayload(c) \/ EmbeddingFails(c) \/ WriteFails(c)
           \/ DeletePoint(c) \/ ListScroll(c) \/ ReadFails(c)
    BY <1>4 DEF PointInv, LoadFails, Upsert, SetPayload, EmbeddingFails, WriteFails,
                DeletePoint, ListScroll, ReadFails, Answer, Goto, Working
<1>5. CASE DeleteRead(c) \/ ListCount(c) \/ SearchStart(c) \/ SearchQuery(c)
           \/ MatchStart(c) \/ MatchQuery(c)
    BY <1>5 DEF PointInv, DeleteRead, ListCount, SearchStart, SearchQuery, MatchStart,
                MatchQuery, Hits, Answer, Goto, Working
<1> QED
    BY <1>1, <1>2, <1>3, <1>4, <1>5 DEF Step

----------------------------------------------------------------------------
LEMMA InitPoint == Init => PointInv
<1> SUFFICES ASSUME Init PROVE PointInv
    OBVIOUS
<1>1. PICK d \in Documents : payload = [e \in Exps |-> IF e \in Existing THEN d ELSE NoPoint]
    BY DEF Init
<1>2. Sound(d)
    BY DocumentsSound
<1>3. \A e \in Exps : Stored(e) => Sound(payload[e])
    BY <1>1, <1>2 DEF Stored
<1> QED
    BY <1>1, <1>3 DEF Init, PointInv, Working

LEMMA NextPoint == PointInv /\ [Next]_vars => PointInv'
<1> SUFFICES ASSUME PointInv, [Next]_vars PROVE PointInv'
    OBVIOUS
<1>1. ASSUME NEW c \in Calls, Step(c) PROVE PointInv'
  <2>1. /\ DOMAIN payload' = Exps /\ DOMAIN vector' = Exps
        /\ DOMAIN pc' = Calls /\ DOMAIN copy' = Calls
        /\ \A b \in Calls \ {c} : pc'[b] = pc[b] /\ copy'[b] = copy[b]
      BY <1>1, StepShape
  <2>2. ASSUME NEW e \in Exps, Stored(e)' PROVE Sound(payload'[e])
    <3>1. CASE UNCHANGED points
        BY <2>2, <3>1 DEF points, PointInv, Stored
    <3>2. CASE payload' = [payload EXCEPT ![Target[c]] = copy[c]] /\ pc[c] \in Working
        BY <2>2, <3>2 DEF PointInv, Stored
    <3>3. CASE payload' = [payload EXCEPT ![Target[c]] = NoPoint]
        BY <2>2, <3>3 DEF PointInv, Stored
    <3> QED
        BY <1>1, <3>1, <3>2, <3>3, StepShape DEF Put, Working
  <2>3. ASSUME pc'[c] \in Working PROVE Sound(copy'[c])
    <3>1. Target[c] \in Exps
        BY ExperiencesAssumption
    <3>2. CASE copy'[c] \in Documents
        BY <3>2, DocumentsSound
    <3>3. ASSUME Stored(Target[c]), NEW p \in Patches,
                 DatesFit(Merged(p, payload[Target[c]])),
                 copy'[c] = Merged(p, payload[Target[c]])
          PROVE  Sound(copy'[c])
      <4>1. IsPayload(payload[Target[c]])
          BY <3>1, <3>3 DEF PointInv, Sound
      <4> QED
          BY <3>3, <4>1, MergedSound
    <3>4. CASE copy'[c] = copy[c] /\ pc[c] \in Working
        BY <3>4 DEF PointInv
    <3> QED
        BY <1>1, <2>3, <3>2, <3>3, <3>4, WorkShape
  <2>4. \A b \in Calls : pc'[b] \in Working => Sound(copy'[b])
      BY <2>1, <2>3 DEF PointInv
  <2> QED
      BY <2>1, <2>2, <2>4 DEF PointInv
<1>2. CASE UNCHANGED vars
    BY <1>2 DEF vars, points, PointInv, Stored
<1> QED
    BY <1>1, <1>2 DEF Next, Idle

\* Two updates that each change one date never combine into a start after the
\* end: a call writes all the dates it has compared (update_experience).
THEOREM DatesStayOrdered == Spec => []DatesOrdered
<1>1. PointInv => DatesOrdered
    BY DEF PointInv, DatesOrdered, Sound
<1> QED
    BY <1>1, InitPoint, NextPoint, PTL DEF Spec

----------------------------------------------------------------------------
LEMMA InitText == Init => TextInv
<1> SUFFICES ASSUME Init PROVE TextInv
    OBVIOUS
<1> QED
    BY DEF Init, TextInv, VectorMatches

LEMMA NextText ==
    ASSUME OneWorker, PointInv, TextInv, [Next]_vars
    PROVE  TextInv'
<1>1. ASSUME NEW c \in Calls, Step(c) PROVE TextInv'
  <2>1. /\ DOMAIN payload = Exps /\ DOMAIN vector = Exps /\ Target[c] \in Exps
        /\ \A b \in Calls \ {c} : pc'[b] = pc[b] /\ copy'[b] = copy[b]
        /\ \A b \in Calls : Target[b] \in Exps
      BY <1>1, StepShape, ExperiencesAssumption DEF PointInv
  <2>2. CASE UNCHANGED points
    <3>1. VectorMatches'
        BY <2>2 DEF TextInv, VectorMatches, points, Stored
    <3>2. ASSUME pc'[c] = "setting", Stored(Target[c])', Readable(copy'[c])
          PROVE  vector'[Target[c]] = TextOf(copy'[c])
      <4>1. PICK p \in Patches :
                /\ Readable(payload[Target[c]])
                /\ copy'[c] = Merged(p, payload[Target[c]])
                /\ ~ContentChanged(p, payload[Target[c]])
          BY <1>1, <3>2, WorkShape DEF Working
      <4>2. Stored(Target[c]) /\ IsPayload(payload[Target[c]])
          BY <2>1, <2>2, <3>2 DEF points, Stored, PointInv, Sound
      <4>3. TextOf(copy'[c]) = TextOf(payload[Target[c]])
          BY <3>2, <4>1, <4>2, TextKept
      <4> QED
          BY <2>1, <2>2, <4>1, <4>2, <4>3 DEF points, TextInv, VectorMatches
    <3>3. ASSUME NEW b \in Calls \ {c}, pc'[b] = "setting", Stored(Target[b])',
                 Readable(copy'[b])
          PROVE  vector'[Target[b]] = TextOf(copy'[b])
        BY <2>1, <2>2, <3>3 DEF points, Stored, TextInv
    <3> QED
        BY <3>1, <3>2, <3>3 DEF TextInv
  <2>3. CASE Put(c) /\ pc[c] = "embedding" /\ ~LoopBusy(c) /\ pc'[c] = "done"
    <3>1. \A b \in Calls : pc'[b] # "setting"
        BY <2>1, <2>3 DEF LoopBusy, OneWorker
    <3>2. VectorMatches'
        BY <2>1, <2>3 DEF Put, TextInv, VectorMatches, Stored
    <3> QED
        BY <3>1, <3>2 DEF TextInv
  <2>4. CASE /\ pc[c] = "setting" /\ Stored(Target[c]) /\ pc'[c] = "done"
             /\ payload' = [payload EXCEPT ![Target[c]] = copy[c]]
             /\ vector' = vector
    <3>1. VectorMatches'
        BY <2>1, <2>4 DEF TextInv, VectorMatches, Stored
    <3>2. ASSUME NEW b \in Calls, pc'[b] = "setting", Stored(Target[b])',
                 Readable(copy'[b])
          PROVE  vector'[Target[b]] = TextOf(copy'[b])
      <4>1. b # c /\ pc[b] = "setting" /\ copy'[b] = copy[b]
          BY <2>1, <2>4, <3>2
      <4>2. Stored(Target[b])
          BY <2>1, <2>4, <3>2 DEF Stored
      <4> QED
          BY <2>4, <3>2, <4>1, <4>2 DEF TextInv
    <3> QED
        BY <3>1, <3>2 DEF TextInv
  <2>5. CASE /\ payload' = [payload EXCEPT ![Target[c]] = NoPoint]
             /\ vector' = [vector EXCEPT ![Target[c]] = NoText]
             /\ pc'[c] = "done"
    <3>1. VectorMatches'
        BY <2>1, <2>5 DEF TextInv, VectorMatches, Stored
    <3>2. ASSUME NEW b \in Calls, pc'[b] = "setting", Stored(Target[b])',
                 Readable(copy'[b])
          PROVE  vector'[Target[b]] = TextOf(copy'[b])
      <4>1. b # c /\ pc[b] = "setting" /\ copy'[b] = copy[b]
          BY <2>1, <2>5, <3>2
      <4>2. Target[b] # Target[c] /\ Stored(Target[b])
          BY <2>1, <2>5, <3>2 DEF Stored
      <4> QED
          BY <2>1, <2>5, <3>2, <4>1, <4>2 DEF TextInv
    <3> QED
        BY <3>1, <3>2 DEF TextInv
  <2> QED
      BY <1>1, <2>2, <2>3, <2>4, <2>5, StepShape
<1>2. CASE UNCHANGED vars
    BY <1>2 DEF vars, points, TextInv, VectorMatches, Stored
<1> QED
    BY <1>1, <1>2 DEF Next, Idle

\* In a deployment with one worker, a search compares with the text a user sees,
\* however updates, creations and deletions interleave and fail
\* (update_experience).
THEOREM SearchesWhatIsShown == ASSUME OneWorker PROVE Spec => []VectorMatches
<1>1. TextInv => VectorMatches
    BY DEF TextInv
<1>2. PointInv /\ TextInv /\ [Next]_vars => TextInv'
    BY NextText
<1> QED
    BY <1>1, <1>2, InitPoint, NextPoint, InitText, PTL DEF Spec

----------------------------------------------------------------------------
(* The type invariant.                                                      *)

Points == {"start", "tagging", "embedding", "setting",
           "deleting", "scrolling", "querying", "done"}
Replies == {"none", "ok", "missing", "failed"}

\* Only a call that works on an Experience holds one.
CallsInv ==
    /\ pc \in [Calls -> Points]
    /\ total \in [Calls -> 0..Cardinality(Exps)]
    /\ reply \in [Calls -> Replies]
    /\ \A c \in Calls : copy[c] # NoPoint => pc[c] \in Working

\* A listing counts points that exist.
LEMMA CountInRange ==
    ASSUME NEW u PROVE Cardinality(Owned(u)) \in 0..Cardinality(Exps)
<1>1. Owned(u) \in SUBSET Exps /\ IsFiniteSet(Exps)
    BY ExperiencesAssumption DEF Owned
<1>2. /\ IsFiniteSet(Owned(u)) /\ Cardinality(Owned(u)) <= Cardinality(Exps)
      /\ Cardinality(Exps) \in Nat
    BY <1>1, FS_Subset, FS_CardinalityType
<1>3. Cardinality(Owned(u)) \in Nat
    BY <1>2, FS_CardinalityType
<1> QED
    BY <1>2, <1>3

LEMMA AnswerTypes ==
    ASSUME CallsInv, NEW c \in Calls, NEW what \in Replies, Answer(c, what),
           DOMAIN copy = Calls, UNCHANGED total
    PROVE  CallsInv'
<1>1. pc' \in [Calls -> Points] /\ \A b \in Calls \ {c} : pc'[b] = pc[b]
    BY DEF CallsInv, Answer, Goto, Points
<1>2. reply' \in [Calls -> Replies] /\ total' = total
    BY DEF CallsInv, Answer
<1>3. copy'[c] = NoPoint /\ \A b \in Calls \ {c} : copy'[b] = copy[b]
    BY DEF Answer
<1> QED
    BY <1>1, <1>2, <1>3 DEF CallsInv

LEMMA CallsStep ==
    ASSUME PointInv, CallsInv, NEW c \in Calls, Step(c)
    PROVE  CallsInv'
<1>1. DOMAIN copy = Calls /\ {"ok", "failed", "missing"} \subseteq Replies
    BY DEF PointInv, Replies
<1>2. CASE LoadFails(c) \/ Upsert(c) \/ EmbeddingFails(c) \/ WriteFails(c)
           \/ DeletePoint(c) \/ ReadFails(c)
    BY <1>1, <1>2, AnswerTypes DEF LoadFails, Upsert, EmbeddingFails, WriteFails,
       DeletePoint, ReadFails
<1>3. CASE SetPayload(c)
    BY <1>1, <1>3, AnswerTypes DEF SetPayload
<1>4. CASE ListScroll(c)
  <2>1. PICK what \in {"ok", "failed"} : Answer(c, what)
      BY <1>4 DEF ListScroll
  <2> QED
      BY <1>1, <1>4, <2>1, AnswerTypes DEF ListScroll
<1>5. CASE SearchQuery(c) \/ MatchQuery(c)
  <2>1. PICK what \in {"ok", "failed"} : Answer(c, what)
      BY <1>5 DEF SearchQuery, MatchQuery, Hits
  <2> QED
      BY <1>1, <1>5, <2>1, AnswerTypes DEF SearchQuery, MatchQuery
<1>6. CASE UpdateRead(c)
  <2> DEFINE d == payload[Target[c]]
  <2>1. PICK p \in Patches :
          IF Accepted(p, d) /\ DatesFit(Merged(p, d))
          THEN /\ copy' = [copy EXCEPT ![c] = Merged(p, d)]
               /\ Goto(c, IF ContentChanged(p, d) THEN "tagging" ELSE "setting")
               /\ UNCHANGED reply
          ELSE Answer(c, "failed")
      BY <1>6 DEF UpdateRead
  <2>2. UNCHANGED total
      BY <1>6 DEF UpdateRead
  <2>3. CASE Answer(c, "failed")
      BY <1>1, <2>2, <2>3, AnswerTypes
  <2> DEFINE m == Merged(p, d)
             next == IF ContentChanged(p, d) THEN "tagging" ELSE "setting"
  <2>4. CASE /\ copy' = [copy EXCEPT ![c] = m]
             /\ Goto(c, next)
             /\ UNCHANGED reply
    <3>1. next \in {"tagging", "setting"}
        OBVIOUS
    <3> HIDE DEF m, next
    <3> QED
        BY <1>1, <2>2, <2>4, <3>1 DEF CallsInv, Goto, Points, Working
  <2> QED
      BY <2>1, <2>3, <2>4
<1>7. CASE CreateStart(c)
    BY <1>1, <1>7 DEF CreateStart, CallsInv, Goto, Points, Working
<1>8. CASE Tagged(c)
    BY <1>1, <1>8 DEF Tagged, CallsInv, Goto, Points, Working
<1>9. CASE DeleteRead(c) \/ SearchStart(c)
    BY <1>1, <1>9 DEF DeleteRead, SearchStart, CallsInv, Goto, Points, Working
<1>10. CASE ListCount(c)
  <2> DEFINE n == Cardinality(Owned(Caller[c]))
  <2>1. n \in 0..Cardinality(Exps)
      BY CountInRange
  <2>2. /\ total' = [total EXCEPT ![c] = n] /\ Goto(c, "scrolling") /\ pc[c] = "start"
        /\ UNCHANGED <<copy, reply>>
      BY <1>10 DEF ListCount
  <2> HIDE DEF n
  <2> QED
      BY <1>1, <2>1, <2>2 DEF CallsInv, Goto, Points, Working
<1>11. CASE MatchStart(c)
  <2>1. CASE Answer(c, "missing")
      BY <1>1, <1>11, <2>1, AnswerTypes DEF MatchStart
  <2>2. CASE Goto(c, "querying") /\ UNCHANGED <<reply, copy>>
      BY <1>1, <1>11, <2>2 DEF MatchStart, CallsInv, Goto, Points, Working
  <2> QED
      BY <1>11, <2>1, <2>2 DEF MatchStart
<1> QED
    BY <1>2, <1>3, <1>4, <1>5, <1>6, <1>7, <1>8, <1>9, <1>10, <1>11 DEF Step

LEMMA CallsInit == Init => CallsInv
<1>1. Cardinality(Exps) \in Nat
    BY ExperiencesAssumption, FS_CardinalityType
<1> QED
    BY <1>1 DEF Init, CallsInv, Points, Replies

\* Every point is a whole payload and every call in flight holds one, whatever
\* the patches leave out and whatever fails (update_experience).
THEOREM PayloadsTypeCorrect == Spec => []TypeOK
<1>1. PointInv /\ CallsInv /\ [Next]_vars => CallsInv'
    BY CallsStep DEF Next, Idle, vars, CallsInv
<1>2. PointInv /\ CallsInv => TypeOK
    BY DEF PointInv, CallsInv, TypeOK, Points, Replies, Sound
<1> QED
    BY <1>1, <1>2, InitPoint, NextPoint, CallsInit, PTL DEF Spec

----------------------------------------------------------------------------
(* The ranking.                                                             *)

\* A ratio of at most one, in thousandths.
LEMMA Ratio ==
    ASSUME NEW a \in Nat, NEW b \in Nat, b # 0, a <= b
    PROVE  (1000 * a) \div b \in Nat /\ (1000 * a) \div b <= 1000
<1> DEFINE q == (1000 * a) \div b
<1>1. /\ q \in Int /\ b * q <= 1000 * a
      /\ 1000 * a < b * (q + 1)
    OBVIOUS
<1> HIDE DEF q
<1>2. q <= 1000
    BY <1>1
<1>3. q >= 0
    BY <1>1
<1> QED
    BY <1>1, <1>2, <1>3 DEF q

\* The Jaccard similarity in thousandths.
LEMMA TagScoreBound ==
    ASSUME NEW mine \in SUBSET Tags, NEW asked \in SUBSET Tags
    PROVE  TagScore(mine, asked) \in Nat /\ TagScore(mine, asked) <= 1000
<1> DEFINE both == mine \cap asked  all == mine \cup asked
<1>1. IsFiniteSet(all) /\ both \subseteq all
    BY MatchingAssumption, FS_Subset
<1>2. /\ IsFiniteSet(both)
      /\ Cardinality(both) <= Cardinality(all)
      /\ Cardinality(both) \in Nat /\ Cardinality(all) \in Nat
    BY <1>1, FS_Subset, FS_CardinalityType
<1>3. CASE both = {}
    BY <1>3 DEF TagScore
<1>4. CASE both # {}
  <2>1. all # {}
      BY <1>4
  <2>2. Cardinality(all) # 0
      BY <1>1, <2>1, FS_EmptySet
  <2>3. TagScore(mine, asked) = (1000 * Cardinality(both)) \div Cardinality(all)
      BY <1>4 DEF TagScore
  <2> HIDE DEF both, all
  <2> QED
      BY <1>2, <2>2, <2>3, Ratio
<1> QED
    BY <1>3, <1>4

\* What the formula gives for a low quality and for a high one.
LEMMA LowQuality ==
    ASSUME NEW x \in Nat, x <= 115000
    PROVE  /\ (x * 100) \div 1000 \in Int /\ (x * 100) \div 1000 <= 23000
           /\ (x * 200) \div 1000 \in Int /\ (x * 200) \div 1000 <= 23000
OBVIOUS

LEMMA HighQuality ==
    ASSUME NEW x \in Nat, 33400 <= x
    PROVE  /\ (x * 700) \div 1000 \in Int /\ (x * 700) \div 1000 >= 23380
           /\ (x * 1000) \div 1000 \in Int /\ (x * 1000) \div 1000 >= 23380
OBVIOUS

\* Before the penalty, a score is at most 1.15 and at least the similarity.
RawOf(x, asked) == Raw(x.base, TagScore(x.tags, asked), CategoryScore(x.sameCategory))

LEMMA RawBound ==
    ASSUME NEW x \in Experiment, NEW asked \in SUBSET Tags
    PROVE  /\ x.base \in Nat
           /\ RawOf(x, asked) \in Nat
           /\ RawOf(x, asked) <= 115000 /\ 100 * x.base <= RawOf(x, asked)
<1> DEFINE b == x.base  t == TagScore(x.tags, asked)  c == CategoryScore(x.sameCategory)
<1>1. x.base \in 0..1000 /\ x.tags \in SUBSET Tags
    BY MatchingAssumption DEF Experiment
<1>2. b \in Nat /\ b <= 1000
    BY <1>1
<1>3. t \in Nat /\ t <= 1000
    BY <1>1, TagScoreBound
<1>4. c \in Nat /\ c <= 1000
    BY DEF CategoryScore
<1>5. RawOf(x, asked) = 100 * b + 10 * t + 5 * c
    BY DEF RawOf, Raw
<1> HIDE DEF b, t, c
<1>6. RawOf(x, asked) \in Nat /\ RawOf(x, asked) <= 115000 /\ 100 * b <= RawOf(x, asked)
    BY <1>2, <1>3, <1>4, <1>5
<1> QED
    BY <1>2, <1>6 DEF b

LEMMA ScoreFromRaw ==
    ASSUME NEW x, NEW asked
    PROVE  ScoreOf(x, asked) =
              LET score == (RawOf(x, asked) * Quality(x.content)) \div 1000 + 20000
              IN IF score < 100000 THEN score ELSE 100000
<1>1. One = 100000 /\ One \div 5 = 20000
    BY DEF One
<1> QED
    BY <1>1 DEF ScoreOf, Score, RawOf

LEMMA Qualities == ASSUME NEW k PROVE Quality(k) \in {100, 200, 700, 1000}
BY DEF Quality

LEMMA ScoreType ==
    ASSUME NEW x \in Experiment, NEW asked \in SUBSET Tags
    PROVE  ScoreOf(x, asked) \in Int
<1> DEFINE r == RawOf(x, asked)  q == Quality(x.content)
           score == (r * q) \div 1000 + 20000
<1>1. r \in Nat /\ q \in Nat
    BY RawBound, Qualities
<1>2. ScoreOf(x, asked) = IF score < 100000 THEN score ELSE 100000
    BY ScoreFromRaw
<1> HIDE DEF r, q
<1>3. score \in Int
    BY <1>1
<1> HIDE DEF score
<1> QED
    BY <1>2, <1>3

\* A content without meaning takes at most 0.43, the others keep more.
LEMMA LowScore ==
    ASSUME NEW x \in Experiment, NEW asked \in SUBSET Tags, Quality(x.content) <= 200
    PROVE  ScoreOf(x, asked) <= 43000
<1> DEFINE r == RawOf(x, asked)  q == Quality(x.content)
           low == (r * q) \div 1000
<1>1. r \in Nat /\ r <= 115000
    BY RawBound
<1>2. q \in {100, 200}
  <2>1. Quality(x.content) \in {100, 200, 700, 1000}
      BY Qualities
  <2> QED
      BY <2>1
<1>3. ScoreOf(x, asked) = IF low + 20000 < 100000 THEN low + 20000 ELSE 100000
    BY ScoreFromRaw
<1> HIDE DEF r, q
<1>4. low \in Int /\ low <= 23000
    BY <1>1, <1>2, LowQuality
<1> HIDE DEF low
<1> QED
    BY <1>3, <1>4

LEMMA HighScore ==
    ASSUME NEW x \in Experiment, NEW asked \in SUBSET Tags, Quality(x.content) >= 700,
           3 * x.base >= 1000
    PROVE  ScoreOf(x, asked) >= 43380
<1> DEFINE r == RawOf(x, asked)  q == Quality(x.content)
           high == (r * q) \div 1000
<1>1. r \in Nat /\ 33400 <= r
    BY RawBound
<1>2. q \in {700, 1000}
  <2>1. Quality(x.content) \in {100, 200, 700, 1000}
      BY Qualities
  <2> QED
      BY <2>1
<1>3. ScoreOf(x, asked) = IF high + 20000 < 100000 THEN high + 20000 ELSE 100000
    BY ScoreFromRaw
<1> HIDE DEF r, q
<1>4. high \in Int /\ high >= 23380
    BY <1>1, <1>2, HighQuality
<1> HIDE DEF high
<1> QED
    BY <1>3, <1>4

LEMMA MeaninglessScoresLess ==
    ASSUME NEW x \in Experiment, NEW y \in Experiment, NEW asked \in SUBSET Tags,
           Quality(x.content) <= 200, Quality(y.content) >= 700, 3 * y.base >= 1000
    PROVE  /\ ~(ScoreOf(x, asked) >= ScoreOf(y, asked))
           /\ ScoreOf(x, asked) < ScoreOf(y, asked)
<1>1. ScoreOf(x, asked) \in Int /\ ScoreOf(y, asked) \in Int
    BY ScoreType
<1>2. ScoreOf(x, asked) <= 43000
    BY LowScore
<1>3. ScoreOf(y, asked) >= 43380
    BY HighScore
<1> QED
    BY <1>1, <1>2, <1>3

\* However well it matches, an experience without a meaningful content never
\* outranks one with a content and a similarity of at least a third
\* (get_experiences_with_question_similarity), for every set of tags, contents
\* and similarities.
THEOREM MeaningFirst == MatchSpec => []QualityFirst
<1>1. ranking = <<>> => QualityFirst
    BY DEF QualityFirst
<1>2. ASSUME QualityFirst, [MatchQuestion]_ranking
      PROVE  QualityFirst'
  <2>1. CASE MatchQuestion
    <3>1. PICK x \in Experiment, y \in Experiment, asked \in SUBSET Tags :
              ranking' = Rank(x, y, asked)
        BY <2>1 DEF MatchQuestion
    <3>2. ASSUME NEW i \in DOMAIN ranking', NEW j \in DOMAIN ranking',
                 Quality(ranking'[i].content) <= 200,
                 Quality(ranking'[j].content) >= 700,
                 3 * ranking'[j].base >= 1000
          PROVE  j < i
      <4>1. i # j
          BY <3>2 DEF Quality
      <4>2. CASE ranking' = <<x, y>> /\ ScoreOf(x, asked) >= ScoreOf(y, asked)
        <5>1. i \in 1..2 /\ j \in 1..2 /\ ranking'[1] = x /\ ranking'[2] = y
            BY <3>2, <4>2
        <5>2. ~(i = 1 /\ j = 2)
            BY <3>2, <4>2, <5>1, MeaninglessScoresLess
        <5> QED
            BY <4>1, <5>1, <5>2
      <4>3. CASE ranking' = <<y, x>> /\ ~(ScoreOf(x, asked) >= ScoreOf(y, asked))
        <5>1. i \in 1..2 /\ j \in 1..2 /\ ranking'[1] = y /\ ranking'[2] = x
            BY <3>2, <4>3
        <5>2. ~(i = 1 /\ j = 2)
          <6> SUFFICES ASSUME i = 1, j = 2 PROVE FALSE
              OBVIOUS
          <6>1. ScoreOf(y, asked) < ScoreOf(x, asked)
              BY <3>2, <5>1, MeaninglessScoresLess
          <6>2. ScoreOf(y, asked) \in Int /\ ScoreOf(x, asked) \in Int
              BY ScoreType
          <6> QED
              BY <4>3, <6>1, <6>2
        <5> QED
            BY <4>1, <5>1, <5>2
      <4> QED
          BY <3>1, <4>2, <4>3 DEF Rank
    <3> QED
        BY <3>2 DEF QualityFirst
  <2>2. CASE UNCHANGED ranking
      BY <2>2, <1>2 DEF QualityFirst
  <2> QED
      BY <1>2, <2>1, <2>2
<1> QED
    BY <1>1, <1>2, PTL DEF MatchSpec
=============================================================================
