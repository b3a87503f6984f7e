-------------------------- MODULE ChatStreamProofs --------------------------
(***************************************************************************)
(* Proofs about ChatStream, for every set of users and requests, every     *)
(* number of chunks and every set of faults.                               *)
(*                                                                         *)
(* That the loop never handles a second verdict is not a property of the   *)
(* loop, which looks at nothing but the chunk.  It follows from what the   *)
(* pipeline has put: while its stage is silent the queue holds content     *)
(* only and the request is still streaming, and what puts a verdict leaves *)
(* the silent stages for good (PipeInv).  From there on the steps of the   *)
(* loop are steps of ChatBilling, whose invariants the streams inherit.    *)
(***************************************************************************)
EXTENDS ChatStream, ChatBillingProofs

\* Control points before the stream.
Before == {"start", "granting", "admitted", "debiting", "refused", "charged"}

\* The sentinel is the last chunk of a stream.
NullsLast(c) ==
    \A i \in 1..Len(queue[c]) :
        queue[c][i] = "null" => task[c] = "ended" /\ i = Len(queue[c])

PipeInv ==
    \A c \in Requests :
        /\ damaged[c] => "history" \in Faults
        /\ pc[c] \in Before => task[c] = "none"
        /\ task[c] = "none" => queue[c] = <<>> /\ reader[c] # "reading"
        /\ NullsLast(c)
        /\ task[c] \in Silent =>
              /\ \A i \in 1..Len(queue[c]) : queue[c][i] = "content"
              /\ reader[c] = "reading" => pc[c] = "streaming"

\* Where the text is: taken by the loop, or in the queue before the verdict.
TextInv ==
    \A c \in Requests :
        /\ task[c] \in Silent => text[c] + Len(queue[c]) = produced[c]
        /\ \A i \in 1..Len(queue[c]) :
              queue[c][i] \in Verdicts => text[c] + i = produced[c] + 1
        /\ answer[c] \/ pc[c] \in {"settling", "saving"} =>
              /\ text[c] = produced[c] /\ task[c] \notin Silent
              /\ \A i \in 1..Len(queue[c]) : queue[c][i] = "null"

StreamInv == StreamTypeOK /\ PipeInv /\ VerdictLast /\ TextInv

----------------------------------------------------------------------------
LEMMA InitStreamInv == StreamInit => StreamInv
<1> SUFFICES ASSUME StreamInit PROVE StreamInv
    OBVIOUS
<1> QED
    BY StreamAssumption
       DEF StreamInit, Init, StreamInv, StreamTypeOK, PipeInv, NullsLast, VerdictLast,
           TextInv, Tasks, Silent, Chunks

\* What the pipeline does leaves the request alone.
LEMMA PipelineSteps ==
    ASSUME IInv, StreamInv, NEW c \in Requests, Pipeline(c) \/ CancelTask(c)
    PROVE  StreamInv' /\ UNCHANGED vars
<1>1. UNCHANGED vars
    BY DEF Pipeline, CancelTask, Advance, PutContent, PutDone, Raise, PutError,
           PutSentinel
<1>2. ASSUME NEW chunk \in Chunks, NEW l \in Tasks, Put(c, chunk), GoOn(c, l),
             damaged' \in [Requests -> BOOLEAN],
             produced' \in [Requests -> 0..MaxChunks],
             IF chunk = "content"
             THEN produced' = [produced EXCEPT ![c] = @ + 1]
             ELSE UNCHANGED produced,
             \A d \in Requests : damaged'[d] => "history" \in Faults,
             task[c] # "none", l # "none",
             UNCHANGED <<text, reader>>,
             \/ task[c] \in Silent /\ l \in Silent /\ chunk = "content"
             \/ task[c] \in Silent /\ l = "closing" /\ chunk \in Verdicts
             \/ task[c] = "closing" /\ l = "ended" /\ chunk = "null"
      PROVE  StreamInv'
  <2>1. StreamTypeOK'
      BY <1>2 DEF StreamInv, StreamTypeOK, Put, GoOn
  <2> DEFINE q == queue[c]
  <2>2. /\ q \in Seq(Chunks) /\ queue'[c] = Append(q, chunk)
        /\ \A d \in Requests \ {c} : queue'[d] = queue[d]
      BY <1>2 DEF StreamInv, StreamTypeOK, Put
  <2>3. /\ Len(queue'[c]) = Len(q) + 1
        /\ queue'[c][Len(q) + 1] = chunk
        /\ \A i \in 1..Len(q) : queue'[c][i] = q[i]
      BY <2>2
  <2>4. PipeInv'
    <3>1. task[c] # "none" /\ task'[c] = l /\ pc' = pc /\ reader' = reader
        BY <1>1, <1>2 DEF GoOn, StreamInv, StreamTypeOK, vars
    <3>2. \A d \in Requests \ {c} : task'[d] = task[d]
        BY <1>2 DEF GoOn, StreamInv, StreamTypeOK
    <3>3. ASSUME l \in Silent
          PROVE  /\ \A i \in 1..Len(queue'[c]) : queue'[c][i] = "content"
                 /\ reader[c] = "reading" => pc[c] = "streaming"
      <4>1. task[c] \in Silent /\ chunk = "content"
        <5>1. l # "closing" /\ l # "ended"
            BY <3>3 DEF Silent
        <5> QED
            BY <1>2, <5>1
      <4>2. \A i \in 1..Len(q) : q[i] = "content"
          BY <4>1 DEF StreamInv, PipeInv, NullsLast
      <4>3. reader[c] = "reading" => pc[c] = "streaming"
          BY <4>1 DEF StreamInv, PipeInv, NullsLast
      <4> QED
          BY <2>2, <2>3, <4>1, <4>2, <4>3
    <3>4. c \in Requests /\ (pc[c] \in Before => task[c] = "none")
        BY DEF StreamInv, PipeInv, NullsLast
    <3>5. ASSUME NEW d \in Requests \ {c} PROVE PipeInv!(d)'
        BY <1>2, <2>2, <3>1, <3>2 DEF StreamInv, PipeInv, NullsLast
    <3>6. ASSUME NEW i \in 1..Len(queue'[c]), queue'[c][i] = "null"
          PROVE  l = "ended" /\ i = Len(queue'[c])
      <4>1. task[c] # "ended"
          BY <1>2 DEF Silent
      <4>2. \A j \in 1..Len(q) : q[j] # "null"
          BY <4>1 DEF StreamInv, PipeInv, NullsLast
      <4>3. i = Len(q) + 1
          BY <2>2, <2>3, <3>6, <4>2
      <4>4. chunk = "null"
          BY <2>3, <3>6, <4>3
      <4>5. l = "ended"
        <5>1. chunk # "content" /\ chunk \notin Verdicts
            BY <4>4 DEF Verdicts
        <5> QED
            BY <1>2, <5>1
      <4>6. Len(queue'[c]) = Len(q) + 1
          BY <2>3
      <4> QED
          BY <4>3, <4>5, <4>6
    <3>7. PipeInv!(c)'
        BY <1>2, <3>1, <3>3, <3>4, <3>6 DEF PipeInv, NullsLast
    <3> QED
        BY <3>5, <3>7 DEF PipeInv, NullsLast
  <2>5. VerdictLast'
    <3> SUFFICES ASSUME NEW d \in Requests, NEW i \in 1..Len(queue'[d]),
                        queue'[d][i] \in Verdicts
                 PROVE  /\ \A j \in i + 1..Len(queue'[d]) : queue'[d][j] = "null"
                        /\ reader'[d] = "reading" => pc'[d] = "streaming"
        BY DEF VerdictLast
    <3>1. CASE d # c
        BY <1>1, <1>2, <2>2, <3>1 DEF StreamInv, VerdictLast, vars
    <3>2. CASE d = c /\ task[c] \in Silent
      <4>1. i = Len(q) + 1
        <5>1. \A j \in 1..Len(q) : q[j] = "content"
            BY <3>2 DEF StreamInv, PipeInv
        <5> QED
            BY <2>2, <2>3, <3>2, <5>1 DEF Verdicts
      <4> QED
          BY <1>1, <1>2, <2>3, <3>2, <4>1 DEF StreamInv, PipeInv, NullsLast, vars
    <3>3. CASE d = c /\ chunk = "null"
      <4>1. i \in 1..Len(q) /\ q[i] \in Verdicts
          BY <2>3, <3>3, i # Len(q) + 1 DEF Verdicts
      <4>2. /\ \A j \in i + 1..Len(q) : q[j] = "null"
            /\ reader[c] = "reading" => pc[c] = "streaming"
          BY <2>3, <3>3, <4>1 DEF StreamInv, VerdictLast
      <4>3. Len(q) \in Nat
          BY <2>2
      <4>4. \A j \in i + 1..Len(queue'[c]) : queue'[c][j] = "null"
          BY <2>3, <3>3, <4>1, <4>2, <4>3
      <4> QED
          BY <1>1, <1>2, <3>3, <4>2, <4>4 DEF vars
    <3> QED
        BY <1>2, <3>1, <3>2, <3>3
  <2>6. TextInv'
    <3>1. task[c] # "none" /\ task'[c] = l /\ pc' = pc /\ answer' = answer
          /\ text' = text /\ text[c] \in Nat /\ produced[c] \in Nat
        BY <1>1, <1>2 DEF GoOn, StreamInv, StreamTypeOK, vars
    <3>2. \A d \in Requests \ {c} : task'[d] = task[d] /\ produced'[d] = produced[d]
        BY <1>2 DEF GoOn, StreamInv, StreamTypeOK
    <3>3. CASE task[c] \in Silent
      <4>1. /\ \A i \in 1..Len(q) : q[i] = "content"
            /\ text[c] + Len(q) = produced[c]
            /\ ~answer[c] /\ pc[c] \notin {"settling", "saving"}
          BY <3>3 DEF StreamInv, PipeInv, NullsLast, TextInv
      <4>2. l \in Silent => text[c] + Len(queue'[c]) = produced'[c]
        <5>1. l \in Silent => chunk = "content"
            BY <1>2, l = "closing" => l \notin Silent, l = "ended" => l \notin Silent
               DEF Silent
        <5> QED
            BY <1>2, <2>2, <2>3, <3>1, <4>1, <5>1 DEF StreamInv, StreamTypeOK
      <4>3. ASSUME NEW i \in 1..Len(queue'[c]), queue'[c][i] \in Verdicts
            PROVE  text[c] + i = produced'[c] + 1
        <5>1. i = Len(q) + 1 /\ chunk # "content"
            BY <2>2, <2>3, <4>1, <4>3 DEF Verdicts
        <5> QED
            BY <1>2, <2>2, <3>1, <4>1, <5>1
      <4>4. ASSUME NEW d \in Requests \ {c} PROVE TextInv!(d)'
          BY <2>2, <3>1, <3>2 DEF StreamInv, TextInv
      <4>5. TextInv!(c)'
          BY <3>1, <4>1, <4>2, <4>3 DEF TextInv
      <4> QED
          BY <4>4, <4>5 DEF TextInv
    <3>4. CASE chunk = "null" /\ l = "ended"
      <4>1. produced' = produced /\ l \notin Silent /\ chunk \notin Verdicts
          BY <1>2, <3>4 DEF Silent, Verdicts
      <4>2. ASSUME NEW i \in 1..Len(queue'[c]), queue'[c][i] \in Verdicts
            PROVE  text[c] + i = produced'[c] + 1
        <5>1. i \in 1..Len(q) /\ q[i] \in Verdicts
            BY <2>2, <2>3, <3>4, <4>1, <4>2
        <5> QED
            BY <4>1, <5>1 DEF StreamInv, TextInv
      <4>3. answer[c] \/ pc[c] \in {"settling", "saving"} =>
              \A i \in 1..Len(queue'[c]) : queue'[c][i] = "null"
          BY <2>2, <2>3, <3>4 DEF StreamInv, TextInv
      <4>4. ASSUME NEW d \in Requests \ {c} PROVE TextInv!(d)'
          BY <2>2, <3>1, <3>2 DEF StreamInv, TextInv
      <4>5. TextInv!(c)'
          BY <3>1, <4>1, <4>2, <4>3 DEF StreamInv, TextInv
      <4> QED
          BY <4>4, <4>5 DEF TextInv
    <3> QED
        BY <1>2, <3>3, <3>4
  <2> QED
      BY <2>1, <2>4, <2>5, <2>6 DEF StreamInv
<1>3. ASSUME NEW l \in Tasks \ {"none"}, GoOn(c, l),
             UNCHANGED <<queue, produced, text, reader>>,
             task[c] \in Silent \ {"none"},
             damaged' \in [Requests -> BOOLEAN],
             \A d \in Requests : damaged'[d] => "history" \in Faults
      PROVE  StreamInv'
  <2>1. /\ task'[c] = l /\ l \notin {"none"} /\ task[c] \in Silent
        /\ \A d \in Requests \ {c} : task'[d] = task[d]
      BY <1>3 DEF GoOn, StreamInv, StreamTypeOK
  <2>2. StreamTypeOK'
      BY <1>3 DEF StreamInv, StreamTypeOK, GoOn
  <2>3. PipeInv'
    <3>1. c \in Requests /\ (pc[c] \in Before => task[c] = "none")
        BY DEF StreamInv, PipeInv, NullsLast
    <3>2. ASSUME NEW d \in Requests \ {c} PROVE PipeInv!(d)'
        BY <1>1, <1>3, <2>1 DEF StreamInv, PipeInv, NullsLast, vars
    <3>3. \A i \in 1..Len(queue[c]) : queue[c][i] # "null"
        BY <2>1 DEF StreamInv, PipeInv, NullsLast
    <3>4. PipeInv!(c)'
        BY <1>1, <1>3, <2>1, <3>1, <3>3 DEF StreamInv, PipeInv, NullsLast, vars
    <3> QED
        BY <3>2, <3>4 DEF PipeInv, NullsLast
  <2>4. VerdictLast'
      BY <1>1, <1>3 DEF StreamInv, VerdictLast, vars
  <2>5. TextInv'
      BY <1>1, <1>3, <2>1 DEF StreamInv, TextInv, vars
  <2> QED
      BY <2>2, <2>3, <2>4, <2>5 DEF StreamInv
<1>4. CASE Advance(c) \/ Raise(c) \/ CancelTask(c)
  <2>1. PICK l \in Tasks \ {"none"} : GoOn(c, l)
      BY <1>4 DEF Advance, Raise, CancelTask, Tasks, Silent
  <2>2. /\ UNCHANGED <<queue, produced, text, reader>>
        /\ task[c] \in Silent \ {"none"}
      BY <1>4 DEF Advance, Raise, CancelTask, Silent
  <2>3. /\ damaged' \in [Requests -> BOOLEAN]
        /\ \A d \in Requests : damaged'[d] => "history" \in Faults
    <3>1. CASE Raise(c)
      <4>1. PICK breaks \in BOOLEAN :
                /\ breaks => "history" \in Faults
                /\ damaged' = [damaged EXCEPT ![c] = breaks]
          BY <3>1 DEF Raise
      <4> QED
          BY <4>1 DEF StreamInv, StreamTypeOK, PipeInv
    <3>2. CASE UNCHANGED damaged
        BY <3>2 DEF StreamInv, StreamTypeOK, PipeInv
    <3> QED
        BY <1>4, <3>1, <3>2 DEF Advance, CancelTask
  <2> QED
      BY <1>1, <1>3, <2>1, <2>2, <2>3
<1>5. CASE PutContent(c)
  <2>1. GoOn(c, task[c])
      BY <1>5 DEF PutContent, GoOn, StreamInv, StreamTypeOK
  <2>2. produced' \in [Requests -> 0..MaxChunks]
      BY <1>5, StreamAssumption DEF PutContent, StreamInv, StreamTypeOK
  <2> QED
      BY <1>2, <1>5, <2>1, <2>2
         DEF PutContent, StreamInv, StreamTypeOK, PipeInv, Silent, Tasks, Chunks, Verdicts
<1>6. CASE PutDone(c)
  <2>1. PICK kind \in {"chat", "draft"} : Put(c, kind)
      BY <1>6 DEF PutDone
  <2> QED
      BY <1>2, <1>6, <2>1
         DEF PutDone, AfterVerdict, StreamInv, StreamTypeOK, PipeInv, Silent, Tasks,
             Chunks, Verdicts
<1>7. CASE PutError(c)
    BY <1>2, <1>7
       DEF PutError, OnError, StreamInv, StreamTypeOK, PipeInv, Silent, Tasks,
           Chunks, Verdicts
<1>8. CASE PutSentinel(c)
    BY <1>2, <1>8
       DEF PutSentinel, StreamInv, StreamTypeOK, PipeInv, Silent, Tasks,
           Chunks, Verdicts
<1> QED
    BY <1>1, <1>4, <1>5, <1>6, <1>7, <1>8 DEF Pipeline

----------------------------------------------------------------------------
(* The loop: what its statements do to the stream.                         *)

\* A statement that takes no chunk: it moves the control point, and the loop
\* reads on only if nothing but the control point changes.
LEMMA ControlPoint ==
    ASSUME TypeOK, StreamInv, NEW c \in Requests, NEW l \in Pcs,
           pc' = [pc EXCEPT ![c] = l],
           l \in Before => pc[c] \in Before,
           l \in {"settling", "saving"} => pc[c] = l,
           answer'[c] => answer[c] \/ pc[c] \in {"settling", "saving"},
           \A d \in Requests \ {c} : answer'[d] = answer[d],
           UNCHANGED <<pipe, text>>,
           NEW r \in {"off", "reading", "closed", "cut"},
           reader' = [reader EXCEPT ![c] = r],
           r = "reading" => reader[c] = "reading" /\ pc[c] # "streaming"
    PROVE  StreamInv'
<1>1. pc'[c] = l /\ \A d \in Requests \ {c} : pc'[d] = pc[d]
    BY DEF TypeOK
<1>2. reader'[c] = r /\ \A d \in Requests \ {c} : reader'[d] = reader[d]
    BY DEF StreamInv, StreamTypeOK
<1>3. StreamTypeOK'
    BY DEF StreamInv, StreamTypeOK, pipe
<1>4. PipeInv'
    BY <1>1, <1>2 DEF StreamInv, PipeInv, NullsLast, pipe
<1>5. VerdictLast'
    BY <1>1, <1>2 DEF StreamInv, VerdictLast, pipe
<1>6. TextInv'
    BY <1>1 DEF StreamInv, TextInv, pipe
<1> QED
    BY <1>3, <1>4, <1>5, <1>6 DEF StreamInv

\* What taking a chunk leaves in the queue.
LEMMA Taken ==
    ASSUME StreamInv, NEW c \in Requests, NEW chunk, Take(c, chunk)
    PROVE  /\ Len(queue[c]) \in Nat /\ Len(queue'[c]) \in Nat
           /\ 1 \in 1..Len(queue[c]) /\ queue[c][1] = chunk
           /\ Len(queue[c]) = Len(queue'[c]) + 1
           /\ \A i \in 1..Len(queue'[c]) :
                  i + 1 \in 1..Len(queue[c]) /\ queue'[c][i] = queue[c][i + 1]
           /\ \A d \in Requests \ {c} : queue'[d] = queue[d]
           /\ queue' \in [Requests -> Seq(Chunks)]
<1> DEFINE q == queue[c]
<1>1. q \in Seq(Chunks) /\ q # <<>> /\ queue'[c] = Tail(q) /\ Head(q) = chunk
    BY DEF Take, StreamInv, StreamTypeOK
<1>2. Len(q) \in Nat /\ Len(q) > 0 /\ q[1] = chunk
    BY <1>1
<1>3. /\ Tail(q) \in Seq(Chunks) /\ Len(Tail(q)) = Len(q) - 1
      /\ \A i \in 1..Len(Tail(q)) : Tail(q)[i] = q[i + 1]
    BY <1>1, <1>2
<1>4. \A i \in 1..Len(queue'[c]) : i + 1 \in 1..Len(queue[c])
    BY <1>1, <1>2, <1>3
<1>5. /\ \A d \in Requests \ {c} : queue'[d] = queue[d]
      /\ queue' \in [Requests -> Seq(Chunks)]
    BY <1>1, <1>3 DEF Take, StreamInv, StreamTypeOK
<1> QED
    BY <1>1, <1>2, <1>3, <1>4, <1>5

LEMMA NullsAfterTake ==
    ASSUME StreamInv, NEW c \in Requests, NEW chunk, Take(c, chunk)
    PROVE  NullsLast(c)'
<1> SUFFICES ASSUME NEW i \in 1..Len(queue'[c]), queue'[c][i] = "null"
             PROVE  task'[c] = "ended" /\ i = Len(queue'[c])
    BY DEF NullsLast
<1>1. /\ i + 1 \in 1..Len(queue[c]) /\ queue[c][i + 1] = "null"
      /\ Len(queue[c]) = Len(queue'[c]) + 1 /\ Len(queue'[c]) \in Nat
    BY Taken
<1>2. task[c] = "ended" /\ i + 1 = Len(queue[c])
    BY <1>1 DEF StreamInv, PipeInv, NullsLast
<1> QED
    BY <1>1, <1>2 DEF Take

\* A content chunk goes from the queue to the text.
LEMMA ContentTaken ==
    ASSUME TypeOK, StreamInv, NEW c \in Requests, TakeContent(c)
    PROVE  StreamInv'
<1>1. /\ Take(c, "content") /\ UNCHANGED <<vars, reader, task, damaged, produced>>
      /\ text' = [text EXCEPT ![c] = @ + 1]
    BY DEF TakeContent, Take
<1>2. /\ text'[c] = text[c] + 1 /\ text[c] \in Nat /\ produced[c] \in Nat
      /\ \A d \in Requests \ {c} : text'[d] = text[d]
    BY <1>1 DEF StreamInv, StreamTypeOK
<1> DEFINE q == queue[c]
           r == queue'[c]
<1>3. /\ Len(q) \in Nat /\ Len(r) \in Nat /\ 1 \in 1..Len(q) /\ q[1] = "content"
      /\ Len(q) = Len(r) + 1
      /\ \A i \in 1..Len(r) : i + 1 \in 1..Len(q) /\ r[i] = q[i + 1]
      /\ \A d \in Requests \ {c} : queue'[d] = queue[d]
      /\ queue' \in [Requests -> Seq(Chunks)]
    BY <1>1, Taken
<1>4. StreamTypeOK'
  <2>1. text' \in [Requests -> Nat]
      BY <1>1, <1>2 DEF StreamInv, StreamTypeOK
  <2> QED
      BY <1>1, <1>3, <2>1 DEF StreamInv, StreamTypeOK
<1>5. PipeInv'
  <2>1. task[c] # "none"
      BY <1>3 DEF StreamInv, PipeInv, NullsLast
  <2>2. task[c] \in Silent => \A i \in 1..Len(r) : r[i] = "content"
      BY <1>3 DEF StreamInv, PipeInv, NullsLast
  <2>3. ASSUME NEW d \in Requests \ {c} PROVE PipeInv!(d)'
      BY <1>1, <1>3 DEF StreamInv, PipeInv, NullsLast, vars
  <2>4. NullsLast(c)'
      BY <1>1, NullsAfterTake
  <2>5. PipeInv!(c)'
      BY <1>1, <2>1, <2>2, <2>4 DEF StreamInv, PipeInv, NullsLast, vars
  <2> QED
      BY <2>3, <2>5 DEF PipeInv, NullsLast
<1>6. VerdictLast'
  <2>1. ASSUME NEW d \in Requests \ {c} PROVE VerdictLast!(d)'
      BY <1>1, <1>3 DEF StreamInv, VerdictLast, vars
  <2>2. ASSUME NEW i \in 1..Len(r), r[i] \in Verdicts
        PROVE  /\ \A j \in i + 1..Len(r) : r[j] = "null"
               /\ reader[c] = "reading" => pc[c] = "streaming"
    <3>1. i + 1 \in 1..Len(q) /\ q[i + 1] \in Verdicts
        BY <1>3, <2>2
    <3>2. /\ \A j \in i + 1 + 1..Len(q) : q[j] = "null"
          /\ reader[c] = "reading" => pc[c] = "streaming"
        BY <3>1 DEF StreamInv, VerdictLast
    <3>3. ASSUME NEW j \in i + 1..Len(r) PROVE r[j] = "null"
      <4>1. j \in 1..Len(r) /\ j + 1 \in i + 1 + 1..Len(q)
          BY <1>3
      <4> QED
          BY <1>3, <3>2, <4>1
    <3> QED
        BY <3>2, <3>3
  <2>3. VerdictLast!(c)'
      BY <1>1, <2>2 DEF vars
  <2> QED
      BY <2>1, <2>3 DEF VerdictLast
<1>7. TextInv'
  <2>1. ASSUME NEW d \in Requests \ {c} PROVE TextInv!(d)'
      BY <1>1, <1>2, <1>3 DEF StreamInv, TextInv, vars
  <2>2. task[c] \in Silent => text[c] + 1 + Len(r) = produced[c]
    <3>1. task[c] \in Silent => text[c] + Len(q) = produced[c]
        BY DEF StreamInv, TextInv
    <3>2. text[c] \in Nat /\ Len(r) \in Nat /\ Len(q) = Len(r) + 1
        BY <1>2, <1>3
    <3> QED
        BY <3>1, <3>2
  <2>3. ASSUME NEW i \in 1..Len(r), r[i] \in Verdicts
        PROVE  text[c] + 1 + i = produced[c] + 1
    <3>1. i + 1 \in 1..Len(q) /\ q[i + 1] \in Verdicts
        BY <1>3, <2>3
    <3>2. text[c] + (i + 1) = produced[c] + 1
        BY <3>1 DEF StreamInv, TextInv
    <3>3. text[c] \in Nat /\ i \in Int
        BY <1>2
    <3> QED
        BY <3>2, <3>3
  <2>4. ~(answer[c] \/ pc[c] \in {"settling", "saving"})
      BY <1>3 DEF StreamInv, TextInv
  <2>5. TextInv!(c)'
      BY <1>1, <1>2, <2>2, <2>3, <2>4 DEF vars
  <2> QED
      BY <2>1, <2>5 DEF TextInv
<1> QED
    BY <1>4, <1>5, <1>6, <1>7 DEF StreamInv

\* A verdict finds the request streaming and leaves nothing to settle twice.
LEMMA VerdictTaken ==
    ASSUME TypeOK, StreamInv, NEW c \in Requests, TakeVerdict(c)
    PROVE  StreamInv' /\ (SettleChat(c) \/ DraftDone(c) \/ StreamFails(c))
<1>1. PICK chunk \in Verdicts :
          /\ Take(c, chunk)
          /\ \/ chunk = "chat" /\ HandleChat(c)
             \/ chunk = "draft" /\ HandleDraft(c)
             \/ chunk = "error" /\ HandleError(c, damaged[c])
    BY DEF TakeVerdict, Verdicts
<1>2. /\ UNCHANGED <<text, reader, task, damaged, produced, answer>>
      /\ reader[c] = "reading"
    BY <1>1 DEF TakeVerdict, Take, AtGet, HandleChat, HandleDraft, HandleError, stream
<1> DEFINE q == queue[c]
           r == queue'[c]
<1>3. /\ Len(q) \in Nat /\ Len(r) \in Nat /\ 1 \in 1..Len(q) /\ q[1] = chunk
      /\ Len(q) = Len(r) + 1
      /\ \A i \in 1..Len(r) : i + 1 \in 1..Len(q) /\ r[i] = q[i + 1]
      /\ \A d \in Requests \ {c} : queue'[d] = queue[d]
      /\ queue' \in [Requests -> Seq(Chunks)]
    BY <1>1, Taken
<1>4. pc[c] = "streaming" /\ \A i \in 1..Len(r) : r[i] = "null"
  <2>1. 1 \in 1..Len(q) /\ q[1] \in Verdicts
      BY <1>1, <1>3
  <2>2. pc[c] = "streaming" /\ \A j \in 1 + 1..Len(q) : q[j] = "null"
      BY <1>2, <2>1 DEF StreamInv, VerdictLast
  <2>3. ASSUME NEW i \in 1..Len(r) PROVE i + 1 \in 1 + 1..Len(q)
      BY <1>3
  <2> QED
      BY <1>3, <2>2, <2>3
<1>5. task[c] # "none" /\ task[c] \notin Silent
  <2>1. 1 \in 1..Len(q) /\ q[1] # "content" /\ q # <<>>
      BY <1>1, <1>3 DEF Verdicts
  <2> QED
      BY <2>1 DEF StreamInv, PipeInv, NullsLast
<1>6. text[c] = produced[c]
  <2>1. text[c] + 1 = produced[c] + 1
      BY <1>1, <1>3, 1 \in 1..Len(q) DEF StreamInv, TextInv
  <2> QED
      BY <2>1 DEF StreamInv, StreamTypeOK
<1>7. PICK l \in {"settling", "saving", "refunding"} : pc' = [pc EXCEPT ![c] = l]
    BY <1>1 DEF HandleChat, HandleDraft, HandleError, Goto
<1>8. pc'[c] = l /\ \A d \in Requests \ {c} : pc'[d] = pc[d]
    BY <1>7 DEF TypeOK
<1>9. StreamTypeOK'
    BY <1>2, <1>3 DEF StreamInv, StreamTypeOK
<1>10. PipeInv'
  <2>1. ASSUME NEW d \in Requests \ {c} PROVE PipeInv!(d)'
      BY <1>2, <1>3, <1>8 DEF StreamInv, PipeInv, NullsLast
  <2>2. NullsLast(c)'
      BY <1>1, NullsAfterTake
  <2>3. PipeInv!(c)'
      BY <1>2, <1>5, <1>8, <2>2 DEF StreamInv, PipeInv, NullsLast, Before
  <2> QED
      BY <2>1, <2>3 DEF PipeInv, NullsLast
<1>11. VerdictLast'
  <2>1. ASSUME NEW d \in Requests \ {c} PROVE VerdictLast!(d)'
    <3>1. VerdictLast!(d)
        BY DEF StreamInv, VerdictLast
    <3> QED
        BY <1>2, <1>3, <1>8, <3>1
  <2>2. VerdictLast!(c)'
      BY <1>4 DEF Verdicts
  <2> QED
      BY <2>1, <2>2 DEF VerdictLast
<1>12. TextInv'
  <2>1. ASSUME NEW d \in Requests \ {c} PROVE TextInv!(d)'
    <3>1. TextInv!(d)
        BY DEF StreamInv, TextInv
    <3>2. queue'[d] = queue[d] /\ pc'[d] = pc[d]
        BY <1>3, <1>8
    <3> QED
        BY <1>2, <3>1, <3>2
  <2>2. TextInv!(c)'
      BY <1>2, <1>4, <1>5, <1>6 DEF Verdicts
  <2> QED
      BY <2>1, <2>2 DEF TextInv
<1>13. damaged[c] \in BOOLEAN /\ (damaged[c] => "history" \in Faults)
    BY DEF StreamInv, StreamTypeOK, PipeInv
<1> QED
    BY <1>1, <1>4, <1>9, <1>10, <1>11, <1>12, <1>13
       DEF StreamInv, SettleChat, DraftDone, StreamFails

\* The sentinel takes nothing from the invariant.
LEMMA SentinelTaken ==
    ASSUME TypeOK, StreamInv, NEW c \in Requests, TakeSentinel(c) \/ EndUnanswered(c)
    PROVE  StreamInv' /\ (Disconnect(c) \/ UNCHANGED vars)
<1>1. /\ Take(c, "null") /\ UNCHANGED <<text, task, damaged, produced, answer>>
      /\ reader' = [reader EXCEPT ![c] = "closed"]
      /\ pc[c] \in {"streaming", "done"} /\ pc' = [pc EXCEPT ![c] = "done"]
    BY DEF TakeSentinel, EndUnanswered, Take, Disconnect, Goto, money, vars, TypeOK
<1> DEFINE q == queue[c]
           r == queue'[c]
<1>2. /\ Len(q) \in Nat /\ Len(r) \in Nat /\ 1 \in 1..Len(q) /\ q[1] = "null"
      /\ Len(q) = Len(r) + 1
      /\ \A i \in 1..Len(r) : i + 1 \in 1..Len(q) /\ r[i] = q[i + 1]
      /\ \A d \in Requests \ {c} : queue'[d] = queue[d]
      /\ queue' \in [Requests -> Seq(Chunks)]
    BY <1>1, Taken
<1>3. /\ pc'[c] = "done" /\ reader'[c] = "closed"
      /\ \A d \in Requests \ {c} : pc'[d] = pc[d] /\ reader'[d] = reader[d]
    BY <1>1 DEF TypeOK, StreamInv, StreamTypeOK
<1>4. task[c] # "none" /\ task[c] \notin Silent
  <2>1. 1 \in 1..Len(q) /\ q[1] # "content" /\ q # <<>>
      BY <1>2
  <2> QED
      BY <2>1 DEF StreamInv, PipeInv, NullsLast
<1>5. r = <<>>
  <2>1. 1 = Len(q)
      BY <1>2 DEF StreamInv, PipeInv, NullsLast
  <2>2. Len(r) = 0
      BY <1>2, <2>1
  <2> QED
      BY <1>2, <2>2
<1>6. /\ text' = text /\ task' = task /\ produced' = produced
      /\ damaged' = damaged /\ answer' = answer
    BY <1>1
<1>7. StreamTypeOK'
    BY <1>1, <1>2 DEF StreamInv, StreamTypeOK
<1>8. PipeInv'
  <2>1. ASSUME NEW d \in Requests \ {c} PROVE PipeInv!(d)'
      BY <1>2, <1>3, <1>6 DEF StreamInv, PipeInv, NullsLast
  <2>2. PipeInv!(c)'
      BY <1>3, <1>4, <1>5, <1>6 DEF StreamInv, PipeInv, NullsLast, Before
  <2> QED
      BY <2>1, <2>2 DEF PipeInv, NullsLast
<1>9. VerdictLast'
  <2>1. ASSUME NEW d \in Requests \ {c} PROVE VerdictLast!(d)'
    <3>1. VerdictLast!(d)
        BY DEF StreamInv, VerdictLast
    <3> QED
        BY <1>2, <1>3, <1>6, <3>1
  <2>2. VerdictLast!(c)'
      BY <1>5
  <2> QED
      BY <2>1, <2>2 DEF VerdictLast
<1>10. TextInv'
  <2>1. ASSUME NEW d \in Requests \ {c} PROVE TextInv!(d)'
    <3>1. TextInv!(d)
        BY DEF StreamInv, TextInv
    <3> QED
        BY <1>2, <1>3, <1>6, <3>1
  <2>2. TextInv!(c)'
      BY <1>3, <1>4, <1>5, <1>6 DEF StreamInv, TextInv
  <2> QED
      BY <2>1, <2>2 DEF TextInv
<1> QED
    BY <1>7, <1>8, <1>9, <1>10 DEF StreamInv, TakeSentinel, EndUnanswered

\* The first iteration finds an empty queue and starts the pipeline.
LEMMA StreamStarts ==
    ASSUME TypeOK, StreamInv, NEW c \in Requests, StartStream(c)
    PROVE  StreamInv'
<1>1. /\ pc[c] = "charged" /\ pc' = [pc EXCEPT ![c] = "streaming"]
      /\ task' = [task EXCEPT ![c] = "classify"]
      /\ reader' = [reader EXCEPT ![c] = "reading"]
      /\ UNCHANGED <<damaged, queue, produced, text, answer>>
    BY DEF StartStream, SaveUserMessage, Goto, GoOn, stream
<1>2. task[c] = "none" /\ queue[c] = <<>>
    BY <1>1 DEF StreamInv, PipeInv, Before
<1>3. /\ pc'[c] = "streaming" /\ task'[c] = "classify" /\ reader'[c] = "reading"
      /\ \A d \in Requests \ {c} :
            pc'[d] = pc[d] /\ task'[d] = task[d] /\ reader'[d] = reader[d]
    BY <1>1 DEF TypeOK, StreamInv, StreamTypeOK
<1>4. StreamTypeOK'
    BY <1>1 DEF StreamInv, StreamTypeOK, Tasks, Silent
<1>5. PipeInv'
    BY <1>1, <1>2, <1>3 DEF StreamInv, PipeInv, NullsLast, Silent, Before
<1>6. VerdictLast'
    BY <1>1, <1>2, <1>3 DEF StreamInv, VerdictLast
<1>7. TextInv'
    BY <1>1, <1>2, <1>3 DEF StreamInv, TextInv, Silent
<1> QED
    BY <1>4, <1>5, <1>6, <1>7 DEF StreamInv

\* The statements of the request that take no chunk.
LEMMA RequestSteps ==
    ASSUME TypeOK, StreamInv, NEW c \in Requests, LeaveLoop(c) \/ OtherStep(c) \/ Hangup(c)
    PROVE  StreamInv'
<1> USE DEF Goto, Before, Pcs, stream
<1>1. reader[c] \in {"off", "reading", "closed", "cut"} /\ pc[c] \in Pcs
    BY DEF StreamInv, StreamTypeOK, TypeOK
<1>2. CASE LeaveLoop(c)
  <2>1. /\ pc[c] \in {"settling", "saving", "answered"}
        /\ pc' = [pc EXCEPT ![c] = "refunding"] /\ answer' = answer
        /\ reader' = [reader EXCEPT ![c] = "closed"] /\ UNCHANGED <<pipe, text>>
      BY <1>2 DEF LeaveLoop, SaveFails, RefreshFails
  <2> QED
      BY <2>1, ControlPoint
<1>3. CASE Hangup(c)
  <2>1. PICK r \in {"off", "closed", "cut"} : reader' = [reader EXCEPT ![c] = r]
    <3>1. reader' = [reader EXCEPT ![c] = IF reader[c] = "reading" THEN "cut" ELSE reader[c]]
        BY <1>3 DEF Hangup
    <3> QED
        BY <1>1, <3>1
  <2>2. /\ pc' = [pc EXCEPT ![c] = "done"] /\ answer' = answer
        /\ UNCHANGED <<pipe, text>>
      BY <1>3 DEF Hangup, Disconnect
  <2> QED
      BY <2>1, <2>2, ControlPoint
<1>4. CASE OtherStep(c)
  <2>1. UNCHANGED <<pipe, text>> /\ reader' = [reader EXCEPT ![c] = reader[c]]
      BY <1>4 DEF OtherStep, svars, pipe, StreamInv, StreamTypeOK
  <2>2. \E l \in Pcs :
            /\ pc' = [pc EXCEPT ![c] = l] /\ l \notin {"settling", "saving"}
            /\ l \in Before => pc[c] \in Before
            /\ pc[c] # "streaming"
            /\ answer'[c] => answer[c] \/ pc[c] \in {"settling", "saving"}
            /\ \A d \in Requests \ {c} : answer'[d] = answer[d]
    <3>1. CASE EnsureMonthly(c)
        BY <3>1 DEF EnsureMonthly
    <3>2. CASE EnsureMonthlyCommit(c)
        BY <3>2 DEF EnsureMonthlyCommit
    <3>3. CASE AdmissionFails(c) \/ LookupFails(c)
        BY <3>3 DEF AdmissionFails, LookupFails
    <3>4. CASE Debit(c)
        BY <3>4 DEF Debit
    <3>5. CASE DebitCommit(c)
        BY <3>5 DEF DebitCommit
    <3>6. CASE DebitRefused(c) \/ CloseRefused(c)
        BY <3>6 DEF DebitRefused, CloseRefused
    <3>7. CASE SaveUserMessageFails(c)
        BY <3>7 DEF SaveUserMessageFails
    <3>8. CASE SettleChatCommit(c)
        BY <3>8 DEF SettleChatCommit, TypeOK
    <3>9. CASE SaveDraft(c)
        BY <3>9 DEF SaveDraft, TypeOK
    <3>10. CASE Finish(c)
        BY <3>10 DEF Finish
    <3>11. CASE Refund(c) \/ RefundCommit(c) \/ RefundFails(c)
        BY <3>11 DEF Refund, RefundCommit, RefundFails
    <3> QED
        BY <1>4, <3>1, <3>2, <3>3, <3>4, <3>5, <3>6, <3>7, <3>8, <3>9, <3>10, <3>11
           DEF OtherStep
  <2> QED
      BY <1>1, <2>1, <2>2, ControlPoint
<1> QED
    BY <1>2, <1>3, <1>4

----------------------------------------------------------------------------
\* Every step of the stream keeps the invariant, and is a step of ChatBilling.
LEMMA NextStreamInv ==
    IInv /\ StreamInv /\ [StreamNext]_streamVars => StreamInv' /\ [Next]_vars
<1> SUFFICES ASSUME IInv, StreamInv, [StreamNext]_streamVars
             PROVE  StreamInv' /\ [Next]_vars
    OBVIOUS
<1> TypeOK
    BY DEF IInv
<1>1. ASSUME UNCHANGED svars, UNCHANGED pc, UNCHANGED answer PROVE StreamInv'
    BY <1>1 DEF svars, StreamInv, StreamTypeOK, PipeInv, NullsLast, VerdictLast, TextInv
<1>2. ASSUME NEW c \in Requests, Pipeline(c) \/ CancelTask(c)
      PROVE  StreamInv' /\ [Next]_vars
    BY <1>2, PipelineSteps
<1>3. ASSUME NEW c \in Requests, Loop(c) \/ Hangup(c)
      PROVE  StreamInv' /\ [Next]_vars
  <2>1. CASE StartStream(c)
    <3>1. Step(c)
        BY <2>1 DEF StartStream, Step
    <3> QED
        BY <2>1, <3>1, StreamStarts DEF Next
  <2>2. CASE Ping(c)
      BY <1>1, <2>2 DEF Ping, streamVars, vars
  <2>3. CASE TakeContent(c)
      BY <2>3, ContentTaken DEF TakeContent
  <2>4. CASE TakeVerdict(c)
    <3>1. Step(c)
        BY <2>4, VerdictTaken DEF Step
    <3> QED
        BY <2>4, <3>1, VerdictTaken DEF Next
  <2>5. CASE TakeSentinel(c) \/ EndUnanswered(c)
      BY <2>5, SentinelTaken DEF Next
  <2>6. CASE LeaveLoop(c) \/ OtherStep(c) \/ Hangup(c)
    <3>1. Step(c) \/ Disconnect(c)
        BY <2>6 DEF LeaveLoop, OtherStep, Hangup, Step
    <3> QED
        BY <2>6, <3>1, RequestSteps DEF Next
  <2> QED
      BY <1>3, <2>1, <2>2, <2>3, <2>4, <2>5, <2>6 DEF Loop
<1>4. CASE StreamPeriod
    BY <1>1, <1>4 DEF StreamPeriod, NewPeriod, Next, stream
<1>5. CASE StreamIdle \/ UNCHANGED streamVars
    BY <1>1, <1>5 DEF StreamIdle, Idle, streamVars, vars
<1> QED
    BY <1>2, <1>3, <1>4, <1>5 DEF StreamNext

\* Every reachable state of the stream satisfies both inductive invariants.
THEOREM StreamInvariance == StreamSpec => [](IInv /\ StreamInv)
<1>1. StreamInit => IInv /\ StreamInv
    BY InitIInv, InitStreamInv DEF StreamInit
<1>2. IInv /\ StreamInv /\ [StreamNext]_streamVars => (IInv /\ StreamInv)'
    BY NextIInv, NextStreamInv
<1> QED
    BY <1>1, <1>2, PTL DEF StreamSpec

\* The queue holds chunks and the coroutines keep to their stages, for any
\* number of streams and chunks (_run and send_chat_stream).
THEOREM StreamTypeCorrect == StreamSpec => []StreamTypeOK
<1>1. StreamInv => StreamTypeOK
    BY DEF StreamInv
<1> QED
    BY <1>1, StreamInvariance, PTL

\* No stream puts a second verdict, or anything but the sentinel after the
\* first: send_chat_stream settles or refunds a request once (chats/service.py:169).
THEOREM OneVerdict == StreamSpec => []VerdictLast
<1>1. StreamInv => VerdictLast
    BY DEF StreamInv
<1> QED
    BY <1>1, StreamInvariance, PTL

\* A stored answer is the whole text the pipeline has put, for any number of
\* chunks (chats/service.py:187).
THEOREM WholeAnswer == StreamSpec => []AnswerComplete
<1>1. StreamInv => AnswerComplete
    BY DEF StreamInv, TextInv, AnswerComplete
<1> QED
    BY <1>1, StreamInvariance, PTL

\* The streams implement ChatBilling: queue and pipeline only resolve how a
\* stream ends, which ChatBilling leaves open (generate_ai_response_stream).
THEOREM StreamRefinement == StreamSpec => ImplementsBilling
<1>1. StreamInit => Init
    BY DEF StreamInit
<1>2. IInv /\ StreamInv /\ [StreamNext]_streamVars => [Next]_vars
    BY NextStreamInv
<1> QED
    BY <1>1, <1>2, StreamInvariance, PTL DEF StreamSpec, ImplementsBilling, Spec

\* What holds of ChatBilling holds of the streams: no balance goes below zero
\* and the ledger agrees, whatever the pipeline does (debit, credit).
THEOREM StreamMoney == StreamSpec => [](NeverOverdrawn /\ LedgerAgrees)
<1>1. ImplementsBilling => [](NeverOverdrawn /\ LedgerAgrees)
    BY NoOverdraft, LedgerAgreement, PTL DEF ImplementsBilling
<1> QED
    BY <1>1, StreamRefinement, PTL

\* Tokens are conserved with the streams too: chunks and queues move none, for
\* any finite number of requests (generate_ai_response_stream, debit, credit).
THEOREM StreamTokens ==
    ASSUME IsFiniteSet(Requests) PROVE StreamSpec => TokensConserved
<1>1. ImplementsBilling => TokensConserved
    BY TokensAreConserved DEF ImplementsBilling
<1> QED
    BY <1>1, StreamRefinement, PTL
=============================================================================
