----------------------------- MODULE ChatStream -----------------------------
(***************************************************************************)
(* The stream between the AI pipeline and the request that bills it:       *)
(* generate_ai_response_stream (src/chats/llm_service.py) runs the         *)
(* pipeline as a task of its own and passes its chunks through a queue to  *)
(* the loop of send_chat_stream (src/chats/service.py).                    *)
(*                                                                         *)
(* The module refines ChatBilling.  What ends the stream is a choice there *)
(* and a chunk of the queue here, and the loop here handles whatever chunk *)
(* it takes: that a request is settled or refunded once is a property of   *)
(* what the pipeline puts.                                                 *)
(***************************************************************************)
EXTENDS ChatBilling, Sequences

CONSTANT MaxChunks   \* bound on the content chunks of an answer

ASSUME StreamAssumption == MaxChunks \in Nat

VARIABLES
    task,      \* task[c]: where the pipeline of c is
    damaged,   \* its read of the chat history broke the session
    queue,     \* chunks the loop has not taken
    produced,  \* content chunks put so far
    text,      \* content chunks in full_content
    reader     \* the loop of send_chat_stream: off, reading, closed, cut

pipe == <<task, damaged, queue, produced>>
svars == <<task, damaged, queue, produced, text, reader>>
streamVars == <<vars, svars>>

Verdicts == {"chat", "draft", "error"}
Chunks == Verdicts \cup {"content", "null"}
\* Pipeline stages in which nothing but content has been put.
Silent == {"none", "classify", "history", "answer", "generate", "draft", "failed"}
Tasks == Silent \cup {"closing", "ended"}

StreamInit ==
    /\ Init
    /\ task = [c \in Requests |-> "none"]
    /\ damaged = [c \in Requests |-> FALSE]
    /\ queue = [c \in Requests |-> <<>>]
    /\ produced = [c \in Requests |-> 0]
    /\ text = [c \in Requests |-> 0]
    /\ reader = [c \in Requests |-> "off"]

----------------------------------------------------------------------------
(* _run: the pipeline task.  Nobody cancels it when the loop goes away.    *)

GoOn(c, l) == task' = [task EXCEPT ![c] = l]
Put(c, chunk) == queue' = [queue EXCEPT ![c] = Append(@, chunk)]

\* classify_request beside the experiences, then a conversation or a draft;
\* aget_messages with the session of the request; generate_draft_text.
Advance(c) ==
    /\ \/ task[c] = "classify" /\ \E l \in {"history", "generate"} : GoOn(c, l)
       \/ task[c] = "history" /\ GoOn(c, "answer")
       \/ task[c] = "generate" /\ GoOn(c, "draft")
    /\ UNCHANGED <<vars, damaged, queue, produced, text, reader>>

PutContent(c) ==
    /\ task[c] \in {"answer", "draft"}
    /\ produced[c] < MaxChunks
    /\ Put(c, "content")
    /\ produced' = [produced EXCEPT ![c] = @ + 1]
    /\ UNCHANGED <<vars, task, damaged, text, reader>>

\* Mutant of AfterVerdict: the pipeline goes on after its "done" chunk.
GoesOn(c) == GoOn(c, task[c])

AfterVerdict(c) == GoOn(c, "closing")

\* The "done" chunk: a conversation may answer with a cover letter as well.
PutDone(c) ==
    /\ task[c] \in {"answer", "draft"}
    /\ \E kind \in {"chat", "draft"} :
          /\ task[c] = "draft" => kind = "draft"
          /\ Put(c, kind)
    /\ AfterVerdict(c)
    /\ UNCHANGED <<vars, damaged, produced, text, reader>>

\* A model provider or the session raises.  The history is read twice, the
\* second time by RunnableWithMessageHistory before the first chunk.
Raise(c) ==
    /\ task[c] \in {"classify", "history", "answer", "generate"}
    /\ GoOn(c, "failed")
    /\ \E breaks \in BOOLEAN :
          /\ breaks => /\ "history" \in Faults /\ produced[c] = 0
                       /\ task[c] \in {"history", "answer"}
          /\ damaged' = [damaged EXCEPT ![c] = breaks]
    /\ UNCHANGED <<vars, queue, produced, text, reader>>

\* Mutant of OnError: a failure is only logged.
OnlyLogs(c) == UNCHANGED queue

OnError(c) == Put(c, "error")

PutError(c) ==
    /\ task[c] = "failed"
    /\ OnError(c)
    /\ GoOn(c, "closing")
    /\ UNCHANGED <<vars, damaged, produced, text, reader>>

\* The task is cancelled or collected, which `except Exception` does not catch.
CancelTask(c) ==
    /\ "disconnect" \in Faults
    /\ task[c] \in Silent \ {"none", "failed"}
    /\ GoOn(c, "closing")
    /\ UNCHANGED <<vars, damaged, queue, produced, text, reader>>

\* Mutant of Finally: the sentinel follows a verdict only.
AfterPut(c) == \E i \in DOMAIN queue[c] : queue[c][i] \in Verdicts

Finally(c) == TRUE

\* finally: queue.put(None)
PutSentinel(c) ==
    /\ task[c] = "closing"
    /\ Finally(c)
    /\ Put(c, "null")
    /\ GoOn(c, "ended")
    /\ UNCHANGED <<vars, damaged, produced, text, reader>>

Pipeline(c) ==
    \/ Advance(c)  \/ PutContent(c) \/ PutDone(c)
    \/ Raise(c)    \/ PutError(c)   \/ PutSentinel(c)

----------------------------------------------------------------------------
(* The loop of send_chat_stream.                                           *)

\* create_user_chat, then the first iteration creates the task.
StartStream(c) ==
    /\ SaveUserMessage(c)
    /\ GoOn(c, "classify")
    /\ reader' = [reader EXCEPT ![c] = "reading"]
    /\ UNCHANGED <<damaged, queue, produced, text>>

\* The coroutine waits in queue.get(): before a verdict, or after the handling
\* of one.
AtGet(c) == reader[c] = "reading" /\ pc[c] \in {"streaming", "done"}

\* Five seconds without a chunk: a ping, and the loop waits again.
Ping(c) == AtGet(c) /\ queue[c] = <<>> /\ UNCHANGED streamVars

Take(c, chunk) ==
    /\ AtGet(c) /\ queue[c] # <<>> /\ Head(queue[c]) = chunk
    /\ queue' = [queue EXCEPT ![c] = Tail(@)]
    /\ UNCHANGED <<task, damaged, produced>>

TakeContent(c) ==
    /\ Take(c, "content")
    /\ text' = [text EXCEPT ![c] = @ + 1]
    /\ UNCHANGED <<vars, reader>>

TakeVerdict(c) ==
    /\ \/ Take(c, "chat") /\ HandleChat(c)
       \/ Take(c, "draft") /\ HandleDraft(c)
       \/ Take(c, "error") /\ HandleError(c, damaged[c])
    /\ UNCHANGED <<text, reader>>

\* The sentinel after a verdict has been handled: the response ends.
TakeSentinel(c) ==
    /\ Take(c, "null")
    /\ pc[c] = "done"
    /\ reader' = [reader EXCEPT ![c] = "closed"]
    /\ UNCHANGED <<vars, text>>

\* The sentinel of a cancelled task: the loop ends without a verdict, and no
\* branch of send_chat_stream settles or refunds the reservation.
EndUnanswered(c) ==
    /\ Take(c, "null")
    /\ pc[c] = "streaming"
    /\ Disconnect(c)
    /\ reader' = [reader EXCEPT ![c] = "closed"]
    /\ UNCHANGED text

\* An exception of the handling leaves the loop for the except block.
LeaveLoop(c) ==
    /\ SaveFails(c) \/ RefreshFails(c)
    /\ reader' = [reader EXCEPT ![c] = "closed"]
    /\ UNCHANGED <<pipe, text>>

\* The statements of the request before, between and after its chunks.
OtherStep(c) ==
    /\ \/ EnsureMonthly(c) \/ EnsureMonthlyCommit(c)
       \/ AdmissionFails(c) \/ LookupFails(c)
       \/ Debit(c) \/ DebitCommit(c) \/ DebitRefused(c) \/ CloseRefused(c)
       \/ SaveUserMessageFails(c)
       \/ SettleChatCommit(c) \/ SaveDraft(c) \/ Finish(c)
       \/ Refund(c) \/ RefundCommit(c) \/ RefundFails(c)
    /\ UNCHANGED svars

\* The request is cancelled: it reads no more, and the task goes on.
Hangup(c) ==
    /\ Disconnect(c)
    /\ reader' = [reader EXCEPT ![c] = IF @ = "reading" THEN "cut" ELSE @]
    /\ UNCHANGED <<pipe, text>>

Loop(c) ==
    \/ StartStream(c) \/ Ping(c) \/ TakeContent(c) \/ TakeVerdict(c)
    \/ TakeSentinel(c) \/ EndUnanswered(c) \/ LeaveLoop(c) \/ OtherStep(c)

----------------------------------------------------------------------------
StreamPeriod == (\E u \in Users : NewPeriod(u)) /\ UNCHANGED svars

\* Every request has ended; its task may go on.
StreamIdle ==
    /\ Idle /\ \A c \in Requests : reader[c] # "reading"
    /\ UNCHANGED svars

StreamNext ==
    \/ \E c \in Requests : Pipeline(c) \/ CancelTask(c) \/ Loop(c) \/ Hangup(c)
    \/ StreamPeriod
    \/ StreamIdle

StreamSpec == StreamInit /\ [][StreamNext]_streamVars

\* The event loop runs every task and coroutine, and the providers answer.
StreamFairSpec ==
    /\ StreamSpec
    /\ \A c \in Requests : WF_streamVars(Loop(c)) /\ WF_streamVars(Pipeline(c))
----------------------------------------------------------------------------
(* Properties                                                              *)

\* One type invariant for the queue and the two coroutines.
StreamTypeOK ==
    /\ task \in [Requests -> Tasks] /\ damaged \in [Requests -> BOOLEAN]
    /\ queue \in [Requests -> Seq(Chunks)]
    /\ produced \in [Requests -> 0..MaxChunks]
    /\ text \in [Requests -> Nat]
    /\ reader \in [Requests -> {"off", "reading", "closed", "cut"}]

\* A stream carries one verdict at most, and nothing but the sentinel follows
\* it: the loop, which would bill a second verdict again, never finds one after
\* it has handled the first (_run, llm_service.py:257; chats/service.py:169).
VerdictLast ==
    \A c \in Requests : \A i \in 1..Len(queue[c]) :
        queue[c][i] \in Verdicts =>
            /\ \A j \in i + 1..Len(queue[c]) : queue[c][j] = "null"
            /\ reader[c] = "reading" => pc[c] = "streaming"

\* The message stored for an answer is the whole text of the pipeline: no
\* chunk is overtaken by the "done" chunk, or put after it (chats/service.py:187).
AnswerComplete == \A c \in Requests : answer[c] => text[c] = produced[c]

\* Pipeline, queue and loop together do what ChatBilling allows the stream.
ImplementsBilling == Spec

\* Every response and every task comes to its end, whichever task or commit
\* fails, and no transaction waits for a row lock forever.
EveryStreamEnds ==
    \A c \in Requests :
        /\ <>(pc[c] = "done")
        /\ (reader[c] = "reading") ~> (reader[c] # "reading")
        /\ (task[c] # "none") ~> (task[c] = "ended")

\* A failure of the pipeline is refunded, unless the client hung up or the
\* session was broken by then (chats/service.py:205).
FailureIsRefunded ==
    \A c \in Requests :
        (task[c] = "failed") ~> (net[c] = 0 \/ reader[c] = "cut" \/ broken[c])
=============================================================================
