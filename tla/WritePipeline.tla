---------------------------- MODULE WritePipeline ----------------------------
(***************************************************************************)
(* The write half of the Firestore client: the mutation queue that each    *)
(* user has on disk, the write pipeline of RemoteStore, the write stream   *)
(* with its handshake, and the completions SyncEngine calls.  All of it    *)
(* runs on one worker queue: an action is one operation on that queue.     *)
(* The backend and gRPC are external.                                      *)
(***************************************************************************)
EXTENDS Stream, Naturals, Sequences, SequencesExt

CONSTANTS
    Users,       \* the users that ever sign in on this device
    Hello,       \* the handshake
    MaxPending,  \* kMaxPendingWrites
    MaxWrites    \* writes ever made (a bound)

ASSUME PipelineAssumption ==
    MaxPending \in Nat \ {0} /\ MaxWrites \in Nat /\ Hello \notin Nat

VARIABLES
    user,      \* current_user_
    queue,     \* the mutation queues of the users, on disk
    result,    \* what became of the completion of each write
    pipeline,  \* write_pipeline_
    write,     \* the stream
    handshake, \* handshake_complete_
    call,      \* its gRPC call, and what the backend makes of it
    landed,    \* the writes the backend has applied
    refused    \* the writes the backend has refused

deviceVars == <<user, queue, result, pipeline, write, handshake>>
backendVars == <<landed, refused>>
writeVars == <<deviceVars, call, backendVars>>

Batches == 1..MaxWrites
Results == {"none", "waits", "ok", "refused", "lost"}

(* wire: messages the backend has not seen; answers: its answers the       *)
(* client has not seen; status: how the call has ended.                    *)
Messages == Batches \cup {Hello}
NoCall == [wire |-> <<>>, answers |-> <<>>, status |-> "none"]
Calls == [wire : Seq(Messages), answers : Seq(Messages),
          status : {"none", "ok", "transient", "permanent"}]

Oldest(q, n) == SubSeq(q, 1, IF Len(q) < n THEN Len(q) ELSE n)

(* NextMutationBatchAfterBatchId, again and again: the rows of the queue   *)
(* with a higher key than the last batch of the pipeline.                  *)
Later(p, q) ==
    LET from == CHOOSE n \in 1..(Len(q) + 1) :
                  n..Len(q) = {i \in DOMAIN q : p = <<>> \/ q[i] > Last(p)}
    IN  SubSeq(q, from, Len(q))

(* Mutant: the pipeline is refilled from the front of the queue.          *)
MutFromFront(p, q) == p \o Oldest(q, MaxPending - Len(p))

(* Mutant: one batch too many is taken.                                   *)
MutOneTooMany(p, q) == p \o Oldest(Later(p, q), MaxPending + 1 - Len(p))

(* The batches of a queue that follow the pipeline fill it up.             *)
Filled(p, q) == p \o Oldest(Later(p, q), MaxPending - Len(p))

WriteInit ==
    /\ user \in Users
    /\ queue = [u \in Users |-> <<>>]
    /\ result = [b \in Batches |-> "none"]
    /\ pipeline = <<>> /\ write = NewStream /\ handshake = FALSE
    /\ call = NoCall
    /\ landed = {} /\ refused = {}

(* What FillWritePipeline sends of the queue q over the stream s, when the *)
(* pipeline is p: new batches go out at once if the handshake is over.     *)
Added(p, q) == SubSeq(Filled(p, q), Len(p) + 1, Len(Filled(p, q)))

(* Mutant: the handshake is not waited for.                               *)
MutSentTooEarly(s, shaken, p, q) == IF IsOpen(s) THEN Added(p, q) ELSE <<>>

SentAtOnce(s, shaken, p, q) ==
    IF IsOpen(s) /\ shaken THEN Added(p, q) ELSE <<>>

(* And what becomes of the stream: an empty pipeline makes it idle, and    *)
(* one that is not empty needs it.                                         *)
FillWritePipeline(s, shaken, p, q) ==
    IF Filled(p, q) = <<>> THEN MarkIdle(s)
    ELSE IF ~IsStarted(s) THEN Start(s)
    ELSE IF SentAtOnce(s, shaken, p, q) # <<>> THEN Written(s)
    ELSE s

-----------------------------------------------------------------------------
(* A write of the current user is queued, and sent if there is room.       *)
Unused == {b \in Batches : result[b] = "none"}

WriteMutations ==
    /\ Unused # {}
    /\ LET b == CHOOSE b \in Unused : \A c \in Unused : b <= c
       IN  /\ queue' = [queue EXCEPT ![user] = Append(@, b)]
           /\ result' = [result EXCEPT ![b] = "waits"]
    /\ pipeline' = Filled(pipeline, queue'[user])
    /\ write' = FillWritePipeline(write, handshake, pipeline, queue'[user])
    /\ call' = [call EXCEPT !.wire =
                  @ \o SentAtOnce(write, handshake, pipeline, queue'[user])]
    /\ UNCHANGED <<user, handshake, backendVars>>

Queued(b) == b \in Range(queue[user])

(* A batch leaves the queue of the user, and its completion, if the        *)
(* process still has it, is told.                                          *)
BatchDone(b, outcome) ==
    /\ queue' = [queue EXCEPT ![user] = RemoveFirst(@, b)]
    /\ result' = [result EXCEPT ![b] = IF @ = "waits" THEN outcome ELSE @]

(* Mutant: any permanent error is taken for an answer.                    *)
MutBlamed(status) == pipeline # <<>> /\ status = "permanent"

(* A permanent error after the handshake is taken for the answer to the    *)
(* first batch of the pipeline.                                            *)
Blamed(status) == handshake /\ pipeline # <<>> /\ status = "permanent"

(* The stream s has ended with an error.  If that was an answer, the next  *)
(* start does not back off.                                                *)
OnWriteStreamClose(s, status) ==
    LET closed == Close(s, FALSE)
        stopped == IF Blamed(status) THEN InhibitBackoff(closed) ELSE closed
    IN  /\ IF Blamed(status)
           THEN /\ BatchDone(Head(pipeline), "refused")
                /\ pipeline' = Filled(Tail(pipeline), queue'[user])
           ELSE UNCHANGED <<queue, result, pipeline>>
        /\ write' = Checked(IF pipeline' = <<>> THEN stopped
                            ELSE Start(stopped),
                            Blamed(status) => Queued(Head(pipeline)))
        /\ handshake' = FALSE
        /\ call' = NoCall

(* The token arrives: the call is started and the handshake written.       *)
WriteTokenArrived(age, ok) ==
    /\ age \in write.tokens
    /\ ok \/ "token" \in Faults
    /\ IF age = "old"
       THEN /\ write' = ResumeStart(write, age)
            /\ UNCHANGED <<queue, result, pipeline, handshake, call>>
       ELSE IF ok
       THEN /\ write' = Checked(Written(ResumeStart(write, age)), ~handshake)
            /\ call' = [NoCall EXCEPT !.wire = <<Hello>>]
            /\ UNCHANGED <<queue, result, pipeline, handshake>>
       ELSE OnWriteStreamClose([write EXCEPT !.tokens = @ \ {age}],
                               "transient")
    /\ UNCHANGED <<user, backendVars>>

WriteBackoffElapsed ==
    /\ write.backoff
    /\ write' = BackoffElapsed(write)
    /\ UNCHANGED <<user, queue, result, pipeline, handshake, call, backendVars>>

(* The stream is closed without an error, which OnWriteStreamClose takes   *)
(* for a stop that was asked for: the stream must not be needed.           *)
WriteStreamStopped ==
    /\ write' = Checked(Stop(write), pipeline = <<>>)
    /\ handshake' = FALSE /\ call' = NoCall
    /\ UNCHANGED <<user, queue, result, pipeline, backendVars>>

(* The idleness timer stops the stream.                                    *)
WriteIdleTimeout == write.idle /\ WriteStreamStopped

-----------------------------------------------------------------------------
(* The first answer ends the handshake, and the pipeline is sent.          *)
OnWriteStreamHandshakeComplete ==
    /\ call.answers # <<>> /\ ~handshake
    /\ handshake' = TRUE
    /\ write' = IF pipeline = <<>> THEN write ELSE Written(write)
    /\ call' = [call EXCEPT !.answers = Tail(@), !.wire = @ \o pipeline]
    /\ UNCHANGED <<user, queue, result, pipeline, backendVars>>

(* Any later one is the result of the first batch of the pipeline.         *)
OnWriteStreamMutationResult ==
    /\ call.answers # <<>> /\ handshake
    /\ LET first == Head(pipeline)
           left == Tail(pipeline)
       IN  /\ BatchDone(first, "ok")
           /\ pipeline' = Filled(left, queue'[user])
           /\ write' = Checked(FillWritePipeline(write, handshake, left,
                                                 queue'[user]),
                               IsStarted(write) /\ Queued(first))
           /\ call' = [call EXCEPT
                          !.answers = Tail(@),
                          !.wire = @ \o SentAtOnce(write, handshake, left,
                                                   queue'[user])]
    /\ UNCHANGED <<user, handshake, backendVars>>

(* The client learns that the call has ended.  What came before is read    *)
(* first, unless a message was still being written: its failure ends the   *)
(* stream at once, and the answers that have not been read are dropped.    *)
WriteEndSeen == /\ call.status # "none"
                /\ call.answers = <<>> \/ call.wire # <<>>

(* A backend that ends the call with OK stops the stream.                  *)
WriteCallEnded ==
    /\ WriteEndSeen
    /\ \/ /\ call.status # "ok"
          /\ OnWriteStreamClose(write, call.status)
          /\ UNCHANGED <<user, backendVars>>
       \/ /\ call.status = "ok" /\ pipeline = <<>>
          /\ WriteStreamStopped

-----------------------------------------------------------------------------
(* Mutant: the pipeline is not cleared.                                   *)
MutPipelineKept(u) ==
    /\ user' = u
    /\ pipeline' = Filled(pipeline, queue[u])
    /\ handshake' = FALSE
    /\ write' = FillWritePipeline(InhibitBackoff(Stop(write)), FALSE,
                                  pipeline, queue[u])
    /\ call' = NoCall
    /\ UNCHANGED <<queue, result, backendVars>>

(* RestartNetwork, for the user u: the stream is stopped, the pipeline is  *)
(* filled anew and the stream started without backoff.                     *)
RestartWrites(u) ==
    /\ user' = u
    /\ pipeline' = Filled(<<>>, queue[u])
    /\ handshake' = FALSE
    /\ write' = FillWritePipeline(InhibitBackoff(Stop(write)), FALSE, <<>>,
                                  queue[u])
    /\ call' = NoCall
    /\ UNCHANGED <<queue, result, backendVars>>

(* The process ends, and is started again: the queues are on disk, the     *)
(* completions are lost.                                                   *)
WriteKill ==
    /\ pipeline' = Filled(<<>>, queue[user])
    /\ handshake' = FALSE
    /\ write' = FillWritePipeline(NewStream, FALSE, <<>>, queue[user])
    /\ call' = NoCall
    /\ result' = [b \in Batches |-> IF result[b] = "waits" THEN "lost"
                                    ELSE result[b]]
    /\ UNCHANGED <<user, queue, backendVars>>

(* "Write stream was stopped gracefully while still needed.": where        *)
(* WriteStreamStopped requires an empty pipeline and the backend has ended *)
(* the call with OK all the same, the process ends.                        *)
WriteStoppedWhileNeeded ==
    /\ WriteEndSeen
    /\ call.status = "ok" /\ pipeline # <<>>
    /\ WriteKill

-----------------------------------------------------------------------------
(* The backend answers a message, or refuses it, which ends the call; it   *)
(* may end the call without an error; and the call may break at any        *)
(* moment, with the answers under way.                                     *)
BackendAnswers ==
    /\ call.wire # <<>> /\ call.status = "none"
    /\ landed' = landed \cup ({Head(call.wire)} \ {Hello})
    /\ call' = [call EXCEPT !.wire = Tail(@),
                            !.answers = Append(@, Head(call.wire))]
    /\ UNCHANGED <<deviceVars, refused>>

BackendRefuses ==
    /\ "refuse" \in Faults
    /\ call.wire # <<>> /\ call.status = "none"
    /\ refused' = refused \cup ({Head(call.wire)} \ {Hello})
    /\ call' = [call EXCEPT !.wire = Tail(@), !.status = "permanent"]
    /\ UNCHANGED <<deviceVars, landed>>

BackendFinishes ==
    /\ "finish" \in Faults
    /\ IsOpen(write) /\ call.status = "none"
    /\ call' = [call EXCEPT !.status = "ok"]
    /\ UNCHANGED <<deviceVars, backendVars>>

CallBreaks ==
    /\ "break" \in Faults
    /\ IsOpen(write) /\ call.status = "none"
    /\ \E n \in 0..Len(call.answers) :
          call' = [call EXCEPT !.answers = SubSeq(@, 1, n),
                               !.status = "transient"]
    /\ UNCHANGED <<deviceVars, backendVars>>

WriteClient ==
    \/ WriteMutations
    \/ \E age \in {"current", "old"} :
          WriteTokenArrived(age, TRUE) \/ WriteTokenArrived(age, FALSE)
    \/ WriteBackoffElapsed \/ WriteIdleTimeout
    \/ OnWriteStreamHandshakeComplete \/ OnWriteStreamMutationResult
    \/ WriteCallEnded

WriteBackend ==
    BackendAnswers \/ BackendRefuses \/ BackendFinishes \/ CallBreaks

-----------------------------------------------------------------------------
WriteTypes ==
    /\ user \in Users
    /\ queue \in [Users -> Seq(Batches)]
    /\ result \in [Batches -> Results]
    /\ pipeline \in Seq(Batches) /\ Len(pipeline) <= MaxPending
    /\ write \in Streams /\ handshake \in BOOLEAN
    /\ call \in Calls
    /\ landed \subseteq Batches /\ refused \subseteq Batches

(* Whatever the backend does, no HARD_ASSERT of the write stream, of the   *)
(* write half of RemoteStore or of the mutation queue fails but the one    *)
(* that WriteStoppedWhileNeeded is about: no timer fires for a stream that *)
(* is not waiting for it, no token for an old start is used, no message is *)
(* written to a stream that is closed, the idle timer never stops a        *)
(* stream with writes, and a result always finds its batch.                *)
WritesSound == write.sound

(* The pipeline holds the oldest writes of the current user, and as many   *)
(* as it can, through errors, restarts and changes of the user: the        *)
(* backend never gets another user's write, and none is left behind.  And  *)
(* as long as there is one, the stream is at work or on its way.           *)
PipelineIsFull ==
    /\ pipeline = Oldest(queue[user], MaxPending)
    /\ pipeline # <<>> => IsStarted(write)

(* RemoteStore takes a result for that of its first batch.  It is: every   *)
(* answer that may still be read is about the batch at its place, and      *)
(* what follows has been handed to the call in the order of the pipeline.  *)
AnswersFit ==
    handshake =>
        /\ IsPrefix(call.answers, pipeline)
        /\ call.status = "none" => pipeline = call.answers \o call.wire

(* No write leaves its queue unless the backend has applied or refused it, *)
(* whatever breaks, and nobody is told of a success that was none.  (A     *)
(* failure may be reported for a write that was applied: its answer may    *)
(* have been dropped when a later write was refused.)                      *)
NoneLost ==
    /\ \A b \in Batches : result[b] = "none" \/ b \in landed \cup refused
                          \/ \E u \in Users : b \in Range(queue[u])
    /\ \A b \in Batches : result[b] = "ok" => b \in landed

(* Why these hold.  The rows of a queue are in the order of their keys,    *)
(* and a write gets a higher key than any before it.                       *)
Increasing(q) == \A i, j \in DOMAIN q : i < j => q[i] < q[j]

KeysInOrder ==
    /\ \A u \in Users : Increasing(queue[u])
    /\ \A u \in Users : \A i \in DOMAIN queue[u] : result[queue[u][i]] # "none"
    /\ \E n \in 0..MaxWrites : \A b \in Batches : result[b] = "none" <=> b > n
    /\ \A b \in landed \cup refused : result[b] # "none"

(* A timer is set only in the state it is for, a token is due only for a   *)
(* stream that starts, the stream idles only after the handshake and       *)
(* without writes, and a call belongs to an open stream.                   *)
StreamInOrder ==
    /\ write.sound
    /\ write.state = "Starting" <=> "current" \in write.tokens
    /\ write.backoff <=> write.state = "Backoff"
    /\ write.idle => IsOpen(write) /\ handshake /\ pipeline = <<>>
    /\ IsOpen(write) \/ (call = NoCall /\ ~handshake)

(* Before the handshake is over nothing else is on the wire, and it has    *)
(* not been answered if it is, or if the backend has refused it.           *)
Shaking ==
    /\ call.wire \in {<<>>, <<Hello>>} /\ call.answers \in {<<>>, <<Hello>>}
    /\ call.wire = <<Hello>> \/ call.status = "permanent"
         => call.answers = <<>>

(* Afterwards the answers are those to the head of the pipeline, which the *)
(* backend has applied, and what it has refused is the batch after them.   *)
Shaken ==
    LET a == call.answers
    IN  /\ IsPrefix(a, pipeline)
        /\ call.status = "none" => pipeline = a \o call.wire
        /\ \A i \in DOMAIN a : a[i] \in landed
        /\ call.status = "permanent" =>
              Len(a) < Len(pipeline) /\ pipeline[Len(a) + 1] \in refused

WriteInv ==
    /\ WriteTypes /\ KeysInOrder /\ StreamInOrder
    /\ PipelineIsFull /\ NoneLost
    /\ IF handshake THEN Shaken ELSE Shaking

(* The client keeps the promise of WriteQueue: what the current call has   *)
(* brought to the backend are the batches whose answers are under way.     *)
WriteOrder == INSTANCE WriteQueue
    WITH sent <- IF handshake THEN Len(call.answers) ELSE 0

ImplementsQueue == WriteOrder!QueueSpec
=============================================================================
