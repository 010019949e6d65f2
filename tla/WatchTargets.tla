---------------------------- MODULE WatchTargets -----------------------------
(***************************************************************************)
(* The read half of the Firestore client: getDocuments, which listens to a *)
(* query until its first answer, the targets of RemoteStore, the watch     *)
(* stream and OnlineStateTracker, which decides when a read is answered    *)
(* from the cache.  All of it runs on one worker queue: an action is one   *)
(* operation on that queue.  The backend and gRPC are external.            *)
(***************************************************************************)
EXTENDS Stream, Naturals, Sequences, SequencesExt

CONSTANTS
    Targets,     \* the queries of the app
    MaxReads     \* reads ever made (a bound)

ASSUME ReadsAssumption == MaxReads \in Nat /\ IsFiniteSet(Targets)

VARIABLES
    reads,        \* what became of each getDocuments
    listening,    \* listen_targets_: the read that listens to the query
    watch,        \* the stream
    outstanding,  \* outstanding_responses_ of the target states
    tracker,      \* OnlineStateTracker
    listen        \* its gRPC call, and what the backend makes of it

watchVars == <<reads, listening, watch, outstanding, tracker, listen>>

Reads == 1..MaxReads
ReadResults == {"none", "waits", "cache", "server", "lost"}
Listeners == Reads \cup {0}

(* failed: watch_stream_failures_ has reached kMaxWatchStreamFailures,     *)
(* which is 1.  timer: online_state_timer_ is set.                         *)
Trackers == [state : {"Unknown", "Online", "Offline"}, failed : BOOLEAN,
             timer : BOOLEAN, sound : BOOLEAN]
NewTracker == [state |-> "Unknown", failed |-> FALSE, timer |-> FALSE,
               sound |-> TRUE]

(* wire: requests the backend has not seen; serving: the reads it has to   *)
(* send results for; answers: what the client has not seen; ended: the     *)
(* call has ended, with an error or ok.  A message carries the read it is  *)
(* about.                                                                  *)
Requests == [kind : {"watch", "unwatch"}, target : Targets, read : Reads]
Answers == [kind : {"added", "removed", "current"}, target : Targets,
            read : Reads]
NoListen == [wire |-> <<>>, serving |-> [t \in Targets |-> 0],
             answers |-> <<>>, ended |-> FALSE, ok |-> FALSE]
Listens == [wire : Seq(Requests), serving : [Targets -> Listeners],
            answers : Seq(Answers), ended : BOOLEAN, ok : BOOLEAN]

Message(kind, t, r) == [kind |-> kind, target |-> t, read |-> r]
NoneOutstanding == [t \in Targets |-> 0]

WatchInit ==
    /\ reads = [r \in Reads |-> "none"]
    /\ listening = [t \in Targets |-> 0]
    /\ watch = NewStream
    /\ outstanding = NoneOutstanding
    /\ tracker = NewTracker
    /\ listen = NoListen

-----------------------------------------------------------------------------
(* The tracker after UpdateState, HandleWatchStreamStart and               *)
(* HandleWatchStreamFailure.                                               *)
UpdateState(new) ==
    [tracker EXCEPT !.state = new, !.timer = FALSE, !.failed = FALSE]

HandleWatchStreamStart(o) ==
    IF o.failed THEN o
    ELSE [o EXCEPT !.state = "Unknown", !.timer = TRUE,
                   !.sound = @ /\ ~o.timer]

(* Mutant: the timer of the failed attempt goes on.                       *)
MutTimerKept(o) ==
    IF o.state = "Online"
    THEN [o EXCEPT !.state = "Unknown", !.sound = @ /\ ~o.failed /\ ~o.timer]
    ELSE [o EXCEPT !.state = "Offline", !.failed = TRUE]

HandleWatchStreamFailure(o) ==
    IF o.state = "Online"
    THEN [o EXCEPT !.state = "Unknown", !.sound = @ /\ ~o.failed /\ ~o.timer]
    ELSE [o EXCEPT !.state = "Offline", !.timer = FALSE, !.failed = TRUE]

(* When the client goes offline, whoever waits is answered from the cache. *)
AnsweredOffline(o) ==
    [r \in Reads |-> IF reads[r] = "waits" /\ o.state = "Offline"
                     THEN "cache" ELSE reads[r]]

BecomesOnline(o) == tracker' = o /\ reads' = AnsweredOffline(o)

Listened == {t \in Targets : listening[t] # 0}
Needed == Listened # {}

-----------------------------------------------------------------------------
(* Mutant: the answer is not waited for.                                  *)
MutNotCounted(t) == outstanding[t]

(* SendWatchRequest and SendUnwatchRequest: one more answer is due.        *)
MoreOutstanding(t) == outstanding[t] + 1

(* A read listens to its query.  It is answered from the cache at once if  *)
(* the client is offline; in any case the backend is asked.                *)
getDocuments(t) ==
    /\ listening[t] = 0
    /\ \E r \in Reads :
          /\ reads[r] = "none" /\ \A s \in 1..(r - 1) : reads[s] # "none"
          /\ reads' = [reads EXCEPT ![r] = IF tracker.state = "Offline"
                                           THEN "cache" ELSE "waits"]
          /\ listening' = [listening EXCEPT ![t] = r]
          /\ IF ~IsStarted(watch)
             THEN /\ watch' = Start(watch)
                  /\ outstanding' = NoneOutstanding
                  /\ tracker' = HandleWatchStreamStart(tracker)
                  /\ UNCHANGED listen
             ELSE IF IsOpen(watch)
             THEN /\ watch' = Written(watch)
                  /\ outstanding' = [outstanding EXCEPT ![t] = MoreOutstanding(t)]
                  /\ listen' = [listen EXCEPT !.wire =
                                  Append(@, Message("watch", t, r))]
                  /\ UNCHANGED tracker
             ELSE UNCHANGED <<watch, outstanding, tracker, listen>>

(* The first answer removes the listener.  Without targets an open stream  *)
(* is idle, and nobody can tell any more whether the client is online.     *)
StopListening(t) ==
    /\ listening[t] # 0 /\ reads[listening[t]] \in {"cache", "server"}
    /\ listening' = [listening EXCEPT ![t] = 0]
    /\ LET last == Listened = {t}
           unwatch == Message("unwatch", t, listening[t])
       IN  IF IsOpen(watch)
           THEN /\ watch' = IF last THEN MarkIdle(Written(watch))
                            ELSE Written(watch)
                /\ outstanding' = [outstanding EXCEPT ![t] = MoreOutstanding(t)]
                /\ listen' = [listen EXCEPT !.wire = Append(@, unwatch)]
                /\ UNCHANGED tracker
           ELSE /\ tracker' = IF last THEN UpdateState("Unknown") ELSE tracker
                /\ UNCHANGED <<watch, outstanding, listen>>
    /\ UNCHANGED reads

-----------------------------------------------------------------------------
(* Mutant: nobody starts the stream again.                                *)
MutNotRestarted(s) ==
    /\ watch' = Close(s, FALSE)
    /\ BecomesOnline(UpdateState("Unknown"))
    /\ outstanding' = NoneOutstanding /\ listen' = NoListen
    /\ UNCHANGED listening

(* The stream s has ended with an error.  It is started again if somebody  *)
(* listens.                                                                *)
OnWatchStreamClose(s) ==
    /\ IF Needed
       THEN /\ watch' = Start(Close(s, FALSE))
            /\ BecomesOnline(HandleWatchStreamStart(
                                 HandleWatchStreamFailure(tracker)))
       ELSE /\ watch' = Close(s, FALSE)
            /\ BecomesOnline(UpdateState("Unknown"))
    /\ outstanding' = NoneOutstanding
    /\ listen' = NoListen
    /\ UNCHANGED listening

(* The token arrives: the call is started, and every target asked for, in  *)
(* the order of a hash map.                                                *)
WatchTokenArrived(age, ok) ==
    /\ age \in watch.tokens
    /\ ok \/ "token" \in Faults
    /\ IF age = "old"
       THEN /\ watch' = ResumeStart(watch, age)
            /\ UNCHANGED <<reads, listening, outstanding, tracker, listen>>
       ELSE IF ok
       THEN \E order \in SetToSeqs(Listened) :
            /\ watch' = ResumeStart(watch, age)
            /\ outstanding' = [t \in Targets |->
                  IF t \in Listened THEN MoreOutstanding(t)
                  ELSE outstanding[t]]
            /\ listen' = [NoListen EXCEPT !.wire =
                  [i \in DOMAIN order |->
                     Message("watch", order[i], listening[order[i]])]]
            /\ UNCHANGED <<reads, listening, tracker>>
       ELSE OnWatchStreamClose([watch EXCEPT !.tokens = @ \ {age}])

WatchBackoffElapsed ==
    /\ watch.backoff
    /\ watch' = BackoffElapsed(watch)
    /\ UNCHANGED <<reads, listening, outstanding, tracker, listen>>

(* The stream is closed without an error, which OnWatchStreamClose takes   *)
(* for a stop that was asked for: the stream must not be needed.           *)
WatchStreamStopped ==
    /\ watch' = Checked(Stop(watch), ~Needed)
    /\ BecomesOnline(UpdateState("Unknown"))
    /\ outstanding' = NoneOutstanding
    /\ listen' = NoListen
    /\ UNCHANGED listening

(* The idleness timer stops the stream.                                    *)
WatchIdleTimeout == watch.idle /\ WatchStreamStopped

(* The backend has said nothing for kOnlineStateTimeout.                   *)
OnlineTimeout ==
    /\ tracker.timer
    /\ BecomesOnline([tracker EXCEPT !.timer = FALSE, !.state = "Offline",
                                     !.sound = @ /\ tracker.state = "Unknown"])
    /\ UNCHANGED <<listening, watch, outstanding, listen>>

(* Mutant: what is under way for an older listen is not told apart.       *)
MutActive(t) == listening[t] # 0

(* IsActiveTarget: no answer of an older listen is on its way.             *)
Active(t) == listening[t] # 0 /\ outstanding[t] = 0

(* A message of the backend proves that the client is online.  Added and   *)
(* removed answer a request; the results answer the read, if they belong   *)
(* to it.                                                                  *)
OnWatchStreamChange ==
    /\ listen.answers # <<>>
    /\ LET answer == Head(listen.answers)
           t == answer.target
           results == answer.kind = "current" /\ Active(t)
       IN  /\ watch' = Checked(watch, IsStarted(watch))
           /\ tracker' = UpdateState("Online")
           /\ outstanding' = [outstanding EXCEPT ![t] =
                                IF answer.kind = "current" THEN @ ELSE @ - 1]
           /\ reads' = [r \in Reads |->
                 IF results /\ r = listening[t] /\ reads[r] = "waits"
                 THEN "server" ELSE reads[r]]
    /\ listen' = [listen EXCEPT !.answers = Tail(@)]
    /\ UNCHANGED listening

(* The client learns that the call has ended: what came before has been    *)
(* read, or a message was still being written.                             *)
WatchEndSeen == /\ listen.ended
                /\ listen.answers = <<>> \/ listen.wire # <<>>

(* A backend that ends the call with OK stops the stream.                  *)
WatchCallEnded ==
    /\ WatchEndSeen
    /\ \/ ~listen.ok /\ OnWatchStreamClose(watch)
       \/ listen.ok /\ ~Needed /\ WatchStreamStopped

-----------------------------------------------------------------------------
(* RestartNetwork: the stream is stopped, and started without backoff if   *)
(* somebody listens.                                                       *)
RestartWatch ==
    /\ LET stopped == InhibitBackoff(Stop(watch))
           unknown == UpdateState("Unknown")
       IN  IF Needed
           THEN /\ watch' = Start(stopped)
                /\ BecomesOnline(HandleWatchStreamStart(unknown))
           ELSE watch' = stopped /\ BecomesOnline(unknown)
    /\ outstanding' = NoneOutstanding
    /\ listen' = NoListen
    /\ UNCHANGED listening

WatchKill ==
    /\ reads' = [r \in Reads |-> IF reads[r] = "waits" THEN "lost"
                                 ELSE reads[r]]
    /\ listening' = [t \in Targets |-> 0]
    /\ watch' = NewStream
    /\ outstanding' = NoneOutstanding
    /\ tracker' = NewTracker
    /\ listen' = NoListen

(* "Watch stream was stopped gracefully while still needed.": where        *)
(* WatchStreamStopped requires that nobody listens and the backend has     *)
(* ended the call with OK all the same, the process ends.                  *)
WatchStoppedWhileNeeded ==
    /\ WatchEndSeen
    /\ listen.ok /\ Needed
    /\ WatchKill

-----------------------------------------------------------------------------
(* The backend takes a request, sends the results of a query it serves, or *)
(* ends the call without an error; or the call breaks, with answers under  *)
(* way.                                                                    *)
BackendTakes ==
    /\ listen.wire # <<>> /\ ~listen.ended
    /\ LET request == Head(listen.wire)
           watched == request.kind = "watch"
       IN  listen' = [listen EXCEPT
              !.wire = Tail(@),
              !.serving[request.target] = IF watched THEN request.read ELSE 0,
              !.answers = Append(@, Message(IF watched THEN "added"
                                            ELSE "removed",
                                            request.target, request.read))]
    /\ UNCHANGED <<reads, listening, watch, outstanding, tracker>>

BackendSends(t) ==
    /\ listen.serving[t] # 0 /\ ~listen.ended
    /\ listen' = [listen EXCEPT
          !.serving[t] = 0,
          !.answers = Append(@, Message("current", t, listen.serving[t]))]
    /\ UNCHANGED <<reads, listening, watch, outstanding, tracker>>

ListenFinishes ==
    /\ "finish" \in Faults
    /\ IsOpen(watch) /\ ~listen.ended
    /\ listen' = [listen EXCEPT !.ended = TRUE, !.ok = TRUE]
    /\ UNCHANGED <<reads, listening, watch, outstanding, tracker>>

ListenBreaks ==
    /\ "break" \in Faults
    /\ IsOpen(watch) /\ ~listen.ended
    /\ \E n \in 0..Len(listen.answers) :
          listen' = [listen EXCEPT !.answers = SubSeq(@, 1, n),
                                   !.ended = TRUE]
    /\ UNCHANGED <<reads, listening, watch, outstanding, tracker>>

WatchClient ==
    \/ \E t \in Targets : StopListening(t)
    \/ \E age \in {"current", "old"} :
          WatchTokenArrived(age, TRUE) \/ WatchTokenArrived(age, FALSE)
    \/ WatchBackoffElapsed \/ WatchIdleTimeout \/ OnlineTimeout
    \/ OnWatchStreamChange \/ WatchCallEnded

WatchBackend ==
    \/ BackendTakes \/ ListenFinishes \/ ListenBreaks
    \/ \E t \in Targets : BackendSends(t)

(* What the client does by itself: it removes its listeners, its timers    *)
(* elapse, tokens arrive, and it reads what there is.                      *)
ClientFairness ==
    /\ \A t \in Targets : WF_watchVars(StopListening(t))
    /\ SF_watchVars(WatchTokenArrived("current", TRUE))
    /\ WF_watchVars(WatchBackoffElapsed) /\ WF_watchVars(OnlineTimeout)
    /\ WF_watchVars(OnWatchStreamChange)
    /\ WF_watchVars(WatchCallEnded) /\ WF_watchVars(WatchStoppedWhileNeeded)

ResultsOf(t) ==
    listen.answers # <<>> /\ Head(listen.answers).kind = "current"
                          /\ Head(listen.answers).target = t

(* And the network lets a request and its results through some day.        *)
NetworkFairness ==
    /\ SF_watchVars(BackendTakes)
    /\ \A t \in Targets : SF_watchVars(BackendSends(t))
    /\ \A t \in Targets : SF_watchVars(OnWatchStreamChange /\ ResultsOf(t))

-----------------------------------------------------------------------------
WatchTypes ==
    /\ reads \in [Reads -> ReadResults]
    /\ listening \in [Targets -> Listeners]
    /\ watch \in Streams
    /\ outstanding \in [Targets -> Nat]
    /\ tracker \in Trackers
    /\ listen \in Listens

(* Whatever the backend does, no HARD_ASSERT of the watch stream, of the   *)
(* read half of RemoteStore or of OnlineStateTracker fails but the one     *)
(* that WatchStoppedWhileNeeded is about: in particular the online timer   *)
(* is never started twice, and never fires when the state is known, and    *)
(* the idle timer never stops a stream somebody listens to.                *)
WatchSound == watch.sound /\ tracker.sound

(* Why it holds: a timer is set only in the state it is for, a token is    *)
(* due only for a stream that starts, the client counts itself online only *)
(* while nothing has failed, and a call belongs to an open stream.         *)
WatchInv ==
    /\ watch \in Streams /\ tracker \in Trackers
    /\ listening \in [Targets -> Listeners]
    /\ WatchSound
    /\ watch.state = "Starting" <=> "current" \in watch.tokens
    /\ watch.backoff <=> watch.state = "Backoff"
    /\ watch.idle => IsOpen(watch) /\ ~Needed
    /\ Needed => IsStarted(watch)
    /\ tracker.timer => /\ tracker.state = "Unknown" /\ ~tracker.failed
                        /\ IsStarted(watch)
    /\ tracker.state = "Online" => ~tracker.failed
    /\ IsOpen(watch) \/ listen = NoListen

(* A read that is answered by the backend is answered with the results of  *)
(* its own listen, and never with what an older read of the same query had *)
(* asked for, although both have the same target id.                       *)
AnswerIsOwn ==
    [][\A r \in Reads :
         reads[r] = "waits" /\ reads'[r] = "server"
            => Head(listen.answers).read = r]_watchVars

(* Why AnswerIsOwn holds.  A message that is not about results counts as   *)
(* outstanding until the client has read the answer, and what it has lost  *)
(* with a call goes on counting.                                           *)
Due(s, t) == {i \in DOMAIN s : s[i].target = t /\ s[i].kind # "current"}
DueBefore(s, t, i) == {j \in Due(s, t) : j < i}

DueCounted ==
    \A t \in Targets :
       outstanding[t] >= Cardinality(Due(listen.answers, t))
                           + Cardinality(Due(listen.wire, t))

(* The read r does not listen to the query t (any more), another one does. *)
Older(t, r) == listening[t] \notin {0, r}

(* Whatever belongs to an older read of a query has an answer behind it    *)
(* that is still due: the results under way, those the backend is to send, *)
(* and the request for them.                                               *)
OlderOutstanding ==
    /\ \A i \in DOMAIN listen.answers :
          LET m == listen.answers[i]
          IN  m.kind = "current" /\ Older(m.target, m.read)
                => outstanding[m.target]
                     > Cardinality(DueBefore(listen.answers, m.target, i))
    /\ \A t \in Targets :
          listen.serving[t] # 0 /\ Older(t, listen.serving[t])
                              /\ ~listen.ended
            => outstanding[t] > Cardinality(Due(listen.answers, t))
    /\ \A i \in DOMAIN listen.wire :
          LET m == listen.wire[i]
          IN  m.kind = "watch" /\ Older(m.target, m.read)
                => \E j \in Due(listen.wire, m.target) : j > i

ListenInv == WatchTypes /\ DueCounted /\ OlderOutstanding

Waiting == {r \in Reads : reads[r] = "waits"}

(* As long as a read waits, the client finds out whether it is online.     *)
OnlineStateDecided ==
    (Waiting # {} /\ tracker.state = "Unknown")
        ~> (Waiting = {} \/ tracker.state # "Unknown")

(* A read is answered, by the backend or from the cache, unless the        *)
(* process ends or the network is restarted again and again.               *)
ReadsAnswered ==
    <>[][~RestartWatch]_watchVars
        => \A r \in Reads : reads[r] = "waits" ~> reads[r] # "waits"
=============================================================================
