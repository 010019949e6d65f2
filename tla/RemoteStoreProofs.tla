-------------------------- MODULE RemoteStoreProofs --------------------------
(***************************************************************************)
(* The read half of the Firestore client, for every set of queries and     *)
(* whatever breaks: no HARD_ASSERT ever fails, since WatchInv is           *)
(* inductive, and a read gets its own answer, since ListenInv is.          *)
(***************************************************************************)
EXTENDS RemoteStore, FiniteSetTheorems, TLAPS

(* The operators of Stream, for streams as WatchInv describes them.        *)
Regular(s) ==
    /\ s \in Streams /\ s.sound
    /\ s.state = "Starting" <=> "current" \in s.tokens
    /\ s.backoff <=> s.state = "Backoff"
    /\ s.idle => IsOpen(s)

(* Starting a stream that is not started leaves it regular and started.    *)
LEMMA StartRegular ==
    ASSUME NEW s, Regular(s), ~IsStarted(s)
    PROVE  Regular(Start(s)) /\ IsStarted(Start(s)) /\ ~IsOpen(Start(s))
                             /\ ~Start(s).idle
<1>0. s \in Streams /\ ~s.idle /\ s.state \in {"Initial", "Error"}
  BY DEF Regular, Streams, States, IsStarted, IsOpen
<1>1. CASE s.state = "Error"
  <2> DEFINE z == [s EXCEPT !.state = "Backoff", !.backoff = TRUE]
  <2>1. Start(s) = z
    BY <1>1 DEF Start
  <2>2. z \in Streams /\ z.state = "Backoff" /\ z.backoff /\ ~z.idle
        /\ z.tokens = s.tokens /\ z.sound = s.sound
    BY <1>0 DEF Streams, States
  <2> QED
    BY <1>1, <2>1, <2>2 DEF Regular, IsStarted, IsOpen
<1>2. CASE s.state = "Initial"
  <2> DEFINE z == [s EXCEPT !.state = "Starting",
                            !.tokens = s.tokens \cup {"current"}]
  <2>1. Start(s) = z
    BY <1>0, <1>2 DEF Start, Streams, Checked, Regular
  <2>2. z \in Streams /\ z.state = "Starting" /\ "current" \in z.tokens
        /\ z.backoff = s.backoff /\ ~z.idle /\ z.sound = s.sound
    BY <1>0 DEF Streams, States
  <2> QED
    BY <1>2, <2>1, <2>2 DEF Regular, IsStarted, IsOpen
<1> QED
  BY <1>0, <1>1, <1>2

(* So does the end of the backoff.                                         *)
LEMMA BackoffRegular ==
    ASSUME NEW s, Regular(s), s.backoff
    PROVE  Regular(BackoffElapsed(s)) /\ IsStarted(BackoffElapsed(s))
           /\ ~IsOpen(BackoffElapsed(s)) /\ ~BackoffElapsed(s).idle
<1> DEFINE z == [s EXCEPT !.state = "Initial", !.backoff = FALSE]
<1>1. s \in Streams /\ ~s.idle /\ s.state = "Backoff"
  BY DEF Regular, IsOpen
<1>2. BackoffElapsed(s) = Start(z)
  BY <1>1 DEF BackoffElapsed, Checked, Streams, Regular
<1>3. z \in Streams /\ z.state = "Initial" /\ ~z.backoff /\ ~z.idle
      /\ z.tokens = s.tokens /\ z.sound = s.sound
  BY <1>1 DEF Streams, States
<1>4. Regular(z) /\ ~IsStarted(z)
  BY <1>1, <1>3 DEF Regular, IsStarted
<1> QED
  BY <1>2, <1>4, StartRegular

(* A token for the current start opens the stream, an old one is dropped.  *)
LEMMA ResumeRegular ==
    ASSUME NEW s, Regular(s), NEW age \in s.tokens
    PROVE  /\ Regular(ResumeStart(s, age))
           /\ IsStarted(s) => IsStarted(ResumeStart(s, age))
           /\ ResumeStart(s, age).idle = s.idle
           /\ age = "old" => ResumeStart(s, age).state = s.state
           /\ age # "old" => IsOpen(ResumeStart(s, age))
<1>0. s \in Streams /\ age \in {"current", "old"}
  BY DEF Regular, Streams
<1>1. CASE age = "old"
  <2> DEFINE z == [s EXCEPT !.tokens = s.tokens \ {"old"}]
  <2>1. ResumeStart(s, age) = z
    BY <1>1 DEF ResumeStart
  <2>2. z \in Streams /\ z.state = s.state /\ z.backoff = s.backoff
        /\ z.idle = s.idle /\ z.sound = s.sound
        /\ z.tokens = s.tokens \ {"old"}
    BY <1>0 DEF Streams
  <2> QED
    BY <1>1, <2>1, <2>2 DEF Regular, IsStarted, IsOpen
<1>2. CASE age = "current"
  <2> DEFINE z == [s EXCEPT !.state = "Open",
                            !.tokens = s.tokens \ {"current"}]
  <2>1. s.state = "Starting" /\ ~s.backoff
    BY <1>2 DEF Regular
  <2>2. ResumeStart(s, age) = z
    BY <1>0, <1>2, <2>1 DEF ResumeStart, Checked, Regular, Streams
  <2>3. z \in Streams /\ z.state = "Open" /\ z.backoff = s.backoff
        /\ z.idle = s.idle /\ z.sound = s.sound /\ "current" \notin z.tokens
    BY <1>0 DEF Streams, States
  <2> QED
    BY <1>2, <2>1, <2>2, <2>3 DEF Regular, IsStarted, IsOpen
<1> QED
  BY <1>0, <1>1, <1>2

(* Closing a stream that is started, with or without an error, and         *)
(* without the token that came, leaves it regular and not started.         *)
LEMMA CloseRegular ==
    ASSUME NEW s \in Streams, s.sound, IsStarted(s), NEW ok \in BOOLEAN
    PROVE  Regular(Close(s, ok)) /\ ~IsStarted(Close(s, ok))
                                 /\ ~Close(s, ok).idle
<1> DEFINE t == IF s.tokens = {} THEN {} ELSE {"old"}
           x == IF ok THEN "Initial" ELSE "Error"
           z == [s EXCEPT !.idle = FALSE, !.backoff = FALSE, !.tokens = t,
                          !.state = x]
<1>1. Close(s, ok) = z
  BY DEF Close, Checked, Streams
<1>2. t \in SUBSET {"current", "old"} /\ "current" \notin t
      /\ x \in {"Initial", "Error"}
  OBVIOUS
<1> HIDE DEF t, x
<1>3. z \in Streams /\ z.state = x /\ z.backoff = FALSE /\ z.idle = FALSE
      /\ z.sound = s.sound /\ z.tokens = t
  BY <1>2 DEF Streams, States
<1> QED
  BY <1>1, <1>2, <1>3 DEF Regular, IsStarted, IsOpen

(* Stopping does that too, whatever the state.                             *)
LEMMA StopRegular ==
    ASSUME NEW s, Regular(s)
    PROVE  Regular(Stop(s)) /\ ~IsStarted(Stop(s)) /\ ~Stop(s).idle
<1>1. CASE IsStarted(s)
  BY <1>1, CloseRegular DEF Stop, Regular
<1>2. CASE ~IsStarted(s)
  BY <1>2 DEF Stop, Regular, IsStarted, IsOpen
<1> QED
  BY <1>1, <1>2

(* And then nothing is left of an error.                                   *)
LEMMA InhibitRegular ==
    ASSUME NEW s, Regular(s), ~IsStarted(s)
    PROVE  Regular(InhibitBackoff(s)) /\ ~IsStarted(InhibitBackoff(s))
                                      /\ ~InhibitBackoff(s).idle
<1> DEFINE z == [s EXCEPT !.state = "Initial"]
<1>1. s \in Streams /\ ~s.idle /\ ~s.backoff /\ "current" \notin s.tokens
  BY DEF Regular, IsStarted, IsOpen
<1>2. InhibitBackoff(s) = z
  BY <1>1 DEF InhibitBackoff, Checked, Streams, Regular
<1>3. z \in Streams /\ z.state = "Initial" /\ z.backoff = s.backoff
      /\ z.idle = s.idle /\ z.sound = s.sound /\ z.tokens = s.tokens
  BY <1>1 DEF Streams, States
<1> QED
  BY <1>1, <1>2, <1>3 DEF Regular, IsStarted, IsOpen

(* A message over an open stream only stops the idleness timer, and        *)
(* MarkIdle sets it.                                                       *)
LEMMA OpenRegular ==
    ASSUME NEW s, Regular(s), IsOpen(s)
    PROVE  /\ Regular(Written(s)) /\ IsOpen(Written(s)) /\ ~Written(s).idle
           /\ Regular(MarkIdle(s)) /\ IsOpen(MarkIdle(s))
<1>1. s \in Streams /\ s.sound
  BY DEF Regular
<1>2. Written(s) = [s EXCEPT !.idle = FALSE]
  BY <1>1 DEF Written, Checked, Streams
<1>3. MarkIdle(s) = [s EXCEPT !.idle = TRUE]
  BY <1>1 DEF MarkIdle, Streams
<1>4. ASSUME NEW b \in BOOLEAN
      PROVE  LET z == [s EXCEPT !.idle = b]
             IN  z \in Streams /\ z.idle = b /\ z.state = s.state
                 /\ z.backoff = s.backoff /\ z.tokens = s.tokens
                 /\ z.sound = s.sound
  BY <1>1 DEF Streams
<1>5. [s EXCEPT !.idle = TRUE] \in Streams /\ [s EXCEPT !.idle = FALSE] \in Streams
  BY <1>4
<1> QED
  BY <1>2, <1>3, <1>4, <1>5 DEF Regular, IsOpen

-----------------------------------------------------------------------------
(* The tracker as WatchInv describes it.                                   *)
Steady(o) ==
    /\ o \in Trackers /\ o.sound
    /\ o.timer => o.state = "Unknown" /\ ~o.failed
    /\ o.state = "Online" => ~o.failed

LEMMA UpdateSteady ==
    ASSUME tracker \in Trackers, tracker.sound,
           NEW new \in {"Unknown", "Online", "Offline"}
    PROVE  Steady(UpdateState(new)) /\ ~UpdateState(new).timer
BY DEF Steady, UpdateState, Trackers

(* A start sets the timer, if there is none and nothing has failed.        *)
LEMMA StartSteady ==
    ASSUME NEW o, Steady(o), o.failed \/ ~o.timer
    PROVE  Steady(HandleWatchStreamStart(o))
<1>1. CASE o.failed
  BY <1>1 DEF HandleWatchStreamStart
<1>2. CASE ~o.failed
  <2>1. HandleWatchStreamStart(o)
          = [o EXCEPT !.state = "Unknown", !.timer = TRUE]
    BY <1>2 DEF HandleWatchStreamStart, Steady, Trackers
  <2> QED
    BY <1>2, <2>1 DEF Steady, Trackers
<1> QED
  BY <1>1, <1>2

(* After a failure the next start may set the timer.                       *)
LEMMA FailureSteady ==
    ASSUME NEW o, Steady(o)
    PROVE  LET f == HandleWatchStreamFailure(o)
           IN  Steady(f) /\ (f.failed \/ ~f.timer)
<1>1. CASE o.state = "Online"
  <2>1. HandleWatchStreamFailure(o) = [o EXCEPT !.state = "Unknown"]
    BY <1>1 DEF HandleWatchStreamFailure, Steady, Trackers
  <2> QED
    BY <1>1, <2>1 DEF Steady, Trackers
<1>2. CASE o.state # "Online"
  <2>1. HandleWatchStreamFailure(o)
          = [o EXCEPT !.state = "Offline", !.timer = FALSE, !.failed = TRUE]
    BY <1>2 DEF HandleWatchStreamFailure
  <2>2. /\ HandleWatchStreamFailure(o) \in Trackers
        /\ HandleWatchStreamFailure(o).state = "Offline"
        /\ ~HandleWatchStreamFailure(o).timer
        /\ HandleWatchStreamFailure(o).failed
        /\ HandleWatchStreamFailure(o).sound
    BY <2>1 DEF Steady, Trackers
  <2> QED
    BY <2>2 DEF Steady
<1> QED
  BY <1>1, <1>2

LEMMA TimeoutSteady ==
    ASSUME NEW o, Steady(o), o.timer
    PROVE  LET f == [o EXCEPT !.timer = FALSE, !.state = "Offline",
                              !.sound = o.sound /\ o.state = "Unknown"]
           IN  Steady(f) /\ ~f.timer
BY DEF Steady, Trackers

-----------------------------------------------------------------------------
(* WatchInv in terms of these.                                             *)
Attached ==
    /\ listening \in [Targets -> Listeners]
    /\ watch.idle => ~Needed
    /\ Needed => IsStarted(watch)
    /\ tracker.timer => IsStarted(watch)
    /\ IsOpen(watch) \/ listen = NoListen

LEMMA WatchInvParts ==
    WatchInv <=> Regular(watch) /\ Steady(tracker) /\ Attached
BY DEF WatchInv, Regular, Steady, Attached, WatchSound, IsOpen

LEMMA WatchInvPartsNext ==
    Regular(watch') /\ Steady(tracker') /\ Attached' => WatchInv'
BY DEF WatchInv, Regular, Steady, Attached, WatchSound, IsOpen

LEMMA InitWatchInv == Init => WatchInv
BY DEF Init, WatchInit, WatchInv, WatchSound, NewStream, NewTracker, Streams,
       States, Trackers, Listeners, Needed, Listened, IsOpen, IsStarted

(* A new read.                                                             *)
LEMMA GetDocumentsInv ==
    ASSUME WatchInv, NEW t \in Targets, getDocuments(t)
    PROVE  WatchInv'
<1> USE WatchInvPartsNext
<1>0. Regular(watch) /\ Steady(tracker) /\ Attached
  BY WatchInvParts
<1>1. listening' \in [Targets -> Listeners]
  BY <1>0 DEF getDocuments, Attached, Listeners
<1>2. CASE ~IsStarted(watch)
  <2>1. watch' = Start(watch) /\ tracker' = HandleWatchStreamStart(tracker)
        /\ listen' = listen
    BY <1>2 DEF getDocuments
  <2>2. Regular(watch') /\ IsStarted(watch') /\ ~watch'.idle
    BY <1>0, <1>2, <2>1, StartRegular
  <2>3. Steady(tracker')
    BY <1>0, <1>2, <2>1, StartSteady DEF Attached
  <2>4. listen' = NoListen
    BY <1>0, <1>2, <2>1 DEF Attached, IsOpen, IsStarted
  <2>5. Attached'
    BY <1>1, <2>2, <2>4 DEF Attached, IsStarted, IsOpen, NoListen
  <2> QED
    BY <2>2, <2>3, <2>5
<1>3. CASE IsOpen(watch)
  <2>1. watch' = Written(watch) /\ tracker' = tracker
    BY <1>3 DEF getDocuments, IsOpen, IsStarted
  <2>2. Regular(watch') /\ IsOpen(watch') /\ ~watch'.idle
    BY <1>0, <1>3, <2>1, OpenRegular
  <2>3. Attached'
    BY <1>1, <2>2 DEF Attached, IsStarted, IsOpen
  <2> QED
    BY <1>0, <2>1, <2>2, <2>3
<1>4. CASE IsStarted(watch) /\ ~IsOpen(watch)
  <2>1. UNCHANGED <<watch, tracker, listen>>
    BY <1>4 DEF getDocuments
  <2>2. ~watch.idle
    BY <1>0, <1>4 DEF Regular
  <2>3. Attached'
    BY <1>0, <1>1, <1>4, <2>1, <2>2 DEF Attached, IsStarted, IsOpen, NoListen
  <2> QED
    BY <1>0, <2>1, <2>3
<1> QED
  BY <1>2, <1>3, <1>4

(* A listener is removed.                                                  *)
LEMMA StopListeningInv ==
    ASSUME WatchInv, NEW t \in Targets, StopListening(t)
    PROVE  WatchInv'
<1> USE WatchInvPartsNext
<1>0. Regular(watch) /\ Steady(tracker) /\ Attached
  BY WatchInvParts
<1>1. /\ listening' \in [Targets -> Listeners]
      /\ Listened' = Listened \ {t} /\ t \in Listened
  BY <1>0 DEF StopListening, Attached, Listeners, Listened
<1>2. CASE IsOpen(watch)
  <2>1. /\ watch' = IF Listened = {t} THEN MarkIdle(Written(watch))
                    ELSE Written(watch)
        /\ tracker' = tracker
    BY <1>2 DEF StopListening
  <2>2. Regular(Written(watch)) /\ IsOpen(Written(watch))
        /\ ~Written(watch).idle
    BY <1>0, <1>2, OpenRegular
  <2>3. Regular(watch') /\ IsOpen(watch')
        /\ (watch'.idle => Listened = {t})
    BY <2>1, <2>2, OpenRegular
  <2>4. Attached'
    BY <1>1, <2>3 DEF Attached, Needed, IsStarted, IsOpen
  <2> QED
    BY <1>0, <2>1, <2>3, <2>4
<1>3. CASE ~IsOpen(watch)
  <2>1. /\ watch' = watch /\ listen' = listen
        /\ tracker' = tracker \/ tracker' = UpdateState("Unknown")
    BY <1>3 DEF StopListening
  <2>2. Steady(tracker') /\ (tracker'.timer => tracker.timer)
    BY <1>0, <2>1, UpdateSteady DEF Steady
  <2>3. Attached'
    BY <1>0, <1>1, <1>3, <2>1, <2>2
       DEF Attached, Needed, IsStarted, IsOpen, NoListen, Regular
  <2> QED
    BY <1>0, <2>1, <2>2, <2>3
<1> QED
  BY <1>2, <1>3

(* The stream s, which is what is left of watch, has ended with an error.  *)
LEMMA WatchCloseInv ==
    ASSUME WatchInv, NEW s \in Streams, s.sound, IsStarted(s),
           OnWatchStreamClose(s)
    PROVE  WatchInv'
<1> USE WatchInvPartsNext
<1>0. Steady(tracker) /\ listening' \in [Targets -> Listeners]
  BY WatchInvParts DEF Attached, OnWatchStreamClose
<1>1. Regular(Close(s, FALSE)) /\ ~IsStarted(Close(s, FALSE))
      /\ ~Close(s, FALSE).idle
  BY CloseRegular
<1>2. Needed' = Needed /\ listen' = NoListen
  BY DEF OnWatchStreamClose, Needed, Listened
<1>3. NoListen' = NoListen
  BY DEF NoListen
<1>4. CASE Needed
  <2>1. /\ watch' = Start(Close(s, FALSE))
        /\ tracker' = HandleWatchStreamStart(HandleWatchStreamFailure(tracker))
    BY <1>4 DEF OnWatchStreamClose, BecomesOnline
  <2>2. Regular(watch') /\ IsStarted(watch') /\ ~watch'.idle
    BY <1>1, <2>1, StartRegular
  <2>3. Steady(tracker')
    BY <1>0, <2>1, FailureSteady, StartSteady
  <2>4. Attached'
    BY <1>0, <1>2, <1>3, <2>2 DEF Attached, IsStarted, IsOpen
  <2> QED
    BY <2>2, <2>3, <2>4
<1>5. CASE ~Needed
  <2>1. watch' = Close(s, FALSE) /\ tracker' = UpdateState("Unknown")
    BY <1>5 DEF OnWatchStreamClose, BecomesOnline
  <2>2. Steady(tracker') /\ ~tracker'.timer
    BY <1>0, <2>1, UpdateSteady DEF Steady
  <2>3. Attached'
    BY <1>0, <1>1, <1>2, <1>3, <1>5, <2>1, <2>2 DEF Attached
  <2> QED
    BY <1>1, <2>1, <2>2, <2>3
<1> QED
  BY <1>4, <1>5

(* A token, or the failure to get one.                                     *)
LEMMA TokenInv ==
    ASSUME WatchInv, NEW age, NEW ok \in BOOLEAN, WatchTokenArrived(age, ok)
    PROVE  WatchInv'
<1> USE WatchInvPartsNext
<1>0. Regular(watch) /\ Steady(tracker) /\ Attached /\ age \in watch.tokens
  BY WatchInvParts DEF WatchTokenArrived
<1>1. /\ Regular(ResumeStart(watch, age))
      /\ IsStarted(watch) => IsStarted(ResumeStart(watch, age))
      /\ ResumeStart(watch, age).idle = watch.idle
      /\ age = "old" => ResumeStart(watch, age).state = watch.state
      /\ age # "old" => IsOpen(ResumeStart(watch, age))
  BY <1>0, ResumeRegular
<1>2. CASE age = "old"
  <2>1. watch' = ResumeStart(watch, age)
        /\ UNCHANGED <<listening, tracker, listen>>
    BY <1>2 DEF WatchTokenArrived
  <2>2. Attached'
    BY <1>0, <1>1, <1>2, <2>1
       DEF Attached, Needed, Listened, IsOpen, IsStarted, NoListen
  <2> QED
    BY <1>0, <1>1, <2>1, <2>2
<1>3. CASE age # "old" /\ ok
  <2>1. watch' = ResumeStart(watch, age) /\ UNCHANGED <<listening, tracker>>
    BY <1>3 DEF WatchTokenArrived
  <2>2. Attached'
    BY <1>0, <1>1, <1>3, <2>1
       DEF Attached, Needed, Listened, IsOpen, IsStarted
  <2> QED
    BY <1>0, <1>1, <2>1, <2>2
<1>4. CASE age # "old" /\ ~ok
  <2> DEFINE s == [watch EXCEPT !.tokens = watch.tokens \ {age}]
  <2>1. OnWatchStreamClose(s)
    BY <1>4 DEF WatchTokenArrived
  <2>2. watch.state = "Starting"
    BY <1>0, <1>4 DEF Regular, Streams
  <2>3. s \in Streams /\ s.sound /\ s.state = watch.state
    BY <1>0 DEF Regular, Streams
  <2>4. IsStarted(s)
    BY <2>2, <2>3 DEF IsStarted
  <2> HIDE DEF s
  <2> QED
    BY <2>1, <2>3, <2>4, WatchCloseInv
<1> QED
  BY <1>2, <1>3, <1>4

LEMMA BackoffInv == WatchInv /\ WatchBackoffElapsed => WatchInv'
<1> SUFFICES ASSUME WatchInv, WatchBackoffElapsed PROVE WatchInv'
  OBVIOUS
<1>0. Regular(watch) /\ Steady(tracker) /\ Attached
  BY WatchInvParts
<1>1. /\ watch.backoff /\ watch' = BackoffElapsed(watch)
      /\ UNCHANGED <<listening, tracker, listen>>
  BY DEF WatchBackoffElapsed
<1>2. Regular(watch') /\ IsStarted(watch') /\ ~IsOpen(watch')
      /\ ~watch'.idle
  BY <1>0, <1>1, BackoffRegular
<1>3. ~IsOpen(watch)
  BY <1>0, <1>1 DEF Regular, IsOpen
<1>4. Attached'
  BY <1>0, <1>1, <1>2, <1>3 DEF Attached, NoListen, IsStarted, IsOpen
<1> QED
  BY <1>0, <1>1, <1>2, <1>4, WatchInvPartsNext

(* A stream nobody needs is stopped.                                       *)
LEMMA StoppedInv ==
    ASSUME WatchInv, WatchStreamStopped, ~Needed
    PROVE  WatchInv'
<1>0. Regular(watch) /\ Steady(tracker) /\ Attached
  BY WatchInvParts
<1>1. /\ watch' = Checked(Stop(watch), ~Needed)
      /\ tracker' = UpdateState("Unknown")
      /\ listen' = NoListen /\ listening' = listening
  BY DEF WatchStreamStopped, BecomesOnline
<1>2. ~Needed
  OBVIOUS
<1>3. Regular(Stop(watch)) /\ ~IsStarted(Stop(watch)) /\ ~Stop(watch).idle
  BY <1>0, StopRegular
<1>4. watch' = Stop(watch)
  BY <1>1, <1>2, <1>3 DEF Checked, Regular, Streams
<1>5. Steady(tracker') /\ ~tracker'.timer
  BY <1>0, <1>1, UpdateSteady DEF Steady
<1>6. Attached'
  BY <1>0, <1>1, <1>2, <1>3, <1>4, <1>5
     DEF Attached, Needed, Listened, NoListen
<1> QED
  BY <1>3, <1>4, <1>5, <1>6, WatchInvPartsNext

(* The idleness timer fires only while nobody listens.                     *)
LEMMA IdleInv == WatchInv /\ WatchIdleTimeout => WatchInv'
<1> SUFFICES ASSUME WatchInv, WatchIdleTimeout PROVE WatchInv'
  OBVIOUS
<1>1. ~Needed
  BY WatchInvParts DEF WatchIdleTimeout, Attached
<1> QED
  BY <1>1, StoppedInv DEF WatchIdleTimeout

(* The online timer fires only in the state Unknown.                       *)
LEMMA OnlineTimeoutInv == WatchInv /\ OnlineTimeout => WatchInv'
<1> SUFFICES ASSUME WatchInv, OnlineTimeout PROVE WatchInv'
  OBVIOUS
<1>0. Regular(watch) /\ Steady(tracker) /\ Attached
  BY WatchInvParts
<1>1. /\ tracker.timer
      /\ tracker' = [tracker EXCEPT !.timer = FALSE, !.state = "Offline",
                         !.sound = tracker.sound /\ tracker.state = "Unknown"]
      /\ UNCHANGED <<listening, watch, listen>>
  BY DEF OnlineTimeout, BecomesOnline
<1>2. Steady(tracker') /\ ~tracker'.timer
  BY <1>0, <1>1, TimeoutSteady
<1>3. Attached'
  BY <1>0, <1>1, <1>2 DEF Attached, Needed, Listened, NoListen
<1> QED
  BY <1>0, <1>1, <1>2, <1>3, WatchInvPartsNext

(* A message arrives: the stream is open.                                  *)
LEMMA WatchChangeInv == WatchInv /\ OnWatchStreamChange => WatchInv'
<1> SUFFICES ASSUME WatchInv, OnWatchStreamChange PROVE WatchInv'
  OBVIOUS
<1>0. Regular(watch) /\ Steady(tracker) /\ Attached
  BY WatchInvParts
<1>1. /\ listen.answers # <<>> /\ watch' = Checked(watch, IsStarted(watch))
      /\ tracker' = UpdateState("Online") /\ listening' = listening
  BY DEF OnWatchStreamChange
<1>2. IsOpen(watch)
  BY <1>0, <1>1 DEF Attached, NoListen
<1>3. watch' = watch
  BY <1>0, <1>1, <1>2 DEF Checked, Regular, Streams, IsOpen, IsStarted
<1>4. Steady(tracker') /\ ~tracker'.timer
  BY <1>0, <1>1, UpdateSteady DEF Steady
<1>5. Attached'
  BY <1>0, <1>1, <1>2, <1>3, <1>4 DEF Attached, Needed, Listened
<1> QED
  BY <1>0, <1>3, <1>4, <1>5, WatchInvPartsNext

(* The call has ended: then the stream was open.                           *)
LEMMA CallEndedInv == WatchInv /\ WatchCallEnded => WatchInv'
<1> SUFFICES ASSUME WatchInv, WatchCallEnded PROVE WatchInv'
  OBVIOUS
<1>1. Regular(watch) /\ Attached
  BY WatchInvParts
<1>2. IsStarted(watch)
  BY <1>1 DEF WatchCallEnded, WatchEndSeen, Attached, NoListen, IsOpen,
              IsStarted
<1>3. CASE OnWatchStreamClose(watch)
  BY <1>1, <1>2, <1>3, WatchCloseInv DEF Regular
<1>4. CASE ~Needed /\ WatchStreamStopped
  BY <1>4, StoppedInv
<1> QED
  BY <1>3, <1>4 DEF WatchCallEnded

(* The network is restarted.                                               *)
LEMMA RestartInv == WatchInv /\ RestartWatch => WatchInv'
<1> SUFFICES ASSUME WatchInv, RestartWatch PROVE WatchInv'
  OBVIOUS
<1> DEFINE stopped == InhibitBackoff(Stop(watch))
           unknown == UpdateState("Unknown")
<1>0. Regular(watch) /\ Steady(tracker) /\ Attached
  BY WatchInvParts
<1>1. Regular(stopped) /\ ~IsStarted(stopped) /\ ~stopped.idle
  BY <1>0, StopRegular, InhibitRegular
<1>2. Steady(unknown) /\ ~unknown.timer
  BY <1>0, UpdateSteady DEF Steady
<1>3. listening' = listening /\ listen' = NoListen
  BY DEF RestartWatch
<1>4. CASE Needed
  <2>1. watch' = Start(stopped) /\ tracker' = HandleWatchStreamStart(unknown)
    BY <1>4 DEF RestartWatch, BecomesOnline
  <2>2. Regular(watch') /\ IsStarted(watch') /\ ~watch'.idle
    BY <1>1, <2>1, StartRegular
  <2>3. Steady(tracker')
    BY <1>2, <2>1, StartSteady
  <2>4. Attached'
    BY <1>0, <1>3, <2>2 DEF Attached, NoListen, IsStarted, IsOpen
  <2> QED
    BY <2>2, <2>3, <2>4, WatchInvPartsNext
<1>5. CASE ~Needed
  <2>1. watch' = stopped /\ tracker' = unknown
    BY <1>5 DEF RestartWatch, BecomesOnline
  <2>2. Attached'
    BY <1>0, <1>1, <1>2, <1>3, <1>5, <2>1
       DEF Attached, NoListen, Needed, Listened
  <2> QED
    BY <1>1, <1>2, <2>1, <2>2, WatchInvPartsNext
<1> QED
  BY <1>4, <1>5

LEMMA WatchKillInv == WatchKill => WatchInv'
BY DEF WatchKill, WatchInv, WatchSound, NewStream, NewTracker, NoListen,
       Streams, States, Trackers, Listeners, Needed, Listened, IsOpen,
       IsStarted

(* The backend answers only an open stream.                                *)
LEMMA WatchBackendInv == WatchInv /\ WatchBackend => WatchInv'
<1> SUFFICES ASSUME WatchInv, WatchBackend PROVE WatchInv'
  OBVIOUS
<1>0. Regular(watch) /\ Steady(tracker) /\ Attached
  BY WatchInvParts
<1>1. UNCHANGED <<listening, watch, tracker>>
  BY DEF WatchBackend, BackendTakes, BackendSends, ListenFinishes, ListenBreaks
<1>2. IsOpen(watch)
  <2>1. CASE BackendTakes
    BY <1>0, <2>1 DEF BackendTakes, Attached, NoListen
  <2>2. ASSUME NEW t \in Targets, BackendSends(t) PROVE IsOpen(watch)
    BY <1>0, <2>2 DEF BackendSends, Attached, NoListen
  <2>3. CASE ListenFinishes \/ ListenBreaks
    BY <2>3 DEF ListenFinishes, ListenBreaks
  <2> QED
    BY <2>1, <2>2, <2>3 DEF WatchBackend
<1>3. Attached'
  BY <1>0, <1>1, <1>2 DEF Attached, Needed, Listened
<1> QED
  BY <1>0, <1>1, <1>3, WatchInvPartsNext

(* A step that leaves the read half alone.                                 *)
LEMMA WatchStutterInv == WatchInv /\ UNCHANGED watchVars => WatchInv'
BY DEF WatchInv, WatchSound, watchVars, Needed, Listened, IsOpen, IsStarted,
       NoListen

LEMMA NextWatchInv == WatchInv /\ [Next]_vars => WatchInv'
<1> SUFFICES ASSUME WatchInv, [Next]_vars PROVE WatchInv'
  OBVIOUS
<1>1. CASE ReadStep
  BY <1>1, GetDocumentsInv, StopListeningInv, TokenInv, BackoffInv, IdleInv,
     OnlineTimeoutInv, WatchChangeInv, CallEndedInv, WatchBackendInv
     DEF ReadStep, WatchClient
<1>2. CASE UNCHANGED watchVars
  BY <1>2, WatchStutterInv
<1>3. CASE ConnectivityChanged \/ \E u \in Users : HandleCredentialChange(u)
  BY <1>3, RestartInv
     DEF ConnectivityChanged, HandleCredentialChange, RestartNetwork
<1>4. CASE StoppedWhileNeeded \/ Kill
  BY <1>4, WatchKillInv
     DEF StoppedWhileNeeded, WatchStoppedWhileNeeded, Kill
<1> QED
  BY <1>1, <1>2, <1>3, <1>4 DEF Next, vars

(* Whatever the queries, and whatever breaks or ends, no HARD_ASSERT of    *)
(* the watch stream or of OnlineStateTracker fails (stream.cc,             *)
(* online_state_tracker.cc), nor that of an idle stream being stopped      *)
(* while somebody listens.  The same assertion (remote_store.cc:236) fails *)
(* when the backend ends a call with OK that is still needed, which is the *)
(* action StoppedWhileNeeded: see StopsAreDesirable in WritePipelineProofs.*)
THEOREM WatchIsSound == Spec => []WatchSound
<1>1. Init => WatchInv
  BY InitWatchInv
<1>2. WatchInv /\ [Next]_vars => WatchInv'
  BY NextWatchInv
<1>3. WatchInv => WatchSound
  BY DEF WatchInv
<1> QED
  BY <1>1, <1>2, <1>3, PTL DEF Spec

(* A stream is under way as long as somebody listens, and its online timer *)
(* runs only then and only while the state is unknown: both follow from    *)
(* the invariant.  (That there is a timer whenever a read waits in the     *)
(* state Unknown does not: see the run online_timeout.)                    *)
THEOREM ListenersAreServed ==
    Spec => [](/\ Needed => IsStarted(watch)
              /\ tracker.timer => IsStarted(watch) /\ tracker.state = "Unknown")
<1>1. Init => WatchInv
  BY InitWatchInv
<1>2. WatchInv /\ [Next]_vars => WatchInv'
  BY NextWatchInv
<1>3. WatchInv => /\ Needed => IsStarted(watch)
                  /\ tracker.timer => IsStarted(watch)
                                      /\ tracker.state = "Unknown"
  BY DEF WatchInv
<1> QED
  BY <1>1, <1>2, <1>3, PTL DEF Spec

-----------------------------------------------------------------------------
(***************************************************************************)
(* A read that the backend answers gets its own results, for every set of  *)
(* queries and every number of reads, whatever breaks: an answer to an     *)
(* older read of the same query always has one behind it that is still     *)
(* due.                                                                    *)
(***************************************************************************)

-----------------------------------------------------------------------------
(* Due, as sequences grow and shrink.                                      *)
LEMMA DueFinite ==
    ASSUME NEW S, NEW s \in Seq(S), NEW t
    PROVE  /\ Due(s, t) \subseteq 1..Len(s)
           /\ IsFiniteSet(Due(s, t)) /\ Cardinality(Due(s, t)) \in Nat
           /\ \A i \in Nat : /\ DueBefore(s, t, i) \subseteq Due(s, t)
                             /\ IsFiniteSet(DueBefore(s, t, i))
                             /\ Cardinality(DueBefore(s, t, i)) \in Nat
                             /\ Cardinality(DueBefore(s, t, i))
                                  <= Cardinality(Due(s, t))
<1>1. Due(s, t) \subseteq 1..Len(s)
  BY DEF Due
<1>2. IsFiniteSet(Due(s, t))
  BY <1>1, FS_Interval, FS_Subset
<1>3. \A i \in Nat : DueBefore(s, t, i) \subseteq Due(s, t)
  BY DEF DueBefore
<1> QED
  BY <1>1, <1>2, <1>3, FS_Subset, FS_CardinalityType

LEMMA DueAppend ==
    ASSUME NEW S, NEW s \in Seq(S), NEW m \in S, NEW t
    PROVE  /\ m.target = t /\ m.kind # "current" =>
                Cardinality(Due(Append(s, m), t)) = Cardinality(Due(s, t)) + 1
           /\ ~(m.target = t /\ m.kind # "current") =>
                Due(Append(s, m), t) = Due(s, t)
           /\ Due(s, t) \subseteq Due(Append(s, m), t)
           /\ \A i \in 1..(Len(s) + 1) :
                DueBefore(Append(s, m), t, i) = DueBefore(s, t, i)
           /\ DueBefore(s, t, Len(s) + 1) = Due(s, t)
<1> DEFINE a == Append(s, m)
<1>1. /\ DOMAIN a = 1..(Len(s) + 1) /\ DOMAIN s = 1..Len(s)
      /\ Len(s) \in Nat
      /\ \A i \in 1..Len(s) : a[i] = s[i]
      /\ a[Len(s) + 1] = m
  OBVIOUS
<1> HIDE DEF a
<1>2. Due(s, t) \subseteq 1..Len(s) /\ IsFiniteSet(Due(s, t))
  BY DueFinite
<1>3. ASSUME m.target = t, m.kind # "current"
      PROVE  Due(a, t) = Due(s, t) \cup {Len(s) + 1}
  BY <1>1, <1>3 DEF Due
<1>4. ASSUME ~(m.target = t /\ m.kind # "current")
      PROVE  Due(a, t) = Due(s, t)
  BY <1>1, <1>4 DEF Due
<1>5. Len(s) + 1 \notin Due(s, t)
  BY <1>1, <1>2
<1>6. Cardinality(Due(s, t) \cup {Len(s) + 1}) = Cardinality(Due(s, t)) + 1
  BY <1>2, <1>5, FS_AddElement
<1>7. \A i \in 1..(Len(s) + 1) : DueBefore(a, t, i) = DueBefore(s, t, i)
  <2> SUFFICES ASSUME NEW i \in 1..(Len(s) + 1)
               PROVE  DueBefore(a, t, i) = DueBefore(s, t, i)
    OBVIOUS
  <2>1. ~(Len(s) + 1 < i)
    BY <1>1
  <2> QED
    BY <1>3, <1>4, <2>1 DEF DueBefore
<1>8. DueBefore(s, t, Len(s) + 1) = Due(s, t)
  BY <1>1, <1>2 DEF DueBefore
<1>9. Due(s, t) \subseteq Due(a, t)
  BY <1>3, <1>4
<1> QED
  BY <1>3, <1>4, <1>6, <1>7, <1>8, <1>9 DEF a

(* A set of positions, counted from the second.                            *)
LEMMA ShiftedCardinality ==
    ASSUME NEW A \in SUBSET (Nat \ {0}), IsFiniteSet(A),
           NEW B \in SUBSET (Nat \ {0}),
           \A i \in Nat \ {0} : i \in B <=> i + 1 \in A
    PROVE  /\ IsFiniteSet(B)
           /\ Cardinality(B)
                = IF 1 \in A THEN Cardinality(A) - 1 ELSE Cardinality(A)
<1> DEFINE f == [x \in A \ {1} |-> x - 1]
<1>1. f \in [A \ {1} -> B]
  <2> SUFFICES ASSUME NEW x \in A \ {1} PROVE x - 1 \in B
    OBVIOUS
  <2>1. x - 1 \in Nat \ {0} /\ (x - 1) + 1 = x
    OBVIOUS
  <2> QED
    BY <2>1
<1>2. \A x, y \in A \ {1} : f[x] = f[y] => x = y
  OBVIOUS
<1>3. \A y \in B : \E x \in A \ {1} : f[x] = y
  <2> SUFFICES ASSUME NEW y \in B PROVE \E x \in A \ {1} : f[x] = y
    OBVIOUS
  <2>1. y + 1 \in A \ {1} /\ (y + 1) - 1 = y
    OBVIOUS
  <2> QED
    BY <2>1
<1>4. f \in Bijection(A \ {1}, B)
  BY <1>1, <1>2, <1>3 DEF Bijection, Injection, Surjection, IsInjective
<1>5. ExistsBijection(A \ {1}, B)
  BY <1>4 DEF ExistsBijection
<1>6. IsFiniteSet(A \ {1})
      /\ Cardinality(A \ {1})
           = IF 1 \in A THEN Cardinality(A) - 1 ELSE Cardinality(A)
  BY FS_RemoveElement
<1> QED
  BY <1>5, <1>6, FS_Bijection

LEMMA DueTail ==
    ASSUME NEW S, NEW s \in Seq(S), s # <<>>, NEW t
    PROVE  LET d == IF Head(s).target = t /\ Head(s).kind # "current"
                    THEN 1 ELSE 0
           IN  /\ Cardinality(Due(Tail(s), t)) = Cardinality(Due(s, t)) - d
               /\ \A i \in 1..Len(Tail(s)) :
                    Cardinality(DueBefore(Tail(s), t, i))
                      = Cardinality(DueBefore(s, t, i + 1)) - d
<1> DEFINE a == Tail(s)
           due == Head(s).target = t /\ Head(s).kind # "current"
<1>1. /\ DOMAIN s = 1..Len(s) /\ DOMAIN a = 1..(Len(s) - 1)
      /\ Len(s) \in Nat \ {0} /\ Len(a) = Len(s) - 1
      /\ \A i \in 1..(Len(s) - 1) : a[i] = s[i + 1]
      /\ s[1] = Head(s)
  OBVIOUS
<1> HIDE DEF a
<1>2. 1 \in Due(s, t) <=> due
  BY <1>1 DEF Due
<1>3. \A i \in Nat \ {0} : i \in Due(a, t) <=> i + 1 \in Due(s, t)
  BY <1>1 DEF Due
<1>4. /\ Due(s, t) \subseteq 1..Len(s) /\ IsFiniteSet(Due(s, t))
      /\ Due(a, t) \subseteq 1..Len(a)
      /\ \A i \in Nat : IsFiniteSet(DueBefore(s, t, i))
  <2>1. Due(a, t) \subseteq 1..Len(a)
    BY <1>1 DEF Due
  <2> QED
    BY <2>1, DueFinite
<1> HIDE DEF due
<1>5. Cardinality(Due(a, t)) = Cardinality(Due(s, t)) - (IF due THEN 1 ELSE 0)
  <2>1. Cardinality(Due(a, t)) = IF 1 \in Due(s, t)
                                 THEN Cardinality(Due(s, t)) - 1
                                 ELSE Cardinality(Due(s, t))
    <3>1. Due(s, t) \in SUBSET (Nat \ {0}) /\ Due(a, t) \in SUBSET (Nat \ {0})
      BY <1>1, <1>4
    <3> QED
      BY <1>3, <1>4, <3>1, ShiftedCardinality
  <2>2. Cardinality(Due(s, t)) \in Nat
    BY DueFinite
  <2> QED
    BY <1>2, <2>1, <2>2
<1>6. ASSUME NEW i \in 1..Len(a)
      PROVE  Cardinality(DueBefore(a, t, i))
               = Cardinality(DueBefore(s, t, i + 1)) - (IF due THEN 1 ELSE 0)
  <2> DEFINE A == DueBefore(s, t, i + 1)
             B == DueBefore(a, t, i)
  <2>1. A \in SUBSET (Nat \ {0}) /\ B \in SUBSET (Nat \ {0})
    BY <1>1, <1>4 DEF DueBefore
  <2>2. \A j \in Nat \ {0} : j \in B <=> j + 1 \in A
    <3> SUFFICES ASSUME NEW j \in Nat \ {0} PROVE j \in B <=> j + 1 \in A
      OBVIOUS
    <3>1. i \in Nat /\ (j < i <=> j + 1 < i + 1)
      BY <1>1
    <3>2. j \in Due(a, t) <=> j + 1 \in Due(s, t)
      BY <1>3
    <3> QED
      BY <3>1, <3>2 DEF DueBefore
  <2>3. IsFiniteSet(A) /\ Cardinality(A) \in Nat
    BY <1>1, <1>4, FS_CardinalityType
  <2>4. 1 \in A <=> due
    <3>1. 1 < i + 1
      BY <1>1
    <3> QED
      BY <1>2, <3>1 DEF DueBefore
  <2> HIDE DEF A, B
  <2>5. Cardinality(B) = IF 1 \in A THEN Cardinality(A) - 1 ELSE Cardinality(A)
    BY <2>1, <2>2, <2>3, ShiftedCardinality
  <2> QED
    BY <2>3, <2>4, <2>5 DEF A, B
<1> QED
  BY <1>5, <1>6 DEF a, due

LEMMA DuePrefix ==
    ASSUME NEW S, NEW s \in Seq(S), NEW n \in 0..Len(s), NEW t
    PROVE  /\ Cardinality(Due(SubSeq(s, 1, n), t)) <= Cardinality(Due(s, t))
           /\ \A i \in 1..n :
                DueBefore(SubSeq(s, 1, n), t, i) = DueBefore(s, t, i)
<1> DEFINE a == SubSeq(s, 1, n)
<1>1. /\ DOMAIN s = 1..Len(s) /\ DOMAIN a = 1..n /\ Len(s) \in Nat
      /\ n \in Nat /\ n <= Len(s) /\ \A i \in 1..n : a[i] = s[i]
  OBVIOUS
<1> HIDE DEF a
<1>2. Due(a, t) \subseteq Due(s, t)
  BY <1>1 DEF Due
<1>3. Cardinality(Due(a, t)) <= Cardinality(Due(s, t))
  BY <1>2, DueFinite, FS_Subset
<1>4. ASSUME NEW i \in 1..n PROVE DueBefore(a, t, i) = DueBefore(s, t, i)
  BY <1>1 DEF DueBefore, Due
<1> QED
  BY <1>3, <1>4 DEF a

-----------------------------------------------------------------------------
(* DueCounted and OlderOutstanding, of one query t with n answers due,     *)
(* that the read v waits at the backend for and the read l listens to.     *)
InOrder(t, a, w, n, v, ended, l) ==
    /\ n >= Cardinality(Due(a, t)) + Cardinality(Due(w, t))
    /\ \A i \in 1..Len(a) :
          a[i].target = t /\ a[i].kind = "current" /\ l \notin {0, a[i].read}
            => n > Cardinality(DueBefore(a, t, i))
    /\ v # 0 /\ l \notin {0, v} /\ ~ended => n > Cardinality(Due(a, t))
    /\ \A i \in 1..Len(w) :
          w[i].target = t /\ w[i].kind = "watch" /\ l \notin {0, w[i].read}
            => \E j \in Due(w, t) : j > i

LEMMA DueEmpty ==
    ASSUME NEW t
    PROVE  Due(<<>>, t) = {} /\ Cardinality(Due(<<>>, t)) = 0
BY FS_EmptySet DEF Due

(* Nothing has been said yet.                                              *)
LEMMA SilentInOrder ==
    ASSUME NEW t, NEW n \in Nat, NEW l
    PROVE  InOrder(t, <<>>, <<>>, n, 0, FALSE, l)
BY DueEmpty DEF InOrder

(* A request for the read r of this query, or one that ends a listen, is   *)
(* added to the wire.                                                      *)
LEMMA RequestInOrder ==
    ASSUME NEW t, NEW a \in Seq(Answers), NEW w \in Seq(Requests),
           NEW n \in Nat, NEW v, NEW ended, NEW l,
           InOrder(t, a, w, n, v, ended, l), NEW m \in Requests,
           m.target = t, NEW k, k \in {0, m.read}
    PROVE  InOrder(t, a, Append(w, m), n + 1, v, ended, k)
<1> DEFINE x == Append(w, m)
<1>1. /\ Len(x) = Len(w) + 1 /\ Len(w) \in Nat /\ x[Len(w) + 1] = m
      /\ \A i \in 1..Len(w) : x[i] = w[i]
      /\ DOMAIN x = 1..(Len(w) + 1)
  OBVIOUS
<1>2. m.kind # "current"
  BY DEF Requests
<1>3. Cardinality(Due(x, t)) = Cardinality(Due(w, t)) + 1
      /\ Cardinality(Due(w, t)) \in Nat
  <2>1. Cardinality(Due(w, t)) \in Nat
    BY DueFinite
  <2> QED
    BY <1>2, <2>1, DueAppend
<1>4. Cardinality(Due(a, t)) \in Nat
      /\ \A i \in Nat : /\ Cardinality(DueBefore(a, t, i)) \in Nat
                        /\ Cardinality(DueBefore(a, t, i))
                             <= Cardinality(Due(a, t))
  BY DueFinite
<1> HIDE DEF x
<1>5. n >= Cardinality(Due(a, t)) + Cardinality(Due(w, t))
  BY DEF InOrder
<1>6. n + 1 >= Cardinality(Due(a, t)) + Cardinality(Due(x, t))
  BY <1>3, <1>4, <1>5
<1>7. n + 1 > Cardinality(Due(a, t))
  BY <1>3, <1>4, <1>5
<1>10. ASSUME NEW i \in 1..Len(a)
       PROVE  n + 1 > Cardinality(DueBefore(a, t, i))
  <2>1. i \in Nat
    OBVIOUS
  <2>2. /\ Cardinality(DueBefore(a, t, i)) \in Nat
        /\ Cardinality(DueBefore(a, t, i)) <= Cardinality(Due(a, t))
    BY <1>4, <2>1
  <2> QED
    BY <1>4, <1>7, <2>2
<1>8. Len(w) + 1 \in Due(x, t)
  BY <1>1, <1>2 DEF Due
<1>9. ASSUME NEW i \in 1..Len(x), x[i].kind = "watch", x[i].target = t,
             k \notin {0, x[i].read}
      PROVE  \E j \in Due(x, t) : j > i
  <2>1. i # Len(w) + 1
    BY <1>1, <1>9
  <2> QED
    BY <1>1, <1>8, <2>1
<1> QED
  BY <1>6, <1>7, <1>9, <1>10 DEF InOrder, x

(* One about another query changes nothing.                                *)
LEMMA OtherInOrder ==
    ASSUME NEW t, NEW a \in Seq(Answers), NEW w \in Seq(Requests),
           NEW n \in Nat, NEW v, NEW ended, NEW l,
           InOrder(t, a, w, n, v, ended, l), NEW m \in Requests,
           m.target # t
    PROVE  InOrder(t, a, Append(w, m), n, v, ended, l)
<1> DEFINE x == Append(w, m)
<1>1. /\ Len(x) = Len(w) + 1 /\ Len(w) \in Nat /\ x[Len(w) + 1] = m
      /\ \A i \in 1..Len(w) : x[i] = w[i]
  OBVIOUS
<1>2. Due(x, t) = Due(w, t)
  BY DueAppend
<1> HIDE DEF x
<1>3. ASSUME NEW i \in 1..Len(x), x[i].kind = "watch", x[i].target = t,
             l \notin {0, x[i].read}
      PROVE  \E j \in Due(x, t) : j > i
  <2>1. i \in 1..Len(w) /\ x[i] = w[i]
    BY <1>1, <1>3
  <2> QED
    BY <1>2, <1>3, <2>1 DEF InOrder
<1> QED
  BY <1>2, <1>3 DEF InOrder, x

(* The client has read the first answer.                                   *)
LEMMA ReadInOrder ==
    ASSUME NEW t, NEW a \in Seq(Answers), a # <<>>, NEW w \in Seq(Requests),
           NEW n \in Nat, NEW v, NEW ended, NEW l,
           InOrder(t, a, w, n, v, ended, l)
    PROVE  LET m == Head(a)
               d == IF m.target = t /\ m.kind # "current" THEN 1 ELSE 0
           IN  n - d \in Nat /\ InOrder(t, Tail(a), w, n - d, v, ended, l)
<1> DEFINE m == Head(a)
           d == IF m.target = t /\ m.kind # "current" THEN 1 ELSE 0
           b == Tail(a)
<1>1. /\ Len(a) \in Nat \ {0} /\ Len(b) = Len(a) - 1 /\ b \in Seq(Answers)
      /\ \A i \in 1..(Len(a) - 1) : b[i] = a[i + 1]
  OBVIOUS
<1>2. /\ Cardinality(Due(b, t)) = Cardinality(Due(a, t)) - d
      /\ \A i \in 1..Len(b) : Cardinality(DueBefore(b, t, i))
                                = Cardinality(DueBefore(a, t, i + 1)) - d
  BY DueTail
<1>3. d \in {0, 1}
  OBVIOUS
<1> HIDE DEF m, d, b
<1>4. /\ Cardinality(Due(a, t)) \in Nat /\ Cardinality(Due(w, t)) \in Nat
      /\ Cardinality(Due(b, t)) \in Nat
      /\ \A i \in Nat : Cardinality(DueBefore(a, t, i)) \in Nat
  BY <1>1, DueFinite
<1>5. n >= Cardinality(Due(a, t)) + Cardinality(Due(w, t))
  BY DEF InOrder
<1>6. /\ n - d \in Nat
      /\ n - d >= Cardinality(Due(b, t)) + Cardinality(Due(w, t))
  <2> DEFINE ca == Cardinality(Due(a, t))
             cb == Cardinality(Due(b, t))
             cw == Cardinality(Due(w, t))
  <2>1. cb = ca - d /\ ca \in Nat /\ cb \in Nat /\ cw \in Nat
        /\ n >= ca + cw
    BY <1>2, <1>4, <1>5
  <2> HIDE DEF ca, cb, cw
  <2>2. n - d \in Nat /\ n - d >= cb + cw
    BY <1>3, <2>1
  <2> QED
    BY <2>2 DEF ca, cb, cw
<1>7. ASSUME NEW i \in 1..Len(b), b[i].target = t, b[i].kind = "current",
             l \notin {0, b[i].read}
      PROVE  n - d > Cardinality(DueBefore(b, t, i))
  <2>1. i + 1 \in 1..Len(a) /\ b[i] = a[i + 1] /\ i + 1 \in Nat
    BY <1>1
  <2>2. n > Cardinality(DueBefore(a, t, i + 1))
    BY <1>7, <2>1 DEF InOrder
  <2> QED
    BY <1>2, <1>3, <1>4, <2>1, <2>2
<1>8. v # 0 /\ l \notin {0, v} /\ ~ended => n - d > Cardinality(Due(b, t))
  BY <1>2, <1>3, <1>4 DEF InOrder
<1>9. InOrder(t, b, w, n - d, v, ended, l)
  BY <1>6, <1>7, <1>8 DEF InOrder
<1> QED
  BY <1>6, <1>9 DEF m, d, b

(* The backend takes a request about any query: the answer is under way.   *)
LEMMA TakenInOrder ==
    ASSUME NEW t, NEW a \in Seq(Answers), NEW w \in Seq(Requests), w # <<>>,
           NEW n \in Nat, NEW v, NEW l,
           InOrder(t, a, w, n, v, FALSE, l),
           NEW m \in Answers, m.target = Head(w).target,
           m.kind # "current", NEW u,
           Head(w).target # t => u = v,
           Head(w).target = t =>
             u = IF Head(w).kind = "watch" THEN Head(w).read ELSE 0
    PROVE  InOrder(t, Append(a, m), Tail(w), n, u, FALSE, l)
<1> DEFINE r == Head(w)
           x == Tail(w)
           b == Append(a, m)
           d == IF r.target = t THEN 1 ELSE 0
<1>1. /\ Len(w) \in Nat \ {0} /\ Len(x) = Len(w) - 1 /\ x \in Seq(Requests)
      /\ \A i \in 1..(Len(w) - 1) : x[i] = w[i + 1]
      /\ r = w[1] /\ r \in Requests /\ b \in Seq(Answers)
      /\ Len(b) = Len(a) + 1 /\ Len(a) \in Nat /\ b[Len(a) + 1] = m
      /\ \A i \in 1..Len(a) : b[i] = a[i]
  OBVIOUS
<1>2. r.kind # "current"
  BY <1>1 DEF Requests
<1>3. Cardinality(Due(x, t)) = Cardinality(Due(w, t)) - d
  BY <1>2, DueTail
<1>4. Cardinality(Due(b, t)) = Cardinality(Due(a, t)) + d
      /\ \A i \in 1..(Len(a) + 1) : DueBefore(b, t, i) = DueBefore(a, t, i)
  <2>1. Cardinality(Due(a, t)) \in Nat
    BY DueFinite
  <2> QED
    BY <2>1, DueAppend
<1>5. d \in {0, 1}
  OBVIOUS
<1> HIDE DEF x, b, d
<1>6. /\ Cardinality(Due(a, t)) \in Nat /\ Cardinality(Due(w, t)) \in Nat
  BY DueFinite
<1>7. n >= Cardinality(Due(a, t)) + Cardinality(Due(w, t))
  BY DEF InOrder
<1>8. n >= Cardinality(Due(b, t)) + Cardinality(Due(x, t))
  BY <1>3, <1>4, <1>5, <1>6, <1>7
<1>9. ASSUME NEW i \in 1..Len(b), b[i].target = t, b[i].kind = "current",
             l \notin {0, b[i].read}
      PROVE  n > Cardinality(DueBefore(b, t, i))
  <2>1. i \in 1..Len(a) /\ b[i] = a[i]
    BY <1>1, <1>9
  <2> QED
    BY <1>1, <1>4, <1>9, <2>1 DEF InOrder
<1>10. ASSUME u # 0, l \notin {0, u}
       PROVE  n > Cardinality(Due(b, t))
  <2>1. CASE r.target # t
    <3>1. n > Cardinality(Due(a, t)) /\ d = 0
      BY <1>10, <2>1 DEF InOrder, d
    <3> QED
      BY <1>4, <1>6, <3>1
  <2>2. CASE r.target = t
    <3>1. r.kind = "watch" /\ u = r.read /\ d = 1
      BY <1>10, <2>2 DEF d
    <3>2. PICK j \in Due(w, t) : j > 1
      BY <1>1, <1>10, <2>2, <3>1 DEF InOrder
    <3>3. j - 1 \in 1..Len(x) /\ x[j - 1] = w[j] /\ DOMAIN x = 1..Len(x)
      BY <1>1, <3>2 DEF Due
    <3>4. j - 1 \in Due(x, t)
      BY <3>2, <3>3 DEF Due
    <3>5. Cardinality(Due(x, t)) \in Nat /\ Cardinality(Due(x, t)) # 0
      BY <1>1, <3>4, DueFinite, FS_EmptySet
    <3> QED
      BY <1>4, <1>5, <1>6, <1>8, <3>5
  <2> QED
    BY <2>1, <2>2
<1>11. ASSUME NEW i \in 1..Len(x), x[i].target = t, x[i].kind = "watch",
              l \notin {0, x[i].read}
       PROVE  \E j \in Due(x, t) : j > i
  <2>1. i + 1 \in 1..Len(w) /\ x[i] = w[i + 1]
    BY <1>1
  <2>2. PICK j \in Due(w, t) : j > i + 1
    BY <1>11, <2>1 DEF InOrder
  <2>5. j \in 1..Len(w)
    BY DueFinite
  <2>6. j - 1 \in 1..Len(x) /\ j - 1 > i /\ (j - 1) + 1 = j
    BY <1>1, <2>2, <2>5
  <2>3. j - 1 \in 1..Len(x) /\ x[j - 1] = w[j] /\ DOMAIN x = 1..Len(x)
        /\ j - 1 > i
    BY <1>1, <2>6
  <2>4. j - 1 \in Due(x, t)
    BY <2>2, <2>3 DEF Due
  <2> QED
    BY <2>3, <2>4
<1> QED
  BY <1>8, <1>9, <1>10, <1>11 DEF InOrder, x, b

(* The backend sends the results of any query it serves.                   *)
LEMMA ResultsInOrder ==
    ASSUME NEW t, NEW a \in Seq(Answers), NEW w \in Seq(Requests),
           NEW n \in Nat, NEW v, NEW l,
           InOrder(t, a, w, n, v, FALSE, l),
           NEW m \in Answers, m.kind = "current", NEW u,
           m.target # t => u = v,
           m.target = t => u = 0 /\ m.read = v /\ v # 0
    PROVE  InOrder(t, Append(a, m), w, n, u, FALSE, l)
<1> DEFINE b == Append(a, m)
<1>1. /\ b \in Seq(Answers) /\ Len(b) = Len(a) + 1 /\ Len(a) \in Nat
      /\ b[Len(a) + 1] = m /\ \A i \in 1..Len(a) : b[i] = a[i]
  OBVIOUS
<1>2. /\ Due(b, t) = Due(a, t)
      /\ \A i \in 1..(Len(a) + 1) : DueBefore(b, t, i) = DueBefore(a, t, i)
      /\ DueBefore(a, t, Len(a) + 1) = Due(a, t)
  <2>1. ~(m.target = t /\ m.kind # "current")
    OBVIOUS
  <2>2. Due(b, t) = Due(a, t)
    BY <2>1, DueAppend
  <2>3. \A i \in 1..(Len(a) + 1) : DueBefore(b, t, i) = DueBefore(a, t, i)
    BY <2>2 DEF DueBefore
  <2>4. DueBefore(a, t, Len(a) + 1) = Due(a, t)
    <3>1. \A i \in Due(a, t) : i < Len(a) + 1
      BY <1>1, DueFinite
    <3> QED
      BY <3>1 DEF DueBefore
  <2> QED
    BY <2>2, <2>3, <2>4
<1> HIDE DEF b
<1>3. ASSUME NEW i \in 1..Len(b), b[i].target = t, b[i].kind = "current",
             l \notin {0, b[i].read}
      PROVE  n > Cardinality(DueBefore(b, t, i))
  <2>1. CASE i \in 1..Len(a)
    BY <1>1, <1>2, <1>3, <2>1 DEF InOrder
  <2>2. CASE i = Len(a) + 1
    <3>1. n > Cardinality(Due(a, t))
      BY <1>1, <1>3, <2>2 DEF InOrder
    <3> QED
      BY <1>1, <1>2, <2>2, <3>1
  <2> QED
    BY <1>1, <2>1, <2>2
<1>4. u # 0 /\ l \notin {0, u} => n > Cardinality(Due(b, t))
  BY <1>2 DEF InOrder
<1>5. n >= Cardinality(Due(b, t)) + Cardinality(Due(w, t))
  BY <1>2 DEF InOrder
<1> QED
  BY <1>3, <1>4, <1>5 DEF InOrder, b

(* The call breaks, with answers under way.                                *)
LEMMA BrokenInOrder ==
    ASSUME NEW t, NEW a \in Seq(Answers), NEW w \in Seq(Requests),
           NEW n \in Nat, NEW v, NEW ended, NEW l,
           InOrder(t, a, w, n, v, ended, l), NEW k \in 0..Len(a)
    PROVE  InOrder(t, SubSeq(a, 1, k), w, n, v, TRUE, l)
<1> DEFINE b == SubSeq(a, 1, k)
<1>1. /\ b \in Seq(Answers) /\ Len(b) = k /\ k <= Len(a) /\ Len(a) \in Nat
      /\ \A i \in 1..k : b[i] = a[i]
  OBVIOUS
<1>2. /\ Cardinality(Due(b, t)) <= Cardinality(Due(a, t))
      /\ \A i \in 1..k : DueBefore(b, t, i) = DueBefore(a, t, i)
  BY DuePrefix
<1> HIDE DEF b
<1>3. Cardinality(Due(a, t)) \in Nat /\ Cardinality(Due(b, t)) \in Nat
      /\ Cardinality(Due(w, t)) \in Nat
  BY <1>1, DueFinite
<1>4. n >= Cardinality(Due(a, t)) + Cardinality(Due(w, t))
  BY DEF InOrder
<1>5. n >= Cardinality(Due(b, t)) + Cardinality(Due(w, t))
  BY <1>2, <1>3, <1>4
<1>6. ASSUME NEW i \in 1..Len(b), b[i].target = t, b[i].kind = "current",
             l \notin {0, b[i].read}
      PROVE  n > Cardinality(DueBefore(b, t, i))
  <2>1. i \in 1..Len(a) /\ b[i] = a[i] /\ i \in 1..k
    BY <1>1
  <2> QED
    BY <1>2, <1>6, <2>1 DEF InOrder
<1>7. \A i \in 1..Len(w) :
         w[i].target = t /\ w[i].kind = "watch" /\ l \notin {0, w[i].read}
           => \E j \in Due(w, t) : j > i
  BY DEF InOrder
<1> QED
  BY <1>5, <1>6, <1>7 DEF InOrder, b

-----------------------------------------------------------------------------
(* ListenInv, query by query.                                              *)
QueryInOrder(t) ==
    InOrder(t, listen.answers, listen.wire, outstanding[t],
            listen.serving[t], listen.ended, listening[t])

LEMMA ListenTyped ==
    ASSUME NEW x \in Listens
    PROVE  /\ x.wire \in Seq(Requests) /\ x.answers \in Seq(Answers)
           /\ x.serving \in [Targets -> Listeners] /\ x.ended \in BOOLEAN
           /\ \A i \in 1..Len(x.wire) : x.wire[i].target \in Targets
           /\ \A i \in 1..Len(x.answers) : x.answers[i].target \in Targets
           /\ DOMAIN x.wire = 1..Len(x.wire)
           /\ DOMAIN x.answers = 1..Len(x.answers)
<1>1. /\ x.wire \in Seq(Requests) /\ x.answers \in Seq(Answers)
      /\ x.serving \in [Targets -> Listeners] /\ x.ended \in BOOLEAN
  BY DEF Listens
<1>2. /\ \A i \in 1..Len(x.wire) : x.wire[i] \in Requests
      /\ \A i \in 1..Len(x.answers) : x.answers[i] \in Answers
      /\ DOMAIN x.wire = 1..Len(x.wire)
      /\ DOMAIN x.answers = 1..Len(x.answers)
  BY <1>1
<1> QED
  BY <1>1, <1>2 DEF Requests, Answers

LEMMA ListenInvParts ==
    ListenInv => WatchTypes /\ \A t \in Targets : QueryInOrder(t)
<1> SUFFICES ASSUME ListenInv, NEW t \in Targets PROVE QueryInOrder(t)
  BY DEF ListenInv
<1>1. /\ listen \in Listens /\ listening \in [Targets -> Listeners]
  BY DEF ListenInv, WatchTypes
<1>2. /\ DOMAIN listen.wire = 1..Len(listen.wire)
      /\ DOMAIN listen.answers = 1..Len(listen.answers)
  BY <1>1, ListenTyped
<1> QED
  BY <1>2 DEF ListenInv, DueCounted, OlderOutstanding, Older, QueryInOrder,
              InOrder

LEMMA ListenInvPartsNext ==
    WatchTypes' /\ (\A t \in Targets : QueryInOrder(t)') => ListenInv'
<1> SUFFICES ASSUME WatchTypes', \A t \in Targets : QueryInOrder(t)'
             PROVE  ListenInv'
  OBVIOUS
<1>1. listen' \in Listens /\ listening' \in [Targets -> Listeners]
  BY DEF WatchTypes, Listens, Listeners, Reads, Requests, Answers
<1>2. /\ \A i \in 1..Len(listen'.wire) : listen'.wire[i].target \in Targets
      /\ \A i \in 1..Len(listen'.answers) :
            listen'.answers[i].target \in Targets
      /\ DOMAIN listen'.wire = 1..Len(listen'.wire)
      /\ DOMAIN listen'.answers = 1..Len(listen'.answers)
  BY <1>1, ListenTyped
<1>3. DueCounted'
  BY DEF DueCounted, QueryInOrder, InOrder
<1>4. OlderOutstanding'
  BY <1>2 DEF OlderOutstanding, Older, QueryInOrder, InOrder
<1> QED
  BY <1>3, <1>4 DEF ListenInv

(* What an action has to say of reads, outstanding and listen; the other   *)
(* types are those of WatchInv.                                            *)
LEMMA ListenInvNext ==
    ASSUME WatchInv', reads' \in [Reads -> ReadResults],
           outstanding' \in [Targets -> Nat], listen' \in Listens,
           \A t \in Targets : QueryInOrder(t)'
    PROVE  ListenInv'
BY ListenInvPartsNext
   DEF WatchInv, WatchTypes, Reads, ReadResults, Listeners, Listens, Requests,
       Answers, Streams, States, Trackers

(* There is no call, or a new one of which nothing is known.               *)
LEMMA SilentListenInv ==
    ASSUME WatchInv', reads' \in [Reads -> ReadResults],
           outstanding' \in [Targets -> Nat], listen' = NoListen
    PROVE  ListenInv'
<1>1. listen' \in Listens /\ listen'.answers = <<>> /\ listen'.wire = <<>>
      /\ listen'.ended = FALSE /\ \A t \in Targets : listen'.serving[t] = 0
  BY DEF NoListen, Listens, Listeners
<1>2. ASSUME NEW t \in Targets PROVE QueryInOrder(t)'
  <2>1. outstanding'[t] \in Nat
    OBVIOUS
  <2>2. InOrder(t, <<>>, <<>>, outstanding'[t], 0, FALSE, listening'[t])
    BY <2>1, SilentInOrder
  <2> QED
    BY <1>1, <2>2 DEF QueryInOrder
<1> QED
  BY <1>1, <1>2, ListenInvNext

(* Nothing changes but the reads, the stream and the tracker.              *)
LEMMA SameListenInv ==
    ASSUME ListenInv, WatchInv', reads' \in [Reads -> ReadResults],
           UNCHANGED <<listening, outstanding, listen>>
    PROVE  ListenInv'
<1>1. WatchTypes /\ \A t \in Targets : QueryInOrder(t)
  BY ListenInvParts
<1>2. ASSUME NEW t \in Targets PROVE QueryInOrder(t)'
  <2>1. QueryInOrder(t)
    BY <1>1
  <2> QED
    BY <2>1 DEF QueryInOrder
<1>3. outstanding' \in [Targets -> Nat] /\ listen' \in Listens
  BY <1>1 DEF WatchTypes
<1> QED
  BY <1>2, <1>3, ListenInvNext

LEMMA OnlineTyped ==
    ASSUME ListenInv, NEW o, BecomesOnline(o)
    PROVE  reads' \in [Reads -> ReadResults]
BY DEF ListenInv, WatchTypes, BecomesOnline, AnsweredOffline, ReadResults

LEMMA NoneOutstandingTyped == NoneOutstanding \in [Targets -> Nat]
BY DEF NoneOutstanding

-----------------------------------------------------------------------------
(* The actions.  An open call gets a request for t, by a read or by the    *)
(* end of one.                                                             *)
LEMMA RequestListenInv ==
    ASSUME WatchInv', ListenInv, reads' \in [Reads -> ReadResults],
           NEW t \in Targets, NEW m \in Requests, m.target = t,
           NEW k \in {0, m.read}, listening' = [listening EXCEPT ![t] = k],
           outstanding' = [outstanding EXCEPT ![t] = MoreOutstanding(t)],
           listen' = [listen EXCEPT !.wire = Append(listen.wire, m)]
    PROVE  ListenInv'
<1>1. WatchTypes /\ \A x \in Targets : QueryInOrder(x)
  BY ListenInvParts
<1>2. /\ listen \in Listens /\ outstanding \in [Targets -> Nat]
      /\ listening \in [Targets -> Listeners]
      /\ listen.wire \in Seq(Requests) /\ listen.answers \in Seq(Answers)
  BY <1>1, ListenTyped DEF WatchTypes
<1> DEFINE w == Append(listen.wire, m)
<1>3. w \in Seq(Requests)
  BY <1>2
<1> HIDE DEF w
<1>4. /\ listen' \in Listens /\ listen'.wire = w
      /\ listen'.answers = listen.answers
      /\ listen'.serving = listen.serving /\ listen'.ended = listen.ended
  BY <1>2, <1>3 DEF Listens, w
<1>5. outstanding' \in [Targets -> Nat]
  BY <1>2 DEF MoreOutstanding
<1>6. ASSUME NEW x \in Targets PROVE QueryInOrder(x)'
  <2>1. /\ outstanding[x] \in Nat
        /\ InOrder(x, listen.answers, listen.wire, outstanding[x],
                   listen.serving[x], listen.ended, listening[x])
    BY <1>1, <1>2 DEF QueryInOrder
  <2>2. CASE x = t
    <3>1. outstanding'[x] = outstanding[x] + 1 /\ listening'[x] = k
      BY <1>2, <2>2 DEF MoreOutstanding
    <3>2. InOrder(x, listen.answers, w, outstanding[x] + 1,
                  listen.serving[x], listen.ended, k)
      BY <1>2, <2>1, <2>2, RequestInOrder DEF w
    <3> QED
      BY <1>4, <3>1, <3>2 DEF QueryInOrder
  <2>3. CASE x # t
    <3>1. outstanding'[x] = outstanding[x] /\ listening'[x] = listening[x]
      BY <1>2, <2>3
    <3>2. InOrder(x, listen.answers, w, outstanding[x],
                  listen.serving[x], listen.ended, listening[x])
      BY <1>2, <2>1, <2>3, OtherInOrder DEF w
    <3> QED
      BY <1>4, <3>1, <3>2 DEF QueryInOrder
  <2> QED
    BY <2>2, <2>3
<1> QED
  BY <1>4, <1>5, <1>6, ListenInvNext

LEMMA GetDocumentsListens ==
    ASSUME WatchInv, ListenInv, NEW t \in Targets, getDocuments(t)
    PROVE  ListenInv'
<1>0. WatchInv' /\ listening \in [Targets -> Listeners]
      /\ reads \in [Reads -> ReadResults] /\ listen \in Listens
      /\ outstanding \in [Targets -> Nat]
  BY GetDocumentsInv DEF ListenInv, WatchTypes
<1>1. reads' \in [Reads -> ReadResults]
  BY <1>0 DEF getDocuments, ReadResults
<1>2. PICK r \in Reads : listening' = [listening EXCEPT ![t] = r]
      /\ IF ~IsStarted(watch)
         THEN outstanding' = NoneOutstanding /\ listen' = listen
         ELSE IF IsOpen(watch)
         THEN /\ outstanding' = [outstanding EXCEPT ![t] = MoreOutstanding(t)]
              /\ listen' = [listen EXCEPT
                    !.wire = Append(listen.wire, Message("watch", t, r))]
         ELSE outstanding' = outstanding /\ listen' = listen
  BY DEF getDocuments
<1>3. CASE IsOpen(watch)
  <2> DEFINE m == Message("watch", t, r)
  <2>1. m \in Requests /\ m.target = t /\ r \in {0, m.read}
    BY DEF Message, Requests
  <2>2. /\ outstanding' = [outstanding EXCEPT ![t] = MoreOutstanding(t)]
        /\ listen' = [listen EXCEPT !.wire = Append(listen.wire, m)]
    BY <1>2, <1>3 DEF IsOpen, IsStarted
  <2> HIDE DEF m
  <2> QED
    BY <1>0, <1>1, <1>2, <2>1, <2>2, RequestListenInv
<1>4. CASE ~IsOpen(watch)
  <2>1. listen' = NoListen
    BY <1>2, <1>4 DEF WatchInv
  <2>2. outstanding' \in [Targets -> Nat]
    BY <1>0, <1>2, <1>4, NoneOutstandingTyped
  <2> QED
    BY <1>0, <1>1, <2>1, <2>2, SilentListenInv
<1> QED
  BY <1>3, <1>4

LEMMA StopListeningListens ==
    ASSUME WatchInv, ListenInv, NEW t \in Targets, StopListening(t)
    PROVE  ListenInv'
<1>0. WatchInv' /\ listening \in [Targets -> Listeners]
      /\ reads \in [Reads -> ReadResults] /\ listen \in Listens
      /\ outstanding \in [Targets -> Nat]
  BY StopListeningInv DEF ListenInv, WatchTypes
<1>1. reads' \in [Reads -> ReadResults] /\ listening[t] \in Reads
      /\ listening' = [listening EXCEPT ![t] = 0]
  BY <1>0 DEF StopListening, Listeners
<1>3. CASE IsOpen(watch)
  <2> DEFINE m == Message("unwatch", t, listening[t])
  <2>1. m \in Requests /\ m.target = t /\ 0 \in {0, m.read}
    BY <1>1 DEF Message, Requests
  <2>2. /\ outstanding' = [outstanding EXCEPT ![t] = MoreOutstanding(t)]
        /\ listen' = [listen EXCEPT !.wire = Append(listen.wire, m)]
    BY <1>3 DEF StopListening
  <2> HIDE DEF m
  <2> QED
    BY <1>0, <1>1, <2>1, <2>2, RequestListenInv
<1>4. CASE ~IsOpen(watch)
  <2>1. listen' = NoListen /\ outstanding' = outstanding
    BY <1>4 DEF WatchInv, StopListening
  <2> QED
    BY <1>0, <1>1, <2>1, SilentListenInv
<1> QED
  BY <1>3, <1>4

(* The call has ended, or the stream is stopped or restarted.              *)
LEMMA CloseListens ==
    ASSUME ListenInv, WatchInv', NEW s, OnWatchStreamClose(s)
    PROVE  ListenInv'
<1>1. \E o : BecomesOnline(o)
  BY DEF OnWatchStreamClose
<1>2. outstanding' = NoneOutstanding /\ listen' = NoListen
  BY DEF OnWatchStreamClose
<1> QED
  BY <1>1, <1>2, OnlineTyped, NoneOutstandingTyped, SilentListenInv

LEMMA StoppedListens ==
    ASSUME ListenInv, WatchInv', WatchStreamStopped \/ RestartWatch
    PROVE  ListenInv'
<1>1. \E o : BecomesOnline(o)
  BY DEF WatchStreamStopped, RestartWatch
<1>2. outstanding' = NoneOutstanding /\ listen' = NoListen
  BY DEF WatchStreamStopped, RestartWatch
<1> QED
  BY <1>1, <1>2, OnlineTyped, NoneOutstandingTyped, SilentListenInv

LEMMA KillListens ==
    ASSUME ListenInv, WatchKill
    PROVE  ListenInv'
<1>1. reads' \in [Reads -> ReadResults]
  BY DEF WatchKill, ListenInv, WatchTypes, ReadResults
<1>2. outstanding' = NoneOutstanding /\ listen' = NoListen /\ WatchInv'
  BY WatchKillInv DEF WatchKill
<1> QED
  BY <1>1, <1>2, NoneOutstandingTyped, SilentListenInv

LEMMA OnlineTimeoutListens ==
    ASSUME ListenInv, WatchInv', OnlineTimeout
    PROVE  ListenInv'
<1>1. /\ \E o : BecomesOnline(o)
      /\ UNCHANGED <<listening, outstanding, listen>>
  BY DEF OnlineTimeout
<1> QED
  BY <1>1, OnlineTyped, SameListenInv

LEMMA BackoffListens ==
    ASSUME ListenInv, WatchInv', WatchBackoffElapsed
    PROVE  ListenInv'
<1>1. reads' = reads /\ UNCHANGED <<listening, outstanding, listen>>
  BY DEF WatchBackoffElapsed
<1> QED
  BY <1>1, SameListenInv DEF ListenInv, WatchTypes

(* A new call: every query somebody listens to is asked for once, by the   *)
(* read that listens.                                                      *)
LEMMA OpenedInOrder ==
    ASSUME listening \in [Targets -> Listeners],
           NEW order \in SetToSeqs(Listened),
           NEW w, w = [i \in DOMAIN order |->
                         Message("watch", order[i], listening[order[i]])]
    PROVE  /\ w \in Seq(Requests)
           /\ \A t \in Targets : \A n \in Nat :
                InOrder(t, <<>>, w, IF t \in Listened THEN n + 1 ELSE n,
                        0, FALSE, listening[t])
<1> DEFINE c == Cardinality(Listened)
<1>1. Listened \subseteq Targets
  BY DEF Listened
<1>2. c \in Nat
  BY <1>1, ReadsAssumption, FS_Subset, FS_CardinalityType
<1>3. /\ order \in [1..c -> Listened]
      /\ \A i, j \in 1..c : i # j => order[i] # order[j]
  BY DEF SetToSeqs
<1> HIDE DEF c
<1>4. /\ DOMAIN w = 1..c
      /\ \A i \in 1..c : /\ w[i].kind = "watch" /\ w[i].target = order[i]
                         /\ w[i].read = listening[order[i]]
                         /\ w[i] \in Requests
  <2> SUFFICES ASSUME NEW i \in 1..c
               PROVE  /\ w[i].kind = "watch" /\ w[i].target = order[i]
                      /\ w[i].read = listening[order[i]]
                      /\ w[i] \in Requests
    BY <1>3
  <2>1. w[i] = Message("watch", order[i], listening[order[i]])
        /\ order[i] \in Listened
    BY <1>3
  <2>2. order[i] \in Targets /\ listening[order[i]] \in Reads
    BY <2>1 DEF Listened, Listeners
  <2> QED
    BY <2>1, <2>2 DEF Message, Requests
<1>5. w \in [1..c -> Requests]
  BY <1>3, <1>4
<1>6. w \in Seq(Requests) /\ Len(w) = c
  BY <1>2, <1>5
<1>7. ASSUME NEW t \in Targets, NEW n \in Nat
      PROVE  InOrder(t, <<>>, w, IF t \in Listened THEN n + 1 ELSE n,
                     0, FALSE, listening[t])
  <2> DEFINE k == IF t \in Listened THEN n + 1 ELSE n
  <2>1. k >= Cardinality(Due(w, t)) /\ Cardinality(Due(w, t)) \in Nat
    <3>1. Due(w, t) = {i \in 1..c : order[i] = t}
      BY <1>4 DEF Due
    <3>2. CASE Due(w, t) = {}
      <4>1. Cardinality(Due(w, t)) = 0 /\ k \in Nat
        BY <3>2, FS_EmptySet
      <4> QED
        BY <4>1
    <3>3. CASE Due(w, t) # {}
      <4>1. PICK i \in 1..c : order[i] = t
        BY <3>1, <3>3
      <4>2. Due(w, t) = {i}
        BY <1>3, <3>1, <4>1
      <4>3. Cardinality(Due(w, t)) = 1
        BY <4>2, FS_Singleton
      <4>4. t \in Listened
        BY <1>3, <4>1
      <4> QED
        BY <4>3, <4>4
    <3> QED
      BY <3>2, <3>3
  <2> HIDE DEF k
  <2>2. k >= Cardinality(Due(<<>>, t)) + Cardinality(Due(w, t))
    BY <2>1, DueEmpty
  <2>3. ASSUME NEW i \in 1..Len(w), w[i].target = t
        PROVE  w[i].read = listening[t]
    BY <1>4, <1>6, <2>3
  <2> QED
    BY <2>2, <2>3 DEF InOrder, k
<1> QED
  BY <1>6, <1>7

LEMMA TokenListens ==
    ASSUME WatchInv, ListenInv, NEW age, NEW ok \in BOOLEAN,
           WatchTokenArrived(age, ok)
    PROVE  ListenInv'
<1>0. WatchInv' /\ listening \in [Targets -> Listeners]
      /\ reads \in [Reads -> ReadResults] /\ listen \in Listens
      /\ outstanding \in [Targets -> Nat]
  BY TokenInv DEF ListenInv, WatchTypes
<1>1. CASE age = "old"
  <2>1. reads' = reads /\ UNCHANGED <<listening, outstanding, listen>>
    BY <1>1 DEF WatchTokenArrived
  <2> QED
    BY <1>0, <2>1, SameListenInv
<1>2. CASE age # "old" /\ ok
  <2>1. PICK order \in SetToSeqs(Listened) :
          /\ outstanding' = [t \in Targets |->
                IF t \in Listened THEN MoreOutstanding(t) ELSE outstanding[t]]
          /\ listen' = [NoListen EXCEPT !.wire =
                [i \in DOMAIN order |->
                   Message("watch", order[i], listening[order[i]])]]
          /\ UNCHANGED <<reads, listening>>
    BY <1>2 DEF WatchTokenArrived
  <2> DEFINE w == [i \in DOMAIN order |->
                     Message("watch", order[i], listening[order[i]])]
  <2>2. /\ w \in Seq(Requests)
        /\ \A t \in Targets : \A n \in Nat :
              InOrder(t, <<>>, w, IF t \in Listened THEN n + 1 ELSE n,
                      0, FALSE, listening[t])
    BY <1>0, OpenedInOrder
  <2>3. listen' = [NoListen EXCEPT !.wire = w]
    BY <2>1
  <2> HIDE DEF w
  <2>4. /\ listen' \in Listens /\ listen'.wire = w /\ listen'.answers = <<>>
        /\ listen'.ended = FALSE
        /\ \A t \in Targets : listen'.serving[t] = 0
    <3>1. listen' = [wire |-> w, serving |-> [t \in Targets |-> 0],
                     answers |-> <<>>, ended |-> FALSE, ok |-> FALSE]
      BY <2>3 DEF NoListen
    <3>2. [t \in Targets |-> 0] \in [Targets -> Listeners]
      BY DEF Listeners
    <3>3. w \in Seq(Requests) /\ <<>> \in Seq(Answers)
      BY <2>2
    <3> QED
      BY <3>1, <3>2, <3>3 DEF Listens
  <2>5. /\ outstanding' \in [Targets -> Nat]
        /\ \A t \in Targets : outstanding'[t] =
              IF t \in Listened THEN outstanding[t] + 1 ELSE outstanding[t]
    BY <1>0, <2>1 DEF MoreOutstanding
  <2>6. ASSUME NEW t \in Targets PROVE QueryInOrder(t)'
    <3>1. outstanding[t] \in Nat /\ listening'[t] = listening[t]
      BY <1>0, <2>1
    <3>2. InOrder(t, <<>>, w, outstanding'[t], 0, FALSE, listening'[t])
      BY <2>2, <2>5, <3>1
    <3> QED
      BY <2>4, <3>2 DEF QueryInOrder
  <2> QED
    BY <1>0, <2>1, <2>4, <2>5, <2>6, ListenInvNext
<1>3. CASE age # "old" /\ ~ok
  BY <1>0, <1>3, CloseListens DEF WatchTokenArrived
<1> QED
  BY <1>1, <1>2, <1>3

(* A message is read.                                                      *)
LEMMA ChangeListens ==
    ASSUME WatchInv, ListenInv, OnWatchStreamChange
    PROVE  ListenInv'
<1>0. WatchInv' /\ listening \in [Targets -> Listeners]
      /\ reads \in [Reads -> ReadResults] /\ listen \in Listens
      /\ outstanding \in [Targets -> Nat]
  BY WatchChangeInv DEF ListenInv, WatchTypes
<1> DEFINE a == listen.answers
           m == Head(a)
           b == Tail(a)
<1>1. /\ a # <<>> /\ a \in Seq(Answers) /\ listen.wire \in Seq(Requests)
      /\ m \in Answers /\ b \in Seq(Answers)
  BY <1>0, ListenTyped DEF OnWatchStreamChange
<1>2. reads' \in [Reads -> ReadResults]
  BY <1>0 DEF OnWatchStreamChange, ReadResults
<1>3. /\ outstanding' = [outstanding EXCEPT ![m.target] =
                           IF m.kind = "current" THEN @ ELSE @ - 1]
      /\ listening' = listening
      /\ listen' = [listen EXCEPT !.answers = b]
  BY DEF OnWatchStreamChange
<1> HIDE DEF a, m, b
<1>4. /\ listen' \in Listens /\ listen'.answers = b
      /\ listen'.wire = listen.wire
      /\ listen'.serving = listen.serving /\ listen'.ended = listen.ended
  BY <1>0, <1>1, <1>3 DEF Listens
<1>5. ASSUME NEW t \in Targets
      PROVE  outstanding'[t] \in Nat /\ QueryInOrder(t)'
  <2> DEFINE d == IF m.target = t /\ m.kind # "current" THEN 1 ELSE 0
  <2>1. InOrder(t, a, listen.wire, outstanding[t], listen.serving[t],
                listen.ended, listening[t])
    BY ListenInvParts DEF QueryInOrder, a
  <2>2. /\ outstanding[t] - d \in Nat
        /\ InOrder(t, b, listen.wire, outstanding[t] - d, listen.serving[t],
                   listen.ended, listening[t])
    BY <1>0, <1>1, <2>1, ReadInOrder DEF m, b
  <2>3. outstanding'[t] = outstanding[t] - d
    BY <1>0, <1>3
  <2> HIDE DEF d
  <2> QED
    BY <1>3, <1>4, <2>2, <2>3 DEF QueryInOrder
<1>6. outstanding' \in [Targets -> Nat]
  BY <1>0, <1>3, <1>5
<1> QED
  BY <1>0, <1>2, <1>4, <1>5, <1>6, ListenInvNext

(* What the backend does.                                                  *)
LEMMA BackendListens ==
    ASSUME WatchInv', ListenInv,
           UNCHANGED <<reads, listening, outstanding>>, listen' \in Listens,
           \A t \in Targets :
              InOrder(t, listen.answers, listen.wire, outstanding[t],
                      listen.serving[t], listen.ended, listening[t])
                => InOrder(t, listen'.answers, listen'.wire, outstanding[t],
                           listen'.serving[t], listen'.ended, listening[t])
    PROVE  ListenInv'
<1>1. WatchTypes /\ \A t \in Targets : QueryInOrder(t)
  BY ListenInvParts
<1>2. reads' \in [Reads -> ReadResults] /\ outstanding' \in [Targets -> Nat]
  BY <1>1 DEF WatchTypes
<1>3. ASSUME NEW t \in Targets PROVE QueryInOrder(t)'
  BY <1>1 DEF QueryInOrder
<1> QED
  BY <1>2, <1>3, ListenInvNext

LEMMA TakesListens ==
    ASSUME WatchInv', ListenInv, BackendTakes
    PROVE  ListenInv'
<1>0. listen \in Listens /\ outstanding \in [Targets -> Nat]
  BY DEF ListenInv, WatchTypes
<1> DEFINE a == listen.answers
           w == listen.wire
           q == Head(w)
           x == Tail(w)
           u == IF q.kind = "watch" THEN q.read ELSE 0
           m == Message(IF q.kind = "watch" THEN "added" ELSE "removed",
                        q.target, q.read)
           b == Append(a, m)
<1>1. /\ w # <<>> /\ w \in Seq(Requests) /\ a \in Seq(Answers)
      /\ listen.serving \in [Targets -> Listeners]
  BY <1>0, ListenTyped DEF BackendTakes
<1>2. q \in Requests /\ x \in Seq(Requests)
  BY <1>1
<1>3. q.target \in Targets /\ q.read \in Reads /\ u \in Listeners
  BY <1>2 DEF Requests, Listeners
<1>4. m \in Answers /\ m.target = q.target /\ m.kind # "current"
  BY <1>3 DEF Message, Answers
<1>5. /\ listen.ended = FALSE
      /\ listen' = [listen EXCEPT !.wire = x, !.serving[q.target] = u,
                                  !.answers = b]
  BY <1>0 DEF BackendTakes, Listens
<1> HIDE DEF x, u, m
<1>6. b \in Seq(Answers)
  BY <1>1, <1>4
<1>7. /\ listen' \in Listens /\ listen'.wire = x /\ listen'.answers = b
      /\ listen'.ended = FALSE
      /\ listen'.serving = [listen.serving EXCEPT ![q.target] = u]
  <2> HIDE DEF q, b
  <2>1. [listen.serving EXCEPT ![q.target] = u] \in [Targets -> Listeners]
    BY <1>1, <1>3
  <2> QED
    BY <1>0, <1>2, <1>3, <1>5, <1>6, <2>1 DEF Listens
<1>8. ASSUME NEW t \in Targets,
             InOrder(t, a, w, outstanding[t], listen.serving[t],
                     listen.ended, listening[t])
      PROVE  InOrder(t, b, x, outstanding[t], listen'.serving[t],
                     FALSE, listening[t])
  <2>1. /\ q.target # t => listen'.serving[t] = listen.serving[t]
        /\ q.target = t => listen'.serving[t]
                             = IF q.kind = "watch" THEN q.read ELSE 0
    BY <1>1, <1>7 DEF u
  <2>2. outstanding[t] \in Nat
    BY <1>0
  <2> QED
    BY <1>1, <1>4, <1>5, <1>8, <2>1, <2>2, TakenInOrder DEF x
<1> QED
  BY <1>7, <1>8, BackendListens DEF BackendTakes

LEMMA SendsListens ==
    ASSUME WatchInv', ListenInv, NEW s \in Targets, BackendSends(s)
    PROVE  ListenInv'
<1>0. listen \in Listens /\ outstanding \in [Targets -> Nat]
  BY DEF ListenInv, WatchTypes
<1> DEFINE a == listen.answers
           m == Message("current", s, listen.serving[s])
           b == Append(a, m)
<1>1. /\ listen.wire \in Seq(Requests) /\ a \in Seq(Answers)
      /\ listen.serving \in [Targets -> Listeners]
  BY <1>0, ListenTyped
<1>2. m \in Answers /\ m.target = s /\ m.kind = "current"
      /\ m.read = listen.serving[s] /\ m.read # 0
  BY <1>1 DEF BackendSends, Message, Answers, Listeners
<1>3. /\ listen.ended = FALSE
      /\ listen' = [listen EXCEPT !.serving[s] = 0, !.answers = b]
  BY <1>0 DEF BackendSends, Listens
<1> HIDE DEF m
<1>4. b \in Seq(Answers)
  BY <1>1, <1>2
<1>5. /\ listen' \in Listens /\ listen'.wire = listen.wire
      /\ listen'.answers = b /\ listen'.ended = FALSE
      /\ listen'.serving = [listen.serving EXCEPT ![s] = 0]
  <2> HIDE DEF b
  <2>1. [listen.serving EXCEPT ![s] = 0] \in [Targets -> Listeners]
    BY <1>1 DEF Listeners
  <2> QED
    BY <1>0, <1>3, <1>4, <2>1 DEF Listens
<1>6. ASSUME NEW t \in Targets,
             InOrder(t, a, listen.wire, outstanding[t], listen.serving[t],
                     listen.ended, listening[t])
      PROVE  InOrder(t, b, listen.wire, outstanding[t], listen'.serving[t],
                     FALSE, listening[t])
  <2>1. /\ m.target # t => listen'.serving[t] = listen.serving[t]
        /\ m.target = t => /\ listen'.serving[t] = 0
                           /\ m.read = listen.serving[t]
                           /\ listen.serving[t] # 0
    BY <1>1, <1>2, <1>5
  <2>2. outstanding[t] \in Nat
    BY <1>0
  <2> QED
    BY <1>1, <1>2, <1>3, <1>6, <2>1, <2>2, ResultsInOrder
<1> QED
  BY <1>5, <1>6, BackendListens DEF BackendSends

LEMMA BreaksListens ==
    ASSUME WatchInv', ListenInv, ListenBreaks
    PROVE  ListenInv'
<1>0. listen \in Listens /\ outstanding \in [Targets -> Nat]
  BY DEF ListenInv, WatchTypes
<1>1. PICK n \in 0..Len(listen.answers) :
         listen' = [listen EXCEPT !.answers = SubSeq(listen.answers, 1, n),
                                  !.ended = TRUE]
  BY DEF ListenBreaks
<1> DEFINE b == SubSeq(listen.answers, 1, n)
<1>2. listen.answers \in Seq(Answers) /\ listen.wire \in Seq(Requests)
  BY <1>0, ListenTyped
<1>3. b \in Seq(Answers)
  BY <1>2
<1>4. /\ listen' \in Listens /\ listen'.wire = listen.wire
      /\ listen'.answers = b /\ listen'.ended = TRUE
      /\ listen'.serving = listen.serving
  <2> HIDE DEF b
  <2> QED
    BY <1>0, <1>1, <1>3 DEF Listens, b
<1>5. ASSUME NEW t \in Targets,
             InOrder(t, listen.answers, listen.wire, outstanding[t],
                     listen.serving[t], listen.ended, listening[t])
      PROVE  InOrder(t, b, listen.wire, outstanding[t], listen.serving[t],
                     TRUE, listening[t])
  <2>1. outstanding[t] \in Nat
    BY <1>0
  <2> QED
    BY <1>2, <1>5, <2>1, BrokenInOrder
<1> QED
  BY <1>4, <1>5, BackendListens DEF ListenBreaks

LEMMA FinishesListens ==
    ASSUME WatchInv', ListenInv, ListenFinishes
    PROVE  ListenInv'
<1>0. listen \in Listens
  BY DEF ListenInv, WatchTypes
<1>1. listen' = [listen EXCEPT !.ended = TRUE, !.ok = TRUE]
  BY DEF ListenFinishes
<1>2. /\ listen' \in Listens /\ listen'.wire = listen.wire
      /\ listen'.answers = listen.answers /\ listen'.ended = TRUE
      /\ listen'.serving = listen.serving
  BY <1>0, <1>1 DEF Listens
<1>3. ASSUME NEW t \in Targets,
             InOrder(t, listen.answers, listen.wire, outstanding[t],
                     listen.serving[t], listen.ended, listening[t])
      PROVE  InOrder(t, listen.answers, listen.wire, outstanding[t],
                     listen.serving[t], TRUE, listening[t])
  BY <1>3 DEF InOrder
<1> QED
  BY <1>2, <1>3, BackendListens DEF ListenFinishes

LEMMA NextListens ==
    WatchInv /\ WatchInv' /\ ListenInv /\ [Next]_vars => ListenInv'
<1> SUFFICES ASSUME WatchInv, WatchInv', ListenInv, [Next]_vars
             PROVE  ListenInv'
  OBVIOUS
<1>1. CASE ReadStep
  <2>1. CASE WatchClient
    BY <2>1, StopListeningListens, TokenListens, BackoffListens,
       StoppedListens, OnlineTimeoutListens, ChangeListens, CloseListens
       DEF WatchClient, WatchIdleTimeout, WatchCallEnded
  <2>2. CASE WatchBackend
    BY <2>2, TakesListens, SendsListens, FinishesListens, BreaksListens
       DEF WatchBackend
  <2>3. CASE \E t \in Targets : getDocuments(t)
    BY <2>3, GetDocumentsListens
  <2> QED
    BY <1>1, <2>1, <2>2, <2>3 DEF ReadStep
<1>2. CASE UNCHANGED watchVars
  BY <1>2, SameListenInv DEF watchVars, ListenInv, WatchTypes
<1>3. CASE ConnectivityChanged \/ \E u \in Users : HandleCredentialChange(u)
  BY <1>3, StoppedListens
     DEF ConnectivityChanged, HandleCredentialChange, RestartNetwork
<1>4. CASE StoppedWhileNeeded \/ Kill
  BY <1>4, KillListens
     DEF StoppedWhileNeeded, WatchStoppedWhileNeeded, Kill
<1> QED
  BY <1>1, <1>2, <1>3, <1>4 DEF Next, vars

-----------------------------------------------------------------------------
LEMMA InitListens == Init => ListenInv
<1> SUFFICES ASSUME Init PROVE ListenInv
  OBVIOUS
<1>1. WatchTypes
  BY DEF Init, WatchInit, WatchTypes, NewStream, Streams, States, NewTracker,
         Trackers, NoListen, Listens, Listeners, NoneOutstanding, ReadResults
<1>2. /\ listen.answers = <<>> /\ listen.wire = <<>>
      /\ \A t \in Targets : outstanding[t] = 0 /\ listening[t] = 0
      /\ \A t \in Targets : listen.serving[t] = 0
  BY DEF Init, WatchInit, NoListen, NoneOutstanding
<1>3. DueCounted
  BY <1>2, DueEmpty DEF DueCounted
<1>4. OlderOutstanding
  BY <1>2 DEF OlderOutstanding
<1> QED
  BY <1>1, <1>3, <1>4 DEF ListenInv

LEMMA ListenInvHolds == Spec => [](WatchInv /\ ListenInv)
<1>1. Init => WatchInv /\ ListenInv
  BY InitWatchInv, InitListens
<1>2. WatchInv /\ ListenInv /\ [Next]_vars => WatchInv' /\ ListenInv'
  BY NextWatchInv, NextListens
<1> QED
  BY <1>1, <1>2, PTL DEF Spec

(* The reads, the targets, the watch stream, the tracker and what is under *)
(* way keep their types; no count of outstanding answers is ever negative  *)
(* (target_state.h).                                                       *)
THEOREM ReadsTyped == Spec => []WatchTypes
<1>1. ListenInv => WatchTypes
  BY DEF ListenInv
<1> QED
  BY <1>1, ListenInvHolds, PTL

(* Only a message about a query with nothing outstanding answers a read,   *)
(* and then whatever is under way belongs to the read that listens.        *)
LEMMA ChangeIsOwn ==
    ASSUME ListenInv, OnWatchStreamChange, NEW r \in Reads,
           reads[r] = "waits", reads'[r] = "server"
    PROVE  Head(listen.answers).read = r
<1> DEFINE m == Head(listen.answers)
<1>1. /\ listening \in [Targets -> Listeners] /\ listen \in Listens
      /\ reads \in [Reads -> ReadResults] /\ outstanding \in [Targets -> Nat]
  BY DEF ListenInv, WatchTypes
<1>2. /\ listen.answers \in Seq(Answers) /\ listen.answers # <<>>
      /\ 1 \in 1..Len(listen.answers) /\ listen.answers[1] = m
      /\ m \in Answers
  BY <1>1, ListenTyped DEF OnWatchStreamChange
<1>3. m.kind = "current" /\ Active(m.target) /\ r = listening[m.target]
  BY DEF OnWatchStreamChange
<1>4. m.target \in Targets
  BY <1>2 DEF Answers
<1>5. outstanding[m.target] = 0 /\ listening[m.target] # 0
  BY <1>3 DEF Active
<1>6. InOrder(m.target, listen.answers, listen.wire, outstanding[m.target],
              listen.serving[m.target], listen.ended, listening[m.target])
  BY <1>4, ListenInvParts DEF QueryInOrder
<1>7. Cardinality(DueBefore(listen.answers, m.target, 1)) \in Nat
  BY <1>2, DueFinite
<1>8. ~(outstanding[m.target]
          > Cardinality(DueBefore(listen.answers, m.target, 1)))
  BY <1>5, <1>7
<1>9. listening[m.target] \in {0, m.read}
  BY <1>2, <1>3, <1>6, <1>8 DEF InOrder
<1> QED
  BY <1>3, <1>5, <1>9

(* No other step answers a read from the backend.                          *)
LEMMA OthersAnswerNone ==
    ASSUME ListenInv, [Next]_vars, ~OnWatchStreamChange, NEW r \in Reads,
           reads[r] = "waits"
    PROVE  reads'[r] # "server"
<1>1. reads \in [Reads -> ReadResults]
  BY DEF ListenInv, WatchTypes
<1>2. ASSUME NEW o, BecomesOnline(o) PROVE reads'[r] # "server"
  BY <1>2 DEF BecomesOnline, AnsweredOffline
<1>3. ASSUME NEW s, OnWatchStreamClose(s) PROVE reads'[r] # "server"
  BY <1>2, <1>3 DEF OnWatchStreamClose
<1>4. CASE RestartWatch \/ WatchStreamStopped \/ OnlineTimeout
  BY <1>2, <1>4 DEF RestartWatch, WatchStreamStopped, OnlineTimeout
<1>5. CASE WatchKill
  BY <1>5 DEF WatchKill
<1>6. CASE UNCHANGED reads
  BY <1>6
<1>7. ASSUME NEW t \in Targets, getDocuments(t) PROVE reads'[r] # "server"
  BY <1>1, <1>7 DEF getDocuments
<1>8. ASSUME NEW age, NEW ok, WatchTokenArrived(age, ok)
      PROVE  reads'[r] # "server"
  BY <1>3, <1>8 DEF WatchTokenArrived
<1>9. CASE WatchClient
  BY <1>3, <1>4, <1>8, <1>9
     DEF WatchClient, StopListening, WatchBackoffElapsed, WatchIdleTimeout,
         WatchCallEnded
<1>10. CASE WatchBackend
  BY <1>10 DEF WatchBackend, BackendTakes, BackendSends, ListenFinishes,
               ListenBreaks
<1> QED
  BY <1>4, <1>5, <1>6, <1>7, <1>9, <1>10
     DEF Next, vars, watchVars, ReadStep, ConnectivityChanged, Kill,
         StoppedWhileNeeded, WatchStoppedWhileNeeded, HandleCredentialChange,
         RestartNetwork

(* A read that the backend answers gets the results of its own listen,     *)
(* however often its query is read again and whatever breaks in between    *)
(* (TargetState::RecordPendingTargetRequest, watch_change_aggregator.cc).  *)
THEOREM AnswersAreOwn == Spec => AnswerIsOwn
<1>1. ListenInv /\ [Next]_vars =>
         [\A r \in Reads : reads[r] = "waits" /\ reads'[r] = "server"
            => Head(listen.answers).read = r]_watchVars
  BY ChangeIsOwn, OthersAnswerNone
<1> QED
  BY <1>1, ListenInvHolds, PTL DEF Spec, AnswerIsOwn
=============================================================================
