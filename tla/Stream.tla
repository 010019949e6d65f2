------------------------------- MODULE Stream --------------------------------
(***************************************************************************)
(* remote/stream.cc of the Firestore client: the life of one of its two    *)
(* streams, as operators from a stream to the stream after the call.  The  *)
(* modules WritePipeline and WatchTargets put them together with what      *)
(* RemoteStore does when a stream tells it of an event.                    *)
(***************************************************************************)

CONSTANT Faults  \* failures that may happen

ASSUME FaultsAssumption ==
    Faults \subseteq {"token", "break", "finish", "refuse", "restart",
                      "switch", "kill"}

(* idle: the idleness timer is set.  backoff: the backoff timer is set.    *)
(* tokens: the answers of GetToken that are due, for the current start of  *)
(* the stream or, close_count_ having changed since, for an old one.       *)
(* sound: every HARD_ASSERT met so far has held.                           *)
States == {"Initial", "Starting", "Backoff", "Open", "Error"}
Streams == [state : States, idle : BOOLEAN, backoff : BOOLEAN,
            tokens : SUBSET {"current", "old"}, sound : BOOLEAN]

NewStream == [state |-> "Initial", idle |-> FALSE, backoff |-> FALSE,
              tokens |-> {}, sound |-> TRUE]

Checked(s, condition) == [s EXCEPT !.sound = @ /\ condition]

IsOpen(s) == s.state = "Open"
IsStarted(s) == s.state \in {"Starting", "Backoff", "Open"}

(* After an error the stream waits first; otherwise it asks for a token.   *)
Start(s) ==
    IF s.state = "Error"
    THEN [s EXCEPT !.state = "Backoff", !.backoff = TRUE]
    ELSE [Checked(s, s.state = "Initial")
            EXCEPT !.state = "Starting", !.tokens = @ \cup {"current"}]

BackoffElapsed(s) ==
    Start([Checked(s, s.state = "Backoff")
             EXCEPT !.state = "Initial", !.backoff = FALSE])

(* Mutant: the close count is not compared.                               *)
MutOldTokenUsed(s, age) ==
    [Checked(s, s.state = "Starting")
       EXCEPT !.state = "Open", !.tokens = @ \ {age}]

(* A token for an old start is dropped.  Otherwise the call is started,    *)
(* which opens the stream at once.                                         *)
ResumeStart(s, age) ==
    IF age = "old" THEN [s EXCEPT !.tokens = @ \ {"old"}]
    ELSE [Checked(s, s.state = "Starting")
            EXCEPT !.state = "Open", !.tokens = @ \ {"current"}]

InhibitBackoff(s) ==
    [Checked(s, ~IsStarted(s)) EXCEPT !.state = "Initial"]

MarkIdle(s) == [s EXCEPT !.idle = @ \/ IsOpen(s)]

Written(s) == [Checked(s, IsOpen(s)) EXCEPT !.idle = FALSE]

(* Both timers are cancelled, and what comes from GetToken will be old.    *)
(* Only an error is waited for: a call that has ended with OK, whoever has *)
(* ended it, leaves the stream as Stop does.                               *)
Close(s, ok) ==
    [Checked(s, IsStarted(s))
       EXCEPT !.idle = FALSE, !.backoff = FALSE,
              !.tokens = IF @ = {} THEN {} ELSE {"old"},
              !.state = IF ok THEN "Initial" ELSE "Error"]

(* Stopping is idempotent.                                                 *)
Stop(s) == IF IsStarted(s) THEN Close(s, TRUE) ELSE s
=============================================================================
