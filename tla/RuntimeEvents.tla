--------------------------- MODULE RuntimeEvents ---------------------------
(***************************************************************************)
(* The dashboard's chat: POST /run/stream records what a run does in       *)
(* run_events (runtimeEventStore.ts) and sends it to the browser as it     *)
(* goes, a timer adds heartbeats, and a browser whose stream ended too     *)
(* early reads the rest from run_events by GET /run/events.                *)
(*                                                                         *)
(* All runs are of one conversation, that is of one user and one agent,    *)
(* and so of one session: its rows are numbered together, but the index    *)
(* that keeps numbers apart is on the attempt.  A row is appended by one   *)
(* statement, which others can overlap: it takes its number when it starts *)
(* and meets the index when it ends.                                       *)
(*                                                                         *)
(* The rows of a stretch of the handler in which only the text differs     *)
(* count as one, and so do the rows that the catch records, the last of    *)
(* which is run_failed.  "completed" is any end with a result, also one    *)
(* that waits for approval.  Beats bounds the heartbeats of a run, of      *)
(* which one at a time is on its way.                                      *)
(***************************************************************************)
EXTENDS Naturals

CONSTANTS
  Runs,       \* of the conversation
  Watched,    \* those whose browser is looked at
  Beats,      \* bound on the heartbeats of a run
  MaxReplays  \* how often a browser asks for the rest

Unknown == "unknown"  \* the client has no answer yet
Failed == "failed"    \* it shows an error

ASSUME RuntimeAssumption ==
  /\ Watched \subseteq Runs /\ Beats \in Nat /\ MaxReplays \in Nat \ {0}
  /\ {Unknown, Failed} \cap Runs = {}

Writers == {"main", "beat"}
Kinds == {"started", "beat", "result", "completed", "failed"}
Sent == {"started", "beat", "result", "failed"}

\* Places of the handler; those that are kinds append a row of that kind.
Places == {"new", "started", "result", "completed", "mark",
           "failed", "markFailed", "ended", "caught", "dead"}
Appends == Places \cap Kinds
InTry == {"started", "result", "completed", "mark"}
Over == {"new", "ended", "caught", "dead"}

VARIABLES
  events,  \* rows of run_events in the session
  status,  \* the end that the attempt of each run has been marked with
  pc,      \* where its handler is
  at,      \* where the append of each writer of the run is
  num,     \* the number that append has taken
  beats,   \* heartbeats of the run so far
  client,  \* what its browser does
  cursor,  \* lastSeq of the browser
  answer,  \* what it shows: the result of a run, or an error
  tries,   \* replays so far
  cut      \* the stream broke, or the handler died

handler == <<status, pc>>
appends == <<at, num>>
browser == <<client, cursor, answer, tries, cut>>
vars == <<events, handler, appends, beats, browser>>

Rows == [seq : Nat, run : Runs, kind : Kinds]

TypeOK ==
  /\ events \subseteq Rows
  /\ status \in [Runs -> {"open", "completed", "failed"}]
  /\ pc \in [Runs -> Places]
  /\ at \in [Runs -> [Writers -> {"idle", "insert", "send"}]]
  /\ num \in [Runs -> [Writers -> Nat]] /\ beats \in [Runs -> 0 .. Beats]
  /\ client \in [Runs -> {"idle", "live", "replay", "done"}]
  /\ cursor \in [Runs -> Nat] /\ answer \in [Runs -> Runs \cup {Unknown, Failed}]
  /\ tries \in [Runs -> 0 .. MaxReplays] /\ cut \in [Runs -> BOOLEAN]

Init ==
  /\ events = {} /\ status = [r \in Runs |-> "open"] /\ pc = [r \in Runs |-> "new"]
  /\ at = [r \in Runs |-> [w \in Writers |-> "idle"]]
  /\ num = [r \in Runs |-> [w \in Writers |-> 0]] /\ beats = [r \in Runs |-> 0]
  /\ client = [r \in Runs |-> "idle"] /\ cursor = [r \in Runs |-> 0]
  /\ answer = [r \in Runs |-> Unknown] /\ tries = [r \in Runs |-> 0]
  /\ cut = [r \in Runs |-> FALSE]

-----------------------------------------------------------------------------
Go(r, place) == pc' = [pc EXCEPT ![r] = place]

Later(m, n) == IF m > n THEN m ELSE n

\* ensureRuntimeSession, createRuntimeAttempt and the run_created row, none of
\* which is in the try: when one fails the browser gets a 500.
Begin(r) ==
  /\ pc[r] = "new"
  /\ \/ /\ Go(r, "started") /\ UNCHANGED answer
        /\ client' = IF r \in Watched THEN [client EXCEPT ![r] = "live"] ELSE client
     \/ /\ Go(r, "dead") /\ client' = [client EXCEPT ![r] = "done"]
        /\ answer' = [answer EXCEPT ![r] = Failed]
  /\ UNCHANGED <<events, status, appends, beats, cursor, tries, cut>>

-----------------------------------------------------------------------------
(***************************************************************************)
(* appendRuntimeEvent, which both writers of a run call: the INSERT begins *)
(* by reading MAX(stream_seq) of the session, and ends on the unique index *)
(* (attempt_id, stream_seq); an UPDATE of the session follows, then the    *)
(* event is sent.                                                          *)
(***************************************************************************)
KindOf(r, w) == IF w = "beat" THEN "beat" ELSE pc[r]

StartAppend(r, w) ==
  /\ at[r][w] = "idle"
  /\ IF w = "beat"
     THEN /\ pc[r] \notin Over /\ beats[r] < Beats
          /\ beats' = [beats EXCEPT ![r] = @ + 1]
     ELSE pc[r] \in Appends /\ UNCHANGED beats
  /\ \E m \in {0} \cup {e.seq : e \in events} :
       /\ \A e \in events : e.seq <= m
       /\ num' = [num EXCEPT ![r][w] = m + 1]
  /\ at' = [at EXCEPT ![r][w] = "insert"]
  /\ UNCHANGED <<events, handler, browser>>

\* What the handler does after an append; before "result" the agent runs.
After(place) ==
  CASE place = "started" -> "result"
    [] place = "result" -> "completed"
    [] place = "completed" -> "mark"
    [] place = "failed" -> "markFailed"

Clash(r, w) == at[r][w] = "insert" /\ \E e \in events : e.run = r /\ e.seq = num[r][w]

\* Fault variant: a row that meets the index is left out (DO NOTHING).
InsertRow_Skips(r, w) ==
  /\ at[r][w] = "insert"
  /\ events' = IF Clash(r, w) THEN events
               ELSE events \cup {[seq |-> num[r][w], run |-> r, kind |-> KindOf(r, w)]}
  /\ IF KindOf(r, w) \in Sent
     THEN at' = [at EXCEPT ![r][w] = "send"] /\ UNCHANGED <<num, pc>>
     ELSE /\ at' = [at EXCEPT ![r][w] = "idle"] /\ num' = [num EXCEPT ![r][w] = 0]
          /\ Go(r, After(pc[r]))
  /\ UNCHANGED <<status, beats, browser>>

\* An event of a kind that is not sent is done once its row is in.
InsertRow(r, w) ==
  /\ at[r][w] = "insert" /\ ~Clash(r, w)
  /\ events' = events \cup {[seq |-> num[r][w], run |-> r, kind |-> KindOf(r, w)]}
  /\ IF KindOf(r, w) \in Sent
     THEN at' = [at EXCEPT ![r][w] = "send"] /\ UNCHANGED <<num, pc>>
     ELSE /\ at' = [at EXCEPT ![r][w] = "idle"] /\ num' = [num EXCEPT ![r][w] = 0]
          /\ Go(r, After(pc[r]))
  /\ UNCHANGED <<status, beats, browser>>

Listening(r) == client[r] = "live" /\ pc[r] \notin Over

\* The browser's applyStreamEvent for an event of its stream.
Hear(r, kind, seq) ==
  /\ cursor' = [cursor EXCEPT ![r] = Later(@, seq)]
  /\ answer' = [answer EXCEPT ![r] = IF kind = "result" THEN r
                                     ELSE IF kind = "failed" THEN Failed ELSE @]

\* Fault variant: the result is recorded, but not emitted.
SendEvent_ResultUnsent(r, w) ==
  /\ at[r][w] = "send"
  /\ at' = [at EXCEPT ![r][w] = "idle"] /\ num' = [num EXCEPT ![r][w] = 0]
  /\ IF w = "main" THEN Go(r, After(pc[r])) ELSE UNCHANGED pc
  /\ IF Listening(r) /\ KindOf(r, w) # "result"
     THEN Hear(r, KindOf(r, w), num[r][w]) ELSE UNCHANGED <<cursor, answer>>
  /\ UNCHANGED <<events, status, beats, client, tries, cut>>

SendEvent(r, w) ==
  /\ at[r][w] = "send"
  /\ at' = [at EXCEPT ![r][w] = "idle"] /\ num' = [num EXCEPT ![r][w] = 0]
  /\ IF w = "main" THEN Go(r, After(pc[r])) ELSE UNCHANGED pc
  /\ IF Listening(r) THEN Hear(r, KindOf(r, w), num[r][w])
                     ELSE UNCHANGED <<cursor, answer>>
  /\ UNCHANGED <<events, status, beats, client, tries, cut>>

-----------------------------------------------------------------------------
\* markRuntimeAttemptTerminal after run_completed; the session's mark, which
\* follows, may still fail.
Mark(r) ==
  /\ pc[r] = "mark" /\ status' = [status EXCEPT ![r] = "completed"]
  /\ Go(r, "ended") \/ Go(r, "failed")
  /\ UNCHANGED <<events, appends, beats, browser>>

MarkFailed(r) ==
  /\ pc[r] = "markFailed" /\ status' = [status EXCEPT ![r] = "failed"]
  /\ Go(r, "caught") \/ Go(r, "dead")
  /\ UNCHANGED <<events, appends, beats, browser>>

\* An INSERT that meets the index, or any statement that fails, the agent's
\* run included: the catch of the try records and sends the error.
Throw(r) ==
  /\ pc[r] \in InTry /\ Go(r, "failed")
  /\ at' = [at EXCEPT ![r]["main"] = "idle"] /\ num' = [num EXCEPT ![r]["main"] = 0]
  /\ UNCHANGED <<events, status, beats, browser>>

\* Whatever takes the process away: an error in the catch, which json() of the
\* server cannot answer any more; a heartbeat's append that fails, whose promise
\* nobody holds; a shutdown.
Die(r) ==
  /\ pc[r] \notin Over /\ Go(r, "dead") /\ cut' = [cut EXCEPT ![r] = TRUE]
  /\ at' = [at EXCEPT ![r] = [w \in Writers |-> "idle"]]
  /\ num' = [num EXCEPT ![r] = [w \in Writers |-> 0]]
  /\ UNCHANGED <<events, status, beats, client, cursor, answer, tries>>

-----------------------------------------------------------------------------
\* The reader is done: with a terminal event the browser shows what it got,
\* without one it turns to the recorded events.
Done(r) ==
  client' = [client EXCEPT ![r] = IF answer[r] = Unknown THEN "replay" ELSE "done"]

\* Fault variant: res.end() is not in a finally.
StreamEnds_NotCaught(r) ==
  /\ client[r] = "live" /\ pc[r] \in {"ended", "dead"} /\ Done(r)
  /\ UNCHANGED <<events, handler, appends, beats, cursor, answer, tries, cut>>

StreamEnds(r) ==
  /\ client[r] = "live" /\ pc[r] \in Over /\ Done(r)
  /\ UNCHANGED <<events, handler, appends, beats, cursor, answer, tries, cut>>

\* The connection goes: closed by a proxy it ends like any other, torn it is an
\* error, which is shown whatever was received.
StreamBreaks(r) ==
  /\ client[r] = "live" /\ cut' = [cut EXCEPT ![r] = TRUE]
  /\ \/ Done(r) /\ UNCHANGED answer
     \/ client' = [client EXCEPT ![r] = "done"] /\ answer' = [answer EXCEPT ![r] = Failed]
  /\ UNCHANGED <<events, handler, appends, beats, cursor, tries>>

(***************************************************************************)
(* replayMissedEvents: GET /run/events returns the rows of the session     *)
(* above the cursor in the order of their numbers, and applyStreamEvent is *)
(* given them all, whichever run they are of.                              *)
(***************************************************************************)
Missed(r) == {e \in events : e.seq > cursor[r]}

OfKind(rows, kind) == {e \in rows : e.kind = kind}

Terminal(rows) == \E e \in rows : e.kind \in {"result", "completed", "failed"}

\* What the browser makes of these rows; the last result replaces any other.
Reads(rows, last) ==
  IF OfKind(rows, "failed") # {} THEN {Failed}
  ELSE IF OfKind(rows, "result") # {}
  THEN {e.run : e \in {d \in OfKind(rows, "result") :
                        \A o \in OfKind(rows, "result") : o.seq <= d.seq}}
  ELSE IF Terminal(rows) \/ last THEN {Failed} ELSE {Unknown}

\* Fault variant: replays are not counted.
Replay_Endless(r) ==
  /\ client[r] = "replay" /\ tries' = [tries EXCEPT ![r] = @ + 1]
  /\ \E m \in {cursor[r]} \cup {e.seq : e \in Missed(r)} :
       (\A e \in Missed(r) : e.seq <= m) /\ cursor' = [cursor EXCEPT ![r] = m]
  /\ \E a \in Reads(Missed(r), FALSE) :
       /\ answer' = [answer EXCEPT ![r] = a]
       /\ client' = [client EXCEPT ![r] = IF a = Unknown THEN @ ELSE "done"]
  /\ UNCHANGED <<events, handler, appends, beats, cut>>

Replay(r) ==
  /\ client[r] = "replay" /\ tries' = [tries EXCEPT ![r] = @ + 1]
  /\ \E m \in {cursor[r]} \cup {e.seq : e \in Missed(r)} :
       (\A e \in Missed(r) : e.seq <= m) /\ cursor' = [cursor EXCEPT ![r] = m]
  /\ \E a \in Reads(Missed(r), tries[r] + 1 = MaxReplays) :
       /\ answer' = [answer EXCEPT ![r] = a]
       /\ client' = [client EXCEPT ![r] = IF a = Unknown THEN @ ELSE "done"]
  /\ UNCHANGED <<events, handler, appends, beats, cut>>

ReplayFails(r) ==
  /\ client[r] = "replay" /\ client' = [client EXCEPT ![r] = "done"]
  /\ answer' = [answer EXCEPT ![r] = Failed]
  /\ UNCHANGED <<events, handler, appends, beats, cursor, tries, cut>>

-----------------------------------------------------------------------------
Next ==
  \E r \in Runs :
    \/ Begin(r) \/ Mark(r) \/ MarkFailed(r) \/ Throw(r) \/ Die(r)
    \/ \E w \in Writers : StartAppend(r, w) \/ InsertRow(r, w) \/ SendEvent(r, w)
    \/ StreamEnds(r) \/ StreamBreaks(r) \/ Replay(r) \/ ReplayFails(r)

Spec == Init /\ [][Next]_vars

\* An append of the handler that meets the index does not wait there.
ThrowOnClash(r) == Clash(r, "main") /\ (Throw(r) \/ Die(r))

(***************************************************************************)
(* A handler goes on, and its agent returns (the worker's runs are         *)
(* supervised); a browser reads what there is, and the next replay is a    *)
(* second away.                                                            *)
(***************************************************************************)
FairSpec ==
  /\ Spec
  /\ \A r \in Runs :
       /\ WF_vars(Mark(r)) /\ WF_vars(MarkFailed(r))
       /\ WF_vars(StartAppend(r, "main")) /\ WF_vars(InsertRow(r, "main"))
       /\ WF_vars(SendEvent(r, "main")) /\ WF_vars(ThrowOnClash(r))
       /\ WF_vars(StreamEnds(r)) /\ WF_vars(Replay(r))

-----------------------------------------------------------------------------
(* What is checked.                                                        *)

\* However appends overlap, fail and die, and whatever a browser reads: rows, the
\* ends that attempts are marked with and what browsers show keep the promise of
\* RunLog.  appendRuntimeEvent, markRuntimeAttemptTerminal, Chat.tsx.
Log == INSTANCE RunLog WITH
  rows <- events, closed <- status, shown <- answer,
  settled <- {r \in Runs : client[r] = "done"}

ImplementsRunLog == Log!LogSpec

\* Whatever other runs of the conversation do, and however heartbeats come in
\* between: when the handler has gone through without an error, a browser whose
\* stream was not cut shows the run's own result.
WholeStreamAnswers ==
  \A r \in Runs : client[r] = "done" /\ pc[r] = "ended" /\ ~cut[r] => answer[r] = r

\* Every browser stops waiting: with an answer or with an error.
ClientEnds == \A r \in Runs : client[r] = "live" ~> client[r] = "done"

\* Chat.tsx:1155 says that a stream which ended too early is recovered from the
\* durable events: what a browser then shows is the result of its own run.
OwnAnswer == \A r \in Runs : answer[r] \in {r, Unknown, Failed}

=============================================================================
