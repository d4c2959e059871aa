------------------------------ MODULE RunLog ------------------------------
(***************************************************************************)
(* What the durable record of a conversation promises, whatever its runs   *)
(* and its browsers do.  Rows are appended and stay.  The rows of a run    *)
(* other than heartbeats tell its story in order: each kind once, with a   *)
(* higher number than those before it, and nothing after the failure.  An  *)
(* attempt is marked with an end that its rows show, a completed one may   *)
(* still turn out to have failed, and an end is never taken back.  A       *)
(* browser is told what is recorded, and what it shows once it has stopped *)
(* reading is final.                                                       *)
(***************************************************************************)
EXTENDS Naturals

CONSTANTS Runs, Unknown, Failed

VARIABLES
  rows,    \* [seq, run, kind] of what is recorded
  closed,  \* the end each run is marked with
  shown,   \* what the browser of each run shows
  settled  \* runs whose browser has stopped reading

logVars == <<rows, closed, shown, settled>>

Blank ==
  /\ rows = {} /\ closed = [r \in Runs |-> "open"]
  /\ shown = [r \in Runs |-> Unknown] /\ settled = {}

Story(r) == {e \in rows : e.run = r /\ e.kind # "beat"}

Tells(r, kind) == \E e \in rows : e.run = r /\ e.kind = kind

\* The kinds that a row of this kind can come after.
Before(kind) ==
  CASE kind = "started" -> {}
    [] kind = "result" -> {"started"}
    [] kind = "completed" -> {"started", "result"}
    [] OTHER -> {"started", "result", "completed"}

Append ==
  /\ \E row \in rows' :
       /\ rows' = rows \cup {row} /\ row.run \in Runs
       /\ \A e \in rows : e.run = row.run => e.seq # row.seq
       /\ row.kind # "beat" =>
            \A e \in Story(row.run) : e.seq < row.seq /\ e.kind \in Before(row.kind)
       /\ row.kind \in {"result", "completed"} =>
            \A kind \in Before(row.kind) : Tells(row.run, kind)
  /\ UNCHANGED <<closed, shown, settled>>

Close(r) ==
  /\ \/ /\ closed[r] = "open" /\ Tells(r, "completed")
        /\ closed' = [closed EXCEPT ![r] = "completed"]
     \/ /\ closed[r] # "failed" /\ Tells(r, "failed")
        /\ closed' = [closed EXCEPT ![r] = "failed"]
  /\ UNCHANGED <<rows, shown, settled>>

Show(r) ==
  /\ r \notin settled /\ settled' \in {settled, settled \cup {r}}
  /\ \E a \in {q \in Runs : Tells(q, "result")} \cup {Failed} :
       shown' = [shown EXCEPT ![r] = a]
  /\ UNCHANGED <<rows, closed>>

LogNext == Append \/ \E r \in Runs : Close(r) \/ Show(r)

LogSpec == Blank /\ [][LogNext]_logVars

=============================================================================
