---------------------- MODULE MCConcurrentToolExecutor ----------------------
(***************************************************************************)
(* Model-checking instance of ConcurrentToolExecutor, and the scan of      *)
(* scheduleTools written as the loop it is, against the closed form        *)
(* StartableFrom that the specification uses.                              *)
(***************************************************************************)
EXTENDS ConcurrentToolExecutor, SequencesExt

(***************************************************************************)
(* scheduleTools as a left fold over the tracked array: acc carries the    *)
(* executing set as the scan grows it, and whether the scan has broken off *)
(* at an unsafe call that cannot start.                                    *)
(***************************************************************************)
ScanStarts(que, exe, sfe) ==
  LET canStart(i, e) == e = {} \/ (i \in sfe /\ e \subseteq sfe)
      visit(acc, i) ==
        IF i \notin que \/ acc.broken THEN acc
        ELSE IF canStart(i, acc.exe) THEN [acc EXCEPT !.exe = @ \cup {i}]
        ELSE [acc EXCEPT !.broken = i \notin sfe]
      end == FoldLeft(visit, [exe |-> exe, broken |-> FALSE], [i \in 1 .. N |-> i])
  IN  end.exe \ exe

\* The closed form starts what the loop starts, whatever is queued and executing.
ASSUME StartableIsTheScan ==
  \A queue, safely \in SUBSET Calls : \A executing \in SUBSET (Calls \ queue) :
    StartableFrom(queue, executing, safely) = ScanStarts(queue, executing, safely)

=============================================================================
