------------------------ MODULE MemoryConsolidation ------------------------
(***************************************************************************)
(* The consolidation of one role's memories, which the end of a run starts *)
(* and does not wait for: consolidationTrigger.ts asks the gates,          *)
(* consolidationLock.ts takes a lock that is a row of system_config,       *)
(* memoryConsolidation.ts lets a model merge, add and remove memories      *)
(* batch by batch, and then prunes by rules.  No two statements share a    *)
(* transaction.                                                            *)
(*                                                                         *)
(* A memory stands for the facts it holds, so that what is lost can be     *)
(* seen: at first its own; a merged text holds those of the sources that   *)
(* its author has been shown.  Which ids an answer names is open: of any   *)
(* batch or none, again and again, one twice, made up.                     *)
(* SELECTs that follow each other count as one.  Ages, expiry and the gate *)
(* that counts new memories are left open: any row may be old, any number  *)
(* of rows may be enough.  The store keeps memories in agent_memory, the   *)
(* consolidation writes to agent_memories: taken for one table here.       *)
(***************************************************************************)
EXTENDS Naturals, FiniteSets

CONSTANTS
  Ids,        \* of memories
  Runs,       \* consolidations that can be in progress together
  Levels,     \* of importance, of which 0 is below the threshold for pruning
  BatchSize,  \* consolidationBatchSize
  Cap         \* maxMemoriesPerAgent

ASSUME MemoryAssumption ==
  Levels \subseteq Nat /\ 0 \in Levels /\ BatchSize \in Nat \ {0} /\ Cap \in Nat

Free == "free"      \* there is no row for the lock
Orphan == "orphan"  \* the lock holds the token of a run that is gone
Invented == "made up"  \* an id in an answer that no memory has
ASSUME NameAssumption == {Free, Orphan} \cap Runs = {} /\ Invented \notin Ids

Work == {"gather", "batch", "merge", "delete", "synthesize", "advise", "stale", "cap"}
Places == Work \cup {"idle", "select", "take", "release", "unlock", "stamp"}

VARIABLES
  rows,        \* memories in agent_memories
  used,        \* ids given out so far
  content,     \* facts that each memory holds
  importance,  \* of each memory
  lock,        \* token in the lock's row
  stale,       \* that row is older than STALE_LOCK_MS
  recent,      \* the last consolidation is less than minHoursBetween old
  pc,          \* where each run is
  seen,        \* contents it has read of what it has still to work on
  waiting,     \* memories it has gathered and not yet shown to the model
  batch,       \* memories the model has been shown
  doomed,      \* sources of a merge that it has still to delete
  fresh,       \*   history: of those two, the ones that no answer to it has named yet
  excused      \* history: facts of rows removed on advice or by the rules, of sources
               \*   whose merge was not written, of memories in groups not proper;
               \*   all, and nothing is fresh, once two runs have worked together

table == <<rows, used, content, importance>>
mutex == <<lock, stale, recent>>
local == <<seen, waiting, batch, doomed, fresh>>
vars  == <<table, mutex, pc, local, excused>>

Facts(held, memories) == UNION {held[i] : i \in memories}

TypeOK ==
  /\ rows \subseteq used /\ used \subseteq Ids
  /\ content \in [Ids -> SUBSET used] /\ importance \in [Ids -> Levels]
  /\ lock \in Runs \cup {Free, Orphan} /\ stale \in BOOLEAN /\ recent \in BOOLEAN
  /\ pc \in [Runs -> Places]
  /\ lock \in Runs => pc[lock] \in Work \cup {"release", "unlock"}
  /\ seen \in [Runs -> [Ids -> SUBSET used]] /\ waiting \in [Runs -> SUBSET used]
  /\ batch \in [Runs -> SUBSET used] /\ doomed \in [Runs -> SUBSET used]
  /\ fresh \in [Runs -> SUBSET used] /\ excused \subseteq Ids

Init ==
  /\ rows \in SUBSET Ids /\ used = rows
  /\ content = [i \in Ids |-> {i} \cap rows]
  /\ importance \in [Ids -> Levels] /\ \A i \in Ids \ rows : importance[i] = 0
  /\ lock = Free /\ stale = FALSE /\ recent = FALSE
  /\ pc = [r \in Runs |-> "idle"] /\ seen = [r \in Runs |-> [i \in Ids |-> {}]]
  /\ waiting = [r \in Runs |-> {}] /\ batch = [r \in Runs |-> {}]
  /\ doomed = [r \in Runs |-> {}] /\ fresh = [r \in Runs |-> {}]
  /\ excused = {}

-----------------------------------------------------------------------------
Go(r, place) == pc' = [pc EXCEPT ![r] = place]

Delete(removed) ==
  /\ rows' = rows \ removed
  /\ content' = [i \in Ids |-> IF i \in removed THEN {} ELSE content[i]]
  /\ importance' = [i \in Ids |-> IF i \in removed THEN 0 ELSE importance[i]]

Excuse(facts) == excused' = excused \cup facts

Remove(removed) ==
  Delete(removed) /\ Excuse(Facts(content, removed)) /\ UNCHANGED used

\* A new memory: its id is fresh, and so is the fact it holds.
Insert ==
  \E i \in Ids \ used, v \in Levels :
    /\ rows' = rows \cup {i} /\ used' = used \cup {i}
    /\ content' = [content EXCEPT ![i] = {i}]
    /\ importance' = [importance EXCEPT ![i] = v]

\* The run is over, and what it knew is gone.
Leave(r) ==
  /\ Go(r, "idle") /\ seen' = [seen EXCEPT ![r] = [i \in Ids |-> {}]]
  /\ waiting' = [waiting EXCEPT ![r] = {}] /\ batch' = [batch EXCEPT ![r] = {}]
  /\ doomed' = [doomed EXCEPT ![r] = {}] /\ fresh' = [fresh EXCEPT ![r] = {}]

\* An agent's run remembers something.
SaveMemory == Insert /\ UNCHANGED <<mutex, pc, local, excused>>

-----------------------------------------------------------------------------
\* The gates of evaluateGates, and the trigger of maybeConsolidate.
Start(r) ==
  /\ pc[r] = "idle" /\ ~recent /\ (lock = Free \/ stale) /\ Go(r, "select")
  /\ UNCHANGED <<table, mutex, local, excused>>

\* Fault variant: a lock is never given up, however old it is.
SelectLock_NeverStale(r) ==
  /\ pc[r] = "select"
  /\ Go(r, IF lock = Free THEN "take" ELSE "idle")
  /\ UNCHANGED <<table, mutex, local, excused>>

SelectLock(r) ==
  /\ pc[r] = "select"
  /\ Go(r, IF lock = Free \/ stale THEN "take" ELSE "idle")
  /\ UNCHANGED <<table, mutex, local, excused>>

\* The upsert, which replaces whatever token is there by now.
TakeLock(r) ==
  /\ pc[r] = "take" /\ lock' = r /\ stale' = FALSE /\ Go(r, "gather")
  /\ IF \E q \in Runs \ {r} : pc[q] \in Work
     THEN excused' = Ids /\ fresh' = [q \in Runs |-> {}]
     ELSE UNCHANGED <<excused, fresh>>
  /\ UNCHANGED <<table, recent, seen, waiting, batch, doomed>>

GatherSome(r, g) ==
  /\ waiting' = [waiting EXCEPT ![r] = g]
  /\ fresh' = [fresh EXCEPT ![r] = IF excused = Ids THEN {} ELSE g]
  /\ seen' = [seen EXCEPT ![r] = [i \in Ids |-> IF i \in g THEN content[i] ELSE {}]]
  /\ Go(r, "batch")

\* Fault variant: nothing to gather returns without releasing the lock.
Gather_KeepsLock(r) ==
  /\ pc[r] = "gather"
  /\ \/ \E g \in SUBSET rows \ {{}} : GatherSome(r, g)
     \/ Go(r, "idle") /\ UNCHANGED <<waiting, fresh, seen>>
  /\ UNCHANGED <<table, mutex, batch, doomed, excused>>

\* orientPhase and gatherPhase: what is not new, unimportant or old may stay
\* away.  Nothing to gather, or a SELECT that throws, ends the work.
Gather(r) ==
  /\ pc[r] = "gather"
  /\ \/ \E g \in SUBSET rows \ {{}} :
          {i \in rows : importance[i] = 0} \subseteq g /\ GatherSome(r, g)
     \/ Go(r, "release") /\ UNCHANGED <<waiting, fresh, seen>>
  /\ UNCHANGED <<table, mutex, batch, doomed, excused>>

-----------------------------------------------------------------------------
(***************************************************************************)
(* consolidatePhase: for each batch the model answers, with merges, new    *)
(* memories and removals, which are applied in this order.  An error ends  *)
(* the batch wherever it is.                                               *)
(***************************************************************************)
Forget(r, done) ==
  /\ seen' = [seen EXCEPT ![r] = [i \in Ids |-> IF i \in done THEN {} ELSE @[i]]]
  /\ fresh' = [fresh EXCEPT ![r] = @ \ done]

Ask(r) ==
  /\ pc[r] = "batch"
  /\ \E b \in SUBSET waiting[r] \ {{}} :
       /\ Cardinality(b) = BatchSize \/ (b = waiting[r] /\ Cardinality(b) < BatchSize)
       /\ waiting' = [waiting EXCEPT ![r] = @ \ b]
       /\ \/ batch' = [batch EXCEPT ![r] = b] /\ Go(r, "merge") /\ UNCHANGED <<seen, fresh>>
          \/ Forget(r, b) /\ UNCHANGED <<batch, pc>>
  /\ UNCHANGED <<table, mutex, doomed, excused>>

\* updateMemoryContent, which finds the row or not.
WriteMerged(r, keep, rest) ==
  IF keep \in rows
  THEN /\ content' = [content EXCEPT ![keep] = Facts(seen[r], batch[r] \cap (rest \cup {keep}))]
       /\ \E v \in Levels : importance' = [importance EXCEPT ![keep] = v]
  ELSE UNCHANGED <<content, importance>>

\* A group of memories of its batch, each of them named for the first time and once.
Proper(r, keep, rest) ==
  keep \notin rest /\ rest \cup {keep} \subseteq batch[r] \cap fresh[r]

\* An error of the UPDATE is swallowed: what it should have saved of the sources
\* is then only in the rows that are deleted next.
MergeInto(r, keep, rest, delete) ==
  /\ IF Proper(r, keep, rest)
     THEN \/ WriteMerged(r, keep, rest) /\ UNCHANGED excused
          \/ UNCHANGED <<content, importance>> /\ Excuse(Facts(content, rest))
     ELSE /\ WriteMerged(r, keep, rest) \/ UNCHANGED <<content, importance>>
          /\ Excuse(Facts(content, used \cap (rest \cup {keep})))
  /\ doomed' = [doomed EXCEPT ![r] = delete] /\ fresh' = [fresh EXCEPT ![r] = @ \ (rest \cup {keep})]
  /\ Go(r, IF delete = {} THEN "merge" ELSE "delete")
  /\ UNCHANGED <<rows, used, mutex, seen, waiting, batch>>

\* Fault variant: the memory that is kept is among those that are deleted.
Merge_DeletesAll(r) ==
  /\ pc[r] = "merge"
  /\ \E keep \in used : \E rest \in SUBSET used : MergeInto(r, keep, rest, rest \cup {keep})

\* The first id is kept, and nothing is asked about any of them.  Those after it
\* that no memory has are left out of rest: deleting them does nothing.
Merge(r) ==
  /\ pc[r] = "merge"
  /\ \E keep \in used \cup {Invented} : \E rest \in SUBSET used : MergeInto(r, keep, rest, rest)

\* deleteMemory, whose errors are swallowed as well.
DeleteSource(r) ==
  /\ pc[r] = "delete"
  /\ \E i \in doomed[r] :
       /\ Delete({i}) \/ UNCHANGED <<rows, content, importance>>
       /\ doomed' = [doomed EXCEPT ![r] = @ \ {i}]
       /\ Go(r, IF doomed[r] = {i} THEN "merge" ELSE "delete")
  /\ UNCHANGED <<used, mutex, seen, waiting, batch, fresh, excused>>

Synthesize(r) ==
  /\ pc[r] \in {"merge", "synthesize"} /\ Insert /\ Go(r, "synthesize")
  /\ UNCHANGED <<mutex, local, excused>>

\* contradictions_resolved and prune_ids.
FollowAdvice(r) ==
  /\ pc[r] \in {"merge", "synthesize", "advise"} /\ Go(r, "advise")
  /\ \E i \in used : Remove({i}) /\ fresh' = [fresh EXCEPT ![r] = @ \ {i}]
  /\ UNCHANGED <<mutex, seen, waiting, batch, doomed>>

EndBatch(r) ==
  /\ pc[r] \in {"merge", "synthesize", "advise"} /\ Go(r, "batch")
  /\ batch' = [batch EXCEPT ![r] = {}] /\ Forget(r, batch[r])
  /\ UNCHANGED <<table, mutex, waiting, doomed, excused>>

-----------------------------------------------------------------------------
(* prunePhase: three DELETEs, each of which may fail and remove nothing.   *)
PruneExpired(r) ==
  /\ pc[r] = "batch" /\ waiting[r] = {} /\ Go(r, "stale")
  /\ \E expired \in SUBSET rows : Remove(expired)
  /\ UNCHANGED <<mutex, local>>

PruneStale(r) ==
  /\ pc[r] = "stale" /\ Go(r, "cap")
  /\ \E old \in SUBSET {i \in rows : importance[i] = 0} : Remove(old)
  /\ UNCHANGED <<mutex, local>>

\* ORDER BY importance ASC ... OFFSET maxMemoriesPerAgent
Overflow(after) ==
  /\ Cardinality(rows \ after) = Cap
  /\ \A i \in after, k \in rows \ after : importance[i] >= importance[k]

PruneCap(r) ==
  /\ pc[r] = "cap" /\ Go(r, "release")
  /\ \E after \in SUBSET rows : (after = {} \/ Overflow(after)) /\ Remove(after)
  /\ UNCHANGED <<mutex, local>>

-----------------------------------------------------------------------------
(* releaseConsolidationLock: its SELECT, DELETE and stamp.                 *)
CheckToken(r) ==
  /\ pc[r] = "release"
  /\ \/ lock = r /\ Go(r, "unlock") /\ UNCHANGED local
     \/ lock # r /\ Leave(r)
  /\ UNCHANGED <<table, mutex, excused>>

Unlock(r) ==
  /\ pc[r] = "unlock" /\ lock' = Free /\ stale' = FALSE /\ Go(r, "stamp")
  /\ UNCHANGED <<table, recent, local, excused>>

Stamp(r) ==
  /\ pc[r] = "stamp" /\ recent' = TRUE /\ Leave(r)
  /\ UNCHANGED <<table, lock, stale, excused>>

\* The process goes down or is frozen, or a statement of the release fails.
\* Before it has looked at the lock this is as if it had found it taken.
RunDies(r) ==
  /\ pc[r] \notin {"idle", "select"} /\ Leave(r) /\ lock' = IF lock = r THEN Orphan ELSE lock
  /\ UNCHANGED <<table, stale, recent, excused>>

LockAges ==
  /\ lock # Free /\ ~stale /\ stale' = TRUE
  /\ UNCHANGED <<table, lock, recent, pc, local, excused>>

DayPasses ==
  /\ recent /\ recent' = FALSE
  /\ UNCHANGED <<table, lock, stale, pc, local, excused>>

-----------------------------------------------------------------------------
Step(r) ==
  \/ SelectLock(r) \/ TakeLock(r) \/ Gather(r) \/ Ask(r) \/ Merge(r) \/ DeleteSource(r)
  \/ Synthesize(r) \/ FollowAdvice(r) \/ EndBatch(r)
  \/ PruneExpired(r) \/ PruneStale(r) \/ PruneCap(r)
  \/ CheckToken(r) \/ Unlock(r) \/ Stamp(r)

Next ==
  \/ \E r \in Runs : Start(r) \/ Step(r) \/ RunDies(r)
  \/ SaveMemory \/ LockAges \/ DayPasses

Spec == Init /\ [][Next]_vars

(***************************************************************************)
(* Runs of the agent end again and again and remember enough for the gate  *)
(* that counts; a consolidation that goes on takes its next step; they do  *)
(* not all die between the SELECT that finds the lock to be had and the    *)
(* upsert that takes it.                                                   *)
(***************************************************************************)
FairSpec ==
  /\ Spec /\ WF_vars(LockAges) /\ WF_vars(DayPasses)
  /\ \A r \in Runs : WF_vars(Start(r)) /\ WF_vars(Step(r)) /\ SF_vars(TakeLock(r))

-----------------------------------------------------------------------------
(* What is checked.                                                        *)

\* While no two consolidations work at once (after that all is excused), no fact is
\* lost unnoticed, whatever ids the answers name: each is in a row, or went with a
\* row that the model or a rule removed, with a merge that was not written, or from
\* a memory that was itself in a group of ids not of the batch or not named for the
\* first time, which nothing in memoryConsolidation.ts lines 420-440 refuses.  A
\* group that is proper loses nothing even after one that was not, and neither do
\* deaths in the middle.
LossExplained == used \subseteq Facts(content, rows) \cup excused

\* A lock whose run has died does not stop consolidation for ever.
LockReclaimed == lock = Orphan ~> lock # Orphan

\* memoryConsolidation.ts:543 says that the cap keeps the memories of highest
\* importance: what it removes is not above what it leaves.  The order of the
\* query is ascending, and what follows its OFFSET are the most important.
KeepsImportant ==
  [][\A r \in Runs : PruneCap(r) =>
       \A i \in rows \ rows', k \in rows' : importance[i] <= importance[k]]_vars

=============================================================================
