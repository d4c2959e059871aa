---------------------- MODULE MemoryConsolidationProofs ----------------------
(***************************************************************************)
(* What holds of MemoryConsolidation for any number of memories and of     *)
(* consolidations, any batches and any cap.                                *)
(***************************************************************************)
EXTENDS MemoryConsolidation, TLAPS

\* What a run knows is empty before it has gathered, and used up as it goes.
Spent ==
  \A r \in Runs :
    /\ pc[r] \in {"idle", "select", "take", "gather", "stale", "cap"} => waiting[r] = {}
    /\ pc[r] \notin {"merge", "delete", "synthesize", "advise"} => batch[r] = {}
    /\ pc[r] # "delete" => doomed[r] = {}
    /\ fresh[r] \subseteq waiting[r] \cup batch[r]

\* What the lock is for.
OneAtATime == \A q, r \in Runs : pc[q] \in Work /\ pc[r] \in Work => q = r

\* A run that works alone has up-to-date contents of what no answer has named,
\* and the facts of the sources it is deleting are safe elsewhere.
Alone(r) ==
  /\ fresh[r] \subseteq rows /\ fresh[r] \cap doomed[r] = {}
  /\ \A i \in fresh[r] : content[i] \subseteq seen[r][i]
  /\ used \subseteq Facts(content, rows \ doomed[r]) \cup excused

Safe ==
  excused # Ids => /\ OneAtATime
                   /\ \A r \in Runs : pc[r] \in Work => Alone(r)
                   /\ used \subseteq Facts(content, rows) \cup excused

IInv == TypeOK /\ Spent /\ Safe

-----------------------------------------------------------------------------
\* What it is for a fact to be among those of some memories.
LEMMA FactsIn ==
  ASSUME NEW held, NEW memories, NEW f
  PROVE  f \in Facts(held, memories) <=> \E i \in memories : f \in held[i]
BY DEF Facts

\* More memories have more facts, and so have memories that hold more.
LEMMA FactsGrow ==
  ASSUME NEW held, NEW after, NEW memories, NEW more,
         \A i \in memories : i \in more /\ held[i] \subseteq after[i]
  PROVE  Facts(held, memories) \subseteq Facts(after, more)
BY DEF Facts

\* Facts of ids that have been given out are ids that have been given out.
LEMMA FactsUsed ==
  ASSUME NEW held \in [Ids -> SUBSET used], NEW memories \in SUBSET Ids
  PROVE  Facts(held, memories) \subseteq used
BY DEF Facts

\* The invariant holds before anything has been consolidated.
LEMMA InitInv == Init => IInv
<1> SUFFICES ASSUME Init PROVE IInv
  OBVIOUS
<1>1. TypeOK
  <2>1. content \in [Ids -> SUBSET used] /\ seen \in [Runs -> [Ids -> SUBSET used]]
    BY DEF Init
  <2>2. lock \notin Runs /\ pc \in [Runs -> Places]
    BY NameAssumption DEF Init, Places
  <2> QED  BY <2>1, <2>2 DEF Init, TypeOK
<1>2. Spent
  BY DEF Init, Spent
<1>3. used \subseteq Facts(content, rows)
  BY DEF Init, Facts
<1>4. OneAtATime /\ \A r \in Runs : pc[r] \notin Work
  BY DEF Init, OneAtATime, Work
<1> QED  BY <1>1, <1>2, <1>3, <1>4 DEF IInv, Safe

-----------------------------------------------------------------------------
(***************************************************************************)
(* Steps that leave the memories alone.                                    *)
(***************************************************************************)
\* What a run that is not at work does to its own place and to the lock is no
\* concern of one that is.
LEMMA Quiet ==
  ASSUME IInv, UNCHANGED <<table, excused>>,
         \A r \in Runs : pc'[r] \in Work =>
            /\ pc[r] \in Work /\ seen'[r] = seen[r]
            /\ fresh'[r] = fresh[r] /\ doomed'[r] = doomed[r]
  PROVE  Safe'
<1>1. excused' # Ids => OneAtATime'
  BY DEF IInv, Safe, OneAtATime
<1>2. ASSUME excused' # Ids, NEW r \in Runs, pc'[r] \in Work PROVE Alone(r)'
  BY <1>2 DEF IInv, Safe, Alone, table, Facts
<1> QED  BY <1>1, <1>2 DEF IInv, Safe, table, Facts

\* A run that ends gives up its token, whichever way it ends.
LEMMA LeaveInv ==
  ASSUME IInv, NEW r \in Runs, Leave(r),
         lock' # r, lock' = lock \/ lock' \in {Free, Orphan},
         stale' \in BOOLEAN, recent' \in BOOLEAN, UNCHANGED <<table, excused>>
  PROVE  IInv'
<1>1. TypeOK'
  BY NameAssumption, SMTT(30) DEF IInv, TypeOK, Leave, Go, Places, table
<1>2. Spent'
  BY DEF IInv, TypeOK, Spent, Leave, Go
<1>3. \A q \in Runs : pc'[q] \in Work =>
            /\ pc[q] \in Work /\ seen'[q] = seen[q]
            /\ fresh'[q] = fresh[q] /\ doomed'[q] = doomed[q]
  BY SMTT(30) DEF IInv, TypeOK, Leave, Go, Work
<1>4. Safe'
  BY <1>3, Quiet
<1> QED  BY <1>1, <1>2, <1>4 DEF IInv

\* The gates, the SELECT of the lock and the release up to its stamp.
LEMMA LockInv ==
  ASSUME IInv, NEW r \in Runs, Start(r) \/ SelectLock(r) \/ Unlock(r) \/ (CheckToken(r) /\ lock = r)
  PROVE  IInv'
<1>1. CASE Start(r)
  BY <1>1, Quiet, SMTT(30) DEF Start, Go, mutex, local, IInv, TypeOK, Spent, Places, Work, table
<1>2. CASE SelectLock(r)
  <2>1. PICK p \in {"take", "idle"} : pc' = [pc EXCEPT ![r] = p]
    BY <1>2 DEF SelectLock, Go
  <2>2. TypeOK' /\ Spent'
    BY <1>2, <2>1 DEF SelectLock, mutex, local, IInv, TypeOK, Spent, Places, Work, table
  <2>3. Safe'
    BY <1>2, <2>1, Quiet DEF SelectLock, local, IInv, TypeOK, Work
  <2> QED  BY <2>2, <2>3 DEF IInv
<1>3. CASE Unlock(r)
  <2>1. TypeOK' /\ Spent'
    BY <1>3, NameAssumption DEF Unlock, Go, local, IInv, TypeOK, Spent, Places, Work, table
  <2>2. Safe'
    BY <1>3, Quiet DEF Unlock, Go, local, IInv, TypeOK, Work
  <2> QED  BY <2>1, <2>2 DEF IInv
<1>4. CASE CheckToken(r) /\ lock = r
  <2>1. pc[r] = "release" /\ pc' = [pc EXCEPT ![r] = "unlock"] /\ UNCHANGED local
    BY <1>4 DEF CheckToken, Go
  <2>2. TypeOK' /\ Spent'
    BY <1>4, <2>1 DEF CheckToken, mutex, local, IInv, TypeOK, Spent, Places, Work, table
  <2>3. Safe'
    BY <1>4, <2>1, Quiet DEF CheckToken, local, IInv, TypeOK, Work
  <2> QED  BY <2>2, <2>3 DEF IInv
<1> QED  BY <1>1, <1>2, <1>3, <1>4

\* The ways in which a run ends.
LEMMA LeavingInv ==
  ASSUME IInv, NEW r \in Runs, (CheckToken(r) /\ lock # r) \/ Stamp(r) \/ RunDies(r)
  PROVE  IInv'
<1>1. CASE CheckToken(r) /\ lock # r
  BY <1>1, LeaveInv DEF CheckToken, mutex, IInv, TypeOK
<1>2. CASE Stamp(r)
  BY <1>2, LeaveInv DEF Stamp, IInv, TypeOK, Work
<1>3. CASE RunDies(r)
  BY <1>3, LeaveInv, NameAssumption DEF RunDies, IInv, TypeOK
<1> QED  BY <1>1, <1>2, <1>3

\* The passing of time.
LEMMA TimeInv ==
  ASSUME IInv, LockAges \/ DayPasses
  PROVE  IInv'
<1>1. TypeOK' /\ Spent'
  BY DEF LockAges, DayPasses, IInv, TypeOK, Spent, table, local
<1>2. Safe'
  BY Quiet DEF LockAges, DayPasses, local
<1> QED  BY <1>1, <1>2 DEF IInv

\* Whoever takes the lock begins with nothing, and is alone if nobody works.
LEMMA TakeInv ==
  ASSUME IInv, NEW r \in Runs, TakeLock(r)
  PROVE  IInv'
<1>1. /\ pc[r] = "take" /\ pc' = [pc EXCEPT ![r] = "gather"]
      /\ UNCHANGED <<table, seen, waiting, batch, doomed>>
  BY DEF TakeLock, Go
<1>2. CASE \E q \in Runs \ {r} : pc[q] \in Work
  <2>1. excused' = Ids /\ fresh' = [q \in Runs |-> {}]
    BY <1>2 DEF TakeLock
  <2>2. TypeOK'
    BY <1>1, <2>1 DEF TakeLock, IInv, TypeOK, Places, Work, table
  <2>3. Spent'
    BY <1>1, <2>1 DEF IInv, TypeOK, Spent
  <2> QED  BY <2>1, <2>2, <2>3 DEF IInv, Safe
<1>3. CASE \A q \in Runs \ {r} : pc[q] \notin Work
  <2>1. UNCHANGED <<excused, fresh>>
    BY <1>3 DEF TakeLock
  <2>2. TypeOK'
    BY <1>1, <2>1 DEF TakeLock, IInv, TypeOK, Places, Work, table
  <2>3. Spent'
    BY <1>1, <2>1 DEF IInv, TypeOK, Spent
  <2>4. OneAtATime' /\ \A q \in Runs : pc'[q] \in Work => q = r
    BY <1>1, <1>3 DEF OneAtATime, IInv, TypeOK
  <2>5. fresh[r] = {} /\ doomed[r] = {}
    BY <1>1 DEF IInv, Spent
  <2>6. rows \ doomed[r] = rows
    BY <2>5
  <2>7. ASSUME excused' # Ids PROVE Alone(r)'
    BY <1>1, <2>1, <2>5, <2>6, <2>7 DEF IInv, Safe, Alone, table
  <2>8. ASSUME excused' # Ids PROVE used' \subseteq Facts(content, rows)' \cup excused'
    BY <1>1, <2>1, <2>8 DEF IInv, Safe, table
  <2> QED  BY <2>2, <2>3, <2>4, <2>7, <2>8 DEF IInv, Safe
<1> QED  BY <1>2, <1>3

\* A run takes what it has read: it is up to date.
LEMMA GatherInv ==
  ASSUME IInv, NEW r \in Runs, Gather(r)
  PROVE  IInv'
<1>1. CASE Go(r, "release") /\ UNCHANGED <<waiting, fresh, seen>>
  <2>1. TypeOK' /\ Spent'
    BY <1>1 DEF Gather, Go, mutex, IInv, TypeOK, Spent, Places, Work, table
  <2>2. Safe'
    BY <1>1, Quiet DEF Gather, Go, IInv, TypeOK, Work
  <2> QED  BY <2>1, <2>2 DEF IInv
<1>2. ASSUME NEW g \in SUBSET rows, GatherSome(r, g)
      PROVE  IInv'
  <2>1. /\ pc[r] = "gather" /\ pc' = [pc EXCEPT ![r] = "batch"]
        /\ UNCHANGED <<rows, used, content, importance, batch, doomed, excused, mutex>>
    BY <1>2 DEF Gather, GatherSome, Go, table
  <2>2. /\ waiting' = [waiting EXCEPT ![r] = g]
        /\ seen' = [seen EXCEPT ![r] = [i \in Ids |-> IF i \in g THEN content[i] ELSE {}]]
    BY <1>2 DEF GatherSome
  <2>3. PICK f \in {{}, g} : fresh' = [fresh EXCEPT ![r] = f]
    BY <1>2 DEF GatherSome
  <2>4. waiting'[r] = g /\ fresh'[r] = f /\ g \subseteq used /\ used \subseteq Ids /\ batch[r] = {} /\ doomed[r] = {}
    BY <2>1, <2>2, <2>3 DEF IInv, TypeOK, Spent
  <2>5. seen' \in [Runs -> [Ids -> SUBSET used]] /\ \A i \in g : seen'[r][i] = content[i]
    BY <2>2, <2>4 DEF IInv, TypeOK
  <2>6. TypeOK'
    BY <2>1, <2>2, <2>3, <2>4, <2>5 DEF mutex, IInv, TypeOK, Places, Work
  <2>7. Spent'
    BY <2>1, <2>2, <2>3, <2>4 DEF IInv, TypeOK, Spent
  <2>8. ASSUME excused' # Ids PROVE OneAtATime' /\ \A q \in Runs : pc'[q] \in Work => q = r
    BY <2>1, <2>8 DEF IInv, TypeOK, Safe, OneAtATime, Work
  <2>9. ASSUME excused' # Ids PROVE used' \subseteq Facts(content, rows)' \cup excused'
    BY <2>1, <2>9 DEF IInv, Safe
  <2>10. ASSUME excused' # Ids PROVE Alone(r)'
    <3>1. rows \ doomed[r] = rows
      BY <2>4
    <3> QED  BY <2>1, <2>3, <2>4, <2>5, <2>9, <2>10, <3>1 DEF Alone
  <2> QED  BY <2>6, <2>7, <2>8, <2>9, <2>10 DEF IInv, Safe
<1> QED  BY <1>1, <1>2 DEF Gather

\* A run goes to p with w and b of what it had waiting and in its batch, and has
\* forgotten what is done.
Moved(r, p, w, b, done) ==
  /\ pc' = [pc EXCEPT ![r] = p] /\ waiting' = [waiting EXCEPT ![r] = w]
  /\ batch' = [batch EXCEPT ![r] = b] /\ (p = "batch" => b = {})
  /\ fresh' = [fresh EXCEPT ![r] = @ \ done] /\ waiting[r] \cup batch[r] \subseteq w \cup b \cup done
  /\ seen' = [seen EXCEPT ![r] = [i \in Ids |-> IF i \in done THEN {} ELSE @[i]]]

\* What a run still has to do shrinks or moves; the memories stay as they are.
LEMMA BatchInv ==
  ASSUME IInv, NEW r \in Runs, Ask(r) \/ EndBatch(r)
  PROVE  IInv'
<1>1. PICK p \in {"batch", "merge"}, w \in SUBSET waiting[r], b \in SUBSET (waiting[r] \cup batch[r]),
           done \in SUBSET Ids : Moved(r, p, w, b, done)
  <2>1. waiting[r] \in SUBSET Ids /\ batch[r] \in SUBSET Ids
    BY DEF IInv, TypeOK
  <2>2. CASE EndBatch(r)
    <3>1. waiting' = [waiting EXCEPT ![r] = waiting[r]]
      BY <2>2 DEF EndBatch, IInv, TypeOK
    <3>2. /\ pc' = [pc EXCEPT ![r] = "batch"] /\ batch' = [batch EXCEPT ![r] = {}]
          /\ fresh' = [fresh EXCEPT ![r] = @ \ batch[r]]
          /\ seen' = [seen EXCEPT ![r] = [i \in Ids |-> IF i \in batch[r] THEN {} ELSE @[i]]]
      BY <2>2 DEF EndBatch, Go, Forget
    <3>3. Moved(r, "batch", waiting[r], {}, batch[r])
      BY <3>1, <3>2 DEF Moved
    <3> QED  BY <2>1, <3>3
  <2>3. CASE Ask(r)
    <3>1. PICK b \in SUBSET waiting[r] :
           /\ waiting' = [waiting EXCEPT ![r] = @ \ b]
           /\ \/ batch' = [batch EXCEPT ![r] = b] /\ Go(r, "merge") /\ UNCHANGED <<seen, fresh>>
              \/ Forget(r, b) /\ UNCHANGED <<batch, pc>>
      BY <2>3 DEF Ask
    <3>2. pc[r] = "batch" /\ batch[r] = {} /\ waiting' = [waiting EXCEPT ![r] = waiting[r] \ b]
      BY <2>3, <3>1 DEF Ask, IInv, Spent
    <3>3. CASE batch' = [batch EXCEPT ![r] = b] /\ Go(r, "merge") /\ UNCHANGED <<seen, fresh>>
      <4>1. /\ fresh' = [fresh EXCEPT ![r] = @ \ {}]
            /\ seen' = [seen EXCEPT ![r] = [i \in Ids |-> IF i \in {} THEN {} ELSE @[i]]]
        BY <3>3 DEF IInv, TypeOK
      <4>2. Moved(r, "merge", waiting[r] \ b, b, {})
        BY <3>2, <3>3, <4>1 DEF Moved, Go
      <4> QED  BY <3>1, <4>2
    <3>4. CASE Forget(r, b) /\ UNCHANGED <<batch, pc>>
      <4>1. batch' = [batch EXCEPT ![r] = {}] /\ pc' = [pc EXCEPT ![r] = "batch"]
        BY <3>2, <3>4 DEF IInv, TypeOK
      <4>2. /\ fresh' = [fresh EXCEPT ![r] = @ \ b]
            /\ seen' = [seen EXCEPT ![r] = [i \in Ids |-> IF i \in b THEN {} ELSE @[i]]]
        BY <3>4 DEF Forget
      <4>3. Moved(r, "batch", waiting[r] \ b, {}, b)
        BY <3>2, <4>1, <4>2 DEF Moved
      <4> QED  BY <2>1, <3>1, <4>3
    <3> QED  BY <3>1, <3>3, <3>4
  <2> QED  BY <2>2, <2>3
<1>2. /\ pc[r] \in {"batch", "merge", "synthesize", "advise"} /\ doomed[r] = {}
      /\ UNCHANGED <<rows, used, content, importance, lock, stale, recent, doomed, excused>>
  BY DEF Ask, EndBatch, table, mutex, IInv, Spent
<1>3. waiting'[r] = w /\ batch'[r] = b /\ fresh'[r] = fresh[r] \ done
  BY <1>1 DEF Moved, IInv, TypeOK
<1>4. seen' \in [Runs -> [Ids -> SUBSET used]] /\ \A i \in Ids \ done : seen'[r][i] = seen[r][i]
  BY <1>1 DEF Moved, IInv, TypeOK
<1>5. TypeOK'
  <2>1. /\ waiting' \in [Runs -> SUBSET used] /\ batch' \in [Runs -> SUBSET used]
        /\ fresh' \in [Runs -> SUBSET used]
    BY <1>1 DEF Moved, IInv, TypeOK
  <2>2. pc' \in [Runs -> Places] /\ (lock' \in Runs => pc'[lock'] \in Work \cup {"release", "unlock"})
    BY <1>1, <1>2 DEF Moved, IInv, TypeOK, Places, Work
  <2> QED  BY <1>2, <1>4, <2>1, <2>2 DEF IInv, TypeOK
<1>6. Spent'
  <2>1. /\ pc'[r] \in {"idle", "select", "take", "gather", "stale", "cap"} => waiting'[r] = {}
        /\ pc'[r] \notin {"merge", "delete", "synthesize", "advise"} => batch'[r] = {}
        /\ pc'[r] # "delete" => doomed'[r] = {}
        /\ fresh'[r] \subseteq waiting'[r] \cup batch'[r]
    BY <1>1, <1>2, <1>3 DEF Moved, IInv, TypeOK, Spent
  <2> QED  BY <1>1, <1>2, <2>1 DEF Moved, IInv, TypeOK, Spent
<1>7. ASSUME excused' # Ids PROVE OneAtATime' /\ \A q \in Runs : pc'[q] \in Work => q = r
  BY <1>1, <1>2, <1>7 DEF Moved, IInv, TypeOK, Safe, OneAtATime, Work
<1>8. ASSUME excused' # Ids PROVE Alone(r)'
  <2>1. Alone(r) /\ fresh[r] \subseteq Ids
    BY <1>2, <1>8 DEF IInv, TypeOK, Safe, Work
  <2> QED  BY <1>2, <1>3, <1>4, <2>1 DEF Alone
<1>9. ASSUME excused' # Ids PROVE used' \subseteq Facts(content, rows)' \cup excused'
  BY <1>2, <1>9 DEF IInv, Safe
<1> QED  BY <1>5, <1>6, <1>7, <1>8, <1>9 DEF IInv, Safe

-----------------------------------------------------------------------------
(***************************************************************************)
(* Steps that change the memories.                                         *)
(***************************************************************************)
\* Outside a group that is not proper nothing is lost, since the facts of its
\* members are excused; the facts of one that is are in the row that is kept
\* before any of its sources goes, or the merge was not written.
LEMMA MergeInv ==
  ASSUME IInv, NEW r \in Runs, Merge(r)
  PROVE  IInv'
<1>1. PICK keep \in used \cup {Invented}, rest \in SUBSET used : MergeInto(r, keep, rest, rest)
  BY DEF Merge
<1> DEFINE group == rest \cup {keep}
<1>2. /\ pc[r] = "merge" /\ pc' = [pc EXCEPT ![r] = IF rest = {} THEN "merge" ELSE "delete"]
      /\ doomed' = [doomed EXCEPT ![r] = rest] /\ fresh' = [fresh EXCEPT ![r] = @ \ group]
      /\ UNCHANGED <<rows, used, lock, stale, recent, seen, waiting, batch>>
      /\ WriteMerged(r, keep, rest) \/ UNCHANGED <<content, importance>>
  BY <1>1 DEF Merge, MergeInto, Go, mutex
<1>3. /\ batch[r] \in SUBSET used /\ seen[r] \in [Ids -> SUBSET used] /\ used \subseteq Ids /\ rows \subseteq used
      /\ fresh'[r] = fresh[r] \ group /\ doomed'[r] = rest /\ doomed[r] = {} /\ excused \subseteq Ids
      /\ pc'[r] \in {"merge", "delete"} /\ (pc'[r] = "merge" => rest = {}) /\ pc' = [pc EXCEPT ![r] = pc'[r]]
      /\ pc' \in [Runs -> Places]
  BY <1>2 DEF IInv, TypeOK, Spent, Places, Work
<1>4. \A i \in Ids \ {keep} : content'[i] = content[i]
  BY <1>2 DEF WriteMerged, IInv, TypeOK
<1>5. /\ Facts(seen[r], batch[r] \cap group) \subseteq used /\ Facts(content, rest) \subseteq used
      /\ Facts(content, used \cap group) \subseteq used
  <2>1. rest \in SUBSET Ids /\ batch[r] \cap group \in SUBSET Ids /\ used \cap group \in SUBSET Ids
    BY <1>3
  <2> QED  BY <1>3, <2>1, FactsUsed DEF IInv, TypeOK
<1>6. excused \subseteq excused' /\ excused' \subseteq Ids
  BY <1>1, <1>3, <1>5 DEF MergeInto, Excuse
<1>7. TypeOK'
  <2>1. content' \in [Ids -> SUBSET used] /\ importance' \in [Ids -> Levels]
    <3>1. CASE UNCHANGED <<content, importance>>
      BY <3>1 DEF IInv, TypeOK
    <3>2. CASE WriteMerged(r, keep, rest)
      <4> HIDE DEF group
      <4>1. content' = content \/ content' = [content EXCEPT ![keep] = Facts(seen[r], batch[r] \cap group)]
        BY <3>2 DEF WriteMerged, group
      <4>2. content' \in [Ids -> SUBSET used]
        BY <1>5, <4>1 DEF IInv, TypeOK
      <4>3. importance' \in [Ids -> Levels]
        BY <3>2 DEF WriteMerged, IInv, TypeOK
      <4> QED  BY <4>2, <4>3
    <3> QED  BY <1>2, <3>1, <3>2
  <2>2. doomed' \in [Runs -> SUBSET used] /\ fresh' \in [Runs -> SUBSET used]
    BY <1>2 DEF IInv, TypeOK
  <2>3. lock' \in Runs => pc'[lock'] \in Work \cup {"release", "unlock"}
    BY <1>2, <1>3 DEF IInv, TypeOK, Work
  <2> QED  BY <1>2, <1>3, <1>6, <2>1, <2>2, <2>3 DEF IInv, TypeOK
<1>8. Spent'
  <2>1. /\ pc'[r] # "delete" => doomed'[r] = {}
        /\ fresh'[r] \subseteq waiting'[r] \cup batch'[r]
    BY <1>2, <1>3 DEF IInv, Spent
  <2> QED  BY <1>2, <1>3, <2>1 DEF IInv, TypeOK, Spent
<1>9. ASSUME excused' # Ids
      PROVE  /\ excused # Ids /\ Alone(r) /\ OneAtATime'
             /\ \A q \in Runs : pc'[q] \in Work => q = r
  BY <1>2, <1>3, <1>6, <1>9 DEF IInv, TypeOK, Safe, OneAtATime, Work
<1>10. ASSUME excused' # Ids, NEW f \in used
       PROVE  f \in Facts(content', rows \ rest) \cup excused'
  <2>1. CASE f \in excused
    BY <1>6, <2>1
  <2>2. CASE f \notin excused
    <3>1. PICK i \in rows : f \in content[i]
      BY <1>3, <1>9, <1>10, <2>2, FactsIn DEF Alone
    <3>2. CASE i \notin group
      <4>1. i \in rows \ rest /\ f \in content'[i]
        BY <1>3, <1>4, <3>1, <3>2
      <4> QED  BY <4>1, FactsIn
    <3>3. CASE i \in group /\ ~Proper(r, keep, rest)
      <4>1. f \in Facts(content, used \cap group)
        BY <1>3, <3>1, <3>3, FactsIn
      <4> QED  BY <1>1, <3>3, <4>1 DEF MergeInto, Excuse
    <3>4. CASE i \in group /\ Proper(r, keep, rest)
      <4>1. keep \in rows \ rest /\ keep \in Ids /\ group \subseteq fresh[r] /\ batch[r] \cap group = group
        BY <1>3, <1>9, <1>10, <3>4 DEF Proper, Alone
      <4>2. CASE UNCHANGED <<content, importance>> /\ Excuse(Facts(content, rest))
        <5>1. CASE i \in rest
          BY <3>1, <4>2, <5>1, FactsIn DEF Excuse
        <5>2. CASE i = keep
          BY <3>1, <4>1, <4>2, <5>2, FactsIn
        <5> QED  BY <3>4, <5>1, <5>2
      <4>3. CASE WriteMerged(r, keep, rest)
        <5>1. content'[keep] = Facts(seen[r], group)
          BY <4>1, <4>3 DEF WriteMerged, IInv, TypeOK
        <5>2. f \in seen[r][i]
          BY <1>9, <1>10, <3>1, <3>4, <4>1 DEF Alone
        <5>3. f \in content'[keep]
          BY <3>4, <5>1, <5>2, FactsIn
        <5> QED  BY <4>1, <5>3, FactsIn
      <4> QED  BY <1>1, <3>4, <4>2, <4>3 DEF MergeInto
    <3> QED  BY <3>2, <3>3, <3>4
  <2> QED  BY <2>1, <2>2
<1>11. ASSUME excused' # Ids PROVE Alone(r)'
  <2>1. \A i \in fresh'[r] : content'[i] \subseteq seen'[r][i]
    BY <1>2, <1>3, <1>4, <1>9, <1>11 DEF Alone
  <2>2. fresh'[r] \subseteq rows' /\ fresh'[r] \cap doomed'[r] = {}
    BY <1>2, <1>3, <1>9, <1>11 DEF Alone
  <2>3. used' \subseteq Facts(content', rows' \ doomed'[r]) \cup excused'
    BY <1>2, <1>3, <1>10, <1>11
  <2> QED  BY <2>1, <2>2, <2>3 DEF Alone
<1>12. ASSUME excused' # Ids PROVE used' \subseteq Facts(content, rows)' \cup excused'
  <2>1. Facts(content, rows \ doomed[r])' \subseteq Facts(content, rows)'
    BY FactsGrow
  <2> QED  BY <1>11, <1>12, <2>1 DEF Alone
<1>13. Safe'
  BY <1>9, <1>11, <1>12 DEF Safe
<1> QED  BY <1>7, <1>8, <1>13 DEF IInv

\* Sources are deleted one by one, each when its facts are elsewhere.
LEMMA DeleteInv ==
  ASSUME IInv, NEW r \in Runs, DeleteSource(r)
  PROVE  IInv'
<1>1. PICK i \in doomed[r] :
        /\ Delete({i}) \/ UNCHANGED <<rows, content, importance>>
        /\ doomed' = [doomed EXCEPT ![r] = @ \ {i}]
        /\ Go(r, IF doomed[r] = {i} THEN "merge" ELSE "delete")
  BY DEF DeleteSource
<1>2. /\ pc[r] = "delete" /\ UNCHANGED <<used, lock, stale, recent, seen, waiting, batch, fresh, excused>>
      /\ pc'[r] \in {"merge", "delete"} /\ pc' = [pc EXCEPT ![r] = pc'[r]]
      /\ doomed'[r] = doomed[r] \ {i} /\ doomed[r] \in SUBSET used
      /\ pc'[r] = "merge" => doomed'[r] = {}
  BY <1>1 DEF DeleteSource, Go, mutex, IInv, TypeOK
<1>3. /\ rows' \in {rows, rows \ {i}}
      /\ \A j \in Ids \ {i} : content'[j] = content[j]
      /\ content' \in [Ids -> SUBSET used] /\ importance' \in [Ids -> Levels]
  BY <1>1, MemoryAssumption DEF Delete, IInv, TypeOK
<1>4. TypeOK'
  <2>1. doomed' \in [Runs -> SUBSET used] /\ rows' \subseteq used
    BY <1>1, <1>2, <1>3 DEF IInv, TypeOK
  <2> QED  BY <1>2, <1>3, <2>1 DEF IInv, TypeOK, Places, Work
<1>5. Spent'
  BY <1>1, <1>2 DEF IInv, TypeOK, Spent
<1>6. ASSUME excused' # Ids PROVE OneAtATime' /\ \A q \in Runs : pc'[q] \in Work => q = r
  BY <1>2, <1>6 DEF IInv, TypeOK, Safe, OneAtATime, Work
<1>7. ASSUME excused' # Ids PROVE Alone(r)'
  <2>1. Alone(r) /\ used \subseteq Ids /\ rows \subseteq used
    BY <1>2, <1>7 DEF IInv, TypeOK, Safe, Work
  <2>2. ASSUME NEW j \in rows \ doomed[r]
        PROVE  j \in rows' \ doomed'[r] /\ content[j] \subseteq content'[j]
    BY <1>2, <1>3, <2>1
  <2>3. Facts(content, rows \ doomed[r]) \subseteq Facts(content', rows' \ doomed'[r])
    BY <2>2, FactsGrow
  <2>4. fresh'[r] \subseteq rows' /\ \A j \in fresh'[r] : content'[j] \subseteq seen'[r][j]
    BY <1>2, <1>3, <2>1 DEF Alone
  <2> QED  BY <1>2, <1>3, <2>1, <2>3, <2>4 DEF Alone
<1>8. ASSUME excused' # Ids PROVE used' \subseteq Facts(content, rows)' \cup excused'
  <2>1. Facts(content, rows \ doomed[r])' \subseteq Facts(content, rows)'
    BY FactsGrow
  <2> QED  BY <1>7, <1>8, <2>1 DEF Alone
<1> QED  BY <1>4, <1>5, <1>6, <1>7, <1>8 DEF IInv, Safe

\* A new memory: nobody has gathered its id, and its fact is in its row.
LEMMA InsertInv ==
  ASSUME IInv, Insert, UNCHANGED <<mutex, local, excused>>,
         \/ UNCHANGED pc
         \/ \E r \in Runs : /\ pc[r] \in {"merge", "synthesize"}
                            /\ pc' = [pc EXCEPT ![r] = "synthesize"]
  PROVE  IInv'
<1>1. PICK i \in Ids \ used, v \in Levels :
        /\ rows' = rows \cup {i} /\ used' = used \cup {i}
        /\ content' = [content EXCEPT ![i] = {i}] /\ importance' = [importance EXCEPT ![i] = v]
  BY DEF Insert
<1>2. content'[i] = {i} /\ \A j \in Ids \ {i} : content'[j] = content[j]
  BY <1>1 DEF IInv, TypeOK
<1>3. \A q \in Runs : pc'[q] \in Work <=> pc[q] \in Work
  BY DEF IInv, TypeOK, Work
<1>4. TypeOK'
  <2>1. content' \in [Ids -> SUBSET used'] /\ importance' \in [Ids -> Levels]
    BY <1>1 DEF IInv, TypeOK
  <2>2. /\ seen' \in [Runs -> [Ids -> SUBSET used']] /\ waiting' \in [Runs -> SUBSET used']
        /\ batch' \in [Runs -> SUBSET used'] /\ doomed' \in [Runs -> SUBSET used']
        /\ fresh' \in [Runs -> SUBSET used']
    BY <1>1 DEF IInv, TypeOK, local
  <2>3. pc' \in [Runs -> Places] /\ (lock' \in Runs => pc'[lock'] \in Work \cup {"release", "unlock"})
    BY DEF IInv, TypeOK, Places, Work, mutex
  <2> QED  BY <1>1, <2>1, <2>2, <2>3 DEF IInv, TypeOK, mutex
<1>5. Spent'
  BY DEF IInv, TypeOK, Spent, local
<1>6. ASSUME excused' # Ids PROVE OneAtATime'
  BY <1>3, <1>6 DEF IInv, Safe, OneAtATime
<1>7. ASSUME NEW memories \in SUBSET used
      PROVE  Facts(content, memories) \cup {i} \subseteq Facts(content', memories \cup {i})
  <2>1. \A j \in memories : j \in memories \cup {i} /\ content[j] \subseteq content'[j]
    BY <1>2 DEF IInv, TypeOK
  <2>2. Facts(content, memories) \subseteq Facts(content', memories \cup {i})
    BY <2>1, FactsGrow
  <2>3. i \in Facts(content', memories \cup {i})
    BY <1>2, FactsIn
  <2> QED  BY <2>2, <2>3
<1>8. ASSUME excused' # Ids, NEW q \in Runs, pc'[q] \in Work PROVE Alone(q)'
  <2>1. Alone(q) /\ UNCHANGED <<seen, fresh, doomed, excused>>
    BY <1>3, <1>8 DEF IInv, Safe, local
  <2>2. /\ fresh[q] \subseteq used /\ doomed[q] \subseteq used
        /\ rows \subseteq used /\ used \subseteq Ids
    BY DEF IInv, TypeOK
  <2>3. rows' \ doomed'[q] = (rows \ doomed[q]) \cup {i}
    BY <1>1, <2>1, <2>2
  <2>4. used' \subseteq Facts(content', rows' \ doomed'[q]) \cup excused'
    BY <1>1, <1>7, <2>1, <2>2, <2>3 DEF Alone
  <2>5. \A j \in fresh'[q] : content'[j] \subseteq seen'[q][j]
    BY <1>2, <2>1, <2>2 DEF Alone
  <2> QED  BY <1>1, <2>1, <2>2, <2>4, <2>5 DEF Alone
<1>9. ASSUME excused' # Ids PROVE used' \subseteq Facts(content, rows)' \cup excused'
  BY <1>1, <1>7, <1>9 DEF IInv, TypeOK, Safe
<1> QED  BY <1>4, <1>5, <1>6, <1>8, <1>9 DEF IInv, Safe

\* The facts of a row that is removed on purpose are excused, not lost.
LEMMA RemoveKeepsFacts ==
  ASSUME IInv, NEW removed \in SUBSET Ids, Remove(removed),
         used \subseteq Facts(content, rows) \cup excused
  PROVE  used' \subseteq Facts(content', rows') \cup excused'
<1>1. /\ rows' = rows \ removed /\ UNCHANGED used
      /\ excused' = excused \cup Facts(content, removed)
      /\ \A j \in rows' : content'[j] = content[j]
  BY DEF Remove, Excuse, Delete, IInv, TypeOK
<1>2. SUFFICES ASSUME NEW f \in used, f \notin excused
               PROVE  f \in Facts(content', rows') \cup excused'
  BY <1>1
<1>3. PICK j \in rows : f \in content[j]
  BY <1>2, FactsIn
<1>4. CASE j \in removed
  BY <1>1, <1>3, <1>4, FactsIn
<1>5. CASE j \notin removed
  BY <1>1, <1>3, <1>5, FactsIn
<1> QED  BY <1>4, <1>5

\* What any step that removes rows leaves of the invariant.
LEMMA RemoveInv ==
  ASSUME IInv, NEW r \in Runs, NEW removed \in SUBSET Ids, Remove(removed),
         UNCHANGED <<mutex, seen, waiting, batch, doomed>>, doomed[r] = {},
         pc[r] \in Work, pc' = [pc EXCEPT ![r] = pc'[r]],
         fresh' = [fresh EXCEPT ![r] = @ \ removed],
         \/ pc'[r] = "advise"
         \/ pc'[r] \in {"stale", "cap", "release"} /\ waiting[r] = {} /\ batch[r] = {}
  PROVE  IInv'
<1>1. /\ rows' = rows \ removed /\ UNCHANGED used
      /\ excused' = excused \cup Facts(content, removed)
      /\ \A j \in Ids \ removed : content'[j] = content[j]
      /\ fresh'[r] = fresh[r] \ removed
  BY DEF Remove, Excuse, Delete, IInv, TypeOK
<1>2. TypeOK'
  <2>1. content' \in [Ids -> SUBSET used] /\ importance' \in [Ids -> Levels]
    BY MemoryAssumption DEF Remove, Delete, IInv, TypeOK
  <2>2. excused' \subseteq Ids
    BY <1>1, FactsUsed DEF IInv, TypeOK
  <2>3. fresh' \in [Runs -> SUBSET used] /\ pc' \in [Runs -> Places]
    BY DEF IInv, TypeOK, Places, Work
  <2>4. lock' \in Runs => pc'[lock'] \in Work \cup {"release", "unlock"}
    BY DEF IInv, TypeOK, Work, mutex
  <2> QED  BY <1>1, <2>1, <2>2, <2>3, <2>4 DEF IInv, TypeOK, mutex
<1>3. Spent'
  BY <1>1 DEF IInv, TypeOK, Spent
<1>4. ASSUME excused' # Ids
      PROVE  excused # Ids /\ OneAtATime' /\ \A q \in Runs : pc'[q] \in Work => q = r
  BY <1>1, <1>2, <1>4 DEF IInv, TypeOK, Safe, OneAtATime
<1>5. ASSUME excused' # Ids PROVE used' \subseteq Facts(content, rows)' \cup excused'
  BY <1>4, <1>5, RemoveKeepsFacts DEF IInv, Safe
<1>6. ASSUME excused' # Ids PROVE Alone(r)'
  <2>1. Alone(r) /\ used \subseteq Ids /\ rows \subseteq used
    BY <1>4, <1>6 DEF IInv, TypeOK, Safe
  <2>2. doomed'[r] = {} /\ seen'[r] = seen[r] /\ rows' \ doomed'[r] = rows'
    OBVIOUS
  <2>3. \A j \in fresh'[r] : content'[j] \subseteq seen'[r][j]
    BY <1>1, <2>1, <2>2 DEF Alone
  <2> QED  BY <1>1, <1>5, <1>6, <2>1, <2>2, <2>3 DEF Alone
<1> QED  BY <1>2, <1>3, <1>4, <1>5, <1>6 DEF IInv, Safe

\* Advice and the three rules remove rows in that way.
LEMMA RemovingInv ==
  ASSUME IInv, NEW r \in Runs,
         FollowAdvice(r) \/ PruneExpired(r) \/ PruneStale(r) \/ PruneCap(r)
  PROVE  IInv'
<1>1. ASSUME FollowAdvice(r), NEW i \in used, Remove({i}), fresh' = [fresh EXCEPT ![r] = @ \ {i}]
      PROVE  IInv'
  <2>1. /\ pc[r] \in {"merge", "synthesize", "advise"} /\ pc' = [pc EXCEPT ![r] = "advise"]
        /\ UNCHANGED <<mutex, seen, waiting, batch, doomed>>
    BY <1>1 DEF FollowAdvice, Go
  <2>2. /\ doomed[r] = {} /\ pc[r] \in Work /\ pc'[r] = "advise" /\ pc' = [pc EXCEPT ![r] = pc'[r]]
        /\ {i} \in SUBSET Ids
    BY <2>1 DEF IInv, TypeOK, Spent, Work
  <2> QED  BY <1>1, <2>1, <2>2, RemoveInv
<1>2. ASSUME PruneExpired(r) \/ PruneStale(r) \/ PruneCap(r)
      PROVE  IInv'
  <2>1. PICK removed \in SUBSET rows : Remove(removed)
    BY <1>2 DEF PruneExpired, PruneStale, PruneCap
  <2>2. PICK p \in {"stale", "cap", "release"} : pc' = [pc EXCEPT ![r] = p]
    BY <1>2 DEF PruneExpired, PruneStale, PruneCap, Go
  <2>3. /\ pc[r] \in {"batch", "stale", "cap"} /\ waiting[r] = {}
        /\ UNCHANGED <<mutex, seen, waiting, batch, doomed, fresh>>
    BY <1>2 DEF PruneExpired, PruneStale, PruneCap, local, IInv, Spent
  <2>4. /\ doomed[r] = {} /\ batch[r] = {} /\ pc[r] \in Work
        /\ pc' = [pc EXCEPT ![r] = pc'[r]] /\ pc'[r] \in {"stale", "cap", "release"}
        /\ removed \in SUBSET Ids
    BY <2>2, <2>3 DEF IInv, TypeOK, Spent, Work
  <2>5. fresh' = [fresh EXCEPT ![r] = @ \ removed]
    <3>1. fresh[r] = {}
      BY <2>3, <2>4 DEF IInv, Spent
    <3> QED  BY <2>3, <3>1 DEF IInv, TypeOK
  <2> QED  BY <2>1, <2>3, <2>4, <2>5, RemoveInv
<1> QED  BY <1>1, <1>2 DEF FollowAdvice

-----------------------------------------------------------------------------
\* Every step preserves the invariant.
LEMMA StepInv == IInv /\ [Next]_vars => IInv'
<1> SUFFICES ASSUME IInv, [Next]_vars PROVE IInv'
  OBVIOUS
<1>1. ASSUME NEW r \in Runs, Start(r) \/ Step(r) \/ RunDies(r) PROVE IInv'
  <2>1. CASE Start(r) \/ SelectLock(r) \/ Unlock(r)
    BY <2>1, LockInv
  <2>2. CASE CheckToken(r)
    BY <2>2, LockInv, LeavingInv
  <2>3. CASE Stamp(r) \/ RunDies(r)
    BY <2>3, LeavingInv
  <2>4. CASE TakeLock(r) \/ Gather(r) \/ Ask(r) \/ EndBatch(r)
    BY <2>4, TakeInv, GatherInv, BatchInv
  <2>5. CASE Merge(r) \/ DeleteSource(r)
    BY <2>5, MergeInv, DeleteInv
  <2>6. CASE Synthesize(r)
    BY <2>6, InsertInv DEF Synthesize, Go
  <2>7. CASE FollowAdvice(r) \/ PruneExpired(r) \/ PruneStale(r) \/ PruneCap(r)
    BY <2>7, RemovingInv
  <2> QED  BY <1>1, <2>1, <2>2, <2>3, <2>4, <2>5, <2>6, <2>7 DEF Step
<1>2. CASE SaveMemory
  BY <1>2, InsertInv DEF SaveMemory
<1>3. CASE LockAges \/ DayPasses
  BY <1>3, TimeInv
<1>4. CASE UNCHANGED vars
  <2>1. TypeOK' /\ Spent'
    BY <1>4 DEF vars, table, mutex, local, IInv, TypeOK, Spent
  <2>2. Safe'
    BY <1>4, Quiet DEF vars, local
  <2> QED  BY <2>1, <2>2 DEF IInv
<1> QED  BY <1>1, <1>2, <1>3, <1>4 DEF Next

\* The inductive invariant holds in every state.
THEOREM Invariant == Spec => []IInv
BY InitInv, StepInv, PTL DEF Spec

\* The rows, the lock and what the runs know stay well formed, and a token in
\* the lock belongs to a run that is still to release it.
THEOREM TypeCorrect == Spec => []TypeOK
<1>1. IInv => TypeOK
  BY DEF IInv
<1> QED  BY Invariant, <1>1, PTL

\* No fact is lost unnoticed by consolidations that do not overlap, however many
\* there are and wherever they die: one that is in no row was in a row removed on
\* advice or by a rule, in a source whose merge was not written, or in a memory of a
\* group that was not proper.  The answers may name any ids, in any order and number.
THEOREM NothingLost == Spec => []LossExplained
<1>1. IInv => LossExplained
  <2> SUFFICES ASSUME IInv PROVE used \subseteq Facts(content, rows) \cup excused
    BY DEF LossExplained
  <2>1. CASE excused = Ids
    BY <2>1 DEF IInv, TypeOK
  <2>2. CASE excused # Ids
    BY <2>2 DEF IInv, Safe
  <2> QED  BY <2>1, <2>2
<1> QED  BY Invariant, <1>1, PTL
====
