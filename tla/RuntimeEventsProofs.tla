------------------------ MODULE RuntimeEventsProofs ------------------------
(***************************************************************************)
(* Proofs about RuntimeEvents, for any number of runs in a conversation,   *)
(* of heartbeats and of replays.                                           *)
(***************************************************************************)
EXTENDS RuntimeEvents, TLAPS

(***************************************************************************)
(* The inductive invariant.  Rows are never removed, so what has been      *)
(* recorded at a place of the handler is recorded from there on; the row   *)
(* of run_completed follows that of the result because its number is taken *)
(* after the result is in; and a browser whose stream is whole listens     *)
(* while the handler is at work.                                           *)
(***************************************************************************)
Closed(r) ==
  \E d, e \in events : /\ d.run = r /\ d.kind = "result" /\ d.seq < e.seq
                       /\ e.run = r /\ e.kind = "completed"

Has(r, kind) == \E e \in events : e.run = r /\ e.kind = kind

Appending(r) ==
  /\ at[r]["main"] # "idle" => pc[r] \in Appends
  /\ at[r]["main"] = "send" => pc[r] \in Sent /\ Has(r, pc[r])

Numbered(r) ==
  pc[r] = "completed" /\ at[r]["main"] = "insert" =>
    \E d \in events : d.run = r /\ d.kind = "result" /\ d.seq < num[r]["main"]

Written(r) ==
  /\ pc[r] \in {"completed", "mark", "ended"} => Has(r, "result")
  /\ pc[r] \in {"mark", "ended"} => Closed(r)
  /\ pc[r] = "markFailed" => Has(r, "failed")

Claimed(r) ==
  /\ status[r] = "completed" => Closed(r)
  /\ status[r] = "failed" => Has(r, "failed")
  /\ answer[r] \in Runs => Has(answer[r], "result")

Watching(r) ==
  /\ pc[r] = "new" => client[r] = "idle"
  /\ ~cut[r] =>
    /\ pc[r] \notin {"ended", "caught", "dead"} => client[r] \in {"idle", "live"}
    /\ pc[r] \in {"completed", "mark", "ended"} /\ client[r] # "idle" =>
         answer[r] = r /\ client[r] # "replay"

IInv ==
  /\ TypeOK
  /\ \A r \in Runs : Appending(r) /\ Numbered(r) /\ Written(r) /\ Claimed(r) /\ Watching(r)

-----------------------------------------------------------------------------
\* Rows stay, so what is in them stays.
LEMMA RowsStay ==
  ASSUME events \subseteq events', NEW r, NEW kind
  PROVE  (Closed(r) => Closed(r)') /\ (Has(r, kind) => Has(r, kind)')
BY DEF Closed, Has

\* What the browser makes of the rows it missed is an answer that is recorded.
LEMMA ReadsRecorded ==
  ASSUME NEW rows \in SUBSET events, events \subseteq Rows, NEW last,
         NEW a \in Reads(rows, last)
  PROVE  /\ a \in Runs \cup {Unknown, Failed}
         /\ a \in Runs => Has(a, "result")
BY RuntimeAssumption DEF Reads, OfKind, Rows, Has, Unknown, Failed

THEOREM InitHolds == Init => IInv
BY RuntimeAssumption DEF Init, IInv, TypeOK, Appending, Numbered, Written, Claimed, Watching,
   Places, Writers, Unknown, Failed, Rows

-----------------------------------------------------------------------------
(* Each action keeps the invariant.                                        *)
LEMMA BeginKeeps ==
  ASSUME IInv, NEW r \in Runs, Begin(r)
  PROVE  IInv'
<1>1. /\ pc[r] = "new"
      /\ UNCHANGED <<events, status, at, num, beats, cursor, tries, cut>>
  BY DEF Begin, appends
<1>2. CASE Go(r, "started") /\ answer' = answer
            /\ client' \in {client, [client EXCEPT ![r] = "live"]}
  <2>1. TypeOK'
    BY <1>1, <1>2 DEF IInv, TypeOK, Places, Go
  <2>2. ASSUME NEW q \in Runs
        PROVE  (Appending(q) /\ Numbered(q) /\ Written(q) /\ Claimed(q))'
    BY <1>1, <1>2 DEF IInv, TypeOK, Places, Kinds, Appends, Go, Appending, Numbered,
       Written, Claimed, Closed, Has
  <2>3. ASSUME NEW q \in Runs  PROVE  Watching(q)'
    BY <1>1, <1>2 DEF IInv, TypeOK, Go, Watching
  <2> QED
    BY <2>1, <2>2, <2>3 DEF IInv
<1>3. CASE /\ Go(r, "dead") /\ client' = [client EXCEPT ![r] = "done"]
           /\ answer' = [answer EXCEPT ![r] = Failed]
  <2>1. TypeOK'
    BY <1>1, <1>3 DEF IInv, TypeOK, Places, Go
  <2>2. ASSUME NEW q \in Runs
        PROVE  (Appending(q) /\ Numbered(q) /\ Written(q) /\ Claimed(q))'
    BY <1>1, <1>3, RuntimeAssumption DEF IInv, TypeOK, Places, Kinds, Appends, Go,
       Appending, Numbered, Written, Claimed, Closed, Has, Failed
  <2>3. ASSUME NEW q \in Runs  PROVE  Watching(q)'
    BY <1>1, <1>3 DEF IInv, TypeOK, Go, Watching
  <2> QED
    BY <2>1, <2>2, <2>3 DEF IInv
<1> QED
  BY <1>2, <1>3 DEF Begin

LEMMA MarkKeeps ==
  ASSUME IInv, NEW r \in Runs, Mark(r)
  PROVE  IInv'
<1>1. /\ pc[r] = "mark" /\ status' = [status EXCEPT ![r] = "completed"]
      /\ UNCHANGED <<events, at, num, beats, client, cursor, answer, tries, cut>>
  BY DEF Mark, appends, browser
<1>2. PICK place \in {"ended", "failed"} : pc' = [pc EXCEPT ![r] = place]
  BY DEF Mark, Go
<1>3. at[r]["main"] = "idle" /\ Closed(r) /\ Has(r, "result")
  BY <1>1 DEF IInv, Appending, Written, Appends, Kinds
<1>4. TypeOK'
  BY <1>1, <1>2 DEF IInv, TypeOK, Places
<1>5. ASSUME NEW q \in Runs
      PROVE  (Appending(q) /\ Numbered(q) /\ Written(q))'
  <2>1. Appending(q)'
    BY <1>1, <1>2, <1>3 DEF IInv, TypeOK, Appending, Has
  <2>2. Numbered(q)'
    BY <1>1, <1>2, <1>3 DEF IInv, TypeOK, Numbered
  <2>3. Written(q)'
    BY <1>1, <1>2, <1>3 DEF IInv, TypeOK, Written, Closed, Has
  <2> QED
    BY <2>1, <2>2, <2>3
<1>6. ASSUME NEW q \in Runs  PROVE  (Claimed(q) /\ Watching(q))'
  BY <1>1, <1>2, <1>3 DEF IInv, TypeOK, Claimed, Closed, Has, Watching
<1> QED
  BY <1>4, <1>5, <1>6 DEF IInv

LEMMA MarkFailedKeeps ==
  ASSUME IInv, NEW r \in Runs, MarkFailed(r)
  PROVE  IInv'
<1>1. /\ pc[r] = "markFailed" /\ status' = [status EXCEPT ![r] = "failed"]
      /\ UNCHANGED <<events, at, num, beats, client, cursor, answer, tries, cut>>
  BY DEF MarkFailed, appends, browser
<1>2. PICK place \in {"caught", "dead"} : pc' = [pc EXCEPT ![r] = place]
  BY DEF MarkFailed, Go
<1>3. at[r]["main"] = "idle" /\ Has(r, "failed")
  BY <1>1 DEF IInv, Appending, Written, Appends, Kinds
<1>4. TypeOK'
  BY <1>1, <1>2 DEF IInv, TypeOK, Places
<1>5. ASSUME NEW q \in Runs
      PROVE  (Appending(q) /\ Numbered(q) /\ Written(q))'
  <2>1. Appending(q)'
    BY <1>1, <1>2, <1>3 DEF IInv, TypeOK, Appending, Has
  <2>2. Numbered(q)'
    BY <1>1, <1>2, <1>3 DEF IInv, TypeOK, Numbered
  <2>3. Written(q)'
    BY <1>1, <1>2, <1>3 DEF IInv, TypeOK, Written, Closed, Has
  <2> QED
    BY <2>1, <2>2, <2>3
<1>6. ASSUME NEW q \in Runs  PROVE  (Claimed(q) /\ Watching(q))'
  BY <1>1, <1>2, <1>3 DEF IInv, TypeOK, Claimed, Closed, Has, Watching
<1> QED
  BY <1>4, <1>5, <1>6 DEF IInv

LEMMA ThrowKeeps ==
  ASSUME IInv, NEW r \in Runs, Throw(r)
  PROVE  IInv'
<1>1. /\ pc[r] \in InTry /\ pc' = [pc EXCEPT ![r] = "failed"]
      /\ at' = [at EXCEPT ![r]["main"] = "idle"]
      /\ num' = [num EXCEPT ![r]["main"] = 0]
      /\ UNCHANGED <<events, status, beats, client, cursor, answer, tries, cut>>
  BY DEF Throw, Go, browser
<1>2. TypeOK'
  <2>1. /\ at' \in [Runs -> [Writers -> {"idle", "insert", "send"}]]
        /\ num' \in [Runs -> [Writers -> Nat]]
    BY <1>1 DEF IInv, TypeOK
  <2> QED
    BY <1>1, <2>1 DEF IInv, TypeOK, Places
<1>3. ASSUME NEW q \in Runs
      PROVE  /\ q # r => at'[q]["main"] = at[q]["main"] /\ num'[q]["main"] = num[q]["main"]
             /\ q = r => at'[q]["main"] = "idle"
  BY <1>1 DEF IInv, TypeOK, Writers
<1>4. ASSUME NEW q \in Runs
      PROVE  (Appending(q) /\ Numbered(q) /\ Written(q))'
  <2>1. Appending(q)'
    BY <1>1, <1>3 DEF IInv, TypeOK, Appending, Has
  <2>2. Numbered(q)'
    BY <1>1, <1>3 DEF IInv, TypeOK, Numbered
  <2>3. Written(q)'
    BY <1>1, <1>3 DEF IInv, TypeOK, Written, Closed, Has
  <2> QED
    BY <2>1, <2>2, <2>3
<1>5. ASSUME NEW q \in Runs  PROVE  (Claimed(q) /\ Watching(q))'
  BY <1>1 DEF IInv, TypeOK, InTry, Claimed, Closed, Has, Watching
<1> QED
  BY <1>2, <1>4, <1>5 DEF IInv

LEMMA DieKeeps ==
  ASSUME IInv, NEW r \in Runs, Die(r)
  PROVE  IInv'
<1>1. /\ pc[r] \notin Over /\ pc' = [pc EXCEPT ![r] = "dead"]
      /\ cut' = [cut EXCEPT ![r] = TRUE]
      /\ at' = [at EXCEPT ![r] = [w \in Writers |-> "idle"]]
      /\ num' = [num EXCEPT ![r] = [w \in Writers |-> 0]]
      /\ UNCHANGED <<events, status, beats, client, cursor, answer, tries>>
  BY DEF Die, Go
<1>2. TypeOK'
  BY <1>1 DEF IInv, TypeOK, Places
<1>3. at'[r]["main"] = "idle"
  BY <1>1 DEF IInv, TypeOK, Writers
<1>4. ASSUME NEW q \in Runs
      PROVE  (Appending(q) /\ Numbered(q) /\ Written(q))'
  <2>1. Appending(q)'
    BY <1>1, <1>3 DEF IInv, TypeOK, Appending, Has
  <2>2. Numbered(q)'
    BY <1>1, <1>3 DEF IInv, TypeOK, Numbered
  <2>3. Written(q)'
    BY <1>1, <1>3 DEF IInv, TypeOK, Written, Closed, Has
  <2> QED
    BY <2>1, <2>2, <2>3
<1>5. ASSUME NEW q \in Runs  PROVE  (Claimed(q) /\ Watching(q))'
  BY <1>1 DEF IInv, TypeOK, Claimed, Closed, Has, Watching
<1> QED
  BY <1>2, <1>4, <1>5 DEF IInv

LEMMA StreamEndsKeeps ==
  ASSUME IInv, NEW r \in Runs, StreamEnds(r)
  PROVE  IInv'
<1>1. /\ client[r] = "live" /\ pc[r] \in Over
      /\ client' = [client EXCEPT ![r] = IF answer[r] = Unknown THEN "replay" ELSE "done"]
      /\ UNCHANGED <<events, status, pc, at, num, beats, cursor, answer, tries, cut>>
  BY DEF StreamEnds, Done, handler, appends
<1>2. TypeOK'
  BY <1>1 DEF IInv, TypeOK
<1>3. ASSUME NEW q \in Runs
      PROVE  (Appending(q) /\ Numbered(q) /\ Written(q) /\ Claimed(q))'
  BY <1>1 DEF IInv, Appending, Numbered, Written, Claimed, Closed, Has
<1>4. ASSUME NEW q \in Runs  PROVE  Watching(q)'
  BY <1>1, RuntimeAssumption DEF IInv, TypeOK, Over, Watching, Unknown
<1> QED
  BY <1>2, <1>3, <1>4 DEF IInv

LEMMA StreamBreaksKeeps ==
  ASSUME IInv, NEW r \in Runs, StreamBreaks(r)
  PROVE  IInv'
<1>1. /\ cut' = [cut EXCEPT ![r] = TRUE] /\ client[r] = "live"
      /\ UNCHANGED <<events, status, pc, at, num, beats, cursor, tries>>
      /\ answer' = answer \/ answer' = [answer EXCEPT ![r] = Failed]
      /\ client' \in {[client EXCEPT ![r] = "done"], [client EXCEPT ![r] = "replay"]}
  BY DEF StreamBreaks, Done, handler, appends
<1>2. TypeOK'
  BY <1>1 DEF IInv, TypeOK
<1>3. ASSUME NEW q \in Runs
      PROVE  (Appending(q) /\ Numbered(q) /\ Written(q))'
  BY <1>1 DEF IInv, Appending, Numbered, Written, Closed, Has
<1>4. ASSUME NEW q \in Runs  PROVE  Claimed(q)'
  <2>1. answer'[q] \in {answer[q], Failed}
    BY <1>1 DEF IInv, TypeOK
  <2>2. answer'[q] \in Runs => Has(answer'[q], "result")
    BY <2>1, RuntimeAssumption DEF IInv, Claimed, Failed
  <2> QED
    BY <1>1, <2>2 DEF IInv, Claimed, Closed, Has
<1>5. ASSUME NEW q \in Runs  PROVE  Watching(q)'
  BY <1>1 DEF IInv, TypeOK, Watching
<1> QED
  BY <1>2, <1>3, <1>4, <1>5 DEF IInv

LEMMA ReplayFailsKeeps ==
  ASSUME IInv, NEW r \in Runs, ReplayFails(r)
  PROVE  IInv'
<1>1. /\ client[r] = "replay" /\ client' = [client EXCEPT ![r] = "done"]
      /\ answer' = [answer EXCEPT ![r] = Failed]
      /\ UNCHANGED <<events, status, pc, at, num, beats, cursor, tries, cut>>
  BY DEF ReplayFails, handler, appends
<1>2. TypeOK'
  BY <1>1 DEF IInv, TypeOK
<1>3. ASSUME NEW q \in Runs
      PROVE  (Appending(q) /\ Numbered(q) /\ Written(q))'
  BY <1>1 DEF IInv, Appending, Numbered, Written, Closed, Has
<1>4. ASSUME NEW q \in Runs  PROVE  Claimed(q)'
  <2>1. answer'[q] \in Runs => Has(answer'[q], "result")
    BY <1>1, RuntimeAssumption DEF IInv, TypeOK, Claimed, Failed
  <2> QED
    BY <1>1, <2>1 DEF IInv, Claimed, Closed, Has
<1>5. ASSUME NEW q \in Runs  PROVE  Watching(q)'
  BY <1>1 DEF IInv, TypeOK, Watching
<1> QED
  BY <1>2, <1>3, <1>4, <1>5 DEF IInv

LEMMA ReplayKeeps ==
  ASSUME IInv, NEW r \in Runs, Replay(r), tries[r] < MaxReplays
  PROVE  IInv'
<1>1. PICK a \in Reads(Missed(r), tries[r] + 1 = MaxReplays) :
        /\ answer' = [answer EXCEPT ![r] = a]
        /\ client' = [client EXCEPT ![r] = IF a = Unknown THEN client[r] ELSE "done"]
  BY DEF Replay
<1>2. a \in Runs \cup {Unknown, Failed} /\ (a \in Runs => Has(a, "result"))
  BY <1>1, ReadsRecorded DEF IInv, TypeOK, Missed
<1>3. /\ client[r] = "replay" /\ tries' = [tries EXCEPT ![r] = @ + 1]
      /\ UNCHANGED <<events, status, pc, at, num, beats, cut>>
      /\ cursor' \in [Runs -> Nat]
  BY DEF Replay, handler, appends, IInv, TypeOK, Rows, Missed
<1>4. TypeOK'
  BY <1>1, <1>2, <1>3, RuntimeAssumption DEF IInv, TypeOK
<1>5. ASSUME NEW q \in Runs
      PROVE  (Appending(q) /\ Numbered(q) /\ Written(q))'
  BY <1>3 DEF IInv, Appending, Numbered, Written, Closed, Has
<1>6. ASSUME NEW q \in Runs  PROVE  Claimed(q)'
  BY <1>1, <1>2, <1>3 DEF IInv, TypeOK, Claimed, Closed, Has
<1>7. ASSUME NEW q \in Runs  PROVE  Watching(q)'
  BY <1>1, <1>3 DEF IInv, TypeOK, Watching
<1> QED
  BY <1>4, <1>5, <1>6, <1>7 DEF IInv

LEMMA StartAppendKeeps ==
  ASSUME IInv, NEW r \in Runs, NEW w \in Writers, StartAppend(r, w)
  PROVE  IInv'
<1>1. PICK m \in {0} \cup {e.seq : e \in events} :
        (\A e \in events : e.seq <= m) /\ num' = [num EXCEPT ![r][w] = m + 1]
  BY DEF StartAppend
<1>2. m \in Nat
  BY <1>1 DEF IInv, TypeOK, Rows
<1>3. /\ at[r][w] = "idle" /\ at' = [at EXCEPT ![r][w] = "insert"]
      /\ UNCHANGED <<events, status, pc, client, cursor, answer, tries, cut>>
      /\ w = "main" => pc[r] \in Appends
  BY DEF StartAppend, handler, browser, Writers
<1>4. beats' \in [Runs -> 0 .. Beats]
  BY RuntimeAssumption DEF StartAppend, IInv, TypeOK
<1>5. TypeOK'
  <2>1. num' \in [Runs -> [Writers -> Nat]]
    BY <1>1, <1>2 DEF IInv, TypeOK
  <2>2. at' \in [Runs -> [Writers -> {"idle", "insert", "send"}]]
    BY <1>3 DEF IInv, TypeOK
  <2> QED
    BY <1>3, <1>4, <2>1, <2>2 DEF IInv, TypeOK
<1>6. ASSUME NEW q \in Runs
      PROVE  /\ (w = "beat" \/ q # r) => at'[q]["main"] = at[q]["main"]
             /\ (w = "beat" \/ q # r) => num'[q]["main"] = num[q]["main"]
             /\ w = "main" /\ q = r => /\ at'[q]["main"] = "insert"
                                       /\ num'[q]["main"] = m + 1
  BY <1>1, <1>3 DEF IInv, TypeOK, Writers
<1>7. ASSUME NEW q \in Runs  PROVE  Appending(q)' /\ Written(q)' /\ Claimed(q)' /\ Watching(q)'
  BY <1>3, <1>6 DEF IInv, Writers, Appending, Written, Claimed, Watching, Closed, Has
<1>8. ASSUME NEW q \in Runs  PROVE  Numbered(q)'
  <2>1. CASE w = "beat" \/ q # r
    BY <1>3, <1>6, <2>1 DEF IInv, Numbered
  <2>2. CASE w = "main" /\ q = r
    BY <1>1, <1>3, <1>6, <1>2, <2>2 DEF IInv, TypeOK, Rows, Numbered, Written, Has
  <2> QED
    BY <2>1, <2>2 DEF Writers
<1> QED
  BY <1>5, <1>7, <1>8 DEF IInv

LEMMA InsertRowKeeps ==
  ASSUME IInv, NEW r \in Runs, NEW w \in Writers, InsertRow(r, w)
  PROVE  IInv'
<1> DEFINE row == [seq |-> num[r][w], run |-> r, kind |-> KindOf(r, w)]
<1>1. /\ at[r][w] = "insert" /\ events' = events \cup {row}
      /\ UNCHANGED <<status, beats, client, cursor, answer, tries, cut>>
  BY DEF InsertRow, browser
<1>2. row \in Rows /\ events \subseteq events' /\ (w = "main" => pc[r] \in Appends)
  <2>1. w = "main" => pc[r] \in Appends
    BY <1>1 DEF IInv, Appending
  <2>2. KindOf(r, w) \in Kinds /\ num[r][w] \in Nat
    BY <2>1 DEF IInv, TypeOK, KindOf, Kinds, Appends, Writers
  <2> QED
    BY <1>1, <2>1, <2>2 DEF Rows
<1>3. row.run = r /\ row.seq = num[r][w] /\ row.kind = KindOf(r, w) /\ row \in events'
  BY <1>1
<1>4. ASSUME NEW q \in Runs
      PROVE  /\ Closed(q) => Closed(q)'
             /\ \A kind : Has(q, kind) => Has(q, kind)'
  BY <1>2 DEF Closed, Has
<1>5. ASSUME NEW q \in Runs  PROVE  Claimed(q)'
  BY <1>1, <1>2, <1>4 DEF IInv, Claimed, Has
<1>6. CASE KindOf(r, w) \in Sent
  <2>1. at' = [at EXCEPT ![r][w] = "send"] /\ num' = num /\ pc' = pc
    BY <1>6 DEF InsertRow
  <2>2. TypeOK'
    BY <1>1, <1>2, <2>1 DEF IInv, TypeOK
  <2>3. ASSUME NEW q \in Runs  PROVE  Appending(q)'
    <3>1. CASE w = "beat" \/ q # r
      <4>1. at'[q]["main"] = at[q]["main"]
        BY <2>1, <3>1 DEF IInv, TypeOK, Writers
      <4> QED
        BY <1>4, <2>1, <4>1 DEF IInv, Appending
    <3>2. CASE w = "main" /\ q = r
      <4>1. Has(r, pc[r])' /\ pc[r] \in Sent
        BY <1>3, <1>6, <2>1, <3>2 DEF KindOf, Has
      <4> QED
        BY <1>2, <2>1, <3>2, <4>1 DEF Appending
    <3> QED
      BY <3>1, <3>2 DEF Writers
  <2>4. ASSUME NEW q \in Runs  PROVE  Numbered(q)' /\ Written(q)'
    BY <1>1, <1>2, <1>4, <2>1 DEF IInv, TypeOK, Writers, Numbered, Written
  <2>5. ASSUME NEW q \in Runs  PROVE  Watching(q)'
    BY <1>1, <2>1 DEF IInv, Watching
  <2> QED
    BY <1>5, <2>2, <2>3, <2>4, <2>5 DEF IInv
<1>7. CASE KindOf(r, w) \notin Sent
  <2>1. w = "main" /\ pc[r] = "completed" /\ row.kind = "completed"
    BY <1>2, <1>3, <1>7 DEF KindOf, Sent, Kinds, Appends, Writers
  <2>2. /\ at' = [at EXCEPT ![r][w] = "idle"] /\ num' = [num EXCEPT ![r][w] = 0]
        /\ pc' = [pc EXCEPT ![r] = "mark"]
    BY <1>7, <2>1 DEF InsertRow, Go, After
  <2>3. TypeOK'
    BY <1>1, <1>2, <2>2 DEF IInv, TypeOK, Places
  <2>4. ASSUME NEW q \in Runs  PROVE  Appending(q)' /\ Numbered(q)'
    BY <1>2, <1>4, <2>1, <2>2 DEF IInv, TypeOK, Writers, Appending, Numbered
  <2>5. Closed(r)'
    BY <1>1, <1>2, <1>3, <2>1 DEF IInv, Numbered, Closed
  <2>6. ASSUME NEW q \in Runs  PROVE  Written(q)'
    BY <1>4, <2>1, <2>2, <2>5 DEF IInv, TypeOK, Written
  <2>7. ASSUME NEW q \in Runs  PROVE  Watching(q)'
    BY <1>1, <2>1, <2>2 DEF IInv, TypeOK, Watching
  <2> QED
    BY <1>5, <2>3, <2>4, <2>6, <2>7 DEF IInv
<1> QED
  BY <1>6, <1>7

LEMMA SendEventKeeps ==
  ASSUME IInv, NEW r \in Runs, NEW w \in Writers, SendEvent(r, w)
  PROVE  IInv'
<1>1. /\ at[r][w] = "send"
      /\ at' = [at EXCEPT ![r][w] = "idle"] /\ num' = [num EXCEPT ![r][w] = 0]
      /\ UNCHANGED <<events, status, beats, client, tries, cut>>
  BY DEF SendEvent
<1>2. /\ w = "main" => pc[r] \in {"started", "result", "failed"} /\ Has(r, pc[r])
      /\ w = "main" => pc' = [pc EXCEPT ![r] = After(pc[r])]
      /\ w = "beat" => pc' = pc
  BY <1>1 DEF SendEvent, Go, IInv, Appending, Sent, Kinds, Appends, Places
<1>3. /\ cursor' \in [Runs -> Nat]
      /\ answer' = answer \/ answer' = [answer EXCEPT ![r] = IF KindOf(r, w) = "result" THEN r
                       ELSE IF KindOf(r, w) = "failed" THEN Failed ELSE answer[r]]
      /\ Listening(r) => answer' = [answer EXCEPT ![r] =
                         IF KindOf(r, w) = "result" THEN r
                         ELSE IF KindOf(r, w) = "failed" THEN Failed ELSE answer[r]]
  BY DEF SendEvent, Hear, Later, IInv, TypeOK
<1>4. TypeOK'
  <2>1. pc' \in [Runs -> Places] /\ answer' \in [Runs -> Runs \cup {Unknown, Failed}]
    <3>1. pc' \in [Runs -> Places]
      <4>1. w = "main" => After(pc[r]) \in Places
        BY <1>2 DEF After, Places
      <4> QED
        BY <1>2, <4>1 DEF IInv, TypeOK, Writers
    <3>2. answer' \in [Runs -> Runs \cup {Unknown, Failed}]
      BY <1>3 DEF IInv, TypeOK
    <3> QED
      BY <3>1, <3>2
  <2> QED
    BY <1>1, <1>3, <2>1 DEF IInv, TypeOK
<1>5. ASSUME NEW q \in Runs
      PROVE  /\ (w = "beat" \/ q # r) => /\ at'[q]["main"] = at[q]["main"]
                                         /\ num'[q]["main"] = num[q]["main"]
                                         /\ pc'[q] = pc[q]
             /\ w = "main" /\ q = r => at'[q]["main"] = "idle" /\ pc'[q] = After(pc[r])
  BY <1>1, <1>2 DEF IInv, TypeOK, Writers
<1>6. ASSUME NEW q \in Runs  PROVE  Appending(q)' /\ Numbered(q)' /\ Written(q)'
  BY <1>1, <1>2, <1>5 DEF IInv, Writers, After, Appending, Numbered, Written, Closed, Has
<1>7. ASSUME NEW q \in Runs  PROVE  Claimed(q)'
  <2>1. KindOf(r, w) = "result" => Has(r, "result")
    BY <1>2 DEF KindOf, Writers
  <2>2. answer'[q] \in {answer[q], Failed} \/ (answer'[q] = r /\ Has(r, "result"))
    BY <1>3, <2>1 DEF IInv, TypeOK
  <2>3. answer'[q] \in Runs => Has(answer'[q], "result")
    BY <2>2, RuntimeAssumption DEF IInv, Claimed, Failed
  <2> QED
    BY <1>1, <2>3 DEF IInv, Claimed, Closed, Has
<1>8. ASSUME NEW q \in Runs  PROVE  Watching(q)'
  <2>1. CASE w = "beat" \/ q # r
    BY <1>1, <1>3, <1>5, <2>1 DEF IInv, TypeOK, KindOf, Watching
  <2>2. CASE w = "main" /\ q = r
    <3>1. ~cut[r] /\ client[r] # "idle" => Listening(r)
      BY <1>2, <2>2 DEF IInv, Watching, Listening, Over
    <3>2. pc[r] = "result" /\ Listening(r) => answer'[r] = r
      BY <1>3, <2>2 DEF KindOf, IInv, TypeOK
    <3> QED
      BY <1>1, <1>2, <1>5, <2>2, <3>1, <3>2 DEF IInv, After, Watching
  <2> QED
    BY <2>1, <2>2 DEF Writers
<1> QED
  BY <1>4, <1>6, <1>7, <1>8 DEF IInv

-----------------------------------------------------------------------------
(* While a browser has not given up it has replays left.                   *)
Counting == \A r \in Runs : client[r] # "done" => tries[r] < MaxReplays

LEMMA CountingKept ==
  ASSUME IInv, Counting, [Next]_vars
  PROVE  Counting'
<1>1. ASSUME NEW r \in Runs, Replay(r)
      PROVE  Counting'
  <2>1. tries[r] + 1 = MaxReplays => Unknown \notin Reads(Missed(r), tries[r] + 1 = MaxReplays)
    BY RuntimeAssumption DEF Reads, OfKind, Missed, IInv, TypeOK, Rows, Unknown, Failed
  <2>2. tries' = [tries EXCEPT ![r] = @ + 1] /\ client[r] = "replay"
    BY <1>1 DEF Replay
  <2>3. PICK a \in Reads(Missed(r), tries[r] + 1 = MaxReplays) :
          client' = [client EXCEPT ![r] = IF a = Unknown THEN client[r] ELSE "done"]
    BY <1>1 DEF Replay
  <2>4. tries[r] < MaxReplays /\ tries[r] \in Nat /\ MaxReplays \in Nat
    BY <2>2, RuntimeAssumption DEF Counting, IInv, TypeOK
  <2>5. client'[r] # "done" => tries[r] + 1 < MaxReplays
    BY <2>1, <2>3, <2>4 DEF IInv, TypeOK
  <2> QED
    BY <2>2, <2>3, <2>5 DEF Counting, IInv, TypeOK
<1>2. ASSUME NEW r \in Runs, Begin(r)
      PROVE  Counting'
  <2>1. tries' = tries
    BY <1>2 DEF Begin
  <2>2. client' = client \/ client' = [client EXCEPT ![r] = "live"]
          \/ client' = [client EXCEPT ![r] = "done"]
    BY <1>2 DEF Begin
  <2>3. client[r] = "idle"
    BY <1>2 DEF Begin, IInv, Watching
  <2> QED
    BY <2>1, <2>2, <2>3 DEF Counting, IInv, TypeOK
<1>3. ASSUME NEW r \in Runs, StreamEnds(r) \/ StreamBreaks(r) \/ ReplayFails(r)
      PROVE  Counting'
  BY <1>3 DEF StreamEnds, StreamBreaks, ReplayFails, Done, Counting, IInv, TypeOK
<1>4. ASSUME NEW r \in Runs, Mark(r) \/ MarkFailed(r) \/ Throw(r) \/ Die(r)
      PROVE  Counting'
  BY <1>4 DEF Mark, MarkFailed, Throw, Die, browser, Counting
<1>5. ASSUME NEW r \in Runs, NEW w \in Writers,
             StartAppend(r, w) \/ InsertRow(r, w) \/ SendEvent(r, w)
      PROVE  Counting'
  BY <1>5 DEF StartAppend, InsertRow, SendEvent, browser, Counting
<1>6. CASE UNCHANGED vars
  BY <1>6 DEF vars, browser, Counting
<1> QED
  BY <1>1, <1>2, <1>3, <1>4, <1>5, <1>6 DEF Next

LEMMA StepKeeps ==
  ASSUME IInv, Counting, [Next]_vars
  PROVE  IInv'
<1>1. ASSUME NEW r \in Runs, Replay(r)
      PROVE  IInv'
  BY <1>1, ReplayKeeps DEF Replay, Counting
<1>2. CASE UNCHANGED vars
  BY <1>2 DEF vars, handler, appends, browser, IInv, TypeOK, Appending, Numbered, Written,
     Claimed, Watching, Closed, Has
<1> QED
  BY <1>1, <1>2, BeginKeeps, MarkKeeps, MarkFailedKeeps, ThrowKeeps, DieKeeps,
     StreamEndsKeeps, StreamBreaksKeeps, ReplayFailsKeeps, StartAppendKeeps,
     InsertRowKeeps, SendEventKeeps DEF Next

-----------------------------------------------------------------------------
\* The inductive invariant holds throughout.
THEOREM Invariant == Spec => [](IInv /\ Counting)
<1>1. Init => IInv /\ Counting
  BY InitHolds, RuntimeAssumption DEF Init, Counting
<1>2. IInv /\ Counting /\ [Next]_vars => (IInv /\ Counting)'
  BY StepKeeps, CountingKept
<1> QED
  BY <1>1, <1>2, PTL DEF Spec

\* The rows of run_events, the appends in progress and what browsers show stay
\* well formed, and no browser asks more often than it may.
THEOREM TypeCorrect == Spec => []TypeOK
<1>1. IInv => TypeOK
  BY DEF IInv
<1> QED
  BY <1>1, Invariant, PTL

Recorded(r, kind) == OfKind(events, kind) \cap {e \in events : e.run = r} # {}

\* What is claimed of a run is in its durable events: an attempt marked as
\* completed has a result and after it a run_completed, one marked as failed has
\* a run_failed, and no browser shows a result that is not recorded.
ClaimsAreRecorded ==
  \A r \in Runs :
    /\ status[r] = "completed" =>
         \E d, e \in events : /\ d.run = r /\ d.kind = "result" /\ d.seq < e.seq
                              /\ e.run = r /\ e.kind = "completed"
    /\ status[r] = "failed" => Recorded(r, "failed")
    /\ answer[r] \in Runs => Recorded(answer[r], "result")

\* Whatever is claimed of a run is recorded, for any number of runs whose
\* appends overlap.
THEOREM ClaimsRecorded == Spec => []ClaimsAreRecorded
<1>1. ASSUME NEW r, NEW kind  PROVE  Has(r, kind) => Recorded(r, kind)
  BY DEF Has, Recorded, OfKind
<1>2. IInv => ClaimsAreRecorded
  BY <1>1 DEF IInv, Claimed, Closed, ClaimsAreRecorded
<1> QED
  BY <1>2, Invariant, PTL

\* A run that goes through is answered, if its stream is whole.
THEOREM WholeStreamAnswered == Spec => []WholeStreamAnswers
<1>1. IInv => WholeStreamAnswers
  BY DEF IInv, Watching, WholeStreamAnswers
<1> QED
  BY <1>1, Invariant, PTL

-----------------------------------------------------------------------------
(***************************************************************************)
(* Refinement of RunLog.  It needs more than IInv says: that a row of the  *)
(* handler is recorded only once its place has been reached, so that each  *)
(* kind comes once and in order; that the number of an append is above     *)
(* those of the handler's earlier rows; which end an attempt can already   *)
(* have been marked with; and that a browser that replays shows nothing    *)
(* yet.  ClaimsAreRecorded is a consequence.                               *)
(***************************************************************************)
Tale(r) ==
  /\ Has(r, "started") => pc[r] # "new" /\ (pc[r] = "started" => at[r]["main"] = "send")
  /\ Has(r, "result") =>
       pc[r] \notin {"new", "started"} /\ (pc[r] = "result" => at[r]["main"] = "send")
  /\ Has(r, "completed") => pc[r] \notin {"new", "started", "result", "completed"}
  /\ Has(r, "failed") =>
       pc[r] \notin {"new"} \cup InTry /\ (pc[r] = "failed" => at[r]["main"] = "send")
  /\ pc[r] \in {"result", "completed"} => Has(r, "started")

Above(r) ==
  at[r]["main"] = "insert" => \A e \in Log!Story(r) : e.seq < num[r]["main"]

Standing(r) ==
  /\ pc[r] \in {"new"} \cup InTry => status[r] = "open"
  /\ pc[r] \in {"failed", "markFailed"} => status[r] # "failed"
  /\ client[r] = "replay" => answer[r] = Unknown

Orderly == \A r \in Runs : Tale(r) /\ Above(r) /\ Standing(r)

\* Steps that neither record nor number anything.
LEMMA TaleStays ==
  ASSUME IInv, Orderly, NEW r \in Runs, UNCHANGED <<events, at, num>>,
         \/ UNCHANGED pc
         \/ pc[r] = "new" /\ pc' = [pc EXCEPT ![r] = "started"]
         \/ pc[r] \notin {"new"} \cup InTry \cup {"failed"} /\ at[r]["main"] = "idle"
              /\ \E place \in {"caught", "dead"} : pc' = [pc EXCEPT ![r] = place]
         \/ pc[r] = "new" /\ pc' = [pc EXCEPT ![r] = "dead"]
         \/ pc[r] = "mark" /\ at[r]["main"] = "idle"
              /\ \E place \in {"ended", "failed"} : pc' = [pc EXCEPT ![r] = place]
  PROVE  \A q \in Runs : Tale(q)' /\ Above(q)'
BY DEF IInv, TypeOK, Orderly, Tale, Above, Has, Log!Story, InTry

\* Steps that take the handler off its appends.
LEMMA TaleBreaks ==
  ASSUME IInv, Orderly, NEW r \in Runs, Throw(r) \/ Die(r)
  PROVE  \A q \in Runs : Tale(q)' /\ Above(q)'
<1>1. /\ pc[r] \notin Over /\ events' = events
      /\ \A q \in Runs : q # r => /\ pc'[q] = pc[q] /\ at'[q]["main"] = at[q]["main"]
                                  /\ num'[q]["main"] = num[q]["main"]
      /\ at'[r]["main"] = "idle"
      /\ pc'[r] = "dead" \/ (pc[r] \in InTry /\ pc'[r] = "failed")
  BY DEF Throw, Die, Go, IInv, TypeOK, Writers, Over, InTry
<1> QED
  BY <1>1 DEF Orderly, Tale, Above, Has, Log!Story, InTry, Over

LEMMA TaleStarts ==
  ASSUME IInv, Orderly, NEW r \in Runs, NEW w \in Writers, StartAppend(r, w)
  PROVE  \A q \in Runs : Tale(q)' /\ Above(q)'
<1>1. PICK m \in {0} \cup {e.seq : e \in events} :
        (\A e \in events : e.seq <= m) /\ num' = [num EXCEPT ![r][w] = m + 1]
  BY DEF StartAppend
<1>2. m \in Nat /\ \A e \in events : e.seq \in Nat
  BY <1>1 DEF IInv, TypeOK, Rows
<1>3. /\ at[r][w] = "idle" /\ at' = [at EXCEPT ![r][w] = "insert"]
      /\ events' = events /\ pc' = pc
  BY DEF StartAppend, handler
<1>4. ASSUME NEW q \in Runs
      PROVE  /\ (w = "beat" \/ q # r) => /\ at'[q]["main"] = at[q]["main"]
                                         /\ num'[q]["main"] = num[q]["main"]
             /\ w = "main" /\ q = r => /\ at[q]["main"] = "idle"
                                       /\ at'[q]["main"] = "insert"
                                       /\ num'[q]["main"] = m + 1
  BY <1>1, <1>3 DEF IInv, TypeOK, Writers
<1>5. ASSUME NEW q \in Runs  PROVE  Tale(q)'
  BY <1>3, <1>4 DEF Writers, Orderly, Tale, Has
<1>6. ASSUME NEW q \in Runs  PROVE  Above(q)'
  BY <1>1, <1>2, <1>3, <1>4 DEF Writers, Orderly, Above, Log!Story
<1> QED
  BY <1>5, <1>6

LEMMA TaleSends ==
  ASSUME IInv, Orderly, NEW r \in Runs, NEW w \in Writers, SendEvent(r, w)
  PROVE  \A q \in Runs : Tale(q)' /\ Above(q)'
<1>1. /\ at[r][w] = "send" /\ at' = [at EXCEPT ![r][w] = "idle"]
      /\ num' = [num EXCEPT ![r][w] = 0] /\ events' = events
  BY DEF SendEvent
<1>2. /\ w = "main" => pc[r] \in {"started", "result", "failed"} /\ Has(r, pc[r])
      /\ w = "main" => pc' = [pc EXCEPT ![r] = After(pc[r])]
      /\ w = "beat" => pc' = pc
  BY <1>1 DEF SendEvent, Go, IInv, Appending, Sent, Kinds, Appends, Places
<1>3. ASSUME NEW q \in Runs
      PROVE  /\ (w = "beat" \/ q # r) => /\ at'[q]["main"] = at[q]["main"]
                                         /\ num'[q]["main"] = num[q]["main"]
                                         /\ pc'[q] = pc[q]
             /\ w = "main" /\ q = r => at'[q]["main"] = "idle" /\ pc'[q] = After(pc[r])
  BY <1>1, <1>2 DEF IInv, TypeOK, Writers
<1>4. ASSUME NEW q \in Runs  PROVE  Tale(q)' /\ Above(q)'
  BY <1>1, <1>2, <1>3 DEF Writers, After, Orderly, Tale, Above, Has, Log!Story, InTry
<1> QED
  BY <1>4

-----------------------------------------------------------------------------
\* A row that goes in is the next of its run's story, or a heartbeat.
LEMMA RowFits ==
  ASSUME IInv, Orderly, NEW r \in Runs, NEW w \in Writers, InsertRow(r, w)
  PROVE  /\ \A q \in Runs : Tale(q)' /\ Above(q)'
         /\ Log!Append
<1> DEFINE row == [seq |-> num[r][w], run |-> r, kind |-> KindOf(r, w)]
<1>1. /\ at[r][w] = "insert" /\ events' = events \cup {row} /\ ~Clash(r, w)
      /\ UNCHANGED <<status, client, answer>>
  BY DEF InsertRow, browser
<1>2. w = "main" => pc[r] \in Appends
  BY <1>1 DEF IInv, Appending
<1>3. /\ row.run = r /\ row.seq = num[r][w] /\ row \in events'
      /\ row.kind = IF w = "beat" THEN "beat" ELSE pc[r]
  BY <1>1 DEF KindOf
<1>4. /\ w = "beat" \/ pc[r] # "completed" => at' = [at EXCEPT ![r][w] = "send"]
                                              /\ num' = num /\ pc' = pc
      /\ w = "main" /\ pc[r] = "completed" => /\ at' = [at EXCEPT ![r][w] = "idle"]
                                              /\ num' = [num EXCEPT ![r][w] = 0]
                                              /\ pc' = [pc EXCEPT ![r] = "mark"]
  BY <1>2 DEF InsertRow, KindOf, Sent, Kinds, Appends, Writers, Go, After
<1>5. ASSUME NEW q \in Runs, NEW kind
      PROVE  Has(q, kind)' <=> Has(q, kind) \/ (q = r /\ kind = row.kind)
  BY <1>1, <1>3 DEF Has
<1>6. ASSUME NEW q \in Runs  PROVE  Tale(q)'
  <2>1. CASE w = "beat" \/ q # r
    <3>1. at'[q]["main"] = at[q]["main"] /\ pc'[q] = pc[q]
      BY <1>4, <2>1 DEF IInv, TypeOK, Writers
    <3>2. \A kind \in {"started", "result", "completed", "failed"} :
            Has(q, kind)' <=> Has(q, kind)
      BY <1>3, <1>5, <2>1
    <3> QED
      BY <3>1, <3>2 DEF Orderly, Tale
  <2>2. CASE w = "main" /\ q = r
    <3>1. /\ pc[r] # "completed" => at'[r]["main"] = "send" /\ pc'[r] = pc[r]
          /\ pc[r] = "completed" => pc'[r] = "mark"
      BY <1>4, <2>2 DEF IInv, TypeOK, Writers
    <3>2. pc[r] \in {"started", "result", "completed", "failed"}
      BY <1>2, <2>2 DEF Appends, Kinds, Places
    <3>3. at[r]["main"] = "insert"
      BY <1>1, <2>2
    <3> QED
      BY <1>3, <1>5, <2>2, <3>1, <3>2, <3>3 DEF Orderly, Tale, InTry
  <2> QED
    BY <2>1, <2>2 DEF Writers
<1>7. ASSUME NEW q \in Runs  PROVE  Above(q)'
  <2>1. CASE w = "beat" \/ q # r
    <3>1. at'[q]["main"] = at[q]["main"] /\ num'[q]["main"] = num[q]["main"]
      BY <1>4, <2>1 DEF IInv, TypeOK, Writers
    <3>2. Log!Story(q)' = Log!Story(q)
      BY <1>1, <1>3, <2>1 DEF Log!Story
    <3> QED
      BY <3>1, <3>2 DEF Orderly, Above
  <2>2. CASE w = "main" /\ q = r
    <3>1. at'[r]["main"] # "insert"
      BY <1>4, <2>2 DEF IInv, TypeOK, Writers
    <3> QED
      BY <2>2, <3>1 DEF Above
  <2> QED
    BY <2>1, <2>2 DEF Writers
<1>8. \A e \in events : e.run = row.run => e.seq # row.seq
  BY <1>1, <1>3 DEF Clash
<1>9. ASSUME w = "beat"  PROVE  Log!Append
  BY <1>1, <1>3, <1>8, <1>9 DEF Log!Append
<1>10. ASSUME w = "main"  PROVE  Log!Append
  <2>1. pc[r] \in {"started", "result", "completed", "failed"} /\ at[r]["main"] = "insert"
    BY <1>1, <1>2, <1>10 DEF Appends, Kinds, Places
  <2>2. ASSUME NEW e \in Log!Story(r)
        PROVE  e.seq < row.seq /\ e.kind \in Log!Before(row.kind)
    <3>1. e.seq < row.seq
      BY <1>3, <1>10, <2>1 DEF Orderly, Above
    <3>2. e.kind \in {"started", "result", "completed", "failed"} /\ Has(r, e.kind)
      BY DEF IInv, TypeOK, Rows, Kinds, Log!Story, Has
    <3>3. e.kind \in Log!Before(pc[r])
      BY <2>1, <3>2 DEF Orderly, Tale, InTry, Log!Before
    <3> QED
      BY <1>3, <1>10, <3>1, <3>3
  <2>3. ASSUME row.kind \in {"result", "completed"}, NEW kind \in Log!Before(row.kind)
        PROVE  Log!Tells(r, kind)
    BY <1>3, <1>10, <2>3 DEF Log!Before, Log!Tells, Has, Orderly, Tale, IInv, Written
  <2> QED
    BY <1>1, <1>3, <1>8, <2>2, <2>3 DEF Log!Append
<1> QED
  BY <1>6, <1>7, <1>9, <1>10 DEF Writers

-----------------------------------------------------------------------------
\* The end an attempt is marked with goes forward, and replays find the browser blank.
LEMMA StandingKept ==
  ASSUME IInv, Orderly, [Next]_vars
  PROVE  \A q \in Runs : Standing(q)'
<1>1. ASSUME NEW r \in Runs, Begin(r)  PROVE  \A q \in Runs : Standing(q)'
  <2>1. pc[r] = "new" /\ client[r] = "idle" /\ status' = status
    BY <1>1 DEF Begin, IInv, Watching
  <2>2. \/ Go(r, "started") /\ answer' = answer
             /\ client' \in {client, [client EXCEPT ![r] = "live"]}
        \/ /\ Go(r, "dead") /\ client' = [client EXCEPT ![r] = "done"]
           /\ answer' = [answer EXCEPT ![r] = Failed]
    BY <1>1 DEF Begin
  <2> QED
    BY <2>1, <2>2 DEF Go, IInv, TypeOK, Orderly, Standing, InTry
<1>2. ASSUME NEW r \in Runs, Mark(r) \/ MarkFailed(r) \/ Throw(r) \/ Die(r)
      PROVE  \A q \in Runs : Standing(q)'
  BY <1>2 DEF Mark, MarkFailed, Throw, Die, Go, browser, IInv, TypeOK, Orderly, Standing,
     InTry, Over
<1>3. ASSUME NEW r \in Runs, NEW w \in Writers, StartAppend(r, w) \/ InsertRow(r, w)
      PROVE  \A q \in Runs : Standing(q)'
  <2>1. UNCHANGED <<status, client, answer>>
    BY <1>3 DEF StartAppend, InsertRow, handler, browser
  <2>2. pc' = pc \/ (pc[r] = "completed" /\ pc' = [pc EXCEPT ![r] = "mark"])
    BY <1>3 DEF StartAppend, InsertRow, handler, KindOf, Sent, Go, After, IInv, Appending,
       Appends, Kinds, Writers
  <2> QED
    BY <2>1, <2>2 DEF IInv, TypeOK, Orderly, Standing, InTry
<1>4. ASSUME NEW r \in Runs, NEW w \in Writers, SendEvent(r, w)
      PROVE  \A q \in Runs : Standing(q)'
  <2>1. status' = status /\ client' = client
    BY <1>4 DEF SendEvent
  <2>2. \/ pc' = pc
        \/ /\ pc[r] \in {"started", "result", "failed"}
           /\ pc' = [pc EXCEPT ![r] = After(pc[r])]
    BY <1>4 DEF SendEvent, Go, IInv, Appending, Sent, Kinds, Appends, Places, Writers
  <2>3. answer' = answer
          \/ (client[r] = "live" /\ \A q \in Runs \ {r} : answer'[q] = answer[q])
    BY <1>4 DEF SendEvent, Hear, Listening, IInv, TypeOK
  <2> QED
    BY <2>1, <2>2, <2>3 DEF After, IInv, TypeOK, Orderly, Standing, InTry
<1>5. ASSUME NEW r \in Runs, StreamEnds(r) \/ StreamBreaks(r) \/ ReplayFails(r) \/ Replay(r)
      PROVE  \A q \in Runs : Standing(q)'
  <2>1. status' = status /\ pc' = pc
    BY <1>5 DEF StreamEnds, StreamBreaks, ReplayFails, Replay, handler
  <2>2. \A q \in Runs \ {r} : client'[q] = client[q] /\ answer'[q] = answer[q]
    BY <1>5 DEF StreamEnds, StreamBreaks, ReplayFails, Replay, Done, IInv, TypeOK
  <2>3. client'[r] = "replay" => answer'[r] = Unknown
    BY <1>5 DEF StreamEnds, StreamBreaks, ReplayFails, Replay, Done, IInv, TypeOK
  <2> QED
    BY <2>1, <2>2, <2>3 DEF Orderly, Standing
<1>6. CASE UNCHANGED vars
  BY <1>6 DEF vars, handler, browser, Orderly, Standing
<1> QED
  BY <1>1, <1>2, <1>3, <1>4, <1>5, <1>6 DEF Next

LEMMA OrderlyKept ==
  ASSUME IInv, Orderly, [Next]_vars
  PROVE  Orderly'
<1>1. \A q \in Runs : Tale(q)' /\ Above(q)'
  <2>1. ASSUME NEW r \in Runs, Begin(r) \/ Mark(r) \/ MarkFailed(r)
        PROVE  \A q \in Runs : Tale(q)' /\ Above(q)'
    <3>1. UNCHANGED <<events, at, num>>
      BY <2>1 DEF Begin, Mark, MarkFailed, appends
    <3>2. pc[r] \in {"mark", "markFailed"} => at[r]["main"] = "idle"
      BY DEF IInv, TypeOK, Appending, Appends, Kinds, Writers
    <3> QED
      BY <2>1, <3>1, <3>2, TaleStays DEF Begin, Mark, MarkFailed, Go, InTry
  <2>2. ASSUME NEW r \in Runs, StreamEnds(r) \/ StreamBreaks(r) \/ ReplayFails(r) \/ Replay(r)
        PROVE  \A q \in Runs : Tale(q)' /\ Above(q)'
    BY <2>2, TaleStays DEF StreamEnds, StreamBreaks, ReplayFails, Replay, handler, appends
  <2>3. CASE UNCHANGED vars
    BY <2>3 DEF vars, handler, appends, Orderly, Tale, Above, Has, Log!Story
  <2> QED
    BY <2>1, <2>2, <2>3, TaleBreaks, TaleStarts, TaleSends, RowFits DEF Next
<1> QED
  BY <1>1, StandingKept DEF Orderly

-----------------------------------------------------------------------------
\* What a browser is told, and what attempts are marked with.
LEMMA TellsIsHas == \A r, kind : Log!Tells(r, kind) <=> Has(r, kind)
BY DEF Log!Tells, Has

LEMMA CloseLog ==
  ASSUME IInv, Orderly, NEW r \in Runs, Mark(r) \/ MarkFailed(r)
  PROVE  Log!Close(r)
<1>1. Mark(r) => status[r] = "open" /\ Has(r, "completed")
  BY DEF Mark, IInv, Written, Closed, Has, Orderly, Standing, InTry
<1>2. MarkFailed(r) => status[r] # "failed" /\ Has(r, "failed")
  BY DEF MarkFailed, IInv, Written, Orderly, Standing
<1> QED
  BY <1>1, <1>2, TellsIsHas DEF Mark, MarkFailed, browser, Log!Close

LEMMA SendLog ==
  ASSUME IInv, NEW r \in Runs, NEW w \in Writers, SendEvent(r, w)
  PROVE  Log!Show(r) \/ UNCHANGED Log!logVars
<1>1. UNCHANGED <<events, status, client>>
  BY DEF SendEvent
<1>2. CASE Listening(r) /\ KindOf(r, w) \in {"result", "failed"}
  <2>1. w = "main" /\ pc[r] = KindOf(r, w) /\ at[r]["main"] = "send"
    BY <1>2 DEF KindOf, SendEvent, Writers
  <2>2. Has(r, KindOf(r, w))
    BY <2>1 DEF IInv, Appending
  <2>3. answer' = [answer EXCEPT ![r] = IF KindOf(r, w) = "result" THEN r ELSE Failed]
    BY <1>2 DEF SendEvent, Hear
  <2> QED
    BY <1>1, <1>2, <2>2, <2>3, TellsIsHas DEF Log!Show, Listening
<1>3. CASE ~(Listening(r) /\ KindOf(r, w) \in {"result", "failed"})
  <2>1. answer' = answer
    BY <1>3 DEF SendEvent, Hear, IInv, TypeOK
  <2> QED
    BY <1>1, <2>1 DEF Log!logVars
<1> QED
  BY <1>2, <1>3

LEMMA ReaderLog ==
  ASSUME IInv, Orderly, NEW r \in Runs,
         Begin(r) \/ StreamEnds(r) \/ StreamBreaks(r) \/ ReplayFails(r) \/ Replay(r)
  PROVE  Log!Show(r) \/ UNCHANGED Log!logVars
<1> DEFINE Stopped == {q \in Runs : client[q] = "done"}
<1>1. UNCHANGED <<events, status>> /\ client[r] # "done"
  BY DEF Begin, StreamEnds, StreamBreaks, ReplayFails, Replay, handler, IInv, Watching
<1>2. \E place \in {"idle", "live", "replay", "done"} : client' = [client EXCEPT ![r] = place]
  BY DEF Begin, StreamEnds, StreamBreaks, ReplayFails, Replay, Done, IInv, TypeOK
<1>3. \/ answer' = answer
         /\ (client'[r] = "done" => answer[r] # Unknown)
      \/ client'[r] = "done" /\ answer' = [answer EXCEPT ![r] = Failed]
      \/ \E a \in Reads(Missed(r), tries[r] + 1 = MaxReplays) :
           a # Unknown /\ answer' = [answer EXCEPT ![r] = a]
  <2>1. ASSUME Replay(r)
        PROVE  \/ answer' = answer /\ client' = client
               \/ \E a \in Reads(Missed(r), tries[r] + 1 = MaxReplays) :
                    a # Unknown /\ answer' = [answer EXCEPT ![r] = a]
    <3>1. PICK a \in Reads(Missed(r), tries[r] + 1 = MaxReplays) :
            /\ answer' = [answer EXCEPT ![r] = a]
            /\ client' = [client EXCEPT ![r] = IF a = Unknown THEN client[r] ELSE "done"]
      BY <2>1 DEF Replay
    <3>2. answer[r] = Unknown
      BY <2>1 DEF Replay, Orderly, Standing
    <3> QED
      BY <3>1, <3>2 DEF IInv, TypeOK
  <2>2. ASSUME Begin(r) \/ StreamEnds(r) \/ StreamBreaks(r) \/ ReplayFails(r)
        PROVE  \/ answer' = answer /\ (client'[r] = "done" => answer[r] # Unknown)
               \/ client'[r] = "done" /\ answer' = [answer EXCEPT ![r] = Failed]
    BY <1>1, <2>2 DEF Begin, StreamEnds, StreamBreaks, ReplayFails, Done, IInv, TypeOK
  <2> QED
    BY <1>1, <2>1, <2>2
<1>4. Stopped' \in {Stopped, Stopped \cup {r}}
  <2>1. client'[r] = "done" => Stopped' = Stopped \cup {r}
    BY <1>2 DEF IInv, TypeOK
  <2>2. client'[r] # "done" => Stopped' = Stopped
    BY <1>1, <1>2 DEF IInv, TypeOK
  <2> QED
    BY <2>1, <2>2
<1>5. CASE answer' = answer /\ Stopped' = Stopped
  BY <1>1, <1>5 DEF Log!logVars
<1>6. ASSUME NEW a \in {q \in Runs : Has(q, "result")} \cup {Failed},
             answer' = [answer EXCEPT ![r] = a]
      PROVE  Log!Show(r)
  BY <1>1, <1>4, <1>6, TellsIsHas DEF Log!Show
<1>7. CASE answer' = answer /\ client'[r] = "done" /\ answer[r] # Unknown
  <2>1. answer[r] \in {q \in Runs : Has(q, "result")} \cup {Failed}
    BY <1>7 DEF IInv, TypeOK, Claimed
  <2>2. answer' = [answer EXCEPT ![r] = answer[r]]
    BY <1>7 DEF IInv, TypeOK
  <2> QED
    BY <1>6, <2>1, <2>2
<1>8. ASSUME NEW a \in Reads(Missed(r), tries[r] + 1 = MaxReplays), a # Unknown
      PROVE  a \in {q \in Runs : Has(q, "result")} \cup {Failed}
  BY <1>8, ReadsRecorded DEF IInv, TypeOK, Missed
<1>9. CASE answer' = answer /\ client'[r] # "done"
  BY <1>1, <1>2, <1>5, <1>9 DEF IInv, TypeOK
<1> QED
  BY <1>3, <1>6, <1>7, <1>8, <1>9

\* Rows, ends of attempts and what browsers show keep the promise of RunLog, for any
\* number of runs, heartbeats and replays.  runtimeEventStore.ts, server.ts, Chat.tsx.
THEOREM LogRefinement == Spec => ImplementsRunLog
<1>1. Init => Log!Blank /\ Orderly
  BY DEF Init, Log!Blank, Orderly, Tale, Above, Standing, Has, Log!Story, InTry
<1>2. IInv /\ Orderly /\ [Next]_vars => Orderly'
  BY OrderlyKept
<1>3. IInv /\ Orderly /\ [Next]_vars => [Log!LogNext]_(Log!logVars)
  <2> SUFFICES ASSUME IInv, Orderly, [Next]_vars
               PROVE  Log!LogNext \/ UNCHANGED Log!logVars
    OBVIOUS
  <2>1. ASSUME NEW r \in Runs, Throw(r) \/ Die(r)  PROVE  UNCHANGED Log!logVars
    BY <2>1 DEF Throw, Die, browser, Log!logVars
  <2>2. ASSUME NEW r \in Runs, NEW w \in Writers, StartAppend(r, w)
        PROVE  UNCHANGED Log!logVars
    BY <2>2 DEF StartAppend, handler, browser, Log!logVars
  <2>3. CASE UNCHANGED vars
    BY <2>3 DEF vars, handler, browser, Log!logVars
  <2> QED
    BY <2>1, <2>2, <2>3, RowFits, CloseLog, SendLog, ReaderLog DEF Next, Log!LogNext
<1> QED
  BY <1>1, <1>2, <1>3, Invariant, PTL DEF Spec, ImplementsRunLog, Log!LogSpec

=============================================================================
