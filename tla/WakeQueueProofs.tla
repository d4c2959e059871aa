--------------------------- MODULE WakeQueueProofs --------------------------
(***************************************************************************)
(* Proofs about WakeQueue, for any number of rows, agents, heartbeats and  *)
(* pollers, and any limits.                                                *)
(***************************************************************************)
EXTENDS WakeQueue, TLAPS

\* No row is taken off the queue unnoticed: one that is no longer pending is in
\* the hands of a consumer, or a run was started for it, or a consumer gave it
\* up knowingly or died with it.
NothingSwallowed ==
  \A w \in Wakes : status[w] \in {"dispatched", "completed"} =>
    \/ starts[w] > 0 \/ w \in dropped
    \/ \E h \in Beats : w \in inHand[h]
    \/ \E p \in Pollers : w \in claimed[p]

(***************************************************************************)
(* The inductive invariant.  ClaimsExclusive needs that a claimed row is   *)
(* not pending, NothingSwallowed that a row about to be marked completed   *)
(* was started.                                                            *)
(***************************************************************************)
ClaimedIsTaken ==
  \A p \in Pollers : \A w \in claimed[p] : status[w] \in {"dispatched", "completed"}

ReplyIsForFirst ==
  \A p \in Pollers :
    /\ reply[p] # "none" => claimed[p] # {}
    /\ reply[p] = "executed" =>
         \A w \in claimed[p] : FirstClaimed(p, w) => starts[w] > 0

IInv ==
  /\ TypeOK
  /\ ClaimsExclusive
  /\ ClaimedIsTaken
  /\ ReplyIsForFirst
  /\ NothingSwallowed

-----------------------------------------------------------------------------
\* Counting a start keeps the counts in range and loses none.
LEMMA StartedType ==
  ASSUME TypeOK, NEW S \in SUBSET Wakes
  PROVE  /\ Started(S) \in [Wakes -> 0 .. 2]
         /\ \A w \in Wakes : starts[w] > 0 => Started(S)[w] > 0
         /\ \A w \in S : Started(S)[w] > 0
BY DEF TypeOK, Started

\* The rows of a SELECT with a limit are rows of the table.
LEMMA OldestSubset ==
  ASSUME NEW S, NEW limit
  PROVE  Oldest(S, limit) \subseteq S
BY DEF Oldest

LEMMA InitInv == Init => IInv
<1> SUFFICES ASSUME Init PROVE IInv
  OBVIOUS
<1>1. TypeOK
  <2>1. /\ status \in [Wakes -> {"absent", "pending", "dispatched", "completed"}]
        /\ pc \in [Beats -> {"idle", "scan", "mark", "dispatch"}]
        /\ claimed \in [Pollers -> SUBSET Wakes]
        /\ reply \in [Pollers -> {"none", "executed", "failed"}]
    BY DEF Init
  <2>2. /\ todo \in [Beats -> SUBSET Roles] /\ queued \in [Beats -> SUBSET Roles]
        /\ picked \in [Beats -> SUBSET Wakes] /\ inHand \in [Beats -> SUBSET Wakes]
    BY DEF Init
  <2>3. starts \in [Wakes -> 0 .. 2]
    BY DEF Init
  <2>4. blocked \in SUBSET Roles /\ dropped \in SUBSET Wakes /\ crashes \in Nat
    BY DEF Init
  <2> QED  BY <2>1, <2>2, <2>3, <2>4 DEF TypeOK
<1>2. ClaimsExclusive /\ ClaimedIsTaken /\ ReplyIsForFirst /\ NothingSwallowed
  BY DEF Init, ClaimsExclusive, ClaimedIsTaken, ReplyIsForFirst, NothingSwallowed
<1> QED  BY <1>1, <1>2 DEF IInv

-----------------------------------------------------------------------------
(***************************************************************************)
(* One lemma per actor.                                                    *)
(***************************************************************************)
LEMMA InsertInv ==
  ASSUME IInv, NEW w \in Wakes, Insert(w)
  PROVE  IInv'
<1> USE DEF Insert, beatVars, pollerVars
<1>1. TypeOK'
  BY DEF IInv, TypeOK
<1>2. ClaimsExclusive'
  BY DEF IInv, ClaimsExclusive
<1>3. ClaimedIsTaken'
  BY DEF IInv, TypeOK, ClaimedIsTaken
<1>4. ReplyIsForFirst'
  BY DEF IInv, ReplyIsForFirst, FirstClaimed
<1>5. NothingSwallowed'
  BY DEF IInv, TypeOK, NothingSwallowed
<1> QED  BY <1>1, <1>2, <1>3, <1>4, <1>5 DEF IInv

\* A step that leaves the rows, what consumers hold of them and their history
\* alone keeps every part of the invariant but the types.
LEMMA QuietInv ==
  ASSUME IInv, TypeOK',
         UNCHANGED <<status, inHand, claimed, reply, starts, dropped>>
  PROVE  IInv'
BY DEF IInv, ClaimsExclusive, ClaimedIsTaken, ReplyIsForFirst, FirstClaimed,
       NothingSwallowed

LEMMA ScanInv ==
  ASSUME IInv, NEW h \in Beats, NEW r \in Roles,
         SkipAgent(h, r) \/ SelectWakes(h, r)
  PROVE  IInv'
<1> USE DEF beatVars, pollerVars, Scanned
<1>1. CASE SkipAgent(h, r)
  <2>1. TypeOK'
    BY <1>1 DEF SkipAgent, IInv, TypeOK
  <2> QED  BY <1>1, <2>1, QuietInv DEF SkipAgent
<1>2. CASE SelectWakes(h, r)
  <2>1. PICK rows : rows = Oldest({w \in Pending : RoleOf[w] = r}, DrainLimit)
    OBVIOUS
  <2>2. rows \subseteq Wakes
    BY <2>1, OldestSubset DEF Pending
  <2>3. TypeOK'
    BY <1>2, <2>1, <2>2 DEF SelectWakes, IInv, TypeOK
  <2> QED  BY <1>2, <2>3, QuietInv DEF SelectWakes
<1> QED  BY <1>1, <1>2

LEMMA MarkDispatchedInv ==
  ASSUME IInv, NEW h \in Beats, MarkDispatched(h)
  PROVE  IInv'
<1> USE DEF MarkDispatched, beatVars, pollerVars
<1>1. TypeOK'
  BY DEF IInv, TypeOK
<1>2. ClaimsExclusive'
  BY DEF IInv, ClaimsExclusive
<1>3. ClaimedIsTaken'
  BY DEF IInv, TypeOK, ClaimedIsTaken
<1>4. ReplyIsForFirst'
  BY DEF IInv, ReplyIsForFirst, FirstClaimed
<1>5. NothingSwallowed'
  <2> SUFFICES ASSUME NEW w \in Wakes, status'[w] \in {"dispatched", "completed"}
               PROVE  \/ starts'[w] > 0 \/ w \in dropped'
                      \/ \E g \in Beats : w \in inHand'[g]
                      \/ \E p \in Pollers : w \in claimed'[p]
    BY DEF NothingSwallowed
  <2>1. \A g \in Beats : inHand[g] \subseteq inHand'[g]
    BY DEF IInv, TypeOK
  <2>2. CASE w \in picked[h]
    <3>1. w \in inHand'[h]
      BY <2>2 DEF IInv, TypeOK
    <3> QED  BY <3>1
  <2>3. CASE w \notin picked[h]
    <3>1. status'[w] = status[w]
      BY <2>3 DEF IInv, TypeOK
    <3> QED  BY <2>1, <3>1 DEF IInv, NothingSwallowed
  <2> QED  BY <2>2, <2>3
<1> QED  BY <1>1, <1>2, <1>3, <1>4, <1>5 DEF IInv

LEMMA DispatchAgentInv ==
  ASSUME IInv, NEW h \in Beats, NEW r \in Roles, DispatchAgent(h, r)
  PROVE  IInv'
<1> USE DEF beatVars, pollerVars
<1>1. PICK mine \in SUBSET Wakes : mine = {w \in inHand[h] : RoleOf[w] = r}
  BY DEF IInv, TypeOK
<1>2. /\ \/ starts' = Started(mine) /\ UNCHANGED dropped
         \/ dropped' = dropped \cup mine /\ UNCHANGED starts
      /\ inHand' = [inHand EXCEPT ![h] = inHand[h] \ mine]
      /\ pc' = [pc EXCEPT ![h] = IF inHand[h] \ mine = {} THEN "idle" ELSE "dispatch"]
      /\ UNCHANGED <<status, todo, queued, picked, pollerVars, blocked, crashes>>
  BY <1>1 DEF DispatchAgent
<1>3. /\ starts' \in [Wakes -> 0 .. 2]
      /\ \A w \in Wakes : starts[w] > 0 => starts'[w] > 0
      /\ \A w \in mine : starts'[w] > 0 \/ w \in dropped'
      /\ dropped \subseteq dropped' /\ dropped' \subseteq Wakes
  BY <1>2, StartedType DEF IInv, TypeOK
<1>4. TypeOK'
  BY <1>2, <1>3 DEF IInv, TypeOK
<1>5. ClaimsExclusive' /\ ClaimedIsTaken'
  BY <1>2 DEF IInv, ClaimsExclusive, ClaimedIsTaken
<1>6. ReplyIsForFirst'
  BY <1>2, <1>3 DEF IInv, TypeOK, ReplyIsForFirst, FirstClaimed
<1>7. NothingSwallowed'
  <2> SUFFICES ASSUME NEW w \in Wakes, status'[w] \in {"dispatched", "completed"},
                      w \notin mine
               PROVE  \/ starts'[w] > 0 \/ w \in dropped'
                      \/ \E g \in Beats : w \in inHand'[g]
                      \/ \E p \in Pollers : w \in claimed'[p]
    BY <1>3 DEF NothingSwallowed
  <2>1. \A g \in Beats : w \in inHand[g] => w \in inHand'[g]
    BY <1>2 DEF IInv, TypeOK
  <2> QED  BY <1>2, <1>3, <2>1 DEF IInv, NothingSwallowed
<1> QED  BY <1>4, <1>5, <1>6, <1>7 DEF IInv

LEMMA CrashBeatInv ==
  ASSUME IInv, NEW h \in Beats, CrashBeat(h)
  PROVE  IInv'
<1> USE DEF CrashBeat, pollerVars
<1>1. TypeOK'
  BY DEF IInv, TypeOK
<1>2. ClaimsExclusive' /\ ClaimedIsTaken'
  BY DEF IInv, ClaimsExclusive, ClaimedIsTaken
<1>3. ReplyIsForFirst'
  BY DEF IInv, ReplyIsForFirst, FirstClaimed
<1>4. NothingSwallowed'
  <2>1. \A g \in Beats : inHand[g] \subseteq inHand'[g] \cup dropped'
    BY DEF IInv, TypeOK
  <2> QED  BY <2>1 DEF IInv, NothingSwallowed
<1> QED  BY <1>1, <1>2, <1>3, <1>4 DEF IInv

LEMMA ClaimInv ==
  ASSUME IInv, NEW p \in Pollers, Claim(p)
  PROVE  IInv'
<1> USE DEF beatVars
<1>1. PICK rows : rows = Oldest(Pending \cap Directives, ClaimLimit)
  OBVIOUS
<1>2. rows \subseteq Pending
  BY <1>1, OldestSubset
<1>3. /\ claimed[p] = {} /\ rows # {}
      /\ claimed' = [claimed EXCEPT ![p] = rows]
      /\ status' = [w \in Wakes |-> IF w \in rows THEN "dispatched" ELSE status[w]]
      /\ UNCHANGED <<beatVars, reply, blocked, starts, dropped, crashes>>
  BY <1>1 DEF Claim
<1>4. TypeOK'
  BY <1>2, <1>3 DEF IInv, TypeOK, Pending
<1>5. \A q \in Pollers : claimed[q] \cap rows = {}
  BY <1>2 DEF IInv, ClaimedIsTaken, Pending
<1>6. ClaimsExclusive'
  BY <1>3, <1>5 DEF IInv, TypeOK, ClaimsExclusive
<1>7. ClaimedIsTaken'
  BY <1>2, <1>3 DEF IInv, TypeOK, ClaimedIsTaken, Pending
<1>8. ReplyIsForFirst'
  <2>1. reply[p] = "none"
    BY <1>3 DEF IInv, ReplyIsForFirst
  <2> QED  BY <1>3, <2>1 DEF IInv, TypeOK, ReplyIsForFirst, FirstClaimed
<1>9. NothingSwallowed'
  <2>1. \A q \in Pollers : claimed[q] \subseteq claimed'[q]
    BY <1>3 DEF IInv, TypeOK
  <2>2. rows \subseteq claimed'[p]
    BY <1>3 DEF IInv, TypeOK
  <2> QED  BY <1>3, <2>1, <2>2 DEF IInv, NothingSwallowed
<1> QED  BY <1>4, <1>6, <1>7, <1>8, <1>9 DEF IInv

LEMMA PostInv ==
  ASSUME IInv, NEW p \in Pollers, Post(p)
  PROVE  IInv'
<1> USE DEF beatVars
<1>1. PICK w \in claimed[p] :
        /\ FirstClaimed(p, w)
        /\ \/ reply' = [reply EXCEPT ![p] = "executed"] /\ starts' = Started({w})
           \/ /\ reply' = [reply EXCEPT ![p] = "failed"]
              /\ starts' \in {starts, Started({w})}
  BY DEF Post
<1>2. UNCHANGED <<status, beatVars, claimed, blocked, dropped, crashes>>
  BY DEF Post
<1>3. w \in Wakes
  BY DEF IInv, TypeOK
<1>4. /\ starts' \in [Wakes -> 0 .. 2]
      /\ \A v \in Wakes : starts[v] > 0 => starts'[v] > 0
      /\ reply'[p] = "executed" => starts'[w] > 0
  BY <1>1, <1>3, StartedType DEF IInv, TypeOK
<1>5. TypeOK'
  BY <1>1, <1>2, <1>4 DEF IInv, TypeOK
<1>6. ClaimsExclusive' /\ ClaimedIsTaken'
  BY <1>2 DEF IInv, ClaimsExclusive, ClaimedIsTaken
<1>7. ReplyIsForFirst'
  <2>1. \A v \in claimed[p] : FirstClaimed(p, v) => v = w
    <3> SUFFICES ASSUME NEW v \in claimed[p], FirstClaimed(p, v)
                 PROVE  v = w
      OBVIOUS
    <3>1. v \in Wakes /\ v <= w /\ w <= v
      BY <1>1 DEF FirstClaimed, IInv, TypeOK
    <3> QED  BY <1>3, <3>1, WakeAssumption DEF Wakes
  <2>2. \A q \in Pollers : q # p => reply'[q] = reply[q]
    BY <1>1 DEF IInv, TypeOK
  <2> QED  BY <1>1, <1>2, <1>4, <2>1, <2>2 DEF IInv, TypeOK, ReplyIsForFirst, FirstClaimed
<1>8. NothingSwallowed'
  BY <1>2, <1>4 DEF IInv, NothingSwallowed
<1> QED  BY <1>5, <1>6, <1>7, <1>8 DEF IInv

LEMMA SettleInv ==
  ASSUME IInv, NEW p \in Pollers, MarkCompleted(p) \/ MarkPending(p)
  PROVE  IInv'
<1> USE DEF beatVars
<1>1. PICK answer, column :
        /\ <<answer, column>> \in {<<"executed", "completed">>, <<"failed", "pending">>}
        /\ Settle(p, answer, column)
  BY DEF MarkCompleted, MarkPending
<1>2. PICK w \in claimed[p] :
        /\ FirstClaimed(p, w)
        /\ status' = [status EXCEPT ![w] = column]
        /\ claimed' = [claimed EXCEPT ![p] = claimed[p] \ {w}]
  BY <1>1 DEF Settle
<1>3. /\ reply[p] = answer
      /\ reply' = [reply EXCEPT ![p] = "none"]
      /\ UNCHANGED <<beatVars, blocked, starts, dropped, crashes>>
  BY <1>1 DEF Settle
<1>4. w \in Wakes
  BY DEF IInv, TypeOK
<1>5. TypeOK'
  BY <1>1, <1>2, <1>3 DEF IInv, TypeOK
<1>6. \A q \in Pollers : claimed'[q] \subseteq claimed[q] /\ w \notin claimed'[q]
  <2> TAKE q \in Pollers
  <2>1. CASE q = p
    BY <1>2, <2>1 DEF IInv, TypeOK
  <2>2. CASE q # p
    BY <1>2, <2>2 DEF IInv, TypeOK, ClaimsExclusive
  <2> QED  BY <2>1, <2>2
<1>7. ClaimsExclusive'
  BY <1>6 DEF IInv, ClaimsExclusive
<1>8. ClaimedIsTaken'
  BY <1>2, <1>6 DEF IInv, TypeOK, ClaimedIsTaken
<1>9. ReplyIsForFirst'
  <2>1. \A q \in Pollers : q # p => claimed'[q] = claimed[q] /\ reply'[q] = reply[q]
    BY <1>2, <1>3 DEF IInv, TypeOK
  <2>2. reply'[p] = "none"
    BY <1>3 DEF IInv, TypeOK
  <2> QED  BY <1>3, <2>1, <2>2 DEF IInv, ReplyIsForFirst, FirstClaimed
<1>10. NothingSwallowed'
  <2> SUFFICES ASSUME NEW v \in Wakes, status'[v] \in {"dispatched", "completed"}
               PROVE  \/ starts'[v] > 0 \/ v \in dropped'
                      \/ \E g \in Beats : v \in inHand'[g]
                      \/ \E q \in Pollers : v \in claimed'[q]
    BY DEF NothingSwallowed
  <2>1. CASE v = w
    <3>1. column = "completed"
      BY <1>1, <1>2, <1>4, <2>1 DEF IInv, TypeOK
    <3>2. answer = "executed"
      BY <1>1, <3>1
    <3>3. starts[w] > 0
      BY <1>2, <1>3, <3>2 DEF IInv, ReplyIsForFirst
    <3> QED  BY <1>3, <2>1, <3>3
  <2>2. CASE v # w
    <3>1. status'[v] = status[v]
      BY <1>2, <2>2 DEF IInv, TypeOK
    <3>2. \A q \in Pollers : v \in claimed[q] => v \in claimed'[q]
      BY <1>2, <2>2 DEF IInv, TypeOK
    <3> QED  BY <1>3, <3>1, <3>2 DEF IInv, NothingSwallowed
  <2> QED  BY <2>1, <2>2
<1> QED  BY <1>5, <1>7, <1>8, <1>9, <1>10 DEF IInv

LEMMA GiveUpInv ==
  ASSUME IInv, NEW p \in Pollers, CompletionLost(p) \/ AbandonClaims(p)
  PROVE  IInv'
<1> USE DEF beatVars
<1>1. CASE CompletionLost(p)
  <2> USE <1>1 DEF CompletionLost
  <2>1. TypeOK' /\ ClaimsExclusive' /\ ClaimedIsTaken'
    BY DEF IInv, TypeOK, ClaimsExclusive, ClaimedIsTaken
  <2>2. ReplyIsForFirst'
    BY DEF IInv, TypeOK, ReplyIsForFirst, FirstClaimed
  <2>3. NothingSwallowed'
    BY DEF IInv, NothingSwallowed
  <2> QED  BY <2>1, <2>2, <2>3 DEF IInv
<1>2. CASE AbandonClaims(p)
  <2> USE <1>2 DEF AbandonClaims
  <2>1. TypeOK'
    BY DEF IInv, TypeOK
  <2>2. \A q \in Pollers : claimed'[q] \subseteq claimed[q]
                           /\ claimed[q] \subseteq claimed'[q] \cup dropped'
    BY DEF IInv, TypeOK
  <2>3. ClaimsExclusive' /\ ClaimedIsTaken'
    BY <2>2 DEF IInv, ClaimsExclusive, ClaimedIsTaken
  <2>4. ReplyIsForFirst'
    BY DEF IInv, TypeOK, ReplyIsForFirst, FirstClaimed
  <2>5. NothingSwallowed'
    BY <2>2 DEF IInv, NothingSwallowed
  <2> QED  BY <2>1, <2>3, <2>4, <2>5 DEF IInv
<1> QED  BY <1>1, <1>2

LEMMA BlockInv ==
  ASSUME IInv, Block
  PROVE  IInv'
<1>1. TypeOK'
  BY DEF IInv, TypeOK, Block, beatVars, pollerVars
<1> QED  BY <1>1, QuietInv DEF Block, beatVars, pollerVars

LEMMA StepInv == IInv /\ [Next]_vars => IInv'
<1> SUFFICES ASSUME IInv, [Next]_vars PROVE IInv'
  OBVIOUS
<1>1. CASE \E w \in Wakes : Insert(w)
  BY <1>1, InsertInv
<1>2. CASE Block
  BY <1>2, BlockInv
<1>3. ASSUME NEW h \in Beats, StartBeat(h) \/ ScanBlindly(h) \/ BeatStep(h) \/ CrashBeat(h)
      PROVE  IInv'
  <2>0. CASE ScanBlindly(h)
    <3>1. TypeOK'
      BY <2>0 DEF ScanBlindly, IInv, TypeOK, pollerVars
    <3> QED  BY <2>0, <3>1, QuietInv DEF ScanBlindly, pollerVars
  <2>1. CASE StartBeat(h)
    <3>1. TypeOK'
      <4>1. {RoleOf[w] : w \in Pending} \subseteq Roles
        BY WakeAssumption DEF Pending
      <4> QED  BY <2>1, <4>1 DEF StartBeat, IInv, TypeOK, pollerVars
    <3> QED  BY <2>1, <3>1, QuietInv DEF StartBeat, pollerVars
  <2>2. CASE EndScan(h)
    <3>1. TypeOK'
      BY <2>2 DEF EndScan, IInv, TypeOK, pollerVars
    <3> QED  BY <2>2, <3>1, QuietInv DEF EndScan, pollerVars
  <2>3. CASE \E r \in Roles : SkipAgent(h, r) \/ SelectWakes(h, r)
    BY <2>3, ScanInv
  <2>4. CASE \E r \in Roles : DispatchAgent(h, r)
    BY <2>4, DispatchAgentInv
  <2>5. CASE MarkDispatched(h)
    BY <2>5, MarkDispatchedInv
  <2>6. CASE CrashBeat(h)
    BY <2>6, CrashBeatInv
  <2> QED  BY <1>3, <2>0, <2>1, <2>2, <2>3, <2>4, <2>5, <2>6 DEF BeatStep
<1>4. ASSUME NEW p \in Pollers, PollerStep(p) \/ CompletionLost(p) \/ AbandonClaims(p)
      PROVE  IInv'
  BY <1>4, ClaimInv, PostInv, SettleInv, GiveUpInv DEF PollerStep
<1>5. CASE UNCHANGED vars
  <2>1. TypeOK'
    BY <1>5 DEF vars, beatVars, pollerVars, IInv, TypeOK
  <2> QED  BY <1>5, <2>1, QuietInv DEF vars, beatVars, pollerVars
<1> QED  BY <1>1, <1>2, <1>3, <1>4, <1>5 DEF Next

LEMMA Invariance == Spec => []IInv
BY InitInv, StepInv, PTL DEF Spec

-----------------------------------------------------------------------------
\* Every state has the right shape: among others the status column only ever
\* holds the values the table's CHECK constraint allows.
THEOREM TypeCorrect == Spec => []TypeOK
<1>1. IInv => TypeOK
  BY DEF IInv
<1> QED  BY <1>1, Invariance, PTL

\* Two pollers never deal with the same row.
THEOREM Exclusive == Spec => []ClaimsExclusive
<1>1. IInv => ClaimsExclusive
  BY DEF IInv
<1> QED  BY <1>1, Invariance, PTL

\* No row leaves the queue unnoticed.
THEOREM Accounted == Spec => []NothingSwallowed
<1>1. IInv => NothingSwallowed
  BY DEF IInv
<1> QED  BY <1>1, Invariance, PTL

-----------------------------------------------------------------------------
(***************************************************************************)
(* The queue implements WakeLedger.  Besides the invariant this needs that *)
(* a row nobody has inserted yet is nowhere.                               *)
(***************************************************************************)
AbsentIsNowhere ==
  \A w \in Wakes : status[w] = "absent" =>
    /\ starts[w] = 0 /\ w \notin dropped
    /\ \A h \in Beats : w \notin picked[h] /\ w \notin inHand[h]
    /\ \A p \in Pollers : w \notin claimed[p]

Drained == UNION {inHand[h] : h \in Beats}
Served  == {w \in Wakes : starts[w] > 0}

\* Who knows a row by name after a step knew it before, or it was pending.
LEMMA AbsentStep == ASSUME IInv, AbsentIsNowhere, [Next]_vars PROVE AbsentIsNowhere'
<1> USE DEF IInv, TypeOK, AbsentIsNowhere, beatVars, pollerVars
<1>1. ASSUME NEW w \in Wakes, Insert(w) PROVE AbsentIsNowhere'
  BY <1>1 DEF Insert
<1>2. CASE Block
  BY <1>2 DEF Block
<1>3. ASSUME NEW h \in Beats, StartBeat(h) \/ ScanBlindly(h) \/ EndScan(h) PROVE AbsentIsNowhere'
  BY <1>3 DEF StartBeat, ScanBlindly, EndScan
<1>4. ASSUME NEW h \in Beats, MarkDispatched(h) PROVE AbsentIsNowhere'
  BY <1>4 DEF MarkDispatched
<1>5. ASSUME NEW h \in Beats, NEW r \in Roles, SkipAgent(h, r) PROVE AbsentIsNowhere'
  BY <1>5 DEF SkipAgent
<1>6. ASSUME NEW h \in Beats, NEW r \in Roles, SelectWakes(h, r) PROVE AbsentIsNowhere'
  <2>1. PICK rows : rows = Oldest({w \in Pending : RoleOf[w] = r}, DrainLimit)
    OBVIOUS
  <2>2. rows \subseteq Pending
    BY <2>1, OldestSubset
  <2>3. picked' = [picked EXCEPT ![h] = rows] /\ UNCHANGED <<status, inHand, claimed, starts, dropped>>
    BY <1>6, <2>1 DEF SelectWakes
  <2> QED  BY <2>2, <2>3 DEF Pending
<1>7. ASSUME NEW h \in Beats, NEW r \in Roles, DispatchAgent(h, r) PROVE AbsentIsNowhere'
  BY <1>7 DEF DispatchAgent, Started
<1>8. ASSUME NEW h \in Beats, CrashBeat(h) PROVE AbsentIsNowhere'
  BY <1>8 DEF CrashBeat
<1>9. ASSUME NEW p \in Pollers, Claim(p) PROVE AbsentIsNowhere'
  <2>1. PICK rows : rows = Oldest(Pending \cap Directives, ClaimLimit)
    OBVIOUS
  <2>2. rows \subseteq Pending
    BY <2>1, OldestSubset
  <2>3. /\ claimed' = [claimed EXCEPT ![p] = rows]
        /\ status' = [w \in Wakes |-> IF w \in rows THEN "dispatched" ELSE status[w]]
        /\ UNCHANGED <<picked, inHand, starts, dropped>>
    BY <1>9, <2>1 DEF Claim
  <2> QED  BY <2>2, <2>3 DEF Pending
<1>10. ASSUME NEW p \in Pollers, Post(p) PROVE AbsentIsNowhere'
  BY <1>10 DEF Post, Started
<1>11. ASSUME NEW p \in Pollers, MarkCompleted(p) \/ MarkPending(p) PROVE AbsentIsNowhere'
  BY <1>11 DEF MarkCompleted, MarkPending, Settle
<1>12. ASSUME NEW p \in Pollers, CompletionLost(p) \/ AbandonClaims(p) PROVE AbsentIsNowhere'
  BY <1>12 DEF CompletionLost, AbandonClaims
<1>13. CASE UNCHANGED vars
  BY <1>13 DEF vars
<1> QED
  BY <1>1, <1>2, <1>3, <1>4, <1>5, <1>6, <1>7, <1>8, <1>9, <1>10, <1>11, <1>12, <1>13
     DEF Next, BeatStep, PollerStep

\* A heartbeat that parts with some of its rows leaves the rest in hand.
LEMMA PartsWith ==
  ASSUME TypeOK, NEW h \in Beats, NEW S, inHand' = [inHand EXCEPT ![h] = inHand[h] \ S]
  PROVE  Drained' \subseteq Drained /\ Drained \ (inHand[h] \cap S) \subseteq Drained'
<1>1. \A g \in Beats : inHand'[g] = IF g = h THEN inHand[h] \ S ELSE inHand[g]
  BY DEF TypeOK
<1>2. Drained' = UNION {inHand'[g] : g \in Beats}
  BY DEF Drained
<1>3. ASSUME NEW w \in Drained' PROVE w \in Drained
  BY <1>1, <1>2, <1>3 DEF Drained
<1>4. ASSUME NEW w \in Drained, ~(w \in inHand[h] /\ w \in S) PROVE w \in Drained'
  BY <1>1, <1>2, <1>4 DEF Drained
<1> QED  BY <1>3, <1>4

\* What the heartbeats' steps are to the ledger.
LEMMA BeatLedger ==
  ASSUME IInv, NEW h \in Beats, StartBeat(h) \/ ScanBlindly(h) \/ BeatStep(h) \/ CrashBeat(h)
  PROVE  [Ledger!LedgerNext]_(Ledger!ledgerVars)
<1> USE DEF IInv, beatVars, pollerVars
<1>1. ASSUME UNCHANGED <<status, inHand, claimed, starts, dropped>>
      PROVE  UNCHANGED (Ledger!ledgerVars)
  BY <1>1 DEF Ledger!ledgerVars, Pending
<1>2. CASE StartBeat(h) \/ ScanBlindly(h) \/ EndScan(h) \/ \E r \in Roles : SkipAgent(h, r) \/ SelectWakes(h, r)
  BY <1>1, <1>2 DEF StartBeat, ScanBlindly, EndScan, SkipAgent, SelectWakes
<1>3. CASE MarkDispatched(h)
  <2>1. PICK S : S = picked[h]
    OBVIOUS
  <2>2. S \in SUBSET Wakes /\ inHand' = [inHand EXCEPT ![h] = inHand[h] \cup S]
    BY <1>3, <2>1 DEF MarkDispatched, TypeOK
  <2>3. Pending' = Pending \ S
    BY <1>3, <2>1 DEF MarkDispatched, Pending, TypeOK
  <2>4. Drained' = Drained \cup S
    <3>1. \A g \in Beats : inHand'[g] = IF g = h THEN inHand[h] \cup S ELSE inHand[g]
      BY <2>2 DEF TypeOK
    <3>2. Drained' = UNION {inHand'[g] : g \in Beats}
      BY DEF Drained
    <3>3. ASSUME NEW w \in Drained' PROVE w \in Drained \cup S
      BY <3>1, <3>2, <3>3 DEF Drained
    <3>4. ASSUME NEW w \in Drained \cup S PROVE w \in Drained'
      BY <3>1, <3>2, <3>4 DEF Drained
    <3> QED  BY <3>3, <3>4
  <2>5. Ledger!Drain
    BY <1>3, <2>2, <2>3, <2>4 DEF MarkDispatched, Ledger!Drain, Drained
  <2> QED  BY <2>5 DEF Ledger!LedgerNext
<1>4. ASSUME NEW r \in Roles, DispatchAgent(h, r) PROVE Ledger!LedgerNext
  <2>1. PICK mine : mine = {w \in inHand[h] : RoleOf[w] = r}
    OBVIOUS
  <2>2. mine \subseteq inHand[h] /\ mine \in SUBSET Wakes /\ mine \in SUBSET Drained
    BY <2>1 DEF TypeOK, Drained
  <2>3. /\ (starts' = Started(mine) /\ dropped' = dropped)
             \/ (dropped' = dropped \cup mine /\ starts' = starts)
        /\ inHand' = [inHand EXCEPT ![h] = inHand[h] \ mine]
        /\ UNCHANGED <<status, claimed>>
    BY <1>4, <2>1 DEF DispatchAgent
  <2>4. Drained' \subseteq Drained /\ Drained \ mine \subseteq Drained'
    BY <2>2, <2>3, PartsWith
  <2>5. starts' = Started(mine) => Served' = Served \cup mine
    BY <2>2 DEF Served, Started, TypeOK
  <2>6. starts' = starts => Served' = Served
    BY DEF Served
  <2>7. Pending' = Pending
    BY <2>3 DEF Pending
  <2>8. Ledger!Dispatch
    BY <2>2, <2>3, <2>4, <2>5, <2>6, <2>7 DEF Ledger!Dispatch, Drained, Served
  <2> QED  BY <2>8 DEF Ledger!LedgerNext
<1>5. CASE CrashBeat(h)
  <2>1. PICK mine : mine = inHand[h]
    OBVIOUS
  <2>2. mine \in SUBSET Drained
    BY <2>1 DEF Drained
  <2>3. /\ dropped' = dropped \cup mine /\ UNCHANGED <<status, claimed, starts>>
        /\ inHand' = [inHand EXCEPT ![h] = inHand[h] \ mine]
    BY <1>5, <2>1 DEF CrashBeat
  <2>4. Drained' \subseteq Drained /\ Drained \ mine \subseteq Drained'
    BY <2>1, <2>3, PartsWith
  <2>5. Served' = Served /\ Pending' = Pending
    BY <2>3 DEF Served, Pending
  <2>6. Ledger!Dispatch
    BY <2>2, <2>3, <2>4, <2>5 DEF Ledger!Dispatch, Drained, Served
  <2> QED  BY <2>6 DEF Ledger!LedgerNext
<1> QED  BY <1>2, <1>3, <1>4, <1>5 DEF BeatStep

\* What the pollers' steps are to it.
LEMMA PollerLedger ==
  ASSUME IInv, NEW p \in Pollers, PollerStep(p) \/ CompletionLost(p) \/ AbandonClaims(p)
  PROVE  [Ledger!LedgerNext]_(Ledger!ledgerVars)
<1> USE DEF IInv, beatVars, pollerVars
<1>1. CASE Claim(p)
  <2>1. PICK S : S = Oldest(Pending \cap Directives, ClaimLimit)
    OBVIOUS
  <2>2. S \subseteq Pending
    BY <2>1, OldestSubset
  <2>3. /\ claimed[p] = {} /\ claimed' = [claimed EXCEPT ![p] = S]
        /\ status' = [w \in Wakes |-> IF w \in S THEN "dispatched" ELSE status[w]]
        /\ UNCHANGED <<inHand, starts, dropped>>
    BY <1>1, <2>1 DEF Claim
  <2>4. \A w \in S : \A q \in Pollers : w \notin claimed[q]
    BY <2>2 DEF ClaimedIsTaken, Pending
  <2>5. S \in SUBSET (Pending \ Ledger!OnLease)
    BY <2>2, <2>4 DEF Ledger!OnLease
  <2>6. Pending' = Pending \ S
    BY <2>3 DEF Pending, TypeOK
  <2>7. Ledger!Take(p)
    BY <2>3, <2>5, <2>6 DEF Ledger!Take, Ledger!Lease
  <2> QED  BY <2>7 DEF Ledger!LedgerNext
<1>2. CASE Post(p)
  <2>1. PICK w \in claimed[p] : starts' \in {starts, Started({w})}
    BY <1>2 DEF Post
  <2>2. UNCHANGED <<status, inHand, claimed, dropped>> /\ w \in Wakes
    BY <1>2, <2>1 DEF Post, TypeOK
  <2>3. CASE starts' = starts
    BY <2>2, <2>3 DEF Ledger!ledgerVars, Pending
  <2>4. CASE starts' = Started({w})
    <3>1. Served' = Served \cup {w}
      BY <2>2, <2>4 DEF Served, Started, TypeOK
    <3>2. Ledger!Serve(p)
      BY <2>1, <2>2, <3>1 DEF Ledger!Serve, Served, Pending
    <3> QED  BY <3>2 DEF Ledger!LedgerNext
  <2> QED  BY <2>1, <2>3, <2>4
<1>3. CASE MarkCompleted(p) \/ MarkPending(p)
  <2>1. PICK w \in claimed[p], column \in {"completed", "pending"} :
          /\ status' = [status EXCEPT ![w] = column]
          /\ claimed' = [claimed EXCEPT ![p] = claimed[p] \ {w}]
          /\ column = "completed" => reply[p] = "executed" /\ FirstClaimed(p, w)
    BY <1>3 DEF MarkCompleted, MarkPending, Settle
  <2>2. w \in Wakes /\ status[w] # "pending" /\ UNCHANGED <<inHand, starts, dropped>>
    BY <1>3, <2>1 DEF MarkCompleted, MarkPending, Settle, TypeOK, ClaimedIsTaken
  <2>3. CASE column = "completed"
    <3>1. w \in Served
      BY <2>1, <2>2, <2>3 DEF ReplyIsForFirst, Served
    <3>2. Pending' = Pending
      BY <2>1, <2>2, <2>3 DEF Pending, TypeOK
    <3>3. Ledger!Settle(p)
      BY <2>1, <2>2, <3>1, <3>2 DEF Ledger!Settle, Ledger!Lease, Served
    <3> QED  BY <3>3 DEF Ledger!LedgerNext
  <2>4. CASE column = "pending"
    <3>1. Pending' = Pending \cup {w}
      BY <2>1, <2>2, <2>4 DEF Pending, TypeOK
    <3>2. Ledger!Settle(p)
      BY <2>1, <2>2, <3>1 DEF Ledger!Settle, Ledger!Lease
    <3> QED  BY <3>2 DEF Ledger!LedgerNext
  <2> QED  BY <2>1, <2>3, <2>4
<1>4. CASE CompletionLost(p)
  BY <1>4 DEF CompletionLost, Ledger!ledgerVars, Pending
<1>5. CASE AbandonClaims(p)
  <2>1. Ledger!GiveUp(p)
    BY <1>5 DEF AbandonClaims, Ledger!GiveUp, Ledger!Lease, Pending
  <2> QED  BY <2>1 DEF Ledger!LedgerNext
<1> QED  BY <1>1, <1>2, <1>3, <1>4, <1>5 DEF PollerStep

\* A row that is inserted has never been anywhere.
LEMMA InsertLedger ==
  ASSUME IInv, AbsentIsNowhere, NEW w \in Wakes, Insert(w)
  PROVE  Ledger!LedgerNext
<1>1. /\ w \notin Pending /\ w \notin Drained /\ w \notin Ledger!OnLease
      /\ w \notin Served /\ w \notin dropped
  BY DEF Insert, AbsentIsNowhere, Pending, Drained, Served, Ledger!OnLease
<1>2. Pending' = Pending \cup {w}
  BY DEF Insert, Pending, IInv, TypeOK
<1>3. Ledger!Arrive
  BY <1>1, <1>2 DEF Insert, beatVars, pollerVars, Ledger!Arrive, Drained, Served
<1> QED  BY <1>3 DEF Ledger!LedgerNext

\* However heartbeats and pollers compete, overlap and die, a wake is accounted for from
\* its insertion on: it waits, is in somebody's hands, was run, or was given up, and it
\* gets from one to another only as the ledger allows.  drainQueue and the poller.
THEOREM LedgerRefinement == Spec => ImplementsWakeLedger
<1>1. Init => Ledger!Empty /\ AbsentIsNowhere
  BY DEF Init, Ledger!Empty, Ledger!Nobody, Pending, AbsentIsNowhere
<1>2. IInv /\ AbsentIsNowhere /\ [Next]_vars =>
        AbsentIsNowhere' /\ [Ledger!LedgerNext]_(Ledger!ledgerVars)
  <2> SUFFICES ASSUME IInv, AbsentIsNowhere, [Next]_vars
               PROVE  AbsentIsNowhere' /\ [Ledger!LedgerNext]_(Ledger!ledgerVars)
    OBVIOUS
  <2>1. ASSUME Block \/ UNCHANGED vars  PROVE  UNCHANGED Ledger!ledgerVars
    BY <2>1 DEF Block, vars, beatVars, pollerVars, Ledger!ledgerVars, Pending
  <2>2. AbsentIsNowhere'
    BY AbsentStep
  <2>3. [Ledger!LedgerNext]_(Ledger!ledgerVars)
    BY <2>1, InsertLedger, BeatLedger, PollerLedger DEF Next
  <2> QED  BY <2>2, <2>3
<1> QED
  BY <1>1, <1>2, Invariance, PTL DEF Spec, ImplementsWakeLedger, Ledger!LedgerSpec

=============================================================================
