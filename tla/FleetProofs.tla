---------------------------- MODULE FleetProofs -----------------------------
(***************************************************************************)
(* Proofs about HeartbeatDispatch: for any number of agents, heartbeats    *)
(* and runs, any dependencies and any limit on concurrency, a heartbeat    *)
(* gives each agent one turn, and gives it in dependency order.  And about *)
(* CircuitBreaker, the halt that stops those runs: for any number of calls *)
(* and instances its rows are whole where trips do not overlap.            *)
(***************************************************************************)
EXTENDS HeartbeatDispatch, CircuitBreaker, FiniteSetTheorems, TLAPS

(***************************************************************************)
(* The inductive invariant.  WaveOrder looks at the agents that are being  *)
(* run; Ordered says the same of the whole current wave, so that it is     *)
(* still true when a later chunk is taken.  WavesOnly is needed where a    *)
(* heartbeat takes its first wave: it has nothing left of an earlier one.  *)
(***************************************************************************)
WavesOnly ==
  \A h \in Beats : pc[h] # "waves" =>
    rest[h] = {} /\ wave[h] = {} /\ chunk[h] = {} /\ awaited[h] = {}

OnList == \A h \in Beats : Unsettled(h) \subseteq list[h]

Independent(h) == \A a \in InWave(h) : \A b \in Unsettled(h) : <<a, b>> \notin deps[h]

Ordered == \A h \in Beats : Independent(h) \/ Circular(list[h], deps[h])

IInv == TypeOK /\ WavesOnly /\ OnList /\ Ordered /\ OneTurn

-----------------------------------------------------------------------------
LEMMA InitInv == Init => IInv
<1> SUFFICES ASSUME Init PROVE IInv
  OBVIOUS
<1>1. TypeOK
  <2>1. /\ pc \in [Beats -> {"idle", "scan", "waves"}]
        /\ list \in [Beats -> SUBSET Agents]
        /\ deps \in [Beats -> SUBSET (Agents \X Agents)]
    BY DEF Init
  <2>2. /\ rest \in [Beats -> SUBSET Agents] /\ wave \in [Beats -> SUBSET Agents]
        /\ chunk \in [Beats -> SUBSET Agents] /\ awaited \in [Beats -> SUBSET Slots]
    BY DEF Init
  <2>3. /\ agent \in [Slots -> Agents]
        /\ exec \in [Slots -> {"none", "starting", "working", "wrapup"}]
        /\ row \in [Slots -> {"none", "running", "overdue", "ended"}]
        /\ restarts \in Nat
    BY DEF Init
  <2> QED  BY <2>1, <2>2, <2>3 DEF TypeOK
<1>2. WavesOnly /\ OnList /\ Ordered /\ OneTurn
  BY DEF Init, WavesOnly, OnList, Ordered, Independent, OneTurn, Unsettled, InWave, Awaited
<1> QED  BY <1>1, <1>2 DEF IInv

-----------------------------------------------------------------------------
\* A step that leaves the waves alone, and that may stop awaiting runs but
\* changes none that is still awaited, keeps the invariant.
LEMMA WavesKept ==
  ASSUME IInv, TypeOK', WavesOnly', UNCHANGED <<list, deps, rest, wave, chunk>>,
         \A h \in Beats : awaited'[h] \subseteq awaited[h],
         \A h \in Beats : \A r \in awaited'[h] : agent'[r] = agent[r]
  PROVE  IInv'
<1>1. \A h \in Beats : Awaited(h)' \subseteq Awaited(h)
  BY DEF Awaited
<1>2. \A h \in Beats : InWave(h)' \subseteq InWave(h) /\ Unsettled(h)' \subseteq Unsettled(h)
  BY <1>1 DEF InWave, Unsettled
<1>3. OnList'
  BY <1>2 DEF IInv, OnList
<1>4. Ordered'
  BY <1>2 DEF IInv, Ordered, Independent, Circular
<1>5. OneTurn'
  BY <1>1, <1>2 DEF IInv, OneTurn
<1> QED  BY <1>3, <1>4, <1>5 DEF IInv

LEMMA ExecutorInv ==
  ASSUME IInv, NEW r \in Slots, InsertRow(r) \/ RecordResult(r) \/ Return(r) \/ GrowStale(r)
  PROVE  IInv'
<1> USE DEF beatVars
<1>1. TypeOK'
  <2>1. CASE InsertRow(r)     BY <2>1 DEF InsertRow, IInv, TypeOK
  <2>2. CASE RecordResult(r)  BY <2>2 DEF RecordResult, IInv, TypeOK
  <2>3. CASE Return(r)        BY <2>3 DEF Return, IInv, TypeOK
  <2>4. CASE GrowStale(r)     BY <2>4 DEF GrowStale, IInv, TypeOK
  <2> QED  BY <2>1, <2>2, <2>3, <2>4
<1>2. /\ UNCHANGED <<pc, list, deps, rest, wave, chunk, agent>>
      /\ \A h \in Beats : awaited'[h] \subseteq awaited[h]
  BY DEF InsertRow, RecordResult, Return, GrowStale
<1>3. WavesOnly'
  BY <1>2 DEF IInv, WavesOnly
<1> QED  BY <1>1, <1>2, <1>3, WavesKept

\* A run is launched where no heartbeat awaits one.
LEMMA LaunchFree ==
  ASSUME TypeOK, NEW r \in Slots, NEW a \in Agents, Launch(r, a)
  PROVE  /\ agent' \in [Slots -> Agents] /\ agent'[r] = a
         /\ exec' \in [Slots -> {"none", "starting", "working", "wrapup"}]
         /\ row' \in [Slots -> {"none", "running", "overdue", "ended"}]
         /\ \A h \in Beats : r \notin awaited[h]
         /\ \A h \in Beats : \A s \in awaited[h] : agent'[s] = agent[s]
BY DEF TypeOK, Launch, Free

LEMMA ImmediateInv ==
  ASSUME IInv, NEW r \in Slots, NEW a \in Reactive, Immediate(r, a)
  PROVE  IInv'
<1> USE DEF Immediate, beatVars
<1>0. a \in Agents
  BY DispatchAssumption
<1>1. TypeOK'
  BY <1>0, LaunchFree DEF IInv, TypeOK
<1>2. WavesOnly'
  BY DEF IInv, WavesOnly
<1> QED  BY <1>0, <1>1, <1>2, LaunchFree, WavesKept DEF IInv

LEMMA GiveUpInv ==
  ASSUME IInv, NEW h \in Beats, NEW r \in Slots, GiveUp(h, r)
  PROVE  IInv'
<1> USE DEF GiveUp, runVars
<1>1. TypeOK' /\ \A g \in Beats : awaited'[g] \subseteq awaited[g]
  BY DEF IInv, TypeOK
<1>2. WavesOnly'
  BY <1>1 DEF IInv, WavesOnly
<1> QED  BY <1>1, <1>2, WavesKept

LEMMA StartBeatInv ==
  ASSUME IInv, NEW h \in Beats, StartBeat(h)
  PROVE  IInv'
<1> USE DEF StartBeat, Reap
<1>1. TypeOK'
  <2>1. PICK fired \in SUBSET Slots :
          /\ \E of \in Injection(fired, {r \in Slots : row[r] = "overdue"}) :
               agent' = [r \in Slots |-> IF r \in fired THEN agent[of[r]] ELSE agent[r]]
          /\ exec' = [r \in Slots |-> IF r \in fired THEN "starting" ELSE exec[r]]
          /\ row' = [r \in Slots |-> IF r \in fired THEN "none"
                       ELSE IF r \in {s \in Slots : row[s] = "overdue"} THEN "ended"
                       ELSE row[r]]
    OBVIOUS
  <2>2. agent' \in [Slots -> Agents]
    <3>1. PICK of \in [fired -> Slots] :
            agent' = [r \in Slots |-> IF r \in fired THEN agent[of[r]] ELSE agent[r]]
      BY <2>1 DEF Injection, IsInjective
    <3> QED  BY <3>1 DEF IInv, TypeOK
  <2>3. /\ exec' \in [Slots -> {"none", "starting", "working", "wrapup"}]
        /\ row' \in [Slots -> {"none", "running", "overdue", "ended"}]
    BY <2>1 DEF IInv, TypeOK
  <2>4. pc' \in [Beats -> {"idle", "scan", "waves"}]
    BY DEF IInv, TypeOK
  <2> QED  BY <2>2, <2>3, <2>4 DEF IInv, TypeOK
<1>2. WavesOnly'
  BY DEF IInv, TypeOK, WavesOnly
<1>3. \A g \in Beats : \A r \in awaited'[g] : agent'[r] = agent[r]
  BY DEF IInv, TypeOK
<1> QED  BY <1>1, <1>2, <1>3, WavesKept

\* A reaping that fails touches only rows.
LEMMA ReapFailsInv ==
  ASSUME IInv, NEW h \in Beats, ReapFails(h)
  PROVE  IInv'
<1> USE DEF ReapFails
<1>1. TypeOK'
  BY DEF IInv, TypeOK
<1>2. WavesOnly'
  BY DEF IInv, TypeOK, WavesOnly
<1> QED  BY <1>1, <1>2, WavesKept

-----------------------------------------------------------------------------
\* A chunk is taken from its wave.
LEMMA ChunkSubset ==
  ASSUME NEW S, NEW c \in ChunkOf(S)
  PROVE  c \subseteq S
BY DEF ChunkOf

\* buildWaves: a wave is taken off S; nobody in it depends on anyone of S,
\* unless everybody in S depends on someone of S.
LEMMA FirstWaveOrder ==
  ASSUME NEW S, NEW D
  PROVE  /\ FirstWave(S, D) \subseteq S
         /\ S # {} => \/ \A a \in FirstWave(S, D) : \A b \in S : <<a, b>> \notin D
                      \/ \A L : S \subseteq L => Circular(L, D)
BY DEF FirstWave, Circular

\* As long as there is anybody left the next wave has somebody, and so has the next
\* chunk, which is within the limit.
LEMMA SomebodyNext ==
  ASSUME NEW S \in SUBSET Agents, S # {}
  PROVE  /\ \A D : FirstWave(S, D) # {}
         /\ \A c \in ChunkOf(S) : c # {} /\ Cardinality(c) <= MaxConcurrent
<1>1. \A D : FirstWave(S, D) # {}
  BY DEF FirstWave
<1>2. IsFiniteSet(S) /\ MaxConcurrent \in Nat \ {0}
  BY DispatchAssumption, FS_Subset
<1>3. Cardinality(S) \in Nat \ {0} /\ Cardinality({}) = 0
  BY <1>2, FS_CardinalityType, FS_EmptySet
<1>4. ASSUME NEW c \in ChunkOf(S)  PROVE  c # {} /\ Cardinality(c) <= MaxConcurrent
  BY <1>2, <1>3 DEF ChunkOf
<1> QED  BY <1>1, <1>4

LEMMA TakeWaveSplits ==
  ASSUME TypeOK, NEW h \in Beats, NEW S \in SUBSET Agents, NEW D, TakeWave(h, S, D)
  PROVE  /\ rest' \in [Beats -> SUBSET Agents] /\ wave' \in [Beats -> SUBSET Agents]
         /\ chunk' \in [Beats -> SUBSET Agents]
         /\ rest'[h] = S \ FirstWave(S, D)
         /\ wave'[h] \cup chunk'[h] = FirstWave(S, D)
         /\ wave'[h] \cap chunk'[h] = {}
         /\ \A g \in Beats \ {h} :
              rest'[g] = rest[g] /\ wave'[g] = wave[g] /\ chunk'[g] = chunk[g]
<1>1. PICK first : first = FirstWave(S, D)
  OBVIOUS
<1>2. first \subseteq S
  BY <1>1, FirstWaveOrder
<1>3. PICK c \in ChunkOf(first) :
        /\ rest' = [rest EXCEPT ![h] = S \ first]
        /\ chunk' = [chunk EXCEPT ![h] = c]
        /\ wave' = [wave EXCEPT ![h] = first \ c]
  BY <1>1 DEF TakeWave
<1>4. c \subseteq first
  BY ChunkSubset
<1> QED  BY <1>1, <1>2, <1>3, <1>4 DEF TypeOK

\* A heartbeat that awaits nothing takes a wave of agents on its list.
LEMMA TakeWaveInv ==
  ASSUME IInv, TypeOK', NEW h \in Beats, NEW S \in SUBSET Agents, S # {},
         TakeWave(h, S, deps'[h]), pc'[h] = "waves", S \subseteq list'[h],
         awaited[h] = {}, UNCHANGED <<awaited, agent>>,
         \A g \in Beats \ {h} :
           pc'[g] = pc[g] /\ list'[g] = list[g] /\ deps'[g] = deps[g]
  PROVE  IInv'
<1>0. PICK D : D = deps'[h]
  OBVIOUS
<1>1. PICK first : first = FirstWave(S, D)
  OBVIOUS
<1>2. /\ rest'[h] = S \ first /\ wave'[h] \cup chunk'[h] = first
      /\ wave'[h] \cap chunk'[h] = {}
      /\ \A g \in Beats \ {h} :
           rest'[g] = rest[g] /\ wave'[g] = wave[g] /\ chunk'[g] = chunk[g]
  BY <1>0, <1>1, TakeWaveSplits DEF IInv
<1>3. Awaited(h)' = {} /\ \A g \in Beats : Awaited(g)' = Awaited(g)
  BY DEF Awaited
<1>4. /\ first \subseteq S
      /\ \/ \A a \in first : \A b \in S : <<a, b>> \notin deps'[h]
         \/ Circular(list'[h], deps'[h])
  BY <1>0, <1>1, FirstWaveOrder
<1>5. InWave(h)' = first /\ Unsettled(h)' = S
  BY <1>2, <1>3, <1>4 DEF InWave, Unsettled
<1>6. \A g \in Beats \ {h} : InWave(g)' = InWave(g) /\ Unsettled(g)' = Unsettled(g)
  BY <1>2, <1>3 DEF InWave, Unsettled
<1>7. WavesOnly'
  BY <1>2 DEF IInv, WavesOnly
<1>8. OnList'
  BY <1>5, <1>6 DEF IInv, OnList
<1>9. Ordered'
  <2> SUFFICES ASSUME NEW g \in Beats
               PROVE  (Independent(g) \/ Circular(list[g], deps[g]))'
    BY DEF Ordered
  <2>1. CASE g = h   BY <2>1, <1>4, <1>5 DEF Independent, Circular
  <2>2. CASE g # h   BY <2>2, <1>6 DEF IInv, Ordered, Independent, Circular
  <2> QED  BY <2>1, <2>2
<1>10. OneTurn'
  BY <1>2, <1>3, <1>5, <1>6 DEF IInv, OneTurn
<1> QED  BY <1>7, <1>8, <1>9, <1>10 DEF IInv

LEMMA ResolveInv ==
  ASSUME IInv, NEW h \in Beats, Resolve(h)
  PROVE  IInv'
<1> USE DEF Resolve, runVars
<1>1. PICK L \in SUBSET Agents, all \in Dependencies :
        LET D == {d \in all : d[1] \in L /\ d[2] \in L /\ d[1] # d[2]}
        IN  IF L = {}
            THEN /\ pc' = [pc EXCEPT ![h] = "idle"]
                 /\ UNCHANGED <<list, deps, rest, wave, chunk>>
            ELSE /\ pc' = [pc EXCEPT ![h] = "waves"]
                 /\ list' = [list EXCEPT ![h] = L]
                 /\ deps' = [deps EXCEPT ![h] = D]
                 /\ TakeWave(h, L, D)
  OBVIOUS
<1>2. PICK D : D = {d \in all : d[1] \in L /\ d[2] \in L /\ d[1] # d[2]}
  OBVIOUS
<1>3. D \in SUBSET (Agents \X Agents)
  BY <1>2, DispatchAssumption
<1>4. CASE L = {}
  <2>1. TypeOK' /\ WavesOnly'
    BY <1>1, <1>4 DEF IInv, TypeOK, WavesOnly
  <2> QED  BY <1>1, <1>4, <2>1, WavesKept
<1>5. CASE L # {}
  <2>1. /\ pc' = [pc EXCEPT ![h] = "waves"] /\ list' = [list EXCEPT ![h] = L]
        /\ deps' = [deps EXCEPT ![h] = D] /\ TakeWave(h, L, D)
    BY <1>1, <1>2, <1>5
  <2>2. deps'[h] = D /\ list'[h] = L /\ pc'[h] = "waves" /\ awaited[h] = {}
    BY <2>1 DEF IInv, TypeOK, WavesOnly
  <2>3. TypeOK'
    BY <1>3, <2>1, TakeWaveSplits DEF IInv, TypeOK
  <2> QED  BY <1>5, <2>1, <2>2, <2>3, TakeWaveInv DEF IInv, TypeOK
<1> QED  BY <1>4, <1>5

-----------------------------------------------------------------------------
LEMMA GuardInv ==
  ASSUME IInv, NEW h \in Beats, NEW a \in Agents, Guard(h, a)
  PROVE  IInv'
<1> USE DEF Guard, runVars
<1>1. /\ a \in chunk[h] /\ chunk' = [chunk EXCEPT ![h] = @ \ {a}]
      /\ UNCHANGED <<pc, list, deps, rest, wave, restarts>> /\ pc[h] = "waves"
  OBVIOUS
<1>2. /\ chunk'[h] = chunk[h] \ {a}
      /\ \A g \in Beats \ {h} : chunk'[g] = chunk[g]
      /\ chunk' \in [Beats -> SUBSET Agents]
  BY <1>1 DEF IInv, TypeOK
<1>3. CASE UNCHANGED <<awaited, agent, exec, row>>
  <2>1. \A g \in Beats : Awaited(g)' = Awaited(g)
    BY <1>3 DEF Awaited
  <2>2. \A g \in Beats : InWave(g)' \subseteq InWave(g) /\ Unsettled(g)' \subseteq Unsettled(g)
    BY <1>1, <1>2, <2>1 DEF InWave, Unsettled
  <2>3. TypeOK' /\ WavesOnly'
    BY <1>1, <1>2, <1>3 DEF IInv, TypeOK, WavesOnly
  <2>4. OnList' /\ Ordered'
    BY <1>1, <2>2 DEF IInv, OnList, Ordered, Independent, Circular
  <2>5. OneTurn'
    BY <1>1, <1>2, <1>3, <2>1, <2>2 DEF IInv, OneTurn
  <2> QED  BY <2>3, <2>4, <2>5 DEF IInv
<1>4. CASE \E r \in Slots : Launch(r, a) /\ awaited' = [awaited EXCEPT ![h] = @ \cup {r}]
  <2>1. PICK r \in Slots : Launch(r, a) /\ awaited' = [awaited EXCEPT ![h] = @ \cup {r}]
    BY <1>4
  <2>2. /\ agent' \in [Slots -> Agents] /\ agent'[r] = a
        /\ exec' \in [Slots -> {"none", "starting", "working", "wrapup"}]
        /\ row' \in [Slots -> {"none", "running", "overdue", "ended"}]
        /\ \A g \in Beats : r \notin awaited[g]
        /\ \A g \in Beats : \A s \in awaited[g] : agent'[s] = agent[s]
    BY <2>1, LaunchFree DEF IInv
  <2>3. /\ awaited'[h] = awaited[h] \cup {r}
        /\ \A g \in Beats \ {h} : awaited'[g] = awaited[g]
        /\ awaited' \in [Beats -> SUBSET Slots]
    BY <2>1 DEF IInv, TypeOK
  <2>4. /\ Awaited(h)' = Awaited(h) \cup {a}
        /\ \A g \in Beats \ {h} : Awaited(g)' = Awaited(g)
    BY <2>2, <2>3 DEF Awaited
  <2>5. \A g \in Beats : InWave(g)' = InWave(g) /\ Unsettled(g)' = Unsettled(g)
    BY <1>1, <1>2, <2>4 DEF InWave, Unsettled
  <2>6. TypeOK' /\ WavesOnly'
    BY <1>1, <1>2, <2>2, <2>3 DEF IInv, TypeOK, WavesOnly
  <2>7. OnList' /\ Ordered'
    BY <1>1, <2>5 DEF IInv, OnList, Ordered, Independent, Circular
  <2>8. OneTurn'
    <3> SUFFICES ASSUME NEW g \in Beats
                 PROVE  (/\ rest[g] \cap InWave(g) = {} /\ wave[g] \cap chunk[g] = {}
                         /\ Awaited(g) \cap (wave[g] \cup chunk[g]) = {}
                         /\ \A q, s \in awaited[g] : agent[q] = agent[s] => q = s)'
      BY DEF OneTurn
    <3>1. CASE g # h
      BY <3>1, <1>1, <1>2, <2>2, <2>3, <2>4, <2>5 DEF IInv, OneTurn
    <3>2. CASE g = h
      <4>1. a \notin Awaited(h) /\ a \notin wave[h]
        BY <1>1 DEF IInv, OneTurn
      <4>2. \A s \in awaited[h] : agent'[s] # a
        BY <2>2, <4>1 DEF Awaited
      <4>3. \A q, s \in awaited'[h] : agent'[q] = agent'[s] => q = s
        BY <2>2, <2>3, <4>2 DEF IInv, OneTurn
      <4> QED  BY <3>2, <1>1, <1>2, <2>4, <2>5, <4>1, <4>3 DEF IInv, OneTurn
    <3> QED  BY <3>1, <3>2
  <2> QED  BY <2>6, <2>7, <2>8 DEF IInv
<1> QED  BY <1>3, <1>4

LEMMA NextChunkInv ==
  ASSUME IInv, NEW h \in Beats, NextChunk(h)
  PROVE  IInv'
<1> USE DEF NextChunk, Advance, runVars
<1>1. pc[h] = "waves" /\ chunk[h] = {} /\ awaited[h] = {} /\ UNCHANGED <<awaited, agent>>
  OBVIOUS
<1>2. \A g \in Beats : Awaited(g)' = Awaited(g)
  BY <1>1 DEF Awaited
<1>3. CASE wave[h] # {}
  <2>1. PICK c \in ChunkOf(wave[h]) :
          /\ chunk' = [chunk EXCEPT ![h] = c] /\ wave' = [wave EXCEPT ![h] = @ \ c]
          /\ UNCHANGED <<pc, list, deps, rest>>
    BY <1>3
  <2>2. c \subseteq wave[h]
    BY ChunkSubset
  <2>3. TypeOK'
    BY <2>1, <2>2 DEF IInv, TypeOK
  <2>4. /\ chunk'[h] = c /\ wave'[h] = wave[h] \ c
        /\ \A g \in Beats \ {h} : chunk'[g] = chunk[g] /\ wave'[g] = wave[g]
    BY <2>1 DEF IInv, TypeOK
  <2>5. \A g \in Beats : InWave(g)' = InWave(g) /\ Unsettled(g)' = Unsettled(g)
    BY <1>1, <1>2, <2>1, <2>2, <2>4 DEF InWave, Unsettled
  <2>6. WavesOnly'
    BY <1>1, <2>1, <2>4 DEF IInv, WavesOnly
  <2>7. OnList' /\ Ordered'
    BY <2>1, <2>5 DEF IInv, OnList, Ordered, Independent, Circular
  <2>8. OneTurn'
    BY <1>1, <1>2, <2>1, <2>2, <2>4, <2>5 DEF IInv, OneTurn
  <2> QED  BY <2>3, <2>6, <2>7, <2>8 DEF IInv
<1>4. CASE wave[h] = {} /\ rest[h] # {}
  <2>1. TakeWave(h, rest[h], deps[h]) /\ UNCHANGED <<pc, list, deps>>
    BY <1>4
  <2>2. rest[h] \in SUBSET Agents /\ rest[h] \subseteq list[h]
    BY DEF IInv, TypeOK, OnList, Unsettled
  <2>3. TypeOK'
    BY <2>1, <2>2, TakeWaveSplits DEF IInv, TypeOK
  <2> QED  BY <1>1, <1>4, <2>1, <2>2, <2>3, TakeWaveInv
<1>5. CASE wave[h] = {} /\ rest[h] = {}
  <2>1. /\ pc' = [pc EXCEPT ![h] = "idle"]
        /\ list' = [list EXCEPT ![h] = {}] /\ deps' = [deps EXCEPT ![h] = {}]
        /\ UNCHANGED <<rest, wave, chunk>>
    BY <1>5
  <2>2. TypeOK' /\ WavesOnly'
    BY <1>1, <1>5, <2>1 DEF IInv, TypeOK, WavesOnly
  <2>3. \A g \in Beats : InWave(g)' = InWave(g) /\ Unsettled(g)' = Unsettled(g)
    BY <1>2, <2>1 DEF InWave, Unsettled
  <2>4. InWave(h) = {} /\ Unsettled(h) = {}
    BY <1>1, <1>5 DEF InWave, Unsettled, Awaited
  <2>5. \A g \in Beats \ {h} : list'[g] = list[g] /\ deps'[g] = deps[g]
    BY <2>1 DEF IInv, TypeOK
  <2>6. OnList'
    BY <2>3, <2>4, <2>5 DEF IInv, OnList
  <2>7. Ordered'
    <3> SUFFICES ASSUME NEW g \in Beats
                 PROVE  (Independent(g) \/ Circular(list[g], deps[g]))'
      BY DEF Ordered
    <3>1. CASE g = h   BY <3>1, <2>3, <2>4 DEF Independent
    <3>2. CASE g # h   BY <3>2, <2>3, <2>5 DEF IInv, Ordered, Independent, Circular
    <3> QED  BY <3>1, <3>2
  <2>8. OneTurn'
    BY <1>1, <1>2, <2>1, <2>3 DEF IInv, OneTurn
  <2> QED  BY <2>2, <2>6, <2>7, <2>8 DEF IInv
<1> QED  BY <1>3, <1>4, <1>5

LEMMA RestartInv ==
  ASSUME IInv, Restart
  PROVE  IInv'
<1> USE DEF Restart
<1>1. TypeOK'
  BY DEF IInv, TypeOK
<1>2. WavesOnly' /\ OnList' /\ Ordered' /\ OneTurn'
  BY DEF WavesOnly, OnList, Ordered, Independent, OneTurn, Unsettled, InWave, Awaited
<1> QED  BY <1>1, <1>2 DEF IInv

-----------------------------------------------------------------------------
LEMMA StepInv == IInv /\ [Next]_vars => IInv'
<1> SUFFICES ASSUME IInv, [Next]_vars PROVE IInv'
  OBVIOUS
<1>1. ASSUME NEW h \in Beats, BeatStep(h) \/ ReapFails(h) PROVE IInv'
  BY <1>1, StartBeatInv, ReapFailsInv, ResolveInv, NextChunkInv, GuardInv DEF BeatStep
<1>2. ASSUME NEW h \in Beats, NEW r \in Slots, GiveUp(h, r) PROVE IInv'
  BY <1>2, GiveUpInv
<1>3. ASSUME NEW r \in Slots, RunStep(r) PROVE IInv'
  BY <1>3, ExecutorInv, ImmediateInv DEF RunStep
<1>4. CASE Restart
  BY <1>4, RestartInv
<1>5. CASE UNCHANGED vars
  <2>1. TypeOK' /\ WavesOnly'
    BY <1>5 DEF vars, beatVars, runVars, IInv, TypeOK, WavesOnly
  <2> QED  BY <1>5, <2>1, WavesKept DEF vars, beatVars, runVars
<1> QED  BY <1>1, <1>2, <1>3, <1>4, <1>5 DEF Next

THEOREM Invariant == Spec => []IInv
<1>1. Init => IInv
  BY InitInv
<1>2. IInv /\ [Next]_vars => IInv'
  BY StepInv
<1> QED  BY <1>1, <1>2, PTL DEF Spec

\* Every variable keeps its type.
THEOREM TypeCorrect == Spec => []TypeOK
BY Invariant, PTL DEF IInv

\* Whatever the limit on concurrency and however runs time out or restart, no
\* heartbeat of heartbeat.ts gives an agent of its wake list two turns.
THEOREM OneTurnEach == Spec => []OneTurn
BY Invariant, PTL DEF IInv

\* Whatever the dependencies, dispatchWaves is done with every agent an agent
\* depends on before it looks at the agent, unless there is a circle.
THEOREM WavesInOrder == Spec => []WaveOrder
<1>1. IInv => WaveOrder
  BY DEF IInv, Ordered, Independent, WaveOrder, InWave, Unsettled
<1> QED  BY <1>1, Invariant, PTL

-----------------------------------------------------------------------------
(***************************************************************************)
(* Refinement of OrderedTurns.  Beyond the invariant it needs that a run   *)
(* is awaited by one heartbeat, so that its return settles one agent.      *)
(***************************************************************************)
OneAwaits ==
  \A g, h \in Beats : g # h => awaited[g] \cap awaited[h] = {}

LEMMA OneAwaitsStep == IInv /\ OneAwaits /\ [Next]_vars => OneAwaits'
<1> SUFFICES ASSUME IInv, OneAwaits, [Next]_vars PROVE OneAwaits'
  OBVIOUS
<1>1. CASE \A h \in Beats : awaited'[h] \subseteq awaited[h]
  BY <1>1 DEF OneAwaits
<1>2. ASSUME NEW h \in Beats, NEW a \in Agents, Guard(h, a) PROVE OneAwaits'
  <2>1. CASE UNCHANGED awaited
    BY <2>1, <1>1
  <2>2. CASE \E r \in Slots : Launch(r, a) /\ awaited' = [awaited EXCEPT ![h] = @ \cup {r}]
    <3>1. PICK r \in Slots : Launch(r, a) /\ awaited' = [awaited EXCEPT ![h] = @ \cup {r}]
      BY <2>2
    <3>2. \A g \in Beats : r \notin awaited[g]
      BY <3>1, LaunchFree DEF IInv
    <3>3. /\ awaited'[h] = awaited[h] \cup {r}
          /\ \A g \in Beats \ {h} : awaited'[g] = awaited[g]
      BY <3>1 DEF IInv, TypeOK
    <3> QED  BY <3>2, <3>3 DEF OneAwaits
  <2> QED  BY <1>2, <2>1, <2>2 DEF Guard
<1>3. ASSUME NEW h \in Beats, BeatStep(h) \/ ReapFails(h) \/ \E r \in Slots : GiveUp(h, r)
      PROVE  OneAwaits'
  <2>1. CASE StartBeat(h) \/ ReapFails(h) \/ Resolve(h) \/ NextChunk(h)
    BY <2>1, <1>1 DEF StartBeat, Reap, ReapFails, Resolve, NextChunk, Advance
  <2>2. CASE \E r \in Slots : GiveUp(h, r)
    <3>1. \A g \in Beats : awaited'[g] \subseteq awaited[g]
      BY <2>2 DEF GiveUp, IInv, TypeOK
    <3> QED  BY <3>1, <1>1
  <2> QED  BY <1>2, <1>3, <2>1, <2>2 DEF BeatStep
<1>4. ASSUME NEW r \in Slots, RunStep(r) PROVE OneAwaits'
  BY <1>1, <1>4 DEF RunStep, InsertRow, RecordResult, Return, GrowStale, Immediate, beatVars
<1>5. CASE Restart
  BY <1>1, <1>5 DEF Restart
<1>6. CASE UNCHANGED vars
  BY <1>1, <1>6 DEF vars, beatVars
<1> QED  BY <1>3, <1>4, <1>5, <1>6 DEF Next

Waits(h) == rest[h] \cup wave[h]
Turn(h)  == chunk[h] \cup Awaited(h)

LEMMA OnlyOne ==
  ASSUME NEW h \in Beats,
         \A g \in Beats \ {h} : /\ list'[g] = list[g] /\ deps'[g] = deps[g]
                                /\ Waits(g)' = Waits(g) /\ Turn(g)' = Turn(g)
  PROVE  Turns!Only(h)
BY DEF Turns!Only, Waits, Turn

LEMMA TypedTurns == TypeOK => Turns!Typed
<1> SUFFICES ASSUME TypeOK PROVE Turns!Typed
  OBVIOUS
<1>1. \A h \in Beats : Awaited(h) \subseteq Agents
  BY DEF TypeOK, Awaited
<1>2. [h \in Beats |-> rest[h] \cup wave[h]] \in [Beats -> SUBSET Agents]
  BY DEF TypeOK
<1>3. [h \in Beats |-> chunk[h] \cup Awaited(h)] \in [Beats -> SUBSET Agents]
  BY <1>1 DEF TypeOK
<1> QED  BY <1>2, <1>3 DEF TypeOK, Turns!Typed

\* A step that leaves the waves and the agents of the awaited runs alone is none of
\* OrderedTurns.
LEMMA NoTurn ==
  ASSUME UNCHANGED <<list, deps, rest, wave>>,
         \A g \in Beats : Turn(g)' = Turn(g)
  PROVE  UNCHANGED Turns!turnVars
BY DEF Turns!turnVars, Turn

LEMMA SameAwaited ==
  ASSUME UNCHANGED awaited, \A g \in Beats : \A r \in awaited[g] : agent'[r] = agent[r]
  PROVE  \A g \in Beats : Awaited(g)' = Awaited(g)
BY DEF Awaited

\* The agent of a run that a heartbeat stops awaiting, and no other, has had its turn.
LEMMA StopsAwaiting ==
  ASSUME IInv, NEW h \in Beats, NEW r \in awaited[h], awaited'[h] = awaited[h] \ {r},
         \A g \in Beats \ {h} : awaited'[g] = awaited[g],
         UNCHANGED <<list, deps, rest, wave, chunk, agent>>
  PROVE  Turns!Settle(h)
<1>1. \A g \in Beats \ {h} : Turn(g)' = Turn(g)
  BY DEF Turn, Awaited
<1>2. agent[r] \in Turn(h) /\ Turn(h)' = Turn(h) \ {agent[r]}
  <2>1. Awaited(h)' = Awaited(h) \ {agent[r]}
    BY DEF IInv, OneTurn, Awaited
  <2>2. agent[r] \in Awaited(h) /\ Awaited(h) \cap chunk[h] = {}
    BY DEF IInv, OneTurn, Awaited
  <2> QED  BY <2>1, <2>2 DEF Turn
<1>3. Turns!Only(h)
  BY <1>1, OnlyOne DEF Waits
<1> QED  BY <1>2, <1>3 DEF Turns!Settle, Turns!SameList, Turn

\* A chunk is taken by a heartbeat that awaits nothing.
LEMMA Taken ==
  ASSUME NEW h \in Beats, awaited[h] = {}, UNCHANGED <<awaited, agent>>, NEW U,
         rest'[h] \cup wave'[h] \cup chunk'[h] = U,
         (rest'[h] \cup wave'[h]) \cap chunk'[h] = {},
         chunk'[h] \in SUBSET Agents, chunk'[h] # {}, Cardinality(chunk'[h]) <= MaxConcurrent,
         \/ \A a \in chunk'[h] : \A b \in U : <<a, b>> \notin deps'[h]
         \/ Circular(list'[h], deps'[h])
  PROVE  Turns!Splits(h, U)
<1>1. Awaited(h)' = {}
  BY DEF Awaited
<1>2. chunk'[h] \cup Awaited(h)' = chunk'[h]
  BY <1>1
<1> QED  BY <1>1, <1>2 DEF Turns!Splits, Turns!MayBegin, Turns!Circle, Circular

LEMMA TakeWaveTaken ==
  ASSUME TypeOK, NEW h \in Beats, NEW S \in SUBSET Agents, NEW D, TakeWave(h, S, D),
         awaited[h] = {}, UNCHANGED <<awaited, agent>>, deps'[h] = D, S \subseteq list'[h],
         S # {}
  PROVE  Turns!Splits(h, S)
<1>1. PICK first : first = FirstWave(S, D)
  OBVIOUS
<1>2. /\ first \subseteq S
      /\ S # {} => (\A a \in first : \A b \in S : <<a, b>> \notin D) \/ Circular(list'[h], D)
  BY <1>1, FirstWaveOrder
<1>3. /\ rest'[h] = S \ first /\ wave'[h] \cup chunk'[h] = first
      /\ wave'[h] \cap chunk'[h] = {}
  <2>1. /\ rest'[h] = S \ FirstWave(S, D)
        /\ wave'[h] \cup chunk'[h] = FirstWave(S, D)
        /\ wave'[h] \cap chunk'[h] = {}
    BY TakeWaveSplits, Z3
  <2> QED  BY <1>1, <2>1
<1>4. /\ rest'[h] \cup wave'[h] \cup chunk'[h] = S
      /\ (rest'[h] \cup wave'[h]) \cap chunk'[h] = {} /\ chunk'[h] \subseteq first
  BY <1>2, <1>3
<1>5. \/ \A a \in chunk'[h] : \A b \in S : <<a, b>> \notin deps'[h]
      \/ Circular(list'[h], deps'[h])
  BY <1>2, <1>4
<1>6. /\ chunk'[h] \in SUBSET Agents /\ chunk'[h] # {}
      /\ Cardinality(chunk'[h]) <= MaxConcurrent
  <2>1. first # {} /\ first \in SUBSET Agents
    BY <1>1, <1>2, SomebodyNext
  <2>2. chunk'[h] \in ChunkOf(first)
    BY <1>1 DEF TakeWave, TypeOK
  <2> QED  BY <1>4, <2>1, <2>2, SomebodyNext
<1> QED  BY <1>4, <1>5, <1>6, Taken

-----------------------------------------------------------------------------
LEMMA RunTurns ==
  ASSUME IInv, OneAwaits, NEW r \in Slots, RunStep(r)
  PROVE  (\E h \in Beats : Turns!Settle(h)) \/ UNCHANGED Turns!turnVars
<1>1. CASE InsertRow(r) \/ RecordResult(r) \/ GrowStale(r) \/ \E a \in Reactive : Immediate(r, a)
  <2>1. UNCHANGED beatVars
    BY <1>1 DEF InsertRow, RecordResult, GrowStale, Immediate, beatVars
  <2>2. \A g \in Beats : \A s \in awaited[g] : agent'[s] = agent[s]
    <3>1. CASE \E a \in Reactive : Immediate(r, a)
      BY <3>1, LaunchFree, DispatchAssumption DEF IInv, Immediate
    <3>2. CASE InsertRow(r) \/ RecordResult(r) \/ GrowStale(r)
      BY <3>2 DEF InsertRow, RecordResult, GrowStale
    <3> QED  BY <1>1, <3>1, <3>2
  <2> QED  BY <2>1, <2>2, SameAwaited, NoTurn DEF beatVars, Turn
<1>2. CASE Return(r)
  <2>1. /\ \A g \in Beats : awaited'[g] = awaited[g] \ {r}
        /\ UNCHANGED <<list, deps, rest, wave, chunk, agent>>
    BY <1>2 DEF Return
  <2>2. CASE \E h \in Beats : r \in awaited[h]
    <3>1. PICK h \in Beats : r \in awaited[h]
      BY <2>2
    <3>2. \A g \in Beats \ {h} : r \notin awaited[g]
      BY <3>1 DEF OneAwaits
    <3>3. \A g \in Beats \ {h} : awaited'[g] = awaited[g]
      BY <2>1, <3>2
    <3> QED  BY <2>1, <3>1, <3>3, StopsAwaiting
  <2>3. CASE \A h \in Beats : r \notin awaited[h]
    BY <2>1, <2>3, NoTurn DEF Turn, Awaited
  <2> QED  BY <2>2, <2>3
<1> QED  BY <1>1, <1>2 DEF RunStep

LEMMA GuardTurns ==
  ASSUME IInv, NEW h \in Beats, NEW a \in Agents, Guard(h, a)
  PROVE  Turns!Settle(h) \/ UNCHANGED Turns!turnVars
<1> USE DEF Guard, runVars
<1>1. /\ a \in chunk[h] /\ chunk'[h] = chunk[h] \ {a}
      /\ \A g \in Beats \ {h} : chunk'[g] = chunk[g]
      /\ UNCHANGED <<list, deps, rest, wave>>
  BY DEF IInv, TypeOK
<1>2. CASE UNCHANGED <<awaited, agent, exec, row>>
  <2>1. \A g \in Beats : Awaited(g)' = Awaited(g)
    BY <1>2 DEF Awaited
  <2>2. a \in Turn(h) /\ Turn(h)' = Turn(h) \ {a}
    BY <1>1, <2>1 DEF IInv, OneTurn, Turn
  <2>3. Turns!Only(h)
    BY <1>1, <2>1, OnlyOne DEF Waits, Turn
  <2> QED  BY <1>1, <2>2, <2>3 DEF Turns!Settle, Turns!SameList, Turn
<1>3. CASE \E r \in Slots : Launch(r, a) /\ awaited' = [awaited EXCEPT ![h] = @ \cup {r}]
  <2>1. PICK r \in Slots : Launch(r, a) /\ awaited' = [awaited EXCEPT ![h] = @ \cup {r}]
    BY <1>3
  <2>2. agent'[r] = a /\ \A g \in Beats : \A s \in awaited[g] : agent'[s] = agent[s]
    BY <2>1, LaunchFree DEF IInv
  <2>3. /\ awaited'[h] = awaited[h] \cup {r}
        /\ \A g \in Beats \ {h} : awaited'[g] = awaited[g]
    BY <2>1 DEF IInv, TypeOK
  <2>4. \A g \in Beats : Turn(g)' = Turn(g)
    BY <1>1, <2>2, <2>3 DEF Turn, Awaited
  <2> QED  BY <1>1, <2>4, NoTurn
<1> QED  BY <1>2, <1>3

LEMMA ResolveTurns ==
  ASSUME IInv, NEW h \in Beats, Resolve(h)
  PROVE  Turns!Open(h) \/ UNCHANGED Turns!turnVars
<1> USE DEF Resolve, runVars
<1>1. PICK L \in SUBSET Agents, all \in Dependencies :
        LET D == {d \in all : d[1] \in L /\ d[2] \in L /\ d[1] # d[2]}
        IN  IF L = {}
            THEN /\ pc' = [pc EXCEPT ![h] = "idle"]
                 /\ UNCHANGED <<list, deps, rest, wave, chunk>>
            ELSE /\ pc' = [pc EXCEPT ![h] = "waves"]
                 /\ list' = [list EXCEPT ![h] = L]
                 /\ deps' = [deps EXCEPT ![h] = D]
                 /\ TakeWave(h, L, D)
  OBVIOUS
<1>2. PICK D : D = {d \in all : d[1] \in L /\ d[2] \in L /\ d[1] # d[2]}
  OBVIOUS
<1>3. \A g \in Beats : Awaited(g)' = Awaited(g)
  BY DEF Awaited
<1>4. CASE L = {}
  BY <1>1, <1>3, <1>4, NoTurn DEF Turn
<1>5. CASE L # {}
  <2>1. /\ list' = [list EXCEPT ![h] = L] /\ deps' = [deps EXCEPT ![h] = D]
        /\ TakeWave(h, L, D)
    BY <1>1, <1>2, <1>5
  <2>2. /\ deps'[h] = D /\ list'[h] = L
        /\ \A g \in Beats \ {h} : deps'[g] = deps[g] /\ list'[g] = list[g]
    BY <2>1 DEF IInv, TypeOK
  <2>3. /\ pc[h] = "scan" /\ awaited[h] = {}
        /\ rest[h] = {} /\ wave[h] = {} /\ chunk[h] = {}
    BY DEF IInv, WavesOnly
  <2>4. Turns!Splits(h, L)
    BY <1>5, <2>1, <2>2, <2>3, TakeWaveTaken DEF IInv
  <2>5. Turns!Over(h)
    BY <2>3 DEF Turns!Over, Awaited
  <2>6. Turns!Only(h)
    BY <2>1, <2>2, <1>3, TakeWaveSplits, OnlyOne DEF IInv, Waits, Turn
  <2> QED  BY <2>2, <2>4, <2>5, <2>6 DEF Turns!Open, Turns!Splits
<1> QED  BY <1>4, <1>5

LEMMA NextChunkTurns ==
  ASSUME IInv, NEW h \in Beats, NextChunk(h)
  PROVE  Turns!Begin(h) \/ Turns!Close(h)
<1> USE DEF NextChunk, Advance, runVars
<1>1. /\ chunk[h] = {} /\ awaited[h] = {} /\ UNCHANGED <<awaited, agent>>
      /\ Awaited(h) = {} /\ \A g \in Beats : Awaited(g)' = Awaited(g)
  BY DEF Awaited
<1>2. CASE wave[h] # {}
  <2>1. PICK c \in ChunkOf(wave[h]) :
          /\ chunk' = [chunk EXCEPT ![h] = c] /\ wave' = [wave EXCEPT ![h] = @ \ c]
          /\ UNCHANGED <<pc, list, deps, rest>>
    BY <1>2
  <2>2. c \subseteq wave[h]
    BY ChunkSubset
  <2>3. /\ chunk'[h] = c /\ wave'[h] = wave[h] \ c
        /\ \A g \in Beats \ {h} : chunk'[g] = chunk[g] /\ wave'[g] = wave[g]
    BY <2>1 DEF IInv, TypeOK
  <2>4. rest[h] \cap wave[h] = {}
    BY DEF IInv, OneTurn, InWave
  <2>5. \/ \A a \in c : \A b \in rest[h] \cup wave[h] : <<a, b>> \notin deps'[h]
        \/ Circular(list'[h], deps'[h])
    BY <2>1, <2>2 DEF IInv, Ordered, Independent, InWave, Unsettled, Circular
  <2>6. PICK U : U = rest[h] \cup wave[h]
    OBVIOUS
  <2>8. /\ rest'[h] \cup wave'[h] \cup chunk'[h] = U
        /\ (rest'[h] \cup wave'[h]) \cap chunk'[h] = {}
    BY <2>1, <2>2, <2>3, <2>4, <2>6
  <2>10. /\ chunk'[h] \in SUBSET Agents /\ chunk'[h] # {}
         /\ Cardinality(chunk'[h]) <= MaxConcurrent
    BY <1>2, <2>2, <2>3, SomebodyNext DEF IInv, TypeOK
  <2>9. Turns!Splits(h, U)
    BY <1>1, <2>3, <2>5, <2>6, <2>8, <2>10, Taken
  <2>7. Turns!Only(h)
    BY <1>1, <2>1, <2>3, OnlyOne DEF Waits, Turn
  <2> QED
    BY <1>1, <2>1, <2>6, <2>7, <2>9 DEF Turns!Begin, Turns!SameList, Turns!Splits
<1>3. CASE wave[h] = {} /\ rest[h] # {}
  <2>1. TakeWave(h, rest[h], deps[h]) /\ UNCHANGED <<pc, list, deps>>
    BY <1>3
  <2>2. rest[h] \in SUBSET Agents /\ rest[h] \subseteq list[h]
    BY DEF IInv, TypeOK, OnList, Unsettled
  <2>3. PICK U : U = rest[h]
    OBVIOUS
  <2>5. PICK D : D = deps[h]
    OBVIOUS
  <2>6. Turns!Splits(h, U)
    BY <1>1, <1>3, <2>1, <2>2, <2>3, <2>5, TakeWaveTaken DEF IInv
  <2>4. Turns!Only(h)
    BY <1>1, <2>1, <2>2, TakeWaveSplits, OnlyOne DEF IInv, Waits, Turn
  <2> QED
    BY <1>1, <1>3, <2>1, <2>3, <2>4, <2>6 DEF Turns!Begin, Turns!SameList, Turns!Splits
<1>4. CASE wave[h] = {} /\ rest[h] = {}
  <2>1. /\ list'[h] = {} /\ deps'[h] = {} /\ UNCHANGED <<rest, wave, chunk>>
        /\ \A g \in Beats \ {h} : list'[g] = list[g] /\ deps'[g] = deps[g]
    BY <1>4 DEF IInv, TypeOK
  <2>2. Turns!Only(h)
    BY <1>1, <2>1, OnlyOne DEF Waits, Turn
  <2> QED  BY <1>1, <1>4, <2>1, <2>2 DEF Turns!Close, Turns!Over
<1> QED  BY <1>2, <1>3, <1>4

LEMMA TurnsStep ==
  IInv /\ IInv' /\ OneAwaits /\ [Next]_vars => [Turns!TurnsNext]_(Turns!turnVars)
<1> SUFFICES ASSUME IInv, IInv', OneAwaits, [Next]_vars
             PROVE  Turns!TurnsNext \/ UNCHANGED Turns!turnVars
  OBVIOUS
<1>0. Turns!Typed'
  <2>1. TypeOK'
    BY DEF IInv
  <2> QED  BY <2>1, TypedTurns, PTL
<1>1. ASSUME NEW h \in Beats, BeatStep(h) \/ ReapFails(h)
      PROVE  Turns!TurnsNext \/ UNCHANGED Turns!turnVars
  <2>1. CASE StartBeat(h)
    <3>1. /\ UNCHANGED <<list, deps, rest, wave, chunk, awaited>>
          /\ \A g \in Beats : \A r \in awaited[g] : agent'[r] = agent[r]
      BY <2>1 DEF StartBeat, Reap, IInv, TypeOK
    <3> QED  BY <3>1, SameAwaited, NoTurn DEF Turn
  <2>2. CASE ReapFails(h)
    <3>1. UNCHANGED <<list, deps, rest, wave, chunk, awaited, agent>>
      BY <2>2 DEF ReapFails
    <3> QED  BY <3>1, SameAwaited, NoTurn DEF Turn
  <2>3. CASE Resolve(h) \/ NextChunk(h) \/ \E a \in Agents : Guard(h, a)
    BY <1>0, <2>3, ResolveTurns, NextChunkTurns, GuardTurns DEF Turns!TurnsNext
  <2> QED  BY <1>1, <2>1, <2>2, <2>3 DEF BeatStep
<1>2. ASSUME NEW h \in Beats, NEW r \in Slots, GiveUp(h, r)
      PROVE  Turns!TurnsNext
  <2>1. Turns!Settle(h)
    <3>1. /\ r \in awaited[h] /\ awaited'[h] = awaited[h] \ {r}
          /\ \A g \in Beats \ {h} : awaited'[g] = awaited[g]
          /\ UNCHANGED <<list, deps, rest, wave, chunk, agent>>
      BY <1>2 DEF GiveUp, runVars, IInv, TypeOK
    <3> QED  BY <3>1, StopsAwaiting
  <2> QED  BY <1>0, <2>1 DEF Turns!TurnsNext
<1>3. ASSUME NEW r \in Slots, RunStep(r)
      PROVE  Turns!TurnsNext \/ UNCHANGED Turns!turnVars
  BY <1>0, <1>3, RunTurns DEF Turns!TurnsNext
<1>4. CASE Restart
  <2>1. Turns!Break
    BY <1>4 DEF Restart, Turns!Break, Turns!Nothing, Awaited
  <2> QED  BY <1>0, <2>1 DEF Turns!TurnsNext
<1>5. CASE UNCHANGED vars
  <2>1. UNCHANGED <<list, deps, rest, wave, chunk, awaited, agent>>
    BY <1>5 DEF vars, beatVars, runVars
  <2> QED  BY <2>1, SameAwaited, NoTurn DEF Turn
<1> QED  BY <1>1, <1>2, <1>3, <1>4, <1>5 DEF Next

\* Heartbeats with their waves, chunks, guards, timeouts and lost runs give turns as
\* OrderedTurns says: every agent of the list one, after those it depends on, and no
\* heartbeat ends with a turn still to be given or still going on.
THEOREM TurnsRefinement == Spec => ImplementsOrderedTurns
<1>1. Init => Turns!Quiet
  BY DEF Init, Turns!Quiet, Turns!Nothing, Awaited
<1>2. Init => OneAwaits
  BY DEF Init, OneAwaits
<1>3. IInv /\ OneAwaits /\ [Next]_vars => OneAwaits'
  BY OneAwaitsStep
<1>4. IInv /\ IInv' /\ OneAwaits /\ [Next]_vars => [Turns!TurnsNext]_(Turns!turnVars)
  BY TurnsStep
<1> QED
  BY <1>1, <1>2, <1>3, <1>4, Invariant, PTL DEF Spec, ImplementsOrderedTurns, Turns!TurnsSpec

-----------------------------------------------------------------------------
(***************************************************************************)
(* The breaker.  Rows are written by nobody but a trip; as long as one at  *)
(* most is being written, it is the last that was begun, and the rows it   *)
(* has passed are already its own.                                         *)
(***************************************************************************)
OneWriter ==
  \A c, d \in Calls : Writing(c) /\ Writing(d) => c = d

WriterIsLatest ==
  \A c \in Calls : Writing(c) =>
    plan[c] = latest /\ (at[c] = "expires" => level = latest.level)

RowsAreLatest ==
  (\A c \in Calls : ~Writing(c)) =>
    /\ level = latest.level
    /\ expires = latest.expires \/ (expires = "past" /\ latest.expires = "future")

RowsFollow == ~torn => OneWriter /\ WriterIsLatest /\ RowsAreLatest

Places == {"idle", "select", "expire", "selected", "through", "level", "expires",
           "written", "lapse", "clear", "cleared"}

RowsOK ==
  /\ active \in BOOLEAN /\ level \in 1 .. 3 /\ expires \in {"none", "future", "past"}
  /\ cache \in [Instances -> {{}} \cup {{s} : s \in 0 .. 3}]
  /\ seen \in [Calls -> 0 .. 3]

CallsOK == at \in [Calls -> Places] /\ kind \in [Calls -> Kinds \cup {"status"}]

TripsOK ==
  /\ plan \in [Calls -> [level : 1 .. 3, expires : {"none", "future"}]]
  /\ latest \in [level : 1 .. 3, expires : {"none", "future"}] /\ torn \in BOOLEAN
  /\ trips \in 0 .. MaxTrips /\ faults \in 0 .. MaxFaults

BreakerIInv == RowsOK /\ CallsOK /\ TripsOK /\ RowsFollow

LEMMA BreakerInitInv == BreakerInit => BreakerIInv
<1> SUFFICES ASSUME BreakerInit PROVE BreakerIInv
  OBVIOUS
<1> USE BreakerAssumption DEF BreakerInit
<1>1. RowsOK
  <2>1. cache \in [Instances -> {{}} \cup {{s} : s \in 0 .. 3}]
    OBVIOUS
  <2>2. active \in BOOLEAN
    OBVIOUS
  <2>3. level \in 1 .. 3 /\ expires \in {"none", "future", "past"}
    OBVIOUS
  <2> QED  BY <2>1, <2>2, <2>3 DEF RowsOK
<1>2. CallsOK
  BY DEF CallsOK, Places
<1>3. TripsOK
  <2>1. NoPlan \in [level : 1 .. 3, expires : {"none", "future"}]
    BY DEF NoPlan
  <2>2. torn \in BOOLEAN
    OBVIOUS
  <2>3. trips \in 0 .. MaxTrips /\ faults \in 0 .. MaxFaults
    OBVIOUS
  <2> QED  BY <2>1, <2>2, <2>3 DEF TripsOK
<1>4. RowsFollow
  BY DEF RowsFollow, OneWriter, WriterIsLatest, RowsAreLatest, Writing, NoPlan
<1> QED  BY <1>1, <1>2, <1>3, <1>4 DEF BreakerIInv

\* A call goes where calls go; one that is told a status is idle or through then.
LEMMA GoesOK ==
  ASSUME CallsOK, NEW c \in Calls, NEW k \in Kinds \cup {"status"}, NEW where \in Places,
         Goes(c, k, where)
  PROVE  CallsOK' /\ at' = [at EXCEPT ![c] = where]
BY DEF CallsOK, Goes

LEMMA GoOK ==
  ASSUME CallsOK, NEW c \in Calls, NEW where \in Places, Go(c, where)
  PROVE  CallsOK' /\ at' = [at EXCEPT ![c] = where]
<1>1. kind[c] \in Kinds \cup {"status"}
  BY DEF CallsOK
<1> QED  BY <1>1, GoesOK DEF Go

LEMMA ToldOK ==
  ASSUME CallsOK, NEW c \in Calls, NEW k \in Kinds \cup {"status"}, NEW s, Told(c, k, s)
  PROVE  CallsOK' /\ \E where \in {"idle", "through"} : at' = [at EXCEPT ![c] = where]
<1>1. PICK where \in {"idle", "through"} : Goes(c, k, where)
  BY DEF Told
<1>2. where \in Places
  BY DEF Places
<1> QED  BY <1>1, <1>2, GoesOK

\* What is remembered is a status.
LEMMA RememberOK ==
  ASSUME RowsOK, NEW c \in Calls, NEW s \in 0 .. 3, Remember(c, s)
  PROVE  cache' \in [Instances -> {{}} \cup {{l} : l \in 0 .. 3}]
<1>1. InstanceOf[c] \in Instances
  BY BreakerAssumption
<1> QED  BY <1>1 DEF RowsOK, Remember

LEMMA ForgetOK ==
  ASSUME RowsOK, NEW c \in Calls, Forget(c)
  PROVE  cache' \in [Instances -> {{}} \cup {{l} : l \in 0 .. 3}]
BY DEF RowsOK, Forget

\* What is remembered of the trip that was begun last.
LEMMA LatestOK ==
  ASSUME NEW h \in [level : 1 .. 3, expires : {"none", "future"}],
         NEW t \in BOOLEAN, Latest(h, t)
  PROVE  /\ latest' \in [level : 1 .. 3, expires : {"none", "future"}]
         /\ torn' = t /\ (~torn' => latest' = h)
BY DEF Latest, NoPlan

\* A call that neither begins nor goes on with a trip, in a step that leaves level
\* and expires alone.
LEMMA NotWriting ==
  ASSUME BreakerIInv, NEW c \in Calls, NEW where \in Places \ {"level", "expires"},
         at' = [at EXCEPT ![c] = where], at[c] \notin {"level", "expires"},
         \A d \in Calls \ {c} : plan'[d] = plan[d],
         UNCHANGED <<level, expires, history>>
  PROVE  RowsFollow'
<1>1. \A d \in Calls : at'[d] = IF d = c THEN where ELSE at[d]
  BY DEF BreakerIInv, CallsOK
<1>2. \A d \in Calls : Writing(d)' <=> Writing(d)
  BY <1>1 DEF Writing
<1>3. ~Writing(c)
  BY DEF Writing
<1> QED
  BY <1>1, <1>2, <1>3 DEF BreakerIInv, RowsFollow, OneWriter, WriterIsLatest,
     RowsAreLatest, history

-----------------------------------------------------------------------------
LEMMA AskInv ==
  ASSUME BreakerIInv, NEW c \in Calls, NEW k \in Kinds, Ask(c, k)
  PROVE  BreakerIInv'
<1> USE DEF Ask
<1>1. RowsOK /\ CallsOK /\ TripsOK
  BY DEF BreakerIInv
<1>2. \E where \in {"idle", "through", "select"} :
        CallsOK' /\ at' = [at EXCEPT ![c] = where]
  <2>0. {"through", "select"} \subseteq Places
    BY DEF Places
  <2>1. CASE k = "runtime"
    BY <2>0, <2>1, <1>1, GoesOK
  <2>2. CASE k # "runtime" /\ cache[InstanceOf[c]] = {}
    BY <2>0, <2>2, <1>1, GoesOK
  <2>3. CASE k # "runtime" /\ cache[InstanceOf[c]] # {}
    BY <2>3, <1>1, ToldOK
  <2> QED  BY <2>1, <2>2, <2>3
<1>3. RowsOK' /\ TripsOK'
  BY <1>1 DEF RowsOK, TripsOK, rows, history
<1>4. RowsFollow'
  BY <1>2, NotWriting DEF rows, Places
<1> QED  BY <1>2, <1>3, <1>4 DEF BreakerIInv

\* getHaltStatus past the cache.
LEMMA SelectInv ==
  ASSUME BreakerIInv, NEW c \in Calls, Select(c)
  PROVE  BreakerIInv'
<1> USE DEF Select
<1>1. RowsOK /\ CallsOK /\ TripsOK
  BY DEF BreakerIInv
<1>2. \E where \in {"expire", "selected"} :
        CallsOK' /\ at' = [at EXCEPT ![c] = where]
  BY <1>1, GoOK DEF Places
<1>3. RowsOK'
  BY <1>1 DEF RowsOK, rows
<1>4. TripsOK'
  BY <1>1 DEF TripsOK, history
<1>5. RowsFollow'
  BY <1>2, NotWriting DEF rows, Places
<1> QED  BY <1>2, <1>3, <1>4, <1>5 DEF BreakerIInv

LEMMA ExpireInv ==
  ASSUME BreakerIInv, NEW c \in Calls, Expire(c)
  PROVE  BreakerIInv'
<1> USE DEF Expire
<1>1. RowsOK /\ CallsOK /\ TripsOK
  BY DEF BreakerIInv
<1>2. CallsOK' /\ at' = [at EXCEPT ![c] = "selected"]
  BY <1>1, GoOK DEF Places
<1>3. RowsOK' /\ TripsOK'
  BY <1>1 DEF RowsOK, TripsOK, history
<1>4. RowsFollow'
  BY <1>2, NotWriting DEF Places
<1> QED  BY <1>2, <1>3, <1>4 DEF BreakerIInv

\* What a call has selected reaches the cache of its instance.
LEMMA AnswerInv ==
  ASSUME BreakerIInv, NEW c \in Calls, Answer(c)
  PROVE  BreakerIInv'
<1> USE DEF Answer
<1>1. RowsOK /\ CallsOK /\ TripsOK
  BY DEF BreakerIInv
<1>2. kind[c] \in Kinds \cup {"status"} /\ seen[c] \in 0 .. 3
  BY <1>1 DEF CallsOK, RowsOK
<1>3. /\ \E where \in {"idle", "through"} :
           CallsOK' /\ at' = [at EXCEPT ![c] = where]
      /\ cache' \in [Instances -> {{}} \cup {{l} : l \in 0 .. 3}]
  BY <1>1, <1>2, ToldOK, RememberOK
<1>4. RowsOK' /\ TripsOK'
  BY <1>1, <1>3 DEF RowsOK, TripsOK, rows, history
<1>5. RowsFollow'
  BY <1>3, NotWriting DEF rows, Places
<1> QED  BY <1>3, <1>4, <1>5 DEF BreakerIInv

\* Steps of a call outside a trip that change no row but active.
LEMMA OtherStepInv ==
  ASSUME BreakerIInv, NEW c \in Calls,
         Finish(c) \/ EndTrip(c) \/ StartClear(c) \/ Lapse(c) \/ Clear(c) \/ EndClear(c)
  PROVE  BreakerIInv'
<1>1. RowsOK /\ CallsOK /\ TripsOK
  BY DEF BreakerIInv
<1>2. \E where \in Places \ {"level", "expires"} :
        CallsOK' /\ at' = [at EXCEPT ![c] = where]
  <2>0. {"idle", "select", "lapse", "clear", "cleared"} \subseteq Places \ {"level", "expires"}
    BY DEF Places
  <2>1. CASE Finish(c) \/ Lapse(c) \/ Clear(c) \/ EndClear(c)
    BY <2>0, <2>1, <1>1, GoOK DEF Finish, Lapse, Clear, EndClear
  <2>2. CASE EndTrip(c)
    BY <2>0, <2>2, <1>1, GoesOK DEF EndTrip
  <2>3. CASE StartClear(c)
    <3>1. PICK where \in {"idle", "lapse", "clear"} : Go(c, where)
      BY <2>3 DEF StartClear
    <3> QED  BY <3>1, <2>0, <1>1, GoOK
  <2> QED  BY <2>1, <2>2, <2>3
<1>3. RowsOK'
  <2>1. CASE EndTrip(c) \/ EndClear(c)
    BY <2>1, <1>1, ForgetOK DEF EndTrip, EndClear, RowsOK, rows
  <2>2. CASE Finish(c) \/ StartClear(c) \/ Lapse(c) \/ Clear(c)
    BY <2>2, <1>1 DEF Finish, StartClear, Lapse, Clear, RowsOK, rows
  <2> QED  BY <2>1, <2>2
<1>4. TripsOK' /\ (\A d \in Calls \ {c} : plan'[d] = plan[d])
  <2>1. CASE EndTrip(c)
    <3>1. NoPlan \in [level : 1 .. 3, expires : {"none", "future"}]
      BY DEF NoPlan
    <3> QED  BY <3>1, <2>1, <1>1 DEF EndTrip, TripsOK, history
  <2>2. CASE ~EndTrip(c)
    BY <2>2, <1>1 DEF Finish, StartClear, Lapse, Clear, EndClear, TripsOK, history
  <2> QED  BY <2>1, <2>2
<1>5. at[c] \notin {"level", "expires"} /\ UNCHANGED <<level, expires, history>>
  BY DEF Finish, EndTrip, StartClear, Lapse, Clear, EndClear, rows
<1>6. RowsFollow'
  BY <1>2, <1>4, <1>5, NotWriting
<1> QED  BY <1>2, <1>3, <1>4, <1>6 DEF BreakerIInv

\* tripCircuitBreaker.  A trip that begins while no other is being written is the
\* only one that is.
LEMMA TripInv ==
  ASSUME BreakerIInv, NEW c \in Calls, Trip(c)
  PROVE  BreakerIInv'
<1> USE DEF Trip
<1>1. RowsOK /\ CallsOK /\ TripsOK
  BY DEF BreakerIInv
<1>2. CallsOK' /\ at' = [at EXCEPT ![c] = "level"]
  BY <1>1, GoOK DEF Places
<1>3. RowsOK'
  BY <1>1 DEF RowsOK
<1>4. PICK h \in [level : 1 .. 3, expires : {"none", "future"}] :
        /\ plan' = [plan EXCEPT ![c] = h]
        /\ Latest(h, \E d \in Calls \ {c} : Writing(d))
  <2>1. PICK S : S = IF kind[c] = "ceiling" THEN {CeilingHalt} ELSE Halts
    OBVIOUS
  <2>2. PICK h \in S :
          /\ plan' = [plan EXCEPT ![c] = h]
          /\ Latest(h, \E d \in Calls \ {c} : Writing(d))
    BY <2>1
  <2>3. h \in [level : 1 .. 3, expires : {"none", "future"}]
    BY <2>1, BreakerAssumption DEF CeilingHalt
  <2> QED  BY <2>2, <2>3
<1> DEFINE other == \E d \in Calls \ {c} : Writing(d)
<1>5. /\ latest' \in [level : 1 .. 3, expires : {"none", "future"}]
      /\ torn' = other /\ (~torn' => latest' = h)
  <2> HIDE DEF other
  <2>1. Latest(h, other) /\ other \in BOOLEAN
    BY <1>4 DEF other
  <2> QED  BY <2>1, LatestOK
<1>6. TripsOK'
  <2>1. trips' \in 0 .. MaxTrips
    BY <1>1, BreakerAssumption DEF TripsOK
  <2>2. torn' \in BOOLEAN
    BY <1>5
  <2> QED  BY <1>4, <1>5, <2>1, <2>2, <1>1 DEF TripsOK
<1>7. RowsFollow'
  <2> SUFFICES ASSUME ~torn'
               PROVE  OneWriter' /\ WriterIsLatest' /\ RowsAreLatest'
    BY DEF RowsFollow
  <2>1. \A d \in Calls \ {c} : ~Writing(d) /\ at'[d] = at[d]
    BY <1>1, <1>2, <1>5 DEF CallsOK
  <2>2. at'[c] = "level" /\ plan'[c] = latest'
    BY <1>1, <1>2, <1>4, <1>5 DEF CallsOK, TripsOK
  <2>3. \A d \in Calls : Writing(d)' <=> d = c
    BY <2>1, <2>2 DEF Writing
  <2> QED  BY <2>2, <2>3 DEF OneWriter, WriterIsLatest, RowsAreLatest
<1> QED  BY <1>2, <1>3, <1>6, <1>7 DEF BreakerIInv

LEMMA WriteLevelInv ==
  ASSUME BreakerIInv, NEW c \in Calls, WriteLevel(c)
  PROVE  BreakerIInv'
<1> USE DEF WriteLevel
<1>1. RowsOK /\ CallsOK /\ TripsOK
  BY DEF BreakerIInv
<1>2. CallsOK' /\ at' = [at EXCEPT ![c] = "expires"]
  BY <1>1, GoOK DEF Places
<1>3. RowsOK' /\ TripsOK'
  BY <1>1 DEF RowsOK, TripsOK, history
<1>4. RowsFollow'
  <2>1. \A d \in Calls : at'[d] = IF d = c THEN "expires" ELSE at[d]
    BY <1>1, <1>2 DEF CallsOK
  <2>2. Writing(c) /\ \A d \in Calls : Writing(d)' <=> Writing(d)
    BY <2>1 DEF Writing
  <2> QED
    BY <2>1, <2>2 DEF BreakerIInv, RowsFollow, OneWriter, WriterIsLatest, RowsAreLatest,
       history
<1> QED  BY <1>2, <1>3, <1>4 DEF BreakerIInv

LEMMA WriteExpiresInv ==
  ASSUME BreakerIInv, NEW c \in Calls, WriteExpires(c)
  PROVE  BreakerIInv'
<1> USE DEF WriteExpires
<1>1. RowsOK /\ CallsOK /\ TripsOK
  BY DEF BreakerIInv
<1>2. CallsOK' /\ at' = [at EXCEPT ![c] = "written"]
  BY <1>1, GoOK DEF Places
<1>3. RowsOK' /\ TripsOK'
  BY <1>1 DEF RowsOK, TripsOK, history
<1>4. RowsFollow'
  <2>1. \A d \in Calls : at'[d] = IF d = c THEN "written" ELSE at[d]
    BY <1>1, <1>2 DEF CallsOK
  <2>2. Writing(c) /\ \A d \in Calls : Writing(d)' <=> Writing(d) /\ d # c
    BY <2>1 DEF Writing
  <2> QED
    BY <2>1, <2>2 DEF BreakerIInv, RowsFollow, OneWriter, WriterIsLatest, RowsAreLatest,
       history
<1> QED  BY <1>2, <1>3, <1>4 DEF BreakerIInv

\* What the environment does: caches and halts run out, queries fail, instances restart.
LEMMA EnvironmentInv ==
  ASSUME BreakerIInv,
         \/ \E i \in Instances : CacheExpires(i) \/ RestartInstance(i)
         \/ \E c \in Calls : QueryFails(c)
         \/ TimePasses
         \/ UNCHANGED breakerVars
  PROVE  BreakerIInv'
<1>1. RowsOK /\ CallsOK /\ TripsOK
  BY DEF BreakerIInv
<1>2. NoPlan \in [level : 1 .. 3, expires : {"none", "future"}]
  BY DEF NoPlan
<1>3. CASE (\E i \in Instances : CacheExpires(i)) \/ UNCHANGED breakerVars
  <2>1. UNCHANGED <<rows, at, kind, seen, plan, trips, history, faults>>
    BY <1>3 DEF CacheExpires, breakerVars
  <2>2. cache' \in [Instances -> {{}} \cup {{l} : l \in 0 .. 3}]
    BY <1>1, <1>3 DEF CacheExpires, breakerVars, RowsOK
  <2>3. RowsOK' /\ CallsOK' /\ TripsOK'
    BY <2>1, <2>2, <1>1 DEF RowsOK, CallsOK, TripsOK, rows, history
  <2>4. RowsFollow'
    BY <2>1 DEF BreakerIInv, RowsFollow, OneWriter, WriterIsLatest, RowsAreLatest,
       Writing, rows, history
  <2> QED  BY <2>3, <2>4 DEF BreakerIInv
<1>4. CASE \E i \in Instances : RestartInstance(i)
  <2>1. PICK i \in Instances : RestartInstance(i)
    BY <1>4
  <2> USE <2>1 DEF RestartInstance
  <2>2. RowsOK'
    BY <1>1 DEF RowsOK, rows
  <2>3. CallsOK'
    BY <1>1 DEF CallsOK, Places
  <2> DEFINE cut == torn \/ \E c \in Calls : InstanceOf[c] = i /\ Writing(c)
  <2>6. /\ latest' \in [level : 1 .. 3, expires : {"none", "future"}]
        /\ torn' = cut /\ (~torn' => latest' = latest)
    <3>1. Latest(latest, cut) /\ cut \in BOOLEAN
      BY <1>1 DEF TripsOK
    <3> HIDE DEF cut
    <3> QED  BY <3>1, <1>1, LatestOK DEF TripsOK
  <2>4. TripsOK'
    <3>1. torn' \in BOOLEAN /\ faults' \in 0 .. MaxFaults
      BY <2>6, <1>1, BreakerAssumption DEF TripsOK
    <3> QED  BY <3>1, <2>6, <1>1, <1>2 DEF TripsOK
  <2>5. RowsFollow'
    <3> SUFFICES ASSUME ~torn' PROVE OneWriter' /\ WriterIsLatest' /\ RowsAreLatest'
      BY DEF RowsFollow
    <3>1. ~torn /\ \A c \in Calls : InstanceOf[c] = i => ~Writing(c)
      BY <2>6
    <3>2. \A c \in Calls :
            /\ Writing(c)' <=> Writing(c)
            /\ Writing(c) => at'[c] = at[c] /\ plan'[c] = plan[c]
      BY <3>1 DEF Writing
    <3>3. OneWriter /\ WriterIsLatest /\ RowsAreLatest
      BY <3>1 DEF BreakerIInv, RowsFollow
    <3>4. UNCHANGED <<level, expires, latest>>
      BY <2>6 DEF rows
    <3> HIDE <2>1
    <3>5. OneWriter'
      BY <3>2, <3>3 DEF OneWriter
    <3>6. WriterIsLatest'
      BY <3>2, <3>3, <3>4 DEF WriterIsLatest
    <3>7. RowsAreLatest'
      BY <3>2, <3>3, <3>4 DEF RowsAreLatest
    <3> QED  BY <3>5, <3>6, <3>7
  <2> QED  BY <2>2, <2>3, <2>4, <2>5 DEF BreakerIInv
<1>5. CASE \E c \in Calls : QueryFails(c)
  <2>1. PICK c \in Calls : QueryFails(c)
    BY <1>5
  <2> USE <2>1 DEF QueryFails
  <2>2. RowsOK'
    BY <1>1 DEF RowsOK, rows
  <2>3. \E where \in Places \ {"level", "expires"} :
          CallsOK' /\ at' = [at EXCEPT ![c] = where]
    <3>1. kind[c] \in Kinds \cup {"status"}
          /\ {"idle", "through"} \subseteq Places \ {"level", "expires"}
      BY <1>1 DEF CallsOK, Places
    <3> QED  BY <3>1, <1>1, ToldOK, GoOK
  <2> DEFINE cut == torn \/ Writing(c)
  <2>7. /\ latest' \in [level : 1 .. 3, expires : {"none", "future"}]
        /\ torn' = cut /\ (~torn' => latest' = latest)
    <3>1. Latest(latest, cut) /\ cut \in BOOLEAN
      BY <1>1 DEF TripsOK
    <3> HIDE DEF cut
    <3> QED  BY <3>1, <1>1, LatestOK DEF TripsOK
  <2>4. TripsOK'
    <3>1. torn' \in BOOLEAN /\ faults' \in 0 .. MaxFaults
      BY <2>7, <1>1, BreakerAssumption DEF TripsOK
    <3> QED  BY <3>1, <2>7, <1>1, <1>2 DEF TripsOK
  <2>5. RowsFollow'
    <3>1. CASE torn'
      BY <3>1 DEF RowsFollow
    <3>2. CASE ~torn'
      <4>1. torn' = torn /\ latest' = latest /\ ~Writing(c)
            /\ \A d \in Calls \ {c} : plan'[d] = plan[d]
        BY <3>2, <2>7, <1>1 DEF TripsOK
      <4>2. at[c] \notin {"level", "expires"} /\ UNCHANGED <<level, expires, history>>
        BY <4>1 DEF Writing, rows, history
      <4> QED  BY <4>1, <4>2, <2>3, NotWriting
    <3> QED  BY <3>1, <3>2
  <2>6. CallsOK'
    BY <2>3
  <2> QED  BY <2>2, <2>4, <2>5, <2>6 DEF BreakerIInv
<1>6. CASE TimePasses
  <2> USE <1>6 DEF TimePasses
  <2>1. RowsOK' /\ CallsOK' /\ TripsOK'
    BY <1>1 DEF RowsOK, CallsOK, TripsOK, history
  <2>2. RowsFollow'
    BY DEF BreakerIInv, RowsFollow, OneWriter, WriterIsLatest, RowsAreLatest, Writing,
       history
  <2> QED  BY <2>1, <2>2 DEF BreakerIInv
<1> QED  BY <1>3, <1>4, <1>5, <1>6

LEMMA BreakerStepInv == BreakerIInv /\ [BreakerNext]_breakerVars => BreakerIInv'
<1> SUFFICES ASSUME BreakerIInv, [BreakerNext]_breakerVars PROVE BreakerIInv'
  OBVIOUS
<1>1. ASSUME NEW c \in Calls, Begin(c) PROVE BreakerIInv'
  <2>1. PICK k \in Does[c] : Ask(c, k)
    BY <1>1 DEF Begin
  <2>2. k \in Kinds
    BY <2>1, BreakerAssumption
  <2> QED  BY <2>1, <2>2, AskInv
<1>2. ASSUME NEW c \in Calls, Step(c) PROVE BreakerIInv'
  BY <1>2, SelectInv, ExpireInv, AnswerInv, OtherStepInv, TripInv, WriteLevelInv,
     WriteExpiresInv DEF Step
<1> QED  BY <1>1, <1>2, EnvironmentInv DEF BreakerNext

\* Every row, cache and call of circuitBreaker.ts keeps its type.
THEOREM BreakerTypeCorrect == BreakerSpec => []BreakerTypeOK
<1>1. BreakerInit => BreakerIInv
  BY BreakerInitInv
<1>2. BreakerIInv /\ [BreakerNext]_breakerVars => BreakerIInv'
  BY BreakerStepInv
<1>3. BreakerIInv => BreakerTypeOK
  BY DEF BreakerIInv, BreakerTypeOK, RowsOK, CallsOK, TripsOK, Places
<1> QED  BY <1>1, <1>2, <1>3, PTL DEF BreakerSpec

\* However many instances read, expire, clear and trip a halt while its rows are
\* written one by one, fail and restart: a halt that is written has the level and the
\* end it was tripped with, unless the trip overlapped another or one was cut off.
THEOREM HaltWhole == BreakerSpec => []HaltIsWhole
<1>1. BreakerInit => BreakerIInv
  BY BreakerInitInv
<1>2. BreakerIInv /\ [BreakerNext]_breakerVars => BreakerIInv'
  BY BreakerStepInv
<1>3. BreakerIInv => HaltIsWhole
  BY DEF BreakerIInv, RowsFollow, RowsAreLatest, HaltIsWhole
<1> QED  BY <1>1, <1>2, <1>3, PTL DEF BreakerSpec

=============================================================================
