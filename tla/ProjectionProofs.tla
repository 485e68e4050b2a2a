--------------------------- MODULE ProjectionProofs ---------------------------
(***************************************************************************)
(* The state projection, for any instances, streams and limits: its rows   *)
(* are true folds where no stream is restarted under a fold state that     *)
(* could go on with the new history, and what is acknowledged is in the    *)
(* table where a process starts no cycle between a reset and its answer.   *)
(***************************************************************************)
EXTENDS Projection, NatSets, FiniteSetTheorems

-----------------------------------------------------------------------------
(* Types, and what a handler carries.                                      *)

\* A batch is of domain events, and there is one at hand while one is folded.
RunInv ==
    \A w \in Workers :
        /\ run[w].batch \subseteq 1 .. length
        /\ \A i \in run[w].batch : log[i].name = "domain"
        /\ run[w].upto <= length
        /\ run[w].phase \in {"fold", "evict", "load"} => run[w].batch # {}

Typed ==
    /\ TypeOK /\ RunInv
    /\ at <= length /\ \A s \in Streams : base[s] <= length

LEMMA HeadIs ==
    ASSUME TypeOK, NEW s \in Streams
    PROVE  /\ Head(s) \in 0 .. length
           /\ \A i \in 1 .. length : log[i].stream = s => Head(s) # 0 /\ i <= Head(s)
           /\ Head(s) # 0 => log[Head(s)].stream = s
           /\ HeadVersion(s) \in Version
<1> DEFINE I == {i \in 1 .. length : log[i].stream = s}
<1>0. length \in Nat /\ length <= MaxId /\ log \in [1 .. length -> Event]
  BY ProjectionAssumption DEF TypeOK, Position
<1>1. CASE I = {}
  <2>1. Head(s) = 0
    BY <1>1 DEF Head
  <2> QED
    BY <1>0, <1>1, <2>1 DEF HeadVersion, Version
<1>2. CASE I # {}
  <2>1. I \in SUBSET Nat /\ \A i \in I : i <= length
    BY <1>0
  <2>2. PICK m \in I : \A i \in I : i <= m
    BY <1>0, <1>2, <2>1, GreatestNat
  <2>3. IsHead(s, m)
    BY <2>2 DEF IsHead
  <2>4. \E i \in 1 .. length : log[i].stream = s
    BY <1>2
  <2>5. Head(s) = CHOOSE i \in 1 .. length : IsHead(s, i)
    BY <2>4 DEF Head
  <2>6. Head(s) \in 1 .. length /\ IsHead(s, Head(s))
    BY <2>2, <2>3, <2>5
  <2>7. log[Head(s)].version \in Nat
    BY <1>0, <2>6 DEF Event
  <2> QED
    BY <1>0, <2>6, <2>7 DEF IsHead, HeadVersion, Version
<1> QED
  BY <1>1, <1>2

LEMMA CurrentIs ==
    ASSUME TypeOK, RunInv, NEW w \in Workers, run[w].batch # {}
    PROVE  /\ Current(w) \in run[w].batch /\ \A j \in run[w].batch : Current(w) <= j
           /\ Current(w) \in 1 .. length /\ Current(w) \in Ids
           /\ StreamOf(w) \in Streams /\ log[Current(w)].stream = StreamOf(w)
           /\ log[Current(w)] \in Event /\ log[Current(w)].name = "domain"
<1>0. /\ length \in Nat /\ MaxId \in Nat /\ length <= MaxId
      /\ log \in [1 .. length -> Event]
      /\ run[w].batch \subseteq 1 .. length
      /\ \A i \in run[w].batch : log[i].name = "domain"
  BY ProjectionAssumption DEF TypeOK, Position, RunInv
<1>1. run[w].batch \in SUBSET Nat
  BY <1>0
<1>2. PICK m \in run[w].batch : \A j \in run[w].batch : m <= j
  BY <1>1, LeastNat
<1>3. IsNext(w, m)
  BY <1>2 DEF IsNext
<1>4. IsNext(w, Current(w))
  BY <1>2, <1>3 DEF Current
<1>5. Current(w) \in 1 .. length /\ Current(w) \in run[w].batch
  BY <1>0, <1>4 DEF IsNext
<1>6. log[Current(w)] \in Event /\ Current(w) \in Ids
  BY <1>0, <1>5 DEF Ids
<1>7. \A j \in run[w].batch : Current(w) <= j
  BY <1>4 DEF IsNext
<1>8. log[Current(w)].stream = StreamOf(w) /\ StreamOf(w) \in Streams
  BY <1>6 DEF StreamOf, Event
<1> QED
  BY <1>0, <1>5, <1>6, <1>7, <1>8

LEMMA IdleIs == Idle \in Run /\ Idle.batch = {} /\ Idle.phase = "idle" /\ Idle.upto = 0
                /\ Idle.since = 0
<1> DEFINE v == CHOOSE s \in Streams : TRUE
<1>1. v \in Streams
  BY ProjectionAssumption
<1>2. 0 \in Position
  BY ProjectionAssumption DEF Position
<1>3. Idle = [phase |-> "idle", batch |-> {}, upto |-> 0, since |-> 0, victim |-> v]
  BY DEF Idle
<1> HIDE DEF v
<1> QED
  BY <1>1, <1>2, <1>3 DEF Run

\* What a claim takes: the first of what is due, up to its last event.
Due == Delivered(at)
Batch == {i \in Due : Cardinality({j \in Due : j < i}) < BatchLimit}

LEMMA BatchIs ==
    ASSUME TypeOK, Due # {}
    PROVE  /\ Batch # {} /\ Batch \subseteq Due
           /\ Due \subseteq 1 .. length
           /\ \A i \in Due : log[i].name = "domain" /\ at < i /\ base[log[i].stream] < i
           /\ \E u \in Batch : \A j \in Batch : j <= u
           /\ \A i \in Due, j \in Batch : i <= j => i \in Batch
<1>0. length \in Nat /\ Due \subseteq 1 .. length /\ BatchLimit \in Nat /\ BatchLimit > 0
  BY ProjectionAssumption DEF TypeOK, Position, Due, Delivered
<1>1. \A i \in Due : log[i].name = "domain" /\ at < i /\ base[log[i].stream] < i
  BY DEF Due, Delivered
<1>2. IsFiniteSet(Due)
  <2>1. IsFiniteSet(1 .. length)
    BY <1>0, FS_Interval
  <2>2. Due \in SUBSET (1 .. length)
    BY <1>0
  <2> QED
    BY <2>1, <2>2, FS_Subset
<1>3. Due \in SUBSET Nat /\ \A i \in Due : i \in Int
  BY <1>0
<1>4. PICK m \in Due : \A i \in Due : m <= i
  BY <1>3, LeastNat
<1> DEFINE E == {j \in Due : j < m}
<1>5. E = {}
  <2>1. ASSUME NEW j \in Due PROVE ~(j < m)
    <3>1. m <= j /\ m \in Int /\ j \in Int
      BY <1>3, <1>4
    <3> QED
      BY <3>1
  <2> QED
    BY <2>1
<1>6. Cardinality(E) < BatchLimit
  <2> HIDE DEF E
  <2> QED
    BY <1>0, <1>5, FS_EmptySet
<1>7. m \in Batch
  BY <1>6 DEF Batch
<1>8. ASSUME NEW i \in Due, NEW j \in Batch, i <= j PROVE i \in Batch
  <2> DEFINE A == {k \in Due : k < i}
             B == {k \in Due : k < j}
  <2>0. j \in Due
    BY DEF Batch
  <2>1. ASSUME NEW k \in Due, k < i PROVE k < j
    <3>1. i <= j /\ k \in Int /\ i \in Int /\ j \in Int
      BY <1>3, <1>8, <2>0
    <3> QED
      BY <2>1, <3>1
  <2>1a. A \in SUBSET B /\ B \in SUBSET Due
    BY <2>1
  <2>2. IsFiniteSet(B)
    <3> HIDE DEF A, B
    <3> QED
      BY <1>2, <2>1a, FS_Subset
  <2>3. Cardinality(A) <= Cardinality(B) /\ Cardinality(A) \in Nat /\ Cardinality(B) \in Nat
    <3> HIDE DEF A, B
    <3> QED
      BY <2>1a, <2>2, FS_Subset, FS_CardinalityType
  <2>4. Cardinality(B) < BatchLimit
    BY <1>8 DEF Batch
  <2>5. Cardinality(A) < BatchLimit
    BY <1>0, <2>3, <2>4
  <2> QED
    BY <1>8, <2>5 DEF Batch
<1>9. Batch \subseteq Due /\ Batch \in SUBSET Nat /\ \A i \in Batch : i <= length
  <2>1. Batch \subseteq Due
    BY DEF Batch
  <2> QED
    BY <1>0, <1>3, <2>1
<1>10. \E u \in Batch : \A j \in Batch : j <= u
  BY <1>0, <1>7, <1>9, GreatestNat
<1> QED
  BY <1>0, <1>1, <1>7, <1>8, <1>9, <1>10

\* The store adds one event.
LEMMA WriteIs ==
    ASSUME Typed, NEW s \in Streams, NEW name \in {"domain", "snapshot", "seed"},
           NEW version \in Nat, Write(s, name, version)
    PROVE  /\ length \in Nat /\ length' = length + 1 /\ length' \in Position
           /\ log' \in [1 .. length' -> Event]
           /\ \A i \in 1 .. length : log'[i] = log[i]
           /\ log'[length'] = [stream |-> s, version |-> version, name |-> name]
<1> DEFINE e == [stream |-> s, version |-> version, name |-> name]
<1>0. /\ length \in Nat /\ MaxId \in Nat /\ length < MaxId /\ length' = length + 1
      /\ log \in [1 .. length -> Event] /\ e \in Event
      /\ log' = [i \in 1 .. length + 1 |-> IF i <= length THEN log[i] ELSE e]
  BY ProjectionAssumption DEF Typed, TypeOK, Position, Write, Event
<1> HIDE DEF e
<1>1. \A i \in 1 .. length : log'[i] = log[i]
  BY <1>0
<1>2. log'[length'] = e
  BY <1>0
<1>3. log' \in [1 .. length' -> Event]
  BY <1>0
<1> QED
  BY <1>0, <1>1, <1>2, <1>3 DEF Position, e

\* A commit, a snapshot or a restart leaves the handlers and their rows alone.
LEMMA TypedWrite ==
    ASSUME Typed, NEW s \in Streams, NEW name \in {"domain", "snapshot", "seed"},
           NEW version \in Nat, Write(s, name, version),
           base' = base \/ base' = [base EXCEPT ![s] = length + 1],
           UNCHANGED <<subscription, table, cache, run, wiped, clearing, budget>>
    PROVE  Typed'
<1>1. /\ length \in Nat /\ length' = length + 1 /\ length' \in Position
      /\ log' \in [1 .. length' -> Event] /\ \A i \in 1 .. length : log'[i] = log[i]
  BY WriteIs
<1>2. base' \in [Streams -> Position] /\ \A z \in Streams : base'[z] <= length'
  <2>1. base \in [Streams -> Position] /\ \A z \in Streams : base[z] <= length /\ base[z] \in Int
    BY DEF Typed, TypeOK, Position
  <2> QED
    BY <1>1, <2>1
<1>3. TypeOK'
  BY <1>1, <1>2 DEF Typed, TypeOK, subscription, budget
<1>4. RunInv'
  <2> SUFFICES ASSUME NEW w \in Workers
               PROVE  /\ run[w].batch \subseteq 1 .. length'
                      /\ \A i \in run[w].batch : log'[i].name = "domain"
                      /\ run[w].upto <= length'
                      /\ run[w].phase \in {"fold", "evict", "load"} => run[w].batch # {}
    BY DEF RunInv
  <2>1. run[w].upto \in Int /\ run[w].upto <= length /\ run[w].batch \subseteq 1 .. length
    BY DEF Typed, TypeOK, RunInv, Run, Position
  <2> QED
    BY <1>1, <2>1 DEF Typed, RunInv
<1>5. at' <= length'
  BY <1>1 DEF Typed, TypeOK, Position, subscription
<1> QED
  BY <1>2, <1>3, <1>4, <1>5 DEF Typed

\* What a handler may become.
Fit(r) ==
    /\ r \in Run
    /\ r.batch \subseteq 1 .. length /\ \A i \in r.batch : log[i].name = "domain"
    /\ r.upto <= length
    /\ r.phase \in {"fold", "evict", "load"} => r.batch # {}

\* A worker's turn on a store that stays.
LEMMA TypedTurn ==
    ASSUME Typed, UNCHANGED store, NEW w \in Workers, NEW r, Fit(r),
           run' = [run EXCEPT ![w] = r],
           NEW folds \in [Streams -> Fold], cache' = [cache EXCEPT ![w] = folds],
           table' \in [Streams -> Row],
           at' \in Position, at' <= length, holder' \in Workers \cup {Nobody},
           wiped' \in BOOLEAN, clearing' \subseteq Workers, budget' \in Nat \X Nat
    PROVE  Typed'
<1>1. run' \in [Workers -> Run] /\ run'[w] = r /\ \A v \in Workers \ {w} : run'[v] = run[v]
  BY DEF Typed, TypeOK, Fit
<1>2. cache' \in [Workers -> [Streams -> Fold]]
  BY DEF Typed, TypeOK
<1>3. TypeOK'
  BY <1>1, <1>2 DEF Typed, TypeOK, store
<1>4. RunInv'
  <2> SUFFICES ASSUME NEW v \in Workers
               PROVE  /\ run'[v].batch \subseteq 1 .. length
                      /\ \A i \in run'[v].batch : log[i].name = "domain"
                      /\ run'[v].upto <= length
                      /\ run'[v].phase \in {"fold", "evict", "load"} => run'[v].batch # {}
    BY DEF RunInv, store
  <2>1. CASE v = w
    BY <1>1, <2>1 DEF Fit
  <2>2. CASE v # w
    BY <1>1, <2>2 DEF Typed, RunInv
  <2> QED
    BY <2>1, <2>2
<1> QED
  BY <1>3, <1>4 DEF Typed, store

LEMMA FitNow == ASSUME Typed, NEW w \in Workers PROVE Fit(run[w])
BY DEF Typed, TypeOK, RunInv, Fit

LEMMA FitIdle == ASSUME Typed PROVE Fit(Idle)
BY IdleIs DEF Typed, TypeOK, Position, Fit

LEMMA UpsertTyped ==
    ASSUME TypeOK, NEW folds \in [Streams -> Fold], NEW S
    PROVE  Upsert(folds, S) \in [Streams -> Row]
BY DEF TypeOK, Upsert, Fold, Row

LEMMA FoldsTyped ==
    ASSUME Typed, NEW s \in Streams
    PROVE  /\ NoFold \in Fold
           /\ \A f \in Fold, i \in 1 .. length : Folded(f, i) \in Fold
           /\ Head(s) # 0 => Loaded(s) \in Fold
           /\ \A f \in Fold : [f EXCEPT !.dirty = FALSE] \in Fold
<1>0. /\ length \in Nat /\ MaxId \in Nat /\ length <= MaxId
      /\ log \in [1 .. length -> Event] /\ 0 \in Position
  BY ProjectionAssumption DEF Typed, TypeOK, Position
<1>1. NoFold \in Fold
  BY <1>0 DEF NoFold, Fold, Version
<1>2. ASSUME NEW f \in Fold, NEW i \in 1 .. length PROVE Folded(f, i) \in Fold
  <2>1. i \in Ids /\ i \in Position /\ log[i].version \in Nat
    BY <1>0 DEF Ids, Position, Event
  <2> QED
    BY <2>1 DEF Folded, Fold, Version
<1>3. Head(s) # 0 => Loaded(s) \in Fold
  <2>1. Head(s) \in Position /\ HeadVersion(s) \in Version
    BY <1>0, HeadIs DEF Typed, Position
  <2>2. StateAt(s, length) \in SUBSET Ids
    BY <1>0 DEF StateAt, Ids
  <2> QED
    BY <2>1, <2>2 DEF Loaded, Fold
<1>4. ASSUME NEW f \in Fold PROVE [f EXCEPT !.dirty = FALSE] \in Fold
  BY DEF Fold
<1> QED
  BY <1>1, <1>2, <1>3, <1>4

Moved(r, b, phase) == [r EXCEPT !.batch = b, !.since = @ + 1, !.phase = phase]

LEMMA RunMoves ==
    ASSUME NEW r \in Run, NEW b \in SUBSET Ids, NEW phase \in {"fold", "flush"}
    PROVE  LET n == Moved(r, b, phase)
           IN  /\ n \in Run /\ n.batch = b /\ n.upto = r.upto
               /\ n.since = r.since + 1 /\ n.phase = phase
<1>1. r.since + 1 \in Nat
  BY DEF Run
<1> QED
  BY <1>1 DEF Run, Moved

\* The handler has folded the event at hand.
LEMMA AdvanceIs ==
    ASSUME Typed, NEW w \in Workers, run[w].batch # {}, NEW s \in Streams, NEW f \in Fold,
           Advance(w, s, f)
    PROVE  LET rest == run[w].batch \ {Current(w)} IN
           \E r : /\ run' = [run EXCEPT ![w] = r] /\ Fit(r)
                  /\ r.batch = rest /\ r.upto = run[w].upto
                  /\ r.phase \in {"fold", "flush"} /\ (rest = {} => r.phase = "flush")
                  /\ r.since = run[w].since + 1
                  /\ cache' = [cache EXCEPT ![w] = [cache[w] EXCEPT ![s] = f]]
                  /\ [cache[w] EXCEPT ![s] = f] \in [Streams -> Fold]
<1> DEFINE rest == run[w].batch \ {Current(w)}
           now == run[w]
           phase == After(rest, now.since + 1)
           r == Moved(now, rest, phase)
<1>1. run' = [run EXCEPT ![w] = r] /\ cache' = [cache EXCEPT ![w] = [cache[w] EXCEPT ![s] = f]]
  BY DEF Advance, Keep, Typed, TypeOK, Moved
<1>2. phase \in {"fold", "flush"} /\ (rest = {} => phase = "flush")
  BY DEF After
<1>3. Fit(now)
  BY FitNow
<1>4. rest \subseteq now.batch
  OBVIOUS
<1>5. r \in Run /\ r.batch = rest /\ r.upto = now.upto /\ r.since = now.since + 1
      /\ r.phase = phase
  <2> HIDE DEF rest, phase, now
  <2>1. now \in Run /\ rest \in SUBSET Ids /\ phase \in {"fold", "flush"}
    BY <1>2, <1>3, <1>4 DEF Fit, Run
  <2> QED
    BY <2>1, RunMoves
<1>6. Fit(r)
  <2>1. r.phase \in {"fold", "evict", "load"} => r.batch # {}
    BY <1>2, <1>5
  <2> HIDE DEF r, rest, phase, now
  <2> QED
    BY <1>3, <1>4, <1>5, <2>1 DEF Fit
<1>7. [cache[w] EXCEPT ![s] = f] \in [Streams -> Fold]
  BY DEF Typed, TypeOK
<1> HIDE DEF r, phase
<1> QED
  BY <1>1, <1>2, <1>5, <1>6, <1>7

\* What a claim makes of an idle handler.
LEMMA ClaimIs ==
    ASSUME Typed, NEW w \in Workers, Claim(w)
    PROVE  \E r : /\ run' = [run EXCEPT ![w] = r] /\ Fit(r)
                  /\ r.phase = "fold" /\ r.batch = Batch
                  /\ r.upto \in Batch /\ \A j \in Batch : j <= r.upto
<1> DEFINE u == CHOOSE i \in Batch : \A j \in Batch : j <= i
           r == [Idle EXCEPT !.phase = "fold", !.batch = Batch, !.upto = u]
<1>1. Due # {} /\ run' = [run EXCEPT ![w] = r]
  BY DEF Claim, Due, Batch
<1>2. /\ Batch # {} /\ Batch \subseteq Due /\ Due \subseteq 1 .. length
      /\ \A i \in Due : log[i].name = "domain"
      /\ \E m \in Batch : \A j \in Batch : j <= m
  BY <1>1, BatchIs DEF Typed
<1>3. u \in Batch /\ \A j \in Batch : j <= u
  BY <1>2
<1>4. length \in Nat /\ length <= MaxId /\ MaxId \in Nat
  BY ProjectionAssumption DEF Typed, TypeOK, Position
<1>5. Batch \in SUBSET Ids /\ u \in Position /\ u <= length
  <2>1. \A i \in 1 .. length : i \in Ids /\ i \in Position /\ i <= length
    BY <1>4 DEF Ids, Position
  <2>2. Batch \subseteq 1 .. length /\ u \in 1 .. length
    BY <1>2, <1>3
  <2> QED
    BY <2>1, <2>2
<1> HIDE DEF u
<1>6. r \in Run /\ r.phase = "fold" /\ r.batch = Batch /\ r.upto = u
  <2>1. PICK z \in Run : z = Idle /\ z.phase = "idle"
    BY IdleIs
  <2>2. r = [z EXCEPT !.phase = "fold", !.batch = Batch, !.upto = u]
    BY <2>1
  <2> HIDE DEF r
  <2> QED
    BY <1>5, <2>1, <2>2 DEF Run
<1> HIDE DEF r
<1>7. Fit(r)
  BY <1>2, <1>5, <1>6 DEF Fit
<1> QED
  BY <1>1, <1>3, <1>6, <1>7

\* A move that takes nothing from the batch keeps a handler fit.
LEMMA FitMoves ==
    ASSUME Typed, NEW w \in Workers, NEW victim \in Streams,
           NEW phase \in {"idle", "fold", "evict", "load", "flush", "ack"},
           phase \in {"fold", "evict", "load"} => run[w].batch # {}
    PROVE  /\ Fit([run[w] EXCEPT !.phase = phase])
           /\ Fit([run[w] EXCEPT !.phase = phase, !.victim = victim])
           /\ Fit([run[w] EXCEPT !.since = 0, !.phase = phase])
<1> DEFINE now == run[w]
<1>1. Fit(now)
  BY FitNow
<1> HIDE DEF now
<1>2. Fit([now EXCEPT !.phase = phase])
  BY <1>1 DEF Fit, Run, now
<1>3. Fit([now EXCEPT !.phase = phase, !.victim = victim])
  BY <1>1 DEF Fit, Run, now
<1>4. Fit([now EXCEPT !.since = 0, !.phase = phase])
  BY <1>1 DEF Fit, Run, now
<1> QED
  BY <1>2, <1>3, <1>4 DEF now

LEMMA TypedStep == ASSUME Typed, [Next]_vars PROVE Typed'
<1> USE DEF subscription
<1>0. /\ length \in Nat /\ run \in [Workers -> Run] /\ cache \in [Workers -> [Streams -> Fold]]
      /\ table \in [Streams -> Row] /\ at \in Position /\ at <= length
      /\ holder \in Workers \cup {Nobody} /\ wiped \in BOOLEAN /\ clearing \subseteq Workers
      /\ budget \in Nat \X Nat /\ faults \in Nat /\ rebuilds \in Nat /\ 0 \in Position
      /\ length \in Position
  BY ProjectionAssumption DEF Typed, TypeOK, Position, budget
<1>1. \A s \in Streams : HeadVersion(s) + 1 \in Nat
  BY HeadIs DEF Typed, Version
<1>2. ASSUME NEW s \in Streams, Commit(s) \/ Snap(s) \/ Restart(s) PROVE Typed'
  <2>1. CASE Commit(s)
    BY <1>1, <2>1, TypedWrite DEF Commit
  <2>2. CASE Snap(s)
    BY <1>1, <2>2, TypedWrite DEF Snap
  <2>3. CASE Restart(s)
    BY <2>3, TypedWrite DEF Restart
  <2> QED
    BY <1>2, <2>1, <2>2, <2>3
<1>3. ASSUME NEW w \in Workers, Claim(w) PROVE Typed'
  <2>1. PICK r : run' = [run EXCEPT ![w] = r] /\ Fit(r)
    BY <1>3, ClaimIs
  <2>2. cache' = [cache EXCEPT ![w] = cache[w]] /\ cache[w] \in [Streams -> Fold]
    BY <1>0, <1>3 DEF Claim
  <2> QED
    BY <1>0, <1>3, <2>1, <2>2, TypedTurn DEF Claim, budget
<1>4. ASSUME NEW w \in Workers, FoldWarm(w) PROVE Typed'
  <2>1. run[w].batch # {}
    BY <1>4 DEF FoldWarm, In, Typed, RunInv
  <2>2. Current(w) \in 1 .. length /\ StreamOf(w) \in Streams
    BY <2>1, CurrentIs DEF Typed
  <2>3. PICK f \in Fold : Advance(w, StreamOf(w), f)
    <3>1. Folded(cache[w][StreamOf(w)], Current(w)) \in Fold
      BY <1>0, <2>2, FoldsTyped
    <3> QED
      BY <1>4, <3>1 DEF FoldWarm
  <2>4. PICK r : /\ run' = [run EXCEPT ![w] = r] /\ Fit(r)
                 /\ cache' = [cache EXCEPT ![w] = [cache[w] EXCEPT ![StreamOf(w)] = f]]
                 /\ [cache[w] EXCEPT ![StreamOf(w)] = f] \in [Streams -> Fold]
    BY <2>1, <2>2, <2>3, AdvanceIs
  <2> QED
    BY <1>0, <1>4, <2>4, TypedTurn DEF FoldWarm, budget
<1>5. ASSUME NEW w \in Workers, Load(w) PROVE Typed'
  <2>1. run[w].batch # {}
    BY <1>5 DEF Load, In, Typed, RunInv
  <2>2. Current(w) \in 1 .. length /\ StreamOf(w) \in Streams
        /\ log[Current(w)].stream = StreamOf(w)
    BY <2>1, CurrentIs DEF Typed
  <2>3. PICK f \in Fold : Advance(w, StreamOf(w), f)
    <3>1. Loaded(StreamOf(w)) \in Fold
      BY <2>2, HeadIs, FoldsTyped DEF Typed
    <3> QED
      BY <1>5, <3>1 DEF Load
  <2>4. PICK r : /\ run' = [run EXCEPT ![w] = r] /\ Fit(r)
                 /\ cache' = [cache EXCEPT ![w] = [cache[w] EXCEPT ![StreamOf(w)] = f]]
                 /\ [cache[w] EXCEPT ![StreamOf(w)] = f] \in [Streams -> Fold]
    BY <2>1, <2>2, <2>3, AdvanceIs
  <2> QED
    BY <1>0, <1>5, <2>4, TypedTurn DEF Load, budget
<1>6. ASSUME NEW w \in Workers, FoldCold(w) PROVE Typed'
  <2> DEFINE folds == [cache[w] EXCEPT ![StreamOf(w)] = NoFold]
  <2>1. run[w].batch # {}
    BY <1>6 DEF FoldCold, In, Typed, RunInv
  <2>2. folds \in [Streams -> Fold] /\ cache' = [cache EXCEPT ![w] = folds]
    <3>1. StreamOf(w) \in Streams /\ NoFold \in Fold
      BY <2>1, CurrentIs, FoldsTyped DEF Typed
    <3> QED
      BY <1>0, <1>6, <3>1 DEF FoldCold, Keep
  <2>3. \E r : run' = [run EXCEPT ![w] = r] /\ Fit(r)
    <3>1. \/ \E v \in Streams : run' = [run EXCEPT ![w] = [run[w] EXCEPT !.phase = "evict",
                                                                        !.victim = v]]
          \/ run' = [run EXCEPT ![w] = [run[w] EXCEPT !.phase = "load"]]
      BY <1>0, <1>6 DEF FoldCold, Goto
    <3>2. \A v \in Streams : /\ Fit([run[w] EXCEPT !.phase = "evict", !.victim = v])
                             /\ Fit([run[w] EXCEPT !.phase = "load"])
      BY <2>1, FitMoves
    <3> QED
      BY <3>1, <3>2, ProjectionAssumption
  <2> HIDE DEF folds
  <2> QED
    BY <1>0, <1>6, <2>2, <2>3, TypedTurn DEF FoldCold, budget
<1>7. ASSUME NEW w \in Workers, Evict(w) PROVE Typed'
  <2> DEFINE r == [run[w] EXCEPT !.phase = "load", !.victim = Idle.victim]
             folds == [cache[w] EXCEPT ![run[w].victim] = NoFold]
  <2>1. run' = [run EXCEPT ![w] = r] /\ cache' = [cache EXCEPT ![w] = folds]
    BY <1>0, <1>7 DEF Evict, Keep
  <2>2. Fit(r)
    <3>1. run[w].batch # {} /\ Idle.victim \in Streams
      BY <1>7, IdleIs DEF Evict, In, Typed, RunInv, Run
    <3> QED
      BY <3>1, FitMoves
  <2>3. folds \in [Streams -> Fold]
    BY <1>0, FoldsTyped
  <2>4. table' \in [Streams -> Row]
    BY <1>0, <1>7, UpsertTyped DEF Evict, Typed
  <2> HIDE DEF r, folds
  <2> QED
    BY <1>0, <1>7, <2>1, <2>2, <2>3, <2>4, TypedTurn DEF Evict, budget
<1>8. ASSUME NEW w \in Workers, Flush(w) PROVE Typed'
  <2> DEFINE phase == IF run[w].batch = {} THEN "ack" ELSE "fold"
             r == [run[w] EXCEPT !.since = 0, !.phase = phase]
             folds == [s \in Streams |-> [cache[w][s] EXCEPT !.dirty = FALSE]]
  <2>1. run' = [run EXCEPT ![w] = r] /\ cache' = [cache EXCEPT ![w] = folds]
    BY <1>0, <1>8 DEF Flush, Keep
  <2>2. Fit(r)
    BY FitMoves, ProjectionAssumption
  <2>3. folds \in [Streams -> Fold]
    BY <1>0, FoldsTyped
  <2>4. table' \in [Streams -> Row]
    BY <1>0, <1>8, UpsertTyped DEF Flush, Typed
  <2> HIDE DEF r, folds
  <2> QED
    BY <1>0, <1>8, <2>1, <2>2, <2>3, <2>4, TypedTurn DEF Flush, budget
<1>9. ASSUME NEW w \in Workers, Ack(w) PROVE Typed'
  <2>1. run' = [run EXCEPT ![w] = Idle] /\ cache' = [cache EXCEPT ![w] = cache[w]]
        /\ Fit(Idle)
    BY <1>0, <1>9, FitIdle DEF Ack
  <2>2. at' \in Position /\ at' <= length /\ holder' \in Workers \cup {Nobody}
    <3>1. run[w].upto \in Position /\ run[w].upto <= length
      BY <1>0 DEF Run, Typed, RunInv
    <3> QED
      BY <1>0, <1>9, <3>1 DEF Ack
  <2> QED
    BY <1>0, <1>9, <2>1, <2>2, TypedTurn DEF Ack, budget
<1>10. ASSUME NEW w \in Workers, FlushFails(w) PROVE Typed'
  <2>1. run' = [run EXCEPT ![w] = Idle] /\ cache' = [cache EXCEPT ![w] = cache[w]]
        /\ Fit(Idle)
    BY <1>0, <1>10, FitIdle DEF FlushFails
  <2>2. table' \in [Streams -> Row]
    BY <1>0, <1>10, UpsertTyped DEF FlushFails, Typed
  <2>3. budget' \in Nat \X Nat
    BY <1>0, <1>10 DEF FlushFails, Fault, budget
  <2> QED
    BY <1>0, <1>10, <2>1, <2>2, <2>3, TypedTurn DEF FlushFails
<1>11. ASSUME NEW w \in Workers, LoadFails(w) PROVE Typed'
  <2>1. run' = [run EXCEPT ![w] = Idle] /\ cache' = [cache EXCEPT ![w] = cache[w]]
        /\ Fit(Idle)
    BY <1>0, <1>11, FitIdle DEF LoadFails
  <2>2. budget' \in Nat \X Nat
    BY <1>0, <1>11 DEF LoadFails, Fault, budget
  <2> QED
    BY <1>0, <1>11, <2>1, <2>2, TypedTurn DEF LoadFails
<1>12. ASSUME NEW w \in Workers, Crash(w) PROVE Typed'
  <2>1. run' = [run EXCEPT ![w] = Idle] /\ cache' = [cache EXCEPT ![w] = EmptyCache]
        /\ Fit(Idle) /\ EmptyCache \in [Streams -> Fold]
    BY <1>12, FitIdle, FoldsTyped DEF Crash, Keep, EmptyCache
  <2>2. budget' \in Nat \X Nat /\ clearing' \subseteq Workers
    BY <1>0, <1>12 DEF Crash, Fault, budget
  <2> QED
    BY <1>0, <1>12, <2>1, <2>2, TypedTurn DEF Crash
<1>13. ASSUME NEW w \in Workers, Reset(w) PROVE Typed'
  <2>1. run' = [run EXCEPT ![w] = run[w]] /\ cache' = [cache EXCEPT ![w] = cache[w]]
        /\ Fit(run[w])
    BY <1>0, <1>13, FitNow DEF Reset
  <2>2. budget' \in Nat \X Nat
    BY <1>0, <1>13 DEF Reset, Rebuild, budget
  <2>3. at' = 0 /\ holder' = Nobody /\ wiped' = FALSE /\ clearing' = clearing \cup {w}
        /\ table' = table /\ UNCHANGED store
    BY <1>13 DEF Reset
  <2>4. /\ at' \in Position /\ at' <= length /\ holder' \in Workers \cup {Nobody}
        /\ table' \in [Streams -> Row] /\ cache[w] \in [Streams -> Fold]
    BY <1>0, <2>3
  <2>5. wiped' \in BOOLEAN /\ clearing' \subseteq Workers
    BY <1>0, <2>3
  <2> QED
    BY <2>1, <2>2, <2>3, <2>4, <2>5, TypedTurn
<1>14. ASSUME NEW w \in Workers, Clear(w) PROVE Typed'
  <2>1. run' = [run EXCEPT ![w] = run[w]] /\ cache' = [cache EXCEPT ![w] = EmptyCache]
        /\ Fit(run[w]) /\ EmptyCache \in [Streams -> Fold]
    BY <1>0, <1>14, FitNow, FoldsTyped DEF Clear, Keep, EmptyCache
  <2> QED
    BY <1>0, <1>14, <2>1, TypedTurn DEF Clear, budget
<1>15. ASSUME Overrun \/ Lapse \/ Wipe \/ UNCHANGED vars PROVE Typed'
  <2>1. UNCHANGED <<store, at, cache, run, clearing>>
    BY <1>15 DEF Overrun, Lapse, Wipe, vars
  <2>2. table' \in [Streams -> Row]
    <3>1. NoRow \in Row
      BY <1>0 DEF NoRow, Row
    <3> QED
      BY <1>0, <1>15, <3>1 DEF Overrun, Lapse, Wipe, vars
  <2>3. holder' \in Workers \cup {Nobody} /\ wiped' \in BOOLEAN
    BY <1>0, <1>15 DEF Overrun, Lapse, Wipe, vars
  <2>4. budget' \in Nat \X Nat
    BY <1>0, <1>15 DEF Overrun, Lapse, Wipe, vars, Fault, Rebuild, budget
  <2> QED
    BY <1>0, <2>1, <2>2, <2>3, <2>4 DEF Typed, TypeOK, RunInv, store
<1> QED
  BY <1>2, <1>3, <1>4, <1>5, <1>6, <1>7, <1>8, <1>9, <1>10, <1>11, <1>12, <1>13, <1>14,
     <1>15 DEF Next, Cycle

LEMMA TypedInit == Init => Typed
<1> SUFFICES ASSUME Init PROVE Typed
  OBVIOUS
<1>1. 0 \in Position /\ NoRow \in Row /\ NoFold \in Fold
  BY ProjectionAssumption DEF Position, NoRow, Row, NoFold, Fold, Version
<1>2. length = 0 /\ 1 .. length = {} /\ log \in [1 .. length -> Event]
  BY DEF Init
<1>3. RunInv /\ run \in [Workers -> Run]
  BY <1>2, IdleIs DEF Init, RunInv
<1>4. table \in [Streams -> Row] /\ cache \in [Workers -> [Streams -> Fold]]
  BY <1>1 DEF Init, EmptyCache
<1>5. base \in [Streams -> Position] /\ \A s \in Streams : base[s] <= length
  BY <1>1, <1>2 DEF Init
<1> QED
  <2>1. TypeOK
    BY <1>1, <1>2, <1>3, <1>4, <1>5 DEF Init, TypeOK, budget
  <2> QED
    BY <1>1, <1>2, <1>3, <1>5, <2>1 DEF Init, Typed

LEMMA TypedAlways == Spec => []Typed
BY TypedInit, TypedStep, PTL DEF Spec

\* Every variable keeps its type.
THEOREM TypeCorrect == Spec => []TypeOK
<1>1. Typed => TypeOK
  BY DEF Typed
<1> QED
  BY <1>1, TypedAlways, PTL

-----------------------------------------------------------------------------
(* Rows are true.                                                          *)

\* From its seed on a stream's versions grow.
EraInv ==
    /\ \A s \in Streams : base[s] # 0 =>
          log[base[s]].stream = s /\ log[base[s]].name = "seed" /\ log[base[s]].version = 0
    /\ \A i, j \in 1 .. length :
          i < j /\ log[i].stream = log[j].stream /\ base[log[i].stream] <= i
             => log[i].version < log[j].version

\* A fold state is the true state at its event; one that a restart has left behind
\* missed nothing before the seed, whose version it has.
FoldOK(s, f) ==
    /\ f.id \in 1 .. length /\ log[f.id].stream = s /\ log[f.id].version = f.version
    /\ f.state = StateAt(s, f.id)
    /\ \/ base[s] <= f.id
       \/ f.version = 0 /\ \A j \in 1 .. length :
             log[j].stream = s /\ f.id < j => base[s] <= j

RowOK(s, r) == r.id <= length /\ r.state = StateAt(s, r.id)

\* An event in hand is of its stream's present era, unless the fold state has it.
Dated(w, i) ==
    LET s == log[i].stream
    IN  base[s] < i \/ (cache[w][s].held => i <= cache[w][s].id)

FoldTrue(w, s) == cache[w][s].held => FoldOK(s, cache[w][s])
RowTrue(s) == RowOK(s, table[s])

TrueInv ==
    /\ EraInv
    /\ \A w \in Workers, s \in Streams : FoldTrue(w, s)
    /\ \A w \in Workers : \A i \in run[w].batch : Dated(w, i)
    /\ \A s \in Streams : RowTrue(s)

\* A stream's head is of its present era.
LEMMA HeadIsLast ==
    ASSUME Typed, EraInv, NEW s \in Streams, Head(s) # 0
    PROVE  /\ Head(s) \in 1 .. length /\ log[Head(s)].stream = s
           /\ HeadVersion(s) = log[Head(s)].version /\ base[s] <= Head(s)
           /\ \A i \in 1 .. length : log[i].stream = s =>
                 i <= Head(s) /\ (base[s] <= i => log[i].version <= HeadVersion(s))
<1>0. /\ length \in Nat /\ log \in [1 .. length -> Event] /\ base[s] \in Nat
      /\ base[s] <= length
  BY ProjectionAssumption DEF Typed, TypeOK, Position
<1>1. Head(s) \in 1 .. length /\ log[Head(s)].stream = s
      /\ \A i \in 1 .. length : log[i].stream = s => i <= Head(s)
  BY <1>0, HeadIs DEF Typed
<1>2. HeadVersion(s) = log[Head(s)].version
  BY DEF HeadVersion
<1>3. base[s] <= Head(s)
  <2>1. CASE base[s] = 0
    BY <1>1, <2>1
  <2>2. CASE base[s] # 0
    BY <1>0, <1>1, <2>2 DEF EraInv
  <2> QED
    BY <2>1, <2>2
<1>4. ASSUME NEW i \in 1 .. length, log[i].stream = s, base[s] <= i
      PROVE  log[i].version <= HeadVersion(s)
  <2>1. log[i].version \in Nat /\ log[Head(s)].version \in Nat
    BY <1>0, <1>1 DEF Event
  <2>2. i <= Head(s) /\ i \in Int /\ Head(s) \in Int
    BY <1>1, <1>4
  <2>3. i = Head(s) \/ log[i].version < log[Head(s)].version
    BY <1>1, <1>4, <2>2 DEF EraInv
  <2> QED
    BY <1>2, <2>1, <2>3
<1> QED
  BY <1>1, <1>2, <1>3, <1>4

\* The past of the log does not change.
LEMMA StateKept ==
    ASSUME Typed, NEW s \in Streams, NEW n \in Nat, n <= length,
           length' = length + 1, \A i \in 1 .. length : log'[i] = log[i]
    PROVE  StateAt(s, n)' = StateAt(s, n)
<1>0. length \in Nat
  BY ProjectionAssumption DEF Typed, TypeOK, Position
<1>1. StateAt(s, n)' = {i \in 1 .. length' : log'[i].stream = s /\ log'[i].name = "domain" /\ i <= n}
  BY DEF StateAt
<1> QED
  BY <1>0, <1>1 DEF StateAt

\* What keeps every fold state, batch and row true on a log that stays.
LEMMA TrueTurn ==
    ASSUME TrueInv, UNCHANGED store,
           \A w \in Workers, s \in Streams :
              cache'[w][s].held => FoldOK(s, cache'[w][s]),
           \A w \in Workers : \A i \in run'[w].batch :
              LET s == log[i].stream
              IN  base[s] < i \/ (cache'[w][s].held => i <= cache'[w][s].id),
           \A s \in Streams : RowOK(s, table'[s])
    PROVE  TrueInv'
<1>1. log' = log /\ length' = length /\ base' = base
  BY DEF store
<1>2. EraInv'
  BY <1>1 DEF TrueInv, EraInv
<1>3. ASSUME NEW w \in Workers, NEW s \in Streams PROVE FoldTrue(w, s)'
  BY <1>1 DEF FoldTrue, FoldOK, StateAt
<1>4. ASSUME NEW w \in Workers, NEW i \in run'[w].batch PROVE Dated(w, i)'
  BY <1>1, <1>4 DEF Dated
<1>5. ASSUME NEW s \in Streams PROVE RowTrue(s)'
  BY <1>1, <1>5 DEF RowTrue, RowOK, StateAt
<1> QED
  BY <1>2, <1>3, <1>4, <1>5 DEF TrueInv

\* A fold state goes on to the event that is next, or has it.
LEMMA FoldedOK ==
    ASSUME Typed, EraInv, NEW s \in Streams, NEW f \in Fold, FoldOK(s, f),
           NEW i \in 1 .. length, log[i].stream = s, log[i].name = "domain",
           base[s] < i \/ i <= f.id, Takes(f, i)
    PROVE  FoldOK(s, Folded(f, i)) /\ f.id <= Folded(f, i).id /\ i <= Folded(f, i).id
<1>0. /\ length \in Nat /\ log \in [1 .. length -> Event] /\ base[s] \in Nat
      /\ f.id \in 1 .. length /\ f.id \in Int /\ f.version \in Int
      /\ base[s] <= length
  <2>1. length \in Nat /\ log \in [1 .. length -> Event] /\ base[s] \in Nat /\ base[s] <= length
    BY ProjectionAssumption DEF Typed, TypeOK, Position
  <2>2. f.id \in 1 .. length /\ log[f.id].version = f.version
    BY DEF FoldOK
  <2>3. log[f.id] \in Event
    BY <2>1, <2>2
  <2>4. f.version \in Nat
    BY <2>2, <2>3 DEF Event
  <2> QED
    BY <2>1, <2>2, <2>4
<1>1. CASE i <= f.id
  <2>1. Folded(f, i) = [f EXCEPT !.dirty = TRUE]
    BY <1>1 DEF Folded
  <2>2. /\ Folded(f, i).id = f.id /\ Folded(f, i).version = f.version
        /\ Folded(f, i).state = f.state
    BY <2>1 DEF Fold
  <2> QED
    BY <1>0, <1>1, <2>2 DEF FoldOK
<1>2. CASE ~(i <= f.id)
  <2>0. f.id < i /\ base[s] < i
    BY <1>0, <1>2
  <2>1. log[i].version = f.version + 1
    BY <1>2 DEF Takes, Contiguous
  <2>2. /\ Folded(f, i).id = i /\ Folded(f, i).version = log[i].version
        /\ Folded(f, i).state = f.state \cup {i}
    BY <1>2 DEF Folded
  <2>3. ASSUME NEW j \in StateAt(s, i), j # i PROVE j <= f.id
    <3> SUFFICES ASSUME f.id < j PROVE FALSE
      BY <1>0 DEF StateAt
    <3>1. j \in 1 .. length /\ j \in Int /\ log[j].stream = s /\ log[j].name = "domain" /\ j < i
      BY <2>3 DEF StateAt
    <3>2. log[j].version \in Int
      BY <1>0, <3>1 DEF Event
    <3>3. base[s] <= j => log[j].version < log[i].version
      BY <3>1 DEF EraInv
    <3>4. CASE base[s] <= f.id
      <4>1. base[s] <= j
        BY <1>0, <3>1, <3>4
      <4>2. f.version < log[j].version
        BY <1>0, <3>1, <3>4 DEF EraInv, FoldOK
      <4> QED
        BY <1>0, <2>1, <3>2, <3>3, <4>1, <4>2
    <3>5. CASE ~(base[s] <= f.id)
      <4>1. f.version = 0 /\ base[s] <= j
        BY <1>0, <3>1, <3>5 DEF FoldOK
      <4>2. base[s] # 0 /\ base[s] \in 1 .. length
        BY <1>0, <3>5
      <4>3. log[base[s]].stream = s /\ log[base[s]].name = "seed" /\ log[base[s]].version = 0
        BY <4>2 DEF EraInv
      <4>4. base[s] < j
        BY <1>0, <3>1, <4>1, <4>3
      <4>5. 0 < log[j].version
        BY <1>0, <3>1, <4>2, <4>3, <4>4 DEF EraInv
      <4> QED
        BY <1>0, <2>1, <3>2, <3>3, <4>1, <4>5
    <3> QED
      BY <3>4, <3>5
  <2>4. StateAt(s, i) = StateAt(s, f.id) \cup {i}
    BY <1>0, <2>0, <2>3 DEF StateAt
  <2> QED
    BY <1>0, <2>0, <2>2, <2>4 DEF FoldOK
<1> QED
  BY <1>1, <1>2

\* What is loaded is the truth at the head.
LEMMA LoadedOK ==
    ASSUME Typed, EraInv, NEW s \in Streams, Head(s) # 0
    PROVE  FoldOK(s, Loaded(s)) /\ Loaded(s).id = Head(s)
<1>1. /\ Head(s) \in 1 .. length /\ log[Head(s)].stream = s /\ base[s] <= Head(s)
      /\ HeadVersion(s) = log[Head(s)].version
      /\ \A i \in 1 .. length : log[i].stream = s => i <= Head(s)
  BY HeadIsLast
<1>2. Loaded(s).id = Head(s) /\ Loaded(s).version = HeadVersion(s)
      /\ Loaded(s).state = StateAt(s, length)
  BY DEF Loaded
<1>3. length \in Nat
  BY ProjectionAssumption DEF Typed, TypeOK, Position
<1>4. StateAt(s, length) = StateAt(s, Head(s))
  BY <1>1, <1>3 DEF StateAt
<1> QED
  BY <1>1, <1>2, <1>4 DEF FoldOK

\* Rows that are flushed are true.
LEMMA UpsertOK ==
    ASSUME TrueInv, NEW w \in Workers, NEW S \in SUBSET Dirty(w), NEW s \in Streams
    PROVE  RowOK(s, Upsert(cache[w], S)[s])
<1>1. CASE Upsert(cache[w], S)[s] = table[s]
  BY <1>1 DEF TrueInv, RowTrue
<1>2. CASE Upsert(cache[w], S)[s] # table[s]
  <2>1. s \in S /\ Upsert(cache[w], S)[s] = [state |-> cache[w][s].state, id |-> cache[w][s].id]
    BY <1>2 DEF Upsert
  <2>2. FoldOK(s, cache[w][s])
    BY <2>1 DEF Dirty, TrueInv, FoldTrue
  <2> QED
    BY <2>1, <2>2 DEF FoldOK, RowOK
<1> QED
  BY <1>1, <1>2

\* A write leaves true what was.
LEMMA TrueWrite ==
    ASSUME Typed, TrueInv, NEW s \in Streams, NEW name \in {"domain", "snapshot", "seed"},
           NEW version \in Nat, Write(s, name, version), UNCHANGED <<table, cache, run>>,
           \/ base' = base /\ version = HeadVersion(s) + 1
           \/ /\ base' = [base EXCEPT ![s] = length + 1] /\ name = "seed" /\ version = 0
              /\ \A w \in Workers : cache[w][s].held =>
                    cache[w][s].id = Head(s) /\ cache[w][s].version = 0
    PROVE  TrueInv'
<1> DEFINE new == length + 1
<1>0. /\ length \in Nat /\ length' = new /\ log \in [1 .. length -> Event]
      /\ log' \in [1 .. new -> Event] /\ \A i \in 1 .. length : log'[i] = log[i]
      /\ log'[new] = [stream |-> s, version |-> version, name |-> name]
      /\ base \in [Streams -> Nat] /\ \A z \in Streams : base[z] <= length
  <2>1. /\ length \in Nat /\ length' = new /\ log' \in [1 .. new -> Event]
        /\ \A i \in 1 .. length : log'[i] = log[i]
        /\ log'[new] = [stream |-> s, version |-> version, name |-> name]
    BY WriteIs
  <2>2. log \in [1 .. length -> Event]
    BY DEF Typed, TypeOK
  <2>3. base \in [Streams -> Nat] /\ \A z \in Streams : base[z] <= length
    BY ProjectionAssumption DEF Typed, TypeOK, Position
  <2> QED
    BY <2>1, <2>2, <2>3
<1>1. /\ \A z \in Streams : z # s => base'[z] = base[z]
      /\ base'[s] = base[s] \/ base'[s] = new
      /\ base' \in [Streams -> Nat] /\ \A z \in Streams : base'[z] <= new
  <2>1. new \in Nat /\ \A z \in Streams : base[z] \in Nat /\ base[z] <= new
    BY <1>0
  <2>2. base' = base \/ base' = [base EXCEPT ![s] = new]
    OBVIOUS
  <2> HIDE DEF new
  <2> QED
    BY <1>0, <2>1, <2>2
<1>2. \A i \in 1 .. length : log[i].stream = s => i <= Head(s)
  BY HeadIs DEF Typed
<1>3. EraInv'
  <2>1. ASSUME NEW z \in Streams, base'[z] # 0
        PROVE  /\ log'[base'[z]].stream = z /\ log'[base'[z]].name = "seed"
               /\ log'[base'[z]].version = 0
    <3>1. CASE base'[z] = base[z]
      <4>1. base[z] \in 1 .. length
        BY <1>0, <2>1, <3>1
      <4> QED
        BY <1>0, <2>1, <3>1, <4>1 DEF TrueInv, EraInv
    <3>2. CASE base'[z] # base[z]
      <4>1. z = s /\ base'[z] = new /\ name = "seed" /\ version = 0
        BY <1>0, <1>1, <3>2
      <4> QED
        BY <1>0, <4>1
    <3> QED
      BY <3>1, <3>2
  <2>2. ASSUME NEW i \in 1 .. new, NEW j \in 1 .. new, i < j,
               log'[i].stream = log'[j].stream, base'[log'[i].stream] <= i
        PROVE  log'[i].version < log'[j].version
    <3>1. i \in 1 .. length /\ log'[i] = log[i] /\ log[i].stream \in Streams
      BY <1>0, <2>2 DEF Event
    <3>2. base'[log[i].stream] # new
      BY <1>0, <2>2, <3>1
    <3>3. base'[log[i].stream] = base[log[i].stream]
      BY <1>1, <3>1, <3>2
    <3>4. CASE j \in 1 .. length
      BY <1>0, <2>2, <3>1, <3>3, <3>4 DEF TrueInv, EraInv
    <3>5. CASE j = new
      <4>1. log[i].stream = s /\ log'[j].version = version
        BY <1>0, <2>2, <3>1, <3>5
      <4>2. base' = base /\ version = HeadVersion(s) + 1
        BY <1>0, <3>1, <3>2, <4>1
      <4>3. Head(s) # 0
        BY <3>1, <4>1, HeadIs DEF Typed
      <4>4. log[i].version <= HeadVersion(s)
        BY <2>2, <3>1, <3>3, <4>1, <4>3, HeadIsLast DEF TrueInv
      <4>5. log[i].version \in Nat /\ HeadVersion(s) \in Int
        <5>1. log[i] \in Event /\ HeadVersion(s) \in Version
          BY <1>0, <3>1, HeadIs DEF Typed
        <5> QED
          BY <5>1 DEF Version, Event
      <4> QED
        BY <3>1, <4>1, <4>2, <4>4, <4>5
    <3> QED
      BY <1>0, <3>4, <3>5
  <2> QED
    BY <1>0, <2>1, <2>2 DEF EraInv
<1>4. \A z \in Streams, n \in Nat : n <= length => StateAt(z, n)' = StateAt(z, n)
  BY <1>0, StateKept
<1>5. ASSUME NEW w \in Workers, NEW z \in Streams, cache[w][z].held
      PROVE  FoldTrue(w, z)'
  <2>0. PICK f : f = cache[w][z] /\ f = cache'[w][z]
    OBVIOUS
  <2>1. /\ f.id \in 1 .. length /\ log[f.id].stream = z /\ log[f.id].version = f.version
        /\ f.state = StateAt(z, f.id)
        /\ \/ base[z] <= f.id
           \/ f.version = 0 /\ \A j \in 1 .. length :
                 log[j].stream = z /\ f.id < j => base[z] <= j
    BY <1>5, <2>0 DEF TrueInv, FoldTrue, FoldOK
  <2>2. /\ f.id \in 1 .. length' /\ log'[f.id].stream = z /\ log'[f.id].version = f.version
        /\ f.state = StateAt(z, f.id)'
    BY <1>0, <1>4, <2>1
  <2>3. \/ base'[z] <= f.id
        \/ f.version = 0 /\ \A j \in 1 .. length' :
              log'[j].stream = z /\ f.id < j => base'[z] <= j
    <3>1. CASE base'[z] = base[z]
      <4>1. base[z] \in Nat /\ base[z] <= length
        BY <1>0
      <4>2. ASSUME NEW j \in 1 .. length', log'[j].stream = z, f.id < j, ~(base[z] <= f.id)
            PROVE  base[z] <= j
        <5>1. CASE j \in 1 .. length
          BY <1>0, <2>1, <4>2, <5>1
        <5>2. CASE j = new
          BY <1>0, <4>1, <5>2
        <5> QED
          BY <1>0, <5>1, <5>2
      <4> QED
        BY <2>1, <3>1, <4>2
    <3>2. CASE base'[z] # base[z]
      <4>1. z = s /\ base'[z] = new /\ f.id = Head(s) /\ f.version = 0
        BY <1>0, <1>1, <1>5, <2>0, <3>2
      <4>2. ASSUME NEW j \in 1 .. length', log'[j].stream = s, Head(s) < j PROVE new <= j
        <5>1. CASE j \in 1 .. length
          <6>1. j <= Head(s) /\ Head(s) \in Int /\ j \in Int
            BY <1>0, <1>2, <2>1, <4>1, <4>2, <5>1
          <6> QED
            BY <4>2, <6>1
        <5>2. CASE j = new
          BY <1>0, <5>2
        <5> QED
          BY <1>0, <5>1, <5>2
      <4> QED
        BY <4>1, <4>2
    <3> QED
      BY <3>1, <3>2
  <2>4. FoldOK(z, f)'
    BY <2>2, <2>3 DEF FoldOK
  <2> QED
    BY <2>0, <2>4 DEF FoldTrue, FoldOK, StateAt
<1>6. ASSUME NEW w \in Workers, NEW i \in run[w].batch PROVE Dated(w, i)'
  <2>1. i \in 1 .. length /\ log'[i] = log[i] /\ log[i].stream \in Streams
    BY <1>0 DEF Typed, RunInv, Event
  <2>2. Dated(w, i)
    BY DEF TrueInv
  <2>3. CASE base'[log[i].stream] = base[log[i].stream]
    BY <2>1, <2>2, <2>3 DEF Dated
  <2>4. CASE base'[log[i].stream] # base[log[i].stream]
    <3>1. log[i].stream = s /\ \A v \in Workers : cache[v][s].held => cache[v][s].id = Head(s)
      BY <1>0, <1>1, <2>1, <2>4
    <3>2. i <= Head(s)
      BY <1>2, <2>1, <3>1
    <3> QED
      BY <2>1, <3>1, <3>2 DEF Dated
  <2> QED
    BY <2>3, <2>4
<1>7. ASSUME NEW z \in Streams PROVE RowTrue(z)'
  <2>1. /\ table[z].id \in Nat /\ table[z].id <= length
        /\ table[z].state = StateAt(z, table[z].id)
    BY ProjectionAssumption DEF Typed, TypeOK, Row, Position, TrueInv, RowTrue, RowOK
  <2>2. PICK r : r = table[z] /\ r = table'[z]
    OBVIOUS
  <2>3. RowOK(z, r)'
    BY <1>0, <1>4, <2>1, <2>2 DEF RowOK
  <2> QED
    BY <2>2, <2>3 DEF RowTrue, RowOK, StateAt
<1>8. \A w \in Workers, z \in Streams : FoldTrue(w, z)'
  BY <1>5 DEF FoldTrue
<1>9. run' = run
  OBVIOUS
<1> QED
  BY <1>3, <1>6, <1>7, <1>8, <1>9 DEF TrueInv

\* A worker's turn that changes one of its fold states at most.
LEMMA TrueFold ==
    ASSUME Typed, TrueInv, UNCHANGED store, NEW w \in Workers, NEW s \in Streams, NEW f,
           NEW r, run' = [run EXCEPT ![w] = r], r.batch \subseteq run[w].batch,
           cache' = [cache EXCEPT ![w] = [cache[w] EXCEPT ![s] = f]],
           f.held => FoldOK(s, f),
           \A i \in r.batch : log[i].stream = s => base[s] < i \/ (f.held => i <= f.id),
           \A z \in Streams : RowOK(z, table'[z])
    PROVE  TrueInv'
<1>0. /\ run \in [Workers -> Run] /\ cache \in [Workers -> [Streams -> Fold]]
      /\ log \in [1 .. length -> Event]
  BY DEF Typed, TypeOK
<1>1. /\ run'[w] = r /\ \A v \in Workers \ {w} : run'[v] = run[v]
      /\ \A v \in Workers, z \in Streams :
            cache'[v][z] = IF v = w /\ z = s THEN f ELSE cache[v][z]
  BY <1>0
<1>2. ASSUME NEW v \in Workers, NEW z \in Streams, cache'[v][z].held
      PROVE  FoldOK(z, cache'[v][z])
  BY <1>1, <1>2 DEF TrueInv, FoldTrue
<1>3. ASSUME NEW v \in Workers, NEW i \in run'[v].batch
      PROVE  LET z == log[i].stream
             IN  base[z] < i \/ (cache'[v][z].held => i <= cache'[v][z].id)
  <2>1. i \in run[v].batch /\ (v = w => i \in r.batch)
    BY <1>1, <1>3
  <2>2. Dated(v, i) /\ log[i].stream \in Streams
    BY <1>0, <2>1 DEF TrueInv, Typed, RunInv, Event
  <2> QED
    BY <1>1, <2>1, <2>2 DEF Dated
<1> QED
  BY <1>2, <1>3, TrueTurn

\* A turn that leaves the fold states alone, and may give up the batch.
LEMMA TrueRun ==
    ASSUME Typed, TrueInv, UNCHANGED <<store, cache>>, NEW w \in Workers,
           NEW r, run' = [run EXCEPT ![w] = r],
           \A i \in r.batch : i \in run[w].batch \/ base[log[i].stream] < i,
           \A z \in Streams : RowOK(z, table'[z])
    PROVE  TrueInv'
<1>1. run'[w] = r /\ \A v \in Workers \ {w} : run'[v] = run[v]
  BY DEF Typed, TypeOK
<1>2. ASSUME NEW v \in Workers, NEW z \in Streams, cache'[v][z].held
      PROVE  FoldOK(z, cache'[v][z])
  BY <1>2 DEF TrueInv, FoldTrue
<1>3. ASSUME NEW v \in Workers, NEW i \in run'[v].batch
      PROVE  LET z == log[i].stream
             IN  base[z] < i \/ (cache'[v][z].held => i <= cache'[v][z].id)
  <2>1. i \in run[v].batch \/ base[log[i].stream] < i
    BY <1>1, <1>3
  <2> QED
    BY <2>1 DEF TrueInv, Dated
<1> QED
  BY <1>2, <1>3, TrueTurn

LEMMA TrueStep ==
    ASSUME ~StaleRestart, Typed, TrueInv, [Next]_vars
    PROVE  TrueInv'
<1>0. /\ run \in [Workers -> Run] /\ cache \in [Workers -> [Streams -> Fold]]
      /\ length \in Nat /\ log \in [1 .. length -> Event]
      /\ \A s \in Streams : HeadVersion(s) + 1 \in Nat /\ RowOK(s, table[s])
  <2>1. \A s \in Streams : HeadVersion(s) + 1 \in Nat
    BY HeadIs DEF Typed, Version
  <2>2. length \in Nat
    BY ProjectionAssumption DEF Typed, TypeOK, Position
  <2>3. \A s \in Streams : RowOK(s, table[s])
    BY DEF TrueInv, RowTrue
  <2> QED
    BY <2>1, <2>2, <2>3 DEF Typed, TypeOK
<1>1. ASSUME NEW s \in Streams, Commit(s) \/ Snap(s) \/ Restart(s) PROVE TrueInv'
  <2>1. CASE Commit(s)
    BY <1>0, <2>1, TrueWrite DEF Commit
  <2>2. CASE Snap(s)
    BY <1>0, <2>2, TrueWrite DEF Snap
  <2>3. CASE Restart(s)
    BY <2>3, TrueWrite DEF Restart
  <2> QED
    BY <1>1, <2>1, <2>2, <2>3
<1>2. ASSUME NEW w \in Workers, Claim(w) PROVE TrueInv'
  <2>1. PICK r : run' = [run EXCEPT ![w] = r] /\ r.batch = Batch
    BY <1>2, ClaimIs
  <2>2. Due # {} /\ UNCHANGED <<store, cache, table>>
    BY <1>2 DEF Claim, Due
  <2>3. \A i \in Batch : base[log[i].stream] < i
    BY <2>2, BatchIs DEF Typed
  <2> QED
    BY <1>0, <2>1, <2>2, <2>3, TrueRun
<1>3. ASSUME NEW w \in Workers, FoldWarm(w) PROVE TrueInv'
  <2> DEFINE s == StreamOf(w)
             i == Current(w)
             f == cache[w][s]
  <2>1. run[w].batch # {}
    BY <1>3 DEF FoldWarm, In, Typed, RunInv
  <2>2. /\ i \in run[w].batch /\ i \in 1 .. length /\ s \in Streams
        /\ log[i].stream = s /\ log[i].name = "domain"
    BY <2>1, CurrentIs DEF Typed
  <2>3. f \in Fold /\ f.held /\ Takes(f, i) /\ Advance(w, s, Folded(f, i)) /\ UNCHANGED <<store, table>>
    BY <1>0, <1>3, <2>2 DEF FoldWarm, Takes
  <2>4. FoldOK(s, f) /\ (base[s] < i \/ i <= f.id)
    BY <2>2, <2>3 DEF TrueInv, FoldTrue, Dated
  <2> HIDE DEF s, i, f
  <2>5. FoldOK(s, Folded(f, i)) /\ f.id <= Folded(f, i).id /\ Folded(f, i) \in Fold
    BY <2>2, <2>3, <2>4, FoldedOK, FoldsTyped DEF TrueInv
  <2>6. PICK r : /\ run' = [run EXCEPT ![w] = r] /\ r.batch = run[w].batch \ {Current(w)}
                 /\ cache' = [cache EXCEPT ![w] = [cache[w] EXCEPT ![s] = Folded(f, i)]]
    BY <2>1, <2>2, <2>3, <2>5, AdvanceIs
  <2>7. ASSUME NEW j \in r.batch, log[j].stream = s
        PROVE  base[s] < j \/ j <= Folded(f, i).id
    <3>1. j \in run[w].batch /\ j \in Int
      BY <1>0, <2>6 DEF Typed, RunInv
    <3>2. base[s] < j \/ j <= f.id
      BY <2>3, <2>7, <3>1 DEF TrueInv, Dated, f
    <3>3. f.id \in Int /\ Folded(f, i).id \in Int
      BY <2>3, <2>5, ProjectionAssumption DEF Fold, Position
    <3> QED
      BY <2>5, <3>1, <3>2, <3>3
  <2>8. r.batch \subseteq run[w].batch
    BY <2>6
  <2>9. \A z \in Streams : RowOK(z, table'[z])
    BY <1>0, <2>3
  <2> QED
    BY <2>2, <2>3, <2>5, <2>6, <2>7, <2>8, <2>9, TrueFold
<1>4. ASSUME NEW w \in Workers, Load(w) PROVE TrueInv'
  <2> DEFINE s == StreamOf(w)
  <2>1. run[w].batch # {}
    BY <1>4 DEF Load, In, Typed, RunInv
  <2>2. Current(w) \in 1 .. length /\ s \in Streams /\ log[Current(w)].stream = s
    BY <2>1, CurrentIs DEF Typed
  <2>3. Advance(w, s, Loaded(s)) /\ UNCHANGED <<store, table>>
    BY <1>4 DEF Load
  <2> HIDE DEF s
  <2>4. Head(s) # 0 /\ \A j \in 1 .. length : log[j].stream = s => j <= Head(s)
    BY <2>2, HeadIs DEF Typed
  <2>5. FoldOK(s, Loaded(s)) /\ Loaded(s).id = Head(s) /\ Loaded(s) \in Fold
    BY <2>2, <2>4, LoadedOK, FoldsTyped DEF TrueInv
  <2>6. PICK r : /\ run' = [run EXCEPT ![w] = r] /\ r.batch = run[w].batch \ {Current(w)}
                 /\ cache' = [cache EXCEPT ![w] = [cache[w] EXCEPT ![s] = Loaded(s)]]
    BY <2>1, <2>2, <2>3, <2>5, AdvanceIs
  <2>7. \A j \in r.batch : log[j].stream = s => j <= Loaded(s).id
    BY <2>4, <2>5, <2>6 DEF Typed, RunInv
  <2>8. r.batch \subseteq run[w].batch
    BY <2>6
  <2>9. \A z \in Streams : RowOK(z, table'[z])
    BY <1>0, <2>3
  <2> QED
    BY <2>2, <2>3, <2>5, <2>6, <2>7, <2>8, <2>9, TrueFold
<1>5. ASSUME NEW w \in Workers, FoldCold(w) PROVE TrueInv'
  <2> DEFINE folds == [cache[w] EXCEPT ![StreamOf(w)] = NoFold]
  <2>1. run[w].batch # {}
    BY <1>5 DEF FoldCold, In, Typed, RunInv
  <2>2. StreamOf(w) \in Streams
    BY <2>1, CurrentIs DEF Typed
  <2>3. cache' = [cache EXCEPT ![w] = folds] /\ UNCHANGED <<store, table>> /\ ~NoFold.held
    BY <1>5 DEF FoldCold, Keep, NoFold
  <2>4. PICK r : run' = [run EXCEPT ![w] = r] /\ r.batch = run[w].batch
    <3> DEFINE now == run[w]
    <3>1. now \in Run
      BY <1>0
    <3>2. \/ \E v \in Streams : run' = [run EXCEPT ![w] = [now EXCEPT !.phase = "evict",
                                                                      !.victim = v]]
          \/ run' = [run EXCEPT ![w] = [now EXCEPT !.phase = "load"]]
      BY <1>0, <1>5 DEF FoldCold, Goto
    <3> HIDE DEF now
    <3>3. \A v \in Streams : [now EXCEPT !.phase = "evict", !.victim = v].batch = now.batch
      BY <3>1 DEF Run
    <3>4. [now EXCEPT !.phase = "load"].batch = now.batch
      BY <3>1 DEF Run
    <3> QED
      BY <3>2, <3>3, <3>4 DEF now
  <2>5. \A z \in Streams : RowOK(z, table'[z])
    BY <1>0, <2>3
  <2> QED
    BY <2>2, <2>3, <2>4, <2>5, TrueFold
<1>6. ASSUME NEW w \in Workers, Evict(w) PROVE TrueInv'
  <2> DEFINE now == run[w]
             v == now.victim
             r == [now EXCEPT !.phase = "load", !.victim = Idle.victim]
  <2>1. now \in Run /\ v \in Streams
    BY <1>0 DEF Run
  <2>2. /\ run' = [run EXCEPT ![w] = r] /\ UNCHANGED store
        /\ cache' = [cache EXCEPT ![w] = [cache[w] EXCEPT ![v] = NoFold]]
        /\ ~NoFold.held
    BY <1>0, <1>6 DEF Evict, Keep, NoFold
  <2>3. table' = Upsert(cache[w], Owed(w, v)) /\ Owed(w, v) \in SUBSET Dirty(w)
    BY <1>6 DEF Evict, Owed
  <2>4. \A z \in Streams : RowOK(z, table'[z])
    BY <2>3, UpsertOK
  <2>5. r.batch = now.batch
    <3> HIDE DEF now
    <3> QED
      BY <2>1 DEF Run
  <2> HIDE DEF r, v
  <2> QED
    BY <2>1, <2>2, <2>4, <2>5, TrueFold
<1>7. ASSUME NEW w \in Workers, Flush(w) PROVE TrueInv'
  <2> DEFINE now == run[w]
             phase == IF now.batch = {} THEN "ack" ELSE "fold"
             r == [now EXCEPT !.since = 0, !.phase = phase]
             folds == [s \in Streams |-> [cache[w][s] EXCEPT !.dirty = FALSE]]
  <2>1. run' = [run EXCEPT ![w] = r] /\ UNCHANGED store /\ cache' = [cache EXCEPT ![w] = folds]
        /\ table' = Upsert(cache[w], Dirty(w))
    BY <1>0, <1>7 DEF Flush, Keep
  <2>2. r.batch = now.batch /\ now \in Run
    <3>1. now \in Run
      BY <1>0
    <3> HIDE DEF now, phase
    <3> QED
      BY <3>1 DEF Run
  <2>3. \A s \in Streams : /\ folds[s].held = cache[w][s].held /\ folds[s].id = cache[w][s].id
                           /\ folds[s].state = cache[w][s].state
                           /\ folds[s].version = cache[w][s].version
    BY <1>0 DEF Fold
  <2>4. \A z \in Streams : RowOK(z, table'[z])
    BY <2>1, UpsertOK
  <2> HIDE DEF r, folds
  <2>5. /\ run'[w] = r /\ \A v \in Workers \ {w} : run'[v] = run[v]
        /\ cache'[w] = folds /\ \A v \in Workers \ {w} : cache'[v] = cache[v]
    BY <1>0, <2>1
  <2>6. ASSUME NEW v \in Workers, NEW z \in Streams, cache'[v][z].held
        PROVE  FoldOK(z, cache'[v][z])
    BY <2>3, <2>5, <2>6 DEF TrueInv, FoldTrue, FoldOK
  <2>7. ASSUME NEW v \in Workers, NEW i \in run'[v].batch
        PROVE  LET z == log[i].stream
               IN  base[z] < i \/ (cache'[v][z].held => i <= cache'[v][z].id)
    <3>1. i \in run[v].batch
      BY <2>2, <2>5, <2>7
    <3>2. Dated(v, i) /\ log[i].stream \in Streams
      BY <1>0, <3>1 DEF TrueInv, Typed, RunInv, Event
    <3> QED
      BY <2>3, <2>5, <3>2 DEF Dated
  <2> QED
    BY <2>1, <2>4, <2>6, <2>7, TrueTurn
<1>8. ASSUME NEW w \in Workers, Ack(w) \/ FlushFails(w) \/ LoadFails(w) PROVE TrueInv'
  <2>1. run' = [run EXCEPT ![w] = Idle] /\ UNCHANGED <<store, cache>> /\ Idle.batch = {}
    BY <1>8, IdleIs DEF Ack, FlushFails, LoadFails
  <2>2. \A z \in Streams : RowOK(z, table'[z])
    <3>1. CASE FlushFails(w)
      <4>1. PICK S \in SUBSET Dirty(w) : table' = Upsert(cache[w], S)
        BY <3>1 DEF FlushFails, Owed
      <4> QED
        BY <4>1, UpsertOK
    <3>2. CASE ~FlushFails(w)
      BY <1>0, <1>8, <3>2 DEF Ack, LoadFails
    <3> QED
      BY <3>1, <3>2
  <2> QED
    BY <2>1, <2>2, TrueRun
<1>9. ASSUME NEW w \in Workers, Crash(w) \/ Clear(w) PROVE TrueInv'
  <2>1. /\ UNCHANGED <<store, table>> /\ cache' = [cache EXCEPT ![w] = EmptyCache]
        /\ run' = run \/ run' = [run EXCEPT ![w] = Idle]
    BY <1>9 DEF Crash, Clear, Keep
  <2>2. \A s \in Streams : ~cache'[w][s].held
    BY <1>0, <2>1 DEF EmptyCache, NoFold
  <2>3. \A v \in Workers \ {w} : cache'[v] = cache[v] /\ run'[v].batch = run[v].batch
    BY <1>0, <2>1
  <2>4. ASSUME NEW v \in Workers, NEW z \in Streams, cache'[v][z].held
        PROVE  FoldOK(z, cache'[v][z])
    BY <2>2, <2>3, <2>4 DEF TrueInv, FoldTrue
  <2>5. ASSUME NEW v \in Workers, NEW i \in run'[v].batch
        PROVE  LET z == log[i].stream
               IN  base[z] < i \/ (cache'[v][z].held => i <= cache'[v][z].id)
    <3>1. i \in run[v].batch
      BY <1>0, <2>1, <2>5, IdleIs
    <3>2. Dated(v, i) /\ log[i].stream \in Streams
      BY <1>0, <3>1 DEF TrueInv, Typed, RunInv, Event
    <3> QED
      BY <2>2, <2>3, <3>2 DEF Dated
  <2> QED
    BY <1>0, <2>1, <2>4, <2>5, TrueTurn
<1>10. ASSUME \/ \E w \in Workers : Reset(w)
              \/ Overrun \/ Lapse \/ Wipe \/ UNCHANGED vars
       PROVE  TrueInv'
  <2>1. UNCHANGED <<store, cache, run>>
    BY <1>10 DEF Reset, Overrun, Lapse, Wipe, vars
  <2>2. \A z \in Streams : RowOK(z, table'[z])
    <3>1. CASE table' = table
      BY <1>0, <3>1
    <3>2. CASE table' # table
      <4>1. \A z \in Streams : table'[z] = NoRow
        BY <1>10, <3>2 DEF Reset, Overrun, Lapse, Wipe, vars
      <4>2. \A z \in Streams : StateAt(z, 0) = {}
        BY <1>0 DEF StateAt
      <4>3. NoRow.id = 0 /\ NoRow.state = {} /\ 0 <= length
        BY <1>0 DEF NoRow
      <4> QED
        BY <4>1, <4>2, <4>3 DEF RowOK
    <3> QED
      BY <3>1, <3>2
  <2> QED
    BY <2>1, <2>2, TrueTurn DEF TrueInv, FoldTrue, Dated
<1> QED
  BY <1>1, <1>2, <1>3, <1>4, <1>5, <1>6, <1>7, <1>8, <1>9, <1>10 DEF Next, Cycle

LEMMA TrueInit == Init => TrueInv
<1> SUFFICES ASSUME Init PROVE TrueInv
  OBVIOUS
<1>1. length = 0 /\ 1 .. length = {} /\ \A w \in Workers : run[w].batch = {}
  BY IdleIs DEF Init
<1>2. EraInv
  BY <1>1 DEF Init, EraInv
<1>3. \A w \in Workers, s \in Streams : FoldTrue(w, s)
  BY DEF Init, FoldTrue, EmptyCache, NoFold
<1>4. \A s \in Streams : RowTrue(s)
  BY <1>1 DEF Init, RowTrue, RowOK, NoRow, StateAt
<1> QED
  BY <1>1, <1>2, <1>3, <1>4 DEF TrueInv

\* Where no stream is restarted under a fold state that could go on with its new
\* history, a projected row is the fold of every event of its stream up to the
\* row's position, whichever instances folded which part of it.
THEOREM RowsCorrect == ASSUME ~StaleRestart PROVE Spec => []RowsAreTrue
<1>1. Typed /\ TrueInv /\ [Next]_vars => (Typed /\ TrueInv)'
  BY TypedStep, TrueStep
<1>2. Init => Typed /\ TrueInv
  BY TypedInit, TrueInit
<1>3. Typed /\ TrueInv => RowsAreTrue
  BY DEF TrueInv, RowTrue, RowOK, RowsAreTrue
<1> QED
  BY <1>1, <1>2, <1>3, PTL DEF Spec

-----------------------------------------------------------------------------
(* What is acknowledged is in the table.                                   *)

\* Event i, which w acknowledges at the end of its batch, will be in the table.
Safe(w, i) ==
    LET s == log[i].stream
    IN  \/ i <= table[s].id
        \/ /\ run[w].phase # "ack"
           /\ \/ i \in run[w].batch
              \/ cache[w][s].held /\ cache[w][s].dirty /\ i <= cache[w][s].id
              \/ run[w].phase \in {"evict", "load"} /\ s = log[Current(w)].stream

\* The lease and a handler at work under it.
Carrying(w) == ~wiped /\ holder = w /\ run[w].phase # "idle"
Carried(w) == Carrying(w) => \A i \in Delivered(0) : i <= run[w].upto => Safe(w, i)

DurableInv ==
    /\ holder \notin clearing
    /\ AckedIsDurable
    /\ \A w \in Workers : Carried(w)

LEMMA UpsertGrows ==
    ASSUME TypeOK, NEW folds \in [Streams -> Fold], NEW S, NEW s \in Streams
    PROVE  /\ table[s].id <= Upsert(folds, S)[s].id
           /\ s \in S => folds[s].id <= Upsert(folds, S)[s].id
<1>1. table[s].id \in Nat /\ folds[s].id \in Nat
  <2>1. table[s] \in Row /\ folds[s] \in Fold
    BY DEF TypeOK
  <2> QED
    BY <2>1, ProjectionAssumption DEF Row, Fold, Position
<1>2. Upsert(folds, S)[s].id = IF s \in S /\ table[s].id <= folds[s].id
                               THEN folds[s].id ELSE table[s].id
  BY DEF Upsert
<1> QED
  BY <1>1, <1>2

\* The log only grows, and the rows with it.
Grown ==
    /\ length <= length' /\ \A i \in 1 .. length : log'[i] = log[i]
    /\ \A s \in Streams : base'[s] = base[s] \/ base'[s] = length'
    /\ \A i \in 1 .. length' : i \in 1 .. length \/ i = length'
    /\ \A s \in Streams : table[s].id <= table'[s].id

LEMMA SafeStays ==
    ASSUME Typed, Typed', Grown, NEW w \in Workers, run'[w] = run[w], cache'[w] = cache[w],
           NEW i \in 1 .. length, Safe(w, i)
    PROVE  Safe(w, i)'
<1>0. /\ log'[i] = log[i] /\ log[i].stream \in Streams /\ i \in Int
      /\ \A s \in Streams : table[s].id \in Int /\ table'[s].id \in Int
                            /\ table[s].id <= table'[s].id
  <2>1. log[i] \in Event
    BY DEF Typed, TypeOK
  <2>2. \A s \in Streams : table[s] \in Row /\ table'[s] \in Row
    BY DEF Typed, TypeOK
  <2> QED
    BY <2>1, <2>2, ProjectionAssumption DEF Grown, Row, Position, Event
<1>1. CASE i <= table[log[i].stream].id
  BY <1>0, <1>1 DEF Safe
<1>2. CASE i \in run[w].batch /\ run[w].phase # "ack"
  BY <1>2 DEF Safe
<1>3. CASE /\ run[w].phase # "ack" /\ cache[w][log[i].stream].held
           /\ cache[w][log[i].stream].dirty /\ i <= cache[w][log[i].stream].id
  BY <1>0, <1>3 DEF Safe
<1>4. CASE run[w].phase \in {"evict", "load"} /\ log[i].stream = log[Current(w)].stream
  <2>1. Current(w) \in 1 .. length
    BY <1>4, CurrentIs DEF Typed, RunInv
  <2>2. Current(w)' = Current(w)
    BY DEF Current, IsNext
  <2> QED
    BY <1>0, <1>4, <2>1, <2>2 DEF Safe, Grown
<1> QED
  BY <1>1, <1>2, <1>3, <1>4 DEF Safe

\* What is delivered from the start gains the newest event at most.
LEMMA DeliveredStays ==
    ASSUME Typed, Typed', Grown, NEW i \in Delivered(0)'
    PROVE  i \in 1 .. length => i \in Delivered(0)
<1> SUFFICES ASSUME i \in 1 .. length PROVE i \in Delivered(0)
  OBVIOUS
<1>1. /\ length \in Nat /\ length' \in Nat /\ log[i].stream \in Streams
      /\ base[log[i].stream] \in Nat
  <2>1. log[i] \in Event /\ length \in Nat /\ length' \in Nat
    BY ProjectionAssumption DEF Typed, TypeOK, Position
  <2>2. log[i].stream \in Streams
    BY <2>1 DEF Event
  <2> QED
    BY <2>1, <2>2, ProjectionAssumption DEF Typed, TypeOK, Position
<1>2. log'[i] = log[i] /\ length <= length'
  BY DEF Grown
<1>3. 0 < i /\ log[i].name = "domain" /\ base'[log[i].stream] < i
  BY <1>2 DEF Delivered
<1>4. base'[log[i].stream] = base[log[i].stream]
  BY <1>1, <1>2, <1>3 DEF Grown
<1> QED
  BY <1>3, <1>4 DEF Delivered

\* What keeps acknowledged work durable where the watermark stays and the rows
\* only grow: whoever has a turn takes care of the batch it carries.
LEMMA DurableTurn ==
    ASSUME Typed, Typed', DurableInv, Grown, at' = at, (wiped' = wiped) \/ wiped',
           clearing' \subseteq clearing, holder' \in {holder, Nobody},
           \A v \in Workers :
              \/ run'[v] = run[v] /\ cache'[v] = cache[v]
              \/ Carrying(v)' => /\ Carrying(v) /\ run'[v].upto = run[v].upto
                                 /\ \A i \in 1 .. length : Safe(v, i) => Safe(v, i)'
    PROVE  DurableInv'
<1>0. /\ length \in Nat /\ length' \in Nat /\ at \in Nat /\ at <= length
      /\ \A s \in Streams : table[s].id \in Int /\ table'[s].id \in Int
      /\ \A v \in Workers : run[v].upto \in Nat /\ run[v].upto <= length
  <2>1. \A s \in Streams : table[s] \in Row /\ table'[s] \in Row
    BY DEF Typed, TypeOK
  <2>2. \A v \in Workers : run[v] \in Run /\ run[v].upto <= length
    BY DEF Typed, TypeOK, RunInv
  <2>3. \A s \in Streams : table[s].id \in Int /\ table'[s].id \in Int
    BY <2>1, ProjectionAssumption DEF Row, Position
  <2>4. \A v \in Workers : run[v].upto \in Nat /\ run[v].upto <= length
    BY <2>2, ProjectionAssumption DEF Run, Position
  <2>5. length \in Nat /\ length' \in Nat /\ at \in Nat /\ at <= length
    BY ProjectionAssumption DEF Typed, TypeOK, Position
  <2> QED
    BY <2>3, <2>4, <2>5
<1>1. ASSUME NEW i \in Delivered(0)', NEW n \in Nat, n <= length, i <= n
      PROVE  /\ i \in 1 .. length /\ i \in Delivered(0) /\ log'[i] = log[i]
             /\ log[i].stream \in Streams
  <2>1. i \in 1 .. length'
    BY DEF Delivered
  <2>2. i \in 1 .. length
    BY <1>0, <1>1, <2>1
  <2>3. log[i] \in Event
    BY <2>2 DEF Typed, TypeOK
  <2> QED
    BY <2>2, <2>3, DeliveredStays DEF Grown, Event
<1>2. holder' \notin clearing'
  BY ProjectionAssumption DEF DurableInv, Typed, TypeOK
<1>3. ~wiped' => ~wiped
  OBVIOUS
<1>4. AckedIsDurable'
  <2> SUFFICES ASSUME ~wiped', NEW i \in Delivered(0)', i <= at
               PROVE  i <= table'[log'[i].stream].id
    BY DEF AckedIsDurable
  <2>1. i \in 1 .. length /\ i \in Delivered(0) /\ log'[i] = log[i] /\ log[i].stream \in Streams
    BY <1>0, <1>1
  <2>2. i <= table[log[i].stream].id
    BY <1>3, <2>1 DEF DurableInv, AckedIsDurable
  <2> QED
    BY <1>0, <2>1, <2>2 DEF Grown
<1>5. ASSUME NEW v \in Workers, Carrying(v)', NEW i \in Delivered(0)', i <= run'[v].upto
      PROVE  Safe(v, i)'
  <2>1. Carrying(v) /\ run'[v].upto = run[v].upto
    BY <1>3, <1>5, ProjectionAssumption DEF Carrying
  <2>2. i \in 1 .. length /\ i \in Delivered(0)
    BY <1>0, <1>1, <1>5, <2>1
  <2>3. Safe(v, i)
    BY <1>5, <2>1, <2>2 DEF DurableInv, Carried
  <2>4. CASE run'[v] = run[v] /\ cache'[v] = cache[v]
    BY <2>2, <2>3, <2>4, SafeStays
  <2>5. CASE ~(run'[v] = run[v] /\ cache'[v] = cache[v])
    BY <1>5, <2>2, <2>3, <2>5
  <2> QED
    BY <2>4, <2>5
<1>6. \A v \in Workers : Carried(v)'
  BY <1>5 DEF Carried
<1> QED
  BY <1>2, <1>4, <1>6 DEF DurableInv

\* A write of the store.
LEMMA GrownWrite ==
    ASSUME Typed, NEW s \in Streams, NEW name \in {"domain", "snapshot", "seed"},
           NEW version \in Nat, Write(s, name, version), UNCHANGED table,
           base' = base \/ base' = [base EXCEPT ![s] = length + 1]
    PROVE  Grown
<1>1. length \in Nat /\ length' = length + 1 /\ \A i \in 1 .. length : log'[i] = log[i]
  BY WriteIs
<1>2. \A z \in Streams : table[z].id <= table'[z].id
  <2>1. \A z \in Streams : table[z] \in Row
    BY DEF Typed, TypeOK
  <2> QED
    BY <2>1, ProjectionAssumption DEF Row, Position
<1>3. \A z \in Streams : base'[z] = base[z] \/ base'[z] = length'
  BY <1>1 DEF Typed, TypeOK
<1> QED
  BY <1>1, <1>2, <1>3 DEF Grown

\* A turn that writes rows, if anything.
LEMMA GrownTurn ==
    ASSUME Typed, UNCHANGED store, NEW w \in Workers, NEW S,
           UNCHANGED table \/ table' = Upsert(cache[w], S)
    PROVE  Grown
<1>1. length \in Nat /\ \A s \in Streams : table[s] \in Row
  BY ProjectionAssumption DEF Typed, TypeOK, Position
<1>2. \A s \in Streams : table[s].id <= table'[s].id
  <2>1. CASE UNCHANGED table
    BY <1>1, <2>1, ProjectionAssumption DEF Row, Position
  <2>2. CASE table' = Upsert(cache[w], S)
    BY <2>2, UpsertGrows DEF Typed, TypeOK
  <2> QED
    BY <2>1, <2>2
<1> QED
  BY <1>1, <1>2 DEF Grown, store

LEMMA DurableStep ==
    ASSUME ~LateClear, Typed, Typed', DurableInv, [Next]_vars
    PROVE  DurableInv'
<1>0. /\ run \in [Workers -> Run] /\ cache \in [Workers -> [Streams -> Fold]]
      /\ length \in Nat /\ log \in [1 .. length -> Event] /\ at \in Nat /\ at <= length
      /\ \A s \in Streams : HeadVersion(s) + 1 \in Nat
      /\ \A w \in Workers : w # Nobody
  <2>1. \A s \in Streams : HeadVersion(s) + 1 \in Nat
    BY HeadIs DEF Typed, Version
  <2>2. length \in Nat /\ at \in Nat
    BY ProjectionAssumption DEF Typed, TypeOK, Position
  <2> QED
    BY <2>1, <2>2, ProjectionAssumption DEF Typed, TypeOK
<1>1. ASSUME NEW s \in Streams, Commit(s) \/ Snap(s) \/ Restart(s) PROVE DurableInv'
  <2>1. Grown
    <3>1. CASE Commit(s)
      BY <1>0, <3>1, GrownWrite DEF Commit
    <3>2. CASE Snap(s)
      BY <1>0, <3>2, GrownWrite DEF Snap
    <3>3. CASE Restart(s)
      BY <3>3, GrownWrite DEF Restart
    <3> QED
      BY <1>1, <3>1, <3>2, <3>3
  <2>2. UNCHANGED <<at, holder, cache, run, wiped, clearing>>
    BY <1>1 DEF Commit, Snap, Restart, subscription
  <2> QED
    BY <2>1, <2>2, DurableTurn
<1>2. ASSUME NEW w \in Workers, Cycle(w), Claim(w) PROVE DurableInv'
  <2>1. PICK r : /\ run' = [run EXCEPT ![w] = r] /\ r.phase = "fold" /\ r.batch = Batch
                 /\ r.upto \in Batch
    BY <1>2, ClaimIs
  <2>2. /\ Due # {} /\ UNCHANGED <<log, length, base, cache, table, at, wiped, clearing>>
        /\ holder' = w /\ holder = Nobody
    BY <1>2 DEF Claim, Due, store
  <2>3. \A i \in Due, j \in Batch : i <= j => i \in Batch
    BY <2>2, BatchIs DEF Typed
  <2>4. run'[w] = r /\ \A v \in Workers \ {w} : run'[v] = run[v]
    BY <1>0, <2>1
  <2>5. AckedIsDurable'
    BY <2>2 DEF DurableInv, AckedIsDurable, Delivered
  <2>6. holder' \notin clearing'
    BY <1>2, <2>2 DEF Cycle
  <2>7. ASSUME NEW i \in Delivered(0), i <= r.upto, ~wiped PROVE Safe(w, i)'
    <3>1. CASE i <= at
      <4>1. i <= table[log[i].stream].id
        BY <2>7, <3>1 DEF DurableInv, AckedIsDurable
      <4> QED
        BY <2>2, <4>1 DEF Safe
    <3>2. CASE ~(i <= at)
      <4>1. at < i
        BY <1>0, <3>2 DEF Delivered
      <4>2. i \in Due
        BY <4>1 DEF Due, Delivered
      <4>3. i \in Batch
        BY <2>1, <2>3, <2>7, <4>2
      <4> QED
        BY <2>1, <2>4, <4>3 DEF Safe
    <3> QED
      BY <3>1, <3>2
  <2>8. Delivered(0)' = Delivered(0)
    BY <2>2 DEF Delivered
  <2>9. ASSUME NEW v \in Workers PROVE Carried(v)'
    BY <2>2, <2>4, <2>7, <2>8 DEF Carried, Carrying
  <2> QED
    BY <2>5, <2>6, <2>9 DEF DurableInv
<1>3. ASSUME NEW w \in Workers, FoldWarm(w) PROVE DurableInv'
  <2> DEFINE s == StreamOf(w)
             c == Current(w)
             f == cache[w][s]
  <2>1. run[w].batch # {} /\ run[w].phase = "fold"
    BY <1>3 DEF FoldWarm, In, Typed, RunInv
  <2>2. c \in run[w].batch /\ c \in 1 .. length /\ s \in Streams /\ log[c].stream = s
    BY <2>1, CurrentIs DEF Typed
  <2>3. /\ f \in Fold /\ f.held /\ Takes(f, c) /\ Advance(w, s, Folded(f, c))
        /\ UNCHANGED <<store, at, holder, table, wiped, clearing>>
    BY <1>0, <1>3, <2>2 DEF FoldWarm, Takes, subscription
  <2> HIDE DEF s, f
  <2>4. /\ Folded(f, c) \in Fold /\ Folded(f, c).held /\ Folded(f, c).dirty
        /\ f.id <= Folded(f, c).id /\ c <= Folded(f, c).id
    <3>1. f.id \in Int /\ c \in Int
      BY <2>2, <2>3, ProjectionAssumption DEF Fold, Position
    <3> HIDE DEF c
    <3>2. CASE c <= f.id
      <4>1. Folded(f, c) = [f EXCEPT !.dirty = TRUE]
        BY <3>2 DEF Folded
      <4>2. Folded(f, c).held /\ Folded(f, c).dirty /\ Folded(f, c).id = f.id
        BY <2>3, <4>1 DEF Fold
      <4> QED
        BY <2>2, <2>3, <3>1, <3>2, <4>2, FoldsTyped
    <3>3. CASE ~(c <= f.id)
      <4>1. Folded(f, c).held /\ Folded(f, c).dirty /\ Folded(f, c).id = c
        BY <3>3 DEF Folded
      <4> QED
        BY <2>2, <2>3, <3>1, <3>3, <4>1, FoldsTyped
    <3> QED
      BY <3>2, <3>3
  <2> HIDE DEF c
  <2>5. PICK r : /\ run' = [run EXCEPT ![w] = r] /\ r.batch = run[w].batch \ {Current(w)}
                 /\ r.upto = run[w].upto /\ r.phase \in {"fold", "flush"}
                 /\ cache' = [cache EXCEPT ![w] = [cache[w] EXCEPT ![s] = Folded(f, c)]]
    BY <2>1, <2>2, <2>3, <2>4, AdvanceIs
  <2>6. PICK g : /\ g = Folded(f, c) /\ cache'[w][s] = g /\ run'[w] = r
                 /\ \A z \in Streams \ {s} : cache'[w][z] = cache[w][z]
                 /\ \A v \in Workers \ {w} : run'[v] = run[v] /\ cache'[v] = cache[v]
    BY <1>0, <2>2, <2>5
  <2>7. ASSUME NEW i \in 1 .. length, Safe(w, i) PROVE Safe(w, i)'
    <3>1. log[i].stream \in Streams /\ i \in Int
      BY <1>0 DEF Event
    <3>2. log' = log /\ table' = table /\ r.phase # "ack"
      BY <2>3, <2>5 DEF store
    <3>3. CASE i <= table[log[i].stream].id
      BY <3>2, <3>3 DEF Safe
    <3>4. CASE i = c
      BY <2>2, <2>4, <2>6, <3>2, <3>4 DEF Safe
    <3>5. CASE i \in run[w].batch /\ i # c
      BY <2>5, <2>6, <3>2, <3>5 DEF Safe, c
    <3>6. CASE cache[w][log[i].stream].held /\ cache[w][log[i].stream].dirty
               /\ i <= cache[w][log[i].stream].id
      <4>1. CASE log[i].stream = s
        <5>1. f.id \in Int /\ g.id \in Int
          BY <2>3, <2>4, <2>6, ProjectionAssumption DEF Fold, Position
        <5>2. i <= g.id
          BY <2>4, <2>6, <3>1, <3>6, <4>1, <5>1 DEF f
        <5> QED
          BY <2>4, <2>6, <3>2, <4>1, <5>2 DEF Safe
      <4>2. CASE log[i].stream # s
        BY <2>6, <3>1, <3>2, <3>6, <4>2 DEF Safe
      <4> QED
        BY <4>1, <4>2
    <3> QED
      BY <2>1, <2>7, <3>3, <3>4, <3>5, <3>6 DEF Safe
  <2>8. Carrying(w)' => Carrying(w) /\ run'[w].upto = run[w].upto
    BY <2>1, <2>3, <2>5, <2>6 DEF Carrying
  <2>9. Grown
    BY <2>3, GrownTurn
  <2> QED
    BY <2>3, <2>6, <2>7, <2>8, <2>9, DurableTurn
<1>4. ASSUME NEW w \in Workers, Load(w) PROVE DurableInv'
  <2> DEFINE s == StreamOf(w)
             c == Current(w)
  <2>1. run[w].batch # {} /\ run[w].phase = "load"
    BY <1>4 DEF Load, In, Typed, RunInv
  <2>2. c \in run[w].batch /\ c \in 1 .. length /\ s \in Streams /\ log[c].stream = s
    BY <2>1, CurrentIs DEF Typed
  <2>3. /\ Advance(w, s, Loaded(s)) /\ UNCHANGED <<store, at, holder, table, wiped, clearing>>
    BY <1>4 DEF Load, subscription
  <2> HIDE DEF s, c
  <2>4. /\ Loaded(s) \in Fold /\ Loaded(s).held /\ Loaded(s).dirty
        /\ \A i \in 1 .. length : log[i].stream = s => i <= Loaded(s).id
    <3>1. Head(s) # 0 /\ \A i \in 1 .. length : log[i].stream = s => i <= Head(s)
      BY <2>2, HeadIs DEF Typed
    <3>2. Loaded(s).id = Head(s) /\ Loaded(s).held /\ Loaded(s).dirty
      BY DEF Loaded
    <3> QED
      BY <2>2, <3>1, <3>2, FoldsTyped
  <2>5. PICK r : /\ run' = [run EXCEPT ![w] = r] /\ r.batch = run[w].batch \ {Current(w)}
                 /\ r.upto = run[w].upto /\ r.phase \in {"fold", "flush"}
                 /\ cache' = [cache EXCEPT ![w] = [cache[w] EXCEPT ![s] = Loaded(s)]]
    BY <2>1, <2>2, <2>3, <2>4, AdvanceIs
  <2>6. PICK g : /\ g = Loaded(s) /\ cache'[w][s] = g /\ run'[w] = r
                 /\ \A z \in Streams \ {s} : cache'[w][z] = cache[w][z]
                 /\ \A v \in Workers \ {w} : run'[v] = run[v] /\ cache'[v] = cache[v]
    BY <1>0, <2>2, <2>5
  <2>7. ASSUME NEW i \in 1 .. length, Safe(w, i) PROVE Safe(w, i)'
    <3>1. log[i].stream \in Streams /\ i \in Int
      BY <1>0 DEF Event
    <3>2. log' = log /\ table' = table /\ r.phase # "ack"
      BY <2>3, <2>5 DEF store
    <3>3. CASE log[i].stream = s
      <4>1. i <= g.id
        BY <2>4, <2>6, <3>3
      <4> QED
        BY <2>4, <2>6, <3>2, <3>3, <4>1 DEF Safe
    <3>4. CASE log[i].stream # s
      <4>1. i # c /\ cache'[w][log[i].stream] = cache[w][log[i].stream]
        BY <2>2, <2>6, <3>1, <3>4
      <4>2. \/ i <= table[log[i].stream].id \/ i \in run[w].batch
            \/ /\ cache[w][log[i].stream].held /\ cache[w][log[i].stream].dirty
               /\ i <= cache[w][log[i].stream].id
        BY <2>2, <2>7, <3>4 DEF Safe, c
      <4>3. i \in run[w].batch => i \in r.batch
        BY <2>5, <4>1 DEF c
      <4> QED
        BY <2>6, <3>2, <4>1, <4>2, <4>3 DEF Safe
    <3> QED
      BY <3>3, <3>4
  <2>8. Carrying(w)' => Carrying(w) /\ run'[w].upto = run[w].upto
    BY <2>1, <2>3, <2>5, <2>6 DEF Carrying
  <2>9. Grown
    BY <2>3, GrownTurn
  <2> QED
    BY <2>3, <2>6, <2>7, <2>8, <2>9, DurableTurn
<1>5. ASSUME NEW w \in Workers, FoldCold(w) PROVE DurableInv'
  <2> DEFINE s == StreamOf(w)
             now == run[w]
  <2>1. now.batch # {} /\ now.phase = "fold" /\ now \in Run
    BY <1>0, <1>5 DEF FoldCold, In, Typed, RunInv
  <2>2. s \in Streams /\ log[Current(w)].stream = s
    BY <2>1, CurrentIs DEF Typed
  <2>3. /\ cache' = [cache EXCEPT ![w] = [cache[w] EXCEPT ![s] = NoFold]]
        /\ UNCHANGED <<store, at, holder, table, wiped, clearing>>
    BY <1>5 DEF FoldCold, Keep, subscription
  <2>4. PICK r : /\ run' = [run EXCEPT ![w] = r] /\ r.batch = now.batch
                 /\ r.upto = now.upto /\ r.phase \in {"evict", "load"}
    <3>1. \/ \E v \in Streams : run' = [run EXCEPT ![w] = [now EXCEPT !.phase = "evict",
                                                                      !.victim = v]]
          \/ run' = [run EXCEPT ![w] = [now EXCEPT !.phase = "load"]]
      BY <1>0, <1>5 DEF FoldCold, Goto
    <3> HIDE DEF now
    <3>2. \A v \in Streams :
             LET r == [now EXCEPT !.phase = "evict", !.victim = v]
             IN  r.batch = now.batch /\ r.upto = now.upto /\ r.phase = "evict"
      BY <2>1 DEF Run
    <3>3. LET r == [now EXCEPT !.phase = "load"]
          IN  r.batch = now.batch /\ r.upto = now.upto /\ r.phase = "load"
      BY <2>1 DEF Run
    <3>4. CASE run' = [run EXCEPT ![w] = [now EXCEPT !.phase = "load"]]
      BY <3>3, <3>4
    <3>5. CASE \E v \in Streams : run' = [run EXCEPT ![w] = [now EXCEPT !.phase = "evict",
                                                                        !.victim = v]]
      BY <3>2, <3>5
    <3> QED
      BY <3>1, <3>4, <3>5
  <2> HIDE DEF s
  <2>5. /\ run'[w] = r /\ \A z \in Streams \ {s} : cache'[w][z] = cache[w][z]
        /\ \A v \in Workers \ {w} : run'[v] = run[v] /\ cache'[v] = cache[v]
    BY <1>0, <2>2, <2>3, <2>4
  <2>6. Current(w)' = Current(w)
    BY <2>4, <2>5 DEF Current, IsNext
  <2>7. ASSUME NEW i \in 1 .. length, Safe(w, i) PROVE Safe(w, i)'
    <3>1. log[i].stream \in Streams
      BY <1>0 DEF Event
    <3>2. log' = log /\ table' = table
      BY <2>3 DEF store
    <3>3. CASE log[i].stream = s
      BY <2>2, <2>4, <2>5, <2>6, <3>2, <3>3 DEF Safe
    <3>4. CASE log[i].stream # s
      <4>1. cache'[w][log[i].stream] = cache[w][log[i].stream]
        BY <2>5, <3>1, <3>4
      <4>2. \/ i <= table[log[i].stream].id \/ i \in run[w].batch
            \/ /\ cache[w][log[i].stream].held /\ cache[w][log[i].stream].dirty
               /\ i <= cache[w][log[i].stream].id
        BY <2>1, <2>7 DEF Safe
      <4> QED
        BY <2>4, <2>5, <3>2, <4>1, <4>2 DEF Safe
    <3> QED
      BY <3>3, <3>4
  <2>8. Carrying(w)' => Carrying(w) /\ run'[w].upto = run[w].upto
    BY <2>1, <2>3, <2>4, <2>5 DEF Carrying
  <2>9. Grown
    BY <2>3, GrownTurn
  <2> QED
    BY <2>3, <2>5, <2>7, <2>8, <2>9, DurableTurn
<1>6. ASSUME NEW w \in Workers, Evict(w) PROVE DurableInv'
  <2> DEFINE now == run[w]
             u == now.victim
             r == [now EXCEPT !.phase = "load", !.victim = Idle.victim]
  <2>1. now.batch # {} /\ now.phase = "evict" /\ now \in Run
    BY <1>0, <1>6 DEF Evict, In, Typed, RunInv
  <2>2. u \in Streams
    BY <2>1 DEF Run
  <2>3. /\ cache' = [cache EXCEPT ![w] = [cache[w] EXCEPT ![u] = NoFold]]
        /\ UNCHANGED <<store, at, holder, wiped, clearing>>
        /\ table' = Upsert(cache[w], Owed(w, u))
        /\ run' = [run EXCEPT ![w] = r]
    BY <1>0, <1>6 DEF Evict, Keep, subscription
  <2>4. r.batch = now.batch /\ r.upto = now.upto /\ r.phase = "load"
    <3> HIDE DEF now
    <3> QED
      BY <2>1 DEF Run
  <2> HIDE DEF r, u
  <2>5. PICK n : /\ n = r /\ run'[w] = n /\ n.batch = run[w].batch /\ n.phase = "load"
                 /\ n.upto = run[w].upto
                 /\ \A z \in Streams \ {u} : cache'[w][z] = cache[w][z]
                 /\ \A v \in Workers \ {w} : run'[v] = run[v] /\ cache'[v] = cache[v]
    BY <1>0, <2>2, <2>3, <2>4
  <2>6. Current(w)' = Current(w)
    BY <2>5 DEF Current, IsNext
  <2>7. Grown
    BY <2>3, GrownTurn
  <2>8. ASSUME NEW i \in 1 .. length, Safe(w, i) PROVE Safe(w, i)'
    <3>1. log[i].stream \in Streams /\ i \in Int
      BY <1>0 DEF Event
    <3>2. log' = log
      BY <2>3 DEF store
    <3>3. PICK q \in Streams : q = log[i].stream
      BY <3>1
    <3>4. /\ table[q].id \in Int /\ table'[q].id \in Int /\ table[q].id <= table'[q].id
          /\ cache[w][q].id \in Int
      <4>1. table[q] \in Row /\ table'[q] \in Row /\ cache[w][q] \in Fold
        BY <1>0 DEF Typed, TypeOK
      <4> QED
        BY <2>7, <4>1, ProjectionAssumption DEF Grown, Row, Fold, Position
    <3>5. CASE i <= table[q].id
      BY <3>1, <3>2, <3>3, <3>4, <3>5 DEF Safe
    <3>6. CASE i \in run[w].batch
      BY <2>5, <3>6 DEF Safe
    <3>7. CASE q = log[Current(w)].stream
      BY <2>5, <2>6, <3>2, <3>3, <3>7 DEF Safe
    <3>8. CASE cache[w][q].held /\ cache[w][q].dirty /\ i <= cache[w][q].id
      <4>1. CASE q = u
        <5>1. q \in Owed(w, u)
          BY <3>8, <4>1 DEF Owed, Dirty
        <5>2. cache[w][q].id <= table'[q].id
          BY <1>0, <2>3, <5>1, UpsertGrows DEF Typed
        <5> QED
          BY <3>1, <3>2, <3>3, <3>4, <3>8, <5>2 DEF Safe
      <4>2. CASE q # u
        BY <2>5, <3>2, <3>3, <3>8, <4>2 DEF Safe
      <4> QED
        BY <4>1, <4>2
    <3> QED
      BY <2>8, <3>3, <3>5, <3>6, <3>7, <3>8 DEF Safe
  <2>9. Carrying(w)' => Carrying(w) /\ run'[w].upto = run[w].upto
    BY <2>1, <2>3, <2>5 DEF Carrying
  <2> QED
    BY <2>3, <2>5, <2>7, <2>8, <2>9, DurableTurn
<1>7. ASSUME NEW w \in Workers, Flush(w) PROVE DurableInv'
  <2> DEFINE now == run[w]
             phase == IF now.batch = {} THEN "ack" ELSE "fold"
             r == [now EXCEPT !.since = 0, !.phase = phase]
  <2>1. now.phase = "flush" /\ now \in Run
    BY <1>0, <1>7 DEF Flush, In
  <2>2. /\ run' = [run EXCEPT ![w] = r] /\ UNCHANGED <<store, at, holder, wiped, clearing>>
        /\ table' = Upsert(cache[w], Dirty(w))
        /\ \A v \in Workers \ {w} : cache'[v] = cache[v]
    BY <1>0, <1>7 DEF Flush, Keep, subscription
  <2>3. /\ r.batch = now.batch /\ r.upto = now.upto
        /\ r.phase = IF now.batch = {} THEN "ack" ELSE "fold"
    <3> HIDE DEF now
    <3> QED
      BY <2>1 DEF Run
  <2> HIDE DEF r, phase
  <2>4. PICK n : /\ n = r /\ run'[w] = n /\ n.batch = run[w].batch /\ n.upto = run[w].upto
                 /\ n.phase = IF run[w].batch = {} THEN "ack" ELSE "fold"
                 /\ \A v \in Workers \ {w} : run'[v] = run[v]
    BY <1>0, <2>2, <2>3
  <2>5. Grown
    BY <2>2, GrownTurn
  <2>6. ASSUME NEW i \in 1 .. length, Safe(w, i) PROVE Safe(w, i)'
    <3>1. log[i].stream \in Streams /\ i \in Int /\ log' = log
      BY <1>0, <2>2 DEF Event, store
    <3>2. PICK q \in Streams : q = log[i].stream
      BY <3>1
    <3>3. /\ table[q].id \in Int /\ table'[q].id \in Int /\ table[q].id <= table'[q].id
          /\ cache[w][q].id \in Int
      <4>1. table[q] \in Row /\ table'[q] \in Row /\ cache[w][q] \in Fold
        BY <1>0 DEF Typed, TypeOK
      <4> QED
        BY <2>5, <4>1, ProjectionAssumption DEF Grown, Row, Fold, Position
    <3>4. CASE i <= table[q].id
      BY <3>1, <3>2, <3>3, <3>4 DEF Safe
    <3>5. CASE i \in run[w].batch
      BY <2>4, <3>5 DEF Safe
    <3>6. CASE cache[w][q].held /\ cache[w][q].dirty /\ i <= cache[w][q].id
      <4>1. q \in Dirty(w)
        BY <3>6 DEF Dirty
      <4>2. cache[w][q].id <= table'[q].id
        BY <1>0, <2>2, <4>1, UpsertGrows DEF Typed
      <4> QED
        BY <3>1, <3>2, <3>3, <3>6, <4>2 DEF Safe
    <3> QED
      BY <2>1, <2>6, <3>2, <3>4, <3>5, <3>6 DEF Safe
  <2>7. Carrying(w)' => Carrying(w) /\ run'[w].upto = run[w].upto
    BY <2>1, <2>2, <2>4 DEF Carrying
  <2> QED
    BY <2>2, <2>4, <2>5, <2>6, <2>7, DurableTurn
<1>8. ASSUME NEW w \in Workers, FlushFails(w) \/ LoadFails(w) \/ Crash(w) PROVE DurableInv'
  <2>1. /\ run' = [run EXCEPT ![w] = Idle] /\ UNCHANGED <<store, at, holder, wiped>>
        /\ clearing' \subseteq clearing /\ Idle.phase = "idle"
        /\ \A v \in Workers \ {w} : cache'[v] = cache[v]
    BY <1>0, <1>8, IdleIs DEF FlushFails, LoadFails, Crash, Keep, subscription
  <2>2. \A v \in Workers \ {w} : run'[v] = run[v] /\ cache'[v] = cache[v]
    BY <1>0, <2>1
  <2>3. ~Carrying(w)'
    BY <1>0, <2>1 DEF Carrying
  <2>4. Grown
    <3>1. \E S : UNCHANGED table \/ table' = Upsert(cache[w], S)
      BY <1>8 DEF FlushFails, LoadFails, Crash
    <3> QED
      BY <2>1, <3>1, GrownTurn
  <2> QED
    BY <2>1, <2>2, <2>3, <2>4, DurableTurn
<1>9. ASSUME NEW w \in Workers, Ack(w) PROVE DurableInv'
  <2>1. /\ run' = [run EXCEPT ![w] = Idle] /\ Idle.phase = "idle" /\ run[w].phase = "ack"
        /\ UNCHANGED <<store, table, cache, wiped, clearing>>
    BY <1>9, IdleIs DEF Ack, In
  <2>2. /\ \A v \in Workers \ {w} : run'[v] = run[v]
        /\ ~Carrying(w)'
    BY <1>0, <2>1 DEF Carrying
  <2>3. CASE holder = w
    <3>1. at' = run[w].upto /\ holder' = Nobody
      BY <1>9, <2>3 DEF Ack
    <3>2. ASSUME ~wiped, NEW i \in Delivered(0), i <= run[w].upto
          PROVE  i <= table[log[i].stream].id
      BY <2>1, <2>3, <3>2 DEF DurableInv, Carried, Carrying, Safe
    <3>3. Delivered(0)' = Delivered(0)
      BY <2>1 DEF Delivered, store
    <3>4. AckedIsDurable'
      BY <2>1, <3>1, <3>2, <3>3 DEF AckedIsDurable, store
    <3>5. \A v \in Workers : Carried(v)'
      BY <1>0, <3>1 DEF Carried, Carrying
    <3>6. holder' \notin clearing'
      BY <2>1, <3>1, ProjectionAssumption DEF Typed, TypeOK
    <3> QED
      BY <3>4, <3>5, <3>6 DEF DurableInv
  <2>4. CASE holder # w
    <3>1. UNCHANGED <<at, holder>>
      BY <1>9, <2>4 DEF Ack, subscription
    <3>2. Grown
      BY <2>1, GrownTurn
    <3> QED
      BY <2>1, <2>2, <3>1, <3>2, DurableTurn
  <2> QED
    BY <2>3, <2>4
<1>10. ASSUME NEW w \in Workers, Clear(w) PROVE DurableInv'
  <2>1. /\ w \in clearing /\ clearing' \subseteq clearing
        /\ UNCHANGED <<store, at, holder, table, run, wiped>>
        /\ \A v \in Workers \ {w} : run'[v] = run[v] /\ cache'[v] = cache[v]
    BY <1>0, <1>10 DEF Clear, Keep, subscription
  <2>2. ~Carrying(w)'
    BY <2>1 DEF DurableInv, Carrying
  <2>3. Grown
    BY <2>1, GrownTurn
  <2> QED
    BY <2>1, <2>2, <2>3, DurableTurn
<1>11. ASSUME NEW w \in Workers, Reset(w) PROVE DurableInv'
  <2>1. at' = 0 /\ holder' = Nobody /\ clearing' \subseteq Workers
    BY <1>11 DEF Reset, Typed, TypeOK
  <2>2. AckedIsDurable'
    BY <2>1 DEF AckedIsDurable, Delivered
  <2>3. \A v \in Workers : Carried(v)'
    BY <1>0, <2>1 DEF Carried, Carrying
  <2>4. holder' \notin clearing'
    BY <2>1, ProjectionAssumption
  <2> QED
    BY <2>2, <2>3, <2>4 DEF DurableInv
<1>12. ASSUME Wipe PROVE DurableInv'
  <2>1. wiped' /\ UNCHANGED <<holder, clearing>>
    BY <1>12 DEF Wipe, subscription
  <2> QED
    BY <2>1 DEF DurableInv, AckedIsDurable, Carried, Carrying
<1>13. ASSUME Overrun \/ Lapse \/ UNCHANGED vars PROVE DurableInv'
  <2>1. /\ UNCHANGED <<store, at, table, cache, run, wiped, clearing>>
        /\ holder' \in {holder, Nobody}
    BY <1>13 DEF Overrun, Lapse, vars, subscription
  <2>2. Grown
    <3>1. \A s \in Streams : table[s].id \in Int
      <4>1. \A s \in Streams : table[s] \in Row
        BY DEF Typed, TypeOK
      <4> QED
        BY <4>1, ProjectionAssumption DEF Row, Position
    <3> QED
      BY <1>0, <2>1, <3>1 DEF Grown, store
  <2> QED
    BY <2>1, <2>2, DurableTurn
<1>14. CASE \E w \in Workers : Cycle(w)
  BY <1>2, <1>3, <1>4, <1>5, <1>6, <1>7, <1>9, <1>14 DEF Cycle
<1> QED
  BY <1>1, <1>8, <1>10, <1>11, <1>12, <1>13, <1>14 DEF Next

LEMMA DurableInit == Init => DurableInv
<1> SUFFICES ASSUME Init PROVE DurableInv
  OBVIOUS
<1>1. \A i \in Delivered(0) : ~(i <= at)
  BY DEF Init, Delivered
<1>2. \A w \in Workers : ~Carrying(w)
  BY IdleIs DEF Init, Carrying
<1> QED
  BY <1>1, <1>2 DEF Init, DurableInv, AckedIsDurable, Carried

\* Where an instance starts no cycle between the store's reset of the watermark
\* and its answer, no event at or below the watermark is missing from the table:
\* not through evictions, failed flushes and loads, lost leases, crashes,
\* restarted streams or the rebuild itself, once the watermark is reset.
THEOREM DurableCorrect == ASSUME ~LateClear PROVE Spec => []AckedIsDurable
<1>1. Typed /\ DurableInv /\ [Next]_vars => (Typed /\ DurableInv)'
  BY TypedStep, DurableStep
<1>2. Init => Typed /\ DurableInv
  BY TypedInit, DurableInit
<1>3. DurableInv => AckedIsDurable
  BY DEF DurableInv
<1> QED
  BY <1>1, <1>2, <1>3, PTL DEF Spec

=============================================================================
