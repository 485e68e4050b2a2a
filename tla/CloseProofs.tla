----------------------------- MODULE CloseProofs -----------------------------
(***************************************************************************)
(* EventSourcing and CloseCycle, for any calls, caches, options, closers   *)
(* and bounds.  First the calls on a stream nobody closes: types, the      *)
(* integrity of caches and snapshots, and that an action is appended only  *)
(* to the state it decided on.  Then closes, with at most one closer that  *)
(* runs full ones, kept from the race with a commit in flight, and any     *)
(* number that prune: the guard holds the head, loads return the whole     *)
(* history across restarts and prunes, nothing is removed before it is     *)
(* archived or while a reaction is owed.                                   *)
(***************************************************************************)
EXTENDS CloseCycle, NatSets

USE DEF Ids, Position

-----------------------------------------------------------------------------
(* The inductive invariant.                                                *)

\* Ids and versions grow together, no id is ahead of n, no version ahead of
\* its id, and W holds the ids of the domain events.
LogSound(L, n, W) ==
    /\ \A e \in L : e.id < n /\ e.version <= e.id /\ e.name # TOMBSTONE_EVENT
    /\ \A e, f \in L : e.id < f.id => e.version < f.version
    /\ \A e, f \in L : e.id = f.id => e = f
    /\ W = IdsOf(Domain(L))

Below(W, id) == {i \in W : i <= id}

\* f is the fold of L up to one of its events, or of nothing.
Sits(L, W, f) ==
    /\ f.state = Below(W, f.id)
    /\ \/ f.id = -1 /\ f.version = -1
       \/ \E e \in L : e.id = f.id /\ e.version = f.version

SnapsSound(L, W) == \A e \in L : e.name = SNAP_EVENT => e.state = Below(W, e.id)

\* The version a caller pinned existed when it called, and what the call has
\* loaded is not older.
PinSound(cl, head) ==
    cl.kind = "pinned" =>
        /\ cl.pin >= 0
        /\ cl.at \in {"reload", "query"} => cl.pin <= head
        /\ cl.at \in {"fill", "commit"} => cl.pin <= cl.got.version

Sound ==
    /\ TypeOK
    /\ LogSound(log, nextId, written)
    /\ SnapsSound(log, written)
    /\ \A k \in Caches : Sits(log, written, cache[k])
    /\ \A c \in Calls : Sits(log, written, call[c].got)
    /\ \A c \in Calls : PinSound(call[c], HeadVersion)

-----------------------------------------------------------------------------
(* Reading the stream.                                                     *)

\* Latest is one of the events, and none has a higher id.
LEMMA LatestIs ==
    ASSUME NEW E \in SUBSET Event, E # {}
    PROVE  Latest(E) \in E /\ \A f \in E : f.id <= Latest(E).id
<1>1. IdsOf(E) \in SUBSET Nat /\ IdsOf(E) # {} /\ \A i \in IdsOf(E) : i <= MaxId
  BY SourcingAssumption DEF IdsOf, Event
<1>2. PICK m \in IdsOf(E) : \A i \in IdsOf(E) : i <= m
  BY <1>1, SourcingAssumption, GreatestNat
<1>3. \E e \in E : \A f \in E : f.id <= e.id
  BY <1>2 DEF IdsOf
<1> QED
  BY <1>3 DEF Latest

\* The head version bounds every version of the log and is the version of
\* the last event.
LEMMA HeadIs ==
    ASSUME log \in SUBSET Event, LogSound(log, nextId, written), nextId \in Nat
    PROVE  /\ HeadVersion \in Position /\ HeadVersion < nextId
           /\ \A e \in log : e.version <= HeadVersion
           /\ \A e \in log : e.version = HeadVersion => \A f \in log : f.id <= e.id
           /\ log = {} => HeadVersion = -1
<1>1. CASE log = {}
  BY <1>1, SourcingAssumption DEF HeadVersion
<1>2. CASE log # {}
  <2> DEFINE top == Latest(log)
  <2>1. top \in log /\ \A f \in log : f.id <= top.id
    BY <1>2, LatestIs
  <2>2. HeadVersion = top.version
    BY <1>2 DEF HeadVersion
  <2>3. \A e \in log : e.id \in Int /\ e.version \in Int
    BY SourcingAssumption DEF Event
  <2>4. \A e \in log : e.id < top.id \/ e = top
    BY <2>1, <2>3 DEF LogSound
  <2>5. \A e \in log : e.id < top.id => e.version < top.version
    BY <2>1 DEF LogSound
  <2>6. top \in Event
    BY <2>1
  <2>7. top.version \in Position /\ top.version < nextId
    BY <2>1, <2>3, <2>6 DEF LogSound, Event
  <2> QED
    BY <1>2, <2>1, <2>2, <2>3, <2>4, <2>5, <2>7
<1> QED
  BY <1>1, <1>2

\* A state whose version is the head's is the fold of everything.
LEMMA AtHead ==
    ASSUME log \in SUBSET Event, LogSound(log, nextId, written), nextId \in Nat,
           NEW f \in Folded, Sits(log, written, f), f.version = HeadVersion
    PROVE  f.state = written
<1>1. \A e \in log : e.id \in Int /\ e.version \in Nat
  BY SourcingAssumption DEF Event
<1>2. \A i \in written : \E e \in log : e.id = i
  BY DEF LogSound, IdsOf, Domain
<1>3. \A i \in written : i <= f.id
  <2>1. CASE f.id = -1 /\ f.version = -1
    <3>1. log = {}
      BY <1>1, <2>1, HeadIs
    <3> QED
      BY <1>2, <3>1
  <2>2. CASE \E e \in log : e.id = f.id /\ e.version = f.version
    BY <1>1, <1>2, <2>2, HeadIs
  <2> QED
    BY <2>1, <2>2 DEF Sits
<1> QED
  BY <1>3 DEF Sits, Below

\* Nothing above a checkpoint: it is at the head.
LEMMA NothingAbove ==
    ASSUME log \in SUBSET Event, LogSound(log, nextId, written), nextId \in Nat,
           NEW f \in Folded, Sits(log, written, f), Above(f) = {}
    PROVE  f.version = HeadVersion
<1>1. \A e \in log : e.id \in Nat /\ e.version \in Int /\ e.id <= f.id
  BY SourcingAssumption DEF Event, Above, Folded
<1>2. CASE f.id = -1 /\ f.version = -1
  <2>1. log = {}
    BY <1>1, <1>2
  <2> QED
    BY <1>2, <2>1, HeadIs
<1>3. CASE \E e \in log : e.id = f.id /\ e.version = f.version
  <2>1. PICK e \in log : e.id = f.id /\ e.version = f.version
    BY <1>3
  <2>2. Latest(log) \in log /\ \A g \in log : g.id <= Latest(log).id
    BY <2>1, LatestIs
  <2>3. Latest(log) = e
    BY <1>1, <2>1, <2>2 DEF LogSound
  <2> QED
    BY <2>1, <2>3 DEF HeadVersion
<1> QED
  BY <1>2, <1>3 DEF Sits

\* The fold from any sound checkpoint is the whole history: with a snapshot
\* above it because the snapshot is sound, without one because the checkpoint
\* is.
LEMMA FoldIs ==
    ASSUME log \in SUBSET Event, LogSound(log, nextId, written),
           SnapsSound(log, written),
           NEW f \in Folded, Sits(log, written, f)
    PROVE  Fold(f.state, Above(f)) = written
<1> DEFINE snaps == {e \in Above(f) : e.name = SNAP_EVENT}
<1>1. \A e \in log : e.id \in Int
  BY SourcingAssumption DEF Event
<1>2. f.id \in Int
  BY SourcingAssumption DEF Folded
<1>3. written = {e.id : e \in {d \in log : d.name \in Names}}
  BY DEF LogSound, IdsOf, Domain
<1>4. CASE snaps = {}
  <2>1. Fold(f.state, Above(f)) = f.state \cup IdsOf(Domain(Above(f)))
    BY <1>4 DEF Fold
  <2>2. f.state = {i \in written : i <= f.id}
    BY DEF Sits, Below
  <2>3. IdsOf(Domain(Above(f))) = {i \in written : i > f.id}
    BY <1>3 DEF IdsOf, Domain, Above
  <2>4. \A i \in written : i \in Int
    BY <1>1, <1>3
  <2>5. \A i \in written : i <= f.id \/ i > f.id
    BY <1>2, <2>4
  <2> QED
    BY <2>1, <2>2, <2>3, <2>5
<1>5. CASE snaps # {}
  <2> DEFINE base == Latest(snaps)
  <2>1. base \in snaps
    <3>1. snaps \in SUBSET Event
      BY DEF Above
    <3> QED
      BY <1>5, <3>1, LatestIs
  <2>2. base \in log /\ base.id > f.id /\ base.name = SNAP_EVENT
    BY <2>1 DEF Above
  <2>3. base.state = {i \in written : i <= base.id}
    BY <2>2 DEF SnapsSound, Below
  <2>4. Fold(f.state, Above(f)) =
            base.state \cup IdsOf({e \in Domain(Above(f)) : e.id > base.id})
    BY <1>5 DEF Fold
  <2>5. \A e \in log : e.id > base.id => e.id > f.id
    BY <1>1, <1>2, <2>2
  <2>6. IdsOf({e \in Domain(Above(f)) : e.id > base.id}) = {i \in written : i > base.id}
    BY <1>3, <2>5 DEF IdsOf, Domain, Above
  <2>7. \A i \in written : i <= base.id \/ i > base.id
    BY <1>1, <1>3, <2>2
  <2> QED
    BY <2>3, <2>4, <2>6, <2>7
<1> QED
  BY <1>4, <1>5

\* What load returns is the state at the head.
LEMMA LoadIs ==
    ASSUME log \in SUBSET Event, LogSound(log, nextId, written), nextId \in Nat,
           SnapsSound(log, written),
           NEW f \in Folded, Sits(log, written, f)
    PROVE  /\ Load(f) \in Folded /\ Sits(log, written, Load(f))
           /\ Load(f).version = HeadVersion /\ Load(f).state = written
<1>1. CASE Above(f) = {}
  <2>1. Load(f) = f
    BY <1>1 DEF Load
  <2> QED
    BY <1>1, <2>1, NothingAbove, AtHead
<1>2. CASE Above(f) # {}
  <2> DEFINE top == Latest(Above(f))
  <2>1. Above(f) \in SUBSET Event /\ Above(f) \in SUBSET log
    BY DEF Above
  <2>2. top \in log /\ top \in Event /\ \A e \in Above(f) : e.id <= top.id
    BY <1>2, <2>1, LatestIs
  <2>3. \A e \in log : e.id <= top.id
    <3>1. top.id > f.id /\ f.id \in Int /\ \A e \in log : e.id \in Int
      BY <1>2, <2>1, LatestIs, SourcingAssumption DEF Above, Event, Folded
    <3> QED
      BY <2>2, <3>1 DEF Above
  <2>4. Load(f) = [state |-> written, version |-> top.version, id |-> top.id]
    BY <1>2, FoldIs DEF Load
  <2>5. written \in SUBSET Ids /\ written = Below(written, top.id)
    <3>1. written = {e.id : e \in {d \in log : d.name \in Names}}
      BY DEF LogSound, IdsOf, Domain
    <3>2. \A e \in log : e.id \in Ids
      BY DEF Event
    <3> QED
      BY <2>3, <3>1, <3>2 DEF Below
  <2>6. Load(f) \in Folded
    BY <2>2, <2>4, <2>5, SourcingAssumption DEF Folded, Event
  <2>7. Latest(log) = top
    <3>1. Latest(log) \in log /\ \A e \in log : e.id <= Latest(log).id
      BY <2>2, LatestIs
    <3>2. \A e \in log : e.id \in Int
      BY SourcingAssumption DEF Event
    <3> QED
      BY <2>2, <2>3, <3>1, <3>2 DEF LogSound
  <2>8. Load(f).version = HeadVersion
    BY <2>2, <2>4, <2>7 DEF HeadVersion
  <2>9. Sits(log, written, Load(f))
    BY <2>2, <2>4, <2>5 DEF Sits
  <2> QED
    BY <2>4, <2>6, <2>8, <2>9
<1> QED
  BY <1>1, <1>2

-----------------------------------------------------------------------------
(* Appending to the stream.                                                *)

\* Rows that continue ids and versions keep the log sound.
LEMMA AppendSound ==
    ASSUME NEW L \in SUBSET Event, NEW n \in Nat, NEW W, LogSound(L, n, W),
           NEW R \in SUBSET Event, NEW m \in Nat, n <= m,
           NEW h \in Int, h < n, \A e \in L : e.version <= h,
           \A e \in R : n <= e.id /\ e.id < m /\ e.version = e.id - n + h + 1,
           \A e \in R : e.name # TOMBSTONE_EVENT,
           \A e, f \in R : e.id = f.id => e = f
    PROVE  LogSound(L \cup R, m, W \cup IdsOf(Domain(R)))
<1>1. \A e \in L \cup R : e.id \in Int /\ e.version \in Int
  BY SourcingAssumption DEF Event
<1>2. \A e \in L \cup R : e.id < m /\ e.version <= e.id /\ e.name # TOMBSTONE_EVENT
  BY <1>1 DEF LogSound
<1>3. ASSUME NEW e \in L \cup R, NEW f \in L \cup R, e.id < f.id
      PROVE  e.version < f.version
  <2>1. CASE e \in L /\ f \in L
    BY <1>3, <2>1 DEF LogSound
  <2>2. CASE e \in L /\ f \in R
    BY <1>1, <1>3, <2>2
  <2>3. CASE e \in R /\ f \in L
    BY <1>1, <1>3, <2>3 DEF LogSound
  <2>4. CASE e \in R /\ f \in R
    BY <1>1, <1>3, <2>4
  <2> QED
    BY <2>1, <2>2, <2>3, <2>4
<1>4. ASSUME NEW e \in L \cup R, NEW f \in L \cup R, e.id = f.id
      PROVE  e = f
  <2>1. CASE e \in L /\ f \in L
    BY <1>4, <2>1 DEF LogSound
  <2>2. CASE e \in R /\ f \in R
    BY <1>4, <2>2
  <2>3. CASE (e \in L /\ f \in R) \/ (e \in R /\ f \in L)
    BY <1>1, <1>4, <2>3 DEF LogSound
  <2> QED
    BY <2>1, <2>2, <2>3
<1>5. W \cup IdsOf(Domain(R)) = IdsOf(Domain(L \cup R))
  BY DEF LogSound, IdsOf, Domain
<1> QED
  BY <1>2, <1>3, <1>4, <1>5 DEF LogSound

\* A fold is not touched by what is appended behind it.
LEMMA SitsStill ==
    ASSUME NEW L \in SUBSET Event, NEW n \in Nat, NEW W, LogSound(L, n, W),
           NEW R, NEW A \in SUBSET Nat, \A i \in A : n <= i,
           NEW f \in Folded, Sits(L, W, f)
    PROVE  Sits(L \cup R, W \cup A, f)
<1>1. f.id < n /\ f.id \in Int
  BY SourcingAssumption DEF Sits, LogSound, Folded
<1>2. \A i \in A : ~(i <= f.id)
  BY <1>1
<1>3. Below(W \cup A, f.id) = Below(W, f.id)
  BY <1>2 DEF Below
<1>4. f.state = Below(W \cup A, f.id)
  BY <1>3 DEF Sits
<1> QED
  BY <1>4 DEF Sits

\* Neither is a snapshot.
LEMMA SnapsStill ==
    ASSUME NEW L \in SUBSET Event, NEW n \in Nat, NEW W, LogSound(L, n, W),
           SnapsSound(L, W), NEW A \in SUBSET Nat, \A i \in A : n <= i,
           NEW R, \A e \in R : e.name = SNAP_EVENT => e.state = Below(W \cup A, e.id)
    PROVE  SnapsSound(L \cup R, W \cup A)
<1>1. \A e \in L : e.id \in Int /\ e.id < n
  BY SourcingAssumption DEF Event, LogSound
<1>2. ASSUME NEW e \in L PROVE Below(W \cup A, e.id) = Below(W, e.id)
  <2>1. \A i \in A : ~(i <= e.id)
    BY <1>1
  <2> QED
    BY <2>1 DEF Below
<1> QED
  BY <1>2 DEF SnapsSound

\* Everything Sound says of the log survives an append of rows R with domain
\* events A, and the head does not go back.
LEMMA Appended ==
    ASSUME Sound, NEW R \in SUBSET Event, NEW A,
           log' = log \cup R, written' = written \cup A, A = IdsOf(Domain(R)),
           nextId' \in 0 .. MaxId + 1, nextId <= nextId',
           \A e \in R : /\ nextId <= e.id /\ e.id < nextId'
                        /\ e.version = e.id - nextId + HeadVersion + 1
                        /\ e.name # TOMBSTONE_EVENT,
           \A e, f \in R : e.id = f.id => e = f,
           \A e \in R : e.name = SNAP_EVENT => e.state = Below(written \cup A, e.id)
    PROVE  /\ log' \subseteq Event /\ written' \subseteq Ids
           /\ LogSound(log', nextId', written') /\ SnapsSound(log', written')
           /\ HeadVersion' \in Int /\ HeadVersion <= HeadVersion'
           /\ \A f \in Folded : Sits(log, written, f) => Sits(log', written', f)
<1>1. /\ log \in SUBSET Event /\ nextId \in Nat /\ nextId' \in Nat
      /\ LogSound(log, nextId, written) /\ SnapsSound(log, written)
  BY SourcingAssumption DEF Sound, TypeOK
<1>2. /\ HeadVersion \in Int /\ HeadVersion < nextId
      /\ \A e \in log : e.version <= HeadVersion
  BY <1>1, HeadIs, SourcingAssumption
<1>3. LogSound(log', nextId', written')
  BY <1>1, <1>2, AppendSound
<1>4. A \in SUBSET Ids /\ A \in SUBSET Nat /\ \A i \in A : nextId <= i
  BY SourcingAssumption DEF IdsOf, Domain, Event
<1>5. SnapsSound(log', written')
  BY <1>1, <1>4, SnapsStill
<1>6. \A f \in Folded : Sits(log, written, f) => Sits(log', written', f)
  BY <1>1, <1>4, SitsStill
<1>7. HeadVersion' \in Int /\ HeadVersion <= HeadVersion'
  <2>1. log' \in SUBSET Event
    BY <1>1
  <2>2. /\ HeadVersion' \in Position
        /\ \A e \in log' : e.version <= HeadVersion'
    <3>1. ASSUME log' = {} PROVE HeadVersion' = -1
      BY <3>1 DEF HeadVersion
    <3>2. ASSUME log' # {} PROVE HeadVersion' = Latest(log').version
      BY <3>2 DEF HeadVersion
    <3>3. ASSUME log' # {}
          PROVE  Latest(log') \in log' /\ \A f \in log' : f.id <= Latest(log').id
      BY <2>1, <3>3, LatestIs
    <3>4. \A e \in log' : e.id \in Int /\ e.version \in Ids
      BY <2>1, SourcingAssumption DEF Event
    <3>5. ASSUME NEW e \in log' PROVE e.version <= HeadVersion'
      <4> DEFINE top == Latest(log')
      <4>1. top \in log' /\ e.id <= top.id /\ HeadVersion' = top.version
        BY <3>2, <3>3
      <4>2. e.id < top.id \/ e = top
        BY <1>3, <3>4, <4>1 DEF LogSound
      <4> QED
        BY <1>3, <3>4, <4>1, <4>2, SourcingAssumption DEF LogSound
    <3> QED
      BY <3>1, <3>2, <3>3, <3>4, <3>5
  <2>3. CASE log = {}
    BY <1>1, <2>2, <2>3, HeadIs, SourcingAssumption
  <2>4. CASE log # {}
    <3>1. Latest(log) \in log'
      BY <1>1, <2>4, LatestIs
    <3>2. HeadVersion = Latest(log).version
      BY <2>4 DEF HeadVersion
    <3>3. HeadVersion <= HeadVersion'
      BY <2>2, <3>1, <3>2
    <3> QED
      BY <2>2, <3>3, SourcingAssumption
  <2> QED
    BY <2>3, <2>4
<1> QED
  BY <1>1, <1>3, <1>4, <1>5, <1>6, <1>7 DEF Sound, TypeOK

-----------------------------------------------------------------------------
(* The parts of a step.                                                    *)

LEMMA NothingSits ==
    ASSUME NEW L, NEW W \in SUBSET Ids
    PROVE  Nothing \in Folded /\ Sits(L, W, Nothing)
<1>1. \A i \in W : ~(i <= -1)
  BY SourcingAssumption
<1>2. Below(W, -1) = {}
  BY <1>1 DEF Below
<1> QED
  BY <1>2 DEF Sits, Nothing, Folded

LEMMA UpdateIs ==
    ASSUME call \in [Calls -> Call], NEW c \in Calls,
           NEW at \in Phases, NEW got \in Folded, Update(c, at, got)
    PROVE  /\ call' \in [Calls -> Call]
           /\ \A d \in Calls \ {c} : call'[d] = call[d]
           /\ call'[c].at = at /\ call'[c].got = got
           /\ call'[c].kind = call[c].kind /\ call'[c].pin = call[c].pin
  BY DEF Update, Call

LEMMA IdleIs == Idle \in Call /\ Idle.kind = "load" /\ Idle.got = Nothing
<1>1. Nothing \in Folded
  BY NothingSits
<1> QED
  BY <1>1, SourcingAssumption DEF Idle, Call, Phases, CallKinds

LEMMA EndIs ==
    ASSUME call \in [Calls -> Call], NEW c \in Calls, End(c)
    PROVE  /\ call' \in [Calls -> Call]
           /\ \A d \in Calls \ {c} : call'[d] = call[d]
           /\ call'[c].kind = "load" /\ call'[c].got = Nothing
  BY IdleIs DEF End

LEMMA RememberIs ==
    ASSUME cache \in [Caches -> Folded], NEW k \in Caches, NEW entry \in Folded,
           Remember(k, entry)
    PROVE  /\ cache' \in [Caches -> Folded]
           /\ \A j \in Caches : cache'[j] \in {cache[j], entry}
  BY DEF Remember

\* A step that appends nothing keeps Sound when the caches and the call it
\* moves do.
LEMMA Quiet ==
    ASSUME Sound, UNCHANGED <<log, nextId, written>>,
           cache' \in [Caches -> Folded],
           \A k \in Caches : Sits(log, written, cache'[k]),
           call' \in [Calls -> Call], NEW c,
           \A d \in Calls \ {c} : call'[d] = call[d],
           c \in Calls => /\ Sits(log, written, call'[c].got)
                         /\ PinSound(call'[c], HeadVersion)
    PROVE  Sound'
<1>1. HeadVersion' = HeadVersion
  BY DEF HeadVersion
<1>2. \A d \in Calls : Sits(log, written, call'[d].got) /\ PinSound(call'[d], HeadVersion)
  BY DEF Sound
<1>3. TypeOK'
  BY DEF Sound, TypeOK
<1>4. LogSound(log, nextId, written)' /\ SnapsSound(log, written)'
  BY DEF Sound
<1> QED
  BY <1>1, <1>2, <1>3, <1>4 DEF Sound

-----------------------------------------------------------------------------
(* One lemma for each action.                                              *)

LEMMA InitSound == Init => Sound
<1> SUFFICES ASSUME Init PROVE Sound
  OBVIOUS
<1>1. Nothing \in Folded /\ Sits(log, written, Nothing)
  BY NothingSits DEF Init
<1>2. TypeOK
  BY <1>1, IdleIs, SourcingAssumption DEF Init, TypeOK
<1>3. LogSound(log, nextId, written) /\ SnapsSound(log, written)
  BY DEF Init, LogSound, SnapsSound, IdsOf, Domain
<1>4. \A c \in Calls : PinSound(call[c], HeadVersion) /\ call[c].got = Nothing
  BY IdleIs DEF Init, PinSound
<1> QED
  BY <1>1, <1>2, <1>3, <1>4 DEF Init, Sound

\* What every step may assume.
LEMMA SoundHas ==
    ASSUME Sound
    PROVE  /\ log \in SUBSET Event /\ nextId \in Nat /\ written \in SUBSET Ids
           /\ cache \in [Caches -> Folded] /\ call \in [Calls -> Call]
           /\ LogSound(log, nextId, written) /\ SnapsSound(log, written)
           /\ HeadVersion \in Position /\ HeadVersion < nextId
           /\ Nothing \in Folded /\ Sits(log, written, Nothing)
<1>1. /\ log \in SUBSET Event /\ nextId \in Nat /\ written \in SUBSET Ids
      /\ cache \in [Caches -> Folded] /\ call \in [Calls -> Call]
      /\ LogSound(log, nextId, written) /\ SnapsSound(log, written)
  BY SourcingAssumption DEF Sound, TypeOK
<1> QED
  BY <1>1, HeadIs, NothingSits

LEMMA EndSound ==
    ASSUME Sound, NEW c \in Calls, End(c), UNCHANGED <<log, nextId, written>>,
           cache' \in [Caches -> Folded],
           \A k \in Caches : Sits(log, written, cache'[k])
    PROVE  Sound'
  BY SoundHas, EndIs, Quiet DEF PinSound

LEMMA BeginSound ==
    ASSUME Sound, NEW c \in Calls, NEW kind \in Kinds[c], Begin(c, kind)
    PROVE  Sound'
<1>1. PICK pin \in IF kind = "pinned" THEN 0 .. HeadVersion ELSE {-1} :
         call' = [call EXCEPT ![c] = [at |-> "query", kind |-> kind,
                                      got |-> cache[CacheOf[c]], pin |-> pin, tries |-> 0]]
  BY DEF Begin
<1>2. pin \in Position /\ (kind = "pinned" => pin >= 0 /\ pin <= HeadVersion)
  BY SoundHas, SourcingAssumption
<1>3. cache[CacheOf[c]] \in Folded /\ Sits(log, written, cache[CacheOf[c]])
  BY SoundHas, SourcingAssumption DEF Sound
<1>4. kind \in CallKinds
  BY SourcingAssumption
<1>5. [at |-> "query", kind |-> kind, got |-> cache[CacheOf[c]], pin |-> pin, tries |-> 0]
         \in Call
  BY <1>2, <1>3, <1>4, SourcingAssumption DEF Call, Phases
<1>6. call' \in [Calls -> Call] /\ \A d \in Calls \ {c} : call'[d] = call[d]
  BY <1>1, <1>5, SoundHas
<1>7. Sits(log, written, call'[c].got) /\ PinSound(call'[c], HeadVersion)
  BY <1>1, <1>2, <1>3, SoundHas DEF PinSound
<1> QED
  BY <1>6, <1>7, SoundHas, Quiet DEF Begin, Sound

LEMMA ReloadSound ==
    ASSUME Sound, NEW c \in Calls, Reload(c)
    PROVE  Sound'
<1>1. cache[CacheOf[c]] \in Folded /\ Sits(log, written, cache[CacheOf[c]])
  BY SoundHas, SourcingAssumption DEF Sound
<1>2. /\ call' \in [Calls -> Call] /\ \A d \in Calls \ {c} : call'[d] = call[d]
      /\ call'[c].at = "query" /\ call'[c].got = cache[CacheOf[c]]
      /\ call'[c].kind = call[c].kind /\ call'[c].pin = call[c].pin
  BY <1>1, SoundHas, UpdateIs DEF Reload, Phases
<1>3. PinSound(call[c], HeadVersion) /\ call[c].at = "reload"
  BY DEF Reload, Sound
<1>4. PinSound(call'[c], HeadVersion)
  BY <1>2, <1>3 DEF PinSound
<1> QED
  BY <1>1, <1>2, <1>4, SoundHas, Quiet DEF Reload, Sound

\* What a call does with a state it loaded.
LEMMA LoadedSound ==
    ASSUME Sound, NEW c \in Calls, NEW got \in Folded, Sits(log, written, got),
           NEW at \in {"fill", "commit"},
           Update(c, at, got) \/ (at = "commit" /\ Loaded(c, got)),
           call[c].kind = "pinned" => call[c].pin >= 0 /\ call[c].pin <= got.version,
           UNCHANGED <<log, nextId, written>>,
           cache' \in [Caches -> Folded],
           \A k \in Caches : Sits(log, written, cache'[k])
    PROVE  Sound'
<1>1. CASE End(c)
  BY <1>1, EndSound
<1>2. CASE Update(c, at, got)
  <2>1. at \in Phases /\ at \notin {"reload", "query"}
    BY DEF Phases
  <2>2. /\ call' \in [Calls -> Call] /\ \A d \in Calls \ {c} : call'[d] = call[d]
        /\ call'[c].at = at /\ call'[c].got = got
        /\ call'[c].kind = call[c].kind /\ call'[c].pin = call[c].pin
    BY <1>2, <2>1, SoundHas, UpdateIs
  <2>3. PinSound(call'[c], HeadVersion)
    BY <2>1, <2>2 DEF PinSound
  <2> QED
    BY <2>2, <2>3, Quiet
<1> QED
  BY <1>1, <1>2 DEF Loaded

LEMMA QuerySound ==
    ASSUME Sound, NEW c \in Calls, Query(c)
    PROVE  Sound'
<1> DEFINE base == call[c].got
           got == Load(base)
<1>1. base \in Folded /\ Sits(log, written, base)
  BY SoundHas DEF Sound, Call
<1>2. got \in Folded /\ Sits(log, written, got) /\ got.version = HeadVersion
  BY <1>1, SoundHas, LoadIs
<1>3. call[c].kind = "pinned" => call[c].pin >= 0 /\ call[c].pin <= got.version
  BY <1>2 DEF Query, Sound, PinSound
<1>4. /\ UNCHANGED <<log, nextId, written>> /\ cache' \in [Caches -> Folded]
      /\ \A k \in Caches : Sits(log, written, cache'[k])
  BY SoundHas DEF Query, Sound
<1>5. Update(c, "fill", got) \/ End(c) \/ Loaded(c, got)
  BY DEF Query
<1> QED
  BY <1>2, <1>3, <1>4, <1>5, LoadedSound, EndSound

LEMMA FillSound ==
    ASSUME Sound, NEW c \in Calls, Fill(c)
    PROVE  Sound'
<1> DEFINE got == call[c].got
<1>1. got \in Folded /\ Sits(log, written, got)
  BY SoundHas DEF Sound, Call
<1>2. call[c].kind = "pinned" => call[c].pin >= 0 /\ call[c].pin <= got.version
  BY DEF Fill, Sound, PinSound
<1>3. /\ cache' \in [Caches -> Folded]
      /\ \A k \in Caches : cache'[k] \in {cache[k], got}
  BY <1>1, SoundHas, RememberIs, SourcingAssumption DEF Fill
<1>4. \A k \in Caches : Sits(log, written, cache'[k])
  BY <1>1, <1>3 DEF Sound
<1> QED
  BY <1>1, <1>2, <1>3, <1>4, LoadedSound DEF Fill

LEMMA ForgetIs ==
    ASSUME Sound, NEW k \in Caches, Forget(k)
    PROVE  /\ cache' \in [Caches -> Folded]
           /\ \A j \in Caches : cache'[j] \in {cache[j], Nothing}
  BY SoundHas, RememberIs DEF Forget

LEMMA ConflictSound ==
    ASSUME Sound, NEW c \in Calls, Conflict(c)
    PROVE  Sound'
<1>1. /\ cache' \in [Caches -> Folded]
      /\ \A k \in Caches : cache'[k] \in {cache[k], Nothing}
  BY ForgetIs, SourcingAssumption DEF Conflict
<1>2. \A k \in Caches : Sits(log, written, cache'[k])
  BY <1>1, SoundHas DEF Sound
<1>3. CASE End(c)
  BY <1>1, <1>2, <1>3, EndSound DEF Conflict
<1>4. CASE ~GivesUp(call[c]) /\
           call' = [call EXCEPT ![c].at = "reload", ![c].got = Nothing, ![c].tries = @ + 1]
  <2>1. call[c] \in Call /\ call[c].kind # "pinned" /\ call[c].tries # MaxRetries
    BY <1>4, SoundHas DEF GivesUp
  <2>2. call[c].tries + 1 \in 0 .. MaxRetries
    BY <2>1, SourcingAssumption DEF Call
  <2>3. /\ call' \in [Calls -> Call] /\ \A d \in Calls \ {c} : call'[d] = call[d]
        /\ call'[c].got = Nothing /\ call'[c].kind = call[c].kind
    BY <1>4, <2>1, <2>2, SoundHas DEF Call, Phases
  <2>4. Sits(log, written, call'[c].got) /\ PinSound(call'[c], HeadVersion)
    BY <2>1, <2>3, SoundHas DEF PinSound
  <2> QED
    BY <1>1, <1>2, <2>3, <2>4, Quiet DEF Conflict
<1> QED
  BY <1>3, <1>4 DEF Conflict

LEMMA PutSound ==
    ASSUME Sound, NEW c \in Calls, Put(c)
    PROVE  Sound'
<1> DEFINE got == call[c].got
<1>1. got \in Folded /\ Sits(log, written, got)
  BY SoundHas DEF Sound, Call
<1>2. /\ cache' \in [Caches -> Folded]
      /\ \A k \in Caches : cache'[k] \in {cache[k], got}
  BY <1>1, SoundHas, RememberIs, SourcingAssumption DEF Put
<1>3. \A k \in Caches : Sits(log, written, cache'[k])
  BY <1>1, <1>2 DEF Sound
<1> QED
  BY <1>2, <1>3, EndSound DEF Put

LEMMA StopSound ==
    ASSUME Sound, NEW c \in Calls, Stop(c)
    PROVE  Sound'
  BY SoundHas, EndSound DEF Stop, Sound

LEMMA EvictSound ==
    ASSUME Sound, NEW k \in Caches, Evict(k)
    PROVE  Sound'
<1>1. /\ cache' \in [Caches -> Folded]
      /\ \A j \in Caches : cache'[j] \in {cache[j], Nothing}
  BY SoundHas DEF Evict
<1>2. \A j \in Caches : Sits(log, written, cache'[j])
  BY <1>1, SoundHas DEF Sound
<1>3. UNCHANGED <<log, nextId, written>> /\ call' = call
  BY DEF Evict
<1>4. PICK c : c \notin Calls
  BY NoSetContainsEverything
<1> QED
  BY <1>1, <1>2, <1>3, <1>4, SoundHas, Quiet

-----------------------------------------------------------------------------
(* The two actions that append.                                            *)

\* A step that appends keeps Sound when the call it moves stays sound.
LEMMA Appending ==
    ASSUME Sound,
           log' \subseteq Event, written' \subseteq Ids, nextId' \in 0 .. MaxId + 1,
           LogSound(log', nextId', written'), SnapsSound(log', written'),
           HeadVersion' \in Int, HeadVersion <= HeadVersion',
           \A f \in Folded : Sits(log, written, f) => Sits(log', written', f),
           cache' \in [Caches -> Folded],
           \A k \in Caches : cache'[k] \in {cache[k], Nothing},
           NEW c \in Calls, call' \in [Calls -> Call],
           \A d \in Calls \ {c} : call'[d] = call[d],
           Sits(log', written', call'[c].got), PinSound(call'[c], HeadVersion')
    PROVE  Sound'
<1>1. \A k \in Caches : Sits(log', written', cache'[k])
  BY SoundHas DEF Sound
<1>2. \A d \in Calls : call[d].got \in Folded
  BY SoundHas DEF Call
<1>3. \A d \in Calls : Sits(log', written', call'[d].got)
  BY <1>2 DEF Sound
<1>4. \A d \in Calls : PinSound(call'[d], HeadVersion')
  <2>1. \A d \in Calls : PinSound(call[d], HeadVersion) /\ call[d] \in Call
    BY SoundHas DEF Sound
  <2>2. \A d \in Calls : PinSound(call[d], HeadVersion')
    BY <2>1, SoundHas, SourcingAssumption DEF PinSound, Call
  <2> QED
    BY <2>2
<1>5. TypeOK'
  BY DEF TypeOK
<1> QED
  BY <1>1, <1>3, <1>4, <1>5 DEF Sound

\* The rows of one commit: numbered on from the head, of domain events only.
LEMMA RowsAre ==
    ASSUME nextId \in Nat, HeadVersion \in Position, HeadVersion < nextId,
           NEW n \in Nat \ {0}, NEW names \in [1 .. n -> Names],
           nextId + n - 1 <= MaxId
    PROVE  /\ Rows(names) \in SUBSET Event
           /\ \A e \in Rows(names) :
                 /\ nextId <= e.id /\ e.id < nextId + n
                 /\ e.version = e.id - nextId + HeadVersion + 1
                 /\ e.name \in Names
           /\ \A e, f \in Rows(names) : e.id = f.id => e = f
           /\ \E e \in Rows(names) : e.id = nextId + n - 1 /\ e.version = HeadVersion + n
<1> DEFINE event(i) == [id |-> nextId + i - 1, version |-> HeadVersion + i,
                        name |-> names[i], state |-> {}]
<1>1. Rows(names) = {event(i) : i \in 1 .. n}
  BY DEF Rows
<1>2. HeadVersion \in Int /\ -1 <= HeadVersion
  BY SourcingAssumption
<1>3. ASSUME NEW i \in 1 .. n
      PROVE  /\ nextId + i - 1 \in Ids /\ HeadVersion + i \in Ids
             /\ nextId <= nextId + i - 1 /\ nextId + i - 1 < nextId + n
             /\ HeadVersion + i = (nextId + i - 1) - nextId + HeadVersion + 1
  BY <1>2, SourcingAssumption
<1>4. \A i \in 1 .. n : event(i) \in Event
  BY <1>3 DEF Event
<1>5. ASSUME NEW e \in Rows(names)
      PROVE  /\ nextId <= e.id /\ e.id < nextId + n
             /\ e.version = e.id - nextId + HeadVersion + 1 /\ e.name \in Names
  <2>1. PICK i \in 1 .. n : e = event(i)
    BY <1>1
  <2>2. e.id = nextId + i - 1 /\ e.version = HeadVersion + i /\ e.name = names[i]
    BY <2>1
  <2> QED
    BY <1>3, <2>2
<1>6. ASSUME NEW e \in Rows(names), NEW f \in Rows(names), e.id = f.id PROVE e = f
  <2>1. PICK i \in 1 .. n : e = event(i)
    BY <1>1
  <2>2. PICK j \in 1 .. n : f = event(j)
    BY <1>1
  <2>3. nextId + i - 1 = nextId + j - 1
    BY <1>6, <2>1, <2>2
  <2>4. i = j
    BY <1>2, <2>3
  <2> QED
    BY <2>1, <2>2, <2>4
<1>7. event(n) \in Rows(names) /\ event(n).id = nextId + n - 1
         /\ event(n).version = HeadVersion + n
  <2>1. n \in 1 .. n
    OBVIOUS
  <2> QED
    BY <1>1, <2>1
<1> HIDE DEF event
<1> QED
  BY <1>1, <1>4, <1>5, <1>6, <1>7

LEMMA CommitSound ==
    ASSUME Sound, NEW c \in Calls, NEW n \in Nat \ {0},
           NEW names \in [1 .. n -> Names], Commit(c, names)
    PROVE  Sound'
<1> DEFINE R == Rows(names)
           A == IdsOf(R)
           got == [state |-> call[c].got.state \cup A,
                   version |-> HeadVersion + n, id |-> nextId + n - 1]
<1>1. Len(names) = n
  OBVIOUS
<1>2. /\ nextId + n - 1 <= MaxId /\ log' = log \cup R /\ nextId' = nextId + n
      /\ written' = written \cup A /\ call[c].at = "commit"
      /\ IF Contiguous(call[c].got)
         THEN (\E at \in {"snap", "put"} : Update(c, at, got)) /\ UNCHANGED cache
         ELSE Forget(CacheOf[c]) /\ End(c)
  BY <1>1 DEF Commit
<1>3. /\ R \in SUBSET Event
      /\ \A e \in R : /\ nextId <= e.id /\ e.id < nextId + n
                      /\ e.version = e.id - nextId + HeadVersion + 1 /\ e.name \in Names
      /\ \A e, f \in R : e.id = f.id => e = f
      /\ \E e \in R : e.id = nextId + n - 1 /\ e.version = HeadVersion + n
  BY <1>2, SoundHas, RowsAre
<1>4. A = IdsOf(Domain(R))
  BY <1>3 DEF IdsOf, Domain
<1>5. \A e \in R : e.name # TOMBSTONE_EVENT /\ e.name # SNAP_EVENT
  BY <1>3, SourcingAssumption
<1>6. nextId' \in 0 .. MaxId + 1 /\ nextId <= nextId' /\ nextId \in Nat
  BY <1>2, SoundHas, SourcingAssumption
<1> HIDE DEF R, A
<1>7. /\ log' \subseteq Event /\ written' \subseteq Ids
      /\ LogSound(log', nextId', written') /\ SnapsSound(log', written')
      /\ HeadVersion' \in Int /\ HeadVersion <= HeadVersion'
      /\ \A f \in Folded : Sits(log, written, f) => Sits(log', written', f)
  BY <1>2, <1>3, <1>4, <1>5, <1>6, Appended
<1>8. CASE ~Contiguous(call[c].got)
  <2>1. /\ cache' \in [Caches -> Folded]
        /\ \A k \in Caches : cache'[k] \in {cache[k], Nothing}
    BY <1>2, <1>8, ForgetIs, SourcingAssumption
  <2>2. /\ call' \in [Calls -> Call] /\ \A d \in Calls \ {c} : call'[d] = call[d]
        /\ call'[c].kind = "load" /\ call'[c].got = Nothing
    BY <1>2, <1>8, SoundHas, EndIs
  <2>3. Sits(log', written', call'[c].got) /\ PinSound(call'[c], HeadVersion')
    BY <1>7, <2>2, NothingSits DEF PinSound
  <2> QED
    BY <1>6, <1>7, <2>1, <2>2, <2>3, Appending
<1>9. CASE Contiguous(call[c].got)
  <2>1. call[c].got \in Folded /\ Sits(log, written, call[c].got)
    BY SoundHas DEF Sound, Call
  <2>2. call[c].got.state = written
    BY <1>9, <2>1, SoundHas, AtHead DEF Contiguous
  <2>3. got.state = written' /\ got.id = nextId + n - 1 /\ got.version = HeadVersion + n
    BY <1>2, <2>2
  <2>4. got \in Folded
    <3>1. \E e \in R : e.id = got.id /\ e.version = got.version /\ e \in Event
      BY <1>3, <2>3
    <3>2. got.id \in Ids /\ got.version \in Ids
      BY <3>1 DEF Event
    <3>3. got = [state |-> got.state, version |-> got.version, id |-> got.id]
      OBVIOUS
    <3> HIDE DEF got
    <3> QED
      BY <1>7, <2>3, <3>2, <3>3 DEF Folded
  <2> HIDE DEF got
  <2>5. written' = Below(written', got.id)
    <3>1. \A i \in written' : i <= got.id
      <4>1. \A i \in written' : \E e \in log' : e.id = i /\ e \in Event
        BY <1>7 DEF LogSound, IdsOf, Domain
      <4>2. \A i \in written' : i \in Nat /\ i < nextId'
        BY <1>7, <4>1, SourcingAssumption DEF LogSound, Event
      <4> QED
        BY <1>2, <1>6, <2>3, <4>2
    <3> QED
      BY <3>1 DEF Below
  <2>6. Sits(log', written', got)
    BY <1>2, <1>3, <2>3, <2>5 DEF Sits
  <2>7. PICK at \in {"snap", "put"} : Update(c, at, got)
    BY <1>2, <1>9 DEF got
  <2>8. at \in Phases /\ at \notin {"reload", "query", "fill", "commit"}
    BY DEF Phases
  <2>9. /\ call' \in [Calls -> Call] /\ \A d \in Calls \ {c} : call'[d] = call[d]
        /\ call'[c].at = at /\ call'[c].got = got
        /\ call'[c].kind = call[c].kind /\ call'[c].pin = call[c].pin
    BY <2>4, <2>7, <2>8, SoundHas, UpdateIs
  <2>10. PinSound(call'[c], HeadVersion')
    <3>1. PinSound(call[c], HeadVersion)
      BY DEF Sound
    <3> QED
      BY <2>8, <2>9, <3>1 DEF PinSound
  <2>11. UNCHANGED cache
    BY <1>2, <1>9
  <2> QED
    BY <1>6, <1>7, <2>6, <2>9, <2>10, <2>11, SoundHas, Appending
<1> QED
  BY <1>8, <1>9

LEMMA SnapSound ==
    ASSUME Sound, NEW c \in Calls, Snap(c)
    PROVE  Sound'
<1> DEFINE got == call[c].got
           event == Append1(SNAP_EVENT, got.state)
           put == [state |-> got.state, version |-> event.version, id |-> event.id]
<1>1. got \in Folded /\ Sits(log, written, got) /\ PinSound(call[c], HeadVersion)
  BY SoundHas DEF Sound, Call
<1>2. /\ UNCHANGED <<written, cache>> /\ cache' \in [Caches -> Folded]
      /\ \A k \in Caches : Sits(log, written, cache'[k])
  BY SoundHas DEF Snap, Sound
<1>3. "put" \in Phases
  BY DEF Phases
<1>4. CASE Update(c, "put", got) /\ UNCHANGED <<log, nextId>>
  <2>1. /\ call' \in [Calls -> Call] /\ \A d \in Calls \ {c} : call'[d] = call[d]
        /\ call'[c].at = "put" /\ call'[c].got = got
        /\ call'[c].kind = call[c].kind /\ call'[c].pin = call[c].pin
    BY <1>1, <1>3, <1>4, SoundHas, UpdateIs
  <2>2. PinSound(call'[c], HeadVersion)
    BY <1>1, <2>1 DEF PinSound
  <2> QED
    BY <1>1, <1>2, <1>4, <2>1, <2>2, Quiet
<1>5. CASE /\ SnapAccepts(got) /\ nextId <= MaxId /\ log' = log \cup {event}
           /\ nextId' = nextId + 1 /\ Update(c, "put", put)
  <2>1. got.state = written
    BY <1>1, <1>5, SoundHas, AtHead DEF SnapAccepts
  <2>2. /\ event.id = nextId /\ event.version = HeadVersion + 1
        /\ event.name = SNAP_EVENT /\ event.state = written
    BY <2>1 DEF Append1
  <2>3. nextId \in Ids /\ HeadVersion + 1 \in Ids /\ written \in SUBSET Ids
    BY <1>5, SoundHas, SourcingAssumption
  <2>4. event \in Event
    <3>1. event = [id |-> event.id, version |-> event.version, name |-> event.name,
                   state |-> event.state]
      BY DEF Append1
    <3> HIDE DEF event
    <3> QED
      BY <2>2, <2>3, <3>1 DEF Event
  <2>5. put = [state |-> written, version |-> event.version, id |-> nextId]
    BY <2>1, <2>2
  <2> HIDE DEF event, put, got
  <2>6. put \in Folded
    BY <2>2, <2>3, <2>5 DEF Folded
  <2> DEFINE R == {event}
             A == IdsOf(Domain(R))
  <2>7. A = {} /\ written' = written \cup A
    BY <1>2, <2>2, SourcingAssumption DEF IdsOf, Domain
  <2>8. nextId' \in 0 .. MaxId + 1 /\ nextId <= nextId'
    BY <1>5, <2>3, SourcingAssumption
  <2>9. \A i \in written : i \in Nat /\ i < nextId
    <3>1. \A i \in written : \E e \in log : e.id = i
      BY SoundHas DEF LogSound, IdsOf, Domain
    <3> QED
      BY <2>3, <3>1, SoundHas, SourcingAssumption DEF LogSound
  <2>10. written = Below(written, nextId)
    <3>1. \A i \in written : i <= nextId
      BY <2>3, <2>9, SourcingAssumption
    <3> QED
      BY <3>1 DEF Below
  <2>11. \A e \in R : /\ nextId <= e.id /\ e.id < nextId'
                          /\ e.version = e.id - nextId + HeadVersion + 1
                          /\ e.name # TOMBSTONE_EVENT
    BY <1>5, <2>2, <2>3, SoundHas, SourcingAssumption DEF SNAP_EVENT, TOMBSTONE_EVENT
  <2>12. \A e \in R : e.name = SNAP_EVENT => e.state = Below(written \cup A, e.id)
    BY <2>2, <2>7, <2>10
  <2>13. /\ R \in SUBSET Event /\ log' = log \cup R
         /\ \A e, f \in R : e.id = f.id => e = f
    BY <1>5, <2>4
  <2> HIDE DEF R
  <2>14. /\ log' \subseteq Event /\ written' \subseteq Ids
         /\ LogSound(log', nextId', written') /\ SnapsSound(log', written')
         /\ HeadVersion' \in Int /\ HeadVersion <= HeadVersion'
         /\ \A f \in Folded : Sits(log, written, f) => Sits(log', written', f)
    BY <2>7, <2>8, <2>11, <2>12, <2>13, Appended
  <2>15. Sits(log', written', put)
    BY <1>2, <1>5, <2>2, <2>5, <2>10 DEF Sits
  <2>16. /\ call' \in [Calls -> Call] /\ \A d \in Calls \ {c} : call'[d] = call[d]
         /\ call'[c].at = "put" /\ call'[c].got = put
         /\ call'[c].kind = call[c].kind /\ call'[c].pin = call[c].pin
    BY <1>3, <1>5, <2>6, SoundHas, UpdateIs
  <2>17. PinSound(call'[c], HeadVersion')
    BY <1>1, <2>16 DEF PinSound
  <2> QED
    BY <1>2, <2>8, <2>14, <2>15, <2>16, <2>17, Appending
<1> QED
  BY <1>4, <1>5 DEF Snap

-----------------------------------------------------------------------------
(* The theorems.                                                           *)

LEMMA StepSound == Sound /\ [Next]_sourcing => Sound'
<1> SUFFICES ASSUME Sound, [Next]_sourcing PROVE Sound'
  OBVIOUS
<1>1. ASSUME NEW c \in Calls, Step(c) PROVE Sound'
  <2>1. ASSUME NEW kind \in Kinds[c], Begin(c, kind) PROVE Sound'
    BY <2>1, BeginSound
  <2>2. ASSUME NEW n \in 1 .. Batch, NEW names \in [1 .. n -> Names], Commit(c, names)
        PROVE  Sound'
    <3>1. n \in Nat \ {0}
      BY SourcingAssumption
    <3> QED
      BY <2>2, <3>1, CommitSound
  <2> QED
    BY <1>1, <2>1, <2>2, ReloadSound, QuerySound, FillSound, ConflictSound, SnapSound,
       PutSound, StopSound DEF Step
<1>2. ASSUME NEW k \in Caches, Evict(k) PROVE Sound'
  BY <1>2, EvictSound
<1>3. CASE UNCHANGED sourcing
  <2>1. /\ UNCHANGED <<log, nextId, written>> /\ call' = call /\ cache' = cache
    BY <1>3 DEF sourcing
  <2>2. PICK c : c \notin Calls
    BY NoSetContainsEverything
  <2> QED
    BY <2>1, <2>2, SoundHas, Quiet DEF Sound
<1> QED
  BY <1>1, <1>2, <1>3 DEF Next

LEMMA Soundness == Spec => []Sound
  BY InitSound, StepSound, PTL DEF Spec

\* Every variable keeps its type, whatever the calls and the caches.
THEOREM TypeCorrect == Spec => []TypeOK
<1>1. Sound => TypeOK
  BY DEF Sound
<1> QED
  BY <1>1, Soundness, PTL

\* No interleaving of loads, commits, retries, snapshots and late cache writes
\* leaves a cache entry that is not the fold of the stream up to its id.
THEOREM CacheCorrect == Spec => []CacheFaithful
<1>1. Sound => CacheFaithful
  BY DEF Sound, CacheFaithful, Sits, Below, UpTo
<1> QED
  BY <1>1, Soundness, PTL

\* No snapshot is written from a fold that missed an interleaved event.
THEOREM SnapshotCorrect == Spec => []SnapshotFaithful
<1>1. Sound => SnapshotFaithful
  BY DEF Sound, SnapsSound, SnapshotFaithful, Below, UpTo
<1> QED
  BY <1>1, Soundness, PTL

\* A load from any cache entry or checkpoint in hand returns the whole history.
THEOREM LoadCorrect == Spec => []LoadsAreCurrent
<1>1. Sound => LoadsAreCurrent
  <2> SUFFICES ASSUME Sound,
                      NEW base \in {Nothing} \cup {cache[k] : k \in Caches}
                          \cup {call[c].got : c \in {d \in Calls : call[d].at = "query"}}
               PROVE  Load(base).state = written
    BY DEF LoadsAreCurrent
  <2>1. base \in Folded /\ Sits(log, written, base)
    BY SoundHas DEF Sound, Call
  <2> QED
    BY <2>1, SoundHas, LoadIs
<1> QED
  BY <1>1, Soundness, PTL

\* The action property, step by step: the call that commits is the one that
\* moves, and the version it states is the head's.
LEMMA DecidesOnHead ==
    ASSUME Sound, Next, NEW c \in Calls,
           call[c].at = "commit", written' # written, call'[c] # call[c],
           call[c].kind \in {"act", "pinned"}, call[c].got # Nothing
    PROVE  call[c].got.state = written
<1>1. PICK d \in Calls : \E n \in 1 .. Batch : \E names \in [1 .. n -> Names] : Commit(d, names)
  BY DEF Next, Step, Begin, Reload, Query, Fill, Conflict, Snap, Put, Stop, Evict
<1>2. d = c
  <2>1. End(d) \/ \E at \in {"snap", "put"} : \E got : Update(d, at, got)
    BY <1>1 DEF Commit
  <2>2. \A e \in Calls \ {d} : call'[e] = call[e]
    BY <2>1, SoundHas DEF End, Update
  <2> QED
    BY <2>2
<1>3. Accepts(Expected(call[c]))
  BY <1>1, <1>2 DEF Commit
<1>4. call[c].got \in Folded /\ Sits(log, written, call[c].got) /\ call[c] \in Call
  BY SoundHas DEF Sound, Call
<1>5. call[c].got.version \in Nat /\ call[c].got.version <= HeadVersion
  <2> DEFINE got == call[c].got
  <2>1. CASE got.id = -1 /\ got.version = -1
    <3>1. got.state = {}
      <4>1. \A i \in written : ~(i <= -1)
        BY SoundHas, SourcingAssumption
      <4> QED
        BY <1>4, <2>1, <4>1 DEF Sits, Below
    <3>2. got = Nothing
      BY <1>4, <2>1, <3>1 DEF Folded, Nothing
    <3> QED
      BY <3>2
  <2>2. CASE \E e \in log : e.id = got.id /\ e.version = got.version
    BY <2>2, SoundHas, HeadIs, SourcingAssumption DEF Event
  <2> QED
    BY <1>4, <2>1, <2>2 DEF Sits
<1>6. call[c].got.version = HeadVersion
  <2>1. CASE call[c].kind = "act"
    BY <1>3, <1>5, <2>1, SoundHas DEF Accepts, Expected
  <2>2. CASE call[c].kind = "pinned"
    <3>1. call[c].pin >= 0 /\ call[c].pin <= call[c].got.version /\ call[c].pin \in Int
      BY <1>4, <2>2, SourcingAssumption DEF Sound, PinSound, Call
    <3>2. call[c].pin \in {-1, HeadVersion}
      BY <1>3, <2>2 DEF Accepts, Expected
    <3> QED
      BY <1>5, <3>1, <3>2, SoundHas, SourcingAssumption
  <2> QED
    BY <2>1, <2>2
<1> QED
  BY <1>4, <1>6, SoundHas, AtHead

\* No action that found the stream is ever appended past events it has not
\* folded, retried or not.
THEOREM DecidedCorrect == Spec => DecidedOnHead
<1>1. Sound /\ [Next]_sourcing =>
         [\A c \in Calls :
             /\ call[c].at = "commit" /\ written' # written
             /\ call'[c] # call[c]
             /\ call[c].kind \in {"act", "pinned"} /\ call[c].got # Nothing
             => call[c].got.state = written]_sourcing
  BY DecidesOnHead
<1> QED
  BY <1>1, Soundness, PTL DEF Spec, DecidedOnHead

-----------------------------------------------------------------------------
(* The applications the theorems are about.                                *)

FullModes == {"restart", "retire"}
Fulls(p) == {k \in Closers : p.modes[k] \cap FullModes # {}}

\* Full closes are run by one closer at a time, overtake no commit in flight,
\* and no caller pins a version it read before a restart.
Careful(p) ==
    Fulls(p) # {} =>
        /\ \A k, j \in Fulls(p) : k = j
        /\ ~p.straddling /\ "pinned" \notin p.kinds

-----------------------------------------------------------------------------
(* The inductive invariant.                                                *)

Scans == {"markers", "domain", "version", "catchup", "probe", "guard"}
Guarded == {"seed", "archive", "truncate"}
FullPhases == Scans \cup Guarded \cup {"warm"}
WindowPhases == {"checkpoint", "cap", "pending", "keep", "prune"}

HeadId == IF log = {} THEN -1 ELSE Latest(log).id

\* Ids and versions of the rows of L grow together, below n.
Ranked(L, n) ==
    /\ \A e \in L : e.id < n /\ e.version <= e.id
    /\ \A e, f \in L : e.id < f.id => e.version < f.version
    /\ \A e, f \in L : e.id = f.id => e = f

\* A tombstone is the head; no event was ever written past the head.
HeadInv ==
    /\ \A e \in log : e.name = TOMBSTONE_EVENT => e.id = HeadId
    /\ \A i \in written : i <= HeadId

\* A checkpoint is not ahead of the head, and at the head it has its version.
Behind(f) == f.id <= HeadId /\ (f.id = HeadId => f.version = HeadVersion)

HandInv ==
    /\ \A k \in Caches : Behind(cache[k])
    /\ \A c \in Calls : Behind(call[c].got)

\* An action that has loaded the stream is at the version it loaded or below
\* the head's: no truncation comes between.
Dated(f) == f.version <= HeadVersion /\ (f.version = HeadVersion => f.id = HeadId)

CallInv ==
    /\ \A c \in Calls : call[c].at # "idle" => call[c].kind \in policy.kinds
    /\ \A c \in Calls : call[c].at \in {"commit", "snap"} => call[c].kind # "load"
    /\ \A c \in Decided : Dated(call[c].got)

\* Behind a tombstone nobody has loaded it, and nobody who decided before it
\* finds its version again.
ClosedInv ==
    Closed(log) =>
        /\ Fulls(policy) # {}
        /\ \A k \in Caches : cache[k].id < HeadId
        /\ \A c \in Calls : call[c].got.id < HeadId
        /\ \A c \in Decided :
              call[c].kind = "act" /\ call[c].got.version \in 0 .. HeadVersion - 1

\* A closer does what it was asked for.
ModeOK(k, cl) ==
    /\ cl.at # "idle" => cl.mode \in policy.modes[k]
    /\ cl.at \in FullPhases => cl.mode \in FullModes
    /\ cl.at \in WindowPhases => cl.mode = "window"

\* From its first read on a full closer knows whether a guard is in place, and
\* from its guard on there is one; its seed is not hidden by a later row.
GuardOK(cl) ==
    /\ cl.at \in Scans \ {"markers"} => (cl.resumed <=> Closed(log))
    /\ cl.at \in Guarded => Closed(log)
    /\ cl.at = "warm" /\ cl.mode = "restart" =>
          /\ ~Closed(log) /\ cl.head <= HeadId
          /\ cl.head = HeadId => HeadVersion = 0

CloserInv == \A k \in Closers : ModeOK(k, closer[k]) /\ GuardOK(closer[k])

Base ==
    /\ CloseTypeOK /\ Ranked(log, nextId)
    /\ HeadInv /\ HandInv /\ CallInv /\ ClosedInv /\ CloserInv

-----------------------------------------------------------------------------
(* The head.                                                               *)

\* The row no other row is behind is the latest.
LEMMA LatestOf ==
    ASSUME NEW L \in SUBSET Event, NEW e \in L, \A f \in L : f.id < e.id \/ f = e
    PROVE  Latest(L) = e
<1>1. Latest(L) \in L /\ \A f \in L : f.id <= Latest(L).id
  BY LatestIs
<1>2. \A f \in L : f.id \in Int
  BY SourcingAssumption DEF Event
<1> QED
  BY <1>1, <1>2

\* What is at the head of a ranked log.
LEMMA TopIs ==
    ASSUME NEW n \in Nat, log \in SUBSET Event, Ranked(log, n)
    PROVE  /\ HeadId \in Position /\ HeadId < n
           /\ HeadVersion \in Position /\ HeadVersion < n
           /\ log = {} => HeadId = -1 /\ HeadVersion = -1 /\ ~Closed(log)
           /\ log # {} => /\ Latest(log) \in log
                          /\ HeadId = Latest(log).id /\ HeadVersion = Latest(log).version
                          /\ HeadId >= 0 /\ HeadVersion >= 0
           /\ \A e \in log : /\ e.id <= HeadId /\ e.version <= HeadVersion
                             /\ e.id = HeadId => e = Latest(log)
                             /\ e.id < HeadId => e.version < HeadVersion
           /\ \A e \in log : e.id \in Nat /\ e.version \in Nat /\ e.id < n
<1>1. \A e \in log : e.id \in Ids /\ e.version \in Ids /\ e.id < n /\ e.version <= e.id
  BY DEF Event, Ranked
<1>2. CASE log = {}
  BY <1>2, SourcingAssumption DEF HeadId, HeadVersion, Closed
<1>3. CASE log # {}
  <2>1. Latest(log) \in log /\ \A f \in log : f.id <= Latest(log).id
    BY <1>3, LatestIs
  <2>2. HeadId = Latest(log).id /\ HeadVersion = Latest(log).version
    BY <1>3 DEF HeadId, HeadVersion
  <2>3. \A e \in log : e.id = HeadId => e = Latest(log)
    BY <2>1, <2>2 DEF Ranked
  <2>4. \A e \in log : e.id < HeadId => e.version < HeadVersion
    BY <2>1, <2>2 DEF Ranked
  <2>5. \A e \in log : e.id <= HeadId /\ e.version <= HeadVersion
    BY <1>1, <2>1, <2>2, <2>3, <2>4, SourcingAssumption
  <2> QED
    BY <1>1, <1>3, <2>1, <2>2, <2>3, <2>4, <2>5, SourcingAssumption
<1> QED
  BY <1>2, <1>3

\* A load ends at the head, and sees the tombstone that is there unless it
\* starts from it.
LEMMA LoadTop ==
    ASSUME NEW n \in Nat, log \in SUBSET Event, Ranked(log, n),
           NEW f \in Folded, Behind(f)
    PROVE  /\ Load(f) \in Folded
           /\ Load(f).id = HeadId /\ Load(f).version = HeadVersion
           /\ Above(f) = {} => f.id = HeadId /\ Load(f) = f
           /\ Above(f) # {} => (Closed(Above(f)) <=> Closed(log))
           /\ f.id < HeadId => Above(f) # {}
<1>1. f.id \in Int /\ Above(f) \in SUBSET Event /\ Above(f) \in SUBSET log
  BY SourcingAssumption DEF Above, Folded
<1>2. CASE Above(f) = {}
  <2>1. Load(f) = f
    BY <1>2 DEF Load
  <2>2. f.id = HeadId
    <3>1. CASE log = {}
      <4>1. HeadId = -1 /\ f.id <= -1 /\ f.id \in Position
        BY <3>1, TopIs DEF Behind, Folded
      <4> QED
        BY <4>1, SourcingAssumption
    <3>2. CASE log # {}
      <4>1. Latest(log) \in log /\ HeadId = Latest(log).id /\ HeadId \in Int
        BY <3>2, TopIs, SourcingAssumption
      <4>2. ~(Latest(log).id > f.id)
        BY <1>2, <4>1 DEF Above
      <4> QED
        BY <1>1, <4>1, <4>2 DEF Behind
    <3> QED
      BY <3>1, <3>2
  <2> QED
    BY <1>1, <1>2, <2>1, <2>2 DEF Behind
<1>3. CASE Above(f) # {}
  <2>1. Latest(Above(f)) \in Above(f) /\ log # {}
    BY <1>1, <1>3, LatestIs
  <2>2. Latest(log) \in log /\ HeadId = Latest(log).id /\ HeadVersion = Latest(log).version
    BY <2>1, TopIs
  <2>3. \A e \in log : e.id < Latest(log).id \/ e = Latest(log)
    <3>1. \A e \in log : e.id \in Nat /\ e.id <= HeadId /\ (e.id = HeadId => e = Latest(log))
      BY TopIs
    <3> QED
      BY <2>2, <3>1, SourcingAssumption
  <2>4. Latest(log) \in Above(f)
    <3>1. PICK e \in log : e.id > f.id
      BY <1>3 DEF Above
    <3>2. Latest(log).id > f.id
      BY <1>1, <2>3, <3>1, <2>2, TopIs
    <3> QED
      BY <2>2, <3>2 DEF Above
  <2>5. Latest(Above(f)) = Latest(log)
    BY <1>1, <2>3, <2>4, LatestOf
  <2>6. Fold(f.state, Above(f)) \in SUBSET Ids
    <3>1. \A E \in SUBSET Event : IdsOf(Domain(E)) \in SUBSET Ids
                                  /\ \A i : IdsOf({e \in Domain(E) : e.id > i}) \in SUBSET Ids
      BY DEF IdsOf, Domain, Event
    <3>2. f.state \in SUBSET Ids
      BY DEF Folded
    <3>3. CASE {e \in Above(f) : e.name = SNAP_EVENT} = {}
      <4>1. Fold(f.state, Above(f)) = f.state \cup IdsOf(Domain(Above(f)))
        BY <3>3 DEF Fold
      <4> QED
        BY <1>1, <3>1, <3>2, <4>1
    <3>4. CASE {e \in Above(f) : e.name = SNAP_EVENT} # {}
      <4> DEFINE snaps == {e \in Above(f) : e.name = SNAP_EVENT}
      <4>1. Latest(snaps) \in snaps
        <5>1. snaps \in SUBSET Event
          BY <1>1
        <5> QED
          BY <3>4, <5>1, LatestIs
      <4>2. Latest(snaps).state \in SUBSET Ids
        BY <1>1, <4>1 DEF Event
      <4>3. Fold(f.state, Above(f)) = Latest(snaps).state
              \cup IdsOf({e \in Domain(Above(f)) : e.id > Latest(snaps).id})
        BY <3>4 DEF Fold
      <4> HIDE DEF snaps
      <4> QED
        BY <1>1, <3>1, <4>2, <4>3
    <3> QED
      BY <3>3, <3>4
  <2>7. Load(f) = [state |-> Fold(f.state, Above(f)), version |-> HeadVersion, id |-> HeadId]
    BY <1>3, <2>2, <2>5 DEF Load
  <2>8. Load(f) \in Folded
    BY <2>6, <2>7, TopIs DEF Folded
  <2> QED
    BY <1>3, <2>1, <2>5, <2>7, <2>8 DEF Closed
<1>4. f.id < HeadId => Above(f) # {}
  <2> SUFFICES ASSUME f.id < HeadId PROVE Above(f) # {}
    OBVIOUS
  <2>1. log # {}
    <3>1. log = {} => HeadId = -1
      BY TopIs
    <3>2. f.id >= -1
      BY SourcingAssumption DEF Folded
    <3> QED
      BY <1>1, <3>1, <3>2
  <2>2. Latest(log) \in log /\ HeadId = Latest(log).id
    BY <2>1, TopIs
  <2> QED
    BY <2>2, <1>1 DEF Above
<1> QED
  BY <1>2, <1>3, <1>4

-----------------------------------------------------------------------------
(* How the log changes.                                                    *)

\* R numbers m rows on from the head.
Extends(R, m) ==
    /\ R \in SUBSET Event
    /\ \A e \in R : /\ nextId <= e.id /\ e.id < nextId + m
                    /\ e.version = e.id - nextId + HeadVersion + 1
    /\ \A e, f \in R : e.id = f.id => e = f
    /\ \E e \in R : e.id = nextId + m - 1

LEMMA AppendTop ==
    ASSUME nextId \in Nat, log \in SUBSET Event, Ranked(log, nextId),
           NEW m \in Nat \ {0}, NEW R, Extends(R, m),
           log' = log \cup R, nextId' = nextId + m
    PROVE  /\ log' \in SUBSET Event /\ Ranked(log, nextId)'
           /\ HeadId' = nextId + m - 1 /\ HeadVersion' = HeadVersion + m
           /\ HeadId < HeadId' /\ HeadVersion < HeadVersion'
           /\ Latest(log') \in R /\ log' # {}
<1>1. PICK top \in R : top.id = nextId + m - 1
  BY DEF Extends
<1>2. /\ log' \in SUBSET Event /\ top \in log' /\ top \in Event
      /\ HeadVersion \in Int /\ HeadId \in Int /\ HeadVersion < nextId /\ HeadId < nextId
  BY <1>1, TopIs, SourcingAssumption DEF Extends
<1>3. \A e \in R : e.id \in Nat /\ e.version \in Nat /\ nextId <= e.id
                   /\ e.id <= nextId + m - 1 /\ e.version = e.id - nextId + HeadVersion + 1
  BY SourcingAssumption DEF Extends, Event
<1>4. \A e \in log : e.id \in Nat /\ e.version \in Nat /\ e.id < nextId
                     /\ e.version <= HeadVersion
  BY TopIs
<1>5. \A e \in log' : e.id < top.id \/ e = top
  <2>1. ASSUME NEW e \in R PROVE e.id < top.id \/ e = top
    BY <1>1, <1>3, <2>1 DEF Extends
  <2>2. ASSUME NEW e \in log PROVE e.id < top.id
    BY <1>1, <1>4, <2>2
  <2> QED
    BY <2>1, <2>2
<1>6. Latest(log') = top
  BY <1>2, <1>5, LatestOf
<1>7. HeadId' = nextId + m - 1 /\ HeadVersion' = HeadVersion + m
  <2>1. top.version = HeadVersion + m
    BY <1>1, <1>2, <1>3
  <2>2. log' # {}
    BY <1>2
  <2> QED
    BY <1>1, <1>6, <2>1, <2>2 DEF HeadId, HeadVersion
<1>8. Ranked(log', nextId')
  <2>1. ASSUME NEW e \in log' PROVE e.id < nextId' /\ e.version <= e.id
    <3>1. CASE e \in R
      BY <1>2, <1>3, <3>1
    <3>2. CASE e \in log
      BY <1>4, <3>2 DEF Ranked
    <3> QED
      BY <3>1, <3>2
  <2>2. ASSUME NEW e \in log', NEW f \in log', e.id < f.id PROVE e.version < f.version
    <3>1. CASE e \in log /\ f \in log
      BY <2>2, <3>1 DEF Ranked
    <3>2. CASE e \in R /\ f \in R
      BY <1>2, <1>3, <2>2, <3>2
    <3>3. CASE e \in log /\ f \in R
      BY <1>2, <1>3, <1>4, <3>3
    <3>4. CASE e \in R /\ f \in log
      BY <1>3, <1>4, <2>2, <3>4
    <3> QED
      BY <3>1, <3>2, <3>3, <3>4
  <2>3. ASSUME NEW e \in log', NEW f \in log', e.id = f.id PROVE e = f
    <3>1. CASE e \in log /\ f \in log
      BY <2>3, <3>1 DEF Ranked
    <3>2. CASE e \in R /\ f \in R
      BY <2>3, <3>2 DEF Extends
    <3>3. CASE (e \in log /\ f \in R) \/ (e \in R /\ f \in log)
      BY <1>3, <1>4, <2>3, <3>3
    <3> QED
      BY <3>1, <3>2, <3>3
  <2> QED
    BY <2>1, <2>2, <2>3 DEF Ranked
<1> QED
  BY <1>1, <1>2, <1>6, <1>7, <1>8

\* One row is such an extension.
LEMMA OneRow ==
    ASSUME nextId \in Nat, log \in SUBSET Event, Ranked(log, nextId), nextId <= MaxId,
           NEW name \in {SNAP_EVENT, TOMBSTONE_EVENT}, NEW state \in SUBSET Ids
    PROVE  /\ Extends({Append1(name, state)}, 1)
           /\ Append1(name, state).name = name /\ Append1(name, state).id = nextId
           /\ Append1(name, state).state = state
           /\ Append1(name, state).version = HeadVersion + 1
<1> DEFINE e == Append1(name, state)
<1>1. HeadVersion \in Int /\ -1 <= HeadVersion /\ HeadVersion < nextId
  BY TopIs, SourcingAssumption
<1>2. e.id = nextId /\ e.version = HeadVersion + 1 /\ e.name = name /\ e.state = state
  BY DEF Append1
<1>3. nextId \in Ids /\ HeadVersion + 1 \in Ids
  BY <1>1, SourcingAssumption
<1>4. e \in Event
  BY <1>3 DEF Append1, Event
<1> HIDE DEF e
<1>5. Extends({e}, 1)
  BY <1>1, <1>2, <1>4 DEF Extends
<1> QED
  BY <1>2, <1>5 DEF e

\* Truncation leaves the seed alone.
LEMMA SeedTop ==
    ASSUME nextId \in Nat, log \in SUBSET Event, Ranked(log, nextId), nextId <= MaxId,
           NEW name \in {SNAP_EVENT, TOMBSTONE_EVENT}, NEW state \in SUBSET Ids,
           NEW e, e = [id |-> nextId, version |-> 0, name |-> name, state |-> state],
           log' = {e}, nextId' = nextId + 1
    PROVE  /\ log' \in SUBSET Event /\ Ranked(log, nextId)'
           /\ HeadId' = nextId /\ HeadVersion' = 0 /\ HeadId < HeadId'
           /\ Latest(log') = e /\ log' # {}
<1>1. nextId \in Ids /\ 0 \in Ids
  BY SourcingAssumption
<1>2. e \in Event /\ e.id = nextId /\ e.version = 0
  BY <1>1 DEF Event
<1>3. log' \in SUBSET Event /\ log' # {}
  BY <1>2
<1>4. Latest(log') = e
  BY <1>2, <1>3, LatestOf
<1>5. HeadId' = nextId /\ HeadVersion' = 0
  BY <1>2, <1>3, <1>4 DEF HeadId, HeadVersion
<1>6. HeadId < nextId
  BY TopIs
<1>7. Ranked(log, nextId)'
  BY <1>2 DEF Ranked
<1> QED
  BY <1>3, <1>4, <1>5, <1>6, <1>7

\* Pruning leaves the head where it is.
LEMMA PruneTop ==
    ASSUME nextId \in Nat, log \in SUBSET Event, Ranked(log, nextId),
           log' \subseteq log, log # {} => Latest(log) \in log', nextId' = nextId
    PROVE  /\ log' \in SUBSET Event /\ Ranked(log, nextId)'
           /\ HeadId' = HeadId /\ HeadVersion' = HeadVersion
           /\ Closed(log)' = Closed(log)
<1>1. log' \in SUBSET Event /\ Ranked(log, nextId)'
  BY DEF Ranked
<1>2. CASE log = {}
  <2>1. log' = {}
    BY <1>2
  <2> QED
    BY <1>1, <1>2, <2>1 DEF HeadId, HeadVersion, Closed
<1>3. CASE log # {}
  <2>1. \A e \in log : e.id < Latest(log).id \/ e = Latest(log)
    <3>1. \A e \in log : e.id \in Nat /\ e.id <= HeadId /\ (e.id = HeadId => e = Latest(log))
      BY TopIs
    <3>2. HeadId = Latest(log).id /\ HeadId \in Int
      BY <1>3, TopIs, SourcingAssumption
    <3> QED
      BY <3>1, <3>2
  <2>2. Latest(log') = Latest(log)
    BY <1>1, <1>3, <2>1, LatestOf
  <2>3. log' # {}
    BY <1>3
  <2> QED
    BY <1>1, <1>3, <2>2, <2>3 DEF HeadId, HeadVersion, Closed
<1> QED
  BY <1>2, <1>3

\* What a prune removes lies below a snapshot that stays, which is older than
\* the cutoff and not above the cap.
LEMMA PrefixIs ==
    ASSUME log \in SUBSET Event, nextId \in Nat, Ranked(log, nextId), NEW cl,
           Prefix(cl) # {}
    PROVE  \E snap \in log :
              /\ snap.name = SNAP_EVENT /\ snap.id < cl.before /\ snap.id <= cl.cap
              /\ Prefix(cl) = {e \in log : e.id < snap.id}
              /\ snap \notin Prefix(cl)
<1> DEFINE fit == {e \in log : e.name = SNAP_EVENT /\ e.id < cl.before /\ e.id <= cl.cap}
<1>1. fit # {} /\ Prefix(cl) = {e \in log : e.id < Latest(fit).id}
  BY DEF Prefix
<1>2. Latest(fit) \in fit
  BY <1>1, LatestIs
<1>3. Latest(fit) \in log /\ Latest(fit).name = SNAP_EVENT
      /\ Latest(fit).id < cl.before /\ Latest(fit).id <= cl.cap
  BY <1>2
<1> HIDE DEF fit
<1>4. ~(Latest(fit).id < Latest(fit).id)
  BY <1>3, TopIs
<1> QED
  BY <1>1, <1>3, <1>4

-----------------------------------------------------------------------------
(* The steps of the calls.                                                 *)

\* What every step may assume.
LEMMA BaseHas ==
    ASSUME Base
    PROVE  /\ log \in SUBSET Event /\ nextId \in Nat /\ written \in SUBSET Ids
           /\ cache \in [Caches -> Folded] /\ call \in [Calls -> Call]
           /\ policy \in Policy /\ closer \in [Closers -> Closer]
           /\ row \in [at : Position, mark : Position] /\ checkpoint \in Position
           /\ archived \in SUBSET Ids
           /\ Ranked(log, nextId)
           /\ HeadId \in Int /\ HeadVersion \in Int /\ HeadId < nextId
           /\ HeadId >= -1 /\ HeadVersion >= -1
           /\ Nothing \in Folded /\ Behind(Nothing) /\ Nothing.id = -1
           /\ Closed(log) => HeadId >= 0
<1>1. /\ log \in SUBSET Event /\ nextId \in Nat /\ written \in SUBSET Ids
      /\ cache \in [Caches -> Folded] /\ call \in [Calls -> Call]
      /\ policy \in Policy /\ closer \in [Closers -> Closer]
      /\ row \in [at : Position, mark : Position] /\ checkpoint \in Position
      /\ archived \in SUBSET Ids /\ Ranked(log, nextId)
  BY SourcingAssumption, CloseAssumption DEF Base, CloseTypeOK, TypeOK
<1>2. /\ HeadId \in Int /\ HeadVersion \in Int /\ HeadId < nextId
      /\ HeadId >= -1 /\ HeadVersion >= -1
      /\ (log = {} => HeadId = -1 /\ HeadVersion = -1 /\ ~Closed(log))
      /\ (log # {} => HeadId >= 0)
  BY <1>1, TopIs, SourcingAssumption
<1>3. Nothing \in Folded /\ Nothing.id = -1 /\ Nothing.version = -1
  BY SourcingAssumption DEF Nothing, Folded
<1>4. Behind(Nothing)
  BY <1>2, <1>3 DEF Behind
<1> QED
  BY <1>1, <1>2, <1>3, <1>4

\* The checkpoints in anybody's hands.
Hands == {Nothing} \cup {cache[k] : k \in Caches} \cup {call[c].got : c \in Calls}

LEMMA HandsAre ==
    ASSUME Base, NEW f \in Hands
    PROVE  f \in Folded /\ Behind(f) /\ (Closed(log) => f.id < HeadId)
<1>1. CASE f = Nothing
  BY <1>1, BaseHas
<1>2. ASSUME NEW k \in Caches, f = cache[k]
      PROVE  f \in Folded /\ Behind(f) /\ (Closed(log) => f.id < HeadId)
  BY <1>2, BaseHas DEF Base, HandInv, ClosedInv
<1>3. ASSUME NEW c \in Calls, f = call[c].got
      PROVE  f \in Folded /\ Behind(f) /\ (Closed(log) => f.id < HeadId)
  BY <1>3, BaseHas DEF Base, HandInv, ClosedInv, Call
<1> QED
  BY <1>1, <1>2, <1>3 DEF Hands

\* The call has just loaded the open stream.
Loads(c) ==
    call[c].at = "query" /\ ~Closed(log) /\ call'[c].got = Load(call[c].got)

\* A call goes on without appending.
Moves(c) ==
    \/ call'[c] = call[c]
    \/ /\ call'[c].got \in Hands \/ Loads(c)
       /\ call'[c].at # "idle" => call'[c].kind \in policy.kinds
       /\ call'[c].at \in {"commit", "snap"} => call'[c].kind # "load"
       /\ c \in Decided' =>
             \/ c \in Decided /\ call'[c].got = call[c].got /\ call'[c].kind = call[c].kind
             \/ Loads(c)

\* Caches are written with what is in somebody's hands, and no row is.
CallsMove ==
    /\ UNCHANGED <<log, nextId, written>>
    /\ cache' \in [Caches -> Folded] /\ \A k \in Caches : cache'[k] \in Hands
    /\ call' \in [Calls -> Call] /\ \A c \in Calls : Moves(c)

\* A call appends m rows R to the open stream, on the state it has loaded or
\* without a look at it.
Appends(c, R, m) ==
    /\ m \in Nat \ {0} /\ Extends(R, m) /\ ~Closed(log)
    /\ log' = log \cup R /\ nextId' = nextId + m
    /\ \A e \in R : e.name # TOMBSTONE_EVENT
    /\ written' = written \cup IdsOf(Domain(R))
    /\ cache' \in [Caches -> Folded]
    /\ \A k \in Caches : cache'[k] \in {cache[k], Nothing}
    /\ call' \in [Calls -> Call] /\ \A d \in Calls \ {c} : call'[d] = call[d]
    /\ \/ call'[c] = Idle /\ \A e \in R : e.name \in Names
       \/ /\ c \in Decided /\ call[c].got.version = HeadVersion
          /\ call'[c].at \in {"snap", "put"} /\ call'[c].kind = call[c].kind
          /\ call'[c].got.id = nextId + m - 1 /\ call'[c].got.version = HeadVersion + m
          /\ call'[c].got.state = call[c].got.state \cup IdsOf(Domain(R))
          /\ \/ \A e \in R : e.name \in Names
             \/ \A e \in R : e.name = SNAP_EVENT /\ e.state = call[c].got.state

\* An action finds its version only on an open stream.
LEMMA OpenAt ==
    ASSUME Base, NEW c \in Decided
    PROVE  /\ Accepts(Expected(call[c])) => ~Closed(log)
           /\ call[c].got.version = HeadVersion => ~Closed(log)
<1> SUFFICES ASSUME Closed(log)
             PROVE  /\ ~Accepts(Expected(call[c]))
                    /\ call[c].got.version # HeadVersion
  OBVIOUS
<1>1. call[c].kind = "act" /\ call[c].got.version \in 0 .. HeadVersion - 1
  BY DEF Base, ClosedInv
<1>2. Expected(call[c]) = call[c].got.version
  BY <1>1 DEF Expected
<1> QED
  BY <1>1, <1>2, BaseHas DEF Accepts

\* What Query makes of a load.
LEMMA QueryMoves ==
    ASSUME Base, NEW c \in Calls, Query(c),
           call'[c].at # "idle" => call'[c].kind \in policy.kinds
    PROVE  CallsMove
<1> DEFINE f == call[c].got
           got == Load(f)
<1>1. /\ log \in SUBSET Event /\ nextId \in Nat /\ Ranked(log, nextId)
      /\ call \in [Calls -> Call] /\ cache \in [Caches -> Folded] /\ call[c] \in Call
  BY BaseHas
<1>2. f \in Hands
  BY DEF Hands
<1>3. f \in Folded /\ Behind(f) /\ (Closed(log) => f.id < HeadId)
  BY <1>2, HandsAre
<1>4. /\ got \in Folded
      /\ Above(f) # {} => (Closed(Above(f)) <=> Closed(log))
      /\ f.id < HeadId => Above(f) # {}
  BY <1>1, <1>3, LoadTop
<1>5. call[c].at = "query"
  BY DEF Query
<1>6. \/ ~Closed(log) /\ Update(c, "fill", got)
      \/ End(c)
      \/ ~Closed(log) /\ call[c].kind # "load" /\ Update(c, "commit", got)
  <2>1. CASE Above(f) = {}
    <3>1. ~Closed(log) /\ ~Fillable(Above(f)) /\ ~Closed(Above(f))
      BY <1>3, <1>4, <2>1 DEF Fillable, Closed
    <3>2. Loaded(c, got)
      BY <3>1 DEF Query
    <3> QED
      BY <3>1, <3>2 DEF Loaded
  <2>2. CASE Above(f) # {} /\ Closed(log)
    <3>1. ~Fillable(Above(f)) /\ Closed(Above(f))
      BY <1>4, <2>2 DEF Fillable
    <3> QED
      BY <3>1 DEF Query
  <2>3. CASE Above(f) # {} /\ ~Closed(log)
    <3>1. Fillable(Above(f))
      BY <1>4, <2>3 DEF Fillable
    <3> QED
      BY <2>3, <3>1 DEF Query
  <2> QED
    BY <2>1, <2>2, <2>3
<1> HIDE DEF got
<1>7. /\ call' \in [Calls -> Call] /\ \A d \in Calls \ {c} : call'[d] = call[d]
      /\ \/ call'[c].kind = "load" /\ call'[c].got = Nothing /\ call'[c].at = "idle"
         \/ /\ ~Closed(log) /\ call'[c].got = got /\ call'[c].kind = call[c].kind
            /\ \/ call'[c].at = "fill"
               \/ call'[c].at = "commit" /\ call[c].kind # "load"
  <2>1. CASE End(c)
    <3>1. call'[c] = Idle
      BY <1>1, <2>1 DEF End
    <3> QED
      BY <1>1, <2>1, <3>1, EndIs DEF Idle
  <2>2. CASE ~Closed(log) /\ Update(c, "fill", got)
    <3>1. "fill" \in Phases
      BY DEF Phases
    <3> QED
      BY <1>1, <1>4, <2>2, <3>1, UpdateIs
  <2>3. CASE ~Closed(log) /\ call[c].kind # "load" /\ Update(c, "commit", got)
    <3>1. "commit" \in Phases
      BY DEF Phases
    <3> QED
      BY <1>1, <1>4, <2>3, <3>1, UpdateIs
  <2> QED
    BY <1>6, <2>1, <2>2, <2>3
<1>8. Moves(c)
  <2>1. CASE call'[c].kind = "load" /\ call'[c].got = Nothing /\ call'[c].at = "idle"
    BY <2>1 DEF Moves, Hands, Decided
  <2>2. CASE call'[c].got = got /\ ~Closed(log) /\ call'[c].at \in {"fill", "commit"}
             /\ (call'[c].at = "commit" => call'[c].kind # "load")
    <3>1. Loads(c)
      BY <1>5, <2>2 DEF Loads, got
    <3> QED
      BY <2>2, <3>1 DEF Moves
  <2> QED
    BY <1>7, <2>1, <2>2
<1>9. \A d \in Calls : Moves(d)
  BY <1>7, <1>8 DEF Moves
<1>10. UNCHANGED <<log, nextId, written, cache>>
  BY DEF Query
<1> QED
  BY <1>1, <1>7, <1>9, <1>10 DEF CallsMove, Hands

\* A call that ends, wherever its cache write goes.
LEMMA EndMoves ==
    ASSUME Base, NEW c \in Calls, End(c),
           UNCHANGED <<log, nextId, written>>,
           cache' \in [Caches -> Folded], \A k \in Caches : cache'[k] \in Hands
    PROVE  CallsMove
<1>1. call \in [Calls -> Call]
  BY BaseHas
<1>2. call'[c] = Idle
  BY <1>1 DEF End
<1>3. /\ call' \in [Calls -> Call] /\ \A d \in Calls \ {c} : call'[d] = call[d]
      /\ call'[c].at = "idle" /\ call'[c].got = Nothing
  BY <1>1, <1>2, EndIs DEF Idle
<1>4. \A d \in Calls : Moves(d)
  BY <1>3 DEF Moves, Hands, Decided
<1> QED
  BY <1>3, <1>4 DEF CallsMove

\* What a call leaves in the cache is what it has in hand, or nothing.
LEMMA RememberHands ==
    ASSUME Base, NEW c \in Calls, Remember(CacheOf[c], call[c].got) \/ Forget(CacheOf[c])
    PROVE  cache' \in [Caches -> Folded] /\ \A k \in Caches : cache'[k] \in Hands
<1>1. /\ cache \in [Caches -> Folded] /\ CacheOf[c] \in Caches
      /\ Nothing \in Folded /\ call[c].got \in Folded
  BY BaseHas, SourcingAssumption DEF Call
<1>2. PICK f \in {Nothing, call[c].got} : Remember(CacheOf[c], f)
  BY DEF Forget
<1>3. f \in Folded /\ f \in Hands
  BY <1>1, <1>2 DEF Hands
<1>4. cache' \in [Caches -> Folded] /\ \A k \in Caches : cache'[k] \in {cache[k], f}
  BY <1>1, <1>2, <1>3, RememberIs
<1> QED
  BY <1>3, <1>4 DEF Hands

\* Every other step of a call that appends nothing.
LEMMA OtherMoves ==
    ASSUME Base, NEW c \in Calls, call'[c].at # "idle" => call'[c].kind \in policy.kinds,
           \/ \E kind \in Kinds[c] : Begin(c, kind)
           \/ Reload(c) \/ Fill(c) \/ Conflict(c) \/ Put(c) \/ Stop(c)
    PROVE  CallsMove
<1>1. /\ call \in [Calls -> Call] /\ cache \in [Caches -> Folded] /\ call[c] \in Call
      /\ CacheOf[c] \in Caches /\ Nothing \in Hands /\ cache[CacheOf[c]] \in Hands
      /\ call[c].got \in Hands /\ Nothing \in Folded /\ call[c].got \in Folded
      /\ cache[CacheOf[c]] \in Folded
  BY BaseHas, SourcingAssumption DEF Hands, Call
<1>2. \A k \in Caches : cache[k] \in Hands
  BY DEF Hands
<1>3. CASE Put(c) \/ Stop(c)
  <2>1. End(c) /\ UNCHANGED <<log, nextId, written>>
    BY <1>3 DEF Put, Stop
  <2>2. cache' \in [Caches -> Folded] /\ \A k \in Caches : cache'[k] \in Hands
    BY <1>1, <1>2, <1>3, RememberHands DEF Put, Stop
  <2> QED
    BY <2>1, <2>2, EndMoves
<1>4. ASSUME NEW kind \in Kinds[c], Begin(c, kind) PROVE CallsMove
  <2>1. PICK pin \in IF kind = "pinned" THEN 0 .. HeadVersion ELSE {-1} :
          call' = [call EXCEPT ![c] = [at |-> "query", kind |-> kind,
                                       got |-> cache[CacheOf[c]], pin |-> pin, tries |-> 0]]
    BY <1>4 DEF Begin
  <2>2. pin \in Position
    <3>1. HeadVersion \in Position
      BY BaseHas, TopIs
    <3> QED
      BY <3>1, SourcingAssumption
  <2>3. [at |-> "query", kind |-> kind, got |-> cache[CacheOf[c]], pin |-> pin, tries |-> 0]
          \in Call
    BY <1>1, <2>2, SourcingAssumption DEF Call, Phases
  <2>4. /\ call' \in [Calls -> Call] /\ \A d \in Calls \ {c} : call'[d] = call[d]
        /\ call'[c].at = "query" /\ call'[c].got = cache[CacheOf[c]]
    BY <1>1, <2>1, <2>3
  <2>5. \A d \in Calls : Moves(d)
    BY <1>1, <2>4 DEF Moves, Decided
  <2>6. UNCHANGED <<log, nextId, written, cache>>
    BY <1>4 DEF Begin
  <2> QED
    BY <1>1, <1>2, <2>4, <2>5, <2>6 DEF CallsMove
<1>5. CASE Reload(c)
  <2>1. "query" \in Phases
    BY DEF Phases
  <2>2. /\ call' \in [Calls -> Call] /\ \A d \in Calls \ {c} : call'[d] = call[d]
        /\ call'[c].at = "query" /\ call'[c].got = cache[CacheOf[c]]
    BY <1>1, <1>5, <2>1, UpdateIs DEF Reload
  <2>3. \A d \in Calls : Moves(d)
    BY <1>1, <2>2 DEF Moves, Decided
  <2>4. UNCHANGED <<log, nextId, written, cache>>
    BY <1>5 DEF Reload
  <2> QED
    BY <1>1, <1>2, <2>2, <2>3, <2>4 DEF CallsMove
<1>6. CASE Fill(c)
  <2>1. UNCHANGED <<log, nextId, written>> /\ call[c].at = "fill"
    BY <1>6 DEF Fill
  <2>2. cache' \in [Caches -> Folded] /\ \A k \in Caches : cache'[k] \in Hands
    BY <1>6, RememberHands DEF Fill
  <2>3. CASE call[c].kind = "load"
    <3>1. End(c)
      BY <1>6, <2>3 DEF Fill, Loaded
    <3> QED
      BY <2>1, <2>2, <3>1, EndMoves
  <2>4. CASE call[c].kind # "load"
    <3>1. Update(c, "commit", call[c].got) /\ "commit" \in Phases
      BY <1>6, <2>4 DEF Fill, Loaded, Phases
    <3>2. /\ call' \in [Calls -> Call] /\ \A d \in Calls \ {c} : call'[d] = call[d]
          /\ call'[c].at = "commit" /\ call'[c].got = call[c].got
          /\ call'[c].kind = call[c].kind
      BY <1>1, <3>1, UpdateIs
    <3>3. c \in Decided
      BY <2>1, <2>4 DEF Decided
    <3>4. \A d \in Calls : Moves(d)
      BY <1>1, <2>4, <3>2, <3>3 DEF Moves
    <3> QED
      BY <2>1, <2>2, <3>2, <3>4 DEF CallsMove
  <2> QED
    BY <2>3, <2>4
<1>7. CASE Conflict(c)
  <2>1. UNCHANGED <<log, nextId, written>>
    BY <1>7 DEF Conflict
  <2>2. cache' \in [Caches -> Folded] /\ \A k \in Caches : cache'[k] \in Hands
    BY <1>7, RememberHands DEF Conflict
  <2>3. CASE End(c)
    BY <2>1, <2>2, <2>3, EndMoves
  <2>4. CASE ~End(c)
    <3>1. /\ ~GivesUp(call[c])
          /\ call' = [call EXCEPT ![c].at = "reload", ![c].got = Nothing, ![c].tries = @ + 1]
      BY <1>7, <2>4 DEF Conflict
    <3>2. call[c].tries + 1 \in 0 .. MaxRetries
      BY <1>1, <3>1, SourcingAssumption DEF GivesUp, Call
    <3>3. [call[c] EXCEPT !.at = "reload", !.got = Nothing, !.tries = @ + 1] \in Call
      BY <1>1, <3>2 DEF Call, Phases
    <3>4. call' = [call EXCEPT ![c] =
                     [call[c] EXCEPT !.at = "reload", !.got = Nothing, !.tries = @ + 1]]
      BY <1>1, <3>1
    <3>5. /\ call' \in [Calls -> Call] /\ \A d \in Calls \ {c} : call'[d] = call[d]
          /\ call'[c] = [call[c] EXCEPT !.at = "reload", !.got = Nothing, !.tries = @ + 1]
      BY <1>1, <3>3, <3>4
    <3>6. call'[c].at = "reload" /\ call'[c].got = Nothing
      BY <1>1, <3>5 DEF Call
    <3>7. \A d \in Calls : Moves(d)
      BY <1>1, <3>5, <3>6 DEF Moves, Decided
    <3> QED
      BY <2>1, <2>2, <3>5, <3>7 DEF CallsMove
  <2> QED
    BY <2>3, <2>4
<1> QED
  BY <1>3, <1>4, <1>5, <1>6, <1>7

\* Snap gives the snapshot up, or appends it on the state it was taken of.
LEMMA SnapMoves ==
    ASSUME Base, NEW c \in Calls, Snap(c),
           call'[c].at # "idle" => call'[c].kind \in policy.kinds
    PROVE  CallsMove \/ \E R, m : Appends(c, R, m)
<1> DEFINE got == call[c].got
           e == Append1(SNAP_EVENT, got.state)
<1>1. /\ call \in [Calls -> Call] /\ cache \in [Caches -> Folded] /\ call[c] \in Call
      /\ got \in Folded /\ got.state \in SUBSET Ids /\ "put" \in Phases
      /\ log \in SUBSET Event /\ nextId \in Nat /\ Ranked(log, nextId)
  BY BaseHas DEF Call, Folded, Phases
<1>2. c \in Decided /\ call[c].at = "snap"
  BY DEF Snap, Decided, Base, CallInv
<1>3. CASE Update(c, "put", got) /\ UNCHANGED <<log, nextId>>
  <2>1. /\ call' \in [Calls -> Call] /\ \A d \in Calls \ {c} : call'[d] = call[d]
        /\ call'[c].at = "put" /\ call'[c].got = got
    BY <1>1, <1>3, UpdateIs
  <2>2. \A d \in Calls : Moves(d)
    BY <2>1 DEF Moves, Hands, Decided
  <2>3. UNCHANGED <<log, nextId, written, cache>>
    BY <1>3 DEF Snap
  <2> QED
    BY <1>1, <2>1, <2>2, <2>3 DEF CallsMove, Hands
<1>4. CASE /\ SnapAccepts(got) /\ nextId <= MaxId
           /\ log' = log \cup {e} /\ nextId' = nextId + 1
           /\ Update(c, "put", [state |-> got.state, version |-> e.version, id |-> e.id])
  <2>1. /\ Extends({e}, 1) /\ e.name = SNAP_EVENT /\ e.id = nextId /\ e.state = got.state
        /\ e.version = HeadVersion + 1 /\ e \in Event
    BY <1>1, <1>4, OneRow DEF Extends
  <2> HIDE DEF e
  <2>2. [state |-> got.state, version |-> e.version, id |-> e.id] \in Folded
    BY <1>1, <2>1 DEF Folded, Event
  <2>3. /\ call' \in [Calls -> Call] /\ \A d \in Calls \ {c} : call'[d] = call[d]
        /\ call'[c].at = "put" /\ call'[c].kind = call[c].kind
        /\ call'[c].got = [state |-> got.state, version |-> e.version, id |-> e.id]
    BY <1>1, <1>4, <2>2, UpdateIs
  <2>4. call'[c].got.id = nextId + 1 - 1 /\ call'[c].got.version = HeadVersion + 1
        /\ call'[c].got.state = got.state
    BY <1>1, <2>1, <2>3
  <2>5. got.version = HeadVersion /\ ~Closed(log)
    BY <1>2, <1>4, OpenAt DEF SnapAccepts
  <2>6. IdsOf(Domain({e})) = {} /\ e.name # TOMBSTONE_EVENT
    BY <2>1, SourcingAssumption DEF IdsOf, Domain, SNAP_EVENT, TOMBSTONE_EVENT
  <2>7. written' = written /\ cache' = cache
    BY DEF Snap
  <2>8. /\ call'[c].got.state = got.state \cup IdsOf(Domain({e}))
        /\ written' = written \cup IdsOf(Domain({e}))
        /\ \A r \in {e} : r.name = SNAP_EVENT /\ r.state = got.state
        /\ \A r \in {e} : r.name # TOMBSTONE_EVENT
    BY <2>1, <2>4, <2>6, <2>7
  <2>9. /\ log' = log \cup {e} /\ nextId' = nextId + 1 /\ 1 \in Nat \ {0}
        /\ cache' \in [Caches -> Folded] /\ \A k \in Caches : cache'[k] = cache[k]
    BY <1>1, <1>4, <2>7
  <2> HIDE DEF got
  <2>10. Appends(c, {e}, 1)
    BY <1>2, <2>1, <2>3, <2>4, <2>5, <2>8, <2>9 DEF Appends, got
  <2> QED
    BY <2>10
<1> QED
  BY <1>3, <1>4 DEF Snap

LEMMA CommitAppends ==
    ASSUME Base, NEW c \in Calls, NEW n \in Nat \ {0}, NEW names \in [1 .. n -> Names],
           Commit(c, names)
    PROVE  \E R, m : Appends(c, R, m)
<1> DEFINE R == Rows(names)
           got == [state |-> call[c].got.state \cup IdsOf(R),
                   version |-> HeadVersion + n, id |-> nextId + n - 1]
<1>1. /\ call \in [Calls -> Call] /\ cache \in [Caches -> Folded] /\ call[c] \in Call
      /\ call[c].got \in Folded /\ call[c].got.state \in SUBSET Ids
      /\ CacheOf[c] \in Caches /\ Nothing \in Folded
      /\ nextId \in Nat /\ HeadVersion \in Position /\ HeadVersion < nextId
      /\ HeadVersion \in Int /\ HeadVersion >= -1
  BY BaseHas, TopIs, SourcingAssumption DEF Call, Folded
<1>2. Len(names) = n
  OBVIOUS
<1>3. /\ nextId + n - 1 <= MaxId /\ log' = log \cup R /\ nextId' = nextId + n
      /\ written' = written \cup IdsOf(R)
      /\ IF Contiguous(call[c].got)
         THEN (\E at \in {"snap", "put"} : Update(c, at, got)) /\ UNCHANGED cache
         ELSE Forget(CacheOf[c]) /\ End(c)
  BY <1>2 DEF Commit
<1>4. /\ R \in SUBSET Event
      /\ \A e \in R : /\ nextId <= e.id /\ e.id < nextId + n
                      /\ e.version = e.id - nextId + HeadVersion + 1 /\ e.name \in Names
      /\ \A e, f \in R : e.id = f.id => e = f
      /\ \E e \in R : e.id = nextId + n - 1
  BY <1>1, <1>3, RowsAre
<1>5. c \in Decided /\ ~Closed(log)
  <2>1. call[c].at = "commit" /\ Accepts(Expected(call[c]))
    BY DEF Commit
  <2>2. c \in Decided
    BY <2>1 DEF Decided, Base, CallInv
  <2> QED
    BY <2>1, <2>2, OpenAt
<1> HIDE DEF R
<1>6. Extends(R, n)
  BY <1>4 DEF Extends
<1>7. Domain(R) = R /\ \A e \in R : e.name # TOMBSTONE_EVENT
  BY <1>4, SourcingAssumption DEF Domain
<1>8. CASE Contiguous(call[c].got)
  <2>1. PICK at \in {"snap", "put"} : Update(c, at, got)
    BY <1>3, <1>8
  <2>2. at \in Phases /\ got \in Folded
    <3>1. IdsOf(R) \in SUBSET Ids
      BY <1>4 DEF IdsOf, Event
    <3>2. HeadVersion + n \in Ids /\ nextId + n - 1 \in Ids
      BY <1>1, <1>3, SourcingAssumption
    <3> QED
      BY <1>1, <3>1, <3>2 DEF Phases, Folded
  <2>3. /\ call' \in [Calls -> Call] /\ \A d \in Calls \ {c} : call'[d] = call[d]
        /\ call'[c].at = at /\ call'[c].kind = call[c].kind /\ call'[c].got = got
    BY <1>1, <2>1, <2>2, UpdateIs
  <2>4. /\ call'[c].got.id = nextId + n - 1 /\ call'[c].got.version = HeadVersion + n
        /\ call'[c].got.state = call[c].got.state \cup IdsOf(R)
    BY <2>3
  <2>5. call[c].got.version = HeadVersion
    BY <1>8 DEF Contiguous
  <2>6. cache' = cache
    BY <1>3, <1>8
  <2> HIDE DEF got
  <2>7. Appends(c, R, n)
    BY <1>1, <1>3, <1>4, <1>5, <1>6, <1>7, <2>1, <2>3, <2>4, <2>5, <2>6 DEF Appends
  <2> QED
    BY <2>7
<1>9. CASE ~Contiguous(call[c].got)
  <2>1. Forget(CacheOf[c]) /\ End(c)
    BY <1>3, <1>9
  <2>2. cache' \in [Caches -> Folded] /\ \A k \in Caches : cache'[k] \in {cache[k], Nothing}
    BY <1>1, <2>1, RememberIs DEF Forget
  <2>3. call' \in [Calls -> Call] /\ \A d \in Calls \ {c} : call'[d] = call[d]
    BY <1>1, <2>1, EndIs
  <2>4. call'[c] = Idle
    BY <1>1, <2>1 DEF End
  <2>5. Appends(c, R, n)
    BY <1>3, <1>4, <1>5, <1>6, <1>7, <2>2, <2>3, <2>4 DEF Appends
  <2> QED
    BY <2>5
<1> QED
  BY <1>8, <1>9

\* A step of a call or of a cache.
LEMMA CallMoves ==
    ASSUME Base, CallStep \/ ((\E k \in Caches : Evict(k)) /\ UNCHANGED closing)
    PROVE  /\ UNCHANGED closing
           /\ \/ CallsMove
              \/ /\ \E c \in Calls : \E R, m : Appends(c, R, m)
                 /\ ~(policy.alone /\ Scanning)
                 /\ \A c \in Calls : call'[c].at # "idle" => call'[c].kind \in policy.kinds
<1>1. CASE CallStep
  <2>1. PICK c \in Calls : Step(c)
    BY <1>1 DEF CallStep
  <2>2. \A d \in Calls : call'[d].at # "idle" => call'[d].kind \in policy.kinds
    BY <1>1 DEF CallStep
  <2>3. CallsMove \/ \E R, m : Appends(c, R, m)
    <3>1. ASSUME NEW n \in 1 .. Batch, NEW names \in [1 .. n -> Names], Commit(c, names)
          PROVE  \E R, m : Appends(c, R, m)
      <4>1. n \in Nat \ {0}
        BY SourcingAssumption
      <4> QED
        BY <3>1, <4>1, CommitAppends
    <3> QED
      BY <2>1, <2>2, <3>1, QueryMoves, OtherMoves, SnapMoves DEF Step
  <2>4. ASSUME NEW R, NEW m, Appends(c, R, m) PROVE ~(policy.alone /\ Scanning)
    <3>1. /\ \E r \in R : r.id = nextId + m - 1
          /\ \A r \in R : nextId <= r.id
          /\ log' = log \cup R
      BY <2>4 DEF Appends, Extends
    <3>2. \A e \in log : e.id < nextId
      BY DEF Base, Ranked
    <3>3. nextId \in Nat /\ m \in Nat \ {0}
      BY <2>4, BaseHas DEF Appends
    <3>4. log' # log
      BY <3>1, <3>2, <3>3
    <3> QED
      BY <1>1, <3>4 DEF CallStep
  <2> QED
    BY <1>1, <2>2, <2>3, <2>4 DEF CallStep
<1>2. ASSUME NEW k \in Caches, Evict(k), UNCHANGED closing
      PROVE  CallsMove
  <2>1. cache' = [cache EXCEPT ![k] = Nothing] /\ UNCHANGED <<log, nextId, written, call>>
    BY <1>2 DEF Evict
  <2> QED
    BY <2>1, BaseHas DEF CallsMove, Moves, Hands
<1> QED
  BY <1>1, <1>2

-----------------------------------------------------------------------------
(* The base is kept by calls.                                              *)

\* What a moving call has in hand is not ahead of the head, nor a tombstone.
LEMMA MovesHand ==
    ASSUME Base, NEW c \in Calls, Moves(c)
    PROVE  /\ Behind(call'[c].got)
           /\ Closed(log) => call'[c].got.id < HeadId
<1>1. call[c].got \in Hands
  BY DEF Hands
<1>2. CASE call'[c].got \in Hands
  BY <1>2, HandsAre
<1>3. CASE Loads(c)
  <2>1. Load(call[c].got).id = HeadId /\ Load(call[c].got).version = HeadVersion
    BY <1>1, HandsAre, BaseHas, LoadTop
  <2> QED
    BY <1>3, <2>1, BaseHas DEF Loads, Behind
<1> QED
  BY <1>1, <1>2, <1>3 DEF Moves

LEMMA MovesBase == ASSUME Base, CallsMove, UNCHANGED closing PROVE Base'
<1>1. /\ HeadId' = HeadId /\ HeadVersion' = HeadVersion /\ Closed(log)' = Closed(log)
      /\ \A f : Behind(f)' = Behind(f)
  BY DEF CallsMove, HeadId, HeadVersion, Closed, Behind
<1>2. CloseTypeOK' /\ Ranked(log, nextId)' /\ HeadInv'
  BY <1>1 DEF CallsMove, closing, Base, CloseTypeOK, TypeOK, HeadInv
<1>3. HandInv'
  <2>1. \A k \in Caches : Behind(cache'[k])
    BY HandsAre DEF CallsMove
  <2>2. \A c \in Calls : Behind(call'[c].got)
    BY MovesHand DEF CallsMove
  <2> QED
    BY <1>1, <2>1, <2>2 DEF HandInv, Behind
<1>4. CallInv'
  <2>1. ASSUME NEW c \in Calls
        PROVE  /\ call'[c].at # "idle" => call'[c].kind \in policy'.kinds
               /\ call'[c].at \in {"commit", "snap"} => call'[c].kind # "load"
    <3>1. Moves(c) /\ policy' = policy
      BY DEF CallsMove, closing
    <3> QED
      BY <3>1 DEF Moves, Base, CallInv
  <2>2. ASSUME NEW c \in Decided' PROVE Dated(call'[c].got)
    <3>1. c \in Calls /\ Moves(c)
      BY DEF CallsMove, Decided
    <3>2. CASE Loads(c)
      <4>1. Load(call[c].got).id = HeadId /\ Load(call[c].got).version = HeadVersion
        BY <3>1, HandsAre, BaseHas, LoadTop DEF Hands
      <4> QED
        BY <3>2, <4>1, BaseHas DEF Loads, Dated
    <3>3. CASE c \in Decided /\ call'[c].got = call[c].got
      BY <3>3 DEF Base, CallInv
    <3>4. CASE call'[c] = call[c]
      <4>1. c \in Decided
        BY <3>1, <3>4, <2>2 DEF Decided
      <4> QED
        BY <3>4, <4>1 DEF Base, CallInv
    <3> QED
      BY <2>2, <3>1, <3>2, <3>3, <3>4 DEF Moves
  <2>3. \A f : Dated(f)' <=> (f.version <= HeadVersion /\ (f.version = HeadVersion => f.id = HeadId))
    BY <1>1 DEF Dated
  <2>4. \A c \in Decided' : Dated(call[c].got)'
    BY <1>1, <2>2 DEF Dated
  <2> QED
    BY <2>1, <2>4 DEF CallInv
<1>5. ClosedInv'
  <2> SUFFICES ASSUME Closed(log)
               PROVE  /\ Fulls(policy') # {}
                      /\ \A k \in Caches : cache'[k].id < HeadId
                      /\ \A c \in Calls : call'[c].got.id < HeadId
                      /\ \A c \in Decided' :
                            /\ call'[c].kind = "act"
                            /\ call'[c].got.version \in 0 .. HeadVersion - 1
    BY <1>1 DEF ClosedInv
  <2>1. Fulls(policy') # {}
    BY DEF closing, Base, ClosedInv
  <2>2. \A k \in Caches : cache'[k].id < HeadId
    BY HandsAre DEF CallsMove
  <2>3. \A c \in Calls : call'[c].got.id < HeadId
    BY MovesHand DEF CallsMove
  <2>4. ASSUME NEW c \in Decided'
        PROVE  /\ call'[c].kind = "act"
               /\ call'[c].got.version \in 0 .. HeadVersion - 1
    <3>1. c \in Calls /\ Moves(c) /\ ~Loads(c)
      BY DEF CallsMove, Decided, Loads
    <3>2. c \in Decided /\ call'[c].got = call[c].got /\ call'[c].kind = call[c].kind
      BY <2>4, <3>1 DEF Moves, Decided
    <3> QED
      BY <3>2 DEF Base, ClosedInv
  <2> QED
    BY <2>1, <2>2, <2>3, <2>4
<1>6. CloserInv'
  BY <1>1 DEF closing, Base, CloserInv, ModeOK, GuardOK
<1> QED
  BY <1>2, <1>3, <1>4, <1>5, <1>6 DEF Base

\* What an append does to the head, and to what is in hand.
LEMMA AppendsTop ==
    ASSUME Base, NEW c \in Calls, NEW R, NEW m, Appends(c, R, m)
    PROVE  /\ log' \in SUBSET Event /\ Ranked(log, nextId)'
           /\ HeadId' = nextId + m - 1 /\ HeadVersion' = HeadVersion + m
           /\ HeadId < HeadId' /\ HeadVersion < HeadVersion'
           /\ ~Closed(log') /\ nextId' \in 0 .. MaxId + 1
           /\ \A e \in R : nextId <= e.id /\ e.id <= HeadId' /\ e \in Event
           /\ written' \in SUBSET Ids
<1>1. /\ log' \in SUBSET Event /\ Ranked(log, nextId)'
      /\ HeadId' = nextId + m - 1 /\ HeadVersion' = HeadVersion + m
      /\ HeadId < HeadId' /\ HeadVersion < HeadVersion'
      /\ Latest(log') \in R /\ log' # {}
  BY BaseHas, AppendTop DEF Appends
<1>2. ~Closed(log')
  BY <1>1 DEF Appends, Closed
<1>3. /\ \A e \in R : nextId <= e.id /\ e.id < nextId + m /\ e \in Event
      /\ nextId \in Nat /\ m \in Nat /\ nextId' = nextId + m
      /\ \E e \in R : e.id = nextId + m - 1
  BY BaseHas DEF Appends, Extends
<1>4. nextId' \in 0 .. MaxId + 1
  <2>1. PICK e \in R : e.id = nextId + m - 1
    BY <1>3
  <2>2. e.id \in 0 .. MaxId
    BY <1>3, <2>1 DEF Event
  <2> QED
    BY <1>3, <2>1, <2>2, SourcingAssumption
<1>5. \A e \in R : e.id <= nextId + m - 1
  <2> TAKE e \in R
  <2>1. e.id \in Int
    BY <1>3, SourcingAssumption DEF Event
  <2> QED
    BY <1>3, <2>1
<1>6. written' \in SUBSET Ids
  <2>1. IdsOf(Domain(R)) \in SUBSET Ids
    BY <1>3 DEF IdsOf, Domain, Event
  <2> QED
    BY <2>1, BaseHas DEF Appends
<1> QED
  BY <1>1, <1>2, <1>3, <1>4, <1>5, <1>6

LEMMA AppendsBase ==
    ASSUME Base, NEW c \in Calls, NEW R, NEW m, Appends(c, R, m),
           UNCHANGED closing,
           \A d \in Calls : call'[d].at # "idle" => call'[d].kind \in policy.kinds
    PROVE  Base'
<1>1. /\ log' \in SUBSET Event /\ Ranked(log, nextId)'
      /\ HeadId' = nextId + m - 1 /\ HeadVersion' = HeadVersion + m
      /\ HeadId < HeadId' /\ HeadVersion < HeadVersion'
      /\ ~Closed(log') /\ nextId' \in 0 .. MaxId + 1
      /\ \A e \in R : nextId <= e.id /\ e.id <= HeadId' /\ e \in Event
      /\ written' \in SUBSET Ids /\ HeadId' \in Int /\ HeadVersion' \in Int
  <2>1. m \in Nat
    BY DEF Appends
  <2> QED
    BY <2>1, AppendsTop, BaseHas
<1>2. /\ HeadId \in Int /\ HeadVersion \in Int /\ ~Closed(log)
      /\ HeadId >= -1 /\ HeadVersion >= -1
  BY BaseHas DEF Appends
<1>3. CloseTypeOK'
  BY <1>1 DEF Appends, closing, Base, CloseTypeOK, TypeOK
<1>4. HeadInv'
  <2>1. \A e \in log' : e.name # TOMBSTONE_EVENT
    <3>1. ASSUME NEW e \in log, e.name = TOMBSTONE_EVENT PROVE FALSE
      <4>1. e.id = HeadId /\ log # {}
        BY <3>1 DEF Base, HeadInv
      <4>2. Latest(log) = e
        BY <4>1, BaseHas, TopIs
      <4> QED
        BY <1>2, <3>1, <4>1, <4>2 DEF Closed
    <3> QED
      BY <3>1 DEF Appends
  <2>2. ASSUME NEW i \in written' PROVE i <= HeadId'
    <3>1. CASE i \in written
      <4>1. i <= HeadId /\ i \in Int
        BY <3>1, BaseHas, SourcingAssumption DEF Base, HeadInv
      <4> QED
        BY <1>1, <1>2, <4>1
    <3>2. CASE i \in IdsOf(Domain(R))
      BY <1>1, <3>2 DEF IdsOf, Domain
    <3> QED
      BY <3>1, <3>2 DEF Appends
  <2> QED
    BY <2>1, <2>2 DEF HeadInv
<1>5. \A f \in Hands : f.id <= HeadId' /\ f.id # HeadId'
  <2> TAKE f \in Hands
  <2>1. f.id <= HeadId /\ f.id \in Int
    BY HandsAre, SourcingAssumption DEF Behind, Folded
  <2> QED
    BY <1>1, <1>2, <2>1
<1>6. \A d \in Calls \ {c} : call'[d] = call[d]
  BY DEF Appends
<1>7. \/ call'[c].got = Nothing /\ call'[c].at = "idle"
      \/ /\ c \in Decided /\ call'[c].at \in {"snap", "put"}
         /\ call'[c].kind = call[c].kind
         /\ call'[c].got.id = HeadId' /\ call'[c].got.version = HeadVersion'
  BY <1>1 DEF Appends, Idle
<1>8. HandInv'
  <2>1. \A k \in Caches : cache'[k].id <= HeadId' /\ cache'[k].id # HeadId'
    BY <1>5 DEF Appends, Hands
  <2>2. \A d \in Calls : call[d].got.id <= HeadId' /\ call[d].got.id # HeadId'
    BY <1>5 DEF Hands
  <2>3. Nothing.id <= HeadId' /\ Nothing.id # HeadId'
    BY <1>5 DEF Hands
  <2>4. \A d \in Calls :
           \/ call'[d].got.id <= HeadId' /\ call'[d].got.id # HeadId'
           \/ call'[d].got.id = HeadId' /\ call'[d].got.version = HeadVersion'
    BY <1>6, <1>7, <2>2, <2>3
  <2> QED
    BY <1>1, <2>1, <2>4 DEF HandInv, Behind
<1>9. CallInv'
  <2>1. ASSUME NEW d \in Calls
        PROVE  /\ call'[d].at # "idle" => call'[d].kind \in policy'.kinds
               /\ call'[d].at \in {"commit", "snap"} => call'[d].kind # "load"
    <3>1. policy' = policy
      BY DEF closing
    <3>2. CASE d # c
      BY <1>6, <3>1, <3>2 DEF Base, CallInv
    <3>3. CASE d = c
      BY <1>7, <3>1, <3>3 DEF Decided
    <3> QED
      BY <3>2, <3>3
  <2>2. ASSUME NEW d \in Decided' PROVE Dated(call[d].got)'
    <3>1. d \in Calls
      BY DEF Decided
    <3>2. CASE d # c
      <4>1. d \in Decided /\ call'[d] = call[d]
        BY <1>6, <2>2, <3>1, <3>2 DEF Decided
      <4>2. call[d].got.version <= HeadVersion /\ call[d].got.version \in Int
        BY <3>1, <4>1, BaseHas, SourcingAssumption DEF Base, CallInv, Dated, Call, Folded
      <4> QED
        BY <1>1, <1>2, <4>1, <4>2 DEF Dated
    <3>3. CASE d = c
      <4>1. call'[c].at # "idle"
        BY <2>2, <3>3 DEF Decided
      <4> QED
        BY <1>1, <1>7, <3>3, <4>1 DEF Dated
    <3> QED
      BY <3>2, <3>3
  <2> QED
    BY <2>1, <2>2 DEF CallInv
<1>10. ClosedInv'
  BY <1>1 DEF ClosedInv
<1>11. CloserInv'
  <2> SUFFICES ASSUME NEW k \in Closers PROVE (ModeOK(k, closer[k]) /\ GuardOK(closer[k]))'
    BY DEF CloserInv
  <2>1. ModeOK(k, closer[k]) /\ GuardOK(closer[k]) /\ closer' = closer /\ policy' = policy
    BY DEF Base, CloserInv, closing
  <2>2. closer[k].head \in Int
    BY BaseHas, SourcingAssumption DEF Closer
  <2>3. closer[k].at = "warm" /\ closer[k].mode = "restart" =>
          closer[k].head <= HeadId' /\ closer[k].head # HeadId'
    BY <1>1, <1>2, <2>1, <2>2 DEF GuardOK
  <2> QED
    BY <1>1, <1>2, <2>1, <2>3 DEF ModeOK, GuardOK
<1> QED
  BY <1>1, <1>3, <1>4, <1>8, <1>9, <1>10, <1>11 DEF Base

-----------------------------------------------------------------------------
(* The base is kept by closers.                                            *)

LEMMA AwayOK ==
    /\ Away \in Closer /\ Away.at = "idle"
    /\ \A k \in Closers : ModeOK(k, Away) /\ GuardOK(Away)
<1>1. Away \in Closer
  BY SourcingAssumption DEF Away, Closer, ClosePhases, CloseModes
<1>2. Away.at = "idle"
  BY DEF Away
<1> QED
  BY <1>1, <1>2 DEF ModeOK, GuardOK, Scans, Guarded, FullPhases, WindowPhases

\* Whoever is not at work on a full close is not concerned by the guard.
LEMMA OtherPhases ==
    ASSUME NEW cl, cl.at \in {"idle", "markers"} \cup WindowPhases
    PROVE  GuardOK(cl)
BY DEF GuardOK, Scans, Guarded, WindowPhases

\* Two closers are not in a full close together.
LEMMA OneFull ==
    ASSUME Base, Careful(policy),
           NEW k \in Closers, closer[k].at \in FullPhases,
           NEW j \in Closers, j # k
    PROVE  /\ closer[j].at \notin FullPhases
           /\ Fulls(policy) # {} /\ ~policy.straddling /\ "pinned" \notin policy.kinds
<1>1. \A i \in Closers : closer[i].at \in FullPhases => i \in Fulls(policy)
  <2> SUFFICES ASSUME NEW i \in Closers, closer[i].at \in FullPhases
               PROVE  i \in Fulls(policy)
    OBVIOUS
  <2>1. ModeOK(i, closer[i]) /\ closer[i].at # "idle"
    BY DEF Base, CloserInv, FullPhases, Scans, Guarded
  <2> QED
    BY <2>1 DEF ModeOK, Fulls
<1> QED
  BY <1>1 DEF Careful

LEMMA FullIs ==
    ASSUME Base, Careful(policy), NEW k \in Closers, closer[k].at \in FullPhases
    PROVE  /\ Fulls(policy) # {} /\ ~policy.straddling /\ "pinned" \notin policy.kinds
           /\ closer[k].mode \in FullModes
<1>1. ModeOK(k, closer[k]) /\ closer[k].at # "idle"
  BY DEF Base, CloserInv, FullPhases, Scans, Guarded
<1>2. k \in Fulls(policy) /\ closer[k].mode \in FullModes
  BY <1>1 DEF ModeOK, Fulls
<1> QED
  BY <1>2 DEF Careful

\* A tombstone is behind no domain event, so the head without snapshots tells.
LEMMA ResumedIs ==
    ASSUME Base PROVE Closed({e \in log : e.name # SNAP_EVENT}) <=> Closed(log)
<1> DEFINE E == {e \in log : e.name # SNAP_EVENT}
<1>1. log \in SUBSET Event /\ E \in SUBSET Event /\ E \subseteq log
  BY BaseHas
<1>2. ASSUME Closed(E) PROVE Closed(log)
  <2>1. E # {} /\ Latest(E) \in E /\ Latest(E).name = TOMBSTONE_EVENT
    BY <1>1, <1>2, LatestIs DEF Closed
  <2>2. Latest(E) \in log /\ Latest(E).id = HeadId
    BY <1>1, <2>1 DEF Base, HeadInv
  <2>3. Latest(log) = Latest(E) /\ log # {}
    BY <2>2, BaseHas, TopIs
  <2> QED
    BY <2>1, <2>3 DEF Closed
<1>3. ASSUME Closed(log) PROVE Closed(E)
  <2>1. log # {} /\ Latest(log) \in log /\ Latest(log).name = TOMBSTONE_EVENT
        /\ HeadId = Latest(log).id
    BY <1>3, BaseHas, TopIs DEF Closed
  <2>2. Latest(log) \in E
    BY <2>1 DEF SNAP_EVENT, TOMBSTONE_EVENT
  <2>3. \A e \in E : e.id < Latest(log).id \/ e = Latest(log)
    <3>1. \A e \in log : e.id \in Nat /\ e.id <= HeadId /\ (e.id = HeadId => e = Latest(log))
      BY BaseHas, TopIs
    <3> QED
      BY <1>1, <2>1, <3>1, BaseHas
  <2> HIDE DEF E
  <2>4. Latest(E) = Latest(log)
    BY <1>1, <2>2, <2>3, LatestOf
  <2> QED
    BY <2>1, <2>2, <2>4 DEF Closed
<1> QED
  BY <1>2, <1>3

\* The closer moves on, and with it no row of the log nor any call.
Turns(k, cl) ==
    /\ cl \in Closer /\ closer' = [closer EXCEPT ![k] = cl]
    /\ ModeOK(k, cl) /\ GuardOK(cl)

LEMMA TurnsBase ==
    ASSUME Base, NEW k \in Closers, NEW cl, Turns(k, cl),
           UNCHANGED <<policy, sourcing>>, row' = row, checkpoint' = checkpoint,
           archived' \in SUBSET Ids
    PROVE  Base'
<1>1. /\ HeadId' = HeadId /\ HeadVersion' = HeadVersion /\ Closed(log)' = Closed(log)
      /\ \A f : Behind(f)' = Behind(f)
      /\ \A f : Dated(f)' = Dated(f)
      /\ Decided' = Decided
  BY DEF sourcing, HeadId, HeadVersion, Closed, Behind, Dated, Decided
<1>2. closer' \in [Closers -> Closer]
  BY BaseHas DEF Turns
<1>3. CloseTypeOK' /\ Ranked(log, nextId)' /\ HeadInv'
  BY <1>1, <1>2 DEF sourcing, Base, CloseTypeOK, TypeOK, HeadInv
<1>4. HandInv' /\ CallInv' /\ ClosedInv'
  BY <1>1 DEF sourcing, Base, HandInv, CallInv, ClosedInv
<1>5. CloserInv'
  <2> SUFFICES ASSUME NEW j \in Closers PROVE (ModeOK(j, closer[j]) /\ GuardOK(closer[j]))'
    BY DEF CloserInv
  <2>1. ModeOK(j, closer'[j]) /\ GuardOK(closer'[j])
    BY BaseHas DEF Turns, Base, CloserInv
  <2>2. policy' = policy
    OBVIOUS
  <2> QED
    BY <1>1, <2>1, <2>2 DEF ModeOK, GuardOK
<1> QED
  BY <1>3, <1>4, <1>5 DEF Base

\* A closer that only goes from one phase to another.
LEMMA GotoIs ==
    ASSUME Base, NEW k \in Closers, NEW at \in ClosePhases, Goto(k, at)
    PROVE  LET cl == [closer[k] EXCEPT !.at = at]
           IN  /\ cl \in Closer /\ closer' = [closer EXCEPT ![k] = cl]
               /\ cl.at = at /\ cl.mode = closer[k].mode /\ cl.resumed = closer[k].resumed
               /\ cl.head = closer[k].head /\ cl.version = closer[k].version
               /\ cl.state = closer[k].state /\ cl.before = closer[k].before
               /\ cl.cap = closer[k].cap
<1> DEFINE cl == [closer[k] EXCEPT !.at = at]
<1>1. closer[k] \in Closer
  BY BaseHas
<1>2. cl \in Closer
  BY <1>1 DEF Closer
<1>3. closer' = [closer EXCEPT ![k] = cl]
  BY BaseHas DEF Goto
<1>4. /\ cl.at = at /\ cl.mode = closer[k].mode /\ cl.resumed = closer[k].resumed
      /\ cl.head = closer[k].head /\ cl.version = closer[k].version
      /\ cl.state = closer[k].state /\ cl.before = closer[k].before
      /\ cl.cap = closer[k].cap
  BY <1>1 DEF Closer
<1> QED
  BY <1>2, <1>3, <1>4

\* The steps of a closer that leave the log and the cache alone.
LEMMA ScansTurn ==
    ASSUME Base, NEW k \in Closers,
           \/ Start(k) \/ ScanMarkers(k) \/ ScanDomain(k) \/ ScanVersion(k)
           \/ CatchUp(k) \/ Probe(k) \/ Interrupt(k)
    PROVE  /\ UNCHANGED <<policy, sourcing, row, checkpoint, archived>>
           /\ \E cl : Turns(k, cl)
<1>1. UNCHANGED <<policy, sourcing, row, checkpoint, archived>>
  BY DEF Start, ScanMarkers, ScanDomain, ScanVersion, CatchUp, Probe, Interrupt
<1>2. /\ closer[k] \in Closer /\ ModeOK(k, closer[k]) /\ GuardOK(closer[k])
      /\ closer \in [Closers -> Closer]
  BY BaseHas DEF Base, CloserInv
<1> SUFFICES \E cl : Turns(k, cl)
  BY <1>1
<1>3. CASE Leave(k)
  <2>1. Turns(k, Away)
    BY <1>3, AwayOK DEF Leave, Go, Turns
  <2> QED
    BY <2>1
<1>4. CASE Start(k)
  <2>1. PICK mode \in policy.modes[k] :
          closer' = [closer EXCEPT ![k] =
              IF mode = "window"
              THEN [Away EXCEPT !.at = "checkpoint", !.mode = mode, !.before = nextId]
              ELSE [Away EXCEPT !.at = "markers", !.mode = mode]]
    BY <1>4 DEF Start, Go
  <2>2. mode \in CloseModes /\ nextId \in 0 .. MaxId + 1
    BY BaseHas DEF Policy, Base, CloseTypeOK, TypeOK
  <2>3. CASE mode = "window"
    <3> DEFINE cl == [Away EXCEPT !.at = "checkpoint", !.mode = mode, !.before = nextId]
    <3>1. cl \in Closer
      BY <2>2, AwayOK DEF Closer, ClosePhases
    <3>2. cl.at = "checkpoint" /\ cl.mode = mode
      BY DEF Away
    <3>3. closer' = [closer EXCEPT ![k] = cl]
      BY <2>1, <2>3
    <3> HIDE DEF cl
    <3>4. ModeOK(k, cl) /\ GuardOK(cl)
      BY <2>3, <3>2, OtherPhases DEF ModeOK, FullPhases, Scans, Guarded, WindowPhases
    <3>9. Turns(k, cl)
      BY <3>1, <3>3, <3>4 DEF Turns
    <3> QED
      BY <3>9
  <2>4. CASE mode # "window"
    <3> DEFINE cl == [Away EXCEPT !.at = "markers", !.mode = mode]
    <3>1. cl \in Closer
      BY <2>2, AwayOK DEF Closer, ClosePhases
    <3>2. cl.at = "markers" /\ cl.mode = mode
      BY DEF Away
    <3>3. closer' = [closer EXCEPT ![k] = cl]
      BY <2>1, <2>4
    <3> HIDE DEF cl
    <3>4. ModeOK(k, cl) /\ GuardOK(cl)
      BY <2>2, <2>4, <3>2, OtherPhases
         DEF ModeOK, FullPhases, Scans, Guarded, WindowPhases, FullModes, CloseModes
    <3>9. Turns(k, cl)
      BY <3>1, <3>3, <3>4 DEF Turns
    <3> QED
      BY <3>9
  <2> QED
    BY <2>3, <2>4
<1>5. CASE ScanMarkers(k)
  <2> DEFINE r == Closed({e \in log : e.name # SNAP_EVENT})
             cl == [closer[k] EXCEPT !.at = "domain", !.resumed = r]
  <2>1. r \in BOOLEAN
    BY DEF Closed
  <2>2. r <=> Closed(log)
    BY ResumedIs
  <2>3. closer' = [closer EXCEPT ![k] = cl] /\ closer[k].at = "markers"
    BY <1>5 DEF ScanMarkers, Go, At
  <2> HIDE DEF r
  <2>4. cl \in Closer /\ cl.at = "domain" /\ cl.mode = closer[k].mode /\ cl.resumed = r
    BY <1>2, <2>1 DEF Closer, ClosePhases
  <2> HIDE DEF cl
  <2>5. ModeOK(k, cl)
    BY <1>2, <2>3, <2>4 DEF ModeOK, FullPhases, Scans, WindowPhases
  <2>6. GuardOK(cl)
    BY <2>2, <2>4 DEF GuardOK, Scans, Guarded
  <2>9. Turns(k, cl)
    BY <2>3, <2>4, <2>5, <2>6 DEF Turns
  <2> QED
    BY <2>9
<1>6. CASE ~Leave(k) /\ (ScanDomain(k) \/ ScanVersion(k))
  <2>1. PICK at \in {"version", "catchup"}, head \in Position, version \in Position :
          /\ closer' = [closer EXCEPT ![k] =
                 [closer[k] EXCEPT !.at = at, !.head = head, !.version = version]]
          /\ closer[k].at \in Scans \ {"markers"}
    <3>1. CASE ScanVersion(k)
      <4>1. closer' = [closer EXCEPT ![k] =
                 [closer[k] EXCEPT !.at = "catchup", !.version = HeadVersion]]
            /\ closer[k].at = "version"
        BY <3>1 DEF ScanVersion, Go, At
      <4>2. [closer[k] EXCEPT !.at = "catchup", !.version = HeadVersion]
              = [closer[k] EXCEPT !.at = "catchup", !.head = closer[k].head,
                                  !.version = HeadVersion]
        BY <1>2 DEF Closer
      <4>3. HeadVersion \in Position /\ closer[k].head \in Position
        BY <1>2, BaseHas, TopIs DEF Closer
      <4> QED
        BY <4>1, <4>2, <4>3 DEF Scans
    <3>2. CASE ScanDomain(k)
      <4> DEFINE id == Latest(Domain(log)).id
      <4>1. /\ Domain(log) # {} /\ closer[k].at = "domain"
            /\ closer' = [closer EXCEPT ![k] = [closer[k] EXCEPT !.at = "version", !.head = id]]
        BY <1>6, <3>2 DEF ScanDomain, Go, At
      <4>2. Domain(log) \in SUBSET Event
        BY BaseHas DEF Domain
      <4>3. id \in Position
        BY <4>1, <4>2, LatestIs DEF Event
      <4> HIDE DEF id
      <4>4. [closer[k] EXCEPT !.at = "version", !.head = id]
              = [closer[k] EXCEPT !.at = "version", !.head = id, !.version = closer[k].version]
        BY <1>2 DEF Closer
      <4>5. closer[k].version \in Position
        BY <1>2 DEF Closer
      <4> QED
        BY <4>1, <4>3, <4>4, <4>5 DEF Scans
    <3> QED
      BY <1>6, <3>1, <3>2
  <2> DEFINE cl == [closer[k] EXCEPT !.at = at, !.head = head, !.version = version]
  <2>2. /\ cl \in Closer /\ cl.at = at /\ cl.mode = closer[k].mode
        /\ cl.resumed = closer[k].resumed
    BY <1>2, <2>1 DEF Closer, ClosePhases
  <2>3. closer' = [closer EXCEPT ![k] = cl]
    BY <2>1
  <2> HIDE DEF cl
  <2>4. ModeOK(k, cl)
    BY <1>2, <2>1, <2>2 DEF ModeOK, FullPhases, Scans, WindowPhases
  <2>5. GuardOK(cl)
    BY <1>2, <2>1, <2>2 DEF GuardOK, Scans, Guarded
  <2>9. Turns(k, cl)
    BY <2>2, <2>3, <2>4, <2>5 DEF Turns
  <2> QED
    BY <2>9
<1>7. CASE ~Leave(k) /\ (CatchUp(k) \/ Probe(k))
  <2>1. PICK at \in {"probe", "guard"} : Goto(k, at) /\ closer[k].at \in {"catchup", "probe"}
    BY <1>7 DEF CatchUp, Probe, At
  <2> DEFINE cl == [closer[k] EXCEPT !.at = at]
  <2>2. at \in ClosePhases
    BY DEF ClosePhases
  <2>3. /\ cl \in Closer /\ closer' = [closer EXCEPT ![k] = cl]
        /\ cl.at = at /\ cl.mode = closer[k].mode /\ cl.resumed = closer[k].resumed
    BY <2>1, <2>2, GotoIs
  <2> HIDE DEF cl
  <2>4. ModeOK(k, cl)
    BY <1>2, <2>1, <2>3 DEF ModeOK, FullPhases, Scans, WindowPhases
  <2>5. GuardOK(cl)
    BY <1>2, <2>1, <2>3 DEF GuardOK, Scans, Guarded
  <2>9. Turns(k, cl)
    BY <2>3, <2>4, <2>5 DEF Turns
  <2> QED
    BY <2>9
<1>8. Interrupt(k) => Leave(k)
  BY DEF Interrupt
<1> QED
  BY <1>1, <1>3, <1>4, <1>5, <1>6, <1>7, <1>8

LEMMA WindowTurns ==
    ASSUME Base, NEW k \in Closers,
           ReadCheckpoint(k) \/ ProbeCap(k) \/ Pending(k) \/ Keep(k)
    PROVE  /\ UNCHANGED <<policy, sourcing, row, checkpoint>>
           /\ archived' \in SUBSET Ids
           /\ \E cl : Turns(k, cl)
<1>1. UNCHANGED <<policy, sourcing, row, checkpoint>>
  BY DEF ReadCheckpoint, ProbeCap, Pending, Keep
<1>2. /\ closer[k] \in Closer /\ ModeOK(k, closer[k]) /\ GuardOK(closer[k])
      /\ closer \in [Closers -> Closer] /\ log \in SUBSET Event
      /\ archived \in SUBSET Ids
  BY BaseHas DEF Base, CloserInv
<1>3. archived' \in SUBSET Ids
  <2>1. IdsOf({e \in Domain(log) : e.id < closer[k].before}) \in SUBSET Ids
    BY <1>2 DEF IdsOf, Domain, Event
  <2>2. archived' = archived \/
        archived' = archived \cup IdsOf({e \in Domain(log) : e.id < closer[k].before})
    BY DEF ReadCheckpoint, ProbeCap, Pending, Keep
  <2> QED
    BY <1>2, <2>1, <2>2
<1> SUFFICES \E cl : Turns(k, cl)
  BY <1>1, <1>3
<1>4. CASE Leave(k)
  <2>1. Turns(k, Away)
    BY <1>4, AwayOK DEF Leave, Go, Turns
  <2> QED
    BY <2>1
<1>5. CASE ReadCheckpoint(k) \/ ProbeCap(k)
  <2>1. PICK at \in {"cap", "pending"}, cap \in Position :
          /\ closer' = [closer EXCEPT ![k] = [closer[k] EXCEPT !.at = at, !.cap = cap]]
          /\ closer[k].at \in {"checkpoint", "cap"}
    <3>1. CASE ReadCheckpoint(k)
      BY <3>1, BaseHas DEF ReadCheckpoint, Go, At
    <3>2. CASE ProbeCap(k)
      <4>1. Cap(closer[k].cap) \in Position
        BY <1>2, BaseHas DEF Cap, Larger, Closer
      <4> QED
        BY <3>2, <4>1 DEF ProbeCap, Go, At
    <3> QED
      BY <1>5, <3>1, <3>2
  <2> DEFINE cl == [closer[k] EXCEPT !.at = at, !.cap = cap]
  <2>2. cl \in Closer /\ cl.at = at /\ cl.mode = closer[k].mode
    BY <1>2, <2>1 DEF Closer, ClosePhases
  <2>3. closer' = [closer EXCEPT ![k] = cl]
    BY <2>1
  <2> HIDE DEF cl
  <2>4. ModeOK(k, cl)
    BY <1>2, <2>1, <2>2 DEF ModeOK, FullPhases, Scans, Guarded, WindowPhases
  <2>5. GuardOK(cl)
    BY <2>1, <2>2, OtherPhases DEF WindowPhases
  <2>9. Turns(k, cl)
    BY <2>2, <2>3, <2>4, <2>5 DEF Turns
  <2> QED
    BY <2>9
<1>6. CASE ~Leave(k) /\ (Pending(k) \/ Keep(k))
  <2>1. PICK at \in {"keep", "prune"} : Goto(k, at) /\ closer[k].at \in {"pending", "keep"}
    BY <1>6 DEF Pending, Keep, At
  <2> DEFINE cl == [closer[k] EXCEPT !.at = at]
  <2>2. at \in ClosePhases
    BY DEF ClosePhases
  <2>3. /\ cl \in Closer /\ closer' = [closer EXCEPT ![k] = cl]
        /\ cl.at = at /\ cl.mode = closer[k].mode
    BY <2>1, <2>2, GotoIs
  <2> HIDE DEF cl
  <2>4. ModeOK(k, cl)
    BY <1>2, <2>1, <2>3 DEF ModeOK, FullPhases, Scans, Guarded, WindowPhases
  <2>5. GuardOK(cl)
    BY <2>1, <2>3, OtherPhases DEF WindowPhases
  <2>9. Turns(k, cl)
    BY <2>3, <2>4, <2>5 DEF Turns
  <2> QED
    BY <2>9
<1> QED
  BY <1>1, <1>3, <1>4, <1>5, <1>6

\* Archiving, and loading the seed, which the tombstone keeps out of the cache.
LEMMA GuardedTurns ==
    ASSUME Base, NEW k \in Closers, Seed(k) \/ Archive(k)
    PROVE  /\ UNCHANGED <<policy, sourcing, row, checkpoint>>
           /\ archived' \in SUBSET Ids
           /\ \E cl : Turns(k, cl)
           /\ Seed(k) => closer' = [closer EXCEPT ![k] =
                 [closer[k] EXCEPT !.at = "archive", !.state = Load(cache[CloserCache]).state]]
<1>1. /\ closer[k] \in Closer /\ ModeOK(k, closer[k]) /\ GuardOK(closer[k])
      /\ closer \in [Closers -> Closer] /\ log \in SUBSET Event
      /\ archived \in SUBSET Ids /\ cache[CloserCache] \in Hands
  BY BaseHas, CloseAssumption DEF Base, CloserInv, Hands
<1>2. CASE Archive(k)
  <2> DEFINE cl == [closer[k] EXCEPT !.at = "truncate"]
  <2>1. /\ Goto(k, "truncate") /\ closer[k].at = "archive" /\ "truncate" \in ClosePhases
        /\ UNCHANGED <<policy, sourcing, row, checkpoint>>
        /\ archived' = archived \cup IdsOf(Domain(log))
    BY <1>2 DEF Archive, At, ClosePhases
  <2>2. /\ cl \in Closer /\ closer' = [closer EXCEPT ![k] = cl]
        /\ cl.at = "truncate" /\ cl.mode = closer[k].mode
    BY <2>1, GotoIs
  <2>3. IdsOf(Domain(log)) \in SUBSET Ids
    BY <1>1 DEF IdsOf, Domain, Event
  <2>4. ~Seed(k)
    BY <2>1 DEF Seed, At
  <2> HIDE DEF cl
  <2>5. ModeOK(k, cl)
    BY <1>1, <2>1, <2>2 DEF ModeOK, FullPhases, Scans, Guarded, WindowPhases
  <2>6. GuardOK(cl)
    BY <1>1, <2>1, <2>2 DEF GuardOK, Scans, Guarded
  <2>7. Turns(k, cl)
    BY <2>2, <2>5, <2>6 DEF Turns
  <2> QED
    BY <1>1, <2>1, <2>3, <2>4, <2>7
<1>3. CASE Seed(k)
  <2> DEFINE f == cache[CloserCache]
             cl == [closer[k] EXCEPT !.at = "archive", !.state = Load(f).state]
  <2>1. closer[k].at = "seed" /\ closer' = [closer EXCEPT ![k] = cl]
        /\ UNCHANGED <<policy, log, nextId, written, call, row, checkpoint, archived>>
        /\ (~Fillable(Above(f)) => UNCHANGED cache)
    BY <1>3 DEF Seed, At, Go
  <2>2. Closed(log)
    BY <1>1, <2>1 DEF GuardOK, Guarded
  <2>3. Load(f) \in Folded /\ Closed(Above(f))
    BY <1>1, <2>2, HandsAre, BaseHas, LoadTop
  <2>4. UNCHANGED cache
    BY <2>1, <2>3 DEF Fillable
  <2>5. cl \in Closer /\ cl.at = "archive" /\ cl.mode = closer[k].mode
    BY <1>1, <2>3 DEF Closer, ClosePhases, Folded
  <2>6. ModeOK(k, cl)
    <3> HIDE DEF cl
    <3> QED
      BY <1>1, <2>1, <2>5 DEF ModeOK, FullPhases, Scans, Guarded, WindowPhases
  <2>7. GuardOK(cl)
    <3> HIDE DEF cl
    <3> QED
      BY <2>2, <2>5 DEF GuardOK, Scans, Guarded
  <2>8. Turns(k, cl)
    BY <2>1, <2>5, <2>6, <2>7 DEF Turns
  <2> QED
    BY <1>1, <2>1, <2>4, <2>8 DEF sourcing
<1> QED
  BY <1>2, <1>3

\* A step of a full closer does not disturb the other closers.
LEMMA OthersOK ==
    ASSUME Base, Careful(policy), policy' = policy,
           NEW k \in Closers, closer[k].at \in FullPhases,
           NEW cl \in Closer, closer' = [closer EXCEPT ![k] = cl],
           ModeOK(k, cl), GuardOK(closer[k])'
    PROVE  CloserInv' /\ closer' \in [Closers -> Closer]
<1>1. closer \in [Closers -> Closer]
  BY BaseHas
<1>2. ASSUME NEW j \in Closers PROVE (ModeOK(j, closer[j]) /\ GuardOK(closer[j]))'
  <2>1. CASE j = k
    <3>1. closer'[j] = cl
      BY <1>1, <2>1
    <3>2. ModeOK(k, closer[j])'
      BY <3>1 DEF ModeOK
    <3>3. GuardOK(closer[j])'
      BY <2>1
    <3> QED
      BY <2>1, <3>2, <3>3
  <2>2. CASE j # k
    <3>1. closer'[j] = closer[j] /\ closer[j] \in Closer
      BY <1>1, <2>2
    <3>2. closer[j].at \notin FullPhases /\ ModeOK(j, closer[j])
      BY <2>2, OneFull DEF Base, CloserInv
    <3>3. ModeOK(j, closer[j])'
      BY <3>1, <3>2 DEF ModeOK
    <3>4. GuardOK(closer[j])'
      BY <3>1, <3>2 DEF GuardOK, FullPhases, Scans, Guarded
    <3> QED
      BY <3>3, <3>4
  <2> QED
    BY <2>1, <2>2
<1> QED
  BY <1>1, <1>2 DEF CloserInv

\* The tombstone: who has decided before it does not find its version again.
LEMMA GuardBase ==
    ASSUME Base, Careful(policy), NEW k \in Closers, Guard(k) PROVE Base'
<1>1. closer[k].at = "guard" /\ closer[k] \in Closer /\ closer \in [Closers -> Closer]
      /\ ModeOK(k, closer[k]) /\ GuardOK(closer[k])
  BY BaseHas DEF Guard, At, Base, CloserInv
<1>2. /\ closer[k].at \in FullPhases /\ (closer[k].resumed <=> Closed(log))
      /\ closer[k].mode \in FullModes
  BY <1>1 DEF FullPhases, Scans, GuardOK, ModeOK
<1>3. CASE Leave(k) /\ UNCHANGED <<log, nextId>>
  <2>1. Turns(k, Away)
    BY <1>3, AwayOK DEF Leave, Go, Turns
  <2>2. UNCHANGED <<policy, sourcing>> /\ row' = row /\ checkpoint' = checkpoint
        /\ archived' \in SUBSET Ids
    BY <1>3, BaseHas DEF Guard, sourcing
  <2> QED
    BY <2>1, <2>2, TurnsBase
<1> DEFINE cl == [closer[k] EXCEPT !.at = AfterGuard(closer[k].mode)]
<1>4. AfterGuard(closer[k].mode) \in {"seed", "archive"}
      /\ AfterGuard(closer[k].mode) \in ClosePhases
  BY DEF AfterGuard, ClosePhases
<1>5. Goto(k, AfterGuard(closer[k].mode)) =>
        /\ cl \in Closer /\ closer' = [closer EXCEPT ![k] = cl]
        /\ cl.at \in {"seed", "archive"} /\ cl.mode = closer[k].mode
  BY <1>4, GotoIs
<1> HIDE DEF cl
<1>6. Goto(k, AfterGuard(closer[k].mode)) => ModeOK(k, cl)
  BY <1>1, <1>2, <1>5 DEF ModeOK, FullPhases, Scans, Guarded, WindowPhases
<1>7. CASE closer[k].resumed /\ Goto(k, AfterGuard(closer[k].mode)) /\ UNCHANGED <<log, nextId>>
  <2>1. GuardOK(cl)
    BY <1>2, <1>5, <1>7 DEF GuardOK, Scans, Guarded
  <2>2. Turns(k, cl)
    BY <1>5, <1>6, <1>7, <2>1 DEF Turns
  <2>3. UNCHANGED <<policy, sourcing>> /\ row' = row /\ checkpoint' = checkpoint
        /\ archived' \in SUBSET Ids
    BY <1>7, BaseHas DEF Guard, sourcing
  <2> QED
    BY <2>2, <2>3, TurnsBase
<1>8. CASE /\ ~closer[k].resumed /\ nextId <= MaxId
           /\ policy.straddling \/ \A c \in Decided : Expected(call[c]) # -1
           /\ log' = log \cup {Append1(TOMBSTONE_EVENT, {})}
           /\ nextId' = nextId + 1
           /\ Goto(k, AfterGuard(closer[k].mode))
  <2> DEFINE e == Append1(TOMBSTONE_EVENT, {})
  <2>0. /\ UNCHANGED <<policy, written, cache, call, row, checkpoint, archived>>
        /\ log \in SUBSET Event /\ nextId \in Nat /\ Ranked(log, nextId)
        /\ HeadId \in Int /\ HeadVersion \in Int /\ HeadVersion >= -1
        /\ HeadId < nextId /\ HeadId >= -1 /\ ~Closed(log)
    BY <1>2, <1>8, BaseHas DEF Guard
  <2>1. Extends({e}, 1) /\ e.name = TOMBSTONE_EVENT /\ e.id = nextId
    BY <2>0, <1>8, OneRow
  <2> HIDE DEF e
  <2>2. /\ log' = log \cup {e} /\ nextId' = nextId + 1
    BY <1>8 DEF e
  <2>3. /\ log' \in SUBSET Event /\ Ranked(log, nextId)'
        /\ HeadId' = nextId /\ HeadVersion' = HeadVersion + 1
        /\ HeadId < HeadId' /\ Latest(log') = e /\ log' # {}
    BY <2>0, <2>1, <2>2, AppendTop
  <2>4. Closed(log)'
    BY <2>1, <2>3 DEF Closed
  <2>5. HeadInv'
    <3>1. ASSUME NEW f \in log', f.name = TOMBSTONE_EVENT PROVE f.id = HeadId'
      <4>1. CASE f \in log
        <5>1. f.id = HeadId /\ log # {}
          BY <3>1, <4>1 DEF Base, HeadInv
        <5>2. Latest(log) = f
          BY <2>0, <4>1, <5>1, TopIs
        <5> QED
          BY <2>0, <3>1, <5>1, <5>2 DEF Closed
      <4> QED
        BY <2>1, <2>2, <2>3, <4>1
    <3>2. ASSUME NEW i \in written' PROVE i <= HeadId'
      <4>1. i <= HeadId /\ i \in Int
        BY <2>0, <3>2, BaseHas, SourcingAssumption DEF Base, HeadInv
      <4> QED
        BY <2>0, <2>3, <4>1
    <3> QED
      BY <3>1, <3>2 DEF HeadInv
  <2>6. \A f \in Hands : f.id < HeadId' /\ f.id # HeadId' /\ f.id <= HeadId'
    <3> TAKE f \in Hands
    <3>1. f.id <= HeadId /\ f.id \in Int
      BY HandsAre, SourcingAssumption DEF Behind, Folded
    <3> QED
      BY <2>0, <2>3, <3>1
  <2>7. HandInv'
    BY <2>0, <2>6 DEF HandInv, Behind, Hands
  <2>8. Decided' = Decided
    BY <2>0 DEF Decided
  <2>9. \A c \in Decided : c \in Calls /\ call[c].got.version \in Int
                           /\ call[c].got.version <= HeadVersion /\ call[c].got.version >= -1
    <3> TAKE c \in Decided
    <3>1. c \in Calls /\ Dated(call[c].got)
      BY DEF Decided, Base, CallInv
    <3>2. call[c].got \in Folded
      BY <3>1, HandsAre DEF Hands
    <3> QED
      BY <3>1, <3>2, SourcingAssumption DEF Dated, Folded
  <2>10. CallInv'
    <3>1. \A c \in Decided : Dated(call[c].got)'
      BY <2>0, <2>3, <2>9 DEF Dated
    <3> QED
      BY <2>0, <2>8, <3>1 DEF CallInv, Base
  <2>11. ClosedInv'
    <3>1. Fulls(policy) # {} /\ ~policy.straddling /\ "pinned" \notin policy.kinds
      BY <1>2, FullIs
    <3>2. ASSUME NEW c \in Decided
          PROVE  /\ call[c].kind = "act"
                 /\ call[c].got.version \in 0 .. HeadVersion' - 1
      <4>1. c \in Calls /\ call[c].kind # "load" /\ call[c].kind \in policy.kinds
            /\ call[c].kind \in CallKinds /\ Expected(call[c]) # -1
        BY <1>8, <3>1, BaseHas DEF Decided, Base, CallInv, Call
      <4>2. call[c].kind = "act"
        BY <3>1, <4>1 DEF CallKinds, Expected
      <4>3. call[c].got.version # -1
        BY <4>1, <4>2 DEF Expected
      <4> QED
        BY <2>0, <2>3, <2>9, <4>2, <4>3
    <3> QED
      BY <2>0, <2>6, <2>8, <3>1, <3>2 DEF ClosedInv, Hands
  <2>12. GuardOK(closer[k])'
    <3>1. closer'[k].at \in {"seed", "archive"}
      BY <1>1, <1>5, <1>8
    <3> QED
      BY <2>4, <3>1 DEF GuardOK, Scans, Guarded
  <2>13. CloserInv' /\ closer' \in [Closers -> Closer]
    BY <1>2, <1>5, <1>6, <1>8, <2>0, <2>12, OthersOK
  <2>14. CloseTypeOK'
    <3>1. nextId' \in 0 .. MaxId + 1
      BY <1>8, <2>0, SourcingAssumption
    <3> QED
      BY <2>0, <2>3, <2>13, <3>1 DEF Base, CloseTypeOK, TypeOK
  <2> QED
    BY <2>3, <2>5, <2>7, <2>10, <2>11, <2>13, <2>14 DEF Base
<1> QED
  BY <1>3, <1>7, <1>8 DEF Guard

LEMMA TruncateBase ==
    ASSUME Base, Careful(policy), NEW k \in Closers, Truncate(k) PROVE Base'
<1>1. closer[k].at = "truncate" /\ closer[k] \in Closer /\ closer \in [Closers -> Closer]
      /\ ModeOK(k, closer[k]) /\ GuardOK(closer[k])
  BY BaseHas DEF Truncate, At, Base, CloserInv
<1>2. closer[k].at \in FullPhases
  BY <1>1 DEF FullPhases, Guarded
<1> DEFINE name == IF closer[k].mode = "restart" THEN SNAP_EVENT ELSE TOMBSTONE_EVENT
           e == [id |-> nextId, version |-> 0, name |-> name, state |-> closer[k].state]
           cl == [closer[k] EXCEPT !.at = "warm", !.head = nextId]
<1>3. /\ nextId <= MaxId /\ log' = {e} /\ nextId' = nextId + 1
      /\ closer' = [closer EXCEPT ![k] = cl]
      /\ UNCHANGED <<policy, written, cache, call, row, checkpoint, archived>>
      /\ (policy.straddling \/ Decided = {})
  BY DEF Truncate, Go
<1>4. /\ name \in {SNAP_EVENT, TOMBSTONE_EVENT} /\ closer[k].state \in SUBSET Ids
      /\ log \in SUBSET Event /\ nextId \in Nat /\ Ranked(log, nextId)
      /\ HeadId \in Int
  BY <1>1, BaseHas DEF Closer
<1>5. /\ log' \in SUBSET Event /\ Ranked(log, nextId)'
      /\ HeadId' = nextId /\ HeadVersion' = 0 /\ HeadId < HeadId'
      /\ Latest(log') = e /\ log' # {}
  <2> HIDE DEF name
  <2> QED
    BY <1>3, <1>4, SeedTop
<1>6. e.name = name /\ e.id = nextId
  OBVIOUS
<1>7. closer[k].mode = "restart" => ~Closed(log)'
  BY <1>5, <1>6 DEF Closed, SNAP_EVENT, TOMBSTONE_EVENT
<1>8. cl \in Closer /\ cl.at = "warm" /\ cl.mode = closer[k].mode /\ cl.head = nextId
  <2>1. nextId \in Position
    BY <1>3, <1>4, SourcingAssumption
  <2> QED
    BY <1>1, <2>1 DEF Closer, ClosePhases
<1> HIDE DEF cl, e, name
<1>9. ModeOK(k, cl)
  BY <1>1, <1>8 DEF ModeOK, FullPhases, Scans, Guarded, WindowPhases
<1>10. GuardOK(closer[k])'
  <2>1. /\ closer'[k].at = "warm" /\ closer'[k].head = nextId
        /\ closer'[k].mode = closer[k].mode
    BY <1>1, <1>3, <1>8
  <2> QED
    BY <1>4, <1>5, <1>7, <2>1 DEF GuardOK, Scans, Guarded
<1>11. CloserInv' /\ closer' \in [Closers -> Closer]
  BY <1>2, <1>3, <1>8, <1>9, <1>10, OthersOK
<1>12. HeadInv'
  <2>1. \A f \in log' : f.id = HeadId'
    BY <1>3, <1>5, <1>6
  <2>2. ASSUME NEW i \in written' PROVE i <= HeadId'
    <3>1. i <= HeadId /\ i \in Int
      BY <1>3, <2>2, BaseHas, SourcingAssumption DEF Base, HeadInv
    <3> QED
      BY <1>4, <1>5, <3>1
  <2> QED
    BY <2>1, <2>2 DEF HeadInv
<1>13. \A f \in Hands : f.id < HeadId' /\ f.id # HeadId' /\ f.id <= HeadId'
  <2> TAKE f \in Hands
  <2>1. f.id <= HeadId /\ f.id \in Int
    BY HandsAre, SourcingAssumption DEF Behind, Folded
  <2> QED
    BY <1>4, <1>5, <2>1
<1>14. HandInv'
  BY <1>3, <1>13 DEF HandInv, Behind, Hands
<1>15. Decided' = {} /\ Fulls(policy) # {}
  <2>1. Fulls(policy) # {} /\ ~policy.straddling
    BY <1>2, FullIs
  <2> QED
    BY <1>3, <2>1 DEF Decided
<1>16. CallInv' /\ ClosedInv'
  BY <1>3, <1>13, <1>15 DEF CallInv, ClosedInv, Hands, Base
<1>17. CloseTypeOK'
  <2>1. nextId' \in 0 .. MaxId + 1
    BY <1>3, <1>4, SourcingAssumption
  <2> QED
    BY <1>3, <1>5, <1>11, <2>1 DEF Base, CloseTypeOK, TypeOK
<1> QED
  BY <1>5, <1>11, <1>12, <1>14, <1>16, <1>17 DEF Base

LEMMA WarmBase ==
    ASSUME Base, Careful(policy), NEW k \in Closers, Warm(k) PROVE Base'
<1>1. closer[k].at = "warm" /\ closer[k] \in Closer /\ closer \in [Closers -> Closer]
      /\ GuardOK(closer[k]) /\ cache \in [Caches -> Folded] /\ CloserCache \in Caches
  BY BaseHas, CloseAssumption DEF Warm, At, Base, CloserInv
<1> DEFINE f == IF closer[k].mode = "restart"
                THEN [state |-> closer[k].state, version |-> 0, id |-> closer[k].head]
                ELSE Nothing
<1>2. /\ cache' = [cache EXCEPT ![CloserCache] = f]
      /\ closer' = [closer EXCEPT ![k] = Away]
      /\ UNCHANGED <<policy, log, nextId, written, call, row, checkpoint, archived>>
  BY DEF Warm, Leave, Go
<1>3. f \in Folded /\ Behind(f) /\ (Closed(log) => f.id < HeadId)
  <2>1. CASE closer[k].mode = "restart"
    <3>1. f = [state |-> closer[k].state, version |-> 0, id |-> closer[k].head]
      BY <2>1
    <3>2. ~Closed(log) /\ closer[k].head <= HeadId /\ (closer[k].head = HeadId => HeadVersion = 0)
      BY <1>1, <2>1 DEF GuardOK
    <3>3. 0 \in Position
      BY SourcingAssumption
    <3> HIDE DEF f
    <3> QED
      BY <1>1, <3>1, <3>2, <3>3 DEF Behind, Folded, Closer
  <2>2. CASE closer[k].mode # "restart"
    BY <2>2, BaseHas
  <2> QED
    BY <2>1, <2>2
<1> HIDE DEF f
<1>4. /\ HeadId' = HeadId /\ HeadVersion' = HeadVersion /\ Closed(log)' = Closed(log)
      /\ Decided' = Decided
  BY <1>2 DEF HeadId, HeadVersion, Closed, Decided
<1>5. cache' \in [Caches -> Folded] /\ \A j \in Caches : cache'[j] \in {cache[j], f}
  BY <1>1, <1>2, <1>3
<1>6. HandInv' /\ ClosedInv'
  BY <1>2, <1>3, <1>4, <1>5 DEF Base, HandInv, ClosedInv, Behind
<1>7. HeadInv' /\ CallInv'
  BY <1>2, <1>4 DEF Base, HeadInv, CallInv, Dated
<1>8. closer' \in [Closers -> Closer]
  BY <1>1, <1>2, AwayOK
<1>9. CloserInv'
  <2> SUFFICES ASSUME NEW j \in Closers PROVE (ModeOK(j, closer[j]) /\ GuardOK(closer[j]))'
    BY DEF CloserInv
  <2>1. ModeOK(j, closer'[j]) /\ GuardOK(closer'[j]) /\ policy' = policy
    BY <1>1, <1>2, AwayOK DEF Base, CloserInv
  <2> QED
    BY <1>4, <2>1 DEF ModeOK, GuardOK
<1>10. CloseTypeOK' /\ Ranked(log, nextId)'
  BY <1>2, <1>5, <1>8 DEF Base, CloseTypeOK, TypeOK
<1> QED
  BY <1>6, <1>7, <1>9, <1>10 DEF Base

LEMMA PruneBase ==
    ASSUME Base, NEW k \in Closers, Prune(k)
    PROVE  /\ Base'
           /\ HeadId' = HeadId /\ HeadVersion' = HeadVersion /\ Closed(log)' = Closed(log)
<1>1. /\ log \in SUBSET Event /\ nextId \in Nat /\ Ranked(log, nextId)
      /\ closer \in [Closers -> Closer]
  BY BaseHas
<1>2. /\ log' = log \ Prefix(closer[k]) /\ closer' = [closer EXCEPT ![k] = Away]
      /\ UNCHANGED <<policy, nextId, written, cache, call, row, checkpoint, archived>>
  BY DEF Prune, Leave, Go
<1>3. log # {} => Latest(log) \in log'
  <2> SUFFICES ASSUME log # {}, Prefix(closer[k]) # {} PROVE Latest(log) \notin Prefix(closer[k])
    <3>1. log # {} => Latest(log) \in log
      BY <1>1, TopIs
    <3> QED
      BY <1>2, <3>1
  <2>1. PICK snap \in log : Prefix(closer[k]) = {e \in log : e.id < snap.id}
    BY <1>1, PrefixIs
  <2>2. snap.id <= Latest(log).id /\ snap.id \in Int /\ Latest(log).id \in Int
    BY <1>1, TopIs, BaseHas
  <2> QED
    BY <2>1, <2>2
<1>4. /\ log' \in SUBSET Event /\ Ranked(log, nextId)'
      /\ HeadId' = HeadId /\ HeadVersion' = HeadVersion
      /\ Closed(log)' = Closed(log)
  <2>1. log' \subseteq log /\ nextId' = nextId
    BY <1>2
  <2> QED
    BY <1>1, <1>3, <2>1, PruneTop
<1>5. Decided' = Decided
  BY <1>2 DEF Decided
<1>6. HandInv' /\ CallInv' /\ ClosedInv' /\ HeadInv'
  <2>1. HandInv'
    BY <1>2, <1>4 DEF Base, HandInv, Behind
  <2>2. CallInv'
    BY <1>2, <1>4, <1>5 DEF Base, CallInv, Dated
  <2>3. ClosedInv'
    BY <1>2, <1>4, <1>5 DEF Base, ClosedInv
  <2>4. HeadInv'
    BY <1>2, <1>4 DEF Base, HeadInv
  <2> QED
    BY <2>1, <2>2, <2>3, <2>4
<1>7. CloserInv'
  <2> SUFFICES ASSUME NEW j \in Closers PROVE (ModeOK(j, closer[j]) /\ GuardOK(closer[j]))'
    BY DEF CloserInv
  <2>1. ModeOK(j, closer'[j]) /\ GuardOK(closer'[j]) /\ policy' = policy
    BY <1>1, <1>2, AwayOK DEF Base, CloserInv
  <2> QED
    BY <1>4, <2>1 DEF ModeOK, GuardOK
<1>8. CloseTypeOK'
  <2>1. closer' \in [Closers -> Closer]
    BY <1>1, <1>2, AwayOK
  <2> QED
    BY <1>2, <1>4, <2>1 DEF Base, CloseTypeOK, TypeOK
<1> QED
  BY <1>4, <1>6, <1>7, <1>8 DEF Base

-----------------------------------------------------------------------------
(* Types, and the guard that holds the head.                               *)

LEMMA InitBase == CloseInit => Base
<1> SUFFICES ASSUME CloseInit PROVE Base
  OBVIOUS
<1>1. /\ log = {} /\ nextId = 0 /\ written = {} /\ cache = [k \in Caches |-> Nothing]
      /\ call = [c \in Calls |-> Idle] /\ policy \in Policies
      /\ row = [at |-> -1, mark |-> -1] /\ checkpoint = -1 /\ archived = {}
      /\ closer = [k \in Closers |-> Away]
  BY DEF CloseInit, Init
<1>2. HeadId = -1 /\ HeadVersion = -1 /\ ~Closed(log)
  BY <1>1 DEF HeadId, HeadVersion, Closed
<1>3. /\ Nothing \in Folded /\ Nothing.id = -1 /\ Nothing.version = -1
      /\ Idle \in Call /\ Idle.at = "idle" /\ Idle.got = Nothing
  BY IdleIs, SourcingAssumption DEF Nothing, Folded, Idle
<1>4. CloseTypeOK
  BY <1>1, <1>3, AwayOK, SourcingAssumption DEF CloseTypeOK, TypeOK
<1>5. Ranked(log, nextId) /\ HeadInv
  BY <1>1 DEF Ranked, HeadInv
<1>6. HandInv /\ CallInv
  <2>1. Decided = {}
    BY <1>1, <1>3 DEF Decided
  <2> QED
    BY <1>1, <1>2, <1>3, <2>1 DEF HandInv, CallInv, Behind
<1>7. ClosedInv
  BY <1>2 DEF ClosedInv
<1>8. CloserInv
  BY <1>1, AwayOK DEF CloserInv
<1> QED
  BY <1>4, <1>5, <1>6, <1>7, <1>8 DEF Base

\* Correlate and the consumer touch neither the stream nor the closers.
LEMMA RowHas ==
    ASSUME Base
    PROVE  /\ log \in SUBSET Event /\ nextId \in Nat /\ Ranked(log, nextId)
           /\ row \in [at : Position, mark : Position] /\ checkpoint \in Position
           /\ row.at \in Position /\ row.mark \in Position
           /\ row.at \in Int /\ row.mark \in Int /\ checkpoint \in Int
           /\ \A a, b : /\ Wanted(a, b) \in SUBSET Ids /\ Wanted(a, b) \in SUBSET Nat
                        /\ \A i \in Wanted(a, b) : i < nextId /\ a < i /\ i <= b
<1>0. /\ log \in SUBSET Event /\ nextId \in Nat /\ Ranked(log, nextId)
      /\ row \in [at : Position, mark : Position] /\ checkpoint \in Position
      /\ row.at \in Position /\ row.mark \in Position
      /\ row.at \in Int /\ row.mark \in Int /\ checkpoint \in Int
  BY BaseHas, SourcingAssumption
<1>1. \A a, b : /\ Wanted(a, b) \in SUBSET Ids /\ Wanted(a, b) \in SUBSET Nat
                /\ \A i \in Wanted(a, b) : i < nextId /\ a < i /\ i <= b
  BY <1>0, SourcingAssumption DEF Wanted, Event, Ranked
<1> QED
  BY <1>0, <1>1

LEMMA HandleIs ==
    ASSUME Base, Handle
    PROVE  /\ UNCHANGED <<policy, sourcing, archived, closer>>
           /\ row' \in [at : Position, mark : Position]
           /\ checkpoint' = checkpoint /\ row'.mark = row.mark
           /\ row'.at > row.at /\ row'.at <= row.mark
<1>0. /\ log \in SUBSET Event /\ nextId \in Nat /\ Ranked(log, nextId)
      /\ row \in [at : Position, mark : Position] /\ checkpoint \in Position
      /\ row.at \in Position /\ row.mark \in Position
      /\ row.at \in Int /\ row.mark \in Int /\ checkpoint \in Int
  BY RowHas
<1>1. \A a, b : /\ Wanted(a, b) \in SUBSET Ids /\ Wanted(a, b) \in SUBSET Nat
                /\ \A i \in Wanted(a, b) : i < nextId /\ a < i /\ i <= b
  BY RowHas
<1>2. CASE Handle
  <2> DEFINE due == Wanted(row.at, row.mark)
             first == CHOOSE i \in due : \A j \in due : i <= j
             at == IF due = {} THEN row.mark ELSE first
  <2>1. row.at < row.mark /\ row' = [row EXCEPT !.at = at]
        /\ UNCHANGED <<policy, sourcing, checkpoint, archived, closer>>
    BY <1>2 DEF Handle, HasWork
  <2>2. due # {} => first \in due
    <3>1. due \in SUBSET Nat
      BY <1>1
    <3>2. due # {} => \E i \in due : \A j \in due : i <= j
      <4> HIDE DEF due
      <4> QED
        BY <3>1, LeastNat
    <3> QED
      BY <3>2
  <2>3. at \in Position /\ at > row.at /\ at <= row.mark
    <3>1. due # {} => first \in Ids /\ row.at < first /\ first \in Int /\ first <= row.mark
      BY <1>1, <2>2
    <3> HIDE DEF due, first
    <3> QED
      BY <1>0, <2>1, <3>1
  <2> HIDE DEF at
  <2>4. row'.at = at /\ row'.mark = row.mark /\ row' \in [at : Position, mark : Position]
    BY <1>0, <2>1, <2>3
  <2> QED
    BY <1>0, <2>1, <2>3, <2>4
<1> QED
  BY <1>2

LEMMA CorrelateIs ==
    ASSUME Base, Correlate
    PROVE  /\ UNCHANGED <<policy, sourcing, archived, closer>>
           /\ row' \in [at : Position, mark : Position] /\ checkpoint' \in Position
           /\ checkpoint' > checkpoint /\ checkpoint' \in {e.id : e \in log}
           /\ row'.at = row.at /\ row'.mark >= row.mark
           /\ \A i \in Wanted(checkpoint, checkpoint') : i <= row'.mark
           /\ row'.mark < nextId \/ row'.mark = row.mark
<1>0. /\ log \in SUBSET Event /\ nextId \in Nat /\ Ranked(log, nextId)
      /\ row \in [at : Position, mark : Position] /\ checkpoint \in Position
      /\ row.at \in Position /\ row.mark \in Position
      /\ row.at \in Int /\ row.mark \in Int /\ checkpoint \in Int
  BY RowHas
<1>1. \A a, b : /\ Wanted(a, b) \in SUBSET Ids /\ Wanted(a, b) \in SUBSET Nat
                /\ \A i \in Wanted(a, b) : i < nextId /\ a < i /\ i <= b
  BY RowHas
<1>3. CASE Correlate
  <2>1. PICK e \in log :
          /\ e.id > checkpoint /\ checkpoint' = e.id
          /\ row' = [row EXCEPT !.mark =
                CHOOSE m \in Wanted(checkpoint, e.id) \cup {@} :
                    \A n \in Wanted(checkpoint, e.id) \cup {@} : n <= m]
    BY <1>3 DEF Correlate
  <2> DEFINE W == Wanted(checkpoint, e.id)
             mark == CHOOSE m \in W \cup {row.mark} : \A n \in W \cup {row.mark} : n <= m
  <2>2. /\ UNCHANGED <<policy, sourcing, archived, closer>>
        /\ row' = [row EXCEPT !.mark = mark]
    BY <1>3, <2>1 DEF Correlate
  <2>3. \E m \in W \cup {row.mark} : \A n \in W \cup {row.mark} : n <= m
    <3>1. W \in SUBSET Nat /\ \A i \in W : i <= nextId /\ i < nextId
      <4>1. \A i \in W : i \in Int /\ i < nextId
        BY <1>1
      <4> QED
        BY <1>0, <1>1, <4>1
    <3> HIDE DEF W
    <3>2. CASE W = {}
      BY <1>0, <3>2
    <3>3. CASE W # {}
      <4>1. PICK m \in W : \A i \in W : i <= m
        BY <1>0, <3>1, <3>3, GreatestNat
      <4>2. m \in Int
        BY <3>1, <4>1
      <4>3. CASE row.mark <= m
        BY <4>1, <4>2, <4>3
      <4>4. CASE ~(row.mark <= m)
        <5>1. m < row.mark
          BY <1>0, <4>2, <4>4
        <5>2. \A i \in W : i <= row.mark
          <6> TAKE i \in W
          <6>1. i \in Int /\ i <= m
            BY <3>1, <4>1
          <6> QED
            BY <1>0, <4>2, <5>1, <6>1
        <5> QED
          BY <1>0, <5>2
      <4> QED
        BY <4>3, <4>4
    <3> QED
      BY <3>2, <3>3
  <2>4. mark \in W \cup {row.mark} /\ \A n \in W \cup {row.mark} : n <= mark
    BY <2>3
  <2>5. mark \in Position /\ mark >= row.mark /\ (mark < nextId \/ mark = row.mark)
    <3>1. \A i \in W : i \in Ids /\ i < nextId
      BY <1>1
    <3> HIDE DEF W, mark
    <3> QED
      BY <1>0, <2>4, <3>1
  <2>6. \A i \in W : i <= mark
    BY <2>4
  <2> HIDE DEF mark
  <2>7. row'.mark = mark /\ row'.at = row.at /\ row' \in [at : Position, mark : Position]
    BY <1>0, <2>2, <2>5
  <2>8. checkpoint' \in Position /\ checkpoint' > checkpoint
    BY <1>0, <2>1 DEF Event
  <2>9. \A i \in Wanted(checkpoint, checkpoint') : i <= row'.mark
    BY <2>1, <2>6, <2>7
  <2>10. checkpoint' \in {d.id : d \in log}
    BY <2>1
  <2>11. row'.mark < nextId \/ row'.mark = row.mark
    BY <2>5, <2>7
  <2> QED
    BY <2>2, <2>5, <2>7, <2>8, <2>9, <2>10, <2>11
<1> QED
  BY <1>3

LEMMA RowMoves ==
    ASSUME Base, Correlate \/ Handle
    PROVE  /\ UNCHANGED <<policy, sourcing, archived, closer>>
           /\ row' \in [at : Position, mark : Position] /\ checkpoint' \in Position
BY HandleIs, CorrelateIs, BaseHas

LEMMA RowBase == ASSUME Base, Correlate \/ Handle PROVE Base'
<1>1. /\ UNCHANGED <<policy, sourcing, archived, closer>>
      /\ row' \in [at : Position, mark : Position] /\ checkpoint' \in Position
  BY RowMoves
<1>2. /\ HeadId' = HeadId /\ HeadVersion' = HeadVersion /\ Closed(log)' = Closed(log)
      /\ Decided' = Decided
  BY <1>1 DEF sourcing, HeadId, HeadVersion, Closed, Decided
<1>3. CloseTypeOK' /\ Ranked(log, nextId)'
  BY <1>1 DEF sourcing, Base, CloseTypeOK, TypeOK
<1>4. HeadInv' /\ HandInv' /\ CallInv' /\ ClosedInv'
  BY <1>1, <1>2 DEF sourcing, Base, HeadInv, HandInv, CallInv, ClosedInv, Behind, Dated
<1>5. CloserInv'
  BY <1>1, <1>2 DEF Base, CloserInv, ModeOK, GuardOK
<1> QED
  BY <1>3, <1>4, <1>5 DEF Base

LEMMA StutterBase == ASSUME Base, UNCHANGED vars PROVE Base'
<1>1. /\ UNCHANGED <<policy, sourcing, row, checkpoint, archived, closer>>
  BY DEF vars, closing
<1>2. /\ HeadId' = HeadId /\ HeadVersion' = HeadVersion /\ Closed(log)' = Closed(log)
      /\ Decided' = Decided
  BY <1>1 DEF sourcing, HeadId, HeadVersion, Closed, Decided
<1>3. CloseTypeOK' /\ Ranked(log, nextId)'
  BY <1>1 DEF sourcing, Base, CloseTypeOK, TypeOK
<1>4. HeadInv' /\ HandInv' /\ CallInv' /\ ClosedInv'
  BY <1>1, <1>2 DEF sourcing, Base, HeadInv, HandInv, CallInv, ClosedInv, Behind, Dated
<1>5. CloserInv'
  BY <1>1, <1>2 DEF Base, CloserInv, ModeOK, GuardOK
<1> QED
  BY <1>3, <1>4, <1>5 DEF Base

LEMMA CallsBase ==
    ASSUME Base, CallStep \/ ((\E k \in Caches : Evict(k)) /\ UNCHANGED closing)
    PROVE  Base'
<1>1. CASE CallsMove
  BY <1>1, CallMoves, MovesBase
<1>2. CASE ~CallsMove
  <2>0. PICK c \in Calls : \E R, m : Appends(c, R, m)
    BY <1>2, CallMoves
  <2>1. PICK R, m : Appends(c, R, m)
    BY <2>0
  <2>2. UNCHANGED closing /\ \A d \in Calls : call'[d].at # "idle" => call'[d].kind \in policy.kinds
    BY <1>2, CallMoves
  <2> QED
    BY <2>1, <2>2, AppendsBase
<1> QED
  BY <1>1, <1>2

LEMMA ClosersBase ==
    ASSUME Base, Careful(policy), NEW k \in Closers, CloseStep(k) PROVE Base'
<1>1. CASE \/ Start(k) \/ ScanMarkers(k) \/ ScanDomain(k) \/ ScanVersion(k)
           \/ CatchUp(k) \/ Probe(k) \/ Interrupt(k)
  <2>1. PICK cl : Turns(k, cl)
    BY <1>1, ScansTurn
  <2>2. /\ UNCHANGED <<policy, sourcing>> /\ row' = row /\ checkpoint' = checkpoint
        /\ archived' = archived
    BY <1>1, ScansTurn
  <2>3. archived' \in SUBSET Ids
    BY <2>2, BaseHas
  <2> QED
    BY <2>1, <2>2, <2>3, TurnsBase
<1>2. CASE ReadCheckpoint(k) \/ ProbeCap(k) \/ Pending(k) \/ Keep(k)
  <2>1. PICK cl : Turns(k, cl)
    BY <1>2, WindowTurns
  <2>2. /\ UNCHANGED <<policy, sourcing>> /\ row' = row /\ checkpoint' = checkpoint
        /\ archived' \in SUBSET Ids
    BY <1>2, WindowTurns
  <2> QED
    BY <2>1, <2>2, TurnsBase
<1>3. CASE Seed(k) \/ Archive(k)
  <2>1. PICK cl : Turns(k, cl)
    BY <1>3, GuardedTurns
  <2>2. /\ UNCHANGED <<policy, sourcing>> /\ row' = row /\ checkpoint' = checkpoint
        /\ archived' \in SUBSET Ids
    BY <1>3, GuardedTurns
  <2> QED
    BY <2>1, <2>2, TurnsBase
<1>4. CASE Guard(k)
  BY <1>4, GuardBase
<1>5. CASE Truncate(k)
  BY <1>5, TruncateBase
<1>6. CASE Warm(k)
  BY <1>6, WarmBase
<1>7. CASE Prune(k)
  BY <1>7, PruneBase
<1> QED
  BY <1>1, <1>2, <1>3, <1>4, <1>5, <1>6, <1>7 DEF CloseStep

LEMMA BaseStep == ASSUME Base, Careful(policy), [CloseNext]_vars PROVE Base'
<1>1. CASE CallStep \/ ((\E k \in Caches : Evict(k)) /\ UNCHANGED closing)
  BY <1>1, CallsBase
<1>2. CASE Correlate \/ Handle
  BY <1>2, RowBase
<1>3. ASSUME NEW k \in Closers, CloseStep(k) PROVE Base'
  BY <1>3, ClosersBase
<1>4. CASE UNCHANGED vars
  BY <1>4, StutterBase
<1> QED
  BY <1>1, <1>2, <1>3, <1>4 DEF CloseNext

LEMMA BaseAlways == ASSUME \A p \in Policies : Careful(p) PROVE CloseSpec => []Base
<1>1. Base => Careful(policy)
  BY DEF Base, CloseTypeOK
<1>2. Base /\ [CloseNext]_vars => Base'
  BY <1>1, BaseStep
<1> QED
  BY <1>2, InitBase, PTL DEF CloseSpec

\* Every variable keeps its type.
THEOREM CloseTypeCorrect ==
    ASSUME \A p \in Policies : Careful(p) PROVE CloseSpec => []CloseTypeOK
<1>1. Base => CloseTypeOK
  BY DEF Base
<1> QED
  BY <1>1, BaseAlways, PTL

\* From the tombstone to the truncation the guard stays the head, whatever
\* calls are in flight and however the close is interrupted.
THEOREM GuardCorrect ==
    ASSUME \A p \in Policies : Careful(p) PROVE CloseSpec => []GuardHolds
<1>1. Base => GuardHolds
  BY DEF Base, CloserInv, GuardOK, GuardHolds, Guarded
<1> QED
  BY <1>1, BaseAlways, PTL

-----------------------------------------------------------------------------
(* Loads are current.                                                      *)

\* Every event ever written is in the log, or a snapshot stands for it.
Complete ==
    \A i \in written :
        \/ \E e \in log : e.name \in Names /\ e.id = i
        \/ \E e \in log : e.name = SNAP_EVENT /\ i <= e.id

\* Something is left but tombstones.
Alive == \E e \in log : e.name # TOMBSTONE_EVENT

HistInv ==
    /\ Retired \/ Complete
    /\ \A e \in log : e.name \in Names => e.id \in written
    /\ SnapshotFaithful

\* A checkpoint holds the fold of the events at or below its id.
Faithful(f) == f.state = UpTo(f.id)

FoldInv ==
    /\ \A k \in Caches : Faithful(cache[k])
    /\ \A c \in Calls : Faithful(call[c].got)

\* The seed a restart has loaded is the whole history.
SeedOK(cl) ==
    /\ cl.at \in {"version", "catchup", "probe", "guard"} \cup Guarded => Alive
    /\ cl.at \in {"archive", "truncate"} /\ cl.mode = "restart" => cl.state = written
    /\ cl.at = "warm" /\ cl.mode = "restart" => cl.state = UpTo(cl.head)

SeedInv == \A k \in Closers : SeedOK(closer[k])

LEMMA UpToHead ==
    ASSUME Base
    PROVE  /\ UpTo(HeadId) = written /\ UpTo(-1) = {} /\ written \in SUBSET Nat
           /\ \A n \in Int : n >= HeadId => UpTo(n) = written
<1>1. written \in SUBSET Nat /\ \A i \in written : i <= HeadId /\ i \in Nat
  BY BaseHas, SourcingAssumption DEF Base, HeadInv
<1>2. HeadId \in Int
  BY BaseHas
<1>3. ASSUME NEW n \in Int, n >= HeadId PROVE UpTo(n) = written
  <2>1. \A i \in written : i <= n
    BY <1>1, <1>2, <1>3
  <2> QED
    BY <2>1 DEF UpTo
<1>4. UpTo(-1) = {}
  <2>1. \A i \in written : ~(i <= -1)
    BY <1>1
  <2> QED
    BY <2>1 DEF UpTo
<1>5. UpTo(HeadId) = written
  BY <1>2, <1>3
<1> QED
  BY <1>1, <1>3, <1>4, <1>5

LEMMA AliveIs ==
    ASSUME Base
    PROVE  /\ Alive => ~Retired
           /\ Retired => Closed(log)
           /\ HistInv /\ ~Closed(log) => Complete
           /\ HistInv /\ Alive => Complete
<1>1. Alive => ~Retired
  BY DEF Alive, Retired
<1>2. Retired => Closed(log)
  BY BaseHas, TopIs DEF Retired, Closed
<1> QED
  BY <1>1, <1>2 DEF HistInv

\* A load from a faithful checkpoint is the whole history: what is missing
\* from the log is in a snapshot.
LEMMA LoadsWhole ==
    ASSUME Base, HistInv, Complete, NEW f \in Folded, Behind(f), Faithful(f)
    PROVE  Load(f).state = written
<1>0. /\ log \in SUBSET Event /\ nextId \in Nat /\ Ranked(log, nextId)
      /\ f.id \in Int /\ written \in SUBSET Nat
      /\ \A e \in log : e.id \in Nat
  BY BaseHas, UpToHead, SourcingAssumption DEF Folded, Event
<1>1. CASE Above(f) = {}
  BY <1>0, <1>1, LoadTop, UpToHead DEF Faithful
<1>2. CASE Above(f) # {}
  <2> DEFINE snaps == {e \in Above(f) : e.name = SNAP_EVENT}
  <2>1. Load(f).state = Fold(f.state, Above(f))
    BY <1>2 DEF Load
  <2>2. f.state = {i \in written : i <= f.id}
    BY DEF Faithful, UpTo
  <2>3. \A e \in log : e.name \in Names => e.id \in written
    BY DEF HistInv
  <2>4. CASE snaps = {}
    <3>1. Fold(f.state, Above(f)) = f.state \cup {e.id : e \in {d \in Above(f) : d.name \in Names}}
      BY <2>4 DEF Fold, Domain, IdsOf
    <3>2. ASSUME NEW i \in written, i > f.id
          PROVE  \E e \in Above(f) : e.name \in Names /\ e.id = i
      <4>1. ASSUME NEW e \in log, e.name = SNAP_EVENT, i <= e.id PROVE FALSE
        <5>1. e.id > f.id
          BY <1>0, <3>2, <4>1
        <5> QED
          BY <2>4, <4>1, <5>1 DEF Above
      <4>2. PICK e \in log : e.name \in Names /\ e.id = i
        BY <4>1 DEF Complete
      <4> QED
        BY <3>2, <4>2 DEF Above
    <3>3. \A i \in written : i <= f.id \/ i > f.id
      BY <1>0
    <3>4. \A d \in Above(f) : d.name \in Names => d.id \in written
      BY <2>3 DEF Above
    <3> HIDE DEF snaps
    <3>5. f.state \subseteq written
      BY <2>2
    <3>6. {e.id : e \in {d \in Above(f) : d.name \in Names}} \subseteq written
      BY <3>4
    <3>7. \A i \in written :
             i \in f.state \/ i \in {e.id : e \in {d \in Above(f) : d.name \in Names}}
      BY <2>2, <3>2, <3>3
    <3> QED
      BY <2>1, <3>1, <3>5, <3>6, <3>7
  <2>5. CASE snaps # {}
    <3>1. PICK base : base = Latest(snaps)
      OBVIOUS
    <3>2. base \in snaps /\ \A e \in snaps : e.id <= base.id
      <4>1. snaps \in SUBSET Event
        BY <1>0 DEF Above
      <4> QED
        BY <2>5, <3>1, <4>1, LatestIs
    <3>3. base \in log /\ base.id > f.id /\ base.state = {i \in written : i <= base.id}
      BY <3>2 DEF HistInv, SnapshotFaithful, UpTo, Above
    <3>4. Fold(f.state, Above(f)) = base.state
            \cup {e.id : e \in {d \in {a \in Above(f) : a.name \in Names} : d.id > base.id}}
      BY <2>5, <3>1 DEF Fold, Domain, IdsOf
    <3>5. ASSUME NEW i \in written, i > base.id
          PROVE  \E e \in Above(f) : e.name \in Names /\ e.id = i /\ e.id > base.id
      <4>1. ASSUME NEW e \in log, e.name = SNAP_EVENT, i <= e.id PROVE FALSE
        <5>1. e.id > base.id /\ e.id > f.id
          BY <1>0, <3>3, <3>5, <4>1
        <5>2. e \in snaps
          BY <4>1, <5>1 DEF Above
        <5> QED
          BY <1>0, <3>2, <3>3, <5>1, <5>2
      <4>2. PICK e \in log : e.name \in Names /\ e.id = i
        BY <4>1 DEF Complete
      <4>3. e.id > f.id
        BY <1>0, <3>3, <3>5, <4>2
      <4> QED
        BY <3>5, <4>2, <4>3 DEF Above
    <3>6. \A i \in written : i <= base.id \/ i > base.id
      BY <1>0, <3>3
    <3>7. \A d \in Above(f) : d.name \in Names => d.id \in written
      BY <2>3 DEF Above
    <3> HIDE DEF snaps
    <3> QED
      BY <2>1, <3>3, <3>4, <3>5, <3>6, <3>7
  <2> QED
    BY <2>4, <2>5
<1> QED
  BY <1>1, <1>2

LEMMA HandsFaithful ==
    ASSUME Base, FoldInv, NEW f \in Hands PROVE Faithful(f)
<1>1. Faithful(Nothing)
  BY UpToHead DEF Faithful, Nothing
<1> QED
  BY <1>1 DEF Hands, FoldInv

Faith == HistInv /\ FoldInv /\ SeedInv

LEMMA FaithMoves ==
    ASSUME Base, Faith, CallsMove, UNCHANGED closing PROVE Faith'
<1>1. log' = log /\ written' = written /\ closer' = closer
  BY DEF CallsMove, closing
<1>2. HistInv'
  BY <1>1 DEF Faith, HistInv, Retired, Complete, SnapshotFaithful, UpTo
<1>3. SeedInv'
  BY <1>1 DEF Faith, SeedInv, SeedOK, Alive, UpTo
<1>4. \A f : Faithful(f)' <=> f.state = UpTo(f.id)
  BY <1>1 DEF Faithful, UpTo
<1>5. \A k \in Caches : Faithful(cache'[k])
  BY HandsFaithful DEF Faith, CallsMove
<1>6. ASSUME NEW c \in Calls PROVE Faithful(call'[c].got)
  <2>1. Moves(c) /\ call[c].got \in Hands
    BY DEF CallsMove, Hands
  <2>2. CASE call'[c].got \in Hands
    BY <2>2, HandsFaithful DEF Faith
  <2>3. CASE Loads(c)
    <3>1. /\ call[c].got \in Folded /\ Behind(call[c].got) /\ Faithful(call[c].got)
          /\ Complete /\ HistInv
      BY <2>1, <2>3, HandsAre, HandsFaithful, AliveIs DEF Faith, Loads
    <3>2. Load(call[c].got).state = written
      BY <3>1, LoadsWhole
    <3>3. Load(call[c].got).id = HeadId
      BY <3>1, BaseHas, LoadTop
    <3> QED
      BY <2>3, <3>2, <3>3, UpToHead DEF Loads, Faithful
  <2> QED
    BY <2>1, <2>2, <2>3 DEF Moves
<1>7. FoldInv'
  BY <1>1, <1>5, <1>6 DEF FoldInv, Faithful, UpTo
<1> QED
  BY <1>2, <1>3, <1>7 DEF Faith

\* What was written before an append is what was written up to the head.
LEMMA UpToStays ==
    ASSUME Base, NEW c \in Calls, NEW R, NEW m, Appends(c, R, m)
    PROVE  /\ \A n \in Int : n <= HeadId => UpTo(n)' = UpTo(n)
           /\ \A i \in written' : i <= HeadId'
<1>1. /\ HeadId' = nextId + m - 1 /\ HeadId < HeadId' /\ HeadId' \in Int /\ HeadId \in Int
      /\ \A e \in R : nextId <= e.id /\ e.id <= HeadId' /\ e.id \in Int
      /\ nextId \in Int /\ HeadId < nextId
  <2>1. m \in Nat
    BY DEF Appends
  <2>2. \A e \in R : e \in Event /\ nextId <= e.id /\ e.id <= HeadId'
    BY AppendsTop
  <2> QED
    BY <2>1, <2>2, AppendsTop, BaseHas, SourcingAssumption DEF Event
<1>2. \A i \in IdsOf(Domain(R)) : i \in Int /\ nextId <= i /\ i <= HeadId'
  BY <1>1 DEF IdsOf, Domain
<1>3. written' = written \cup IdsOf(Domain(R))
  BY DEF Appends
<1>4. \A i \in written : i \in Int /\ i <= HeadId
  BY UpToHead, BaseHas DEF Base, HeadInv
<1>5. ASSUME NEW n \in Int, n <= HeadId PROVE UpTo(n)' = UpTo(n)
  <2>1. \A i \in IdsOf(Domain(R)) : ~(i <= n)
    BY <1>1, <1>2, <1>5
  <2> QED
    BY <1>3, <2>1 DEF UpTo
<1>6. \A i \in written' : i <= HeadId'
  BY <1>1, <1>2, <1>3, <1>4
<1> QED
  BY <1>5, <1>6 DEF UpTo

LEMMA FaithAppends ==
    ASSUME Base, Faith, NEW c \in Calls, NEW R, NEW m, Appends(c, R, m),
           UNCHANGED closing
    PROVE  Faith'
<1>1. /\ HeadId < HeadId' /\ HeadId' \in Int /\ HeadId \in Int /\ HeadId' = nextId + m - 1
      /\ \A e \in R : nextId <= e.id /\ e.id \in Nat
      /\ nextId \in Int /\ HeadId < nextId
      /\ \A e \in log : e.id \in Nat /\ e.id <= HeadId
      /\ R # {} /\ log' = log \cup R /\ written' = written \cup IdsOf(Domain(R))
      /\ \A e \in R : e.name # TOMBSTONE_EVENT
      /\ ~Closed(log) /\ Complete
  <2>1. m \in Nat
    BY DEF Appends
  <2>2. \A e \in R : e \in Event /\ nextId <= e.id
    BY AppendsTop
  <2>3. \A e \in R : e.id \in Nat
    BY <2>2, SourcingAssumption DEF Event
  <2>4. \A e \in log : e.id \in Nat /\ e.id <= HeadId
    BY BaseHas, TopIs
  <2>5. HeadId < HeadId' /\ HeadId' = nextId + m - 1
    BY AppendsTop
  <2>6. /\ R # {} /\ log' = log \cup R /\ written' = written \cup IdsOf(Domain(R))
        /\ \A e \in R : e.name # TOMBSTONE_EVENT /\ ~Closed(log)
        /\ ~Closed(log)
    BY DEF Appends, Extends
  <2>7. Complete
    BY <2>6, AliveIs DEF Faith
  <2> QED
    BY <2>1, <2>2, <2>3, <2>4, <2>5, <2>6, <2>7, BaseHas
<1>2. \A n \in Int : n <= HeadId => UpTo(n)' = UpTo(n)
  BY UpToStays
<1>3. \A i \in written' : i <= HeadId'
  BY UpToStays
<1>4. Complete'
  <2>1. \A i \in written : \/ \E e \in log' : e.name \in Names /\ e.id = i
                           \/ \E e \in log' : e.name = SNAP_EVENT /\ i <= e.id
    BY <1>1 DEF Complete
  <2>2. \A i \in IdsOf(Domain(R)) : \E e \in log' : e.name \in Names /\ e.id = i
    BY <1>1 DEF IdsOf, Domain
  <2> QED
    BY <1>1, <2>1, <2>2 DEF Complete
<1>5. \A e \in log' : e.name \in Names => e.id \in written'
  <2>1. \A e \in log : e.name \in Names => e.id \in written
    BY DEF Faith, HistInv
  <2>2. \A e \in R : e.name \in Names => e.id \in IdsOf(Domain(R))
    BY DEF IdsOf, Domain
  <2> QED
    BY <1>1, <2>1, <2>2
\* The state a call extends is the one at the head.
<1>6. c \in Decided /\ call[c].got.version = HeadVersion =>
          /\ call[c].got.state = written
  <2> SUFFICES ASSUME c \in Decided, call[c].got.version = HeadVersion
               PROVE  call[c].got.state = written
    OBVIOUS
  <2>1. call[c].got.id = HeadId
    BY DEF Base, CallInv, Dated
  <2>2. call[c].got.state = UpTo(call[c].got.id)
    BY DEF Faith, FoldInv, Faithful
  <2> QED
    BY <2>1, <2>2, UpToHead
<1>7. SnapshotFaithful'
  <2> SUFFICES ASSUME NEW e \in log', e.name = SNAP_EVENT PROVE e.state = UpTo(e.id)'
    BY DEF SnapshotFaithful
  <2>1. CASE e \in log
    <3>1. e.state = UpTo(e.id)
      BY <2>1 DEF Faith, HistInv, SnapshotFaithful
    <3> QED
      BY <1>1, <1>2, <2>1, <3>1
  <2>2. CASE e \in R
    <3>1. e.name \notin Names
      BY SourcingAssumption
    <3>2. /\ \A d \in R : d.name = SNAP_EVENT /\ d.state = call[c].got.state
          /\ c \in Decided /\ call[c].got.version = HeadVersion
      BY <2>2, <3>1 DEF Appends
    <3>3. IdsOf(Domain(R)) = {}
      BY <3>2, SourcingAssumption DEF IdsOf, Domain
    <3>4. written' = written /\ e.state = written
      BY <1>1, <1>6, <2>2, <3>2, <3>3
    <3>5. e.id \in Int /\ e.id >= HeadId
      BY <1>1, <2>2
    <3>6. UpTo(e.id) = written
      BY <3>5, UpToHead
    <3> QED
      BY <3>4, <3>6 DEF UpTo
  <2> QED
    BY <1>1, <2>1, <2>2
<1>8. ASSUME NEW f \in Hands PROVE f.state = UpTo(f.id)'
  <2>1. f.id <= HeadId /\ f.id \in Int
    BY HandsAre, SourcingAssumption DEF Behind, Folded
  <2> QED
    BY <1>2, <2>1, HandsFaithful DEF Faith, Faithful
<1>9. FoldInv'
  <2>1. \A k \in Caches : cache'[k] \in Hands
    BY DEF Appends, Hands
  <2>2. ASSUME NEW d \in Calls 
        PROVE  call'[d].got.state = {i \in written' : i <= call'[d].got.id}
    <3>1. CASE call'[d].got \in Hands
      BY <1>8, <3>1 DEF UpTo
    <3>2. CASE call'[d].got \notin Hands
      <4>1. d = c /\ call'[c] # Idle
        BY <3>2 DEF Appends, Hands, Idle
      <4>2. /\ c \in Decided /\ call[c].got.version = HeadVersion
            /\ call'[c].got.id = nextId + m - 1
            /\ call'[c].got.state = call[c].got.state \cup IdsOf(Domain(R))
        BY <4>1 DEF Appends
      <4>3. call'[c].got.state = written' /\ call'[c].got.id = HeadId'
        BY <1>1, <1>6, <4>2
      <4>4. {i \in written' : i <= HeadId'} = written'
        BY <1>3
      <4> QED
        BY <4>1, <4>3, <4>4
    <3> QED
      BY <3>1, <3>2
  <2>3. \A k \in Caches : cache'[k].state = {i \in written' : i <= cache'[k].id}
    BY <1>8, <2>1 DEF UpTo
  <2> QED
    BY <2>2, <2>3 DEF FoldInv, Faithful, UpTo
<1>10. SeedInv'
  <2> SUFFICES ASSUME NEW k \in Closers PROVE SeedOK(closer[k])'
    BY DEF SeedInv
  <2>1. closer' = closer /\ SeedOK(closer[k]) /\ GuardOK(closer[k]) /\ closer[k].head \in Int
    BY BaseHas, SourcingAssumption DEF closing, Faith, SeedInv, Base, CloserInv, Closer
  <2>2. Alive'
    BY <1>1 DEF Alive
  <2>3. closer[k].at \notin Guarded
    BY <1>1, <2>1 DEF GuardOK
  <2>4. closer[k].at = "warm" /\ closer[k].mode = "restart" => closer[k].head <= HeadId
    BY <2>1 DEF GuardOK
  <2> QED
    BY <1>2, <2>1, <2>2, <2>3, <2>4 DEF SeedOK, Guarded
<1> QED
  BY <1>4, <1>5, <1>7, <1>9, <1>10 DEF Faith, HistInv

\* The steps that write neither rows nor checkpoints.
LEMMA FaithStill ==
    ASSUME Base, Faith, UNCHANGED <<log, written, cache, call>>,
           \A k \in Closers : closer'[k] = closer[k] \/ SeedOK(closer'[k])
    PROVE  Faith'
<1>1. HistInv' /\ FoldInv'
  BY DEF Faith, HistInv, FoldInv, Faithful, Retired, Complete, SnapshotFaithful, UpTo
<1>2. ASSUME NEW k \in Closers PROVE SeedOK(closer[k])'
  <2>1. SeedOK(closer'[k])
    BY DEF Faith, SeedInv
  <2> QED
    BY <2>1 DEF SeedOK, Alive, UpTo
<1> QED
  BY <1>1, <1>2 DEF Faith, SeedInv

\* One closer moves at a time.
LEMMA OthersStay ==
    ASSUME Base, NEW k \in Closers, CloseStep(k)
    PROVE  /\ \A j \in Closers \ {k} : closer'[j] = closer[j]
           /\ UNCHANGED <<policy, written, call, row, checkpoint>>
           /\ archived \subseteq archived'
<1>1. closer \in [Closers -> Closer]
  BY BaseHas
<1>2. \A cl : closer' = [closer EXCEPT ![k] = cl] =>
                \A j \in Closers \ {k} : closer'[j] = closer[j]
  BY <1>1
<1>3. \A at : closer' = [closer EXCEPT ![k].at = at] =>
                \A j \in Closers \ {k} : closer'[j] = closer[j]
  BY <1>1
<1>4. \E cl, at : closer' = [closer EXCEPT ![k] = cl] \/ closer' = [closer EXCEPT ![k].at = at]
  <2>1. CASE \/ Start(k) \/ ScanMarkers(k) \/ ScanDomain(k) \/ ScanVersion(k)
             \/ Seed(k) \/ Truncate(k) \/ Warm(k) \/ ReadCheckpoint(k) \/ ProbeCap(k)
             \/ Prune(k) \/ Interrupt(k)
    BY <2>1 DEF Start, ScanMarkers, ScanDomain, ScanVersion, Seed, Truncate, Warm,
                ReadCheckpoint, ProbeCap, Prune, Interrupt, Leave, Go
  <2>2. CASE CatchUp(k) \/ Probe(k) \/ Guard(k) \/ Archive(k) \/ Pending(k) \/ Keep(k)
    BY <2>2 DEF CatchUp, Probe, Guard, Archive, Pending, Keep, Leave, Go, Goto
  <2> QED
    BY <2>1, <2>2 DEF CloseStep
<1>5. UNCHANGED <<policy, written, call, row, checkpoint>> /\ archived \subseteq archived'
  BY DEF CloseStep, sourcing, Start, ScanMarkers, ScanDomain, ScanVersion, CatchUp, Probe,
         Guard, Seed, Archive, Truncate, Warm, ReadCheckpoint, ProbeCap, Pending, Keep,
         Prune, Interrupt
<1> QED
  BY <1>2, <1>3, <1>4, <1>5

\* What a scan or a window reads.
LEMMA ReadsAre ==
    ASSUME Base, NEW k \in Closers
    PROVE  /\ Leave(k) => closer'[k].at = "idle"
           /\ Start(k) => \/ closer'[k].at = "markers"
                          \/ closer'[k].at = "checkpoint" /\ closer'[k].before = nextId
           /\ ScanMarkers(k) => closer'[k].at = "domain"
           /\ ScanDomain(k) /\ ~Leave(k) =>
                 /\ closer[k].at = "domain" /\ Domain(log) # {}
                 /\ closer'[k].at = "version" /\ closer'[k].head = Latest(Domain(log)).id
           /\ ScanVersion(k) =>
                 /\ closer[k].at = "version" /\ closer'[k].at = "catchup"
                 /\ closer'[k].head = closer[k].head /\ closer'[k].version = HeadVersion
           /\ ReadCheckpoint(k) =>
                 /\ closer[k].at = "checkpoint" /\ closer'[k].at = "cap"
                 /\ closer'[k].before = closer[k].before /\ closer'[k].cap = checkpoint
           /\ ProbeCap(k) =>
                 /\ closer[k].at = "cap" /\ closer'[k].at = "pending"
                 /\ closer'[k].before = closer[k].before
                 /\ closer'[k].cap = Cap(closer[k].cap)
<1>1. closer \in [Closers -> Closer] /\ closer[k] \in Closer
  BY BaseHas
<1>2. ASSUME NEW cl, closer' = [closer EXCEPT ![k] = cl] PROVE closer'[k] = cl
  BY <1>1, <1>2
<1>3. ASSUME Leave(k) PROVE closer'[k].at = "idle"
  BY <1>2, <1>3, AwayOK DEF Leave, Go
<1>4. ASSUME Start(k)
      PROVE  \/ closer'[k].at = "markers"
             \/ closer'[k].at = "checkpoint" /\ closer'[k].before = nextId
  <2>1. PICK mode \in policy.modes[k] :
          closer' = [closer EXCEPT ![k] =
              IF mode = "window"
              THEN [Away EXCEPT !.at = "checkpoint", !.mode = mode, !.before = nextId]
              ELSE [Away EXCEPT !.at = "markers", !.mode = mode]]
    BY <1>4 DEF Start, Go
  <2> DEFINE w == [Away EXCEPT !.at = "checkpoint", !.mode = mode, !.before = nextId]
             f == [Away EXCEPT !.at = "markers", !.mode = mode]
  <2>2. w.at = "checkpoint" /\ w.before = nextId /\ f.at = "markers"
    BY DEF Away
  <2> HIDE DEF w, f
  <2>3. closer'[k] = w \/ closer'[k] = f
    BY <1>2, <2>1 DEF w, f
  <2> QED
    BY <2>2, <2>3
<1>5. ASSUME ScanMarkers(k) PROVE closer'[k].at = "domain"
  <2> DEFINE cl == [closer[k] EXCEPT !.at = "domain",
                !.resumed = Closed({e \in log : e.name # SNAP_EVENT})]
  <2>1. cl.at = "domain"
    BY <1>1 DEF Closer
  <2>2. closer' = [closer EXCEPT ![k] = cl]
    BY <1>5 DEF ScanMarkers, Go
  <2> HIDE DEF cl
  <2> QED
    BY <1>2, <2>1, <2>2
<1>6. ASSUME ScanDomain(k), ~Leave(k)
      PROVE  /\ closer[k].at = "domain" /\ Domain(log) # {}
             /\ closer'[k].at = "version" /\ closer'[k].head = Latest(Domain(log)).id
  <2> DEFINE cl == [closer[k] EXCEPT !.at = "version", !.head = Latest(Domain(log)).id]
  <2>1. cl.at = "version" /\ cl.head = Latest(Domain(log)).id
    BY <1>1 DEF Closer
  <2>2. closer' = [closer EXCEPT ![k] = cl] /\ closer[k].at = "domain" /\ Domain(log) # {}
    BY <1>6 DEF ScanDomain, Go, At
  <2> HIDE DEF cl
  <2> QED
    BY <1>2, <2>1, <2>2
<1>7. ASSUME ScanVersion(k)
      PROVE  /\ closer[k].at = "version" /\ closer'[k].at = "catchup"
             /\ closer'[k].head = closer[k].head /\ closer'[k].version = HeadVersion
  <2> DEFINE cl == [closer[k] EXCEPT !.at = "catchup", !.version = HeadVersion]
  <2>1. cl.at = "catchup" /\ cl.head = closer[k].head /\ cl.version = HeadVersion
    BY <1>1 DEF Closer
  <2>2. closer' = [closer EXCEPT ![k] = cl] /\ closer[k].at = "version"
    BY <1>7 DEF ScanVersion, Go, At
  <2> HIDE DEF cl
  <2> QED
    BY <1>2, <2>1, <2>2
<1>8. ASSUME ReadCheckpoint(k)
      PROVE  /\ closer[k].at = "checkpoint" /\ closer'[k].at = "cap"
             /\ closer'[k].before = closer[k].before /\ closer'[k].cap = checkpoint
  <2> DEFINE cl == [closer[k] EXCEPT !.at = "cap", !.cap = checkpoint]
  <2>1. cl.at = "cap" /\ cl.before = closer[k].before /\ cl.cap = checkpoint
    BY <1>1 DEF Closer
  <2>2. closer' = [closer EXCEPT ![k] = cl] /\ closer[k].at = "checkpoint"
    BY <1>8 DEF ReadCheckpoint, Go, At
  <2> HIDE DEF cl
  <2> QED
    BY <1>2, <2>1, <2>2
<1>9. ASSUME ProbeCap(k)
      PROVE  /\ closer[k].at = "cap" /\ closer'[k].at = "pending"
             /\ closer'[k].before = closer[k].before
             /\ closer'[k].cap = Cap(closer[k].cap)
  <2> DEFINE cl == [closer[k] EXCEPT !.at = "pending", !.cap = Cap(closer[k].cap)]
  <2>1. cl.at = "pending" /\ cl.before = closer[k].before /\ cl.cap = Cap(closer[k].cap)
    BY <1>1 DEF Closer
  <2>2. closer' = [closer EXCEPT ![k] = cl] /\ closer[k].at = "cap"
    BY <1>9 DEF ProbeCap, Go, At
  <2> HIDE DEF cl
  <2> QED
    BY <1>2, <2>1, <2>2
<1> QED
  BY <1>3, <1>4, <1>5, <1>6, <1>7, <1>8, <1>9

\* How a closer goes from one phase to the next with what it has read.
LEMMA WalksAre ==
    ASSUME Base, NEW k \in Closers, ~Leave(k),
           CatchUp(k) \/ Probe(k) \/ Pending(k) \/ Keep(k) \/ Archive(k)
    PROVE  /\ \/ CatchUp(k) /\ closer[k].at = "catchup" /\ closer'[k].at = "probe"
              \/ Probe(k) /\ closer[k].at = "probe" /\ closer'[k].at = "guard"
              \/ Pending(k) /\ closer[k].at = "pending" /\ closer'[k].at = "keep"
              \/ Keep(k) /\ closer[k].at = "keep" /\ closer'[k].at = "prune"
              \/ Archive(k) /\ closer[k].at = "archive" /\ closer'[k].at = "truncate"
           /\ closer'[k].mode = closer[k].mode /\ closer'[k].resumed = closer[k].resumed
           /\ closer'[k].head = closer[k].head /\ closer'[k].version = closer[k].version
           /\ closer'[k].state = closer[k].state /\ closer'[k].before = closer[k].before
           /\ closer'[k].cap = closer[k].cap
<1>1. PICK at \in ClosePhases :
         /\ \/ CatchUp(k) /\ closer[k].at = "catchup" /\ at = "probe"
            \/ Probe(k) /\ closer[k].at = "probe" /\ at = "guard"
            \/ Pending(k) /\ closer[k].at = "pending" /\ at = "keep"
            \/ Keep(k) /\ closer[k].at = "keep" /\ at = "prune"
            \/ Archive(k) /\ closer[k].at = "archive" /\ at = "truncate"
         /\ Goto(k, at)
  <2>1. {"probe", "guard", "keep", "prune", "truncate"} \subseteq ClosePhases
    BY DEF ClosePhases
  <2>2. CatchUp(k) => closer[k].at = "catchup" /\ Goto(k, "probe")
    BY DEF CatchUp, At
  <2>3. Probe(k) => closer[k].at = "probe" /\ Goto(k, "guard")
    BY DEF Probe, At
  <2>4. Pending(k) => closer[k].at = "pending" /\ Goto(k, "keep")
    BY DEF Pending, At
  <2>5. Keep(k) => closer[k].at = "keep" /\ Goto(k, "prune")
    BY DEF Keep, At
  <2>6. Archive(k) => closer[k].at = "archive" /\ Goto(k, "truncate")
    BY DEF Archive, At
  <2> QED
    BY <2>1, <2>2, <2>3, <2>4, <2>5, <2>6
<1> DEFINE cl == [closer[k] EXCEPT !.at = at]
<1>2. /\ closer' = [closer EXCEPT ![k] = cl]
      /\ cl.at = at /\ cl.mode = closer[k].mode /\ cl.resumed = closer[k].resumed
      /\ cl.head = closer[k].head /\ cl.version = closer[k].version
      /\ cl.state = closer[k].state /\ cl.before = closer[k].before
      /\ cl.cap = closer[k].cap
  BY <1>1, GotoIs
<1> HIDE DEF cl
<1>3. closer'[k] = cl
  BY <1>2, BaseHas
<1> QED
  BY <1>1, <1>2, <1>3

\* How far a scan or a window gets in one step.
LEMMA ScansOn ==
    ASSUME Base, NEW k \in Closers,
           \/ Start(k) \/ ScanMarkers(k) \/ ScanDomain(k) \/ ScanVersion(k)
           \/ CatchUp(k) \/ Probe(k) \/ Interrupt(k)
           \/ ReadCheckpoint(k) \/ ProbeCap(k) \/ Pending(k) \/ Keep(k)
    PROVE  \/ closer'[k].at \in {"idle", "markers", "domain"} \cup WindowPhases
           \/ closer'[k].at = "version" /\ Domain(log) # {}
           \/ /\ closer'[k].at \in {"catchup", "probe", "guard"}
              /\ closer[k].at \in {"version", "catchup", "probe"}
<1>1. CASE Leave(k)
  BY <1>1, ReadsAre
<1>2. CASE Start(k)
  BY <1>2, ReadsAre DEF WindowPhases
<1>3. CASE ~Leave(k) /\ (ScanMarkers(k) \/ ScanDomain(k) \/ ScanVersion(k))
  BY <1>3, ReadsAre
<1>4. CASE ReadCheckpoint(k) \/ ProbeCap(k)
  BY <1>4, ReadsAre DEF WindowPhases
<1>5. CASE ~Leave(k) /\ (CatchUp(k) \/ Probe(k) \/ Pending(k) \/ Keep(k))
  <2>1. closer[k].at # "archive"
    BY <1>5 DEF CatchUp, Probe, Pending, Keep, At
  <2> QED
    BY <1>5, <2>1, WalksAre DEF WindowPhases
<1>6. Interrupt(k) => Leave(k)
  BY DEF Interrupt
<1> QED
  BY <1>1, <1>2, <1>3, <1>4, <1>5, <1>6

LEMMA FaithScans ==
    ASSUME Base, Faith, NEW k \in Closers,
           \/ Start(k) \/ ScanMarkers(k) \/ ScanDomain(k) \/ ScanVersion(k)
           \/ CatchUp(k) \/ Probe(k) \/ Interrupt(k)
           \/ ReadCheckpoint(k) \/ ProbeCap(k) \/ Pending(k) \/ Keep(k)
    PROVE  Faith'
<1>1. UNCHANGED <<log, written, cache, call>>
  BY DEF sourcing, Start, ScanMarkers, ScanDomain, ScanVersion, CatchUp, Probe, Interrupt,
         ReadCheckpoint, ProbeCap, Pending, Keep
<1>2. \A j \in Closers \ {k} : closer'[j] = closer[j]
  BY OthersStay DEF CloseStep
<1>3. Domain(log) # {} => Alive
  BY SourcingAssumption DEF Domain, Alive
<1>4. SeedOK(closer[k])
  BY DEF Faith, SeedInv
<1>5. SeedOK(closer'[k])
  BY <1>3, <1>4, ScansOn DEF SeedOK, Guarded, WindowPhases
<1> QED
  BY <1>1, <1>2, <1>5, FaithStill

\* The seed is loaded from the whole history.
LEMMA FaithSeed ==
    ASSUME Base, Faith, NEW k \in Closers, Seed(k) \/ Archive(k) PROVE Faith'
<1>1. /\ closer \in [Closers -> Closer] /\ closer[k] \in Closer /\ SeedOK(closer[k])
      /\ UNCHANGED <<policy, sourcing, row, checkpoint>>
  BY BaseHas, GuardedTurns DEF Faith, SeedInv
<1>2. \A j \in Closers \ {k} : closer'[j] = closer[j]
  BY OthersStay DEF CloseStep
<1>3. CASE Archive(k)
  <2>1. /\ closer[k].at = "archive" /\ closer'[k].at = "truncate"
        /\ closer'[k].mode = closer[k].mode /\ closer'[k].state = closer[k].state
    BY <1>1, <1>3 DEF Archive, At, Goto, Closer
  <2>2. SeedOK(closer'[k])
    BY <1>1, <2>1 DEF SeedOK, Guarded
  <2> QED
    BY <1>1, <1>2, <2>2, FaithStill DEF sourcing
<1>4. CASE Seed(k)
  <2> DEFINE f == cache[CloserCache]
  <2>1. closer[k].at = "seed" /\ closer' = [closer EXCEPT ![k] =
                 [closer[k] EXCEPT !.at = "archive", !.state = Load(f).state]]
    BY <1>4, GuardedTurns DEF Seed, At
  <2>2. Alive /\ Complete /\ HistInv
    BY <1>1, <2>1, AliveIs DEF SeedOK, Guarded, Faith
  <2>3. f \in Folded /\ Behind(f) /\ Faithful(f)
    BY CloseAssumption, HandsAre, HandsFaithful DEF Hands, Faith
  <2> HIDE DEF f
  <2>4. Load(f).state = written
    BY <2>2, <2>3, LoadsWhole
  <2>5. closer'[k].at = "archive" /\ closer'[k].state = written
    BY <1>1, <2>1, <2>4 DEF Closer
  <2>6. SeedOK(closer'[k])
    BY <2>2, <2>5 DEF SeedOK, Guarded
  <2> QED
    BY <1>1, <1>2, <2>6, FaithStill DEF sourcing
<1> QED
  BY <1>3, <1>4

\* What a full closer writes: nothing, the tombstone, or the seed alone.
LEMMA GuardIs ==
    ASSUME Base, NEW k \in Closers, Guard(k)
    PROVE  /\ closer[k].at = "guard"
           /\ UNCHANGED <<policy, written, cache, call, row, checkpoint, archived>>
           /\ \/ closer'[k].at = "idle" /\ UNCHANGED <<log, nextId>>
              \/ /\ closer'[k].at \in {"seed", "archive"}
                 /\ closer'[k].mode = closer[k].mode
                 /\ closer'[k].at = "archive" => closer[k].mode # "restart"
                 /\ \/ closer[k].resumed /\ UNCHANGED <<log, nextId>>
                    \/ /\ ~closer[k].resumed /\ closer[k].version = HeadVersion
                       /\ nextId' = nextId + 1
                       /\ \E e \in Event : /\ log' = log \cup {e} /\ e.id = nextId
                                           /\ e.name = TOMBSTONE_EVENT
                                           /\ HeadVersion' = HeadVersion + 1
<1>1. closer[k].at = "guard" /\ closer \in [Closers -> Closer]
      /\ UNCHANGED <<policy, written, cache, call, row, checkpoint, archived>>
  BY BaseHas DEF Guard, At
<1>2. CASE Leave(k) /\ UNCHANGED <<log, nextId>>
  BY <1>1, <1>2, ReadsAre
<1>3. ASSUME Goto(k, AfterGuard(closer[k].mode))
      PROVE  /\ closer'[k].at \in {"seed", "archive"} /\ closer'[k].mode = closer[k].mode
             /\ closer'[k].at = "archive" => closer[k].mode # "restart"
  <2>1. PICK at \in {"seed", "archive"} :
          /\ at = AfterGuard(closer[k].mode)
          /\ at = "archive" => closer[k].mode # "restart"
    BY DEF AfterGuard
  <2> DEFINE cl == [closer[k] EXCEPT !.at = at]
  <2>2. closer' = [closer EXCEPT ![k] = cl] /\ cl.at = at /\ cl.mode = closer[k].mode
    <3>1. at \in ClosePhases
      BY DEF ClosePhases
    <3> QED
      BY <1>3, <2>1, <3>1, GotoIs
  <2> HIDE DEF cl
  <2>3. closer'[k] = cl
    BY <1>1, <2>2
  <2> QED
    BY <2>1, <2>2, <2>3
<1>4. CASE closer[k].resumed /\ Goto(k, AfterGuard(closer[k].mode)) /\ UNCHANGED <<log, nextId>>
  BY <1>1, <1>3, <1>4
<1>5. CASE /\ ~closer[k].resumed /\ closer[k].version = HeadVersion /\ nextId <= MaxId
           /\ log' = log \cup {Append1(TOMBSTONE_EVENT, {})}
           /\ nextId' = nextId + 1
           /\ Goto(k, AfterGuard(closer[k].mode))
  <2>0. nextId \in Nat /\ log \in SUBSET Event /\ Ranked(log, nextId)
    BY BaseHas
  <2> DEFINE e == Append1(TOMBSTONE_EVENT, {})
  <2>1. Extends({e}, 1) /\ e.name = TOMBSTONE_EVENT /\ e.id = nextId
    BY <1>5, <2>0, OneRow
  <2> HIDE DEF e
  <2>2. log' = log \cup {e} /\ nextId' = nextId + 1
    BY <1>5 DEF e
  <2>3. HeadVersion' = HeadVersion + 1
    BY <2>0, <2>1, <2>2, AppendTop
  <2>4. e \in Event
    BY <2>1 DEF Extends
  <2>5. \E d \in Event : /\ log' = log \cup {d} /\ d.id = nextId
                         /\ d.name = TOMBSTONE_EVENT /\ HeadVersion' = HeadVersion + 1
    BY <2>1, <2>2, <2>3, <2>4
  <2> QED
    BY <1>1, <1>3, <1>5, <2>2, <2>5
<1> QED
  BY <1>2, <1>4, <1>5 DEF Guard

LEMMA TruncateIs ==
    ASSUME Base, NEW k \in Closers, Truncate(k)
    PROVE  /\ closer[k].at = "truncate"
           /\ UNCHANGED <<policy, written, cache, call, row, checkpoint, archived>>
           /\ closer'[k].at = "warm" /\ closer'[k].mode = closer[k].mode
           /\ closer'[k].state = closer[k].state /\ closer'[k].head = nextId
           /\ nextId' = nextId + 1
           /\ \E e : /\ log' = {e} /\ e.id = nextId /\ e.state = closer[k].state
                     /\ e.name = IF closer[k].mode = "restart"
                                 THEN SNAP_EVENT ELSE TOMBSTONE_EVENT
<1>1. /\ closer[k].at = "truncate" /\ closer \in [Closers -> Closer] /\ closer[k] \in Closer
      /\ UNCHANGED <<policy, written, cache, call, row, checkpoint, archived>>
      /\ nextId' = nextId + 1
  BY BaseHas DEF Truncate, At
<1> DEFINE name == IF closer[k].mode = "restart" THEN SNAP_EVENT ELSE TOMBSTONE_EVENT
           e == [id |-> nextId, version |-> 0, name |-> name, state |-> closer[k].state]
           cl == [closer[k] EXCEPT !.at = "warm", !.head = nextId]
<1>2. log' = {e} /\ closer' = [closer EXCEPT ![k] = cl]
  BY DEF Truncate, Go
<1>3. /\ cl.at = "warm" /\ cl.mode = closer[k].mode /\ cl.state = closer[k].state
      /\ cl.head = nextId
  BY <1>1 DEF Closer
<1>4. e.id = nextId /\ e.state = closer[k].state /\ e.name = name
  OBVIOUS
<1> HIDE DEF cl, e
<1>5. closer'[k] = cl
  BY <1>1, <1>2
<1>6. \E d : /\ log' = {d} /\ d.id = nextId /\ d.state = closer[k].state /\ d.name = name
  BY <1>2, <1>4
<1> QED
  BY <1>1, <1>3, <1>5, <1>6

LEMMA PruneIs ==
    ASSUME Base, NEW k \in Closers, Prune(k)
    PROVE  /\ closer[k].at = "prune" /\ closer'[k].at = "idle"
           /\ UNCHANGED <<policy, nextId, written, cache, call, row, checkpoint, archived>>
           /\ \/ log' = log
              \/ \E snap \in log : /\ snap.name = SNAP_EVENT
                                   /\ snap.id < closer[k].before /\ snap.id <= closer[k].cap
                                   /\ log' = {e \in log : ~(e.id < snap.id)}
                                   /\ snap \in log'
<1>1. /\ log' = log \ Prefix(closer[k]) /\ closer[k].at = "prune" /\ closer'[k].at = "idle"
      /\ UNCHANGED <<policy, nextId, written, cache, call, row, checkpoint, archived>>
  BY ReadsAre DEF Prune, At
<1>2. CASE Prefix(closer[k]) = {}
  BY <1>1, <1>2
<1>3. CASE Prefix(closer[k]) # {}
  <2>1. PICK snap \in log :
           /\ snap.name = SNAP_EVENT /\ snap.id < closer[k].before
           /\ snap.id <= closer[k].cap
           /\ Prefix(closer[k]) = {e \in log : e.id < snap.id}
           /\ snap \notin Prefix(closer[k])
    BY <1>3, BaseHas, PrefixIs
  <2>2. log' = {e \in log : ~(e.id < snap.id)} /\ snap \in log'
    BY <1>1, <2>1
  <2> QED
    BY <1>1, <2>1, <2>2
<1> QED
  BY <1>2, <1>3

\* In the steps of a full closer that write rows the other closers prune.
LEMMA FaithOthers ==
    ASSUME Base, Careful(policy), NEW k \in Closers, closer[k].at \in FullPhases,
           CloseStep(k), SeedOK(closer[k])'
    PROVE  SeedInv'
<1> SUFFICES ASSUME NEW j \in Closers PROVE SeedOK(closer[j])'
  BY DEF SeedInv
<1>1. CASE j = k
  BY <1>1
<1>2. CASE j # k
  <2>1. closer'[j] = closer[j] /\ closer[j].at \notin FullPhases
    BY <1>2, OneFull, OthersStay
  <2> QED
    BY <2>1 DEF SeedOK, FullPhases, Scans, Guarded
<1> QED
  BY <1>1, <1>2

LEMMA FaithGuard ==
    ASSUME Base, Careful(policy), Faith, NEW k \in Closers, Guard(k) PROVE Faith'
<1>1. closer[k].at = "guard" /\ SeedOK(closer[k]) /\ Alive /\ Complete
      /\ UNCHANGED <<written, cache, call>>
  <2>1. closer[k].at = "guard" /\ SeedOK(closer[k]) /\ UNCHANGED <<written, cache, call>>
    BY GuardIs DEF Faith, SeedInv
  <2> QED
    BY <2>1, AliveIs DEF SeedOK, Faith
<1>2. closer'[k].at = "idle" \/
        (closer'[k].at \in {"seed", "archive"}
         /\ (closer'[k].at = "archive" => closer'[k].mode # "restart"))
  BY GuardIs
<1>3. log' = log \/ \E e \in Event : log' = log \cup {e} /\ e.name = TOMBSTONE_EVENT
  BY GuardIs
<1>4. Alive' /\ Complete'
  BY <1>1, <1>3 DEF Alive, Complete
<1>5. HistInv'
  <2>1. \A e \in log' : e.name \in Names \cup {SNAP_EVENT} => e \in log
    BY <1>3, SourcingAssumption DEF SNAP_EVENT, TOMBSTONE_EVENT
  <2>2. \A e \in log' : e.name \in Names => e.id \in written
    BY <2>1 DEF Faith, HistInv
  <2>3. \A e \in log' : e.name = SNAP_EVENT => e.state = UpTo(e.id)
    BY <2>1 DEF Faith, HistInv, SnapshotFaithful
  <2> QED
    BY <1>1, <1>4, <2>2, <2>3 DEF HistInv, SnapshotFaithful, UpTo
<1>6. FoldInv'
  BY <1>1 DEF Faith, FoldInv, Faithful, UpTo
<1>7. SeedInv'
  <2>1. SeedOK(closer[k])'
    BY <1>2, <1>4 DEF SeedOK
  <2> QED
    BY <1>1, <2>1, FaithOthers DEF FullPhases, Scans, CloseStep
<1> QED
  BY <1>5, <1>6, <1>7 DEF Faith

LEMMA FaithTruncate ==
    ASSUME Base, Careful(policy), Faith, NEW k \in Closers, Truncate(k) PROVE Faith'
<1>1. /\ closer[k].at = "truncate" /\ SeedOK(closer[k])
      /\ UNCHANGED <<written, cache, call>>
      /\ closer'[k].at = "warm" /\ closer'[k].mode = closer[k].mode
      /\ closer'[k].state = closer[k].state /\ closer'[k].head = nextId
  BY TruncateIs DEF Faith, SeedInv
<1>2. PICK e : /\ log' = {e} /\ e.id = nextId /\ e.state = closer[k].state
               /\ e.name = IF closer[k].mode = "restart" THEN SNAP_EVENT ELSE TOMBSTONE_EVENT
  BY TruncateIs
<1>3. closer[k].mode = "restart" => e.state = written
  BY <1>1, <1>2 DEF SeedOK
<1>4. UpTo(nextId) = written /\ \A i \in written : i <= nextId
  <2>1. nextId \in Int /\ nextId >= HeadId
    BY BaseHas
  <2>2. UpTo(nextId) = written
    BY <2>1, UpToHead
  <2> QED
    BY <2>2 DEF UpTo
<1>5. CASE closer[k].mode = "restart"
  <2>1. e.name = SNAP_EVENT /\ e.state = written /\ e.name \notin Names
    BY <1>2, <1>3, <1>5, SourcingAssumption
  <2>2. Complete'
    BY <1>1, <1>2, <1>4, <2>1 DEF Complete
  <2>3. SnapshotFaithful'
    BY <1>1, <1>2, <1>4, <2>1 DEF SnapshotFaithful, UpTo
  <2> QED
    <3>1. HistInv'
      BY <1>2, <2>1, <2>2, <2>3 DEF HistInv
    <3>2. SeedOK(closer[k])'
      BY <1>1, <1>2, <1>4, <2>1 DEF SeedOK, Guarded, UpTo
    <3>3. SeedInv'
      BY <1>1, <3>2, FaithOthers DEF FullPhases, Guarded, CloseStep
    <3>4. FoldInv'
      BY <1>1 DEF Faith, FoldInv, Faithful, UpTo
    <3> QED
      BY <3>1, <3>3, <3>4 DEF Faith
<1>6. CASE closer[k].mode # "restart"
  <2>1. e.name = TOMBSTONE_EVENT /\ e.name \notin Names /\ e.name # SNAP_EVENT
    BY <1>2, <1>6, SourcingAssumption DEF SNAP_EVENT, TOMBSTONE_EVENT
  <2>2. HistInv'
    BY <1>2, <2>1 DEF HistInv, Retired, SnapshotFaithful
  <2>3. SeedOK(closer[k])'
    BY <1>1, <1>6 DEF SeedOK, Guarded
  <2>4. SeedInv'
    BY <1>1, <2>3, FaithOthers DEF FullPhases, Guarded, CloseStep
  <2>5. FoldInv'
    BY <1>1 DEF Faith, FoldInv, Faithful, UpTo
  <2> QED
    BY <2>2, <2>4, <2>5 DEF Faith
<1> QED
  BY <1>5, <1>6

LEMMA FaithWarm ==
    ASSUME Base, Faith, NEW k \in Closers, Warm(k) PROVE Faith'
<1>1. /\ closer[k].at = "warm" /\ SeedOK(closer[k])
      /\ cache \in [Caches -> Folded] /\ CloserCache \in Caches
      /\ UNCHANGED <<log, written, call>> /\ closer'[k].at = "idle"
  BY BaseHas, CloseAssumption, ReadsAre DEF Warm, At, Faith, SeedInv
<1> DEFINE f == IF closer[k].mode = "restart"
                THEN [state |-> closer[k].state, version |-> 0, id |-> closer[k].head]
                ELSE Nothing
<1>2. cache' = [cache EXCEPT ![CloserCache] = f]
  BY DEF Warm
<1>3. Faithful(f)
  <2>1. CASE closer[k].mode = "restart"
    BY <1>1, <2>1 DEF SeedOK, Faithful
  <2>2. CASE closer[k].mode # "restart"
    <3>1. Faithful(Nothing)
      BY UpToHead DEF Faithful, Nothing
    <3> QED
      BY <2>2, <3>1
  <2> QED
    BY <2>1, <2>2
<1> HIDE DEF f
<1>4. \A j \in Caches : Faithful(cache'[j])
  BY <1>1, <1>2, <1>3 DEF Faith, FoldInv
<1>5. FoldInv'
  BY <1>1, <1>4 DEF Faith, FoldInv, Faithful, UpTo
<1>6. HistInv'
  BY <1>1 DEF Faith, HistInv, Retired, Complete, SnapshotFaithful, UpTo
<1>7. SeedInv'
  <2> SUFFICES ASSUME NEW j \in Closers PROVE SeedOK(closer[j])'
    BY DEF SeedInv
  <2>1. closer'[j] = closer[j] \/ closer'[j].at = "idle"
    BY <1>1, OthersStay DEF CloseStep
  <2>2. SeedOK(closer[j])
    BY DEF Faith, SeedInv
  <2> QED
    BY <1>1, <2>1, <2>2 DEF SeedOK, Alive, UpTo, Guarded
<1> QED
  BY <1>5, <1>6, <1>7 DEF Faith

\* What a prune removes, the snapshot above it stands for.
LEMMA FaithPrune ==
    ASSUME Base, Faith, NEW k \in Closers, Prune(k) PROVE Faith'
<1>1. /\ closer'[k].at = "idle" /\ UNCHANGED <<written, cache, call>>
      /\ \A j \in Closers \ {k} : closer'[j] = closer[j]
  BY PruneIs, OthersStay DEF CloseStep
<1>2. CASE log' = log
  <2>1. SeedOK(closer'[k])
    BY <1>1 DEF SeedOK, Guarded
  <2> QED
    BY <1>1, <1>2, <2>1, FaithStill
<1>3. CASE \E snap \in log : /\ snap.name = SNAP_EVENT
                             /\ log' = {e \in log : ~(e.id < snap.id)}
                             /\ snap \in log'
  <2>1. PICK snap \in log : /\ snap.name = SNAP_EVENT /\ snap \in log'
                            /\ log' = {e \in log : ~(e.id < snap.id)}
    BY <1>3
  <2>2. Alive /\ Alive' /\ Complete
    BY <2>1, AliveIs DEF Alive, SNAP_EVENT, TOMBSTONE_EVENT, Faith
  <2>3. Complete'
    <3> SUFFICES ASSUME NEW i \in written
                 PROVE  \/ \E e \in log' : e.name \in Names /\ e.id = i
                        \/ \E e \in log' : e.name = SNAP_EVENT /\ i <= e.id
      BY <1>1 DEF Complete
    <3>1. PICK e \in log : \/ e.name \in Names /\ e.id = i
                           \/ e.name = SNAP_EVENT /\ i <= e.id
      BY <2>2 DEF Complete
    <3>2. CASE e \in log'
      BY <3>1, <3>2
    <3>3. CASE e \notin log'
      <4>1. e.id < snap.id
        BY <2>1, <3>3
      <4>2. i \in Int /\ e.id \in Int /\ snap.id \in Int
        BY UpToHead, BaseHas, SourcingAssumption DEF Event
      <4>3. i <= snap.id
        BY <3>1, <4>1, <4>2
      <4> QED
        BY <2>1, <4>3
    <3> QED
      BY <3>2, <3>3
  <2>4. log' \subseteq log
    BY <2>1
  <2>5. HistInv'
    BY <1>1, <2>3, <2>4 DEF Faith, HistInv, SnapshotFaithful, UpTo
  <2>6. FoldInv'
    BY <1>1 DEF Faith, FoldInv, Faithful, UpTo
  <2>7. SeedInv'
    <3> SUFFICES ASSUME NEW j \in Closers PROVE SeedOK(closer[j])'
      BY DEF SeedInv
    <3>1. closer'[j] = closer[j] \/ closer'[j].at = "idle"
      BY <1>1
    <3>2. SeedOK(closer[j])
      BY DEF Faith, SeedInv
    <3> QED
      BY <1>1, <2>2, <3>1, <3>2 DEF SeedOK, UpTo, Guarded
  <2> QED
    BY <2>5, <2>6, <2>7 DEF Faith
<1> QED
  BY <1>2, <1>3, PruneIs

LEMMA FaithStep ==
    ASSUME Base, Careful(policy), Faith, [CloseNext]_vars PROVE Faith'
<1>1. CASE CallStep \/ ((\E k \in Caches : Evict(k)) /\ UNCHANGED closing)
  <2>1. UNCHANGED closing
    BY <1>1, CallMoves
  <2>2. CASE CallsMove
    BY <2>1, <2>2, FaithMoves
  <2>3. CASE ~CallsMove
    <3>0. PICK c \in Calls : \E R, m : Appends(c, R, m)
      BY <1>1, <2>3, CallMoves
    <3>1. PICK R, m : Appends(c, R, m)
      BY <3>0
    <3> QED
      BY <2>1, <3>1, FaithAppends
  <2> QED
    BY <2>2, <2>3
<1>2. CASE Correlate \/ Handle
  <2>1. UNCHANGED <<policy, sourcing, archived, closer>>
    BY <1>2, RowMoves
  <2> QED
    BY <2>1, FaithStill DEF sourcing
<1>3. ASSUME NEW k \in Closers, CloseStep(k) PROVE Faith'
  <2>1. CASE \/ Start(k) \/ ScanMarkers(k) \/ ScanDomain(k) \/ ScanVersion(k)
             \/ CatchUp(k) \/ Probe(k) \/ Interrupt(k)
             \/ ReadCheckpoint(k) \/ ProbeCap(k) \/ Pending(k) \/ Keep(k)
    BY <2>1, FaithScans
  <2>2. CASE Seed(k) \/ Archive(k)
    BY <2>2, FaithSeed
  <2>3. CASE Guard(k)
    BY <2>3, FaithGuard
  <2>4. CASE Truncate(k)
    BY <2>4, FaithTruncate
  <2>5. CASE Warm(k)
    BY <2>5, FaithWarm
  <2>6. CASE Prune(k)
    BY <2>6, FaithPrune
  <2> QED
    BY <1>3, <2>1, <2>2, <2>3, <2>4, <2>5, <2>6 DEF CloseStep
<1>4. CASE UNCHANGED vars
  BY <1>4, FaithStill DEF vars, sourcing, closing
<1> QED
  BY <1>1, <1>2, <1>3, <1>4 DEF CloseNext

LEMMA InitFaith == CloseInit => Faith
<1> SUFFICES ASSUME CloseInit PROVE Faith
  OBVIOUS
<1>1. Base /\ log = {} /\ written = {} /\ cache = [k \in Caches |-> Nothing]
      /\ call = [c \in Calls |-> Idle] /\ closer = [k \in Closers |-> Away]
  BY InitBase DEF CloseInit, Init
<1>2. Faithful(Nothing) /\ Idle.got = Nothing
  BY <1>1, UpToHead DEF Faithful, Nothing, Idle
<1>3. FoldInv
  BY <1>1, <1>2 DEF FoldInv
<1>4. HistInv
  BY <1>1 DEF HistInv, Complete, SnapshotFaithful
<1>5. SeedInv
  BY <1>1 DEF SeedInv, SeedOK, Away, Guarded
<1> QED
  BY <1>3, <1>4, <1>5 DEF Faith

LEMMA FaithAlways ==
    ASSUME \A p \in Policies : Careful(p) PROVE CloseSpec => [](Base /\ Faith)
<1>1. Base => Careful(policy)
  BY DEF Base, CloseTypeOK
<1>2. Base /\ Faith /\ [CloseNext]_vars => Base' /\ Faith'
  BY <1>1, BaseStep, FaithStep
<1>3. CloseInit => Base /\ Faith
  BY InitBase, InitFaith
<1> QED
  BY <1>2, <1>3, PTL DEF CloseSpec

\* Loads return the whole history across restarts and prunes: from no entry,
\* from any cache and from any checkpoint a call has in hand.
THEOREM CloseLoadCorrect ==
    ASSUME \A p \in Policies : Careful(p) PROVE CloseSpec => []LoadsAreCurrent
<1>1. Base /\ Faith => LoadsAreCurrent
  <2> SUFFICES ASSUME Base, Faith, ~Retired,
                      NEW f \in {Nothing} \cup {cache[k] : k \in Caches}
                          \cup {call[c].got : c \in {d \in Calls : call[d].at = "query"}}
               PROVE  Load(f).state = written
    BY DEF LoadsAreCurrent
  <2>1. f \in Hands /\ HistInv /\ FoldInv /\ Complete
    BY DEF Hands, Faith, HistInv
  <2>2. f \in Folded /\ Behind(f) /\ Faithful(f)
    BY <2>1, HandsAre, HandsFaithful
  <2> QED
    BY <2>1, <2>2, LoadsWhole
<1> QED
  BY <1>1, FaithAlways, PTL

\* Caches stay the fold of the events at or below their id across restarts,
\* prunes and the warming of the cache.
THEOREM CloseCacheCorrect ==
    ASSUME \A p \in Policies : Careful(p) PROVE CloseSpec => []CacheFaithful
<1>1. Base /\ Faith => CacheFaithful
  BY DEF Faith, FoldInv, Faithful, CacheFaithful
<1> QED
  BY <1>1, FaithAlways, PTL

-----------------------------------------------------------------------------
(* Nothing is removed unarchived, and nothing is archived twice.           *)

\* What an archive callback has seen when the removal is due.
ArchiveOK(cl) ==
    /\ cl.at \in WindowPhases => cl.before <= nextId
    /\ cl.at = "truncate" => IdsOf(Domain(log)) \subseteq archived
    /\ cl.at = "prune" => \A e \in log : e.name \in Names /\ e.id < cl.before => e.id \in archived

ArchiveInv == \A k \in Closers : ArchiveOK(closer[k])

\* How the log grows and shrinks, and by whom.
LEMMA LogSteps ==
    ASSUME Base, Careful(policy), [CloseNext]_vars
    PROVE  /\ nextId \in Nat /\ nextId <= nextId' /\ nextId' \in Nat
           /\ archived \subseteq archived'
           /\ \/ log' = log
              \/ /\ UNCHANGED closing /\ log \subseteq log' /\ ~Closed(log)
                 /\ ~(policy.alone /\ Scanning) /\ HeadVersion < HeadVersion'
                 /\ \A e \in log' \ log : e.id >= nextId
              \/ \E k \in Closers :
                   \/ Guard(k) /\ \E e \in Event : /\ log' = log \cup {e} /\ e.id = nextId
                                                   /\ e.name = TOMBSTONE_EVENT
                   \/ Truncate(k)
                   \/ Prune(k)
<1>0. nextId \in Nat
  BY BaseHas
<1>1. CASE CallStep \/ ((\E k \in Caches : Evict(k)) /\ UNCHANGED closing)
  <2>1. UNCHANGED closing
    BY <1>1, CallMoves
  <2>2. CASE CallsMove
    BY <1>0, <2>1, <2>2 DEF CallsMove, closing
  <2>3. CASE ~CallsMove
    <3>0. PICK c \in Calls : \E R, m : Appends(c, R, m)
      BY <1>1, <2>3, CallMoves
    <3>1. PICK R, m : Appends(c, R, m)
      BY <3>0
    <3>2. ~(policy.alone /\ Scanning)
      BY <1>1, <2>3, CallMoves
    <3>3. /\ \A e \in R : nextId <= e.id
          /\ HeadVersion < HeadVersion'
      BY <3>1, AppendsTop
    <3>4. /\ log' = log \cup R /\ nextId' = nextId + m /\ ~Closed(log) /\ m \in Nat
      BY <3>1 DEF Appends
    <3>5. \A e \in R : e.id \in Nat
      BY <3>1, AppendsTop, SourcingAssumption DEF Event
    <3>6. \A e \in log' \ log : e.id >= nextId
      BY <1>0, <3>3, <3>4, <3>5
    <3> QED
      BY <1>0, <2>1, <3>2, <3>3, <3>4, <3>6 DEF closing
  <2> QED
    BY <2>2, <2>3
<1>2. CASE Correlate \/ Handle
  BY <1>0, <1>2, RowMoves DEF sourcing
<1>3. ASSUME NEW k \in Closers, CloseStep(k)
      PROVE  /\ nextId <= nextId' /\ nextId' \in Nat /\ archived \subseteq archived'
             /\ \/ log' = log
                \/ Guard(k) /\ \E e \in Event : /\ log' = log \cup {e} /\ e.id = nextId
                                                /\ e.name = TOMBSTONE_EVENT
                \/ Truncate(k)
                \/ Prune(k)
  <2>0. archived \subseteq archived'
    BY <1>3, OthersStay
  <2>1. CASE \/ Start(k) \/ ScanMarkers(k) \/ ScanDomain(k) \/ ScanVersion(k)
             \/ CatchUp(k) \/ Probe(k) \/ Interrupt(k)
             \/ ReadCheckpoint(k) \/ ProbeCap(k) \/ Pending(k) \/ Keep(k)
             \/ Seed(k) \/ Archive(k) \/ Warm(k)
    <3>1. log' = log /\ nextId' = nextId
      BY <2>1 DEF sourcing, Start, ScanMarkers, ScanDomain, ScanVersion, CatchUp, Probe,
                  Interrupt, ReadCheckpoint, ProbeCap, Pending, Keep, Seed, Archive, Warm
    <3> QED
      BY <1>0, <2>0, <3>1
  <2>2. CASE Guard(k)
    BY <1>0, <2>0, <2>2, GuardIs
  <2>3. CASE Truncate(k)
    BY <1>0, <2>0, <2>3, TruncateIs
  <2>4. CASE Prune(k)
    BY <1>0, <2>0, <2>4, PruneIs
  <2> QED
    BY <1>3, <2>1, <2>2, <2>3, <2>4 DEF CloseStep
<1>4. CASE UNCHANGED vars
  BY <1>0, <1>4 DEF vars, sourcing, closing
<1> QED
  BY <1>0, <1>1, <1>2, <1>3, <1>4 DEF CloseNext

\* Only a truncation and a prune remove rows.
LEMMA Removes ==
    ASSUME Base, Careful(policy), [CloseNext]_vars, NEW e \in log, e \notin log'
    PROVE  \E k \in Closers :
              \/ Truncate(k) /\ closer[k].at = "truncate"
              \/ /\ Prune(k) /\ closer[k].at = "prune"
                 /\ e.id < closer[k].before /\ e.id <= closer[k].cap
<1>1. PICK k \in Closers : Truncate(k) \/ Prune(k)
  BY LogSteps
<1>2. CASE Truncate(k)
  BY <1>2, TruncateIs
<1>3. CASE Prune(k)
  <2>1. PICK snap \in log : /\ snap.id < closer[k].before /\ snap.id <= closer[k].cap
                            /\ log' = {d \in log : ~(d.id < snap.id)}
    BY <1>3, PruneIs
  <2>2. e.id < snap.id
    BY <2>1
  <2>3. /\ e.id \in Int /\ snap.id \in Int /\ closer[k].before \in Int /\ closer[k].cap \in Int
    BY BaseHas, SourcingAssumption DEF Event, Closer
  <2> QED
    BY <1>3, <2>1, <2>2, <2>3, PruneIs
<1> QED
  BY <1>1, <1>2, <1>3

\* The domain events of the next log are events of this one, or appended to
\* the open stream, past every cutoff.
LEMMA NewEvents ==
    ASSUME Base, Careful(policy), [CloseNext]_vars
    PROVE  \A e \in log' : e.name \in Names =>
              \/ e \in log
              \/ /\ e.id >= nextId /\ ~Closed(log) /\ ~(policy.alone /\ Scanning)
                 /\ HeadVersion < HeadVersion' /\ UNCHANGED closing
<1>1. CASE \/ log' = log
           \/ /\ UNCHANGED closing /\ ~Closed(log)
              /\ ~(policy.alone /\ Scanning) /\ HeadVersion < HeadVersion'
              /\ \A e \in log' \ log : e.id >= nextId
  BY <1>1
<1>2. CASE \E j \in Closers :
             \/ \E e \in Event : log' = log \cup {e} /\ e.name = TOMBSTONE_EVENT
             \/ Truncate(j) \/ Prune(j)
  <2>1. PICK j \in Closers :
             \/ \E e \in Event : log' = log \cup {e} /\ e.name = TOMBSTONE_EVENT
             \/ Truncate(j) \/ Prune(j)
    BY <1>2
  <2>2. CASE \E e \in Event : log' = log \cup {e} /\ e.name = TOMBSTONE_EVENT
    BY <2>2, SourcingAssumption
  <2>3. CASE Truncate(j)
    <3>1. \A e \in log' : e.name \in {SNAP_EVENT, TOMBSTONE_EVENT}
      BY <2>3, TruncateIs
    <3> QED
      BY <3>1, SourcingAssumption
  <2>4. CASE Prune(j)
    BY <2>4, PruneIs
  <2> QED
    BY <2>1, <2>2, <2>3, <2>4
<1> QED
  BY <1>1, <1>2, LogSteps

\* The callbacks run over what is removed later.
LEMMA ArchiveSteps ==
    ASSUME Base, Careful(policy), ArchiveInv, [CloseNext]_vars, NEW k \in Closers
    PROVE  \/ closer'[k] = closer[k]
           \/ closer'[k].at \notin WindowPhases \cup {"truncate"}
           \/ closer'[k].at \in WindowPhases /\ closer'[k].at # "prune"
              /\ closer'[k].before <= nextId /\ log' = log
           \/ closer'[k].at = "truncate" /\ IdsOf(Domain(log)) \subseteq archived'
              /\ log' = log
           \/ closer'[k].at = "prune" /\ closer'[k].before <= nextId /\ log' = log
              /\ \A e \in log : e.name \in Names /\ e.id < closer'[k].before => e.id \in archived'
<1>1. CASE closer' = closer
  BY <1>1
<1>2. ASSUME NEW j \in Closers, CloseStep(j), j # k PROVE closer'[k] = closer[k]
  BY <1>2, OthersStay
<1>3. CASE CloseStep(k)
  <2>0. /\ ArchiveOK(closer[k]) /\ nextId \in Nat
    BY BaseHas DEF ArchiveInv
  <2>1. CASE Leave(k)
    BY <2>1, ReadsAre DEF WindowPhases
  <2>2. CASE Start(k)
    <3>1. \/ closer'[k].at = "markers"
          \/ closer'[k].at = "checkpoint" /\ closer'[k].before = nextId
      BY <2>2, ReadsAre
    <3>2. log' = log
      BY <2>2 DEF Start, sourcing
    <3> QED
      BY <2>0, <3>1, <3>2 DEF WindowPhases
  <2>3. CASE ReadCheckpoint(k) \/ ProbeCap(k)
    BY <2>0, <2>3, ReadsAre DEF WindowPhases, ReadCheckpoint, ProbeCap, sourcing, ArchiveOK
  <2>4. CASE ~Leave(k) /\ Pending(k)
    <3>1. closer[k].at = "pending" /\ closer'[k].at = "keep" /\ log' = log
          /\ closer'[k].before = closer[k].before
      BY <2>4, WalksAre DEF Pending, sourcing, At
    <3> QED
      BY <2>0, <3>1 DEF WindowPhases, ArchiveOK
  <2>5. CASE ~Leave(k) /\ Keep(k)
    <3>1. closer[k].at = "keep" /\ closer'[k].at = "prune" /\ log' = log
          /\ closer'[k].before = closer[k].before
          /\ archived' = archived \cup IdsOf({e \in Domain(log) : e.id < closer[k].before})
      BY <2>5, WalksAre DEF Keep, sourcing, At
    <3>2. \A e \in log : e.name \in Names /\ e.id < closer[k].before => e.id \in archived'
      BY <3>1 DEF IdsOf, Domain
    <3>3. closer[k].before <= nextId
      BY <2>0, <3>1 DEF WindowPhases, ArchiveOK
    <3> QED
      BY <3>1, <3>2, <3>3
  <2>6. CASE ~Leave(k) /\ Archive(k)
    <3>1. closer'[k].at = "truncate"
      BY <2>6, WalksAre DEF Archive, At
    <3> QED
      BY <2>6, <3>1 DEF Archive, sourcing
  <2>7. CASE ~Leave(k) /\ (CatchUp(k) \/ Probe(k))
    <3>1. closer[k].at \in {"catchup", "probe"}
      BY <2>7 DEF CatchUp, Probe, At
    <3>2. closer'[k].at \in {"probe", "guard"}
      BY <2>7, <3>1, WalksAre
    <3> QED
      BY <3>2 DEF WindowPhases
  <2>8. CASE ~Leave(k) /\ (ScanMarkers(k) \/ ScanDomain(k) \/ ScanVersion(k))
    BY <2>8, ReadsAre DEF WindowPhases
  <2>9. CASE Seed(k)
    <3>1. closer' = [closer EXCEPT ![k] =
             [closer[k] EXCEPT !.at = "archive", !.state = Load(cache[CloserCache]).state]]
      BY <2>9, GuardedTurns
    <3>2. closer'[k].at = "archive"
      BY <3>1, BaseHas DEF Closer
    <3> QED
      BY <3>2 DEF WindowPhases
  <2>10. CASE Guard(k)
    BY <2>10, GuardIs DEF WindowPhases
  <2>11. CASE Truncate(k)
    BY <2>11, TruncateIs DEF WindowPhases
  <2>12. CASE Prune(k)
    BY <2>12, PruneIs DEF WindowPhases
  <2>13. (Interrupt(k) \/ Warm(k)) => Leave(k)
    BY DEF Interrupt, Warm
  <2> QED
    BY <1>3, <2>1, <2>2, <2>3, <2>4, <2>5, <2>6, <2>7, <2>8, <2>9, <2>10, <2>11, <2>12, <2>13
       DEF CloseStep
<1>4. closer' = closer \/ \E j \in Closers : CloseStep(j)
  BY CallMoves, RowMoves DEF CloseNext, closing, vars
<1> QED
  BY <1>1, <1>2, <1>3, <1>4

LEMMA ArchiveStep ==
    ASSUME Base, Careful(policy), ArchiveInv, [CloseNext]_vars PROVE ArchiveInv'
<1> SUFFICES ASSUME NEW k \in Closers PROVE ArchiveOK(closer[k])'
  BY DEF ArchiveInv
<1>0. /\ ArchiveOK(closer[k]) /\ GuardOK(closer[k]) /\ archived \subseteq archived'
      /\ nextId \in Int /\ nextId' \in Int /\ nextId <= nextId'
      /\ closer[k].before \in Int /\ closer'[k].before \in Int
  <2>1. closer \in [Closers -> Closer] /\ closer' \in [Closers -> Closer]
    <3>1. Base'
      BY BaseStep
    <3> QED
      BY <3>1, BaseHas DEF Base, CloseTypeOK
  <2>2. 0 .. MaxId + 1 \subseteq Int
    BY SourcingAssumption
  <2> QED
    BY <2>1, <2>2, LogSteps DEF ArchiveInv, Base, CloserInv, Closer
<1>1. \A e \in log' : e.name \in Names => e \in log \/ (e.id >= nextId /\ ~Closed(log))
  BY NewEvents
<1>2. CASE closer'[k] = closer[k]
  <2>1. closer[k].at = "truncate" => IdsOf(Domain(log')) \subseteq archived'
    <3>1. closer[k].at = "truncate" => Closed(log) /\ IdsOf(Domain(log)) \subseteq archived
      BY <1>0 DEF ArchiveOK, GuardOK, Guarded
    <3> QED
      BY <1>0, <1>1, <3>1 DEF IdsOf, Domain
  <2>2. closer[k].at \in WindowPhases => closer[k].before <= nextId'
    BY <1>0 DEF ArchiveOK
  <2>3. ASSUME closer[k].at = "prune", NEW e \in log', e.name \in Names,
               e.id < closer[k].before
        PROVE  e.id \in archived'
    <3>1. closer[k].before <= nextId
      BY <1>0, <2>3 DEF ArchiveOK, WindowPhases
    <3>2. e.id \in Int
      <4>1. Base'
        BY BaseStep
      <4> QED
        BY <4>1, SourcingAssumption DEF Base, CloseTypeOK, TypeOK, Event
    <3>3. e \in log
      BY <1>0, <1>1, <2>3, <3>1, <3>2
    <3> QED
      BY <1>0, <2>3, <3>3 DEF ArchiveOK
  <2> QED
    BY <1>2, <2>1, <2>2, <2>3 DEF ArchiveOK
<1>3. CASE closer'[k].at \notin WindowPhases \cup {"truncate"}
  BY <1>3 DEF ArchiveOK, WindowPhases
<1>4. CASE closer'[k].at \in WindowPhases /\ closer'[k].at # "prune"
              /\ closer'[k].before <= nextId /\ log' = log
  BY <1>0, <1>4 DEF ArchiveOK, WindowPhases
<1>5. CASE closer'[k].at = "truncate" /\ IdsOf(Domain(log)) \subseteq archived' /\ log' = log
  BY <1>5 DEF ArchiveOK, WindowPhases
<1>6. CASE closer'[k].at = "prune" /\ closer'[k].before <= nextId /\ log' = log
              /\ \A e \in log : e.name \in Names /\ e.id < closer'[k].before => e.id \in archived'
  BY <1>0, <1>6 DEF ArchiveOK, WindowPhases
<1> QED
  BY <1>2, <1>3, <1>4, <1>5, <1>6, ArchiveSteps

LEMMA ArchiveAlways ==
    ASSUME \A p \in Policies : Careful(p) PROVE CloseSpec => [](Base /\ ArchiveInv)
<1>1. Base => Careful(policy)
  BY DEF Base, CloseTypeOK
<1>2. Base /\ ArchiveInv /\ [CloseNext]_vars => Base' /\ ArchiveInv'
  BY <1>1, BaseStep, ArchiveStep
<1>3. CloseInit => Base /\ ArchiveInv
  BY InitBase, AwayOK DEF CloseInit, ArchiveInv, ArchiveOK, WindowPhases
<1> QED
  BY <1>2, <1>3, PTL DEF CloseSpec

\* No domain event is removed that no archive callback has seen, by a full
\* close or by a prune.
THEOREM ArchiveCorrect ==
    ASSUME \A p \in Policies : Careful(p) PROVE CloseSpec => ArchivedBeforeDeleted
<1>1. Base => Careful(policy)
  BY DEF Base, CloseTypeOK
<1>2. ASSUME Base, ArchiveInv, [CloseNext]_vars,
             NEW e \in log \ log', e.name \in Names
      PROVE  e.id \in archived
  <2>1. PICK k \in Closers : \/ closer[k].at = "truncate"
                             \/ closer[k].at = "prune" /\ e.id < closer[k].before
    BY <1>1, <1>2, Removes
  <2>2. ArchiveOK(closer[k])
    BY <1>2 DEF ArchiveInv
  <2> QED
    BY <1>2, <2>1, <2>2 DEF ArchiveOK, IdsOf, Domain
<1>3. Base /\ ArchiveInv /\ [CloseNext]_vars
         => [\A e \in log \ log' : e.name \in Names => e.id \in archived]_vars
  BY <1>2
<1> QED
  BY <1>3, ArchiveAlways, PTL DEF CloseSpec, ArchivedBeforeDeleted

\* The closers of a stream prune it, or close it as a whole.
Separate(p) == Fulls(p) = {} \/ \A k \in Closers : "window" \notin p.modes[k]

Locked(cl) == cl.at \in {"keep", "prune"}

\* One closer at a time holds the lock, and what it found to prune stays.
DueInv ==
    /\ \A k, j \in Closers : Locked(closer[k]) /\ Locked(closer[j]) => k = j
    /\ \A k \in Closers : Locked(closer[k]) => Prefix(closer[k]) # {}

LEMMA DueStep ==
    ASSUME Base, Careful(policy), Separate(policy), ArchiveInv, DueInv, [CloseNext]_vars
    PROVE  DueInv'
<1>0. Base' /\ policy \in Policy
  BY BaseStep, BaseHas
\* Whoever prunes does so alone, and nobody truncates.
<1>1. ASSUME NEW k \in Closers, closer[k].at \in WindowPhases
      PROVE  \A j \in Closers : closer[j].at \notin FullPhases
  <2> SUFFICES ASSUME NEW j \in Closers, closer[j].at \in FullPhases PROVE FALSE
    OBVIOUS
  <2>1. ModeOK(k, closer[k]) /\ closer[k].at # "idle" /\ ModeOK(j, closer[j])
        /\ closer[j].at # "idle"
    BY <1>1 DEF Base, CloserInv, WindowPhases, FullPhases, Scans, Guarded
  <2>2. "window" \in policy.modes[k] /\ j \in Fulls(policy)
    BY <1>1, <2>1 DEF ModeOK, Fulls
  <2> QED
    BY <2>2 DEF Separate
<1>2. ASSUME NEW k \in Closers, Locked(closer'[k])
      PROVE  \/ closer'[k] = closer[k] /\ Locked(closer[k])
             \/ closer[k].at = "pending" /\ Pending(k) /\ ~Leave(k) /\ closer'[k].at = "keep"
                /\ closer'[k].before = closer[k].before /\ closer'[k].cap = closer[k].cap
             \/ closer[k].at = "keep" /\ Keep(k) /\ closer'[k].at = "prune"
                /\ closer'[k].before = closer[k].before /\ closer'[k].cap = closer[k].cap
  <2>1. CASE closer' = closer
    BY <1>2, <2>1
  <2>2. ASSUME NEW j \in Closers, CloseStep(j), j # k PROVE closer'[k] = closer[k]
    BY <2>2, OthersStay
  <2>3. CASE CloseStep(k)
    <3>1. closer'[k].at \in {"keep", "prune"}
      BY <1>2 DEF Locked
    <3>2. ~Leave(k)
      BY <3>1, ReadsAre
    <3>3. ~(\/ Start(k) \/ ScanMarkers(k) \/ ScanDomain(k) \/ ScanVersion(k)
            \/ ReadCheckpoint(k) \/ ProbeCap(k))
      BY <3>1, <3>2, ReadsAre
    <3>4. ~(Guard(k) \/ Truncate(k) \/ Prune(k))
      BY <3>1, GuardIs, TruncateIs, PruneIs
    <3>5. ~(Warm(k) \/ Interrupt(k))
      BY <3>2 DEF Warm, Interrupt
    <3>6. ~Seed(k)
      <4> SUFFICES ASSUME Seed(k) PROVE FALSE
        OBVIOUS
      <4>1. closer' = [closer EXCEPT ![k] =
             [closer[k] EXCEPT !.at = "archive", !.state = Load(cache[CloserCache]).state]]
        BY GuardedTurns
      <4>2. closer'[k].at = "archive"
        BY <4>1, BaseHas DEF Closer
      <4> QED
        BY <3>1, <4>2
    <3>7. CatchUp(k) \/ Probe(k) \/ Pending(k) \/ Keep(k) \/ Archive(k)
      BY <2>3, <3>3, <3>4, <3>5, <3>6 DEF CloseStep
    <3> QED
      BY <3>1, <3>2, <3>7, WalksAre
  <2>4. closer' = closer \/ \E j \in Closers : CloseStep(j)
    BY CallMoves, RowMoves DEF CloseNext, closing, vars
  <2> QED
    BY <1>2, <2>1, <2>2, <2>3, <2>4
<1>3. ASSUME NEW k \in Closers, NEW j \in Closers, Locked(closer'[k]), Locked(closer'[j])
      PROVE  k = j
  <2>1. ASSUME NEW i \in Closers, Locked(closer'[i]), ~Locked(closer[i])
        PROVE  (\A h \in Closers : ~Locked(closer[h]))
               /\ (\A h \in Closers \ {i} : closer'[h] = closer[h])
    <3>1. Pending(i)
      BY <1>2, <2>1 DEF Locked
    <3>2. \A h \in Closers : ~Locked(closer[h])
      BY <3>1 DEF Pending, LockFree, Locked
    <3>3. \A h \in Closers \ {i} : closer'[h] = closer[h]
      BY <3>1, OthersStay DEF CloseStep
    <3> QED
      BY <3>2, <3>3
  <2> QED
    BY <1>3, <2>1 DEF DueInv
<1>4. ASSUME NEW k \in Closers, Locked(closer'[k]) PROVE Prefix(closer[k])' # {}
  <2>1. Prefix(closer[k]) # {}
    <3>1. CASE Locked(closer[k])
      BY <3>1 DEF DueInv
    <3>2. CASE closer[k].at = "pending" /\ Pending(k) /\ ~Leave(k)
      BY <3>2 DEF Pending
    <3> QED
      BY <1>2, <1>4, <3>1, <3>2 DEF Locked
  <2>2. closer[k].at \in {"pending", "keep", "prune"} /\ closer'[k].before = closer[k].before
        /\ closer'[k].cap = closer[k].cap
    BY <1>2, <1>4 DEF Locked
  <2>3. closer[k].before <= nextId
    BY <2>2 DEF ArchiveInv, ArchiveOK, WindowPhases
  <2>4. \A j \in Closers : closer[j].at \notin FullPhases
    BY <1>1, <2>2 DEF WindowPhases
  <2>5. ASSUME NEW j \in Closers PROVE ~Guard(j) /\ ~Truncate(j)
    BY <2>4, GuardIs, TruncateIs DEF FullPhases, Scans, Guarded
  <2>6. ASSUME NEW j \in Closers, Prune(j) PROVE FALSE
    <3>1. Locked(closer[j]) /\ ~Locked(closer'[j])
      BY <2>6, PruneIs DEF Locked
    <3>2. j # k
      BY <1>4, <3>1
    <3>3. closer'[k] = closer[k]
      BY <2>6, <3>2, OthersStay DEF CloseStep
    <3> QED
      BY <1>4, <3>1, <3>2, <3>3 DEF DueInv
  <2>7. log \subseteq log' /\ \A e \in log' \ log : e.id >= nextId
    BY <2>5, <2>6, LogSteps
  <2>8. \A e \in log' : e.id \in Int
    BY <1>0, SourcingAssumption DEF Base, CloseTypeOK, TypeOK, Event
  <2>9. closer[k].before \in Int /\ nextId \in Int
    BY BaseHas, SourcingAssumption DEF Closer
  <2> DEFINE fit == {e \in log : e.name = SNAP_EVENT /\ e.id < closer[k].before
                                 /\ e.id <= closer[k].cap}
             next == {e \in log' : e.name = SNAP_EVENT /\ e.id < closer'[k].before
                                   /\ e.id <= closer'[k].cap}
  <2>10. next = fit
    <3>1. \A e \in log' : e.id < closer[k].before => e \in log
      BY <2>3, <2>7, <2>8, <2>9
    <3> QED
      BY <2>2, <2>7, <3>1
  <2>11. fit # {} /\ \E e \in log : e.id < Latest(fit).id
    BY <2>1 DEF Prefix
  <2>12. Prefix(closer[k])' = IF next = {} THEN {} ELSE {e \in log' : e.id < Latest(next).id}
    BY DEF Prefix
  <2> HIDE DEF fit, next
  <2> QED
    BY <2>7, <2>10, <2>11, <2>12
<1> QED
  BY <1>3, <1>4 DEF DueInv

LEMMA InitArchive == CloseInit => ArchiveInv /\ DueInv
BY AwayOK DEF CloseInit, ArchiveInv, ArchiveOK, WindowPhases, DueInv, Locked

\* A windowed archive runs only while its prefix is still to be pruned: two
\* closers archive one range once.
THEOREM ArchivedOnceCorrect ==
    ASSUME \A p \in Policies : Careful(p) /\ Separate(p) PROVE CloseSpec => ArchivedOnce
<1>1. Base => Careful(policy) /\ Separate(policy)
  BY DEF Base, CloseTypeOK
<1>2. (Base /\ ArchiveInv /\ DueInv) /\ [CloseNext]_vars => (Base /\ ArchiveInv /\ DueInv)'
  BY <1>1, BaseStep, ArchiveStep, DueStep
<1>3. CloseInit => Base /\ ArchiveInv /\ DueInv
  BY InitBase, InitArchive
<1>4. (Base /\ ArchiveInv /\ DueInv) /\ [CloseNext]_vars =>
        [\A k \in Closers : At(k, "keep") /\ closer'[k].at = "prune"
            => Prefix(closer[k]) # {}]_vars
  BY DEF DueInv, Locked, At
<1> QED
  BY <1>2, <1>3, <1>4, PTL DEF CloseSpec, ArchivedOnce

-----------------------------------------------------------------------------
(* No reaction is lost.                                                    *)

\* Nothing is committed between the reads of a full close.
Settled(p) == Fulls(p) # {} => p.alone

\* The consumer has handled every event of its up to n.
Done(n) == \A e \in log : e.name \in Reactive /\ e.id <= n => e.id <= row.at

\* No domain event is past n.
Last(n) == \A e \in log : e.name \in Names => e.id <= n

MarkInv ==
    /\ checkpoint < nextId /\ row.at < nextId /\ row.mark < nextId
    /\ \A e \in log : e.name \in Reactive /\ e.id <= checkpoint => e.id <= row.mark

\* What a close knows of the consumer, and of the head it has read: either a
\* commit since has moved the version, or it is the last domain event still.
ReactOK(cl) ==
    /\ cl.at \in {"version", "catchup", "probe", "guard"} => cl.head < nextId
    /\ cl.at = "version" => Last(cl.head)
    /\ cl.at \in {"catchup", "probe", "guard"} =>
          /\ cl.version <= HeadVersion
          /\ cl.version = HeadVersion \/ cl.resumed => Last(cl.head)
    /\ cl.at = "probe" => cl.head <= checkpoint
    /\ cl.at = "guard" => Done(cl.head)
    /\ cl.at \in Guarded => \A e \in log : e.name \in Reactive => e.id <= row.at
    /\ cl.at = "cap" => cl.cap <= checkpoint
    /\ cl.at \in {"pending", "keep", "prune"} => cl.cap < nextId /\ Done(cl.cap)

ReactInv == MarkInv /\ \A k \in Closers : ReactOK(closer[k])

\* The consumer and correlate only go on, and wherever they get to is there.
LEMMA MarksGrow ==
    ASSUME Base, Careful(policy), MarkInv, [CloseNext]_vars
    PROVE  /\ row.at \in Int /\ row'.at \in Int /\ row.at <= row'.at
           /\ row.mark \in Int /\ row'.mark \in Int
           /\ checkpoint \in Int /\ checkpoint' \in Int /\ checkpoint <= checkpoint'
           /\ nextId \in Int /\ nextId' \in Int /\ nextId <= nextId'
           /\ \A e \in log' : e.id \in Int
           /\ MarkInv'
<1>0. Base' /\ nextId <= nextId'
  BY BaseStep, LogSteps
<1>1. /\ row.at \in Int /\ row'.at \in Int /\ row.mark \in Int /\ row'.mark \in Int
      /\ checkpoint \in Int /\ checkpoint' \in Int
      /\ nextId \in Int /\ nextId' \in Int
      /\ \A e \in log' : e.id \in Int
  <2>1. /\ row \in [at : Position, mark : Position] /\ row' \in [at : Position, mark : Position]
        /\ checkpoint \in Position /\ checkpoint' \in Position
        /\ nextId \in 0 .. MaxId + 1 /\ nextId' \in 0 .. MaxId + 1
        /\ log' \in SUBSET Event
    BY <1>0 DEF Base, CloseTypeOK, TypeOK
  <2> QED
    BY <2>1, SourcingAssumption DEF Event
<1>2. CASE row' = row /\ checkpoint' = checkpoint
  <2>1. ASSUME NEW e \in log', e.name \in Reactive, e.id <= checkpoint
        PROVE  e.id <= row.mark
    <3>1. e \in log
      BY <1>1, <2>1, NewEvents, CloseAssumption DEF MarkInv
    <3> QED
      BY <2>1, <3>1 DEF MarkInv
  <2>2. MarkInv'
    BY <1>0, <1>1, <1>2, <2>1 DEF MarkInv
  <2> QED
    BY <1>0, <1>1, <1>2, <2>2
<1>3. CASE Correlate \/ Handle
  <2>1. UNCHANGED <<policy, sourcing, archived, closer>>
    BY <1>3, RowMoves
  <2>2. CASE Handle
    <3>1. checkpoint' = checkpoint /\ row'.mark = row.mark /\ row'.at > row.at
          /\ row'.at <= row.mark
      BY <2>2, HandleIs
    <3>2. MarkInv'
      BY <1>1, <2>1, <3>1 DEF MarkInv, sourcing
    <3> QED
      BY <1>0, <1>1, <3>1, <3>2
  <2>3. CASE Correlate
    <3>1. /\ checkpoint' > checkpoint /\ checkpoint' \in {e.id : e \in log}
          /\ row'.at = row.at /\ row'.mark >= row.mark
          /\ \A i \in Wanted(checkpoint, checkpoint') : i <= row'.mark
          /\ row'.mark < nextId \/ row'.mark = row.mark
      BY <2>3, CorrelateIs
    <3>2. checkpoint' < nextId
      BY <3>1, BaseHas DEF Ranked
    <3>3. ASSUME NEW e \in log, e.name \in Reactive, e.id <= checkpoint'
          PROVE  e.id <= row'.mark
      <4>0. e.id \in Int
        BY BaseHas, SourcingAssumption DEF Event
      <4>1. CASE e.id <= checkpoint
        <5>1. e.id <= row.mark
          BY <3>3, <4>1 DEF MarkInv
        <5> QED
          BY <1>1, <3>1, <4>0, <5>1
      <4>2. CASE checkpoint < e.id
        <5>1. e.id \in Wanted(checkpoint, checkpoint')
          BY <3>3, <4>2 DEF Wanted
        <5> QED
          BY <3>1, <5>1
      <4> QED
        BY <1>1, <4>0, <4>1, <4>2
    <3>4. MarkInv'
      BY <1>1, <2>1, <3>1, <3>2, <3>3 DEF MarkInv, sourcing
    <3> QED
      BY <1>0, <1>1, <3>1, <3>4
  <2> QED
    BY <1>3, <2>2, <2>3
<1>4. (row' = row /\ checkpoint' = checkpoint) \/ Correlate \/ Handle
  BY CallMoves, OthersStay DEF CloseNext, closing, vars
<1> QED
  BY <1>2, <1>3, <1>4

\* What the consumer has handled it has handled for good, and what comes is
\* numbered past what has been.
LEMMA DoneStays ==
    ASSUME Base, Careful(policy), MarkInv, [CloseNext]_vars,
           NEW n \in Int, n < nextId, Done(n)
    PROVE  Done(n)'
<1>1. ASSUME NEW e \in log', e.name \in Reactive, e.id <= n PROVE e.id <= row'.at
  <2>1. e \in log \/ e.id >= nextId
    BY <1>1, NewEvents, CloseAssumption
  <2>2. e.id \in Int /\ nextId \in Int
    BY MarksGrow
  <2>3. e \in log
    BY <1>1, <2>1, <2>2
  <2>4. e.id <= row.at
    BY <1>1, <2>3 DEF Done
  <2> QED
    BY <2>2, <2>4, MarksGrow
<1> QED
  BY <1>1 DEF Done

\* While a full closer is at work nobody else moves the head but by an append.
LEMMA HeadSteps ==
    ASSUME Base, Careful(policy), [CloseNext]_vars,
           NEW k \in Closers, closer[k].at \in FullPhases, closer'[k] = closer[k]
    PROVE  \/ HeadVersion' = HeadVersion
           \/ HeadVersion < HeadVersion' /\ ~Closed(log)
<1>1. CASE log' = log
  BY <1>1 DEF HeadVersion
<1>2. ASSUME NEW j \in Closers, Guard(j) PROVE HeadVersion' = HeadVersion
  <2>1. closer[j].at = "guard" /\ closer'[j].at # "guard"
    BY <1>2, GuardIs
  <2>2. closer[j].at \in FullPhases
    BY <2>1 DEF FullPhases, Scans
  <2> QED
    BY <2>1, <2>2, OneFull
<1>3. ASSUME NEW j \in Closers, Truncate(j) PROVE HeadVersion' = HeadVersion
  <2>1. closer[j].at = "truncate" /\ closer'[j].at # "truncate"
    BY <1>3, TruncateIs
  <2>2. closer[j].at \in FullPhases
    BY <2>1 DEF FullPhases, Guarded
  <2> QED
    BY <2>1, <2>2, OneFull
<1>4. ASSUME NEW j \in Closers, Prune(j) PROVE HeadVersion' = HeadVersion
  BY <1>4, PruneBase
<1> QED
  BY <1>1, <1>2, <1>3, <1>4, LogSteps

\* What a closer knows stays true while it waits.
LEMMA ReactStays ==
    ASSUME Base, Careful(policy), Settled(policy), ReactInv, [CloseNext]_vars,
           NEW k \in Closers, closer'[k] = closer[k]
    PROVE  ReactOK(closer[k])'
<1> DEFINE cl == closer[k]
<1>0. /\ cl \in Closer /\ cl.head \in Int /\ cl.version \in Int /\ cl.cap \in Int
      /\ HeadVersion \in Int /\ HeadVersion' \in Int
      /\ MarkInv /\ ReactOK(cl) /\ GuardOK(cl) /\ ModeOK(k, cl)
  <2>1. Base'
    BY BaseStep
  <2>2. HeadVersion' \in Int
    <3>1. log' \in SUBSET Event /\ nextId' \in Nat /\ Ranked(log', nextId')
      BY <2>1, SourcingAssumption DEF Base, CloseTypeOK, TypeOK
    <3>2. log' = {} \/ Latest(log') \in log'
      BY <3>1, LatestIs
    <3> QED
      BY <3>1, <3>2, SourcingAssumption DEF HeadVersion, Event
  <2>3. closer[k] \in Closer /\ HeadVersion \in Int
    BY BaseHas
  <2>4. closer[k].head \in Int /\ closer[k].version \in Int /\ closer[k].cap \in Int
    BY <2>3, SourcingAssumption DEF Closer
  <2> QED
    BY <2>2, <2>3, <2>4 DEF ReactInv, Base, CloserInv
<1>1. nextId \in Int /\ nextId' \in Int /\ nextId <= nextId'
      /\ checkpoint \in Int /\ checkpoint' \in Int /\ checkpoint <= checkpoint'
      /\ row.at \in Int /\ row'.at \in Int /\ row.at <= row'.at
      /\ \A e \in log' : e.id \in Int
  BY <1>0, MarksGrow
<1>2. closer'[k] = cl
  OBVIOUS
<1> HIDE DEF cl
\* Behind an open scan nothing is committed.
<1>3. cl.at = "version" => Last(cl.head)'
  <2> SUFFICES ASSUME cl.at = "version" PROVE Last(cl.head)'
    OBVIOUS
  <2>1. policy.alone /\ Scanning
    <3>1. k \in Fulls(policy)
      BY <1>0 DEF ModeOK, Fulls, FullPhases, Scans
    <3> QED
      BY <3>1 DEF Settled, Scanning, cl
  <2>2. \A e \in log' : e.name \in Names => e \in log
    BY <2>1, NewEvents
  <2>3. \A e \in log' : e.name \in Names => e.id <= cl.head
    BY <1>0, <2>2 DEF ReactOK, Last
  <2> QED
    BY <1>2, <2>3 DEF Last, cl
<1>4. cl.at \in {"catchup", "probe", "guard"} =>
        /\ cl.version <= HeadVersion'
        /\ cl.version = HeadVersion' \/ cl.resumed => Last(cl.head)'
  <2> SUFFICES ASSUME cl.at \in {"catchup", "probe", "guard"}
               PROVE  /\ cl.version <= HeadVersion'
                      /\ cl.version = HeadVersion' \/ cl.resumed => Last(cl.head)'
    OBVIOUS
  <2>1. cl.at \in FullPhases /\ (cl.resumed <=> Closed(log)) /\ cl.version <= HeadVersion
        /\ (cl.version = HeadVersion \/ cl.resumed => Last(cl.head))
    BY <1>0 DEF FullPhases, Scans, GuardOK, ReactOK
  <2>2. \/ HeadVersion' = HeadVersion
        \/ HeadVersion < HeadVersion' /\ ~Closed(log)
    BY <2>1, HeadSteps DEF cl
  <2>3. cl.version <= HeadVersion'
    BY <1>0, <2>1, <2>2
  <2>4. ASSUME cl.version = HeadVersion' \/ cl.resumed PROVE Last(cl.head)'
    <3>1. HeadVersion' = HeadVersion /\ Last(cl.head)
      BY <1>0, <2>1, <2>2, <2>4
    <3>2. \A e \in log' : e.name \in Names => e \in log
      BY <1>0, <3>1, NewEvents
    <3>3. \A e \in log' : e.name \in Names => e.id <= cl.head
      BY <3>1, <3>2 DEF Last
    <3> QED
      BY <1>2, <3>3 DEF Last, cl
  <2> QED
    BY <2>3, <2>4
<1>5. cl.at \in Guarded => \A e \in log' : e.name \in Reactive => e.id <= row'.at
  <2> SUFFICES ASSUME cl.at \in Guarded, NEW e \in log', e.name \in Reactive
               PROVE  e.id <= row'.at
    OBVIOUS
  <2>1. Closed(log) /\ \A d \in log : d.name \in Reactive => d.id <= row.at
    BY <1>0 DEF GuardOK, ReactOK
  <2>2. e \in log
    BY <2>1, NewEvents, CloseAssumption
  <2>3. e.id <= row.at
    BY <2>1, <2>2
  <2> QED
    BY <1>1, <2>3
<1>6. cl.at = "guard" => Done(cl.head)'
  <2> SUFFICES ASSUME cl.at = "guard" PROVE Done(cl.head)'
    OBVIOUS
  <2>1. cl.head < nextId /\ Done(cl.head)
    BY <1>0 DEF ReactOK
  <2>2. PICK n \in Int : n = cl.head
    BY <1>0
  <2>3. Done(n)'
    BY <1>0, <2>1, <2>2, DoneStays DEF Done
  <2> QED
    BY <1>2, <2>2, <2>3 DEF Done, cl
<1>7. cl.at \in {"pending", "keep", "prune"} => cl.cap < nextId' /\ Done(cl.cap)'
  <2> SUFFICES ASSUME cl.at \in {"pending", "keep", "prune"}
               PROVE  cl.cap < nextId' /\ Done(cl.cap)'
    OBVIOUS
  <2>1. cl.cap < nextId /\ Done(cl.cap)
    BY <1>0 DEF ReactOK
  <2>2. PICK n \in Int : n = cl.cap
    BY <1>0
  <2>3. Done(n)'
    BY <1>0, <2>1, <2>2, DoneStays DEF Done
  <2> QED
    BY <1>0, <1>1, <1>2, <2>1, <2>2, <2>3 DEF Done, cl
<1>8. /\ cl.at \in {"version", "catchup", "probe", "guard"} => cl.head < nextId'
      /\ cl.at = "probe" => cl.head <= checkpoint'
      /\ cl.at = "cap" => cl.cap <= checkpoint'
  BY <1>0, <1>1 DEF ReactOK
<1> QED
  BY <1>2, <1>3, <1>4, <1>5, <1>6, <1>7, <1>8 DEF ReactOK, Last, Done, cl

\* What a closer has read when it goes on.
LEMMA ReactOwn ==
    ASSUME Base, Careful(policy), Settled(policy), ReactInv, NEW k \in Closers, CloseStep(k)
    PROVE  ReactOK(closer[k])'
<1>0. /\ closer[k] \in Closer /\ ReactOK(closer[k]) /\ GuardOK(closer[k]) /\ MarkInv
      /\ nextId \in Int /\ row.at \in Int /\ row.mark \in Int /\ checkpoint \in Int
      /\ HeadVersion \in Int /\ closer[k].head \in Int /\ closer[k].cap \in Int
      /\ \A e \in log : e.id \in Int /\ e.id < nextId
      /\ UNCHANGED <<row, checkpoint>>
  <2>1. closer[k] \in Closer /\ HeadVersion \in Int
    BY BaseHas
  <2>2. closer[k].head \in Int /\ closer[k].cap \in Int
    BY <2>1, SourcingAssumption DEF Closer
  <2>3. \A e \in log : e.id \in Int /\ e.id < nextId
    BY BaseHas, SourcingAssumption DEF Event, Ranked
  <2>4. row.at \in Int /\ row.mark \in Int /\ checkpoint \in Int /\ nextId \in Int
    BY RowHas
  <2> QED
    BY <2>1, <2>2, <2>3, <2>4, OthersStay DEF ReactInv, Base, CloserInv
<1>1. ASSUME closer'[k].at \in {"idle", "markers", "domain", "checkpoint", "warm"}
      PROVE  ReactOK(closer[k])'
  BY <1>1 DEF ReactOK, Guarded
<1>2. CASE Leave(k) \/ Start(k) \/ ScanMarkers(k) \/ Truncate(k) \/ Prune(k)
  BY <1>1, <1>2, ReadsAre, TruncateIs, PruneIs
<1>3. CASE ~Leave(k) /\ ScanDomain(k)
  <2>1. /\ Domain(log) # {} /\ closer'[k].at = "version" /\ log' = log /\ nextId' = nextId
        /\ closer'[k].head = Latest(Domain(log)).id
    BY <1>3, ReadsAre DEF ScanDomain, sourcing
  <2>2. /\ Latest(Domain(log)) \in Domain(log)
        /\ \A e \in Domain(log) : e.id <= Latest(Domain(log)).id
    <3>1. Domain(log) \in SUBSET Event
      BY BaseHas DEF Domain
    <3> QED
      BY <2>1, <3>1, LatestIs
  <2>3. closer'[k].head < nextId' /\ \A e \in log' : e.name \in Names => e.id <= closer'[k].head
    BY <1>0, <2>1, <2>2 DEF Domain
  <2> QED
    BY <2>1, <2>3 DEF ReactOK, Last, Guarded
<1>4. CASE ScanVersion(k)
  <2>1. /\ closer[k].at = "version" /\ closer'[k].at = "catchup"
        /\ closer'[k].head = closer[k].head /\ closer'[k].version = HeadVersion
        /\ log' = log /\ nextId' = nextId
    BY <1>4, ReadsAre DEF ScanVersion, sourcing
  <2>2. Last(closer[k].head) /\ closer[k].head < nextId /\ HeadVersion' = HeadVersion
    BY <1>0, <2>1 DEF ReactOK, HeadVersion
  <2>3. closer'[k].version <= HeadVersion'
    BY <1>0, <2>1, <2>2
  <2> QED
    BY <2>1, <2>2, <2>3 DEF ReactOK, Last, Guarded
<1>5. CASE ~Leave(k) /\ (CatchUp(k) \/ Probe(k))
  <2>1. /\ closer[k].at \in {"catchup", "probe"}
        /\ log' = log /\ nextId' = nextId /\ HeadVersion' = HeadVersion
    BY <1>5 DEF CatchUp, Probe, At, sourcing, HeadVersion
  <2>2. /\ \/ CatchUp(k) /\ closer'[k].at = "probe"
           \/ Probe(k) /\ closer[k].at = "probe" /\ closer'[k].at = "guard"
        /\ closer'[k].head = closer[k].head /\ closer'[k].version = closer[k].version
        /\ closer'[k].resumed = closer[k].resumed
    BY <1>5, <2>1, WalksAre
  <2>3. /\ closer[k].head < nextId /\ closer[k].version <= HeadVersion
        /\ closer[k].version = HeadVersion \/ closer[k].resumed => Last(closer[k].head)
    BY <1>0, <2>1 DEF ReactOK
  <2>4. CatchUp(k) => closer[k].head <= checkpoint
    BY <1>0, <1>5 DEF CatchUp
  <2>5. Probe(k) => Done(closer[k].head)
    <3> SUFFICES ASSUME Probe(k), NEW e \in log, e.name \in Reactive, e.id <= closer[k].head
                 PROVE  e.id <= row.at
      BY DEF Done
    <3>1. ~Waits(closer[k].head) /\ closer[k].at = "probe"
      BY <1>5 DEF Probe, At
    <3>2. closer[k].head <= checkpoint
      BY <1>0, <3>1 DEF ReactOK
    <3>3. e.id <= row.mark
      BY <1>0, <3>2 DEF MarkInv
    <3> QED
      BY <1>0, <3>1, <3>3 DEF Waits, HasWork
  <2>6. /\ closer'[k].at = "probe" => closer'[k].head <= checkpoint'
        /\ closer'[k].at = "guard" =>
              \A e \in log' : e.name \in Reactive /\ e.id <= closer'[k].head => e.id <= row'.at
    BY <1>0, <2>1, <2>2, <2>4, <2>5 DEF Done
  <2>7. /\ closer'[k].head < nextId' /\ closer'[k].version <= HeadVersion'
        /\ closer'[k].version = HeadVersion' \/ closer'[k].resumed =>
              \A e \in log' : e.name \in Names => e.id <= closer'[k].head
    BY <2>1, <2>2, <2>3 DEF Last
  <2> QED
    BY <2>2, <2>6, <2>7 DEF ReactOK, Last, Done, Guarded
<1>6. CASE Guard(k)
  <2>1. closer'[k].at = "idle" \/ closer'[k].at \in {"seed", "archive"}
    BY <1>6, GuardIs
  <2>2. CASE closer'[k].at \in {"seed", "archive"}
    <3>1. closer[k].at = "guard" /\ (closer[k].resumed \/ closer[k].version = HeadVersion)
      BY <1>6, <2>2, GuardIs
    <3>2. Last(closer[k].head) /\ Done(closer[k].head)
      BY <1>0, <3>1 DEF ReactOK
    <3>3. \A e \in log : e.name \in Reactive => e.id <= row.at
      BY <3>2, CloseAssumption DEF Last, Done
    <3>4. \A e \in log' : e.name \in Reactive => e \in log
      <4>1. log' = log \/ \E d \in Event : log' = log \cup {d} /\ d.name = TOMBSTONE_EVENT
        BY <1>6, GuardIs
      <4> QED
        BY <4>1, SourcingAssumption, CloseAssumption
    <3>5. \A e \in log' : e.name \in Reactive => e.id <= row'.at
      BY <1>0, <3>3, <3>4
    <3> QED
      BY <2>2, <3>5 DEF ReactOK, Guarded
  <2> QED
    BY <1>1, <2>1, <2>2
<1>7. CASE Seed(k) \/ Archive(k)
  <2>1. closer[k].at \in Guarded /\ log' = log
    BY <1>7 DEF Seed, Archive, At, Guarded, sourcing
  <2>2. closer'[k].at \in {"archive", "truncate"}
    <3>1. CASE Seed(k)
      <4>1. closer' = [closer EXCEPT ![k] =
             [closer[k] EXCEPT !.at = "archive", !.state = Load(cache[CloserCache]).state]]
        BY <3>1, GuardedTurns
      <4> QED
        BY <4>1, BaseHas DEF Closer
    <3>2. CASE ~Leave(k) /\ Archive(k)
      <4>1. closer[k].at = "archive"
        BY <3>2 DEF Archive, At
      <4> QED
        BY <3>2, <4>1, WalksAre
    <3>3. Archive(k) => ~Leave(k)
      <4> SUFFICES ASSUME Archive(k), Leave(k) PROVE FALSE
        OBVIOUS
      <4>1. Goto(k, "truncate") /\ closer'[k].at = "idle" /\ "truncate" \in ClosePhases
        BY ReadsAre DEF Archive, ClosePhases
      <4> DEFINE cl == [closer[k] EXCEPT !.at = "truncate"]
      <4>2. closer' = [closer EXCEPT ![k] = cl] /\ cl.at = "truncate"
        BY <4>1, GotoIs
      <4> HIDE DEF cl
      <4>3. closer'[k] = cl
        BY <4>2, BaseHas
      <4> QED
        BY <4>1, <4>2, <4>3
    <3> QED
      BY <1>7, <3>1, <3>2, <3>3
  <2>3. \A e \in log' : e.name \in Reactive => e.id <= row'.at
    BY <1>0, <2>1 DEF ReactOK
  <2> QED
    BY <2>2, <2>3 DEF ReactOK, Guarded
<1>8. CASE ReadCheckpoint(k)
  <2>1. closer'[k].at = "cap" /\ closer'[k].cap = checkpoint
    BY <1>8, ReadsAre
  <2>2. closer'[k].cap <= checkpoint'
    BY <1>0, <2>1
  <2> QED
    BY <2>1, <2>2 DEF ReactOK, Guarded
<1>9. CASE ProbeCap(k)
  <2>1. /\ closer[k].at = "cap" /\ closer'[k].at = "pending"
        /\ closer'[k].cap = Cap(closer[k].cap) /\ log' = log /\ nextId' = nextId
    BY <1>9, ReadsAre DEF ProbeCap, sourcing
  <2>2. closer[k].cap <= checkpoint /\ checkpoint < nextId /\ row.at < nextId
    BY <1>0, <2>1 DEF ReactOK, MarkInv
  <2>3. Cap(closer[k].cap) < nextId /\ Cap(closer[k].cap) \in Int
    BY <1>0, <2>2 DEF Cap, Larger
  <2>4. ASSUME NEW e \in log, e.name \in Reactive, e.id <= Cap(closer[k].cap)
        PROVE  e.id <= row.at
    <3>1. e.id <= closer[k].cap /\ ~HasWork => e.id <= row.at
      <4> SUFFICES ASSUME e.id <= closer[k].cap, ~HasWork PROVE e.id <= row.at
        OBVIOUS
      <4>1. e.id <= checkpoint
        BY <1>0, <2>2
      <4>2. e.id <= row.mark
        BY <1>0, <2>4, <4>1 DEF MarkInv
      <4> QED
        BY <1>0, <4>2 DEF HasWork
    <3>2. e.id <= row.at \/ (e.id <= closer[k].cap /\ ~HasWork)
      BY <1>0, <2>4 DEF Cap, Larger
    <3> QED
      BY <3>1, <3>2
  <2>5. /\ closer'[k].cap < nextId'
        /\ \A e \in log' : e.name \in Reactive /\ e.id <= closer'[k].cap => e.id <= row'.at
    BY <1>0, <2>1, <2>3, <2>4
  <2> QED
    BY <2>1, <2>5 DEF ReactOK, Done, Guarded
<1>10. CASE ~Leave(k) /\ (Pending(k) \/ Keep(k))
  <2>1. closer[k].at \in {"pending", "keep"} /\ log' = log /\ nextId' = nextId
    BY <1>10 DEF Pending, Keep, At, sourcing
  <2>2. closer'[k].at \in {"keep", "prune"} /\ closer'[k].cap = closer[k].cap
    BY <1>10, <2>1, WalksAre
  <2>3. closer[k].cap < nextId /\ Done(closer[k].cap)
    BY <1>0, <2>1 DEF ReactOK
  <2>4. /\ closer'[k].cap < nextId'
        /\ \A e \in log' : e.name \in Reactive /\ e.id <= closer'[k].cap => e.id <= row'.at
    BY <1>0, <2>1, <2>2, <2>3 DEF Done
  <2> QED
    BY <2>2, <2>4 DEF ReactOK, Done, Guarded
<1>11. (Warm(k) \/ Interrupt(k)) => Leave(k)
  BY DEF Warm, Interrupt
<1> QED
  BY <1>2, <1>3, <1>4, <1>5, <1>6, <1>7, <1>8, <1>9, <1>10, <1>11 DEF CloseStep

LEMMA ReactStep ==
    ASSUME Base, Careful(policy), Settled(policy), ReactInv, [CloseNext]_vars
    PROVE  ReactInv'
<1>1. MarkInv'
  BY MarksGrow DEF ReactInv
<1>2. ASSUME NEW k \in Closers PROVE ReactOK(closer[k])'
  <2>1. CASE closer'[k] = closer[k]
    BY <2>1, ReactStays
  <2>2. CASE CloseStep(k)
    BY <2>2, ReactOwn
  <2>3. ASSUME NEW j \in Closers, CloseStep(j), j # k PROVE closer'[k] = closer[k]
    BY <2>3, OthersStay
  <2>4. closer' = closer \/ \E j \in Closers : CloseStep(j)
    BY CallMoves, RowMoves DEF CloseNext, closing, vars
  <2> QED
    BY <2>1, <2>2, <2>3, <2>4
<1> QED
  BY <1>1, <1>2 DEF ReactInv

LEMMA InitReact == CloseInit => ReactInv
<1> SUFFICES ASSUME CloseInit PROVE ReactInv
  OBVIOUS
<1>1. /\ log = {} /\ nextId = 0 /\ row = [at |-> -1, mark |-> -1] /\ checkpoint = -1
      /\ closer = [k \in Closers |-> Away]
  BY DEF CloseInit, Init
<1>2. MarkInv
  BY <1>1 DEF MarkInv
<1>3. \A k \in Closers : closer[k].at = "idle"
  BY <1>1, AwayOK
<1>4. \A k \in Closers : ReactOK(closer[k])
  BY <1>3 DEF ReactOK, Guarded
<1> QED
  BY <1>2, <1>4 DEF ReactInv

\* Nothing is removed that the consumer has yet to handle, however commits,
\* marks and acks interleave with the probes of full closes and of prunes.
THEOREM ReactionsCorrect ==
    ASSUME \A p \in Policies : Careful(p) /\ Settled(p) PROVE CloseSpec => NoReactionLost
<1>1. Base => Careful(policy) /\ Settled(policy)
  BY DEF Base, CloseTypeOK
<1>2. (Base /\ ReactInv) /\ [CloseNext]_vars => (Base /\ ReactInv)'
  BY <1>1, BaseStep, ReactStep
<1>3. CloseInit => Base /\ ReactInv
  BY InitBase, InitReact
<1>4. ASSUME Base, ReactInv, [CloseNext]_vars, NEW e \in log \ log', e.name \in Reactive
      PROVE  e.id <= row.at
  <2>1. PICK k \in Closers : \/ closer[k].at = "truncate"
                             \/ closer[k].at = "prune" /\ e.id <= closer[k].cap
    BY <1>1, <1>4, Removes
  <2>2. ReactOK(closer[k])
    BY <1>4 DEF ReactInv
  <2> QED
    BY <1>4, <2>1, <2>2 DEF ReactOK, Guarded, Done
<1>5. (Base /\ ReactInv) /\ [CloseNext]_vars
         => [\A e \in log \ log' : e.name \in Reactive => e.id <= row.at]_vars
  BY <1>4
<1> QED
  BY <1>2, <1>3, <1>5, PTL DEF CloseSpec, NoReactionLost
=============================================================================
