----------------------------- MODULE DrainProofs -----------------------------
(***************************************************************************)
(* The safety of the drain, for every set of targets, workers, kinds and   *)
(* reactions, every retry policy, limit and budget.  First what types,     *)
(* guards and watermarks rest on: who holds a lease works from the row's   *)
(* present watermark, and watermarks only go back on a reset.  Then what   *)
(* the drain owes its events: no watermark passes an event that is still   *)
(* owed, which is the specification Delivery seen from outside; attempts   *)
(* are bounded; and while no lease is lost, no event is handled twice and  *)
(* a row a fatal error hit is never run again.                             *)
(***************************************************************************)
EXTENDS DrainInvariants, NatSets, FiniteSetTheorems

USE DEF Position, Unmarked

---------------------------------------------------------------------------
(* Rows.                                                                   *)

\* Every store operation yields a row.
LEMMA RowTypes ==
    ASSUME NEW row \in Row, NEW at \in Position, NEW retry \in Position
    PROVE  /\ AckRow(row, at) \in Row /\ DueRow(row, at, retry) \in Row
           /\ BlockRow(row) \in Row /\ DeferRow(row) \in Row
           /\ ResetRow(row) \in Row /\ UnblockRow(row) \in Row
           /\ MarkRow(row, at) \in Row
           /\ \A by \in Holders : LeaseRow(row, by) \in Row
<1>1. ASSUME NEW by \in Holders PROVE LeaseRow(row, by) \in Row
  <2>1. row.retry + 1 \in Position
    BY DEF Row
  <2> QED
    BY <2>1 DEF LeaseRow, Row
<1>2. AckRow(row, at) \in Row /\ DueRow(row, at, retry) \in Row
  BY DEF AckRow, DueRow, Row
<1>3. BlockRow(row) \in Row /\ DeferRow(row) \in Row
  BY DEF BlockRow, DeferRow, Row
<1>4. ResetRow(row) \in Row /\ UnblockRow(row) \in Row
  BY DEF ResetRow, UnblockRow, NewRow, Row
<1>5. MarkRow(row, at) \in Row
  BY DEF MarkRow, Row
<1> QED
  BY <1>1, <1>2, <1>3, <1>4, <1>5

---------------------------------------------------------------------------
(* Batches.                                                                *)

\* The last id of a nonempty batch is one of its ids, and none is beyond it.
LEMMA MaxIdIsLast ==
    ASSUME NEW S \in SUBSET Events, S # {},
           NEW n \in Nat, \A e \in S : e.id < n
    PROVE  /\ MaxId(S) \in Ids(S)
           /\ \A e \in S : e.id <= MaxId(S)
           /\ MaxId(S) \in Nat
<1>1. Ids(S) \in SUBSET Nat /\ Ids(S) # {} /\ \A i \in Ids(S) : i <= n
  BY DEF Ids, Events
<1>2. \E m \in Ids(S) : \A i \in Ids(S) : i <= m
  BY <1>1, GreatestNat
<1>3. MaxId(S) \in Ids(S) /\ \A i \in Ids(S) : i <= MaxId(S)
  BY <1>2 DEF MaxId
<1> QED
  BY <1>1, <1>3 DEF Ids

\* Current is an event still to be handled, and the oldest one.
LEMMA CurrentIsFirst ==
    ASSUME NEW w \in Workers, NEW t \in Targets,
           entry[w][t].batch \in SUBSET Events, Remaining(w, t) # {}
    PROVE  /\ Current(w, t) \in Remaining(w, t)
           /\ \A f \in Remaining(w, t) : Current(w, t).id <= f.id
<1>1. Remaining(w, t) \subseteq Events
  BY DEF Remaining, Payloads
<1>2. Ids(Remaining(w, t)) \in SUBSET Nat /\ Ids(Remaining(w, t)) # {}
  BY <1>1 DEF Ids, Events
<1>3. PICK m \in Ids(Remaining(w, t)) : \A i \in Ids(Remaining(w, t)) : m <= i
  BY <1>2, LeastNat
<1>4. \E e \in Remaining(w, t) : \A f \in Remaining(w, t) : e.id <= f.id
  BY <1>3 DEF Ids
<1> QED
  BY <1>4 DEF Current

\* A fetch returns the events past the floor, oldest first and without holes,
\* and returns something whenever there is something.
LEMMA WindowFacts ==
    ASSUME NEW t \in Targets, NEW floor \in Position,
           log \in SUBSET Events, IsFiniteSet(log),
           \A e, f \in log : e.id = f.id => e = f,
           EventLimit \in Nat \ {0}
    PROVE  /\ Window(t, floor) \subseteq
                {e \in log : e.kind \in Fetches[t] /\ e.id > floor}
           /\ \A e \in Window(t, floor), f \in log :
                 f.kind \in Fetches[t] /\ floor < f.id /\ f.id <= e.id =>
                     f \in Window(t, floor)
           /\ (\E e \in log : e.kind \in Fetches[t] /\ e.id > floor) =>
                 Window(t, floor) # {}
<1> DEFINE past == {e \in log : e.kind \in Fetches[t] /\ e.id > floor}
           upto(e) == {f \in past : f.id <= e.id}
<1>1. Window(t, floor) = {e \in past : Cardinality(upto(e)) <= EventLimit}
  BY DEF Window
<1>2. past \in SUBSET log /\ IsFiniteSet(past) /\ past \in SUBSET Events
  BY FS_Subset
<1>3. \A e \in past : upto(e) \in SUBSET past /\ IsFiniteSet(upto(e))
                                             /\ Cardinality(upto(e)) \in Nat
  BY <1>2, FS_Subset, FS_CardinalityType
<1>4. ASSUME NEW e \in Window(t, floor), NEW f \in log,
             f.kind \in Fetches[t], floor < f.id, f.id <= e.id
      PROVE  f \in Window(t, floor)
  <2>1. e \in past /\ f \in past /\ Cardinality(upto(e)) <= EventLimit
    BY <1>1, <1>4, <1>2 DEF Events
  <2>2. upto(f) \in SUBSET upto(e)
    BY <1>2, <1>4, <2>1 DEF Events
  <2>3. Cardinality(upto(f)) <= Cardinality(upto(e))
    BY <1>3, <2>1, <2>2, FS_Subset
  <2>4. Cardinality(upto(f)) <= EventLimit
    <3> HIDE DEF upto, past
    <3> QED
      BY <1>3, <2>1, <2>3
  <2> QED
    BY <1>1, <2>1, <2>4
<1>5. ASSUME past # {} PROVE Window(t, floor) # {}
  <2>1. Ids(past) \in SUBSET Nat /\ Ids(past) # {}
    BY <1>2, <1>5 DEF Ids, Events
  <2>2. PICK m \in Ids(past) : \A i \in Ids(past) : m <= i
    BY <2>1, LeastNat
  <2>3. PICK e \in past : e.id = m
    BY <2>2 DEF Ids
  <2>4. upto(e) = {e}
    BY <1>2, <2>2, <2>3 DEF Ids, Events
  <2>5. Cardinality(upto(e)) = 1
    BY <2>4, FS_Singleton
  <2> QED
    BY <1>1, <2>3, <2>5
<1> QED
  BY <1>1, <1>4, <1>5

---------------------------------------------------------------------------
(* Entries.                                                                *)

\* Each stage of a HandleResult is an Entry, and keeps what it does not set.
LEMMA EntryTypes ==
    ASSUME NEW h \in Entry
    PROVE  /\ \A batch \in SUBSET Events : FetchEntry(h, batch) \in Entry
           /\ \A id \in Position, out \in Outcomes :
                 AimEntry(h, id, out) \in Entry /\ PassEntry(h, id, out) \in Entry
           /\ \A ran \in SUBSET Reactions : RunEntry(h, ran) \in Entry
           /\ \A id \in Position : CloseEntry(h, id) \in Entry
           /\ \A out \in Outcomes : EndEntry(h, out) \in Entry
<1>1. \A batch \in SUBSET Events : FetchEntry(h, batch) \in Entry
  BY DEF FetchEntry, Entry, Outcomes
<1>2. \A id \in Position, out \in Outcomes : AimEntry(h, id, out) \in Entry
  BY DEF AimEntry, Entry
<1>3. \A id \in Position, out \in Outcomes : PassEntry(h, id, out) \in Entry
  BY DEF PassEntry, Entry
<1>4. \A ran \in SUBSET Reactions : RunEntry(h, ran) \in Entry
  BY DEF RunEntry, Entry
<1>5. \A id \in Position : CloseEntry(h, id) \in Entry
  BY DEF CloseEntry, Entry, Outcomes
<1>6. \A out \in Outcomes : EndEntry(h, out) \in Entry
  BY DEF EndEntry, Entry
<1> QED
  BY <1>1, <1>2, <1>3, <1>4, <1>5, <1>6

LEMMA NoEntryType == NoEntry \in Entry
BY DEF NoEntry, Entry, Outcomes

\* What a grant records is an Entry.
LEMMA GrantTypes == ASSUME NEW row \in Row PROVE GrantEntry(row) \in Entry
<1>1. row.retry + 1 \in Position /\ row.at \in Position
  BY DEF Row
<1> QED
  BY <1>1 DEF GrantEntry, Entry, Outcomes

\* Posting a result changes one worker's entry for one target.
LEMMA PostEntry ==
    ASSUME entry \in [Workers -> [Targets -> Entry]],
           NEW w \in Workers, NEW t \in Targets, NEW h \in Entry, Post(w, t, h)
    PROVE  /\ entry' \in [Workers -> [Targets -> Entry]]
           /\ entry'[w][t] = h
           /\ \A v \in Workers, u \in Targets :
                 v # w \/ u # t => entry'[v][u] = entry[v][u]
BY DEF Post

\* A claim only takes rows that are available.
LEMMA FrontierSubset ==
    ASSUME NEW able, NEW at, NEW priority, NEW lagging, NEW leading,
           NEW S \in Frontiers(able, at, priority, lagging, leading)
    PROVE  S \subseteq able
BY DEF Frontiers

---------------------------------------------------------------------------
(* The basic invariant: types, unique ids, bounded positions.              *)

LEMMA InitBasic == Init => BasicInv
<1> SUFFICES ASSUME Init PROVE BasicInv
  OBVIOUS
<1> USE DrainAssumption, NoHolderAssumption DEF Init
<1>1. TypeOK
  <2>1. NewRow \in Row
    BY DEF NewRow, Row
  <2>2. rows \in [Targets -> Row] /\ entry \in [Workers -> [Targets -> Entry]]
    BY <2>1, NoEntryType
  <2>3. /\ phase \in [Workers -> Phases] /\ claimed \in [Workers -> SUBSET Targets]
        /\ accounted \in [Targets -> SUBSET (Nat \X Reactions)]
        /\ tally \in [Targets -> [runs : Nat, fatal : Nat]]
    BY DEF Phases, Clean
  <2> QED
    BY <2>2, <2>3 DEF TypeOK
<1>2. LogInv
  BY FS_EmptySet DEF LogInv
<1>3. RowInv
  BY DEF RowInv, NewRow
<1>4. EntryInv
  BY DEF EntryInv, Carried, Staged, NoEntry
<1>5. RunInv
  BY DEF RunInv, Running
<1> QED
  BY <1>1, <1>2, <1>3, <1>4, <1>5 DEF BasicInv

\* What the cycles carry is not disturbed by a step that leaves them alone.
LEMMA CyclesUntouched ==
    ASSUME BasicInv, UNCHANGED <<phase, claimed, entry>>,
           nextId' \in Nat, nextId <= nextId'
    PROVE  EntryInv' /\ RunInv'
<1>1. EntryInv'
  <2> SUFFICES ASSUME NEW w \in Workers, NEW t \in Targets
               PROVE  Carried(t, entry[w][t])' /\ Staged(w, t)'
    BY DEF EntryInv
  <2>1. entry[w][t] \in Entry /\ Carried(t, entry[w][t]) /\ Staged(w, t)
    BY DEF BasicInv, TypeOK, EntryInv
  <2>2. Carried(t, entry[w][t])'
    BY <2>1 DEF Carried, Entry, Events, BasicInv, TypeOK
  <2>3. Staged(w, t)'
    BY <2>1 DEF Staged, BasicInv, TypeOK
  <2> QED
    BY <2>2, <2>3
<1>2. RunInv'
  BY DEF BasicInv, RunInv, Running, Remaining
<1> QED
  BY <1>1, <1>2

\* A step that only rewrites rows, without moving them past the newest id.
LEMMA RowsMoved ==
    ASSUME BasicInv, UNCHANGED <<log, nextId, phase, claimed, entry>>,
           rows' \in [Targets -> Row], \A t \in Targets : rows'[t].at < nextId /\ rows'[t].mark < nextId,
           scanned' \in Position,
           accounted' \in [Targets -> SUBSET (Nat \X Reactions)],
           tally' \in [Targets -> [runs : Nat, fatal : Nat]],
           left' \in [Charges -> Nat]
    PROVE  BasicInv'
<1>1. TypeOK'
  BY DEF BasicInv, TypeOK
<1>2. LogInv' /\ RowInv'
  BY DEF BasicInv, LogInv, RowInv
<1>3. EntryInv' /\ RunInv'
  BY CyclesUntouched DEF BasicInv, TypeOK
<1> QED
  BY <1>1, <1>2, <1>3 DEF BasicInv

LEMMA ChargeType ==
    ASSUME left \in [Charges -> Nat], NEW c \in Charges, Charge(c)
    PROVE  left' \in [Charges -> Nat]
BY DEF Charge

LEMMA CleanType == Clean \in [runs : Nat, fatal : Nat]
BY DEF Clean

LEMMA CommitBasic == ASSUME BasicInv, NEW k \in Kinds, Commit(k) PROVE BasicInv'
<1> DEFINE e == [id |-> nextId, kind |-> k]
<1>1. e \in Events /\ nextId \in Nat
  BY DEF BasicInv, TypeOK, Events
<1>2. left' \in [Charges -> Nat]
  BY ChargeType DEF Commit, BasicInv, TypeOK, Charges
<1>3. TypeOK'
  BY <1>1, <1>2 DEF Commit, BasicInv, TypeOK
<1>4. LogInv'
  <2>1. IsFiniteSet(log')
    BY FS_AddElement DEF Commit, BasicInv, LogInv
  <2>2. \A f \in log : FirstId <= f.id /\ f.id < nextId /\ f.id \in Nat
    BY DEF BasicInv, TypeOK, LogInv, Events
  <2>3. FirstId <= nextId
    BY DEF BasicInv, LogInv
  <2> QED
    BY <1>1, <2>1, <2>2, <2>3, DrainAssumption DEF Commit, BasicInv, LogInv
<1>5. RowInv'
  <2>1. \A t \in Targets : rows[t].at \in Int /\ rows[t].mark \in Int
    BY DrainAssumption DEF BasicInv, TypeOK, Row, Position
  <2>2. rows' = rows /\ nextId' = nextId + 1
    BY DEF Commit
  <2> QED
    BY <1>1, <2>1, <2>2 DEF BasicInv, RowInv
<1>6. EntryInv' /\ RunInv'
  BY <1>1, CyclesUntouched DEF Commit
<1> QED
  BY <1>3, <1>4, <1>5, <1>6 DEF BasicInv

LEMMA TruncateBasic ==
    ASSUME BasicInv, NEW k, NEW n, Truncate(k, n) PROVE BasicInv'
<1>1. left' \in [Charges -> Nat]
  BY ChargeType DEF Truncate, BasicInv, TypeOK, Charges
<1>2. log' \in SUBSET log
  BY DEF Truncate
<1>3. TypeOK'
  BY <1>1, <1>2 DEF Truncate, BasicInv, TypeOK
<1>4. LogInv'
  BY <1>2, FS_Subset DEF Truncate, BasicInv, LogInv
<1>5. RowInv'
  BY DEF Truncate, BasicInv, RowInv
<1>6. EntryInv' /\ RunInv'
  BY CyclesUntouched DEF Truncate, BasicInv, TypeOK
<1> QED
  BY <1>3, <1>4, <1>5, <1>6 DEF BasicInv

LEMMA CorrelateBasic ==
    ASSUME BasicInv, NEW n \in scanned + 1 .. nextId - 1, Correlate(n)
    PROVE  BasicInv'
<1> DEFINE found(t) == {e \in log : Deliverable(t, e) /\ e.id > scanned /\ e.id <= n}
           mark(t) == IF found(t) = {} THEN rows[t] ELSE MarkRow(rows[t], MaxId(found(t)))
<1>1. rows' = [t \in Targets |-> mark(t)]
  BY DEF Correlate
<1>2. ASSUME NEW t \in Targets PROVE mark(t) \in Row /\ mark(t).at = rows[t].at /\ mark(t).mark < nextId
  <2>1. rows[t] \in Row
    BY DEF BasicInv, TypeOK
  <2>2. ASSUME found(t) # {}
        PROVE  MaxId(found(t)) \in Position /\ MaxId(found(t)) < nextId
    <3>1. found(t) \in SUBSET Events /\ nextId \in Nat /\ \A e \in found(t) : e.id < nextId
      BY DEF BasicInv, TypeOK, LogInv
    <3>2. MaxId(found(t)) \in Nat /\ MaxId(found(t)) \in Ids(found(t))
      BY <2>2, <3>1, MaxIdIsLast
    <3> QED
      BY <3>1, <3>2 DEF Ids
  <2>3. ASSUME found(t) # {}
        PROVE  /\ MarkRow(rows[t], MaxId(found(t))) \in Row
               /\ MarkRow(rows[t], MaxId(found(t))).at = rows[t].at
               /\ MarkRow(rows[t], MaxId(found(t))).mark < nextId
    <3>1. MarkRow(rows[t], MaxId(found(t))) \in Row
      BY <2>1, <2>2, <2>3, RowTypes
    <3>2. rows[t].mark < nextId
      BY DEF BasicInv, RowInv
    <3>3. /\ MarkRow(rows[t], MaxId(found(t))).at = rows[t].at
          /\ MarkRow(rows[t], MaxId(found(t))).mark < nextId
      BY <2>1, <2>2, <2>3, <3>2 DEF MarkRow, Row
    <3> QED
      BY <3>1, <3>3
  <2>4. rows[t].mark < nextId
    BY DEF BasicInv, RowInv
  <2> QED
    BY <2>1, <2>3, <2>4
<1>3. rows' \in [Targets -> Row] /\ \A t \in Targets : rows'[t].at < nextId /\ rows'[t].mark < nextId
  BY <1>1, <1>2 DEF BasicInv, RowInv
<1>4. scanned' \in Position
  BY DEF Correlate, BasicInv, TypeOK
<1> QED
  BY <1>3, <1>4, RowsMoved DEF Correlate, BasicInv, TypeOK

\* Where each operation leaves the watermark; none but correlate moves the mark.
LEMMA RowMoves ==
    ASSUME NEW row \in Row, NEW at \in Position, NEW retry \in Position, NEW by
    PROVE  /\ BlockRow(row).at = row.at /\ BlockRow(row).mark = row.mark
           /\ DeferRow(row).at = row.at /\ DeferRow(row).mark = row.mark
           /\ UnblockRow(row).at = row.at /\ UnblockRow(row).mark = row.mark
           /\ LeaseRow(row, by).at = row.at /\ LeaseRow(row, by).mark = row.mark
           /\ ResetRow(row).at = -1 /\ ResetRow(row).mark = row.mark
           /\ AckRow(row, at).at = at /\ AckRow(row, at).mark = row.mark
           /\ DueRow(row, at, retry).at = at /\ DueRow(row, at, retry).mark = row.mark
           /\ MarkRow(row, at).at = row.at
           /\ MarkRow(row, at).mark = IF at > row.mark THEN at ELSE row.mark
<1>1. /\ BlockRow(row).at = row.at /\ BlockRow(row).mark = row.mark
      /\ DeferRow(row).at = row.at /\ DeferRow(row).mark = row.mark
  BY DEF BlockRow, DeferRow, Row
<1>2. /\ UnblockRow(row).at = row.at /\ UnblockRow(row).mark = row.mark
      /\ ResetRow(row).at = -1 /\ ResetRow(row).mark = row.mark
  BY DEF UnblockRow, ResetRow, NewRow, Row
<1>3. /\ LeaseRow(row, by).at = row.at /\ LeaseRow(row, by).mark = row.mark
  BY DEF LeaseRow, Row
<1>4. /\ AckRow(row, at).at = at /\ AckRow(row, at).mark = row.mark
      /\ DueRow(row, at, retry).at = at /\ DueRow(row, at, retry).mark = row.mark
  BY DEF AckRow, DueRow, Row
<1>5. /\ MarkRow(row, at).at = row.at
      /\ MarkRow(row, at).mark = IF at > row.mark THEN at ELSE row.mark
  BY DEF MarkRow, Row
<1> QED
  BY <1>1, <1>2, <1>3, <1>4, <1>5

LEMMA ClockBasic ==
    ASSUME BasicInv, NEW t \in Targets, Overrun(t) \/ Lapse(t) \/ Due(t)
    PROVE  BasicInv'
<1>1. left' \in [Charges -> Nat]
  BY ChargeType DEF Overrun, Lapse, Due, BasicInv, TypeOK, Charges
<1>2. \/ rows' = [rows EXCEPT ![t] = [@ EXCEPT !.live = FALSE]]
      \/ rows' = [rows EXCEPT ![t] = [@ EXCEPT !.deferred = FALSE]]
  BY DEF Overrun, Lapse, Due
<1>3. \A row \in Row : /\ [row EXCEPT !.live = FALSE] \in Row
                       /\ [row EXCEPT !.live = FALSE].mark = row.mark
                       /\ [row EXCEPT !.deferred = FALSE].mark = row.mark
                       /\ [row EXCEPT !.deferred = FALSE] \in Row
                       /\ [row EXCEPT !.live = FALSE].at = row.at
                       /\ [row EXCEPT !.deferred = FALSE].at = row.at
  BY DEF Row
<1>4. rows' \in [Targets -> Row] /\ \A u \in Targets : rows'[u].at < nextId /\ rows'[u].mark < nextId
  <2>1. PICK row \in Row : row.at = rows[t].at /\ row.mark = rows[t].mark /\ rows' = [rows EXCEPT ![t] = row]
    BY <1>2, <1>3 DEF BasicInv, TypeOK
  <2> QED
    BY <2>1 DEF BasicInv, TypeOK, RowInv
<1> QED
  BY <1>1, <1>4, RowsMoved DEF Overrun, Lapse, Due, BasicInv, TypeOK

LEMMA OperatorBasic ==
    ASSUME BasicInv, NEW S \in SUBSET Targets, Reset(S) \/ Unblock(S) \/ Defer(S)
    PROVE  BasicInv'
<1> USE DEF BasicInv, TypeOK
<1>1. left' \in [Charges -> Nat]
  BY ChargeType DEF Reset, Unblock, Defer, Charges
<1>2. rows' \in [Targets -> Row] /\ \A u \in Targets : rows'[u].at < nextId /\ rows'[u].mark < nextId
  <2>1. \A u \in Targets : /\ rows[u] \in Row /\ -1 < nextId
                         /\ rows[u].at < nextId /\ rows[u].mark < nextId
    BY DEF RowInv, Row
  <2>2. CASE Reset(S)
    BY <2>1, <2>2, RowTypes, RowMoves DEF Reset
  <2>3. CASE Unblock(S)
    BY <2>1, <2>3, RowTypes, RowMoves DEF Unblock
  <2>4. CASE Defer(S)
    BY <2>1, <2>4, RowTypes, RowMoves DEF Defer
  <2> QED
    BY <2>2, <2>3, <2>4
<1>3. /\ tally' \in [Targets -> [runs : Nat, fatal : Nat]]
      /\ accounted' \in [Targets -> SUBSET (Nat \X Reactions)]
  BY CleanType DEF Reset, Unblock, Defer
<1> QED
  BY <1>1, <1>2, <1>3, RowsMoved DEF Reset, Unblock, Defer

\* A step of one worker's cycle that ends it.
LEMMA CycleEnded ==
    ASSUME BasicInv, NEW w \in Workers, UNCHANGED nextId,
           phase' = [phase EXCEPT ![w] = "idle"],
           claimed' = [claimed EXCEPT ![w] = {}],
           entry' = [entry EXCEPT ![w] = [t \in Targets |-> NoEntry]]
    PROVE  /\ phase' \in [Workers -> Phases] /\ claimed' \in [Workers -> SUBSET Targets]
           /\ entry' \in [Workers -> [Targets -> Entry]]
           /\ EntryInv' /\ RunInv'
<1> USE DEF BasicInv, TypeOK
<1>1. phase' \in [Workers -> Phases] /\ claimed' \in [Workers -> SUBSET Targets]
  BY DEF Phases
<1>2. entry' \in [Workers -> [Targets -> Entry]]
  BY NoEntryType
<1>3. \A v \in Workers \ {w}, t \in Targets :
        entry'[v][t] = entry[v][t] /\ phase'[v] = phase[v] /\ claimed'[v] = claimed[v]
  OBVIOUS
<1>4. \A t \in Targets : entry'[w][t] = NoEntry /\ phase'[w] = "idle"
  OBVIOUS
<1>5. EntryInv'
  <2> SUFFICES ASSUME NEW v \in Workers, NEW t \in Targets
               PROVE  Carried(t, entry[v][t])' /\ Staged(v, t)'
    BY DEF EntryInv
  <2>1. CASE v = w
    BY <2>1, <1>4 DEF Carried, Staged, NoEntry
  <2>2. CASE v # w
    BY <2>2, <1>3 DEF Carried, Staged, EntryInv
  <2> QED
    BY <2>1, <2>2
<1>6. RunInv'
  BY <1>3, <1>4 DEF RunInv, Running, Remaining
<1> QED
  BY <1>1, <1>2, <1>5, <1>6

LEMMA CrashBasic == ASSUME BasicInv, NEW w \in Workers, Crash(w) PROVE BasicInv'
<1>1. left' \in [Charges -> Nat]
  BY ChargeType DEF Crash, BasicInv, TypeOK, Charges
<1>2. /\ phase' \in [Workers -> Phases] /\ claimed' \in [Workers -> SUBSET Targets]
      /\ entry' \in [Workers -> [Targets -> Entry]] /\ EntryInv' /\ RunInv'
  BY CycleEnded DEF Crash
<1>3. TypeOK' /\ LogInv' /\ RowInv'
  BY <1>1, <1>2 DEF Crash, BasicInv, TypeOK, LogInv, RowInv
<1> QED
  BY <1>2, <1>3 DEF BasicInv

\* A claim leases a set of rows that were free and had work.
LEMMA ClaimTakes ==
    ASSUME NEW w \in Workers, Claim(w)
    PROVE  \E S \in SUBSET Targets :
             /\ \A t \in S : IsAvailable(rows[t]) /\ HasWork(rows[t])
             /\ rows' = [t \in Targets |-> IF t \in S THEN LeaseRow(rows[t], w) ELSE rows[t]]
             /\ claimed' = [claimed EXCEPT ![w] = S]
             /\ entry' = [entry EXCEPT ![w] = [t \in Targets |->
                    IF t \in S THEN GrantEntry(rows[t]) ELSE NoEntry]]
<1> DEFINE able == {t \in Sees[w] : IsAvailable(rows[t]) /\ HasWork(rows[t])}
           at == [t \in Targets |-> rows[t].at]
<1>1. able \in SUBSET Targets
  BY DrainAssumption
<1>2. PICK split \in Splits(StreamLimit) :
        \E S \in Frontiers(able, at, Priority, split[1], split[2]) :
          /\ rows' = [t \in Targets |->
                         IF t \in S THEN LeaseRow(rows[t], w) ELSE rows[t]]
          /\ claimed' = [claimed EXCEPT ![w] = S]
          /\ entry' = [entry EXCEPT ![w] = [t \in Targets |->
                 IF t \in S THEN GrantEntry(rows[t]) ELSE NoEntry]]
  BY DEF Claim
<1>3. \A S \in Frontiers(able, at, Priority, split[1], split[2]) :
        S \in SUBSET Targets /\ \A t \in S : IsAvailable(rows[t]) /\ HasWork(rows[t])
  BY <1>1, FrontierSubset
<1> QED
  BY <1>2, <1>3

LEMMA ClaimBasic == ASSUME BasicInv, NEW w \in Workers, Claim(w) PROVE BasicInv'
<1> USE DEF BasicInv, TypeOK
<1>1. PICK S \in SUBSET Targets :
        /\ \A t \in S : HasWork(rows[t])
        /\ rows' = [t \in Targets |-> IF t \in S THEN LeaseRow(rows[t], w) ELSE rows[t]]
        /\ claimed' = [claimed EXCEPT ![w] = S]
        /\ entry' = [entry EXCEPT ![w] = [t \in Targets |->
               IF t \in S THEN GrantEntry(rows[t]) ELSE NoEntry]]
  BY ClaimTakes
<1>2. phase' = [phase EXCEPT ![w] = "fetch"] /\ phase' \in [Workers -> Phases]
  BY DEF Claim, Phases
<1>3. /\ rows' \in [Targets -> Row] /\ \A t \in Targets : rows'[t].at < nextId /\ rows'[t].mark < nextId
      /\ claimed' \in [Workers -> SUBSET Targets]
  BY <1>1, RowTypes, RowMoves, DrainAssumption DEF RowInv
<1>4. \A t \in Targets : GrantEntry(rows[t]) \in Entry /\ NoEntry \in Entry
  BY GrantTypes, NoEntryType
<1>5. entry' \in [Workers -> [Targets -> Entry]]
  BY <1>1, <1>4
<1>6. TypeOK' /\ LogInv' /\ RowInv'
  BY <1>2, <1>3, <1>5 DEF Claim, LogInv, RowInv
<1>7. \A v \in Workers \ {w}, t \in Targets :
        entry'[v][t] = entry[v][t] /\ phase'[v] = phase[v] /\ claimed'[v] = claimed[v]
  BY <1>1, <1>2
<1>8. /\ phase'[w] = "fetch"
      /\ \A t \in Targets :
            \/ t \in claimed'[w] /\ HasWork(rows[t]) /\ entry'[w][t] = GrantEntry(rows[t])
            \/ t \notin claimed'[w] /\ entry'[w][t] = NoEntry
  BY <1>1, <1>2
<1>9. EntryInv'
  <2> SUFFICES ASSUME NEW v \in Workers, NEW t \in Targets
               PROVE  Carried(t, entry[v][t])' /\ Staged(v, t)'
    BY DEF EntryInv
  <2>1. CASE v # w
    BY <2>1, <1>7 DEF Claim, Carried, Staged, EntryInv
  <2>2. CASE v = w /\ t \notin claimed'[w] /\ entry'[w][t] = NoEntry
    <3>1. -1 < nextId
      OBVIOUS
    <3> QED
      BY <2>2, <3>1, <1>8 DEF Claim, Carried, Staged, NoEntry
  <2>3. CASE v = w /\ HasWork(rows[t]) /\ entry'[w][t] = GrantEntry(rows[t])
    <3>1. rows[t] \in Row /\ rows[t].at < nextId /\ 0 < nextId
      BY <2>3 DEF RowInv, HasWork, Row
    <3> QED
      BY <2>3, <1>8, <3>1 DEF Claim, Carried, Staged, GrantEntry, Row
  <2> QED
    BY <2>1, <2>2, <2>3, <1>8
<1>10. RunInv'
  <2> SUFFICES ASSUME NEW v \in Workers, NEW t \in Targets, Running(v, t)'
               PROVE  Remaining(v, t)' # {}
    BY DEF RunInv
  <2>1. v # w
    BY <1>8 DEF Running
  <2> QED
    BY <2>1, <1>7 DEF RunInv, Running, Remaining
<1> QED
  BY <1>6, <1>9, <1>10

\* A step that posts one result inside a cycle.
LEMMA PostBasic ==
    ASSUME BasicInv, NEW w \in Workers, NEW t \in Targets, NEW h \in Entry,
           Post(w, t, h), UNCHANGED <<log, nextId, scanned, rows, phase, claimed>>,
           accounted' \in [Targets -> SUBSET (Nat \X Reactions)],
           tally' \in [Targets -> [runs : Nat, fatal : Nat]],
           left' \in [Charges -> Nat],
           Carried(t, h), h.out \in {"leased", "fetched"} => h.upto = h.floor,
           \/ phase[w] = "fetch" /\ h.out = "fetched"
           \/ phase[w] = "handle" /\
                 (h.out = "run" =>
                    {e \in Payloads(t, h.batch) : e.id > h.upto} # {})
    PROVE  BasicInv'
<1> USE DEF BasicInv, TypeOK
<1>1. /\ entry' \in [Workers -> [Targets -> Entry]]
      /\ entry'[w][t] = h
      /\ \A v \in Workers, u \in Targets :
            v # w \/ u # t => entry'[v][u] = entry[v][u]
  BY PostEntry
<1>2. TypeOK' /\ LogInv' /\ RowInv'
  BY <1>1 DEF LogInv, RowInv
<1>3. EntryInv'
  <2> SUFFICES ASSUME NEW v \in Workers, NEW u \in Targets
               PROVE  Carried(u, entry[v][u])' /\ Staged(v, u)'
    BY DEF EntryInv
  <2>1. CASE v = w /\ u = t
    <3>1. Staged(w, t)
      BY DEF EntryInv
    <3> QED
      BY <2>1, <3>1, <1>1 DEF Carried, Staged
  <2>2. CASE v # w \/ u # t
    BY <2>2, <1>1 DEF Carried, Staged, EntryInv
  <2> QED
    BY <2>1, <2>2
<1>4. RunInv'
  <2> SUFFICES ASSUME NEW v \in Workers, NEW u \in Targets, Running(v, u)'
               PROVE  Remaining(v, u)' # {}
    BY DEF RunInv
  <2>1. CASE v = w /\ u = t
    <3>1. phase[w] = "handle" /\ h.out = "run"
      BY <2>1, <1>1 DEF Running
    <3>2. Remaining(v, u)' = {e \in Payloads(t, h.batch) : e.id > h.upto}
      BY <2>1, <1>1 DEF Remaining
    <3> QED
      BY <3>1, <3>2
  <2>2. CASE v # w \/ u # t
    <3>1. entry'[v][u] = entry[v][u] /\ Running(v, u)
      BY <2>2, <1>1 DEF Running
    <3>2. Remaining(v, u)' = Remaining(v, u)
      BY <3>1 DEF Remaining
    <3> QED
      BY <3>1, <3>2 DEF RunInv
  <2> QED
    BY <2>1, <2>2
<1> QED
  BY <1>2, <1>3, <1>4

LEMMA FetchBasic ==
    ASSUME BasicInv, NEW w \in Workers, NEW t \in Targets, Fetch(w, t)
    PROVE  BasicInv'
<1> USE DEF BasicInv, TypeOK
<1> DEFINE old == entry[w][t]
           h == FetchEntry(old, Window(t, old.floor))
<1>1. old \in Entry /\ old.floor \in Position /\ old.out = "leased" /\ Carried(t, old)
      /\ old.upto = old.floor
  BY DEF Fetch, EntryInv, Staged, Entry
<1>2. Window(t, old.floor) \subseteq {e \in log : e.kind \in Fetches[t] /\ e.id > old.floor}
  BY <1>1, WindowFacts, DrainAssumption DEF LogInv
<1>3. Window(t, old.floor) \in SUBSET Events
  BY <1>2
<1>4. h \in Entry
  BY <1>1, <1>3, EntryTypes
<1>5. /\ h.batch = Window(t, old.floor) /\ h.out = "fetched"
      /\ h.floor = old.floor /\ h.upto = old.upto /\ h.at = old.at
  BY <1>1 DEF FetchEntry, Entry
<1>6. Carried(t, h)
  <2>1. \A e \in h.batch : h.floor < e.id /\ e.id < nextId /\ e.kind \in Fetches[t]
    BY <1>1, <1>2, <1>5 DEF LogInv, Events
  <2>2. \A e, f \in h.batch : e.id = f.id => e = f
    BY <1>2, <1>5 DEF LogInv
  <2> QED
    BY <2>1, <2>2, <1>1, <1>5 DEF Carried
<1> QED
  BY <1>1, <1>4, <1>5, <1>6, PostBasic DEF Fetch

\* The ceiling of a fetched row lies between its floor and the newest id.
LEMMA CeilingBounds ==
    ASSUME BasicInv, NEW w \in Workers, NEW t \in Targets, t \in claimed[w],
           0 < nextId
    PROVE  /\ Ceiling(w, t) \in Nat /\ entry[w][t].floor <= Ceiling(w, t)
           /\ Ceiling(w, t) < nextId
<1> USE DEF BasicInv, TypeOK
<1> DEFINE last(u) == LastIdOr(entry[w][u].batch, entry[w][u].floor)
           reached == {0} \union {last(u) : u \in claimed[w]}
           top == CHOOSE n \in reached : \A m \in reached : m <= n
<1>1. claimed[w] \in SUBSET Targets /\ nextId \in Nat
  OBVIOUS
<1>2. ASSUME NEW u \in Targets
      PROVE  /\ entry[w][u] \in Entry /\ Carried(u, entry[w][u])
             /\ entry[w][u].batch \in SUBSET Events /\ entry[w][u].floor \in Position
  BY DEF EntryInv, Entry
<1>3. ASSUME NEW u \in Targets, entry[w][u].batch # {}
      PROVE  /\ MaxId(entry[w][u].batch) \in Nat
             /\ entry[w][u].floor < MaxId(entry[w][u].batch)
             /\ MaxId(entry[w][u].batch) < nextId
  <2>1. /\ MaxId(entry[w][u].batch) \in Ids(entry[w][u].batch)
        /\ MaxId(entry[w][u].batch) \in Nat
    BY <1>2, <1>3, MaxIdIsLast DEF Carried
  <2> QED
    BY <2>1, <1>2 DEF Carried, Ids
<1>4. ASSUME NEW u \in Targets
      PROVE  /\ last(u) \in Position /\ entry[w][u].floor <= last(u)
             /\ last(u) < nextId
  BY <1>2, <1>3 DEF LastIdOr, Carried
<1>5. /\ \A m \in reached : m \in Position /\ m < nextId
      /\ 0 \in reached /\ last(t) \in reached
  BY <1>1, <1>4
<1>6. \E n \in reached : \A m \in reached : m <= n
  <2> HIDE DEF reached
  <2>1. /\ (reached \ {-1}) \in SUBSET Nat
        /\ reached \ {-1} # {}
    BY <1>5
  <2>2. \A i \in reached \ {-1} : i <= nextId
    BY <1>1, <1>5
  <2>3. PICK n \in reached \ {-1} : \A i \in reached \ {-1} : i <= n
    BY <2>1, <2>2, <1>1, GreatestNat
  <2>4. n \in Nat /\ \A i \in reached : i <= n
    BY <2>1, <2>3, <1>5
  <2> QED
    BY <2>3, <2>4
<1>7. top \in reached /\ \A m \in reached : m <= top
  <2> HIDE DEF reached
  <2> QED
    BY <1>6
<1>8. top \in Nat /\ top < nextId /\ last(t) <= top /\ entry[w][t].floor <= top
  <2>1. entry[w][t].floor <= last(t) /\ entry[w][t].floor \in Position
    BY <1>2, <1>4
  <2> HIDE DEF reached, top, last
  <2>2. top \in Position /\ top < nextId /\ 0 <= top /\ last(t) <= top
    BY <1>1, <1>5, <1>7
  <2>3. last(t) \in Position
    BY <1>5
  <2> QED
    BY <2>1, <2>2, <2>3
<1>9. Ceiling(w, t) = LastIdOr(entry[w][t].batch, top)
  BY DEF FetchWindowAt, Ceiling
<1>10. CASE entry[w][t].batch = {} \/ MaxId(entry[w][t].batch) = 0
  BY <1>8, <1>9, <1>10 DEF LastIdOr
<1>11. CASE ~(entry[w][t].batch = {} \/ MaxId(entry[w][t].batch) = 0)
  <2>1. Ceiling(w, t) = MaxId(entry[w][t].batch)
    BY <1>9, <1>11 DEF LastIdOr
  <2>2. entry[w][t].floor \in Position
    BY <1>2
  <2> QED
    BY <2>1, <2>2, <1>3, <1>11
<1> QED
  BY <1>10, <1>11

LEMMA DispatchBasic == ASSUME BasicInv, NEW w \in Workers, Dispatch(w) PROVE BasicInv'
<1> USE DEF BasicInv, TypeOK
<1> DEFINE aim(t) == IF Payloads(t, entry[w][t].batch) = {} THEN "ok" ELSE "run"
           out(t) == AimEntry(entry[w][t], Ceiling(w, t), aim(t))
           next(t) == IF t \notin claimed[w] THEN NoEntry
                      ELSE IF Exhausted(w, t) THEN EndEntry(entry[w][t], "exhausted")
                      ELSE out(t)
<1>1. /\ phase[w] = "fetch" /\ phase' = [phase EXCEPT ![w] = "handle"]
      /\ \A t \in claimed[w] : entry[w][t].out = "fetched"
      /\ entry' = [entry EXCEPT ![w] = [t \in Targets |-> next(t)]]
      /\ UNCHANGED <<log, nextId, scanned, rows, claimed, accounted, left>>
  BY DEF Dispatch
<1>2. ASSUME NEW t \in Targets
      PROVE  entry[w][t] \in Entry /\ Carried(t, entry[w][t]) /\ Staged(w, t)
  BY DEF EntryInv
<1>3. ASSUME NEW t \in claimed[w]
      PROVE  /\ out(t) \in Entry /\ Carried(t, out(t))
             /\ out(t).out \in {"ok", "run"}
             /\ out(t).batch = entry[w][t].batch /\ out(t).upto = entry[w][t].floor
             /\ out(t).out = "run" => Payloads(t, entry[w][t].batch) # {}
  <2>1. t \in Targets /\ entry[w][t].upto = entry[w][t].floor /\ 0 < nextId
    BY <1>1, <1>2 DEF Staged
  <2>2. Ceiling(w, t) \in Nat /\ entry[w][t].floor <= Ceiling(w, t)
        /\ Ceiling(w, t) < nextId
    BY <2>1, CeilingBounds
  <2>3. out(t) \in Entry
    BY <2>1, <2>2, <1>2, EntryTypes DEF Outcomes
  <2>4. /\ out(t).batch = entry[w][t].batch /\ out(t).floor = entry[w][t].floor
        /\ out(t).upto = entry[w][t].upto /\ out(t).at = Ceiling(w, t)
        /\ out(t).out = aim(t)
    BY <2>1, <1>2 DEF AimEntry, Entry
  <2>5. Carried(t, out(t))
    BY <2>1, <2>2, <2>4, <1>2 DEF Carried
  <2> QED
    BY <2>1, <2>3, <2>4, <2>5
<1>4. ASSUME NEW t \in claimed[w]
      PROVE  /\ EndEntry(entry[w][t], "exhausted") \in Entry
             /\ Carried(t, EndEntry(entry[w][t], "exhausted"))
             /\ EndEntry(entry[w][t], "exhausted").out = "exhausted"
  <2>1. EndEntry(entry[w][t], "exhausted") \in Entry
    BY <1>2, EntryTypes DEF Outcomes
  <2>2. Carried(t, EndEntry(entry[w][t], "exhausted"))
        /\ EndEntry(entry[w][t], "exhausted").out = "exhausted"
    BY <1>2 DEF Carried, EndEntry, Entry
  <2> QED
    BY <2>1, <2>2
<1>5. NoEntry \in Entry /\ NoEntry.out = "none" /\ \A t \in Targets : Carried(t, NoEntry)
  <2>1. -1 < nextId
    OBVIOUS
  <2> QED
    BY <2>1, NoEntryType DEF Carried, NoEntry
<1>6. ASSUME NEW t \in Targets
      PROVE  /\ next(t) \in Entry /\ Carried(t, next(t))
             /\ next(t).out \notin {"leased", "fetched"}
             /\ next(t).out = "run" =>
                   {e \in Payloads(t, next(t).batch) : e.id > next(t).upto} # {}
  <2>1. CASE t \notin claimed[w]
    BY <2>1, <1>5
  <2>2. CASE t \in claimed[w] /\ Exhausted(w, t)
    BY <2>2, <1>4
  <2>3. CASE t \in claimed[w] /\ ~Exhausted(w, t)
    <3>1. next(t) = out(t)
      BY <2>3
    <3>2. ASSUME out(t).out = "run"
          PROVE  {e \in Payloads(t, out(t).batch) : e.id > out(t).upto} # {}
      <4>1. \A e \in Payloads(t, entry[w][t].batch) : e.id > entry[w][t].floor
        BY <1>2 DEF Payloads, Carried, Entry, Events
      <4> QED
        BY <4>1, <1>3, <2>3, <3>2
    <3> HIDE DEF out, next
    <3> QED
      BY <3>1, <3>2, <2>3, <1>3
  <2> QED
    BY <2>1, <2>2, <2>3
<1> HIDE DEF next
<1>7. \A v \in Workers \ {w}, t \in Targets :
        entry'[v][t] = entry[v][t] /\ phase'[v] = phase[v]
  BY <1>1
<1>8. phase'[w] = "handle" /\ \A t \in Targets : entry'[w][t] = next(t)
  BY <1>1
<1>9. /\ entry' \in [Workers -> [Targets -> Entry]] /\ phase' \in [Workers -> Phases]
      /\ tally' \in [Targets -> [runs : Nat, fatal : Nat]]
  <2>1. entry' \in [Workers -> [Targets -> Entry]] /\ phase' \in [Workers -> Phases]
    BY <1>1, <1>6 DEF Phases
  <2>2. PICK B \in SUBSET Targets :
          tally' = [t \in Targets |->
             IF t \in B THEN [tally[t] EXCEPT !.runs = @ + 1] ELSE tally[t]]
    <3> DEFINE B == {t \in Targets : entry'[w][t].out = "run" /\ Holds(rows[t], w)}
    <3>1. tally' = [t \in Targets |->
             IF t \in B THEN [tally[t] EXCEPT !.runs = @ + 1] ELSE tally[t]]
      BY DEF Dispatch
    <3> QED
      BY <3>1
  <2>3. \A c \in [runs : Nat, fatal : Nat] :
          [c EXCEPT !.runs = @ + 1] \in [runs : Nat, fatal : Nat]
    <3> SUFFICES ASSUME NEW c \in [runs : Nat, fatal : Nat]
                 PROVE  [c EXCEPT !.runs = c.runs + 1] \in [runs : Nat, fatal : Nat]
      OBVIOUS
    <3>1. c.runs + 1 \in Nat
      OBVIOUS
    <3> QED
      BY <3>1
  <2> QED
    BY <2>1, <2>2, <2>3
<1>10. TypeOK' /\ LogInv' /\ RowInv'
  BY <1>1, <1>9 DEF LogInv, RowInv
<1>11. EntryInv'
  <2> SUFFICES ASSUME NEW v \in Workers, NEW t \in Targets
               PROVE  Carried(t, entry[v][t])' /\ Staged(v, t)'
    BY DEF EntryInv
  <2>1. CASE v # w
    BY <2>1, <1>1, <1>7 DEF Carried, Staged, EntryInv
  <2>2. CASE v = w
    BY <2>2, <1>1, <1>2, <1>6, <1>8 DEF Carried, Staged
  <2> QED
    BY <2>1, <2>2
<1>12. RunInv'
  <2> SUFFICES ASSUME NEW v \in Workers, NEW t \in Targets, Running(v, t)'
               PROVE  Remaining(v, t)' # {}
    BY DEF RunInv
  <2>1. CASE v # w
    <3>1. entry'[v][t] = entry[v][t] /\ Running(v, t)
      BY <2>1, <1>1, <1>7 DEF Running
    <3>2. Remaining(v, t)' = Remaining(v, t)
      BY <3>1 DEF Remaining
    <3> QED
      BY <3>1, <3>2 DEF RunInv
  <2>2. CASE v = w
    <3>1. next(t).out = "run"
      BY <2>2, <1>8 DEF Running
    <3>2. Remaining(v, t)' = {e \in Payloads(t, next(t).batch) : e.id > next(t).upto}
      BY <2>2, <1>8 DEF Remaining
    <3> QED
      BY <3>1, <3>2, <1>6
  <2> QED
    BY <2>1, <2>2
<1> QED
  BY <1>10, <1>11, <1>12

\* What a running cycle knows of the event it handles.
LEMMA RunFacts ==
    ASSUME BasicInv, NEW w \in Workers, NEW t \in Targets, Running(w, t)
    PROVE  /\ phase[w] = "handle" /\ t \in claimed[w] /\ entry[w][t].out = "run"
           /\ entry[w][t] \in Entry /\ Carried(t, entry[w][t])
           /\ entry[w][t].batch \in SUBSET Events
           /\ Current(w, t) \in Payloads(t, entry[w][t].batch)
           /\ Current(w, t) \in entry[w][t].batch
           /\ Current(w, t).id > entry[w][t].upto
           /\ Current(w, t).id \in Nat /\ Current(w, t).id < nextId
           /\ entry[w][t].floor <= Current(w, t).id
           /\ \A f \in Remaining(w, t) : Current(w, t).id <= f.id
<1> USE DEF BasicInv, TypeOK
<1>1. /\ phase[w] = "handle" /\ t \in claimed[w] /\ entry[w][t].out = "run"
      /\ entry[w][t] \in Entry /\ Carried(t, entry[w][t])
      /\ entry[w][t].batch \in SUBSET Events /\ Remaining(w, t) # {}
  BY DEF Running, EntryInv, Entry, RunInv
<1>2. /\ Current(w, t) \in Remaining(w, t)
      /\ \A f \in Remaining(w, t) : Current(w, t).id <= f.id
  BY <1>1, CurrentIsFirst
<1>3. /\ Current(w, t) \in Payloads(t, entry[w][t].batch)
      /\ Current(w, t).id > entry[w][t].upto
      /\ Current(w, t) \in entry[w][t].batch
  BY <1>2 DEF Remaining, Payloads
<1>4. /\ Current(w, t).id \in Nat /\ Current(w, t).id < nextId
      /\ entry[w][t].floor <= Current(w, t).id
  BY <1>1, <1>3 DEF Carried, Events, Entry
<1> QED
  BY <1>1, <1>2, <1>3, <1>4

\* After an event is passed, either it was the last or others remain beyond it.
LEMMA PassedRemains ==
    ASSUME BasicInv, NEW w \in Workers, NEW t \in Targets, Running(w, t),
           Remaining(w, t) # {Current(w, t)}
    PROVE  {f \in Payloads(t, entry[w][t].batch) : f.id > Current(w, t).id} # {}
<1>1. /\ Current(w, t) \in entry[w][t].batch /\ Current(w, t).id \in Nat
      /\ Carried(t, entry[w][t]) /\ entry[w][t].batch \in SUBSET Events
      /\ \A f \in Remaining(w, t) : Current(w, t).id <= f.id
  BY RunFacts
<1>2. Remaining(w, t) # {}
  BY DEF BasicInv, RunInv
<1>3. PICK f \in Remaining(w, t) : f # Current(w, t)
  BY <1>2
<1>4. f \in Payloads(t, entry[w][t].batch) /\ f \in entry[w][t].batch
  BY DEF Remaining, Payloads
<1>5. f.id \in Nat /\ f.id # Current(w, t).id /\ Current(w, t).id <= f.id
  BY <1>1, <1>3, <1>4 DEF Carried, Events
<1> QED
  BY <1>1, <1>4, <1>5

LEMMA ReactBasic ==
    ASSUME BasicInv, NEW w \in Workers, NEW t \in Targets, NEW r \in Reactions,
           React(w, t, r)
    PROVE  BasicInv'
<1> USE DEF BasicInv, TypeOK
<1> DEFINE old == entry[w][t]
           e == Current(w, t)
           ran == old.done \union {r}
           pass == PassEntry(old, e.id, IF Remaining(w, t) = {e} THEN "ok" ELSE "run")
           run == RunEntry(old, ran)
<1>1. Running(w, t) /\ UNCHANGED <<log, nextId, scanned, rows, phase, claimed, tally, left>>
  BY DEF React
<1>2. /\ phase[w] = "handle" /\ old \in Entry /\ old.out = "run" /\ Carried(t, old)
      /\ e.id \in Nat /\ e.id < nextId /\ old.floor <= e.id
  BY <1>1, RunFacts
<1>3. accounted' \in [Targets -> SUBSET (Nat \X Reactions)]
  BY <1>2 DEF React
<1>4. CASE Post(w, t, pass)
  <2>1. pass \in Entry
    BY <1>2, EntryTypes DEF Outcomes
  <2>2. /\ pass.batch = old.batch /\ pass.floor = old.floor /\ pass.upto = e.id
        /\ pass.at = e.id
        /\ pass.out = IF Remaining(w, t) = {e} THEN "ok" ELSE "run"
    BY <1>2 DEF PassEntry, Entry
  <2>3. Carried(t, pass)
    BY <1>2, <2>2 DEF Carried
  <2>4. pass.out = "run" => {f \in Payloads(t, pass.batch) : f.id > pass.upto} # {}
    <3> HIDE DEF pass
    <3>1. pass.out = "run" => Remaining(w, t) # {Current(w, t)}
      BY <2>2
    <3>2. pass.out = "run" =>
            {f \in Payloads(t, old.batch) : f.id > Current(w, t).id} # {}
      BY <1>1, <3>1, PassedRemains
    <3> QED
      BY <2>2, <3>2
  <2>5. pass.out \notin {"leased", "fetched"}
    BY <2>2
  <2> HIDE DEF pass
  <2> QED
    BY <1>1, <1>2, <1>3, <1>4, <2>1, <2>3, <2>4, <2>5, PostBasic
<1>5. CASE Post(w, t, run)
  <2>1. run \in Entry
    <3>1. ran \in SUBSET Reactions
      BY <1>2 DEF Entry
    <3> HIDE DEF ran
    <3> QED
      BY <1>2, <3>1, EntryTypes
  <2>2. /\ run.batch = old.batch /\ run.floor = old.floor /\ run.upto = old.upto
        /\ run.at = old.at /\ run.out = "run"
    BY <1>2 DEF RunEntry, Entry
  <2>3. Carried(t, run)
    BY <1>2, <2>2 DEF Carried
  <2>4. {f \in Payloads(t, run.batch) : f.id > run.upto} # {}
    BY <1>1, <2>2 DEF RunInv, Remaining
  <2> HIDE DEF run
  <2> QED
    BY <1>1, <1>2, <1>3, <1>5, <2>1, <2>2, <2>3, <2>4, PostBasic
<1> QED
  BY <1>4, <1>5 DEF React

LEMMA ReactBatchBasic ==
    ASSUME BasicInv, NEW w \in Workers, NEW t \in Targets, ReactBatch(w, t)
    PROVE  BasicInv'
<1> USE DEF BasicInv, TypeOK
<1> DEFINE old == entry[w][t]
           batch == Payloads(t, old.batch)
           h == PassEntry(old, MaxId(batch), "ok")
<1>1. /\ Running(w, t) /\ Post(w, t, h)
      /\ UNCHANGED <<log, nextId, scanned, rows, phase, claimed, tally, left>>
  BY DEF ReactBatch
<1>2. /\ phase[w] = "handle" /\ old \in Entry /\ Carried(t, old)
      /\ batch \in SUBSET Events /\ batch # {} /\ batch \in SUBSET old.batch
  BY <1>1, RunFacts DEF Payloads
<1>3. accounted' \in [Targets -> SUBSET (Nat \X Reactions)]
  <2>1. \A e \in batch : e.id \in Nat /\ Reacts[t][e.kind] \in SUBSET Reactions
    BY <1>2, DrainAssumption DEF Events
  <2>2. UNION {{e.id} \X Reacts[t][e.kind] : e \in batch} \in SUBSET (Nat \X Reactions)
    BY <2>1
  <2> QED
    BY <2>2 DEF ReactBatch
<1>4. /\ MaxId(batch) \in Nat /\ MaxId(batch) < nextId /\ old.floor <= MaxId(batch)
  <2>1. MaxId(batch) \in Ids(batch) /\ MaxId(batch) \in Nat
    BY <1>2, MaxIdIsLast DEF Carried
  <2> QED
    BY <1>2, <2>1 DEF Carried, Ids, Entry
<1>5. h \in Entry
  BY <1>2, <1>4, EntryTypes DEF Outcomes
<1>6. /\ h.batch = old.batch /\ h.floor = old.floor /\ h.at = MaxId(batch) /\ h.out = "ok"
  BY <1>2 DEF PassEntry, Entry
<1>7. Carried(t, h)
  BY <1>2, <1>4, <1>6 DEF Carried
<1> HIDE DEF h
<1> QED
  BY <1>1, <1>2, <1>3, <1>5, <1>6, <1>7, PostBasic

LEMMA FailBasic ==
    ASSUME BasicInv, NEW w \in Workers, NEW t \in Targets,
           (\E how \in Throws : Throw(w, t, how)) \/ AskDefer(w, t)
    PROVE  BasicInv'
<1> USE DEF BasicInv, TypeOK
<1> DEFINE old == entry[w][t]
<1>1. /\ Running(w, t)
      /\ UNCHANGED <<log, nextId, scanned, rows, phase, claimed, accounted>>
  BY DEF Throw, AskDefer
<1>2. PICK out \in {"block", "mute_block", "mute", "backoff", "retry", "defer"} :
          Post(w, t, EndEntry(old, out))
  BY DEF Throw, AskDefer, Verdict
<1>3. phase[w] = "handle" /\ old \in Entry /\ Carried(t, old)
  BY <1>1, RunFacts
<1>4. /\ left' \in [Charges -> Nat]
      /\ tally' \in [Targets -> [runs : Nat, fatal : Nat]]
  <2>1. left' \in [Charges -> Nat]
    BY ChargeType DEF Throw, AskDefer, Charges
  <2>2. \A c \in [runs : Nat, fatal : Nat] :
          [c EXCEPT !.fatal = c.fatal + 1] \in [runs : Nat, fatal : Nat]
    <3> SUFFICES ASSUME NEW c \in [runs : Nat, fatal : Nat]
                 PROVE  [c EXCEPT !.fatal = c.fatal + 1] \in [runs : Nat, fatal : Nat]
      OBVIOUS
    <3>1. c.fatal + 1 \in Nat
      OBVIOUS
    <3> QED
      BY <3>1
  <2>3. \/ tally' = [tally EXCEPT ![t] = [tally[t] EXCEPT !.fatal = tally[t].fatal + 1]]
        \/ tally' = tally
    BY DEF Throw, AskDefer
  <2> QED
    BY <2>1, <2>2, <2>3
<1> DEFINE h == EndEntry(old, out)
<1>5. h \in Entry
  BY <1>3, EntryTypes DEF Outcomes
<1>6. h.batch = old.batch /\ h.floor = old.floor /\ h.at = old.at /\ h.out = out
  BY <1>3 DEF EndEntry, Entry
<1>7. Carried(t, h)
  BY <1>3, <1>6 DEF Carried
<1>8. h.out \notin {"leased", "fetched", "run"}
  BY <1>6
<1>9. Post(w, t, h)
  BY <1>2
<1> HIDE DEF h
<1> QED
  BY <1>1, <1>3, <1>4, <1>5, <1>7, <1>8, <1>9, PostBasic

LEMMA CloseBasic ==
    ASSUME BasicInv, NEW w \in Workers, NEW t \in Targets, NEW n, AskClose(w, t, n)
    PROVE  BasicInv'
<1> USE DEF BasicInv, TypeOK
<1> DEFINE old == entry[w][t]
           h == CloseEntry(old, n)
<1>1. /\ Running(w, t) /\ Post(w, t, h)
      /\ n \in Ids(log) \union {Current(w, t).id} /\ n >= Current(w, t).id
      /\ UNCHANGED <<log, nextId, scanned, rows, phase, claimed, tally, left>>
  BY DEF AskClose
<1>2. /\ phase[w] = "handle" /\ old \in Entry /\ Carried(t, old)
      /\ Current(w, t).id \in Nat /\ Current(w, t).id < nextId
      /\ old.floor <= Current(w, t).id
  BY <1>1, RunFacts
<1>3. n \in Nat /\ n < nextId /\ old.floor <= n
  BY <1>1, <1>2 DEF Ids, Events, LogInv, Entry
<1>4. accounted' \in [Targets -> SUBSET (Nat \X Reactions)]
  <2>1. \A e \in log : e.id \in Nat /\ Reacts[t][e.kind] \in SUBSET Reactions
    BY DrainAssumption DEF Events
  <2>2. UNION {{e.id} \X Reacts[t][e.kind] : e \in {f \in log : f.id <= n}}
          \in SUBSET (Nat \X Reactions)
    BY <2>1
  <2> QED
    BY <2>2 DEF AskClose
<1>5. h \in Entry
  BY <1>2, <1>3, EntryTypes
<1>6. h.batch = old.batch /\ h.floor = old.floor /\ h.at = n /\ h.out = "close"
  BY <1>2 DEF CloseEntry, Entry
<1>7. Carried(t, h)
  BY <1>2, <1>3, <1>6 DEF Carried
<1> HIDE DEF h
<1> QED
  BY <1>1, <1>2, <1>4, <1>5, <1>6, <1>7, PostBasic

LEMMA BlockBasic == ASSUME BasicInv, NEW w \in Workers, Block(w) PROVE BasicInv'
<1> USE DEF BasicInv, TypeOK
<1>1. /\ phase[w] = "handle" /\ phase' = [phase EXCEPT ![w] = "ack"]
      /\ UNCHANGED <<log, nextId, scanned, claimed, entry, accounted, tally, left>>
  BY DEF Block
<1>2. rows' \in [Targets -> Row]
      /\ \A t \in Targets : rows'[t].at < nextId /\ rows'[t].mark < nextId
  <2>1. \A t \in Targets : /\ rows[t] \in Row /\ BlockRow(rows[t]) \in Row
                           /\ BlockRow(rows[t]).at = rows[t].at
                           /\ BlockRow(rows[t]).mark = rows[t].mark
    BY RowTypes, RowMoves
  <2>2. PICK B \in SUBSET Targets :
          rows' = [t \in Targets |-> IF t \in B THEN BlockRow(rows[t]) ELSE rows[t]]
    <3> DEFINE B == {t \in Targets : /\ t \in claimed[w]
                                     /\ entry[w][t].out \in {"block", "mute_block", "exhausted"}
                                     /\ CanBlock(rows[t], w)}
    <3>1. rows' = [t \in Targets |-> IF t \in B THEN BlockRow(rows[t]) ELSE rows[t]]
      BY DEF Block
    <3> QED
      BY <3>1
  <2> QED
    BY <2>1, <2>2 DEF RowInv
<1>3. TypeOK' /\ LogInv' /\ RowInv'
  BY <1>1, <1>2 DEF LogInv, RowInv, Phases
<1>4. EntryInv'
  BY <1>1 DEF EntryInv, Carried, Staged
<1>5. RunInv'
  <2> SUFFICES ASSUME NEW v \in Workers, NEW t \in Targets, Running(v, t)'
               PROVE  Remaining(v, t)' # {}
    BY DEF RunInv
  <2>1. Running(v, t) /\ Remaining(v, t)' = Remaining(v, t)
    BY <1>1 DEF Running, Remaining
  <2> QED
    BY <2>1 DEF RunInv
<1> QED
  BY <1>3, <1>4, <1>5

\* The row an ack leaves: its watermark is the cycle's floor or its position.
LEMMA FinishTypes ==
    ASSUME NEW row \in Row, NEW h \in Entry
    PROVE  /\ Finish(row, h) \in Row /\ Finish(row, h).mark = row.mark
           /\ Finish(row, h).at \in {row.at, h.floor, h.at}
<1>1. h.at \in Position /\ h.floor \in Position /\ h.retry \in Position /\ -1 \in Position
      /\ Advance(h) \in {h.at, h.floor}
  BY DEF Entry, Advance
<1>2. \A at \in {h.at, h.floor} : AckRow(row, at) \in Row
         /\ AckRow(row, at).mark = row.mark /\ AckRow(row, at).at = at
  BY <1>1, RowTypes, RowMoves
<1>3. \A at \in {h.at, h.floor}, retry \in {h.retry, -1} :
         /\ DueRow(row, at, retry) \in Row
         /\ DueRow(row, at, retry).mark = row.mark /\ DueRow(row, at, retry).at = at
  BY <1>1, RowTypes, RowMoves
<1>4. Finish(row, h) \in {DueRow(row, Advance(h), -1), DueRow(row, Advance(h), h.retry),
                          AckRow(row, h.at), row}
  BY DEF Finish
<1> QED
  BY <1>1, <1>2, <1>3, <1>4

LEMMA AckBasic == ASSUME BasicInv, NEW w \in Workers, Ack(w) PROVE BasicInv'
<1> USE DEF BasicInv, TypeOK
<1>1. /\ phase' \in [Workers -> Phases] /\ claimed' \in [Workers -> SUBSET Targets]
      /\ entry' \in [Workers -> [Targets -> Entry]] /\ EntryInv' /\ RunInv'
  BY CycleEnded DEF Ack
<1>2. rows' \in [Targets -> Row]
      /\ \A t \in Targets : rows'[t].at < nextId /\ rows'[t].mark < nextId
  <2>1. \A t \in Targets :
          /\ rows[t] \in Row /\ Finish(rows[t], entry[w][t]) \in Row
          /\ Finish(rows[t], entry[w][t]).mark = rows[t].mark
          /\ Finish(rows[t], entry[w][t]).at
                \in {rows[t].at, entry[w][t].floor, entry[w][t].at}
          /\ rows[t].at < nextId /\ entry[w][t].floor < nextId
          /\ entry[w][t].at < nextId /\ rows[t].mark < nextId
    BY FinishTypes DEF RowInv, EntryInv, Carried
  <2>2. rows' = [t \in Targets |->
                   IF Acks(w, t) THEN Finish(rows[t], entry[w][t]) ELSE rows[t]]
    BY DEF Ack
  <2> QED
    BY <2>1, <2>2
<1>3. tally' \in [Targets -> [runs : Nat, fatal : Nat]]
  BY CleanType DEF Ack
<1>4. TypeOK' /\ LogInv' /\ RowInv'
  BY <1>1, <1>2, <1>3 DEF Ack, LogInv, RowInv
<1> QED
  BY <1>1, <1>4

LEMMA NextBasic == ASSUME BasicInv, [Next]_vars PROVE BasicInv'
<1>1. CASE Environment
  BY <1>1, CommitBasic, CorrelateBasic, ClockBasic, OperatorBasic, CrashBasic,
     TruncateBasic DEF Environment
<1>2. ASSUME NEW w \in Workers, Cycle(w) PROVE BasicInv'
  BY <1>2, ClaimBasic, DispatchBasic, BlockBasic, AckBasic, FetchBasic, ReactBasic,
     ReactBatchBasic, FailBasic, CloseBasic DEF Cycle
<1>3. CASE UNCHANGED vars
  <2>1. TypeOK' /\ LogInv' /\ RowInv'
    BY <1>3 DEF vars, BasicInv, TypeOK, LogInv, RowInv
  <2>2. EntryInv' /\ RunInv'
    BY <1>3, CyclesUntouched DEF vars, BasicInv, TypeOK
  <2> QED
    BY <2>1, <2>2 DEF BasicInv
<1> QED
  BY <1>1, <1>2, <1>3 DEF Next

\* Type correctness, unique ids, bounded positions, and work left whenever
\* handlers run: for every instance.
THEOREM BasicCorrect == Spec => []BasicInv
<1>1. Init => BasicInv
  BY InitBasic
<1>2. BasicInv /\ [Next]_vars => BasicInv'
  BY NextBasic
<1> QED
  BY <1>1, <1>2, PTL DEF Spec

\* Every state of the drain is well-typed.
THEOREM TypeCorrect == Spec => []TypeOK
<1>1. BasicInv => TypeOK
  BY DEF BasicInv
<1> QED
  BY <1>1, BasicCorrect, PTL

-----------------------------------------------------------------------------
(* Leases.                                                                 *)

\* What each operation does to the identity on the lease.
LEMMA RowHolders ==
    ASSUME NEW row \in Row, NEW at \in Position, NEW retry \in Position, NEW by
    PROVE  /\ BlockRow(row).by = row.by /\ DeferRow(row).by = row.by
           /\ MarkRow(row, at).by = row.by /\ LeaseRow(row, by).by = by
           /\ UnblockRow(row).by = NoHolder /\ ResetRow(row).by = NoHolder
           /\ AckRow(row, at).by = NoHolder /\ DueRow(row, at, retry).by = NoHolder
<1>1. BlockRow(row).by = row.by /\ DeferRow(row).by = row.by
  BY DEF BlockRow, DeferRow, Row
<1>2. MarkRow(row, at).by = row.by /\ LeaseRow(row, by).by = by
  BY DEF MarkRow, LeaseRow, Row
<1>3. UnblockRow(row).by = NoHolder /\ ResetRow(row).by = NoHolder
  BY DEF UnblockRow, ResetRow, NewRow
<1>4. AckRow(row, at).by = NoHolder /\ DueRow(row, at, retry).by = NoHolder
  BY DEF AckRow, DueRow, Row
<1> QED
  BY <1>1, <1>2, <1>3, <1>4

\* A row that an ack touches is released or left as it was.
LEMMA FinishHolder ==
    ASSUME NEW row \in Row, NEW h \in Entry
    PROVE  Finish(row, h) = row \/ Finish(row, h).by = NoHolder
<1>1. h.at \in Position /\ h.retry \in Position /\ -1 \in Position /\ Advance(h) \in Position
  BY DEF Entry, Advance
<1>2. Finish(row, h) \in {DueRow(row, Advance(h), -1), DueRow(row, Advance(h), h.retry),
                          AckRow(row, h.at), row}
  BY DEF Finish
<1>3. AckRow(row, h.at).by = NoHolder
  BY <1>1, RowHolders
<1>4. \A retry \in {-1, h.retry} : DueRow(row, Advance(h), retry).by = NoHolder
  BY <1>1, RowHolders
<1> QED
  BY <1>2, <1>3, <1>4

\* Outside the cycles, a row keeps its watermark and holder or loses its holder.
LEMMA EnvironmentRows ==
    ASSUME BasicInv, Environment, NEW t \in Targets
    PROVE  \/ rows'[t].at = rows[t].at /\ rows'[t].by = rows[t].by
           \/ rows'[t].at = rows[t].at /\ rows'[t].by = NoHolder
           \/ rows'[t] = ResetRow(rows[t]) /\ rows'[t].by = NoHolder
<1> USE DEF BasicInv, TypeOK
<1>0. rows[t] \in Row
  OBVIOUS
<1>1. CASE rows' = rows
  BY <1>1
<1>2. ASSUME NEW n \in scanned + 1 .. nextId - 1, Correlate(n)
      PROVE  rows'[t].at = rows[t].at /\ rows'[t].by = rows[t].by
  <2> DEFINE found == {e \in log : Deliverable(t, e) /\ e.id > scanned /\ e.id <= n}
  <2>1. rows'[t] = IF found = {} THEN rows[t] ELSE MarkRow(rows[t], MaxId(found))
    BY <1>2 DEF Correlate
  <2>2. MarkRow(rows[t], MaxId(found)).at = rows[t].at
        /\ MarkRow(rows[t], MaxId(found)).by = rows[t].by
    BY <1>0 DEF MarkRow, Row
  <2> QED
    BY <2>1, <2>2
<1>3. ASSUME NEW u \in Targets, Overrun(u) \/ Lapse(u) \/ Due(u)
      PROVE  rows'[t].at = rows[t].at /\ rows'[t].by = rows[t].by
  <2>1. \/ rows' = [rows EXCEPT ![u] = [@ EXCEPT !.live = FALSE]]
        \/ rows' = [rows EXCEPT ![u] = [@ EXCEPT !.deferred = FALSE]]
    BY <1>3 DEF Overrun, Lapse, Due
  <2>2. \A row \in Row : /\ [row EXCEPT !.live = FALSE].at = row.at
                         /\ [row EXCEPT !.live = FALSE].by = row.by
                         /\ [row EXCEPT !.deferred = FALSE].at = row.at
                         /\ [row EXCEPT !.deferred = FALSE].by = row.by
    BY DEF Row
  <2>3. PICK row \in {rows[u], [rows[u] EXCEPT !.live = FALSE],
                      [rows[u] EXCEPT !.deferred = FALSE]} : rows' = [rows EXCEPT ![u] = row]
    BY <2>1
  <2>4. row.at = rows[u].at /\ row.by = rows[u].by
    BY <2>2, <2>3
  <2> QED
    BY <2>3, <2>4
<1>4. ASSUME NEW S \in SUBSET Targets, Reset(S) \/ Unblock(S) \/ Defer(S)
      PROVE  \/ rows'[t].at = rows[t].at /\ rows'[t].by = rows[t].by
             \/ rows'[t].at = rows[t].at /\ rows'[t].by = NoHolder
             \/ rows'[t] = ResetRow(rows[t]) /\ rows'[t].by = NoHolder
  <2>1. -1 \in Position
    OBVIOUS
  <2>2. /\ UnblockRow(rows[t]).at = rows[t].at /\ UnblockRow(rows[t]).by = NoHolder
        /\ DeferRow(rows[t]).at = rows[t].at /\ DeferRow(rows[t]).by = rows[t].by
        /\ ResetRow(rows[t]).by = NoHolder
    BY <1>0, <2>1, RowMoves, RowHolders
  <2>3. rows'[t] \in {rows[t], UnblockRow(rows[t]), DeferRow(rows[t]), ResetRow(rows[t])}
    BY <1>4 DEF Reset, Unblock, Defer
  <2> QED
    BY <2>2, <2>3
<1> QED
  BY <1>1, <1>2, <1>3, <1>4 DEF Environment, Commit, Crash, Truncate

\* Inside a cycle, a result that is posted keeps the floor of its claim.
LEMMA PostedFloor ==
    ASSUME BasicInv, NEW w \in Workers, NEW t \in Targets,
           \/ Fetch(w, t) \/ ReactBatch(w, t) \/ AskDefer(w, t)
           \/ \E r \in Reactions : React(w, t, r)
           \/ \E how \in Throws : Throw(w, t, how)
           \/ \E n \in Ids(log) \union Ids(entry[w][t].batch) : AskClose(w, t, n)
    PROVE  /\ UNCHANGED <<log, nextId, scanned, rows, phase, claimed>>
           /\ \A v \in Workers, u \in Targets : entry'[v][u].floor = entry[v][u].floor
<1> USE DEF BasicInv, TypeOK
<1>1. UNCHANGED <<log, nextId, scanned, rows, phase, claimed>>
  BY DEF Fetch, ReactBatch, AskDefer, React, Throw, AskClose
<1>2. entry[w][t] \in Entry
  OBVIOUS
<1>3. \A batch, id, out, ran :
        /\ FetchEntry(entry[w][t], batch).floor = entry[w][t].floor
        /\ PassEntry(entry[w][t], id, out).floor = entry[w][t].floor
        /\ RunEntry(entry[w][t], ran).floor = entry[w][t].floor
        /\ CloseEntry(entry[w][t], id).floor = entry[w][t].floor
        /\ EndEntry(entry[w][t], out).floor = entry[w][t].floor
  BY <1>2 DEF FetchEntry, PassEntry, RunEntry, CloseEntry, EndEntry, Entry
<1>4. \E h : Post(w, t, h) /\ h.floor = entry[w][t].floor
  <2>1. CASE Fetch(w, t) \/ ReactBatch(w, t) \/ AskDefer(w, t)
    BY <2>1, <1>3 DEF Fetch, ReactBatch, AskDefer
  <2>2. ASSUME NEW r \in Reactions, React(w, t, r)
        PROVE  \E h : Post(w, t, h) /\ h.floor = entry[w][t].floor
    BY <2>2, <1>3 DEF React
  <2>3. ASSUME NEW how \in Throws, Throw(w, t, how)
        PROVE  \E h : Post(w, t, h) /\ h.floor = entry[w][t].floor
    BY <2>3, <1>3 DEF Throw
  <2>4. ASSUME NEW n \in Ids(log) \union Ids(entry[w][t].batch), AskClose(w, t, n)
        PROVE  \E h : Post(w, t, h) /\ h.floor = entry[w][t].floor
    BY <2>4, <1>3 DEF AskClose
  <2> QED
    BY <2>1, <2>2, <2>3, <2>4
<1>5. \A v \in Workers, u \in Targets : entry'[v][u].floor = entry[v][u].floor
  BY <1>4 DEF Post
<1> QED
  BY <1>1, <1>5

\* The lease invariant is kept by every step.
LEMMA HolderStep ==
    ASSUME BasicInv, HolderIsCurrent, [Next]_vars PROVE HolderIsCurrent'
<1> USE DEF BasicInv, TypeOK
<1> SUFFICES ASSUME NEW v \in Workers, NEW u \in Targets,
                    u \in claimed'[v], rows'[u].by = v
             PROVE  entry'[v][u].floor = rows'[u].at
  BY DEF HolderIsCurrent, Holds
<1>1. u \in claimed[v] /\ rows[u].by = v => entry[v][u].floor = rows[u].at
  BY DEF HolderIsCurrent, Holds
<1>2. v # NoHolder /\ rows[u] \in Row
  BY DrainAssumption, NoHolderAssumption
<1>3. CASE Environment
  <2>1. (claimed' = claimed /\ entry' = entry) \/ \E w \in Workers : Crash(w)
    BY <1>3 DEF Environment, Commit, Correlate, Overrun, Lapse, Due, Reset, Unblock,
       Defer, Truncate
  <2>2. u \in claimed[v] /\ entry'[v][u] = entry[v][u]
    <3>1. ASSUME NEW w \in Workers, Crash(w)
          PROVE  u \in claimed[v] /\ entry'[v][u] = entry[v][u]
      BY <3>1 DEF Crash
    <3> QED
      BY <2>1, <3>1
  <2>3. rows'[u].at = rows[u].at /\ rows[u].by = v
    BY <1>2, <1>3, EnvironmentRows
  <2> QED
    BY <1>1, <2>2, <2>3
<1>4. ASSUME NEW w \in Workers, Claim(w) PROVE entry'[v][u].floor = rows'[u].at
  <2>1. PICK S \in SUBSET Targets :
          /\ rows' = [t \in Targets |-> IF t \in S THEN LeaseRow(rows[t], w) ELSE rows[t]]
          /\ claimed' = [claimed EXCEPT ![w] = S]
          /\ entry' = [entry EXCEPT ![w] = [t \in Targets |->
                 IF t \in S THEN GrantEntry(rows[t]) ELSE NoEntry]]
    BY <1>4, ClaimTakes
  <2>2. LeaseRow(rows[u], w).by = w /\ LeaseRow(rows[u], w).at = rows[u].at
    BY <1>2 DEF LeaseRow, Row
  <2>3. CASE u \in S
    <3>1. v = w
      BY <2>1, <2>2, <2>3
    <3> QED
      BY <2>1, <2>2, <2>3, <3>1 DEF GrantEntry
  <2>4. CASE u \notin S
    <3>1. v # w
      BY <2>1, <2>4
    <3> QED
      BY <1>1, <2>1, <2>4, <3>1
  <2> QED
    BY <2>3, <2>4
<1>5. ASSUME NEW w \in Workers, NEW t \in Targets,
             \/ Fetch(w, t) \/ ReactBatch(w, t) \/ AskDefer(w, t)
             \/ \E r \in Reactions : React(w, t, r)
             \/ \E how \in Throws : Throw(w, t, how)
             \/ \E n \in Ids(log) \union Ids(entry[w][t].batch) : AskClose(w, t, n)
      PROVE  entry'[v][u].floor = rows'[u].at
  BY <1>1, <1>5, PostedFloor
<1>6. ASSUME NEW w \in Workers, Dispatch(w) PROVE entry'[v][u].floor = rows'[u].at
  <2>1. entry[v][u] \in Entry /\ claimed' = claimed /\ rows' = rows
    BY <1>6 DEF Dispatch
  <2>2. EndEntry(entry[v][u], "exhausted").floor = entry[v][u].floor
        /\ \A out \in {"ok", "run"} :
             AimEntry(entry[v][u], Ceiling(w, u), out).floor = entry[v][u].floor
    BY <2>1 DEF EndEntry, AimEntry, Entry
  <2>3. \/ entry'[v][u] = entry[v][u]
        \/ entry'[v][u] = EndEntry(entry[v][u], "exhausted")
        \/ \E out \in {"ok", "run"} :
              entry'[v][u] = AimEntry(entry[v][u], Ceiling(w, u), out)
    BY <1>6, <2>1 DEF Dispatch
  <2> QED
    BY <1>1, <2>1, <2>2, <2>3
<1>7. ASSUME NEW w \in Workers, Block(w) PROVE entry'[v][u].floor = rows'[u].at
  <2>1. BlockRow(rows[u]).at = rows[u].at /\ BlockRow(rows[u]).by = rows[u].by
    BY <1>2 DEF BlockRow, Row
  <2>2. rows'[u] \in {rows[u], BlockRow(rows[u])} /\ claimed' = claimed /\ entry' = entry
    BY <1>7 DEF Block
  <2> QED
    BY <1>1, <2>1, <2>2
<1>8. ASSUME NEW w \in Workers, Ack(w) PROVE entry'[v][u].floor = rows'[u].at
  <2>1. v # w /\ u \in claimed[v] /\ entry'[v] = entry[v]
    BY <1>8 DEF Ack
  <2>2. rows'[u] = IF Acks(w, u) THEN Finish(rows[u], entry[w][u]) ELSE rows[u]
    BY <1>8 DEF Ack
  <2>3. Acks(w, u) => rows[u].by = w
    BY DEF Acks, Holds
  <2>4. Finish(rows[u], entry[w][u]) = rows[u] \/ Finish(rows[u], entry[w][u]).by = NoHolder
    BY <1>2, FinishHolder
  <2>5. rows'[u] = rows[u]
    BY <1>2, <2>1, <2>2, <2>3, <2>4
  <2> QED
    BY <1>1, <2>1, <2>5
<1>9. CASE UNCHANGED vars
  BY <1>1, <1>9 DEF vars
<1> QED
  BY <1>3, <1>4, <1>5, <1>6, <1>7, <1>8, <1>9 DEF Next, Cycle

\* The worker that holds a row's lease always works from its present watermark.
THEOREM HolderCorrect == Spec => []HolderIsCurrent
<1>1. Init => HolderIsCurrent
  BY DEF Init, HolderIsCurrent
<1>2. BasicInv /\ HolderIsCurrent /\ [Next]_vars => HolderIsCurrent'
  BY HolderStep
<1> QED
  BY <1>1, <1>2, BasicCorrect, PTL DEF Spec

\* Every acknowledgement moves forward: the position of a held entry is never
\* behind the row, so only a reset takes a watermark back.
THEOREM RewindCorrect == Spec => OnlyResetRewinds
<1>1. ASSUME BasicInv, HolderIsCurrent, [Next]_vars, NEW u \in Targets,
             rows'[u].at < rows[u].at
      PROVE  rows'[u] = ResetRow(rows[u])
  <2> USE DEF BasicInv, TypeOK
  <2>1. rows[u] \in Row /\ rows[u].at \in Position
    BY <1>1 DEF Row
  <2>2. CASE Environment
    BY <1>1, <2>1, <2>2, EnvironmentRows
  <2>3. ASSUME NEW w \in Workers, Claim(w) PROVE FALSE
    <3>1. rows'[u] \in {rows[u], LeaseRow(rows[u], w)}
      BY <2>3 DEF Claim
    <3>2. LeaseRow(rows[u], w).at = rows[u].at
      BY <2>1 DEF LeaseRow, Row
    <3> QED
      BY <1>1, <2>1, <3>1, <3>2
  <2>4. ASSUME NEW w \in Workers, Block(w) PROVE FALSE
    <3>1. rows'[u] \in {rows[u], BlockRow(rows[u])}
      BY <2>4 DEF Block
    <3>2. BlockRow(rows[u]).at = rows[u].at
      BY <2>1 DEF BlockRow, Row
    <3> QED
      BY <1>1, <2>1, <3>1, <3>2
  <2>5. ASSUME NEW w \in Workers, Ack(w) PROVE FALSE
    <3>1. Acks(w, u) /\ rows'[u] = Finish(rows[u], entry[w][u])
      BY <1>1, <2>1, <2>5 DEF Ack
    <3>2. entry[w][u] \in Entry /\ entry[w][u].floor <= entry[w][u].at
      BY <1>1 DEF EntryInv, Carried
    <3>3. entry[w][u].floor = rows[u].at
      BY <1>1, <3>1 DEF HolderIsCurrent, Acks
    <3>4. Finish(rows[u], entry[w][u]).at \in {rows[u].at, entry[w][u].floor, entry[w][u].at}
      BY <2>1, <3>2, FinishTypes
    <3> QED
      BY <1>1, <2>1, <3>1, <3>2, <3>3, <3>4 DEF Entry
  <2>6. ASSUME NEW w \in Workers, Dispatch(w) \/ UNCHANGED vars PROVE FALSE
    BY <1>1, <2>1, <2>6 DEF Dispatch, vars
  <2>7. ASSUME NEW w \in Workers, NEW t \in Targets,
               \/ Fetch(w, t) \/ ReactBatch(w, t) \/ AskDefer(w, t)
               \/ \E r \in Reactions : React(w, t, r)
               \/ \E how \in Throws : Throw(w, t, how)
               \/ \E n \in Ids(log) \union Ids(entry[w][t].batch) : AskClose(w, t, n)
        PROVE  FALSE
    BY <1>1, <2>1, <2>7, PostedFloor
  <2>8. CASE UNCHANGED vars
    BY <1>1, <2>1, <2>8 DEF vars
  <2> QED
    BY <1>1, <2>2, <2>3, <2>4, <2>5, <2>6, <2>7, <2>8 DEF Next, Cycle
<1>2. BasicInv /\ HolderIsCurrent /\ [Next]_vars =>
        [\A t \in Targets : rows'[t].at < rows[t].at => rows'[t] = ResetRow(rows[t])]_vars
  BY <1>1
<1> QED
  BY <1>2, BasicCorrect, HolderCorrect, PTL DEF Spec, OnlyResetRewinds

-----------------------------------------------------------------------------
(* What a step that only adds to the history leaves standing.              *)

\* The log keeps its events, any new one has the next id, and the target's
\* account only grows.
Grows(t) ==
    /\ nextId <= nextId' /\ nextId' \in Nat
    /\ log \subseteq log' /\ \A e \in log' \ log : e.id = nextId
    /\ accounted[t] \subseteq accounted'[t]

LEMMA SettledKept ==
    ASSUME BasicInv, NEW t \in Targets, NEW n \in Int, n < nextId,
           Grows(t), Settled(t, n)
    PROVE  Settled(t, n)'
<1> SUFFICES ASSUME NEW e \in log', Deliverable(t, e), e.id <= n
             PROVE  {e.id} \X Reacts[t][e.kind] \subseteq accounted'[t]
  BY DEF Settled, Handled, Deliverable
<1>1. e \in log
  BY DEF Grows, BasicInv, TypeOK
<1>2. {e.id} \X Reacts[t][e.kind] \subseteq accounted[t]
  BY <1>1 DEF Settled, Handled
<1> QED
  BY <1>2 DEF Grows

LEMMA WorkingKept ==
    ASSUME NEW t \in Targets, NEW h, log \subseteq log', Working(t, h)
    PROVE  Working(t, h)'
BY DEF Working, Deliverable

LEMMA NoHolesKept ==
    ASSUME BasicInv, NEW t \in Targets, Grows(t), NEW h, NEW old,
           Carried(t, old), old.batch \in SUBSET Events, NoHoles(t, old),
           h.batch = old.batch, h.floor = old.floor
    PROVE  NoHoles(t, h)'
<1> USE DEF BasicInv, TypeOK
<1> SUFFICES ASSUME NEW f \in h.batch, NEW e \in log',
                    Deliverable(t, e), h.floor < e.id, e.id <= f.id
             PROVE  e \in h.batch
  BY DEF NoHoles, Deliverable
<1>1. f.id < nextId /\ f.id \in Nat
  BY DEF Carried, Events
<1>2. e \in log
  BY <1>1 DEF Grows
<1> QED
  BY <1>2 DEF NoHoles

LEMMA CompletedKept ==
    ASSUME NEW t \in Targets, Grows(t), NEW h, NEW old, Completed(t, old),
           h.batch = old.batch, h.upto = old.upto
    PROVE  Completed(t, h)'
BY DEF Completed, Handled, Grows, Deliverable

LEMMA BackedKept ==
    ASSUME BasicInv, NEW w \in Workers, NEW t \in Targets, Grows(t),
           entry'[w][t] = entry[w][t], claimed'[w] = claimed[w],
           phase'[w] \in {phase[w], "ack"},
           Backed(w, t)
    PROVE  Backed(w, t)'
<1> USE DEF BasicInv, TypeOK
<1> DEFINE h == entry[w][t]
<1>1. h \in Entry /\ Carried(t, h) /\ h.batch \in SUBSET Events
      /\ h.at \in Int /\ h.at < nextId /\ h.floor \in Int
  BY DEF EntryInv, Carried, Entry
<1>2. h.out # "leased" => NoHoles(t, entry[w][t])'
  BY <1>1, NoHolesKept DEF Backed
<1>3. Completed(t, entry[w][t])'
  BY CompletedKept DEF Backed
<1>4. Running(w, t)' => Running(w, t) /\ Current(w, t)' = Current(w, t)
  <2>1. Remaining(w, t)' = Remaining(w, t)
    BY DEF Remaining
  <2> QED
    BY <2>1 DEF Running, Current
<1>5. Running(w, t)' => {Current(w, t)'.id} \X h.done \subseteq accounted'[t]
  BY <1>4 DEF Backed, Grows
<1>6. h.handled \/ h.out \in {"ok", "close"} => Settled(t, h.at)'
  BY <1>1, SettledKept DEF Backed
<1>7. Settled(t, entry[w][t].at)' <=> Settled(t, h.at)'
  BY DEF Settled, Deliverable, Handled
<1> QED
  BY <1>2, <1>3, <1>5, <1>6, <1>7 DEF Backed

-----------------------------------------------------------------------------
(* Frames: what a step leaves alone.                                       *)

\* The steps inside a cycle that post one result.
Posts(w, t) ==
    \/ Fetch(w, t) \/ ReactBatch(w, t) \/ AskDefer(w, t)
    \/ \E r \in Reactions : React(w, t, r)
    \/ \E how \in Throws : Throw(w, t, how)
    \/ \E n \in Ids(log) \union Ids(entry[w][t].batch) : AskClose(w, t, n)

LEMMA CyclePosts ==
    ASSUME NEW w \in Workers, Cycle(w)
    PROVE  \/ Claim(w) \/ Dispatch(w) \/ Block(w) \/ Ack(w)
           \/ \E t \in Targets : Posts(w, t)
BY DEF Cycle, Posts

LEMMA PostsPost ==
    ASSUME NEW w \in Workers, NEW t \in Targets, Posts(w, t)
    PROVE  /\ \E h : Post(w, t, h)
           /\ UNCHANGED <<log, nextId, scanned, rows, phase, claimed>>
<1>1. UNCHANGED <<log, nextId, scanned, rows, phase, claimed>>
  BY DEF Posts, Fetch, ReactBatch, AskDefer, React, Throw, AskClose
<1>2. CASE Fetch(w, t) \/ ReactBatch(w, t) \/ AskDefer(w, t)
  BY <1>1, <1>2 DEF Fetch, ReactBatch, AskDefer
<1>3. ASSUME NEW r \in Reactions, React(w, t, r) PROVE \E h : Post(w, t, h)
  BY <1>3 DEF React
<1>4. ASSUME NEW how \in Throws, Throw(w, t, how) PROVE \E h : Post(w, t, h)
  BY <1>4 DEF Throw
<1>5. ASSUME NEW n, AskClose(w, t, n) PROVE \E h : Post(w, t, h)
  BY <1>5 DEF AskClose
<1> QED
  BY <1>1, <1>2, <1>3, <1>4, <1>5 DEF Posts

\* A cycle step is invisible to the other workers' cycles.
LEMMA OthersUntouched ==
    ASSUME BasicInv, NEW w \in Workers, Cycle(w), NEW v \in Workers \ {w}
    PROVE  entry'[v] = entry[v] /\ phase'[v] = phase[v] /\ claimed'[v] = claimed[v]
<1> USE DEF BasicInv, TypeOK
<1>1. CASE Claim(w)
  BY <1>1 DEF Claim
<1>2. CASE Dispatch(w) \/ Block(w) \/ Ack(w)
  BY <1>2 DEF Dispatch, Block, Ack
<1>3. ASSUME NEW t \in Targets, Posts(w, t)
      PROVE  entry'[v] = entry[v] /\ phase'[v] = phase[v] /\ claimed'[v] = claimed[v]
  BY <1>3, PostsPost DEF Post
<1> QED
  BY <1>1, <1>2, <1>3, CyclePosts

\* An environment step leaves a cycle alone unless its process dies.
LEMMA CycleSurvives ==
    ASSUME BasicInv, Environment, NEW v \in Workers, NEW t, t \in claimed'[v]
    PROVE  entry'[v] = entry[v] /\ phase'[v] = phase[v] /\ claimed'[v] = claimed[v]
<1> USE DEF BasicInv, TypeOK
<1>1. CASE UNCHANGED <<entry, phase, claimed>>
  BY <1>1
<1>2. ASSUME NEW w \in Workers, Crash(w)
      PROVE  entry'[v] = entry[v] /\ phase'[v] = phase[v] /\ claimed'[v] = claimed[v]
  BY <1>2 DEF Crash
<1> QED
  BY <1>1, <1>2 DEF Environment, Commit, Correlate, Overrun, Lapse, Due, Reset, Unblock,
     Defer, Truncate

\* The history of a target grows with every step that does not reset it.
LEMMA NextGrows ==
    ASSUME BasicInv, left["truncate"] = 0, [Next]_vars
    PROVE  /\ left'["truncate"] = 0
           /\ log \subseteq log'
           /\ \A t \in Targets :
                 Grows(t) \/ (rows'[t] = ResetRow(rows[t]) /\ Environment)
<1> USE DEF BasicInv, TypeOK
<1> DEFINE Quiet == left'["truncate"] = 0 /\ log \subseteq log' /\ \A t \in Targets : Grows(t)
<1>1. ASSUME left'["truncate"] = 0, UNCHANGED <<log, nextId>>,
             \A u \in Targets : accounted[u] \subseteq accounted'[u]
      PROVE  Quiet
  BY <1>1 DEF Grows
<1>2. ASSUME NEW c \in Charges, c # "truncate", Charge(c) PROVE left'["truncate"] = 0
  BY <1>2 DEF Charge, Charges
<1>3. CASE Environment
  <2>1. ASSUME NEW k \in Kinds, Commit(k) PROVE Quiet
    BY <2>1, <1>2 DEF Commit, Charges, Grows
  <2>2. ASSUME NEW S \in SUBSET Targets, Reset(S)
        PROVE  /\ left'["truncate"] = 0 /\ log \subseteq log'
               /\ \A t \in Targets : Grows(t) \/ rows'[t] = ResetRow(rows[t])
    <3>1. left'["truncate"] = 0 /\ UNCHANGED <<log, nextId>>
      BY <2>2, <1>2 DEF Reset, Charges
    <3>2. ASSUME NEW t \in Targets PROVE Grows(t) \/ rows'[t] = ResetRow(rows[t])
      BY <2>2, <3>1 DEF Reset, Grows
    <3> QED
      BY <3>1, <3>2
  <2>3. ASSUME NEW k, NEW n, Truncate(k, n) PROVE FALSE
    BY <2>3 DEF Truncate, Charge
  <2>4. ASSUME NEW n, Correlate(n) PROVE Quiet
    BY <2>4, <1>1 DEF Correlate
  <2>5. ASSUME NEW t \in Targets, Overrun(t) \/ Lapse(t) \/ Due(t) PROVE Quiet
    BY <2>5, <1>1, <1>2 DEF Overrun, Lapse, Due, Charges
  <2>6. ASSUME NEW S, Unblock(S) \/ Defer(S) PROVE Quiet
    BY <2>6, <1>1, <1>2 DEF Unblock, Defer, Charges
  <2>7. ASSUME NEW w \in Workers, Crash(w) PROVE Quiet
    BY <2>7, <1>1, <1>2 DEF Crash, Charges
  <2> HIDE DEF Quiet
  <2>8. Quiet \/ \E S \in SUBSET Targets : Reset(S)
    BY <1>3, <2>1, <2>3, <2>4, <2>5, <2>6, <2>7 DEF Environment
  <2> USE DEF Quiet
  <2> QED
    BY <1>3, <2>2, <2>8
<1>4. ASSUME NEW w \in Workers, Cycle(w) PROVE Quiet
  <2>1. CASE Claim(w) \/ Dispatch(w) \/ Block(w) \/ Ack(w)
    BY <2>1, <1>1 DEF Claim, Dispatch, Block, Ack
  <2>2. ASSUME NEW t \in Targets, Fetch(w, t) \/ AskDefer(w, t) PROVE Quiet
    BY <2>2, <1>1, <1>2 DEF Fetch, AskDefer, Charges
  <2>3. ASSUME NEW t \in Targets, NEW how, Throw(w, t, how) PROVE Quiet
    BY <2>3, <1>1, <1>2 DEF Throw, Charges
  <2>4. ASSUME NEW t \in Targets, ReactBatch(w, t) PROVE Quiet
    BY <2>4, <1>1 DEF ReactBatch
  <2>5. ASSUME NEW t \in Targets, NEW r, React(w, t, r) PROVE Quiet
    BY <2>5, <1>1 DEF React
  <2>6. ASSUME NEW t \in Targets, NEW n, AskClose(w, t, n) PROVE Quiet
    BY <2>6, <1>1 DEF AskClose
  <2> HIDE DEF Quiet
  <2> QED
    BY <1>4, <2>1, <2>2, <2>3, <2>4, <2>5, <2>6 DEF Cycle
<1>5. CASE UNCHANGED vars
  BY <1>5, <1>1 DEF vars
<1> QED
  BY <1>3, <1>4, <1>5 DEF Next

-----------------------------------------------------------------------------
(* The results a handler can leave behind.                                 *)

StagesOf(h) ==
    {PassEntry(h, id, out) : id \in Position, out \in {"ok", "run"}}
    \union {RunEntry(h, ran) : ran \in SUBSET Reactions}
    \union {CloseEntry(h, id) : id \in Position}
    \union {EndEntry(h, out) : out \in {"defer", "block", "backoff", "retry"}}

\* Every error a handler throws carries a message.
ErrorsSpeak == "mute" \notin Throws

LEMMA StageFrame ==
    ASSUME NEW old \in Entry, old.out = "run", NEW h \in StagesOf(old)
    PROVE  /\ h.out \notin {"none", "leased", "fetched", "mute", "mute_block"}
           /\ h.floor = old.floor /\ h.batch = old.batch
<1>1. ASSUME NEW id \in Position, NEW out \in {"ok", "run"}, h = PassEntry(old, id, out)
      PROVE  /\ h.out \notin {"none", "leased", "fetched", "mute", "mute_block"}
           /\ h.floor = old.floor /\ h.batch = old.batch
  BY <1>1 DEF PassEntry, Entry
<1>2. ASSUME NEW ran, h = RunEntry(old, ran)
      PROVE  /\ h.out \notin {"none", "leased", "fetched", "mute", "mute_block"}
           /\ h.floor = old.floor /\ h.batch = old.batch
  BY <1>2 DEF RunEntry, Entry
<1>3. ASSUME NEW id, h = CloseEntry(old, id)
      PROVE  /\ h.out \notin {"none", "leased", "fetched", "mute", "mute_block"}
           /\ h.floor = old.floor /\ h.batch = old.batch
  BY <1>3 DEF CloseEntry, Entry
<1>4. ASSUME NEW out \in {"defer", "block", "backoff", "retry"}, h = EndEntry(old, out)
      PROVE  /\ h.out \notin {"none", "leased", "fetched", "mute", "mute_block"}
           /\ h.floor = old.floor /\ h.batch = old.batch
  BY <1>4 DEF EndEntry, Entry
<1> QED
  BY <1>1, <1>2, <1>3, <1>4 DEF StagesOf

LEMMA PostedStage ==
    ASSUME BasicInv, NEW w \in Workers, NEW t \in Targets, Posts(w, t), ~Fetch(w, t),
           ErrorsSpeak
    PROVE  \E h \in StagesOf(entry[w][t]) : Post(w, t, h)
<1> DEFINE old == entry[w][t]
<1>1. Running(w, t)
  BY DEF Posts, ReactBatch, AskDefer, React, Throw, AskClose
<1>2. CASE ReactBatch(w, t)
  <2>1. Post(w, t, PassEntry(old, MaxId(Payloads(t, old.batch)), "ok"))
    BY <1>2 DEF ReactBatch
  <2>2. Payloads(t, old.batch) \in SUBSET Events /\ Payloads(t, old.batch) # {}
        /\ \A e \in Payloads(t, old.batch) : e.id < nextId
    BY <1>1, RunFacts DEF Payloads, Carried
  <2>3. MaxId(Payloads(t, old.batch)) \in Nat
    BY <2>2, MaxIdIsLast DEF BasicInv, TypeOK
  <2> QED
    BY <2>1, <2>3 DEF StagesOf
<1>3. CASE AskDefer(w, t)
  BY <1>3 DEF AskDefer, StagesOf
<1>4. ASSUME NEW r \in Reactions, React(w, t, r)
      PROVE  \E h \in StagesOf(old) : Post(w, t, h)
  <2>1. Current(w, t).id \in Position
    BY <1>1, RunFacts
  <2>2. old \in Entry /\ old.done \union {r} \in SUBSET Reactions
    BY <1>1, RunFacts DEF Entry
  <2>3. \/ \E out \in {"ok", "run"} : Post(w, t, PassEntry(old, Current(w, t).id, out))
        \/ Post(w, t, RunEntry(old, old.done \union {r}))
    BY <1>4 DEF React
  <2> QED
    BY <2>1, <2>2, <2>3 DEF StagesOf
<1>5. ASSUME NEW how \in Throws, Throw(w, t, how)
      PROVE  \E h \in StagesOf(old) : Post(w, t, h)
  <2>1. Verdict(t, old.retry, how) \in {"block", "backoff", "retry"}
    BY DEF Verdict, ErrorsSpeak
  <2> QED
    BY <1>5, <2>1 DEF Throw, StagesOf
<1>6. ASSUME NEW n \in Ids(log) \union Ids(old.batch), AskClose(w, t, n)
      PROVE  \E h \in StagesOf(old) : Post(w, t, h)
  <2>1. n \in Position
    BY <1>1, <1>6, RunFacts DEF BasicInv, TypeOK, Ids, Events
  <2> QED
    BY <1>6, <2>1 DEF AskClose, StagesOf
<1> QED
  BY <1>2, <1>3, <1>4, <1>5, <1>6 DEF Posts

-----------------------------------------------------------------------------
(* Marks and work.                                                         *)

\* Only correlate moves a mark, and it moves it onto an event it found.
LEMMA MarkStep ==
    ASSUME BasicInv, left["truncate"] = 0, MarkInv, [Next]_vars PROVE MarkInv'
<1> USE DEF BasicInv, TypeOK
<1> SUFFICES ASSUME NEW t \in Targets, rows'[t].mark # Unmarked
             PROVE  \E e \in log' : Deliverable(t, e) /\ e.id = rows'[t].mark
  BY DEF MarkInv, Deliverable
<1>1. log \subseteq log' /\ rows[t] \in Row /\ -1 \in Position
  BY NextGrows
<1>2. CASE rows'[t].mark = rows[t].mark
  BY <1>1, <1>2 DEF MarkInv
<1>3. ASSUME NEW n \in scanned + 1 .. nextId - 1, Correlate(n),
             rows'[t].mark # rows[t].mark
      PROVE  \E e \in log' : Deliverable(t, e) /\ e.id = rows'[t].mark
  <2> DEFINE found == {e \in log : Deliverable(t, e) /\ e.id > scanned /\ e.id <= n}
  <2>1. rows'[t] = IF found = {} THEN rows[t] ELSE MarkRow(rows[t], MaxId(found))
    BY <1>3 DEF Correlate
  <2>2. found # {} /\ found \in SUBSET Events /\ \A e \in found : e.id < nextId
    BY <1>3, <2>1 DEF LogInv
  <2>3. MaxId(found) \in Ids(found) /\ MaxId(found) \in Nat
    BY <2>2, MaxIdIsLast
  <2>4. rows'[t].mark = MaxId(found)
    BY <1>1, <1>3, <2>1, <2>2, <2>3 DEF MarkRow, Row
  <2> QED
    BY <1>1, <2>3, <2>4 DEF Ids
<1>4. ASSUME NEW u \in Targets, Overrun(u) \/ Lapse(u) \/ Due(u)
      PROVE  rows'[t].mark = rows[t].mark
  <2>1. PICK row \in {rows[u], [rows[u] EXCEPT !.live = FALSE],
                      [rows[u] EXCEPT !.deferred = FALSE]} : rows' = [rows EXCEPT ![u] = row]
    BY <1>4 DEF Overrun, Lapse, Due
  <2>2. \A old \in Row : [old EXCEPT !.live = FALSE].mark = old.mark
                         /\ [old EXCEPT !.deferred = FALSE].mark = old.mark
    BY DEF Row
  <2>3. row.mark = rows[u].mark
    BY <2>1, <2>2
  <2> QED
    BY <2>1, <2>3
<1>5. ASSUME NEW S \in SUBSET Targets, Reset(S) \/ Unblock(S) \/ Defer(S)
      PROVE  rows'[t].mark = rows[t].mark
  <2>1. rows'[t] \in {rows[t], UnblockRow(rows[t]), DeferRow(rows[t]), ResetRow(rows[t])}
    BY <1>5 DEF Reset, Unblock, Defer
  <2>2. /\ UnblockRow(rows[t]).mark = rows[t].mark /\ DeferRow(rows[t]).mark = rows[t].mark
        /\ ResetRow(rows[t]).mark = rows[t].mark
    BY <1>1, RowMoves
  <2> QED
    BY <2>1, <2>2
<1>6. ASSUME NEW w \in Workers, Claim(w) PROVE rows'[t].mark = rows[t].mark
  <2>1. rows'[t] \in {rows[t], LeaseRow(rows[t], w)}
    BY <1>6 DEF Claim
  <2>2. LeaseRow(rows[t], w).mark = rows[t].mark
    BY <1>1, RowMoves
  <2> QED
    BY <2>1, <2>2
<1>7. ASSUME NEW w \in Workers, Block(w) PROVE rows'[t].mark = rows[t].mark
  <2>1. rows'[t] \in {rows[t], BlockRow(rows[t])}
    BY <1>7 DEF Block
  <2>2. BlockRow(rows[t]).mark = rows[t].mark
    BY <1>1, RowMoves
  <2> QED
    BY <2>1, <2>2
<1>8. ASSUME NEW w \in Workers, Ack(w) PROVE rows'[t].mark = rows[t].mark
  <2>1. rows'[t] \in {rows[t], Finish(rows[t], entry[w][t])}
    BY <1>8 DEF Ack
  <2> QED
    BY <1>1, <2>1, FinishTypes
<1>9. CASE UNCHANGED rows
  BY <1>9, <1>2
<1>10. ASSUME NEW w \in Workers, Cycle(w) PROVE rows'[t].mark = rows[t].mark
  <2>1. ASSUME Dispatch(w) \/ \E u \in Targets : Posts(w, u) PROVE rows' = rows
    BY <2>1, PostsPost DEF Dispatch
  <2> QED
    BY <1>10, <1>6, <1>7, <1>8, <2>1, CyclePosts
<1>11. CASE Environment
  BY <1>11, <1>2, <1>3, <1>4, <1>5, <1>9 DEF Environment, Commit, Crash, Truncate
<1> QED
  BY <1>2, <1>9, <1>10, <1>11 DEF Next, vars

\* A claim takes only rows that have work, and a fetch finds that work.
LEMMA WorkStep ==
    ASSUME ErrorsSpeak, BasicInv, left["truncate"] = 0, MarkInv, WorkInv, [Next]_vars
    PROVE  WorkInv'
<1> USE DEF BasicInv, TypeOK
<1> SUFFICES ASSUME NEW v \in Workers, NEW u \in claimed'[v]
             PROVE  Working(u, entry[v][u])'
  BY DEF WorkInv
<1>1. log \subseteq log' /\ claimed[v] \in SUBSET Targets
  BY NextGrows
<1>2. CASE claimed'[v] = claimed[v] /\ entry'[v] = entry[v]
  <2>1. Working(u, entry[v][u])
    BY <1>2 DEF WorkInv
  <2> QED
    BY <1>1, <1>2, <2>1 DEF Working, Deliverable
<1>3. CASE Environment
  BY <1>2, <1>3, CycleSurvives
<1>4. ASSUME NEW w \in Workers, Cycle(w) PROVE Working(u, entry[v][u])'
  <2>1. CASE v # w
    BY <1>2, <1>4, <2>1, OthersUntouched
  <2>2. CASE v = w /\ Claim(w)
    <3>2. PICK S \in SUBSET Targets :
              /\ \A t \in S : HasWork(rows[t])
              /\ claimed' = [claimed EXCEPT ![w] = S]
              /\ entry' = [entry EXCEPT ![w] = [t \in Targets |->
                     IF t \in S THEN GrantEntry(rows[t]) ELSE NoEntry]]
      BY <2>2, ClaimTakes
    <3>3. u \in S /\ HasWork(rows[u]) /\ u \in Targets
      BY <2>2, <3>2
    <3>4. entry'[v][u] = GrantEntry(rows[u])
      BY <2>2, <3>2, <3>3
    <3>5. \E e \in log : Deliverable(u, e) /\ rows[u].at < e.id
      BY <3>3 DEF MarkInv, HasWork
    <3> QED
      BY <1>1, <3>4, <3>5 DEF Working, GrantEntry, Deliverable
  <2>3. CASE v = w /\ Dispatch(w)
    <3>1. u \in claimed[w] /\ claimed' = claimed /\ entry[w][u] \in Entry
          /\ Working(u, entry[w][u]) /\ log' = log /\ entry[w][u].out = "fetched"
      BY <1>1, <2>2, <2>3 DEF Dispatch, WorkInv
    <3>2. \/ entry'[w][u] = EndEntry(entry[w][u], "exhausted")
          \/ \E out \in {"ok", "run"} :
                entry'[w][u] = AimEntry(entry[w][u], Ceiling(w, u), out)
      BY <1>1, <2>3, <3>1 DEF Dispatch
    <3>3. /\ entry'[w][u].out \in {"exhausted", "ok", "run"}
          /\ entry'[w][u].floor = entry[w][u].floor
          /\ entry'[w][u].batch = entry[w][u].batch
      BY <3>1, <3>2 DEF EndEntry, AimEntry, Entry
    <3> QED
      BY <2>3, <3>1, <3>3 DEF Working, Deliverable
  <2>4. CASE v = w /\ Block(w)
    BY <1>2, <2>4 DEF Block
  <2>5. CASE v = w /\ Ack(w)
    BY <2>5 DEF Ack
  <2>6. ASSUME NEW t \in Targets, Posts(w, t), v = w PROVE Working(u, entry[v][u])'
    <3>1. /\ UNCHANGED <<log, claimed>> /\ u \in claimed[v] /\ u \in Targets
          /\ Working(u, entry[v][u]) /\ entry[v][u] \in Entry
      BY <1>1, <2>6, PostsPost DEF WorkInv
    <3>2. CASE t # u
      <4>1. entry'[v][u] = entry[v][u]
        BY <2>6, <3>1, <3>2, PostsPost DEF Post
      <4> QED
        BY <3>1, <4>1 DEF Working, Deliverable
    <3>3. CASE t = u /\ ~Fetch(w, t)
      <4>1. entry[v][u].out = "run"
        BY <2>6, <3>3 DEF Posts, ReactBatch, AskDefer, React, Throw, AskClose, Running
      <4>2. PICK h \in StagesOf(entry[w][t]) : Post(w, t, h)
        BY <2>6, <3>1, <3>3, PostedStage
      <4>3. /\ h.out \notin {"none", "leased", "fetched", "mute", "mute_block"}
            /\ h.floor = entry[v][u].floor /\ h.batch = entry[v][u].batch
        BY <2>6, <3>1, <3>3, <4>1, <4>2, StageFrame
      <4>4. entry'[v][u] = h
        BY <2>6, <3>1, <3>3, <4>2 DEF Post
      <4> QED
        BY <3>1, <4>1, <4>3, <4>4 DEF Working, Deliverable
    <3>4. CASE t = u /\ Fetch(w, t)
      <4> DEFINE old == entry[w][t]
                 h == FetchEntry(old, Window(t, old.floor))
      <4>1. entry'[v][u] = h /\ old \in Entry /\ old.floor \in Position
        BY <2>6, <3>1, <3>4 DEF Fetch, Post, Entry
      <4>2. h.floor = old.floor /\ h.batch = Window(t, old.floor) /\ h.out = "fetched"
            /\ h.handled = old.handled /\ h.done = old.done /\ old.out = "leased"
        BY <2>6, <3>4, <4>1 DEF Fetch, FetchEntry, Entry
      <4>3. \E e \in log : e.kind \in Fetches[t] /\ e.id > old.floor
        BY <2>6, <3>1, <3>4, <4>1 DEF Working, Deliverable, Events
      <4>4. Window(t, old.floor) # {}
        BY <4>1, <4>3, WindowFacts, DrainAssumption DEF LogInv
      <4>5. Window(t, old.floor) \subseteq log
        BY DEF Window
      <4> QED
        BY <2>6, <3>1, <3>4, <4>1, <4>2, <4>4, <4>5 DEF Working, Deliverable
    <3> QED
      BY <3>2, <3>3, <3>4
  <2> QED
    BY <1>4, <2>1, <2>2, <2>3, <2>4, <2>5, <2>6, CyclePosts
<1>5. CASE UNCHANGED vars
  BY <1>2, <1>5 DEF vars
<1> QED
  BY <1>3, <1>4, <1>5 DEF Next

-----------------------------------------------------------------------------
(* Watermarks.                                                             *)

\* An acknowledgement moves a row only to a position its result stands for.
LEMMA FinishPosition ==
    ASSUME NEW row \in Row, NEW h \in Entry
    PROVE  \/ Finish(row, h).at \in {row.at, h.floor}
           \/ /\ Finish(row, h).at = h.at
              /\ h.handled \/ h.out \in {"ok", "close", "mute", "mute_block"}
<1>1. h.at \in Position /\ h.floor \in Position /\ h.retry \in Position /\ -1 \in Position
  BY DEF Entry
<1>2. \A retry \in {h.retry, -1} :
        /\ DueRow(row, Advance(h), retry).at \in {h.at, h.floor}
        /\ DueRow(row, Advance(h), retry).at = h.at => h.handled \/ h.at = h.floor
  BY <1>1, RowMoves DEF Advance
<1>3. AckRow(row, h.at).at = h.at
  BY <1>1, RowMoves
<1>4. \/ Finish(row, h) \in {DueRow(row, Advance(h), h.retry), DueRow(row, Advance(h), -1), row}
      \/ Finish(row, h) = AckRow(row, h.at)
         /\ (h.handled \/ h.out \in {"ok", "close", "mute", "mute_block"})
  BY DEF Finish
<1> QED
  BY <1>1, <1>2, <1>3, <1>4

\* Within a cycle only its ack moves watermarks, and leases go to nobody else.
LEMMA CycleRows ==
    ASSUME BasicInv, NEW w \in Workers, Cycle(w), NEW t \in Targets
    PROVE  /\ \/ rows'[t].at = rows[t].at
              \/ Ack(w) /\ Acks(w, t) /\ rows'[t] = Finish(rows[t], entry[w][t])
           /\ rows'[t].by \in {rows[t].by, w, NoHolder}
<1> USE DEF BasicInv, TypeOK
<1>1. rows[t] \in Row /\ entry[w][t] \in Entry /\ -1 \in Position
  OBVIOUS
<1>2. CASE Claim(w)
  <2>1. rows'[t] \in {rows[t], LeaseRow(rows[t], w)}
    BY <1>2 DEF Claim
  <2>2. LeaseRow(rows[t], w).at = rows[t].at /\ LeaseRow(rows[t], w).by = w
    BY <1>1, RowMoves, RowHolders
  <2> QED
    BY <2>1, <2>2
<1>3. CASE Block(w)
  <2>1. rows'[t] \in {rows[t], BlockRow(rows[t])}
    BY <1>3 DEF Block
  <2>2. BlockRow(rows[t]).at = rows[t].at /\ BlockRow(rows[t]).by = rows[t].by
    BY <1>1, RowMoves, RowHolders
  <2> QED
    BY <2>1, <2>2
<1>4. CASE Ack(w)
  <2>1. \/ rows'[t] = rows[t]
        \/ Acks(w, t) /\ rows'[t] = Finish(rows[t], entry[w][t])
    BY <1>4 DEF Ack
  <2> QED
    BY <1>1, <1>4, <2>1, FinishHolder
<1>5. CASE Dispatch(w)
  BY <1>5 DEF Dispatch
<1>6. ASSUME NEW u \in Targets, Posts(w, u) PROVE rows' = rows
  BY <1>6, PostsPost
<1> QED
  BY <1>2, <1>3, <1>4, <1>5, <1>6, CyclePosts

LEMMA NoSkipStep ==
    ASSUME FirstId = 1, BasicInv, HolderIsCurrent, DeliveryInv, [Next]_vars
    PROVE  NoSkip'
<1> USE DEF BasicInv, TypeOK
<1> SUFFICES ASSUME NEW t \in Targets PROVE Settled(t, rows[t].at)'
  BY DEF NoSkip, Settled, Handled, Deliverable
<1>1. rows[t] \in Row /\ rows[t].at \in Int /\ rows[t].at < nextId /\ BasicInv'
      /\ -1 \in Position
  BY NextBasic DEF RowInv, Row
<1>2. Settled(t, rows[t].at)
  BY DEF DeliveryInv, NoSkip, Settled, Handled
<1>3. CASE rows'[t] = ResetRow(rows[t])
  <2>1. rows'[t].at = -1
    BY <1>3 DEF ResetRow, NewRow
  <2>2. \A e \in log' : FirstId <= e.id /\ e.id \in Nat
    BY <1>1 DEF LogInv, Events
  <2> QED
    BY <2>1, <2>2 DEF Settled
<1>4. CASE Grows(t) /\ rows'[t].at = rows[t].at
  <2>1. PICK n \in Int : n = rows[t].at
    BY <1>1
  <2>2. Settled(t, n)'
    BY <1>1, <1>2, <1>4, <2>1, SettledKept
  <2> QED
    BY <1>4, <2>1, <2>2 DEF Settled
<1>5. ASSUME NEW w \in Workers, Grows(t),
             Ack(w), Acks(w, t), rows'[t] = Finish(rows[t], entry[w][t]),
             rows'[t].at # rows[t].at
      PROVE  Settled(t, rows[t].at)'
  <2> DEFINE h == entry[w][t]
  <2>1. h \in Entry /\ h.floor = rows[t].at /\ Backed(w, t) /\ Working(t, h)
    BY <1>5 DEF Acks, HolderIsCurrent, DeliveryInv, HolderInv, WorkInv
  <2>2. rows'[t].at = h.at /\ Settled(t, h.at)
    BY <1>1, <1>5, <2>1, FinishPosition DEF Backed, Working
  <2>3. h.at \in Int /\ h.at < nextId
    BY <2>1 DEF EntryInv, Carried, Entry
  <2>4. PICK n \in Int : n = h.at
    BY <2>3
  <2>5. Settled(t, n)'
    BY <1>5, <2>2, <2>3, <2>4, SettledKept
  <2> QED
    BY <2>2, <2>4, <2>5 DEF Settled
<1>6. CASE Environment
  BY <1>3, <1>4, <1>6, EnvironmentRows, NextGrows DEF DeliveryInv
<1>7. ASSUME NEW w \in Workers, Cycle(w) PROVE Settled(t, rows[t].at)'
  BY <1>3, <1>4, <1>5, <1>7, CycleRows, NextGrows DEF DeliveryInv
<1>8. CASE UNCHANGED vars
  BY <1>3, <1>4, <1>8, NextGrows DEF vars, DeliveryInv
<1> QED
  BY <1>6, <1>7, <1>8 DEF Next

-----------------------------------------------------------------------------
(* What the holder of a lease has in hand.                                 *)

\* One worker's target, seen from a step of its own cycle.
Mine(w, t) ==
    /\ BasicInv /\ Backed(w, t) /\ Grows(t) /\ Working(t, entry[w][t])
    /\ Settled(t, entry[w][t].floor)
    /\ log' = log /\ nextId' = nextId /\ FirstId = 1

\* Events of the batch, and of the log below it.
LEMMA MineFacts ==
    ASSUME NEW w \in Workers, NEW t \in Targets, Mine(w, t)
    PROVE  /\ entry[w][t] \in Entry /\ Carried(t, entry[w][t])
           /\ entry[w][t].batch \in SUBSET Events
           /\ entry[w][t].floor \in Int /\ entry[w][t].at \in Int
           /\ entry[w][t].at < nextId /\ entry[w][t].upto \in Int
           /\ \A e \in log : e.id \in Nat /\ 0 < e.id /\ e.id < nextId
BY DEF Mine, BasicInv, TypeOK, EntryInv, LogInv, Carried, Entry, Position, Events

\* If everything up to the floor is settled, and all of the batch up to id n,
\* which lies in the batch, then so is everything up to n.
LEMMA SettledThrough ==
    ASSUME NEW w \in Workers, NEW t \in Targets, Mine(w, t),
           entry[w][t].out # "leased", NEW f \in entry[w][t].batch,
           \A e \in entry[w][t].batch : Deliverable(t, e) /\ e.id <= f.id =>
                {e.id} \X Reacts[t][e.kind] \subseteq accounted'[t]
    PROVE  Settled(t, f.id)'
<1> DEFINE h == entry[w][t]
<1> SUFFICES ASSUME NEW e \in log, Deliverable(t, e), e.id <= f.id
             PROVE  {e.id} \X Reacts[t][e.kind] \subseteq accounted'[t]
  BY DEF Mine, Settled, Handled, Deliverable
<1>1. h.floor \in Int /\ e.id \in Int /\ NoHoles(t, h) /\ Grows(t) /\ Settled(t, h.floor)
  BY MineFacts DEF Mine, Backed
<1>2. CASE e.id <= h.floor
  BY <1>1, <1>2 DEF Settled, Handled, Grows
<1>3. CASE h.floor < e.id
  BY <1>1, <1>3 DEF NoHoles
<1> QED
  BY <1>1, <1>2, <1>3

\* A position already backed stays backed.
LEMMA SettledStays ==
    ASSUME NEW w \in Workers, NEW t \in Targets, Mine(w, t), NEW n \in Int,
           n = entry[w][t].at, Settled(t, n)
    PROVE  Settled(t, n)'
BY MineFacts, SettledKept DEF Mine

LEMMA FetchBacked ==
    ASSUME NEW w \in Workers, NEW t \in Targets, Mine(w, t), Fetch(w, t)
    PROVE  Backed(w, t)'
<1>1. PICK old \in Entry : old = entry[w][t]
  BY MineFacts
<1>2. old.out = "leased" /\ old.floor \in Position /\ ~old.handled /\ old.upto = old.floor
  BY <1>1 DEF Mine, BasicInv, Fetch, Entry, Working, EntryInv, Staged
<1>3. PICK S \in SUBSET Events : S = Window(t, old.floor)
  BY DEF Window, Mine, BasicInv, TypeOK
<1>4. PICK h : h = FetchEntry(old, S)
  OBVIOUS
<1>5. /\ entry'[w][t] = h /\ h.batch = S /\ h.floor = old.floor
      /\ h.out = "fetched" /\ h.handled = old.handled /\ h.upto = old.upto
  BY <1>1, <1>3, <1>4 DEF Mine, BasicInv, TypeOK, Fetch, Post, FetchEntry, Entry
<1>6. NoHoles(t, h)'
  <2>1. \A e \in S, f \in log :
            f.kind \in Fetches[t] /\ old.floor < f.id /\ f.id <= e.id => f \in S
    BY <1>2, <1>3, WindowFacts, DrainAssumption DEF Mine, BasicInv, TypeOK, LogInv
  <2> QED
    BY <1>5, <2>1 DEF NoHoles, Mine, Deliverable
<1>7. Completed(t, h)'
  <2>1. \A e \in S : e.id > old.floor /\ e.id \in Int
    BY <1>3 DEF Window, Events
  <2> QED
    BY <1>2, <1>5, <2>1 DEF Completed
<1>8. ~Running(w, t)'
  BY <1>5 DEF Running
<1> QED
  BY <1>2, <1>5, <1>6, <1>7, <1>8 DEF Backed, NoHoles, Completed

\* A dispatched target without payloads is settled up to its last fetched event.
LEMMA DispatchBacked ==
    ASSUME NEW w \in Workers, NEW t \in Targets, t \in claimed[w], Mine(w, t), Dispatch(w)
    PROVE  Backed(w, t)'
<1>1. PICK old \in Entry : old = entry[w][t]
  BY MineFacts
<1>2. /\ old.out = "fetched" /\ ~old.handled /\ old.done = {} /\ old.batch # {}
      /\ old.batch \subseteq log /\ Carried(t, old) /\ old.batch \in SUBSET Events
  BY <1>1, MineFacts DEF Mine, Dispatch, Working
<1>3. NoHoles(t, old)' /\ Completed(t, old)'
  BY <1>1, <1>2, MineFacts, NoHolesKept, CompletedKept DEF Mine, Backed
<1>4. PICK n \in Nat : n = Ceiling(w, t)
  <2>1. 0 < nextId
    BY <1>1, <1>2, MineFacts DEF Mine, Carried, Events, BasicInv, TypeOK
  <2> QED
    BY <2>1, CeilingBounds DEF Mine
<1>5. PICK h : h = entry'[w][t]
  OBVIOUS
<1>6. CASE h = EndEntry(old, "exhausted")
  <2>1. /\ h.out = "exhausted" /\ ~h.handled /\ h.batch = old.batch
        /\ h.floor = old.floor /\ h.upto = old.upto
    BY <1>2, <1>6 DEF EndEntry, Entry
  <2>2. ~Running(w, t)'
    BY <1>5, <2>1 DEF Running
  <2> QED
    BY <1>3, <1>5, <2>1, <2>2 DEF Backed, NoHoles, Completed
<1>7. CASE h = AimEntry(old, n, "run")
  <2>1. /\ h.out = "run" /\ ~h.handled /\ h.batch = old.batch /\ h.done = {}
        /\ h.floor = old.floor /\ h.upto = old.upto
    BY <1>2, <1>7 DEF AimEntry, Entry
  <2> QED
    BY <1>3, <1>5, <2>1 DEF Backed, NoHoles, Completed
<1>8. CASE h = AimEntry(old, n, "ok") /\ Payloads(t, old.batch) = {}
  <2>1. /\ h.out = "ok" /\ h.batch = old.batch /\ h.at = n
        /\ h.floor = old.floor /\ h.upto = old.upto
    BY <1>2, <1>8 DEF AimEntry, Entry
  <2>2. ~Running(w, t)'
    BY <1>5, <2>1 DEF Running
  <2>3. \A e \in old.batch : e.id < nextId
    BY <1>2 DEF Carried
  <2>4. MaxId(old.batch) \in Ids(old.batch)
    BY <1>2, <2>3, MaxIdIsLast DEF Mine, BasicInv, TypeOK
  <2>5. PICK f \in old.batch : f.id = MaxId(old.batch)
    BY <2>4 DEF Ids
  <2>6. f.id # 0
    BY <1>2, MineFacts
  <2>7. n = f.id
    BY <1>1, <1>2, <1>4, <2>5, <2>6 DEF Ceiling, LastIdOr
  <2>8. \A e \in old.batch : ~Deliverable(t, e)
    BY <1>8 DEF Payloads, Deliverable
  <2>9. Settled(t, f.id)'
    BY <1>1, <1>2, <2>8, SettledThrough
  <2> QED
    BY <1>3, <1>5, <2>1, <2>2, <2>7, <2>9 DEF Backed, NoHoles, Completed, Settled
<1> QED
  BY <1>1, <1>4, <1>5, <1>6, <1>7, <1>8 DEF Dispatch, Mine, BasicInv, TypeOK

\* A failed or deferred attempt keeps what it had completed.
LEMMA EndBacked ==
    ASSUME NEW w \in Workers, NEW t \in Targets, Mine(w, t), Running(w, t),
           NEW out \in {"defer", "block", "backoff", "retry"},
           entry'[w][t] = EndEntry(entry[w][t], out)
    PROVE  Backed(w, t)'
<1>1. PICK old \in Entry : old = entry[w][t]
  BY MineFacts
<1>2. PICK h : h = EndEntry(old, out)
  OBVIOUS
<1>3. /\ h.out = out /\ h.handled = old.handled /\ h.batch = old.batch
      /\ h.floor = old.floor /\ h.upto = old.upto /\ h.at = old.at
  BY <1>2 DEF EndEntry, Entry
<1>4. NoHoles(t, h)' /\ Completed(t, h)'
  BY <1>1, <1>3, MineFacts, NoHolesKept, CompletedKept DEF Mine, Backed, Running
<1>5. ~Running(w, t)'
  BY <1>1, <1>2, <1>3 DEF Running
<1>6. PICK n \in Int : n = old.at
  BY <1>1, MineFacts
<1>7. h.handled => Settled(t, n)'
  BY <1>1, <1>3, <1>6, SettledStays DEF Mine, Backed
<1> QED
  BY <1>1, <1>2, <1>3, <1>4, <1>5, <1>6, <1>7 DEF Backed, NoHoles, Completed, Settled

\* A close gives up everything up to the position it takes.
LEMMA CloseBacked ==
    ASSUME NEW w \in Workers, NEW t \in Targets, Mine(w, t), NEW n, AskClose(w, t, n)
    PROVE  Backed(w, t)'
<1>1. PICK old \in Entry : old = entry[w][t]
  BY MineFacts
<1>2. PICK h : h = CloseEntry(old, n)
  OBVIOUS
<1>3. /\ h.out = "close" /\ h.batch = old.batch /\ h.floor = old.floor
      /\ h.upto = old.upto /\ h.at = n /\ entry'[w][t] = h
  BY <1>1, <1>2 DEF CloseEntry, Entry, AskClose, Post, Mine, BasicInv, TypeOK
<1>4. NoHoles(t, h)' /\ Completed(t, h)'
  BY <1>1, <1>3, MineFacts, NoHolesKept, CompletedKept DEF Mine, Backed, AskClose, Running
<1>5. ~Running(w, t)'
  BY <1>3 DEF Running
<1>6. \A e \in log : e.id <= n => {e.id} \X Reacts[t][e.kind] \subseteq accounted'[t]
  BY DEF AskClose, Mine, BasicInv, TypeOK
<1>7. Settled(t, n)'
  BY <1>6 DEF Settled, Handled, Mine
<1> QED
  BY <1>3, <1>4, <1>5, <1>7 DEF Backed, NoHoles, Completed, Settled

\* A batch handler settles the target through the last payload.
LEMMA BatchBacked ==
    ASSUME NEW w \in Workers, NEW t \in Targets, Mine(w, t), ReactBatch(w, t)
    PROVE  Backed(w, t)'
<1>1. PICK old \in Entry : old = entry[w][t]
  BY MineFacts
<1>2. /\ old.out = "run" /\ Payloads(t, old.batch) # {} /\ Payloads(t, old.batch) \in SUBSET Events
      /\ \A e \in Payloads(t, old.batch) : e.id < nextId
  BY <1>1, RunFacts DEF ReactBatch, Mine, Payloads, Carried
<1>3. PICK f \in Payloads(t, old.batch) : f.id = MaxId(Payloads(t, old.batch))
  BY <1>2, MaxIdIsLast DEF Mine, BasicInv, TypeOK, Ids
<1>4. PICK h : h = PassEntry(old, f.id, "ok")
  OBVIOUS
<1>5. /\ h.out = "ok" /\ h.batch = old.batch /\ h.floor = old.floor
      /\ h.upto = f.id /\ h.at = f.id /\ h.done = {} /\ entry'[w][t] = h
  BY <1>1, <1>3, <1>4 DEF PassEntry, Entry, ReactBatch, Post, Mine, BasicInv, TypeOK
<1>6. \A e \in old.batch : Deliverable(t, e) =>
          {e.id} \X Reacts[t][e.kind] \subseteq accounted'[t]
  BY <1>1 DEF ReactBatch, Payloads, Deliverable, Mine, BasicInv, TypeOK
<1>7. NoHoles(t, h)'
  BY <1>1, <1>2, <1>5, MineFacts, NoHolesKept DEF Mine, Backed
<1>8. Completed(t, h)'
  BY <1>5, <1>6 DEF Completed, Handled, Deliverable
<1>9. f \in old.batch
  BY <1>3 DEF Payloads
<1>10. Settled(t, f.id)'
  BY <1>1, <1>2, <1>6, <1>9, SettledThrough
<1>11. ~Running(w, t)'
  BY <1>5 DEF Running
<1> QED
  BY <1>5, <1>7, <1>8, <1>10, <1>11 DEF Backed, NoHoles, Completed, Settled

\* A reaction that returns settles its event once it is the last of the event.
LEMMA ReactBacked ==
    ASSUME NEW w \in Workers, NEW t \in Targets, Mine(w, t),
           NEW r \in Reactions, React(w, t, r)
    PROVE  Backed(w, t)'
<1>1. PICK old \in Entry : old = entry[w][t]
  BY MineFacts
<1>2. PICK e \in old.batch : e = Current(w, t)
  BY <1>1, RunFacts DEF React, Mine
<1>3. /\ old.out = "run" /\ e.id \in Nat /\ e.id > old.upto /\ e \in Payloads(t, old.batch)
      /\ \A f \in Payloads(t, old.batch) : f.id > old.upto => e.id <= f.id
  BY <1>1, <1>2, RunFacts DEF React, Mine, Remaining
<1>4. PICK ran : ran = old.done \union {r}
  OBVIOUS
<1>5. {e.id} \X ran \subseteq accounted'[t]
  <2>1. {e.id} \X old.done \subseteq accounted[t]
    BY <1>1, <1>2 DEF React, Mine, Backed
  <2>2. accounted'[t] = accounted[t] \union {<<e.id, r>>}
    BY <1>2 DEF React, Mine, BasicInv, TypeOK
  <2> QED
    BY <1>4, <2>1, <2>2
<1>6. PICK h : h = entry'[w][t]
  OBVIOUS
<1>7. CASE ran = Reacts[t][e.kind] /\ \E out \in {"ok", "run"} : h = PassEntry(old, e.id, out)
  <2>1. /\ h.out \in {"ok", "run"} /\ h.batch = old.batch /\ h.floor = old.floor
        /\ h.upto = e.id /\ h.at = e.id /\ h.done = {}
    BY <1>7 DEF PassEntry, Entry
  <2>2. ASSUME NEW f \in old.batch, Deliverable(t, f), f.id <= e.id
        PROVE  {f.id} \X Reacts[t][f.kind] \subseteq accounted'[t]
    <3>1. CASE f.id <= old.upto
      BY <1>1, <2>2, <3>1 DEF Mine, Backed, Completed, Handled, Grows
    <3>2. CASE f.id > old.upto
      <4>1. f \in Payloads(t, old.batch) /\ f.id \in Int
        BY <1>1, <2>2, MineFacts DEF Payloads, Deliverable, Events
      <4>2. f.id = e.id
        BY <1>3, <2>2, <3>2, <4>1
      <4>3. f = e
        BY <1>1, <4>2, MineFacts DEF Carried
      <4> QED
        BY <1>5, <1>7, <4>3
    <3>3. f.id \in Int /\ old.upto \in Int
      BY <1>1, MineFacts DEF Events
    <3> QED
      BY <3>1, <3>2, <3>3
  <2>3. Settled(t, e.id)'
    BY <1>1, <1>3, <2>2, SettledThrough
  <2>4. NoHoles(t, h)'
    BY <1>1, <1>3, <2>1, MineFacts, NoHolesKept DEF Mine, Backed
  <2>5. Completed(t, h)'
    BY <2>1, <2>2 DEF Completed, Handled, Deliverable
  <2> QED
    BY <1>6, <2>1, <2>3, <2>4, <2>5 DEF Backed, NoHoles, Completed, Settled
<1>8. CASE h = RunEntry(old, ran)
  <2>1. /\ h.out = "run" /\ h.batch = old.batch /\ h.floor = old.floor /\ h.upto = old.upto
        /\ h.at = old.at /\ h.handled = old.handled /\ h.done = ran
    BY <1>3, <1>8 DEF RunEntry, Entry
  <2>2. NoHoles(t, h)' /\ Completed(t, h)'
    BY <1>1, <1>3, <2>1, MineFacts, NoHolesKept, CompletedKept DEF Mine, Backed
  <2>3. Remaining(w, t)' = Remaining(w, t)
    BY <1>1, <1>6, <2>1 DEF Remaining
  <2>4. Current(w, t)' = e
    BY <1>2, <2>3 DEF Current
  <2>5. PICK n \in Int : n = old.at
    BY <1>1, MineFacts
  <2>6. h.handled => Settled(t, n)'
    BY <1>1, <2>1, <2>5, SettledStays DEF Mine, Backed
  <2> QED
    BY <1>5, <1>6, <2>1, <2>2, <2>4, <2>5, <2>6 DEF Backed, NoHoles, Completed, Settled
<1> QED
  BY <1>1, <1>2, <1>4, <1>6, <1>7, <1>8 DEF React, Completes, Post, Mine, BasicInv, TypeOK

LEMMA HolderInvStep ==
    ASSUME FirstId = 1, ErrorsSpeak, BasicInv, HolderIsCurrent, DeliveryInv, [Next]_vars
    PROVE  HolderInv'
<1> USE DEF BasicInv, TypeOK
<1> SUFFICES ASSUME NEW v \in Workers, NEW t \in Targets, t \in claimed'[v], rows'[t].by = v
             PROVE  Backed(v, t)'
  BY DEF HolderInv, Holds
<1>1. /\ rows[t] \in Row /\ v # NoHolder /\ log \subseteq log'
      /\ rows'[t] # ResetRow(rows[t])
  BY NextGrows, NoHolderAssumption, DrainAssumption DEF DeliveryInv, ResetRow, NewRow
<1>2. Grows(t)
  BY <1>1, NextGrows DEF DeliveryInv
<1>3. CASE /\ entry'[v] = entry[v] /\ phase'[v] \in {phase[v], "ack"}
           /\ claimed'[v] = claimed[v] /\ rows[t].by = v
  <2>1. Backed(v, t)
    BY <1>3 DEF DeliveryInv, HolderInv, Holds
  <2> QED
    BY <1>2, <1>3, <2>1, BackedKept
<1>4. CASE Environment
  <2>1. rows[t].by = v
    BY <1>1, <1>4, EnvironmentRows
  <2> QED
    BY <1>3, <1>4, <2>1, CycleSurvives
<1>5. ASSUME NEW w \in Workers, Cycle(w), w # v PROVE Backed(v, t)'
  <2>1. rows[t].by = v
    BY <1>1, <1>5, CycleRows
  <2> QED
    BY <1>3, <1>5, <2>1, OthersUntouched
<1>6. CASE Claim(v)
  <2>1. phase'[v] = "fetch" /\ \E row : entry'[v][t] = GrantEntry(row)
    BY <1>6, ClaimTakes DEF Claim
  <2>2. /\ entry'[v][t].out = "leased" /\ entry'[v][t].batch = {}
        /\ ~entry'[v][t].handled /\ ~Running(v, t)'
    BY <2>1 DEF GrantEntry, Running
  <2> QED
    BY <2>2 DEF Backed, Completed
<1>7. CASE Block(v)
  <2>1. rows'[t].by = rows[t].by
    <3>1. rows'[t] \in {rows[t], BlockRow(rows[t])}
      BY <1>7 DEF Block
    <3> QED
      BY <1>1, <3>1 DEF BlockRow, Row
  <2> QED
    BY <1>3, <1>7, <2>1 DEF Block
<1>8. CASE Ack(v)
  BY <1>8 DEF Ack
<1>9. ASSUME UNCHANGED <<log, nextId, rows, claimed>>
      PROVE  Mine(v, t) /\ t \in claimed[v]
  <2>1. t \in claimed[v] /\ Holds(rows[t], v)
    BY <1>9 DEF Holds
  <2>2. entry[v][t].floor = rows[t].at /\ Backed(v, t) /\ Working(t, entry[v][t])
    BY <2>1 DEF HolderIsCurrent, DeliveryInv, HolderInv, WorkInv
  <2>3. Settled(t, entry[v][t].floor)
    BY <2>2 DEF DeliveryInv, NoSkip, Settled, Handled
  <2> QED
    BY <1>2, <1>9, <2>1, <2>2, <2>3 DEF Mine
<1>10. CASE Dispatch(v)
  BY <1>9, <1>10, DispatchBacked DEF Dispatch
<1>11. ASSUME NEW u \in Targets, Posts(v, u), u # t PROVE Backed(v, t)'
  <2>1. entry'[v][t] = entry[v][t] /\ UNCHANGED <<rows, phase, claimed>>
    BY <1>11, PostsPost DEF Post
  <2>2. Backed(v, t)
    BY <2>1 DEF DeliveryInv, HolderInv, Holds
  <2> QED
    BY <1>2, <2>1, <2>2, BackedKept
<1>12. CASE Posts(v, t)
  <2>1. Mine(v, t)
    BY <1>9, <1>12, PostsPost
  <2>2. CASE Fetch(v, t)
    BY <2>1, <2>2, FetchBacked
  <2>3. CASE ReactBatch(v, t)
    BY <2>1, <2>3, BatchBacked
  <2>4. CASE AskDefer(v, t)
    BY <2>1, <2>4, EndBacked DEF AskDefer, Post
  <2>5. ASSUME NEW r \in Reactions, React(v, t, r) PROVE Backed(v, t)'
    BY <2>1, <2>5, ReactBacked
  <2>6. ASSUME NEW how \in Throws, Throw(v, t, how) PROVE Backed(v, t)'
    <3>1. PICK out \in {"block", "backoff", "retry"} :
              out = Verdict(t, entry[v][t].retry, how)
      BY DEF Verdict, ErrorsSpeak
    <3>2. Running(v, t) /\ entry'[v][t] = EndEntry(entry[v][t], out)
      BY <2>6, <3>1 DEF Throw, Post
    <3> QED
      BY <2>1, <3>2, EndBacked
  <2>7. ASSUME NEW n, AskClose(v, t, n) PROVE Backed(v, t)'
    BY <2>1, <2>7, CloseBacked
  <2> QED
    BY <1>12, <2>2, <2>3, <2>4, <2>5, <2>6, <2>7 DEF Posts
<1>13. CASE UNCHANGED vars
  BY <1>3, <1>13 DEF vars
<1>14. CASE Cycle(v)
  BY <1>6, <1>7, <1>8, <1>10, <1>11, <1>12, <1>14, CyclePosts
<1> QED
  BY <1>4, <1>5, <1>13, <1>14 DEF Next

-----------------------------------------------------------------------------
\* Watermarks, leases, marks, batches and what is done with them keep together.
LEMMA DeliveryInductive ==
    ASSUME FirstId = 1, ErrorsSpeak, Budget["truncate"] = 0
    PROVE  Spec => []DeliveryInv
<1>1. Init => DeliveryInv
  BY DEF Init, DeliveryInv, NoSkip, HolderIsCurrent, MarkInv, WorkInv, HolderInv,
     NewRow, Holds
<1>2. BasicInv /\ HolderIsCurrent /\ DeliveryInv /\ [Next]_vars => DeliveryInv'
  <2> SUFFICES ASSUME BasicInv, HolderIsCurrent, DeliveryInv, [Next]_vars
               PROVE  DeliveryInv'
    OBVIOUS
  <2>1. left'["truncate"] = 0
    BY NextGrows DEF DeliveryInv
  <2>2. MarkInv' /\ WorkInv'
    BY MarkStep, WorkStep DEF DeliveryInv
  <2> QED
    BY <2>1, <2>2, NoSkipStep, HolderStep, HolderInvStep DEF DeliveryInv
<1> QED
  BY <1>1, <1>2, BasicCorrect, HolderCorrect, PTL DEF Spec

\* At-least-once (run_drain_cycle, finalize, ack): when ids start at 1, as the
\* SQL stores number them, errors carry a message, and nothing is ever removed
\* from the log, no watermark is past an event while one of the target's reactions
\* to it has not run since the last rewind; for any workers, targets, resolvers,
\* leases lost, crashes, failures, defers, closes and operator interventions.
THEOREM DeliveryCorrect ==
    ASSUME FirstId = 1, ErrorsSpeak, Budget["truncate"] = 0
    PROVE  Spec => []NoSkip
<1>1. DeliveryInv => NoSkip
  BY DEF DeliveryInv
<1> QED
  BY <1>1, DeliveryInductive, PTL

-----------------------------------------------------------------------------
(* The refinement: the drain implements Delivery.                          *)

\* What each operation does to the row's block.
LEMMA RowBlocks ==
    ASSUME NEW row \in Row, NEW at \in Position, NEW retry \in Position, NEW by
    PROVE  /\ BlockRow(row).blocked /\ ~UnblockRow(row).blocked /\ ~ResetRow(row).blocked
           /\ DeferRow(row).blocked = row.blocked /\ MarkRow(row, at).blocked = row.blocked
           /\ LeaseRow(row, by).blocked = row.blocked
           /\ AckRow(row, at).blocked = row.blocked
           /\ DueRow(row, at, retry).blocked = row.blocked
<1>1. BlockRow(row).blocked /\ ~UnblockRow(row).blocked /\ ~ResetRow(row).blocked
  BY DEF BlockRow, UnblockRow, ResetRow, NewRow, Row
<1>2. DeferRow(row).blocked = row.blocked /\ MarkRow(row, at).blocked = row.blocked
  BY DEF DeferRow, MarkRow, Row
<1>3. LeaseRow(row, by).blocked = row.blocked
  BY DEF LeaseRow, Row
<1>4. AckRow(row, at).blocked = row.blocked
  BY DEF AckRow, Row
<1>5. DueRow(row, at, retry).blocked = row.blocked
  BY DEF DueRow, Row
<1> QED
  BY <1>1, <1>2, <1>3, <1>4, <1>5

\* An ack neither lifts a block nor sets one.
LEMMA FinishBlocks ==
    ASSUME NEW row \in Row, NEW h \in Entry
    PROVE  Finish(row, h).blocked = row.blocked
<1>1. h.at \in Position /\ h.retry \in Position /\ -1 \in Position /\ Advance(h) \in Position
  BY DEF Entry, Advance
<1>2. Finish(row, h) \in {DueRow(row, Advance(h), -1), DueRow(row, Advance(h), h.retry),
                          AckRow(row, h.at), row}
  BY DEF Finish
<1>3. AckRow(row, h.at).blocked = row.blocked
  BY <1>1, RowBlocks
<1>4. \A retry \in {-1, h.retry} : DueRow(row, Advance(h), retry).blocked = row.blocked
  BY <1>1, RowBlocks
<1> QED
  BY <1>2, <1>3, <1>4

\* A step that neither moves nor blocks a row, and adds nothing to the history,
\* is a stutter of the promise.
LEMMA PromiseStutters ==
    ASSUME UNCHANGED <<log, nextId, accounted>>,
           \A t \in Targets : rows'[t].at = rows[t].at /\ rows'[t].blocked = rows[t].blocked
    PROVE  UNCHANGED Promise!vars
BY DEF Promise!vars

\* Reactions add what they ran on to the account of their target alone.
LEMMA PromiseHandles ==
    ASSUME BasicInv, UNCHANGED <<log, nextId, rows>>, NEW t \in Targets,
           NEW new \in SUBSET ((FirstId .. nextId - 1) \X Reactions),
           accounted' = [accounted EXCEPT ![t] = @ \union new]
    PROVE  Promise!Handle(t)
<1>1. accounted'[t] = accounted[t] \union new
      /\ \A u \in Targets \ {t} : accounted'[u] = accounted[u]
  BY DEF BasicInv, TypeOK
<1> QED
  BY <1>1 DEF Promise!Handle

\* Outside the cycles: events are published, targets rewound and released.
LEMMA PromiseEnvironment ==
    ASSUME BasicInv, left["truncate"] = 0, Environment
    PROVE  Promise!Next \/ UNCHANGED Promise!vars
<1> USE DEF BasicInv, TypeOK
<1>1. \A t \in Targets : rows[t] \in Row /\ -1 \in Position
  OBVIOUS
<1>2. ASSUME NEW k \in Kinds, Commit(k) PROVE Promise!Next
  <2>1. Promise!Publish(k)
    BY <1>2 DEF Commit, Promise!Publish
  <2> QED
    BY <2>1 DEF Promise!Next
<1>3. ASSUME NEW n \in scanned + 1 .. nextId - 1, Correlate(n)
      PROVE  UNCHANGED Promise!vars
  <2>1. ASSUME NEW t \in Targets
        PROVE  rows'[t].at = rows[t].at /\ rows'[t].blocked = rows[t].blocked
    <3> DEFINE found == {e \in log : Deliverable(t, e) /\ e.id > scanned /\ e.id <= n}
    <3>1. rows'[t] = IF found = {} THEN rows[t] ELSE MarkRow(rows[t], MaxId(found))
      BY <1>3 DEF Correlate
    <3>2. MarkRow(rows[t], MaxId(found)).at = rows[t].at
          /\ MarkRow(rows[t], MaxId(found)).blocked = rows[t].blocked
      BY <1>1 DEF MarkRow, Row
    <3> QED
      BY <3>1, <3>2
  <2> QED
    BY <1>3, <2>1, PromiseStutters DEF Correlate
<1>4. ASSUME NEW t \in Targets, Overrun(t) \/ Lapse(t) \/ Due(t)
      PROVE  UNCHANGED Promise!vars
  <2>1. PICK row \in {[rows[t] EXCEPT !.live = FALSE], [rows[t] EXCEPT !.deferred = FALSE]} :
            rows' = [rows EXCEPT ![t] = row]
    BY <1>4 DEF Overrun, Lapse, Due
  <2>2. row.at = rows[t].at /\ row.blocked = rows[t].blocked
    BY <1>1, <2>1 DEF Row
  <2>3. UNCHANGED <<log, nextId, accounted>>
    BY <1>4 DEF Overrun, Lapse, Due
  <2> QED
    BY <2>1, <2>2, <2>3, PromiseStutters
<1>5. ASSUME NEW S \in SUBSET Targets, Reset(S) PROVE Promise!Next
  <2>1. \A t \in Targets : ResetRow(rows[t]).at = -1 /\ ResetRow(rows[t]).blocked = FALSE
    BY DEF ResetRow, NewRow
  <2>2. \A t \in Targets : rows'[t] = IF t \in S THEN ResetRow(rows[t]) ELSE rows[t]
    BY <1>5 DEF Reset
  <2>3. \A t \in Targets : rows[t].blocked \in BOOLEAN
    BY DEF Row
  <2>4. \A t \in Targets : /\ rows'[t].at = IF t \in S THEN -1 ELSE rows[t].at
                           /\ rows'[t].blocked = (t \notin S /\ rows[t].blocked)
    <3>1. \A t \in S : rows'[t].at = -1 /\ rows'[t].blocked = FALSE
      BY <2>1, <2>2
    <3>2. \A t \in Targets \ S : rows'[t] = rows[t]
      BY <2>2
    <3> QED
      BY <2>3, <3>1, <3>2
  <2>5. Promise!Rewind(S)
    BY <1>5, <2>4 DEF Reset, Promise!Rewind
  <2> QED
    BY <2>5 DEF Promise!Next
<1>6. ASSUME NEW S \in SUBSET Targets, Unblock(S) PROVE Promise!Next
  <2>1. PICK hit \in SUBSET Targets :
            rows' = [t \in Targets |-> IF t \in hit THEN UnblockRow(rows[t]) ELSE rows[t]]
    BY <1>6 DEF Unblock
  <2>2. \A t \in Targets : UnblockRow(rows[t]).at = rows[t].at /\ UnblockRow(rows[t]).blocked = FALSE
    BY DEF UnblockRow, NewRow
  <2>3. \A t \in Targets : rows[t].blocked \in BOOLEAN
    BY DEF Row
  <2>4. \A t \in Targets : /\ rows'[t].at = rows[t].at
                           /\ rows'[t].blocked = (t \notin hit /\ rows[t].blocked)
    <3>1. \A t \in hit : rows'[t].at = rows[t].at /\ rows'[t].blocked = FALSE
      BY <2>1, <2>2
    <3>2. \A t \in Targets \ hit : rows'[t] = rows[t]
      BY <2>1
    <3> QED
      BY <2>3, <3>1, <3>2
  <2>5. Promise!Release(hit)
    BY <1>6, <2>4 DEF Unblock, Promise!Release
  <2> QED
    BY <2>5 DEF Promise!Next
<1>7. ASSUME NEW S \in SUBSET Targets, Defer(S) PROVE UNCHANGED Promise!vars
  <2>1. \A t \in Targets : rows'[t] \in {rows[t], DeferRow(rows[t])}
    BY <1>7 DEF Defer
  <2>2. \A t \in Targets : DeferRow(rows[t]).at = rows[t].at
                           /\ DeferRow(rows[t]).blocked = rows[t].blocked
    BY <1>1 DEF DeferRow, Row
  <2>3. UNCHANGED <<log, nextId, accounted>>
    BY <1>7 DEF Defer
  <2> QED
    BY <2>1, <2>2, <2>3, PromiseStutters
<1>8. ASSUME NEW w \in Workers, Crash(w) PROVE UNCHANGED Promise!vars
  BY <1>8, PromiseStutters DEF Crash
<1>9. ASSUME NEW k, NEW n, Truncate(k, n) PROVE FALSE
  BY <1>9 DEF Truncate, Charge
<1> QED
  BY <1>2, <1>3, <1>4, <1>5, <1>6, <1>7, <1>8, <1>9 DEF Environment

\* Inside a cycle: reactions run, rows are blocked, watermarks advance.
LEMMA PromiseCycle ==
    ASSUME FirstId = 1, BasicInv, HolderIsCurrent, DeliveryInv, NoSkip',
           NEW w \in Workers, Cycle(w)
    PROVE  Promise!Next \/ UNCHANGED Promise!vars
<1> USE DEF BasicInv, TypeOK
<1>1. \A t \in Targets : rows[t] \in Row /\ -1 \in Position
  OBVIOUS
<1>2. \A t \in Targets, r \in Reactions, e \in log :
          <<e.id, r>> \in (FirstId .. nextId - 1) \X Reactions
  BY DrainAssumption DEF LogInv, Events
<1>3. \A e \in log, t \in Targets : e.kind \in Kinds /\ Reacts[t][e.kind] \in SUBSET Reactions
  BY DrainAssumption DEF Events
<1>4. \A t \in Targets : Running(w, t) =>
          /\ entry[w][t].batch \subseteq log
          /\ Current(w, t) \in log
  BY RunFacts DEF Running, DeliveryInv, WorkInv, Working
<1>5. CASE Claim(w)
  <2>1. \A t \in Targets : rows'[t] \in {rows[t], LeaseRow(rows[t], w)}
    BY <1>5 DEF Claim
  <2>2. \A t \in Targets : LeaseRow(rows[t], w).at = rows[t].at
                           /\ LeaseRow(rows[t], w).blocked = rows[t].blocked
    BY <1>1 DEF LeaseRow, Row
  <2>3. UNCHANGED <<log, nextId, accounted>>
    BY <1>5 DEF Claim
  <2> QED
    BY <2>1, <2>2, <2>3, PromiseStutters
<1>6. CASE Dispatch(w)
  BY <1>6, PromiseStutters DEF Dispatch
<1>7. CASE Block(w)
  <2>1. \A t \in Targets : rows'[t] \in {rows[t], BlockRow(rows[t])}
    BY <1>7 DEF Block
  <2>2. \A t \in Targets : BlockRow(rows[t]).at = rows[t].at /\ BlockRow(rows[t]).blocked
    BY <1>1 DEF BlockRow, Row
  <2>3. UNCHANGED <<log, nextId, accounted>>
    BY <1>7 DEF Block
  <2>4. Promise!Block
    BY <2>1, <2>2, <2>3 DEF Promise!Block
  <2> QED
    BY <2>4 DEF Promise!Next
<1>8. CASE Ack(w)
  <2>1. UNCHANGED <<log, nextId, accounted>>
    BY <1>8 DEF Ack
  <2>2. ASSUME NEW t \in Targets PROVE rows'[t].blocked = rows[t].blocked
    BY <1>1, <1>8, FinishBlocks DEF Ack
  <2>3. ASSUME NEW t \in Targets, rows'[t].at # rows[t].at
        PROVE  rows'[t].at > rows[t].at /\ Settled(t, rows[t].at)'
    <3>1. Acks(w, t) /\ rows'[t] = Finish(rows[t], entry[w][t])
      BY <1>8, <2>3 DEF Ack
    <3>2. /\ entry[w][t] \in Entry /\ entry[w][t].floor = rows[t].at
          /\ entry[w][t].floor <= entry[w][t].at
      BY <3>1 DEF HolderIsCurrent, Acks, EntryInv, Carried
    <3>3. rows'[t].at = entry[w][t].at
      <4>1. Finish(rows[t], entry[w][t]).at \in {rows[t].at, entry[w][t].floor, entry[w][t].at}
        BY <1>1, <3>2, FinishTypes
      <4> QED
        BY <2>3, <3>1, <3>2, <4>1
    <3>4. rows'[t].at > rows[t].at
      <4>1. rows[t].at \in Int /\ entry[w][t].at \in Int
        BY <1>1, <3>2 DEF Entry, Row
      <4>2. rows[t].at <= entry[w][t].at
        BY <3>2
      <4>3. PICK new \in Int, old \in Int : new = rows'[t].at /\ old = rows[t].at
        BY <3>3, <4>1
      <4>4. old <= new /\ old # new
        BY <2>3, <3>3, <4>2, <4>3
      <4>5. new > old
        BY <4>4
      <4> QED
        BY <4>3, <4>5
    <3>5. Settled(t, rows[t].at)'
      BY DEF NoSkip, Settled, Handled, Deliverable
    <3> QED
      BY <3>4, <3>5
  <2>4. \A t \in Targets : Settled(t, rows[t].at)' => Promise!Settled(t, rows'[t].at)
    BY <2>1 DEF Settled, Handled, Deliverable, Promise!Settled, Promise!Deliverable
  <2>5. Promise!Advance
    BY <2>1, <2>2, <2>3, <2>4 DEF Promise!Advance
  <2> QED
    BY <2>5 DEF Promise!Next
<1>9. ASSUME NEW t \in Targets, Posts(w, t)
      PROVE  Promise!Next \/ UNCHANGED Promise!vars
  <2>1. UNCHANGED <<log, nextId, rows>>
    BY <1>9, PostsPost
  <2>2. ASSUME NEW new \in SUBSET ((FirstId .. nextId - 1) \X Reactions),
               accounted' = [accounted EXCEPT ![t] = @ \union new]
        PROVE  Promise!Next
    BY <2>1, <2>2, PromiseHandles DEF Promise!Next
  <2>3. ASSUME UNCHANGED accounted PROVE UNCHANGED Promise!vars
    BY <2>1, <2>3, PromiseStutters
  <2>4. CASE Fetch(w, t) \/ AskDefer(w, t)
    BY <2>3, <2>4 DEF Fetch, AskDefer
  <2>5. ASSUME NEW how, Throw(w, t, how) PROVE UNCHANGED Promise!vars
    BY <2>3, <2>5 DEF Throw
  <2>6. ASSUME NEW r \in Reactions, React(w, t, r) PROVE Promise!Next
    <3>1. Current(w, t) \in log
      BY <1>4, <2>6 DEF React
    <3>2. \A e \in log : {<<e.id, r>>} \in SUBSET ((FirstId .. nextId - 1) \X Reactions)
      BY <1>2
    <3>3. accounted' = [accounted EXCEPT ![t] = @ \union {<<Current(w, t).id, r>>}]
      BY <2>6 DEF React
    <3>4. {<<Current(w, t).id, r>>} \in SUBSET ((FirstId .. nextId - 1) \X Reactions)
      BY <3>1, <3>2
    <3> QED
      BY <2>2, <3>3, <3>4
  <2>7. CASE ReactBatch(w, t)
    <3> DEFINE batch == Payloads(t, entry[w][t].batch)
               new == UNION {{e.id} \X Reacts[t][e.kind] : e \in batch}
    <3>1. batch \subseteq log
      BY <1>4, <2>7 DEF ReactBatch, Payloads
    <3>2. new \in SUBSET ((FirstId .. nextId - 1) \X Reactions)
      BY <1>2, <1>3, <3>1
    <3>3. accounted' = [accounted EXCEPT ![t] = @ \union new]
      BY <2>7 DEF ReactBatch
    <3> HIDE DEF new
    <3> QED
      BY <2>2, <3>2, <3>3
  <2>8. ASSUME NEW n, AskClose(w, t, n) PROVE Promise!Next
    <3> DEFINE new == UNION {{e.id} \X Reacts[t][e.kind] : e \in {f \in log : f.id <= n}}
    <3>1. new \in SUBSET ((FirstId .. nextId - 1) \X Reactions)
      BY <1>2, <1>3
    <3>2. accounted' = [accounted EXCEPT ![t] = @ \union new]
      BY <2>8 DEF AskClose
    <3> HIDE DEF new
    <3> QED
      BY <2>2, <3>1, <3>2
  <2> QED
    BY <1>9, <2>4, <2>5, <2>6, <2>7, <2>8 DEF Posts
<1> QED
  BY <1>5, <1>6, <1>7, <1>8, <1>9, CyclePosts

\* The drain implements Delivery, under the assumptions of DeliveryCorrect: every
\* step of a cycle, a clock, a crash or an operator is a step of the promise or a
\* stutter of it, so that leases, retries, blocks and late finishes show outside
\* as watermarks that advance over settled events, targets that stop, and
\* reactions that may run again (run_drain_cycle, InMemoryStore).
THEOREM PromiseKept ==
    ASSUME FirstId = 1, ErrorsSpeak, Budget["truncate"] = 0
    PROVE  Spec => KeepsPromise
<1>1. Init => Promise!Init
  BY DEF Init, NewRow, Promise!Init
<1>2. BasicInv /\ HolderIsCurrent /\ DeliveryInv /\ NoSkip' /\ [Next]_vars =>
          [Promise!Next]_(Promise!vars)
  <2> SUFFICES ASSUME BasicInv, HolderIsCurrent, DeliveryInv, NoSkip', [Next]_vars
               PROVE  Promise!Next \/ UNCHANGED Promise!vars
    OBVIOUS
  <2>1. CASE Environment
    BY <2>1, PromiseEnvironment DEF DeliveryInv
  <2>2. ASSUME NEW w \in Workers, Cycle(w) PROVE Promise!Next \/ UNCHANGED Promise!vars
    BY <2>2, PromiseCycle
  <2>3. CASE UNCHANGED vars
    BY <2>3, PromiseStutters DEF vars
  <2> QED
    BY <2>1, <2>2, <2>3 DEF Next
<1> QED
  BY <1>1, <1>2, DeliveryCorrect, DeliveryInductive, BasicCorrect, HolderCorrect, PTL
  DEF Spec, KeepsPromise, Promise!Spec

-----------------------------------------------------------------------------
(* Attempts.                                                               *)

\* What a charge leaves of the budgets.
LEMMA ChargeSpends ==
    ASSUME left \in [Charges -> Nat], LeftInv, NEW c \in Charges, Charge(c)
    PROVE  /\ \A d \in Charges : left'[d] <= left[d]
           /\ left'[c] # Budget[c]
<1>1. left[c] \in Nat /\ left[c] <= Budget[c] /\ Budget[c] \in Nat
  BY DrainAssumption DEF LeftInv
<1>2. left'[c] = left[c] - 1 /\ \A d \in Charges \ {c} : left'[d] = left[d]
  BY DEF Charge
<1>3. left[c] - 1 <= left[c] /\ left[c] - 1 # Budget[c]
  BY <1>1
<1>4. \A d \in Charges : left[d] <= left[d]
  OBVIOUS
<1> QED
  BY <1>2, <1>3, <1>4

\* No step gives a budget back; what an operator, an overrun lease or a crash
\* does is charged.
LEMMA NextSpends ==
    ASSUME BasicInv, LeftInv, [Next]_vars
    PROVE  /\ LeftInv'
           /\ \A c \in Charges : left'[c] = Budget[c] => left[c] = Budget[c]
           /\ (\E S \in SUBSET Targets : Reset(S) \/ Unblock(S) \/ Defer(S)) =>
                 left'["operator"] # Budget["operator"]
           /\ (\E t \in Targets : Overrun(t)) => left'["overrun"] # Budget["overrun"]
           /\ (\E w \in Workers : Crash(w)) => left'["crash"] # Budget["crash"]
<1> USE DEF BasicInv, TypeOK
<1>1. (\E S \in SUBSET Targets : Reset(S) \/ Unblock(S) \/ Defer(S)) =>
          left'["operator"] # Budget["operator"]
  BY ChargeSpends DEF Reset, Unblock, Defer, Charges
<1>2. (\E t \in Targets : Overrun(t)) => left'["overrun"] # Budget["overrun"]
  BY ChargeSpends DEF Overrun, Charges
<1>3. (\E w \in Workers : Crash(w)) => left'["crash"] # Budget["crash"]
  BY ChargeSpends DEF Crash, Charges
<1>4. UNCHANGED left \/ \E c \in Charges : Charge(c)
  <2>1. CASE Environment
    BY <2>1 DEF Environment, Commit, Correlate, Overrun, Lapse, Due, Reset, Unblock,
       Defer, Crash, Truncate, Charges
  <2>2. ASSUME NEW w \in Workers, Cycle(w) PROVE UNCHANGED left \/ \E c \in Charges : Charge(c)
    BY <2>2 DEF Cycle, Claim, Dispatch, Block, Ack, Fetch, ReactBatch, AskDefer, React,
       Throw, AskClose, Charges
  <2> QED
    BY <2>1, <2>2 DEF Next, vars
<1>5. left' \in [Charges -> Nat] /\ \A c \in Charges : left'[c] <= left[c]
  <2>1. \A c \in Charges : left[c] <= left[c]
    OBVIOUS
  <2>2. ASSUME UNCHANGED left
        PROVE  left' \in [Charges -> Nat] /\ \A c \in Charges : left'[c] <= left[c]
    BY <2>1, <2>2
  <2>3. ASSUME NEW c \in Charges, Charge(c)
        PROVE  left' \in [Charges -> Nat] /\ \A d \in Charges : left'[d] <= left[d]
    BY <2>3, ChargeSpends, ChargeType
  <2> QED
    BY <1>4, <2>2, <2>3
<1>6. \A c \in Charges : left'[c] \in Nat /\ left[c] \in Nat /\ Budget[c] \in Nat
                         /\ left[c] <= Budget[c] /\ left'[c] <= left[c]
  BY <1>5, DrainAssumption DEF LeftInv
<1>7. LeftInv'
  BY <1>6 DEF LeftInv
<1>8. ASSUME NEW c \in Charges, left'[c] = Budget[c] PROVE left[c] = Budget[c]
  <2>1. PICK now \in Nat, next \in Nat : now = left[c] /\ next = left'[c]
    BY <1>6
  <2>2. now <= next /\ next <= now
    BY <1>6, <1>8, <2>1
  <2>3. now = next
    BY <2>2
  <2> QED
    BY <1>8, <2>1, <2>3
<1> QED
  BY <1>1, <1>2, <1>3, <1>7, <1>8

\* What each operation does to the retry count.
LEMMA RowRetries ==
    ASSUME NEW row \in Row, NEW at \in Position, NEW retry \in Position, NEW by
    PROVE  /\ BlockRow(row).retry = row.retry /\ MarkRow(row, at).retry = row.retry
           /\ LeaseRow(row, by).retry = row.retry + 1
           /\ AckRow(row, at).retry = -1 /\ DueRow(row, at, retry).retry = retry
<1>1. BlockRow(row).retry = row.retry
  BY DEF BlockRow, Row
<1>2. MarkRow(row, at).retry = row.retry /\ LeaseRow(row, by).retry = row.retry + 1
  BY DEF MarkRow, LeaseRow, Row
<1>3. AckRow(row, at).retry = -1 /\ DueRow(row, at, retry).retry = retry
  BY DEF AckRow, DueRow, Row
<1> QED
  BY <1>1, <1>2, <1>3

\* Outside the cycles, only operators touch the counts, the blocks and the tally.
LEMMA EnvironmentCounts ==
    ASSUME BasicInv, Environment, NEW t \in Targets,
           ~\E S \in SUBSET Targets : Reset(S) \/ Unblock(S) \/ Defer(S)
    PROVE  /\ tally'[t] = tally[t] /\ rows'[t].retry = rows[t].retry
           /\ rows'[t].blocked = rows[t].blocked /\ rows'[t].by = rows[t].by
<1> USE DEF BasicInv, TypeOK
<1>1. rows[t] \in Row
  OBVIOUS
<1>2. CASE UNCHANGED <<rows, tally>>
  BY <1>2
<1>3. ASSUME NEW n \in scanned + 1 .. nextId - 1, Correlate(n)
      PROVE  /\ tally'[t] = tally[t] /\ rows'[t].retry = rows[t].retry
             /\ rows'[t].blocked = rows[t].blocked /\ rows'[t].by = rows[t].by
  <2> DEFINE found == {e \in log : Deliverable(t, e) /\ e.id > scanned /\ e.id <= n}
  <2>1. rows'[t] = IF found = {} THEN rows[t] ELSE MarkRow(rows[t], MaxId(found))
    BY <1>3 DEF Correlate
  <2>2. /\ MarkRow(rows[t], MaxId(found)).retry = rows[t].retry
        /\ MarkRow(rows[t], MaxId(found)).blocked = rows[t].blocked
        /\ MarkRow(rows[t], MaxId(found)).by = rows[t].by
    BY <1>1 DEF MarkRow, Row
  <2>3. tally' = tally
    BY <1>3 DEF Correlate
  <2> QED
    BY <2>1, <2>2, <2>3
<1>4. ASSUME NEW u \in Targets, Overrun(u) \/ Lapse(u) \/ Due(u)
      PROVE  /\ tally'[t] = tally[t] /\ rows'[t].retry = rows[t].retry
             /\ rows'[t].blocked = rows[t].blocked /\ rows'[t].by = rows[t].by
  <2>1. PICK row \in {[rows[u] EXCEPT !.live = FALSE], [rows[u] EXCEPT !.deferred = FALSE]} :
            rows' = [rows EXCEPT ![u] = row]
    BY <1>4 DEF Overrun, Lapse, Due
  <2>2. row.retry = rows[u].retry /\ row.blocked = rows[u].blocked /\ row.by = rows[u].by
    <3>1. rows[u] \in Row
      OBVIOUS
    <3> QED
      BY <2>1, <3>1 DEF Row
  <2>3. tally' = tally
    BY <1>4 DEF Overrun, Lapse, Due
  <2> QED
    BY <2>1, <2>2, <2>3
<1> QED
  BY <1>2, <1>3, <1>4 DEF Environment, Commit, Crash, Truncate

\* Inside a cycle, a posted result keeps the retry count of its claim, and adds
\* nothing to the attempts.
LEMMA PostedRetry ==
    ASSUME BasicInv, NEW w \in Workers, NEW t \in Targets, Posts(w, t)
    PROVE  /\ phase[w] \in {"fetch", "handle"}
           /\ entry'[w][t].retry = entry[w][t].retry
           /\ \A u \in Targets \ {t} : entry'[w][u] = entry[w][u]
           /\ \A u \in Targets : tally'[u].runs = tally[u].runs
<1> USE DEF BasicInv, TypeOK
<1>1. phase[w] \in {"fetch", "handle"}
  BY DEF Posts, Fetch, ReactBatch, AskDefer, React, Throw, AskClose, Running
<1>2. PICK h \in Entry : h = entry[w][t]
  OBVIOUS
<1>3. \A batch, id, out, ran :
        /\ FetchEntry(h, batch).retry = h.retry /\ PassEntry(h, id, out).retry = h.retry
        /\ RunEntry(h, ran).retry = h.retry /\ CloseEntry(h, id).retry = h.retry
        /\ EndEntry(h, out).retry = h.retry
  BY <1>2 DEF FetchEntry, PassEntry, RunEntry, CloseEntry, EndEntry, Entry
<1>4. \E g : Post(w, t, g) /\ g.retry = h.retry
  <2>1. CASE Fetch(w, t) \/ ReactBatch(w, t) \/ AskDefer(w, t)
    BY <2>1, <1>2, <1>3 DEF Fetch, ReactBatch, AskDefer
  <2>2. ASSUME NEW r \in Reactions, React(w, t, r) PROVE \E g : Post(w, t, g) /\ g.retry = h.retry
    BY <2>2, <1>2, <1>3 DEF React
  <2>3. ASSUME NEW how \in Throws, Throw(w, t, how) PROVE \E g : Post(w, t, g) /\ g.retry = h.retry
    BY <2>3, <1>2, <1>3 DEF Throw
  <2>4. ASSUME NEW n, AskClose(w, t, n) PROVE \E g : Post(w, t, g) /\ g.retry = h.retry
    BY <2>4, <1>2, <1>3 DEF AskClose
  <2> QED
    BY <2>1, <2>2, <2>3, <2>4 DEF Posts
<1>5. entry'[w][t].retry = entry[w][t].retry /\ \A u \in Targets \ {t} : entry'[w][u] = entry[w][u]
  BY <1>2, <1>4 DEF Post
<1>6. \A u \in Targets : tally'[u].runs = tally[u].runs
  <2>1. tally' = tally \/ \E how \in Throws : Throw(w, t, how)
    BY DEF Posts, Fetch, ReactBatch, AskDefer, React, AskClose
  <2>2. ASSUME NEW how \in Throws, Throw(w, t, how), NEW u \in Targets
        PROVE  tally'[u].runs = tally[u].runs
    BY <2>2 DEF Throw
  <2> QED
    BY <2>1, <2>2
<1> QED
  BY <1>1, <1>5, <1>6

\* Dispatch: what it leaves in an entry.
LEMMA DispatchedEntry ==
    ASSUME BasicInv, NEW w \in Workers, NEW t \in Targets, t \in claimed[w], Dispatch(w)
    PROVE  /\ entry'[w][t].retry = entry[w][t].retry
           /\ entry'[w][t].out \in {"exhausted", "ok", "run"}
           /\ entry'[w][t].out = "run" =>
                 Payloads(t, entry[w][t].batch) # {} /\ ~Exhausted(w, t)
<1>1. PICK h \in Entry : h = entry[w][t]
  BY DEF BasicInv, TypeOK
<1>2. \A n, out : /\ EndEntry(h, out).retry = h.retry /\ AimEntry(h, n, out).retry = h.retry
                  /\ EndEntry(h, out).out = out /\ AimEntry(h, n, out).out = out
  BY <1>1 DEF EndEntry, AimEntry, Entry
<1>3. entry'[w][t] =
        IF Exhausted(w, t) THEN EndEntry(h, "exhausted")
        ELSE AimEntry(h, Ceiling(w, t),
               IF Payloads(t, entry[w][t].batch) = {} THEN "ok" ELSE "run")
  BY <1>1 DEF Dispatch, BasicInv, TypeOK
<1>4. CASE Exhausted(w, t)
  BY <1>1, <1>2, <1>3, <1>4
<1>5. CASE ~Exhausted(w, t) /\ Payloads(t, entry[w][t].batch) = {}
  BY <1>1, <1>2, <1>3, <1>5
<1>6. CASE ~Exhausted(w, t) /\ Payloads(t, entry[w][t].batch) # {}
  BY <1>1, <1>2, <1>3, <1>6
<1> QED
  BY <1>4, <1>5, <1>6

\* A row's ration stands when its count, its block and its attempts do; so does
\* what a cycle has counted.
LEMMA RationKept ==
    ASSUME NEW t \in Targets, tally'[t].runs = tally[t].runs,
           rows'[t].retry = rows[t].retry, rows'[t].blocked = rows[t].blocked
    PROVE  /\ Rationed(t) => Rationed(t)'
           /\ \A w \in Workers :
                 /\ entry'[w][t].retry = entry[w][t].retry
                 /\ phase'[w] = phase[w]
                 /\ entry'[w][t].out = entry[w][t].out \/ phase[w] # "ack"
                 => (Counted(w, t) => Counted(w, t)')
<1>1. Rationed(t) => Rationed(t)'
  BY DEF Rationed
<1>2. ASSUME NEW w \in Workers, entry'[w][t].retry = entry[w][t].retry,
             phase'[w] = phase[w], Counted(w, t),
             entry'[w][t].out = entry[w][t].out \/ phase[w] # "ack"
      PROVE  Counted(w, t)'
  BY <1>2 DEF Counted
<1> QED
  BY <1>1, <1>2

\* One step of the ration of one target: claims count, dispatch spends, an ack
\* forgives only what progressed or was blocked.
LEMMA AttemptStep ==
    ASSUME BasicInv, LeftInv, AttemptInv, [Next]_vars PROVE AttemptInv'
<1> USE DEF BasicInv, TypeOK
<1> SUFFICES ASSUME left'["operator"] = Budget["operator"], NEW t \in Targets
             PROVE  /\ Rationed(t)'
                    /\ \A v \in Workers :
                          t \in claimed'[v] /\ rows'[t].by = v => Counted(v, t)'
  BY DEF AttemptInv, Holds
<1>1. left["operator"] = Budget["operator"]
      /\ ~\E S \in SUBSET Targets : Reset(S) \/ Unblock(S) \/ Defer(S)
  BY NextSpends DEF Charges
<1>2. /\ Rationed(t)
      /\ \A v \in Workers : t \in claimed[v] /\ rows[t].by = v => Counted(v, t)
  BY <1>1 DEF AttemptInv, Holds
<1>3. /\ rows[t] \in Row /\ rows[t].retry \in Int /\ tally[t].runs \in Nat
      /\ Options[t].maxRetries \in Nat /\ -1 \in Position
  BY DrainAssumption DEF Row
<1>4. \A v \in Workers : v # NoHolder
  BY DrainAssumption, NoHolderAssumption
<1>5. CASE Environment
  <2>1. /\ tally'[t] = tally[t] /\ rows'[t].retry = rows[t].retry
        /\ rows'[t].blocked = rows[t].blocked /\ rows'[t].by = rows[t].by
    BY <1>1, <1>5, EnvironmentCounts
  <2>2. ASSUME NEW v \in Workers, t \in claimed'[v], rows'[t].by = v PROVE Counted(v, t)'
    <3>1. entry'[v] = entry[v] /\ phase'[v] = phase[v] /\ claimed'[v] = claimed[v]
      BY <1>5, <2>2, CycleSurvives
    <3> QED
      BY <1>2, <2>1, <2>2, <3>1, RationKept
  <2> QED
    BY <1>2, <2>1, <2>2, RationKept
<1>6. ASSUME NEW w \in Workers, NEW v \in Workers, v # w, Cycle(w),
             tally'[t].runs = tally[t].runs, rows'[t].retry = rows[t].retry,
             rows'[t].blocked = rows[t].blocked,
             t \in claimed'[v], rows'[t].by = v
      PROVE  Counted(v, t)'
  <2>1. rows[t].by = v
    BY <1>4, <1>6, CycleRows
  <2>2. entry'[v] = entry[v] /\ phase'[v] = phase[v] /\ claimed'[v] = claimed[v]
    BY <1>6, OthersUntouched
  <2> QED
    BY <1>2, <1>6, <2>1, <2>2, RationKept
<1>7. ASSUME NEW w \in Workers, Claim(w)
      PROVE  /\ Rationed(t)'
             /\ \A v \in Workers :
                   t \in claimed'[v] /\ rows'[t].by = v => Counted(v, t)'
  <2>1. PICK S \in SUBSET Targets :
          /\ \A u \in S : IsAvailable(rows[u])
          /\ rows' = [u \in Targets |-> IF u \in S THEN LeaseRow(rows[u], w) ELSE rows[u]]
          /\ claimed' = [claimed EXCEPT ![w] = S]
          /\ entry' = [entry EXCEPT ![w] = [u \in Targets |->
                 IF u \in S THEN GrantEntry(rows[u]) ELSE NoEntry]]
    BY <1>7, ClaimTakes
  <2>2. phase'[w] = "fetch" /\ tally' = tally /\ Cycle(w)
    BY <1>7 DEF Claim, Cycle
  <2>3. CASE t \in S
    <3>1. /\ rows'[t].retry = rows[t].retry + 1 /\ rows'[t].by = w
          /\ rows'[t].blocked = rows[t].blocked /\ ~rows[t].blocked
      <4>1. rows'[t] = LeaseRow(rows[t], w) /\ IsAvailable(rows[t])
        BY <2>1, <2>3
      <4> QED
        BY <1>3, <4>1, RowRetries, RowBlocks, RowHolders DEF IsAvailable
    <3>2. tally[t].runs <= rows[t].retry + 1
      BY <1>2, <3>1 DEF Rationed
    <3>3. entry'[w][t].retry = rows[t].retry + 1
      BY <2>1, <2>3 DEF GrantEntry
    <3>4. Rationed(t)'
      <4>1. PICK runs \in Nat, retry \in Int : runs = tally[t].runs /\ retry = rows[t].retry
        BY <1>3
      <4>2. runs <= (retry + 1) + 1
        BY <3>2, <4>1
      <4> QED
        BY <1>2, <2>2, <3>1, <4>1, <4>2 DEF Rationed
    <3>5. Counted(w, t)'
      BY <2>2, <3>1, <3>2, <3>3 DEF Counted
    <3> QED
      BY <3>1, <3>4, <3>5
  <2>4. CASE t \notin S
    <3>1. rows'[t] = rows[t] /\ t \notin claimed'[w]
      BY <2>1, <2>4
    <3>2. Rationed(t)'
      BY <1>2, <2>2, <3>1, RationKept
    <3> QED
      BY <1>6, <2>2, <3>1, <3>2
  <2> QED
    BY <2>3, <2>4
<1>8. ASSUME NEW w \in Workers, Dispatch(w)
      PROVE  /\ Rationed(t)'
             /\ \A v \in Workers :
                   t \in claimed'[v] /\ rows'[t].by = v => Counted(v, t)'
  <2>1. /\ rows' = rows /\ claimed' = claimed /\ phase' = [phase EXCEPT ![w] = "handle"]
        /\ phase[w] = "fetch" /\ phase'[w] = "handle" /\ Cycle(w)
    BY <1>8 DEF Dispatch, Cycle
  <2>2. tally'[t] = IF entry'[w][t].out = "run" /\ Holds(rows[t], w)
                    THEN [tally[t] EXCEPT !.runs = @ + 1] ELSE tally[t]
    BY <1>8 DEF Dispatch
  <2>3. CASE entry'[w][t].out = "run" /\ rows[t].by = w
    <3>1. t \in claimed[w]
      <4>1. t \notin claimed[w] => entry'[w][t] = NoEntry
        BY <1>8 DEF Dispatch
      <4> QED
        BY <2>3, <4>1 DEF NoEntry
    <3>2. Counted(w, t) /\ tally[t].runs <= rows[t].retry /\ entry[w][t].retry = rows[t].retry
          /\ ~rows[t].blocked
      BY <1>2, <2>1, <2>3, <3>1 DEF Counted
    <3>3. entry'[w][t].retry = entry[w][t].retry /\ ~Exhausted(w, t)
          /\ Payloads(t, entry[w][t].batch) # {}
      BY <1>8, <2>3, <3>1, DispatchedEntry
    <3>4. tally'[t].runs = tally[t].runs + 1
      BY <2>2, <2>3 DEF Holds
    <3>5. Options[t].blockOnError => tally[t].runs <= Options[t].maxRetries
      <4>1. Options[t].blockOnError => ~(rows[t].retry > Options[t].maxRetries)
        BY <3>2, <3>3 DEF Exhausted
      <4>2. PICK runs \in Nat, retry \in Int, max \in Nat :
                runs = tally[t].runs /\ retry = rows[t].retry /\ max = Options[t].maxRetries
        BY <1>3
      <4>3. Options[t].blockOnError => runs <= max
        BY <3>2, <4>1, <4>2
      <4> QED
        BY <4>2, <4>3
    <3>6. Rationed(t)'
      <4>1. PICK runs \in Nat, retry \in Int, max \in Nat :
                runs = tally[t].runs /\ retry = rows[t].retry /\ max = Options[t].maxRetries
        BY <1>3
      <4>2. runs + 1 <= retry + 1 /\ (Options[t].blockOnError => runs + 1 <= max + 1)
        BY <3>2, <3>5, <4>1
      <4> QED
        BY <2>1, <3>4, <4>1, <4>2 DEF Rationed
    <3>7. Counted(w, t)'
      BY <2>1, <3>2, <3>3 DEF Counted
    <3> QED
      BY <2>1, <2>3, <3>6, <3>7
  <2>4. CASE ~(entry'[w][t].out = "run" /\ rows[t].by = w)
    <3>1. tally'[t] = tally[t]
      BY <2>2, <2>4 DEF Holds
    <3>2. Rationed(t)'
      BY <1>2, <2>1, <3>1, RationKept
    <3>3. ASSUME t \in claimed[w], rows[t].by = w PROVE Counted(w, t)'
      <4>1. entry'[w][t].retry = entry[w][t].retry
        BY <1>8, <3>3, DispatchedEntry
      <4> QED
        BY <1>2, <2>1, <3>3, <4>1 DEF Counted
    <3> QED
      BY <1>6, <2>1, <3>1, <3>2, <3>3
  <2> QED
    BY <2>3, <2>4
<1>9. ASSUME NEW w \in Workers, NEW u \in Targets, Posts(w, u)
      PROVE  /\ Rationed(t)'
             /\ \A v \in Workers :
                   t \in claimed'[v] /\ rows'[t].by = v => Counted(v, t)'
  <2>1. rows' = rows /\ claimed' = claimed /\ phase' = phase
    BY <1>9, PostsPost
  <2>2. /\ tally'[t].runs = tally[t].runs /\ phase[w] # "ack"
        /\ entry'[w][t].retry = entry[w][t].retry
    BY <1>9, PostedRetry
  <2>3. Rationed(t)'
    BY <1>2, <2>1, <2>2, RationKept
  <2>4. ASSUME t \in claimed[w], rows[t].by = w PROVE Counted(w, t)'
    BY <1>2, <2>1, <2>2, <2>4, RationKept
  <2>5. Cycle(w)
    BY <1>9 DEF Posts, Cycle
  <2> QED
    BY <1>6, <2>1, <2>2, <2>3, <2>4, <2>5
<1>10. ASSUME NEW w \in Workers, Block(w)
      PROVE  /\ Rationed(t)'
             /\ \A v \in Workers :
                   t \in claimed'[v] /\ rows'[t].by = v => Counted(v, t)'
  <2>1. /\ claimed' = claimed /\ entry' = entry /\ tally' = tally /\ phase'[w] = "ack"
        /\ Cycle(w)
    BY <1>10 DEF Block, Cycle
  <2>2. rows'[t] = IF /\ t \in claimed[w] /\ entry[w][t].out \in GivesUp
                      /\ CanBlock(rows[t], w)
                   THEN BlockRow(rows[t]) ELSE rows[t]
    BY <1>10 DEF Block, GivesUp
  <2>3. /\ BlockRow(rows[t]).retry = rows[t].retry /\ BlockRow(rows[t]).blocked
        /\ BlockRow(rows[t]).by = rows[t].by
    BY <1>3, RowRetries, RowBlocks, RowHolders
  <2>4. CASE rows'[t] = rows[t]
    <3>1. Rationed(t)'
      BY <1>2, <2>1, <2>4, RationKept
    <3>2. ASSUME t \in claimed[w], rows[t].by = w PROVE Counted(w, t)'
      <4>1. entry[w][t].out \in GivesUp => rows'[t].blocked
        BY <2>2, <2>3, <2>4, <3>2 DEF CanBlock, Holds
      <4> QED
        BY <1>2, <2>1, <2>4, <3>2, <4>1 DEF Counted
    <3> QED
      BY <1>6, <2>1, <2>4, <3>1, <3>2
  <2>5. CASE rows'[t] = BlockRow(rows[t]) /\ rows[t].by = w
    <3>1. Rationed(t)'
      BY <1>2, <2>1, <2>3, <2>5 DEF Rationed
    <3>2. ASSUME t \in claimed[w] PROVE Counted(w, t)'
      BY <1>2, <2>1, <2>3, <2>5, <3>2 DEF Counted
    <3> QED
      BY <2>1, <2>3, <2>5, <3>1, <3>2
  <2> QED
    BY <2>2, <2>4, <2>5 DEF CanBlock, Holds
<1>11. ASSUME NEW w \in Workers, Ack(w)
      PROVE  /\ Rationed(t)'
             /\ \A v \in Workers :
                   t \in claimed'[v] /\ rows'[t].by = v => Counted(v, t)'
  <2>1. claimed'[w] = {} /\ Cycle(w) /\ phase[w] = "ack"
    BY <1>11 DEF Ack, Cycle
  <2>2. CASE ~Acks(w, t)
    <3>1. rows'[t] = rows[t] /\ tally'[t] = tally[t]
      BY <1>11, <2>2 DEF Ack
    <3>2. Rationed(t)'
      BY <1>2, <3>1, RationKept
    <3> QED
      BY <1>6, <2>1, <3>1, <3>2
  <2>3. CASE Acks(w, t)
    <3> DEFINE h == entry[w][t]
    <3>1. t \in claimed[w] /\ rows[t].by = w /\ Counted(w, t) /\ h \in Entry
      BY <1>2, <2>3 DEF Acks, Holds
    <3>2. /\ rows'[t] = Finish(rows[t], h)
          /\ tally'[t] = IF \/ h.out \in {"ok", "defer", "close", "mute"}
                            \/ h.out \in {"retry", "backoff"} /\ h.handled
                         THEN Clean ELSE tally[t]
      BY <1>11, <2>3 DEF Ack
    <3>3. /\ rows'[t].blocked = rows[t].blocked
          /\ rows'[t] = rows[t] \/ rows'[t].by = NoHolder
      BY <1>3, <3>1, <3>2, FinishBlocks, FinishHolder
    <3>4. Rationed(t)'
      <4>1. CASE tally'[t] = Clean
        <5>1. rows'[t] \in Row
          BY <1>3, <3>1, <3>2, FinishTypes
        <5>2. PICK retry \in Position : retry = rows'[t].retry
          BY <5>1 DEF Row
        <5>3. PICK max \in Nat : max = Options[t].maxRetries
          BY <1>3
        <5>4. 0 <= retry + 1 /\ 0 <= max + 1
          OBVIOUS
        <5> QED
          BY <4>1, <5>2, <5>3, <5>4 DEF Rationed, Clean
      <4>2. CASE tally'[t] = tally[t] /\ rows'[t].retry = rows[t].retry
        BY <1>2, <3>3, <4>2, RationKept
      <4>3. CASE tally'[t] = tally[t] /\ h.out \in GivesUp
        <5>1. rows'[t].blocked
          BY <2>1, <3>1, <3>3, <4>3 DEF Counted
        <5> QED
          BY <1>2, <4>3, <5>1 DEF Rationed
      <4>4. CASE tally'[t] = tally[t] /\ h.out = "backoff" /\ ~h.handled
        <5>1. rows'[t] = DueRow(rows[t], Advance(h), h.retry)
          BY <3>2, <4>4 DEF Finish
        <5>2. rows'[t].retry = h.retry
          BY <1>3, <5>1 DEF DueRow, Row
        <5> QED
          BY <3>1, <4>2, <4>4, <5>2 DEF Counted
      <4>5. CASE rows'[t] = rows[t] /\ tally'[t] = tally[t]
        BY <4>2, <4>5
      <4>6. h.out = "retry" /\ ~h.handled => rows'[t] = rows[t]
        BY <3>2 DEF Finish
      <4>7. h.out \in {"none", "leased", "fetched", "run"} => rows'[t] = rows[t]
        BY <3>2 DEF Finish
      <4>8. h.out \in Outcomes
        BY <3>1 DEF Entry
      <4> QED
        BY <3>2, <4>1, <4>3, <4>4, <4>5, <4>6, <4>7, <4>8 DEF Outcomes, GivesUp
    <3>5. ASSUME NEW v \in Workers, t \in claimed'[v], rows'[t].by = v PROVE FALSE
      BY <1>4, <2>1, <3>1, <3>3, <3>5
    <3> QED
      BY <3>4, <3>5
  <2> QED
    BY <2>2, <2>3
<1>12. CASE UNCHANGED vars
  <2>1. UNCHANGED <<rows, phase, claimed, entry, tally>>
    BY <1>12 DEF vars
  <2> QED
    BY <1>2, <2>1, RationKept
<1>13. ASSUME NEW w \in Workers, Cycle(w)
      PROVE  /\ Rationed(t)'
             /\ \A v \in Workers :
                   t \in claimed'[v] /\ rows'[t].by = v => Counted(v, t)'
  BY <1>7, <1>8, <1>9, <1>10, <1>11, <1>13, CyclePosts
<1> QED
  BY <1>5, <1>12, <1>13 DEF Next

\* #1418 (budget_exhausted, finalize, ack, block): with blockOnError, and while no
\* operator steps in, no handler runs on a row more than maxRetries + 1 times
\* without progress, whatever leases are lost and whichever processes die.
THEOREM AttemptsCorrect == Spec => []AttemptsBounded
<1>1. Init => LeftInv /\ AttemptInv
  <2> SUFFICES ASSUME Init PROVE LeftInv /\ AttemptInv
    OBVIOUS
  <2>1. LeftInv
    BY DrainAssumption DEF Init, LeftInv
  <2>2. \A t \in Targets : Options[t].maxRetries \in Nat
    BY DrainAssumption
  <2>3. AttemptInv
    BY <2>2 DEF Init, AttemptInv, Rationed, Clean, NewRow
  <2> QED
    BY <2>1, <2>3
<1>2. BasicInv /\ LeftInv /\ AttemptInv /\ [Next]_vars => LeftInv' /\ AttemptInv'
  BY NextSpends, AttemptStep
<1>3. AttemptInv => AttemptsBounded
  BY DEF AttemptInv, AttemptsBounded, Rationed
<1> QED
  BY <1>1, <1>2, <1>3, BasicCorrect, PTL DEF Spec

-----------------------------------------------------------------------------
(* Single delivery, until a lease is lost, a process dies or an operator   *)
(* steps in.                                                               *)

\* Until then, the environment only appends, removes, marks and lets time pass:
\* a lease lapses only once nobody works under it.
LEMMA QuietEnvironment ==
    ASSUME BasicInv, LeftInv, Environment, Undisturbed'
    PROVE  /\ UNCHANGED <<phase, claimed, entry, accounted, tally>>
           /\ \A t \in Targets :
                 /\ rows'[t].at = rows[t].at /\ rows'[t].by = rows[t].by
                 /\ rows'[t].blocked = rows[t].blocked
                 /\ rows'[t].live = rows[t].live \/ ~AtWork(t)
<1> USE DEF BasicInv, TypeOK
<1> DEFINE Steady == /\ UNCHANGED <<phase, claimed, entry, accounted, tally>>
                     /\ \A t \in Targets :
                           /\ rows'[t].at = rows[t].at /\ rows'[t].by = rows[t].by
                           /\ rows'[t].blocked = rows[t].blocked
                           /\ rows'[t].live = rows[t].live \/ ~AtWork(t)
<1>1. \A t \in Targets : rows[t] \in Row
  OBVIOUS
<1>2. /\ ~\E S \in SUBSET Targets : Reset(S) \/ Unblock(S) \/ Defer(S)
      /\ ~\E t \in Targets : Overrun(t)
      /\ ~\E w \in Workers : Crash(w)
  BY NextSpends DEF Undisturbed, Next
<1>3. ASSUME NEW k, Commit(k) PROVE Steady
  BY <1>3 DEF Commit
<1>4. ASSUME NEW k, NEW n, Truncate(k, n) PROVE Steady
  BY <1>4 DEF Truncate
<1>5. ASSUME NEW n \in scanned + 1 .. nextId - 1, Correlate(n) PROVE Steady
  <2>1. UNCHANGED <<phase, claimed, entry, accounted, tally>>
    BY <1>5 DEF Correlate
  <2>2. ASSUME NEW t \in Targets
        PROVE  /\ rows'[t].at = rows[t].at /\ rows'[t].by = rows[t].by
               /\ rows'[t].blocked = rows[t].blocked /\ rows'[t].live = rows[t].live
    <3> DEFINE found == {e \in log : Deliverable(t, e) /\ e.id > scanned /\ e.id <= n}
    <3>1. rows'[t] = IF found = {} THEN rows[t] ELSE MarkRow(rows[t], MaxId(found))
      BY <1>5 DEF Correlate
    <3>2. /\ MarkRow(rows[t], MaxId(found)).at = rows[t].at
          /\ MarkRow(rows[t], MaxId(found)).by = rows[t].by
          /\ MarkRow(rows[t], MaxId(found)).blocked = rows[t].blocked
          /\ MarkRow(rows[t], MaxId(found)).live = rows[t].live
      BY <1>1 DEF MarkRow, Row
    <3> QED
      BY <3>1, <3>2
  <2> QED
    BY <2>1, <2>2
<1>6. ASSUME NEW u \in Targets, Lapse(u) PROVE Steady
  <2>1. /\ rows' = [rows EXCEPT ![u] = [rows[u] EXCEPT !.live = FALSE]] /\ ~AtWork(u)
        /\ UNCHANGED <<phase, claimed, entry, accounted, tally>>
    BY <1>6 DEF Lapse
  <2>2. \A row \in Row : /\ [row EXCEPT !.live = FALSE].at = row.at
                         /\ [row EXCEPT !.live = FALSE].by = row.by
                         /\ [row EXCEPT !.live = FALSE].blocked = row.blocked
    BY DEF Row
  <2>3. PICK row : row = [rows[u] EXCEPT !.live = FALSE]
    OBVIOUS
  <2>4. row.at = rows[u].at /\ row.by = rows[u].by /\ row.blocked = rows[u].blocked
    BY <1>1, <2>2, <2>3
  <2>5. rows' = [rows EXCEPT ![u] = row]
    BY <2>1, <2>3
  <2> QED
    BY <2>1, <2>4, <2>5
<1>7. ASSUME NEW u \in Targets, Due(u) PROVE Steady
  <2>1. /\ rows' = [rows EXCEPT ![u] = [rows[u] EXCEPT !.deferred = FALSE]]
        /\ UNCHANGED <<phase, claimed, entry, accounted, tally>>
    BY <1>7 DEF Due
  <2>2. \A row \in Row : /\ [row EXCEPT !.deferred = FALSE].at = row.at
                         /\ [row EXCEPT !.deferred = FALSE].by = row.by
                         /\ [row EXCEPT !.deferred = FALSE].blocked = row.blocked
                         /\ [row EXCEPT !.deferred = FALSE].live = row.live
    BY DEF Row
  <2>3. PICK row : row = [rows[u] EXCEPT !.deferred = FALSE]
    OBVIOUS
  <2>4. /\ row.at = rows[u].at /\ row.by = rows[u].by /\ row.blocked = rows[u].blocked
        /\ row.live = rows[u].live
    BY <1>1, <2>2, <2>3
  <2>5. rows' = [rows EXCEPT ![u] = row]
    BY <2>1, <2>3
  <2> QED
    BY <2>1, <2>4, <2>5
<1> HIDE DEF Steady
<1>8. Steady
  BY <1>2, <1>3, <1>4, <1>5, <1>6, <1>7 DEF Environment
<1> QED
  BY <1>8 DEF Steady

\* Nobody but its holder touches a row under a running lease.
LEMMA KeptStep ==
    ASSUME BasicInv, LeftInv, KeptInv, [Next]_vars PROVE KeptInv'
<1> USE DEF BasicInv, TypeOK
<1> SUFFICES ASSUME Undisturbed', NEW v \in Workers, NEW t \in claimed'[v]
             PROVE  /\ rows'[t].by = v /\ rows'[t].live
                    /\ phase'[v] # "ack" => ~rows'[t].blocked
  BY DEF KeptInv, Kept, Holds
<1>1. Undisturbed
  BY NextSpends DEF Undisturbed, Charges
<1>2. \A w \in Workers : \A u \in claimed[w] :
          rows[u].by = w /\ rows[u].live /\ (phase[w] # "ack" => ~rows[u].blocked)
  BY <1>1 DEF KeptInv, Kept, Holds
<1>3. CASE Environment
  <2>1. UNCHANGED <<phase, claimed>> /\ t \in claimed[v] /\ t \in Targets
    BY <1>3, QuietEnvironment
  <2>2. rows[t].by = v /\ rows[t].live /\ (phase[v] # "ack" => ~rows[t].blocked)
    BY <1>2, <2>1
  <2>3. AtWork(t)
    BY <2>1, <2>2 DEF AtWork, Holds
  <2> QED
    BY <1>3, <2>1, <2>2, <2>3, QuietEnvironment
<1>4. ASSUME NEW w \in Workers, Claim(w)
      PROVE  /\ rows'[t].by = v /\ rows'[t].live
             /\ phase'[v] # "ack" => ~rows'[t].blocked
  <2>1. PICK S \in SUBSET Targets :
          /\ \A u \in S : IsAvailable(rows[u])
          /\ rows' = [u \in Targets |-> IF u \in S THEN LeaseRow(rows[u], w) ELSE rows[u]]
          /\ claimed' = [claimed EXCEPT ![w] = S]
    BY <1>4, ClaimTakes
  <2>2. phase' = [phase EXCEPT ![w] = "fetch"]
    BY <1>4 DEF Claim
  <2>3. CASE v = w
    <3>1. t \in S /\ t \in Targets /\ rows[t] \in Row /\ ~rows[t].blocked
      BY <2>1, <2>3 DEF IsAvailable
    <3>2. rows'[t] = LeaseRow(rows[t], v)
      BY <2>1, <2>3, <3>1
    <3> QED
      BY <3>1, <3>2 DEF LeaseRow, Row
  <2>4. CASE v # w
    <3>1. t \in claimed[v] /\ t \in Targets /\ phase'[v] = phase[v]
      BY <2>1, <2>2, <2>4
    <3>2. rows'[t] = rows[t]
      BY <1>2, <2>1, <3>1 DEF IsAvailable
    <3> QED
      BY <1>2, <3>1, <3>2
  <2> QED
    BY <2>3, <2>4
<1>5. ASSUME NEW w \in Workers, Dispatch(w)
      PROVE  /\ rows'[t].by = v /\ rows'[t].live
             /\ phase'[v] # "ack" => ~rows'[t].blocked
  <2>1. /\ rows' = rows /\ claimed' = claimed /\ phase[w] = "fetch"
        /\ phase' = [phase EXCEPT ![w] = "handle"]
    BY <1>5 DEF Dispatch
  <2>2. phase'[v] # "ack" => phase[v] # "ack"
    BY <2>1
  <2> QED
    BY <1>2, <2>1, <2>2
<1>6. ASSUME NEW w \in Workers, NEW u \in Targets, Posts(w, u)
      PROVE  /\ rows'[t].by = v /\ rows'[t].live
             /\ phase'[v] # "ack" => ~rows'[t].blocked
  BY <1>2, <1>6, PostsPost
<1>7. ASSUME NEW w \in Workers, Block(w)
      PROVE  /\ rows'[t].by = v /\ rows'[t].live
             /\ phase'[v] # "ack" => ~rows'[t].blocked
  <2>1. claimed' = claimed /\ phase' = [phase EXCEPT ![w] = "ack"] /\ t \in Targets
    BY <1>7 DEF Block
  <2>2. rows'[t] \in {rows[t], BlockRow(rows[t])}
        /\ (rows'[t] = rows[t] \/ rows[t].by = w)
    BY <1>7, <2>1 DEF Block, CanBlock, Holds
  <2>3. BlockRow(rows[t]).by = rows[t].by /\ BlockRow(rows[t]).live = rows[t].live
    BY <2>1 DEF BlockRow, Row
  <2>4. rows[t].by = v /\ rows[t].live /\ (phase[v] # "ack" => ~rows[t].blocked)
    BY <1>2, <2>1
  <2>5. CASE v = w
    BY <2>1, <2>2, <2>3, <2>4, <2>5
  <2>6. CASE v # w
    BY <2>1, <2>2, <2>4, <2>6
  <2> QED
    BY <2>5, <2>6
<1>8. ASSUME NEW w \in Workers, Ack(w)
      PROVE  /\ rows'[t].by = v /\ rows'[t].live
             /\ phase'[v] # "ack" => ~rows'[t].blocked
  <2>1. v # w /\ t \in claimed[v] /\ phase'[v] = phase[v] /\ t \in Targets
    BY <1>8 DEF Ack
  <2>2. rows[t].by = v
    BY <1>2, <2>1
  <2>3. rows'[t] = rows[t]
    BY <1>8, <2>1, <2>2 DEF Ack, Acks, Holds
  <2> QED
    BY <1>2, <2>1, <2>3
<1>9. CASE UNCHANGED vars
  BY <1>2, <1>9 DEF vars
<1>10. ASSUME NEW w \in Workers, Cycle(w)
       PROVE  /\ rows'[t].by = v /\ rows'[t].live
              /\ phase'[v] # "ack" => ~rows'[t].blocked
  BY <1>4, <1>5, <1>6, <1>7, <1>8, <1>10, CyclePosts
<1> QED
  BY <1>3, <1>9, <1>10 DEF Next

\* What a posted result says of the progress made: a fetch and a failure change
\* nothing of it, a reaction moves the position up to what it completed.
LEMMA PostedProgress ==
    ASSUME BasicInv, NEW w \in Workers, NEW t \in Targets, Posts(w, t)
    PROVE  LET h == entry[w][t]
               g == entry'[w][t]
           IN  \/ h.out = "leased" /\ g.out = "fetched" /\ g.handled = h.handled
               \/ /\ h.out = "run" /\ g.handled = h.handled /\ g.at = h.at
                  /\ g.upto = h.upto /\ g.out \notin {"none", "leased", "fetched"}
               \/ /\ h.out = "run" /\ g.handled /\ g.at \in Nat /\ g.at >= Current(w, t).id
                  /\ g.out \in {"ok", "run", "close"} /\ (g.out # "close" => g.upto = g.at)
<1> USE DEF BasicInv, TypeOK
<1>1. PICK h \in Entry : h = entry[w][t]
  OBVIOUS
<1>2. CASE Fetch(w, t)
  <2>1. h.out = "leased" /\ entry'[w][t] = FetchEntry(h, Window(t, h.floor))
    BY <1>1, <1>2 DEF Fetch, Post
  <2>2. FetchEntry(h, Window(t, h.floor)).out = "fetched"
        /\ FetchEntry(h, Window(t, h.floor)).handled = h.handled
    BY DEF FetchEntry, Entry
  <2> QED
    BY <1>1, <2>1, <2>2
<1>3. \A out : /\ EndEntry(h, out).handled = h.handled /\ EndEntry(h, out).at = h.at
               /\ EndEntry(h, out).upto = h.upto /\ EndEntry(h, out).out = out
  BY DEF EndEntry, Entry
<1>4. \A id, out : /\ PassEntry(h, id, out).handled /\ PassEntry(h, id, out).at = id
                   /\ PassEntry(h, id, out).upto = id /\ PassEntry(h, id, out).out = out
  BY DEF PassEntry, Entry
<1>5. CASE AskDefer(w, t)
  <2>1. h.out = "run" /\ entry'[w][t] = EndEntry(h, "defer")
    BY <1>1, <1>5 DEF AskDefer, Running, Post
  <2> QED
    BY <1>1, <1>3, <2>1
<1>6. ASSUME NEW how \in Throws, Throw(w, t, how)
      PROVE  /\ h.out = "run" /\ entry'[w][t].handled = h.handled /\ entry'[w][t].at = h.at
             /\ entry'[w][t].upto = h.upto
             /\ entry'[w][t].out \notin {"none", "leased", "fetched"}
  <2>1. h.out = "run" /\ entry'[w][t] = EndEntry(h, Verdict(t, h.retry, how))
    BY <1>1, <1>6 DEF Throw, Running, Post
  <2>2. Verdict(t, h.retry, how) \notin {"none", "leased", "fetched"}
    BY DEF Verdict
  <2> QED
    BY <1>3, <2>1, <2>2
<1>7. CASE ReactBatch(w, t)
  <2> DEFINE batch == Payloads(t, h.batch)
  <2>1. h.out = "run" /\ entry'[w][t] = PassEntry(h, MaxId(batch), "ok") /\ Running(w, t)
    BY <1>1, <1>7 DEF ReactBatch, Running, Post
  <2>2. /\ batch \in SUBSET Events /\ Current(w, t) \in batch
        /\ \A e \in batch : e.id < nextId
    BY <1>1, <2>1, RunFacts DEF Payloads, Carried
  <2>3. MaxId(batch) \in Nat /\ \A e \in batch : e.id <= MaxId(batch)
    BY <2>2, MaxIdIsLast
  <2>4. Current(w, t).id \in Nat
    BY <2>1, RunFacts
  <2>5. MaxId(batch) >= Current(w, t).id
    BY <2>2, <2>3, <2>4
  <2> HIDE DEF batch
  <2> QED
    BY <1>1, <1>4, <2>1, <2>3, <2>5
<1>8. ASSUME NEW r \in Reactions, React(w, t, r)
      PROVE  \/ /\ h.out = "run" /\ entry'[w][t].handled = h.handled /\ entry'[w][t].at = h.at
                /\ entry'[w][t].upto = h.upto /\ entry'[w][t].out = "run"
             \/ /\ h.out = "run" /\ entry'[w][t].handled /\ entry'[w][t].at = Current(w, t).id
                /\ entry'[w][t].out \in {"ok", "run"} /\ entry'[w][t].upto = Current(w, t).id
  <2>1. h.out = "run"
    BY <1>1, <1>8 DEF React, Running
  <2>2. \/ \E out \in {"ok", "run"} : Post(w, t, PassEntry(h, Current(w, t).id, out))
        \/ Post(w, t, RunEntry(h, h.done \union {r}))
    BY <1>1, <1>8 DEF React
  <2>3. \/ \E out \in {"ok", "run"} : entry'[w][t] = PassEntry(h, Current(w, t).id, out)
        \/ entry'[w][t] = RunEntry(h, h.done \union {r})
    BY <2>2 DEF Post
  <2>4. \A ran : /\ RunEntry(h, ran).handled = h.handled /\ RunEntry(h, ran).at = h.at
                 /\ RunEntry(h, ran).upto = h.upto /\ RunEntry(h, ran).out = h.out
    BY DEF RunEntry, Entry
  <2> QED
    BY <1>4, <2>1, <2>3, <2>4
<1>9. ASSUME NEW n \in Ids(log) \union Ids(entry[w][t].batch), AskClose(w, t, n)
      PROVE  /\ h.out = "run" /\ entry'[w][t].handled /\ entry'[w][t].at = n
             /\ n \in Nat /\ n >= Current(w, t).id /\ entry'[w][t].out = "close"
  <2>1. h.out = "run" /\ entry'[w][t] = CloseEntry(h, n) /\ Running(w, t)
        /\ n >= Current(w, t).id
    BY <1>1, <1>9 DEF AskClose, Running, Post
  <2>2. n \in Nat
    BY <2>1, RunFacts DEF Ids, Events
  <2> QED
    BY <2>1, <2>2 DEF CloseEntry, Entry
<1>10. Running(w, t) => Current(w, t).id \in Nat
  BY RunFacts
<1>11. \A r \in Reactions : React(w, t, r) => Running(w, t)
  BY DEF React
<1>12. ASSUME NEW r \in Reactions, React(w, t, r)
       PROVE  LET g == entry'[w][t]
              IN  \/ /\ h.out = "run" /\ g.handled = h.handled /\ g.at = h.at
                     /\ g.upto = h.upto /\ g.out \notin {"none", "leased", "fetched"}
                  \/ /\ h.out = "run" /\ g.handled /\ g.at \in Nat
                     /\ g.at >= Current(w, t).id
                     /\ g.out \in {"ok", "run", "close"} /\ (g.out # "close" => g.upto = g.at)
  <2>1. PICK id \in Nat : id = Current(w, t).id
    BY <1>10, <1>11, <1>12
  <2>2. id >= id
    OBVIOUS
  <2> QED
    BY <1>8, <1>12, <2>1, <2>2
<1> QED
  BY <1>1, <1>2, <1>5, <1>6, <1>7, <1>9, <1>12 DEF Posts

\* A reaction that has run is one of the event in hand, until the event is passed.
LEMMA PostedDone ==
    ASSUME BasicInv, NEW w \in Workers, NEW t \in Targets, Posts(w, t)
    PROVE  LET h == entry[w][t]
               g == entry'[w][t]
           IN  \/ h.out = "leased" /\ g.out = "fetched" /\ g.done = h.done
               \/ g.out \notin {"none", "leased", "fetched", "run"}
               \/ g.out = "run" /\ g.done = {}
               \/ /\ Running(w, t) /\ g.out = "run"
                  /\ g.batch = h.batch /\ g.upto = h.upto
                  /\ \E r \in Reacts[t][Current(w, t).kind] : g.done = h.done \union {r}
<1> USE DEF BasicInv, TypeOK
<1>1. PICK h \in Entry : h = entry[w][t]
  OBVIOUS
<1>2. CASE Fetch(w, t)
  <2>1. h.out = "leased" /\ entry'[w][t] = FetchEntry(h, Window(t, h.floor))
    BY <1>1, <1>2 DEF Fetch, Post
  <2>2. FetchEntry(h, Window(t, h.floor)).out = "fetched"
        /\ FetchEntry(h, Window(t, h.floor)).done = h.done
    BY DEF FetchEntry, Entry
  <2> QED
    BY <1>1, <2>1, <2>2
<1>3. \A out : EndEntry(h, out).out = out
  BY DEF EndEntry, Entry
<1>4. \A id, out : PassEntry(h, id, out).out = out /\ PassEntry(h, id, out).done = {}
  BY DEF PassEntry, Entry
<1>5. CASE AskDefer(w, t)
  <2>1. entry'[w][t] = EndEntry(h, "defer")
    BY <1>1, <1>5 DEF AskDefer, Post
  <2> QED
    BY <1>3, <2>1
<1>6. ASSUME NEW how \in Throws, Throw(w, t, how)
      PROVE  entry'[w][t].out \notin {"none", "leased", "fetched", "run"}
  <2>1. entry'[w][t] = EndEntry(h, Verdict(t, h.retry, how))
    BY <1>1, <1>6 DEF Throw, Post
  <2>2. Verdict(t, h.retry, how) \notin {"none", "leased", "fetched", "run"}
    BY DEF Verdict
  <2> QED
    BY <1>3, <2>1, <2>2
<1>7. CASE ReactBatch(w, t)
  <2>1. \E id : entry'[w][t] = PassEntry(h, id, "ok")
    BY <1>1, <1>7 DEF ReactBatch, Post
  <2> QED
    BY <1>4, <2>1
<1>8. ASSUME NEW r \in Reactions, React(w, t, r)
      PROVE  \/ entry'[w][t].out = "ok"
             \/ entry'[w][t].out = "run" /\ entry'[w][t].done = {}
             \/ /\ Running(w, t) /\ entry'[w][t].out = "run"
                /\ entry'[w][t].batch = h.batch /\ entry'[w][t].upto = h.upto
                /\ r \in Reacts[t][Current(w, t).kind]
                /\ entry'[w][t].done = h.done \union {r}
  <2>1. h.out = "run" /\ Running(w, t) /\ r \in Reacts[t][Current(w, t).kind]
    BY <1>1, <1>8 DEF React, Running
  <2>2. \/ \E out \in {"ok", "run"} : Post(w, t, PassEntry(h, Current(w, t).id, out))
        \/ Post(w, t, RunEntry(h, h.done \union {r}))
    BY <1>1, <1>8 DEF React
  <2>3. \/ \E out \in {"ok", "run"} : entry'[w][t] = PassEntry(h, Current(w, t).id, out)
        \/ entry'[w][t] = RunEntry(h, h.done \union {r})
    BY <2>2 DEF Post
  <2>4. \A ran : /\ RunEntry(h, ran).batch = h.batch /\ RunEntry(h, ran).done = ran
                 /\ RunEntry(h, ran).upto = h.upto /\ RunEntry(h, ran).out = h.out
    BY DEF RunEntry, Entry
  <2>5. CASE \E out \in {"ok", "run"} : entry'[w][t] = PassEntry(h, Current(w, t).id, out)
    BY <1>4, <2>5
  <2>6. CASE entry'[w][t] = RunEntry(h, h.done \union {r})
    BY <2>1, <2>4, <2>6
  <2> QED
    BY <2>3, <2>5, <2>6
<1>9. ASSUME NEW n, AskClose(w, t, n) PROVE entry'[w][t].out = "close"
  <2>1. entry'[w][t] = CloseEntry(h, n)
    BY <1>1, <1>9 DEF AskClose, Post
  <2> QED
    BY <2>1 DEF CloseEntry, Entry
<1> QED
  BY <1>1, <1>2, <1>5, <1>6, <1>7, <1>8, <1>9 DEF Posts

\* Progress is made by handlers alone, and no cycle gets to its ack with a handler
\* still to run.
LEMMA ProgressStep ==
    ASSUME BasicInv, ProgressInv, [Next]_vars PROVE ProgressInv'
<1> USE DEF BasicInv, TypeOK
<1> SUFFICES ASSUME NEW v \in Workers, NEW t \in claimed'[v] PROVE Progress(v, t)'
  BY DEF ProgressInv
<1>1. \A w \in Workers : \A u \in claimed[w] : Progress(w, u)
  BY DEF ProgressInv
<1>2. CASE entry'[v] = entry[v] /\ phase'[v] = phase[v] /\ claimed'[v] = claimed[v]
  <2>1. Running(v, t)' <=> Running(v, t)
    BY <1>2 DEF Running
  <2>2. Current(v, t)' = Current(v, t)
    BY <1>2 DEF Current, Remaining
  <2> QED
    BY <1>1, <1>2, <2>1, <2>2 DEF Progress
<1>3. CASE Environment
  BY <1>2, <1>3, CycleSurvives
<1>4. CASE Claim(v)
  <2>1. PICK S \in SUBSET Targets :
          /\ claimed' = [claimed EXCEPT ![v] = S]
          /\ entry' = [entry EXCEPT ![v] = [u \in Targets |->
                 IF u \in S THEN GrantEntry(rows[u]) ELSE NoEntry]]
    BY <1>4, ClaimTakes
  <2>2. phase'[v] = "fetch"
    BY <1>4 DEF Claim
  <2>3. t \in Targets /\ entry'[v][t] = GrantEntry(rows[t])
    BY <2>1
  <2> QED
    BY <2>2, <2>3 DEF Progress, GrantEntry, Running
<1>5. CASE Dispatch(v)
  <2>1. t \in claimed[v] /\ t \in Targets /\ phase'[v] = "handle" /\ entry[v][t].out = "fetched"
    BY <1>5 DEF Dispatch
  <2>2. ~entry[v][t].handled /\ entry[v][t].done = {}
    BY <1>1, <2>1 DEF Progress
  <2>3. entry'[v][t].out \in {"exhausted", "ok", "run"}
    BY <1>5, <2>1, DispatchedEntry
  <2>4. \A n, out : /\ EndEntry(entry[v][t], out).handled = entry[v][t].handled
                    /\ AimEntry(entry[v][t], n, out).handled = entry[v][t].handled
                    /\ EndEntry(entry[v][t], out).done = entry[v][t].done
                    /\ AimEntry(entry[v][t], n, out).done = entry[v][t].done
    <3>1. entry[v][t] \in Entry
      BY <2>1
    <3> QED
      BY <3>1 DEF EndEntry, AimEntry, Entry
  <2>5. entry'[v][t].handled = entry[v][t].handled /\ entry'[v][t].done = entry[v][t].done
    BY <1>5, <2>1, <2>4 DEF Dispatch
  <2> QED
    BY <2>1, <2>2, <2>3, <2>5 DEF Progress
<1>6. CASE Block(v)
  <2>1. /\ t \in claimed[v] /\ entry' = entry /\ entry[v][t].out # "run"
    BY <1>6 DEF Block
  <2> QED
    BY <1>1, <2>1 DEF Progress, Running
<1>7. CASE Ack(v)
  BY <1>7 DEF Ack
<1>8. ASSUME NEW u \in Targets, Posts(v, u) PROVE Progress(v, t)'
  <2>1. /\ t \in claimed[v] /\ t \in Targets /\ phase' = phase /\ phase[v] # "ack"
        /\ (u # t => entry'[v][t] = entry[v][t])
    BY <1>8, PostsPost, PostedRetry
  <2>2. Progress(v, t)
    BY <1>1, <2>1
  <2>3. CASE u # t
    <3>1. Running(v, t)' <=> Running(v, t)
      BY <1>8, <2>1, <2>3, PostsPost DEF Running
    <3>2. Current(v, t)' = Current(v, t)
      BY <2>1, <2>3 DEF Current, Remaining
    <3> QED
      BY <2>1, <2>2, <2>3, <3>1, <3>2 DEF Progress
  <2>4. CASE u = t
    <3>1. PICK h, g : h = entry[v][t] /\ g = entry'[v][t]
      OBVIOUS
    <3>2. \/ h.out = "leased" /\ g.out = "fetched" /\ g.handled = h.handled
          \/ /\ h.out = "run" /\ g.handled = h.handled /\ g.at = h.at
             /\ g.upto = h.upto /\ g.out \notin {"none", "leased", "fetched"}
          \/ g.handled /\ g.out \in {"ok", "run", "close"} /\ (g.out # "close" => g.upto = g.at)
      BY <1>8, <2>1, <2>4, <3>1, PostedProgress
    <3>3. \/ h.out = "leased" /\ g.out = "fetched" /\ g.done = h.done
          \/ g.out \notin {"none", "leased", "fetched", "run"}
          \/ g.out = "run" /\ g.done = {}
          \/ /\ Running(v, t) /\ g.out = "run"
             /\ g.batch = h.batch /\ g.upto = h.upto
             /\ \E r \in Reacts[t][Current(v, t).kind] : g.done = h.done \union {r}
      BY <1>8, <2>1, <2>4, <3>1, PostedDone
    <3>4. g.out \in {"none", "leased", "fetched"} => ~g.handled /\ g.done = {}
      BY <2>2, <3>1, <3>2, <3>3 DEF Progress
    <3>5. g.handled /\ g.out = "run" => g.at = g.upto
      BY <2>2, <3>1, <3>2 DEF Progress
    <3>6. ASSUME Running(v, t)' PROVE g.done \subseteq Reacts[t][Current(v, t)'.kind]
      <4>1. g.out = "run"
        BY <3>1, <3>6 DEF Running
      <4>2. CASE g.done = {}
        BY <4>2
      <4>3. CASE /\ Running(v, t) /\ g.batch = h.batch /\ g.upto = h.upto
                 /\ \E r \in Reacts[t][Current(v, t).kind] : g.done = h.done \union {r}
        <5>1. Current(v, t)' = Current(v, t)
          BY <3>1, <4>3 DEF Current, Remaining
        <5>2. h.done \subseteq Reacts[t][Current(v, t).kind]
          BY <2>2, <3>1, <4>3 DEF Progress
        <5> QED
          BY <4>3, <5>1, <5>2
      <4> QED
        BY <3>3, <4>1, <4>2, <4>3
    <3> QED
      BY <2>1, <3>1, <3>4, <3>5, <3>6 DEF Progress
  <2> QED
    BY <2>3, <2>4
<1>9. ASSUME NEW w \in Workers, Cycle(w), w # v PROVE Progress(v, t)'
  BY <1>2, <1>9, OthersUntouched
<1>10. CASE UNCHANGED vars
  BY <1>2, <1>10 DEF vars
<1>11. CASE Cycle(v)
  BY <1>4, <1>5, <1>6, <1>7, <1>8, <1>11, CyclePosts
<1> QED
  BY <1>3, <1>9, <1>10, <1>11 DEF Next

\* An event whose handler has run is behind the watermark or in the hands of the
\* cycle that ran it, on targets that run one reaction an event or a batch at once.
Simple == \A t \in Targets \ Batched, k \in Kinds : \A r, s \in Reacts[t][k] : r = s

\* A posted result that made progress is ahead of what was handled before.
LEMMA PostedAhead ==
    ASSUME BasicInv, ProgressInv, NEW w \in Workers, NEW t \in Targets, Posts(w, t),
           t \in claimed[w]
    PROVE  /\ entry[w][t].handled =>
                 entry'[w][t].handled /\ entry'[w][t].at >= entry[w][t].at
           /\ entry'[w][t].handled /\ ~entry[w][t].handled => entry[w][t].out = "run"
<1> USE DEF BasicInv, TypeOK
<1>1. PICK h \in Entry : h = entry[w][t]
  OBVIOUS
<1>2. PICK g : g = entry'[w][t]
  OBVIOUS
<1>3. /\ h.handled => h.out \notin {"none", "leased", "fetched"}
      /\ h.handled /\ h.out = "run" => h.at = h.upto
  BY <1>1 DEF ProgressInv, Progress
<1>4. h.at \in Int /\ h.at <= h.at
  BY DEF Entry
<1>5. CASE h.out = "leased" /\ g.handled = h.handled
  BY <1>1, <1>2, <1>3, <1>5
<1>6. CASE h.out = "run" /\ g.handled = h.handled /\ g.at = h.at
  BY <1>1, <1>2, <1>4, <1>6
<1>7. CASE h.out = "run" /\ g.handled /\ g.at \in Nat /\ g.at >= Current(w, t).id
  <2>1. Running(w, t)
    BY <1>1, <1>7 DEF Posts, Fetch, ReactBatch, AskDefer, React, Throw, AskClose
  <2>2. PICK id \in Nat, upto \in Int : /\ id = Current(w, t).id /\ upto = h.upto
                                        /\ id > upto
    <3>1. Current(w, t).id \in Nat /\ Current(w, t).id > entry[w][t].upto
      BY <2>1, RunFacts
    <3>2. h.upto \in Int
      BY DEF Entry
    <3> QED
      BY <1>1, <3>1, <3>2
  <2>3. PICK at \in Nat : at = g.at
    BY <1>7
  <2>4. at >= upto
    BY <1>7, <2>2, <2>3
  <2> QED
    BY <1>1, <1>2, <1>3, <1>7, <2>2, <2>3, <2>4
<1> QED
  BY <1>1, <1>2, <1>5, <1>6, <1>7, PostedProgress

\* What a handler adds to the account is what its result has completed.
LEMMA PostedAccount ==
    ASSUME Simple, BasicInv, ProgressInv, NEW w \in Workers, NEW t \in Targets, Posts(w, t)
    PROVE  /\ \A u \in Targets \ {t} : accounted'[u] = accounted[u]
           /\ \A x \in accounted'[t] \ accounted[t] :
                 t \in claimed[w] /\ entry'[w][t].handled /\ x[1] <= entry'[w][t].at
<1> USE DEF BasicInv, TypeOK
<1>1. CASE UNCHANGED accounted
  BY <1>1
<1>2. PICK h \in Entry : h = entry[w][t]
  OBVIOUS
<1>3. \A id, out : PassEntry(h, id, out).handled /\ PassEntry(h, id, out).at = id
  BY DEF PassEntry, Entry
<1>4. ASSUME NEW r \in Reactions, React(w, t, r)
      PROVE  /\ \A u \in Targets \ {t} : accounted'[u] = accounted[u]
             /\ \A x \in accounted'[t] \ accounted[t] :
                   t \in claimed[w] /\ entry'[w][t].handled /\ x[1] <= entry'[w][t].at
  <2> DEFINE e == Current(w, t)
  <2>1. /\ t \in claimed[w] /\ t \notin Batched /\ Running(w, t)
        /\ r \in Reacts[t][e.kind] \ h.done
        /\ accounted' = [accounted EXCEPT ![t] = @ \union {<<e.id, r>>}]
    BY <1>2, <1>4 DEF React, Running
  <2>2. e \in h.batch /\ h.batch \in SUBSET Events /\ e.id \in Nat
    BY <1>2, <2>1, RunFacts
  <2>3. e.kind \in Kinds
    BY <2>2 DEF Events
  <2>4. h.done \union {r} = Reacts[t][e.kind]
    <3>1. Reacts[t][e.kind] = {r}
      BY <2>1, <2>3 DEF Simple
    <3>2. h.done \subseteq {r}
      BY <1>2, <2>1, <3>1 DEF ProgressInv, Progress
    <3> QED
      BY <3>1, <3>2
  <2>5. \E out : Post(w, t, PassEntry(h, e.id, out))
    BY <1>2, <1>4, <2>4 DEF React, Completes
  <2>6. entry'[w][t].handled /\ entry'[w][t].at = e.id
    BY <1>3, <2>5 DEF Post
  <2>7. PICK id \in Nat : id = e.id /\ id <= id
    BY <2>2
  <2>8. \A x \in accounted'[t] \ accounted[t] : x[1] = id
    BY <2>1, <2>7
  <2> QED
    BY <2>1, <2>6, <2>7, <2>8
<1>5. CASE ReactBatch(w, t)
  <2> DEFINE batch == Payloads(t, h.batch)
             new == UNION {{e.id} \X Reacts[t][e.kind] : e \in batch}
  <2>1. /\ t \in claimed[w] /\ Running(w, t)
        /\ accounted' = [accounted EXCEPT ![t] = @ \union new]
        /\ entry'[w][t] = PassEntry(h, MaxId(batch), "ok")
    BY <1>2, <1>5 DEF ReactBatch, Running, Post
  <2>2. /\ batch \in SUBSET Events /\ Current(w, t) \in batch
        /\ \A e \in batch : e.id < nextId
    BY <1>2, <2>1, RunFacts DEF Payloads, Carried
  <2>3. \A e \in batch : e.id <= MaxId(batch)
    BY <2>2, MaxIdIsLast
  <2>4. \A x \in new : \E e \in batch : x[1] = e.id
    OBVIOUS
  <2>5. entry'[w][t].handled /\ entry'[w][t].at = MaxId(batch)
    BY <1>3, <2>1
  <2> HIDE DEF batch, new
  <2>6. \A x \in new : x[1] <= MaxId(batch)
    BY <2>3, <2>4
  <2> QED
    BY <2>1, <2>5, <2>6
<1>6. ASSUME NEW n, AskClose(w, t, n)
      PROVE  /\ \A u \in Targets \ {t} : accounted'[u] = accounted[u]
             /\ \A x \in accounted'[t] \ accounted[t] :
                   t \in claimed[w] /\ entry'[w][t].handled /\ x[1] <= entry'[w][t].at
  <2> DEFINE new == UNION {{e.id} \X Reacts[t][e.kind] : e \in {f \in log : f.id <= n}}
  <2>1. /\ t \in claimed[w] /\ entry'[w][t] = CloseEntry(h, n)
        /\ accounted' = [accounted EXCEPT ![t] = @ \union new]
    BY <1>2, <1>6 DEF AskClose, Running, Post
  <2>2. \A x \in new : x[1] <= n
    OBVIOUS
  <2>3. entry'[w][t].handled /\ entry'[w][t].at = n
    BY <2>1 DEF CloseEntry, Entry
  <2> HIDE DEF new
  <2> QED
    BY <2>1, <2>2, <2>3
<1>7. \/ UNCHANGED accounted \/ ReactBatch(w, t)
      \/ \E r \in Reactions : React(w, t, r)
      \/ \E n \in Ids(log) \union Ids(entry[w][t].batch) : AskClose(w, t, n)
  BY DEF Posts, Fetch, AskDefer, Throw
<1> QED
  BY <1>1, <1>4, <1>5, <1>6, <1>7

\* What was handled stays behind the watermark or with the cycle that handled it,
\* whose ack moves the watermark there.
LEMMA BehindStep ==
    ASSUME Simple, BasicInv, LeftInv, HolderIsCurrent, KeptInv, ProgressInv, BehindInv,
           [Next]_vars
    PROVE  BehindInv'
<1> USE DEF BasicInv, TypeOK
<1> DEFINE Passed(t, i) == i <= rows[t].at
           Carrying(v, t, i) == t \in claimed[v] /\ entry[v][t].handled /\ i <= entry[v][t].at
<1> SUFFICES ASSUME Undisturbed', NEW t \in Targets, NEW x \in accounted'[t]
             PROVE  Passed(t, x[1])' \/ \E v \in Workers : Carrying(v, t, x[1])'
  BY DEF BehindInv
<1>1. Undisturbed
  BY NextSpends DEF Undisturbed, Charges
<1>2. PICK i : i = x[1]
  OBVIOUS
<1>0. BasicInv' /\ i \in Nat
  <2>1. BasicInv'
    BY NextBasic
  <2> QED
    BY <1>2, <2>1
<1>3. x \in accounted[t] => i \in Nat /\ (Passed(t, i) \/ \E v \in Workers : Carrying(v, t, i))
  BY <1>1, <1>2 DEF BehindInv
<1>4. rows[t] \in Row /\ rows[t].at \in Int
  BY DEF Row
<1>5. ASSUME NEW v \in Workers, t \in claimed[v] PROVE rows[t].by = v
  BY <1>1, <1>5 DEF KeptInv, Kept, Holds
<1> HIDE DEF Passed, Carrying
<1>6. ASSUME x \in accounted[t], rows'[t].at = rows[t].at,
             \A v \in Workers : Carrying(v, t, i) => Carrying(v, t, i)'
      PROVE  Passed(t, i)' \/ \E v \in Workers : Carrying(v, t, i)'
  BY <1>3, <1>6 DEF Passed
<1>7. ASSUME Environment
      PROVE  Passed(t, i)' \/ \E v \in Workers : Carrying(v, t, i)'
  <2>1. UNCHANGED <<claimed, entry, accounted>> /\ rows'[t].at = rows[t].at
    BY <1>7, QuietEnvironment
  <2>2. \A v \in Workers : Carrying(v, t, i) => Carrying(v, t, i)'
    BY <2>1 DEF Carrying
  <2> QED
    BY <1>2, <1>6, <2>1, <2>2
<1>8. ASSUME NEW w \in Workers, NEW v \in Workers, v # w, Cycle(w), Carrying(v, t, i)
      PROVE  Carrying(v, t, i)'
  BY <1>8, OthersUntouched DEF Carrying
<1>9. ASSUME NEW w \in Workers, Claim(w) \/ Dispatch(w) \/ Block(w)
      PROVE  Passed(t, i)' \/ \E v \in Workers : Carrying(v, t, i)'
  <2>1. Cycle(w) /\ accounted' = accounted
    BY <1>9 DEF Cycle, Claim, Dispatch, Block
  <2>2. rows'[t].at = rows[t].at
    <3>1. ~Ack(w)
      BY <1>9 DEF Claim, Dispatch, Block, Ack
    <3> QED
      BY <2>1, <3>1, CycleRows
  <2>3. Carrying(w, t, i) => Carrying(w, t, i)'
    <3>1. CASE Claim(w)
      BY <3>1 DEF Claim, EntryInv, Staged, NoEntry, Carrying
    <3>2. CASE Dispatch(w)
      BY <3>2 DEF Dispatch, ProgressInv, Progress, Carrying
    <3>3. CASE Block(w)
      BY <3>3 DEF Block, Carrying
    <3> QED
      BY <1>9, <3>1, <3>2, <3>3
  <2> QED
    BY <1>6, <1>8, <2>1, <2>2, <2>3
<1>10. ASSUME NEW w \in Workers, Ack(w)
       PROVE  Passed(t, i)' \/ \E v \in Workers : Carrying(v, t, i)'
  <2>1. Cycle(w) /\ accounted' = accounted /\ phase[w] = "ack"
    BY <1>10 DEF Cycle, Ack
  <2>2. CASE ~Acks(w, t)
    <3>1. rows'[t] = rows[t]
      BY <1>10, <2>2 DEF Ack
    <3>2. ~Carrying(w, t, i)
      BY <1>5, <2>2 DEF Carrying, Acks, Holds
    <3> QED
      BY <1>6, <1>8, <2>1, <3>1, <3>2
  <2>3. CASE Acks(w, t)
    <3>1. PICK h \in Entry : h = entry[w][t]
      OBVIOUS
    <3>2. /\ rows'[t] = Finish(rows[t], h) /\ t \in claimed[w]
          /\ h.floor = rows[t].at /\ h.floor <= h.at
      BY <1>10, <2>3, <3>1 DEF Ack, Acks, HolderIsCurrent, EntryInv, Carried
    <3>3. h.out \notin {"none", "leased", "fetched"} \/ ~h.handled
      BY <3>1, <3>2 DEF ProgressInv, Progress
    <3>4. h.out # "run"
      BY <2>1, <3>1, <3>2 DEF ProgressInv, Progress
    <3>5. h.handled => rows'[t].at = h.at
      <4>1. h.at \in Position /\ h.retry \in Position /\ -1 \in Position
        BY DEF Entry
      <4>2. /\ AckRow(rows[t], h.at).at = h.at
            /\ DueRow(rows[t], h.at, -1).at = h.at
            /\ DueRow(rows[t], h.at, h.retry).at = h.at
        BY <1>4 DEF AckRow, DueRow, Row
      <4>3. h.handled => Finish(rows[t], h) \in
                {AckRow(rows[t], h.at), DueRow(rows[t], h.at, -1),
                 DueRow(rows[t], h.at, h.retry)}
        BY <3>3, <3>4 DEF Finish, Advance, Entry, Outcomes
      <4> QED
        BY <3>2, <4>2, <4>3
    <3>6. rows'[t].at \in {rows[t].at, h.at}
      BY <1>4, <3>2, FinishTypes
    <3>7. CASE Passed(t, i)
      <4>1. PICK old \in Int, at \in Int : old = rows[t].at /\ at = h.at /\ old <= at
        BY <1>4, <3>2 DEF Entry
      <4>2. i \in Nat /\ i <= old
        BY <1>2, <1>3, <2>1, <3>7, <4>1 DEF Passed
      <4>3. i <= at
        BY <4>1, <4>2
      <4> QED
        BY <3>6, <4>1, <4>2, <4>3 DEF Passed
    <3>8. ASSUME NEW v \in Workers, Carrying(v, t, i) PROVE Passed(t, i)'
      <4>1. v = w
        BY <1>5, <3>2, <3>8 DEF Carrying
      <4> QED
        BY <3>1, <3>5, <3>8, <4>1 DEF Carrying, Passed
    <3> QED
      BY <1>2, <1>3, <2>1, <3>7, <3>8
  <2> QED
    BY <2>2, <2>3
<1>11. ASSUME NEW w \in Workers, NEW u \in Targets, Posts(w, u)
       PROVE  Passed(t, i)' \/ \E v \in Workers : Carrying(v, t, i)'
  <2>1. Cycle(w) /\ rows' = rows /\ claimed' = claimed
    BY <1>11, PostsPost DEF Cycle, Posts
  <2>2. u # t => entry'[w][t] = entry[w][t] /\ accounted'[t] = accounted[t]
    BY <1>11, PostedRetry, PostedAccount
  <2>3. Carrying(w, t, i) => Carrying(w, t, i)'
    <3>1. CASE u # t
      BY <2>1, <2>2, <3>1 DEF Carrying
    <3>2. CASE u = t /\ Carrying(w, t, i)
      <4>1. /\ t \in claimed[w] /\ entry[w][t].handled /\ i <= entry[w][t].at
            /\ entry'[w][t].handled /\ entry'[w][t].at >= entry[w][t].at
        BY <1>11, <3>2, PostedAhead DEF Carrying
      <4>2. i \in Nat /\ entry[w][t].at \in Int /\ entry'[w][t].at \in Int
        BY <1>2, <1>0 DEF Entry
      <4>3. PICK old \in Int, new \in Int : old = entry[w][t].at /\ new = entry'[w][t].at
        BY <4>2
      <4>4. i <= old /\ new >= old
        BY <4>1, <4>3
      <4>5. i <= new
        BY <4>2, <4>4
      <4> QED
        BY <2>1, <4>1, <4>3, <4>5 DEF Carrying
    <3> QED
      BY <3>1, <3>2
  <2>4. CASE x \in accounted[t]
    BY <1>6, <1>8, <2>1, <2>3, <2>4
  <2>5. CASE x \notin accounted[t]
    <3>1. t \in claimed[w] /\ entry'[w][t].handled /\ i <= entry'[w][t].at
      BY <1>2, <1>11, <2>2, <2>5, PostedAccount
    <3> QED
      BY <2>1, <3>1 DEF Carrying
  <2> QED
    BY <2>4, <2>5
<1>12. ASSUME UNCHANGED vars
       PROVE  Passed(t, i)' \/ \E v \in Workers : Carrying(v, t, i)'
  <2>1. UNCHANGED <<rows, claimed, entry, accounted>>
    BY <1>12 DEF vars
  <2>2. \A v \in Workers : Carrying(v, t, i) => Carrying(v, t, i)'
    BY <2>1 DEF Carrying
  <2> QED
    BY <1>6, <2>1, <2>2
<1>13. Passed(t, i)' \/ \E v \in Workers : Carrying(v, t, i)'
  BY <1>7, <1>9, <1>10, <1>11, <1>12, CyclePosts DEF Next
<1> QED
  BY <1>2, <1>13

\* With blockOnError, a fatal error ends an attempt in "block" and no other result
\* of a handler does away with it.
FatalBlocks == "fatal" \in Throws => \A t \in Targets : Options[t].blockOnError

\* A posted result counts a fatal error only together with its verdict.
LEMMA PostedFatal ==
    ASSUME FatalBlocks, BasicInv, NEW w \in Workers, NEW t \in Targets, Posts(w, t)
    PROVE  /\ phase[w] = "handle" => t \in claimed[w] /\ entry[w][t].out = "run"
           /\ \A u \in Targets : \/ tally'[u] = tally[u]
                                 \/ u = t /\ phase[w] = "handle" /\ entry'[w][t].out = "block"
<1> USE DEF BasicInv, TypeOK
<1>1. phase[w] = "handle" => t \in claimed[w] /\ entry[w][t].out = "run"
  BY DEF Posts, Fetch, ReactBatch, AskDefer, React, Throw, AskClose, Running
<1>2. ASSUME NEW how \in Throws, Throw(w, t, how), NEW u \in Targets, tally'[u] # tally[u]
      PROVE  u = t /\ phase[w] = "handle" /\ entry'[w][t].out = "block"
  <2>1. u = t /\ how = "fatal" /\ phase[w] = "handle"
        /\ entry'[w][t] = EndEntry(entry[w][t], Verdict(t, entry[w][t].retry, how))
    BY <1>2 DEF Throw, Running, Post
  <2>2. Verdict(t, entry[w][t].retry, how) = "block"
    BY <2>1 DEF Verdict, FatalBlocks
  <2>3. entry[w][t] \in Entry
    OBVIOUS
  <2>4. EndEntry(entry[w][t], "block").out = "block"
    BY <2>3 DEF EndEntry, Entry
  <2> QED
    BY <2>1, <2>2, <2>4
<1>3. UNCHANGED tally \/ \E how \in Throws : Throw(w, t, how)
  BY DEF Posts, Fetch, ReactBatch, AskDefer, React, AskClose
<1> QED
  BY <1>1, <1>2, <1>3

\* A fatal error stays on its way to the block until the block lands, and the ack
\* that follows does not lift it.
LEMMA FatalStep ==
    ASSUME FatalBlocks, BasicInv, LeftInv, KeptInv, FatalInv, [Next]_vars PROVE FatalInv'
<1> USE DEF BasicInv, TypeOK
<1> DEFINE Dying(v, t) == t \in claimed[v] /\ phase[v] = "handle" /\ entry[v][t].out = "block"
           Safe(t) == rows[t].blocked \/ \E v \in Workers : Dying(v, t)
<1> SUFFICES ASSUME Undisturbed', NEW t \in Targets, tally'[t].fatal # 0 PROVE Safe(t)'
  BY DEF FatalInv
<1>1. Undisturbed
  BY NextSpends DEF Undisturbed, Charges
<1>2. tally[t].fatal # 0 => Safe(t)
  BY <1>1 DEF FatalInv
<1>3. rows[t] \in Row
  OBVIOUS
<1> HIDE DEF Dying
<1>4. ASSUME tally'[t] = tally[t], rows[t].blocked => rows'[t].blocked,
             \A v \in Workers : Dying(v, t) => Dying(v, t)'
      PROVE  Safe(t)'
  BY <1>2, <1>4
<1>5. ASSUME NEW w \in Workers, NEW v \in Workers, v # w, Cycle(w), Dying(v, t)
      PROVE  Dying(v, t)'
  BY <1>5, OthersUntouched DEF Dying
<1> HIDE DEF Safe
<1>6. ASSUME Environment PROVE Safe(t)'
  <2>1. UNCHANGED <<phase, claimed, entry, tally>> /\ rows'[t].blocked = rows[t].blocked
    BY <1>6, QuietEnvironment
  <2>2. \A v \in Workers : Dying(v, t) => Dying(v, t)'
    BY <2>1 DEF Dying
  <2> QED
    BY <1>4, <2>1, <2>2
<1>7. ASSUME NEW w \in Workers, Claim(w) PROVE Safe(t)'
  <2>1. Cycle(w) /\ tally' = tally /\ ~Dying(w, t)
    BY <1>7 DEF Claim, Cycle, Dying
  <2>2. rows'[t] \in {rows[t], LeaseRow(rows[t], w)}
    BY <1>7 DEF Claim
  <2>3. LeaseRow(rows[t], w).blocked = rows[t].blocked
    BY <1>3 DEF LeaseRow, Row
  <2> QED
    BY <1>4, <1>5, <2>1, <2>2, <2>3
<1>8. ASSUME NEW w \in Workers, Dispatch(w) PROVE Safe(t)'
  <2>1. Cycle(w) /\ rows' = rows /\ ~Dying(w, t)
    BY <1>8 DEF Dispatch, Cycle, Dying
  <2>2. tally'[t].fatal = tally[t].fatal
    BY <1>8 DEF Dispatch
  <2>3. Safe(t)
    BY <1>2, <2>2
  <2> QED
    BY <1>5, <2>1, <2>3 DEF Safe
<1>9. ASSUME NEW w \in Workers, Block(w) PROVE Safe(t)'
  <2>1. Cycle(w) /\ tally' = tally
    BY <1>9 DEF Block, Cycle
  <2>2. BlockRow(rows[t]).blocked
    BY <1>3 DEF BlockRow, Row
  <2>3. rows'[t] = rows[t] \/ rows'[t] = BlockRow(rows[t])
    BY <1>9 DEF Block
  <2>4. Dying(w, t) => rows'[t].blocked
    <3>1. ASSUME Dying(w, t) PROVE rows'[t] = BlockRow(rows[t])
      <4>1. t \in claimed[w] /\ phase[w] = "handle" /\ entry[w][t].out = "block"
        BY <3>1 DEF Dying
      <4>2. CanBlock(rows[t], w)
        BY <1>1, <4>1 DEF KeptInv, Kept, CanBlock
      <4> QED
        BY <1>9, <4>1, <4>2 DEF Block
    <3> QED
      BY <2>2, <3>1
  <2>5. Safe(t)
    BY <1>2, <2>1
  <2>6. rows[t].blocked => rows'[t].blocked
    BY <2>2, <2>3
  <2> QED
    BY <1>5, <2>1, <2>4, <2>5, <2>6 DEF Safe
<1>10. ASSUME NEW w \in Workers, Ack(w) PROVE Safe(t)'
  <2>1. Cycle(w) /\ ~Dying(w, t)
    BY <1>10 DEF Ack, Cycle, Dying
  <2>2. tally'[t] = tally[t]
    <3>1. tally'[t] \in {tally[t], Clean}
      BY <1>10 DEF Ack
    <3> QED
      BY <3>1 DEF Clean
  <2>3. rows'[t].blocked = rows[t].blocked
    <3>1. rows'[t] \in {rows[t], Finish(rows[t], entry[w][t])}
      BY <1>10 DEF Ack
    <3>2. entry[w][t] \in Entry
      OBVIOUS
    <3> QED
      BY <1>3, <3>1, <3>2, FinishBlocks
  <2> QED
    BY <1>4, <1>5, <2>1, <2>2, <2>3
<1>11. ASSUME NEW w \in Workers, NEW u \in Targets, Posts(w, u) PROVE Safe(t)'
  <2>1. Cycle(w) /\ rows' = rows /\ claimed' = claimed /\ phase' = phase
    BY <1>11, PostsPost DEF Cycle, Posts
  <2>2. CASE tally'[t] = tally[t]
    <3>1. Dying(w, t) => u # t
      BY <1>11, PostedFatal DEF Dying
    <3>2. u # t => entry'[w][t] = entry[w][t]
      BY <1>11, PostedRetry
    <3>3. Dying(w, t) => Dying(w, t)'
      BY <2>1, <3>1, <3>2 DEF Dying
    <3> QED
      BY <1>4, <1>5, <2>1, <2>2, <3>3
  <2>3. CASE tally'[t] # tally[t]
    <3>1. t = u /\ phase[w] = "handle" /\ t \in claimed[w] /\ entry'[w][t].out = "block"
      BY <1>11, <2>3, PostedFatal
    <3>2. Dying(w, t)'
      BY <2>1, <3>1 DEF Dying
    <3> QED
      BY <3>2 DEF Safe
  <2> QED
    BY <2>2, <2>3
<1>12. ASSUME UNCHANGED vars PROVE Safe(t)'
  <2>1. UNCHANGED <<rows, phase, claimed, entry, tally>>
    BY <1>12 DEF vars
  <2>2. \A v \in Workers : Dying(v, t) => Dying(v, t)'
    BY <2>1 DEF Dying
  <2> QED
    BY <1>4, <2>1, <2>2
<1> QED
  BY <1>6, <1>7, <1>8, <1>9, <1>10, <1>11, <1>12, CyclePosts DEF Next

\* Budgets, leases and progress: what the two theorems below rest on.
LEMMA UndisturbedInductive == Spec => []LeftInv /\ []KeptInv /\ []ProgressInv
<1>1. Init => LeftInv /\ KeptInv /\ ProgressInv
  BY DrainAssumption DEF Init, LeftInv, KeptInv, ProgressInv
<1>2. BasicInv /\ LeftInv /\ [Next]_vars => LeftInv'
  BY NextSpends
<1>3. BasicInv /\ LeftInv /\ KeptInv /\ [Next]_vars => KeptInv'
  BY KeptStep
<1>4. BasicInv /\ ProgressInv /\ [Next]_vars => ProgressInv'
  BY ProgressStep
<1> QED
  BY <1>1, <1>2, <1>3, <1>4, BasicCorrect, PTL DEF Spec

\* #1278 (finalize, ack): on targets that run one reaction an event, or a batch at
\* once, and until a lease is lost, a process dies or an operator steps in, no event
\* that was handled is handled again, however the rest of its batch fails, defers or
\* asks for a close, and whatever is truncated.
THEOREM PrefixCorrect == ASSUME Simple PROVE Spec => []PrefixRunsOnce
<1>1. Init => BehindInv
  BY DEF Init, BehindInv
<1>2. BasicInv /\ LeftInv /\ HolderIsCurrent /\ KeptInv /\ ProgressInv /\ BehindInv
         /\ [Next]_vars => BehindInv'
  BY BehindStep
<1>3. ASSUME BasicInv, HolderIsCurrent, KeptInv, ProgressInv, BehindInv
      PROVE  PrefixRunsOnce
  <2> USE DEF BasicInv, TypeOK
  <2> SUFFICES ASSUME Undisturbed, NEW w \in Workers, NEW t \in Targets, Running(w, t),
                      NEW e \in Remaining(w, t),
                      {e.id} \X Reacts[t][e.kind] \subseteq accounted[t]
               PROVE  FALSE
    BY DEF PrefixRunsOnce
  <2>1. PICK h \in Entry : h = entry[w][t]
    BY <1>3
  <2>2. /\ t \in claimed[w] /\ h.out = "run" /\ e \in h.batch /\ e \in Events
        /\ e.id > h.upto /\ Reacts[t][e.kind] # {}
    BY <2>1 DEF Running, Remaining, Payloads, Entry
  <2>3. PICK r \in Reacts[t][e.kind] : <<e.id, r>> \in accounted[t]
    BY <2>2
  <2>4. PICK id \in Nat, upto \in Int, floor \in Int :
            id = e.id /\ upto = h.upto /\ floor = h.floor
    BY <2>2 DEF Entry, Events
  <2>5. id > upto /\ floor < id
    BY <1>3, <2>1, <2>2, <2>4 DEF EntryInv, Carried
  <2>6. floor = rows[t].at
    BY <1>3, <2>1, <2>2, <2>4 DEF HolderIsCurrent, KeptInv, Kept
  <2>7. ~(id <= rows[t].at)
    BY <2>5, <2>6
  <2>8. <<id, r>>[1] = id
    OBVIOUS
  <2>9. PICK v \in Workers : t \in claimed[v] /\ entry[v][t].handled /\ id <= entry[v][t].at
    BY <1>3, <2>3, <2>4, <2>7, <2>8 DEF BehindInv
  <2>10. v = w
    BY <1>3, <2>2, <2>9 DEF KeptInv, Kept, Holds
  <2>11. h.at = h.upto
    BY <1>3, <2>1, <2>2, <2>9, <2>10 DEF ProgressInv, Progress
  <2> QED
    BY <2>1, <2>4, <2>5, <2>9, <2>10, <2>11
<1> QED
  BY <1>1, <1>2, <1>3, UndisturbedInductive, BasicCorrect, HolderCorrect, PTL DEF Spec

\* #1296 (finalize, block, ack): where a fatal error blocks, and until a lease is
\* lost, a process dies or an operator steps in, no worker runs handlers on a row on
\* which a NonRetryableError was thrown, even when the ack that followed the block
\* also had progress to acknowledge.
THEOREM PoisonCorrect == ASSUME FatalBlocks PROVE Spec => []PoisonNotRetried
<1>1. Init => FatalInv
  BY DEF Init, FatalInv, Clean
<1>2. BasicInv /\ LeftInv /\ KeptInv /\ FatalInv /\ [Next]_vars => FatalInv'
  BY FatalStep
<1>3. ASSUME BasicInv, KeptInv, FatalInv PROVE PoisonNotRetried
  <2> SUFFICES ASSUME Undisturbed, NEW w \in Workers, NEW t \in Targets, Running(w, t),
                      tally[t].fatal # 0
               PROVE  FALSE
    BY DEF PoisonNotRetried
  <2>1. t \in claimed[w] /\ entry[w][t].out = "run" /\ ~rows[t].blocked /\ rows[t].by = w
    BY <1>3 DEF Running, KeptInv, Kept, Holds
  <2>2. PICK v \in Workers : t \in claimed[v] /\ entry[v][t].out = "block"
    BY <1>3, <2>1 DEF FatalInv
  <2>3. v = w
    BY <1>3, <2>1, <2>2 DEF KeptInv, Kept, Holds
  <2> QED
    BY <2>1, <2>2, <2>3
<1> QED
  BY <1>1, <1>2, <1>3, UndisturbedInductive, BasicCorrect, PTL DEF Spec
==============================================================================
