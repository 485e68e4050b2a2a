---------------------------- MODULE WakeupProofs ----------------------------
(***************************************************************************)
(* Wakeup's types; when every process has the same registry, no            *)
(* checkpoint, local or durable, ever passes an event whose target is not  *)
(* marked; one process of a registry at a time believes that it scans; and *)
(* marks name events of their target and no watermark passes the log.      *)
(***************************************************************************)
EXTENDS Wakeup, NatSets

USE WakeupAssumption

\* The last event of a window is one of its events.
LEMMA LastOfIsLast ==
    ASSUME TypeOK, NEW t \in Targets, NEW a \in Position, NEW b \in Position
    PROVE  /\ LastOf(t, a, b) \in Position /\ LastOf(t, a, b) <= b
           /\ LastOf(t, a, b) <= Len(log)
           /\ \A i \in EventsOf(t, a, b) : i <= LastOf(t, a, b)
           /\ LastOf(t, a, b) > 0 <=> EventsOf(t, a, b) # {}
<1> DEFINE E == EventsOf(t, a, b)
<1>0. a \in Nat /\ b \in Nat /\ b <= MaxLog /\ Len(log) \in Nat
  BY DEF Position, TypeOK
<1>1. E \in SUBSET Nat /\ \A i \in E : i <= b /\ i <= Len(log) /\ 0 < i
  BY <1>0 DEF EventsOf
<1>2. CASE E = {}
  BY <1>0, <1>2 DEF LastOf, Position
<1>3. CASE E # {}
  <2>1. \E m \in E : \A i \in E : i <= m
    BY <1>0, <1>1, <1>3, GreatestNat
  <2> DEFINE m == CHOOSE i \in E : \A j \in E : j <= i
  <2>2. m \in E /\ \A j \in E : j <= m
    BY <2>1
  <2>3. LastOf(t, a, b) = m
    BY <1>3 DEF LastOf
  <2> HIDE DEF m
  <2> QED
    BY <1>0, <1>1, <1>3, <2>2, <2>3 DEF Position
<1> QED
  BY <1>2, <1>3

\* There is a highest watermark.
LEMMA WatermarkIsHighest ==
    ASSUME TypeOK
    PROVE  /\ Watermark \in Position
           /\ \A t \in Targets : rows[t].at <= Watermark
           /\ Watermark = 0 \/ \E t \in Targets : rows[t].at = Watermark
<1> DEFINE W == {rows[t].at : t \in Targets} \cup {0}
<1>1. W \in SUBSET Nat /\ W # {} /\ W \subseteq Position /\ \A i \in W : i <= MaxLog
  BY DEF TypeOK, Row, Position
<1>2. \E m \in W : \A i \in W : i <= m
  BY <1>1, GreatestNat
<1>3. \E a \in Position : /\ \A t \in Targets : rows[t].at <= a
                          /\ a = 0 \/ \E t \in Targets : rows[t].at = a
  BY <1>1, <1>2
<1> QED
  BY <1>3 DEF Watermark

-----------------------------------------------------------------------------
(* Types.                                                                  *)

LEMMA LocalTyped ==
    ASSUME NEW l \in Local, NEW c, NEW at \in Position, NEW granted \in BOOLEAN
    PROVE  /\ Arm(l) \in Local /\ Look(l) \in Local /\ Idle(l) \in Local
           /\ Believe(l, granted) \in Local /\ Booted(l, at) \in Local
           /\ CaughtUp(l, at) \in Local /\ Advanced(l, c, at, granted) \in Local
<1>1. Arm(l) \in Local /\ Look(l) \in Local /\ Idle(l) \in Local
  BY DEF Local, Arm, Look, Idle
<1>2. Believe(l, granted) \in Local /\ Booted(l, at) \in Local
  BY DEF Local, Believe, Booted
<1>3. CaughtUp(l, at) \in Local
  BY DEF Local, CaughtUp
<1>4. Advanced(l, c, at, granted) \in Local
  BY DEF Local, Advanced
<1> QED
  BY <1>1, <1>2, <1>3, <1>4

LEMMA SettleTyped ==
    ASSUME NEW s \in Settle, NEW last \in Position, NEW acked \in BOOLEAN,
           NEW stage \in {"call", "drain", "draining"}
    PROVE  /\ Ring(s) \in Settle /\ Postponed(s) \in Settle /\ Stage(s, stage) \in Settle
           /\ Scanning(s, last) \in Settle /\ Scanned(s, last) \in Settle
           /\ Judged(s, acked) \in Settle /\ NextPass(s) \in Settle /\ Rest(s) \in Settle
<1>1. Ring(s) \in Settle /\ Postponed(s) \in Settle
  BY DEF Settle, Ring, Postponed
<1>2. Stage(s, stage) \in Settle
  BY DEF Settle, Stage
<1>3. Scanning(s, last) \in Settle
  BY DEF Settle, Scanning
<1>4. 0 \in Position /\ (last > s.before) \in BOOLEAN
  BY DEF Position
<1>5. Scanned(s, last) \in Settle
  BY <1>4 DEF Settle, Scanned
<1>6. Judged(s, acked) \in Settle
  BY DEF Settle, Judged
<1>7. NextPass(s) \in Settle /\ Rest(s) \in Settle
  BY DEF Settle, NextPass, Rest
<1> QED
  BY <1>1, <1>2, <1>3, <1>5, <1>6, <1>7

LEMMA FreshTyped ==
    /\ Fresh \in Local /\ Asleep \in Settle /\ Ring(Asleep) \in Settle
    /\ Stage(Asleep, "call") \in Settle /\ EmptyRow \in Row
    /\ NoScan \in Scan /\ NoPass \in Pass
<1>0. 0 \in Position
  BY DEF Position
<1>1. Fresh \in Local
  BY <1>0 DEF Fresh, Local
<1>2. Asleep \in Settle
  BY <1>0 DEF Asleep, Settle
<1>3. Ring(Asleep) \in Settle /\ Stage(Asleep, "call") \in Settle
  BY <1>0, <1>2, SettleTyped
<1>4. EmptyRow \in Row /\ NoScan \in Scan /\ NoPass \in Pass
  BY <1>0 DEF EmptyRow, Row, Holder, NoScan, Scan, NoPass, Pass
<1> QED
  BY <1>1, <1>2, <1>3, <1>4

LEMMA StartTyped ==
    ASSUME NEW l \in Local PROVE Start(l) \in Scan
  BY DEF Start, Local, Scan, Position

LEMMA ScanTyped ==
    ASSUME NEW s \in Scan, NEW after \in Position, NEW last \in Position,
           NEW stage \in {"query", "read", "mark"}
    PROVE  Stage(s, stage) \in Scan /\ Saw(s, stage, after, last) \in Scan
<1>1. Stage(s, stage) \in Scan
  BY DEF Scan, Stage
<1>2. Saw(s, stage, after, last) \in Scan
  BY DEF Scan, Saw
<1> QED
  BY <1>1, <1>2

LEMMA SentTyped ==
    ASSUME NEW s \in Scan, NEW granted \in BOOLEAN PROVE Sent(s, granted) \in Scan
  BY DEF Scan, Sent

LEMMA RowTyped ==
    ASSUME NEW r \in Row, NEW id \in Position, NEW h \in Holder
    PROVE  Raise(r, id) \in Row /\ Take(r, h) \in Row /\ Acked(r, id) \in Row
<1>1. Larger(r.mark, id) \in Position
  BY DEF Row, Larger
<1> QED
  BY <1>1 DEF Raise, Take, Acked, Row, Holder

LEMMA InitTyped == Init => TypeOK
<1> SUFFICES ASSUME Init PROVE TypeOK
  OBVIOUS
<1>1. log \in Seq(Targets \cup {Inert}) /\ Len(log) <= MaxLog
  BY DEF Init
<1>2. shared \in Position /\ crashes \in 0 .. MaxCrashes /\ Nobody \in Holder
  BY DEF Init, Position, Holder
<1> QED
  BY <1>1, <1>2, FreshTyped DEF Init, TypeOK

\* A call returns with a checkpoint its process may take.
LEMMA ReturnTyped ==
    ASSUME TypeOK, NEW p \in Procs, NEW c \in Callers, NEW last \in Position,
           Return(p, c, last)
    PROVE  scan' \in [Procs -> [Callers -> Scan]] /\ settle' \in [Procs -> Settle]
<1>1. scan' \in [Procs -> [Callers -> Scan]]
  BY FreshTyped DEF Return, TypeOK
<1>2. Scanned(settle[p], last) \in Settle
  BY SettleTyped DEF TypeOK
<1>3. settle' \in [Procs -> Settle]
  BY <1>2 DEF Return, TypeOK
<1> QED
  BY <1>1, <1>3

LEMMA ResolveTyped ==
    ASSUME TypeOK, NEW p \in Procs, NEW c \in Callers, NEW after \in Position,
           NEW last \in Position, Resolve(p, c, after, last)
    PROVE  /\ local' \in [Procs -> Local]
           /\ scan' \in [Procs -> [Callers -> Scan]] /\ settle' \in [Procs -> Settle]
<1>1. CASE Found(p, after, last) = {}
  <2>1. CaughtUp(local[p], last) \in Local
    BY LocalTyped DEF TypeOK
  <2>2. local' \in [Procs -> Local]
    BY <1>1, <2>1 DEF Resolve, TypeOK
  <2>3. Return(p, c, last)
    BY <1>1 DEF Resolve
  <2> QED
    BY <2>2, <2>3, ReturnTyped
<1>2. CASE Found(p, after, last) # {}
  <2>0. scan[p][c] \in Scan /\ "mark" \in {"query", "read", "mark"}
    BY DEF TypeOK
  <2>1. Saw(scan[p][c], "mark", after, last) \in Scan
    BY <2>0, ScanTyped
  <2>2. /\ scan' = [scan EXCEPT ![p][c] = Saw(@, "mark", after, last)]
        /\ local' = local /\ settle' = settle
    BY <1>2, Zenon DEF Resolve
  <2>3. scan' \in [Procs -> [Callers -> Scan]]
    BY <2>1, <2>2 DEF TypeOK
  <2> QED
    BY <2>2, <2>3 DEF TypeOK
<1> QED
  BY <1>1, <1>2

LEMMA FinishTyped ==
    ASSUME TypeOK, NEW p \in Procs, NEW c \in Callers, NEW granted \in BOOLEAN,
           Finish(p, c, granted)
    PROVE  /\ local' \in [Procs -> Local]
           /\ scan' \in [Procs -> [Callers -> Scan]] /\ settle' \in [Procs -> Settle]
<1>1. scan[p][c].last \in Position
  BY DEF TypeOK, Scan
<1>2. Advanced(local[p], c, scan[p][c].last, granted) \in Local
  BY <1>1, LocalTyped DEF TypeOK
<1>3. local' \in [Procs -> Local]
  BY <1>2 DEF Finish, TypeOK
<1>4. Return(p, c, scan[p][c].last)
  BY DEF Finish
<1> QED
  BY <1>1, <1>3, <1>4, ReturnTyped

LEMMA DrainedTyped ==
    ASSUME TypeOK, NEW p \in Procs, NEW c \in {"settle", "worker"},
           NEW acked \in BOOLEAN, Drained(p, c, acked)
    PROVE  settle' \in [Procs -> Settle]
<1>1. 0 \in Position
  BY DEF Position
<1>2. Judged(settle[p], acked) \in Settle
  BY <1>1, SettleTyped DEF TypeOK
<1> QED
  BY <1>2 DEF Drained, TypeOK

LEMMA WindowEndTyped ==
    ASSUME TypeOK, NEW after \in Position
    PROVE  /\ WindowEnd(after) \in Position /\ after <= WindowEnd(after)
           /\ after <= Len(log) => WindowEnd(after) <= Len(log)
<1>1. Len(log) \in Nat /\ Len(log) <= MaxLog
  BY DEF TypeOK
<1> QED
  BY <1>1 DEF WindowEnd, Larger, Smaller, Position

\* A fetch ends within the log.
LEMMA FetchEndTyped ==
    ASSUME TypeOK, NEW t \in Targets
    PROVE  FetchEnd(t) \in Position /\ FetchEnd(t) <= Len(log)
<1>1. Len(log) \in Nat /\ Len(log) <= MaxLog /\ rows[t].at \in Position
  BY DEF TypeOK, Row
<1> QED
  BY <1>1 DEF FetchEnd, Smaller, Position

LEMMA SeedTyped ==
    ASSUME TypeOK PROVE SeedPosition \in Position
<1>1. Watermark \in Position
  BY WatermarkIsHighest
<1> QED
  BY <1>1 DEF TypeOK, SeedPosition, Larger, Position

\* Commits, wake-ups and the boot keep the types.
LEMMA WakeTyped ==
    ASSUME TypeOK, NEW p \in Procs,
           \/ \E k \in Targets \cup {Inert} : Commit(p, k)
           \/ Notified(p) \/ Fire(p) \/ Boot(p)
    PROVE  TypeOK'
<1>0. /\ local[p] \in Local /\ settle[p] \in Settle
      /\ Arm(local[p]) \in Local /\ Ring(settle[p]) \in Settle
      /\ Postponed(settle[p]) \in Settle /\ Booted(local[p], SeedPosition) \in Local
  <2>1. local[p] \in Local /\ settle[p] \in Settle /\ 0 \in Position
    BY DEF TypeOK, Position
  <2>2. Arm(local[p]) \in Local /\ Booted(local[p], SeedPosition) \in Local
    BY <2>1, SeedTyped, LocalTyped
  <2>3. Ring(settle[p]) \in Settle /\ Postponed(settle[p]) \in Settle
    BY <2>1, SettleTyped
  <2> QED
    BY <2>1, <2>2, <2>3
<1>1. ASSUME NEW k \in Targets \cup {Inert}, Commit(p, k) PROVE TypeOK'
  <2>1. log' \in Seq(Targets \cup {Inert}) /\ Len(log') <= MaxLog
    BY <1>1 DEF Commit, TypeOK
  <2>2. local' \in [Procs -> Local] /\ settle' \in [Procs -> Settle]
    BY <1>0, <1>1 DEF Commit, TypeOK
  <2>3. notice' \in [Procs -> BOOLEAN]
    BY <1>1 DEF Commit, TypeOK
  <2> QED
    BY <1>1, <2>1, <2>2, <2>3 DEF Commit, TypeOK
<1>2. CASE Notified(p)
  BY <1>0, <1>2 DEF Notified, TypeOK
<1>3. CASE Fire(p)
  <2>1. settle' \in [Procs -> Settle]
    BY <1>0, <1>3, FreshTyped DEF Fire, TypeOK
  <2> QED
    BY <1>3, <2>1 DEF Fire, TypeOK
<1>4. CASE Boot(p)
  BY <1>0, <1>4 DEF Boot, TypeOK
<1> QED
  BY <1>1, <1>2, <1>3, <1>4

\* So do the steps of a correlate call.
LEMMA ScanStepTyped ==
    ASSUME TypeOK, NEW p \in Procs,
           \/ SettleScan(p) \/ PollScan(p) \/ \E c \in Callers : Correlate(p, c)
    PROVE  TypeOK'
<1>0. /\ local[p] \in Local /\ settle[p] \in Settle /\ local[p].checkpoint \in Position
      /\ 0 \in Position /\ "settle" \in Callers /\ "poll" \in Callers
      /\ Start(local[p]) \in Scan
  <2>1. local[p] \in Local /\ settle[p] \in Settle /\ 0 \in Position
    BY DEF TypeOK, Position
  <2> QED
    BY <2>1, StartTyped DEF Local, Callers
<1>1. CASE SettleScan(p)
  <2>1. /\ Scanning(settle[p], local[p].checkpoint) \in Settle
        /\ Stage(settle[p], "drain") \in Settle
    BY <1>0, SettleTyped
  <2>2. /\ \/ /\ settle' = [settle EXCEPT ![p] = Scanning(@, local[p].checkpoint)]
              /\ scan' = [scan EXCEPT ![p]["settle"] = Start(local[p])]
           \/ settle' = [settle EXCEPT ![p] = Stage(@, "drain")] /\ scan' = scan
        /\ UNCHANGED <<log, rows, shared, lease, local, pass, notice, crashes>>
    BY <1>1, Zenon DEF SettleScan
  <2>3. settle' \in [Procs -> Settle] /\ scan' \in [Procs -> [Callers -> Scan]]
    <3>1. settle' \in [Procs -> Settle]
      BY <1>0, <2>1, <2>2 DEF TypeOK
    <3>2. CASE scan' = [scan EXCEPT ![p]["settle"] = Start(local[p])]
      BY <1>0, <3>1, <3>2 DEF TypeOK
    <3>3. CASE scan' = scan
      BY <3>1, <3>3 DEF TypeOK
    <3> QED
      BY <2>2, <3>2, <3>3
  <2>4. UNCHANGED <<log, rows, shared, lease, local, pass, notice, crashes>>
    BY <1>1 DEF SettleScan
  <2> QED
    BY <2>3, <2>4 DEF TypeOK
<1>2. CASE PollScan(p)
  <2>1. Look(local[p]) \in Local
    BY <1>0, LocalTyped
  <2> QED
    BY <1>0, <1>2, <2>1 DEF PollScan, TypeOK
<1>3. ASSUME NEW c \in Callers, Correlate(p, c) PROVE TypeOK'
  <2>0. scan[p][c] \in Scan /\ scan[p][c].after \in Position /\ scan[p][c].last \in Position
    BY DEF TypeOK, Scan
  <2>g. Grantable(p) \in BOOLEAN
    BY DEF Grantable
  <2>k. Knows[p] \in Registries /\ p \in Holder
    BY DEF Registries, Holder
  <2>1. CASE Ask(p, c)
    <3>1. Believe(local[p], Grantable(p)) \in Local
      BY <1>0, <2>g, LocalTyped
    <3>2. local' \in [Procs -> Local]
      BY <2>1, <3>1 DEF Ask, TypeOK
    <3>3. CASE Grantable(p)
      <4>1. Stage(scan[p][c], "query") \in Scan
        BY <2>0, "query" \in {"query", "read", "mark"}, ScanTyped
      <4>2. /\ lease' = [lease EXCEPT ![Knows[p]] = p]
            /\ scan' = [scan EXCEPT ![p][c] = Stage(@, "query")]
        BY <2>1, <3>3, Zenon DEF Ask
      <4>3. scan' \in [Procs -> [Callers -> Scan]]
        BY <4>1, <4>2 DEF TypeOK
      <4>4. lease' \in [Registries -> Holder]
        BY <2>k, <4>2 DEF TypeOK
      <4>5. settle' = settle /\ UNCHANGED <<log, rows, shared, pass, notice, crashes>>
        BY <2>1, <3>3, Zenon DEF Ask
      <4> QED
        BY <3>2, <4>3, <4>4, <4>5 DEF TypeOK
    <3>4. CASE ~Grantable(p)
      <4>1. Return(p, c, local[p].checkpoint)
        BY <2>1, <3>4 DEF Ask
      <4>2. scan' \in [Procs -> [Callers -> Scan]] /\ settle' \in [Procs -> Settle]
        BY <1>0, <4>1, ReturnTyped
      <4> QED
        BY <2>1, <3>2, <3>4, <4>2 DEF Ask, TypeOK
    <3> QED
      BY <3>3, <3>4
  <2>2. CASE Query(p, c)
    <3> DEFINE after == Larger(local[p].checkpoint, scan[p][c].after)
               last == WindowEnd(after)
    <3>1. after \in Position
      BY <1>0, <2>0 DEF Larger
    <3>2. last \in Position
      BY <3>1, WindowEndTyped
    <3>3. Query(p, c) => \/ /\ scan' = [scan EXCEPT ![p][c] = Saw(@, "read", after, last)]
                            /\ local' = local /\ settle' = settle
                         \/ Resolve(p, c, after, last)
      BY DEF Query
    <3>4. UNCHANGED <<log, rows, shared, lease, pass, notice, crashes>>
      BY <2>2 DEF Query
    <3> HIDE DEF after, last
    <3>5. Saw(scan[p][c], "read", after, last) \in Scan
      BY <2>0, <3>1, <3>2, ScanTyped
    <3>6. CASE Resolve(p, c, after, last)
      <4>1. /\ local' \in [Procs -> Local] /\ settle' \in [Procs -> Settle]
            /\ scan' \in [Procs -> [Callers -> Scan]]
        BY <3>1, <3>2, <3>6, ResolveTyped
      <4> QED
        BY <3>4, <4>1 DEF TypeOK
    <3>7. CASE /\ scan' = [scan EXCEPT ![p][c] = Saw(@, "read", after, last)]
               /\ local' = local /\ settle' = settle
      <4>1. scan' \in [Procs -> [Callers -> Scan]]
        BY <3>5, <3>7 DEF TypeOK
      <4> QED
        BY <3>4, <3>7, <4>1 DEF TypeOK
    <3> QED
      BY <2>2, <3>3, <3>6, <3>7
  <2>3. CASE Read(p, c)
    <3>1. Resolve(p, c, scan[p][c].after, scan[p][c].last)
      BY <2>3 DEF Read
    <3>2. /\ local' \in [Procs -> Local] /\ settle' \in [Procs -> Settle]
          /\ scan' \in [Procs -> [Callers -> Scan]]
      BY <2>0, <3>1, ResolveTyped
    <3> QED
      BY <2>3, <3>2 DEF Read, TypeOK
  <2>4. CASE Mark(p, c)
    <3>1. rows' \in [Targets -> Row]
      <4>1. ASSUME NEW t \in Targets
            PROVE  Raise(rows[t], LastOf(t, scan[p][c].after, scan[p][c].last)) \in Row
        <5>1. LastOf(t, scan[p][c].after, scan[p][c].last) \in Position
          BY <2>0, LastOfIsLast
        <5>2. rows[t] \in Row /\ Nobody \in Holder
          BY DEF TypeOK, Holder
        <5> QED
          BY <5>1, <5>2, RowTyped
      <4> QED
        BY <2>4, <4>1 DEF Mark, TypeOK
    <3>2. shared' \in Position
      BY <2>0, <2>4 DEF Mark, Larger, TypeOK
    <3>3. lease' \in [Registries -> Holder]
      BY <2>4, <2>k DEF Mark, TypeOK
    <3>4. /\ local' \in [Procs -> Local] /\ settle' \in [Procs -> Settle]
          /\ scan' \in [Procs -> [Callers -> Scan]]
      <4>1. CASE Networked
        <5>1. Sent(scan[p][c], Grantable(p)) \in Scan
          BY <2>0, <2>g, SentTyped
        <5>2. /\ scan' = [scan EXCEPT ![p][c] = Sent(@, Grantable(p))]
              /\ local' = local /\ settle' = settle
          BY <2>4, <4>1, Zenon DEF Mark
        <5> QED
          BY <5>1, <5>2 DEF TypeOK
      <4>2. CASE ~Networked
        <5>1. Finish(p, c, Grantable(p))
          BY <2>4, <4>2 DEF Mark
        <5> QED
          BY <2>g, <5>1, FinishTyped
      <4> QED
        BY <4>1, <4>2
    <3>5. UNCHANGED <<log, pass, notice, crashes>>
      BY <2>4 DEF Mark
    <3> QED
      BY <3>1, <3>2, <3>3, <3>4, <3>5 DEF TypeOK
  <2>5. CASE Marked(p, c)
    <3> DEFINE granted == scan[p][c].granted /\ lease[Knows[p]] = p
    <3>1. granted \in BOOLEAN /\ Finish(p, c, granted)
      BY <2>0, <2>5 DEF Marked, Scan
    <3>2. /\ local' \in [Procs -> Local] /\ settle' \in [Procs -> Settle]
          /\ scan' \in [Procs -> [Callers -> Scan]]
      BY <3>1, FinishTyped
    <3> QED
      BY <2>5, <3>2 DEF Marked, TypeOK
  <2> QED
    BY <1>3, <2>1, <2>2, <2>3, <2>4, <2>5 DEF Correlate
<1> QED
  BY <1>1, <1>2, <1>3

\* And those of a drain call and of the loop around it.
LEMMA DrainStepTyped ==
    ASSUME TypeOK, NEW p \in Procs, DrainStep(p) \/ Judge(p)
    PROVE  TypeOK'
<1>0. /\ local[p] \in Local /\ settle[p] \in Settle /\ Idle(local[p]) \in Local
      /\ "settle" \in {"settle", "worker"} /\ 0 \in Position /\ FALSE \in BOOLEAN
  <2>1. local[p] \in Local /\ settle[p] \in Settle /\ 0 \in Position
    BY DEF TypeOK, Position
  <2> QED
    BY <2>1, LocalTyped
<1>1. CASE SkipDrain(p)
  <2>1. settle' \in [Procs -> Settle]
    BY <1>0, <1>1, DrainedTyped DEF SkipDrain
  <2> QED
    BY <1>1, <2>1 DEF SkipDrain, TypeOK
<1>2. ASSUME NEW c \in {"settle", "worker"}, Claim(p, c) PROVE TypeOK'
  <2>1. rows' \in [Targets -> Row]
    <3>1. ASSUME NEW t \in Targets PROVE Take(rows[t], p) \in Row
      BY <1>0, RowTyped DEF TypeOK, Holder
    <3> QED
      BY <1>2, <3>1 DEF Claim, TypeOK
  <2>2. CASE Claimable = {} /\ ~Networked
    <3>1. /\ local' = [local EXCEPT ![p] = Idle(@)] /\ Drained(p, c, FALSE)
          /\ pass' = pass
      BY <1>2, <2>2, Zenon DEF Claim
    <3>2. settle' \in [Procs -> Settle]
      BY <1>0, <3>1, DrainedTyped
    <3> QED
      BY <1>0, <1>2, <2>1, <3>1, <3>2 DEF Claim, TypeOK
  <2>3. CASE ~(Claimable = {} /\ ~Networked)
    <3> DEFINE upto == [t \in Targets |->
                          IF t \in Claimable THEN FetchEnd(t) ELSE 0]
               call == [at |-> IF Claimable = {} THEN "empty" ELSE "working",
                        for |-> c, upto |-> upto]
    <3>1. upto \in [Targets -> Position]
      BY <1>0, FetchEndTyped
    <3> HIDE DEF upto
    <3>2. call \in Pass
      BY <3>1 DEF Pass
    <3>3. /\ pass' = [pass EXCEPT ![p] = call] /\ local' = local
          /\ settle' = IF c = "settle" THEN [settle EXCEPT ![p] = Stage(@, "draining")]
                       ELSE settle
      BY <1>2, <2>3, Zenon DEF Claim, upto
    <3> HIDE DEF call
    <3>4. pass' \in [Procs -> Pass]
      BY <3>2, <3>3 DEF TypeOK
    <3>5. Stage(settle[p], "draining") \in Settle
      BY <1>0, "draining" \in {"call", "drain", "draining"}, SettleTyped
    <3>6. settle' \in [Procs -> Settle]
      BY <3>3, <3>5 DEF TypeOK
    <3>7. UNCHANGED <<log, shared, lease, scan, notice, crashes>>
      BY <1>2 DEF Claim
    <3> QED
      BY <2>1, <3>3, <3>4, <3>6, <3>7 DEF TypeOK
  <2> QED
    BY <2>2, <2>3
<1>3. CASE Disarm(p)
  <2>1. pass[p].for \in {"settle", "worker"} /\ Drained(p, pass[p].for, FALSE)
    BY <1>3 DEF Disarm, TypeOK, Pass
  <2>2. settle' \in [Procs -> Settle]
    BY <1>0, <2>1, DrainedTyped
  <2> QED
    BY <1>0, <1>3, <2>2, FreshTyped DEF Disarm, TypeOK
<1>4. CASE Ack(p)
  <2>1. pass[p].for \in {"settle", "worker"} /\ Drained(p, pass[p].for, TRUE)
    BY <1>4 DEF Ack, TypeOK, Pass
  <2>2. settle' \in [Procs -> Settle]
    BY <2>1, TRUE \in BOOLEAN, DrainedTyped
  <2>3. rows' \in [Targets -> Row]
    <3>1. ASSUME NEW t \in Targets PROVE Acked(rows[t], pass[p].upto[t]) \in Row
      <4>1. rows[t] \in Row /\ pass[p].upto[t] \in Position /\ Nobody \in Holder
        BY DEF TypeOK, Pass, Holder
      <4> QED
        BY <4>1, RowTyped
    <3> QED
      BY <1>4, <3>1 DEF Ack, TypeOK
  <2> QED
    BY <1>4, <2>2, <2>3, FreshTyped DEF Ack, TypeOK
<1>5. CASE Judge(p)
  <2>1. NextPass(settle[p]) \in Settle /\ Rest(settle[p]) \in Settle
    BY <1>0, SettleTyped
  <2> QED
    BY <1>5, <2>1 DEF Judge, TypeOK
<1> QED
  BY <1>1, <1>2, <1>3, <1>4, <1>5 DEF DrainStep

\* And what time and crashes do.
LEMMA TimeTyped ==
    ASSUME TypeOK, Expires \/ \E p \in Procs : Crash(p)
    PROVE  TypeOK'
<1>1. ASSUME NEW p \in Procs, Lapse(p) PROVE TypeOK'
  <2>1. Believe(local[p], FALSE) \in Local
    BY 0 \in Position, FALSE \in BOOLEAN, LocalTyped DEF TypeOK, Position
  <2> QED
    BY <1>1, <2>1 DEF Lapse, TypeOK
<1>2. ASSUME NEW k \in Registries, LeaseExpires(k) PROVE TypeOK'
  BY <1>2 DEF LeaseExpires, TypeOK, Holder
<1>3. ASSUME NEW t \in Targets, RowExpires(t) PROVE TypeOK'
  <2>1. rows[t] \in Row /\ 0 \in Position /\ Nobody \in Holder
    BY DEF TypeOK, Position, Holder
  <2>2. Take(rows[t], Nobody) \in Row
    BY <2>1, RowTyped
  <2> QED
    BY <1>3, <2>2 DEF RowExpires, TypeOK
<1>4. ASSUME NEW p \in Procs, Crash(p) PROVE TypeOK'
  <2>1. rows' \in [Targets -> Row]
    <3>1. ASSUME NEW t \in Targets PROVE Take(rows[t], Ghost) \in Row
      <4>1. rows[t] \in Row /\ 0 \in Position /\ Ghost \in Holder
        BY DEF TypeOK, Position, Holder
      <4> QED
        BY <4>1, RowTyped
    <3> QED
      BY <1>4, <3>1 DEF Crash, TypeOK
  <2>2. lease' \in [Registries -> Holder]
    BY <1>4 DEF Crash, TypeOK, Holder
  <2>3. local' \in [Procs -> Local] /\ settle' \in [Procs -> Settle]
    BY <1>4, FreshTyped DEF Crash, TypeOK
  <2>4. scan' \in [Procs -> [Callers -> Scan]] /\ pass' \in [Procs -> Pass]
    BY <1>4, FreshTyped DEF Crash, TypeOK
  <2>5. notice' \in [Procs -> BOOLEAN] /\ crashes' \in 0 .. MaxCrashes
    BY <1>4 DEF Crash, TypeOK
  <2>6. log' = log /\ shared' = shared
    BY <1>4 DEF Crash
  <2> QED
    BY <2>1, <2>2, <2>3, <2>4, <2>5, <2>6 DEF TypeOK
<1> QED
  BY <1>1, <1>2, <1>3, <1>4 DEF Expires

LEMMA StepTyped == TypeOK /\ [Next]_vars => TypeOK'
<1> SUFFICES ASSUME TypeOK, [Next]_vars PROVE TypeOK'
  OBVIOUS
<1>1. ASSUME NEW p \in Procs, Runs(p) PROVE TypeOK'
  BY <1>1, WakeTyped, ScanStepTyped, DrainStepTyped DEF Runs
<1>2. ASSUME NEW p \in Procs, NEW k \in Targets \cup {Inert}, Commit(p, k) PROVE TypeOK'
  BY <1>2, WakeTyped
<1>3. CASE Expires \/ \E p \in Procs : Crash(p)
  BY <1>3, TimeTyped
<1>4. CASE UNCHANGED vars
  BY <1>4 DEF TypeOK, vars
<1> QED
  BY <1>1, <1>2, <1>3, <1>4 DEF Next

\* Every position stays inside the log's bound, every holder is a process, a
\* dead one or nobody, and the settle loop is in one of its stages
\* (correlate-cycle.ts, settle.ts, in-memory-store.ts subscribe and claim).
THEOREM TypeCorrect == Spec => []TypeOK
<1>1. Init => TypeOK
  BY InitTyped
<1>2. TypeOK /\ [Next]_vars => TypeOK'
  BY StepTyped
<1> QED
  BY <1>1, <1>2, PTL DEF Spec

-----------------------------------------------------------------------------
(* No checkpoint passes an unmarked event.  The inductive invariant says   *)
(* the same of every position a checkpoint can come from: the durable one, *)
(* the start of each scan, the end of a scan whose marks are stored, and,  *)
(* while there is no durable one, the watermarks, which are then all zero. *)

\* The first `a` events of lg exist and those of registry K are marked in rw.
Sound(lg, rw, K, a) ==
    a <= Len(lg) /\ \A i \in 1 .. a : lg[i] \in K => rw[lg[i]].mark >= i

SharedSound == \A p \in Procs : Sound(log, rows, Knows[p], shared)

LocalSound == \A p \in Procs : Sound(log, rows, Knows[p], local[p].checkpoint)

\* A call starts from a sound position; its end is sound once marked.
SoundCall(lg, rw, K, s) ==
    /\ Sound(lg, rw, K, s.after)
    /\ s.last <= Len(lg)
    /\ s.at = "marked" => Sound(lg, rw, K, s.last)

ScanSound ==
    \A p \in Procs, c \in Callers : SoundCall(log, rows, Knows[p], scan[p][c])

\* With no durable checkpoint nothing was ever marked.
Unseeded ==
    shared = 0 =>
        \A t \in Targets :
            /\ rows[t].mark = 0 /\ rows[t].at = 0
            /\ \A p \in Procs : pass[p].upto[t] = 0

Safe == TypeOK /\ SharedSound /\ LocalSound /\ ScanSound /\ Unseeded

SameKnows == \A p, q \in Procs : Knows[p] = Knows[q]

\* Appending events and raising marks keeps what is sound.
LEMMA SoundStable ==
    ASSUME NEW lg, NEW lg2, NEW rw, NEW rw2, NEW K \in SUBSET Targets,
           NEW a \in Position, Sound(lg, rw, K, a),
           Len(lg) \in Nat, Len(lg2) \in Nat, Len(lg) <= Len(lg2),
           \A i \in 1 .. Len(lg) : lg2[i] = lg[i],
           \A t \in Targets : /\ rw[t].mark \in Nat /\ rw2[t].mark \in Nat
                              /\ rw2[t].mark >= rw[t].mark
    PROVE  Sound(lg2, rw2, K, a)
<1>1. a \in Nat /\ a <= Len(lg) /\ a <= Len(lg2)
  BY DEF Sound, Position
<1>2. ASSUME NEW i \in 1 .. a, lg2[i] \in K PROVE rw2[lg2[i]].mark >= i
  <2>1. lg2[i] = lg[i] /\ lg[i] \in K /\ i \in Nat
    BY <1>1, <1>2
  <2>2. rw[lg[i]].mark >= i
    BY <2>1 DEF Sound
  <2> QED
    BY <2>1, <2>2
<1> QED
  BY <1>1, <1>2 DEF Sound

\* The larger of two sound positions is sound, and so is the end of a window
\* that held nothing to mark.
LEMMA SoundLarger ==
    ASSUME NEW lg, NEW rw, NEW K, NEW a \in Position, NEW b \in Position,
           Sound(lg, rw, K, a), Sound(lg, rw, K, b)
    PROVE  Sound(lg, rw, K, Larger(a, b))
  BY DEF Larger

LEMMA SoundZero ==
    ASSUME TypeOK, NEW K PROVE Sound(log, rows, K, 0)
<1>1. Len(log) \in Nat
  BY DEF TypeOK
<1> QED
  BY <1>1 DEF Sound

LEMMA SoundWindow ==
    ASSUME TypeOK, NEW p \in Procs, NEW a \in Position, NEW b \in Position,
           b <= Len(log), Sound(log, rows, Knows[p], a), Found(p, a, b) = {}
    PROVE  Sound(log, rows, Knows[p], b)
<1>1. a \in Nat /\ b \in Nat /\ Len(log) \in Nat
  BY DEF TypeOK, Position
<1>2. ASSUME NEW i \in 1 .. b, log[i] \in Knows[p] PROVE rows[log[i]].mark >= i
  <2>1. i \in EventsOf(log[i], a, b) \/ i \in 1 .. a
    BY <1>1 DEF EventsOf
  <2>2. i \notin EventsOf(log[i], a, b)
    BY <1>2 DEF Found
  <2> QED
    BY <1>2, <2>1, <2>2 DEF Sound
<1> QED
  BY <1>1, <1>2 DEF Sound

\* Storing the marks of a window makes its end sound.
LEMMA SoundMark ==
    ASSUME TypeOK, NEW p \in Procs, NEW a \in Position, NEW b \in Position,
           b <= Len(log), Sound(log, rows, Knows[p], a),
           NEW rw, \A t \in Targets : rw[t].mark \in Nat /\ rw[t].mark >= rows[t].mark,
           \A t \in Found(p, a, b) : rw[t].mark >= LastOf(t, a, b)
    PROVE  Sound(log, rw, Knows[p], b)
<1>1. a \in Nat /\ b \in Nat /\ Len(log) \in Nat
  BY DEF TypeOK, Position
<1>2. ASSUME NEW i \in 1 .. b, log[i] \in Knows[p] PROVE rw[log[i]].mark >= i
  <2> DEFINE t == log[i]
  <2>0. t \in Targets /\ t \in Knows[p] /\ i \in Nat
    BY <1>2, <1>1
  <2>1. CASE i \in 1 .. a
    <3>1. rows[t].mark \in Nat
      BY <2>0 DEF TypeOK, Row, Position
    <3>2. rows[t].mark >= i
      BY <1>2, <2>1 DEF Sound
    <3> QED
      BY <2>0, <3>1, <3>2
  <2>2. CASE i \notin 1 .. a
    <3>1. i \in EventsOf(t, a, b)
      BY <1>1, <2>2 DEF EventsOf
    <3>2. t \in Found(p, a, b)
      BY <2>0, <3>1 DEF Found
    <3>3. i <= LastOf(t, a, b) /\ LastOf(t, a, b) \in Nat
      BY <2>0, <3>1, LastOfIsLast DEF Position
    <3>4. rw[t].mark >= LastOf(t, a, b) /\ rw[t].mark \in Nat
      BY <2>0, <3>2
    <3> QED
      BY <2>0, <3>3, <3>4
  <2> QED
    BY <2>1, <2>2
<1> QED
  BY <1>1, <1>2 DEF Sound

\* A process resumes from a sound position.
LEMMA SeedSound ==
    ASSUME Safe, NEW p \in Procs PROVE Sound(log, rows, Knows[p], SeedPosition)
<1>1. CASE shared > 0
  BY <1>1 DEF Safe, SharedSound, SeedPosition
<1>2. CASE shared = 0
  <2>1. Watermark = 0
    BY <1>2, WatermarkIsHighest DEF Safe, Unseeded
  <2>2. SeedPosition = 0
    BY <1>2, <2>1 DEF SeedPosition, Larger
  <2> QED
    BY <2>2, SoundZero DEF Safe
<1> QED
  BY <1>1, <1>2 DEF Safe, TypeOK, Position

\* What the steps leave of a position.
LEMMA LocalMoves ==
    ASSUME NEW l \in Local, NEW c, NEW at \in Position, NEW granted \in BOOLEAN
    PROVE  /\ Arm(l).checkpoint = l.checkpoint /\ Look(l).checkpoint = l.checkpoint
           /\ Idle(l).checkpoint = l.checkpoint
           /\ Believe(l, granted).checkpoint = l.checkpoint
           /\ Booted(l, at).checkpoint = at /\ CaughtUp(l, at).checkpoint = at
           /\ Advanced(l, c, at, granted).checkpoint = at
<1>1. /\ Arm(l).checkpoint = l.checkpoint /\ Look(l).checkpoint = l.checkpoint
      /\ Idle(l).checkpoint = l.checkpoint
  BY DEF Local, Arm, Look, Idle
<1>2. Believe(l, granted).checkpoint = l.checkpoint
  BY DEF Local, Believe
<1>3. Booted(l, at).checkpoint = at /\ CaughtUp(l, at).checkpoint = at
  BY DEF Local, Booted, CaughtUp
<1>4. Advanced(l, c, at, granted).checkpoint = at
  BY DEF Local, Advanced
<1> QED
  BY <1>1, <1>2, <1>3, <1>4

LEMMA RaiseMoves ==
    ASSUME NEW r \in Row, NEW id
    PROVE  Raise(r, id).mark = Larger(r.mark, id) /\ Raise(r, id).at = r.at
  BY DEF Row, Raise

LEMMA TakeMoves ==
    ASSUME NEW r \in Row, NEW h
    PROVE  Take(r, h).mark = r.mark /\ Take(r, h).at = r.at
  BY DEF Row, Take

LEMMA AckMoves ==
    ASSUME NEW r \in Row, NEW id
    PROVE  Acked(r, id).mark = r.mark /\ Acked(r, id).at = id
  BY DEF Row, Acked

LEMMA StageMoves ==
    ASSUME NEW s \in Scan, NEW stage
    PROVE  /\ Stage(s, stage).at = stage /\ Stage(s, stage).after = s.after
           /\ Stage(s, stage).last = s.last
  BY DEF Scan, Stage

LEMMA SawMoves ==
    ASSUME NEW s \in Scan, NEW stage, NEW after, NEW last
    PROVE  /\ Saw(s, stage, after, last).at = stage
           /\ Saw(s, stage, after, last).after = after
           /\ Saw(s, stage, after, last).last = last
  BY DEF Scan, Saw

LEMMA SentMoves ==
    ASSUME NEW s \in Scan, NEW granted
    PROVE  /\ Sent(s, granted).after = s.after /\ Sent(s, granted).last = s.last
           /\ Sent(s, granted).at = "marked"
  BY DEF Scan, Sent

\* Sound positions and calls stay so while the log grows and marks rise.
Grows ==
    /\ log' = log \/ \E k \in Targets \cup {Inert} : log' = Append(log, k)
    /\ \A t \in Targets : rows'[t].mark >= rows[t].mark

LEMMA GrowsSound ==
    ASSUME TypeOK, TypeOK', Grows
    PROVE  /\ \A p \in Procs, a \in Position :
                Sound(log, rows, Knows[p], a) => Sound(log', rows', Knows[p], a)
           /\ \A p \in Procs, s \in Scan :
                SoundCall(log, rows, Knows[p], s) => SoundCall(log', rows', Knows[p], s)
<1>1. /\ Len(log) \in Nat /\ Len(log') \in Nat /\ Len(log) <= Len(log')
      /\ \A i \in 1 .. Len(log) : log'[i] = log[i]
  BY DEF TypeOK, Grows
<1>2. \A t \in Targets : /\ rows[t].mark \in Nat /\ rows'[t].mark \in Nat
                         /\ rows'[t].mark >= rows[t].mark
  BY DEF TypeOK, Row, Position, Grows
<1>3. ASSUME NEW p \in Procs, NEW a \in Position, Sound(log, rows, Knows[p], a)
      PROVE  Sound(log', rows', Knows[p], a)
  <2>1. Knows[p] \in SUBSET Targets
    OBVIOUS
  <2> QED
    BY <1>1, <1>2, <1>3, <2>1, SoundStable
<1>4. ASSUME NEW p \in Procs, NEW s \in Scan, SoundCall(log, rows, Knows[p], s)
      PROVE  SoundCall(log', rows', Knows[p], s)
  <2>1. s.after \in Position /\ s.last \in Position /\ s.last \in Nat
    BY DEF Scan, Position
  <2> QED
    BY <1>1, <1>3, <1>4, <2>1 DEF SoundCall
<1> QED
  BY <1>3, <1>4

\* One process p moves its checkpoint and its calls, to sound positions.
LEMMA MoveSound ==
    ASSUME Safe, TypeOK', Grows, shared' = shared, NEW p \in Procs,
           \A q \in Procs \ {p} : /\ local'[q].checkpoint = local[q].checkpoint
                                  /\ scan'[q] = scan[q],
           Sound(log, rows, Knows[p], local'[p].checkpoint),
           \A c \in Callers : SoundCall(log, rows, Knows[p], scan'[p][c])
    PROVE  SharedSound' /\ LocalSound' /\ ScanSound'
<1>1. SharedSound'
  BY GrowsSound DEF Safe, SharedSound, TypeOK
<1>2. LocalSound'
  <2> SUFFICES ASSUME NEW q \in Procs
               PROVE  Sound(log', rows', Knows[q], local'[q].checkpoint)
    BY DEF LocalSound
  <2>1. local'[q].checkpoint \in Position
    BY DEF TypeOK, Local
  <2>2. Sound(log, rows, Knows[q], local'[q].checkpoint)
    BY DEF Safe, LocalSound
  <2> QED
    BY <2>1, <2>2, GrowsSound DEF Safe
<1>3. ScanSound'
  <2> SUFFICES ASSUME NEW q \in Procs, NEW c \in Callers
               PROVE  SoundCall(log', rows', Knows[q], scan'[q][c])
    BY DEF ScanSound
  <2>1. scan'[q][c] \in Scan
    BY DEF TypeOK
  <2>2. SoundCall(log, rows, Knows[q], scan'[q][c])
    BY DEF Safe, ScanSound
  <2> QED
    BY <2>1, <2>2, GrowsSound DEF Safe
<1> QED
  BY <1>1, <1>2, <1>3

\* Or nobody moves.
LEMMA StillSound ==
    ASSUME Safe, TypeOK', Grows, shared' = shared, scan' = scan,
           \A q \in Procs : local'[q].checkpoint = local[q].checkpoint
    PROVE  SharedSound' /\ LocalSound' /\ ScanSound'
<1>1. CASE Procs = {}
  BY <1>1 DEF SharedSound, LocalSound, ScanSound
<1>2. ASSUME NEW p \in Procs PROVE SharedSound' /\ LocalSound' /\ ScanSound'
  <2>1. Sound(log, rows, Knows[p], local'[p].checkpoint)
    BY DEF Safe, LocalSound
  <2>2. \A c \in Callers : SoundCall(log, rows, Knows[p], scan'[p][c])
    BY DEF Safe, ScanSound
  <2> QED
    BY <2>1, <2>2, MoveSound
<1> QED
  BY <1>1, <1>2

\* The steps in which no position moves.
LEMMA StillSteps ==
    ASSUME Safe, TypeOK',
           \/ \E p \in Procs : \/ \E k \in Targets \cup {Inert} : Commit(p, k)
                               \/ Notified(p) \/ Fire(p) \/ DrainStep(p) \/ Judge(p)
           \/ Expires
    PROVE  SharedSound' /\ LocalSound' /\ ScanSound'
<1>0. /\ \A p \in Procs : local[p] \in Local
      /\ \A t \in Targets : rows[t] \in Row /\ rows[t].mark \in Nat
      /\ 0 \in Position
  BY DEF Safe, TypeOK, Row, Position
<1>l. \A p \in Procs : /\ Arm(local[p]).checkpoint = local[p].checkpoint
                       /\ Idle(local[p]).checkpoint = local[p].checkpoint
                       /\ Believe(local[p], FALSE).checkpoint = local[p].checkpoint
  BY <1>0, FALSE \in BOOLEAN, LocalMoves
<1>r. \A t \in Targets : /\ \A h : Take(rows[t], h).mark = rows[t].mark
                         /\ \A id : Acked(rows[t], id).mark = rows[t].mark
  BY <1>0, TakeMoves, AckMoves
<1>t. local \in [Procs -> Local] /\ rows \in [Targets -> Row]
  BY DEF Safe, TypeOK
<1>1. ASSUME NEW p \in Procs, NEW k \in Targets \cup {Inert}, Commit(p, k)
      PROVE  SharedSound' /\ LocalSound' /\ ScanSound'
  <2>1. Grows /\ shared' = shared /\ scan' = scan
    BY <1>0, <1>1 DEF Commit, Grows
  <2>2. \A q \in Procs : local'[q].checkpoint = local[q].checkpoint
    BY <1>1, <1>l, <1>t DEF Commit
  <2> QED
    BY <2>1, <2>2, StillSound
<1>2. ASSUME NEW p \in Procs,
             Notified(p) \/ Fire(p) \/ SkipDrain(p) \/ Judge(p) \/ Lapse(p)
      PROVE  SharedSound' /\ LocalSound' /\ ScanSound'
  <2>1. log' = log /\ rows' = rows /\ shared' = shared /\ scan' = scan
    BY <1>2 DEF Notified, Fire, SkipDrain, Judge, Lapse
  <2>2. \A q \in Procs : local'[q].checkpoint = local[q].checkpoint
    BY <1>2, <1>l, <1>t DEF Notified, Fire, SkipDrain, Judge, Lapse
  <2>3. Grows
    BY <1>0, <2>1 DEF Grows
  <2> QED
    BY <2>1, <2>2, <2>3, StillSound
<1>3. ASSUME NEW p \in Procs, NEW c \in {"settle", "worker"}, Claim(p, c)
      PROVE  SharedSound' /\ LocalSound' /\ ScanSound'
  <2>1. log' = log /\ shared' = shared /\ scan' = scan
    BY <1>3 DEF Claim
  <2>2. local' = [local EXCEPT ![p] = Idle(@)] \/ local' = local
    BY <1>3, Zenon DEF Claim
  <2>3. \A q \in Procs : local'[q].checkpoint = local[q].checkpoint
    BY <2>2, <1>l, <1>t
  <2>4. rows' = [t \in Targets |-> IF t \in Claimable THEN Take(rows[t], p) ELSE rows[t]]
    BY <1>3 DEF Claim
  <2>5. Grows
    BY <1>0, <1>r, <2>1, <2>4 DEF Grows
  <2> QED
    BY <2>1, <2>3, <2>5, StillSound
<1>4. ASSUME NEW p \in Procs, Disarm(p) \/ Ack(p)
      PROVE  SharedSound' /\ LocalSound' /\ ScanSound'
  <2>1. log' = log /\ shared' = shared /\ scan' = scan
    BY <1>4 DEF Disarm, Ack
  <2>2. \A q \in Procs : local'[q].checkpoint = local[q].checkpoint
    BY <1>4, <1>l, <1>t DEF Disarm, Ack
  <2>3. \A t \in Targets : rows'[t].mark >= rows[t].mark
    <3>1. CASE rows' = rows
      BY <1>0, <3>1
    <3>2. CASE Ack(p)
      BY <1>0, <1>r, <3>2 DEF Ack
    <3> QED
      BY <1>4, <3>1, <3>2 DEF Disarm
  <2> QED
    BY <2>1, <2>2, <2>3, StillSound DEF Grows
<1>5. ASSUME NEW k \in Registries, LeaseExpires(k)
      PROVE  SharedSound' /\ LocalSound' /\ ScanSound'
  <2>1. Grows /\ UNCHANGED <<shared, scan, local>>
    BY <1>0, <1>5 DEF LeaseExpires, Grows
  <2> QED
    BY <2>1, StillSound
<1>6. ASSUME NEW t \in Targets, RowExpires(t)
      PROVE  SharedSound' /\ LocalSound' /\ ScanSound'
  <2>1. Grows /\ UNCHANGED <<shared, scan, local>>
    BY <1>0, <1>6, <1>r, <1>t DEF RowExpires, Grows
  <2> QED
    BY <2>1, StillSound
<1> QED
  BY <1>1, <1>2, <1>3, <1>4, <1>5, <1>6 DEF Expires, DrainStep

\* The steps in which one process moves and nothing durable does.
LEMMA MoveSteps ==
    ASSUME Safe, TypeOK', NEW p \in Procs,
           \/ Boot(p) \/ SettleScan(p) \/ PollScan(p) \/ Crash(p)
           \/ \E c \in Callers : Ask(p, c) \/ Query(p, c) \/ Read(p, c) \/ Marked(p, c)
    PROVE  SharedSound' /\ LocalSound' /\ ScanSound'
<1> DEFINE S(a) == Sound(log, rows, Knows[p], a)
           Call(s) == SoundCall(log, rows, Knows[p], s)
           cp == local[p].checkpoint
           Others == \A q \in Procs \ {p} : /\ local'[q].checkpoint = local[q].checkpoint
                                            /\ scan'[q] = scan[q]
<1>0. /\ local \in [Procs -> Local] /\ scan \in [Procs -> [Callers -> Scan]]
      /\ local[p] \in Local /\ cp \in Position /\ 0 \in Position /\ S(cp)
      /\ rows \in [Targets -> Row] /\ Len(log) \in Nat
      /\ \A t \in Targets : rows[t].mark \in Nat
  BY DEF Safe, TypeOK, Local, Row, Position, LocalSound
<1>z. S(0)
  BY SoundZero DEF Safe
<1>n. Call(NoScan) /\ Call(Start(local[p]))
  <2>1. /\ Start(local[p]).after = cp /\ Start(local[p]).last = 0
        /\ Start(local[p]).at # "marked"
    BY DEF Start
  <2>2. NoScan.after = 0 /\ NoScan.last = 0 /\ NoScan.at # "marked"
    BY DEF NoScan
  <2> QED
    BY <1>0, <1>z, <2>1, <2>2 DEF SoundCall
<1>c. \A c \in Callers : Call(scan[p][c])
  BY DEF Safe, ScanSound
<1>m. /\ \A granted \in BOOLEAN : Believe(local[p], granted).checkpoint = cp
      /\ Look(local[p]).checkpoint = cp
      /\ \A at \in Position : /\ Booted(local[p], at).checkpoint = at
                              /\ CaughtUp(local[p], at).checkpoint = at
  BY <1>0, LocalMoves
<1>a. ASSUME NEW c \in Callers, NEW at \in Position, NEW granted \in BOOLEAN
      PROVE  Advanced(local[p], c, at, granted).checkpoint = at
  BY <1>0, LocalMoves
<1>g. ASSUME UNCHANGED <<log, rows>> PROVE Grows
  BY <1>0, <1>g DEF Grows
<1> HIDE DEF S, Call
<1>q. ASSUME Grows, shared' = shared, Others, S(local'[p].checkpoint),
             \A c \in Callers : Call(scan'[p][c])
      PROVE  SharedSound' /\ LocalSound' /\ ScanSound'
  BY <1>q, MoveSound DEF S, Call
<1>1. CASE Boot(p)
  <2>1. SeedPosition \in Position /\ S(SeedPosition)
    BY SeedTyped, SeedSound DEF S, Safe
  <2>2. Grows /\ shared' = shared /\ scan' = scan
    BY <1>1, <1>g DEF Boot
  <2>3. local' = [local EXCEPT ![p] = Booted(@, SeedPosition)]
    BY <1>1 DEF Boot
  <2>4. local'[p].checkpoint = SeedPosition
    BY <1>0, <1>m, <2>1, <2>3
  <2>5. Others
    BY <1>0, <2>2, <2>3
  <2> QED
    BY <1>c, <1>q, <2>1, <2>2, <2>4, <2>5
<1>2. CASE SettleScan(p)
  <2>1. UNCHANGED <<log, rows, shared, local>>
    BY <1>2 DEF SettleScan
  <2>2. scan' = scan \/ scan' = [scan EXCEPT ![p]["settle"] = Start(local[p])]
    BY <1>2, Zenon DEF SettleScan
  <2>3. Others /\ \A c \in Callers : Call(scan'[p][c])
    BY <1>0, <1>n, <1>c, <2>1, <2>2
  <2> QED
    BY <1>0, <1>g, <1>q, <2>1, <2>3
<1>3. CASE PollScan(p)
  <2>1. UNCHANGED <<log, rows, shared>>
    BY <1>3 DEF PollScan
  <2>2. /\ scan' = [scan EXCEPT ![p]["poll"] = Start(local[p])]
        /\ local' = [local EXCEPT ![p] = Look(@)]
    BY <1>3 DEF PollScan
  <2>3. Others /\ \A c \in Callers : Call(scan'[p][c])
    BY <1>0, <1>n, <1>c, <2>2
  <2>4. local'[p].checkpoint = cp
    BY <1>0, <1>m, <2>2
  <2> QED
    BY <1>0, <1>g, <1>q, <2>1, <2>3, <2>4
<1>4. CASE Crash(p)
  <2>1. log' = log /\ shared' = shared
    BY <1>4 DEF Crash
  <2>2. \A t \in Targets : rows'[t].mark = rows[t].mark
    BY <1>0, <1>4, TakeMoves DEF Crash
  <2>3. /\ scan' = [scan EXCEPT ![p] = [c \in Callers |-> NoScan]]
        /\ local' = [local EXCEPT ![p] = Fresh]
    BY <1>4 DEF Crash
  <2>4. Others /\ \A c \in Callers : Call(scan'[p][c])
    BY <1>0, <1>n, <2>3
  <2>5. local'[p].checkpoint = 0
    BY <1>0, <2>3 DEF Fresh
  <2>6. Grows
    BY <1>0, <2>1, <2>2 DEF Grows
  <2> QED
    BY <1>z, <1>q, <2>1, <2>4, <2>5, <2>6
<1>5. ASSUME NEW c \in Callers, Ask(p, c) \/ Query(p, c) \/ Read(p, c) \/ Marked(p, c)
      PROVE  SharedSound' /\ LocalSound' /\ ScanSound'
  <2> DEFINE s == scan[p][c]
  <2>0. s \in Scan /\ s.after \in Position /\ s.last \in Position
    BY <1>0 DEF Scan
  <2>1. S(s.after) /\ s.last <= Len(log) /\ (s.at = "marked" => S(s.last))
    BY <1>c DEF S, Call, SoundCall
  <2>2. UNCHANGED <<log, rows, shared>>
    BY <1>5 DEF Ask, Query, Read, Marked
  <2>3. ASSUME NEW to \in Scan, Call(to), scan' = [scan EXCEPT ![p][c] = to]
        PROVE  /\ \A d \in Callers : Call(scan'[p][d])
               /\ \A q \in Procs \ {p} : scan'[q] = scan[q]
    BY <1>0, <1>c, <2>3
  <2>4. ASSUME NEW at \in Position, Return(p, c, at)
        PROVE  /\ \A d \in Callers : Call(scan'[p][d])
               /\ \A q \in Procs \ {p} : scan'[q] = scan[q]
    BY <2>4, <2>3, <1>n, FreshTyped DEF Return
  <2>5. ASSUME NEW l \in Local, local' = [local EXCEPT ![p] = l]
        PROVE  /\ local'[p] = l
               /\ \A q \in Procs \ {p} : local'[q].checkpoint = local[q].checkpoint
    BY <1>0, <2>5
  <2>6. ASSUME NEW a \in Position, NEW b \in Position, S(a), b <= Len(log),
               Resolve(p, c, a, b)
        PROVE  SharedSound' /\ LocalSound' /\ ScanSound'
    <3>1. CASE Found(p, a, b) = {}
      <4>1. local' = [local EXCEPT ![p] = CaughtUp(@, b)] /\ Return(p, c, b)
        BY <2>6, <3>1 DEF Resolve
      <4>2. S(b)
        BY <2>6, <3>1, SoundWindow DEF S, Safe
      <4>3. CaughtUp(local[p], b) \in Local /\ FALSE \in BOOLEAN
        BY <1>0, FALSE \in BOOLEAN, LocalTyped
      <4>4. local'[p].checkpoint = b
        BY <1>0, <1>m, <4>1
      <4>5. Others
        BY <1>0, <2>4, <4>1
      <4> QED
        BY <1>g, <1>q, <2>2, <2>4, <4>1, <4>2, <4>4, <4>5
    <3>2. CASE Found(p, a, b) # {}
      <4>1. scan' = [scan EXCEPT ![p][c] = Saw(s, "mark", a, b)] /\ local' = local
        BY <1>0, <2>6, <3>2, Zenon DEF Resolve
      <4>2. /\ Saw(s, "mark", a, b).after = a /\ Saw(s, "mark", a, b).last = b
            /\ Saw(s, "mark", a, b).at = "mark"
        BY <2>0, SawMoves
      <4>3. Saw(s, "mark", a, b) \in Scan
        BY <2>0, "mark" \in {"query", "read", "mark"}, ScanTyped
      <4>4. Call(Saw(s, "mark", a, b))
        BY <2>6, <4>2 DEF S, Call, SoundCall
      <4>5. Others /\ \A d \in Callers : Call(scan'[p][d])
        BY <2>3, <4>1, <4>3, <4>4
      <4> QED
        BY <1>0, <1>g, <1>q, <2>2, <4>1, <4>5
    <3> QED
      BY <3>1, <3>2
  <2>7. CASE Ask(p, c)
    <3>1. local' = [local EXCEPT ![p] = Believe(@, Grantable(p))]
      BY <2>7 DEF Ask
    <3>2. Grantable(p) \in BOOLEAN
      BY DEF Grantable
    <3>3. local'[p].checkpoint = cp
      BY <1>0, <1>m, <3>1, <3>2
    <3>4. \/ Return(p, c, cp)
          \/ scan' = [scan EXCEPT ![p][c] = Stage(s, "query")]
      BY <1>0, <2>7, Zenon DEF Ask
    <3>5. Call(Stage(s, "query")) /\ Stage(s, "query") \in Scan
      <4>1. /\ Stage(s, "query").after = s.after /\ Stage(s, "query").last = s.last
            /\ Stage(s, "query").at = "query"
        BY <2>0, StageMoves
      <4>2. Stage(s, "query") \in Scan
        BY <2>0, "query" \in {"query", "read", "mark"}, ScanTyped
      <4> QED
        BY <2>1, <4>1, <4>2 DEF S, Call, SoundCall
    <3>6. Others /\ \A d \in Callers : Call(scan'[p][d])
      BY <1>0, <2>3, <2>4, <3>1, <3>4, <3>5
    <3> QED
      BY <1>0, <1>g, <1>q, <2>2, <3>3, <3>6
  <2>8. CASE Query(p, c)
    <3> DEFINE a == Larger(cp, s.after)
               b == WindowEnd(a)
    <3>1. a \in Position /\ S(a)
      BY <1>0, <2>0, <2>1 DEF Larger
    <3>2. b \in Position /\ b <= Len(log)
      <4>1. a <= Len(log)
        BY <3>1 DEF S, Sound
      <4> QED
        BY <3>1, <4>1, WindowEndTyped DEF Safe
    <3>3. \/ Resolve(p, c, a, b)
          \/ scan' = [scan EXCEPT ![p][c] = Saw(s, "read", a, b)] /\ local' = local
      BY <1>0, <2>8, Zenon DEF Query
    <3> HIDE DEF a, b
    <3>4. CASE Resolve(p, c, a, b)
      BY <2>6, <3>1, <3>2, <3>4
    <3>5. CASE scan' = [scan EXCEPT ![p][c] = Saw(s, "read", a, b)] /\ local' = local
      <4>2. /\ Saw(s, "read", a, b).after = a /\ Saw(s, "read", a, b).last = b
            /\ Saw(s, "read", a, b).at = "read"
        BY <2>0, SawMoves
      <4>3. Saw(s, "read", a, b) \in Scan
        BY <2>0, <3>1, <3>2, "read" \in {"query", "read", "mark"}, ScanTyped
      <4>4. Call(Saw(s, "read", a, b))
        BY <3>1, <3>2, <4>2 DEF S, Call, SoundCall
      <4>5. Others /\ \A d \in Callers : Call(scan'[p][d])
        BY <2>3, <3>5, <4>3, <4>4
      <4> QED
        BY <1>0, <1>g, <1>q, <2>2, <3>5, <4>5
    <3> QED
      BY <3>3, <3>4, <3>5
  <2>9. CASE Read(p, c)
    BY <2>0, <2>1, <2>6, <2>9 DEF Read
  <2>10. CASE Marked(p, c)
    <3> DEFINE granted == s.granted /\ lease[Knows[p]] = p
    <3>1. local' = [local EXCEPT ![p] = Advanced(@, c, s.last, granted)] /\ Return(p, c, s.last)
      BY <2>10 DEF Marked, Finish
    <3>2. granted \in BOOLEAN
      BY <2>0 DEF Scan
    <3>3. S(s.last)
      BY <2>1, <2>10 DEF Marked
    <3> HIDE DEF granted
    <3>4. local'[p].checkpoint = s.last
      BY <1>0, <1>a, <2>0, <3>1, <3>2
    <3>5. Others /\ \A d \in Callers : Call(scan'[p][d])
      BY <1>0, <2>0, <2>4, <3>1
    <3> QED
      BY <1>g, <1>q, <2>2, <3>3, <3>4, <3>5
  <2> QED
    BY <1>5, <2>7, <2>8, <2>9, <2>10
<1> QED
  BY <1>1, <1>2, <1>3, <1>4, <1>5

\* The store applies the marks of a scan: its end becomes sound, for the
\* process and, as everybody has the same registry, for the durable checkpoint.
LEMMA MarkStep ==
    ASSUME Safe, TypeOK', SameKnows, NEW p \in Procs, NEW c \in Callers, Mark(p, c)
    PROVE  SharedSound' /\ LocalSound' /\ ScanSound'
<1> DEFINE s == scan[p][c]
           New(q, a) == Sound(log, rows', Knows[q], a)
           NewCall(q, r) == SoundCall(log, rows', Knows[q], r)
<1>0. /\ s \in Scan /\ s.after \in Position /\ s.last \in Position /\ 0 \in Position
      /\ local \in [Procs -> Local] /\ scan \in [Procs -> [Callers -> Scan]]
      /\ shared \in Position /\ local[p] \in Local
      /\ \A q \in Procs : local[q].checkpoint \in Position
      /\ \A t \in Targets : rows[t] \in Row /\ rows[t].mark \in Nat
  BY DEF Safe, TypeOK, Scan, Row, Local, Position
<1>1. /\ log' = log /\ shared' = Larger(shared, s.last)
      /\ rows' = [t \in Targets |-> IF t \in Found(p, s.after, s.last)
                                    THEN Raise(rows[t], LastOf(t, s.after, s.last))
                                    ELSE rows[t]]
  BY DEF Mark
<1>2. \A t \in Targets : LastOf(t, s.after, s.last) \in Nat
  <2>1. \A t \in Targets : LastOf(t, s.after, s.last) \in Position
    BY <1>0, LastOfIsLast DEF Safe
  <2> QED
    BY <2>1 DEF Position
<1>3. \A t \in Targets : /\ rows'[t].mark \in Nat /\ rows'[t].mark >= rows[t].mark
                         /\ t \in Found(p, s.after, s.last) =>
                              rows'[t].mark >= LastOf(t, s.after, s.last)
  <2> SUFFICES ASSUME NEW t \in Targets
               PROVE  /\ rows'[t].mark \in Nat /\ rows'[t].mark >= rows[t].mark
                      /\ t \in Found(p, s.after, s.last) =>
                           rows'[t].mark >= LastOf(t, s.after, s.last)
    OBVIOUS
  <2>1. Raise(rows[t], LastOf(t, s.after, s.last)).mark
          = Larger(rows[t].mark, LastOf(t, s.after, s.last))
    BY <1>0, RaiseMoves
  <2> QED
    BY <1>0, <1>1, <1>2, <2>1 DEF Larger
<1>4. Grows
  BY <1>1, <1>3 DEF Grows
<1>5. /\ \A q \in Procs, a \in Position : Sound(log, rows, Knows[q], a) => New(q, a)
      /\ \A q \in Procs, r \in Scan : SoundCall(log, rows, Knows[q], r) => NewCall(q, r)
  BY <1>1, <1>4, GrowsSound DEF Safe
<1>6. \A q \in Procs : New(q, s.last)
  <2>1. Sound(log, rows, Knows[p], s.after) /\ s.last <= Len(log)
    BY DEF Safe, ScanSound, SoundCall
  <2>2. \A t \in Found(p, s.after, s.last) : rows'[t].mark >= LastOf(t, s.after, s.last)
    BY <1>3 DEF Found
  <2>3. \A t \in Targets : rows'[t].mark \in Nat /\ rows'[t].mark >= rows[t].mark
    BY <1>3
  <2>4. New(p, s.last)
    BY <1>0, <2>1, <2>2, <2>3, SoundMark DEF Safe
  <2> QED
    BY <2>4 DEF SameKnows
<1>7. SharedSound'
  <2>1. \A q \in Procs : New(q, shared)
    BY <1>0, <1>5 DEF Safe, SharedSound
  <2>2. \A q \in Procs : New(q, Larger(shared, s.last))
    BY <1>0, <1>6, <2>1, SoundLarger
  <2> QED
    BY <1>1, <2>2 DEF SharedSound
<1>8. /\ \A q \in Procs : New(q, local[q].checkpoint)
      /\ \A q \in Procs, d \in Callers : NewCall(q, scan[q][d])
  BY <1>0, <1>5 DEF Safe, LocalSound, ScanSound
<1>9. CASE Networked
  <2>1. scan' = [scan EXCEPT ![p][c] = Sent(s, Grantable(p))] /\ local' = local
    BY <1>0, <1>9, Zenon DEF Mark
  <2>2. NewCall(p, Sent(s, Grantable(p)))
    BY <1>0, <1>6, <1>8, SentMoves DEF SoundCall
  <2>3. ScanSound'
    <3> SUFFICES ASSUME NEW q \in Procs, NEW d \in Callers PROVE NewCall(q, scan'[q][d])
      BY <1>1 DEF ScanSound
    <3> HIDE DEF NewCall
    <3> QED
      BY <1>0, <1>8, <2>1, <2>2
  <2>4. LocalSound'
    BY <1>1, <1>8, <2>1 DEF LocalSound
  <2> QED
    BY <1>7, <2>3, <2>4
<1>10. CASE ~Networked
  <2>1. Finish(p, c, Grantable(p)) /\ Grantable(p) \in BOOLEAN
    BY <1>10 DEF Mark, Grantable
  <2>2. /\ local' = [local EXCEPT ![p] = Advanced(@, c, s.last, Grantable(p))]
        /\ scan' = [scan EXCEPT ![p][c] = NoScan]
    BY <2>1 DEF Finish, Return
  <2>3. Advanced(local[p], c, s.last, Grantable(p)).checkpoint = s.last
    BY <1>0, <2>1, LocalMoves
  <2>4. LocalSound'
    <3> SUFFICES ASSUME NEW q \in Procs PROVE New(q, local'[q].checkpoint)
      BY <1>1 DEF LocalSound
    <3> HIDE DEF New
    <3> QED
      BY <1>0, <1>6, <1>8, <2>2, <2>3
  <2>5. NewCall(p, NoScan)
    <3>1. Sound(log, rows, Knows[p], 0)
      BY SoundZero DEF Safe
    <3>2. SoundCall(log, rows, Knows[p], NoScan)
      BY <3>1 DEF SoundCall, NoScan, Safe, TypeOK
    <3> QED
      BY <1>5, <3>2, FreshTyped
  <2>6. ScanSound'
    <3> SUFFICES ASSUME NEW q \in Procs, NEW d \in Callers PROVE NewCall(q, scan'[q][d])
      BY <1>1 DEF ScanSound
    <3> HIDE DEF NewCall
    <3> QED
      BY <1>0, <1>8, <2>2, <2>5
  <2> QED
    BY <1>7, <2>4, <2>6
<1> QED
  BY <1>9, <1>10

\* A first mark comes with a durable checkpoint, and only what is marked is
\* ever claimed and acked.
LEMMA UnseededStep == ASSUME Safe, TypeOK', Next PROVE Unseeded'
<1> DEFINE Zero == \A t \in Targets : /\ rows[t].mark = 0 /\ rows[t].at = 0
                                      /\ \A q \in Procs : pass[q].upto[t] = 0
<1>0. /\ rows \in [Targets -> Row] /\ \A t \in Targets : rows[t] \in Row
      /\ pass \in [Procs -> Pass] /\ shared \in Nat
  BY DEF Safe, TypeOK, Position
<1>1. ASSUME UNCHANGED <<rows, pass>>, shared' = shared PROVE Unseeded'
  BY <1>1 DEF Safe, Unseeded
<1>2. ASSUME shared' = shared, shared = 0 => Zero' PROVE Unseeded'
  BY <1>2 DEF Unseeded
<1>3. shared = 0 => Zero
  BY DEF Safe, Unseeded
<1>n. \A t \in Targets : NoPass.upto[t] = 0
  BY DEF NoPass
<1>4. ASSUME NEW p \in Procs, NEW c \in Callers, Mark(p, c) PROVE Unseeded'
  <2> DEFINE s == scan[p][c]
  <2>1. /\ shared' = Larger(shared, s.last) /\ pass' = pass
        /\ rows' = [t \in Targets |-> IF t \in Found(p, s.after, s.last)
                                      THEN Raise(rows[t], LastOf(t, s.after, s.last))
                                      ELSE rows[t]]
    BY <1>4 DEF Mark
  <2>2. s.last \in Nat /\ s.after \in Nat
    BY DEF Safe, TypeOK, Scan, Position
  <2>3. ASSUME shared' = 0 PROVE shared = 0 /\ Found(p, s.after, s.last) = {}
    <3>1. shared = 0 /\ s.last = 0
      BY <1>0, <2>1, <2>2, <2>3 DEF Larger
    <3> QED
      BY <2>2, <3>1 DEF Found, EventsOf
  <2>4. ASSUME shared' = 0 PROVE shared = 0 /\ rows' = rows
    BY <1>0, <2>1, <2>3, <2>4
  <2> QED
    BY <1>3, <2>1, <2>4 DEF Unseeded
<1>5. ASSUME NEW p \in Procs, NEW c \in {"settle", "worker"}, Claim(p, c) PROVE Unseeded'
  <2>1. /\ shared' = shared
        /\ rows' = [t \in Targets |-> IF t \in Claimable THEN Take(rows[t], p) ELSE rows[t]]
    BY <1>5 DEF Claim
  <2>2. \A t \in Targets : rows'[t].mark = rows[t].mark /\ rows'[t].at = rows[t].at
    BY <1>0, <2>1, TakeMoves
  <2>3. CASE pass' = pass
    BY <1>2, <1>3, <2>1, <2>2, <2>3
  <2>4. CASE pass' # pass
    <3>1. pass' = [pass EXCEPT ![p] =
                    [at |-> IF Claimable = {} THEN "empty" ELSE "working", for |-> c,
                     upto |-> [t \in Targets |->
                       IF t \in Claimable THEN FetchEnd(t) ELSE 0]]]
      BY <1>5, <2>4, Zenon DEF Claim
    <3>2. shared = 0 => Claimable = {}
      BY <1>3 DEF Claimable
    <3>3. ASSUME shared = 0, NEW t \in Targets, NEW q \in Procs PROVE pass'[q].upto[t] = 0
      <4>1. CASE q = p
        BY <1>0, <3>1, <3>2, <3>3, <4>1
      <4>2. CASE q # p
        BY <1>0, <1>3, <3>1, <3>3, <4>2
      <4> QED
        BY <4>1, <4>2
    <3> QED
      BY <1>2, <1>3, <2>1, <2>2, <3>3
  <2> QED
    BY <2>3, <2>4
<1>6. ASSUME NEW p \in Procs, Disarm(p) PROVE Unseeded'
  <2>1. rows' = rows /\ shared' = shared /\ pass' = [pass EXCEPT ![p] = NoPass]
    BY <1>6 DEF Disarm
  <2>2. shared = 0 => \A t \in Targets, q \in Procs : pass'[q].upto[t] = 0
    BY <1>0, <1>3, <1>n, <2>1
  <2> QED
    BY <1>2, <1>3, <2>1, <2>2
<1>7. ASSUME NEW p \in Procs, Ack(p) PROVE Unseeded'
  <2>1. /\ shared' = shared /\ pass' = [pass EXCEPT ![p] = NoPass]
        /\ rows' = [t \in Targets |-> IF rows[t].by = p
                                      THEN Acked(rows[t], pass[p].upto[t]) ELSE rows[t]]
    BY <1>7 DEF Ack
  <2>2. shared = 0 => \A t \in Targets, q \in Procs : pass'[q].upto[t] = 0
    BY <1>0, <1>3, <1>n, <2>1
  <2>3. ASSUME shared = 0, NEW t \in Targets PROVE rows'[t].mark = 0 /\ rows'[t].at = 0
    <3>1. /\ Acked(rows[t], pass[p].upto[t]).mark = rows[t].mark
          /\ Acked(rows[t], pass[p].upto[t]).at = pass[p].upto[t]
      BY <1>0, AckMoves
    <3>2. rows[t].mark = 0 /\ rows[t].at = 0 /\ pass[p].upto[t] = 0
      BY <1>3, <2>3
    <3> QED
      BY <2>1, <3>1, <3>2
  <2> QED
    BY <1>2, <2>1, <2>2, <2>3
<1>8. ASSUME NEW p \in Procs, Crash(p) PROVE Unseeded'
  <2>1. /\ shared' = shared /\ pass' = [pass EXCEPT ![p] = NoPass]
        /\ rows' = [t \in Targets |-> IF rows[t].by = p THEN Take(rows[t], Ghost)
                                      ELSE rows[t]]
    BY <1>8 DEF Crash
  <2>2. \A t \in Targets : rows'[t].mark = rows[t].mark /\ rows'[t].at = rows[t].at
    BY <1>0, <2>1, TakeMoves
  <2>3. shared = 0 => \A t \in Targets, q \in Procs : pass'[q].upto[t] = 0
    BY <1>0, <1>3, <1>n, <2>1
  <2> QED
    BY <1>2, <1>3, <2>1, <2>2, <2>3
<1>9. ASSUME NEW t \in Targets, RowExpires(t) PROVE Unseeded'
  <2>1. shared' = shared /\ pass' = pass /\ rows' = [rows EXCEPT ![t] = Take(@, Nobody)]
    BY <1>9 DEF RowExpires
  <2>2. \A u \in Targets : rows'[u].mark = rows[u].mark /\ rows'[u].at = rows[u].at
    BY <1>0, <2>1, TakeMoves
  <2> QED
    BY <1>2, <1>3, <2>1, <2>2
<1>10. ASSUME NEW p \in Procs,
              \/ \E k \in Targets \cup {Inert} : Commit(p, k)
              \/ Notified(p) \/ Fire(p) \/ Boot(p) \/ SettleScan(p) \/ PollScan(p)
              \/ SkipDrain(p) \/ Judge(p) \/ Lapse(p)
              \/ \E c \in Callers : Ask(p, c) \/ Query(p, c) \/ Read(p, c) \/ Marked(p, c)
              \/ \E k \in Registries : LeaseExpires(k)
       PROVE  Unseeded'
  <2>1. UNCHANGED <<rows, pass>> /\ shared' = shared
    BY <1>10 DEF Commit, Notified, Fire, Boot, SettleScan, PollScan, SkipDrain, Judge,
                 Lapse, Ask, Query, Read, Marked, LeaseExpires
  <2> QED
    BY <1>1, <2>1
<1>11. ASSUME NEW k \in Registries, LeaseExpires(k) PROVE Unseeded'
  BY <1>1, <1>11 DEF LeaseExpires
<1> QED
  BY <1>4, <1>5, <1>6, <1>7, <1>8, <1>9, <1>10, <1>11
     DEF Next, Runs, DrainStep, Correlate, Expires

LEMMA SafeStep == ASSUME SameKnows, Safe, [Next]_vars PROVE Safe'
<1>1. TypeOK'
  BY StepTyped DEF Safe
<1>2. CASE Next
  <2>1. SharedSound' /\ LocalSound' /\ ScanSound'
    <3>1. ASSUME NEW p \in Procs, NEW c \in Callers, Mark(p, c)
          PROVE  SharedSound' /\ LocalSound' /\ ScanSound'
      BY <1>1, <3>1, MarkStep
    <3> QED
      BY <1>1, <1>2, <3>1, StillSteps, MoveSteps DEF Next, Runs, Correlate
  <2> QED
    BY <1>1, <1>2, <2>1, UnseededStep DEF Safe
<1>3. CASE UNCHANGED vars
  BY <1>1, <1>3 DEF Safe, SharedSound, LocalSound, ScanSound, Unseeded, vars
<1> QED
  BY <1>2, <1>3

LEMMA SafeInit == Init => Safe
<1> SUFFICES ASSUME Init PROVE Safe
  OBVIOUS
<1>1. TypeOK
  BY InitTyped
<1>2. \A p \in Procs : Sound(log, rows, Knows[p], 0)
  BY <1>1, SoundZero
<1>3. SharedSound /\ LocalSound
  BY <1>2 DEF Init, SharedSound, LocalSound, Fresh
<1>4. ScanSound
  BY <1>1, <1>2 DEF Init, ScanSound, SoundCall, NoScan, TypeOK
<1>5. Unseeded
  BY DEF Init, Unseeded, EmptyRow, NoPass
<1> QED
  BY <1>1, <1>3, <1>4, <1>5 DEF Safe

\* When the processes share one registry, no process ever moves its checkpoint
\* past an event whose target is not marked, across crashes, restarts, lost
\* leases and concurrent correlate calls (correlate-cycle.ts, "Advance
\* checkpoint only after subscribe succeeds").
THEOREM CoveredCorrect == ASSUME SameKnows PROVE Spec => []Covered
<1>1. Init => Safe
  BY SafeInit
<1>2. Safe /\ [Next]_vars => Safe'
  BY SafeStep
<1>3. Safe => Covered
  <2> SUFFICES ASSUME Safe, NEW p \in Procs PROVE Covers(p, local[p].checkpoint)
    BY DEF Covered
  <2>1. Sound(log, rows, Knows[p], local[p].checkpoint)
    BY DEF Safe, LocalSound
  <2> QED
    BY <2>1 DEF Sound, Covers
<1> QED
  BY <1>1, <1>2, <1>3, PTL DEF Spec

-----------------------------------------------------------------------------
(* The correlation lease: whoever believes in it has it.                   *)

Believers == \A p \in Procs : local[p].believes => lease[Knows[p]] = p

LEMMA BelieverMoves ==
    ASSUME NEW l \in Local, NEW c, NEW at \in Position, NEW granted \in BOOLEAN
    PROVE  /\ Arm(l).believes = l.believes /\ Look(l).believes = l.believes
           /\ Idle(l).believes = l.believes
           /\ Believe(l, granted).believes = granted
           /\ Booted(l, at).believes = l.believes
           /\ CaughtUp(l, at).believes = l.believes
           /\ Advanced(l, c, at, granted).believes = (l.believes \/ granted)
<1>1. /\ Arm(l).believes = l.believes /\ Look(l).believes = l.believes
      /\ Idle(l).believes = l.believes
  BY DEF Local, Arm, Look, Idle
<1>2. Believe(l, granted).believes = granted
  BY DEF Local, Believe
<1>3. Booted(l, at).believes = l.believes /\ CaughtUp(l, at).believes = l.believes
  BY DEF Local, Booted, CaughtUp
<1>4. Advanced(l, c, at, granted).believes = (l.believes \/ granted)
  BY DEF Local, Advanced
<1> QED
  BY <1>1, <1>2, <1>3, <1>4

\* A process that starts to believe takes the lease, or has it; nobody else's
\* is touched while it is believed in.
LEMMA BelieverStep ==
    ASSUME TypeOK, Believers, NEW p \in Procs,
           UNCHANGED lease \/ (Grantable(p) /\ lease' = [lease EXCEPT ![Knows[p]] = p]),
           NEW l \in Local, local' = [local EXCEPT ![p] = l],
           l.believes => local[p].believes \/ lease'[Knows[p]] = p
    PROVE  Believers'
<1>0. /\ \A q \in Procs : Knows[q] \in Registries /\ local[q] \in Local
      /\ lease \in [Registries -> Holder] /\ local \in [Procs -> Local]
      /\ Nobody \notin Procs
  BY DEF TypeOK, Registries
<1>1. ASSUME NEW q \in Procs, local'[q].believes PROVE lease'[Knows[q]] = q
  <2>1. CASE q # p
    <3>1. lease[Knows[q]] = q
      BY <1>0, <1>1, <2>1 DEF Believers
    <3>2. Grantable(p) => Knows[p] # Knows[q]
      BY <1>0, <2>1, <3>1 DEF Grantable
    <3> QED
      BY <1>0, <3>1, <3>2
  <2>2. CASE q = p
    <3>1. l.believes
      BY <1>0, <1>1, <2>2
    <3>2. CASE lease'[Knows[p]] = p
      BY <2>2, <3>2
    <3>3. CASE local[p].believes
      <4>1. lease[Knows[p]] = p
        BY <3>3 DEF Believers
      <4> QED
        BY <1>0, <2>2, <4>1
    <3> QED
      BY <3>1, <3>2, <3>3
  <2> QED
    BY <2>1, <2>2
<1> QED
  BY <1>1 DEF Believers

LEMMA BelieversNext == TypeOK /\ Believers /\ [Next]_vars => Believers'
<1> SUFFICES ASSUME TypeOK, Believers, [Next]_vars PROVE Believers'
  OBVIOUS
<1>0. /\ \A q \in Procs : Knows[q] \in Registries /\ local[q] \in Local
      /\ lease \in [Registries -> Holder] /\ local \in [Procs -> Local]
      /\ 0 \in Position
  BY DEF TypeOK, Registries, Position
<1>1. ASSUME UNCHANGED <<lease, local>> PROVE Believers'
  BY <1>1 DEF Believers
\* Steps that change a process's memory and no lease, nor what it believes.
<1>2. ASSUME NEW p \in Procs, NEW l \in Local, l.believes = local[p].believes,
             local' = [local EXCEPT ![p] = l], UNCHANGED lease
      PROVE  Believers'
  BY <1>2, BelieverStep
<1>3. ASSUME NEW p \in Procs, NEW k \in Targets \cup {Inert}, Commit(p, k)
      PROVE  Believers'
  <2>1. Arm(local[p]) \in Local /\ Arm(local[p]).believes = local[p].believes
    BY <1>0, LocalTyped, BelieverMoves
  <2>2. /\ UNCHANGED lease
        /\ UNCHANGED local \/ local' = [local EXCEPT ![p] = Arm(@)]
    BY <1>3 DEF Commit
  <2> QED
    BY <1>0, <1>1, <1>2, <2>1, <2>2
<1>4. ASSUME NEW p \in Procs, Notified(p) \/ Boot(p) \/ PollScan(p) PROVE Believers'
  <2>1. /\ Arm(local[p]) \in Local /\ Arm(local[p]).believes = local[p].believes
        /\ Look(local[p]) \in Local /\ Look(local[p]).believes = local[p].believes
        /\ Booted(local[p], SeedPosition) \in Local
        /\ Booted(local[p], SeedPosition).believes = local[p].believes
    BY <1>0, SeedTyped, LocalTyped, BelieverMoves
  <2>2. /\ UNCHANGED lease
        /\ \/ local' = [local EXCEPT ![p] = Arm(@)]
           \/ local' = [local EXCEPT ![p] = Look(@)]
           \/ local' = [local EXCEPT ![p] = Booted(@, SeedPosition)]
    BY <1>4 DEF Notified, Boot, PollScan
  <2> QED
    BY <1>0, <1>2, <2>1, <2>2
<1>5. ASSUME NEW p \in Procs, NEW c \in {"settle", "worker"}, Claim(p, c) \/ Disarm(p)
      PROVE  Believers'
  <2>1. Idle(local[p]) \in Local /\ Idle(local[p]).believes = local[p].believes
    BY <1>0, LocalTyped, BelieverMoves
  <2>2. UNCHANGED lease /\ (UNCHANGED local \/ local' = [local EXCEPT ![p] = Idle(@)])
    BY <1>5, Zenon DEF Claim, Disarm
  <2> QED
    BY <1>0, <1>1, <1>2, <2>1, <2>2
<1>6. ASSUME NEW p \in Procs, NEW c \in Callers, Ask(p, c) PROVE Believers'
  <2>1. Grantable(p) \in BOOLEAN
    BY DEF Grantable
  <2>2. /\ Believe(local[p], Grantable(p)) \in Local
        /\ Believe(local[p], Grantable(p)).believes = Grantable(p)
    BY <1>0, <2>1, LocalTyped, BelieverMoves
  <2>3. /\ local' = [local EXCEPT ![p] = Believe(@, Grantable(p))]
        /\ \/ Grantable(p) /\ lease' = [lease EXCEPT ![Knows[p]] = p]
           \/ ~Grantable(p) /\ UNCHANGED lease
    BY <1>6, Zenon DEF Ask
  <2>4. Grantable(p) => lease'[Knows[p]] = p
    BY <1>0, <2>3
  <2> QED
    BY <1>0, <2>2, <2>3, <2>4, BelieverStep
<1>7. ASSUME NEW p \in Procs, NEW after \in Position, NEW last \in Position,
             NEW c \in Callers, Resolve(p, c, after, last), UNCHANGED lease
      PROVE  Believers'
  <2>1. CaughtUp(local[p], last) \in Local /\ CaughtUp(local[p], last).believes = local[p].believes
    BY <1>0, LocalTyped, BelieverMoves
  <2>2. UNCHANGED local \/ local' = [local EXCEPT ![p] = CaughtUp(@, last)]
    BY <1>7, Zenon DEF Resolve
  <2> QED
    BY <1>0, <1>1, <1>2, <1>7, <2>1, <2>2
<1>8. ASSUME NEW p \in Procs, NEW c \in Callers, Query(p, c) \/ Read(p, c) PROVE Believers'
  <2> DEFINE after == Larger(local[p].checkpoint, scan[p][c].after)
             last == WindowEnd(after)
  <2>1. /\ scan[p][c].after \in Position /\ scan[p][c].last \in Position
        /\ local[p].checkpoint \in Position
    BY DEF TypeOK, Scan, Local
  <2>2. after \in Position
    BY <2>1 DEF Larger
  <2>3. last \in Position
    BY <2>2, WindowEndTyped
  <2>4. /\ UNCHANGED lease
        /\ \/ UNCHANGED local
           \/ Resolve(p, c, after, last)
           \/ Resolve(p, c, scan[p][c].after, scan[p][c].last)
    BY <1>8 DEF Query, Read
  <2> HIDE DEF after, last
  <2> QED
    BY <1>1, <1>7, <2>1, <2>2, <2>3, <2>4
<1>9. ASSUME NEW p \in Procs, NEW c \in Callers, NEW granted \in BOOLEAN,
             Finish(p, c, granted),
             UNCHANGED lease \/ (Grantable(p) /\ lease' = [lease EXCEPT ![Knows[p]] = p]),
             granted => lease'[Knows[p]] = p
      PROVE  Believers'
  <2>1. scan[p][c].last \in Position
    BY DEF TypeOK, Scan
  <2> DEFINE l == Advanced(local[p], c, scan[p][c].last, granted)
  <2>2. l \in Local
    BY <1>0, <2>1, LocalTyped
  <2>3. l.believes = (local[p].believes \/ granted)
    BY <1>0, <2>1, BelieverMoves
  <2>4. local' = [local EXCEPT ![p] = l]
    BY <1>9 DEF Finish
  <2> HIDE DEF l
  <2> QED
    BY <1>9, <2>2, <2>3, <2>4, BelieverStep
<1>10. ASSUME NEW p \in Procs, NEW c \in Callers, Mark(p, c) \/ Marked(p, c)
       PROVE  Believers'
  <2>0. Grantable(p) \in BOOLEAN /\ scan[p][c].granted \in BOOLEAN
    BY DEF Grantable, TypeOK, Scan
  <2>1. CASE Mark(p, c)
    <3>1. lease' = IF Grantable(p) THEN [lease EXCEPT ![Knows[p]] = p] ELSE lease
      BY <2>1 DEF Mark
    <3>2. UNCHANGED local \/ Finish(p, c, Grantable(p))
      BY <2>1, Zenon DEF Mark
    <3>3. Grantable(p) => lease'[Knows[p]] = p
      BY <1>0, <3>1
    <3>4. UNCHANGED lease \/ (Grantable(p) /\ lease' = [lease EXCEPT ![Knows[p]] = p])
      BY <3>1
    <3>5. CASE UNCHANGED local
      <4>1. local' = [local EXCEPT ![p] = local[p]]
        BY <1>0, <3>5
      <4> QED
        BY <1>0, <3>4, <4>1, BelieverStep
    <3>6. CASE Finish(p, c, Grantable(p))
      BY <1>9, <2>0, <3>3, <3>4, <3>6
    <3> QED
      BY <3>2, <3>5, <3>6
  <2>2. CASE Marked(p, c)
    <3> DEFINE granted == scan[p][c].granted /\ lease[Knows[p]] = p
    <3>1. Finish(p, c, granted) /\ UNCHANGED lease
      BY <2>2 DEF Marked
    <3>2. granted \in BOOLEAN /\ (granted => lease'[Knows[p]] = p)
      BY <2>0, <3>1
    <3> HIDE DEF granted
    <3> QED
      BY <1>9, <3>1, <3>2
  <2> QED
    BY <1>10, <2>1, <2>2
<1>11. ASSUME NEW p \in Procs, Lapse(p) PROVE Believers'
  <2>1. Believe(local[p], FALSE) \in Local /\ ~Believe(local[p], FALSE).believes
    BY <1>0, LocalTyped, BelieverMoves
  <2>2. local' = [local EXCEPT ![p] = Believe(@, FALSE)] /\ UNCHANGED lease
    BY <1>11 DEF Lapse
  <2> QED
    BY <1>0, <2>1, <2>2, BelieverStep
<1>12. ASSUME NEW k \in Registries, LeaseExpires(k) PROVE Believers'
  <2>1. /\ lease' = [lease EXCEPT ![k] = Nobody] /\ UNCHANGED local
        /\ lease[k] \in Procs => ~local[lease[k]].believes
    BY <1>12 DEF LeaseExpires
  <2>2. \A q \in Procs : local[q].believes => Knows[q] # k
    BY <2>1 DEF Believers
  <2> QED
    BY <1>0, <2>1, <2>2 DEF Believers
<1>13. ASSUME NEW p \in Procs, Crash(p) PROVE Believers'
  <2>1. /\ lease' = [k \in Registries |-> IF lease[k] = p THEN Ghost ELSE lease[k]]
        /\ local' = [local EXCEPT ![p] = Fresh]
    BY <1>13 DEF Crash
  <2>2. ~Fresh.believes
    BY DEF Fresh
  <2>3. ASSUME NEW q \in Procs, local'[q].believes PROVE lease'[Knows[q]] = q
    <3>1. q # p
      BY <1>0, <2>1, <2>2, <2>3
    <3>2. lease[Knows[q]] = q
      BY <1>0, <2>1, <2>3, <3>1 DEF Believers
    <3> QED
      BY <1>0, <2>1, <3>1, <3>2
  <2> QED
    BY <2>3 DEF Believers
<1>14. ASSUME NEW p \in Procs,
              Fire(p) \/ SettleScan(p) \/ SkipDrain(p) \/ Ack(p) \/ Judge(p)
       PROVE  Believers'
  BY <1>1, <1>14 DEF Fire, SettleScan, SkipDrain, Ack, Judge
<1>15. ASSUME NEW t \in Targets, RowExpires(t) PROVE Believers'
  BY <1>1, <1>15 DEF RowExpires
<1>16. CASE UNCHANGED vars
  BY <1>1, <1>16 DEF vars
<1> QED
  BY <1>3, <1>4, <1>5, <1>6, <1>8, <1>10, <1>11, <1>12, <1>13, <1>14, <1>15, <1>16
     DEF Next, Runs, DrainStep, Correlate, Expires

\* Two processes of one registry never both take themselves for its scanner,
\* whatever answers are late, leases run out and processes die: the process's own
\* clock ends before the store's, and a late grant counts only while it is held.
THEOREM ScannerCorrect == Spec => []OneScanner
<1>1. Init => Believers
  BY DEF Init, Fresh, Believers
<1>2. TypeOK /\ Believers => OneScanner
  BY DEF Believers, OneScanner
<1> QED
  BY <1>1, <1>2, BelieversNext, TypeCorrect, PTL DEF Spec

-----------------------------------------------------------------------------
(* Marks name events; watermarks, and what a drain will ack, are in the log. *)

Names(l, t, i) == i = 0 \/ (i \in 1 .. Len(l) /\ l[i] = t)

Named ==
    \A t \in Targets :
        /\ Names(log, t, rows[t].mark) /\ rows[t].at <= Len(log)
        /\ \A p \in Procs : pass[p].upto[t] <= Len(log)

LEMMA LastIsNamed ==
    ASSUME TypeOK, NEW t \in Targets, NEW a \in Position, NEW b \in Position
    PROVE  Names(log, t, LastOf(t, a, b))
<1> DEFINE E == EventsOf(t, a, b)
<1>0. a \in Nat /\ b \in Nat /\ Len(log) \in Nat
  BY DEF Position, TypeOK
<1>1. E \in SUBSET Nat /\ \A i \in E : i <= b /\ i \in 1 .. Len(log) /\ log[i] = t
  BY <1>0 DEF EventsOf
<1>2. CASE E = {}
  BY <1>2 DEF LastOf, Names
<1>3. CASE E # {}
  <2>1. \E m \in E : \A i \in E : i <= m
    BY <1>0, <1>1, <1>3, GreatestNat
  <2>2. LastOf(t, a, b) \in E
    BY <1>3, <2>1 DEF LastOf
  <2> QED
    BY <1>1, <2>2 DEF Names
<1> QED
  BY <1>2, <1>3

LEMMA NamedNext == TypeOK /\ Named /\ [Next]_vars => Named'
<1> SUFFICES ASSUME TypeOK, Named, [Next]_vars PROVE Named'
  OBVIOUS
<1>0. /\ rows \in [Targets -> Row] /\ pass \in [Procs -> Pass]
      /\ \A t \in Targets : rows[t] \in Row /\ rows[t].at \in Position /\ rows[t].mark \in Position
      /\ \A p \in Procs : pass[p] \in Pass /\ pass[p].upto \in [Targets -> Position]
      /\ Len(log) \in Nat /\ Position \subseteq Nat
  BY DEF TypeOK, Row, Pass, Position
<1>1. ASSUME UNCHANGED <<log, rows, pass>> PROVE Named'
  BY <1>1 DEF Named
<1>2. \A t \in Targets : NoPass.upto[t] <= Len(log)
  BY <1>0 DEF NoPass
<1>3. ASSUME NEW p \in Procs, NEW k \in Targets \cup {Inert}, Commit(p, k) PROVE Named'
  <2>1. log' = Append(log, k) /\ UNCHANGED <<rows, pass>>
    BY <1>3 DEF Commit
  <2>2. /\ Len(log') = Len(log) + 1 /\ Len(log) \in Nat
        /\ \A i \in 1 .. Len(log) : log'[i] = log[i]
    BY <2>1 DEF TypeOK
  <2>3. ASSUME NEW t, NEW i, Names(log, t, i) PROVE Names(log', t, i)
    BY <2>2, <2>3 DEF Names
  <2>4. ASSUME NEW i \in Nat, i <= Len(log) PROVE i <= Len(log')
    BY <2>2, <2>4
  <2>5. ASSUME NEW t \in Targets
        PROVE  /\ Names(log', t, rows[t].mark) /\ rows[t].at <= Len(log')
               /\ \A q \in Procs : pass[q].upto[t] <= Len(log')
    BY <1>0, <2>3, <2>4 DEF Named
  <2> QED
    BY <2>1, <2>5 DEF Named
<1>4. ASSUME NEW p \in Procs, NEW c \in Callers, Mark(p, c) PROVE Named'
  <2> DEFINE s == scan[p][c]
  <2>1. /\ UNCHANGED <<log, pass>> /\ s.after \in Position /\ s.last \in Position
        /\ rows' = [t \in Targets |-> IF t \in Found(p, s.after, s.last)
                                      THEN Raise(rows[t], LastOf(t, s.after, s.last))
                                      ELSE rows[t]]
    BY <1>4 DEF Mark, TypeOK, Scan
  <2>2. ASSUME NEW t \in Targets
        PROVE  Names(log, t, rows'[t].mark) /\ rows'[t].at <= Len(log)
    <3> DEFINE id == LastOf(t, s.after, s.last)
    <3>1. Names(log, t, id)
      BY <2>1, LastIsNamed
    <3>2. /\ Raise(rows[t], id).mark = Larger(rows[t].mark, id)
          /\ Raise(rows[t], id).at = rows[t].at
      BY <1>0, RaiseMoves
    <3>3. rows'[t] = Raise(rows[t], id) \/ rows'[t] = rows[t]
      BY <2>1
    <3> HIDE DEF id
    <3>4. Larger(rows[t].mark, id) \in {rows[t].mark, id}
      BY DEF Larger
    <3> QED
      BY <3>1, <3>2, <3>3, <3>4 DEF Named
  <2> QED
    BY <2>1, <2>2 DEF Named
<1>5. ASSUME NEW p \in Procs, NEW c \in {"settle", "worker"}, Claim(p, c) PROVE Named'
  <2>1. /\ UNCHANGED log
        /\ rows' = [t \in Targets |-> IF t \in Claimable THEN Take(rows[t], p) ELSE rows[t]]
    BY <1>5 DEF Claim
  <2>2. \A t \in Targets : rows'[t].mark = rows[t].mark /\ rows'[t].at = rows[t].at
    BY <1>0, <2>1, TakeMoves
  <2>3. CASE pass' = pass
    BY <2>1, <2>2, <2>3 DEF Named
  <2>4. CASE pass' # pass
    <3>1. pass' = [pass EXCEPT ![p] =
                    [at |-> IF Claimable = {} THEN "empty" ELSE "working", for |-> c,
                     upto |-> [t \in Targets |->
                       IF t \in Claimable THEN FetchEnd(t) ELSE 0]]]
      BY <1>5, <2>4, Zenon DEF Claim
    <3>2. \A t \in Targets : FetchEnd(t) <= Len(log)
      BY FetchEndTyped
    <3>3. ASSUME NEW t \in Targets, NEW q \in Procs PROVE pass'[q].upto[t] <= Len(log)
      <4>1. CASE q = p
        BY <1>0, <1>2, <3>1, <3>2, <4>1
      <4>2. CASE q # p
        BY <1>0, <3>1, <4>2 DEF Named
      <4> QED
        BY <4>1, <4>2
    <3> QED
      BY <2>1, <2>2, <3>3 DEF Named
  <2> QED
    BY <2>3, <2>4
\* A call that ends, and rows that keep their mark.
<1>6. ASSUME NEW p \in Procs, pass' = [pass EXCEPT ![p] = NoPass], UNCHANGED log,
             \A t \in Targets : /\ rows'[t].mark = rows[t].mark
                                /\ rows'[t].at \in {rows[t].at, pass[p].upto[t]}
      PROVE  Named'
  <2>1. ASSUME NEW t \in Targets, NEW q \in Procs PROVE pass'[q].upto[t] <= Len(log)
    BY <1>0, <1>2, <1>6 DEF Named
  <2>2. ASSUME NEW t \in Targets
        PROVE  Names(log, t, rows'[t].mark) /\ rows'[t].at <= Len(log)
    BY <1>6 DEF Named
  <2> QED
    BY <1>6, <2>1, <2>2 DEF Named
<1>7. ASSUME NEW p \in Procs, Disarm(p) PROVE Named'
  BY <1>6, <1>7 DEF Disarm
<1>8. ASSUME NEW p \in Procs, Ack(p) PROVE Named'
  <2>1. /\ UNCHANGED log /\ pass' = [pass EXCEPT ![p] = NoPass]
        /\ rows' = [t \in Targets |-> IF rows[t].by = p
                                      THEN Acked(rows[t], pass[p].upto[t]) ELSE rows[t]]
    BY <1>8 DEF Ack
  <2>2. ASSUME NEW t \in Targets
        PROVE  rows'[t].mark = rows[t].mark /\ rows'[t].at \in {rows[t].at, pass[p].upto[t]}
    <3>1. /\ Acked(rows[t], pass[p].upto[t]).mark = rows[t].mark
          /\ Acked(rows[t], pass[p].upto[t]).at = pass[p].upto[t]
      BY <1>0, AckMoves
    <3> QED
      BY <2>1, <3>1
  <2> QED
    BY <1>6, <2>1, <2>2
<1>9. ASSUME NEW p \in Procs, Crash(p) PROVE Named'
  <2>1. /\ UNCHANGED log /\ pass' = [pass EXCEPT ![p] = NoPass]
        /\ rows' = [t \in Targets |-> IF rows[t].by = p THEN Take(rows[t], Ghost)
                                      ELSE rows[t]]
    BY <1>9 DEF Crash
  <2>2. \A t \in Targets : rows'[t].mark = rows[t].mark /\ rows'[t].at = rows[t].at
    BY <1>0, <2>1, TakeMoves
  <2> QED
    BY <1>6, <2>1, <2>2
<1>10. ASSUME NEW t \in Targets, RowExpires(t) PROVE Named'
  <2>1. UNCHANGED <<log, pass>> /\ rows' = [rows EXCEPT ![t] = Take(@, Nobody)]
    BY <1>10 DEF RowExpires
  <2>2. \A u \in Targets : rows'[u].mark = rows[u].mark /\ rows'[u].at = rows[u].at
    BY <1>0, <2>1, TakeMoves
  <2> QED
    BY <2>1, <2>2 DEF Named
<1>11. ASSUME NEW p \in Procs,
              \/ Notified(p) \/ Fire(p) \/ Boot(p) \/ SettleScan(p) \/ PollScan(p)
              \/ SkipDrain(p) \/ Judge(p) \/ Lapse(p)
              \/ \E c \in Callers : Ask(p, c) \/ Query(p, c) \/ Read(p, c) \/ Marked(p, c)
       PROVE  Named'
  <2>1. UNCHANGED <<log, rows, pass>>
    BY <1>11 DEF Notified, Fire, Boot, SettleScan, PollScan, SkipDrain, Judge,
                 Lapse, Ask, Query, Read, Marked
  <2> QED
    BY <1>1, <2>1
<1>12. ASSUME NEW k \in Registries, LeaseExpires(k) PROVE Named'
  BY <1>1, <1>12 DEF LeaseExpires
<1>13. CASE UNCHANGED vars
  BY <1>1, <1>13 DEF vars
<1> QED
  BY <1>3, <1>4, <1>5, <1>7, <1>8, <1>9, <1>10, <1>11, <1>12, <1>13
     DEF Next, Runs, DrainStep, Correlate, Expires

\* A mark names an event of its target, whichever overlapping scans raised it,
\* and no watermark passes the end of the log, whoever acks late.
THEOREM MarksCorrect == Spec => []MarksAreEvents
<1>1. Init => Named
  BY DEF Init, EmptyRow, NoPass, Named, Names
<1>2. TypeOK /\ Named => MarksAreEvents
  BY DEF TypeOK, Row, Position, Named, Names, MarksAreEvents
<1> QED
  BY <1>1, <1>2, NamedNext, TypeCorrect, PTL DEF Spec
=============================================================================
