--------------------------- MODULE ControllerProofs ---------------------------
(***************************************************************************)
(* The controller's types, and what holds of every build, whatever its     *)
(* lanes, thresholds, delays and budgets: a shutdown leaves nothing        *)
(* running, a parked stream has its wake-up, and work is never without     *)
(* somebody on the way to it.                                              *)
(***************************************************************************)
EXTENDS Controller, NatSets

-----------------------------------------------------------------------------
(* Numbers.                                                                *)

LEMMA Constants ==
    /\ Cooldown \in Nat \ {0} /\ Lease \in Nat \ {0} /\ Ceiling \in Nat \ {0}
    /\ Delays \subseteq Nat \ {0} /\ Setups \subseteq Setup
  BY ControllerAssumption

LEMMA MaxOf ==
    ASSUME NEW S \in SUBSET Nat, S # {}, NEW n \in Nat, \A i \in S : i <= n
    PROVE  Max(S) \in S /\ \A i \in S : i <= Max(S)
<1>1. \E m \in S : \A i \in S : i <= m
  BY GreatestNat
<1>2. \E m \in S : \A i \in S : m >= i
  BY <1>1
<1>3. Max(S) \in S /\ \A i \in S : Max(S) >= i
  BY <1>2 DEF Max
<1> QED
  BY <1>3

LEMMA LaterOf ==
    ASSUME NEW i \in Nat, NEW j \in Nat
    PROVE  Max({i, j}) \in {i, j} /\ \A k \in {i, j} : k <= Max({i, j})
<1> DEFINE S == {i, j}
<1>1. S \in SUBSET Nat /\ S # {} /\ (i + j) \in Nat /\ \A k \in S : k <= i + j
  OBVIOUS
<1> HIDE DEF S
<1>2. Max(S) \in S /\ \A k \in S : k <= Max(S)
  BY <1>1, MaxOf
<1> QED
  BY <1>2 DEF S

LEMMA MinOf ==
    ASSUME NEW S \in SUBSET Nat, S # {}
    PROVE  Min(S) \in S /\ \A i \in S : Min(S) <= i
<1>1. \E m \in S : \A i \in S : m <= i
  BY LeastNat
<1> QED
  BY <1>1 DEF Min

\* The last event of a stream in a prefix is one of its events, if it has any.
LEMMA LastByType ==
    ASSUME log \in Seq(Streams), NEW s \in Streams, NEW n \in 0 .. Len(log)
    PROVE  /\ LastBy(s, n) \in 0 .. n
           /\ LastBy(s, n) # 0 <=> \E i \in 1 .. n : log[i] = s
<1> DEFINE S == {i \in 1 .. n : log[i] = s} \cup {0}
<1>1. S \in SUBSET Nat /\ S # {} /\ n \in Nat /\ \A i \in S : i <= n
  OBVIOUS
<1>2. Max(S) \in S /\ \A i \in S : i <= Max(S)
  BY <1>1, MaxOf
<1>3. LastBy(s, n) = Max(S)
  BY DEF LastBy
<1> QED
  BY <1>1, <1>2, <1>3

LEMMA LastOfType ==
    ASSUME log \in Seq(Streams), NEW s \in Streams
    PROVE  /\ LastOf(s) \in 0 .. Len(log)
           /\ LastOf(s) # 0 <=> \E i \in 1 .. Len(log) : log[i] = s
<1>1. Len(log) \in 0 .. Len(log)
  OBVIOUS
<1> QED
  BY <1>1, LastByType DEF LastOf

LEMMA CountsDown ==
    ASSUME NEW t \in Countdown
    PROVE  /\ Sooner(t) \in Countdown
           /\ t \in Nat => Sooner(t) \in Nat
           /\ Sooner(t) = Off <=> t = Off
           /\ t = 0 => Sooner(t) = 0
           /\ t > 0 => Sooner(t) = t - 1
  BY DEF Countdown, Off, Sooner

\* The delay a defer timer is set to: none without entries, otherwise not past
\* any of them.
LEMMA WaitType ==
    ASSUME NEW p \in [Streams -> Countdown], NEW l \in Lanes
    PROVE  /\ Wait(p, l) \in Countdown
           /\ \A s \in Of(l) : p[s] # Off => Wait(p, l) # Off /\ Wait(p, l) <= p[s]
           /\ (\A s \in Of(l) : p[s] = Off) => Wait(p, l) = Off
<1> DEFINE due == {p[s] : s \in {x \in Of(l) : p[x] # Off}}
<1>1. due \in SUBSET Nat
  BY DEF Of, Countdown
<1>2. Ceiling \in Nat
  BY Constants
<1>3. Min(due \cup {Ceiling}) \in due \cup {Ceiling}
      /\ \A i \in due \cup {Ceiling} : Min(due \cup {Ceiling}) <= i
  BY <1>1, <1>2, MinOf
<1>4. Wait(p, l) = IF due = {} THEN Off ELSE Min(due \cup {Ceiling})
  BY DEF Wait
<1>5. \A s \in Of(l) : p[s] # Off => p[s] \in due
  OBVIOUS
<1>6. (\A s \in Of(l) : p[s] = Off) => due = {}
  OBVIOUS
<1> HIDE DEF due
<1>7. Wait(p, l) = Off \/ Wait(p, l) \in Nat
  BY <1>1, <1>2, <1>3, <1>4
<1>8. \A s \in Of(l) : p[s] # Off => Wait(p, l) \in Nat /\ Wait(p, l) <= p[s]
  BY <1>1, <1>2, <1>3, <1>4, <1>5
<1>9. Off \notin Nat
  BY DEF Off
<1> QED
  BY <1>4, <1>6, <1>7, <1>8, <1>9 DEF Countdown

-----------------------------------------------------------------------------
(* Types.                                                                  *)

LEMMA SetupType ==
    ASSUME setup \in Setups
    PROVE  /\ setup.laneOf \in [Streams -> Lanes] /\ setup.ticking \in SUBSET Lanes
           /\ setup.threshold \in Nat \ {0} /\ setup.networked \in BOOLEAN
           /\ setup.grace \in BOOLEAN
           /\ setup.faulty \in SUBSET Calls /\ setup.outcomes \in SUBSET Outcomes
           /\ setup.budget \in [Budgeted -> Nat]
<1>1. setup \in Setup
  BY Constants
<1> QED
  BY <1>1 DEF Setup

LEMMA LaneTyped ==
    ASSUME NEW c \in Ctl, NEW timer \in Countdown, NEW took \in [Streams -> Nat],
           NEW at \in {"reply", "work"}, NEW armed \in BOOLEAN
    PROVE  /\ Arm(c) \in Ctl /\ Woken(c, timer) \in Ctl /\ Enter(c) \in Ctl
           /\ Leased(c, at, took) \in Ctl /\ Over(armed, timer) \in Ctl
<1>1. Arm(c) \in Ctl /\ Enter(c) \in Ctl
  BY DEF Ctl, Arm, Enter
<1>2. Woken(c, timer) \in Ctl
  BY DEF Ctl, Woken
<1>3. Leased(c, at, took) \in Ctl
  BY DEF Ctl, Leased
<1>4. Nothing \in [Streams -> Nat]
  BY DEF Nothing
<1>5. Over(armed, timer) \in Ctl
  BY <1>4 DEF Ctl, Over
<1> QED
  BY <1>1, <1>2, <1>3, <1>5

LEMMA RestTyped ==
    ASSUME NEW x \in Settle
    PROVE  /\ Rest(x) \in Settle /\ Rest(x).at = "rest" /\ Rest(x).pending = FALSE
           /\ Rest(x).timer = (x.timer \/ x.pending) /\ Rest(x).upto = x.upto
  BY DEF Settle, Rest

LEMMA FailedRestTyped ==
    ASSUME NEW x \in Settle
    PROVE  LET y == [Rest(x) EXCEPT !.upto = 0] IN
           /\ y \in Settle /\ y.at = "rest" /\ y.pending = FALSE
           /\ y.timer = (x.timer \/ x.pending) /\ y.upto = 0
<1>1. /\ Rest(x) \in Settle /\ Rest(x).at = "rest" /\ Rest(x).pending = FALSE
      /\ Rest(x).timer = (x.timer \/ x.pending)
  BY RestTyped
<1> DEFINE r == Rest(x)
<1> HIDE DEF r
<1>2. \A z \in Settle : LET y == [z EXCEPT !.upto = 0] IN
          /\ y \in Settle /\ y.at = z.at /\ y.pending = z.pending
          /\ y.timer = z.timer /\ y.upto = 0
  BY DEF Settle
<1> QED
  BY <1>1, <1>2

\* Types, a scan has read a prefix of the log, and a closed breaker is below its
\* threshold: a failure cannot take its count past it.
Typed ==
    /\ TypeOK /\ settle.upto <= Len(log)
    /\ breaker.cool = Off => breaker.count < setup.threshold

LEMMA BreakerTyped ==
    ASSUME Typed
    PROVE  /\ Failed(breaker) \in Breaker /\ Failed(breaker).count <= setup.threshold
           /\ Failed(breaker).cool = Off => Failed(breaker).count < setup.threshold
           /\ Passed \in Breaker /\ Passed.count = 0 /\ Passed.cool = Off
           /\ Passed.wake = Off
           /\ Passed.count <= setup.threshold /\ Passed.count < setup.threshold
<1>1. /\ breaker \in Breaker /\ breaker.count <= setup.threshold
      /\ setup.threshold \in Nat \ {0}
  BY SetupType DEF Typed, TypeOK
<1>2. Cooldown \in Countdown /\ Cooldown # Off /\ Off \in Countdown
  BY Constants DEF Countdown, Off
<1>3. CASE breaker.cool # Off
  BY <1>1, <1>2, <1>3 DEF Failed, Breaker, Passed
<1>4. CASE breaker.cool = Off /\ breaker.count + 1 >= setup.threshold
  BY <1>1, <1>2, <1>4 DEF Typed, Failed, Breaker, Passed
<1>5. CASE breaker.cool = Off /\ ~(breaker.count + 1 >= setup.threshold)
  BY <1>1, <1>2, <1>5 DEF Typed, Failed, Breaker, Passed
<1> QED
  BY <1>3, <1>4, <1>5

LEMMA ArmedTyped ==
    ASSUME TypeOK, NEW ls
    PROVE  /\ Armed(ctl, ls) \in [Lanes -> Ctl]
           /\ \A l \in Lanes :
                 /\ Armed(ctl, ls)[l].at = ctl[l].at
                 /\ Armed(ctl, ls)[l].took = ctl[l].took
                 /\ Armed(ctl, ls)[l].timer = ctl[l].timer
                 /\ Armed(ctl, ls)[l].armed = (ctl[l].armed \/ l \in ls)
<1> SUFFICES ASSUME NEW l \in Lanes
             PROVE  /\ Armed(ctl, ls)[l] \in Ctl
                    /\ Armed(ctl, ls)[l].at = ctl[l].at
                    /\ Armed(ctl, ls)[l].took = ctl[l].took
                    /\ Armed(ctl, ls)[l].timer = ctl[l].timer
                    /\ Armed(ctl, ls)[l].armed = (ctl[l].armed \/ l \in ls)
  BY DEF Armed
<1>1. ctl[l] \in Ctl /\ Off \in Countdown
  BY DEF TypeOK, Countdown
<1>2. ctl[l].armed \in BOOLEAN
  BY <1>1 DEF Ctl
<1>3. Arm(ctl[l]) \in Ctl /\ Arm(ctl[l]).armed = TRUE /\ Arm(ctl[l]).at = ctl[l].at
      /\ Arm(ctl[l]).took = ctl[l].took /\ Arm(ctl[l]).timer = ctl[l].timer
  BY <1>1 DEF Arm, Ctl
<1>4. Armed(ctl, ls)[l] = IF l \in ls THEN Arm(ctl[l]) ELSE ctl[l]
  BY DEF Armed
<1> QED
  BY <1>1, <1>2, <1>3, <1>4

LEMMA BootTyped ==
    /\ Boot.app \in App /\ Boot.settle \in Settle /\ Boot.ctl \in [Lanes -> Ctl]
    /\ Boot.plan \in [Streams -> Countdown] /\ Boot.breaker \in Breaker
    /\ Boot.breaker.cool = Off /\ Boot.breaker.count = 0 /\ Boot.breaker.wake = Off
    /\ Boot.app.inited = FALSE /\ Boot.app.life = "up" /\ Boot.app.armed = TRUE
    /\ Boot.settle.timer = TRUE /\ Boot.settle.at = "rest" /\ Boot.settle.pending = FALSE
    /\ Boot.settle.upto = 0
    /\ \A l \in Lanes : /\ Boot.ctl[l].at = "idle" /\ Boot.ctl[l].took = Nothing
                        /\ Boot.ctl[l].timer = Off /\ Boot.ctl[l].armed = FALSE
    /\ \A s \in Streams : Boot.plan[s] = Off
<1>1. Off \in Countdown /\ Nothing \in [Streams -> Nat]
  BY DEF Countdown, Nothing
<1> QED
  BY <1>1 DEF Boot, App, Settle, Ctl, Breaker

LEMMA TypedInit == Init => Typed
<1> SUFFICES ASSUME Init PROVE Typed
  OBVIOUS
<1>1. setup \in Setups /\ setup.budget \in [Budgeted -> Nat] /\ setup.threshold \in Nat \ {0}
  BY SetupType DEF Init
<1>2. log \in Seq(Streams) /\ scanned \in 0 .. Len(log)
  BY DEF Init
<1>3. row \in [Streams -> Row]
  BY DEF Init, Row
<1> QED
  BY <1>1, <1>2, <1>3, BootTyped DEF Init, Typed, TypeOK

LEMMA BreaksTyped ==
    ASSUME Typed, NEW what, Breaks(what), setup' = setup
    PROVE  /\ left' \in [Budgeted -> Nat]
           /\ breaker' \in Breaker /\ breaker'.count <= setup.threshold
           /\ breaker'.cool = Off => breaker'.count < setup.threshold
<1>1. left \in [Budgeted -> Nat] /\ "fault" \in Budgeted
  BY DEF Typed, TypeOK, Budgeted
<1>2. left' = [left EXCEPT !.fault = @ - 1] /\ left.fault > 0
  BY DEF Breaks
<1>3. left' \in [Budgeted -> Nat]
  BY <1>1, <1>2
<1> QED
  BY <1>3, BreakerTyped DEF Breaks

\* A step of the scan waits for the store, marks what it read, or goes on to the
\* drain of every lane.
Asks(at) ==
    /\ settle'.at = at /\ settle'.timer = settle.timer /\ settle'.pending = settle.pending
    /\ UNCHANGED <<app, ctl, breaker>>
Drains(found, c, b) ==
    /\ settle'.at = "drain" /\ settle'.timer = settle.timer
    /\ settle'.pending = settle.pending /\ settle'.progress = found
    /\ settle'.waits = Ready(c, b)
    /\ ctl' = [l \in Lanes |-> IF l \in Ready(c, b) THEN Enter(c[l]) ELSE c[l]]
    /\ breaker' = b

LEMMA DrainsAll ==
    ASSUME TypeOK, NEW found \in BOOLEAN, NEW c \in [Lanes -> Ctl], NEW b,
           DrainAll(found, c, b)
    PROVE  /\ Drains(found, c, b) /\ settle' \in Settle /\ settle'.upto = 0
           /\ ctl' \in [Lanes -> Ctl]
<1> DEFINE go == Ready(c, b)
<1>1. go \in SUBSET Lanes /\ settle \in Settle
  BY DEF Ready, TypeOK
<1>2. /\ ctl' = [l \in Lanes |-> IF l \in go THEN Enter(c[l]) ELSE c[l]]
      /\ breaker' = b
      /\ settle' = [settle EXCEPT !.at = "drain", !.upto = 0, !.progress = found, !.waits = go]
  BY DEF DrainAll
<1> HIDE DEF go
<1>3. /\ settle' \in Settle /\ settle'.upto = 0 /\ settle'.at = "drain"
      /\ settle'.timer = settle.timer /\ settle'.pending = settle.pending
      /\ settle'.progress = found /\ settle'.waits = go
  BY <1>1, <1>2 DEF Settle
<1>4. ctl' \in [Lanes -> Ctl]
  BY <1>2, LaneTyped DEF Enter, Ctl
<1> QED
  BY <1>2, <1>3, <1>4 DEF Drains, go

\* The marks a scan raises.
Raised(s) == [row[s] EXCEPT !.mark = Max({@, LastBy(s, settle.upto)})]

LEMMA RaisedType ==
    ASSUME Typed, NEW s \in Streams
    PROVE  /\ Raised(s) \in Row
           /\ Raised(s).at = row[s].at /\ Raised(s).due = row[s].due
           /\ Raised(s).held = row[s].held /\ Raised(s).mark >= row[s].mark
           /\ \/ Raised(s).mark = row[s].mark
              \/ Raised(s).mark = LastBy(s, settle.upto)
<1> DEFINE n == LastBy(s, settle.upto)
           m == Max({row[s].mark, n})
<1>1. row[s] \in Row /\ row[s].mark \in Nat /\ settle.upto \in 0 .. Len(log)
  BY DEF Typed, TypeOK, Row, Settle
<1>2. n \in Nat
  BY <1>1, LastByType DEF Typed, TypeOK
<1> HIDE DEF n
<1>3. m \in {row[s].mark, n} /\ \A i \in {row[s].mark, n} : i <= m
  BY <1>1, <1>2, LaterOf
<1>4. Raised(s) = [row[s] EXCEPT !.mark = m]
  BY DEF Raised, n
<1> HIDE DEF m
<1>5. m \in Nat /\ m >= row[s].mark /\ (m = row[s].mark \/ m = n)
  BY <1>1, <1>2, <1>3
<1>6. /\ Raised(s) \in Row /\ Raised(s).mark = m /\ Raised(s).at = row[s].at
      /\ Raised(s).due = row[s].due /\ Raised(s).held = row[s].held
  BY <1>1, <1>4, <1>5 DEF Row
<1> QED
  BY <1>5, <1>6 DEF n

\* What a step of the scan does.
LEMMA Correlates ==
    ASSUME Typed, Correlate
    PROVE  /\ settle.at \in {"scan", "read", "mark", "marked"}
           /\ UNCHANGED <<setup, log, plan, left>>
           /\ \/ UNCHANGED <<row, scanned>>
              \/ /\ settle.at = "mark" /\ scanned' = settle.upto
                 /\ row' = [s \in Streams |-> Raised(s)]
           /\ \/ app' = app
              \/ \E found \in BOOLEAN : app' = [app EXCEPT !.armed = found]
           /\ \/ \E at \in {"read", "mark", "marked"} : Asks(at)
              \/ \E found \in BOOLEAN, c \in {ctl, Armed(ctl, Built)}, b \in {breaker, Passed} :
                    Drains(found, c, b)
           /\ settle' \in Settle /\ ctl' \in [Lanes -> Ctl]
           /\ settle'.upto \in {0, settle.upto, Len(log)}
<1>1. /\ settle \in Settle /\ ctl \in [Lanes -> Ctl] /\ Armed(ctl, Built) \in [Lanes -> Ctl]
      /\ Len(log) \in Nat /\ settle.upto \in Nat
  BY ArmedTyped DEF Typed, TypeOK, Settle
<1>2. ASSUME NEW n \in Nat, NEW at \in {"read", "mark"},
             settle' = [settle EXCEPT !.at = at, !.upto = n], UNCHANGED <<app, ctl, breaker>>
      PROVE  Asks(at) /\ settle' \in Settle /\ ctl' \in [Lanes -> Ctl] /\ settle'.upto = n
  BY <1>1, <1>2 DEF Asks, Settle
<1>3. ASSUME NEW found \in BOOLEAN, NEW c \in {ctl, Armed(ctl, Built)}, NEW b,
             DrainAll(found, c, b)
      PROVE  /\ Drains(found, c, b) /\ settle' \in Settle /\ settle'.upto = 0
             /\ ctl' \in [Lanes -> Ctl]
  BY <1>1, <1>3, DrainsAll DEF Typed
<1>4. ASSUME NEW n \in {settle.upto, Len(log)}, Resolve(n)
      PROVE  /\ \/ app' = app
                \/ \E found \in BOOLEAN : app' = [app EXCEPT !.armed = found]
             /\ \/ \E at \in {"read", "mark", "marked"} : Asks(at)
                \/ \E found \in BOOLEAN, c \in {ctl, Armed(ctl, Built)}, b \in {breaker, Passed} :
                      Drains(found, c, b)
             /\ settle' \in Settle /\ ctl' \in [Lanes -> Ctl]
             /\ settle'.upto \in {0, settle.upto, Len(log)}
  <2>1. CASE n > scanned
    <3>1. settle' = [settle EXCEPT !.at = "mark", !.upto = n] /\ UNCHANGED <<app, ctl, breaker>>
      BY <1>4, <2>1 DEF Resolve
    <3>2. n \in Nat
      BY <1>1
    <3>3. Asks("mark") /\ settle' \in Settle /\ ctl' \in [Lanes -> Ctl] /\ settle'.upto = n
      BY <1>2, <3>1, <3>2
    <3> QED
      BY <3>1, <3>3
  <2>2. CASE ~(n > scanned)
    <3>1. app' = [app EXCEPT !.armed = FALSE] /\ DrainAll(FALSE, ctl, Passed)
      BY <1>4, <2>2 DEF Resolve
    <3>2. /\ Drains(FALSE, ctl, Passed) /\ settle' \in Settle /\ settle'.upto = 0
          /\ ctl' \in [Lanes -> Ctl]
      BY <1>3, <3>1
    <3> QED
      BY <3>1, <3>2
  <2> QED
    BY <2>1, <2>2
<1>5. ASSUME Found
      PROVE  /\ app' = [app EXCEPT !.armed = TRUE] /\ Drains(TRUE, Armed(ctl, Built), Passed)
             /\ settle' \in Settle /\ ctl' \in [Lanes -> Ctl] /\ settle'.upto = 0
  BY <1>3, <1>5 DEF Found
<1>6. CASE Skip
  <2>1. /\ settle.at = "scan" /\ DrainAll(FALSE, ctl, breaker)
        /\ UNCHANGED <<setup, log, scanned, row, app, plan, left>>
    BY <1>6 DEF Skip
  <2>2. /\ Drains(FALSE, ctl, breaker) /\ settle' \in Settle /\ settle'.upto = 0
        /\ ctl' \in [Lanes -> Ctl]
    BY <1>3, <2>1
  <2> QED
    BY <2>1, <2>2
<1>7. CASE Scan
  <2>1. /\ settle.at = "scan" /\ UNCHANGED <<setup, log, scanned, row, plan, left>>
        /\ \/ /\ settle' = [settle EXCEPT !.at = "read", !.upto = Len(log)]
              /\ UNCHANGED <<app, ctl, breaker>>
           \/ Resolve(Len(log))
    BY <1>7 DEF Scan
  <2>2. CASE Resolve(Len(log))
    BY <1>4, <2>1, <2>2
  <2>3. CASE /\ settle' = [settle EXCEPT !.at = "read", !.upto = Len(log)]
             /\ UNCHANGED <<app, ctl, breaker>>
    <3>1. /\ Asks("read") /\ settle' \in Settle /\ ctl' \in [Lanes -> Ctl]
          /\ settle'.upto = Len(log)
      BY <1>1, <1>2, <2>3
    <3> QED
      BY <2>1, <2>3, <3>1
  <2> QED
    BY <2>1, <2>2, <2>3
<1>8. CASE Read
  <2>1. /\ settle.at = "read" /\ UNCHANGED <<setup, log, scanned, row, plan, left>>
        /\ Resolve(settle.upto)
    BY <1>8 DEF Read
  <2> QED
    BY <1>4, <2>1
<1>9. CASE Mark
  <2>1. /\ settle.at = "mark" /\ scanned' = settle.upto /\ UNCHANGED <<setup, log, plan, left>>
        /\ row' = [s \in Streams |-> Raised(s)]
        /\ \/ Found
           \/ settle' = [settle EXCEPT !.at = "marked"] /\ UNCHANGED <<app, ctl, breaker>>
    BY <1>9 DEF Mark, Raised
  <2>2. CASE Found
    BY <1>5, <2>1, <2>2
  <2>3. CASE settle' = [settle EXCEPT !.at = "marked"] /\ UNCHANGED <<app, ctl, breaker>>
    <3>1. Asks("marked") /\ settle' \in Settle /\ settle'.upto = settle.upto
      BY <1>1, <2>3 DEF Asks, Settle
    <3> QED
      BY <1>1, <2>1, <2>3, <3>1
  <2> QED
    BY <2>1, <2>2, <2>3
<1>10. CASE Marked
  <2>1. /\ settle.at = "marked" /\ UNCHANGED <<setup, log, scanned, row, plan, left>> /\ Found
    BY <1>10 DEF Marked
  <2> QED
    BY <1>5, <2>1
<1> QED
  BY <1>6, <1>7, <1>8, <1>9, <1>10 DEF Correlate

\* The settle loop.
LEMMA SettleTypes ==
    ASSUME Typed,
           \/ \E s \in Streams : Commit(s)
           \/ Fire \/ Start \/ Correlate \/ SettleFails \/ Judge
    PROVE  Typed'
<1> USE DEF Typed
<1>1. /\ settle \in Settle /\ app \in App /\ ctl \in [Lanes -> Ctl]
      /\ log \in Seq(Streams) /\ row \in [Streams -> Row]
      /\ plan \in [Streams -> Countdown] /\ scanned \in 0 .. Len(log)
      /\ left \in [Budgeted -> Nat] /\ settle.upto \in 0 .. Len(log)
  BY DEF TypeOK, Settle
<1>2. ASSUME NEW s \in Streams, Commit(s) PROVE Typed'
  <2>0. /\ left.commit > 0 /\ left' = [left EXCEPT !.commit = left.commit - 1]
        /\ log' = Append(log, s) /\ app' = [app EXCEPT !.armed = TRUE]
        /\ ctl' = Armed(ctl, {setup.laneOf[s]}) /\ settle' = [settle EXCEPT !.timer = TRUE]
        /\ UNCHANGED <<setup, scanned, row, plan, breaker>>
    BY <1>2 DEF Commit
  <2>1. log' \in Seq(Streams) /\ Len(log') = Len(log) + 1
    BY <1>1, <2>0
  <2>2. left' \in [Budgeted -> Nat]
    <3>1. left.commit \in Nat
      BY <1>1 DEF Budgeted
    <3>2. (left.commit - 1) \in Nat
      BY <2>0, <3>1
    <3> QED
      BY <1>1, <2>0, <3>2
  <2>3. app' \in App /\ settle' \in Settle /\ settle'.upto = settle.upto
    BY <1>1, <2>0 DEF App, Settle
  <2>4. ctl' \in [Lanes -> Ctl]
    BY <2>0, ArmedTyped
  <2>5. scanned' \in 0 .. Len(log') /\ settle'.upto <= Len(log')
    BY <1>1, <2>0, <2>1, <2>3
  <2> QED
    BY <1>1, <2>0, <2>1, <2>2, <2>3, <2>4, <2>5 DEF TypeOK
<1>3. CASE Fire
  <2>1. settle' \in Settle /\ settle'.upto = settle.upto
    BY <1>1, <1>3 DEF Fire, Settle
  <2> QED
    BY <1>3, <2>1 DEF Fire, TypeOK
<1>4. CASE Start
  <2>1. settle' \in Settle /\ app' \in App /\ settle'.upto = settle.upto
    BY <1>1, <1>4 DEF Start, Settle, App
  <2>2. Seeded \in [Streams -> Countdown]
    BY <1>1 DEF Seeded, Row, Countdown
  <2>3. ASSUME NEW l \in Lanes PROVE ctl'[l] \in Ctl
    <3>1. ctl[l] \in Ctl /\ Wait(Seeded, l) \in Countdown
      BY <1>1, <2>2, WaitType
    <3>2. ctl'[l] = [ctl[l] EXCEPT !.armed = @ \/ l \in Built,
                         !.timer = IF \E s \in Of(l) : row[s].due > 0
                                   THEN Wait(Seeded, l) ELSE @]
      BY <1>4 DEF Start
    <3>3. (ctl[l].armed \/ l \in Built) \in BOOLEAN
      BY <3>1 DEF Ctl
    <3> QED
      BY <3>1, <3>2, <3>3 DEF Ctl
  <2>4. ctl' \in [Lanes -> Ctl]
    BY <1>4, <2>3 DEF Start
  <2> QED
    BY <1>4, <2>1, <2>2, <2>4 DEF Start, TypeOK
<1>5. CASE Correlate
  <2>1. /\ UNCHANGED <<setup, log, plan, left>> /\ settle' \in Settle
        /\ ctl' \in [Lanes -> Ctl] /\ settle'.upto \in {0, settle.upto, Len(log)}
    BY <1>5, Correlates
  <2>2. app' \in App
    <3>1. app' = app \/ \E found \in BOOLEAN : app' = [app EXCEPT !.armed = found]
      BY <1>5, Correlates
    <3> QED
      BY <1>1, <3>1 DEF App
  <2>3. row' \in [Streams -> Row] /\ scanned' \in 0 .. Len(log)
    <3>1. \/ UNCHANGED <<row, scanned>>
          \/ scanned' = settle.upto /\ row' = [s \in Streams |-> Raised(s)]
      BY <1>5, Correlates
    <3> QED
      BY <1>1, <3>1, RaisedType
  <2>4. breaker' \in {breaker, Passed}
    <3>1. \/ \E at \in {"read", "mark", "marked"} : Asks(at)
          \/ \E found \in BOOLEAN, c \in {ctl, Armed(ctl, Built)}, b \in {breaker, Passed} :
                Drains(found, c, b)
      BY <1>5, Correlates
    <3> QED
      BY <3>1 DEF Asks, Drains
  <2>5. /\ breaker' \in Breaker /\ breaker'.count <= setup.threshold
        /\ breaker'.cool = Off => breaker'.count < setup.threshold
    BY <2>4, BreakerTyped DEF TypeOK
  <2> QED
    BY <1>1, <2>1, <2>2, <2>3, <2>5 DEF TypeOK
<1>6. CASE SettleFails
  <2>1. settle' \in Settle /\ settle'.upto = 0
    BY <1>1, <1>6, FailedRestTyped DEF SettleFails
  <2>2. \E what \in Calls : Breaks(what)
    BY <1>6 DEF SettleFails, Calls
  <2> QED
    BY <1>1, <1>6, <2>1, <2>2, BreaksTyped DEF SettleFails, TypeOK
<1>7. CASE Judge
  <2>1. settle' \in Settle /\ settle'.upto = settle.upto
    BY <1>1, <1>7, RestTyped DEF Judge, Settle
  <2> QED
    BY <1>1, <1>7, <2>1 DEF Judge, TypeOK
<1> QED
  BY <1>2, <1>3, <1>4, <1>5, <1>6, <1>7

\* The drain of a lane.
LEMMA ReturnTyped ==
    ASSUME TypeOK, NEW l, NEW acked \in BOOLEAN, Return(l, acked)
    PROVE  settle' \in Settle /\ settle'.upto = settle.upto
<1>1. settle \in Settle
  BY DEF TypeOK
<1> QED
  BY <1>1 DEF Return, Settle

\* What Answered makes of the lane and of the breaker.
LEMMA AnsweredTyped ==
    ASSUME Typed, NEW l \in Lanes, NEW took \in [Streams -> Nat], Answered(l, took),
           setup' = setup
    PROVE  /\ ctl' \in [Lanes -> Ctl] /\ settle' \in Settle /\ settle'.upto = settle.upto
           /\ breaker' \in Breaker /\ breaker'.count <= setup.threshold
           /\ breaker'.cool = Off => breaker'.count < setup.threshold
<1>1. /\ settle \in Settle /\ ctl \in [Lanes -> Ctl] /\ breaker \in Breaker
      /\ breaker.count <= setup.threshold
      /\ breaker.cool = Off => breaker.count < setup.threshold
      /\ setup.threshold \in Nat \ {0}
  BY SetupType DEF Typed, TypeOK
<1>2. ctl[l] \in Ctl /\ ctl[l].timer \in Countdown
  BY <1>1 DEF Ctl
<1>3. Over(FALSE, ctl[l].timer) \in Ctl /\ Leased(ctl[l], "work", took) \in Ctl
  BY <1>2, LaneTyped
<1>4. CASE took = Nothing
  <2>1. ctl' = [ctl EXCEPT ![l] = Over(FALSE, @.timer)] /\ breaker' = Passed /\ Return(l, FALSE)
    BY <1>4 DEF Answered
  <2>2. ctl' \in [Lanes -> Ctl]
    BY <1>1, <1>3, <2>1
  <2>3. settle' \in Settle /\ settle'.upto = settle.upto
    BY <2>1, ReturnTyped DEF Typed
  <2> QED
    BY <1>1, <2>1, <2>2, <2>3, BreakerTyped
<1>5. CASE took # Nothing
  <2>1. /\ ctl' = [ctl EXCEPT ![l] = Leased(@, "work", took)]
        /\ breaker' = breaker /\ settle' = settle
    BY <1>5 DEF Answered
  <2> QED
    BY <1>1, <1>3, <2>1
<1> QED
  BY <1>4, <1>5

LEMMA LaneTypes ==
    ASSUME Typed, NEW l \in Lanes, WorkerTick(l) \/ Lane(l) \/ TimerFires(l)
    PROVE  Typed'
<1>1. /\ settle \in Settle /\ app \in App /\ ctl \in [Lanes -> Ctl]
      /\ log \in Seq(Streams) /\ row \in [Streams -> Row]
      /\ plan \in [Streams -> Countdown] /\ scanned \in 0 .. Len(log)
      /\ left \in [Budgeted -> Nat] /\ setup \in Setups
      /\ breaker \in Breaker /\ breaker.count <= setup.threshold
      /\ breaker.cool = Off => breaker.count < setup.threshold
  BY DEF Typed, TypeOK
<1>2. ctl[l] \in Ctl /\ ctl[l].took \in [Streams -> Nat] /\ ctl[l].timer \in Countdown
      /\ ctl[l].armed \in BOOLEAN
  BY <1>1 DEF Ctl
<1>3. CASE WorkerTick(l)
  <2>1. ctl' \in [Lanes -> Ctl]
    BY <1>1, <1>2, <1>3 DEF WorkerTick, Enter, Ctl
  <2> QED
    BY <1>1, <1>3, <2>1 DEF WorkerTick, Typed, TypeOK
<1>4. CASE Claim(l)
  <2> DEFINE free == {s \in Of(l) : Claimable(s)}
             took == [s \in Streams |-> IF s \in free THEN LastOf(s) ELSE 0]
  <2>1. took \in [Streams -> Nat]
    BY <1>1, LastOfType
  <2>2. row' \in [Streams -> Row]
    <3>1. row' = [s \in Streams |-> IF s \in free THEN [row[s] EXCEPT !.held = Lease]
                                       ELSE row[s]]
      BY <1>4 DEF Claim
    <3> HIDE DEF free
    <3> QED
      BY <1>1, <3>1, Constants DEF Row
  <2>3. /\ \/ /\ ctl' = [ctl EXCEPT ![l] = Leased(@, "reply", took)]
              /\ UNCHANGED <<breaker, settle>>
           \/ Answered(l, took)
        /\ UNCHANGED <<setup, log, scanned, app, plan, left>>
    BY <1>4 DEF Claim
  <2> HIDE DEF free, took
  <2>4. CASE /\ ctl' = [ctl EXCEPT ![l] = Leased(@, "reply", took)]
             /\ UNCHANGED <<breaker, settle>>
    <3>1. ctl' \in [Lanes -> Ctl]
      BY <1>1, <1>2, <2>1, <2>4, LaneTyped
    <3> QED
      BY <1>1, <2>2, <2>3, <2>4, <3>1 DEF Typed, TypeOK
  <2>5. CASE Answered(l, took)
    BY <1>1, <2>1, <2>2, <2>3, <2>5, AnsweredTyped DEF Typed, TypeOK
  <2> QED
    BY <2>3, <2>4, <2>5
<1>5. CASE Reply(l)
  BY <1>1, <1>2, <1>5, AnsweredTyped DEF Reply, Typed, TypeOK
<1>6. CASE Finish(l)
  <2> DEFINE took == {s \in Streams : ctl[l].took[s] # 0}
  <2>1. PICK out \in [took -> setup.outcomes], d \in Delays :
         LET acked == {s \in took : out[s] = "ok"}
             parked == {s \in took : out[s] \in {"defer", "backoff"}}
             errors == {s \in took : out[s] \in {"backoff", "fail"}}
             next == [s \in Streams |-> IF s \in acked THEN Off
                                        ELSE IF s \in parked THEN d ELSE plan[s]]
         IN /\ took # acked => left.delay > 0
            /\ left' = [left EXCEPT !.delay = IF took = acked THEN @ ELSE @ - 1]
            /\ row' = [s \in Streams |->
                         IF s \in acked THEN [row[s] EXCEPT !.at = ctl[l].took[s],
                                                            !.due = 0, !.held = 0]
                         ELSE IF s \in parked THEN [row[s] EXCEPT !.due = d, !.held = 0]
                         ELSE row[s]]
            /\ plan' = next
            /\ ctl' = [ctl EXCEPT ![l] =
                         Over(@.armed /\ (acked # {} \/ errors # {}),
                              IF Wait(next, l) # Off THEN Wait(next, l) ELSE @.timer)]
            /\ breaker' = Passed
            /\ Return(l, acked # {})
    BY <1>6 DEF Finish
  <2> DEFINE acked == {s \in took : out[s] = "ok"}
             parked == {s \in took : out[s] \in {"defer", "backoff"}}
             errors == {s \in took : out[s] \in {"backoff", "fail"}}
             next == [s \in Streams |-> IF s \in acked THEN Off
                                        ELSE IF s \in parked THEN d ELSE plan[s]]
             armed == ctl[l].armed /\ (acked # {} \/ errors # {})
             timer == IF Wait(next, l) # Off THEN Wait(next, l) ELSE ctl[l].timer
  <2>2. /\ took # acked => left.delay > 0
        /\ left' = [left EXCEPT !.delay = IF took = acked THEN @ ELSE @ - 1]
        /\ row' = [s \in Streams |->
                     IF s \in acked THEN [row[s] EXCEPT !.at = ctl[l].took[s],
                                                        !.due = 0, !.held = 0]
                     ELSE IF s \in parked THEN [row[s] EXCEPT !.due = d, !.held = 0]
                     ELSE row[s]]
        /\ plan' = next
        /\ ctl' = [ctl EXCEPT ![l] = Over(armed, timer)]
        /\ breaker' = Passed
        /\ Return(l, acked # {})
    BY <2>1
  <2>3. d \in Nat /\ d \in Countdown /\ Off \in Countdown
    BY Constants DEF Countdown
  <2> HIDE DEF took, acked, parked, errors
  <2>4. next \in [Streams -> Countdown]
    BY <1>1, <2>3
  <2>5. timer \in Countdown /\ armed \in BOOLEAN
    BY <1>2, <2>4, WaitType
  <2> HIDE DEF next, timer, armed
  <2>6. ctl' \in [Lanes -> Ctl]
    BY <1>1, <1>2, <2>2, <2>5, LaneTyped
  <2>7. row' \in [Streams -> Row]
    <3>1. \A s \in Streams : [row[s] EXCEPT !.at = ctl[l].took[s], !.due = 0, !.held = 0] \in Row
      BY <1>1, <1>2 DEF Row
    <3>2. \A s \in Streams : [row[s] EXCEPT !.due = d, !.held = 0] \in Row
      BY <1>1, <2>3 DEF Row
    <3> QED
      BY <1>1, <2>2, <3>1, <3>2
  <2>8. left' \in [Budgeted -> Nat]
    <3>1. left.delay \in Nat
      BY <1>1 DEF Budgeted
    <3>2. CASE took = acked
      BY <1>1, <2>2, <3>2
    <3>3. CASE took # acked
      <4>1. left.delay > 0
        BY <2>2, <3>3
      <4>2. left' = [left EXCEPT !.delay = left.delay - 1]
        BY <2>2, <3>3, Zenon
      <4> QED
        BY <1>1, <3>1, <4>1, <4>2
    <3> QED
      BY <3>2, <3>3
  <2>9. settle' \in Settle /\ settle'.upto = settle.upto
    BY <2>2, ReturnTyped DEF Typed
  <2>10. UNCHANGED <<setup, log, scanned, app>>
    BY <1>6 DEF Finish
  <2>11. plan' \in [Streams -> Countdown] /\ breaker' = Passed
    BY <2>2, <2>4
  <2> QED
    BY <1>1, <2>11, <2>6, <2>7, <2>8, <2>9, <2>10, BreakerTyped DEF Typed, TypeOK
<1>7. CASE DrainFails(l)
  <2>1. \E what \in Calls : Breaks(what)
    BY <1>7 DEF DrainFails, Calls
  <2>2. ctl' \in [Lanes -> Ctl]
    BY <1>1, <1>2, <1>7, LaneTyped DEF DrainFails
  <2>3. settle' \in Settle /\ settle'.upto = settle.upto
    BY <1>7, ReturnTyped DEF DrainFails, Typed
  <2> QED
    BY <1>1, <1>7, <2>1, <2>2, <2>3, BreaksTyped DEF DrainFails, Typed, TypeOK
<1>8. CASE TimerFires(l)
  <2> DEFINE due == {s \in Of(l) : plan[s] = 0}
             kept == [s \in Streams |-> IF s \in due THEN Off ELSE plan[s]]
             timer == IF due = {} THEN Wait(kept, l) ELSE Off
  <2>1. plan' = kept /\ ctl' = [ctl EXCEPT ![l] = Woken(@, timer)]
        /\ UNCHANGED <<setup, log, scanned, row, app, settle, breaker, left>>
    BY <1>8 DEF TimerFires
  <2>2. Off \in Countdown
    BY DEF Countdown
  <2> HIDE DEF due
  <2>3. kept \in [Streams -> Countdown]
    BY <1>1, <2>2
  <2>4. timer \in Countdown
    BY <2>2, <2>3, WaitType
  <2> HIDE DEF kept, timer
  <2>5. ctl' \in [Lanes -> Ctl]
    BY <1>1, <1>2, <2>1, <2>4, LaneTyped
  <2> QED
    BY <1>1, <2>1, <2>3, <2>5 DEF Typed, TypeOK
<1> QED
  BY <1>3, <1>4, <1>5, <1>6, <1>7, <1>8 DEF Lane

\* Time, crashes and the end.
LEMMA ClockTypes ==
    ASSUME Typed, Retry \/ Tick \/ Crash \/ Shutdown \/ StopAll \/ TearDown
    PROVE  Typed'
<1>1. /\ settle \in Settle /\ app \in App /\ ctl \in [Lanes -> Ctl]
      /\ row \in [Streams -> Row] /\ plan \in [Streams -> Countdown]
      /\ left \in [Budgeted -> Nat] /\ setup \in Setups /\ log \in Seq(Streams)
      /\ settle.upto <= Len(log)
      /\ breaker \in Breaker /\ breaker.count <= setup.threshold
      /\ breaker.cool = Off => breaker.count < setup.threshold
      /\ setup.threshold \in Nat \ {0} /\ Off \in Countdown
  BY SetupType DEF Typed, TypeOK, Countdown
<1>2. CASE Retry
  <2>1. breaker' \in Breaker /\ settle' \in Settle /\ breaker'.count = breaker.count
        /\ breaker'.cool = breaker.cool /\ settle'.upto = settle.upto
    BY <1>1, <1>2 DEF Retry, Breaker, Settle
  <2> QED
    BY <1>1, <1>2, <2>1 DEF Retry, Typed, TypeOK
<1>3. CASE Tick
  <2>1. ASSUME NEW s \in Streams
        PROVE  [row[s] EXCEPT !.due = Sooner(@), !.held = Sooner(@)] \in Row
    <3>1. row[s] \in Row /\ row[s].due \in Nat /\ row[s].held \in Nat
      BY <1>1 DEF Row
    <3>2. Sooner(row[s].due) \in Nat /\ Sooner(row[s].held) \in Nat
      BY <3>1 DEF Sooner
    <3> QED
      BY <3>1, <3>2 DEF Row
  <2>2. row' \in [Streams -> Row]
    BY <1>3, <2>1 DEF Tick
  <2>3. plan' \in [Streams -> Countdown]
    BY <1>1, <1>3, CountsDown DEF Tick
  <2>4. \A l \in Lanes : [ctl[l] EXCEPT !.timer = Sooner(@)] \in Ctl
    BY <1>1, CountsDown DEF Ctl
  <2>5. ctl' \in [Lanes -> Ctl]
    BY <1>3, <2>4 DEF Tick
  <2>6. breaker' = [breaker EXCEPT !.cool = Sooner(@), !.wake = Sooner(@)]
    BY <1>3 DEF Tick
  <2>7. breaker.cool \in Countdown /\ breaker.wake \in Countdown
    BY <1>1 DEF Breaker
  <2>8. /\ Sooner(breaker.cool) \in Countdown /\ Sooner(breaker.wake) \in Countdown
        /\ Sooner(breaker.cool) = Off <=> breaker.cool = Off
    BY <2>7, CountsDown
  <2>9. breaker' \in Breaker /\ breaker'.count = breaker.count
        /\ breaker'.cool = Sooner(breaker.cool)
    BY <1>1, <2>6, <2>8 DEF Breaker
  <2> QED
    BY <1>1, <1>3, <2>2, <2>3, <2>5, <2>8, <2>9 DEF Tick, Typed, TypeOK
<1>4. CASE Crash
  <2>1. left' \in [Budgeted -> Nat]
    BY <1>1, <1>4 DEF Crash, Budgeted
  <2> QED
    BY <1>1, <1>4, <2>1, BootTyped DEF Crash, Typed, TypeOK
<1>5. CASE Shutdown
  <2>1. app' \in App
    BY <1>1, <1>5 DEF Shutdown, App
  <2> QED
    BY <1>1, <1>5, <2>1 DEF Shutdown, Typed, TypeOK
<1>6. CASE StopAll
  <2>1. app' \in App /\ settle' \in Settle /\ settle'.upto = settle.upto
    BY <1>1, <1>6 DEF StopAll, App, Settle
  <2>2. breaker' \in Breaker /\ breaker'.count = breaker.count
        /\ breaker'.cool = breaker.cool
    BY <1>1, <1>6 DEF StopAll, Breaker
  <2>3. ctl' \in [Lanes -> Ctl]
    BY <1>1, <1>6 DEF StopAll, Ctl
  <2> QED
    BY <1>1, <1>6, <2>1, <2>2, <2>3 DEF StopAll, Typed, TypeOK
<1>7. CASE TearDown
  <2>1. app' \in App
    BY <1>1, <1>7 DEF TearDown, App
  <2> QED
    BY <1>1, <1>7, <2>1 DEF TearDown, Typed, TypeOK
<1> QED
  BY <1>2, <1>3, <1>4, <1>5, <1>6, <1>7

LEMMA TypedNext == Typed /\ [Next]_vars => Typed'
<1>1. Typed /\ Next => Typed'
  BY SettleTypes, LaneTypes, ClockTypes DEF Next, Cycle
<1>2. Typed /\ UNCHANGED vars => Typed'
  BY DEF vars, Typed, TypeOK
<1> QED
  BY <1>1, <1>2

(* Every variable has its type, in every build.                            *)
THEOREM TypeCorrect == Spec => []TypeOK
<1>1. Typed => TypeOK
  BY DEF Typed
<1> QED
  BY TypedInit, TypedNext, <1>1, PTL DEF Spec

-----------------------------------------------------------------------------
(* The circumstances under which the promises hold.                        *)

\* Every outcome lets go of its stream: a bare failure keeps the lease, and so
\* does an ack that throws.
Tame(x) == "fail" \notin x.outcomes /\ "ack" \notin x.faulty

\* Handlers that ask for a delay have a store that answers at once: the wake-up
\* that comes during an awaited claim is lost.
Prompt(x) == x.networked => x.outcomes \subseteq {"ok"}

\* Every lane has a worker, and the settle loop's own calls do not fail.
SelfPaced(x) ==
    /\ {x.laneOf[s] : s \in Streams} \subseteq x.ticking
    /\ "init" \notin x.faulty /\ "scan" \notin x.faulty

\* One lane that the settle loop alone drives, behind a breaker that opens, and so
\* schedules its retry, on every failure.
Lone(x) ==
    /\ x.ticking = {} /\ x.threshold = 1 /\ x.outcomes \subseteq {"ok"}
    /\ "ack" \notin x.faulty
    /\ \A s, z \in Streams : x.laneOf[s] = x.laneOf[z]

-----------------------------------------------------------------------------
(* The invariants.                                                         *)

Has(s) == \E i \in 1 .. Len(log) : log[i] = s

\* A mark stands for an event; what a cycle took is of its lane, behind its mark,
\* and in its hands; a leased stream is in its lane's hands.
MarkInv == \A s \in Streams : row[s].mark # 0 => Has(s)
TookInv ==
    \A l \in Lanes, s \in Streams : ctl[l].took[s] # 0 =>
        /\ setup.laneOf[s] = l /\ row[s].mark > row[s].at
        /\ ctl[l].at \in {"reply", "work"}
AtInv ==
    \A l \in Lanes :
        /\ ctl[l].at = "work" => \E s \in Streams : ctl[l].took[s] # 0
        /\ ctl[l].at = "reply" => setup.networked
HeldInv ==
    Tame(setup) => \A s \in Streams : row[s].held # 0 => ctl[setup.laneOf[s]].took[s] # 0
LaneInv == MarkInv /\ TookInv /\ AtInv /\ HeldInv

\* Handlers that never ask for a delay leave no due date and no timer.
Undelayed ==
    setup.outcomes \subseteq {"ok"} =>
        /\ \A s \in Streams : row[s].due = 0 /\ plan[s] = Off
        /\ \A l \in Lanes : ctl[l].timer = Off

\* A parked stream has an entry, which runs with its due date; a lane between two
\* cycles is woken for it in time, or awake over another of its streams.
Wakes(l, s) ==
    \/ ctl[l].timer \in 0 .. row[s].due
    \/ ctl[l].armed /\ \E z \in Of(l) : Claimable(z)
DueInv == \A s \in Streams : row[s].due > 0 => row[s].mark > row[s].at
EntryInv ==
    \A s \in Streams : plan[s] # Off => plan[s] = row[s].due /\ row[s].mark > row[s].at
SeedInv == app.inited => \A s \in Streams : row[s].due > 0 => plan[s] # Off
WakeInv ==
    app.inited /\ app.life \in {"up", "closing"} =>
        \A l \in Lanes : ctl[l].at \in {"idle", "claim"} =>
            \A s \in Of(l) : row[s].due > 0 => Wakes(l, s)
ParkInv == DueInv /\ EntryInv /\ SeedInv /\ WakeInv

\* After the timers were stopped nothing sets one; at the end nothing runs, where
\* shutdown() is given its grace.
EndInv ==
    /\ app.life \in {"stopping", "down"} =>
          ~settle.timer /\ ~settle.pending /\ breaker.wake = Off
    /\ app.life = "down" /\ setup.grace =>
          settle.at = "rest" /\ \A l \in Lanes : ctl[l].at = "idle"

\* Correlate is armed over what it has not scanned, an awaited query that found
\* nothing still has nothing to find, and the loop comes back to what is left.
ScanInv ==
    /\ ~app.armed => ~Unscanned
    /\ settle.at \notin {"rest", "init"} => app.inited
    /\ settle.at = "read" =>
          scanned <= settle.upto /\ (settle.upto = scanned => ~Unscanned)
    /\ settle.at = "mark" => scanned < settle.upto
    /\ app.life = "up" =>
          /\ settle.at = "drain" /\ Unscanned
                => settle.timer \/ settle.pending \/ settle.progress
          /\ settle.at = "rest" /\ (Unscanned \/ ~app.inited)
                => settle.timer \/ (Lone(setup) /\ breaker.wake # Off)

\* A lone lane works within a pass of the loop; where it rests over work, the
\* loop or the breaker comes back to it.
Waits(l) == ctl[l].armed /\ \E s \in Of(l) : Claimable(s)
WakeTimed == breaker.cool > 0 => breaker.wake = breaker.cool
PassInv ==
    \A l \in Lanes :
        /\ ctl[l].at # "idle" => settle.at = "drain" /\ l \in settle.waits /\ ctl[l].armed
        /\ ctl[l].armed => l \in Built
RestInv ==
    \A l \in Lanes : ctl[l].at = "idle" /\ Waits(l) =>
        /\ settle.at = "drain" =>
              \/ settle.timer \/ settle.pending \/ settle.progress
              \/ breaker.wake # Off
        /\ settle.at = "rest" => settle.timer \/ breaker.wake # Off
LoneInv ==
    Lone(setup) /\ app.life = "up" => WakeTimed /\ PassInv /\ RestInv

-----------------------------------------------------------------------------
(* The lanes and the leases.                                               *)

LEMMA BuildKept == ASSUME [Next]_vars PROVE setup' = setup
  BY DEF Next, vars, Cycle, Correlate, Lane, Fire, Start, Skip, Scan, Read, Mark, Marked,
         SettleFails, Judge, Retry, Tick, Crash, Shutdown, StopAll, TearDown, Commit,
         WorkerTick, Claim, Reply, Finish, DrainFails, TimerFires

LEMMA HasLast ==
    ASSUME Typed, NEW s \in Streams
    PROVE  Has(s) <=> LastOf(s) # 0
  BY LastOfType DEF Typed, TypeOK, Has

\* What leaves the cycles alone, but for the entry into one.
Kept(l) ==
    /\ ctl'[l].took = ctl[l].took
    /\ ctl'[l].at # ctl[l].at => ctl[l].at = "idle" /\ ctl'[l].at = "claim"

\* A step of the scan leaves the cycles and the timers alone, and disarms no lane.
LEMMA CorrelateLanes ==
    ASSUME Typed, Correlate, NEW l \in Lanes
    PROVE  /\ Kept(l) /\ ctl'[l].timer = ctl[l].timer
           /\ ctl[l].armed => ctl'[l].armed
<1>1. ctl[l] \in Ctl
  BY DEF Typed, TypeOK
<1>2. ASSUME NEW at, Asks(at) PROVE ctl' = ctl
  BY <1>2 DEF Asks
<1>3. ASSUME NEW found \in BOOLEAN, NEW c \in {ctl, Armed(ctl, Built)}, NEW b,
             Drains(found, c, b)
      PROVE  /\ Kept(l) /\ ctl'[l].timer = ctl[l].timer
             /\ ctl[l].armed => ctl'[l].armed
  <2>1. /\ c[l] \in Ctl /\ c[l].took = ctl[l].took /\ c[l].at = ctl[l].at
        /\ c[l].timer = ctl[l].timer /\ (ctl[l].armed => c[l].armed)
    <3>1. CASE c = ctl
      BY <1>1, <3>1
    <3>2. CASE c = Armed(ctl, Built)
      <4>1. TypeOK
        BY DEF Typed
      <4>2. /\ Armed(ctl, Built)[l] \in Ctl /\ Armed(ctl, Built)[l].at = ctl[l].at
            /\ Armed(ctl, Built)[l].took = ctl[l].took
            /\ Armed(ctl, Built)[l].timer = ctl[l].timer
            /\ Armed(ctl, Built)[l].armed = (ctl[l].armed \/ l \in Built)
        BY <4>1, ArmedTyped
      <4> QED
        BY <3>2, <4>2
    <3> QED
      BY <1>3, <3>1, <3>2
  <2>2. /\ Enter(c[l]).took = c[l].took /\ Enter(c[l]).at = "claim"
        /\ Enter(c[l]).timer = c[l].timer /\ Enter(c[l]).armed = c[l].armed
    BY <2>1 DEF Enter, Ctl
  <2>3. /\ ctl'[l] = IF l \in Ready(c, b) THEN Enter(c[l]) ELSE c[l]
        /\ l \in Ready(c, b) => c[l].at = "idle"
    BY <1>3 DEF Drains, Ready
  <2> QED
    BY <2>1, <2>2, <2>3 DEF Kept
<1>4. \/ \E at \in {"read", "mark", "marked"} : Asks(at)
      \/ \E found \in BOOLEAN, c \in {ctl, Armed(ctl, Built)}, b \in {breaker, Passed} :
            Drains(found, c, b)
  BY Correlates
<1> QED
  BY <1>2, <1>3, <1>4 DEF Kept

\* It leaves the application's life, the loop's timer and the rows' watermarks,
\* due dates and leases alone.
LEMMA CorrelateKeeps ==
    ASSUME Typed, Correlate
    PROVE  /\ app'.life = app.life /\ app'.inited = app.inited
           /\ settle'.timer = settle.timer /\ settle'.pending = settle.pending
           /\ settle'.at \in {"read", "mark", "marked", "drain"}
           /\ breaker' \in {breaker, Passed}
           /\ \A s \in Streams :
                 /\ row'[s].at = row[s].at /\ row'[s].due = row[s].due
                 /\ row'[s].held = row[s].held /\ row'[s].mark >= row[s].mark
                 /\ row'[s].mark # row[s].mark /\ row'[s].mark # 0 => Has(s)
<1>1. app'.life = app.life /\ app'.inited = app.inited
  <2>1. app' = app \/ \E found \in BOOLEAN : app' = [app EXCEPT !.armed = found]
    BY Correlates
  <2> QED
    BY <2>1 DEF Typed, TypeOK, App
<1>2. /\ settle'.timer = settle.timer /\ settle'.pending = settle.pending
      /\ settle'.at \in {"read", "mark", "marked", "drain"}
      /\ breaker' \in {breaker, Passed}
  <2>1. \/ \E at \in {"read", "mark", "marked"} : Asks(at)
        \/ \E found \in BOOLEAN, c \in {ctl, Armed(ctl, Built)}, b \in {breaker, Passed} :
              Drains(found, c, b)
    BY Correlates
  <2> QED
    BY <2>1 DEF Asks, Drains
<1>3. ASSUME NEW s \in Streams
      PROVE  /\ row'[s].at = row[s].at /\ row'[s].due = row[s].due
             /\ row'[s].held = row[s].held /\ row'[s].mark >= row[s].mark
             /\ row'[s].mark # row[s].mark /\ row'[s].mark # 0 => Has(s)
  <2>1. \/ row' = row
        \/ row' = [z \in Streams |-> Raised(z)]
    BY Correlates
  <2>2. row[s].mark \in Nat
    BY DEF Typed, TypeOK, Row
  <2>3. CASE row' = row
    BY <2>2, <2>3
  <2>4. CASE row' = [z \in Streams |-> Raised(z)]
    <3>1. row'[s] = Raised(s)
      BY <2>4
    <3>2. settle.upto \in 0 .. Len(log) /\ log \in Seq(Streams)
      BY DEF Typed, TypeOK, Settle
    <3>3. LastBy(s, settle.upto) # 0 => Has(s)
      BY <3>2, LastByType DEF Has
    <3> QED
      BY <3>1, <3>3, RaisedType
  <2> QED
    BY <2>1, <2>3, <2>4
<1> QED
  BY <1>1, <1>2, <1>3
Quiet ==
    /\ \A s \in Streams : Has(s) => Has(s)'
    /\ \A s \in Streams : /\ row'[s].at = row[s].at
                          /\ row'[s].held # 0 => row[s].held # 0
                          /\ row'[s].mark # row[s].mark =>
                                row'[s].mark >= row[s].mark /\ (row'[s].mark # 0 => Has(s)')
    /\ \A l \in Lanes : Kept(l)

LEMMA QuietLanes ==
    ASSUME Typed, Typed', LaneInv, setup' = setup, Quiet
    PROVE  LaneInv'
<1>1. /\ row \in [Streams -> Row] /\ row' \in [Streams -> Row]
      /\ ctl \in [Lanes -> Ctl] /\ ctl' \in [Lanes -> Ctl]
      /\ setup.laneOf \in [Streams -> Lanes]
  BY SetupType DEF Typed, TypeOK
<1>2. MarkInv'
  BY DEF LaneInv, MarkInv, Quiet
<1>3. TookInv'
  <2> SUFFICES ASSUME NEW l \in Lanes, NEW s \in Streams, ctl'[l].took[s] # 0
               PROVE  /\ setup.laneOf[s] = l /\ row'[s].mark > row'[s].at
                      /\ ctl'[l].at \in {"reply", "work"}
    BY DEF TookInv
  <2>1. ctl[l].took[s] # 0
    BY DEF Quiet, Kept
  <2>2. setup.laneOf[s] = l /\ row[s].mark > row[s].at /\ ctl[l].at \in {"reply", "work"}
    BY <2>1 DEF LaneInv, TookInv
  <2>3. ctl'[l].at = ctl[l].at
    BY <2>2 DEF Quiet, Kept
  <2>4. row'[s].at = row[s].at /\ row'[s].mark >= row[s].mark
        /\ row[s] \in Row /\ row'[s] \in Row
    BY <1>1 DEF Quiet, Row
  <2> QED
    BY <2>2, <2>3, <2>4 DEF Row
<1>4. AtInv'
  BY DEF LaneInv, AtInv, Quiet, Kept
<1>5. HeldInv'
  BY <1>1 DEF LaneInv, HeldInv, Quiet, Kept
<1> QED
  BY <1>2, <1>3, <1>4, <1>5 DEF LaneInv

LEMMA QuietSteps ==
    ASSUME Typed, Typed',
           \/ \E s \in Streams : Commit(s)
           \/ Fire \/ Start \/ Correlate \/ SettleFails \/ Judge
           \/ \E l \in Lanes : WorkerTick(l) \/ TimerFires(l)
           \/ Retry \/ Tick \/ Shutdown \/ StopAll \/ TearDown \/ UNCHANGED vars
    PROVE  Quiet
<1>1. /\ row \in [Streams -> Row] /\ row' \in [Streams -> Row]
      /\ ctl \in [Lanes -> Ctl] /\ log \in Seq(Streams)
  BY DEF Typed, TypeOK
<1>2. ASSUME UNCHANGED <<log, row>>, \A l \in Lanes : Kept(l) PROVE Quiet
  BY <1>2 DEF Quiet, Has
<1>3. ASSUME NEW s \in Streams, Commit(s) PROVE Quiet
  <2>1. \A z \in Streams : Has(z) => Has(z)'
    <3> SUFFICES ASSUME NEW z \in Streams, NEW i \in 1 .. Len(log), log[i] = z
                 PROVE  \E j \in 1 .. Len(log') : log'[j] = z
      BY DEF Has
    <3>1. Len(log') = Len(log) + 1 /\ log'[i] = log[i]
      BY <1>1, <1>3 DEF Commit
    <3> QED
      BY <1>1, <3>1
  <2>2. \A l \in Lanes : Kept(l)
    BY <1>3, ArmedTyped DEF Commit, Typed, Kept
  <2>3. row' = row
    BY <1>3 DEF Commit
  <2> QED
    BY <2>1, <2>2, <2>3 DEF Quiet, Kept
<1>4. CASE Fire \/ SettleFails \/ Judge \/ Retry \/ Shutdown \/ TearDown \/ UNCHANGED vars
  <2>1. UNCHANGED <<log, row, ctl>>
    BY <1>4 DEF Fire, SettleFails, Judge, Retry, Shutdown, TearDown, vars
  <2> QED
    BY <1>2, <2>1 DEF Kept
<1>5. CASE Start
  <2>1. UNCHANGED <<log, row>>
    BY <1>5 DEF Start
  <2>2. \A l \in Lanes : Kept(l)
    BY <1>1, <1>5 DEF Start, Ctl, Kept
  <2> QED
    BY <1>2, <2>1, <2>2
<1>6. CASE Correlate
  <2>1. \A s \in Streams : Has(s)' <=> Has(s)
    BY <1>6, Correlates DEF Has
  <2>2. \A l \in Lanes : Kept(l)
    BY <1>6, CorrelateLanes
  <2> QED
    BY <1>6, <2>1, <2>2, CorrelateKeeps DEF Quiet
<1>7. ASSUME NEW l \in Lanes, WorkerTick(l) PROVE Quiet
  <2>1. ctl[l].at = "idle" /\ ctl' = [ctl EXCEPT ![l] = Enter(@)] /\ UNCHANGED <<log, row>>
    BY <1>7 DEF WorkerTick, Ready
  <2>2. ASSUME NEW z \in Lanes PROVE Kept(z)
    <3>1. ctl'[z] = IF z = l THEN Enter(ctl[l]) ELSE ctl[z]
      BY <1>1, <2>1
    <3>2. Enter(ctl[l]).took = ctl[l].took /\ Enter(ctl[l]).at = "claim"
      BY <1>1 DEF Enter, Ctl
    <3> QED
      BY <2>1, <3>1, <3>2 DEF Kept
  <2> QED
    BY <1>2, <2>1, <2>2
<1>8. ASSUME NEW l \in Lanes, TimerFires(l) PROVE Quiet
  <2>1. PICK timer : ctl' = [ctl EXCEPT ![l] = Woken(@, timer)] /\ UNCHANGED <<log, row>>
    BY <1>8 DEF TimerFires
  <2>2. ASSUME NEW z \in Lanes PROVE Kept(z)
    <3>1. ctl'[z] = IF z = l THEN Woken(ctl[l], timer) ELSE ctl[z]
      BY <1>1, <2>1
    <3>2. Woken(ctl[l], timer).took = ctl[l].took /\ Woken(ctl[l], timer).at = ctl[l].at
      BY <1>1 DEF Woken, Ctl
    <3> QED
      BY <2>1, <3>1, <3>2 DEF Kept
  <2> QED
    BY <1>2, <2>1, <2>2
<1>9. CASE Tick
  <2>1. log' = log /\ \A s \in Streams : Has(s)' <=> Has(s)
    BY <1>9 DEF Tick, Has
  <2>2. \A l \in Lanes : Kept(l)
    BY <1>1, <1>9 DEF Tick, Ctl, Kept
  <2>3. ASSUME NEW s \in Streams
        PROVE  /\ row'[s].at = row[s].at /\ row'[s].mark = row[s].mark
               /\ row'[s].held # 0 => row[s].held # 0
    <3>1. row'[s] = [row[s] EXCEPT !.due = Sooner(@), !.held = Sooner(@)]
      BY <1>9 DEF Tick
    <3>2. row[s] \in Row /\ row[s].held \in Nat
      BY <1>1 DEF Row
    <3>3. row[s].held = 0 => Sooner(row[s].held) = 0
      BY DEF Sooner
    <3> QED
      BY <3>1, <3>2, <3>3 DEF Row
  <2> QED
    BY <2>1, <2>2, <2>3 DEF Quiet, Kept
<1>10. CASE StopAll
  <2>1. UNCHANGED <<log, row>>
    BY <1>10 DEF StopAll
  <2>2. \A l \in Lanes : Kept(l)
    BY <1>1, <1>10 DEF StopAll, Ctl, Kept
  <2> QED
    BY <1>2, <2>1, <2>2
<1> QED
  BY <1>3, <1>4, <1>5, <1>6, <1>7, <1>8, <1>9, <1>10

\* A cycle that answers: the lane is over or at work, and a claim that found
\* nothing leased nothing.
LEMMA AnsweredLane ==
    ASSUME Typed, NEW l \in Lanes, NEW took \in [Streams -> Nat], Answered(l, took)
    PROVE  /\ \A z \in Lanes \ {l} : ctl'[z] = ctl[z]
           /\ ctl'[l].took = took
           /\ \/ took = Nothing /\ ctl'[l].at = "idle"
              \/ took # Nothing /\ ctl'[l].at = "work"
           /\ ctl'[l].timer = ctl[l].timer
<1>1. ctl \in [Lanes -> Ctl] /\ ctl[l] \in Ctl
  BY DEF Typed, TypeOK
<1>2. CASE took = Nothing
  <2>1. ctl' = [ctl EXCEPT ![l] = Over(FALSE, @.timer)]
    BY <1>2 DEF Answered
  <2>2. ctl'[l] = Over(FALSE, ctl[l].timer) /\ \A z \in Lanes \ {l} : ctl'[z] = ctl[z]
    BY <1>1, <2>1
  <2> QED
    BY <1>2, <2>2 DEF Over
<1>3. CASE took # Nothing
  <2>1. ctl' = [ctl EXCEPT ![l] = Leased(@, "work", took)]
    BY <1>3 DEF Answered
  <2>2. ctl'[l] = Leased(ctl[l], "work", took) /\ \A z \in Lanes \ {l} : ctl'[z] = ctl[z]
    BY <1>1, <2>1
  <2> QED
    BY <1>1, <1>3, <2>2 DEF Leased, Ctl
<1> QED
  BY <1>2, <1>3

\* What a claim takes: the last event of each stream it leases.
LEMMA ClaimTakes ==
    ASSUME Typed, LaneInv, NEW l \in Lanes, Claim(l)
    PROVE  \E took \in [Streams -> Nat] :
             /\ \A s \in Streams : took[s] # 0 <=> s \in Of(l) /\ Claimable(s)
             /\ \A s \in Streams : row'[s] = IF took[s] # 0 THEN [row[s] EXCEPT !.held = Lease]
                                             ELSE row[s]
             /\ \/ /\ setup.networked /\ ctl' = [ctl EXCEPT ![l] = Leased(@, "reply", took)]
                   /\ UNCHANGED <<breaker, settle>>
                \/ Answered(l, took)
             /\ UNCHANGED <<setup, log, scanned, app, plan, left>>
<1> DEFINE free == {s \in Of(l) : Claimable(s)}
           took == [s \in Streams |-> IF s \in free THEN LastOf(s) ELSE 0]
<1>1. took \in [Streams -> Nat]
  BY LastOfType DEF Typed, TypeOK
<1>2. ASSUME NEW s \in free PROVE LastOf(s) # 0
  <2>1. s \in Streams /\ row[s] \in Row /\ row[s].mark > row[s].at
    BY DEF Of, Claimable, Typed, TypeOK
  <2>2. row[s].mark # 0
    BY <2>1 DEF Row
  <2> QED
    BY <2>1, <2>2, HasLast DEF LaneInv, MarkInv
<1>3. /\ row' = [s \in Streams |-> IF s \in free THEN [row[s] EXCEPT !.held = Lease]
                                   ELSE row[s]]
      /\ \/ /\ setup.networked /\ ctl' = [ctl EXCEPT ![l] = Leased(@, "reply", took)]
            /\ UNCHANGED <<breaker, settle>>
         \/ Answered(l, took)
      /\ UNCHANGED <<setup, log, scanned, app, plan, left>>
  BY DEF Claim
<1>4. \A s \in Streams : s \in free <=> s \in Of(l) /\ Claimable(s)
  OBVIOUS
<1> HIDE DEF free
<1>5. \A s \in Streams : took[s] # 0 <=> s \in free
  BY <1>2
<1> HIDE DEF took
<1>6. \A s \in Streams : row'[s] = IF took[s] # 0 THEN [row[s] EXCEPT !.held = Lease]
                                   ELSE row[s]
  BY <1>3, <1>5
<1>7. \A s \in Streams : took[s] # 0 <=> s \in Of(l) /\ Claimable(s)
  BY <1>4, <1>5
<1> QED
  BY <1>1, <1>3, <1>6, <1>7

LEMMA NothingTaken ==
    ASSUME NEW took \in [Streams -> Nat]
    PROVE  took = Nothing <=> \A s \in Streams : took[s] = 0
  BY DEF Nothing

LEMMA ClaimLane ==
    ASSUME Typed, Typed', LaneInv, NEW l \in Lanes, Claim(l)
    PROVE  LaneInv'
<1>1. PICK took \in [Streams -> Nat] :
             /\ \A s \in Streams : took[s] # 0 <=> s \in Of(l) /\ Claimable(s)
             /\ \A s \in Streams : row'[s] = IF took[s] # 0 THEN [row[s] EXCEPT !.held = Lease]
                                             ELSE row[s]
             /\ \/ /\ setup.networked /\ ctl' = [ctl EXCEPT ![l] = Leased(@, "reply", took)]
                   /\ UNCHANGED <<breaker, settle>>
                \/ Answered(l, took)
             /\ UNCHANGED <<setup, log, scanned, app, plan, left>>
  BY ClaimTakes
<1>2. /\ row \in [Streams -> Row] /\ ctl \in [Lanes -> Ctl] /\ ctl[l] \in Ctl
      /\ setup.laneOf \in [Streams -> Lanes] /\ ctl[l].at = "claim"
  BY SetupType DEF Typed, TypeOK, Claim
<1>3. /\ \A z \in Lanes \ {l} : ctl'[z] = ctl[z]
      /\ ctl'[l].took = took
      /\ \/ took = Nothing /\ ctl'[l].at = "idle"
         \/ took # Nothing /\ ctl'[l].at = "work"
         \/ setup.networked /\ ctl'[l].at = "reply"
  <2>1. CASE setup.networked /\ ctl' = [ctl EXCEPT ![l] = Leased(@, "reply", took)]
    <3>1. ctl'[l] = Leased(ctl[l], "reply", took) /\ \A z \in Lanes \ {l} : ctl'[z] = ctl[z]
      BY <1>2, <2>1
    <3> QED
      BY <1>2, <2>1, <3>1 DEF Leased, Ctl
  <2>2. CASE Answered(l, took)
    BY <2>2, AnsweredLane
  <2> QED
    BY <1>1, <2>1, <2>2
<1>4. \A s \in Streams : /\ row'[s].mark = row[s].mark /\ row'[s].at = row[s].at
                         /\ took[s] = 0 => row'[s].held = row[s].held
  BY <1>1, <1>2 DEF Row
<1>5. MarkInv'
  <2>1. \A s \in Streams : Has(s)' <=> Has(s)
    BY <1>1 DEF Has
  <2> QED
    BY <1>4, <2>1 DEF LaneInv, MarkInv
<1>6. TookInv'
  <2> SUFFICES ASSUME NEW z \in Lanes, NEW s \in Streams, ctl'[z].took[s] # 0
               PROVE  /\ setup.laneOf[s] = z /\ row'[s].mark > row'[s].at
                      /\ ctl'[z].at \in {"reply", "work"}
    BY <1>1 DEF TookInv
  <2>1. CASE z # l
    BY <1>3, <1>4, <2>1 DEF LaneInv, TookInv
  <2>2. CASE z = l
    <3>1. took[s] # 0 /\ took # Nothing
      BY <1>3, <2>2, NothingTaken
    <3>2. s \in Of(l) /\ Claimable(s)
      BY <1>1, <3>1
    <3> QED
      BY <1>3, <1>4, <2>2, <3>1, <3>2 DEF Of, Claimable
  <2> QED
    BY <2>1, <2>2
<1>7. AtInv'
  <2> SUFFICES ASSUME NEW z \in Lanes
               PROVE  /\ ctl'[z].at = "work" => \E s \in Streams : ctl'[z].took[s] # 0
                      /\ ctl'[z].at = "reply" => setup.networked
    BY <1>1 DEF AtInv
  <2>1. CASE z # l
    BY <1>3, <2>1 DEF LaneInv, AtInv
  <2>2. CASE z = l
    BY <1>3, <2>2, NothingTaken
  <2> QED
    BY <2>1, <2>2
<1>8. HeldInv'
  <2> SUFFICES ASSUME Tame(setup), NEW s \in Streams, row'[s].held # 0
               PROVE  ctl'[setup.laneOf[s]].took[s] # 0
    BY <1>1 DEF HeldInv
  <2>1. CASE took[s] # 0
    BY <1>1, <1>3, <2>1 DEF Of
  <2>2. CASE took[s] = 0
    <3>1. ctl[setup.laneOf[s]].took[s] # 0 /\ setup.laneOf[s] \in Lanes
      BY <1>2, <1>4, <2>2 DEF LaneInv, HeldInv
    <3>2. setup.laneOf[s] # l
      BY <1>2, <3>1 DEF LaneInv, TookInv
    <3> QED
      BY <1>3, <3>1, <3>2
  <2> QED
    BY <2>1, <2>2
<1> QED
  BY <1>5, <1>6, <1>7, <1>8 DEF LaneInv

LEMMA ReplyLane ==
    ASSUME Typed, Typed', LaneInv, NEW l \in Lanes, Reply(l)
    PROVE  LaneInv'
<1>1. /\ ctl \in [Lanes -> Ctl] /\ ctl[l].took \in [Streams -> Nat]
      /\ ctl[l].at = "reply" /\ Answered(l, ctl[l].took)
      /\ UNCHANGED <<setup, log, scanned, row, app, plan, left>>
  BY DEF Typed, TypeOK, Ctl, Reply
<1>2. /\ \A z \in Lanes \ {l} : ctl'[z] = ctl[z]
      /\ ctl'[l].took = ctl[l].took
      /\ \/ ctl[l].took = Nothing /\ ctl'[l].at = "idle"
         \/ ctl[l].took # Nothing /\ ctl'[l].at = "work"
  BY <1>1, AnsweredLane
<1>3. \A z \in Lanes : ctl'[z].took = ctl[z].took
  BY <1>2
<1>4. MarkInv'
  BY <1>1 DEF LaneInv, MarkInv, Has
<1>5. TookInv'
  <2> SUFFICES ASSUME NEW z \in Lanes, NEW s \in Streams, ctl'[z].took[s] # 0
               PROVE  /\ setup.laneOf[s] = z /\ row'[s].mark > row'[s].at
                      /\ ctl'[z].at \in {"reply", "work"}
    BY <1>1 DEF TookInv
  <2>1. setup.laneOf[s] = z /\ row[s].mark > row[s].at /\ ctl[z].at \in {"reply", "work"}
    BY <1>3 DEF LaneInv, TookInv
  <2>2. z = l => ctl'[z].at = "work"
    BY <1>1, <1>2, NothingTaken
  <2> QED
    BY <1>1, <1>2, <2>1, <2>2
<1>6. AtInv'
  <2> SUFFICES ASSUME NEW z \in Lanes
               PROVE  /\ ctl'[z].at = "work" => \E s \in Streams : ctl'[z].took[s] # 0
                      /\ ctl'[z].at = "reply" => setup.networked
    BY <1>1 DEF AtInv
  <2>1. CASE z # l
    BY <1>2, <2>1 DEF LaneInv, AtInv
  <2>2. CASE z = l
    BY <1>1, <1>2, <2>2, NothingTaken
  <2> QED
    BY <2>1, <2>2
<1>7. HeldInv'
  <2>1. \A s \in Streams : setup.laneOf[s] \in Lanes
    BY SetupType DEF Typed, TypeOK
  <2> QED
    BY <1>1, <1>3, <2>1 DEF LaneInv, HeldInv
<1> QED
  BY <1>4, <1>5, <1>6, <1>7 DEF LaneInv

\* What the end of a cycle makes of the streams it took.
Makes(l, d, acked, parked) ==
    /\ d \in Nat \ {0} /\ acked \cup parked \subseteq {s \in Streams : ctl[l].took[s] # 0}
    /\ acked \cap parked = {}
    /\ Tame(setup) => \A s \in Streams : ctl[l].took[s] # 0 => s \in acked \cup parked
    /\ setup.outcomes \subseteq {"ok"} => parked = {}
    /\ \A s \in Streams :
          /\ row'[s] = IF s \in acked
                       THEN [row[s] EXCEPT !.at = ctl[l].took[s], !.due = 0, !.held = 0]
                       ELSE IF s \in parked THEN [row[s] EXCEPT !.due = d, !.held = 0]
                       ELSE row[s]
          /\ plan'[s] = IF s \in acked THEN Off ELSE IF s \in parked THEN d ELSE plan[s]
    /\ \A z \in Lanes \ {l} : ctl'[z] = ctl[z]
    /\ ctl'[l].at = "idle" /\ ctl'[l].took = Nothing
    /\ ctl'[l].timer = IF Wait(plan', l) # Off THEN Wait(plan', l) ELSE ctl[l].timer
    /\ acked # {} => ctl'[l].armed = ctl[l].armed
    /\ breaker' = Passed /\ Return(l, acked # {})
    /\ UNCHANGED <<setup, log, scanned, app>>

LEMMA FinishMakes ==
    ASSUME Typed, NEW l \in Lanes, Finish(l)
    PROVE  \E d, acked, parked : Makes(l, d, acked, parked)
<1> DEFINE took == {s \in Streams : ctl[l].took[s] # 0}
<1>1. PICK out \in [took -> setup.outcomes], d \in Delays :
       LET acked == {s \in took : out[s] = "ok"}
           parked == {s \in took : out[s] \in {"defer", "backoff"}}
           errors == {s \in took : out[s] \in {"backoff", "fail"}}
           next == [s \in Streams |-> IF s \in acked THEN Off
                                      ELSE IF s \in parked THEN d ELSE plan[s]]
       IN /\ took # acked => left.delay > 0
          /\ left' = [left EXCEPT !.delay = IF took = acked THEN @ ELSE @ - 1]
          /\ row' = [s \in Streams |->
                       IF s \in acked THEN [row[s] EXCEPT !.at = ctl[l].took[s],
                                                          !.due = 0, !.held = 0]
                       ELSE IF s \in parked THEN [row[s] EXCEPT !.due = d, !.held = 0]
                       ELSE row[s]]
          /\ plan' = next
          /\ ctl' = [ctl EXCEPT ![l] =
                       Over(@.armed /\ (acked # {} \/ errors # {}),
                            IF Wait(next, l) # Off THEN Wait(next, l) ELSE @.timer)]
          /\ breaker' = Passed
          /\ Return(l, acked # {})
  BY DEF Finish
<1> DEFINE acked == {s \in took : out[s] = "ok"}
           parked == {s \in took : out[s] \in {"defer", "backoff"}}
           errors == {s \in took : out[s] \in {"backoff", "fail"}}
           next == [s \in Streams |-> IF s \in acked THEN Off
                                      ELSE IF s \in parked THEN d ELSE plan[s]]
           armed == ctl[l].armed /\ (acked # {} \/ errors # {})
           timer == IF Wait(next, l) # Off THEN Wait(next, l) ELSE ctl[l].timer
<1>2. /\ row' = [s \in Streams |->
                   IF s \in acked THEN [row[s] EXCEPT !.at = ctl[l].took[s],
                                                      !.due = 0, !.held = 0]
                   ELSE IF s \in parked THEN [row[s] EXCEPT !.due = d, !.held = 0]
                   ELSE row[s]]
      /\ plan' = next
      /\ ctl' = [ctl EXCEPT ![l] = Over(armed, timer)]
      /\ breaker' = Passed
      /\ Return(l, acked # {})
  BY <1>1
<1>3. /\ d \in Nat \ {0} /\ acked \cup parked \subseteq took /\ acked \cap parked = {}
      /\ setup.outcomes \in SUBSET Outcomes
  BY Constants, SetupType DEF Typed, TypeOK
<1>4. Tame(setup) => \A s \in took : s \in acked \cup parked
  BY <1>3 DEF Tame, Outcomes
<1>5. setup.outcomes \subseteq {"ok"} => parked = {}
  BY <1>3
<1> HIDE DEF acked, parked, errors
<1>6. \A s \in Streams :
          /\ row'[s] = IF s \in acked
                       THEN [row[s] EXCEPT !.at = ctl[l].took[s], !.due = 0, !.held = 0]
                       ELSE IF s \in parked THEN [row[s] EXCEPT !.due = d, !.held = 0]
                       ELSE row[s]
          /\ plan'[s] = IF s \in acked THEN Off ELSE IF s \in parked THEN d ELSE plan[s]
  BY <1>2
<1>7. ctl \in [Lanes -> Ctl] /\ ctl[l].armed \in BOOLEAN
  BY DEF Typed, TypeOK, Ctl
<1>8. acked # {} => armed = ctl[l].armed
  BY <1>7, Zenon
<1>9. timer = IF Wait(plan', l) # Off THEN Wait(plan', l) ELSE ctl[l].timer
  BY <1>2
<1> HIDE DEF next, armed, timer
<1>10. ctl'[l] = Over(armed, timer) /\ \A z \in Lanes \ {l} : ctl'[z] = ctl[z]
  BY <1>2, <1>7
<1>11. /\ ctl'[l].at = "idle" /\ ctl'[l].took = Nothing /\ ctl'[l].timer = timer
       /\ ctl'[l].armed = armed
  BY <1>10 DEF Over
<1>12. UNCHANGED <<setup, log, scanned, app>>
  BY DEF Finish
<1>13. \A s \in Streams : ctl[l].took[s] # 0 <=> s \in took
  OBVIOUS
<1> HIDE DEF took
<1>14. Tame(setup) => \A s \in Streams : ctl[l].took[s] # 0 => s \in acked \cup parked
  BY <1>4, <1>13
<1>15. acked \cup parked \subseteq {s \in Streams : ctl[l].took[s] # 0}
  BY <1>3 DEF took
<1>16. Return(l, acked # {}) /\ breaker' = Passed /\ d \in Nat \ {0} /\ acked \cap parked = {}
  BY <1>2, <1>3
<1>17. ctl'[l].timer = IF Wait(plan', l) # Off THEN Wait(plan', l) ELSE ctl[l].timer
  BY <1>9, <1>11
<1>18. acked # {} => ctl'[l].armed = ctl[l].armed
  BY <1>8, <1>11
<1>19. Makes(l, d, acked, parked)
  BY <1>5, <1>6, <1>10, <1>11, <1>12, <1>14, <1>15, <1>16, <1>17, <1>18, Zenon DEF Makes
<1> QED
  BY <1>19

LEMMA FinishLane ==
    ASSUME Typed, Typed', LaneInv, NEW l \in Lanes, Finish(l)
    PROVE  LaneInv'
<1>1. PICK d, acked, parked : Makes(l, d, acked, parked)
  BY FinishMakes
<1>2. /\ row \in [Streams -> Row] /\ ctl \in [Lanes -> Ctl]
      /\ setup.laneOf \in [Streams -> Lanes] /\ ctl[l].at = "work"
  BY SetupType DEF Typed, TypeOK, Finish
<1>3. /\ \A z \in Lanes \ {l} : ctl'[z] = ctl[z]
      /\ ctl'[l].at = "idle" /\ ctl'[l].took = Nothing
      /\ UNCHANGED <<setup, log>>
  BY <1>1 DEF Makes
<1>4. ASSUME NEW s \in Streams
      PROVE  /\ row'[s].mark = row[s].mark
             /\ s \notin acked => row'[s].at = row[s].at
             /\ s \in acked \cup parked => row'[s].held = 0
             /\ s \notin acked \cup parked => row'[s] = row[s]
  <2>1. row'[s] = IF s \in acked
                  THEN [row[s] EXCEPT !.at = ctl[l].took[s], !.due = 0, !.held = 0]
                  ELSE IF s \in parked THEN [row[s] EXCEPT !.due = d, !.held = 0]
                  ELSE row[s]
    BY <1>1 DEF Makes
  <2> QED
    BY <1>2, <2>1 DEF Row
<1>5. \A s \in acked \cup parked : s \in Streams /\ ctl[l].took[s] # 0 /\ setup.laneOf[s] = l
  BY <1>1 DEF Makes, LaneInv, TookInv
<1>6. MarkInv'
  <2>1. \A s \in Streams : Has(s)' <=> Has(s)
    BY <1>3 DEF Has
  <2> QED
    BY <1>4, <2>1 DEF LaneInv, MarkInv
<1>7. TookInv'
  <2> SUFFICES ASSUME NEW z \in Lanes, NEW s \in Streams, ctl'[z].took[s] # 0
               PROVE  /\ setup.laneOf[s] = z /\ row'[s].mark > row'[s].at
                      /\ ctl'[z].at \in {"reply", "work"}
    BY <1>3 DEF TookInv
  <2>1. z # l
    BY <1>3 DEF Nothing
  <2>2. setup.laneOf[s] = z /\ row[s].mark > row[s].at /\ ctl[z].at \in {"reply", "work"}
    BY <1>3, <2>1 DEF LaneInv, TookInv
  <2>3. s \notin acked
    BY <1>5, <2>1, <2>2
  <2> QED
    BY <1>3, <1>4, <2>1, <2>2, <2>3
<1>8. AtInv'
  BY <1>3 DEF LaneInv, AtInv
<1>9. HeldInv'
  <2> SUFFICES ASSUME Tame(setup), NEW s \in Streams, row'[s].held # 0
               PROVE  ctl'[setup.laneOf[s]].took[s] # 0
    BY <1>3 DEF HeldInv
  <2>1. s \notin acked \cup parked /\ row'[s] = row[s]
    BY <1>4
  <2>2. ctl[setup.laneOf[s]].took[s] # 0 /\ setup.laneOf[s] \in Lanes
    BY <1>2, <2>1 DEF LaneInv, HeldInv
  <2>3. setup.laneOf[s] # l
    BY <1>1, <2>1, <2>2 DEF Makes
  <2> QED
    BY <1>3, <2>2, <2>3
<1> QED
  BY <1>6, <1>7, <1>8, <1>9 DEF LaneInv

LEMMA FailLane ==
    ASSUME Typed, Typed', LaneInv, NEW l \in Lanes, DrainFails(l)
    PROVE  LaneInv'
<1>1. /\ ctl \in [Lanes -> Ctl] /\ ctl' = [ctl EXCEPT ![l] = Over(@.armed, @.timer)]
      /\ \/ ctl[l].at = "claim"
         \/ ctl[l].at = "work" /\ "ack" \in setup.faulty
      /\ UNCHANGED <<setup, log, scanned, row, app, plan>>
  BY DEF Typed, TypeOK, DrainFails, Breaks
<1>2. /\ \A z \in Lanes \ {l} : ctl'[z] = ctl[z]
      /\ ctl'[l].at = "idle" /\ ctl'[l].took = Nothing
  <2>1. ctl'[l] = Over(ctl[l].armed, ctl[l].timer) /\ \A z \in Lanes \ {l} : ctl'[z] = ctl[z]
    BY <1>1
  <2> QED
    BY <2>1 DEF Over
<1>3. MarkInv'
  BY <1>1 DEF LaneInv, MarkInv, Has
<1>4. TookInv' /\ AtInv'
  BY <1>1, <1>2 DEF LaneInv, TookInv, AtInv, Nothing
<1>5. HeldInv'
  <2> SUFFICES ASSUME Tame(setup), NEW s \in Streams, row[s].held # 0
               PROVE  ctl'[setup.laneOf[s]].took[s] # 0
    BY <1>1 DEF HeldInv
  <2>1. ctl[setup.laneOf[s]].took[s] # 0 /\ setup.laneOf[s] \in Lanes
    BY SetupType DEF LaneInv, HeldInv, Typed, TypeOK
  <2>2. setup.laneOf[s] # l
    BY <1>1, <2>1 DEF Tame, LaneInv, TookInv
  <2> QED
    BY <1>2, <2>1, <2>2
<1> QED
  BY <1>3, <1>4, <1>5 DEF LaneInv

LEMMA CrashLane ==
    ASSUME Typed, Typed', LaneInv, Crash, Harsh = {}
    PROVE  LaneInv'
<1>1. /\ UNCHANGED <<setup, log, row>> /\ ctl' = Boot.ctl
      /\ \A s \in Streams : row[s].held = 0
  BY DEF Crash
<1>2. \A l \in Lanes : ctl'[l].at = "idle" /\ ctl'[l].took = Nothing
  BY <1>1, BootTyped
<1> QED
  BY <1>1, <1>2 DEF LaneInv, MarkInv, TookInv, AtInv, HeldInv, Has, Nothing

LEMMA LaneNext ==
    ASSUME Typed, LaneInv, [Next]_vars, Harsh = {}
    PROVE  LaneInv'
<1>1. Typed'
  BY TypedNext
<1>2. CASE Quiet
  BY <1>1, <1>2, BuildKept, QuietLanes
<1> QED
  BY <1>1, <1>2, QuietSteps, ClaimLane, ReplyLane, FinishLane, FailLane, CrashLane
     DEF Next, Cycle, Lane

LEMMA LaneInit == Init => LaneInv
<1> SUFFICES ASSUME Init PROVE LaneInv
  OBVIOUS
<1>1. \A s \in Streams : row[s].mark = 0 /\ row[s].held = 0
  BY DEF Init
<1>2. \A l \in Lanes : ctl[l].at = "idle" /\ ctl[l].took = Nothing
  BY BootTyped DEF Init
<1> QED
  BY <1>1, <1>2 DEF LaneInv, MarkInv, TookInv, AtInv, HeldInv, Nothing

-----------------------------------------------------------------------------
(* The end.                                                                *)

LEMMA ReturnKeeps ==
    ASSUME Typed, NEW l, NEW acked \in BOOLEAN, Return(l, acked)
    PROVE  /\ settle'.timer = settle.timer /\ settle'.pending = settle.pending
           /\ settle'.at = settle.at /\ settle'.waits = settle.waits \ {l}
           /\ settle'.upto = settle.upto
           /\ settle'.progress = (settle.progress \/ (acked /\ l \in settle.waits))
  BY DEF Typed, TypeOK, Settle, Return

LEMMA EndLanes ==
    ASSUME Typed, LaneInv, EndInv, Harsh = {}, NEW l \in Lanes,
           WorkerTick(l) \/ Lane(l) \/ TimerFires(l)
    PROVE  EndInv'
<1> USE DEF EndInv
<1>0. setup' = setup
  BY DEF Lane, WorkerTick, Claim, Reply, Finish, DrainFails, TimerFires
<1>1. /\ ctl \in [Lanes -> Ctl] /\ app \in App
  BY DEF Typed, TypeOK
<1>2. Passed.wake = Off
  BY DEF Passed
<1>3. CASE WorkerTick(l)
  BY <1>3 DEF WorkerTick
<1>4. ASSUME NEW took, Answered(l, took)
      PROVE  /\ settle'.timer = settle.timer /\ settle'.pending = settle.pending
             /\ settle'.at = settle.at /\ (breaker'.wake = Off \/ breaker' = breaker)
  BY <1>2, <1>4, ReturnKeeps DEF Answered
<1>5. CASE Claim(l)
  <2>1. ~(app.life = "down" /\ setup.grace) /\ app' = app
    BY <1>5 DEF Claim
  <2>2. (\E took : Answered(l, took)) \/ UNCHANGED <<breaker, settle>>
    BY <1>5 DEF Claim
  <2> QED
    BY <1>0, <1>4, <2>1, <2>2
<1>6. CASE Reply(l)
  <2>1. ~(app.life = "down" /\ setup.grace) /\ app' = app
    BY <1>6 DEF Reply
  <2> QED
    BY <1>0, <1>4, <1>6, <2>1 DEF Reply
<1>7. CASE Finish(l)
  <2>1. ~(app.life = "down" /\ setup.grace) /\ app' = app
    BY <1>7 DEF Finish
  <2>2. PICK d, acked, parked : Makes(l, d, acked, parked)
    BY <1>7, FinishMakes
  <2>3. breaker'.wake = Off /\ Return(l, acked # {})
    BY <1>2, <2>2 DEF Makes
  <2>4. settle'.timer = settle.timer /\ settle'.pending = settle.pending
    BY <2>3, ReturnKeeps
  <2> QED
    BY <1>0, <2>1, <2>3, <2>4
<1>8. CASE DrainFails(l)
  <2>1. app.life \in {"up", "closing"} /\ app' = app
    BY <1>8 DEF DrainFails, Breaks
  <2> QED
    BY <1>0, <2>1
<1>9. CASE TimerFires(l)
  <2>1. PICK timer : ctl' = [ctl EXCEPT ![l] = Woken(@, timer)]
        /\ UNCHANGED <<app, settle, breaker>>
    BY <1>9 DEF TimerFires
  <2>2. \A z \in Lanes : ctl'[z].at = ctl[z].at
    <3> SUFFICES ASSUME NEW z \in Lanes PROVE ctl'[z].at = ctl[z].at
      OBVIOUS
    <3>1. ctl'[z] = IF z = l THEN Woken(ctl[l], timer) ELSE ctl[z]
      BY <1>1, <2>1
    <3>2. Woken(ctl[l], timer).at = ctl[l].at
      BY <1>1 DEF Woken, Ctl
    <3> QED
      BY <3>1, <3>2
  <2> QED
    BY <1>0, <2>1, <2>2
<1> QED
  BY <1>3, <1>5, <1>6, <1>7, <1>8, <1>9 DEF Lane

LEMMA EndNext ==
    ASSUME Typed, LaneInv, EndInv, [Next]_vars, Harsh = {}
    PROVE  EndInv'
<1> USE DEF EndInv
<1>0. setup' = setup
  BY BuildKept
<1>1. settle \in Settle /\ app \in App /\ ctl \in [Lanes -> Ctl] /\ breaker \in Breaker
  BY DEF Typed, TypeOK
<1>2. CASE \E s \in Streams : Commit(s)
  BY <1>1, <1>2 DEF Commit, App
<1>3. CASE Fire
  BY <1>0, <1>1, <1>3 DEF Fire
<1>4. CASE Start
  BY <1>1, <1>4 DEF Start, Settle, App
<1>5. CASE Correlate
  <2>1. ~(app.life = "down" /\ setup.grace)
    BY <1>5, Correlates
  <2>2. /\ app'.life = app.life /\ settle'.timer = settle.timer
        /\ settle'.pending = settle.pending /\ breaker' \in {breaker, Passed}
    BY <1>5, CorrelateKeeps
  <2> QED
    BY <1>0, <2>1, <2>2 DEF Passed
<1>6. CASE SettleFails
  BY <1>6 DEF SettleFails, Breaks
<1>7. CASE Judge
  <2>1. ~(app.life = "down" /\ setup.grace) /\ UNCHANGED <<app, breaker>>
    BY <1>7 DEF Judge
  <2>2. ~settle.timer /\ ~settle.pending => ~settle'.timer /\ ~settle'.pending
    BY <1>1, <1>7, RestTyped DEF Judge, Settle
  <2> QED
    BY <1>0, <2>1, <2>2
<1>8. CASE \E l \in Lanes : WorkerTick(l) \/ Lane(l) \/ TimerFires(l)
  BY <1>8, EndLanes
<1>9. CASE Retry
  BY <1>1, <1>9 DEF Retry, Off
<1>10. CASE Tick
  <2>1. breaker.wake \in Countdown /\ breaker'.wake = Sooner(breaker.wake)
    BY <1>1, <1>10 DEF Tick, Breaker
  <2>2. breaker.wake = Off => breaker'.wake = Off
    BY <2>1, CountsDown
  <2>3. \A l \in Lanes : ctl'[l].at = ctl[l].at
    BY <1>1, <1>10 DEF Tick, Ctl
  <2> QED
    BY <1>0, <1>10, <2>2, <2>3 DEF Tick
<1>11. CASE Crash
  BY <1>11, BootTyped DEF Crash
<1>12. CASE Shutdown
  BY <1>1, <1>12 DEF Shutdown, App
<1>13. CASE StopAll
  <2>1. app'.life = "stopping" \/ (app'.life = "down" /\ ~setup.grace)
    BY <1>1, <1>13 DEF StopAll, Awaits, App
  <2>2. ~settle'.timer /\ ~settle'.pending /\ breaker'.wake = Off
    BY <1>1, <1>13 DEF StopAll, Settle, Breaker
  <2> QED
    BY <1>0, <2>1, <2>2
<1>14. CASE TearDown
  BY <1>0, <1>1, <1>14 DEF TearDown, App
<1>15. CASE UNCHANGED vars
  BY <1>15 DEF vars
<1> QED
  BY <1>2, <1>3, <1>4, <1>5, <1>6, <1>7, <1>8, <1>9, <1>10, <1>11, <1>12, <1>13, <1>14, <1>15
     DEF Next, Cycle

LEMMA EndInit == Init => EndInv
  BY BootTyped DEF Init, EndInv

(* A shutdown that is given a grace, and whose cycles end within it, leaves *)
(* nothing running, nothing set to run and no stream leased, where every    *)
(* outcome lets go of its stream and nothing of Harsh happens.              *)
THEOREM ShutdownCorrect ==
    ASSUME Harsh = {}, \A x \in Setups : Tame(x) /\ x.grace
    PROVE  Spec => []ShutdownIsClean
<1> DEFINE I == Typed /\ LaneInv /\ EndInv
<1>1. Init => I
  BY TypedInit, LaneInit, EndInit
<1>2. I /\ [Next]_vars => I'
  BY TypedNext, LaneNext, EndNext
<1>3. I => ShutdownIsClean
  <2> SUFFICES ASSUME I, app.life = "down" PROVE ShutdownIsClean
    BY DEF ShutdownIsClean
  <2>1. setup.laneOf \in [Streams -> Lanes] /\ Tame(setup) /\ setup.grace
    BY SetupType DEF Typed, TypeOK
  <2>2. settle.at = "rest" /\ ~settle.timer /\ breaker.wake = Off
        /\ \A l \in Lanes : ctl[l].at = "idle"
    BY <2>1 DEF EndInv
  <2>3. \A s \in Streams : row[s].held = 0
    BY <2>1, <2>2 DEF LaneInv, HeldInv, TookInv
  <2> QED
    BY <2>2, <2>3 DEF ShutdownIsClean
<1> HIDE DEF I
<1> QED
  BY <1>1, <1>2, <1>3, PTL DEF Spec

-----------------------------------------------------------------------------
(* The parked streams.                                                     *)

LEMMA TimerMoves ==
    ASSUME Typed, NEW l \in Lanes, TimerFires(l)
    PROVE  \E due, kept :
             /\ \A s \in Streams : s \in due <=> s \in Of(l) /\ plan[s] = 0
             /\ kept \in [Streams -> Countdown]
             /\ \A s \in Streams : kept[s] = IF s \in due THEN Off ELSE plan[s]
             /\ due \subseteq Streams /\ plan' = kept
             /\ ctl[l].timer = 0 /\ \A z \in Lanes \ {l} : ctl'[z] = ctl[z]
             /\ ctl'[l].armed = TRUE /\ ctl'[l].at = ctl[l].at
             /\ ctl'[l].took = ctl[l].took
             /\ ctl'[l].timer = IF due = {} THEN Wait(kept, l) ELSE Off
             /\ UNCHANGED <<setup, log, scanned, row, app, settle, breaker, left>>
<1> DEFINE due == {s \in Of(l) : plan[s] = 0}
           kept == [s \in Streams |-> IF s \in due THEN Off ELSE plan[s]]
           timer == IF due = {} THEN Wait(kept, l) ELSE Off
<1>1. /\ ctl[l].timer = 0 /\ plan' = kept /\ ctl' = [ctl EXCEPT ![l] = Woken(@, timer)]
      /\ UNCHANGED <<setup, log, scanned, row, app, settle, breaker, left>>
  BY DEF TimerFires
<1>2. plan \in [Streams -> Countdown] /\ Off \in Countdown /\ ctl \in [Lanes -> Ctl]
  BY DEF Typed, TypeOK, Countdown
<1>3. (\A s \in Streams : s \in due <=> s \in Of(l) /\ plan[s] = 0) /\ due \subseteq Streams
  BY DEF Of
<1> HIDE DEF due
<1>4. kept \in [Streams -> Countdown]
      /\ \A s \in Streams : kept[s] = IF s \in due THEN Off ELSE plan[s]
  BY <1>2
<1> HIDE DEF kept
<1>5. timer = IF due = {} THEN Wait(kept, l) ELSE Off
  OBVIOUS
<1> HIDE DEF timer
<1>6. ctl'[l] = Woken(ctl[l], timer) /\ \A z \in Lanes \ {l} : ctl'[z] = ctl[z]
  BY <1>1, <1>2
<1>7. /\ ctl'[l].armed = TRUE /\ ctl'[l].at = ctl[l].at
      /\ ctl'[l].took = ctl[l].took /\ ctl'[l].timer = timer
  BY <1>2, <1>6 DEF Woken, Ctl
<1> QED
  BY <1>1, <1>3, <1>4, <1>5, <1>6, <1>7

\* The steps that leave timers, entries and due dates alone.
LEMMA Untimed ==
    ASSUME Typed, Typed',
           \/ \E s \in Streams : Commit(s)
           \/ Fire \/ Correlate \/ SettleFails \/ Judge
           \/ \E l \in Lanes : WorkerTick(l) \/ Claim(l) \/ Reply(l) \/ DrainFails(l)
           \/ Retry \/ Shutdown \/ TearDown \/ UNCHANGED vars
    PROVE  /\ plan' = plan /\ app'.inited = app.inited
           /\ \A l \in Lanes : ctl'[l].timer = ctl[l].timer
           /\ \A s \in Streams : row'[s].due = row[s].due /\ row'[s].at = row[s].at
<1>1. /\ row \in [Streams -> Row] /\ ctl \in [Lanes -> Ctl] /\ app \in App
  BY DEF Typed, TypeOK
<1>2. ASSUME NEW s \in Streams, Commit(s) PROVE app'.inited = app.inited
  BY <1>1, <1>2 DEF Commit, App
<1>3. ASSUME NEW s \in Streams, Commit(s), NEW l \in Lanes PROVE ctl'[l].timer = ctl[l].timer
  BY <1>3, ArmedTyped DEF Commit, Typed
<1>4. CASE \E s \in Streams : Commit(s)
  BY <1>2, <1>3, <1>4 DEF Commit
<1>5. CASE Fire \/ SettleFails \/ Judge \/ Retry \/ Shutdown \/ TearDown \/ UNCHANGED vars
  BY <1>1, <1>5 DEF Fire, SettleFails, Judge, Retry, Shutdown, TearDown, vars, App
<1>6. CASE Correlate
  BY <1>6, Correlates, CorrelateLanes, CorrelateKeeps
<1>7. ASSUME NEW l \in Lanes, WorkerTick(l) \/ DrainFails(l)
      PROVE  UNCHANGED <<plan, app, row>> /\ \A z \in Lanes : ctl'[z].timer = ctl[z].timer
  <2>1. /\ ctl' = [ctl EXCEPT ![l] = Enter(@)] \/ ctl' = [ctl EXCEPT ![l] = Over(@.armed, @.timer)]
        /\ UNCHANGED <<plan, app, row>>
    BY <1>7 DEF WorkerTick, DrainFails
  <2>2. Enter(ctl[l]).timer = ctl[l].timer /\ Over(ctl[l].armed, ctl[l].timer).timer = ctl[l].timer
    BY <1>1 DEF Enter, Over, Ctl
  <2> QED
    BY <1>1, <2>1, <2>2
<1>8. ASSUME NEW l \in Lanes, NEW took \in [Streams -> Nat], Answered(l, took)
      PROVE  \A z \in Lanes : ctl'[z].timer = ctl[z].timer
  BY <1>8, AnsweredLane
<1>9. ASSUME NEW l \in Lanes, Reply(l)
      PROVE  UNCHANGED <<plan, app, row>> /\ \A z \in Lanes : ctl'[z].timer = ctl[z].timer
  BY <1>1, <1>8, <1>9 DEF Reply, Ctl
<1>10. ASSUME NEW l \in Lanes, Claim(l)
       PROVE  /\ UNCHANGED <<plan, app>> /\ \A z \in Lanes : ctl'[z].timer = ctl[z].timer
              /\ \A s \in Streams : row'[s].due = row[s].due /\ row'[s].at = row[s].at
  <2> DEFINE free == {s \in Of(l) : Claimable(s)}
             took == [s \in Streams |-> IF s \in free THEN LastOf(s) ELSE 0]
  <2>1. /\ row' = [s \in Streams |-> IF s \in free THEN [row[s] EXCEPT !.held = Lease]
                                     ELSE row[s]]
        /\ \/ ctl' = [ctl EXCEPT ![l] = Leased(@, "reply", took)]
           \/ Answered(l, took)
        /\ UNCHANGED <<plan, app>>
    BY <1>10 DEF Claim
  <2>2. took \in [Streams -> Nat]
    BY LastOfType DEF Typed, TypeOK
  <2> HIDE DEF free, took
  <2>3. Leased(ctl[l], "reply", took).timer = ctl[l].timer
    BY <1>1 DEF Leased, Ctl
  <2>4. \A z \in Lanes : ctl'[z].timer = ctl[z].timer
    BY <1>1, <1>8, <2>1, <2>2, <2>3
  <2>5. \A s \in Streams : row'[s].due = row[s].due /\ row'[s].at = row[s].at
    BY <1>1, <2>1 DEF Row
  <2> QED
    BY <2>1, <2>4, <2>5
<1> QED
  BY <1>4, <1>5, <1>6, <1>7, <1>9, <1>10

LEMMA UndelayedNext ==
    ASSUME Typed, Undelayed, [Next]_vars
    PROVE  Undelayed'
<1> SUFFICES ASSUME setup.outcomes \subseteq {"ok"}
             PROVE  /\ \A s \in Streams : row'[s].due = 0 /\ plan'[s] = Off
                    /\ \A l \in Lanes : ctl'[l].timer = Off
  BY BuildKept DEF Undelayed
<1>1. /\ \A s \in Streams : row[s].due = 0 /\ plan[s] = Off
      /\ \A l \in Lanes : ctl[l].timer = Off
  BY DEF Undelayed
<1>2. /\ row \in [Streams -> Row] /\ ctl \in [Lanes -> Ctl] /\ plan \in [Streams -> Countdown]
  BY DEF Typed, TypeOK
<1>3. Typed'
  BY TypedNext
<1>4. CASE Start
  <2>1. \A s \in Streams : plan'[s] = Off /\ row'[s].due = 0
    <3>1. plan' = Seeded /\ row' = row
      BY <1>4 DEF Start
    <3>2. \A s \in Streams : Seeded[s] = IF row[s].due > 0 THEN row[s].due ELSE plan[s]
      BY DEF Seeded
    <3> QED
      BY <1>1, <3>1, <3>2
  <2>2. ASSUME NEW l \in Lanes PROVE ctl'[l].timer = Off
    <3>1. ~\E s \in Of(l) : row[s].due > 0
      BY <1>1 DEF Of
    <3>2. ctl'[l] = [ctl[l] EXCEPT !.armed = @ \/ l \in Built, !.timer = ctl[l].timer]
      BY <1>4, <3>1 DEF Start
    <3> QED
      BY <1>1, <1>2, <3>2 DEF Ctl
  <2> QED
    BY <2>1, <2>2
<1>5. ASSUME NEW l \in Lanes, Finish(l)
      PROVE  /\ \A s \in Streams : row'[s].due = 0 /\ plan'[s] = Off
             /\ \A z \in Lanes : ctl'[z].timer = Off
  <2>1. PICK d, acked, parked : Makes(l, d, acked, parked)
    BY <1>5, FinishMakes
  <2>2. parked = {}
    BY <2>1 DEF Makes
  <2>3. \A s \in Streams :
          /\ row'[s] = IF s \in acked
                       THEN [row[s] EXCEPT !.at = ctl[l].took[s], !.due = 0, !.held = 0]
                       ELSE row[s]
          /\ plan'[s] = IF s \in acked THEN Off ELSE plan[s]
    BY <2>1, <2>2 DEF Makes
  <2>4. \A s \in Streams : row'[s].due = 0 /\ plan'[s] = Off
    BY <1>1, <1>2, <2>3 DEF Row
  <2>5. plan' \in [Streams -> Countdown]
    BY <1>3 DEF Typed, TypeOK
  <2>6. Wait(plan', l) = Off
    <3>1. \A s \in Of(l) : plan'[s] = Off
      BY <2>4 DEF Of
    <3> QED
      BY <2>5, <3>1, WaitType
  <2>7. \A z \in Lanes : ctl'[z].timer = Off
    BY <1>1, <2>1, <2>6 DEF Makes
  <2> QED
    BY <2>4, <2>7
<1>6. ASSUME NEW l \in Lanes, TimerFires(l) PROVE FALSE
  BY <1>1, <1>6 DEF TimerFires, Off
<1>7. CASE Tick
  <2>1. \A s \in Streams : row'[s].due = Sooner(row[s].due) /\ plan'[s] = Sooner(plan[s])
    BY <1>2, <1>7 DEF Tick, Row
  <2>2. \A l \in Lanes : ctl'[l].timer = Sooner(ctl[l].timer)
    BY <1>2, <1>7 DEF Tick, Ctl
  <2>3. Sooner(0) = 0 /\ Sooner(Off) = Off
    BY DEF Sooner, Off
  <2> QED
    BY <1>1, <2>1, <2>2, <2>3
<1>8. CASE Crash
  BY <1>1, <1>8, BootTyped DEF Crash
<1>9. CASE StopAll
  BY <1>1, <1>2, <1>9 DEF StopAll, Ctl
<1>10. CASE /\ plan' = plan /\ \A l \in Lanes : ctl'[l].timer = ctl[l].timer
            /\ \A s \in Streams : row'[s].due = row[s].due
  BY <1>1, <1>10
<1> QED
  BY <1>3, <1>4, <1>5, <1>6, <1>7, <1>8, <1>9, <1>10, Untimed DEF Next, Cycle, Lane

\* The marks never fall, and an idle lane's rows are in nobody's hands.
LEMMA MarksRise ==
    ASSUME Typed, Typed', [Next]_vars, NEW s \in Streams
    PROVE  row'[s].mark >= row[s].mark
<1>1. row \in [Streams -> Row] /\ row' \in [Streams -> Row]
  BY DEF Typed, TypeOK
<1>2. CASE Quiet
  BY <1>1, <1>2 DEF Quiet, Row
<1>3. ASSUME NEW l \in Lanes, Claim(l) PROVE row'[s].mark = row[s].mark
  <2>1. row'[s] = [row[s] EXCEPT !.held = Lease] \/ row'[s] = row[s]
    BY <1>3 DEF Claim
  <2> QED
    BY <1>1, <2>1 DEF Row
<1>4. ASSUME NEW l \in Lanes, Finish(l) PROVE row'[s].mark = row[s].mark
  <2>1. PICK d, acked, parked : Makes(l, d, acked, parked)
    BY <1>4, FinishMakes
  <2>2. row'[s] = IF s \in acked
                  THEN [row[s] EXCEPT !.at = ctl[l].took[s], !.due = 0, !.held = 0]
                  ELSE IF s \in parked THEN [row[s] EXCEPT !.due = d, !.held = 0]
                  ELSE row[s]
    BY <2>1 DEF Makes
  <2> QED
    BY <1>1, <2>2 DEF Row
<1>5. ASSUME (\E l \in Lanes : Reply(l) \/ DrainFails(l)) \/ Crash
      PROVE  row'[s].mark = row[s].mark
  BY <1>5 DEF Reply, DrainFails, Crash
<1>6. row[s].mark \in Nat /\ row'[s].mark \in Nat
  BY <1>1 DEF Row
<1>7. row'[s].mark = row[s].mark => row'[s].mark >= row[s].mark
  BY <1>6
<1> QED
  BY <1>2, <1>3, <1>4, <1>5, <1>7, QuietSteps DEF Next, Cycle, Lane

LEMMA EntriesNext ==
    ASSUME Typed, LaneInv, DueInv, EntryInv, SeedInv, [Next]_vars
    PROVE  (DueInv /\ EntryInv /\ SeedInv)'
<1>1. /\ row \in [Streams -> Row] /\ plan \in [Streams -> Countdown]
      /\ ctl \in [Lanes -> Ctl] /\ app \in App
  BY DEF Typed, TypeOK
<1>2. Typed'
  BY TypedNext
<1>3. SUFFICES ASSUME NEW s \in Streams
               PROVE  /\ row'[s].due > 0 => row'[s].mark > row'[s].at
                      /\ plan'[s] # Off => plan'[s] = row'[s].due /\ row'[s].mark > row'[s].at
                      /\ app'.inited => (row'[s].due > 0 => plan'[s] # Off)
  BY DEF DueInv, EntryInv, SeedInv
<1>4. /\ row[s].due > 0 => row[s].mark > row[s].at
      /\ plan[s] # Off => plan[s] = row[s].due /\ row[s].mark > row[s].at
      /\ app.inited => (row[s].due > 0 => plan[s] # Off)
  BY DEF DueInv, EntryInv, SeedInv
<1>5. /\ row[s] \in Row /\ row'[s] \in Row /\ plan[s] \in Countdown
      /\ row'[s].mark >= row[s].mark
  BY <1>1, <1>2, MarksRise DEF Typed, TypeOK
<1>6. CASE plan' = plan /\ app'.inited = app.inited
           /\ row'[s].due = row[s].due /\ row'[s].at = row[s].at
  BY <1>4, <1>5, <1>6 DEF Row
<1>7. CASE Start
  <2>1. plan'[s] = IF row[s].due > 0 THEN row[s].due ELSE plan[s]
    BY <1>7 DEF Start, Seeded
  <2>2. row' = row
    BY <1>7 DEF Start
  <2> QED
    BY <1>4, <1>5, <2>1, <2>2 DEF Row, Off
<1>8. ASSUME NEW l \in Lanes, Finish(l)
      PROVE  /\ row'[s].due > 0 => row'[s].mark > row'[s].at
             /\ plan'[s] # Off => plan'[s] = row'[s].due /\ row'[s].mark > row'[s].at
             /\ app'.inited => (row'[s].due > 0 => plan'[s] # Off)
  <2>1. PICK d, acked, parked : Makes(l, d, acked, parked)
    BY <1>8, FinishMakes
  <2>2. /\ row'[s] = IF s \in acked
                     THEN [row[s] EXCEPT !.at = ctl[l].took[s], !.due = 0, !.held = 0]
                     ELSE IF s \in parked THEN [row[s] EXCEPT !.due = d, !.held = 0]
                     ELSE row[s]
        /\ plan'[s] = IF s \in acked THEN Off ELSE IF s \in parked THEN d ELSE plan[s]
        /\ app' = app /\ d \in Nat \ {0}
    BY <2>1 DEF Makes
  <2>3. CASE s \in acked
    BY <1>5, <2>2, <2>3 DEF Row
  <2>4. CASE s \notin acked /\ s \in parked
    <3>1. row[s].mark > row[s].at
      BY <2>1, <2>4 DEF Makes, LaneInv, TookInv
    <3>2. row'[s].mark = row[s].mark /\ row'[s].at = row[s].at /\ row'[s].due = d
      BY <1>5, <2>2, <2>4 DEF Row
    <3> QED
      BY <2>2, <2>4, <3>1, <3>2 DEF Off
  <2>5. CASE s \notin acked /\ s \notin parked
    BY <1>4, <2>2, <2>5
  <2> QED
    BY <2>3, <2>4, <2>5
<1>9. ASSUME NEW l \in Lanes, TimerFires(l)
      PROVE  /\ row'[s].due > 0 => row'[s].mark > row'[s].at
             /\ plan'[s] # Off => plan'[s] = row'[s].due /\ row'[s].mark > row'[s].at
             /\ app'.inited => (row'[s].due > 0 => plan'[s] # Off)
  <2>1. PICK due, kept :
             /\ \A z \in Streams : z \in due <=> z \in Of(l) /\ plan[z] = 0
             /\ \A z \in Streams : kept[z] = IF z \in due THEN Off ELSE plan[z]
             /\ plan' = kept /\ UNCHANGED <<row, app>>
    BY <1>9, TimerMoves
  <2>2. plan'[s] # plan[s] => plan[s] = 0 /\ plan'[s] = Off
    BY <2>1
  <2> QED
    BY <1>4, <1>5, <2>1, <2>2 DEF Row, Off
<1>10. CASE Tick
  <2>1. row'[s] = [row[s] EXCEPT !.due = Sooner(@), !.held = Sooner(@)]
    BY <1>10 DEF Tick
  <2>2. /\ row'[s].due = Sooner(row[s].due) /\ row'[s].mark = row[s].mark
        /\ row'[s].at = row[s].at
    BY <1>5, <2>1 DEF Row
  <2>3. plan'[s] = Sooner(plan[s]) /\ app' = app
    BY <1>10 DEF Tick
  <2>4. plan'[s] = Off <=> plan[s] = Off
    BY <1>5, <2>3, CountsDown
  <2>5. row[s].due \in Nat /\ (row'[s].due > 0 => row[s].due > 0)
    BY <1>5, <2>2 DEF Row, Sooner
  <2> QED
    BY <1>4, <2>2, <2>3, <2>4, <2>5
<1>11. CASE Crash
  BY <1>4, <1>11, BootTyped DEF Crash
<1>12. CASE StopAll
  <2>1. UNCHANGED <<row, plan>> /\ app'.inited = app.inited
    BY <1>1, <1>12 DEF StopAll, App
  <2> QED
    BY <1>6, <2>1
<1> QED
  BY <1>2, <1>6, <1>7, <1>8, <1>9, <1>10, <1>11, <1>12, Untimed DEF Next, Cycle, Lane

\* A wake-up survives what lowers neither the timer's promise nor the lane's.
LEMMA WakeStays ==
    ASSUME Typed', NEW l \in Lanes, NEW s \in Of(l), setup' = setup, Wakes(l, s),
           ctl'[l].timer = ctl[l].timer, row'[s].due = row[s].due,
           ctl[l].armed => ctl'[l].armed,
           \A z \in Of(l) : Claimable(z) => Claimable(z)'
    PROVE  Wakes(l, s)'
<1>1. Of(l)' = Of(l)
  BY DEF Of
<1>2. CASE ctl[l].timer \in 0 .. row[s].due
  BY <1>2 DEF Wakes
<1>3. CASE ctl[l].armed /\ \E z \in Of(l) : Claimable(z)
  <2>1. PICK z \in Of(l) : Claimable(z)
    BY <1>3
  <2>2. ctl'[l].armed /\ Claimable(z)' /\ z \in Of(l)'
    BY <1>1, <1>3, <2>1
  <2> QED
    BY <2>2 DEF Wakes
<1> QED
  BY <1>2, <1>3 DEF Wakes

LEMMA ClaimableStays ==
    ASSUME Typed, Typed', NEW s \in Streams, Claimable(s),
           row'[s].at = row[s].at, row'[s].due = row[s].due,
           row'[s].held # 0 => row[s].held # 0, row'[s].mark >= row[s].mark
    PROVE  Claimable(s)'
<1>1. row[s] \in Row /\ row'[s] \in Row
  BY DEF Typed, TypeOK
<1> QED
  BY <1>1 DEF Claimable, Row

LEMMA ArmedStays ==
    ASSUME Typed, NEW l \in Lanes, ctl[l].armed,
           \/ \E s \in Streams : Commit(s)
           \/ Fire \/ Start \/ Correlate \/ SettleFails \/ Judge
           \/ \E z \in Lanes : WorkerTick(z)
           \/ Retry \/ Tick \/ Shutdown \/ TearDown \/ UNCHANGED vars
    PROVE  ctl'[l].armed
<1>1. ctl \in [Lanes -> Ctl] /\ ctl[l] \in Ctl
  BY DEF Typed, TypeOK
<1>2. ASSUME NEW s \in Streams, Commit(s) PROVE ctl'[l].armed
  BY <1>2, ArmedTyped DEF Commit, Typed
<1>3. CASE Fire \/ SettleFails \/ Judge \/ Retry \/ Shutdown \/ TearDown \/ UNCHANGED vars
  BY <1>3 DEF Fire, SettleFails, Judge, Retry, Shutdown, TearDown, vars
<1>4. CASE Start
  BY <1>1, <1>4 DEF Start, Ctl
<1>5. CASE Correlate
  BY <1>5, CorrelateLanes
<1>6. ASSUME NEW z \in Lanes, WorkerTick(z) PROVE ctl'[l].armed
  <2>1. ctl'[l] = IF l = z THEN Enter(ctl[l]) ELSE ctl[l]
    BY <1>1, <1>6 DEF WorkerTick
  <2>2. Enter(ctl[l]).armed = ctl[l].armed
    BY <1>1 DEF Enter, Ctl
  <2> QED
    BY <2>1, <2>2
<1>7. CASE Tick
  BY <1>1, <1>7 DEF Tick, Ctl
<1> QED
  BY <1>2, <1>3, <1>4, <1>5, <1>6, <1>7

LEMMA WakeNext ==
    ASSUME Typed, LaneInv, Undelayed, ParkInv, [Next]_vars, Tame(setup), Prompt(setup)
    PROVE  WakeInv'
<1>1. setup' = setup /\ Typed' /\ (DueInv /\ EntryInv /\ SeedInv)'
  BY BuildKept, TypedNext, EntriesNext DEF ParkInv
<1>2. SUFFICES ASSUME app'.inited, app'.life \in {"up", "closing"}, NEW l \in Lanes,
                      ctl'[l].at \in {"idle", "claim"}, NEW s \in Of(l), row'[s].due > 0
               PROVE  Wakes(l, s)'
  <2>1. \A l \in Lanes : Of(l)' = Of(l)
    BY <1>1 DEF Of
  <2> QED
    BY <2>1 DEF WakeInv
<1>3. /\ row \in [Streams -> Row] /\ row' \in [Streams -> Row]
      /\ plan \in [Streams -> Countdown] /\ plan' \in [Streams -> Countdown]
      /\ ctl \in [Lanes -> Ctl] /\ ctl' \in [Lanes -> Ctl] /\ app \in App
      /\ s \in Streams /\ setup.laneOf[s] = l
  BY <1>1 DEF Typed, TypeOK, Of
<1>4. ASSUME app.inited, app.life \in {"up", "closing"}, ctl[l].at \in {"idle", "claim"},
             row[s].due > 0
      PROVE  Wakes(l, s)
  BY <1>4 DEF ParkInv, WakeInv
<1>5. plan'[s] # Off /\ plan'[s] = row'[s].due
  BY <1>1, <1>2, <1>3 DEF SeedInv, EntryInv
<1>6. ASSUME plan' \in [Streams -> Countdown], ctl'[l].timer = Wait(plan', l)
      PROVE  Wakes(l, s)'
  <2>1. ctl'[l].timer # Off /\ ctl'[l].timer <= plan'[s] /\ ctl'[l].timer \in Countdown
    BY <1>5, <1>6, WaitType
  <2>2. ctl'[l].timer \in 0 .. row'[s].due
    BY <1>3, <1>5, <2>1 DEF Countdown, Off, Row
  <2> QED
    BY <2>2 DEF Wakes
<1>7. CASE \/ \E z \in Streams : Commit(z)
           \/ Fire \/ Correlate \/ SettleFails \/ Judge
           \/ \E z \in Lanes : WorkerTick(z)
           \/ Retry \/ Shutdown \/ TearDown \/ UNCHANGED vars
  <2>1. /\ app'.inited = app.inited /\ \A z \in Lanes : ctl'[z].timer = ctl[z].timer
        /\ \A z \in Streams : row'[z].due = row[z].due /\ row'[z].at = row[z].at
    BY <1>1, <1>7, Untimed
  <2>2. Quiet
    BY <1>1, <1>7, QuietSteps
  <2>3. ctl[l].at \in {"idle", "claim"}
    BY <1>2, <2>2 DEF Quiet, Kept
  <2>4. app.life \in {"up", "closing"}
    BY <1>2, <1>3, <1>7, CorrelateKeeps
       DEF Commit, Fire, SettleFails, Judge, WorkerTick, Retry, Shutdown, TearDown, vars, App
  <2>5. Wakes(l, s)
    BY <1>2, <1>3, <1>4, <2>1, <2>3, <2>4
  <2>6. \A z \in Of(l) : Claimable(z) => Claimable(z)'
    BY <1>1, <2>1, <2>2, MarksRise, ClaimableStays DEF Quiet, Of
  <2> QED
    BY <1>1, <1>3, <1>7, <2>1, <2>5, <2>6, ArmedStays, WakeStays
<1>8. CASE Start
  <2>1. row' = row /\ plan' = Seeded
    BY <1>8 DEF Start
  <2>2. \E z \in Of(l) : row[z].due > 0
    BY <1>2, <2>1
  <2>3. ctl'[l] = [ctl[l] EXCEPT !.armed = @ \/ l \in Built, !.timer = Wait(Seeded, l)]
    BY <1>8, <2>2 DEF Start
  <2>4. ctl'[l].timer = Wait(Seeded, l)
    BY <1>3, <2>3 DEF Ctl
  <2> QED
    BY <1>3, <1>6, <2>1, <2>4
<1>9. ASSUME NEW y \in Lanes, Claim(y) PROVE Wakes(l, s)'
  <2>1. PICK took \in [Streams -> Nat] :
             /\ \A z \in Streams : took[z] # 0 <=> z \in Of(y) /\ Claimable(z)
             /\ \A z \in Streams : row'[z] = IF took[z] # 0 THEN [row[z] EXCEPT !.held = Lease]
                                             ELSE row[z]
             /\ \/ /\ setup.networked /\ ctl' = [ctl EXCEPT ![y] = Leased(@, "reply", took)]
                   /\ UNCHANGED <<breaker, settle>>
                \/ Answered(y, took)
             /\ UNCHANGED <<setup, log, scanned, app, plan, left>>
    BY <1>9, ClaimTakes
  <2>2. ctl[y].at = "claim"
    BY <1>9 DEF Claim
  <2>3. row[s].due = row'[s].due /\ ctl'[l].timer = ctl[l].timer
    BY <1>1, <1>3, <1>9, Untimed
  <2>4. CASE y # l
    <3>1. ctl'[l] = ctl[l]
      BY <1>3, <2>1, <2>4, AnsweredLane
    <3>2. \A z \in Of(l) : row'[z] = row[z]
      BY <2>1, <2>4 DEF Of
    <3>3. Wakes(l, s)
      BY <1>2, <1>4, <2>1, <2>3, <3>1
    <3>4. \A z \in Of(l) : Claimable(z) => Claimable(z)'
      BY <3>2 DEF Claimable
    <3> QED
      BY <1>1, <2>3, <3>1, <3>3, <3>4, WakeStays
  <2>5. CASE y = l
    <3>1. took = Nothing
      <4>1. CASE ctl' = [ctl EXCEPT ![l] = Leased(@, "reply", took)]
        BY <1>2, <1>3, <4>1 DEF Leased, Ctl
      <4>2. CASE Answered(l, took)
        BY <1>2, <4>2, AnsweredLane
      <4> QED
        BY <2>1, <2>5, <4>1, <4>2
    <3>2. Wakes(l, s) /\ ~\E z \in Of(l) : Claimable(z)
      BY <1>2, <1>4, <2>1, <2>2, <2>3, <2>5, <3>1, NothingTaken DEF Of
    <3> QED
      BY <2>3, <3>2 DEF Wakes
  <2> QED
    BY <2>4, <2>5
<1>10. ASSUME NEW y \in Lanes, Reply(y) PROVE Wakes(l, s)'
  <2>1. /\ ctl[y].at = "reply" /\ Answered(y, ctl[y].took) /\ UNCHANGED <<row, app>>
        /\ ctl[y].took \in [Streams -> Nat]
    BY <1>3, <1>10 DEF Reply, Ctl
  <2>2. y # l
    <3>1. Undelayed /\ (setup.networked => setup.outcomes \subseteq {"ok"})
      BY DEF Prompt
    <3>2. ~setup.networked
      BY <1>2, <1>3, <2>1, <3>1 DEF Undelayed
    <3> QED
      BY <2>1, <3>2 DEF LaneInv, AtInv
  <2>3. ctl'[l] = ctl[l]
    BY <2>1, <2>2, AnsweredLane
  <2>4. Wakes(l, s)
    BY <1>2, <1>4, <2>1, <2>3
  <2>5. \A z \in Of(l) : Claimable(z) => Claimable(z)'
    BY <2>1 DEF Claimable
  <2> QED
    BY <1>1, <2>1, <2>3, <2>4, <2>5, WakeStays
<1>11. ASSUME NEW y \in Lanes, Finish(y) PROVE Wakes(l, s)'
  <2>1. PICK d, acked, parked : Makes(y, d, acked, parked)
    BY <1>11, FinishMakes
  <2>2. CASE y = l
    <3>1. Wait(plan', l) # Off
      BY <1>3, <1>5, WaitType
    <3> QED
      BY <1>3, <1>6, <2>1, <2>2, <3>1 DEF Makes
  <2>3. CASE y # l
    <3>1. ctl'[l] = ctl[l] /\ app' = app
      BY <2>1, <2>3 DEF Makes
    <3>2. ASSUME NEW z \in Of(l) PROVE row'[z] = row[z]
      <4>1. ctl[y].took[z] = 0
        BY <2>3, <3>2 DEF LaneInv, TookInv, Of
      <4>2. z \notin acked /\ z \notin parked
        BY <2>1, <4>1 DEF Makes
      <4> QED
        BY <2>1, <3>2, <4>2 DEF Makes, Of
    <3>3. Wakes(l, s)
      BY <1>2, <1>4, <3>1, <3>2
    <3>4. \A z \in Of(l) : Claimable(z) => Claimable(z)'
      BY <3>2 DEF Claimable
    <3> QED
      BY <1>1, <3>1, <3>2, <3>3, <3>4, WakeStays
  <2> QED
    BY <2>2, <2>3
<1>12. ASSUME NEW y \in Lanes, DrainFails(y) PROVE Wakes(l, s)'
  <2>1. /\ UNCHANGED <<row, app>> /\ ctl[y].at = "claim"
        /\ ctl' = [ctl EXCEPT ![y] = Over(@.armed, @.timer)]
    BY <1>12 DEF DrainFails, Tame, Breaks
  <2>2. ctl'[l].armed = ctl[l].armed /\ ctl'[l].timer = ctl[l].timer
    <3>1. ctl'[l] = IF l = y THEN Over(ctl[l].armed, ctl[l].timer) ELSE ctl[l]
      BY <1>3, <2>1
    <3> QED
      BY <3>1 DEF Over
  <2>3. ctl[l].at \in {"idle", "claim"}
    BY <1>2, <1>3, <2>1
  <2>4. Wakes(l, s)
    BY <1>2, <1>4, <2>1, <2>3
  <2>5. \A z \in Of(l) : Claimable(z) => Claimable(z)'
    BY <2>1 DEF Claimable
  <2> QED
    BY <1>1, <2>1, <2>2, <2>4, <2>5, WakeStays
<1>13. ASSUME NEW y \in Lanes, TimerFires(y) PROVE Wakes(l, s)'
  <2>1. PICK due, kept :
             /\ \A z \in Streams : z \in due <=> z \in Of(y) /\ plan[z] = 0
             /\ kept \in [Streams -> Countdown]
             /\ \A z \in Streams : kept[z] = IF z \in due THEN Off ELSE plan[z]
             /\ due \subseteq Streams /\ plan' = kept
             /\ ctl[y].timer = 0 /\ \A z \in Lanes \ {y} : ctl'[z] = ctl[z]
             /\ ctl'[y].armed = TRUE /\ ctl'[y].at = ctl[y].at
             /\ ctl'[y].took = ctl[y].took
             /\ ctl'[y].timer = IF due = {} THEN Wait(kept, y) ELSE Off
             /\ UNCHANGED <<setup, log, scanned, row, app, settle, breaker, left>>
    BY <1>13, TimerMoves
  <2>2. CASE y # l
    <3>1. ctl'[l] = ctl[l]
      BY <2>1, <2>2
    <3>2. Wakes(l, s)
      BY <1>2, <1>4, <2>1, <3>1
    <3>3. \A z \in Of(l) : Claimable(z) => Claimable(z)'
      BY <2>1 DEF Claimable
    <3> QED
      BY <1>1, <2>1, <3>1, <3>2, <3>3, WakeStays
  <2>3. CASE y = l /\ due = {}
    BY <1>3, <1>6, <2>1, <2>3
  <2>4. CASE y = l /\ due # {}
    <3>1. PICK z \in Streams : z \in Of(l) /\ plan[z] = 0
      BY <2>1, <2>4
    <3>2. row[z].due = 0 /\ row[z].mark > row[z].at
      BY <3>1 DEF ParkInv, EntryInv, Off
    <3>3. row[z].held = 0
      BY <1>2, <2>1, <2>4, <3>1 DEF LaneInv, HeldInv, TookInv, Of
    <3>4. Claimable(z)' /\ ctl'[l].armed /\ z \in Of(l)'
      BY <1>1, <2>1, <2>4, <3>1, <3>2, <3>3 DEF Claimable, Of
    <3> QED
      BY <3>4 DEF Wakes
  <2> QED
    BY <2>2, <2>3, <2>4
<1>14. CASE Tick
  <2>1. \A z \in Streams : /\ row'[z].due = Sooner(row[z].due)
                           /\ row'[z].held = Sooner(row[z].held)
                           /\ row'[z].mark = row[z].mark /\ row'[z].at = row[z].at
    BY <1>3, <1>14 DEF Tick, Row
  <2>2. /\ ctl'[l].timer = Sooner(ctl[l].timer) /\ ctl'[l].at = ctl[l].at
        /\ ctl'[l].armed = ctl[l].armed /\ app' = app
    <3>1. ctl'[l] = [ctl[l] EXCEPT !.timer = Sooner(@)] /\ app' = app
      BY <1>14 DEF Tick
    <3>2. ctl[l] \in Ctl
      BY <1>3
    <3> QED
      BY <3>1, <3>2 DEF Ctl
  <2>3. row[s].due \in Nat /\ row[s].due > 0 /\ row'[s].due = row[s].due - 1
    BY <1>2, <1>3, <2>1 DEF Row, Sooner
  <2>4. Wakes(l, s)
    BY <1>2, <1>4, <2>2, <2>3
  <2>5. CASE ctl[l].timer \in 0 .. row[s].due
    <3>1. ctl'[l].timer \in 0 .. row'[s].due
      BY <1>2, <2>2, <2>3, <2>5 DEF Sooner
    <3> QED
      BY <3>1 DEF Wakes
  <2>6. CASE ctl[l].armed /\ \E z \in Of(l) : Claimable(z)
    <3>1. PICK z \in Of(l) : Claimable(z)
      BY <2>6
    <3>2. z \in Of(l)' /\ z \in Streams
      BY <1>1, <3>1 DEF Of
    <3>3. Claimable(z)'
      BY <2>1, <3>1, <3>2 DEF Claimable, Sooner
    <3> QED
      BY <2>2, <2>6, <3>2, <3>3 DEF Wakes
  <2> QED
    BY <2>4, <2>5, <2>6 DEF Wakes
<1>15. CASE Crash
  BY <1>2, <1>15, BootTyped DEF Crash
<1>16. CASE StopAll
  BY <1>2, <1>3, <1>16 DEF StopAll, App
<1> QED
  BY <1>7, <1>8, <1>9, <1>10, <1>11, <1>12, <1>13, <1>14, <1>15, <1>16
     DEF Next, Cycle, Lane

LEMMA ParkInit == Init => Undelayed /\ ParkInv
<1> SUFFICES ASSUME Init PROVE Undelayed /\ ParkInv
  OBVIOUS
<1>1. \A s \in Streams : row[s].due = 0 /\ plan[s] = Off
  BY BootTyped DEF Init
<1>2. \A l \in Lanes : ctl[l].timer = Off
  BY BootTyped DEF Init
<1>3. app.inited = FALSE
  BY BootTyped DEF Init
<1> QED
  BY <1>1, <1>2, <1>3 DEF Undelayed, ParkInv, DueInv, EntryInv, SeedInv, WakeInv

(* A parked stream has its wake-up in every build whose outcomes let go of *)
(* their streams and whose store answers a claim at once where handlers    *)
(* ask for delays.                                                         *)
THEOREM ParkedCorrect ==
    ASSUME Harsh = {}, \A x \in Setups : Tame(x) /\ Prompt(x)
    PROVE  Spec => []ParkedWakes
<1> DEFINE I == Typed /\ LaneInv /\ Undelayed /\ ParkInv
<1>1. Init => I
  BY TypedInit, LaneInit, ParkInit
<1>2. I /\ [Next]_vars => I'
  <2>1. I => Tame(setup) /\ Prompt(setup)
    BY DEF Typed, TypeOK
  <2>2. ASSUME I, [Next]_vars PROVE ParkInv'
    BY <2>1, <2>2, EntriesNext, WakeNext DEF ParkInv
  <2> QED
    BY <2>2, TypedNext, LaneNext, UndelayedNext
<1>3. I => ParkedWakes
  <2> SUFFICES ASSUME I, app.life = "up", app.inited, NEW s \in Streams, row[s].due > 0,
                      ctl[setup.laneOf[s]].at = "idle"
               PROVE  \/ ctl[setup.laneOf[s]].armed
                      \/ ctl[setup.laneOf[s]].timer \in 0 .. row[s].due
    BY DEF ParkedWakes
  <2>1. setup.laneOf[s] \in Lanes /\ s \in Of(setup.laneOf[s])
    BY SetupType DEF Typed, TypeOK, Of
  <2> QED
    BY <2>1 DEF ParkInv, WakeInv, Wakes
<1> HIDE DEF I
<1> QED
  BY <1>1, <1>2, <1>3, PTL DEF Spec

-----------------------------------------------------------------------------
(* The work.                                                               *)

LEMMA LoneTame == ASSUME Lone(setup) PROVE Tame(setup)
  BY DEF Lone, Tame

\* Behind a breaker that opens on every failure, a failure schedules a retry.
LEMMA LoneFails ==
    ASSUME Typed, Lone(setup)
    PROVE  Failed(breaker).wake = Cooldown /\ Failed(breaker).cool = Cooldown
<1>1. breaker \in Breaker /\ breaker.count \in Nat /\ setup.threshold = 1
  BY DEF Typed, TypeOK, Breaker, Lone
<1>2. CASE breaker.cool # Off
  BY <1>2 DEF Failed
<1>3. CASE breaker.cool = Off
  BY <1>1, <1>3 DEF Failed
<1> QED
  BY <1>2, <1>3

\* The armed lane is the only one.
LEMMA OneLane ==
    ASSUME Typed, Lone(setup), NEW l \in Built, NEW z \in Built
    PROVE  z = l
  BY DEF Lone, Built

LEMMA OneArmed ==
    ASSUME Typed, PassInv, Lone(setup), NEW l \in Lanes, NEW z \in Lanes,
           ctl[l].armed, ctl[z].armed
    PROVE  z = l
  BY OneLane DEF PassInv

\* The settle loop moves: no lane does, or all were idle.
LEMMA LoneSettle ==
    ASSUME Typed, LaneInv, LoneInv, Lone(setup), app.life = "up", app'.life = "up",
           \/ \E s \in Streams : Commit(s)
           \/ Fire \/ Start \/ SettleFails \/ Judge \/ Retry
    PROVE  (WakeTimed /\ PassInv /\ RestInv)'
<1>1. /\ settle \in Settle /\ app \in App /\ ctl \in [Lanes -> Ctl] /\ breaker \in Breaker
      /\ WakeTimed /\ PassInv /\ RestInv
  BY DEF Typed, TypeOK, LoneInv
<1>2. Off # Cooldown /\ Off \notin Nat
  BY Constants DEF Off
<1>3. ASSUME NEW s \in Streams, Commit(s) PROVE (WakeTimed /\ PassInv /\ RestInv)'
  <2>1. /\ UNCHANGED <<setup, breaker, row>> /\ ctl' = Armed(ctl, {setup.laneOf[s]})
        /\ settle' = [settle EXCEPT !.timer = TRUE]
    BY <1>3 DEF Commit
  <2>2. settle'.timer /\ settle'.at = settle.at /\ settle'.waits = settle.waits
    BY <1>1, <2>1 DEF Settle
  <2>3. ASSUME NEW l \in Lanes
        PROVE  /\ ctl'[l].at = ctl[l].at /\ (ctl[l].armed => ctl'[l].armed)
               /\ ctl'[l].armed => l \in Built \/ ctl[l].armed
    <3>1. ctl'[l] = IF l = setup.laneOf[s] THEN Arm(ctl[l]) ELSE ctl[l]
      BY <2>1 DEF Armed
    <3>2. Arm(ctl[l]).at = ctl[l].at /\ Arm(ctl[l]).armed
      BY <1>1 DEF Arm, Ctl
    <3>3. setup.laneOf[s] \in Built
      BY DEF Built
    <3> QED
      BY <3>1, <3>2, <3>3
  <2>4. Built' = Built
    BY <2>1 DEF Built
  <2>5. PassInv'
    BY <1>1, <2>2, <2>3, <2>4 DEF PassInv
  <2>6. WakeTimed' /\ RestInv'
    BY <1>1, <2>1, <2>2 DEF WakeTimed, RestInv
  <2> QED
    BY <2>5, <2>6
<1>4. ASSUME UNCHANGED <<setup, ctl, row>>
      PROVE  Built' = Built /\ \A l \in Lanes : Waits(l)' <=> Waits(l)
  BY <1>4 DEF Built, Waits, Claimable, Of
<1>5. CASE Fire
  <2>1. UNCHANGED <<setup, ctl, row, breaker>>
    BY <1>5 DEF Fire
  <2>2. \/ settle.at = "rest" /\ settle'.at \in {"init", "scan"}
        \/ /\ settle.at # "rest" /\ settle'.at = settle.at /\ settle'.pending
           /\ settle'.waits = settle.waits
    BY <1>1, <1>5 DEF Fire, Settle
  <2>3. PassInv'
    BY <1>1, <1>4, <2>1, <2>2 DEF PassInv
  <2>4. WakeTimed' /\ RestInv'
    BY <1>1, <2>1, <2>2 DEF WakeTimed, RestInv
  <2> QED
    BY <2>3, <2>4
<1>6. CASE Start
  <2>1. UNCHANGED <<setup, breaker>> /\ settle.at = "init" /\ settle'.at = "scan"
    BY <1>1, <1>6 DEF Start, Settle
  <2>2. ASSUME NEW l \in Lanes
        PROVE  ctl'[l].at = ctl[l].at /\ ctl'[l].armed = (ctl[l].armed \/ l \in Built)
    BY <1>1, <1>6 DEF Start, Ctl
  <2>3. Built' = Built
    BY <2>1 DEF Built
  <2>4. PassInv'
    BY <1>1, <2>1, <2>2, <2>3 DEF PassInv
  <2>5. WakeTimed' /\ RestInv'
    BY <1>1, <2>1 DEF WakeTimed, RestInv
  <2> QED
    BY <2>4, <2>5
<1>7. CASE SettleFails
  <2>1. /\ UNCHANGED <<setup, ctl, row>> /\ settle.at # "drain" /\ settle'.at = "rest"
        /\ breaker' = Failed(breaker)
    BY <1>1, <1>7, FailedRestTyped DEF SettleFails, Breaks
  <2>2. breaker'.wake = Cooldown /\ breaker'.cool = Cooldown
    BY <2>1, LoneFails
  <2>3. PassInv'
    BY <1>1, <1>4, <2>1 DEF PassInv
  <2>4. WakeTimed' /\ RestInv'
    BY <1>2, <2>1, <2>2 DEF WakeTimed, RestInv
  <2> QED
    BY <2>3, <2>4
<1>8. CASE Judge
  <2>1. /\ UNCHANGED <<setup, ctl, row, breaker>> /\ settle.at = "drain" /\ settle.waits = {}
        /\ \/ settle'.at = "scan"
           \/ /\ ~settle.progress /\ settle'.at = "rest"
              /\ settle'.timer = (settle.timer \/ settle.pending)
    <3>1. CASE settle.progress
      BY <1>1, <1>8, <3>1 DEF Judge, Settle
    <3>2. CASE ~settle.progress
      BY <1>1, <1>8, <3>2, RestTyped DEF Judge
    <3> QED
      BY <3>1, <3>2
  <2>2. PassInv'
    BY <1>1, <1>4, <2>1 DEF PassInv
  <2>3. WakeTimed' /\ RestInv'
    BY <1>1, <1>4, <2>1 DEF WakeTimed, RestInv
  <2> QED
    BY <2>2, <2>3
<1>9. CASE Retry
  <2>1. /\ UNCHANGED <<setup, ctl, row>> /\ settle'.timer /\ settle'.at = settle.at
        /\ settle'.waits = settle.waits /\ breaker'.cool = breaker.cool
    BY <1>1, <1>9 DEF Retry, Settle, Breaker
  <2>2. ~(breaker.cool > 0)
    BY <1>1, <1>9 DEF Retry, WakeTimed
  <2>3. PassInv'
    BY <1>1, <1>4, <2>1 DEF PassInv
  <2>4. WakeTimed' /\ RestInv'
    BY <2>1, <2>2 DEF WakeTimed, RestInv
  <2> QED
    BY <2>3, <2>4
<1> QED
  BY <1>3, <1>5, <1>6, <1>7, <1>8, <1>9

LEMMA LoneDrains ==
    ASSUME Typed, LoneInv, Lone(setup), app.life = "up", settle.at # "drain",
           setup' = setup, NEW found \in BOOLEAN, NEW c \in {ctl, Armed(ctl, Built)},
           NEW b \in {breaker, Passed}, Drains(found, c, b)
    PROVE  (WakeTimed /\ PassInv /\ RestInv)'
<1>1. /\ settle \in Settle /\ ctl \in [Lanes -> Ctl] /\ breaker \in Breaker
      /\ WakeTimed /\ PassInv /\ RestInv
  BY DEF Typed, TypeOK, LoneInv
<1> DEFINE go == Ready(c, b)
<1>2. /\ breaker' = b /\ settle'.at = "drain" /\ settle'.waits = go
      /\ ctl' = [l \in Lanes |-> IF l \in go THEN Enter(c[l]) ELSE c[l]]
  BY DEF Drains
<1>3. ASSUME NEW l \in Lanes
      PROVE  c[l] \in Ctl /\ c[l].at = "idle" /\ (c[l].armed => l \in Built)
  <2>1. ctl[l] \in Ctl /\ ctl[l].at = "idle" /\ (ctl[l].armed => l \in Built)
    BY <1>1 DEF PassInv
  <2>2. Armed(ctl, Built)[l] = IF l \in Built THEN Arm(ctl[l]) ELSE ctl[l]
    BY DEF Armed
  <2>3. Arm(ctl[l]) \in Ctl /\ Arm(ctl[l]).at = "idle"
    BY <2>1 DEF Arm, Ctl
  <2>4. c[l] = Armed(ctl, Built)[l] \/ c[l] = ctl[l]
    OBVIOUS
  <2> QED
    BY <2>1, <2>2, <2>3, <2>4
<1>4. b = Passed \/ b = breaker
  OBVIOUS
<1>5. \A l \in Lanes : l \in go <=> c[l].armed /\ c[l].at = "idle" /\ ~Open(b)
  BY DEF Ready
<1> HIDE DEF go
<1>6. ASSUME NEW l \in Lanes
      PROVE  /\ l \in go => ctl'[l].at = "claim" /\ ctl'[l].armed = c[l].armed
             /\ l \notin go => ctl'[l] = c[l]
  <2>1. Enter(c[l]).at = "claim" /\ Enter(c[l]).armed = c[l].armed
    BY <1>3 DEF Enter, Ctl
  <2> QED
    BY <1>2, <2>1
<1>7. WakeTimed'
  BY <1>1, <1>2, <1>4 DEF WakeTimed, Passed, Off
<1>8. PassInv'
  <2>1. Built' = Built
    BY DEF Built
  <2> QED
    BY <1>2, <1>3, <1>5, <1>6, <2>1 DEF PassInv
<1>9. RestInv'
  <2> SUFFICES ASSUME NEW l \in Lanes, ctl'[l].at = "idle", ctl'[l].armed
               PROVE  breaker'.wake # Off
    BY <1>2 DEF RestInv, Waits
  <2>1. Open(b)
    BY <1>3, <1>5, <1>6
  <2>2. breaker' = breaker /\ breaker.cool > 0
    BY <1>2, <1>4, <2>1 DEF Open, Passed, Off
  <2> QED
    BY <1>1, <2>2 DEF WakeTimed, Off
<1> QED
  BY <1>7, <1>8, <1>9

LEMMA LoneScan ==
    ASSUME Typed, LoneInv, Lone(setup), app.life = "up", Correlate
    PROVE  (WakeTimed /\ PassInv /\ RestInv)'
<1>1. /\ WakeTimed /\ PassInv /\ RestInv /\ setup' = setup
      /\ settle.at \in {"scan", "read", "mark", "marked"}
  BY Correlates DEF LoneInv
<1>2. ASSUME NEW at \in {"read", "mark", "marked"}, Asks(at)
      PROVE  (WakeTimed /\ PassInv /\ RestInv)'
  <2>1. UNCHANGED <<ctl, breaker>> /\ settle'.at = at
    BY <1>2 DEF Asks
  <2>2. Built' = Built
    BY <1>1 DEF Built
  <2>3. \A l \in Lanes : ctl[l].at = "idle"
    BY <1>1 DEF PassInv
  <2> QED
    BY <1>1, <2>1, <2>2, <2>3 DEF WakeTimed, PassInv, RestInv
<1>3. \/ \E at \in {"read", "mark", "marked"} : Asks(at)
      \/ \E found \in BOOLEAN, c \in {ctl, Armed(ctl, Built)}, b \in {breaker, Passed} :
            Drains(found, c, b)
  BY Correlates
<1> QED
  BY <1>1, <1>2, <1>3, LoneDrains

\* A step of the one lane at work: what it leaves of the loop decides.
LEMMA LoneWork ==
    ASSUME Typed, Typed', LoneInv, Lone(setup), app.life = "up", setup' = setup,
           NEW l \in Lanes, ctl[l].at # "idle",
           \A z \in Lanes \ {l} : ctl'[z] = ctl[z],
           settle'.at = settle.at,
           \/ /\ ctl'[l].at # "idle" /\ ctl'[l].armed /\ settle'.waits = settle.waits
           \/ /\ ctl'[l].at = "idle"
              /\ \/ ~ctl'[l].armed
                 \/ settle'.progress
                 \/ breaker'.wake # Off,
           breaker' = breaker \/ breaker' = Passed \/ breaker' = Failed(breaker)
    PROVE  (WakeTimed /\ PassInv /\ RestInv)'
<1>1. WakeTimed /\ PassInv /\ RestInv
  BY DEF LoneInv
<1>2. settle.at = "drain" /\ l \in settle.waits /\ ctl[l].armed /\ l \in Built
  BY <1>1 DEF PassInv
<1>3. \A z \in Lanes \ {l} : ~ctl'[z].armed /\ ctl'[z].at = "idle"
  BY <1>1, <1>2, OneArmed DEF PassInv
<1>4. Built' = Built
  BY DEF Built
<1>5. WakeTimed'
  <2>1. Passed.cool = Off /\ ~(Off > 0)
    BY DEF Passed, Off
  <2> QED
    BY <1>1, <2>1, LoneFails DEF WakeTimed
<1>6. PassInv'
  BY <1>2, <1>3, <1>4 DEF PassInv
<1>7. RestInv'
  BY <1>2, <1>3 DEF RestInv, Waits
<1> QED
  BY <1>5, <1>6, <1>7

LEMMA LoneAnswers ==
    ASSUME Typed, Typed', LoneInv, Lone(setup), app.life = "up", setup' = setup,
           NEW l \in Lanes, ctl[l].at # "idle", NEW took \in [Streams -> Nat],
           Answered(l, took)
    PROVE  (WakeTimed /\ PassInv /\ RestInv)'
<1>1. /\ ctl \in [Lanes -> Ctl] /\ ctl[l].armed
      /\ \A z \in Lanes \ {l} : ctl'[z] = ctl[z]
  BY AnsweredLane DEF Typed, TypeOK, LoneInv, PassInv
<1>2. CASE took = Nothing
  <2>1. /\ ctl' = [ctl EXCEPT ![l] = Over(FALSE, @.timer)] /\ breaker' = Passed
        /\ Return(l, FALSE)
    BY <1>2 DEF Answered
  <2>2. ctl'[l].at = "idle" /\ ~ctl'[l].armed
    BY <1>1, <2>1 DEF Over
  <2>3. settle'.at = settle.at
    BY <2>1, ReturnKeeps
  <2> QED
    BY <1>1, <2>1, <2>2, <2>3, LoneWork
<1>3. CASE took # Nothing
  <2>1. ctl' = [ctl EXCEPT ![l] = Leased(@, "work", took)] /\ UNCHANGED <<breaker, settle>>
    BY <1>3 DEF Answered
  <2>2. ctl'[l].at # "idle" /\ ctl'[l].armed
    BY <1>1, <2>1 DEF Leased, Ctl
  <2> QED
    BY <1>1, <2>1, <2>2, LoneWork
<1> QED
  BY <1>2, <1>3

LEMMA LoneLanes ==
    ASSUME Typed, Typed', LaneInv, Undelayed, LoneInv, Lone(setup), app.life = "up",
           setup' = setup, NEW l \in Lanes, WorkerTick(l) \/ Lane(l) \/ TimerFires(l)
    PROVE  (WakeTimed /\ PassInv /\ RestInv)'
<1>1. /\ ctl \in [Lanes -> Ctl] /\ ctl[l] \in Ctl /\ settle \in Settle
      /\ WakeTimed /\ PassInv /\ RestInv
  BY DEF Typed, TypeOK, LoneInv
<1>2. ~WorkerTick(l)
  BY DEF WorkerTick, Lone
<1>3. ~TimerFires(l)
  BY DEF TimerFires, Undelayed, Lone, Off
<1>4. CASE Claim(l)
  <2>1. PICK took \in [Streams -> Nat] :
             \/ /\ setup.networked /\ ctl' = [ctl EXCEPT ![l] = Leased(@, "reply", took)]
                /\ UNCHANGED <<breaker, settle>>
             \/ Answered(l, took)
    BY <1>4, ClaimTakes
  <2>2. ctl[l].at # "idle" /\ ctl[l].armed
    BY <1>1, <1>4 DEF Claim, PassInv
  <2>3. CASE ctl' = [ctl EXCEPT ![l] = Leased(@, "reply", took)] /\ UNCHANGED <<breaker, settle>>
    <3>1. /\ ctl'[l] = Leased(ctl[l], "reply", took)
          /\ \A z \in Lanes \ {l} : ctl'[z] = ctl[z]
      BY <1>1, <2>3
    <3>2. ctl'[l].at # "idle" /\ ctl'[l].armed
      BY <1>1, <2>2, <3>1 DEF Leased, Ctl
    <3> QED
      BY <2>2, <2>3, <3>1, <3>2, LoneWork
  <2> QED
    BY <2>1, <2>2, <2>3, LoneAnswers
<1>5. CASE Reply(l)
  <2>1. ctl[l].at # "idle" /\ ctl[l].took \in [Streams -> Nat] /\ Answered(l, ctl[l].took)
    BY <1>1, <1>5 DEF Reply, Ctl
  <2> QED
    BY <2>1, LoneAnswers
<1>6. CASE Finish(l)
  <2>1. PICK d, acked, parked : Makes(l, d, acked, parked)
    BY <1>6, FinishMakes
  <2>2. ctl[l].at = "work" /\ l \in settle.waits
    BY <1>1, <1>6 DEF Finish, PassInv
  <2>3. acked # {}
    <3>1. PICK s \in Streams : ctl[l].took[s] # 0
      BY <2>2 DEF LaneInv, AtInv
    <3>2. parked = {} /\ s \in acked \cup parked
      BY <2>1, <3>1, LoneTame DEF Makes, Lone
    <3> QED
      BY <3>2
  <2>4. /\ \A z \in Lanes \ {l} : ctl'[z] = ctl[z]
        /\ ctl'[l].at = "idle" /\ breaker' = Passed /\ Return(l, acked # {})
    BY <2>1 DEF Makes
  <2>5. settle'.at = settle.at /\ settle'.progress
    BY <2>2, <2>3, <2>4, ReturnKeeps
  <2> QED
    BY <2>2, <2>4, <2>5, LoneWork
<1>7. CASE DrainFails(l)
  <2>1. /\ ctl[l].at # "idle" /\ breaker' = Failed(breaker) /\ Return(l, FALSE)
        /\ ctl' = [ctl EXCEPT ![l] = Over(@.armed, @.timer)]
    BY <1>7 DEF DrainFails, Breaks
  <2>2. ctl'[l].at = "idle" /\ \A z \in Lanes \ {l} : ctl'[z] = ctl[z]
    BY <1>1, <2>1 DEF Over
  <2>3. settle'.at = settle.at
    BY <2>1, ReturnKeeps
  <2>4. breaker'.wake = Cooldown /\ Cooldown # Off
    BY <2>1, LoneFails, Constants DEF Off
  <2> QED
    BY <2>1, <2>2, <2>3, <2>4, LoneWork
<1> QED
  BY <1>2, <1>3, <1>4, <1>5, <1>6, <1>7 DEF Lane

\* Nothing becomes claimable with time: no stream is parked, and a leased one is in
\* its lane's hands.
LEMMA LoneTick ==
    ASSUME Typed, LaneInv, Undelayed, LoneInv, Lone(setup), app.life = "up", Tick
    PROVE  (WakeTimed /\ PassInv /\ RestInv)'
<1>1. /\ row \in [Streams -> Row] /\ ctl \in [Lanes -> Ctl] /\ breaker \in Breaker
      /\ WakeTimed /\ PassInv /\ RestInv /\ UNCHANGED <<setup, settle>>
  BY DEF Typed, TypeOK, LoneInv, Tick
<1>2. ASSUME NEW l \in Lanes PROVE ctl'[l].at = ctl[l].at /\ ctl'[l].armed = ctl[l].armed
  <2>1. ctl'[l] = [ctl[l] EXCEPT !.timer = Sooner(@)] /\ ctl[l] \in Ctl
    BY <1>1 DEF Tick
  <2> QED
    BY <2>1 DEF Ctl
<1>3. /\ breaker'.cool = Sooner(breaker.cool) /\ breaker'.wake = Sooner(breaker.wake)
      /\ breaker.cool \in Countdown /\ breaker.wake \in Countdown
  BY <1>1 DEF Tick, Breaker
<1>4. breaker'.wake = Off <=> breaker.wake = Off
  BY <1>3, CountsDown
<1>5. WakeTimed'
  BY <1>1, <1>3 DEF WakeTimed, Sooner, Countdown, Off
<1>6. PassInv'
  <2>1. Built' = Built
    BY <1>1 DEF Built
  <2> QED
    BY <1>1, <1>2, <2>1 DEF PassInv
<1>7. ASSUME NEW l \in Lanes, ctl[l].at = "idle", Waits(l)' PROVE Waits(l)
  <2>1. PICK s \in Of(l)' : Claimable(s)' /\ ctl'[l].armed
    BY <1>7 DEF Waits
  <2>2. s \in Of(l) /\ s \in Streams /\ setup.laneOf[s] = l
    BY <1>1, <2>1 DEF Of
  <2>3. row'[s] = [row[s] EXCEPT !.due = Sooner(@), !.held = Sooner(@)] /\ row[s] \in Row
    BY <1>1, <2>2 DEF Tick
  <2>4. row'[s].mark = row[s].mark /\ row'[s].at = row[s].at
    BY <2>3 DEF Row
  <2>5. row[s].due = 0
    BY <2>2 DEF Undelayed, Lone
  <2>6. row[s].held = 0
    BY <1>7, <2>2, LoneTame DEF LaneInv, HeldInv, TookInv
  <2> QED
    BY <1>2, <2>1, <2>2, <2>4, <2>5, <2>6 DEF Waits, Claimable
<1>8. RestInv'
  BY <1>1, <1>2, <1>4, <1>7 DEF RestInv
<1> QED
  BY <1>5, <1>6, <1>8

LEMMA LoneNext ==
    ASSUME Typed, LaneInv, Undelayed, LoneInv, [Next]_vars
    PROVE  LoneInv'
<1>1. setup' = setup /\ Typed'
  BY BuildKept, TypedNext
<1> SUFFICES ASSUME Lone(setup), app'.life = "up"
             PROVE  (WakeTimed /\ PassInv /\ RestInv)'
  BY <1>1 DEF LoneInv
<1>2. app \in App
  BY DEF Typed, TypeOK
<1>3. CASE Crash
  <2>1. /\ \A l \in Lanes : ctl'[l].at = "idle" /\ ctl'[l].armed = FALSE
        /\ breaker'.cool = Off
    BY <1>3, BootTyped DEF Crash
  <2> QED
    BY <2>1 DEF WakeTimed, PassInv, RestInv, Waits, Off
<1>4. CASE Shutdown \/ StopAll \/ TearDown
  BY <1>2, <1>4 DEF Shutdown, StopAll, TearDown, App
<1>5. ASSUME ~Crash, ~Shutdown, ~StopAll, ~TearDown PROVE app.life = "up"
  <2>1. \/ app' = app
        \/ app' = [app EXCEPT !.armed = TRUE]
        \/ app' = [app EXCEPT !.inited = TRUE, !.armed = TRUE]
        \/ \E found \in BOOLEAN : app' = [app EXCEPT !.armed = found]
    BY <1>5, Correlates
       DEF Next, Cycle, Lane, vars, Commit, Fire, Start, SettleFails, Judge, Retry, Tick,
           WorkerTick, Claim, Reply, Finish, DrainFails, TimerFires
  <2> QED
    BY <1>2, <2>1 DEF App
<1>6. ASSUME UNCHANGED vars, app.life = "up" PROVE (WakeTimed /\ PassInv /\ RestInv)'
  BY <1>6 DEF vars, LoneInv, WakeTimed, PassInv, RestInv, Waits, Claimable, Of, Built
<1> QED
  BY <1>1, <1>3, <1>4, <1>5, <1>6, LoneSettle, LoneScan, LoneLanes, LoneTick DEF Next, Cycle

\* A lane's step leaves the loop as it is, and where the loop alone drives, no
\* lane takes one while the loop rests.
LEMMA ScanLanes ==
    ASSUME Typed, LaneInv, LoneInv, NEW l \in Lanes,
           WorkerTick(l) \/ Lane(l) \/ TimerFires(l)
    PROVE  /\ UNCHANGED <<log, scanned, app>>
           /\ settle'.timer = settle.timer /\ settle'.pending = settle.pending
           /\ settle'.at = settle.at /\ settle'.upto = settle.upto
           /\ settle.progress => settle'.progress
           /\ Lone(setup) /\ app.life = "up" /\ settle.at = "rest" => breaker' = breaker
<1>1. ASSUME NEW took, Answered(l, took)
      PROVE  /\ settle'.timer = settle.timer /\ settle'.pending = settle.pending
             /\ settle'.at = settle.at /\ settle'.upto = settle.upto
             /\ settle.progress => settle'.progress
  BY <1>1, ReturnKeeps DEF Answered
<1>2. CASE WorkerTick(l) \/ TimerFires(l)
  BY <1>2 DEF WorkerTick, TimerFires
<1>3. CASE Lane(l)
  <2>1. ctl[l].at # "idle" /\ UNCHANGED <<log, scanned, app>>
    BY <1>3 DEF Lane, Claim, Reply, Finish, DrainFails
  <2>2. Lone(setup) /\ app.life = "up" => settle.at = "drain"
    BY <2>1 DEF LoneInv, PassInv
  <2>3. \/ (\E took : Answered(l, took)) \/ UNCHANGED settle
        \/ \E acked \in BOOLEAN : Return(l, acked)
    <3>1. CASE Claim(l)
      BY <3>1 DEF Claim
    <3>2. CASE Reply(l)
      BY <3>2 DEF Reply
    <3>3. CASE Finish(l)
      <4>1. PICK d, acked, parked : Makes(l, d, acked, parked)
        BY <3>3, FinishMakes
      <4>2. Return(l, acked # {}) /\ (acked # {}) \in BOOLEAN
        BY <4>1 DEF Makes
      <4> QED
        BY <4>2
    <3>4. CASE DrainFails(l)
      BY <3>4 DEF DrainFails
    <3> QED
      BY <1>3, <3>1, <3>2, <3>3, <3>4 DEF Lane
  <2> QED
    BY <1>1, <2>1, <2>2, <2>3, ReturnKeeps
<1> QED
  BY <1>2, <1>3

\* A query that answers has found what is there, or nothing was committed since it
\* read.
LEMMA ScanCorrelates ==
    ASSUME Typed, ScanInv, Correlate
    PROVE  ScanInv'
<1> USE DEF ScanInv
<1>1. /\ settle \in Settle /\ app \in App /\ scanned \in Nat /\ Len(log) \in Nat
      /\ settle.upto \in Nat /\ scanned <= Len(log) /\ ctl \in [Lanes -> Ctl]
      /\ Armed(ctl, Built) \in [Lanes -> Ctl]
  BY ArmedTyped DEF Typed, TypeOK, Settle
<1>2. /\ log' = log /\ settle.at \in {"scan", "read", "mark", "marked"}
      /\ app'.life = app.life /\ app'.inited /\ settle'.at \notin {"rest", "init"}
  BY Correlates, CorrelateKeeps
<1>3. ASSUME DrainAll(FALSE, ctl, Passed) \/ DrainAll(FALSE, ctl, breaker), ~Unscanned,
             scanned' = scanned
      PROVE  ScanInv'
  <2>1. settle'.at = "drain"
    BY <1>1, <1>3, DrainsAll DEF Drains, Typed
  <2> QED
    BY <1>2, <1>3, <2>1 DEF Unscanned
<1>4. ASSUME Found PROVE ScanInv'
  <2>1. app' = [app EXCEPT !.armed = TRUE] /\ DrainAll(TRUE, Armed(ctl, Built), Passed)
    BY <1>4 DEF Found
  <2>2. settle'.at = "drain" /\ settle'.progress
    BY <1>1, <2>1, DrainsAll DEF Drains, Typed
  <2> QED
    BY <1>1, <1>2, <2>1, <2>2 DEF App
<1>5. ASSUME NEW n \in Nat, scanned <= n, n = scanned => ~Unscanned, Resolve(n),
             scanned' = scanned
      PROVE  ScanInv'
  <2>1. CASE n > scanned
    <3>1. settle'.at = "mark" /\ settle'.upto = n /\ app' = app
      BY <1>1, <1>5, <2>1 DEF Resolve, Settle
    <3> QED
      BY <1>2, <1>5, <2>1, <3>1 DEF Unscanned
  <2>2. CASE ~(n > scanned)
    <3>1. n = scanned
      BY <1>1, <1>5, <2>2
    <3>2. DrainAll(FALSE, ctl, Passed)
      BY <1>5, <2>2 DEF Resolve
    <3> QED
      BY <1>3, <1>5, <3>1, <3>2
  <2> QED
    BY <2>1, <2>2
<1>6. CASE Skip
  <2>1. ~Unscanned /\ DrainAll(FALSE, ctl, breaker) /\ scanned' = scanned
    BY <1>6 DEF Skip
  <2> QED
    BY <1>3, <2>1
<1>7. CASE Scan
  <2>1. scanned' = scanned /\ (Len(log) = scanned => ~Unscanned)
    BY <1>1, <1>7 DEF Scan, Unscanned
  <2>2. CASE Resolve(Len(log))
    BY <1>1, <1>5, <2>1, <2>2
  <2>3. CASE /\ settle' = [settle EXCEPT !.at = "read", !.upto = Len(log)]
             /\ UNCHANGED <<app, ctl, breaker>>
    <3>1. settle'.at = "read" /\ settle'.upto = Len(log) /\ app' = app
      BY <1>1, <2>3 DEF Settle
    <3> QED
      BY <1>1, <1>2, <2>1, <3>1 DEF Unscanned
  <2> QED
    BY <1>7, <2>2, <2>3 DEF Scan
<1>8. CASE Read
  <2>1. settle.at = "read" /\ Resolve(settle.upto) /\ scanned' = scanned
    BY <1>8 DEF Read
  <2> QED
    BY <1>1, <1>5, <2>1
<1>9. CASE Mark
  <2>1. \/ Found
        \/ settle' = [settle EXCEPT !.at = "marked"] /\ UNCHANGED <<app, ctl, breaker>>
    BY <1>9 DEF Mark
  <2>2. scanned' = settle.upto
    BY <1>9 DEF Mark
  <2>3. CASE settle' = [settle EXCEPT !.at = "marked"] /\ UNCHANGED <<app, ctl, breaker>>
    <3>1. settle'.at = "marked" /\ app' = app
      BY <1>1, <2>3 DEF Settle
    <3>2. app.armed
      BY <1>1, <1>9 DEF Mark, Typed, Unscanned
    <3> QED
      BY <1>1, <1>2, <2>2, <3>1, <3>2 DEF Unscanned
  <2> QED
    BY <1>4, <2>1, <2>3
<1>10. CASE Marked
  BY <1>4, <1>10 DEF Marked
<1> QED
  BY <1>6, <1>7, <1>8, <1>9, <1>10 DEF Correlate

LEMMA ScanNext ==
    ASSUME Typed, LaneInv, LoneInv, ScanInv, [Next]_vars, SelfPaced(setup) \/ Lone(setup),
           Harsh = {}
    PROVE  ScanInv'
<1> USE DEF ScanInv
<1>1. setup' = setup
  BY BuildKept
<1>2. /\ settle \in Settle /\ app \in App /\ breaker \in Breaker
      /\ log \in Seq(Streams) /\ scanned \in 0 .. Len(log)
  BY DEF Typed, TypeOK
<1>3. ASSUME NEW s \in Streams, Commit(s) PROVE ScanInv'
  <2>1. /\ app'.armed /\ app'.inited = app.inited /\ app'.life = app.life
        /\ settle'.timer /\ settle'.at = settle.at /\ settle'.upto = settle.upto
        /\ scanned' = scanned
    BY <1>2, <1>3 DEF Commit, App, Settle
  <2>2. ~(settle.at = "read" /\ settle.upto = scanned)
    BY <1>3 DEF Commit
  <2> QED
    BY <2>1, <2>2
<1>4. CASE Fire
  <2>1. UNCHANGED <<log, scanned, app, breaker>>
    BY <1>4 DEF Fire
  <2>2. \/ settle'.at = "init"
        \/ settle'.at = "scan" /\ app.inited
        \/ /\ settle.at # "rest" /\ settle'.at = settle.at /\ settle'.pending
           /\ settle'.upto = settle.upto
    BY <1>2, <1>4 DEF Fire, Settle
  <2> QED
    BY <2>1, <2>2 DEF Unscanned
<1>5. CASE Start
  <2>1. app'.armed /\ app'.inited /\ settle'.at = "scan"
    BY <1>2, <1>5 DEF Start, App, Settle
  <2> QED
    BY <2>1
<1>6. CASE Correlate
  BY <1>6, ScanCorrelates
<1>7. CASE SettleFails
  <2>1. /\ UNCHANGED <<log, scanned, app>> /\ settle'.at = "rest"
        /\ "init" \in setup.faulty \/ "scan" \in setup.faulty
        /\ breaker' = Failed(breaker)
    BY <1>2, <1>7, FailedRestTyped DEF SettleFails, Breaks
  <2>2. Lone(setup)
    BY <2>1 DEF SelfPaced
  <2>3. breaker'.wake # Off
    BY <2>1, <2>2, LoneFails, Constants DEF Off
  <2> QED
    BY <1>1, <2>1, <2>2, <2>3 DEF Unscanned
<1>8. CASE Judge
  <2>1. UNCHANGED <<log, scanned, app, breaker>> /\ settle.at = "drain"
    BY <1>8 DEF Judge
  <2>2. \/ settle'.at = "scan"
        \/ /\ settle'.at = "rest" /\ settle'.timer = (settle.timer \/ settle.pending)
           /\ ~settle.progress
    <3>1. CASE settle.progress
      BY <1>2, <1>8, <3>1 DEF Judge, Settle
    <3>2. CASE ~settle.progress
      BY <1>2, <1>8, <3>2, RestTyped DEF Judge
    <3> QED
      BY <3>1, <3>2
  <2> QED
    BY <2>1, <2>2 DEF Unscanned
<1>9. CASE \E l \in Lanes : WorkerTick(l) \/ Lane(l) \/ TimerFires(l)
  <2>1. /\ UNCHANGED <<log, scanned, app>>
        /\ settle'.timer = settle.timer /\ settle'.pending = settle.pending
        /\ settle'.at = settle.at /\ settle'.upto = settle.upto
        /\ settle.progress => settle'.progress
        /\ Lone(setup) /\ app.life = "up" /\ settle.at = "rest" => breaker' = breaker
    BY <1>9, ScanLanes
  <2> QED
    BY <1>1, <2>1 DEF Unscanned
<1>10. CASE Retry
  <2>1. UNCHANGED <<log, scanned, app>> /\ settle'.timer /\ settle'.at = settle.at
        /\ settle'.upto = settle.upto
    BY <1>2, <1>10 DEF Retry, Settle
  <2> QED
    BY <2>1 DEF Unscanned
<1>11. CASE Tick
  <2>1. UNCHANGED <<log, scanned, app, settle>>
    BY <1>11 DEF Tick
  <2>2. breaker.wake \in Countdown /\ breaker'.wake = Sooner(breaker.wake)
    BY <1>2, <1>11 DEF Tick, Breaker
  <2>3. breaker'.wake = Off <=> breaker.wake = Off
    BY <2>2, CountsDown
  <2> QED
    BY <1>1, <2>1, <2>3 DEF Unscanned
<1>12. CASE Crash
  <2>1. settle'.timer /\ settle'.at = "rest" /\ app'.armed
    BY <1>12, BootTyped DEF Crash
  <2> QED
    BY <2>1
<1>13. CASE Shutdown \/ StopAll \/ TearDown
  <2>1. /\ UNCHANGED <<log, scanned>> /\ app'.armed = app.armed /\ app'.inited = app.inited
        /\ app'.life # "up" /\ settle'.at = settle.at /\ settle'.upto = settle.upto
    BY <1>2, <1>13 DEF Shutdown, StopAll, TearDown, App, Settle
  <2> QED
    BY <2>1 DEF Unscanned
<1>14. CASE UNCHANGED vars
  BY <1>14 DEF vars, Unscanned
<1> QED
  BY <1>3, <1>4, <1>5, <1>6, <1>7, <1>8, <1>9, <1>10, <1>11, <1>12, <1>13, <1>14
     DEF Next, Cycle

LEMMA WorkInit == Init => ScanInv /\ LoneInv
<1> SUFFICES ASSUME Init PROVE ScanInv /\ LoneInv
  OBVIOUS
<1>1. /\ settle.timer /\ settle.at = "rest" /\ app.armed /\ breaker.cool = Off
      /\ \A l \in Lanes : ctl[l].at = "idle" /\ ctl[l].armed = FALSE
  BY BootTyped DEF Init
<1>2. ScanInv
  BY <1>1 DEF ScanInv
<1>3. LoneInv
  BY <1>1 DEF LoneInv, WakeTimed, PassInv, RestInv, Waits, Off
<1> QED
  BY <1>2, <1>3

(* No work is abandoned, whatever calls fail and however often, where each *)
(* lane has a worker and the loop's calls succeed, and where the loop      *)
(* drives one lane behind a breaker that opens on every failure, as long   *)
(* as nothing is committed while a query that finds nothing is awaited.    *)
THEOREM AbandonedCorrect ==
    ASSUME Harsh = {}, \A x \in Setups : SelfPaced(x) \/ Lone(x)
    PROVE  Spec => []NeverAbandoned
<1> DEFINE I == Typed /\ LaneInv /\ Undelayed /\ LoneInv /\ ScanInv
<1>1. Init => I
  BY TypedInit, LaneInit, ParkInit, WorkInit
<1>2. I /\ [Next]_vars => I'
  <2>1. I => SelfPaced(setup) \/ Lone(setup)
    BY DEF Typed, TypeOK
  <2> QED
    BY <2>1, TypedNext, LaneNext, UndelayedNext, LoneNext, ScanNext
<1>3. I => NeverAbandoned
  <2> SUFFICES ASSUME I, app.life = "up"
               PROVE  /\ Unscanned \/ ~app.inited => Driven
                      /\ \A l \in Lanes : (ctl[l].armed /\ \E s \in Of(l) : Claimable(s))
                                             => Served(l)
    BY DEF NeverAbandoned
  <2>1. Unscanned \/ ~app.inited => Driven
    BY DEF ScanInv, Driven
  <2>2. ASSUME NEW l \in Lanes, Waits(l) PROVE Served(l)
    <3>1. CASE SelfPaced(setup)
      <4>1. l \in {setup.laneOf[s] : s \in Streams}
        BY <2>2 DEF Waits, Of
      <4> QED
        BY <3>1, <4>1 DEF SelfPaced, Served
    <3>2. CASE Lone(setup)
      BY <2>2, <3>2 DEF LoneInv, RestInv, Served, Driven
    <3>3. SelfPaced(setup) \/ Lone(setup)
      BY DEF Typed, TypeOK
    <3> QED
      BY <3>1, <3>2, <3>3
  <2> QED
    BY <2>1, <2>2 DEF Waits
<1> HIDE DEF I
<1> QED
  BY <1>1, <1>2, <1>3, PTL DEF Spec

=============================================================================
