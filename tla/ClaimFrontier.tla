---------------------------- MODULE ClaimFrontier ----------------------------
(***************************************************************************)
(* Which of the claimable rows one claim takes: the dual frontier of       *)
(* InMemoryStore.claim, without the row bookkeeping.  The lagging frontier *)
(* orders by priority and then by watermark, with a reserve of slots       *)
(* filled by watermark alone; the leading frontier takes the rows closest  *)
(* to the head.  Rows that a comparator does not tell apart may come in    *)
(* any order, so each operator yields the set of possible selections.      *)
(***************************************************************************)
EXTENDS Integers, FiniteSets

\* Slots of the lagging budget that ignore priority.
FairReserve(lagging) ==
    IF lagging < 2 THEN 0 ELSE IF lagging < 4 THEN 1 ELSE lagging \div 4

\* The sets a slice(0, n) of S can hold once S is sorted by the relation before.
Slices(S, n, before) ==
    {T \in SUBSET S :
        /\ Cardinality(T) = IF Cardinality(S) < n THEN Cardinality(S) ELSE n
        /\ \A in \in T, out \in S \ T : <<out, in>> \notin before}

Behind(S, at) == {p \in S \X S : at[p[1]] < at[p[2]]}
Ahead(S, at)  == {p \in S \X S : at[p[1]] > at[p[2]]}
Urgent(S, at, priority) ==
    {p \in S \X S : \/ priority[p[1]] > priority[p[2]]
                    \/ priority[p[1]] = priority[p[2]] /\ at[p[1]] < at[p[2]]}

\* The selections of streams a claim may return, given the watermark and the
\* priority of every available stream.
Frontiers(S, at, priority, lagging, leading) ==
    LET fair == FairReserve(lagging)
    IN  {T \in SUBSET S :
            \E urgent \in Slices(S, lagging - fair, Urgent(S, at, priority)) :
            \E behind \in Slices(S \ urgent, fair, Behind(S, at)) :
            \E ahead \in Slices(S, leading, Ahead(S, at)) :
                T = urgent \union behind \union ahead}

\* lagging and leading as drain() splits the stream budget: ratio is clamped to
\* [0.2, 0.8] and lagging is rounded up.
Splits(limit) ==
    {<<lagging, limit - lagging>> :
        lagging \in {n \in 0..limit : 5 * n >= limit /\ 5 * (n - 1) < 4 * limit}}
=============================================================================
