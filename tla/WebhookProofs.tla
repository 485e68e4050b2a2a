----------------------------- MODULE WebhookProofs -----------------------------
(***************************************************************************)
(* Webhooks, for any keys, retries and setups: what the idempotency store  *)
(* holds, that a committed key stays, that an acknowledged delivery of a   *)
(* patient sender was processed, and that a key is processed at most once  *)
(* per life of a receiver whose store has room.                            *)
(***************************************************************************)
EXTENDS Webhook, NatSets, FiniteSetTheorems

-----------------------------------------------------------------------------
(* The sequence of entries.                                                *)

Has(s, e) == \E i \in DOMAIN s : s[i] = e
Distinct(s) == \A i, j \in DOMAIN s : s[i].key = s[j].key => i = j
\* All but the last are committed once there are more than maxEntries.
Spare(s) == Len(s) > setup.maxEntries => \A i \in 1 .. Len(s) - 1 : s[i].committed

Tentative(k) == Has(entries, [key |-> k, committed |-> FALSE])

LEMMA RemoveIs ==
    ASSUME NEW s \in Seq(Entry), NEW i \in DOMAIN s
    PROVE  /\ RemoveAt(s, i) \in Seq(Entry) /\ Len(RemoveAt(s, i)) = Len(s) - 1
           /\ Len(s) \in Nat /\ Len(s) > 0 /\ DOMAIN RemoveAt(s, i) = 1 .. Len(s) - 1
           /\ \A j \in 1 .. Len(s) - 1 : RemoveAt(s, i)[j] = IF j < i THEN s[j] ELSE s[j + 1]
<1> DEFINE a == SubSeq(s, 1, i - 1)
           b == SubSeq(s, i + 1, Len(s))
<1>0. Len(s) \in Nat /\ i \in 1 .. Len(s) /\ \A j \in 1 .. Len(s) : s[j] \in Entry
  OBVIOUS
<1>1. a \in Seq(Entry) /\ Len(a) = i - 1 /\ \A j \in 1 .. i - 1 : a[j] = s[j]
  BY <1>0
<1>2. b \in Seq(Entry) /\ Len(b) = Len(s) - i /\ \A j \in 1 .. Len(s) - i : b[j] = s[i + j]
  BY <1>0
<1>3. RemoveAt(s, i) = a \o b
  BY DEF RemoveAt
<1> HIDE DEF a, b
<1>4. a \o b \in Seq(Entry) /\ Len(a \o b) = Len(s) - 1
  BY <1>0, <1>1, <1>2
<1>5. ASSUME NEW j \in 1 .. Len(s) - 1 PROVE (a \o b)[j] = IF j < i THEN s[j] ELSE s[j + 1]
  <2>1. CASE j < i
    BY <1>0, <1>1, <1>2, <2>1
  <2>2. CASE ~(j < i)
    <3>1. (a \o b)[j] = b[j - (i - 1)] /\ j - (i - 1) \in 1 .. Len(s) - i
      BY <1>0, <1>1, <1>2, <2>2
    <3>2. b[j - (i - 1)] = s[j + 1]
      BY <1>0, <1>2, <3>1
    <3> QED
      BY <2>2, <3>1, <3>2
  <2> QED
    BY <2>1, <2>2
<1> QED
  BY <1>0, <1>3, <1>4, <1>5

\* The others stay, in their order.
LEMMA RemoveKeeps ==
    ASSUME setup.maxEntries \in Nat, NEW s \in Seq(Entry), NEW i \in DOMAIN s
    PROVE  /\ Distinct(s) => Distinct(RemoveAt(s, i))
           /\ Spare(s) => Spare(RemoveAt(s, i))
           /\ \A j \in DOMAIN s \ {i} : Has(RemoveAt(s, i), s[j])
           /\ \A e : Has(RemoveAt(s, i), e) => \E j \in DOMAIN s \ {i} : s[j] = e
<1> DEFINE t == RemoveAt(s, i)
           Old(j) == IF j < i THEN j ELSE j + 1
<1>a. Len(s) \in Nat /\ i \in 1 .. Len(s) /\ DOMAIN s = 1 .. Len(s)
  OBVIOUS
<1>b. /\ t \in Seq(Entry) /\ Len(t) = Len(s) - 1 /\ DOMAIN t = 1 .. Len(s) - 1 /\ Len(s) > 0
      /\ \A j \in 1 .. Len(s) - 1 : t[j] = IF j < i THEN s[j] ELSE s[j + 1]
  BY RemoveIs
<1> HIDE DEF t
<1>0. /\ Len(s) \in Nat /\ Len(s) > 0 /\ i \in 1 .. Len(s) /\ DOMAIN s = 1 .. Len(s)
      /\ t \in Seq(Entry) /\ Len(t) = Len(s) - 1 /\ DOMAIN t = 1 .. Len(s) - 1
      /\ \A j \in 1 .. Len(s) - 1 : t[j] = IF j < i THEN s[j] ELSE s[j + 1]
  BY <1>a, <1>b
<1>1. \A j \in 1 .. Len(s) - 1 : t[j] = s[Old(j)] /\ Old(j) \in DOMAIN s \ {i}
  BY <1>0
<1>2. Distinct(s) => Distinct(t)
  <2> SUFFICES ASSUME Distinct(s), NEW j \in DOMAIN t, NEW k \in DOMAIN t, t[j].key = t[k].key
               PROVE  j = k
    BY DEF Distinct
  <2>0. s[Old(j)].key = s[Old(k)].key /\ Old(j) \in DOMAIN s /\ Old(k) \in DOMAIN s
    BY <1>0, <1>1
  <2>1. Old(j) = Old(k)
    <3> HIDE DEF Old
    <3> QED
      BY <2>0 DEF Distinct
  <2> QED
    BY <1>0, <2>1
<1>3. Spare(s) => Spare(t)
  <2> SUFFICES ASSUME Spare(s), Len(t) > setup.maxEntries, NEW j \in 1 .. Len(t) - 1
               PROVE  t[j].committed
    BY DEF Spare
  <2>1. j \in 1 .. Len(s) - 1 /\ Old(j) \in 1 .. Len(s) - 1
    BY <1>0
  <2>2. CASE Len(s) > setup.maxEntries
    BY <1>1, <2>1, <2>2 DEF Spare
  <2>3. CASE ~(Len(s) > setup.maxEntries)
    BY <1>0, <2>3
  <2> QED
    BY <2>2, <2>3
<1>4. ASSUME NEW j \in DOMAIN s \ {i} PROVE Has(t, s[j])
  <2>1. CASE j < i
    BY <1>0, <2>1 DEF Has
  <2>2. CASE ~(j < i)
    <3>1. j - 1 \in 1 .. Len(s) - 1 /\ ~(j - 1 < i) /\ (j - 1) + 1 = j
      BY <1>0, <2>2
    <3>2. t[j - 1] = s[j]
      BY <1>0, <3>1
    <3> QED
      BY <1>0, <3>1, <3>2 DEF Has
  <2> QED
    BY <2>1, <2>2
<1>5. ASSUME NEW e, Has(t, e) PROVE \E j \in DOMAIN s \ {i} : s[j] = e
  BY <1>0, <1>1, <1>5 DEF Has
<1> QED
  BY <1>2, <1>3, <1>4, <1>5 DEF t
\* A key's entry goes, the others stay.
LEMMA WithoutIs ==
    ASSUME setup.maxEntries \in Nat, NEW s \in Seq(Entry), Distinct(s), NEW k \in Keys
    PROVE  /\ Without(s, k) \in Seq(Entry) /\ Distinct(Without(s, k))
           /\ Spare(s) => Spare(Without(s, k))
           /\ Without(s, k) = s \/ Len(Without(s, k)) = Len(s) - 1
           /\ \A e : Has(Without(s, k), e) <=> Has(s, e) /\ e.key # k
<1>1. CASE \E i \in DOMAIN s : s[i].key = k
  <2> DEFINE i == CHOOSE i \in DOMAIN s : s[i].key = k
  <2>1. i \in DOMAIN s /\ s[i].key = k
    BY <1>1
  <2>2. Without(s, k) = RemoveAt(s, i)
    BY <1>1 DEF Without
  <2> HIDE DEF i
  <2>3. /\ RemoveAt(s, i) \in Seq(Entry) /\ Len(RemoveAt(s, i)) = Len(s) - 1
        /\ Distinct(RemoveAt(s, i)) /\ (Spare(s) => Spare(RemoveAt(s, i)))
        /\ \A j \in DOMAIN s \ {i} : Has(RemoveAt(s, i), s[j])
        /\ \A e : Has(RemoveAt(s, i), e) => \E j \in DOMAIN s \ {i} : s[j] = e
    BY <2>1, RemoveIs, RemoveKeeps
  <2>4. ASSUME NEW e, Has(RemoveAt(s, i), e) PROVE Has(s, e) /\ e.key # k
    <3>1. PICK j \in DOMAIN s \ {i} : s[j] = e
      BY <2>3, <2>4
    <3> QED
      BY <2>1, <3>1 DEF Has, Distinct
  <2>5. ASSUME NEW e, Has(s, e), e.key # k PROVE Has(RemoveAt(s, i), e)
    BY <2>1, <2>3, <2>5 DEF Has
  <2> QED
    BY <2>2, <2>3, <2>4, <2>5
<1>2. CASE ~\E i \in DOMAIN s : s[i].key = k
  <2>1. Without(s, k) = s
    BY <1>2 DEF Without
  <2> QED
    BY <1>2, <2>1 DEF Has
<1> QED
  BY <1>1, <1>2

LEMMA AppendIs ==
    ASSUME NEW s \in Seq(Entry), NEW e \in Entry
    PROVE  /\ Append(s, e) \in Seq(Entry) /\ Len(Append(s, e)) = Len(s) + 1 /\ Len(s) \in Nat
           /\ DOMAIN s = 1 .. Len(s) /\ DOMAIN Append(s, e) = 1 .. Len(s) + 1
           /\ Append(s, e)[Len(s) + 1] = e
           /\ \A i \in 1 .. Len(s) : Append(s, e)[i] = s[i]
           /\ \A x : Has(Append(s, e), x) <=> Has(s, x) \/ x = e
<1>1. /\ Append(s, e) \in Seq(Entry) /\ Len(Append(s, e)) = Len(s) + 1 /\ Len(s) \in Nat
      /\ Append(s, e)[Len(s) + 1] = e /\ DOMAIN s = 1 .. Len(s)
      /\ DOMAIN Append(s, e) = 1 .. Len(s) + 1
      /\ \A i \in 1 .. Len(s) : Append(s, e)[i] = s[i]
  OBVIOUS
<1>2. ASSUME NEW x PROVE Has(Append(s, e), x) <=> Has(s, x) \/ x = e
  BY <1>1 DEF Has
<1> QED
  BY <1>1, <1>2

StoreInv ==
    /\ setup \in Setups /\ setup.maxEntries \in Nat
    /\ entries \in Seq(Entry) /\ Distinct(entries) /\ Spare(entries)

\* A touched entry is the store's last; nothing committed goes, and nothing at
\* all where the store fits.
LEMMA RecordIs ==
    ASSUME StoreInv, setup' = setup, NEW k \in Keys, NEW c \in BOOLEAN, Record(k, c)
    PROVE  LET new == [key |-> k, committed |-> c]
               all == Append(Without(entries, k), new)
           IN  /\ StoreInv' /\ Has(entries', new)
               /\ all \in Seq(Entry) /\ Distinct(all)
               /\ \A e : Has(all, e) <=> (Has(entries, e) /\ e.key # k) \/ e = new
               /\ \A e : Has(entries', e) => Has(all, e)
               /\ \A e : Has(all, e) /\ e.committed => Has(entries', e)
               /\ Fits(all) => \A e : Has(all, e) => Has(entries', e)
<1> DEFINE new == [key |-> k, committed |-> c]
           old == Without(entries, k)
           all == Append(old, new)
           out == Victims(all, k)
           at == CHOOSE i \in out : \A j \in out : i <= j
<1>1. /\ old \in Seq(Entry) /\ Distinct(old) /\ Spare(old)
      /\ old = entries \/ Len(old) = Len(entries) - 1
      /\ \A e : Has(old, e) <=> Has(entries, e) /\ e.key # k
  BY WithoutIs DEF StoreInv
<1>2. new \in Entry /\ new.key = k /\ new.committed = c
  BY DEF Entry
<1>3. entries' = IF Fits(all) \/ out = {} THEN all ELSE RemoveAt(all, at)
  BY DEF Record
<1> HIDE DEF old, new
<1>4. /\ all \in Seq(Entry) /\ Len(all) = Len(old) + 1 /\ Len(old) \in Nat
      /\ DOMAIN old = 1 .. Len(old) /\ DOMAIN all = 1 .. Len(old) + 1
      /\ all[Len(old) + 1] = new /\ \A i \in 1 .. Len(old) : all[i] = old[i]
      /\ \A e : Has(all, e) <=> Has(old, e) \/ e = new
  BY <1>1, <1>2, AppendIs
<1> HIDE DEF all, at
<1>5. Distinct(all)
  <2>1. \A i \in 1 .. Len(old) : old[i].key # k
    BY <1>1, <1>4 DEF Has
  <2>2. ASSUME NEW i \in DOMAIN all, NEW j \in DOMAIN all, all[i].key = all[j].key
        PROVE  i = j
    <3>1. i \in 1 .. Len(old) \/ i = Len(old) + 1
      BY <1>4
    <3>2. j \in 1 .. Len(old) \/ j = Len(old) + 1
      BY <1>4
    <3>3. CASE i \in 1 .. Len(old) /\ j \in 1 .. Len(old)
      BY <1>1, <1>4, <2>2, <3>3 DEF Distinct
    <3>4. CASE ~(i \in 1 .. Len(old) /\ j \in 1 .. Len(old))
      BY <1>2, <1>4, <2>1, <2>2, <3>1, <3>2, <3>4
    <3> QED
      BY <3>3, <3>4
  <2> QED
    BY <2>2 DEF Distinct
<1>6. setup.maxEntries \in Nat /\ Len(entries) \in Nat
  BY DEF StoreInv
<1>7. CASE Fits(all) \/ out = {}
  <2>1. entries' = all
    BY <1>3, <1>7
  <2>2. Spare(all)
    <3>1. CASE Fits(all)
      BY <1>4, <1>6, <3>1 DEF Fits, Spare
    <3>2. CASE out = {}
      <4>1. ASSUME NEW i \in 1 .. Len(old) PROVE all[i].committed
        <5>1. i \in DOMAIN all /\ all[i].key # k
          BY <1>1, <1>4 DEF Has
        <5> QED
          BY <3>2, <5>1 DEF Victims
      <4> QED
        BY <1>4, <4>1 DEF Spare
    <3> QED
      BY <1>7, <3>1, <3>2
  <2>3. StoreInv'
    BY <1>4, <1>5, <2>1, <2>2 DEF StoreInv, Spare, Distinct
  <2> QED
    BY <1>1, <1>4, <1>5, <2>1, <2>3 DEF new, all, old
<1>8. CASE ~Fits(all) /\ out # {}
  <2>1. at \in out /\ \A j \in out : at <= j
    <3>1. out \in SUBSET Nat
      BY <1>4 DEF Victims
    <3> HIDE DEF out
    <3>2. \E i \in out : \A j \in out : i <= j
      BY <1>8, <3>1, LeastNat
    <3> QED
      BY <3>2 DEF at
  <2>2. at \in DOMAIN all /\ all[at].key # k /\ ~all[at].committed
    BY <2>1 DEF Victims
  <2>3. entries' = RemoveAt(all, at)
    BY <1>3, <1>8
  <2>4. /\ RemoveAt(all, at) \in Seq(Entry) /\ Len(RemoveAt(all, at)) = Len(old)
        /\ DOMAIN RemoveAt(all, at) = 1 .. Len(old)
        /\ \A j \in 1 .. Len(old) : RemoveAt(all, at)[j] = IF j < at THEN all[j] ELSE all[j + 1]
        /\ Distinct(RemoveAt(all, at))
        /\ \A j \in DOMAIN all \ {at} : Has(RemoveAt(all, at), all[j])
        /\ \A e : Has(RemoveAt(all, at), e) => \E j \in DOMAIN all \ {at} : all[j] = e
    <3> DEFINE t == RemoveAt(all, at)
    <3>1. /\ t \in Seq(Entry) /\ Len(t) = Len(all) - 1 /\ DOMAIN t = 1 .. Len(all) - 1
          /\ \A j \in 1 .. Len(all) - 1 : t[j] = IF j < at THEN all[j] ELSE all[j + 1]
      BY <1>4, <2>2, RemoveIs
    <3>2. /\ Distinct(t) /\ \A j \in DOMAIN all \ {at} : Has(t, all[j])
          /\ \A e : Has(t, e) => \E j \in DOMAIN all \ {at} : all[j] = e
      BY <1>4, <1>5, <1>6, <2>2, RemoveKeeps
    <3>3. Len(all) - 1 = Len(old)
      BY <1>4
    <3> HIDE DEF t
    <3> QED
      BY <3>1, <3>2, <3>3 DEF t
  <2>5. Has(entries', new)
    <3>1. Len(old) + 1 \in DOMAIN all \ {at}
      BY <1>2, <1>4, <2>2
    <3> QED
      BY <1>4, <2>3, <2>4, <3>1
  <2>6. \A e : Has(entries', e) => Has(all, e)
    BY <2>3, <2>4 DEF Has
  <2>7. \A e : Has(all, e) /\ e.committed => Has(entries', e)
    BY <2>2, <2>3, <2>4 DEF Has
  <2>8. Spare(entries')
    <3> SUFFICES ASSUME Len(entries') > setup.maxEntries, NEW j \in 1 .. Len(entries') - 1
                 PROVE  entries'[j].committed
      BY DEF Spare
    <3>1. Len(entries') = Len(old) /\ j \in 1 .. Len(old) - 1
      BY <2>3, <2>4
    <3>2. \A i \in 1 .. Len(old) - 1 : old[i].committed
      BY <1>1, <3>1 DEF Spare
    <3>3. CASE j < at
      BY <1>4, <2>3, <2>4, <3>1, <3>2, <3>3
    <3>4. CASE ~(j < at)
      <4>1. at \in 1 .. Len(old) - 1
        BY <1>4, <2>2, <3>1, <3>4
      <4> QED
        BY <1>4, <2>2, <3>2, <4>1
    <3> QED
      BY <3>3, <3>4
  <2>9. StoreInv'
    BY <2>3, <2>4, <2>8 DEF StoreInv, Spare, Distinct
  <2> QED
    BY <1>1, <1>4, <1>5, <1>8, <2>5, <2>6, <2>7, <2>9 DEF new, all, old
<1> QED
  BY <1>7, <1>8

\* A release takes a tentative entry of the key, and nothing else.
LEMMA ReleaseIs ==
    ASSUME StoreInv, setup' = setup, NEW k \in Keys, Release(k)
    PROVE  /\ StoreInv'
           /\ \A e \in Entry : Has(entries', e) <=>
                 Has(entries, e) /\ (e.key # k \/ e.committed)
<1>1. CASE Committed(k)
  <2>1. entries' = entries
    BY <1>1 DEF Release
  <2>2. PICK i \in DOMAIN entries : entries[i] = [key |-> k, committed |-> TRUE]
    BY <1>1 DEF Committed
  <2>3. ASSUME NEW e \in Entry, Has(entries, e) PROVE e.key # k \/ e.committed
    BY <2>2, <2>3 DEF Has, StoreInv, Distinct
  <2> QED
    BY <2>1, <2>3 DEF StoreInv, Spare, Distinct
<1>2. CASE ~Committed(k)
  <2>1. entries' = Without(entries, k)
    BY <1>2 DEF Release
  <2>2. /\ entries' \in Seq(Entry) /\ Distinct(entries') /\ Spare(entries')
        /\ \A e : Has(entries', e) <=> Has(entries, e) /\ e.key # k
    BY <2>1, WithoutIs DEF StoreInv
  <2>3. ASSUME NEW e \in Entry, Has(entries, e), e.committed PROVE e.key # k
    <3>1. e.key = k => e = [key |-> k, committed |-> TRUE]
      BY <2>3 DEF Entry
    <3> QED
      BY <1>2, <2>3, <3>1 DEF Has, Committed
  <2> QED
    BY <2>2, <2>3 DEF StoreInv, Spare, Distinct
<1> QED
  BY <1>1, <1>2

-----------------------------------------------------------------------------
(* What the turn of a request is.                                          *)

Typed ==
    /\ StoreInv
    /\ row \in [Keys -> {"pending", "acked", "blocked"}] /\ tries \in [Keys -> Nat]
    /\ request = [k \in Keys |-> request[k]]
    /\ \A k \in Keys : request[k] \in [Sent(k) -> Request]
    /\ effects \in [Keys -> Nat] /\ crashes \in Nat /\ faults \in Nat

\* A delivery holds its key's claim until it finalizes it.
Owns(r) == r.phase \in {"handle", "finish"} \/ (r.phase = "return" /\ ~r.settled)

\* A request has a status when it is handled, and by then which one tells how far
\* it is.
Sound(r) ==
    /\ r.phase \in {"none", "wire", "handle"} => r.status = NoAnswer
    /\ r.phase \in {"wire", "handle", "finish"} => ~r.settled
    /\ r.phase = "finish" => r.status \in {Ok, Failed}
    /\ r.phase = "return" /\ ~r.settled => r.status = Invalid

AllSound == \A k \in Keys : \A n \in Sent(k) : Sound(request[k][n])

\* The sender of a request goes on waiting, begins to, or gives it up.
Waits(k, n, r) ==
    \/ /\ r.waiting = request[k][n].waiting
       /\ r.phase \in {"none", "gone"} \/ request[k][n].phase \notin {"none", "gone"}
    \/ (setup.patient => ~Waiting(k)) /\ r.waiting
    \/ ~r.waiting /\ (setup.patient => r.phase = "gone")

\* The row may be settled, acked only for a success.
Rows(k, n) ==
    \/ row' = row
    \/ \E v \in {"pending", "acked", "blocked"} :
          row' = [row EXCEPT ![k] = v] /\ (v = "acked" => request[k][n].status = Ok)

\* The claim stays with whom it is.
Quiet(k, n, r) ==
    /\ UNCHANGED <<entries, effects>>
    /\ \/ /\ r.phase = request[k][n].phase /\ r.status = request[k][n].status
          /\ r.settled = request[k][n].settled
       \/ /\ ~Owns(r) /\ ~Owns(request[k][n])
          /\ r.status = Ok => \/ request[k][n].status = Ok
                              \/ (request[k][n].phase = "wire" /\ Seen(k))

Claims(k, n, r) ==
    /\ request[k][n].phase = "wire" /\ ~Seen(k) /\ Record(k, FALSE)
    /\ r.phase = "handle" /\ r.status = NoAnswer
    /\ effects' = effects

Handles(k, n, r) ==
    /\ request[k][n].phase = "handle" /\ Owns(r)
    /\ effects' = [effects EXCEPT ![k] = IF r.status = Ok THEN @ + 1 ELSE @]
    /\ entries' = entries

Finalizes(k, n, r) ==
    /\ Owns(request[k][n]) /\ request[k][n].phase # "handle" /\ ~Owns(r)
    /\ r.status = request[k][n].status
    /\ IF r.status = Ok THEN Record(k, TRUE) ELSE Release(k)
    /\ effects' = effects

Turn(k, n, r) ==
    /\ r \in Request /\ Sound(r) /\ Put(k, n, r) /\ UNCHANGED <<setup, crashes>>
    /\ Waits(k, n, r) /\ Rows(k, n)
    /\ Quiet(k, n, r) \/ Claims(k, n, r) \/ Handles(k, n, r) \/ Finalizes(k, n, r)

LEMMA Statuses ==
    /\ Ok # NoAnswer /\ Ok # Invalid /\ Ok # Failed /\ Invalid # NoAnswer
    /\ Disposition(NoAnswer) = "retry"
    /\ \A status \in {NoAnswer, Ok, Invalid, Failed} : Disposition(status) = "ok" <=> status = Ok
    /\ Outcome(Ok) = "commit" /\ Outcome(Invalid) = "release" /\ Outcome(Failed) = "release"
BY DEF Ok, NoAnswer, Invalid, Failed, Disposition, Outcome

LEMMA SettleRows ==
    ASSUME Typed, NEW k \in Keys, NEW status \in {NoAnswer, Ok, Invalid, Failed}, Settle(k, status)
    PROVE  /\ \/ row' = row
              \/ \E v \in {"pending", "acked", "blocked"} :
                    row' = [row EXCEPT ![k] = v] /\ (v = "acked" => status = Ok)
           /\ tries' \in [Keys -> Nat]
<1> DEFINE how == Disposition(status)
           v == CASE how = "ok" -> "acked"
                  [] how = "block" \/ tries[k] >= MaxRetries -> "blocked"
                  [] OTHER -> "pending"
<1>1. v \in {"pending", "acked", "blocked"} /\ (v = "acked" => how = "ok")
  BY Zenon
<1>2. how = "ok" => status = Ok
  BY Statuses
<1>3. CASE row[k] # "pending"
  BY <1>3 DEF Settle, Typed
<1>4. CASE row[k] = "pending"
  <2>1. row' = [row EXCEPT ![k] = v]
    BY <1>4 DEF Settle
  <2>2. tries' = [tries EXCEPT ![k] = IF how = "retry" THEN tries[k] + 1 ELSE 0]
    BY <1>4 DEF Settle
  <2>3. tries' \in [Keys -> Nat]
    <3> HIDE DEF how
    <3> QED
      BY <2>2 DEF Typed
  <2> HIDE DEF v, how
  <2> QED
    BY <1>1, <1>2, <2>1, <2>3
<1> QED
  BY <1>3, <1>4

LEMMA TurnIs ==
    ASSUME Typed, AllSound, NEW k \in Keys, NEW n \in Sent(k),
           \/ Send(k, n) \/ Answer(k, n) \/ Timeout(k, n)
           \/ Receive(k, n) \/ Finish(k, n) \/ Return(k, n) \/ Lose(k, n)
           \/ \E status \in {Ok, Invalid, Failed} : Handle(k, n, status)
    PROVE  (\E r : Turn(k, n, r)) /\ tries' \in [Keys -> Nat] /\ faults' \in Nat
<1> DEFINE q == request[k][n]
<1>1. q \in Request /\ Sound(q)
  BY DEF Typed, AllSound
<1>2. \A b \in BOOLEAN : /\ Gone(b) \in Request /\ Gone(b).phase = "gone"
                         /\ Gone(b).status = NoAnswer /\ Gone(b).waiting = b
  BY DEF Gone, Unsent, Request
<1>3. q.waiting \in BOOLEAN /\ q.status \in {NoAnswer, Ok, Invalid, Failed}
      /\ q.settled \in BOOLEAN
  BY <1>1 DEF Request
<1>4. tries \in [Keys -> Nat] /\ faults \in Nat /\ (Fault => faults' \in Nat)
  BY DEF Typed, Fault
<1>5. CASE Send(k, n)
  <2> DEFINE r == [Unsent EXCEPT !.phase = "wire", !.waiting = TRUE]
  <2>1. r \in Request /\ r.phase = "wire" /\ r.waiting /\ r.status = NoAnswer /\ ~r.settled
    BY DEF Unsent, Request
  <2>2. Put(k, n, r) /\ UNCHANGED <<setup, row, tries, entries, effects, crashes, faults>>
        /\ q.phase = "none" /\ (setup.patient => ~Waiting(k))
    BY <1>5 DEF Send, sender, At
  <2> HIDE DEF r
  <2>3. Sound(r) /\ ~Owns(r) /\ ~Owns(q) /\ r.status # Ok
    BY <2>1, <2>2, Statuses DEF Sound, Owns
  <2>4. Waits(k, n, r) /\ Rows(k, n) /\ Quiet(k, n, r)
    BY <2>1, <2>2, <2>3 DEF Waits, Rows, Quiet
  <2> QED
    BY <1>4, <2>1, <2>2, <2>3, <2>4 DEF Turn
<1>6. CASE Answer(k, n)
  <2> DEFINE r == Gone(FALSE)
  <2>1. Put(k, n, r) /\ UNCHANGED <<setup, entries, effects, crashes, faults>>
        /\ q.phase = "reply"
    BY <1>6 DEF Answer, At
  <2>2. r \in Request /\ r.phase = "gone" /\ r.status = NoAnswer /\ ~r.waiting
    BY <1>2
  <2> HIDE DEF r
  <2>3. Sound(r) /\ ~Owns(r) /\ ~Owns(q) /\ r.status # Ok
    BY <2>1, <2>2, Statuses DEF Sound, Owns
  <2>4. Rows(k, n) /\ tries' \in [Keys -> Nat]
    <3>1. CASE q.waiting
      <4>1. Settle(k, q.status)
        BY <1>6, <3>1 DEF Answer
      <4> QED
        BY <1>3, <4>1, SettleRows DEF Rows
    <3>2. CASE ~q.waiting
      BY <1>4, <1>6, <3>2 DEF Answer, Rows
    <3> QED
      BY <3>1, <3>2
  <2>5. Waits(k, n, r) /\ Quiet(k, n, r)
    BY <2>1, <2>2, <2>3 DEF Waits, Quiet
  <2> QED
    BY <1>4, <2>1, <2>2, <2>3, <2>4, <2>5 DEF Turn
<1>7. CASE Timeout(k, n)
  <2> DEFINE r == [q EXCEPT !.waiting = FALSE]
  <2>1. /\ Put(k, n, r) /\ UNCHANGED <<setup, entries, effects, crashes, faults>>
        /\ (setup.patient => q.phase = "gone") /\ Settle(k, NoAnswer)
    BY <1>7 DEF Timeout, At
  <2>2. /\ r \in Request /\ r.phase = q.phase /\ r.status = q.status /\ r.settled = q.settled
        /\ ~r.waiting
    <3> HIDE DEF q
    <3> QED
      BY <1>1 DEF Request
  <2> HIDE DEF r
  <2>3. Sound(r)
    BY <1>1, <2>2 DEF Sound
  <2>4. Rows(k, n) /\ tries' \in [Keys -> Nat]
    BY <2>1, SettleRows, Statuses DEF Rows
  <2>5. Waits(k, n, r) /\ Quiet(k, n, r)
    BY <2>1, <2>2 DEF Waits, Quiet
  <2> QED
    BY <1>4, <2>1, <2>2, <2>3, <2>4, <2>5 DEF Turn
<1>8. CASE Receive(k, n)
  <2>1. UNCHANGED <<setup, row, tries, effects, crashes>> /\ q.phase = "wire"
        /\ q.status = NoAnswer
    BY <1>1, <1>8 DEF Receive, At, sender, Sound
  <2>2. CASE Seen(k)
    <3>1. PICK status \in {Ok, Invalid} :
             /\ Put(k, n, [q EXCEPT !.phase = "return", !.status = status, !.settled = TRUE])
             /\ IF status = Ok THEN UNCHANGED faults ELSE Fault
             /\ UNCHANGED entries
      BY <1>8, <2>2 DEF Receive
    <3> DEFINE r == [q EXCEPT !.phase = "return", !.status = status, !.settled = TRUE]
    <3>2. /\ r \in Request /\ r.phase = "return" /\ r.settled /\ r.waiting = q.waiting
      <4> HIDE DEF q
      <4> QED
        BY <1>1 DEF Request
    <3> HIDE DEF r
    <3>3. Sound(r) /\ ~Owns(r) /\ ~Owns(q)
      BY <2>1, <3>2 DEF Sound, Owns
    <3>4. Waits(k, n, r) /\ Rows(k, n) /\ Quiet(k, n, r)
      BY <2>1, <2>2, <3>1, <3>2, <3>3 DEF Waits, Rows, Quiet
    <3> QED
      BY <1>4, <2>1, <3>1, <3>2, <3>3, <3>4 DEF Turn, r
  <2>3. CASE ~Seen(k)
    <3> DEFINE r == [q EXCEPT !.phase = "handle"]
    <3>1. Put(k, n, r) /\ Record(k, FALSE) /\ UNCHANGED faults
      BY <1>8, <2>3 DEF Receive
    <3>2. /\ r \in Request /\ r.phase = "handle" /\ r.status = NoAnswer /\ r.waiting = q.waiting
          /\ r.settled = q.settled
      <4> HIDE DEF q
      <4> QED
        BY <1>1, <2>1 DEF Request
    <3> HIDE DEF r
    <3>3. ~q.settled
      BY <1>1, <2>1 DEF Sound
    <3>4. Sound(r)
      BY <3>2, <3>3 DEF Sound
    <3>5. Waits(k, n, r) /\ Rows(k, n) /\ Claims(k, n, r)
      BY <2>1, <2>3, <3>1, <3>2 DEF Waits, Rows, Claims
    <3> QED
      BY <1>4, <2>1, <3>1, <3>2, <3>4, <3>5 DEF Turn
  <2> QED
    BY <2>2, <2>3
<1>9. ASSUME NEW status \in {Ok, Invalid, Failed}, Handle(k, n, status)
      PROVE  (\E r : Turn(k, n, r)) /\ tries' \in [Keys -> Nat] /\ faults' \in Nat
  <2> DEFINE phase == IF status = Invalid THEN "return" ELSE "finish"
             r == [q EXCEPT !.status = status, !.phase = phase]
  <2>1. Put(k, n, r) /\ UNCHANGED <<setup, row, tries, entries, crashes>> /\ q.phase = "handle"
        /\ effects' = [effects EXCEPT ![k] = IF status = Ok THEN @ + 1 ELSE @]
        /\ (status # Ok => Fault) /\ (status = Ok => UNCHANGED faults)
    BY <1>9 DEF Handle, At, sender
  <2>2. ~q.settled
    BY <1>1, <2>1 DEF Sound
  <2>3. /\ r \in Request /\ r.phase = phase /\ r.status = status /\ r.waiting = q.waiting
        /\ r.settled = q.settled
    <3>1. phase \in {"return", "finish"}
      OBVIOUS
    <3> HIDE DEF q, phase
    <3> QED
      BY <1>1, <3>1 DEF Request
  <2> HIDE DEF r
  <2>4. Sound(r) /\ Owns(r)
    BY <2>2, <2>3, Statuses DEF Sound, Owns
  <2>5. Waits(k, n, r) /\ Rows(k, n) /\ Handles(k, n, r)
    BY <2>1, <2>3, <2>4 DEF Waits, Rows, Handles
  <2> QED
    BY <1>4, <2>1, <2>3, <2>4, <2>5 DEF Turn
<1>10. ASSUME NEW next \in {"return", "reply"}, Finalize(k, n, next),
              \/ q.phase = "finish" /\ next = "return"
              \/ q.phase = "return" /\ next = "reply"
       PROVE  (\E r : Turn(k, n, r)) /\ tries' \in [Keys -> Nat] /\ faults' \in Nat
  <2> DEFINE r == [q EXCEPT !.phase = next, !.settled = TRUE]
  <2>1. Put(k, n, r) /\ UNCHANGED <<setup, row, tries, effects, crashes, faults>>
    BY <1>10 DEF Finalize, sender
  <2>2. /\ r \in Request /\ r.phase = next /\ r.settled /\ r.status = q.status
        /\ r.waiting = q.waiting
    <3> HIDE DEF q
    <3> QED
      BY <1>1 DEF Request
  <2> HIDE DEF r
  <2>3. Sound(r) /\ ~Owns(r)
    BY <1>10, <2>2 DEF Sound, Owns
  <2>4. Waits(k, n, r) /\ Rows(k, n)
    BY <1>10, <2>1, <2>2 DEF Waits, Rows
  <2>5. CASE q.settled
    <3>1. entries' = entries /\ ~Owns(q)
      BY <1>1, <1>10, <2>5 DEF Finalize, Settled, Sound, Owns
    <3>2. Quiet(k, n, r)
      BY <2>1, <2>2, <2>3, <3>1 DEF Quiet
    <3> QED
      BY <1>4, <2>1, <2>2, <2>3, <2>4, <3>2 DEF Turn
  <2>6. CASE ~q.settled
    <3>1. Owns(q) /\ q.phase # "handle" /\ q.status \in {Ok, Invalid, Failed}
      BY <1>1, <1>10, <2>6 DEF Owns, Sound
    <3>2. IF Outcome(q.status) = "commit" THEN Record(k, TRUE) ELSE Release(k)
      BY <1>10, <2>6 DEF Finalize, Settled
    <3>3. IF r.status = Ok THEN Record(k, TRUE) ELSE Release(k)
      BY <2>2, <3>1, <3>2, Statuses
    <3>4. Finalizes(k, n, r)
      BY <2>1, <2>2, <2>3, <3>1, <3>3 DEF Finalizes
    <3> QED
      BY <1>4, <2>1, <2>2, <2>3, <2>4, <3>4 DEF Turn
  <2> QED
    BY <2>5, <2>6
<1>11. CASE Lose(k, n)
  <2> DEFINE r == Gone(q.waiting)
  <2>1. Put(k, n, r) /\ UNCHANGED <<setup, row, tries, entries, effects, crashes>>
        /\ q.phase \in {"wire", "reply"} /\ Fault
    BY <1>11 DEF Lose, At, sender
  <2>2. r \in Request /\ r.phase = "gone" /\ r.status = NoAnswer /\ r.waiting = q.waiting
    BY <1>2, <1>3
  <2> HIDE DEF r
  <2>3. Sound(r) /\ ~Owns(r) /\ ~Owns(q) /\ r.status # Ok
    BY <2>1, <2>2, Statuses DEF Sound, Owns
  <2>4. Waits(k, n, r) /\ Rows(k, n) /\ Quiet(k, n, r)
    BY <2>1, <2>2, <2>3 DEF Waits, Rows, Quiet
  <2> QED
    BY <1>4, <2>1, <2>2, <2>3, <2>4 DEF Turn
<1>12. CASE Finish(k, n)
  BY <1>10, <1>12 DEF Finish, At
<1>13. CASE Return(k, n)
  BY <1>10, <1>13 DEF Return, At
<1> QED
  BY <1>5, <1>6, <1>7, <1>8, <1>9, <1>11, <1>12, <1>13

LEMMA PutIs ==
    ASSUME Typed, UNCHANGED setup, NEW k \in Keys, NEW n \in Sent(k), NEW r \in Request,
           Put(k, n, r)
    PROVE  /\ request' = [j \in Keys |-> request'[j]]
           /\ \A j \in Keys : request'[j] \in [Sent(j) -> Request]
           /\ \A j \in Keys : \A m \in Sent(j) :
                 request'[j][m] = IF j = k /\ m = n THEN r ELSE request[j][m]
<1>0. DOMAIN request = Keys /\ \A j \in Keys : request[j] \in [Sent(j) -> Request]
  <2>1. PICK f : f = [j \in Keys |-> request[j]] /\ request = f
    BY DEF Typed
  <2>2. DOMAIN f = Keys
    BY <2>1
  <2> QED
    BY <2>1, <2>2 DEF Typed
<1>1. request' = [request EXCEPT ![k] = [request[k] EXCEPT ![n] = r]]
  BY DEF Put
<1>2. /\ request' = [j \in Keys |-> request'[j]]
      /\ \A j \in Keys : request'[j] = IF j = k THEN [request[k] EXCEPT ![n] = r] ELSE request[j]
  BY <1>0, <1>1
<1>3. [request[k] EXCEPT ![n] = r] \in [Sent(k) -> Request]
      /\ \A m \in Sent(k) : [request[k] EXCEPT ![n] = r][m] = IF m = n THEN r ELSE request[k][m]
  BY <1>0
<1> QED
  BY <1>0, <1>2, <1>3

\* The receiver's process dies: nobody owns anything, and nobody knows.
LEMMA CrashIs ==
    ASSUME Typed, Crash
    PROVE  /\ request' = [j \in Keys |-> request'[j]]
           /\ \A j \in Keys : request'[j] \in [Sent(j) -> Request]
           /\ \A j \in Keys : \A m \in Sent(j) :
                 LET r == request'[j][m]
                     q == request[j][m]
                 IN  /\ ~Owns(r) /\ (Sound(q) => Sound(r)) /\ r.waiting = q.waiting
                     /\ r.phase = "gone" \/ r = q
                     /\ r.status = Ok => q.status = Ok
           /\ StoreInv' /\ entries' = <<>> /\ \A e : ~Has(entries', e)
<1>1. /\ request' = [j \in Keys |-> [m \in Sent(j) |->
              IF request[j][m].phase \in {"handle", "finish", "return"}
              THEN Gone(request[j][m].waiting) ELSE request[j][m]]]
      /\ entries' = <<>> /\ setup' = setup
  BY DEF Crash
<1>2. \A b \in BOOLEAN : /\ Gone(b) \in Request /\ Gone(b).phase = "gone"
                         /\ Gone(b).status = NoAnswer /\ Gone(b).waiting = b
  BY DEF Gone, Unsent, Request
<1>3. ASSUME NEW j \in Keys, NEW m \in Sent(j)
      PROVE  LET r == request'[j][m]
                 q == request[j][m]
             IN  /\ ~Owns(r) /\ (Sound(q) => Sound(r)) /\ r.waiting = q.waiting
                 /\ r.phase = "gone" \/ r = q
                 /\ r.status = Ok => q.status = Ok
                 /\ r \in Request
  <2> DEFINE q == request[j][m]
  <2>1. q \in Request /\ q.waiting \in BOOLEAN
    BY DEF Typed, Request
  <2>2. request'[j][m] = IF q.phase \in {"handle", "finish", "return"} THEN Gone(q.waiting) ELSE q
    BY <1>1
  <2> QED
    BY <1>2, <2>1, <2>2, Statuses DEF Owns, Sound
<1>4. ASSUME NEW j \in Keys PROVE request'[j] \in [Sent(j) -> Request]
  <2>1. request'[j] = [m \in Sent(j) |-> request'[j][m]]
    BY <1>1
  <2> QED
    BY <1>3, <2>1
<1>5. request' = [j \in Keys |-> request'[j]]
  BY <1>1
<1>6. StoreInv' /\ \A e : ~Has(entries', e)
  <2>1. <<>> \in Seq(Entry) /\ Len(<<>>) = 0 /\ DOMAIN <<>> = {}
    OBVIOUS
  <2>2. StoreInv'
    BY <1>1, <2>1 DEF StoreInv, Typed, Distinct, Spare
  <2> QED
    BY <1>1, <2>1, <2>2 DEF Has
<1> QED
  BY <1>1, <1>3, <1>4, <1>5, <1>6

\* A step is the turn of a request, an operator's, a crash, or none.
LEMMA StepIs ==
    ASSUME Typed, AllSound, [Next]_vars
    PROVE  \/ \E k \in Keys : \E n \in Sent(k) :
                 (\E r : Turn(k, n, r)) /\ tries' \in [Keys -> Nat] /\ faults' \in Nat
           \/ \E k \in Keys : Unblock(k)
           \/ Crash
           \/ UNCHANGED vars
<1>1. ASSUME NEW k \in Keys, NEW n \in Sent(k),
             \/ Send(k, n) \/ Answer(k, n) \/ Timeout(k, n)
             \/ Receive(k, n) \/ Finish(k, n) \/ Return(k, n) \/ Lose(k, n)
             \/ \E status \in {Ok, Invalid, Failed} : Handle(k, n, status)
      PROVE  (\E r : Turn(k, n, r)) /\ tries' \in [Keys -> Nat] /\ faults' \in Nat
  BY <1>1, TurnIs
<1> QED
  BY <1>1 DEF Next

LEMMA TurnStore ==
    ASSUME Typed, NEW k \in Keys, NEW n \in Sent(k), NEW r, Turn(k, n, r)
    PROVE  StoreInv' /\ effects' \in [Keys -> Nat] /\ \A j \in Keys : effects[j] <= effects'[j]
<1>1. effects \in [Keys -> Nat] /\ StoreInv /\ setup' = setup
  BY DEF Typed, Turn
<1>a. \A j \in Keys : effects[j] \in Nat /\ effects[j] <= effects[j]
  BY <1>1
<1>2. CASE Quiet(k, n, r)
  BY <1>1, <1>a, <1>2 DEF Quiet, StoreInv, Distinct, Spare
<1>3. CASE Claims(k, n, r)
  BY <1>1, <1>a, <1>3, RecordIs DEF Claims
<1>4. CASE Handles(k, n, r)
  <2>1. StoreInv'
    BY <1>1, <1>4 DEF Handles, StoreInv, Distinct, Spare
  <2>2. effects[k] + 1 \in Nat /\ effects[k] <= effects[k] + 1
    BY <1>1
  <2>3. effects' = effects \/ effects' = [effects EXCEPT ![k] = effects[k] + 1]
    BY <1>1, <1>4 DEF Handles
  <2> QED
    BY <1>1, <1>a, <2>1, <2>2, <2>3
<1>5. CASE Finalizes(k, n, r)
  <2>1. StoreInv'
    BY <1>1, <1>5, RecordIs, ReleaseIs DEF Finalizes
  <2> QED
    BY <1>1, <1>a, <1>5, <2>1 DEF Finalizes
<1> QED
  BY <1>2, <1>3, <1>4, <1>5 DEF Turn

LEMMA TypedStep == ASSUME Typed, AllSound, [Next]_vars PROVE Typed' /\ AllSound'
<1>1. ASSUME NEW k \in Keys, NEW n \in Sent(k), NEW r, Turn(k, n, r),
             tries' \in [Keys -> Nat], faults' \in Nat
      PROVE  Typed' /\ AllSound'
  <2>1. /\ r \in Request /\ Sound(r) /\ Put(k, n, r) /\ UNCHANGED <<setup, crashes>> /\ Rows(k, n)
        /\ StoreInv' /\ effects' \in [Keys -> Nat]
    BY <1>1, TurnStore DEF Turn
  <2>2. /\ request' = [j \in Keys |-> request'[j]]
        /\ \A j \in Keys : request'[j] \in [Sent(j) -> Request]
        /\ \A j \in Keys : \A m \in Sent(j) :
              request'[j][m] = IF j = k /\ m = n THEN r ELSE request[j][m]
    BY <2>1, PutIs
  <2>3. row' \in [Keys -> {"pending", "acked", "blocked"}]
    BY <2>1 DEF Rows, Typed
  <2>4. Typed'
    BY <1>1, <2>1, <2>2, <2>3 DEF Typed, Sent
  <2>5. AllSound'
    <3>1. ASSUME NEW j \in Keys, NEW m \in Sent(j) PROVE Sound(request'[j][m])
      BY <2>1, <2>2 DEF AllSound
    <3> QED
      BY <2>1, <3>1 DEF AllSound, Sound, Sent
  <2> QED
    BY <2>4, <2>5
<1>2. ASSUME NEW k \in Keys, Unblock(k) PROVE Typed' /\ AllSound'
  <2>1. /\ UNCHANGED <<setup, request, entries, effects, crashes>> /\ faults' \in Nat
        /\ row' = [row EXCEPT ![k] = "pending"] /\ tries' = [tries EXCEPT ![k] = 0]
    BY <1>2 DEF Unblock, Fault, Typed
  <2>2. Typed'
    BY <2>1 DEF Typed, StoreInv, Distinct, Spare, Sent
  <2> QED
    BY <2>1, <2>2 DEF AllSound, Sound, Sent
<1>3. CASE Crash
  <2>1. UNCHANGED <<setup, row, tries, effects>> /\ crashes' \in Nat /\ faults' \in Nat
    BY <1>3 DEF Crash, Fault, sender, Typed
  <2>2. Typed'
    BY <1>3, <2>1, CrashIs DEF Typed, Sent
  <2>3. ASSUME NEW j \in Keys, NEW m \in Sent(j) PROVE Sound(request'[j][m])
    BY <1>3, CrashIs DEF AllSound
  <2> QED
    BY <2>1, <2>2, <2>3 DEF AllSound, Sound, Sent
<1>4. CASE UNCHANGED vars
  BY <1>4 DEF vars, sender, Typed, StoreInv, Distinct, Spare, AllSound, Sound, Sent
<1> QED
  BY <1>1, <1>2, <1>3, <1>4, StepIs

LEMMA TypedInit == Init => Typed /\ AllSound
<1> SUFFICES ASSUME Init PROVE Typed /\ AllSound
  OBVIOUS
<1>1. setup \in Setups /\ setup.maxEntries \in Nat
  BY WebhookAssumption DEF Init, Setup
<1>2. Unsent \in Request /\ Sound(Unsent)
  BY DEF Unsent, Request, Sound
<1>3. request = [k \in Keys |-> [n \in Sent(k) |-> Unsent]]
  BY DEF Init
<1>4. entries = <<>> /\ <<>> \in Seq(Entry) /\ Len(<<>>) = 0 /\ DOMAIN <<>> = {}
  BY DEF Init
<1>5. StoreInv
  BY <1>1, <1>4 DEF StoreInv, Distinct, Spare
<1> QED
  BY <1>2, <1>3, <1>5 DEF Init, Typed, AllSound

LEMMA TypedAlways == Spec => [](Typed /\ AllSound)
<1>1. Typed /\ AllSound /\ [Next]_vars => (Typed /\ AllSound)'
  BY TypedStep
<1> QED
  BY <1>1, TypedInit, PTL DEF Spec

\* Every variable keeps its type; what the store holds beyond maxEntries is
\* committed, but for the entry touched last.
THEOREM TypeCorrect == Spec => []TypeOK
<1>1. Typed => TypeOK
  BY DEF Typed, StoreInv, Spare, TypeOK
<1> QED
  BY <1>1, TypedAlways, PTL

-----------------------------------------------------------------------------
(* A committed key stays.                                                  *)

LEMMA CommittedIs ==
    \A k : Committed(k) <=> Has(entries, [key |-> k, committed |-> TRUE])
BY DEF Committed, Has

LEMMA SeenIs ==
    ASSUME StoreInv, NEW k \in Keys
    PROVE  Seen(k) <=> Committed(k) \/ Tentative(k)
<1>1. \A i \in DOMAIN entries : entries[i] \in Entry
  BY DEF StoreInv
<1>2. \A e \in Entry : e = [key |-> e.key, committed |-> e.committed] /\ e.committed \in BOOLEAN
  BY DEF Entry
<1>3. ASSUME NEW i \in DOMAIN entries, entries[i].key = k PROVE Committed(k) \/ Tentative(k)
  <2>1. PICK e \in Entry : e = entries[i]
    BY <1>1
  <2>2. e = [key |-> k, committed |-> TRUE] \/ e = [key |-> k, committed |-> FALSE]
    BY <1>2, <1>3, <2>1
  <2> QED
    BY <2>1, <2>2 DEF Committed, Tentative, Has
<1>4. Committed(k) \/ Tentative(k) => Seen(k)
  BY DEF Committed, Tentative, Has, Seen
<1> QED
  BY <1>3, <1>4 DEF Seen

\* What a touch or a release of k does to the claims.
LEMMA RecordClaims ==
    ASSUME StoreInv, UNCHANGED setup, NEW k \in Keys, NEW c \in BOOLEAN, Record(k, c), NEW j \in Keys
    PROVE  /\ Committed(j)' <=> (j = k /\ c) \/ (j # k /\ Committed(j))
           /\ Tentative(j)' => (j = k /\ ~c) \/ (j # k /\ Tentative(j))
           /\ j = k /\ ~c => Tentative(j)'
<1> DEFINE new == [key |-> k, committed |-> c]
           all == Append(Without(entries, k), new)
           com == [key |-> j, committed |-> TRUE]
           ten == [key |-> j, committed |-> FALSE]
<1>1. /\ Has(entries', new)
      /\ \A e : Has(all, e) <=> (Has(entries, e) /\ e.key # k) \/ e = new
      /\ \A e : Has(entries', e) => Has(all, e)
      /\ \A e : Has(all, e) /\ e.committed => Has(entries', e)
  BY RecordIs
<1>2. Committed(j)' <=> Has(entries', com)
  BY DEF Committed, Has
<1>3. Tentative(j)' <=> Has(entries', ten)
  BY DEF Tentative, Has
<1>4. (Committed(j) <=> Has(entries, com)) /\ (Tentative(j) <=> Has(entries, ten))
  BY DEF Committed, Has, Tentative
<1>5. /\ com.key = j /\ com.committed /\ ten.key = j /\ ~ten.committed
      /\ (com = new <=> j = k /\ c) /\ (ten = new <=> j = k /\ ~c)
  OBVIOUS
<1> HIDE DEF all, com, ten, new
<1> QED
  BY <1>1, <1>2, <1>3, <1>4, <1>5

LEMMA ReleaseClaims ==
    ASSUME StoreInv, UNCHANGED setup, NEW k \in Keys, Release(k), NEW j \in Keys
    PROVE  /\ Committed(j)' <=> Committed(j)
           /\ Tentative(j)' <=> j # k /\ Tentative(j)
<1> DEFINE com == [key |-> j, committed |-> TRUE]
           ten == [key |-> j, committed |-> FALSE]
<1>1. \A e \in Entry : Has(entries', e) <=> Has(entries, e) /\ (e.key # k \/ e.committed)
  BY ReleaseIs
<1>2. Committed(j)' <=> Has(entries', com)
  BY DEF Committed, Has
<1>3. Tentative(j)' <=> Has(entries', ten)
  BY DEF Tentative, Has
<1>4. (Committed(j) <=> Has(entries, com)) /\ (Tentative(j) <=> Has(entries, ten))
  BY DEF Committed, Has, Tentative
<1>5. /\ com.key = j /\ com.committed /\ ten.key = j /\ ~ten.committed
      /\ com \in Entry /\ ten \in Entry
  BY DEF Entry
<1> HIDE DEF com, ten
<1> QED
  BY <1>1, <1>2, <1>3, <1>4, <1>5

LEMMA CommittedStep ==
    ASSUME Typed, AllSound, [Next]_vars, NEW k \in Keys, Committed(k), crashes' = crashes
    PROVE  Committed(k)' /\ Handling(k)' \subseteq Handling(k)
<1>1. ASSUME NEW j \in Keys, NEW n \in Sent(j), NEW r, Turn(j, n, r)
      PROVE  Committed(k)' /\ Handling(k)' \subseteq Handling(k)
  <2>1. StoreInv /\ UNCHANGED setup /\ r \in Request /\ Put(j, n, r)
    BY <1>1 DEF Turn, Typed
  <2>2. \A m \in Sent(k) : request'[k][m] = IF k = j /\ m = n THEN r ELSE request[k][m]
    BY <2>1, PutIs
  <2>3. Sent(k)' = Sent(k)
    BY <2>1 DEF Sent
  <2>4. CASE Quiet(j, n, r) \/ Handles(j, n, r) \/ Finalizes(j, n, r)
    <3>1. Committed(k)'
      <4>1. CASE Quiet(j, n, r) \/ Handles(j, n, r)
        BY <4>1 DEF Quiet, Handles, Committed
      <4>2. CASE Finalizes(j, n, r)
        BY <2>1, <4>2, RecordClaims, ReleaseClaims DEF Finalizes
      <4> QED
        BY <2>4, <4>1, <4>2
    <3>2. r.phase \in {"handle", "finish"} => request[j][n].phase \in {"handle", "finish"}
      <4>1. CASE Quiet(j, n, r)
        BY <4>1 DEF Quiet, Owns
      <4>2. CASE Handles(j, n, r)
        BY <4>2 DEF Handles
      <4>3. CASE Finalizes(j, n, r)
        BY <4>3 DEF Finalizes, Owns
      <4> QED
        BY <2>4, <4>1, <4>2, <4>3
    <3>3. Handling(k)' \subseteq Handling(k)
      BY <2>2, <2>3, <3>2 DEF Handling
    <3> QED
      BY <3>1, <3>3
  <2>5. CASE Claims(j, n, r)
    <3>1. k # j
      BY <2>1, <2>5, SeenIs DEF Claims
    <3>2. Committed(k)'
      BY <2>1, <2>5, <3>1, RecordClaims DEF Claims
    <3>3. Handling(k)' \subseteq Handling(k)
      BY <2>2, <2>3, <3>1 DEF Handling
    <3> QED
      BY <3>2, <3>3
  <2> QED
    BY <1>1, <2>4, <2>5 DEF Turn
<1>2. CASE (\E j \in Keys : Unblock(j)) \/ UNCHANGED vars
  <2>1. UNCHANGED <<setup, request, entries>>
    BY <1>2 DEF Unblock, vars
  <2> QED
    BY <2>1 DEF Committed, Handling, Sent
<1>3. ~Crash
  BY DEF Crash, Typed
<1> QED
  BY <1>1, <1>2, <1>3, StepIs

\* Once a delivery of a key is committed, its duplicates are not let through to
\* the handler while the receiver lives, also when its store is full.
THEOREM CommittedCorrect == Spec => CommittedStays
<1> DEFINE Stays == \A k \in Keys : Committed(k) /\ crashes' = crashes =>
                       Committed(k)' /\ Handling(k)' \subseteq Handling(k)
<1>1. Typed /\ AllSound /\ [Next]_vars => Stays
  BY CommittedStep
<1>2. [](Typed /\ AllSound) /\ [][Next]_vars => [][Stays]_vars
  BY <1>1, PTL
<1> QED
  BY <1>2, TypedAlways, PTL DEF Spec, CommittedStays

-----------------------------------------------------------------------------
(* What is acknowledged was processed.                                     *)

\* A tentative claim has an owner; what is committed, and a delivery that will
\* commit, has had its effect.
DoneInv ==
    \A k \in Keys :
        /\ Tentative(k) => \E n \in Sent(k) : Owns(request[k][n])
        /\ Committed(k) => effects[k] > 0
        /\ \A n \in Sent(k) :
              request[k][n].phase = "finish" /\ request[k][n].status = Ok => effects[k] > 0

\* A patient sender waits for the one request of a key that is under way, and
\* what a duplicate is answered is true.
PatientInv ==
    setup.patient => \A k \in Keys :
        /\ \A n \in Sent(k) :
              request[k][n].phase \notin {"none", "gone"} => request[k][n].waiting
        /\ \A n, m \in Sent(k) : request[k][n].waiting /\ request[k][m].waiting => n = m
        /\ \A n \in Sent(k) : request[k][n].status = Ok => effects[k] > 0
        /\ row[k] = "acked" => effects[k] > 0

LEMMA DoneTurn ==
    ASSUME Typed, AllSound, DoneInv, NEW k \in Keys, NEW n \in Sent(k), NEW r, Turn(k, n, r)
    PROVE  DoneInv'
<1> DEFINE q == request[k][n]
<1>1. /\ r \in Request /\ Put(k, n, r) /\ UNCHANGED setup /\ StoreInv
      /\ \A j \in Keys : effects[j] \in Nat /\ effects'[j] \in Nat /\ effects[j] <= effects'[j]
      /\ \A j \in Keys : Sent(j)' = Sent(j)
  BY TurnStore DEF Turn, Typed, Sent
<1>2. \A j \in Keys : \A m \in Sent(j) :
         request'[j][m] = IF j = k /\ m = n THEN r ELSE request[j][m]
  BY <1>1, PutIs
<1>3. q.phase = "handle" => q.status = NoAnswer
  BY DEF AllSound, Sound
<1>4. SUFFICES ASSUME NEW j \in Keys
               PROVE  /\ Tentative(j)' => \E m \in Sent(j) : Owns(request'[j][m])
                      /\ Committed(j)' => effects'[j] > 0
                      /\ \A m \in Sent(j) : request'[j][m].phase = "finish"
                                            /\ request'[j][m].status = Ok => effects'[j] > 0
  BY <1>1 DEF DoneInv, Owns
<1>5. /\ Tentative(j) => \E m \in Sent(j) : Owns(request[j][m])
      /\ Committed(j) => effects'[j] > 0
      /\ \A m \in Sent(j) :
            request[j][m].phase = "finish" /\ request[j][m].status = Ok => effects'[j] > 0
  BY <1>1 DEF DoneInv
<1>6. CASE Quiet(k, n, r)
  <2>1. (Tentative(j)' <=> Tentative(j)) /\ (Committed(j)' <=> Committed(j))
    BY <1>6 DEF Quiet, Tentative, Committed, Has
  <2>2. (Owns(r) <=> Owns(q)) /\ (r.phase = "finish" => q.phase = "finish" /\ r.status = q.status)
    BY <1>6 DEF Quiet, Owns
  <2> QED
    BY <1>2, <1>5, <2>1, <2>2
<1>7. CASE Claims(k, n, r)
  <2>1. /\ Committed(j)' => Committed(j)
        /\ Tentative(j)' => j = k \/ Tentative(j)
    BY <1>1, <1>7, RecordClaims DEF Claims
  <2>2. Owns(r) /\ ~Owns(q) /\ r.phase # "finish"
    BY <1>7 DEF Claims, Owns
  <2> QED
    BY <1>2, <1>5, <2>1, <2>2
<1>8. CASE Handles(k, n, r)
  <2>1. (Tentative(j)' <=> Tentative(j)) /\ (Committed(j)' <=> Committed(j))
    BY <1>8 DEF Handles, Tentative, Committed, Has
  <2>2. Owns(r)
    BY <1>8 DEF Handles
  <2>3. r.status = Ok => effects'[k] > 0
    <3>1. r.status = Ok => effects'[k] = effects[k] + 1
      BY <1>8 DEF Handles, Typed
    <3> QED
      BY <1>1, <3>1
  <2> QED
    BY <1>2, <1>5, <2>1, <2>2, <2>3
<1>9. CASE Finalizes(k, n, r)
  <2>1. Owns(q) /\ ~Owns(r) /\ r.phase # "finish" /\ q.phase # "handle" /\ r.status = q.status
    BY <1>9 DEF Finalizes, Owns
  <2>2. r.status = Ok => q.phase = "finish"
    BY <2>1, Statuses DEF AllSound, Sound, Owns
  <2>3. /\ Tentative(j)' => j # k /\ Tentative(j)
        /\ Committed(j)' => (j = k /\ r.status = Ok) \/ Committed(j)
    BY <1>1, <1>9, RecordClaims, ReleaseClaims DEF Finalizes
  <2> QED
    BY <1>2, <1>5, <2>1, <2>2, <2>3
<1> QED
  BY <1>6, <1>7, <1>8, <1>9 DEF Turn

LEMMA PatientTurn ==
    ASSUME Typed, AllSound, DoneInv, PatientInv,
           NEW k \in Keys, NEW n \in Sent(k), NEW r, Turn(k, n, r)
    PROVE  PatientInv'
<1> DEFINE q == request[k][n]
<1>1. /\ r \in Request /\ Put(k, n, r) /\ UNCHANGED setup /\ StoreInv
      /\ \A j \in Keys : effects[j] \in Nat /\ effects'[j] \in Nat /\ effects[j] <= effects'[j]
      /\ \A j \in Keys : Sent(j)' = Sent(j)
      /\ Waits(k, n, r) /\ Rows(k, n)
  BY TurnStore DEF Turn, Typed, Sent
<1>2. \A j \in Keys : \A m \in Sent(j) :
         request'[j][m] = IF j = k /\ m = n THEN r ELSE request[j][m]
  BY <1>1, PutIs
<1>3. SUFFICES ASSUME setup.patient, NEW j \in Keys
      PROVE  /\ \A m \in Sent(j) : request'[j][m].phase \notin {"none", "gone"}
                                   => request'[j][m].waiting
             /\ \A m, l \in Sent(j) : request'[j][m].waiting /\ request'[j][l].waiting => m = l
             /\ \A m \in Sent(j) : request'[j][m].status = Ok => effects'[j] > 0
             /\ row'[j] = "acked" => effects'[j] > 0
  BY <1>1 DEF PatientInv
<1>4. /\ \A m \in Sent(j) : request[j][m].phase \notin {"none", "gone"} => request[j][m].waiting
      /\ \A m, l \in Sent(j) : request[j][m].waiting /\ request[j][l].waiting => m = l
      /\ \A m \in Sent(j) : request[j][m].status = Ok => effects'[j] > 0
      /\ row[j] = "acked" => effects'[j] > 0
  BY <1>1, <1>3 DEF PatientInv
<1>5. \/ r.waiting = q.waiting /\ (r.phase \in {"none", "gone"} \/ q.phase \notin {"none", "gone"})
      \/ (r.waiting /\ \A m \in Sent(k) : ~request[k][m].waiting)
      \/ (~r.waiting /\ r.phase = "gone")
  BY <1>1, <1>3 DEF Waits, Waiting
<1>6. \A m \in Sent(j) : request'[j][m].phase \notin {"none", "gone"} => request'[j][m].waiting
  BY <1>2, <1>4, <1>5
<1>7. \A m, l \in Sent(j) : request'[j][m].waiting /\ request'[j][l].waiting => m = l
  BY <1>2, <1>4, <1>5
<1>8. r.status = Ok => effects'[k] > 0
  <2> SUFFICES ASSUME r.status = Ok PROVE effects'[k] > 0
    OBVIOUS
  <2>1. q.status = Ok => effects'[k] > 0
    BY <1>1, <1>3 DEF PatientInv
  <2>2. CASE Quiet(k, n, r)
    <3> SUFFICES ASSUME q.phase = "wire", Seen(k) PROVE effects'[k] > 0
      BY <2>1, <2>2 DEF Quiet
    <3>1. ~Tentative(k)
      <4> SUFFICES ASSUME Tentative(k) PROVE FALSE
        OBVIOUS
      <4>1. PICK m \in Sent(k) : Owns(request[k][m])
        BY DEF DoneInv
      <4>2. request[k][m].phase \notin {"none", "gone", "wire"}
        BY <4>1 DEF Owns
      <4>3. request[k][m].waiting /\ q.waiting
        BY <1>3, <4>2 DEF PatientInv
      <4>4. m = n
        BY <1>3, <4>3 DEF PatientInv
      <4> QED
        BY <4>2, <4>4
    <3>2. effects[k] > 0
      BY <1>1, <3>1, SeenIs DEF DoneInv
    <3> QED
      BY <1>1, <3>2
  <2>3. CASE Claims(k, n, r)
    BY <2>3, Statuses DEF Claims
  <2>4. CASE Handles(k, n, r)
    <3>1. effects'[k] = effects[k] + 1
      BY <2>4 DEF Handles, Typed
    <3> QED
      BY <1>1, <3>1
  <2>5. CASE Finalizes(k, n, r)
    BY <2>1, <2>5 DEF Finalizes
  <2> QED
    BY <2>2, <2>3, <2>4, <2>5 DEF Turn
<1>9. \A m \in Sent(j) : request'[j][m].status = Ok => effects'[j] > 0
  BY <1>2, <1>4, <1>8
<1>10. row'[j] = "acked" => effects'[j] > 0
  <2>1. q.status = Ok => effects'[k] > 0
    BY <1>1, <1>3 DEF PatientInv
  <2>2. CASE row' = row
    BY <1>4, <2>2
  <2>3. ASSUME NEW v, row' = [row EXCEPT ![k] = v], v = "acked" => q.status = Ok
        PROVE  row'[j] = "acked" => effects'[j] > 0
    BY <1>4, <2>1, <2>3 DEF Typed
  <2> QED
    BY <1>1, <2>2, <2>3 DEF Rows
<1> QED
  BY <1>6, <1>7, <1>9, <1>10

LEMMA DoneStep ==
    ASSUME Typed, AllSound, DoneInv, PatientInv, [Next]_vars
    PROVE  DoneInv' /\ PatientInv'
<1>1. CASE \E k \in Keys : \E n \in Sent(k) : \E r : Turn(k, n, r)
  BY <1>1, DoneTurn, PatientTurn
<1>2. ASSUME NEW k \in Keys, Unblock(k) PROVE DoneInv' /\ PatientInv'
  <2>1. UNCHANGED <<setup, request, entries, effects>> /\ row' = [row EXCEPT ![k] = "pending"]
    BY <1>2 DEF Unblock
  <2>2. \A j \in Keys : row'[j] = "acked" => row[j] = "acked"
    BY <2>1 DEF Typed
  <2> QED
    BY <2>1, <2>2 DEF DoneInv, PatientInv, Tentative, Committed, Has, Owns, Sent
<1>3. CASE Crash
  <2>1. UNCHANGED <<setup, row, effects>> /\ \A j \in Keys : Sent(j)' = Sent(j)
    BY <1>3 DEF Crash, sender, Sent
  <2>2. \A j \in Keys : \A m \in Sent(j) :
           LET r == request'[j][m]
               q == request[j][m]
           IN  /\ ~Owns(r) /\ r.waiting = q.waiting /\ (r.phase = "gone" \/ r = q)
               /\ r.status = Ok => q.status = Ok
    BY <1>3, CrashIs
  <2>3. \A j \in Keys : ~Tentative(j)' /\ ~Committed(j)'
    <3>1. \A x : ~Has(entries', x)
      BY <1>3, CrashIs
    <3> QED
      BY <3>1 DEF Tentative, Committed, Has
  <2>4. DoneInv'
    BY <2>1, <2>2, <2>3 DEF DoneInv, Owns
  <2>5. PatientInv'
    BY <2>1, <2>2 DEF PatientInv
  <2> QED
    BY <2>4, <2>5
<1>4. CASE UNCHANGED vars
  BY <1>4 DEF vars, sender, DoneInv, PatientInv, Tentative, Committed, Has, Owns, Sent
<1> QED
  BY <1>1, <1>2, <1>3, <1>4, StepIs

LEMMA DoneInit == Init => DoneInv /\ PatientInv
<1> SUFFICES ASSUME Init PROVE DoneInv /\ PatientInv
  OBVIOUS
<1>1. \A k \in Keys : \A n \in Sent(k) : request[k][n] = Unsent
  BY DEF Init
<1>2. /\ Unsent.phase = "none" /\ ~Unsent.waiting /\ Unsent.status # Ok
  BY Statuses DEF Unsent
<1>3. \A x : ~Has(entries, x)
  BY DEF Init, Has
<1> QED
  BY <1>1, <1>2, <1>3 DEF Init, DoneInv, PatientInv, Tentative, Committed, Has

\* A delivery that a patient sender counts as done has been processed.
THEOREM AckedCorrect == Spec => []AckedIsProcessed
<1>1. Typed /\ AllSound /\ DoneInv /\ PatientInv /\ [Next]_vars => (DoneInv /\ PatientInv)'
  BY DoneStep
<1>2. PatientInv => AckedIsProcessed
  BY DEF PatientInv, AckedIsProcessed
<1> QED
  BY <1>1, <1>2, DoneInit, TypedAlways, PTL DEF Spec

-----------------------------------------------------------------------------
(* A key is processed at most once.                                        *)

Used == {k \in Keys : setup.sent[k] > 0}

\* The store has entries of keys that are sent only.
UsedInv == \A i \in DOMAIN entries : entries[i].key \in Used

\* Where the store has room for every claim a key has one owner at most, whose
\* claim is there, and an effect more than the receiver has died is of a
\* committed delivery or of one that will commit.
OnceInv ==
    Roomy => \A k \in Keys :
        /\ \A n, m \in Sent(k) : Owns(request[k][n]) /\ Owns(request[k][m]) => n = m
        /\ \A n \in Sent(k) : Owns(request[k][n]) => Tentative(k)
        /\ effects[k] <= 1 + crashes
        /\ \/ effects[k] <= crashes
           \/ Committed(k)
           \/ \E n \in Sent(k) : Owns(request[k][n]) /\ request[k][n].status = Ok

LEMMA RoomFits ==
    ASSUME Roomy, setup \in Setups, NEW s \in Seq(Entry), Distinct(s),
           \A e : Has(s, e) => e.key \in Used
    PROVE  Fits(s)
<1> DEFINE f == [i \in 1 .. Len(s) |-> s[i].key]
<1>1. Len(s) \in Nat /\ DOMAIN s = 1 .. Len(s)
  OBVIOUS
<1>2. f \in Injection(1 .. Len(s), Used)
  <2>1. \A i \in 1 .. Len(s) : s[i].key \in Used
    BY <1>1 DEF Has
  <2>2. f \in [1 .. Len(s) -> Used]
    BY <2>1
  <2>3. \A i, j \in 1 .. Len(s) : f[i] = f[j] => i = j
    BY <1>1 DEF Distinct
  <2> HIDE DEF f
  <2> QED
    BY <2>2, <2>3 DEF Injection, IsInjective
<1>3. IsFiniteSet(Used)
  <2>1. Used \in SUBSET Keys /\ IsFiniteSet(Keys)
    BY WebhookAssumption DEF Used
  <2> QED
    BY <2>1, FS_Subset
<1> HIDE DEF f
<1>4. Cardinality(1 .. Len(s)) <= Cardinality(Used)
  BY <1>2, <1>3, FS_Injection
<1>5. Cardinality(1 .. Len(s)) = Len(s)
  <2> DEFINE n == Len(s)
  <2> HIDE DEF n
  <2>1. n \in Nat
    BY <1>1 DEF n
  <2>2. Cardinality(1 .. n) = IF 1 > n THEN 0 ELSE n - 1 + 1
    BY <2>1, FS_Interval
  <2> QED
    BY <2>1, <2>2 DEF n
<1>6. Cardinality(Used) <= setup.maxEntries
  BY DEF Roomy, Used
<1>7. setup.maxEntries \in Nat /\ Cardinality(Used) \in Nat
  BY <1>3, FS_CardinalityType, WebhookAssumption DEF Setup
<1> QED
  BY <1>1, <1>4, <1>5, <1>6, <1>7 DEF Fits

\* A touch in a store with room leaves the other claims alone.
LEMMA RecordRoom ==
    ASSUME StoreInv, UsedInv, UNCHANGED setup, NEW k \in Used, NEW c \in BOOLEAN, Record(k, c)
    PROVE  /\ UsedInv'
           /\ Roomy => \A j \in Keys \ {k} : Tentative(j) => Tentative(j)'
<1> DEFINE new == [key |-> k, committed |-> c]
           all == Append(Without(entries, k), new)
<1>1. /\ all \in Seq(Entry) /\ Distinct(all)
      /\ \A e : Has(all, e) <=> (Has(entries, e) /\ e.key # k) \/ e = new
      /\ \A e : Has(entries', e) => Has(all, e)
      /\ Fits(all) => \A e : Has(all, e) => Has(entries', e)
  BY RecordIs DEF Used
<1>2. new.key = k
  OBVIOUS
<1> HIDE DEF all, new
<1>3. \A e : Has(all, e) => e.key \in Used
  BY <1>1, <1>2 DEF UsedInv, Has
<1>4. UsedInv'
  <2>1. \A i \in DOMAIN entries' : Has(entries', entries'[i])
    BY DEF Has
  <2>2. \A i \in DOMAIN entries' : entries'[i].key \in Used
    BY <1>1, <1>3, <2>1
  <2> QED
    BY <2>2 DEF UsedInv, Used
<1>5. ASSUME Roomy, NEW j \in Keys \ {k}, Tentative(j) PROVE Tentative(j)'
  <2>1. Fits(all)
    BY <1>1, <1>3, <1>5, RoomFits DEF StoreInv
  <2>2. PICK e : e = [key |-> j, committed |-> FALSE]
    OBVIOUS
  <2>3. Has(entries, e) /\ e.key # k
    BY <1>5, <2>2 DEF Tentative
  <2>4. Has(entries', e)
    BY <1>1, <2>1, <2>3
  <2> QED
    BY <2>2, <2>4 DEF Tentative, Has
<1> QED
  BY <1>4, <1>5

\* A key has one entry.
LEMMA OneEntry == ASSUME StoreInv, NEW k \in Keys PROVE ~(Committed(k) /\ Tentative(k))
BY DEF StoreInv, Distinct, Committed, Tentative, Has

LEMMA SentUsed == ASSUME Typed, NEW k \in Keys, NEW n \in Sent(k) PROVE k \in Used
<1>1. setup.sent[k] \in Nat
  BY WebhookAssumption DEF Typed, StoreInv, Setup
<1> QED
  BY <1>1 DEF Used, Sent

LEMMA OnceTurn ==
    ASSUME Typed, AllSound, UsedInv, OnceInv,
           NEW k \in Keys, NEW n \in Sent(k), NEW r, Turn(k, n, r)
    PROVE  UsedInv' /\ OnceInv'
<1> DEFINE q == request[k][n]
<1>1. /\ r \in Request /\ Put(k, n, r) /\ UNCHANGED <<setup, crashes>> /\ StoreInv
      /\ effects \in [Keys -> Nat] /\ crashes \in Nat /\ k \in Used
      /\ \A j \in Keys : Sent(j)' = Sent(j)
  BY SentUsed DEF Turn, Typed, Sent
<1>2. \A j \in Keys : \A m \in Sent(j) :
         request'[j][m] = IF j = k /\ m = n THEN r ELSE request[j][m]
  BY <1>1, PutIs
<1>3. /\ q.phase = "handle" => q.status # Ok
      /\ Owns(q) /\ q.phase # "handle" => (q.status = Ok => q.phase = "finish")
  BY Statuses DEF AllSound, Sound, Owns
<1>4. UsedInv'
  <2>1. CASE Quiet(k, n, r) \/ Handles(k, n, r)
    BY <1>1, <2>1 DEF Quiet, Handles, UsedInv, Used
  <2>2. CASE Claims(k, n, r)
    BY <1>1, <2>2, RecordRoom DEF Claims
  <2>3. CASE Finalizes(k, n, r) /\ r.status = Ok
    BY <1>1, <2>3, RecordRoom DEF Finalizes
  <2>4. CASE Finalizes(k, n, r) /\ r.status # Ok
    <3>1. \A e \in Entry : Has(entries', e) => Has(entries, e)
      BY <1>1, <2>4, ReleaseIs DEF Finalizes
    <3>2. \A i \in DOMAIN entries' : entries'[i] \in Entry /\ Has(entries', entries'[i])
      BY <1>1, <2>4, ReleaseIs DEF Finalizes, StoreInv, Has
    <3>3. \A i \in DOMAIN entries' : entries'[i].key \in Used
      BY <3>1, <3>2 DEF UsedInv, Has
    <3> QED
      BY <1>1, <3>3 DEF UsedInv, Used
  <2> QED
    BY <2>1, <2>2, <2>3, <2>4 DEF Turn
<1>5. SUFFICES ASSUME Roomy, NEW j \in Keys
      PROVE  /\ \A m, l \in Sent(j) : Owns(request'[j][m]) /\ Owns(request'[j][l]) => m = l
             /\ \A m \in Sent(j) : Owns(request'[j][m]) => Tentative(j)'
             /\ effects'[j] <= 1 + crashes
             /\ \/ effects'[j] <= crashes
                \/ Committed(j)'
                \/ \E m \in Sent(j) : Owns(request'[j][m]) /\ request'[j][m].status = Ok
  BY <1>1, <1>4 DEF OnceInv, Roomy, Owns
<1>6. /\ \A m, l \in Sent(j) : Owns(request[j][m]) /\ Owns(request[j][l]) => m = l
      /\ \A m \in Sent(j) : Owns(request[j][m]) => Tentative(j)
      /\ effects[j] <= 1 + crashes /\ effects[j] \in Nat
      /\ \/ effects[j] <= crashes
         \/ Committed(j)
         \/ \E m \in Sent(j) : Owns(request[j][m]) /\ request[j][m].status = Ok
  BY <1>1, <1>5 DEF OnceInv
<1>7. CASE Quiet(k, n, r)
  <2>1. (Tentative(j)' <=> Tentative(j)) /\ (Committed(j)' <=> Committed(j)) /\ effects' = effects
    BY <1>7 DEF Quiet, Tentative, Committed, Has
  <2>2. (Owns(r) <=> Owns(q)) /\ (Owns(r) => r.status = q.status)
    BY <1>7 DEF Quiet, Owns
  <2> QED
    BY <1>2, <1>6, <2>1, <2>2
<1>8. CASE Claims(k, n, r)
  <2>1. /\ Committed(j)' <=> j # k /\ Committed(j)
        /\ j = k => Tentative(j)'
        /\ j # k => (Tentative(j) => Tentative(j)')
        /\ effects' = effects
    BY <1>1, <1>5, <1>8, RecordClaims, RecordRoom DEF Claims
  <2>2. j = k => ~Committed(j) /\ ~Tentative(j)
    BY <1>1, <1>8, SeenIs DEF Claims
  <2>3. CASE j = k
    <3>1. \A m \in Sent(j) : ~Owns(request[j][m])
      BY <1>6, <2>2, <2>3
    <3>2. effects[j] <= crashes
      BY <1>6, <2>2, <2>3, <3>1
    <3> QED
      BY <1>2, <1>6, <2>1, <2>3, <3>1, <3>2
  <2>4. CASE j # k
    BY <1>2, <1>6, <2>1, <2>4
  <2> QED
    BY <2>3, <2>4
<1>9. CASE Handles(k, n, r)
  <2>1. /\ Tentative(j)' <=> Tentative(j)
        /\ Committed(j)' <=> Committed(j)
        /\ j # k => effects'[j] = effects[j]
        /\ j = k => effects'[j] = IF r.status = Ok THEN effects[j] + 1 ELSE effects[j]
    BY <1>1, <1>9 DEF Handles, Tentative, Committed, Has
  <2>2. Owns(r) /\ Owns(q) /\ q.status # Ok
    BY <1>3, <1>9 DEF Handles, Owns
  <2>3. CASE j = k
    <3>1. Tentative(j) /\ ~Committed(j)
      BY <1>1, <1>6, <2>2, <2>3, OneEntry
    <3>2. \A m \in Sent(j) : Owns(request[j][m]) => m = n
      BY <1>6, <2>2, <2>3
    <3>3. effects[j] <= crashes
      BY <1>6, <2>2, <2>3, <3>1, <3>2
    <3>4. effects'[j] <= 1 + crashes /\ (r.status # Ok => effects'[j] <= crashes)
      BY <1>1, <1>6, <2>1, <2>3, <3>3
    <3> QED
      BY <1>2, <2>1, <2>2, <2>3, <3>1, <3>2, <3>4
  <2>4. CASE j # k
    BY <1>2, <1>6, <2>1, <2>4
  <2> QED
    BY <2>3, <2>4
<1>10. CASE Finalizes(k, n, r)
  <2>1. Owns(q) /\ ~Owns(r) /\ r.status = q.status /\ effects' = effects
    BY <1>10 DEF Finalizes
  <2>2. /\ j # k => (Tentative(j) => Tentative(j)') /\ (Committed(j)' <=> Committed(j))
        /\ r.status = Ok => (j = k => Committed(j)')
    <3>1. CASE r.status = Ok
      BY <1>1, <1>5, <1>10, <3>1, RecordClaims, RecordRoom DEF Finalizes
    <3>2. CASE r.status # Ok
      BY <1>1, <1>10, <3>2, ReleaseClaims DEF Finalizes
    <3> QED
      BY <3>1, <3>2
  <2>3. CASE j = k
    <3>1. Tentative(j) /\ ~Committed(j)
      BY <1>1, <1>6, <2>1, <2>3, OneEntry
    <3>2. \A m \in Sent(j) : Owns(request[j][m]) => m = n
      BY <1>6, <2>1, <2>3
    <3>3. r.status # Ok => effects[j] <= crashes
      BY <1>6, <2>1, <2>3, <3>1, <3>2
    <3>4. \A m \in Sent(j) : ~Owns(request'[j][m])
      BY <1>2, <2>1, <2>3, <3>2
    <3> QED
      BY <1>6, <2>1, <2>2, <2>3, <3>3, <3>4
  <2>4. CASE j # k
    BY <1>2, <1>6, <2>1, <2>2, <2>4
  <2> QED
    BY <2>3, <2>4
<1> QED
  BY <1>7, <1>8, <1>9, <1>10 DEF Turn

LEMMA OnceStep ==
    ASSUME Typed, AllSound, UsedInv, OnceInv, [Next]_vars
    PROVE  UsedInv' /\ OnceInv'
<1>1. CASE \E k \in Keys : \E n \in Sent(k) : \E r : Turn(k, n, r)
  BY <1>1, OnceTurn
<1>2. CASE (\E k \in Keys : Unblock(k)) \/ UNCHANGED vars
  <2>1. UNCHANGED <<setup, request, entries, effects, crashes>>
    BY <1>2 DEF Unblock, vars
  <2> QED
    BY <2>1 DEF UsedInv, Used, OnceInv, Roomy, Tentative, Committed, Has, Owns, Sent
<1>3. CASE Crash
  <2>1. /\ UNCHANGED <<setup, effects>> /\ crashes' = crashes + 1 /\ entries' = <<>>
        /\ crashes \in Nat /\ effects \in [Keys -> Nat] /\ \A j \in Keys : Sent(j)' = Sent(j)
    BY <1>3 DEF Crash, sender, Sent, Typed
  <2>2. \A j \in Keys : \A m \in Sent(j) : ~Owns(request'[j][m])
    BY <1>3, CrashIs
  <2>3. ASSUME Roomy, NEW j \in Keys PROVE effects'[j] <= crashes' /\ effects'[j] <= 1 + crashes'
    <3>1. effects[j] <= 1 + crashes /\ effects[j] \in Nat
      BY <2>1, <2>3 DEF OnceInv
    <3> QED
      BY <2>1, <3>1
  <2>4. UsedInv'
    BY <2>1 DEF UsedInv
  <2>5. OnceInv'
    BY <2>1, <2>2, <2>3 DEF OnceInv, Roomy, Owns
  <2> QED
    BY <2>4, <2>5
<1> QED
  BY <1>1, <1>2, <1>3, StepIs

LEMMA OnceInit == Init => UsedInv /\ OnceInv
<1> SUFFICES ASSUME Init PROVE UsedInv /\ OnceInv
  OBVIOUS
<1>1. \A k \in Keys : \A n \in Sent(k) : ~Owns(request[k][n])
  BY DEF Init, Unsent, Owns
<1>2. effects = [k \in Keys |-> 0] /\ crashes = 0 /\ entries = <<>>
  BY DEF Init
<1> QED
  BY <1>1, <1>2 DEF UsedInv, OnceInv

\* A key is processed successfully at most once per life of the receiver, as long
\* as its store has room for the claim of every key.
THEOREM OnceCorrect == Spec => []AtMostOnce
<1>1. Typed /\ AllSound /\ UsedInv /\ OnceInv /\ [Next]_vars => (UsedInv /\ OnceInv)'
  BY OnceStep
<1>2. OnceInv => AtMostOnce
  BY DEF OnceInv, AtMostOnce
<1> QED
  BY <1>1, <1>2, OnceInit, TypedAlways, PTL DEF Spec

=============================================================================
