---------------------------- MODULE SwTimerProof ----------------------------
(***************************************************************************)
(* Theorems about SwTimer, for any timers, threads, intervals and bounds.  *)
(***************************************************************************)
EXTENDS SwTimer, FiniteSetTheorems, SequenceTheorems, TLAPS

TimerRec == [alive : BOOLEAN, expire_time : Nat, interval : Nat, is_running : BOOLEAN, type : Types]

ThrRec == [pc : {"wait", "dispatch", "lock", "unlocked", "callback"}, nowMS : 0..MaxTime,
           next_expired : Nat \union {Forever}, wakeAt : 0..MaxTime,
           cur : Timers \union {NoTimer}]

\* What a caller may be in the middle of.
CallRec ==
    {Idle} \union [op : {"post", "free"}, t : Timers]
    \union [op : {"start"}, t : Timers, at : 0..MaxTime, ms : Intervals \union {0}, type : Types]
Freeing(t) == \E c \in Callers : call[c].op = "free" /\ call[c].t = t

\* A timer in use by a call exists; one being deleted is in use by that call only, and,
\* if callbacks own it, by sys_timer, which calls nothing outside of a callback.
CallInv ==
    /\ call \in [Callers -> CallRec]
    /\ \A c \in Callers : call[c].op # "idle" => timer[call[c].t].alive
    /\ \A c, d \in Callers : call[c].op = "free" /\ call[d].t = call[c].t => c = d
    /\ \A c \in Callers :
           call[c].op = "free" /\ call[c].t \in OwnedByCallback => c = TimerThread
    /\ thr.pc # "callback" => call[TimerThread] = Idle

\* No timer is twice on the active list.
Distinct(s) == \A i, j \in 1..Len(s) : s[i] = s[j] => i = j
Sorted(s, e) == \A i, j \in 1..Len(s) : i < j => e[s[i]] <= e[s[j]]
Expiry(tm) == [u \in Timers |-> tm[u].expire_time]

\* The lists hold the timers that exist and are not being deleted, and the counts agree.
Linked == {t \in Timers : timer[t].alive /\ ~Freeing(t)}
ListInv ==
    /\ Distinct(list_active)
    /\ ToSet(list_active) \intersect list_standby = {}
    /\ ToSet(list_active) \union list_standby = Linked
    /\ \A t \in Linked : timer[t].is_running <=> t \in ToSet(list_active)
    /\ running_cnt = Len(list_active)
    /\ IsFiniteSet(Linked) /\ total_cnt = Cardinality(Linked)

SwInv ==
    /\ TypeOK /\ CallInv /\ ListInv
    /\ Sorted(list_active, Expiry(timer)) /\ NoOversleep /\ CallbackOnLiveTimer

------------------------------------------------------------------------------
(* Lists. *)
LEMMA HasMin ==
    ASSUME NEW I \in SUBSET Nat, I # {}
    PROVE  Min(I) \in I /\ \A j \in I : Min(I) <= j
<1> DEFINE R == {p \in Nat \X Nat : p[1] < p[2]}
<1>1. OpToRel(<, Nat) = R
    BY Zenon DEF OpToRel
<1>2. \E x \in I : \A y \in I : ~(<<y, x>> \in R)
  <2>1. IsWellFoundedOn(R, Nat)
      BY <1>1, NatLessThanWellFounded
  <2> HIDE DEF R
  <2> QED BY <2>1, WFMin
<1>3. PICK x \in I : \A y \in I : ~(<<y, x>> \in R)
    BY <1>2
<1>4. ASSUME NEW y \in I PROVE x <= y
  <2>1. x \in Nat /\ y \in Nat /\ ~(<<y, x>> \in R)
      BY <1>3
  <2>2. <<y, x>> \in R <=> y < x
      BY <2>1
  <2> QED BY <2>1, <2>2
<1> QED BY <1>4 DEF Min

LEMMA SetOfSeq ==
    ASSUME NEW T, NEW s \in Seq(T)
    PROVE  /\ ToSet(s) \in SUBSET T
           /\ \A x : x \in ToSet(s) <=> \E i \in 1..Len(s) : s[i] = x
BY DEF ToSet

LEMMA RemoveAtIs ==
    ASSUME NEW T, NEW s \in Seq(T), NEW k \in 1..Len(s)
    PROVE  /\ RemoveAt(s, k) \in Seq(T) /\ Len(RemoveAt(s, k)) = Len(s) - 1
           /\ \A i \in 1..(Len(s) - 1) : RemoveAt(s, k)[i] = IF i < k THEN s[i] ELSE s[i + 1]
<1> DEFINE a == SubSeq(s, 1, k - 1)
           b == SubSeq(s, k + 1, Len(s))
<1>1. a \in Seq(T) /\ Len(a) = k - 1 /\ \A i \in 1..(k - 1) : a[i] = s[i]
    OBVIOUS
<1>2. b \in Seq(T) /\ Len(b) = Len(s) - k /\ \A i \in 1..(Len(s) - k) : b[i] = s[k + i]
    OBVIOUS
<1>3. RemoveAt(s, k) = a \o b
    BY DEF RemoveAt
<1> HIDE DEF a, b
<1>4. a \o b \in Seq(T) /\ Len(a \o b) = Len(a) + Len(b)
    BY <1>1, <1>2, ConcatProperties
<1>5. \A i \in 1..(Len(s) - 1) : (a \o b)[i] = IF i < k THEN s[i] ELSE s[i + 1]
    BY <1>1, <1>2
<1> QED BY <1>1, <1>2, <1>3, <1>4, <1>5

\* tuya_list_del takes out the one node of t, and keeps the others in order.
LEMMA UnlinkedIs ==
    ASSUME NEW s \in Seq(Timers), Distinct(s), NEW t
    PROVE  /\ Unlinked(s, t) \in Seq(Timers) /\ Distinct(Unlinked(s, t))
           /\ ToSet(Unlinked(s, t)) = ToSet(s) \ {t}
           /\ Len(Unlinked(s, t)) = IF t \in ToSet(s) THEN Len(s) - 1 ELSE Len(s)
           /\ \A i, j \in 1..Len(Unlinked(s, t)) : i < j =>
                  \E k, l \in 1..Len(s) :
                      k < l /\ s[k] = Unlinked(s, t)[i] /\ s[l] = Unlinked(s, t)[j]
<1>1. CASE t \notin ToSet(s)
  <2>1. Unlinked(s, t) = s
      BY <1>1, SetOfSeq DEF Unlinked, RemoveFirst
  <2> QED BY <1>1, <2>1
<1>2. CASE t \in ToSet(s)
  <2>1. PICK k \in 1..Len(s) : s[k] = t /\ \A j \in 1..Len(s) : s[j] = t => j = k
      BY <1>2, SetOfSeq DEF Distinct
  <2>2. {i \in 1..Len(s) : s[i] = t} = {k}
      BY <2>1
  <2>3. Min({k}) = k
      BY DEF Min
  <2>4. Unlinked(s, t) = RemoveAt(s, k)
      BY <2>1, <2>2, <2>3 DEF Unlinked, RemoveFirst, SelectInSeq
  <2> DEFINE r == RemoveAt(s, k)
  <2>5. /\ r \in Seq(Timers) /\ Len(r) = Len(s) - 1 /\ Len(s) \in Nat
        /\ \A i \in 1..(Len(s) - 1) : r[i] = IF i < k THEN s[i] ELSE s[i + 1]
      BY RemoveAtIs
  <2> HIDE DEF r
  <2>6. ASSUME NEW i \in 1..Len(r), NEW j \in 1..Len(r), i < j
        PROVE  \E m, n \in 1..Len(s) : m < n /\ s[m] = r[i] /\ s[n] = r[j]
    <3> DEFINE m == IF i < k THEN i ELSE i + 1
               n == IF j < k THEN j ELSE j + 1
    <3>1. m \in 1..Len(s) /\ n \in 1..Len(s) /\ m < n
        BY <2>5, <2>6
    <3>2. s[m] = r[i] /\ s[n] = r[j]
        BY <2>5
    <3> HIDE DEF m, n
    <3> QED BY <3>1, <3>2
  <2>7. Distinct(r)
    <3> SUFFICES ASSUME NEW i \in 1..Len(r), NEW j \in 1..Len(r), r[i] = r[j] PROVE i = j
        BY DEF Distinct
    <3>1. CASE i < j
        BY <2>6, <3>1 DEF Distinct
    <3>2. CASE j < i
        BY <2>6, <3>2 DEF Distinct
    <3> QED BY <2>5, <3>1, <3>2
  <2>8. ToSet(r) = ToSet(s) \ {t}
    <3>1. ASSUME NEW x \in ToSet(r) PROVE x \in ToSet(s) \ {t}
      <4>1. PICK i \in 1..Len(r) : r[i] = x
          BY <2>5, SetOfSeq
      <4>2. PICK m \in 1..Len(s) : s[m] = x /\ m # k
          BY <2>5, <4>1
      <4> QED BY <2>1, <4>2, SetOfSeq
    <3>2. ASSUME NEW x \in ToSet(s) \ {t} PROVE x \in ToSet(r)
      <4>1. PICK m \in 1..Len(s) : s[m] = x /\ m # k
          BY <2>1, SetOfSeq
      <4>2. PICK i \in 1..Len(r) : i = IF m < k THEN m ELSE m - 1
          BY <2>5, <4>1
      <4>3. r[i] = x
          BY <2>5, <4>1, <4>2
      <4> QED BY <2>5, <4>3, SetOfSeq
    <3> QED BY <3>1, <3>2
  <2> QED BY <1>2, <2>4, <2>5, <2>6, <2>7, <2>8 DEF r
<1> QED BY <1>1, <1>2

\* a is r with t put in at position k.
Inserted(a, r, k, t) ==
    /\ a \in Seq(Timers) /\ Len(a) = Len(r) + 1 /\ a[k] = t
    /\ \A i \in 1..(k - 1) : a[i] = r[i]
    /\ \A i \in k..Len(r) : a[i + 1] = r[i]

LEMMA InsertAtIs ==
    ASSUME NEW s \in Seq(Timers), NEW k \in 1..Len(s), NEW t \in Timers
    PROVE  Inserted(InsertAt(s, k, t), s, k, t)
<1> DEFINE a == InsertAt(s, k, t)
<1>1. /\ a \in Seq(Timers) /\ Len(a) = Len(s) + 1 /\ Len(s) \in Nat
      /\ \A i \in 1..(Len(s) + 1) :
             a[i] = IF i < k THEN s[i] ELSE IF i = k THEN t ELSE s[i - 1]
    BY DEF InsertAt
<1> HIDE DEF a
<1>2. a[k] = t /\ \A i \in 1..(k - 1) : a[i] = s[i]
    BY <1>1
<1>3. ASSUME NEW i \in k..Len(s) PROVE a[i + 1] = s[i]
  <2>1. i + 1 \in 1..(Len(s) + 1) /\ ~(i + 1 < k) /\ i + 1 # k /\ (i + 1) - 1 = i
      BY <1>1
  <2>2. PICK j \in 1..(Len(s) + 1) : j = i + 1
      BY <2>1
  <2>3. a[j] = IF j < k THEN s[j] ELSE IF j = k THEN t ELSE s[j - 1]
      BY <1>1
  <2> QED BY <2>1, <2>2, <2>3
<1>4. Inserted(a, s, k, t)
    BY <1>1, <1>2, <1>3 DEF Inserted
<1> QED BY <1>4 DEF a

LEMMA InsertedList ==
    ASSUME NEW a, NEW r \in Seq(Timers), Distinct(r), NEW t, t \notin ToSet(r),
           NEW k \in 1..(Len(r) + 1), Inserted(a, r, k, t)
    PROVE  Distinct(a) /\ ToSet(a) = ToSet(r) \union {t}
<1>1. /\ Len(r) \in Nat /\ a \in Seq(Timers) /\ Len(a) = Len(r) + 1 /\ a[k] = t
      /\ \A i \in 1..(k - 1) : a[i] = r[i]
      /\ \A i \in k..Len(r) : a[i + 1] = r[i]
    BY DEF Inserted
<1>2. \A i \in 1..Len(r) : r[i] # t
    BY SetOfSeq
<1>3. ASSUME NEW i \in 1..Len(a), i # k
      PROVE  \E m \in 1..Len(r) : a[i] = r[m] /\ i = IF m < k THEN m ELSE m + 1
  <2>1. CASE i < k
    <3>1. i \in 1..(k - 1) /\ i \in 1..Len(r)
        BY <1>1, <2>1
    <3> QED BY <1>1, <2>1, <3>1
  <2>2. CASE i > k
    <3>1. PICK m \in k..Len(r) : i = m + 1
        BY <1>1, <2>2
    <3>2. a[m + 1] = r[m] /\ m \in 1..Len(r) /\ ~(m < k)
        BY <1>1, <3>1
    <3> QED BY <3>1, <3>2
  <2> QED BY <1>1, <1>3, <2>1, <2>2
<1>4. Distinct(a)
  <2> SUFFICES ASSUME NEW i \in 1..Len(a), NEW j \in 1..Len(a), a[i] = a[j]
               PROVE  i = j
      BY DEF Distinct
  <2>1. CASE i = k
      BY <1>1, <1>2, <1>3, <2>1
  <2>2. CASE j = k
      BY <1>1, <1>2, <1>3, <2>2
  <2>3. CASE i # k /\ j # k
    <3>1. PICK m \in 1..Len(r) : a[i] = r[m] /\ i = IF m < k THEN m ELSE m + 1
        BY <1>3, <2>3
    <3>2. PICK n \in 1..Len(r) : a[j] = r[n] /\ j = IF n < k THEN n ELSE n + 1
        BY <1>3, <2>3
    <3>3. m = n
        BY <3>1, <3>2 DEF Distinct
    <3> QED BY <3>1, <3>2, <3>3
  <2> QED BY <2>1, <2>2, <2>3
<1>5. ASSUME NEW x \in ToSet(a) PROVE x \in ToSet(r) \union {t}
  <2>1. PICK i \in 1..Len(a) : a[i] = x
      BY <1>1, SetOfSeq
  <2>2. x = t \/ \E m \in 1..Len(r) : r[m] = x
      BY <1>1, <1>3, <2>1
  <2> QED BY <2>2, SetOfSeq
<1>6. t \in ToSet(a)
    BY <1>1, SetOfSeq
<1>7. ASSUME NEW x \in ToSet(r) PROVE x \in ToSet(a)
  <2>1. PICK m \in 1..Len(r) : r[m] = x
      BY SetOfSeq
  <2>2. CASE m < k
    <3>1. m \in 1..(k - 1) /\ m \in 1..Len(a)
        BY <1>1, <2>2
    <3>2. a[m] = x
        BY <1>1, <2>1, <3>1
    <3> QED BY <1>1, <3>1, <3>2, SetOfSeq
  <2>3. CASE ~(m < k)
    <3>1. m \in k..Len(r) /\ m + 1 \in 1..Len(a)
        BY <1>1, <2>3
    <3>2. a[m + 1] = x
        BY <1>1, <2>1, <3>1
    <3> QED BY <1>1, <3>1, <3>2, SetOfSeq
  <2> QED BY <2>2, <2>3
<1> QED BY <1>4, <1>5, <1>6, <1>7

LEMMA InsertedSorted ==
    ASSUME NEW a, NEW r \in Seq(Timers), NEW t \in Timers, NEW k \in 1..(Len(r) + 1),
           Inserted(a, r, k, t), NEW e, \A u \in Timers : e[u] \in Int, Sorted(r, e),
           \A i \in 1..(k - 1) : e[r[i]] <= e[t],
           \A i \in k..Len(r) : e[t] <= e[r[i]]
    PROVE  Sorted(a, e)
<1>1. /\ Len(r) \in Nat /\ a \in Seq(Timers) /\ Len(a) = Len(r) + 1 /\ a[k] = t
      /\ \A i \in 1..(k - 1) : a[i] = r[i]
      /\ \A i \in k..Len(r) : a[i + 1] = r[i]
    BY DEF Inserted
<1> SUFFICES ASSUME NEW i \in 1..Len(a), NEW j \in 1..Len(a), i < j
             PROVE  e[a[i]] <= e[a[j]]
    BY DEF Sorted
<1>2. ASSUME j < k PROVE e[a[i]] <= e[a[j]]
  <2>1. i \in 1..(k - 1) /\ j \in 1..(k - 1) /\ i \in 1..Len(r) /\ j \in 1..Len(r)
      BY <1>1, <1>2
  <2>2. a[i] = r[i] /\ a[j] = r[j]
      BY <1>1, <2>1
  <2>3. e[r[i]] <= e[r[j]]
      BY <2>1 DEF Sorted
  <2> QED BY <2>2, <2>3
<1>3. ASSUME j = k PROVE e[a[i]] <= e[a[j]]
  <2>1. i \in 1..(k - 1)
      BY <1>3
  <2>2. a[i] = r[i] /\ a[j] = t /\ e[r[i]] <= e[t]
      BY <1>1, <1>3, <2>1
  <2> QED BY <2>2
<1>4. ASSUME j > k PROVE e[a[i]] <= e[a[j]]
  <2>1. PICK n \in k..Len(r) : j = n + 1
      BY <1>1, <1>4
  <2>2. a[j] = r[n] /\ n \in 1..Len(r)
      BY <1>1, <2>1
  <2>3. ASSUME i < k PROVE e[a[i]] <= e[a[j]]
    <3>1. i \in 1..(k - 1) /\ i \in 1..Len(r) /\ i < n
        BY <1>1, <2>1, <2>3
    <3>2. a[i] = r[i]
        BY <1>1, <3>1
    <3>3. e[r[i]] <= e[r[n]]
        BY <2>2, <3>1 DEF Sorted
    <3> QED BY <2>2, <3>2, <3>3
  <2>4. ASSUME i = k PROVE e[a[i]] <= e[a[j]]
    <3>1. e[t] <= e[r[n]]
        BY <2>1
    <3> QED BY <1>1, <2>2, <2>4, <3>1
  <2>5. ASSUME i > k PROVE e[a[i]] <= e[a[j]]
    <3>1. PICK m \in k..Len(r) : i = m + 1
        BY <1>1, <2>5
    <3>2. a[i] = r[m] /\ m \in 1..Len(r) /\ m < n
        BY <1>1, <2>1, <3>1
    <3>3. e[r[m]] <= e[r[n]]
        BY <2>2, <3>2 DEF Sorted
    <3> QED BY <2>2, <3>2, <3>3
  <2> QED BY <2>3, <2>4, <2>5
<1> QED BY <1>2, <1>3, <1>4

\* What is unlinked from a sorted list leaves it sorted, whatever the unlinked timer's
\* expire_time becomes.
LEMMA UnlinkedSorted ==
    ASSUME NEW s \in Seq(Timers), Distinct(s), NEW t, NEW old, Sorted(s, old),
           NEW e, \A u \in Timers \ {t} : e[u] = old[u]
    PROVE  Sorted(Unlinked(s, t), e)
<1> DEFINE r == Unlinked(s, t)
<1>1. /\ r \in Seq(Timers) /\ ToSet(r) = ToSet(s) \ {t}
      /\ \A i, j \in 1..Len(r) : i < j =>
             \E k, l \in 1..Len(s) : k < l /\ s[k] = r[i] /\ s[l] = r[j]
    BY UnlinkedIs
<1> HIDE DEF r
<1>2. \A i \in 1..Len(r) : r[i] \in Timers \ {t}
    BY <1>1, SetOfSeq
<1> SUFFICES ASSUME NEW i \in 1..Len(r), NEW j \in 1..Len(r), i < j
             PROVE  e[r[i]] <= e[r[j]]
    BY DEF Sorted, r
<1>3. PICK k \in 1..Len(s), l \in 1..Len(s) : k < l /\ s[k] = r[i] /\ s[l] = r[j]
    BY <1>1
<1>4. old[s[k]] <= old[s[l]]
    BY <1>3 DEF Sorted
<1>5. e[r[i]] = old[r[i]] /\ e[r[j]] = old[r[j]]
    BY <1>2
<1> QED BY <1>3, <1>4, <1>5

\* __timer_attach puts t in front of the first timer that does not expire before it.
LEMMA AttachInserts ==
    ASSUME NEW s \in Seq(Timers), Distinct(s), NEW t \in Timers, NEW tm,
           \A u \in Timers : Expiry(tm)[u] \in Nat, Sorted(Unlinked(s, t), Expiry(tm))
    PROVE  \E k \in 1..(Len(Unlinked(s, t)) + 1) :
               /\ Inserted(Attach(s, tm, t), Unlinked(s, t), k, t)
               /\ \A i \in 1..(k - 1) : Expiry(tm)[Unlinked(s, t)[i]] <= Expiry(tm)[t]
               /\ \A i \in k..Len(Unlinked(s, t)) :
                      Expiry(tm)[t] <= Expiry(tm)[Unlinked(s, t)[i]]
<1> DEFINE r == Unlinked(s, t)
<1>1. r \in Seq(Timers)
    BY UnlinkedIs
<1>2. PICK e : e = Expiry(tm)
    OBVIOUS
<1>3. PICK I \in SUBSET Nat :
          I = {i \in 1..Len(r) : tm[r[i]].expire_time >= tm[t].expire_time}
  <2>1. Len(r) \in Nat
      BY <1>1
  <2> HIDE DEF r
  <2>2. {i \in 1..Len(r) : tm[r[i]].expire_time >= tm[t].expire_time} \subseteq 1..Len(r)
      OBVIOUS
  <2>3. 1..Len(r) \subseteq Nat
      BY <2>1
  <2> QED BY <2>2, <2>3
<1>4. Attach(s, tm, t) = LET pos == IF I # {} THEN Min(I) ELSE 0
                         IN  IF pos = 0 THEN Append(r, t) ELSE InsertAt(r, pos, t)
    BY <1>3 DEF Attach, SelectInSeq
<1>5. PICK a : a = Attach(s, tm, t)
    OBVIOUS
<1>6. Sorted(r, e) /\ e[t] = tm[t].expire_time
    BY <1>2 DEF Expiry
<1> HIDE DEF r
<1>7. Len(r) \in Nat /\ \A i \in 1..Len(r) : r[i] \in Timers
    BY <1>1
<1>8. \A i \in 1..Len(r) : e[r[i]] = tm[r[i]].expire_time /\ e[r[i]] \in Nat /\ e[t] \in Nat
    BY <1>2, <1>7 DEF Expiry
<1>9. \A i \in 1..Len(r) : i \in I <=> e[r[i]] >= e[t]
    BY <1>3, <1>6, <1>8
<1>10. CASE I = {}
  <2>1. a = Append(r, t)
      BY <1>4, <1>5, <1>10
  <2>2. /\ a \in Seq(Timers) /\ Len(a) = Len(r) + 1
        /\ a[Len(r) + 1] = t
        /\ \A i \in 1..Len(r) : a[i] = r[i]
      BY <1>1, <2>1, AppendProperties
  <2>3. PICK k \in 1..(Len(r) + 1) : k = Len(r) + 1
      BY <1>7
  <2>4. Inserted(a, r, k, t)
      BY <1>7, <2>2, <2>3 DEF Inserted
  <2>5. ASSUME NEW i \in 1..Len(r) PROVE e[r[i]] <= e[t]
      BY <1>8, <1>9, <1>10
  <2>6. \A i \in 1..(k - 1) : e[r[i]] <= e[t]
      BY <1>7, <2>3, <2>5
  <2>7. \A i \in k..Len(r) : e[t] <= e[r[i]]
      BY <1>7, <2>3
  <2> QED BY <1>2, <1>5, <2>4, <2>6, <2>7 DEF r
<1>11. CASE I # {}
  <2>1. PICK k \in I : k = Min(I) /\ \A j \in I : k <= j
      BY <1>11, HasMin
  <2>2. k \in 1..Len(r)
      BY <1>3, <2>1 DEF r
  <2>3. e[r[k]] >= e[t]
      BY <1>9, <2>1, <2>2
  <2>4. k # 0
      BY <2>2
  <2>5. a = InsertAt(r, k, t)
      BY <1>4, <1>5, <1>11, <2>1, <2>4
  <2>6. Inserted(a, r, k, t)
      BY <1>1, <2>2, <2>5, InsertAtIs
  <2>7. ASSUME NEW i \in 1..(k - 1) PROVE e[r[i]] <= e[t]
    <3>1. i \in 1..Len(r) /\ ~(k <= i)
        BY <1>7, <2>2
    <3> QED BY <1>8, <1>9, <2>1, <3>1
  <2>8. ASSUME NEW i \in k..Len(r) PROVE e[t] <= e[r[i]]
    <3>1. i \in 1..Len(r) /\ (i = k \/ k < i)
        BY <1>7, <2>2
    <3>2. k < i => e[r[k]] <= e[r[i]]
        BY <1>6, <2>2, <3>1 DEF Sorted
    <3> QED BY <1>8, <2>2, <2>3, <3>1, <3>2
  <2>9. k \in 1..(Len(r) + 1)
      BY <1>7, <2>2
  <2> QED BY <1>2, <1>5, <2>6, <2>7, <2>8, <2>9 DEF r
<1> QED BY <1>10, <1>11

\* It adds one node, unless t was linked already, and keeps the list sorted.
LEMMA AttachIs ==
    ASSUME NEW s \in Seq(Timers), Distinct(s), NEW t \in Timers, NEW tm,
           \A u \in Timers : Expiry(tm)[u] \in Nat, Sorted(Unlinked(s, t), Expiry(tm))
    PROVE  /\ Attach(s, tm, t) \in Seq(Timers) /\ Distinct(Attach(s, tm, t))
           /\ ToSet(Attach(s, tm, t)) = ToSet(s) \union {t}
           /\ Len(Attach(s, tm, t)) = IF t \in ToSet(s) THEN Len(s) ELSE Len(s) + 1
           /\ Sorted(Attach(s, tm, t), Expiry(tm))
<1>1. PICK r \in Seq(Timers) :
          /\ r = Unlinked(s, t) /\ Distinct(r) /\ ToSet(r) = ToSet(s) \ {t}
          /\ Len(r) = IF t \in ToSet(s) THEN Len(s) - 1 ELSE Len(s)
    BY UnlinkedIs
<1>2. PICK a, e : a = Attach(s, tm, t) /\ e = Expiry(tm)
    OBVIOUS
<1>3. PICK k \in 1..(Len(r) + 1) :
          /\ Inserted(a, r, k, t)
          /\ \A i \in 1..(k - 1) : e[r[i]] <= e[t]
          /\ \A i \in k..Len(r) : e[t] <= e[r[i]]
  <2>1. \E k \in 1..(Len(Unlinked(s, t)) + 1) :
            /\ Inserted(Attach(s, tm, t), Unlinked(s, t), k, t)
            /\ \A i \in 1..(k - 1) : Expiry(tm)[Unlinked(s, t)[i]] <= Expiry(tm)[t]
            /\ \A i \in k..Len(Unlinked(s, t)) :
                   Expiry(tm)[t] <= Expiry(tm)[Unlinked(s, t)[i]]
      BY AttachInserts
  <2> QED BY <1>1, <1>2, <2>1, Zenon
<1>4. Distinct(a) /\ ToSet(a) = ToSet(r) \union {t}
    BY <1>1, <1>3, InsertedList
<1>5. (\A u \in Timers : e[u] \in Int) /\ Sorted(r, e)
    BY <1>1, <1>2
<1>6. Sorted(a, e)
    BY <1>3, <1>5, InsertedSorted
<1>7. a \in Seq(Timers) /\ Len(a) = Len(r) + 1
    BY <1>3 DEF Inserted
<1>8. Len(s) \in Nat
    OBVIOUS
<1>9. Len(a) = IF t \in ToSet(s) THEN Len(s) ELSE Len(s) + 1
    BY <1>1, <1>7, <1>8
<1> QED BY <1>1, <1>2, <1>4, <1>6, <1>7, <1>9

\* A triggered timer becomes the head of the list.
LEMMA PushIs ==
    ASSUME NEW r \in Seq(Timers), Distinct(r), NEW t \in Timers, t \notin ToSet(r),
           NEW e, \A u \in Timers : e[u] \in Nat, e[t] = 0, Sorted(r, e)
    PROVE  /\ <<t>> \o r \in Seq(Timers) /\ Distinct(<<t>> \o r)
           /\ ToSet(<<t>> \o r) = ToSet(r) \union {t}
           /\ Len(<<t>> \o r) = Len(r) + 1
           /\ Sorted(<<t>> \o r, e)
<1>1. Len(r) \in Nat /\ \A i \in 1..Len(r) : r[i] \in Timers
    OBVIOUS
<1>2. PICK o : o = <<t>> /\ o \in Seq(Timers) /\ Len(o) = 1 /\ o[1] = t
  <2>1. <<t>> \in Seq(Timers) /\ Len(<<t>>) = 1 /\ <<t>>[1] = t
      OBVIOUS
  <2> QED BY <2>1, Zenon
<1>3. /\ o \o r \in Seq(Timers) /\ Len(o \o r) = Len(o) + Len(r)
      /\ \A i \in 1..(Len(o) + Len(r)) :
             (o \o r)[i] = IF i <= Len(o) THEN o[i] ELSE r[i - Len(o)]
    BY <1>2, ConcatProperties
<1>4. PICK a : a = o \o r
    OBVIOUS
<1>5. a \in Seq(Timers) /\ Len(a) = Len(r) + 1 /\ a[1] = t
    BY <1>1, <1>2, <1>3, <1>4
<1>6. ASSUME NEW i \in 1..Len(r) PROVE a[i + 1] = r[i]
  <2>1. PICK j \in 1..(Len(o) + Len(r)) : j = i + 1
      BY <1>1, <1>2
  <2>2. (o \o r)[j] = IF j <= Len(o) THEN o[j] ELSE r[j - Len(o)]
      BY <1>3
  <2>3. ~(j <= Len(o)) /\ j - Len(o) = i
      BY <1>2, <2>1
  <2> QED BY <1>4, <2>1, <2>2, <2>3
<1>7. PICK k \in 1..(Len(r) + 1) : k = 1
    BY <1>1
<1>8. Inserted(a, r, k, t)
    BY <1>5, <1>6, <1>7 DEF Inserted
<1>9. Distinct(a) /\ ToSet(a) = ToSet(r) \union {t}
    BY <1>8, InsertedList
<1>10. \A i \in k..Len(r) : e[t] <= e[r[i]]
    BY <1>1, <1>7
<1>11. \A i \in 1..(k - 1) : e[r[i]] <= e[t]
    BY <1>7
<1>12. \A u \in Timers : e[u] \in Int
    OBVIOUS
<1>13. Sorted(a, e)
    BY <1>8, <1>10, <1>11, <1>12, InsertedSorted
<1> QED BY <1>2, <1>4, <1>5, <1>9, <1>13

\* The dispatched one-shot timer leaves the head of the list.
LEMMA TailIs ==
    ASSUME NEW s \in Seq(Timers), Distinct(s), s # <<>>
    PROVE  /\ Tail(s) \in Seq(Timers) /\ Distinct(Tail(s))
           /\ Head(s) \in ToSet(s) /\ ToSet(Tail(s)) = ToSet(s) \ {Head(s)}
           /\ Len(s) > 0 /\ Len(Tail(s)) = Len(s) - 1
           /\ \A e : Sorted(s, e) => Sorted(Tail(s), e)
<1>1. PICK r : r = Tail(s)
    OBVIOUS
<1>2. /\ Len(s) \in Nat /\ Len(s) > 0 /\ r \in Seq(Timers) /\ Len(r) = Len(s) - 1
      /\ Head(s) = s[1] /\ \A i \in 1..(Len(s) - 1) : r[i] = s[i + 1]
    BY <1>1
<1>3. ASSUME NEW i \in 1..Len(r) PROVE i + 1 \in 1..Len(s) /\ i + 1 # 1 /\ r[i] = s[i + 1]
    BY <1>2
<1>4. Distinct(r)
  <2> SUFFICES ASSUME NEW i \in 1..Len(r), NEW j \in 1..Len(r), r[i] = r[j] PROVE i = j
      BY DEF Distinct
  <2>1. i + 1 = j + 1
      BY <1>3 DEF Distinct
  <2> QED BY <2>1
<1>5. ASSUME NEW e, Sorted(s, e) PROVE Sorted(r, e)
  <2> SUFFICES ASSUME NEW i \in 1..Len(r), NEW j \in 1..Len(r), i < j
               PROVE  e[r[i]] <= e[r[j]]
      BY DEF Sorted
  <2>1. e[s[i + 1]] <= e[s[j + 1]]
      BY <1>3, <1>5 DEF Sorted
  <2> QED BY <1>3, <2>1
<1>6. Head(s) \in ToSet(s)
    BY <1>2, SetOfSeq
<1>7. ASSUME NEW x \in ToSet(r) PROVE x \in ToSet(s) \ {Head(s)}
  <2>1. PICK i \in 1..Len(r) : r[i] = x
      BY <1>2, SetOfSeq
  <2>2. i + 1 \in 1..Len(s) /\ s[i + 1] = x /\ 1 \in 1..Len(s) /\ i + 1 # 1
      BY <1>2, <1>3, <2>1
  <2>3. x # s[1]
      BY <2>2 DEF Distinct
  <2> QED BY <1>2, <2>2, <2>3, SetOfSeq
<1>8. ASSUME NEW x \in ToSet(s) \ {Head(s)} PROVE x \in ToSet(r)
  <2>1. PICK i \in 1..Len(s) : s[i] = x
      BY SetOfSeq
  <2>2. i # 1
      BY <1>2, <2>1
  <2>3. PICK j \in 1..(Len(s) - 1) : j + 1 = i
      BY <1>2, <2>2
  <2>4. j \in 1..Len(r) /\ r[j] = x
      BY <1>2, <2>1, <2>3
  <2> QED BY <1>2, <2>4, SetOfSeq
<1>9. ToSet(r) = ToSet(s) \ {Head(s)}
    BY <1>7, <1>8
<1> QED BY <1>1, <1>2, <1>4, <1>5, <1>6, <1>9

LEMMA CardSeq ==
    ASSUME NEW T, NEW s \in Seq(T), Distinct(s)
    PROVE  Cardinality(ToSet(s)) = Len(s)
<1>1. Len(s) \in Nat /\ s \in [1..Len(s) -> ToSet(s)]
    BY SetOfSeq
<1>2. s \in Bijection(1..Len(s), ToSet(s))
    BY <1>1, SetOfSeq DEF Bijection, Injection, Surjection, IsInjective, Distinct
<1> QED BY <1>1, <1>2, FS_CountingElements DEF ExistsBijection

------------------------------------------------------------------------------
(* Calls and lists. *)
LEMMA RecFacts ==
    ASSUME NEW r \in CallRec
    PROVE  /\ r.op \in {"idle", "start", "post", "free"}
           /\ r.op = "idle" <=> r = Idle
           /\ r = Idle => r.t = NoTimer
           /\ r.op # "idle" => r.t \in Timers
           /\ r.op = "start" => r.at \in Nat /\ r.ms \in Nat /\ r.type \in Types
<1> USE SwTimerAssumption
<1>1. CASE r = Idle
    BY <1>1 DEF Idle
<1>2. CASE r \in [op : {"post", "free"}, t : Timers]
    BY <1>2 DEF Idle
<1>3. CASE r \in [op : {"start"}, t : Timers, at : 0..MaxTime, ms : Intervals \union {0},
                        type : Types]
  <2>1. /\ r.op = "start" /\ r.t \in Timers /\ r.at \in 0..MaxTime
        /\ r.ms \in Intervals \union {0} /\ r.type \in Types
      BY <1>3
  <2>2. r # Idle
      BY <2>1 DEF Idle
  <2>3. 0..MaxTime \subseteq Nat
      OBVIOUS
  <2>4. Intervals \union {0} \subseteq Nat
      OBVIOUS
  <2> QED BY <2>1, <2>2, <2>3, <2>4, Zenon
<1> QED BY <1>1, <1>2, <1>3 DEF CallRec

LEMMA CallFacts ==
    ASSUME CallInv, NEW c \in Callers
    PROVE  /\ call[c] \in CallRec
           /\ call[c].op \in {"idle", "start", "post", "free"}
           /\ call[c].op = "idle" <=> call[c] = Idle
           /\ call[c] = Idle => call[c].t = NoTimer
           /\ call[c].op # "idle" => call[c].t \in Timers
           /\ call[c].op = "start" => /\ call[c].at \in Nat /\ call[c].ms \in Nat
                                      /\ call[c].type \in Types
<1>1. call[c] \in CallRec
    BY DEF CallInv
<1> QED BY <1>1, RecFacts

\* A call that does not begin or end a deletion changes nothing of what is linked.
LEMMA LinkedSame ==
    ASSUME CallInv, NEW c \in Callers, NEW p, p.op # "free", call[c].op # "free",
           call' = [call EXCEPT ![c] = p],
           \A t \in Timers : timer'[t].alive = timer[t].alive
    PROVE  (\A t : Freeing(t)' <=> Freeing(t)) /\ Linked' = Linked
<1>1. \A d \in Callers : call'[d] = IF d = c THEN p ELSE call[d]
    BY DEF CallInv
<1>2. \A t : Freeing(t)' <=> Freeing(t)
    BY <1>1 DEF Freeing
<1> QED BY <1>2 DEF Linked

LEMMA ListKept ==
    ASSUME ListInv, Linked' = Linked,
           UNCHANGED <<list_active, list_standby, running_cnt, total_cnt>>,
           \A t \in Linked : timer'[t].is_running = timer[t].is_running
    PROVE  ListInv'
BY DEF ListInv

\* Distinct timers on the active list: its length is its number of timers.
LEMMA HeadIsLinked ==
    ASSUME TypeOK, ListInv, list_active # <<>>
    PROVE  /\ Head(list_active) \in Timers /\ Head(list_active) \in ToSet(list_active)
           /\ Head(list_active) \in Linked /\ timer[Head(list_active)].alive
<1>1. list_active \in Seq(Timers) /\ Distinct(list_active)
    BY DEF TypeOK, ListInv
<1>2. Head(list_active) \in ToSet(list_active)
    BY <1>1, TailIs
<1> QED BY <1>2 DEF ListInv, Linked

\* The steps of sys_timer and of the clock that touch no timer, list or call.
Quiet == Tick \/ WaitReturns \/ DispatchReadTime \/ DispatchNothingDue \/ CallbackEnter \/ CallbackReturn

LEMMA QuietTypes ==
    ASSUME TypeOK, ListInv, Quiet
    PROVE  TypeOK'
<1> USE SwTimerAssumption
<1>1. CASE Tick
    BY <1>1 DEF Tick, TypeOK
<1>2. CASE WaitReturns
  <2>1. sem' \in 0..SemMax
      BY <1>2 DEF WaitReturns, TypeOK, SemMax
  <2>2. 0 \in 0..MaxTime /\ MaxTime \in 0..MaxTime
      OBVIOUS
  <2>3. thr' \in ThrRec
      BY <1>2, <2>2 DEF WaitReturns, TypeOK, ThrRec
  <2> QED BY <1>2, <2>1, <2>3 DEF WaitReturns, TypeOK, ThrRec
<1>3. CASE DispatchReadTime
    BY <1>3 DEF DispatchReadTime, TypeOK
<1>4. CASE DispatchNothingDue
  <2>1. ASSUME NEW n \in Nat \union {Forever}, Sleep(n) PROVE thr' \in ThrRec
    <3> DEFINE w == IF n # Forever /\ now + n < MaxTime THEN now + n ELSE MaxTime
    <3>1. w \in 0..MaxTime
        BY DEF TypeOK
    <3>2. thr' = [thr EXCEPT !.pc = "wait", !.next_expired = n, !.wakeAt = w]
        BY <2>1 DEF Sleep
    <3> HIDE DEF w
    <3> QED BY <3>1, <3>2 DEF TypeOK, ThrRec
  <2>2. ASSUME list_active # <<>>, timer[Head(list_active)].expire_time > thr.nowMS
        PROVE  timer[Head(list_active)].expire_time - thr.nowMS \in Nat
      BY <2>2, HeadIsLinked DEF TypeOK
  <2>3. thr.next_expired \in Nat \union {Forever}
      BY DEF TypeOK
  <2>4. thr' \in ThrRec
      BY <1>4, <2>1, <2>2, <2>3 DEF DispatchNothingDue
  <2> QED BY <1>4, <2>4 DEF DispatchNothingDue, TypeOK, ThrRec
<1>5. CASE CallbackEnter
    BY <1>5 DEF CallbackEnter, TypeOK
<1>6. CASE CallbackReturn
  <2>1. 0 \in 0..MaxTime
      OBVIOUS
  <2>2. thr' \in ThrRec
      BY <1>6, <2>1 DEF CallbackReturn, TypeOK, ThrRec
  <2> QED BY <1>6, <2>2 DEF CallbackReturn, TypeOK, ThrRec
<1> QED BY <1>1, <1>2, <1>3, <1>4, <1>5, <1>6 DEF Quiet

LEMMA QuietKeeps ==
    ASSUME SwInv, Quiet
    PROVE  SwInv'
<1> USE SwTimerAssumption
<1>1. TypeOK /\ CallInv /\ ListInv
    BY DEF SwInv
<1>2. UNCHANGED <<timer, list_active, list_standby, total_cnt, running_cnt, call>>
    BY DEF Quiet, Tick, WaitReturns, DispatchReadTime, DispatchNothingDue, CallbackEnter,
           CallbackReturn
<1>3. TypeOK'
    BY <1>1, QuietTypes
<1>4. thr.pc = "callback" /\ thr'.pc # "callback" => call[TimerThread] = Idle
    BY <1>1 DEF Quiet, Tick, WaitReturns, DispatchReadTime, DispatchNothingDue, CallbackEnter,
           CallbackReturn
<1>5. CallInv'
    BY <1>1, <1>2, <1>4 DEF CallInv
<1>6. ListInv'
  <2>1. Linked' = Linked
      BY <1>2 DEF Linked, Freeing
  <2> QED BY <1>1, <1>2, <2>1, ListKept
<1>7. Sorted(list_active, Expiry(timer))'
    BY <1>2 DEF SwInv, Sorted, Expiry
<1>8. NoOversleep'
  <2>1. CASE Tick
      BY <2>1 DEF SwInv, Tick, NoOversleep
  <2>2. CASE WaitReturns
      BY <1>1, <2>2 DEF WaitReturns, NoOversleep, TypeOK
  <2>3. CASE DispatchReadTime
      BY <1>1, <2>3 DEF DispatchReadTime, NoOversleep, TypeOK
  <2>4. CASE DispatchNothingDue
    <3>1. CASE list_active = <<>>
        BY <1>2, <3>1 DEF NoOversleep
    <3>2. CASE list_active # <<>>
      <4> DEFINE h == timer[Head(list_active)].expire_time
      <4>1. h > thr.nowMS /\ Sleep(h - thr.nowMS)
          BY <2>4, <3>2 DEF DispatchNothingDue
      <4>2. h \in Nat /\ thr.nowMS \in Nat
          BY <1>1, <3>2, HeadIsLinked DEF TypeOK
      <4>3. thr'.nowMS = thr.nowMS /\ thr'.next_expired = h - thr.nowMS
          BY <1>1, <4>1 DEF Sleep, TypeOK
      <4>4. timer[Head(list_active)]'.expire_time = h
          BY <1>2
      <4> HIDE DEF h
      <4>5. thr'.next_expired # Forever /\ thr'.nowMS + thr'.next_expired <= h
          BY <4>1, <4>2, <4>3
      <4> QED BY <1>2, <4>4, <4>5 DEF NoOversleep
    <3> QED BY <3>1, <3>2
  <2>5. CASE CallbackEnter
      BY <1>1, <2>5 DEF CallbackEnter, NoOversleep, TypeOK
  <2>6. CASE CallbackReturn
      BY <1>1, <2>6 DEF CallbackReturn, NoOversleep, TypeOK
  <2> QED BY <2>1, <2>2, <2>3, <2>4, <2>5, <2>6 DEF Quiet
<1>9. CallbackOnLiveTimer'
    BY <1>1, <1>2 DEF SwInv, CallbackOnLiveTimer, Quiet, Tick, WaitReturns, DispatchReadTime,
           DispatchNothingDue, Sleep, CallbackEnter, CallbackReturn, TypeOK
<1> QED BY <1>3, <1>5, <1>6, <1>7, <1>8, <1>9 DEF SwInv

------------------------------------------------------------------------------
(* The API. *)
LEMMA CallStep ==
    ASSUME CallInv, NEW c \in Callers, NEW p \in CallRec, call' = [call EXCEPT ![c] = p],
           p # Idle => /\ timer'[p.t].alive
                       /\ \A d \in Callers \ {c} : call[d].op = "free" => call[d].t # p.t,
           p.op = "free" => /\ \A d \in Callers \ {c} : call[d].t # p.t
                            /\ p.t \in OwnedByCallback => c = TimerThread,
           \A d \in Callers \ {c} : call[d].op # "idle" => timer'[call[d].t].alive,
           UNCHANGED thr, c = TimerThread => thr.pc = "callback" \/ p = Idle
    PROVE  CallInv'
<1>1. call \in [Callers -> CallRec]
    BY DEF CallInv
<1>2. call' \in [Callers -> CallRec] /\ \A d \in Callers : call'[d] = IF d = c THEN p ELSE call[d]
    BY <1>1
<1>3. ASSUME NEW d \in Callers, call'[d].op # "idle" PROVE timer'[call'[d].t].alive
  <2>1. Idle.op = "idle"
      BY DEF Idle
  <2> QED BY <1>2, <1>3, <2>1
<1>4. ASSUME NEW a \in Callers, NEW d \in Callers, call'[a].op = "free", call'[d].t = call'[a].t
      PROVE  a = d
  <2>1. CASE a = c
      BY <1>2, <1>4, <2>1
  <2>2. CASE a # c /\ d # c
      BY <1>2, <1>4, <2>2 DEF CallInv
  <2>3. CASE a # c /\ d = c
    <3>1. call[a].op = "free" /\ call[a].t \in Timers /\ p.t = call[a].t
        BY <1>2, <1>4, <2>3, CallFacts
    <3>2. p # Idle
        BY <3>1, SwTimerAssumption DEF Idle
    <3> QED BY <2>3, <3>1, <3>2
  <2> QED BY <2>1, <2>2, <2>3
<1>5. ASSUME NEW d \in Callers, call'[d].op = "free", call'[d].t \in OwnedByCallback
      PROVE  d = TimerThread
    BY <1>2, <1>5 DEF CallInv
<1>6. thr'.pc # "callback" => call'[TimerThread] = Idle
  <2>1. TimerThread \in Callers
      BY DEF Callers
  <2> QED BY <1>2, <2>1 DEF CallInv
<1> QED BY <1>2, <1>3, <1>4, <1>5, <1>6 DEF CallInv

\* A call under way that will post keeps the dispatch thread from oversleeping.
LEMMA PostPending ==
    ASSUME NEW c \in Callers, call'[c].op \in {"post", "free"}
    PROVE  NoOversleep'
BY DEF NoOversleep

LEMMA ReadyFacts ==
    ASSUME CallInv, NEW c \in Callers, Ready(c)
    PROVE  /\ call[c].op = "idle" /\ call[c].t = NoTimer
           /\ c = TimerThread => thr.pc = "callback"
BY CallFacts DEF Ready, Idle

LEMMA OpsType ==
    ASSUME TypeOK, NEW c \in Callers, Ready(c), ops' = ops + 1
    PROVE  ops' \in 0..MaxOps
<1>1. ops \in 0..MaxOps /\ ops < MaxOps
    BY DEF TypeOK, Ready
<1> QED BY <1>1, SwTimerAssumption

LEMMA CallTypes ==
    ASSUME CallInv'
    PROVE  \A c \in Callers : /\ call'[c].op \in {"idle", "start", "post", "free"}
                              /\ call'[c].t \in Timers \cup {NoTimer}
<1>1. ASSUME NEW c \in Callers PROVE call'[c] \in CallRec
    BY DEF CallInv
<1> QED BY <1>1, RecFacts

LEMMA CreateKeeps ==
    ASSUME SwInv, NEW c \in Callers, NEW t \in Timers, tal_sw_timer_create(c, t)
    PROVE  SwInv'
<1>1. TypeOK /\ CallInv /\ ListInv
    BY DEF SwInv
<1>2. /\ timer' = [timer EXCEPT ![t] = [Calloc EXCEPT !.alive = TRUE]] /\ ~timer[t].alive
      /\ total_cnt' = total_cnt + 1 /\ list_standby' = list_standby \union {t}
      /\ UNCHANGED <<now, list_active, running_cnt, sem, thr, call, ops>>
    BY DEF tal_sw_timer_create
<1>3. /\ timer' \in [Timers -> TimerRec]
      /\ timer'[t].alive /\ timer'[t].is_running = FALSE
      /\ \A u \in Timers \ {t} : timer'[u] = timer[u]
    BY <1>1, <1>2 DEF TypeOK, TimerRec, Calloc, Types
<1>4. \A d \in Callers : call[d].t # t
  <2> SUFFICES ASSUME NEW d \in Callers, call[d].t = t PROVE FALSE
      OBVIOUS
  <2>1. call[d].op = "idle"
      BY <1>1, <1>2 DEF CallInv
  <2> QED BY <1>1, <2>1, CallFacts, SwTimerAssumption
<1>5. CallInv'
  <2>1. ASSUME NEW d \in Callers, call[d].op # "idle" PROVE timer'[call[d].t].alive
      BY <1>1, <1>3, <1>4, <2>1, CallFacts DEF CallInv
  <2> QED BY <1>1, <1>2, <2>1 DEF CallInv
<1>6. t \notin Linked /\ Linked' = Linked \union {t}
  <2>1. \A u : Freeing(u)' <=> Freeing(u)
      BY <1>2 DEF Freeing
  <2>2. ~Freeing(t)
      BY <1>4 DEF Freeing
  <2> QED BY <1>2, <1>3, <2>1, <2>2 DEF Linked
<1>7. ListInv'
  <2>1. t \notin ToSet(list_active)
      BY <1>1, <1>6 DEF ListInv
  <2>2. IsFiniteSet(Linked') /\ Cardinality(Linked') = Cardinality(Linked) + 1
      BY <1>1, <1>6, FS_AddElement DEF ListInv
  <2>3. \A u \in Linked' : timer'[u].is_running <=> u \in ToSet(list_active')
    <3>1. ASSUME NEW u \in Linked, u # t PROVE timer'[u].is_running <=> u \in ToSet(list_active)
        BY <1>1, <1>3, <3>1 DEF ListInv, Linked
    <3> QED BY <1>2, <1>3, <1>6, <2>1, <3>1
  <2>4. ToSet(list_active') \intersect list_standby' = {}
      BY <1>1, <1>2, <2>1 DEF ListInv
  <2>5. ToSet(list_active') \union list_standby' = Linked'
      BY <1>1, <1>2, <1>6 DEF ListInv
  <2> QED BY <1>1, <1>2, <2>2, <2>3, <2>4, <2>5 DEF ListInv
<1>8. Sorted(list_active, Expiry(timer))'
  <2>1. \A k \in 1..Len(list_active) : list_active[k] \in Timers \ {t}
      BY <1>1, <1>6, SetOfSeq DEF ListInv, TypeOK
  <2>2. \A k \in 1..Len(list_active) :
            Expiry(timer')[list_active[k]] = Expiry(timer)[list_active[k]]
      BY <1>3, <2>1 DEF Expiry
  <2> QED BY <1>2, <2>2 DEF SwInv, Sorted
<1>9. NoOversleep'
  <2>1. list_active # <<>> => timer'[Head(list_active)] = timer[Head(list_active)]
      BY <1>1, <1>3, <1>6, HeadIsLinked
  <2> QED BY <1>2, <2>1 DEF SwInv, NoOversleep
<1>10. CallbackOnLiveTimer'
    BY <1>2, <1>3, SwTimerAssumption DEF SwInv, CallbackOnLiveTimer
<1>11. TypeOK'
  <2>1. total_cnt' \in Nat /\ list_standby' \subseteq Timers
      BY <1>1, <1>2 DEF TypeOK
  <2> QED BY <1>1, <1>2, <1>3, <1>5, <2>1, CallTypes DEF TypeOK, TimerRec
<1> QED BY <1>5, <1>7, <1>8, <1>9, <1>10, <1>11 DEF SwInv

LEMMA StartReadTimeKeeps ==
    ASSUME SwInv, NEW c \in Callers, NEW t \in Timers, NEW ms \in Intervals \union {0},
           NEW type \in Types, StartReadTime(c, t, ms, type)
    PROVE  SwInv'
<1> DEFINE p == [op |-> "start", t |-> t, at |-> now, ms |-> ms, type |-> type]
<1>1. TypeOK /\ CallInv /\ ListInv
    BY DEF SwInv
<1>2. /\ Ready(c) /\ Usable(t) /\ call' = [call EXCEPT ![c] = p] /\ ops' = ops + 1
      /\ UNCHANGED <<now, timer, list_active, list_standby, total_cnt, running_cnt, sem, thr>>
    BY DEF StartReadTime, Begin
<1>3. p \in CallRec /\ p.op = "start" /\ p.t = t
    BY <1>1 DEF CallRec, TypeOK
<1> HIDE DEF p
<1>4. CallInv'
  <2>1. \A d \in Callers : call[d].op # "idle" => timer'[call[d].t].alive
      BY <1>1, <1>2 DEF CallInv
  <2> QED BY <1>1, <1>2, <1>3, <2>1, CallStep, ReadyFacts DEF Usable
<1>5. ListInv'
  <2>1. Linked' = Linked
      BY <1>1, <1>2, <1>3, LinkedSame, ReadyFacts
  <2> QED BY <1>1, <1>2, <2>1, ListKept
<1>6. Sorted(list_active, Expiry(timer))'
    BY <1>2 DEF SwInv, Sorted, Expiry
<1>7. NoOversleep'
  <2>1. \A d \in Callers : call'[d].op \notin {"post", "free"} => call[d].op \notin {"post", "free"}
      BY <1>1, <1>2, ReadyFacts DEF CallInv
  <2> QED BY <1>2, <2>1 DEF SwInv, NoOversleep
<1>8. CallbackOnLiveTimer'
    BY <1>2 DEF SwInv, CallbackOnLiveTimer
<1>9. TypeOK'
  <2>1. ops' \in 0..MaxOps
      BY <1>1, <1>2, OpsType
  <2> QED BY <1>1, <1>2, <1>4, <2>1, CallTypes DEF TypeOK
<1> QED BY <1>4, <1>5, <1>6, <1>7, <1>8, <1>9 DEF SwInv

LEMMA PostRec ==
    ASSUME NEW t \in Timers, NEW op \in {"post", "free"}
    PROVE  LET p == [op |-> op, t |-> t]
           IN  p \in CallRec /\ p.op = op /\ p.t = t /\ p # Idle
BY DEF CallRec, Idle

LEMMA StartKeeps ==
    ASSUME SwInv, NEW c \in Callers, tal_sw_timer_start(c)
    PROVE  SwInv'
<1>1. TypeOK /\ CallInv /\ ListInv /\ Sorted(list_active, Expiry(timer))
    BY DEF SwInv
<1>2. PICK t \in Timers : t = call[c].t /\ call[c].op = "start" /\ timer[t].alive
    BY <1>1, CallFacts DEF tal_sw_timer_start, CallInv
<1>3. PICK interval \in Nat :
          interval = IF call[c].ms # 0 THEN call[c].ms ELSE timer[t].interval
    BY <1>1, <1>2, CallFacts DEF TypeOK
<1>4. PICK x \in Nat : x = call[c].at + interval
    BY <1>1, <1>2, CallFacts
<1>5. /\ timer' = [timer EXCEPT ![t] = [@ EXCEPT
                     !.is_running = TRUE, !.interval = interval,
                     !.type = call[c].type, !.expire_time = x]]
      /\ running_cnt' = running_cnt + IF timer[t].is_running THEN 0 ELSE 1
      /\ list_active' = Attach(list_active, timer', t)
      /\ list_standby' = list_standby \ {t}
      /\ call' = [call EXCEPT ![c] = [op |-> "post", t |-> t]]
      /\ UNCHANGED <<now, total_cnt, sem, thr, ops>>
    BY <1>2, <1>3, <1>4 DEF tal_sw_timer_start
<1>6. call[c].type \in Types
    BY <1>1, <1>2, CallFacts
<1>7. /\ timer' \in [Timers -> TimerRec]
      /\ timer'[t].is_running = TRUE
      /\ \A u \in Timers : timer'[u].alive = timer[u].alive
      /\ \A u \in Timers \ {t} : timer'[u] = timer[u]
  <2>1. timer \in [Timers -> TimerRec]
      BY <1>1 DEF TypeOK, TimerRec
  <2> QED BY <1>5, <1>6, <2>1 DEF TimerRec
<1>8. ~Freeing(t) /\ t \in Linked
    BY <1>1, <1>2 DEF Freeing, CallInv, Linked
<1>9. CallInv'
  <2>1. \A d \in Callers : call[d].op # "idle" => timer'[call[d].t].alive
      BY <1>1, <1>7, CallFacts DEF CallInv
  <2>2. c = TimerThread => thr.pc = "callback"
      BY <1>1, <1>2 DEF CallInv, Idle
  <2>3. \A d \in Callers : call[d].op = "free" => call[d].t # t
      BY <1>8 DEF Freeing
  <2>4. PICK p \in CallRec : p = [op |-> "post", t |-> t] /\ p.op = "post" /\ p.t = t /\ p # Idle
      BY PostRec
  <2>5. call' = [call EXCEPT ![c] = p] /\ p.op # "free" /\ timer'[p.t].alive
      BY <1>2, <1>5, <1>7, <2>4
  <2> QED BY <1>1, <1>5, <2>1, <2>2, <2>3, <2>4, <2>5, CallStep
<1>10. Linked' = Linked
    BY <1>1, <1>2, <1>5, <1>7, LinkedSame
<1>11. /\ list_active' \in Seq(Timers) /\ Distinct(list_active')
       /\ ToSet(list_active') = ToSet(list_active) \union {t}
       /\ Len(list_active') = IF t \in ToSet(list_active) THEN Len(list_active)
                              ELSE Len(list_active) + 1
       /\ Sorted(list_active', Expiry(timer'))
  <2>1. \A u \in Timers \ {t} : Expiry(timer')[u] = Expiry(timer)[u]
      BY <1>7 DEF Expiry
  <2>2. \A u \in Timers : Expiry(timer')[u] \in Nat
      BY <1>7 DEF Expiry, TimerRec
  <2>3. list_active \in Seq(Timers) /\ Distinct(list_active)
      BY <1>1 DEF TypeOK, ListInv
  <2>4. Sorted(Unlinked(list_active, t), Expiry(timer'))
      BY <1>1, <2>1, <2>3, UnlinkedSorted
  <2> QED BY <1>5, <2>2, <2>3, <2>4, AttachIs
<1>12. ListInv'
  <2>1. timer[t].is_running <=> t \in ToSet(list_active)
      BY <1>1, <1>8 DEF ListInv
  <2>2. Len(list_active) \in Nat
      BY <1>1 DEF TypeOK
  <2>3. running_cnt' = Len(list_active')
    <3>1. running_cnt = Len(list_active)
        BY <1>1 DEF ListInv
    <3>2. CASE t \in ToSet(list_active)
        BY <1>5, <1>11, <2>1, <2>2, <3>1, <3>2
    <3>3. CASE t \notin ToSet(list_active)
        BY <1>5, <1>11, <2>1, <2>2, <3>1, <3>3
    <3> QED BY <3>2, <3>3
  <2>4. \A u \in Linked' : timer'[u].is_running <=> u \in ToSet(list_active')
    <3>1. ASSUME NEW u \in Linked, u # t PROVE timer'[u].is_running <=> u \in ToSet(list_active)
        BY <1>1, <1>7, <3>1 DEF ListInv, Linked
    <3> QED BY <1>7, <1>10, <1>11, <3>1
  <2>5. ToSet(list_active') \intersect list_standby' = {}
      BY <1>1, <1>5, <1>11 DEF ListInv
  <2>6. ToSet(list_active') \union list_standby' = Linked'
      BY <1>1, <1>5, <1>8, <1>10, <1>11 DEF ListInv
  <2> QED BY <1>1, <1>5, <1>10, <1>11, <2>3, <2>4, <2>5, <2>6 DEF ListInv
<1>13. NoOversleep'
  <2>1. call'[c].op = "post"
      BY <1>1, <1>5 DEF CallInv
  <2> QED BY <2>1, PostPending
<1>14. CallbackOnLiveTimer'
    BY <1>5, <1>7, SwTimerAssumption DEF SwInv, CallbackOnLiveTimer
<1>15. TypeOK'
  <2>1. running_cnt' \in Nat /\ list_standby' \subseteq Timers
      BY <1>1, <1>5 DEF TypeOK
  <2> QED BY <1>1, <1>5, <1>7, <1>9, <1>11, <2>1, CallTypes DEF TypeOK, TimerRec
<1> QED BY <1>9, <1>11, <1>12, <1>13, <1>14, <1>15 DEF SwInv

LEMMA StopKeeps ==
    ASSUME SwInv, NEW c \in Callers, NEW t \in Timers, tal_sw_timer_stop(c, t)
    PROVE  SwInv'
<1>1. TypeOK /\ CallInv /\ ListInv /\ Sorted(list_active, Expiry(timer))
    BY DEF SwInv
<1>2. /\ Ready(c) /\ Usable(t) /\ ops' = ops + 1
      /\ call' = [call EXCEPT ![c] = [op |-> "post", t |-> t]]
      /\ UNCHANGED <<now, total_cnt, sem, thr>>
    BY DEF tal_sw_timer_stop, Begin
<1>3. ~Freeing(t) /\ t \in Linked
    BY <1>2 DEF Freeing, Usable, Linked
<1>4. timer[t].is_running <=> t \in ToSet(list_active)
    BY <1>1, <1>3 DEF ListInv
<1>5. list_active \in Seq(Timers) /\ Distinct(list_active) /\ Len(list_active) \in Nat
    BY <1>1 DEF TypeOK, ListInv
<1>6. PICK l : /\ l = Unlinked(list_active, t)
               /\ l \in Seq(Timers) /\ Distinct(l) /\ ToSet(l) = ToSet(list_active) \ {t}
               /\ Len(l) = IF t \in ToSet(list_active) THEN Len(list_active) - 1
                           ELSE Len(list_active)
    BY <1>5, UnlinkedIs
<1>7. Sorted(l, Expiry(timer))
    BY <1>1, <1>5, <1>6, UnlinkedSorted
<1>8. /\ timer' \in [Timers -> TimerRec] /\ timer'[t].is_running = FALSE
      /\ \A u \in Timers : timer'[u].alive = timer[u].alive
                           /\ timer'[u].expire_time = timer[u].expire_time
      /\ \A u \in Timers \ {t} : timer'[u] = timer[u]
  <2>1. CASE timer[t].is_running
    <3>1. timer' = [timer EXCEPT ![t].is_running = FALSE]
        BY <2>1 DEF tal_sw_timer_stop
    <3>2. timer \in [Timers -> TimerRec]
        BY <1>1 DEF TypeOK, TimerRec
    <3> QED BY <3>1, <3>2 DEF TimerRec
  <2>2. CASE ~timer[t].is_running
    <3>1. timer' = timer /\ timer \in [Timers -> TimerRec]
        BY <1>1, <2>2 DEF tal_sw_timer_stop, TypeOK, TimerRec
    <3>2. timer[t].is_running = FALSE
        BY <1>1, <2>2 DEF TypeOK
    <3> QED BY <3>1, <3>2
  <2> QED BY <2>1, <2>2
<1>9. /\ list_standby' = list_standby \union {t} /\ running_cnt' = Len(l)
      /\ Sorted(list_active', Expiry(timer')) /\ ToSet(list_active') = ToSet(l)
      /\ list_active' \in Seq(Timers) /\ Distinct(list_active') /\ Len(list_active') = Len(l)
  <2>1. Expiry(timer') = Expiry(timer)
      BY <1>8 DEF Expiry
  <2>2. CASE timer[t].is_running
      BY <1>1, <1>4, <1>5, <1>6, <1>7, <2>1, <2>2 DEF tal_sw_timer_stop, ListInv
  <2>3. CASE ~timer[t].is_running
    <3>1. t \in list_standby
        BY <1>1, <1>3, <1>4, <2>3 DEF ListInv
    <3> QED BY <1>1, <1>4, <1>5, <1>6, <1>7, <2>1, <2>3, <3>1 DEF tal_sw_timer_stop, ListInv
  <2> QED BY <2>2, <2>3
<1>10. CallInv'
  <2>1. \A d \in Callers : call[d].op # "idle" => timer'[call[d].t].alive
      BY <1>1, <1>8, CallFacts DEF CallInv
  <2>2. c = TimerThread => thr.pc = "callback"
      BY <1>1, <1>2, ReadyFacts
  <2>3. \A d \in Callers : call[d].op = "free" => call[d].t # t
      BY <1>3 DEF Freeing
  <2>4. PICK p \in CallRec : p = [op |-> "post", t |-> t] /\ p.op = "post" /\ p.t = t /\ p # Idle
      BY PostRec
  <2>5. call' = [call EXCEPT ![c] = p] /\ p.op # "free" /\ timer'[p.t].alive
      BY <1>2, <1>8, <2>4 DEF Usable
  <2> QED BY <1>1, <1>2, <2>1, <2>2, <2>3, <2>4, <2>5, CallStep
<1>11. Linked' = Linked
    BY <1>1, <1>2, <1>8, LinkedSame, ReadyFacts
<1>12. ListInv'
  <2>1. \A u \in Linked' : timer'[u].is_running <=> u \in ToSet(list_active')
    <3>1. ASSUME NEW u \in Linked, u # t PROVE timer'[u].is_running <=> u \in ToSet(list_active)
        BY <1>1, <1>8, <3>1 DEF ListInv, Linked
    <3> QED BY <1>6, <1>8, <1>9, <1>11, <3>1
  <2>2. ToSet(list_active') \intersect list_standby' = {}
      BY <1>1, <1>6, <1>9 DEF ListInv
  <2>3. ToSet(list_active') \union list_standby' = Linked'
      BY <1>1, <1>3, <1>6, <1>9, <1>11 DEF ListInv
  <2> QED BY <1>1, <1>2, <1>9, <1>11, <2>1, <2>2, <2>3 DEF ListInv
<1>13. NoOversleep'
  <2>1. call'[c].op = "post"
      BY <1>1, <1>2 DEF CallInv
  <2> QED BY <2>1, PostPending
<1>14. CallbackOnLiveTimer'
    BY <1>2, <1>8, SwTimerAssumption DEF SwInv, CallbackOnLiveTimer
<1>15. TypeOK'
  <2>1. running_cnt' \in Nat /\ list_standby' \subseteq Timers
    <3>1. Len(l) \in Nat
        BY <1>6
    <3> QED BY <1>1, <1>9, <3>1 DEF TypeOK
  <2>2. ops' \in 0..MaxOps
      BY <1>1, <1>2, OpsType
  <2> QED BY <1>1, <1>2, <1>8, <1>9, <1>10, <2>1, <2>2, CallTypes DEF TypeOK, TimerRec
<1> QED BY <1>9, <1>10, <1>12, <1>13, <1>14, <1>15 DEF SwInv

LEMMA TriggerKeeps ==
    ASSUME SwInv, NEW c \in Callers, NEW t \in Timers, tal_sw_timer_trigger(c, t)
    PROVE  SwInv'
<1>1. TypeOK /\ CallInv /\ ListInv /\ Sorted(list_active, Expiry(timer))
    BY DEF SwInv
<1>2. /\ Ready(c) /\ Usable(t) /\ ops' = ops + 1
      /\ timer' = [timer EXCEPT ![t].expire_time = 0]
      /\ list_active' = IF timer[t].is_running THEN <<t>> \o Unlinked(list_active, t)
                        ELSE list_active
      /\ call' = [call EXCEPT ![c] = [op |-> "post", t |-> t]]
      /\ UNCHANGED <<now, list_standby, total_cnt, running_cnt, sem, thr>>
    BY DEF tal_sw_timer_trigger, Begin
<1>3. ~Freeing(t) /\ t \in Linked
    BY <1>2 DEF Freeing, Usable, Linked
<1>4. timer[t].is_running <=> t \in ToSet(list_active)
    BY <1>1, <1>3 DEF ListInv
<1>5. list_active \in Seq(Timers) /\ Distinct(list_active) /\ Len(list_active) \in Nat
    BY <1>1 DEF TypeOK, ListInv
<1>6. timer \in [Timers -> TimerRec]
    BY <1>1 DEF TypeOK, TimerRec
<1>7. /\ timer' \in [Timers -> TimerRec] /\ timer'[t].expire_time = 0
      /\ \A u \in Timers : timer'[u].alive = timer[u].alive
                           /\ timer'[u].is_running = timer[u].is_running
      /\ \A u \in Timers \ {t} : timer'[u] = timer[u]
    BY <1>2, <1>6 DEF TimerRec
<1>8. PICK e : /\ e = Expiry(timer') /\ e[t] = 0
               /\ \A u \in Timers : e[u] \in Nat
               /\ \A u \in Timers \ {t} : e[u] = Expiry(timer)[u]
  <2>1. Expiry(timer')[t] = 0 /\ \A u \in Timers : Expiry(timer')[u] \in Nat
      BY <1>7 DEF Expiry, TimerRec
  <2>2. \A u \in Timers \ {t} : Expiry(timer')[u] = Expiry(timer)[u]
      BY <1>7 DEF Expiry
  <2> QED BY <2>1, <2>2
<1>9. /\ list_active' \in Seq(Timers) /\ Distinct(list_active')
      /\ ToSet(list_active') = ToSet(list_active) /\ Len(list_active') = Len(list_active)
      /\ Sorted(list_active', Expiry(timer'))
  <2>1. CASE timer[t].is_running
    <3>1. PICK r \in Seq(Timers) :
              /\ r = Unlinked(list_active, t) /\ Distinct(r)
              /\ ToSet(r) = ToSet(list_active) \ {t} /\ Len(r) = Len(list_active) - 1
        BY <1>4, <1>5, <2>1, UnlinkedIs
    <3>2. Sorted(r, e)
        BY <1>1, <1>5, <1>8, <3>1, UnlinkedSorted
    <3>3. t \notin ToSet(r)
        BY <3>1
    <3>4. /\ <<t>> \o r \in Seq(Timers) /\ Distinct(<<t>> \o r)
          /\ ToSet(<<t>> \o r) = ToSet(r) \union {t}
          /\ Len(<<t>> \o r) = Len(r) + 1
          /\ Sorted(<<t>> \o r, e)
        BY <1>8, <3>1, <3>2, <3>3, PushIs
    <3>5. list_active' = <<t>> \o r
        BY <1>2, <2>1, <3>1
    <3>6. Len(r) + 1 = Len(list_active)
        BY <1>5, <3>1
    <3> QED BY <1>4, <1>8, <2>1, <3>1, <3>4, <3>5, <3>6
  <2>2. CASE ~timer[t].is_running
    <3>1. \A k \in 1..Len(list_active) : list_active[k] \in Timers \ {t}
        BY <1>4, <1>5, <2>2, SetOfSeq
    <3>2. \A k \in 1..Len(list_active) : e[list_active[k]] = Expiry(timer)[list_active[k]]
        BY <1>8, <3>1
    <3>3. Sorted(list_active, e)
        BY <1>1, <3>2 DEF Sorted
    <3> QED BY <1>2, <1>5, <1>8, <2>2, <3>3
  <2> QED BY <2>1, <2>2
<1>10. CallInv'
  <2>1. \A d \in Callers : call[d].op # "idle" => timer'[call[d].t].alive
      BY <1>1, <1>7, CallFacts DEF CallInv
  <2>2. c = TimerThread => thr.pc = "callback"
      BY <1>1, <1>2, ReadyFacts
  <2>3. \A d \in Callers : call[d].op = "free" => call[d].t # t
      BY <1>3 DEF Freeing
  <2>4. PICK p \in CallRec : p = [op |-> "post", t |-> t] /\ p.op = "post" /\ p.t = t /\ p # Idle
      BY PostRec
  <2>5. call' = [call EXCEPT ![c] = p] /\ p.op # "free" /\ timer'[p.t].alive
      BY <1>2, <1>7, <2>4 DEF Usable
  <2> QED BY <1>1, <1>2, <2>1, <2>2, <2>3, <2>4, <2>5, CallStep
<1>11. Linked' = Linked
    BY <1>1, <1>2, <1>7, LinkedSame, ReadyFacts
<1>12. ListInv'
  <2>1. \A u \in Linked : u \in Timers
      BY DEF Linked
  <2> QED BY <1>1, <1>2, <1>7, <1>9, <1>11, <2>1 DEF ListInv
<1>13. NoOversleep'
  <2>1. call'[c].op = "post"
      BY <1>1, <1>2 DEF CallInv
  <2> QED BY <2>1, PostPending
<1>14. CallbackOnLiveTimer'
    BY <1>2, <1>7, SwTimerAssumption DEF SwInv, CallbackOnLiveTimer
<1>15. TypeOK'
  <2>1. ops' \in 0..MaxOps
      BY <1>1, <1>2, OpsType
  <2> QED BY <1>1, <1>2, <1>7, <1>9, <1>10, <2>1, CallTypes DEF TypeOK, TimerRec
<1> QED BY <1>9, <1>10, <1>12, <1>13, <1>14, <1>15 DEF SwInv

LEMMA DeleteKeeps ==
    ASSUME SwInv, NEW c \in Callers, NEW t \in Timers, tal_sw_timer_delete(c, t)
    PROVE  SwInv'
<1>1. TypeOK /\ CallInv /\ ListInv /\ Sorted(list_active, Expiry(timer))
    BY DEF SwInv
<1>2. /\ Ready(c) /\ Usable(t) /\ ops' = ops + 1
      /\ t \in OwnedByCallback => c = TimerThread
      /\ \A d \in Callers : call[d].t # t
      /\ list_active' = Unlinked(list_active, t) /\ list_standby' = list_standby \ {t}
      /\ total_cnt' = total_cnt - 1
      /\ running_cnt' = running_cnt - IF timer[t].is_running THEN 1 ELSE 0
      /\ call' = [call EXCEPT ![c] = [op |-> "free", t |-> t]]
      /\ UNCHANGED <<now, timer, sem, thr>>
    BY DEF tal_sw_timer_delete, Begin
<1>3. ~Freeing(t) /\ t \in Linked
    BY <1>2 DEF Freeing, Usable, Linked
<1>4. timer[t].is_running <=> t \in ToSet(list_active)
    BY <1>1, <1>3 DEF ListInv
<1>5. list_active \in Seq(Timers) /\ Distinct(list_active) /\ Len(list_active) \in Nat
    BY <1>1 DEF TypeOK, ListInv
<1>6. /\ list_active' \in Seq(Timers) /\ Distinct(list_active')
      /\ ToSet(list_active') = ToSet(list_active) \ {t}
      /\ Len(list_active') = IF t \in ToSet(list_active) THEN Len(list_active) - 1
                             ELSE Len(list_active)
      /\ Sorted(list_active', Expiry(timer'))
    BY <1>1, <1>2, <1>5, UnlinkedIs, UnlinkedSorted
<1>7. PICK p \in CallRec : p = [op |-> "free", t |-> t] /\ p.op = "free" /\ p.t = t /\ p # Idle
    BY PostRec
<1>8. CallInv'
  <2>1. \A d \in Callers : call[d].op # "idle" => timer'[call[d].t].alive
      BY <1>1, <1>2 DEF CallInv
  <2>2. c = TimerThread => thr.pc = "callback"
      BY <1>1, <1>2, ReadyFacts
  <2>3. call' = [call EXCEPT ![c] = p] /\ timer'[p.t].alive
      BY <1>2, <1>7 DEF Usable
  <2> QED BY <1>1, <1>2, <1>7, <2>1, <2>2, <2>3, CallStep
<1>9. Linked' = Linked \ {t}
  <2>1. \A d \in Callers : call'[d] = IF d = c THEN p ELSE call[d]
      BY <1>1, <1>2, <1>7 DEF CallInv
  <2>2. call[c].op # "free"
      BY <1>1, <1>2, ReadyFacts
  <2>3. ASSUME NEW u PROVE Freeing(u)' <=> Freeing(u) \/ u = t
      BY <1>7, <2>1, <2>2 DEF Freeing
  <2> QED BY <1>2, <2>3 DEF Linked
<1>10. ListInv'
  <2>1. IsFiniteSet(Linked') /\ Cardinality(Linked') = Cardinality(Linked) - 1
      BY <1>1, <1>3, <1>9, FS_RemoveElement DEF ListInv
  <2>2. running_cnt' = Len(list_active')
    <3>1. running_cnt = Len(list_active)
        BY <1>1 DEF ListInv
    <3>2. CASE t \in ToSet(list_active)
        BY <1>2, <1>4, <1>5, <1>6, <3>1, <3>2
    <3>3. CASE t \notin ToSet(list_active)
        BY <1>2, <1>4, <1>5, <1>6, <3>1, <3>3
    <3> QED BY <3>2, <3>3
  <2>3. \A u \in Linked' : timer'[u].is_running <=> u \in ToSet(list_active')
      BY <1>1, <1>2, <1>6, <1>9 DEF ListInv
  <2>4. ToSet(list_active') \intersect list_standby' = {}
      BY <1>1, <1>2, <1>6 DEF ListInv
  <2>5. ToSet(list_active') \union list_standby' = Linked'
      BY <1>1, <1>2, <1>6, <1>9 DEF ListInv
  <2> QED BY <1>1, <1>2, <1>6, <2>1, <2>2, <2>3, <2>4, <2>5 DEF ListInv
<1>11. NoOversleep'
  <2>1. call'[c].op = "free"
      BY <1>1, <1>2 DEF CallInv
  <2> QED BY <2>1, PostPending
<1>12. CallbackOnLiveTimer'
    BY <1>2 DEF SwInv, CallbackOnLiveTimer
<1>13. TypeOK'
  <2>1. running_cnt' \in Nat
    <3>1. Len(list_active') \in Nat /\ running_cnt' = Len(list_active')
        BY <1>6, <1>10 DEF ListInv
    <3> QED BY <3>1
  <2>2. total_cnt' \in Nat
    <3>1. IsFiniteSet(Linked') /\ total_cnt' = Cardinality(Linked')
        BY <1>10 DEF ListInv
    <3> QED BY <3>1, FS_CardinalityType
  <2>3. list_standby' \subseteq Timers /\ ops' \in 0..MaxOps
      BY <1>1, <1>2, OpsType DEF TypeOK
  <2> QED BY <1>1, <1>2, <1>6, <1>8, <2>1, <2>2, <2>3, CallTypes DEF TypeOK
<1> QED BY <1>6, <1>8, <1>10, <1>11, <1>12, <1>13 DEF SwInv

LEMMA PostKeeps ==
    ASSUME SwInv, NEW c \in Callers, PostAndReturn(c)
    PROVE  SwInv'
<1>1. TypeOK /\ CallInv /\ ListInv /\ Sorted(list_active, Expiry(timer))
    BY DEF SwInv
<1>2. /\ call[c].op \in {"post", "free"} /\ sem' = SemPost
      /\ timer' = IF call[c].op = "free" THEN [timer EXCEPT ![call[c].t] = Calloc] ELSE timer
      /\ call' = [call EXCEPT ![c] = Idle]
      /\ UNCHANGED <<now, list_active, list_standby, total_cnt, running_cnt, thr, ops>>
    BY DEF PostAndReturn
<1>3. PICK t \in Timers : t = call[c].t /\ timer[t].alive
    BY <1>1, <1>2, CallFacts DEF CallInv
<1>4. timer \in [Timers -> TimerRec]
    BY <1>1 DEF TypeOK, TimerRec
<1>5. /\ timer' \in [Timers -> TimerRec]
      /\ \A u \in Timers : (call[c].op = "free" /\ u = t) \/ timer'[u] = timer[u]
      /\ call[c].op = "free" => timer'[t].alive = FALSE
    BY <1>2, <1>3, <1>4 DEF TimerRec, Calloc, Types
<1>6. \A d \in Callers : call'[d] = IF d = c THEN Idle ELSE call[d]
    BY <1>1, <1>2 DEF CallInv
<1>7. Idle \in CallRec /\ Idle.op = "idle" /\ Idle.t = NoTimer
    BY DEF CallRec, Idle
<1>8. CallInv'
  <2>1. ASSUME NEW d \in Callers \ {c}, call[d].op # "idle" PROVE timer'[call[d].t].alive
    <3>1. call[d].t \in Timers /\ timer[call[d].t].alive
        BY <1>1, <2>1, CallFacts DEF CallInv
    <3>2. call[c].op = "free" => call[d].t # t
        BY <1>1, <1>3, <2>1 DEF CallInv
    <3> QED BY <1>5, <3>1, <3>2
  <2> QED BY <1>1, <1>2, <1>7, <2>1, CallStep
<1>9. Linked' = Linked
  <2>1. ASSUME NEW u \in Timers PROVE u \in Linked' <=> u \in Linked
    <3>1. CASE call[c].op = "free" /\ u = t
      <4>1. Freeing(t) /\ ~timer'[t].alive
          BY <1>3, <1>5, <3>1 DEF Freeing
      <4> QED BY <3>1, <4>1 DEF Linked
    <3>2. CASE ~(call[c].op = "free" /\ u = t)
      <4>1. timer'[u] = timer[u]
          BY <1>5, <3>2
      <4>2. Freeing(u)' <=> Freeing(u)
          BY <1>3, <1>6, <1>7, <3>2 DEF Freeing
      <4> QED BY <4>1, <4>2 DEF Linked
    <3> QED BY <3>1, <3>2
  <2> QED BY <2>1 DEF Linked
<1>10. \A u \in Linked : timer'[u] = timer[u]
  <2>1. call[c].op = "free" => t \notin Linked
      BY <1>3 DEF Linked, Freeing
  <2> QED BY <1>5, <2>1 DEF Linked
<1>11. ListInv'
    BY <1>1, <1>2, <1>9, <1>10, ListKept
<1>12. Sorted(list_active, Expiry(timer))'
  <2>1. \A k \in 1..Len(list_active) : list_active[k] \in Linked
      BY <1>1, SetOfSeq DEF ListInv, TypeOK
  <2>2. \A k \in 1..Len(list_active) :
            Expiry(timer')[list_active[k]] = Expiry(timer)[list_active[k]]
      BY <1>10, <2>1 DEF Expiry, Linked
  <2> QED BY <1>1, <1>2, <2>2 DEF Sorted
<1>13. sem' \in 0..SemMax /\ sem' # 0
    BY <1>1, <1>2 DEF TypeOK, SemPost, SemMax
<1>14. NoOversleep'
    BY <1>13 DEF NoOversleep
<1>15. CallbackOnLiveTimer'
  <2> SUFFICES ASSUME thr.pc = "unlocked", thr.cur \in OwnedByCallback
               PROVE  timer'[thr.cur].alive
      BY <1>2 DEF CallbackOnLiveTimer
  <2>1. thr.cur \in Timers /\ timer[thr.cur].alive
      BY SwTimerAssumption DEF SwInv, CallbackOnLiveTimer
  <2>2. ~(call[c].op = "free" /\ thr.cur = t)
    <3>1. call[TimerThread] = Idle
        BY <1>1 DEF CallInv
    <3> QED BY <1>1, <1>3, <1>7, <3>1 DEF CallInv
  <2> QED BY <1>5, <2>1, <2>2
<1>16. TypeOK'
    BY <1>1, <1>2, <1>5, <1>8, <1>13, CallTypes DEF TypeOK, TimerRec
<1> QED BY <1>8, <1>11, <1>12, <1>14, <1>15, <1>16 DEF SwInv

------------------------------------------------------------------------------
(* The dispatch of a due timer. *)
LEMMA DispatchKeeps ==
    ASSUME SwInv, DispatchDue
    PROVE  SwInv'
<1>1. TypeOK /\ CallInv /\ ListInv /\ Sorted(list_active, Expiry(timer))
    BY DEF SwInv
<1>2. PICK t \in Timers : t = Head(list_active) /\ t \in ToSet(list_active) /\ t \in Linked
                          /\ timer[t].alive
    BY <1>1, HeadIsLinked DEF DispatchDue
<1>3. /\ thr.pc = "lock" /\ list_active # <<>>
      /\ thr' = [thr EXCEPT !.pc = "unlocked", !.cur = t]
      /\ UNCHANGED <<now, total_cnt, sem, call, ops>>
    BY <1>2 DEF DispatchDue
<1>4. list_active \in Seq(Timers) /\ Distinct(list_active) /\ Len(list_active) \in Nat
    BY <1>1 DEF TypeOK, ListInv
<1>5. timer \in [Timers -> TimerRec]
    BY <1>1 DEF TypeOK, TimerRec
<1>6. thr' \in ThrRec /\ thr'.pc = "unlocked" /\ thr'.cur = t
    BY <1>1, <1>3 DEF TypeOK, ThrRec
<1>7. /\ timer' \in [Timers -> TimerRec]
      /\ \A u \in Timers : timer'[u].alive = timer[u].alive
      /\ \A u \in Timers \ {t} : timer'[u] = timer[u]
      /\ list_active' \in Seq(Timers) /\ Distinct(list_active')
      /\ Sorted(list_active', Expiry(timer'))
      /\ running_cnt' = Len(list_active')
      /\ \/ /\ timer'[t].is_running = FALSE /\ list_standby' = list_standby \union {t}
            /\ ToSet(list_active') = ToSet(list_active) \ {t}
         \/ /\ timer'[t].is_running = timer[t].is_running /\ list_standby' = list_standby
            /\ ToSet(list_active') = ToSet(list_active)
  <2>1. CASE timer[t].type = "ONCE"
    <3>1. /\ timer' = [timer EXCEPT ![t].is_running = FALSE]
          /\ running_cnt' = running_cnt - 1 /\ list_active' = Tail(list_active)
          /\ list_standby' = list_standby \union {t}
        BY <1>2, <2>1 DEF DispatchDue
    <3>2. /\ timer' \in [Timers -> TimerRec] /\ timer'[t].is_running = FALSE
          /\ \A u \in Timers : timer'[u].alive = timer[u].alive
                               /\ timer'[u].expire_time = timer[u].expire_time
          /\ \A u \in Timers \ {t} : timer'[u] = timer[u]
        BY <1>5, <3>1 DEF TimerRec
    <3>3. Expiry(timer') = Expiry(timer)
        BY <3>2 DEF Expiry
    <3>4. /\ list_active' \in Seq(Timers) /\ Distinct(list_active')
          /\ ToSet(list_active') = ToSet(list_active) \ {t}
          /\ Len(list_active') = Len(list_active) - 1
          /\ Sorted(list_active', Expiry(timer))
        BY <1>1, <1>2, <1>3, <1>4, <3>1, TailIs
    <3>5. running_cnt' = Len(list_active')
        BY <1>1, <3>1, <3>4 DEF ListInv
    <3> QED BY <3>1, <3>2, <3>3, <3>4, <3>5
  <2>2. CASE timer[t].type # "ONCE"
    <3>1. PICK x \in Nat : x = thr.nowMS + timer[t].interval
        BY <1>1 DEF TypeOK
    <3>2. /\ timer' = [timer EXCEPT ![t].expire_time = x]
          /\ list_active' = Attach(list_active, timer', t)
          /\ running_cnt' = running_cnt /\ list_standby' = list_standby
        BY <1>2, <2>2, <3>1 DEF DispatchDue
    <3>3. /\ timer' \in [Timers -> TimerRec]
          /\ timer'[t].is_running = timer[t].is_running
          /\ \A u \in Timers : timer'[u].alive = timer[u].alive
          /\ \A u \in Timers \ {t} : timer'[u] = timer[u]
        BY <1>5, <3>2 DEF TimerRec
    <3>4. \A u \in Timers : Expiry(timer')[u] \in Nat
        BY <3>3 DEF Expiry, TimerRec
    <3>5. \A u \in Timers \ {t} : Expiry(timer')[u] = Expiry(timer)[u]
        BY <3>3 DEF Expiry
    <3>6. Sorted(Unlinked(list_active, t), Expiry(timer'))
        BY <1>1, <1>4, <3>5, UnlinkedSorted
    <3>7. /\ list_active' \in Seq(Timers) /\ Distinct(list_active')
          /\ ToSet(list_active') = ToSet(list_active) \union {t}
          /\ Len(list_active') = Len(list_active)
          /\ Sorted(list_active', Expiry(timer'))
        BY <1>2, <1>4, <3>2, <3>4, <3>6, AttachIs
    <3>8. running_cnt' = Len(list_active') /\ ToSet(list_active') = ToSet(list_active)
        BY <1>1, <1>2, <3>2, <3>7 DEF ListInv
    <3> QED BY <3>2, <3>3, <3>7, <3>8
  <2> QED BY <2>1, <2>2
<1>8. CallInv'
  <2>1. \A d \in Callers : call[d].op # "idle" => timer'[call[d].t].alive
      BY <1>1, <1>7, CallFacts DEF CallInv
  <2>2. call[TimerThread] = Idle
      BY <1>1, <1>3 DEF CallInv
  <2> QED BY <1>1, <1>3, <2>1, <2>2 DEF CallInv
<1>9. Linked' = Linked
  <2>1. \A u : Freeing(u)' <=> Freeing(u)
      BY <1>3 DEF Freeing
  <2> QED BY <1>7, <2>1 DEF Linked
<1>10. ListInv'
  <2>1. timer[t].is_running /\ t \notin list_standby
      BY <1>1, <1>2 DEF ListInv
  <2>2. \A u \in Linked' : timer'[u].is_running <=> u \in ToSet(list_active')
    <3>1. ASSUME NEW u \in Linked, u # t PROVE timer'[u].is_running <=> u \in ToSet(list_active)
        BY <1>1, <1>7, <3>1 DEF ListInv, Linked
    <3> QED BY <1>2, <1>7, <1>9, <2>1, <3>1
  <2>3. ToSet(list_active') \intersect list_standby' = {}
      BY <1>1, <1>7 DEF ListInv
  <2>4. ToSet(list_active') \union list_standby' = Linked'
      BY <1>1, <1>2, <1>7, <1>9 DEF ListInv
  <2> QED BY <1>1, <1>3, <1>7, <1>9, <2>2, <2>3, <2>4 DEF ListInv
<1>11. NoOversleep'
    BY <1>6 DEF NoOversleep
<1>12. CallbackOnLiveTimer'
    BY <1>2, <1>6, <1>7 DEF CallbackOnLiveTimer
<1>13. TypeOK'
  <2>1. running_cnt' \in Nat /\ list_standby' \subseteq Timers
    <3>1. Len(list_active') \in Nat
        BY <1>7
    <3> QED BY <1>1, <1>7, <3>1 DEF TypeOK
  <2> QED BY <1>1, <1>3, <1>6, <1>7, <1>8, <2>1, CallTypes DEF TypeOK, TimerRec, ThrRec
<1> QED BY <1>7, <1>8, <1>10, <1>11, <1>12, <1>13 DEF SwInv

------------------------------------------------------------------------------
LEMMA SwInit == Init => SwInv
<1> SUFFICES ASSUME Init PROVE SwInv
    OBVIOUS
<1> USE SwTimerAssumption
<1>1. 0 \in 0..MaxTime /\ MaxTime \in 0..MaxTime /\ 0 \in 0..MaxOps /\ 0 \in 0..SemMax
    BY DEF SemMax
<1>2. timer \in [Timers -> TimerRec] /\ \A t \in Timers : timer[t].alive = FALSE
    BY DEF Init, Calloc, TimerRec, Types
<1>3. thr \in ThrRec /\ thr.pc = "wait"
    BY <1>1 DEF Init, ThrRec
<1>4. call \in [Callers -> CallRec] /\ \A c \in Callers : call[c] = Idle
    BY DEF Init, CallRec
<1>5. Idle.op = "idle" /\ Idle.t = NoTimer
    BY DEF Idle
<1>6. CallInv
  <2>1. TimerThread \in Callers
      BY DEF Callers
  <2> QED BY <1>4, <1>5, <2>1 DEF CallInv
<1>7. TypeOK
  <2>1. list_active \in Seq(Timers)
      BY DEF Init
  <2> QED BY <1>1, <1>2, <1>3, <1>4, <1>5, <2>1 DEF Init, TypeOK, TimerRec, ThrRec
<1>8. list_active = <<>> /\ Len(list_active) = 0
    BY DEF Init
<1>9. ToSet(list_active) = {}
    BY <1>8 DEF ToSet
<1>10. Linked = {}
    BY <1>2 DEF Linked
<1>11. ListInv
    BY <1>8, <1>9, <1>10, FS_EmptySet DEF ListInv, Init, Distinct
<1>12. Sorted(list_active, Expiry(timer)) /\ NoOversleep /\ CallbackOnLiveTimer
    BY <1>3, <1>8 DEF Sorted, NoOversleep, CallbackOnLiveTimer
<1> QED BY <1>6, <1>7, <1>11, <1>12 DEF SwInv

\* The inductive invariant: every step of every thread preserves it.
THEOREM SwTimerInvariant == Spec => []SwInv
<1>1. ASSUME SwInv, [Next]_vars PROVE SwInv'
  <2>1. CASE UNCHANGED vars
    <3>1. UNCHANGED <<now, timer, list_active, list_standby, total_cnt, running_cnt, sem, thr,
                      call, ops>>
        BY <2>1 DEF vars
    <3>2. TypeOK' /\ CallInv' /\ NoOversleep' /\ CallbackOnLiveTimer'
        BY <1>1, <3>1 DEF SwInv, TypeOK, CallInv, NoOversleep, CallbackOnLiveTimer
    <3>3. Linked' = Linked /\ Expiry(timer') = Expiry(timer)
        BY <3>1 DEF Linked, Freeing, Expiry
    <3>4. ListInv' /\ Sorted(list_active', Expiry(timer'))
        BY <1>1, <3>1, <3>3, ListKept DEF SwInv
    <3> QED BY <3>2, <3>4 DEF SwInv
  <2>2. CASE Quiet
      BY <1>1, <2>2, QuietKeeps
  <2>3. CASE DispatchDue
      BY <1>1, <2>3, DispatchKeeps
  <2>4. ASSUME NEW c \in Callers, ApiCall(c) PROVE SwInv'
    <3>1. PICK t \in Timers :
              \/ tal_sw_timer_create(c, t) \/ tal_sw_timer_stop(c, t)
              \/ tal_sw_timer_trigger(c, t) \/ tal_sw_timer_delete(c, t)
              \/ \E ms \in Intervals \union {0}, type \in Types : StartReadTime(c, t, ms, type)
        BY <2>4 DEF ApiCall
    <3> QED BY <1>1, <3>1, CreateKeeps, StopKeeps, TriggerKeeps, DeleteKeeps, StartReadTimeKeeps
  <2>5. ASSUME NEW c \in Callers, FinishCall(c) PROVE SwInv'
      BY <1>1, <2>5, StartKeeps, PostKeeps DEF FinishCall
  <2> QED BY <1>1, <2>1, <2>2, <2>3, <2>4, <2>5 DEF Next, SysTimer, Quiet
<1> QED BY <1>1, SwInit, PTL DEF Spec

\* Types of all variables: no count becomes negative, the semaphore and the clock keep to
\* their ranges.
THEOREM SwTimerTypes == Spec => []TypeOK
<1>1. SwInv => TypeOK
    BY DEF SwInv
<1> QED BY <1>1, SwTimerInvariant, PTL

\* The active list is ordered by expire_time, whatever starts, stops, triggers and re-arms
\* came in between: __timer_dispatch may look at its head only.
THEOREM SwTimerActiveSorted == Spec => []ActiveSorted
<1>1. SwInv => ActiveSorted
  <2> SUFFICES ASSUME SwInv, NEW i \in 1..Len(list_active), NEW j \in 1..Len(list_active), i < j
               PROVE  timer[list_active[i]].expire_time <= timer[list_active[j]].expire_time
      BY DEF ActiveSorted
  <2>1. list_active[i] \in Timers /\ list_active[j] \in Timers
    <3>1. list_active \in Seq(Timers)
        BY DEF SwInv, TypeOK
    <3> QED BY <3>1
  <2>2. Expiry(timer)[list_active[i]] <= Expiry(timer)[list_active[j]]
      BY DEF SwInv, Sorted
  <2> QED BY <2>1, <2>2 DEF Expiry
<1> QED BY <1>1, SwTimerInvariant, PTL

\* The two lists, is_running and the counts agree in every state.
THEOREM SwTimerListsAgree == Spec => []ListsAgree
<1>1. SwInv => ListsAgree
  <2> SUFFICES ASSUME SwInv PROVE ListsAgree
      OBVIOUS
  <2>1. TypeOK /\ CallInv /\ ListInv
      BY DEF SwInv
  <2>2. ASSUME NEW t \in Timers, NEW c \in Callers
        PROVE  call[c] = [op |-> "free", t |-> t] <=> call[c].op = "free" /\ call[c].t = t
    <3>1. call[c] \in CallRec
        BY <2>1 DEF CallInv
    <3>2. CASE call[c] = Idle
        BY <3>2 DEF Idle
    <3>3. CASE call[c] \in [op : {"post", "free"}, t : Timers]
        BY <3>3
    <3>4. CASE call[c] \in [op : {"start"}, t : Timers, at : 0..MaxTime,
                            ms : Intervals \union {0}, type : Types]
      <4>1. call[c].op = "start"
          BY <3>4
      <4> QED BY <4>1
    <3> QED BY <3>1, <3>2, <3>3, <3>4 DEF CallRec
  <2>3. Linked = {t \in Timers : timer[t].alive
                                 /\ \A c \in Callers : call[c] # [op |-> "free", t |-> t]}
      BY <2>2 DEF Linked, Freeing
  <2>4. running_cnt = Cardinality(ToSet(list_active))
      BY <2>1, CardSeq DEF ListInv, TypeOK
  <2> QED BY <2>1, <2>3, <2>4 DEF ListsAgree, ListInv, tal_sw_timer_get_num, tal_sw_timer_is_running
<1> QED BY <1>1, SwTimerInvariant, PTL

\* No wake-up is lost: a thread asleep on an empty semaphore, with no post under way, sleeps no
\* longer than the head of the active list had left.
THEOREM SwTimerNoOversleep == Spec => []NoOversleep
<1>1. SwInv => NoOversleep
    BY DEF SwInv
<1> QED BY <1>1, SwTimerInvariant, PTL

\* A timer that only callbacks delete still exists when the dispatch reads its callback's
\* arguments after the unlock.
THEOREM SwTimerCallbackOnLive == Spec => []CallbackOnLiveTimer
<1>1. SwInv => CallbackOnLiveTimer
    BY DEF SwInv
<1> QED BY <1>1, SwTimerInvariant, PTL
==============================================================================
