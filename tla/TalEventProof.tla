---------------------------- MODULE TalEventProof ----------------------------
(***************************************************************************)
(* Theorems about TalEvent, for any threads, events, subscribers and       *)
(* number of calls.                                                        *)
(***************************************************************************)
EXTENDS TalEvent, FiniteSetTheorems, SequenceTheorems, TLAPS

Node == [name : Names, subs : Seq(Subs), owner : Threads \union {None}]

\* What a thread may be in the middle of.
ThRec ==
    {Idle} \union [pc : {"create"}, name : Names] \union [pc : {"publish"}, node : Nat]
    \union [pc : {"dispatch"}, node : Nat, p : Subs \union {None}, n : Subs \union {None},
            due : Seq(Subs), got : Seq(Subs)]
    \union [pc : {"subscribe", "unsubscribe"}, sub : Subs, node : Nat]

\* Types; a thread refers to nodes that exist (nodes are never freed).
EventTypes ==
    /\ event_root \in Seq(Node) /\ free_subscribe_root \in Seq(Subs)
    /\ th \in [Threads -> ThRec]
    /\ adds \in [Subs -> Nat] /\ calls \in [Subs -> Nat] /\ ops \in 0..MaxOps
    /\ \A t \in Threads :
          /\ th[t].pc \in {"publish", "dispatch"} => th[t].node \in 1..Len(event_root)
          /\ th[t].pc \in {"subscribe", "unsubscribe"} => th[t].node \in 0..Len(event_root)

\* The mutex of an event is held by the thread that dispatches under it.
Owners ==
    \A i \in 1..Len(event_root), t \in Threads :
        event_root[i].owner = t <=> th[t].pc = "dispatch" /\ th[t].node = i

\* No list holds a subscriber twice.
Distinct(s) == \A i, j \in 1..Len(s) : s[i] = s[j] => i = j
ListsDistinct ==
    /\ Distinct(free_subscribe_root)
    /\ \A i \in 1..Len(event_root) : Distinct(event_root[i].subs)

\* The lists s is on; 0 stands for the free subscribers.
ListAt(i) == IF i = 0 THEN free_subscribe_root ELSE event_root[i].subs
Places(s) == {i \in 0..Len(event_root) : s \in ToSet(ListAt(i))}

\* A one-time subscriber was entered once for every list it is on and every call made.
EnteredForEach ==
    \A s \in Subs : SubType[s] = "ONETIME" =>
        IsFiniteSet(Places(s)) /\ calls[s] + Cardinality(Places(s)) <= adds[s]

\* The walk r over a list that is now root: what it has called are the first entries of what it
\* found, what it still has to call is the end of the list, and p and n are the next two.
At(due, k) == IF k \in 1..Len(due) THEN due[k] ELSE None
InWalk(r, root) ==
    LET rest == Len(r.due) - Len(r.got)
    IN  /\ Len(r.got) <= Len(r.due) /\ \A k \in 1..Len(r.got) : r.got[k] = r.due[k]
        /\ r.p = At(r.due, Len(r.got) + 1) /\ r.n = At(r.due, Len(r.got) + 2)
        /\ rest <= Len(root)
        /\ \A k \in 1..rest : root[Len(root) - rest + k] = r.due[Len(r.got) + k]
WalksGood ==
    \A t \in Threads : th[t].pc = "dispatch" => InWalk(th[t], event_root[th[t].node].subs)

EventInv ==
    EventTypes /\ Owners /\ ListsDistinct /\ EmergencyAhead /\ EnteredForEach /\ WalksGood

------------------------------------------------------------------------------
(* Lists. *)
LEMMA HasMin ==
    ASSUME NEW I \in SUBSET Nat, I # {}
    PROVE  Min(I) \in I /\ \A j \in I : Min(I) <= j
<1> DEFINE R == {p \in Nat \X Nat : p[1] < p[2]}
<1>1. OpToRel(<, Nat) = R
    BY Zenon DEF OpToRel
<1>2. \E x \in I : \A y \in I : ~(<<y, x>> \in R)
  <2>1. IsWellFoundedOn(R, Nat)
      BY <1>1, NatLessThanWellFounded
  <2> HIDE DEF R
  <2> QED BY <2>1, WFMin
<1>3. PICK x \in I : \A y \in I : ~(<<y, x>> \in R)
    BY <1>2
<1>4. ASSUME NEW y \in I PROVE x <= y
  <2>1. x \in Nat /\ y \in Nat /\ ~(<<y, x>> \in R)
      BY <1>3
  <2>2. <<y, x>> \in R <=> y < x
      BY <2>1
  <2> QED BY <2>1, <2>2
<1> QED BY <1>4 DEF Min

LEMMA SetOfSeq ==
    ASSUME NEW T, NEW s \in Seq(T)
    PROVE  /\ ToSet(s) \in SUBSET T
           /\ \A x : x \in ToSet(s) <=> \E i \in 1..Len(s) : s[i] = x
BY DEF ToSet

LEMMA RemoveAtIs ==
    ASSUME NEW T, NEW s \in Seq(T), NEW k \in 1..Len(s)
    PROVE  /\ RemoveAt(s, k) \in Seq(T) /\ Len(RemoveAt(s, k)) = Len(s) - 1
           /\ \A i \in 1..(Len(s) - 1) : RemoveAt(s, k)[i] = IF i < k THEN s[i] ELSE s[i + 1]
<1> DEFINE a == SubSeq(s, 1, k - 1)
           b == SubSeq(s, k + 1, Len(s))
<1>1. a \in Seq(T) /\ Len(a) = k - 1 /\ \A i \in 1..(k - 1) : a[i] = s[i]
    OBVIOUS
<1>2. b \in Seq(T) /\ Len(b) = Len(s) - k /\ \A i \in 1..(Len(s) - k) : b[i] = s[k + i]
    OBVIOUS
<1>3. RemoveAt(s, k) = a \o b
    BY DEF RemoveAt
<1> HIDE DEF a, b
<1>4. a \o b \in Seq(T) /\ Len(a \o b) = Len(a) + Len(b)
    BY <1>1, <1>2, ConcatProperties
<1>5. \A i \in 1..(Len(s) - 1) : (a \o b)[i] = IF i < k THEN s[i] ELSE s[i + 1]
    BY <1>1, <1>2
<1> QED BY <1>1, <1>2, <1>3, <1>4, <1>5

\* tuya_list_del takes out the one entry t, and keeps the others in order.
LEMMA RemoveFirstIs ==
    ASSUME NEW T, NEW s \in Seq(T), Distinct(s), NEW t
    PROVE  /\ RemoveFirst(s, t) \in Seq(T) /\ Distinct(RemoveFirst(s, t))
           /\ ToSet(RemoveFirst(s, t)) = ToSet(s) \ {t}
           /\ Len(RemoveFirst(s, t)) = IF t \in ToSet(s) THEN Len(s) - 1 ELSE Len(s)
           /\ \A i, j \in 1..Len(RemoveFirst(s, t)) : i < j =>
                  \E k, l \in 1..Len(s) :
                      k < l /\ s[k] = RemoveFirst(s, t)[i] /\ s[l] = RemoveFirst(s, t)[j]
<1>1. CASE t \notin ToSet(s)
  <2>1. RemoveFirst(s, t) = s
      BY <1>1, SetOfSeq DEF RemoveFirst
  <2> QED BY <1>1, <2>1
<1>2. CASE t \in ToSet(s)
  <2>1. PICK k \in 1..Len(s) : s[k] = t /\ \A j \in 1..Len(s) : s[j] = t => j = k
      BY <1>2, SetOfSeq DEF Distinct
  <2>2. {i \in 1..Len(s) : s[i] = t} = {k}
      BY <2>1
  <2>3. Min({k}) = k
      BY DEF Min
  <2>4. RemoveFirst(s, t) = RemoveAt(s, k)
      BY <2>1, <2>2, <2>3 DEF RemoveFirst, SelectInSeq
  <2> DEFINE r == RemoveAt(s, k)
  <2>5. /\ r \in Seq(T) /\ Len(r) = Len(s) - 1 /\ Len(s) \in Nat
        /\ \A i \in 1..(Len(s) - 1) : r[i] = IF i < k THEN s[i] ELSE s[i + 1]
      BY RemoveAtIs
  <2> HIDE DEF r
  <2>6. ASSUME NEW i \in 1..Len(r), NEW j \in 1..Len(r), i < j
        PROVE  \E m, n \in 1..Len(s) : m < n /\ s[m] = r[i] /\ s[n] = r[j]
    <3> DEFINE m == IF i < k THEN i ELSE i + 1
               n == IF j < k THEN j ELSE j + 1
    <3>1. m \in 1..Len(s) /\ n \in 1..Len(s) /\ m < n
        BY <2>5, <2>6
    <3>2. s[m] = r[i] /\ s[n] = r[j]
        BY <2>5
    <3> HIDE DEF m, n
    <3> QED BY <3>1, <3>2
  <2>7. Distinct(r)
    <3> SUFFICES ASSUME NEW i \in 1..Len(r), NEW j \in 1..Len(r), r[i] = r[j] PROVE i = j
        BY DEF Distinct
    <3>1. CASE i < j
        BY <2>6, <3>1 DEF Distinct
    <3>2. CASE j < i
        BY <2>6, <3>2 DEF Distinct
    <3> QED BY <2>5, <3>1, <3>2
  <2>8. ToSet(r) = ToSet(s) \ {t}
    <3>1. ASSUME NEW x \in ToSet(r) PROVE x \in ToSet(s) \ {t}
      <4>1. PICK i \in 1..Len(r) : r[i] = x
          BY <2>5, SetOfSeq
      <4>2. PICK m \in 1..Len(s) : s[m] = x /\ m # k
          BY <2>5, <4>1
      <4> QED BY <2>1, <4>2, SetOfSeq
    <3>2. ASSUME NEW x \in ToSet(s) \ {t} PROVE x \in ToSet(r)
      <4>1. PICK m \in 1..Len(s) : s[m] = x /\ m # k
          BY <2>1, SetOfSeq
      <4>2. PICK i \in 1..Len(r) : i = IF m < k THEN m ELSE m - 1
          BY <2>5, <4>1
      <4>3. r[i] = x
          BY <2>5, <4>1, <4>2
      <4> QED BY <2>5, <4>3, SetOfSeq
    <3> QED BY <3>1, <3>2
  <2> QED BY <1>2, <2>4, <2>5, <2>6, <2>7, <2>8 DEF r
<1> QED BY <1>1, <1>2

LEMMA RemoveFirstAt ==
    ASSUME NEW T, NEW s \in Seq(T), Distinct(s), NEW k \in 1..Len(s)
    PROVE  RemoveFirst(s, s[k]) = RemoveAt(s, k)
<1>1. {i \in 1..Len(s) : s[i] = s[k]} = {k}
    BY DEF Distinct
<1>2. Min({k}) = k
    BY DEF Min
<1> QED BY <1>1, <1>2 DEF RemoveFirst, SelectInSeq

\* tuya_list_for_each_safe reads the successor of an entry that is on the list.
LEMMA AfterIs ==
    ASSUME NEW s \in Seq(Subs), Distinct(s)
    PROVE  /\ \A k \in 1..Len(s) : After(s, s[k]) = At(s, k + 1)
           /\ After(s, None) = None
<1>1. Len(s) \in Nat /\ \A k \in 1..Len(s) : s[k] \in Subs
    OBVIOUS
<1>2. ASSUME NEW k \in 1..Len(s) PROVE After(s, s[k]) = At(s, k + 1)
  <2>1. {i \in 1..Len(s) : s[i] = s[k]} = {k}
      BY DEF Distinct
  <2>2. Min({k}) = k
      BY DEF Min
  <2>3. SelectInSeq(s, LAMBDA u : u = s[k]) = k
      BY <2>1, <2>2 DEF SelectInSeq
  <2>4. k \in 1..(Len(s) - 1) <=> k + 1 \in 1..Len(s)
      BY <1>1
  <2> QED BY <2>3, <2>4 DEF After, At
<1>3. After(s, None) = None
  <2>1. None \notin Subs
      BY TalEventAssumption
  <2>2. {i \in 1..Len(s) : s[i] = None} = {}
      BY <1>1, <2>1
  <2>3. SelectInSeq(s, LAMBDA u : u = None) = 0
      BY <2>2 DEF SelectInSeq
  <2> QED BY <2>3 DEF After
<1> QED BY <1>2, <1>3

LEMMA AfterType ==
    ASSUME NEW root \in Seq(Subs), NEW x
    PROVE  After(root, x) \in Subs \union {None}
<1> DEFINE m == SelectInSeq(root, LAMBDA u : u = x)
<1>1. After(root, x) = IF m \in 1..(Len(root) - 1) THEN root[m + 1] ELSE None
    BY Zenon DEF After
<1> HIDE DEF m
<1>2. m \in 1..(Len(root) - 1) => root[m + 1] \in Subs
    OBVIOUS
<1> QED BY <1>1, <1>2

LEMMA AppendIs ==
    ASSUME NEW root \in Seq(Subs), Distinct(root), NEW s \in Subs, s \notin ToSet(root)
    PROVE  /\ Append(root, s) \in Seq(Subs) /\ Distinct(Append(root, s))
           /\ ToSet(Append(root, s)) = ToSet(root) \union {s}
           /\ Len(Append(root, s)) = Len(root) + 1 /\ Append(root, s)[Len(root) + 1] = s
           /\ \A i \in 1..Len(root) : Append(root, s)[i] = root[i]
<1>1. Len(root) \in Nat /\ \A i \in 1..Len(root) : root[i] \in Subs /\ root[i] # s
    BY SetOfSeq
<1>2. PICK a : a = Append(root, s)
    OBVIOUS
<1>3. /\ a \in Seq(Subs) /\ Len(a) = Len(root) + 1 /\ a[Len(root) + 1] = s
      /\ \A i \in 1..Len(root) : a[i] = root[i]
    BY <1>2, AppendProperties
<1>4. \A i \in 1..Len(a) : i \in 1..Len(root) \/ i = Len(root) + 1
    BY <1>1, <1>3
<1>5. Distinct(a)
    BY <1>1, <1>3, <1>4 DEF Distinct
<1>6. ToSet(a) = ToSet(root) \union {s}
  <2>1. ASSUME NEW x \in ToSet(a) PROVE x \in ToSet(root) \union {s}
    <3>1. PICK j \in 1..Len(a) : a[j] = x
        BY <1>3, SetOfSeq
    <3>2. x = s \/ \E i \in 1..Len(root) : root[i] = x
        BY <1>3, <1>4, <3>1
    <3> QED BY <3>2, SetOfSeq
  <2>2. s \in ToSet(a)
      BY <1>1, <1>3, SetOfSeq
  <2>3. ASSUME NEW x \in ToSet(root) PROVE x \in ToSet(a)
    <3>1. PICK i \in 1..Len(root) : root[i] = x
        BY SetOfSeq
    <3>2. i \in 1..Len(a) /\ a[i] = x
        BY <1>1, <1>3, <3>1
    <3> QED BY <1>3, <3>2, SetOfSeq
  <2> QED BY <2>1, <2>2, <2>3
<1> QED BY <1>2, <1>3, <1>5, <1>6

EmergencyFirst(root) ==
    \A i, j \in 1..Len(root) :
        i < j /\ SubType[root[j]] = "EMERGENCY" => SubType[root[i]] = "EMERGENCY"

\* A subscriber is added at the end that its type asks for.
LEMMA AddEntryIs ==
    ASSUME NEW root \in Seq(Subs), Distinct(root), EmergencyFirst(root),
           NEW s \in Subs, s \notin ToSet(root)
    PROVE  /\ AddEntry(root, s) \in Seq(Subs) /\ Distinct(AddEntry(root, s))
           /\ ToSet(AddEntry(root, s)) = ToSet(root) \union {s}
           /\ EmergencyFirst(AddEntry(root, s))
<1>1. Len(root) \in Nat /\ \A i \in 1..Len(root) : root[i] \in Subs /\ root[i] # s
    BY SetOfSeq
<1>2. CASE SubType[s] = "EMERGENCY"
  <2>1. PICK a : a = AddEntry(root, s)
      OBVIOUS
  <2>2. PICK o : o = <<s>> /\ o \in Seq(Subs) /\ Len(o) = 1 /\ o[1] = s
    <3>1. <<s>> \in Seq(Subs) /\ Len(<<s>>) = 1 /\ <<s>>[1] = s
        OBVIOUS
    <3> QED BY <3>1, Zenon
  <2>3. /\ o \o root \in Seq(Subs) /\ Len(o \o root) = Len(o) + Len(root)
        /\ \A i \in 1..(Len(o) + Len(root)) :
               (o \o root)[i] = IF i <= Len(o) THEN o[i] ELSE root[i - Len(o)]
      BY <2>2, ConcatProperties
  <2>4. a = o \o root
      BY <1>2, <2>1, <2>2 DEF AddEntry
  <2>5. a \in Seq(Subs) /\ Len(a) = Len(root) + 1 /\ a[1] = s
      BY <1>1, <2>2, <2>3, <2>4
  <2>6. ASSUME NEW i \in 1..Len(root) PROVE a[i + 1] = root[i]
    <3>1. PICK j \in 1..(Len(o) + Len(root)) : j = i + 1
        BY <1>1, <2>2
    <3>2. (o \o root)[j] = IF j <= Len(o) THEN o[j] ELSE root[j - Len(o)]
        BY <2>3
    <3>3. ~(j <= Len(o)) /\ j - Len(o) = i
        BY <2>2, <3>1
    <3> QED BY <2>4, <3>1, <3>2, <3>3
  <2>7. ASSUME NEW j \in 1..Len(a), j # 1 PROVE \E i \in 1..Len(root) : j = i + 1 /\ a[j] = root[i]
    <3>1. PICK i \in 1..Len(root) : j = i + 1
        BY <1>1, <2>5, <2>7
    <3> QED BY <2>6, <3>1
  <2>8. Distinct(a)
    <3> SUFFICES ASSUME NEW i \in 1..Len(a), NEW j \in 1..Len(a), a[i] = a[j] PROVE i = j
        BY DEF Distinct
    <3>1. CASE i = 1
        BY <1>1, <2>5, <2>7, <3>1
    <3>2. CASE j = 1
        BY <1>1, <2>5, <2>7, <3>2
    <3>3. CASE i # 1 /\ j # 1
      <4>1. PICK k \in 1..Len(root) : i = k + 1 /\ a[i] = root[k]
          BY <2>7, <3>3
      <4>2. PICK l \in 1..Len(root) : j = l + 1 /\ a[j] = root[l]
          BY <2>7, <3>3
      <4>3. k = l
          BY <4>1, <4>2 DEF Distinct
      <4> QED BY <4>1, <4>2, <4>3
    <3> QED BY <3>1, <3>2, <3>3
  <2>9. ToSet(a) = ToSet(root) \union {s}
    <3>1. ASSUME NEW x \in ToSet(a) PROVE x \in ToSet(root) \union {s}
      <4>1. PICK j \in 1..Len(a) : a[j] = x
          BY <2>5, SetOfSeq
      <4>2. x = s \/ \E i \in 1..Len(root) : root[i] = x
          BY <2>5, <2>7, <4>1
      <4> QED BY <4>2, SetOfSeq
    <3>2. s \in ToSet(a)
        BY <1>1, <2>5, SetOfSeq
    <3>3. ASSUME NEW x \in ToSet(root) PROVE x \in ToSet(a)
      <4>1. PICK i \in 1..Len(root) : root[i] = x
          BY SetOfSeq
      <4>2. i + 1 \in 1..Len(a) /\ a[i + 1] = x
          BY <1>1, <2>5, <2>6, <4>1
      <4> QED BY <2>5, <4>2, SetOfSeq
    <3> QED BY <3>1, <3>2, <3>3
  <2>10. EmergencyFirst(a)
    <3> SUFFICES ASSUME NEW i \in 1..Len(a), NEW j \in 1..Len(a), i < j,
                        SubType[a[j]] = "EMERGENCY"
                 PROVE  SubType[a[i]] = "EMERGENCY"
        BY DEF EmergencyFirst
    <3>1. CASE i = 1
        BY <1>2, <2>5, <3>1
    <3>2. CASE i # 1
      <4>1. PICK k \in 1..Len(root) : i = k + 1 /\ a[i] = root[k]
          BY <2>7, <3>2
      <4>2. j # 1
          BY <4>1
      <4>3. PICK l \in 1..Len(root) : j = l + 1 /\ a[j] = root[l]
          BY <2>7, <4>2
      <4>4. k < l
          BY <4>1, <4>3
      <4> QED BY <4>1, <4>3, <4>4 DEF EmergencyFirst
    <3> QED BY <3>1, <3>2
  <2> QED BY <2>1, <2>5, <2>8, <2>9, <2>10
<1>3. CASE SubType[s] # "EMERGENCY"
  <2>1. PICK a : a = AddEntry(root, s)
      OBVIOUS
  <2>2. a = Append(root, s)
      BY <1>3, <2>1 DEF AddEntry
  <2>3. /\ a \in Seq(Subs) /\ Len(a) = Len(root) + 1 /\ a[Len(root) + 1] = s
        /\ \A i \in 1..Len(root) : a[i] = root[i]
        /\ Distinct(a) /\ ToSet(a) = ToSet(root) \union {s}
      BY <2>2, AppendIs
  <2>4. \A i \in 1..Len(a) : i \in 1..Len(root) \/ i = Len(root) + 1
      BY <1>1, <2>3
  <2>7. EmergencyFirst(a)
    <3> SUFFICES ASSUME NEW i \in 1..Len(a), NEW j \in 1..Len(a), i < j,
                        SubType[a[j]] = "EMERGENCY"
                 PROVE  SubType[a[i]] = "EMERGENCY"
        BY DEF EmergencyFirst
    <3>1. j \in 1..Len(root)
        BY <1>3, <2>3, <2>4
    <3>2. i \in 1..Len(root)
        BY <1>1, <3>1
    <3> QED BY <2>3, <3>1, <3>2 DEF EmergencyFirst
  <2> QED BY <2>1, <2>3, <2>7
<1> QED BY <1>2, <1>3

\* What leaves a list leaves the emergency subscribers in front.
LEMMA RemoveKeepsFirst ==
    ASSUME NEW root \in Seq(Subs), Distinct(root), EmergencyFirst(root), NEW s
    PROVE  EmergencyFirst(RemoveFirst(root, s))
<1> DEFINE r == RemoveFirst(root, s)
<1>1. \A i, j \in 1..Len(r) : i < j =>
          \E k, l \in 1..Len(root) : k < l /\ root[k] = r[i] /\ root[l] = r[j]
    BY RemoveFirstIs
<1> HIDE DEF r
<1>2. EmergencyFirst(r)
    BY <1>1 DEF EmergencyFirst
<1> QED BY <1>2 DEF r

------------------------------------------------------------------------------
(* The walk over the free subscribers when an event is created. *)
Start == [subs |-> <<>>, free |-> <<>>]
IsWalk(F, free, name, m) ==
    F = [i \in 0..m |-> IF i = 0 THEN Start ELSE Adopt(F[i - 1], free[i], name)]

LEMMA WalkExists ==
    ASSUME NEW free, Len(free) \in Nat, NEW name
    PROVE  \E F : IsWalk(F, free, name, Len(free))
<1> DEFINE Bad == {m \in 0..Len(free) : ~ \E F : IsWalk(F, free, name, m)}
<1>1. ASSUME Bad # {} PROVE FALSE
  <2>1. PICK m \in Bad : \A j \in Bad : m <= j
    <3>1. Bad \in SUBSET Nat /\ Bad # {}
        BY <1>1
    <3> HIDE DEF Bad
    <3> QED BY <3>1, HasMin
  <2>2. CASE m = 0
    <3>1. PICK F : F = [i \in 0..0 |-> Start]
        OBVIOUS
    <3>2. \A i \in 0..0 : i = 0
        OBVIOUS
    <3>3. IsWalk(F, free, name, 0)
        BY <3>1, <3>2 DEF IsWalk
    <3> QED BY <2>1, <2>2, <3>3
  <2>3. CASE m # 0
    <3>1. PICK k \in 0..Len(free) : m = k + 1 /\ k \notin Bad
        BY <2>1, <2>3
    <3>2. PICK F : IsWalk(F, free, name, k)
        BY <3>1
    <3>3. PICK H : H = [i \in 0..m |-> IF i = m THEN Adopt(F[k], free[m], name) ELSE F[i]]
        OBVIOUS
    <3>4. ASSUME NEW i \in 0..m
          PROVE  H[i] = IF i = 0 THEN Start ELSE Adopt(H[i - 1], free[i], name)
      <4>1. CASE i = m
        <5>1. H[i] = Adopt(F[k], free[m], name) /\ H[k] = F[k] /\ i - 1 = k
            BY <2>3, <3>1, <3>3, <4>1
        <5> QED BY <2>3, <4>1, <5>1
      <4>2. CASE i # m
        <5>1. i \in 0..k /\ H[i] = F[i]
            BY <3>1, <3>3, <4>2
        <5>2. F[i] = IF i = 0 THEN Start ELSE Adopt(F[i - 1], free[i], name)
            BY <3>2, <5>1 DEF IsWalk
        <5>3. i # 0 => H[i - 1] = F[i - 1]
            BY <3>1, <3>3, <5>1
        <5> QED BY <5>1, <5>2, <5>3
      <4> QED BY <4>1, <4>2
    <3>5. IsWalk(H, free, name, m)
        BY <3>3, <3>4 DEF IsWalk
    <3> QED BY <2>1, <3>5
  <2> QED BY <2>2, <2>3
<1> QED BY <1>1

\* After i of them: every one of these is on one of the two lists, and on no other.
WalkedTo(w, free, i) ==
    /\ w.subs \in Seq(Subs) /\ w.free \in Seq(Subs)
    /\ Distinct(w.subs) /\ Distinct(w.free) /\ EmergencyFirst(w.subs)
    /\ ToSet(w.subs) \union ToSet(w.free) = {free[j] : j \in 1..i}
    /\ ToSet(w.subs) \intersect ToSet(w.free) = {}

LEMMA AdoptIs ==
    ASSUME NEW free \in Seq(Subs), Distinct(free), NEW k \in Nat, k + 1 \in 1..Len(free),
           NEW w \in [subs : Seq(Subs), free : Seq(Subs)], WalkedTo(w, free, k), NEW name
    PROVE  /\ Adopt(w, free[k + 1], name) \in [subs : Seq(Subs), free : Seq(Subs)]
           /\ WalkedTo(Adopt(w, free[k + 1], name), free, k + 1)
<1>1. PICK s \in Subs : s = free[k + 1]
    OBVIOUS
<1>2. PICK v : v = Adopt(w, s, name)
    OBVIOUS
<1>3. {free[j] : j \in 1..(k + 1)} = {free[j] : j \in 1..k} \union {s}
  <2>1. \A j : j \in 1..(k + 1) <=> j \in 1..k \/ j = k + 1
      OBVIOUS
  <2> QED BY <1>1, <2>1
<1>4. s \notin {free[j] : j \in 1..k}
    BY <1>1 DEF Distinct
<1>5. s \notin ToSet(w.subs) /\ s \notin ToSet(w.free)
    BY <1>4 DEF WalkedTo
<1>6. CASE SubName[s] = name
  <2>1. v.subs = AddEntry(w.subs, s) /\ v.free = w.free
        /\ v = [subs |-> AddEntry(w.subs, s), free |-> w.free]
      BY <1>2, <1>6 DEF Adopt
  <2>2. /\ AddEntry(w.subs, s) \in Seq(Subs) /\ Distinct(AddEntry(w.subs, s))
        /\ ToSet(AddEntry(w.subs, s)) = ToSet(w.subs) \union {s}
        /\ EmergencyFirst(AddEntry(w.subs, s))
    <3>1. PICK r \in Seq(Subs) : r = w.subs
        OBVIOUS
    <3>2. Distinct(r) /\ EmergencyFirst(r) /\ s \notin ToSet(r)
        BY <1>5, <3>1, Zenon DEF WalkedTo
    <3> QED BY <3>1, <3>2, AddEntryIs
  <2>3. v \in [subs : Seq(Subs), free : Seq(Subs)]
      BY <2>1, <2>2
  <2>4. WalkedTo(v, free, k + 1)
    <3>1. ToSet(v.subs) = ToSet(w.subs) \union {s}
        BY <2>1, <2>2, Zenon
    <3> QED BY <1>3, <1>5, <2>1, <2>2, <3>1, Zenon DEF WalkedTo
  <2> QED BY <1>1, <1>2, <2>3, <2>4
<1>7. CASE SubName[s] # name
  <2>1. v.subs = w.subs /\ v.free = Append(w.free, s)
        /\ v = [subs |-> w.subs, free |-> Append(w.free, s)]
      BY <1>2, <1>7 DEF Adopt
  <2>2. /\ Append(w.free, s) \in Seq(Subs) /\ Distinct(Append(w.free, s))
        /\ ToSet(Append(w.free, s)) = ToSet(w.free) \union {s}
    <3>1. PICK r \in Seq(Subs) : r = w.free
        OBVIOUS
    <3>2. Distinct(r) /\ s \notin ToSet(r)
        BY <1>5, <3>1, Zenon DEF WalkedTo
    <3> QED BY <3>1, <3>2, AppendIs
  <2>3. v \in [subs : Seq(Subs), free : Seq(Subs)]
      BY <2>1, <2>2
  <2>4. WalkedTo(v, free, k + 1)
    <3>1. ToSet(v.free) = ToSet(w.free) \union {s}
        BY <2>1, <2>2, Zenon
    <3> QED BY <1>3, <1>5, <2>1, <2>2, <3>1, Zenon DEF WalkedTo
  <2> QED BY <1>1, <1>2, <2>3, <2>4
<1> QED BY <1>6, <1>7

\* The new event takes over the subscribers that waited for it, emergency ones first, and the
\* others stay free: none is lost and none is on both lists.
LEMMA AdoptedIs ==
    ASSUME NEW free \in Seq(Subs), Distinct(free), NEW name
    PROVE  /\ Adopted(free, name) \in [subs : Seq(Subs), free : Seq(Subs)]
           /\ WalkedTo(Adopted(free, name), free, Len(free))
<1>1. Len(free) \in Nat
    OBVIOUS
<1>2. PICK F : IsWalk(F, free, name, Len(free)) /\ Adopted(free, name) = F[Len(free)]
  <2>1. \E F : IsWalk(F, free, name, Len(free))
      BY <1>1, WalkExists
  <2>2. \E F : F = [i \in 0..Len(free) |-> IF i = 0 THEN [subs |-> <<>>, free |-> <<>>]
                                          ELSE Adopt(F[i - 1], free[i], name)]
      BY <2>1, Zenon DEF IsWalk, Start
  <2>3. \E F : /\ F = [i \in 0..Len(free) |-> IF i = 0 THEN [subs |-> <<>>, free |-> <<>>]
                                             ELSE Adopt(F[i - 1], free[i], name)]
               /\ Adopted(free, name) = F[Len(free)]
      BY <2>2, Zenon DEF Adopted
  <2> QED BY <2>3, Zenon DEF IsWalk, Start
<1> DEFINE Good(i) == F[i] \in [subs : Seq(Subs), free : Seq(Subs)] /\ WalkedTo(F[i], free, i)
           Bad == {m \in 0..Len(free) : ~ Good(m)}
<1>3. ASSUME Bad # {} PROVE FALSE
  <2>1. PICK m \in Bad : \A j \in Bad : m <= j
    <3>1. Bad \in SUBSET Nat /\ Bad # {}
        BY <1>3
    <3> HIDE DEF Bad
    <3> QED BY <3>1, HasMin
  <2>2. CASE m = 0
    <3>1. F[0] = Start
        BY <1>1, <1>2 DEF IsWalk
    <3>2. Start \in [subs : Seq(Subs), free : Seq(Subs)]
        BY DEF Start
    <3>3. Start.subs = <<>> /\ Start.free = <<>>
        BY DEF Start
    <3>4. <<>> \in Seq(Subs) /\ Distinct(<<>>) /\ EmergencyFirst(<<>>) /\ ToSet(<<>>) = {}
        BY DEF Distinct, EmergencyFirst, ToSet
    <3>5. {free[j] : j \in 1..0} = {}
        OBVIOUS
    <3>6. WalkedTo(Start, free, 0)
        BY <3>3, <3>4, <3>5, Zenon DEF WalkedTo
    <3>7. Good(0)
        BY <3>1, <3>2, <3>6
    <3> QED BY <2>1, <2>2, <3>7
  <2>3. CASE m # 0
    <3>1. PICK k \in 0..Len(free) : m = k + 1 /\ k \notin Bad
        BY <2>1, <2>3
    <3>2. Good(k)
        BY <3>1
    <3>3. F[m] = Adopt(F[k], free[k + 1], name)
      <4>1. m \in 0..Len(free) /\ m - 1 = k /\ m = k + 1
          BY <3>1
      <4>2. F[m] = Adopt(F[m - 1], free[m], name)
          BY <1>2, <2>3, <4>1 DEF IsWalk
      <4> QED BY <4>1, <4>2
    <3>4. k \in Nat /\ k + 1 \in 1..Len(free)
        BY <2>1, <3>1
    <3>5. Good(m)
      <4>1. PICK w : w = F[k]
          OBVIOUS
      <4>2. w \in [subs : Seq(Subs), free : Seq(Subs)] /\ WalkedTo(w, free, k)
          BY <3>2, <4>1
      <4>3. /\ Adopt(w, free[k + 1], name) \in [subs : Seq(Subs), free : Seq(Subs)]
            /\ WalkedTo(Adopt(w, free[k + 1], name), free, k + 1)
          BY <3>4, <4>2, AdoptIs
      <4> QED BY <3>1, <3>3, <4>1, <4>3, Zenon
    <3> QED BY <2>1, <3>5
  <2> QED BY <2>2, <2>3
<1>4. Good(Len(free))
    BY <1>1, <1>3
<1> QED BY <1>2, <1>4

------------------------------------------------------------------------------
(* The walk of a publisher. *)
LEMMA WalkStarts ==
    ASSUME NEW root \in Seq(Subs), Distinct(root), NEW r,
           r.p = First(root), r.n = After(root, First(root)), r.due = root, r.got = <<>>
    PROVE  InWalk(r, root)
<1>1. Len(root) \in Nat /\ Len(r.got) = 0
    OBVIOUS
<1>2. CASE root = <<>>
  <2>1. First(root) = None /\ After(root, None) = None
      BY <1>2, AfterIs DEF First
  <2>2. Len(root) = 0
      BY <1>2
  <2>3. At(root, 1) = None /\ At(root, 2) = None
      BY <2>2 DEF At
  <2> QED BY <1>1, <2>1, <2>2, <2>3 DEF InWalk
<1>3. CASE root # <<>>
  <2>1. 1 \in 1..Len(root) /\ First(root) = root[1]
      BY <1>3 DEF First
  <2>2. After(root, root[1]) = At(root, 1 + 1)
      BY <2>1, AfterIs
  <2>3. r.p = At(root, 1) /\ r.n = At(root, 2)
      BY <2>1, <2>2 DEF At
  <2>4. \A k \in 1..Len(root) : root[Len(root) - (Len(root) - 0) + k] = root[0 + k]
      BY <1>1
  <2> QED BY <1>1, <2>3, <2>4 DEF InWalk
<1> QED BY <1>2, <1>3

\* A walk that has an entry to call finds it on the list, and is a walk again after it.
LEMMA WalkGoesOn ==
    ASSUME NEW root \in Seq(Subs), Distinct(root), NEW due \in Seq(Subs),
           NEW got \in Seq(Subs), NEW r, r.due = due, r.got = got, InWalk(r, root), r.p # None,
           NEW q, q.due = due, q.got = Append(got, r.p), q.p = r.n, q.n = After(root, r.n)
    PROVE  r.p \in ToSet(root) /\ InWalk(q, Dispatched(r.p, root))
<1> DEFINE g == Len(got)
           rest == Len(due) - g
           k == Len(root) - rest + 1
<1>1. Len(root) \in Nat /\ Len(due) \in Nat /\ g \in Nat
    OBVIOUS
<1>2. /\ g <= Len(due) /\ \A j \in 1..g : got[j] = due[j]
      /\ r.p = At(due, g + 1) /\ r.n = At(due, g + 2)
      /\ rest <= Len(root)
      /\ \A j \in 1..rest : root[Len(root) - rest + j] = due[g + j]
    BY DEF InWalk
<1>3. g + 1 \in 1..Len(due) /\ r.p = due[g + 1]
    BY <1>2 DEF At
<1>4. rest \in Nat /\ rest >= 1 /\ k \in 1..Len(root) /\ root[k] = r.p
    BY <1>1, <1>2, <1>3
<1>5. r.p \in ToSet(root)
    BY <1>4, SetOfSeq
<1>6. r.p \in Subs
    BY <1>4
<1>7. /\ Append(got, r.p) \in Seq(Subs) /\ Len(Append(got, r.p)) = g + 1
      /\ Append(got, r.p)[g + 1] = r.p /\ \A j \in 1..g : Append(got, r.p)[j] = got[j]
    BY <1>6, AppendProperties
<1>8. After(root, r.n) = At(due, g + 3)
  <2>1. CASE rest >= 2
    <3>1. g + 2 \in 1..Len(due) /\ k + 1 \in 1..Len(root) /\ root[k + 1] = due[g + 2]
        BY <1>1, <1>2, <1>4, <2>1
    <3>2. r.n = root[k + 1]
        BY <1>2, <3>1 DEF At
    <3>3. After(root, root[k + 1]) = At(root, (k + 1) + 1)
        BY <3>1, AfterIs
    <3>4. CASE rest >= 3
      <4>1. g + 3 \in 1..Len(due) /\ (k + 1) + 1 \in 1..Len(root)
            /\ root[(k + 1) + 1] = due[g + 3]
          BY <1>1, <1>2, <1>4, <3>4
      <4> QED BY <3>2, <3>3, <4>1 DEF At
    <3>5. CASE ~(rest >= 3)
      <4>1. g + 3 \notin 1..Len(due) /\ (k + 1) + 1 \notin 1..Len(root)
          BY <1>1, <1>4, <2>1, <3>5
      <4> QED BY <3>2, <3>3, <4>1 DEF At
    <3> QED BY <3>4, <3>5
  <2>2. CASE ~(rest >= 2)
    <3>1. g + 2 \notin 1..Len(due) /\ g + 3 \notin 1..Len(due)
        BY <1>1, <1>4, <2>2
    <3>2. r.n = None
        BY <1>2, <3>1 DEF At
    <3> QED BY <3>1, <3>2, AfterIs DEF At
  <2> QED BY <2>1, <2>2
<1> DEFINE new == Dispatched(r.p, root)
<1>9. /\ Len(new) \in Nat /\ rest - 1 <= Len(new)
      /\ \A j \in 1..(rest - 1) : new[Len(new) - (rest - 1) + j] = root[k + j]
  <2>1. CASE SubType[r.p] = "ONETIME"
    <3>1. new = RemoveAt(root, k)
      <4>1. RemoveFirst(root, root[k]) = RemoveAt(root, k)
          BY <1>4, RemoveFirstAt
      <4> QED BY <1>4, <2>1, <4>1 DEF Dispatched
    <3>2. /\ Len(new) = Len(root) - 1
          /\ \A i \in 1..(Len(root) - 1) : new[i] = IF i < k THEN root[i] ELSE root[i + 1]
      <4> HIDE DEF new, k, rest
      <4>1. k \in 1..Len(root)
          BY <1>4
      <4>2. /\ Len(RemoveAt(root, k)) = Len(root) - 1
            /\ \A i \in 1..(Len(root) - 1) :
                   RemoveAt(root, k)[i] = IF i < k THEN root[i] ELSE root[i + 1]
          BY <4>1, RemoveAtIs
      <4> QED BY <3>1, <4>2, Zenon
    <3> HIDE DEF new
    <3>3. ASSUME NEW j \in 1..(rest - 1)
          PROVE  new[Len(new) - (rest - 1) + j] = root[k + j]
      <4> DEFINE i == Len(new) - (rest - 1) + j
      <4>1. Len(new) = Len(root) - 1
          BY <3>2
      <4>2. i \in 1..(Len(root) - 1) /\ ~(i < k) /\ i + 1 = k + j
          BY <1>1, <1>4, <4>1
      <4> HIDE DEF i
      <4>3. new[i] = root[i + 1]
          BY <3>2, <4>2
      <4> QED BY <4>2, <4>3 DEF i
    <3> QED BY <1>1, <1>4, <3>2, <3>3
  <2>2. CASE SubType[r.p] # "ONETIME"
    <3>1. new = root
        BY <2>2 DEF Dispatched
    <3>2. \A j \in 1..(rest - 1) : Len(root) - (rest - 1) + j = k + j
        BY <1>1, <1>4
    <3> QED BY <1>1, <1>4, <3>1, <3>2
  <2> QED BY <2>1, <2>2
<1> HIDE DEF new
<1>10. \A j \in 1..(rest - 1) : root[k + j] = due[(g + 1) + j]
  <2> TAKE j \in 1..(rest - 1)
  <2>1. PICK i \in 1..rest : i = j + 1
      BY <1>4
  <2>2. Len(root) - rest + i = k + j /\ g + i = (g + 1) + j
      BY <1>1, <1>4, <2>1
  <2> QED BY <1>2, <2>2
<1>11. \A j \in 1..(g + 1) : Append(got, r.p)[j] = due[j]
  <2>1. \A j \in 1..(g + 1) : j \in 1..g \/ j = g + 1
      BY <1>1
  <2> QED BY <1>2, <1>3, <1>7, <2>1
<1>12. InWalk(q, new)
  <2>1. Len(q.got) = g + 1 /\ Len(q.due) - Len(q.got) = rest - 1
      BY <1>1, <1>7
  <2>2. q.p = At(q.due, (g + 1) + 1) /\ q.n = At(q.due, (g + 1) + 2)
      BY <1>1, <1>2, <1>8
  <2>3. g + 1 <= Len(due)
      BY <1>3
  <2>4. \A j \in 1..(rest - 1) : new[Len(new) - (rest - 1) + j] = due[(g + 1) + j]
      BY <1>9, <1>10
  <2> HIDE DEF g, rest, k
  <2> QED BY <1>9, <1>11, <2>1, <2>2, <2>3, <2>4 DEF InWalk
<1> QED BY <1>5, <1>12 DEF new

LEMMA WalkEnds ==
    ASSUME NEW root, NEW due \in Seq(Subs), NEW got \in Seq(Subs), NEW r,
           r.due = due, r.got = got, InWalk(r, root), r.p = None
    PROVE  got = due
<1>1. /\ Len(got) <= Len(due) /\ \A j \in 1..Len(got) : got[j] = due[j]
      /\ At(due, Len(got) + 1) = None
    BY DEF InWalk
<1>2. \A j \in 1..Len(due) : due[j] # None
    BY TalEventAssumption
<1>3. Len(got) + 1 \notin 1..Len(due)
    BY <1>1, <1>2 DEF At
<1>4. Len(got) = Len(due)
    BY <1>1, <1>3
<1> QED BY <1>1, <1>4, SeqEqual

------------------------------------------------------------------------------
(* Parts that the steps share. *)
LEMMA ThShape ==
    ASSUME NEW r \in ThRec
    PROVE  /\ r.pc \in {"idle", "create", "publish", "dispatch", "subscribe", "unsubscribe"}
           /\ r.pc = "create" => r \in [pc : {"create"}, name : Names]
           /\ r.pc = "publish" => r \in [pc : {"publish"}, node : Nat]
           /\ r.pc = "dispatch" =>
                 r \in [pc : {"dispatch"}, node : Nat, p : Subs \union {None},
                        n : Subs \union {None}, due : Seq(Subs), got : Seq(Subs)]
           /\ r.pc \in {"subscribe", "unsubscribe"} =>
                 r \in [pc : {"subscribe", "unsubscribe"}, sub : Subs, node : Nat]
BY DEF ThRec, Idle

LEMMA NodeGet ==
    ASSUME event_root \in Seq(Node), NEW name
    PROVE  EventNodeGet(name) \in 0..Len(event_root)
<1> DEFINE I == {i \in 1..Len(event_root) : event_root[i].name = name}
<1>1. EventNodeGet(name) = IF I # {} THEN Min(I) ELSE 0
    BY Zenon DEF EventNodeGet, SelectInSeq
<1>2. CASE I = {}
    BY <1>1, <1>2
<1>3. CASE I # {}
  <2>1. I \in SUBSET Nat
      OBVIOUS
  <2>2. Min(I) \in I
    <3> HIDE DEF I
    <3> QED BY <1>3, <2>1, HasMin
  <2> QED BY <1>1, <1>3, <2>2
<1> QED BY <1>2, <1>3

LEMMA GotoIs ==
    ASSUME EventTypes, NEW t \in Threads, NEW r \in ThRec, Goto(t, r)
    PROVE  /\ th' \in [Threads -> ThRec] /\ th'[t] = r
           /\ \A u \in Threads : u # t => th'[u] = th[u]
BY DEF EventTypes, Goto

LEMMA Opened ==
    ASSUME EventTypes
    PROVE  /\ Len(event_root) \in Nat
           /\ \A i \in 1..Len(event_root) :
                 /\ event_root[i] \in Node /\ event_root[i].subs \in Seq(Subs)
                 /\ event_root[i].name \in Names /\ event_root[i].owner \in Threads \union {None}
           /\ \A t \in Threads : th[t] \in ThRec
<1>1. Len(event_root) \in Nat /\ \A i \in 1..Len(event_root) : event_root[i] \in Node
    BY DEF EventTypes
<1>2. \A e \in Node : e.subs \in Seq(Subs) /\ e.name \in Names /\ e.owner \in Threads \union {None}
    BY DEF Node
<1> QED BY <1>1, <1>2, Zenon DEF EventTypes

\* A thread that takes or leaves no mutex changes neither owners nor walks, when the lists that
\* are walked stay as they are.
LEMMA Aside ==
    ASSUME EventInv, NEW t \in Threads, NEW r \in ThRec, Goto(t, r),
           th[t].pc # "dispatch", r.pc # "dispatch",
           Len(event_root') >= Len(event_root), Len(event_root') \in Nat,
           \A i \in 1..Len(event_root) : event_root'[i].owner = event_root[i].owner,
           \A i \in 1..Len(event_root') : i > Len(event_root) => event_root'[i].owner = None,
           \A i \in 1..Len(event_root) :
               event_root[i].owner # None => event_root'[i].subs = event_root[i].subs
    PROVE  Owners' /\ WalksGood'
<1>1. /\ th' \in [Threads -> ThRec] /\ th'[t] = r
      /\ \A u \in Threads : u # t => th'[u] = th[u]
    BY GotoIs DEF EventInv
<1>2. \A u \in Threads : th[u].pc = "dispatch" => th[u].node \in 1..Len(event_root)
    BY DEF EventInv, EventTypes
<1>3. Len(event_root) \in Nat
    BY Opened DEF EventInv
<1>4. \A u \in Threads : u # None
    BY TalEventAssumption
<1>5. Owners'
  <2> SUFFICES ASSUME NEW i \in 1..Len(event_root'), NEW u \in Threads
               PROVE  event_root'[i].owner = u <=> th'[u].pc = "dispatch" /\ th'[u].node = i
      BY DEF Owners
  <2>1. CASE i \in 1..Len(event_root)
    <3>1. event_root[i].owner = u <=> th[u].pc = "dispatch" /\ th[u].node = i
        BY <2>1 DEF EventInv, Owners
    <3>2. event_root'[i].owner = event_root[i].owner
        BY <2>1
    <3> QED BY <1>1, <3>1, <3>2
  <2>2. CASE i \notin 1..Len(event_root)
    <3>1. i > Len(event_root)
        BY <1>3, <2>2
    <3>2. event_root'[i].owner = None
        BY <3>1
    <3> QED BY <1>1, <1>2, <1>4, <2>2, <3>2
  <2> QED BY <2>1, <2>2
<1>6. WalksGood'
  <2> SUFFICES ASSUME NEW u \in Threads, th'[u].pc = "dispatch"
               PROVE  InWalk(th'[u], event_root'[th'[u].node].subs)
      BY DEF WalksGood
  <2>1. u # t /\ th'[u] = th[u]
      BY <1>1
  <2>2. th[u].node \in 1..Len(event_root) /\ event_root[th[u].node].owner = u
      BY <1>2, <2>1 DEF EventInv, Owners
  <2>3. event_root'[th[u].node].subs = event_root[th[u].node].subs
      BY <1>4, <2>2
  <2>4. InWalk(th[u], event_root[th[u].node].subs)
      BY <2>1 DEF EventInv, WalksGood
  <2> QED BY <2>1, <2>3, <2>4
<1> QED BY <1>5, <1>6

\* The list number i becomes l, and all the others stay.
Changed(i, l) ==
    /\ event_root' \in Seq(Node) /\ Len(event_root') = Len(event_root)
    /\ free_subscribe_root' \in Seq(Subs)
    /\ \A j \in 0..Len(event_root) : ListAt(j)' = IF j = i THEN l ELSE ListAt(j)

LEMMA ListsAfter ==
    ASSUME EventInv, NEW i \in 0..Len(event_root), NEW l \in Seq(Subs), Changed(i, l),
           Distinct(l), i # 0 => EmergencyFirst(l)
    PROVE  ListsDistinct' /\ EmergencyAhead'
<1>1. Len(event_root) \in Nat /\ 0 \in 0..Len(event_root)
    BY Opened DEF EventInv
<1>2. free_subscribe_root' = IF i = 0 THEN l ELSE free_subscribe_root
    BY <1>1 DEF Changed, ListAt
<1>3. \A j \in 1..Len(event_root) :
          event_root'[j].subs = IF j = i THEN l ELSE event_root[j].subs
  <2> TAKE j \in 1..Len(event_root)
  <2>1. j \in 0..Len(event_root) /\ j # 0
      OBVIOUS
  <2> QED BY <2>1 DEF Changed, ListAt
<1>4. Len(event_root') = Len(event_root)
    BY DEF Changed
<1>5. ListsDistinct'
  <2>1. Distinct(free_subscribe_root')
      BY <1>2 DEF EventInv, ListsDistinct
  <2>2. ASSUME NEW j \in 1..Len(event_root') PROVE Distinct(event_root'[j].subs)
    <3>1. j \in 1..Len(event_root)
        BY <1>4
    <3>2. CASE j = i
        BY <1>3, <3>1, <3>2
    <3>3. CASE j # i
        BY <1>3, <3>1, <3>3 DEF EventInv, ListsDistinct
    <3> QED BY <3>2, <3>3
  <2> QED BY <2>1, <2>2 DEF ListsDistinct
<1>6. EmergencyAhead'
  <2> SUFFICES ASSUME NEW j \in 1..Len(event_root') PROVE EmergencyFirst(event_root'[j].subs)
      BY DEF EmergencyAhead, EmergencyFirst
  <2>1. j \in 1..Len(event_root)
      BY <1>4
  <2>2. CASE j = i
      BY <1>3, <2>1, <2>2
  <2>3. CASE j # i
    <3>1. EmergencyFirst(event_root[j].subs)
        BY <2>1 DEF EventInv, EmergencyAhead, EmergencyFirst
    <3>2. event_root'[j].subs = event_root[j].subs
        BY <1>3, <2>1, <2>3
    <3> QED BY <3>1, <3>2
  <2> QED BY <2>2, <2>3
<1> QED BY <1>5, <1>6

LEMMA PlacesFinite ==
    ASSUME Len(event_root) \in Nat, NEW s
    PROVE  IsFiniteSet(Places(s)) /\ Cardinality(Places(s)) \in Nat
<1>1. IsFiniteSet(0..Len(event_root))
    BY FS_Interval
<1>2. Places(s) \subseteq 0..Len(event_root)
    BY DEF Places
<1> QED BY <1>1, <1>2, FS_Subset, FS_CardinalityType

\* Counting the places of a subscriber after such a change.
LEMMA PlacesAfter ==
    ASSUME EventInv, NEW i \in 0..Len(event_root), NEW l, Changed(i, l), NEW s
    PROVE  /\ IsFiniteSet(Places(s)') /\ Cardinality(Places(s)') \in Nat
           /\ Cardinality(Places(s)) \in Nat
           /\ s \in ToSet(l) /\ s \in ToSet(ListAt(i))
                 => Cardinality(Places(s)') = Cardinality(Places(s))
           /\ s \notin ToSet(l) /\ s \notin ToSet(ListAt(i))
                 => Cardinality(Places(s)') = Cardinality(Places(s))
           /\ s \in ToSet(l) /\ s \notin ToSet(ListAt(i))
                 => Cardinality(Places(s)') = Cardinality(Places(s)) + 1
           /\ s \notin ToSet(l) /\ s \in ToSet(ListAt(i))
                 => Cardinality(Places(s)') = Cardinality(Places(s)) - 1
<1>1. Len(event_root) \in Nat /\ Len(event_root') = Len(event_root)
    BY Opened DEF EventInv, Changed
<1>2. IsFiniteSet(Places(s)) /\ Cardinality(Places(s)) \in Nat
    BY <1>1, PlacesFinite
<1>3. Places(s)' = {j \in 0..Len(event_root) : s \in ToSet(IF j = i THEN l ELSE ListAt(j))}
    BY <1>1 DEF Places, Changed
<1>4. i \in Places(s) <=> s \in ToSet(ListAt(i))
    BY DEF Places
<1>5. CASE s \in ToSet(l)
  <2>1. Places(s)' = Places(s) \union {i}
      BY <1>3, <1>5 DEF Places
  <2>2. IsFiniteSet(Places(s)')
        /\ Cardinality(Places(s)') = IF i \in Places(s) THEN Cardinality(Places(s))
                                                        ELSE Cardinality(Places(s)) + 1
    <3>1. /\ IsFiniteSet(Places(s) \union {i})
          /\ Cardinality(Places(s) \union {i}) = IF i \in Places(s) THEN Cardinality(Places(s))
                                                 ELSE Cardinality(Places(s)) + 1
        BY <1>2, FS_AddElement
    <3> QED BY <2>1, <3>1, Zenon
  <2> QED BY <1>2, <1>4, <1>5, <2>2
<1>6. CASE s \notin ToSet(l)
  <2>1. Places(s)' = Places(s) \ {i}
      BY <1>3, <1>6 DEF Places
  <2>2. IsFiniteSet(Places(s)')
        /\ Cardinality(Places(s)') = IF i \in Places(s) THEN Cardinality(Places(s)) - 1
                                                        ELSE Cardinality(Places(s))
    <3>1. /\ IsFiniteSet(Places(s) \ {i})
          /\ Cardinality(Places(s) \ {i}) = IF i \in Places(s) THEN Cardinality(Places(s)) - 1
                                            ELSE Cardinality(Places(s))
        BY <1>2, FS_RemoveElement
    <3> QED BY <2>1, <3>1, Zenon
  <2>3. Cardinality(Places(s)') \in Nat
      BY <2>2, FS_CardinalityType
  <2> QED BY <1>2, <1>4, <1>6, <2>2, <2>3
<1> QED BY <1>5, <1>6

LEMMA TypesAfter ==
    ASSUME EventInv, NEW t \in Threads, NEW r \in ThRec, Goto(t, r),
           event_root' \in Seq(Node), Len(event_root') >= Len(event_root),
           free_subscribe_root' \in Seq(Subs),
           adds' \in [Subs -> Nat], calls' \in [Subs -> Nat], ops' \in 0..MaxOps,
           r.pc \in {"publish", "dispatch"} => r.node \in 1..Len(event_root'),
           r.pc \in {"subscribe", "unsubscribe"} => r.node \in 0..Len(event_root')
    PROVE  EventTypes'
<1>1. /\ th' \in [Threads -> ThRec] /\ th'[t] = r
      /\ \A u \in Threads : u # t => th'[u] = th[u]
    BY GotoIs DEF EventInv
<1>2. Len(event_root) \in Nat /\ Len(event_root') \in Nat
    BY DEF EventInv, EventTypes
<1>3. ASSUME NEW u \in Threads
      PROVE  /\ th'[u].pc \in {"publish", "dispatch"} => th'[u].node \in 1..Len(event_root')
             /\ th'[u].pc \in {"subscribe", "unsubscribe"} =>
                   th'[u].node \in 0..Len(event_root')
  <2>1. CASE u = t
      BY <1>1, <2>1
  <2>2. CASE u # t
    <3>1. /\ th[u].pc \in {"publish", "dispatch"} => th[u].node \in 1..Len(event_root)
          /\ th[u].pc \in {"subscribe", "unsubscribe"} => th[u].node \in 0..Len(event_root)
        BY DEF EventInv, EventTypes
    <3> QED BY <1>1, <1>2, <2>2, <3>1
  <2> QED BY <2>1, <2>2
<1> QED BY <1>1, <1>3 DEF EventTypes

LEMMA ChangedNode ==
    ASSUME EventTypes, NEW i \in 1..Len(event_root), NEW l \in Seq(Subs),
           event_root' = [event_root EXCEPT ![i].subs = l], UNCHANGED free_subscribe_root
    PROVE  /\ Changed(i, l)
           /\ \A j \in 1..Len(event_root) :
                 /\ event_root'[j].owner = event_root[j].owner
                 /\ j # i => event_root'[j].subs = event_root[j].subs
           /\ event_root'[i].subs = l
<1>1. Len(event_root) \in Nat /\ event_root[i] \in Node /\ event_root \in Seq(Node)
    BY Opened DEF EventTypes
<1>2. PICK e : e = [event_root[i] EXCEPT !.subs = l]
    OBVIOUS
<1>3. e \in Node /\ e.subs = l /\ e.owner = event_root[i].owner
    BY <1>1, <1>2 DEF Node
<1>4. event_root' = [event_root EXCEPT ![i] = e]
    BY <1>2
<1>5. /\ event_root' \in Seq(Node) /\ Len(event_root') = Len(event_root)
      /\ event_root'[i] = e /\ \A j \in 1..Len(event_root) : j # i => event_root'[j] = event_root[j]
  <2>1. /\ [event_root EXCEPT ![i] = e] \in Seq(Node)
        /\ Len([event_root EXCEPT ![i] = e]) = Len(event_root)
        /\ \A j \in 1..Len(event_root) :
               [event_root EXCEPT ![i] = e][j] = IF j = i THEN e ELSE event_root[j]
      BY <1>1, <1>3, ExceptSeq
  <2> QED BY <1>4, <2>1, Zenon
<1>6. \A j \in 1..Len(event_root) :
          /\ event_root'[j].owner = event_root[j].owner
          /\ j # i => event_root'[j].subs = event_root[j].subs
    BY <1>3, <1>5
<1>7. ASSUME NEW j \in 0..Len(event_root) PROVE ListAt(j)' = IF j = i THEN l ELSE ListAt(j)
  <2>1. CASE j = 0
      BY <2>1 DEF ListAt
  <2>2. CASE j # 0
    <3>1. j \in 1..Len(event_root)
        BY <1>1, <2>2
    <3> QED BY <1>3, <1>5, <2>2, <3>1 DEF ListAt
  <2> QED BY <2>1, <2>2
<1> QED BY <1>3, <1>5, <1>6, <1>7 DEF Changed, EventTypes

LEMMA ChangedFree ==
    ASSUME EventTypes, NEW l \in Seq(Subs), free_subscribe_root' = l, UNCHANGED event_root
    PROVE  Changed(0, l)
<1>1. ASSUME NEW j \in 0..Len(event_root) PROVE ListAt(j)' = IF j = 0 THEN l ELSE ListAt(j)
    BY DEF ListAt
<1> QED BY <1>1 DEF Changed, EventTypes

LEMMA EnteredAdded ==
    ASSUME EventInv, NEW i \in 0..Len(event_root), NEW l, Changed(i, l), NEW s \in Subs,
           s \notin ToSet(ListAt(i)), ToSet(l) = ToSet(ListAt(i)) \union {s},
           adds' = [adds EXCEPT ![s] = @ + 1], UNCHANGED calls
    PROVE  EnteredForEach'
<1> SUFFICES ASSUME NEW x \in Subs, SubType[x] = "ONETIME"
             PROVE  IsFiniteSet(Places(x)') /\ calls'[x] + Cardinality(Places(x)') <= adds'[x]
    BY DEF EnteredForEach
<1>1. calls[x] + Cardinality(Places(x)) <= adds[x]
    BY DEF EventInv, EnteredForEach
<1>2. calls \in [Subs -> Nat] /\ adds \in [Subs -> Nat]
    BY DEF EventInv, EventTypes
<1>3. calls'[x] = calls[x] /\ adds'[x] = (IF x = s THEN adds[x] + 1 ELSE adds[x])
      /\ calls[x] \in Nat /\ adds[x] \in Nat
    BY <1>2
<1>4. /\ IsFiniteSet(Places(x)') /\ Cardinality(Places(x)) \in Nat
      /\ x = s => Cardinality(Places(x)') = Cardinality(Places(x)) + 1
      /\ x # s => Cardinality(Places(x)') = Cardinality(Places(x))
    BY PlacesAfter
<1> QED BY <1>1, <1>3, <1>4

LEMMA EnteredRemoved ==
    ASSUME EventInv, NEW i \in 0..Len(event_root), NEW l, Changed(i, l),
           ToSet(l) \subseteq ToSet(ListAt(i)), UNCHANGED <<adds, calls>>
    PROVE  EnteredForEach'
<1> SUFFICES ASSUME NEW x \in Subs, SubType[x] = "ONETIME"
             PROVE  IsFiniteSet(Places(x)') /\ calls'[x] + Cardinality(Places(x)') <= adds'[x]
    BY DEF EnteredForEach
<1>1. calls[x] + Cardinality(Places(x)) <= adds[x]
    BY DEF EventInv, EnteredForEach
<1>2. calls[x] \in Nat /\ adds[x] \in Nat
    BY DEF EventInv, EventTypes
<1>3. /\ IsFiniteSet(Places(x)') /\ Cardinality(Places(x)) \in Nat
      /\ Cardinality(Places(x)') \in Nat
      /\ Cardinality(Places(x)') \in {Cardinality(Places(x)), Cardinality(Places(x)) - 1}
  <2>1. x \in ToSet(l) => x \in ToSet(ListAt(i))
      OBVIOUS
  <2> QED BY <2>1, PlacesAfter
<1> QED BY <1>1, <1>2, <1>3

\* A one-time subscriber that is called leaves the list it was called from.
LEMMA EnteredCalled ==
    ASSUME EventInv, NEW i \in 0..Len(event_root), NEW l, Changed(i, l), NEW s \in Subs,
           s \in ToSet(ListAt(i)),
           ToSet(l) = IF SubType[s] = "ONETIME" THEN ToSet(ListAt(i)) \ {s} ELSE ToSet(ListAt(i)),
           calls' = [calls EXCEPT ![s] = @ + 1], UNCHANGED adds
    PROVE  EnteredForEach'
<1> SUFFICES ASSUME NEW x \in Subs, SubType[x] = "ONETIME"
             PROVE  IsFiniteSet(Places(x)') /\ calls'[x] + Cardinality(Places(x)') <= adds'[x]
    BY DEF EnteredForEach
<1>1. calls[x] + Cardinality(Places(x)) <= adds[x]
    BY DEF EventInv, EnteredForEach
<1>2. calls \in [Subs -> Nat] /\ adds \in [Subs -> Nat]
    BY DEF EventInv, EventTypes
<1>3. adds'[x] = adds[x] /\ calls'[x] = (IF x = s THEN calls[x] + 1 ELSE calls[x])
      /\ calls[x] \in Nat /\ adds[x] \in Nat
    BY <1>2
<1>4. /\ IsFiniteSet(Places(x)') /\ Cardinality(Places(x)) \in Nat
      /\ x = s => Cardinality(Places(x)') = Cardinality(Places(x)) - 1
      /\ x # s => Cardinality(Places(x)') = Cardinality(Places(x))
  <2>1. CASE x = s
      BY <2>1, PlacesAfter
  <2>2. CASE x # s
    <3>1. x \in ToSet(l) <=> x \in ToSet(ListAt(i))
        BY <2>2
    <3> QED BY <2>2, <3>1, PlacesAfter
  <2> QED BY <2>1, <2>2
<1> QED BY <1>1, <1>3, <1>4

------------------------------------------------------------------------------
(* Every step keeps the invariant. *)
LEMMA InitHolds == Init => EventInv
<1> SUFFICES ASSUME Init PROVE EventInv
    OBVIOUS
<1>1. Len(event_root) = 0 /\ Len(free_subscribe_root) = 0
    BY DEF Init
<1>2. EventTypes
  <2>1. Idle \in ThRec /\ Idle.pc = "idle"
      BY DEF ThRec, Idle
  <2>2. 0 \in 0..MaxOps
      BY TalEventAssumption
  <2>3. /\ event_root \in Seq(Node) /\ free_subscribe_root \in Seq(Subs)
        /\ th \in [Threads -> ThRec] /\ adds \in [Subs -> Nat] /\ calls \in [Subs -> Nat]
        /\ ops \in 0..MaxOps
      BY <2>1, <2>2 DEF Init
  <2>4. \A t \in Threads : th[t].pc = "idle"
      BY <2>1 DEF Init
  <2> QED BY <2>3, <2>4 DEF EventTypes
<1>3. Owners /\ WalksGood
    BY <1>1 DEF Init, Idle, Owners, WalksGood
<1>4. ListsDistinct /\ EmergencyAhead
    BY <1>1 DEF ListsDistinct, Distinct, EmergencyAhead
<1>5. EnteredForEach
  <2> SUFFICES ASSUME NEW s \in Subs
               PROVE  IsFiniteSet(Places(s)) /\ calls[s] + Cardinality(Places(s)) <= adds[s]
      BY DEF EnteredForEach
  <2>1. Places(s) = {}
    <3>1. ToSet(free_subscribe_root) = {}
        BY DEF Init, ToSet
    <3>2. \A i \in 0..Len(event_root) : i = 0
        BY <1>1
    <3> QED BY <3>1, <3>2 DEF Places, ListAt
  <2>2. IsFiniteSet({}) /\ Cardinality({}) = 0
      BY FS_EmptySet
  <2>3. calls[s] = 0 /\ adds[s] = 0
      BY DEF Init
  <2> QED BY <2>1, <2>2, <2>3
<1> QED BY <1>2, <1>3, <1>4, <1>5 DEF EventInv

\* The look-ups only move the thread on.
LEMMA LooksUp ==
    ASSUME EventInv, NEW t \in Threads, Begin(t), NEW r \in ThRec, Goto(t, r),
           r.pc # "dispatch", r.pc = "publish" => r.node \in 1..Len(event_root),
           r.pc \in {"subscribe", "unsubscribe"} => r.node \in 0..Len(event_root),
           UNCHANGED <<event_root, free_subscribe_root, adds, calls>>
    PROVE  EventInv'
<1>1. Len(event_root) \in Nat
    BY Opened DEF EventInv
<1>2. th[t].pc # "dispatch"
    BY DEF Begin, Idle
<1>3. ops' \in 0..MaxOps
    BY TalEventAssumption DEF Begin, EventInv, EventTypes
<1>4. EventTypes'
  <2>1. /\ event_root' \in Seq(Node) /\ free_subscribe_root' \in Seq(Subs)
        /\ adds' \in [Subs -> Nat] /\ calls' \in [Subs -> Nat]
      BY DEF EventInv, EventTypes
  <2>2. Len(event_root') = Len(event_root) /\ Len(event_root') >= Len(event_root)
      BY <1>1
  <2>3. r.pc \in {"publish", "dispatch"} => r.node \in 1..Len(event_root')
      BY <2>2
  <2> QED BY <1>3, <2>1, <2>2, <2>3, TypesAfter
<1>5. Owners' /\ WalksGood'
    BY <1>1, <1>2, Aside
<1>6. ListsDistinct' /\ EmergencyAhead'
    BY DEF EventInv, ListsDistinct, EmergencyAhead
<1>7. EnteredForEach'
    BY DEF EventInv, EnteredForEach, Places, ListAt
<1> QED BY <1>4, <1>5, <1>6, <1>7 DEF EventInv

LEMMA PublishStep ==
    ASSUME EventInv, NEW t \in Threads, NEW name \in Names, tal_event_publish(t, name)
    PROVE  EventInv'
<1> DEFINE r == IF EventNodeGet(name) = 0 THEN [pc |-> "create", name |-> name]
                ELSE [pc |-> "publish", node |-> EventNodeGet(name)]
<1>1. EventNodeGet(name) \in 0..Len(event_root) /\ Len(event_root) \in Nat
    BY NodeGet, Opened DEF EventInv, EventTypes
<1>2. /\ r \in ThRec /\ r.pc # "dispatch" /\ r.pc \notin {"subscribe", "unsubscribe"}
      /\ r.pc = "publish" => r.node \in 1..Len(event_root)
    BY <1>1 DEF ThRec
<1>3. Goto(t, r) /\ Begin(t) /\ UNCHANGED <<event_root, free_subscribe_root, adds, calls>>
    BY DEF tal_event_publish
<1> HIDE DEF r
<1> QED BY <1>2, <1>3, LooksUp

LEMMA LookupStep ==
    ASSUME EventInv, NEW t \in Threads, NEW s \in Subs, NEW op \in {"subscribe", "unsubscribe"},
           Lookup(t, op, s)
    PROVE  EventInv'
<1> DEFINE r == [pc |-> op, sub |-> s, node |-> EventNodeGet(SubName[s])]
<1>1. EventNodeGet(SubName[s]) \in 0..Len(event_root) /\ Len(event_root) \in Nat
    BY NodeGet, Opened DEF EventInv, EventTypes
<1>2. /\ r \in ThRec /\ r.pc # "dispatch" /\ r.pc # "publish"
      /\ r.node \in 0..Len(event_root)
    BY <1>1 DEF ThRec
<1>3. Goto(t, r) /\ Begin(t) /\ UNCHANGED <<event_root, free_subscribe_root, adds, calls>>
    BY DEF Lookup
<1> HIDE DEF r
<1> QED BY <1>2, <1>3, LooksUp

\* A step that ends a subscribe or unsubscribe, having changed one list that nobody walks.
LEMMA ListStep ==
    ASSUME EventInv, NEW t \in Threads, th[t].pc \in {"subscribe", "unsubscribe"}, Goto(t, Idle),
           NEW i \in 0..Len(event_root), NEW l \in Seq(Subs), Changed(i, l), Distinct(l),
           i # 0 => EmergencyFirst(l) /\ CanLock(i),
           \A j \in 1..Len(event_root) :
               /\ event_root'[j].owner = event_root[j].owner
               /\ j # i => event_root'[j].subs = event_root[j].subs,
           adds' \in [Subs -> Nat], UNCHANGED <<calls, ops>>, EnteredForEach'
    PROVE  EventInv'
<1>1. Len(event_root) \in Nat /\ Len(event_root') = Len(event_root)
    BY Opened DEF EventInv, Changed
<1>2. Idle \in ThRec /\ Idle.pc = "idle" /\ th[t].pc # "dispatch"
    BY DEF ThRec, Idle
<1>3. EventTypes'
  <2>1. /\ event_root' \in Seq(Node) /\ free_subscribe_root' \in Seq(Subs)
        /\ calls' \in [Subs -> Nat] /\ ops' \in 0..MaxOps /\ Len(event_root') >= Len(event_root)
      BY <1>1 DEF Changed, EventInv, EventTypes
  <2> QED BY <1>2, <2>1, TypesAfter
<1>4. Owners' /\ WalksGood'
  <2>1. \A j \in 1..Len(event_root) :
            event_root[j].owner # None => event_root'[j].subs = event_root[j].subs
      BY DEF CanLock
  <2>2. \A j \in 1..Len(event_root') : ~(j > Len(event_root))
      BY <1>1
  <2>3. Len(event_root') >= Len(event_root) /\ Len(event_root') \in Nat
      BY <1>1
  <2> QED BY <1>2, <2>1, <2>2, <2>3, Aside
<1>5. ListsDistinct' /\ EmergencyAhead'
    BY ListsAfter
<1> QED BY <1>3, <1>4, <1>5 DEF EventInv

LEMMA AddFreeStep ==
    ASSUME EventInv, NEW t \in Threads, AddFreeSubscribe(t)
    PROVE  EventInv'
<1>1. th[t].pc = "subscribe" /\ th[t] \in ThRec /\ th[t].sub \in Subs
    BY ThShape, Opened DEF EventInv, AddFreeSubscribe
<1>2. PICK s \in Subs : s = th[t].sub
    BY <1>1
<1>3. /\ Len(event_root) \in Nat /\ 0 \in 0..Len(event_root) /\ ListAt(0) = free_subscribe_root
      /\ free_subscribe_root \in Seq(Subs) /\ Distinct(free_subscribe_root)
      /\ adds \in [Subs -> Nat]
    BY Opened DEF EventInv, EventTypes, ListsDistinct, ListAt
<1>4. Goto(t, Idle) /\ UNCHANGED <<event_root, calls, ops>>
    BY DEF AddFreeSubscribe
<1>5. Contains(free_subscribe_root, s) <=> s \in ToSet(free_subscribe_root)
    BY <1>3, SetOfSeq DEF Contains
<1>6. CASE Contains(free_subscribe_root, s)
  <2>1. free_subscribe_root' = free_subscribe_root /\ adds' = adds
      BY <1>2, <1>3, <1>6 DEF AddFreeSubscribe
  <2>2. Changed(0, free_subscribe_root)
      BY <1>3, <1>4, <2>1, ChangedFree DEF EventInv
  <2>3. EnteredForEach'
      BY <1>3, <1>4, <2>1, <2>2, EnteredRemoved
  <2> QED BY <1>1, <1>3, <1>4, <2>1, <2>2, <2>3, ListStep
<1>7. CASE ~Contains(free_subscribe_root, s)
  <2> DEFINE l == Append(free_subscribe_root, s)
  <2>1. free_subscribe_root' = l /\ adds' = [adds EXCEPT ![s] = @ + 1]
      BY <1>2, <1>7 DEF AddFreeSubscribe
  <2>2. /\ l \in Seq(Subs) /\ Distinct(l) /\ ToSet(l) = ToSet(free_subscribe_root) \union {s}
      BY <1>3, <1>5, <1>7, AppendIs
  <2> HIDE DEF l
  <2>3. Changed(0, l)
      BY <1>4, <2>1, <2>2, ChangedFree DEF EventInv
  <2>4. EnteredForEach'
      BY <1>3, <1>4, <1>5, <1>7, <2>1, <2>2, <2>3, EnteredAdded
  <2>5. adds' \in [Subs -> Nat]
      BY <1>3, <2>1
  <2> QED BY <1>1, <1>3, <1>4, <2>2, <2>3, <2>4, <2>5, ListStep
<1> QED BY <1>6, <1>7

LEMMA AddStep ==
    ASSUME EventInv, NEW t \in Threads, AddSubscribe(t)
    PROVE  EventInv'
<1>1. /\ th[t].pc = "subscribe" /\ th[t] \in ThRec /\ th[t].sub \in Subs
      /\ th[t].node \in 1..Len(event_root)
  <2>1. th[t].pc = "subscribe" /\ th[t] \in ThRec /\ th[t].sub \in Subs
      BY ThShape, Opened DEF EventInv, AddSubscribe
  <2>2. th[t].node \in 0..Len(event_root) /\ th[t].node # 0
      BY <2>1 DEF EventInv, EventTypes, AddSubscribe
  <2>3. Len(event_root) \in Nat
      BY Opened DEF EventInv
  <2> QED BY <2>1, <2>2, <2>3
<1>2. PICK s \in Subs : s = th[t].sub
    BY <1>1
<1>3. PICK i \in 1..Len(event_root) : i = th[t].node
    BY <1>1
<1>4. PICK root \in Seq(Subs) : root = event_root[i].subs
    BY Opened DEF EventInv
<1>5. /\ Len(event_root) \in Nat /\ i \in 0..Len(event_root) /\ i # 0 /\ ListAt(i) = root
      /\ Distinct(root) /\ adds \in [Subs -> Nat]
    BY <1>4, Opened DEF EventInv, EventTypes, ListsDistinct, ListAt
<1>6. EmergencyFirst(root)
    BY <1>4 DEF EventInv, EmergencyAhead, EmergencyFirst
<1>7. Goto(t, Idle) /\ CanLock(i) /\ UNCHANGED <<free_subscribe_root, calls, ops>>
    BY <1>3 DEF AddSubscribe
<1>8. Contains(root, s) <=> s \in ToSet(root)
    BY SetOfSeq DEF Contains
<1>9. CASE Contains(root, s)
  <2>1. adds' = adds
      BY <1>2, <1>3, <1>4, <1>5, <1>9 DEF AddSubscribe
  <2>2. event_root' = [event_root EXCEPT ![i].subs = root]
      BY <1>2, <1>3, <1>4, <1>9 DEF AddSubscribe
  <2>3. Changed(i, root) /\ \A j \in 1..Len(event_root) :
                 /\ event_root'[j].owner = event_root[j].owner
                 /\ j # i => event_root'[j].subs = event_root[j].subs
      BY <1>7, <2>2, ChangedNode DEF EventInv
  <2>4. EnteredForEach'
      BY <1>5, <1>7, <2>1, <2>3, EnteredRemoved
  <2>5. th[t].pc \in {"subscribe", "unsubscribe"} /\ adds' \in [Subs -> Nat]
      BY <1>1, <1>5, <2>1
  <2> QED BY <1>5, <1>6, <1>7, <2>3, <2>4, <2>5, ListStep
<1>10. CASE ~Contains(root, s)
  <2>1. adds' = [adds EXCEPT ![s] = @ + 1]
      BY <1>2, <1>3, <1>4, <1>10 DEF AddSubscribe
  <2> DEFINE l == AddEntry(root, s)
  <2>2. event_root' = [event_root EXCEPT ![i].subs = l]
      BY <1>2, <1>3, <1>4, <1>10 DEF AddSubscribe
  <2>3. /\ l \in Seq(Subs) /\ Distinct(l) /\ ToSet(l) = ToSet(root) \union {s}
        /\ EmergencyFirst(l)
      BY <1>5, <1>6, <1>8, <1>10, AddEntryIs
  <2> HIDE DEF l
  <2>4. Changed(i, l) /\ \A j \in 1..Len(event_root) :
                 /\ event_root'[j].owner = event_root[j].owner
                 /\ j # i => event_root'[j].subs = event_root[j].subs
      BY <1>7, <2>2, <2>3, ChangedNode DEF EventInv
  <2>5. EnteredForEach'
      BY <1>5, <1>7, <1>8, <1>10, <2>1, <2>3, <2>4, EnteredAdded
  <2>6. adds' \in [Subs -> Nat]
      BY <1>5, <2>1
  <2>7. th[t].pc \in {"subscribe", "unsubscribe"}
      BY <1>1
  <2> QED BY <1>5, <1>7, <2>3, <2>4, <2>5, <2>6, <2>7, ListStep
<1> QED BY <1>9, <1>10

LEMMA DelFreeStep ==
    ASSUME EventInv, NEW t \in Threads, DelFreeSubscribe(t)
    PROVE  EventInv'
<1>1. /\ Len(event_root) \in Nat /\ 0 \in 0..Len(event_root) /\ ListAt(0) = free_subscribe_root
      /\ free_subscribe_root \in Seq(Subs) /\ Distinct(free_subscribe_root)
      /\ adds \in [Subs -> Nat]
    BY Opened DEF EventInv, EventTypes, ListsDistinct, ListAt
<1>2. /\ th[t].pc \in {"subscribe", "unsubscribe"} /\ Goto(t, Idle)
      /\ UNCHANGED <<event_root, adds, calls, ops>> /\ adds' \in [Subs -> Nat]
    BY <1>1 DEF DelFreeSubscribe
<1> DEFINE l == RemoveFirst(free_subscribe_root, th[t].sub)
<1>3. free_subscribe_root' = l
    BY DEF DelFreeSubscribe
<1>4. l \in Seq(Subs) /\ Distinct(l) /\ ToSet(l) = ToSet(free_subscribe_root) \ {th[t].sub}
  <2>1. PICK x : x = th[t].sub
      OBVIOUS
  <2>2. PICK free : free = free_subscribe_root /\ free \in Seq(Subs) /\ Distinct(free)
      BY <1>1
  <2>3. /\ RemoveFirst(free, x) \in Seq(Subs) /\ Distinct(RemoveFirst(free, x))
        /\ ToSet(RemoveFirst(free, x)) = ToSet(free) \ {x}
    <3>1. free \in Seq(Subs) /\ Distinct(free)
        BY <2>2
    <3> QED BY <3>1, RemoveFirstIs, Zenon
  <2> QED BY <2>1, <2>2, <2>3, Zenon
<1> HIDE DEF l
<1>5. Changed(0, l)
    BY <1>2, <1>3, <1>4, ChangedFree DEF EventInv
<1>6. EnteredForEach'
    BY <1>1, <1>2, <1>4, <1>5, EnteredRemoved
<1> QED BY <1>1, <1>2, <1>4, <1>5, <1>6, ListStep

LEMMA DelStep ==
    ASSUME EventInv, NEW t \in Threads, DelSubscribe(t)
    PROVE  EventInv'
<1>1. /\ th[t].pc = "unsubscribe" /\ th[t].node \in 1..Len(event_root)
  <2>1. th[t].pc = "unsubscribe" /\ th[t].node \in 0..Len(event_root) /\ th[t].node # 0
      BY DEF EventInv, EventTypes, DelSubscribe
  <2>2. Len(event_root) \in Nat
      BY Opened DEF EventInv
  <2> QED BY <2>1, <2>2
<1>2. PICK i \in 1..Len(event_root) : i = th[t].node
    BY <1>1
<1>3. PICK root \in Seq(Subs) : root = event_root[i].subs
    BY Opened DEF EventInv
<1>4. /\ Len(event_root) \in Nat /\ i \in 0..Len(event_root) /\ i # 0 /\ ListAt(i) = root
      /\ Distinct(root) /\ adds \in [Subs -> Nat]
    BY <1>3, Opened DEF EventInv, EventTypes, ListsDistinct, ListAt
<1>5. EmergencyFirst(root)
    BY <1>3 DEF EventInv, EmergencyAhead, EmergencyFirst
<1>6. /\ th[t].pc \in {"subscribe", "unsubscribe"} /\ Goto(t, Idle) /\ CanLock(i)
      /\ UNCHANGED <<free_subscribe_root, adds, calls, ops>> /\ adds' \in [Subs -> Nat]
    BY <1>2, <1>4 DEF DelSubscribe
<1> DEFINE l == RemoveFirst(root, th[t].sub)
<1>7. event_root' = [event_root EXCEPT ![i].subs = l]
    BY <1>2, <1>3 DEF DelSubscribe
<1>8. l \in Seq(Subs) /\ Distinct(l) /\ ToSet(l) = ToSet(root) \ {th[t].sub}
  <2>1. PICK x : x = th[t].sub
      OBVIOUS
  <2>2. /\ RemoveFirst(root, x) \in Seq(Subs) /\ Distinct(RemoveFirst(root, x))
        /\ ToSet(RemoveFirst(root, x)) = ToSet(root) \ {x}
    <3>1. root \in Seq(Subs) /\ Distinct(root)
        BY <1>4
    <3> QED BY <3>1, RemoveFirstIs, Zenon
  <2> QED BY <2>1, <2>2, Zenon
<1>9. EmergencyFirst(l)
    BY <1>4, <1>5, RemoveKeepsFirst
<1> HIDE DEF l
<1>10. Changed(i, l) /\ \A j \in 1..Len(event_root) :
              /\ event_root'[j].owner = event_root[j].owner
              /\ j # i => event_root'[j].subs = event_root[j].subs
    BY <1>6, <1>7, <1>8, ChangedNode DEF EventInv
<1>11. EnteredForEach'
    BY <1>4, <1>6, <1>8, <1>10, EnteredRemoved
<1> QED BY <1>4, <1>6, <1>8, <1>9, <1>10, <1>11, ListStep

\* Taking or leaving the mutex of a node.
LEMMA OwnerSet ==
    ASSUME EventTypes, NEW i \in 1..Len(event_root), NEW o \in Threads \union {None},
           event_root' = [event_root EXCEPT ![i].owner = o], UNCHANGED free_subscribe_root
    PROVE  /\ event_root' \in Seq(Node) /\ Len(event_root') = Len(event_root)
           /\ event_root'[i].owner = o
           /\ \A j \in 1..Len(event_root) :
                 /\ event_root'[j].subs = event_root[j].subs
                 /\ j # i => event_root'[j].owner = event_root[j].owner
           /\ \A j \in 0..Len(event_root) : ListAt(j)' = ListAt(j)
<1>1. Len(event_root) \in Nat /\ event_root[i] \in Node /\ event_root \in Seq(Node)
    BY Opened DEF EventTypes
<1>2. PICK e : e = [event_root[i] EXCEPT !.owner = o]
    OBVIOUS
<1>3. e \in Node /\ e.owner = o /\ e.subs = event_root[i].subs
    BY <1>1, <1>2 DEF Node
<1>4. event_root' = [event_root EXCEPT ![i] = e]
    BY <1>2
<1>5. /\ event_root' \in Seq(Node) /\ Len(event_root') = Len(event_root)
      /\ event_root'[i] = e /\ \A j \in 1..Len(event_root) : j # i => event_root'[j] = event_root[j]
  <2>1. /\ [event_root EXCEPT ![i] = e] \in Seq(Node)
        /\ Len([event_root EXCEPT ![i] = e]) = Len(event_root)
        /\ \A j \in 1..Len(event_root) :
               [event_root EXCEPT ![i] = e][j] = IF j = i THEN e ELSE event_root[j]
      BY <1>1, <1>3, ExceptSeq
  <2> QED BY <1>4, <2>1, Zenon
<1>6. \A j \in 1..Len(event_root) :
          /\ event_root'[j].subs = event_root[j].subs
          /\ j # i => event_root'[j].owner = event_root[j].owner
    BY <1>3, <1>5
<1>7. ASSUME NEW j \in 0..Len(event_root) PROVE ListAt(j)' = ListAt(j)
  <2>1. CASE j = 0
      BY <2>1 DEF ListAt
  <2>2. CASE j # 0
    <3>1. j \in 1..Len(event_root)
        BY <1>1, <2>2
    <3> QED BY <1>6, <2>2, <3>1 DEF ListAt
  <2> QED BY <2>1, <2>2
<1> QED BY <1>3, <1>5, <1>6, <1>7

LEMMA SameLists ==
    ASSUME EventInv, Len(event_root') = Len(event_root),
           \A j \in 1..Len(event_root) : event_root'[j].subs = event_root[j].subs,
           \A j \in 0..Len(event_root) : ListAt(j)' = ListAt(j),
           UNCHANGED <<free_subscribe_root, adds, calls>>
    PROVE  ListsDistinct' /\ EmergencyAhead' /\ EnteredForEach'
<1>1. ListsDistinct'
    BY DEF EventInv, ListsDistinct
<1>2. EmergencyAhead'
  <2> SUFFICES ASSUME NEW j \in 1..Len(event_root') PROVE EmergencyFirst(event_root'[j].subs)
      BY DEF EmergencyAhead, EmergencyFirst
  <2>1. EmergencyFirst(event_root[j].subs)
      BY DEF EventInv, EmergencyAhead, EmergencyFirst
  <2> QED BY <2>1
<1>3. EnteredForEach'
  <2> SUFFICES ASSUME NEW x \in Subs, SubType[x] = "ONETIME"
               PROVE  IsFiniteSet(Places(x)') /\ calls'[x] + Cardinality(Places(x)') <= adds'[x]
      BY DEF EnteredForEach
  <2>1. Places(x)' = Places(x)
      BY DEF Places
  <2> QED BY <2>1 DEF EventInv, EnteredForEach
<1> QED BY <1>1, <1>2, <1>3

LEMMA LockStep ==
    ASSUME EventInv, NEW t \in Threads, PublishLock(t)
    PROVE  EventInv'
<1>1. th[t].pc = "publish" /\ th[t].node \in 1..Len(event_root)
    BY DEF EventInv, EventTypes, PublishLock
<1>2. PICK i \in 1..Len(event_root) : i = th[t].node
    BY <1>1
<1>3. PICK root \in Seq(Subs) : root = event_root[i].subs
    BY Opened DEF EventInv
<1>4. Distinct(root) /\ Len(event_root) \in Nat /\ \A u \in Threads : u # None
    BY <1>3, Opened, TalEventAssumption DEF EventInv, ListsDistinct
<1> DEFINE r == [pc |-> "dispatch", node |-> i, p |-> First(root),
                 n |-> After(root, First(root)), due |-> root, got |-> <<>>]
<1>5. /\ CanLock(i) /\ event_root' = [event_root EXCEPT ![i].owner = t] /\ Goto(t, r)
      /\ UNCHANGED <<free_subscribe_root, adds, calls, ops>>
    BY <1>2, <1>3 DEF PublishLock
<1>6. First(root) \in Subs \union {None} /\ After(root, First(root)) \in Subs \union {None}
  <2>1. First(root) \in Subs \union {None}
      BY DEF First
  <2>2. After(root, First(root)) \in Subs \union {None}
      BY AfterType
  <2> QED BY <2>1, <2>2
<1>7. r \in ThRec /\ r.pc = "dispatch" /\ r.node = i
  <2>1. i \in Nat /\ <<>> \in Seq(Subs)
      OBVIOUS
  <2> QED BY <1>6, <2>1 DEF ThRec
<1>8. InWalk(r, root)
    BY <1>4, WalkStarts
<1> HIDE DEF r
<1>9. /\ th' \in [Threads -> ThRec] /\ th'[t] = r
      /\ \A u \in Threads : u # t => th'[u] = th[u]
    BY <1>5, <1>7, GotoIs DEF EventInv
<1>10. /\ event_root' \in Seq(Node) /\ Len(event_root') = Len(event_root)
       /\ event_root'[i].owner = t
       /\ \A j \in 1..Len(event_root) :
             /\ event_root'[j].subs = event_root[j].subs
             /\ j # i => event_root'[j].owner = event_root[j].owner
       /\ \A j \in 0..Len(event_root) : ListAt(j)' = ListAt(j)
    BY <1>5, OwnerSet DEF EventInv
<1>11. EventTypes'
  <2>1. /\ free_subscribe_root' \in Seq(Subs) /\ adds' \in [Subs -> Nat]
        /\ calls' \in [Subs -> Nat] /\ ops' \in 0..MaxOps
      BY <1>5 DEF EventInv, EventTypes
  <2>2. Len(event_root') >= Len(event_root) /\ r.node \in 1..Len(event_root')
      BY <1>4, <1>7, <1>10
  <2> QED BY <1>5, <1>7, <1>10, <2>1, <2>2, TypesAfter
<1>12. Owners'
  <2> SUFFICES ASSUME NEW j \in 1..Len(event_root), NEW u \in Threads
               PROVE  event_root'[j].owner = u <=> th'[u].pc = "dispatch" /\ th'[u].node = j
      BY <1>10 DEF Owners
  <2>1. event_root[j].owner = u <=> th[u].pc = "dispatch" /\ th[u].node = j
      BY DEF EventInv, Owners
  <2>2. event_root[i].owner = None
      BY <1>5 DEF CanLock
  <2>3. CASE u = t
      BY <1>1, <1>7, <1>9, <1>10, <2>1, <2>3
  <2>4. CASE u # t
      BY <1>4, <1>9, <1>10, <2>1, <2>2, <2>4
  <2> QED BY <2>3, <2>4
<1>13. WalksGood'
  <2> SUFFICES ASSUME NEW u \in Threads, th'[u].pc = "dispatch"
               PROVE  InWalk(th'[u], event_root'[th'[u].node].subs)
      BY DEF WalksGood
  <2>1. CASE u = t
      BY <1>3, <1>7, <1>8, <1>9, <1>10, <2>1
  <2>2. CASE u # t
    <3>1. th'[u] = th[u]
        BY <1>9, <2>2
    <3>2. th[u].node \in 1..Len(event_root) /\ InWalk(th[u], event_root[th[u].node].subs)
        BY <3>1 DEF EventInv, EventTypes, WalksGood
    <3> QED BY <1>10, <3>1, <3>2
  <2> QED BY <2>1, <2>2
<1>14. ListsDistinct' /\ EmergencyAhead' /\ EnteredForEach'
    BY <1>5, <1>10, SameLists
<1> QED BY <1>11, <1>12, <1>13, <1>14 DEF EventInv

LEMMA UnlockStep ==
    ASSUME EventInv, NEW t \in Threads, PublishUnlock(t)
    PROVE  EventInv'
<1>1. th[t].pc = "dispatch" /\ th[t].node \in 1..Len(event_root)
    BY DEF EventInv, EventTypes, PublishUnlock
<1>2. PICK i \in 1..Len(event_root) : i = th[t].node
    BY <1>1
<1>3. Len(event_root) \in Nat /\ \A u \in Threads : u # None
    BY Opened, TalEventAssumption DEF EventInv
<1>4. /\ event_root' = [event_root EXCEPT ![i].owner = None] /\ Goto(t, Idle)
      /\ UNCHANGED <<free_subscribe_root, adds, calls, ops>>
    BY <1>2 DEF PublishUnlock
<1>5. Idle \in ThRec /\ Idle.pc = "idle"
    BY DEF ThRec, Idle
<1>6. /\ th' \in [Threads -> ThRec] /\ th'[t] = Idle
      /\ \A u \in Threads : u # t => th'[u] = th[u]
    BY <1>4, <1>5, GotoIs DEF EventInv
<1>7. /\ event_root' \in Seq(Node) /\ Len(event_root') = Len(event_root)
      /\ event_root'[i].owner = None
      /\ \A j \in 1..Len(event_root) :
            /\ event_root'[j].subs = event_root[j].subs
            /\ j # i => event_root'[j].owner = event_root[j].owner
      /\ \A j \in 0..Len(event_root) : ListAt(j)' = ListAt(j)
    BY <1>4, OwnerSet DEF EventInv
<1>8. EventTypes'
  <2>1. /\ free_subscribe_root' \in Seq(Subs) /\ adds' \in [Subs -> Nat]
        /\ calls' \in [Subs -> Nat] /\ ops' \in 0..MaxOps
      BY <1>4 DEF EventInv, EventTypes
  <2>2. Len(event_root') >= Len(event_root)
      BY <1>3, <1>7
  <2> QED BY <1>4, <1>5, <1>7, <2>1, <2>2, TypesAfter
<1>9. Owners'
  <2> SUFFICES ASSUME NEW j \in 1..Len(event_root), NEW u \in Threads
               PROVE  event_root'[j].owner = u <=> th'[u].pc = "dispatch" /\ th'[u].node = j
      BY <1>7 DEF Owners
  <2>1. event_root[j].owner = u <=> th[u].pc = "dispatch" /\ th[u].node = j
      BY DEF EventInv, Owners
  <2>2. event_root[i].owner = t
      BY <1>1, <1>2 DEF EventInv, Owners
  <2>3. CASE u = t
      BY <1>1, <1>2, <1>3, <1>5, <1>6, <1>7, <2>1, <2>3
  <2>4. CASE u # t
      BY <1>3, <1>6, <1>7, <2>1, <2>2, <2>4
  <2> QED BY <2>3, <2>4
<1>10. WalksGood'
  <2> SUFFICES ASSUME NEW u \in Threads, th'[u].pc = "dispatch"
               PROVE  InWalk(th'[u], event_root'[th'[u].node].subs)
      BY DEF WalksGood
  <2>1. th'[u] = th[u]
      BY <1>5, <1>6
  <2>2. th[u].node \in 1..Len(event_root) /\ InWalk(th[u], event_root[th[u].node].subs)
      BY <2>1 DEF EventInv, EventTypes, WalksGood
  <2> QED BY <1>7, <2>1, <2>2
<1>11. ListsDistinct' /\ EmergencyAhead' /\ EnteredForEach'
    BY <1>4, <1>7, SameLists
<1> QED BY <1>8, <1>9, <1>10, <1>11 DEF EventInv

LEMMA DispatchStep ==
    ASSUME EventInv, NEW t \in Threads, DispatchOne(t)
    PROVE  EventInv'
<1>1. /\ th[t].pc = "dispatch" /\ th[t].p # None /\ th[t].node \in 1..Len(event_root)
      /\ th[t] \in [pc : {"dispatch"}, node : Nat, p : Subs \union {None},
                    n : Subs \union {None}, due : Seq(Subs), got : Seq(Subs)]
  <2>1. th[t].pc = "dispatch" /\ th[t].p # None /\ th[t].node \in 1..Len(event_root)
      BY DEF EventInv, EventTypes, DispatchOne
  <2> QED BY <2>1, ThShape, Opened DEF EventInv
<1>2. PICK i \in 1..Len(event_root) : i = th[t].node
    BY <1>1
<1>3. PICK root \in Seq(Subs) : root = event_root[i].subs
    BY Opened DEF EventInv
<1>4. PICK s \in Subs : s = th[t].p
    BY <1>1
<1>5. /\ Distinct(root) /\ Len(event_root) \in Nat /\ \A u \in Threads : u # None
      /\ i \in 0..Len(event_root) /\ i # 0 /\ ListAt(i) = root
      /\ adds \in [Subs -> Nat] /\ calls \in [Subs -> Nat]
    BY <1>3, Opened, TalEventAssumption DEF EventInv, EventTypes, ListsDistinct, ListAt
<1>6. EmergencyFirst(root)
    BY <1>3 DEF EventInv, EmergencyAhead, EmergencyFirst
<1> DEFINE l == Dispatched(s, root)
           q == [th[t] EXCEPT !.p = th[t].n, !.got = Append(@, s), !.n = After(root, th[t].n)]
<1>7. /\ event_root' = [event_root EXCEPT ![i].subs = l]
      /\ calls' = [calls EXCEPT ![s] = @ + 1] /\ Goto(t, q)
      /\ UNCHANGED <<free_subscribe_root, adds, ops>>
    BY <1>2, <1>3, <1>4 DEF DispatchOne
<1>8. /\ l \in Seq(Subs) /\ Distinct(l) /\ EmergencyFirst(l)
      /\ ToSet(l) = IF SubType[s] = "ONETIME" THEN ToSet(root) \ {s} ELSE ToSet(root)
  <2>1. /\ RemoveFirst(root, s) \in Seq(Subs) /\ Distinct(RemoveFirst(root, s))
        /\ ToSet(RemoveFirst(root, s)) = ToSet(root) \ {s}
    <3>1. root \in Seq(Subs) /\ Distinct(root)
        BY <1>5
    <3> QED BY <3>1, RemoveFirstIs, Zenon
  <2>2. EmergencyFirst(RemoveFirst(root, s))
      BY <1>5, <1>6, RemoveKeepsFirst
  <2> QED BY <1>5, <1>6, <2>1, <2>2, Zenon DEF Dispatched
<1>9. /\ q.pc = "dispatch" /\ q.node = i /\ q.due = th[t].due /\ q.got = Append(th[t].got, s)
      /\ q.p = th[t].n /\ q.n = After(root, th[t].n)
    BY <1>1, <1>2
<1>10. s \in ToSet(root) /\ InWalk(q, l)
  <2>1. InWalk(th[t], root)
      BY <1>1, <1>2, <1>3 DEF EventInv, WalksGood
  <2>2. PICK due \in Seq(Subs), got \in Seq(Subs) : due = th[t].due /\ got = th[t].got
      BY <1>1
  <2>3. PICK r : r = th[t]
      OBVIOUS
  <2>4. r.due = due /\ r.got = got /\ InWalk(r, root) /\ r.p # None /\ r.p = s
      BY <1>1, <1>4, <2>1, <2>2, <2>3
  <2>5. q.due = due /\ q.got = Append(got, r.p) /\ q.p = r.n /\ q.n = After(root, r.n)
      BY <1>9, <2>2, <2>3, <2>4
  <2> HIDE DEF q, l
  <2>6. r.p \in ToSet(root) /\ InWalk(q, Dispatched(r.p, root))
      BY <1>5, <2>4, <2>5, WalkGoesOn
  <2> QED BY <2>4, <2>6 DEF l
<1>11. q \in ThRec
  <2>1. After(root, th[t].n) \in Subs \union {None}
      BY AfterType
  <2>2. Append(th[t].got, s) \in Seq(Subs)
      BY <1>1
  <2> QED BY <1>1, <2>1, <2>2 DEF ThRec
<1> HIDE DEF q, l
<1>12. /\ th' \in [Threads -> ThRec] /\ th'[t] = q
       /\ \A u \in Threads : u # t => th'[u] = th[u]
    BY <1>7, <1>11, GotoIs DEF EventInv
<1>13. /\ Changed(i, l) /\ event_root'[i].subs = l
       /\ \A j \in 1..Len(event_root) :
              /\ event_root'[j].owner = event_root[j].owner
              /\ j # i => event_root'[j].subs = event_root[j].subs
    BY <1>7, <1>8, ChangedNode DEF EventInv
<1>14. event_root' \in Seq(Node) /\ Len(event_root') = Len(event_root)
    BY <1>13 DEF Changed
<1>15. EventTypes'
  <2>1. free_subscribe_root' \in Seq(Subs) /\ adds' \in [Subs -> Nat] /\ ops' \in 0..MaxOps
      BY <1>7 DEF EventInv, EventTypes
  <2>2. calls' \in [Subs -> Nat]
      BY <1>5, <1>7
  <2>3. Len(event_root') >= Len(event_root) /\ q.node \in 1..Len(event_root')
      BY <1>5, <1>9, <1>14
  <2> QED BY <1>7, <1>9, <1>11, <1>14, <2>1, <2>2, <2>3, TypesAfter
<1>16. Owners'
  <2> SUFFICES ASSUME NEW j \in 1..Len(event_root), NEW u \in Threads
               PROVE  event_root'[j].owner = u <=> th'[u].pc = "dispatch" /\ th'[u].node = j
      BY <1>14 DEF Owners
  <2>1. event_root[j].owner = u <=> th[u].pc = "dispatch" /\ th[u].node = j
      BY DEF EventInv, Owners
  <2>2. CASE u = t
      BY <1>1, <1>2, <1>9, <1>12, <1>13, <2>1, <2>2
  <2>3. CASE u # t
      BY <1>12, <1>13, <2>1, <2>3
  <2> QED BY <2>2, <2>3
<1>17. WalksGood'
  <2> SUFFICES ASSUME NEW u \in Threads, th'[u].pc = "dispatch"
               PROVE  InWalk(th'[u], event_root'[th'[u].node].subs)
      BY DEF WalksGood
  <2>1. CASE u = t
      BY <1>9, <1>10, <1>12, <1>13, <2>1
  <2>2. CASE u # t
    <3>1. th'[u] = th[u]
        BY <1>12, <2>2
    <3>2. /\ th[u].node \in 1..Len(event_root) /\ InWalk(th[u], event_root[th[u].node].subs)
          /\ event_root[th[u].node].owner = u
        BY <3>1 DEF EventInv, EventTypes, WalksGood, Owners
    <3>3. event_root[i].owner = t
        BY <1>1, <1>2 DEF EventInv, Owners
    <3>4. th[u].node # i
        BY <2>2, <3>2, <3>3
    <3> QED BY <1>13, <3>1, <3>2, <3>4
  <2> QED BY <2>1, <2>2
<1>18. ListsDistinct' /\ EmergencyAhead'
    BY <1>5, <1>8, <1>13, ListsAfter
<1>19. EnteredForEach'
    BY <1>5, <1>7, <1>8, <1>10, <1>13, EnteredCalled
<1> QED BY <1>15, <1>16, <1>17, <1>18, <1>19 DEF EventInv

\* A new node takes the waiting subscribers over: each changes its place, or keeps it.
LEMMA CreateStep ==
    ASSUME EventInv, NEW t \in Threads, EventNodeCreateInit(t)
    PROVE  EventInv'
<1>1. th[t].pc = "create" /\ th[t].name \in Names
    BY ThShape, Opened DEF EventInv, EventNodeCreateInit
<1>2. PICK n : n = Len(event_root) /\ n \in Nat
    BY Opened DEF EventInv
<1>3. PICK free \in Seq(Subs) : free = free_subscribe_root /\ Distinct(free)
    BY DEF EventInv, EventTypes, ListsDistinct
<1>4. PICK w : w = Adopted(free, th[t].name)
    OBVIOUS
<1>5. w \in [subs : Seq(Subs), free : Seq(Subs)] /\ WalkedTo(w, free, Len(free))
    BY <1>3, <1>4, AdoptedIs
<1>6. PICK e : e = [name |-> th[t].name, owner |-> None, subs |-> w.subs]
    OBVIOUS
<1>7. e \in Node /\ e.owner = None /\ e.subs = w.subs
    BY <1>1, <1>5, <1>6 DEF Node
<1> DEFINE r == [pc |-> "publish", node |-> n + 1]
<1>8. /\ event_root' = Append(event_root, e) /\ free_subscribe_root' = w.free /\ Goto(t, r)
      /\ UNCHANGED <<adds, calls, ops>>
    BY <1>2, <1>3, <1>4, <1>6 DEF EventNodeCreateInit
<1>9. /\ event_root' \in Seq(Node) /\ Len(event_root') = n + 1 /\ event_root'[n + 1] = e
      /\ \A j \in 1..n : event_root'[j] = event_root[j]
  <2>1. event_root \in Seq(Node)
      BY DEF EventInv, EventTypes
  <2>2. /\ Append(event_root, e) \in Seq(Node)
        /\ Len(Append(event_root, e)) = Len(event_root) + 1
        /\ \A j \in 1..Len(event_root) : Append(event_root, e)[j] = event_root[j]
        /\ Append(event_root, e)[Len(event_root) + 1] = e
      BY <1>7, <2>1, AppendProperties
  <2> QED BY <1>2, <1>8, <2>2, Zenon
<1>10. r \in ThRec /\ r.pc = "publish" /\ r.node = n + 1
    BY <1>2 DEF ThRec
<1> HIDE DEF r
<1>11. /\ w.subs \in Seq(Subs) /\ w.free \in Seq(Subs) /\ Distinct(w.subs) /\ Distinct(w.free)
       /\ EmergencyFirst(w.subs) /\ ToSet(w.subs) \intersect ToSet(w.free) = {}
       /\ ToSet(w.subs) \union ToSet(w.free) = ToSet(free)
  <2>1. {free[j] : j \in 1..Len(free)} = ToSet(free)
      BY DEF ToSet
  <2> QED BY <1>5, <2>1, Zenon DEF WalkedTo
<1>12. \A j \in 1..(n + 1) : j \in 1..n \/ j = n + 1
    BY <1>2
<1>13. EventTypes'
  <2>1. adds' \in [Subs -> Nat] /\ calls' \in [Subs -> Nat] /\ ops' \in 0..MaxOps
      BY <1>8 DEF EventInv, EventTypes
  <2>2. Len(event_root') >= Len(event_root) /\ r.node \in 1..Len(event_root')
      BY <1>2, <1>9, <1>10
  <2>3. free_subscribe_root' \in Seq(Subs)
      BY <1>8, <1>11
  <2> QED BY <1>8, <1>9, <1>10, <2>1, <2>2, <2>3, TypesAfter
<1>14. Owners' /\ WalksGood'
  <2>1. Len(event_root') >= Len(event_root) /\ Len(event_root') \in Nat
      BY <1>2, <1>9
  <2>2. \A j \in 1..Len(event_root) : event_root'[j] = event_root[j]
      BY <1>2, <1>9
  <2>3. ASSUME NEW j \in 1..Len(event_root'), j > Len(event_root)
        PROVE  event_root'[j].owner = None
    <3>1. j = n + 1
        BY <1>2, <1>9, <2>3
    <3> QED BY <1>7, <1>9, <3>1
  <2>4. th[t].pc # "dispatch" /\ r.pc # "dispatch"
      BY <1>1, <1>10
  <2> QED BY <1>8, <1>10, <2>1, <2>2, <2>3, <2>4, Aside
<1>15. ListsDistinct'
  <2>1. Distinct(free_subscribe_root')
      BY <1>8, <1>11
  <2>2. ASSUME NEW j \in 1..Len(event_root') PROVE Distinct(event_root'[j].subs)
    <3>1. CASE j \in 1..n
        BY <1>2, <1>9, <3>1 DEF EventInv, ListsDistinct
    <3>2. CASE j = n + 1
        BY <1>7, <1>9, <1>11, <3>2
    <3> QED BY <1>9, <1>12, <3>1, <3>2
  <2> QED BY <2>1, <2>2 DEF ListsDistinct
<1>16. EmergencyAhead'
  <2> SUFFICES ASSUME NEW j \in 1..Len(event_root') PROVE EmergencyFirst(event_root'[j].subs)
      BY DEF EmergencyAhead, EmergencyFirst
  <2>1. CASE j \in 1..n
    <3>1. EmergencyFirst(event_root[j].subs)
        BY <1>2, <2>1 DEF EventInv, EmergencyAhead, EmergencyFirst
    <3> QED BY <1>9, <2>1, <3>1
  <2>2. CASE j = n + 1
      BY <1>7, <1>9, <1>11, <2>2
  <2> QED BY <1>9, <1>12, <2>1, <2>2
<1>17. EnteredForEach'
  <2> SUFFICES ASSUME NEW x \in Subs, SubType[x] = "ONETIME"
               PROVE  IsFiniteSet(Places(x)') /\ calls'[x] + Cardinality(Places(x)') <= adds'[x]
      BY DEF EnteredForEach
  <2>1. IsFiniteSet(Places(x)) /\ calls[x] + Cardinality(Places(x)) <= adds[x]
      BY DEF EventInv, EnteredForEach
  <2>2. ListAt(0)' = w.free /\ ListAt(0) = free
      BY <1>3, <1>8 DEF ListAt
  <2>3. ASSUME NEW j \in 1..n PROVE ListAt(j)' = ListAt(j)
      BY <1>9 DEF ListAt
  <2>4. ListAt(n + 1)' = w.subs
    <3>1. n + 1 # 0
        BY <1>2
    <3> QED BY <1>7, <1>9, <3>1 DEF ListAt
  <2>5. \A j : j \in 0..(n + 1) <=> j = 0 \/ j \in 1..n \/ j = n + 1
      BY <1>2
  <2>6. \A j : j \in 0..n <=> j = 0 \/ j \in 1..n
      BY <1>2
  <2>7. \A j : j \in Places(x)' <=>
            \/ j = 0 /\ x \in ToSet(w.free)
            \/ j \in 1..n /\ x \in ToSet(ListAt(j))
            \/ j = n + 1 /\ x \in ToSet(w.subs)
    <3>1. Places(x)' = {j \in 0..(n + 1) : x \in ToSet(ListAt(j)')}
        BY <1>9 DEF Places
    <3> QED BY <2>2, <2>3, <2>4, <2>5, <3>1
  <2>8. \A j : j \in Places(x) <=>
            \/ j = 0 /\ x \in ToSet(free)
            \/ j \in 1..n /\ x \in ToSet(ListAt(j))
    <3>1. Places(x) = {j \in 0..n : x \in ToSet(ListAt(j))}
        BY <1>2 DEF Places
    <3> QED BY <2>2, <2>6, <3>1
  <2>9. CASE x \in ToSet(w.subs)
    <3>1. x \notin ToSet(w.free) /\ x \in ToSet(free)
        BY <1>11, <2>9
    <3>2. 0 \in Places(x) /\ 0 \notin 1..n /\ n + 1 \notin Places(x)
      <4>1. n + 1 # 0 /\ n + 1 \notin 1..n /\ 0 \notin 1..n
          BY <1>2
      <4> QED BY <2>8, <3>1, <4>1
    <3>3. Places(x)' = (Places(x) \ {0}) \union {n + 1}
        BY <2>7, <2>8, <2>9, <3>1, <3>2
    <3> DEFINE A == Places(x) \ {0}
    <3>4. /\ IsFiniteSet(A) /\ Cardinality(A) = Cardinality(Places(x)) - 1
          /\ Cardinality(Places(x)) \in Nat
        BY <2>1, <3>2, FS_RemoveElement, FS_CardinalityType
    <3>5. n + 1 \notin A
        BY <3>2
    <3> HIDE DEF A
    <3>6. IsFiniteSet(A \union {n + 1}) /\ Cardinality(A \union {n + 1}) = Cardinality(A) + 1
        BY <3>4, <3>5, FS_AddElement
    <3>7. Cardinality(A \union {n + 1}) = Cardinality(Places(x))
        BY <3>4, <3>6
    <3>8. Places(x)' = A \union {n + 1}
        BY <3>3 DEF A
    <3> QED BY <1>8, <2>1, <3>6, <3>7, <3>8
  <2>10. CASE x \notin ToSet(w.subs)
    <3>1. x \in ToSet(w.free) <=> x \in ToSet(free)
        BY <1>11, <2>10
    <3>2. Places(x)' = Places(x)
        BY <2>7, <2>8, <2>10, <3>1
    <3> QED BY <1>8, <2>1, <3>2
  <2> QED BY <2>9, <2>10
<1> QED BY <1>13, <1>14, <1>15, <1>16, <1>17 DEF EventInv

------------------------------------------------------------------------------
(* The theorems. *)

\* The inductive invariant of the event bus: who holds which mutex, that no list has an entry
\* twice, how often a one-time subscriber was entered, and where every publisher is in its list.
THEOREM TalEventInvariant == Spec => []EventInv
<1>1. EventInv /\ [Next]_vars => EventInv'
  <2> SUFFICES ASSUME EventInv, [Next]_vars PROVE EventInv'
      OBVIOUS
  <2>1. CASE UNCHANGED vars
    <3>1. UNCHANGED <<event_root, free_subscribe_root, th, adds, calls, ops>>
        BY <2>1 DEF vars
    <3>2. EventTypes' /\ Owners'
        BY <3>1 DEF EventInv, EventTypes, Owners
    <3>3. ListsDistinct' /\ EmergencyAhead' /\ WalksGood'
        BY <3>1 DEF EventInv, ListsDistinct, EmergencyAhead, WalksGood
    <3>4. EnteredForEach'
        BY <3>1 DEF EventInv, EnteredForEach, Places, ListAt
    <3> QED BY <3>2, <3>3, <3>4 DEF EventInv
  <2>2. CASE Next
    <3>1. PICK t \in Threads : Call(t) \/ Finish(t)
        BY <2>2 DEF Next
    <3>2. CASE \E name \in Names : tal_event_publish(t, name)
        BY <3>2, PublishStep
    <3>3. CASE \E s \in Subs : tal_event_subscribe(t, s) \/ tal_event_unsubscribe(t, s)
        BY <3>3, LookupStep DEF tal_event_subscribe, tal_event_unsubscribe
    <3>4. CASE EventNodeCreateInit(t)
        BY <3>4, CreateStep
    <3>5. CASE PublishLock(t)
        BY <3>5, LockStep
    <3>6. CASE PublishUnlock(t)
        BY <3>6, UnlockStep
    <3>7. CASE DispatchOne(t)
        BY <3>7, DispatchStep
    <3>8. CASE AddFreeSubscribe(t)
        BY <3>8, AddFreeStep
    <3>9. CASE AddSubscribe(t)
        BY <3>9, AddStep
    <3>10. CASE DelFreeSubscribe(t)
        BY <3>10, DelFreeStep
    <3>11. CASE DelSubscribe(t)
        BY <3>11, DelStep
    <3> QED BY <3>1, <3>2, <3>3, <3>4, <3>5, <3>6, <3>7, <3>8, <3>9, <3>10, <3>11
            DEF Call, Finish
  <2> QED BY <2>1, <2>2
<1> QED BY <1>1, InitHolds, PTL DEF Spec

\* The lists hold subscribers, and an event's mutex is held by exactly the thread that
\* dispatches under it.
THEOREM TalEventTypes == Spec => []TypeOK
<1>1. EventInv => TypeOK
  <2> SUFFICES ASSUME EventInv PROVE TypeOK
      OBVIOUS
  <2>1. \A i \in 1..Len(event_root) : event_root[i] \in Node
      BY Opened DEF EventInv
  <2>2. \A i \in 1..Len(event_root), t \in Threads :
            event_root[i].owner = t <=> th[t].pc = "dispatch" /\ th[t].node = i
      BY DEF EventInv, Owners
  <2>3. \A t \in Threads :
            th[t].pc \in {"idle", "create", "publish", "dispatch", "subscribe", "unsubscribe"}
      BY ThShape, Opened DEF EventInv
  <2>4. \A s \in Subs : adds[s] \in Nat /\ calls[s] \in Nat
      BY DEF EventInv, EventTypes
  <2>5. free_subscribe_root \in Seq(Subs) /\ ops \in 0..MaxOps
      BY DEF EventInv, EventTypes
  <2> QED BY <2>1, <2>2, <2>3, <2>4, <2>5, Zenon DEF TypeOK, Node
<1> QED BY <1>1, TalEventInvariant, PTL

\* "emergency type, dispatch first": emergency subscribers are in front of the others in every
\* event's list, for those _event_node_create_init took over as for those added later.
THEOREM TalEventEmergencyAhead == Spec => []EmergencyAhead
<1>1. EventInv => EmergencyAhead
    BY DEF EventInv
<1> QED BY <1>1, TalEventInvariant, PTL

\* "remove after first time dispath": a one-time subscriber is called at most once for every
\* time it was entered, whatever threads publish, subscribe and create nodes in between.
THEOREM TalEventOneTimeOnce == Spec => []OneTimeOnce
<1>1. EventInv => OneTimeOnce
  <2> SUFFICES ASSUME EventInv, NEW s \in Subs, SubType[s] = "ONETIME"
               PROVE  calls[s] <= adds[s]
      BY DEF OneTimeOnce
  <2>1. calls[s] + Cardinality(Places(s)) <= adds[s] /\ IsFiniteSet(Places(s))
      BY DEF EventInv, EnteredForEach
  <2>2. Cardinality(Places(s)) \in Nat
      BY <2>1, FS_CardinalityType
  <2>3. calls[s] \in Nat /\ adds[s] \in Nat
      BY DEF EventInv, EventTypes
  <2> QED BY <2>1, <2>2, <2>3
<1> QED BY <1>1, TalEventInvariant, PTL

\* _event_node_dispatch called exactly the subscribers it found when it locked the event, each
\* once and in order, although one-time entries leave the list under its feet.
THEOREM TalEventDispatchComplete == Spec => []DispatchComplete
<1>1. EventInv => DispatchComplete
  <2> SUFFICES ASSUME EventInv, NEW t \in Threads, th[t].pc = "dispatch", th[t].p = None
               PROVE  th[t].got = th[t].due
      BY DEF DispatchComplete
  <2>1. th[t].due \in Seq(Subs) /\ th[t].got \in Seq(Subs)
      BY ThShape, Opened DEF EventInv
  <2>2. InWalk(th[t], event_root[th[t].node].subs)
      BY DEF EventInv, WalksGood
  <2> QED BY <2>1, <2>2, WalkEnds
<1> QED BY <1>1, TalEventInvariant, PTL
==============================================================================
