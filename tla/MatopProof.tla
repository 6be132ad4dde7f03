----------------------------- MODULE MatopProof -----------------------------
(***************************************************************************)
(* Theorems about Matop, for any number of threads, entries, bits of an id *)
(* and reconnections.                                                      *)
(***************************************************************************)
EXTENDS Matop, TLAPS

\* The places that hold a link: the head, and the memory of an entry not yet freed.
Sources == Handles \union {HEAD}
Live(p) == p = HEAD \/ mem[p] = "allocated"
Linked(h) == mem[h] = "allocated" /\ \A t \in Threads : mine[t] # h

\* No live link leads to freed memory, or to an entry that its thread has yet to link.
LinksLive == \A p \in Sources : Live(p) /\ Link(p) # NULL => Linked(Link(p))

\* An entry hangs on one live link.
LinksOne ==
    \A p, q \in Sources :
        Live(p) /\ Live(q) /\ Link(p) # NULL /\ Link(p) = Link(q) => p = q

\* Links make no cycle: every set of allocated entries has one whose link leaves it.
Allocated == {h \in Handles : mem[h] = "allocated"}
NoCycle(f, A) == \A S \in SUBSET A : S # {} => \E h \in S : f[h] \notin S

\* What a thread is about to link is its own and fresh.
MineFresh ==
    \A t \in Threads :
        /\ rpc[t] # "idle" <=> mine[t] # NULL
        /\ mine[t] # NULL => /\ mem[mine[t]] = "allocated" /\ next[mine[t]] = NULL
                             /\ told[mine[t]] = 0
                             /\ \A u \in Threads : mine[u] = mine[t] => u = t
UnusedFresh == \A h \in Handles : mem[h] = "unused" => next[h] = NULL /\ told[h] = 0

\* Where a thread's walk stands, an entry was linked before.
LastLinked ==
    \A t \in Threads : rpc[t] \in {"walk", "link"} =>
        /\ last[t] # NULL
        /\ last[t] # HEAD => mem[last[t]] # "unused" /\ \A u \in Threads : mine[u] # last[t]

HeapInv ==
    /\ LinksLive /\ LinksOne /\ NoCycle(next, Allocated)
    /\ MineFresh /\ UnusedFresh /\ LastLinked

\* What the main thread holds in each of its steps.
Stages ==
    /\ pc \in {"idle", "destroy"} => cur = HEAD /\ target = NULL /\ nxt = NULL
    /\ pc = "find" => cur = HEAD /\ nxt = NULL /\ ans \in Handles
    /\ pc = "yield" => cur # NULL /\ target = NULL /\ nxt = NULL
    /\ pc = "tell" => nxt = NULL
    /\ pc = "unlink" => nxt = NULL /\ cur # NULL /\ cur # target
    /\ pc = "splice" => cur # NULL /\ cur # target /\ nxt # target
    /\ Telling => target \in Handles /\ told[target] = 1

\* With the link in hand, no other leads to the entry, and none to its successor.
Held == pc = "splice" \/ (pc = "tell" /\ cur # NULL)
HeldOne ==
    /\ Held => \A p \in Sources : Live(p) /\ Link(p) = target => p = cur
    /\ pc = "splice" /\ nxt # NULL =>
           \A p \in Sources : Live(p) /\ Link(p) = nxt => p = target

\* The links as the main thread saw them, whatever was written to them since.
Seen == LET f == IF cur = HEAD THEN next ELSE [next EXCEPT ![cur] = target]
        IN  IF pc = "splice" THEN [f EXCEPT ![target] = nxt] ELSE f
SeenAcyclic == Held => NoCycle(Seen, Allocated)

\* All that the head and the main thread lead to is linked, and its callback is to come.
Good(h) == Linked(h) /\ (told[h] = 0 \/ (Telling /\ h = target))
Rooted(S) ==
    /\ \A h \in {message_list, cur, target, nxt} : h \in Handles => h \in S
    /\ \A h \in S : next[h] # NULL => next[h] \in S
RootsGood == \E S \in SUBSET Handles : Rooted(S) /\ \A h \in S : Good(h)

\* What the walk for the told entry has left behind does not lead to it around cur.
Skipped(S) ==
    /\ target \notin S
    /\ cur # HEAD /\ message_list # NULL => message_list \in S
    /\ \A h \in S : h # cur /\ next[h] # NULL => next[h] \in S
UnlinkSkips == pc = "unlink" => \E S \in SUBSET Handles : Skipped(S)

WalkInv == Stages /\ HeldOne /\ SeenAcyclic /\ RootsGood /\ UnlinkSkips

\* Numbers given, and answers to them.
HasId(h) == mem[h] # "unused" /\ \A t \in Threads : mine[t] = h => rpc[t] # "number"
IdsBounded ==
    \A h \in Handles : HasId(h) =>
        id[h].era <= era /\ (id[h].era = era /\ ~torn => id[h].no <= id_cnt % IdMod)
IdsDistinct ==
    ~torn => \A g, h \in Handles : HasId(g) /\ HasId(h) /\ id[g] = id[h] => g = h
Answered ==
    /\ \A h \in answers : HasId(h)
    /\ ans # NULL => HasId(ans)
    /\ \A h \in Handles : by[h] # NULL => HasId(h) /\ HasId(by[h])
IdInv == IdsBounded /\ IdsDistinct /\ Answered

MatopInv ==
    TypeOK /\ OwnAnswer /\ (pc # "fault" => HeapInv /\ WalkInv /\ NoneForgotten /\ IdInv)

------------------------------------------------------------------------------
LEMMA Pointers == NULL \notin Handles /\ HEAD \notin Handles /\ NULL # HEAD
BY MatopAssumption DEF NULL, HEAD

\* A new end of the list closes no cycle ...
LEMMA AppendNoCycle ==
    ASSUME NEW A \in SUBSET Handles, NEW f, NEW g, NEW m \in Handles, NoCycle(f, A),
           f[m] = NULL, \A h \in Handles : g[h] = f[h] \/ (h # m /\ g[h] = m)
    PROVE  NoCycle(g, A)
<1> SUFFICES ASSUME NEW S \in SUBSET A, S # {} PROVE \E h \in S : g[h] \notin S
    BY DEF NoCycle
<1>1. CASE m \in S
    BY <1>1, Pointers
<1>2. CASE m \notin S
  <2>1. PICK h \in S : f[h] \notin S
      BY DEF NoCycle
  <2> QED BY <1>2, <2>1
<1> QED BY <1>1, <1>2

\* ... nor does an entry that leads nowhere.
LEMMA AllocNoCycle ==
    ASSUME NEW A \in SUBSET Handles, NEW f, NEW m \in Handles, NoCycle(f, A), f[m] = NULL
    PROVE  NoCycle(f, A \union {m})
<1> SUFFICES ASSUME NEW S \in SUBSET (A \union {m}), S # {} PROVE \E h \in S : f[h] \notin S
    BY DEF NoCycle
<1>1. CASE m \in S
    BY <1>1, Pointers
<1>2. CASE m \notin S
    BY <1>2 DEF NoCycle
<1> QED BY <1>1, <1>2

------------------------------------------------------------------------------
\* Links and their sources, before and after they are read.
LEMMA LinkTypes ==
    ASSUME TypeOK
    PROVE  /\ \A p \in Sources : Link(p) \in Handles \union {NULL}
           /\ message_list \in Handles \union {NULL}
           /\ next \in [Handles -> Handles \union {NULL}]
           /\ mem \in [Handles -> {"unused", "allocated", "freed"}]
           /\ mine \in [Threads -> Handles \union {NULL}]
           /\ Allocated \in SUBSET Handles
BY DEF TypeOK, Link, Sources, Allocated

\* The write of a link.
LEMMA SetLinkIs ==
    ASSUME TypeOK, NEW p \in Sources, NEW x \in Handles \union {NULL}, SetLink(p, x)
    PROVE  /\ \A q \in Sources : (Link(q))' = IF q = p THEN x ELSE Link(q)
           /\ \A h \in Handles : next'[h] = IF h = p THEN x ELSE next[h]
           /\ message_list' = IF p = HEAD THEN x ELSE message_list
           /\ message_list' \in Handles \union {NULL}
           /\ next' \in [Handles -> Handles \union {NULL}]
<1>1. \A h \in Handles : next'[h] = IF h = p THEN x ELSE next[h]
    BY LinkTypes, Pointers DEF SetLink, Sources
<1>2. message_list' = IF p = HEAD THEN x ELSE message_list
    BY DEF SetLink
<1>3. \A q \in Sources : (Link(q))' = IF q = p THEN x ELSE Link(q)
    BY <1>1, <1>2, Pointers DEF Link, Sources
<1>4. next' \in [Handles -> Handles \union {NULL}]
    BY LinkTypes DEF SetLink
<1>5. message_list' \in Handles \union {NULL}
    BY <1>2, LinkTypes
<1> QED BY <1>1, <1>2, <1>3, <1>4, <1>5

------------------------------------------------------------------------------
\* What the main thread holds, and the list, is linked.
LEMMA RootsLinked ==
    ASSUME TypeOK, WalkInv
    PROVE  /\ cur \in Handles => Good(cur)
           /\ target \in Handles => Good(target)
           /\ nxt \in Handles => Good(nxt)
           /\ message_list \in Handles => Good(message_list)
           /\ cur \in Handles \union {HEAD, NULL} /\ target \in Handles \union {NULL}
           /\ nxt \in Handles \union {NULL}
<1>1. PICK S \in SUBSET Handles : Rooted(S) /\ \A h \in S : Good(h)
    BY DEF WalkInv, RootsGood
<1> QED BY <1>1 DEF Rooted, TypeOK

\* The steps of a walk that has the link to the entry in hand.
LEMMA SeenIs ==
    ASSUME TypeOK, WalkInv, Held
    PROVE  /\ target \in Handles /\ cur \in Sources
           /\ \A h \in Handles :
                  Seen[h] = IF pc = "splice" /\ h = target THEN nxt
                            ELSE IF h = cur THEN target ELSE next[h]
<1>1. target \in Handles /\ cur \in Sources /\ cur # NULL
    BY Pointers DEF WalkInv, Stages, Held, Telling, TypeOK, Sources
<1>2. next \in [Handles -> Handles \union {NULL}]
    BY LinkTypes
<1>3. ASSUME NEW h \in Handles
      PROVE  Seen[h] = IF pc = "splice" /\ h = target THEN nxt
                       ELSE IF h = cur THEN target ELSE next[h]
  <2> DEFINE f == IF cur = HEAD THEN next ELSE [next EXCEPT ![cur] = target]
  <2>1. f \in [Handles -> Handles \union {NULL}]
      BY <1>1, <1>2
  <2>2. f[h] = IF h = cur THEN target ELSE next[h]
      BY <1>1, <1>2, Pointers DEF Sources
  <2>3. Seen = IF pc = "splice" THEN [f EXCEPT ![target] = nxt] ELSE f
      BY DEF Seen
  <2> HIDE DEF f
  <2> QED BY <1>1, <2>1, <2>2, <2>3
<1> QED BY <1>1, <1>3

\* A thread links its entry.
LEMMA AppendHeap ==
    ASSUME TypeOK, HeapInv, WalkInv, NoneForgotten, NEW t \in Threads, AppendLinks(t)
    PROVE  HeapInv' /\ WalkInv' /\ NoneForgotten'
<1> DEFINE m == mine[t]
           p == last[t]
<1>1. /\ pc # "fault" /\ rpc[t] = "link" /\ SetLink(p, m) /\ mem' = mem /\ told' = told
      /\ raced' = (raced \/ Link(p) # NULL)
      /\ mine' = [mine EXCEPT ![t] = NULL] /\ last' = [last EXCEPT ![t] = NULL]
      /\ rpc' = [rpc EXCEPT ![t] = "idle"]
      /\ pc' = pc /\ cur' = cur /\ target' = target /\ nxt' = nxt /\ ans' = ans
    BY DEF AppendLinks, At, Goto, outVars, mainVars
<1>2. m \in Handles /\ p \in Sources /\ p # NULL /\ Live(p) /\ m # p
    BY <1>1, Pointers DEF AppendLinks, Gone, HeapInv, MineFresh, LastLinked, TypeOK, Sources, Live
<1>3. /\ rpc \in [Threads -> {"idle", "number", "send", "append", "walk", "link"}]
      /\ last \in [Threads -> Handles \union {NULL, HEAD}]
    BY DEF TypeOK
<1>4. /\ mem[m] = "allocated" /\ next[m] = NULL /\ told[m] = 0
      /\ \A u \in Threads : mine[u] = m => u = t
    BY <1>2, Pointers DEF HeapInv, MineFresh
<1>5. p # HEAD => \A u \in Threads : mine[u] # p
    BY <1>1 DEF HeapInv, LastLinked
<1> HIDE DEF m, p
<1>6. /\ \A q \in Sources : (Link(q))' = IF q = p THEN m ELSE Link(q)
      /\ \A h \in Handles : next'[h] = IF h = p THEN m ELSE next[h]
      /\ message_list' = IF p = HEAD THEN m ELSE message_list
    BY <1>1, <1>2, SetLinkIs
<1>7. mine'[t] = NULL /\ \A u \in Threads : u # t => mine'[u] = mine[u]
    BY <1>1, LinkTypes
<1>8. \A h \in Handles : (Linked(h))' <=> Linked(h) \/ h = m
    BY <1>1, <1>2, <1>4, <1>7, Pointers DEF Linked, m
<1>9. \A q \in Sources : (Live(q))' <=> Live(q)
    BY <1>1 DEF Live
<1>10. \A q \in Sources : Live(q) => Link(q) # m
    BY <1>2, Pointers DEF HeapInv, LinksLive, Linked, m
<1>11. cur # m /\ target # m /\ nxt # m
    BY <1>2, RootsLinked DEF Good, Linked, m
<1>12. LinksLive'
    BY <1>2, <1>6, <1>8, <1>9, LinkTypes DEF HeapInv, LinksLive
<1>13. LinksOne'
    BY <1>6, <1>9, <1>10 DEF HeapInv, LinksOne
<1>14. Allocated' = Allocated /\ Allocated \in SUBSET Handles
    BY <1>1 DEF Allocated
<1>15. NoCycle(next, Allocated)'
  <2>1. \A h \in Handles : next'[h] = next[h] \/ (h # m /\ next'[h] = m)
      BY <1>2, <1>6
  <2>2. NoCycle(next', Allocated)
      BY <1>2, <1>4, <1>14, <2>1, AppendNoCycle DEF HeapInv
  <2> QED BY <1>14, <2>2 DEF NoCycle
<1>16. MineFresh'
  <2> SUFFICES ASSUME NEW u \in Threads
               PROVE  /\ rpc'[u] # "idle" <=> mine'[u] # NULL
                      /\ mine'[u] # NULL =>
                             /\ mem'[mine'[u]] = "allocated" /\ next'[mine'[u]] = NULL
                             /\ told'[mine'[u]] = 0
                             /\ \A v \in Threads : mine'[v] = mine'[u] => v = u
      BY DEF MineFresh
  <2>1. CASE u = t
      BY <1>1, <1>3, <1>7, <2>1
  <2>2. CASE u # t
    <3>1. mine'[u] = mine[u] /\ rpc'[u] = rpc[u]
        BY <1>1, <1>3, <1>7, <2>2
    <3>2. mine[u] # NULL => mine[u] \in Handles /\ next'[mine[u]] = next[mine[u]]
        BY <1>5, <1>6, LinkTypes, Pointers
    <3> QED BY <1>1, <1>7, <3>1, <3>2 DEF HeapInv, MineFresh
  <2> QED BY <2>1, <2>2
<1>17. UnusedFresh'
    BY <1>1, <1>2, <1>6, Pointers DEF HeapInv, UnusedFresh, Live
<1>18. LastLinked'
  <2> SUFFICES ASSUME NEW u \in Threads, rpc'[u] \in {"walk", "link"}
               PROVE  /\ last'[u] # NULL
                      /\ last'[u] # HEAD => /\ mem'[last'[u]] # "unused"
                                             /\ \A v \in Threads : mine'[v] # last'[u]
      BY DEF LastLinked
  <2>1. u # t /\ last'[u] = last[u] /\ rpc'[u] = rpc[u]
      BY <1>1, <1>3
  <2>2. \A v \in Threads : mine'[v] \in {mine[v], NULL}
      BY <1>7
  <2> QED BY <1>1, <2>1, <2>2 DEF HeapInv, LastLinked
<1>19. HeapInv'
    BY <1>12, <1>13, <1>15, <1>16, <1>17, <1>18 DEF HeapInv
<1>20. Stages' /\ (Telling' <=> Telling) /\ (Held' <=> Held)
    BY <1>1 DEF WalkInv, Stages, Telling, Held
<1>21. HeldOne'
    BY <1>1, <1>6, <1>9, <1>11, <1>20 DEF WalkInv, HeldOne
<1>22. SeenAcyclic'
  <2> SUFFICES ASSUME Held PROVE NoCycle(Seen', Allocated)
      BY <1>14, <1>20 DEF SeenAcyclic, NoCycle
  <2>1. /\ target \in Handles /\ cur \in Sources
        /\ \A h \in Handles :
               Seen[h] = IF pc = "splice" /\ h = target THEN nxt
                         ELSE IF h = cur THEN target ELSE next[h]
      BY SeenIs
  <2>2. \A h \in Handles :
               Seen'[h] = IF pc = "splice" /\ h = target THEN nxt
                          ELSE IF h = cur THEN target ELSE next'[h]
    <3>1. next' \in [Handles -> Handles \union {NULL}]
        BY <1>1, <1>2, SetLinkIs
    <3> DEFINE f == IF cur = HEAD THEN next' ELSE [next' EXCEPT ![cur] = target]
    <3>2. f \in [Handles -> Handles \union {NULL}]
        BY <2>1, <3>1
    <3>3. \A h \in Handles : f[h] = IF h = cur THEN target ELSE next'[h]
        BY <2>1, <3>1, Pointers DEF Sources
    <3>4. Seen' = IF pc = "splice" THEN [f EXCEPT ![target] = nxt] ELSE f
        BY <1>1 DEF Seen
    <3> HIDE DEF f
    <3> QED BY <2>1, <3>2, <3>3, <3>4
  <2>3. Seen[m] = NULL /\ \A h \in Handles : Seen'[h] = Seen[h] \/ (h # m /\ Seen'[h] = m)
      BY <1>2, <1>4, <1>6, <1>11, <2>1, <2>2
  <2>4. NoCycle(Seen, Allocated)
      BY DEF WalkInv, SeenAcyclic
  <2> QED BY <1>2, <1>14, <2>3, <2>4, AppendNoCycle
<1>23. RootsGood'
  <2>1. PICK S \in SUBSET Handles : Rooted(S) /\ \A h \in S : Good(h)
      BY DEF WalkInv, RootsGood
  <2>2. PICK T \in SUBSET Handles : T = S \union {m}
      BY <1>2
  <2>3. (Rooted(T))'
      BY <1>1, <1>2, <1>4, <1>6, <2>1, <2>2 DEF Rooted
  <2>4. \A h \in T : (Good(h))'
      BY <1>1, <1>2, <1>4, <1>8, <1>20, <2>1, <2>2 DEF Good
  <2> QED BY <2>2, <2>3, <2>4 DEF RootsGood
<1>24. UnlinkSkips'
  <2> SUFFICES ASSUME pc = "unlink" PROVE \E S \in SUBSET Handles : (Skipped(S))'
      BY <1>1 DEF UnlinkSkips
  <2>1. PICK S \in SUBSET Handles : Skipped(S)
      BY DEF WalkInv, UnlinkSkips
  <2>2. PICK T \in SUBSET Handles : T = S \union {m}
      BY <1>2
  <2>3. (Skipped(T))'
      BY <1>1, <1>2, <1>4, <1>6, <1>11, <2>1, <2>2 DEF Skipped
  <2> QED BY <2>2, <2>3
<1>25. NoneForgotten'
  <2> SUFFICES ASSUME ~raced', NEW h \in Handles, mem[h] = "allocated",
                      \A u \in Threads : mine'[u] # h, NEW S \in SUBSET Handles, (Closed(S))'
               PROVE  h \in S
      BY <1>1 DEF NoneForgotten, Entries
  <2>1. ~raced /\ Link(p) = NULL
      BY <1>1
  <2>2. Closed(S)
      BY <1>2, <1>6, <2>1, Pointers DEF Closed, Link, Sources
  <2>3. ASSUME NEW g \in Handles, mem[g] = "allocated", \A u \in Threads : mine[u] # g
        PROVE  g \in S
      BY <1>1, <2>1, <2>2, <2>3 DEF NoneForgotten, Entries
  <2>4. m \in S
      BY <1>2, <1>5, <1>6, <2>3, Pointers DEF Closed, Live, Sources
  <2>5. CASE h # m
      BY <1>7, <2>3, <2>5 DEF m
  <2> QED BY <2>4, <2>5
<1> QED BY <1>19, <1>20, <1>21, <1>22, <1>23, <1>24, <1>25 DEF WalkInv

------------------------------------------------------------------------------
\* The entry e is taken off its one link p, which gets x, and freed.
Cut(p, e, x) ==
    /\ p \in Sources /\ e \in Handles /\ p # e /\ x \in Handles \union {NULL} /\ x # e
    /\ (p # HEAD => Linked(p)) /\ Linked(e) /\ (x # NULL => Linked(x))
    /\ \A q \in Sources : Live(q) /\ Link(q) = e => q = p
    /\ x # NULL => \A q \in Sources : Live(q) /\ Link(q) = x => q = e
    /\ SetLink(p, x) /\ mem' = [mem EXCEPT ![e] = "freed"]
    /\ UNCHANGED <<told, reqVars>>

LEMMA CutIs ==
    ASSUME TypeOK, NEW p, NEW e, NEW x, Cut(p, e, x)
    PROVE  /\ \A q \in Sources : (Link(q))' = IF q = p THEN x ELSE Link(q)
           /\ \A h \in Handles : next'[h] = IF h = p THEN x ELSE next[h]
           /\ message_list' = IF p = HEAD THEN x ELSE message_list
           /\ \A h \in Handles : mem'[h] = IF h = e THEN "freed" ELSE mem[h]
           /\ \A q \in Sources : (Live(q))' <=> Live(q) /\ q # e
           /\ \A h \in Handles : (Linked(h))' <=> Linked(h) /\ h # e
           /\ Allocated' = Allocated \ {e}
           /\ rpc' = rpc /\ mine' = mine /\ last' = last /\ told' = told
<1>1. p \in Sources /\ e \in Handles /\ x \in Handles \union {NULL} /\ SetLink(p, x)
    BY DEF Cut
<1>2. /\ \A q \in Sources : (Link(q))' = IF q = p THEN x ELSE Link(q)
      /\ \A h \in Handles : next'[h] = IF h = p THEN x ELSE next[h]
      /\ message_list' = IF p = HEAD THEN x ELSE message_list
    BY <1>1, SetLinkIs
<1>3. \A h \in Handles : mem'[h] = IF h = e THEN "freed" ELSE mem[h]
    BY LinkTypes DEF Cut
<1>4. rpc' = rpc /\ mine' = mine /\ last' = last /\ told' = told
    BY DEF Cut, reqVars
<1>5. \A q \in Sources : (Live(q))' <=> Live(q) /\ q # e
    BY <1>1, <1>3, Pointers DEF Live, Sources
<1>6. \A h \in Handles : (Linked(h))' <=> Linked(h) /\ h # e
    BY <1>3, <1>4 DEF Linked
<1>7. Allocated' = Allocated \ {e}
    BY <1>3 DEF Allocated
<1> QED BY <1>2, <1>3, <1>4, <1>5, <1>6, <1>7

LEMMA CutHeap ==
    ASSUME TypeOK, HeapInv, NEW p, NEW e, NEW x, Cut(p, e, x),
           NEW w, NoCycle(w, Allocated),
           \A h \in Handles : w[h] = IF h = e THEN x ELSE IF h = p THEN e ELSE next[h]
    PROVE  HeapInv'
<1>1. /\ p \in Sources /\ e \in Handles /\ p # e /\ x \in Handles \union {NULL} /\ x # e
      /\ Live(p) /\ (p # HEAD => Linked(p)) /\ Linked(e) /\ (x # NULL => Linked(x))
      /\ \A q \in Sources : Live(q) /\ Link(q) = e => q = p
      /\ x # NULL => \A q \in Sources : Live(q) /\ Link(q) = x => q = e
    BY DEF Cut, Live, Linked
<1>2. LinksLive'
    BY <1>1, CutIs, LinkTypes DEF HeapInv, LinksLive
<1>3. LinksOne'
    BY <1>1, CutIs DEF HeapInv, LinksOne
<1>4. NoCycle(next, Allocated)'
  <2>1. e \in Allocated /\ Allocated \in SUBSET Handles
      BY <1>1 DEF Linked, Allocated
  <2>2. \A h \in Handles : next'[h] = IF h = p THEN x ELSE next[h]
      BY CutIs
  <2>3. ASSUME NEW S \in SUBSET (Allocated \ {e}), S # {} PROVE \E h \in S : next'[h] \notin S
    <3>1. CASE p \in S
      <4>1. S \union {e} \in SUBSET Allocated /\ S \union {e} # {}
          BY <2>1
      <4>2. PICK h \in S \union {e} : w[h] \notin S \union {e}
          BY <4>1 DEF NoCycle
      <4> QED BY <2>1, <2>2, <3>1, <4>2
    <3>2. CASE p \notin S
      <4>1. PICK h \in S : next[h] \notin S
          BY <2>3 DEF HeapInv, NoCycle
      <4> QED BY <2>1, <2>2, <3>2, <4>1
    <3> QED BY <3>1, <3>2
  <2>4. Allocated' = Allocated \ {e}
      BY CutIs
  <2> QED BY <2>3, <2>4 DEF NoCycle
<1>5. MineFresh'
  <2>1. \A t \in Threads : mine[t] # NULL => mine[t] \in Handles /\ mine[t] # e
      BY <1>1, LinkTypes DEF Linked
  <2>2. \A t \in Threads : mine[t] # NULL => mine[t] # p
      BY <1>1, <2>1, Pointers DEF Linked
  <2> QED BY <2>1, <2>2, CutIs DEF HeapInv, MineFresh
<1>6. UnusedFresh'
    BY <1>1, CutIs, Pointers DEF HeapInv, UnusedFresh, Live
<1>7. LastLinked'
  <2>1. last \in [Threads -> Handles \union {NULL, HEAD}]
      BY DEF TypeOK
  <2> QED BY <2>1, CutIs DEF HeapInv, LastLinked
<1> QED BY <1>2, <1>3, <1>4, <1>5, <1>6, <1>7 DEF HeapInv

\* Nothing else is cut off when the links were still as they had been read.
LEMMA CutForgets ==
    ASSUME TypeOK, pc # "fault", NEW p, NEW e, NEW x, Cut(p, e, x), Link(p) = e, next[e] = x,
           ~raced, NoneForgotten
    PROVE  NoneForgotten'
<1> SUFFICES ASSUME NEW h \in Handles, mem'[h] = "allocated", \A t \in Threads : mine'[t] # h,
                    NEW S \in SUBSET Handles, (Closed(S))'
             PROVE  h \in S
    BY DEF NoneForgotten, Entries
<1>1. /\ p \in Sources /\ e \in Handles /\ p # e /\ x \in Handles \union {NULL} /\ x # e
      /\ (p # HEAD => Linked(p)) /\ e # NULL
    BY Pointers DEF Cut
<1>2. ASSUME NEW g \in Handles, Linked(g), NEW T \in SUBSET Handles, Closed(T) PROVE g \in T
    BY <1>2 DEF NoneForgotten, Entries, Linked
<1>3. mem[h] = "allocated" /\ h # e /\ Linked(h)
    BY CutIs DEF Linked
<1> DEFINE T == S \union (IF p = HEAD \/ p \in S THEN {e} ELSE {})
<1>4. T \in SUBSET Handles
    BY <1>1
<1>5. Closed(T)
  <2>1. message_list # NULL => message_list \in T
      BY <1>1, CutIs DEF Closed, Link
  <2>2. ASSUME NEW g \in S, next[g] # NULL PROVE next[g] \in T
      BY <1>1, <2>2, CutIs, Pointers DEF Closed, Link
  <2>3. p = HEAD \/ p \in S => (next[e] # NULL => next[e] \in T)
    <3>1. p = HEAD => message_list' = x
        BY CutIs
    <3>2. p \in S => next'[p] = x
        BY CutIs
    <3> QED BY <3>1, <3>2 DEF Closed
  <2> QED BY <2>1, <2>2, <2>3 DEF Closed
<1>6. h \in T
    BY <1>2, <1>3, <1>4, <1>5
<1> QED BY <1>3, <1>6

\* An entry that has been told is taken out of the list.
LEMMA SpliceHeap ==
    ASSUME TypeOK, HeapInv, WalkInv, NoneForgotten, Splice
    PROVE  HeapInv' /\ WalkInv' /\ NoneForgotten'
<1>1. /\ pc = "splice" /\ SetLink(cur, nxt) /\ mem' = [mem EXCEPT ![target] = "freed"]
      /\ raced' = (raced \/ Link(cur) # target \/ next[target] # nxt) /\ Return
      /\ UNCHANGED <<told, reqVars>>
    BY DEF Splice, outVars
<1>2. /\ cur \in Sources /\ target \in Handles /\ cur # target /\ nxt # target
      /\ nxt \in Handles \union {NULL} /\ Held
    BY <1>1, RootsLinked DEF WalkInv, Stages, Telling, Sources, Held
<1>3. Cut(cur, target, nxt)
  <2>1. (cur # HEAD => Linked(cur)) /\ Linked(target) /\ (nxt # NULL => Linked(nxt))
      BY <1>2, RootsLinked DEF Good, Sources
  <2>2. /\ \A q \in Sources : Live(q) /\ Link(q) = target => q = cur
        /\ nxt # NULL => \A q \in Sources : Live(q) /\ Link(q) = nxt => q = target
      BY <1>1, <1>2 DEF WalkInv, HeldOne
  <2> QED BY <1>1, <1>2, <2>1, <2>2 DEF Cut
<1>4. HeapInv'
  <2>1. NoCycle(Seen, Allocated)
      BY <1>2 DEF WalkInv, SeenAcyclic
  <2>2. \A h \in Handles :
            Seen[h] = IF h = target THEN nxt ELSE IF h = cur THEN target ELSE next[h]
      BY <1>1, <1>2, SeenIs
  <2> HIDE DEF Seen
  <2> QED BY <1>3, <2>1, <2>2, CutHeap
<1>5. /\ pc' = "idle" /\ cur' = HEAD /\ target' = NULL /\ nxt' = NULL /\ ans' = NULL
    BY <1>1 DEF Return
<1>6. Stages' /\ HeldOne' /\ SeenAcyclic' /\ UnlinkSkips'
    BY <1>5 DEF Stages, HeldOne, SeenAcyclic, UnlinkSkips, Held, Telling
<1>7. RootsGood'
  <2>1. PICK S \in SUBSET Handles : Rooted(S) /\ \A h \in S : Good(h)
      BY DEF WalkInv, RootsGood
  <2>2. PICK T \in SUBSET Handles : T = S \ {target}
      OBVIOUS
  <2>3. /\ \A h \in Handles : next'[h] = IF h = cur THEN nxt ELSE next[h]
        /\ message_list' = IF cur = HEAD THEN nxt ELSE message_list
        /\ \A h \in Handles : (Linked(h))' <=> Linked(h) /\ h # target
        /\ told' = told
      BY <1>3, CutIs
  <2>4. \A q \in Sources : Live(q) /\ Link(q) = target => q = cur
      BY <1>2 DEF WalkInv, HeldOne
  <2>5. message_list' # NULL => message_list' \in T
    <3>1. nxt # NULL => nxt \in T
        BY <1>2, <2>1, <2>2 DEF Rooted
    <3>2. cur # HEAD => message_list # target
        BY <2>4 DEF Sources, Live, Link
    <3>3. message_list # NULL => message_list \in S
        BY <2>1, LinkTypes DEF Rooted
    <3> QED BY <2>2, <2>3, <3>1, <3>2, <3>3
  <2>6. ASSUME NEW h \in T, next'[h] # NULL PROVE next'[h] \in T
    <3>1. CASE h = cur
        BY <1>2, <2>1, <2>2, <2>3, <2>6, <3>1 DEF Rooted
    <3>2. CASE h # cur
      <4>1. next'[h] = next[h] /\ next[h] \in S
          BY <2>1, <2>2, <2>3, <2>6, <3>2 DEF Rooted
      <4>2. h \in Sources /\ Live(h) /\ Link(h) = next[h]
          BY <2>1, <2>2, Pointers DEF Sources, Live, Link, Good, Linked
      <4> QED BY <2>2, <2>4, <3>2, <4>1, <4>2
    <3> QED BY <3>1, <3>2
  <2>7. (Rooted(T))'
      BY <1>5, <2>5, <2>6, Pointers DEF Rooted
  <2>8. \A h \in T : (Good(h))'
      BY <2>1, <2>2, <2>3 DEF Good
  <2> QED BY <2>7, <2>8 DEF RootsGood
<1>8. NoneForgotten'
  <2>1. CASE raced'
      BY <2>1 DEF NoneForgotten
  <2>2. CASE ~raced'
      BY <1>1, <1>3, <2>2, CutForgets
  <2> QED BY <2>1, <2>2
<1> QED BY <1>4, <1>6, <1>7, <1>8 DEF WalkInv

\* An entry is freed with the service.
LEMMA DestroyHeap ==
    ASSUME TypeOK, HeapInv, WalkInv, NoneForgotten, DestroyFrees
    PROVE  HeapInv' /\ WalkInv' /\ NoneForgotten'
<1> DEFINE e == message_list
           x == next[e]
<1>1. /\ pc = "destroy" /\ e # NULL /\ message_list' = x /\ next' = next
      /\ mem' = [mem EXCEPT ![e] = "freed"] /\ raced' = raced /\ UNCHANGED <<told, reqVars>>
      /\ pc' = pc /\ cur' = cur /\ target' = target /\ nxt' = nxt /\ ans' = ans
    BY DEF DestroyFrees, outVars, mainVars
<1>2. cur = HEAD /\ target = NULL /\ nxt = NULL
    BY <1>1 DEF WalkInv, Stages
<1>3. /\ e \in Handles /\ x \in Handles \union {NULL} /\ Good(e)
      /\ HEAD \in Sources /\ HEAD # e /\ Link(HEAD) = e /\ Link(e) = x /\ e \in Sources /\ Live(e)
    BY <1>1, LinkTypes, RootsLinked, Pointers DEF Sources, Link, Live, Good, Linked
<1>4. x # e
  <2>1. {e} \in SUBSET Allocated /\ {e} # {}
      BY <1>3 DEF Allocated, Good, Linked
  <2> QED BY <2>1 DEF HeapInv, NoCycle
<1>5. /\ \A q \in Sources : Live(q) /\ Link(q) = e => q = HEAD
      /\ x # NULL => Linked(x) /\ \A q \in Sources : Live(q) /\ Link(q) = x => q = e
    BY <1>1, <1>3 DEF HeapInv, LinksLive, LinksOne, Live
<1>6. SetLink(HEAD, x)
    BY <1>1 DEF SetLink
<1> HIDE DEF e, x
<1>7. Cut(HEAD, e, x)
    BY <1>1, <1>3, <1>4, <1>5, <1>6 DEF Cut, Good
<1>8. HeapInv'
  <2>1. NoCycle(next, Allocated)
      BY DEF HeapInv
  <2>2. \A h \in Handles : next[h] = IF h = e THEN x ELSE IF h = HEAD THEN e ELSE next[h]
      BY Pointers DEF e, x
  <2> QED BY <1>7, <2>1, <2>2, CutHeap
<1>9. Stages' /\ HeldOne' /\ SeenAcyclic' /\ UnlinkSkips' /\ ~Telling /\ ~Telling'
    BY <1>1, <1>2 DEF Stages, HeldOne, SeenAcyclic, UnlinkSkips, Held, Telling
<1>10. RootsGood'
  <2>1. PICK S \in SUBSET Handles : Rooted(S) /\ \A h \in S : Good(h)
      BY DEF WalkInv, RootsGood
  <2>2. PICK T \in SUBSET Handles : T = S \ {e}
      OBVIOUS
  <2>3. e \in S /\ (x # NULL => x \in S)
      BY <2>1, <1>3 DEF Rooted, e, x
  <2>4. ASSUME NEW h \in T, next[h] # NULL PROVE next[h] \in T
    <3>1. h \in Sources /\ Live(h) /\ Link(h) = next[h] /\ h # HEAD
        BY <2>1, <2>2, Pointers DEF Sources, Live, Link, Good, Linked
    <3> QED BY <1>5, <2>1, <2>2, <2>4, <3>1 DEF Rooted
  <2>5. (Rooted(T))'
      BY <1>1, <1>2, <1>4, <2>2, <2>3, <2>4, Pointers DEF Rooted
  <2>6. \A h \in T : (Good(h))'
      BY <1>7, <1>9, <2>1, <2>2, CutIs DEF Good
  <2> QED BY <2>5, <2>6 DEF RootsGood
<1>11. NoneForgotten'
  <2>1. CASE raced'
      BY <2>1 DEF NoneForgotten
  <2>2. CASE ~raced'
    <3>1. ~raced /\ pc # "fault" /\ Link(HEAD) = e /\ next[e] = x
        BY <1>1, <1>3, <2>2 DEF x
    <3> QED BY <1>7, <3>1, CutForgets
  <2> QED BY <2>1, <2>2
<1> QED BY <1>8, <1>9, <1>10, <1>11 DEF WalkInv

------------------------------------------------------------------------------
\* A walk does not mind what becomes of memory that it does not hold.
LEMMA WalkKept ==
    ASSUME TypeOK, WalkInv,
           UNCHANGED <<message_list, next, told, pc, cur, target, nxt, ans>>,
           \A h \in Handles : Linked(h) => (Linked(h))',
           \A q \in Sources : (Live(q))' /\ Link(q) # NULL => Live(q),
           Held => NoCycle(Seen, Allocated')
    PROVE  WalkInv'
<1>1. \A q \in Sources : (Link(q))' = Link(q)
    BY DEF Link
<1>2. Stages' /\ (Telling' <=> Telling) /\ (Held' <=> Held) /\ Seen' = Seen
    BY DEF WalkInv, Stages, Telling, Held, Seen
<1>3. HeldOne'
  <2>1. Held => target \in Handles
      BY DEF WalkInv, Stages, Held, Telling
  <2> QED BY <1>1, <1>2, <2>1, Pointers DEF WalkInv, HeldOne
<1>4. SeenAcyclic'
    BY <1>2 DEF SeenAcyclic, NoCycle
<1>5. RootsGood'
  <2>1. PICK S \in SUBSET Handles : Rooted(S) /\ \A h \in S : Good(h)
      BY DEF WalkInv, RootsGood
  <2>2. (Rooted(S))'
      BY <2>1 DEF Rooted
  <2>3. \A h \in S : (Good(h))'
      BY <1>2, <2>1 DEF Good
  <2> QED BY <2>2, <2>3 DEF RootsGood
<1>6. UnlinkSkips'
  <2> SUFFICES ASSUME pc = "unlink" PROVE \E S \in SUBSET Handles : (Skipped(S))'
      BY DEF UnlinkSkips
  <2>1. PICK S \in SUBSET Handles : Skipped(S)
      BY DEF WalkInv, UnlinkSkips
  <2>2. (Skipped(S))'
      BY <2>1 DEF Skipped
  <2> QED BY <2>2
<1> QED BY <1>2, <1>3, <1>4, <1>5, <1>6 DEF WalkInv

LEMMA ForgetKept ==
    ASSUME NoneForgotten, UNCHANGED <<message_list, next>>, ~raced' => ~raced,
           pc # "fault", \A h \in Handles : (Linked(h))' => Linked(h)
    PROVE  NoneForgotten'
<1>1. Entries' = Entries
    BY DEF Entries, Closed
<1> SUFFICES ASSUME ~raced', NEW h \in Handles, (Linked(h))' PROVE h \in Entries'
    BY DEF NoneForgotten, Linked
<1> QED BY <1>1 DEF NoneForgotten, Linked

\* A request allocates an entry that nobody knows.
LEMMA RequestHeap ==
    ASSUME TypeOK, HeapInv, WalkInv, NoneForgotten, NEW t \in Threads, NEW m \in Handles,
           Request(t, m)
    PROVE  HeapInv' /\ WalkInv' /\ NoneForgotten'
<1>1. /\ rpc[t] = "idle" /\ mem[m] = "unused" /\ mem' = [mem EXCEPT ![m] = "allocated"]
      /\ mine' = [mine EXCEPT ![t] = m] /\ rpc' = [rpc EXCEPT ![t] = "number"]
      /\ raced' = raced /\ last' = last
      /\ UNCHANGED <<message_list, next, told, pc, cur, target, nxt, ans>>
    BY DEF Request, At, Goto, outVars, mainVars
<1>2. mine[t] = NULL /\ next[m] = NULL /\ told[m] = 0 /\ \A u \in Threads : mine[u] # m
  <2>1. \A u \in Threads : mine[u] # NULL => mem[mine[u]] = "allocated"
      BY DEF HeapInv, MineFresh
  <2> QED BY <1>1, <2>1, Pointers DEF HeapInv, MineFresh, UnusedFresh
<1>3. /\ \A h \in Handles : mem'[h] = IF h = m THEN "allocated" ELSE mem[h]
      /\ \A u \in Threads : mine'[u] = IF u = t THEN m ELSE mine[u]
    BY <1>1, LinkTypes
<1>4. \A u \in Threads : rpc'[u] = IF u = t THEN "number" ELSE rpc[u]
    BY <1>1 DEF TypeOK
<1>5. \A h \in Handles : (Linked(h))' <=> Linked(h)
    BY <1>1, <1>2, <1>3, Pointers DEF Linked
<1>6. \A q \in Sources : (Live(q))' <=> Live(q) \/ q = m
    BY <1>3, Pointers DEF Live, Sources
<1>7. \A q \in Sources : (Link(q))' = Link(q)
    BY <1>1 DEF Link
<1>8. m \in Sources /\ Link(m) = NULL
    BY <1>2, Pointers DEF Sources, Link
<1>9. LinksLive' /\ LinksOne'
  <2>1. LinksLive'
      BY <1>5, <1>6, <1>7, <1>8, LinkTypes DEF HeapInv, LinksLive
  <2>2. LinksOne'
      BY <1>6, <1>7, <1>8 DEF HeapInv, LinksOne
  <2> QED BY <2>1, <2>2
<1>10. Allocated' = Allocated \union {m} /\ Allocated \in SUBSET Handles
    BY <1>3 DEF Allocated
<1>11. NoCycle(next, Allocated)'
  <2>1. NoCycle(next, Allocated \union {m})
      BY <1>2, <1>10, AllocNoCycle DEF HeapInv
  <2> QED BY <1>1, <1>10, <2>1 DEF NoCycle
<1>12. MineFresh'
    BY <1>1, <1>2, <1>3, <1>4, LinkTypes, Pointers DEF HeapInv, MineFresh
<1>13. UnusedFresh'
    BY <1>1, <1>3 DEF HeapInv, UnusedFresh
<1>14. LastLinked'
  <2>1. last \in [Threads -> Handles \union {NULL, HEAD}]
      BY DEF TypeOK
  <2> QED BY <1>1, <1>3, <1>4, <2>1 DEF HeapInv, LastLinked
<1>15. WalkInv'
  <2>1. Held => NoCycle(Seen, Allocated')
    <3> SUFFICES ASSUME Held PROVE NoCycle(Seen, Allocated \union {m})
        BY <1>10
    <3>1. cur # m /\ target # m
        BY <1>1, RootsLinked DEF Good, Linked
    <3>2. Seen[m] = NULL
        BY <1>2, <3>1, SeenIs
    <3>3. NoCycle(Seen, Allocated)
        BY DEF WalkInv, SeenAcyclic
    <3> QED BY <1>10, <3>2, <3>3, AllocNoCycle
  <2>2. \A q \in Sources : (Live(q))' /\ Link(q) # NULL => Live(q)
      BY <1>6, <1>8
  <2> QED BY <1>1, <1>5, <2>1, <2>2, WalkKept
<1>16. NoneForgotten'
    BY <1>1, <1>5, ForgetKept DEF Request, At
<1> QED BY <1>9, <1>11, <1>12, <1>13, <1>14, <1>15, <1>16 DEF HeapInv

\* A request that could not be sent is freed.
LEMMA SendFailsHeap ==
    ASSUME TypeOK, HeapInv, WalkInv, NoneForgotten, NEW t \in Threads, SendFails(t)
    PROVE  HeapInv' /\ WalkInv' /\ NoneForgotten'
<1>1. PICK m \in Handles : m = mine[t]
    BY Pointers DEF SendFails, At, HeapInv, MineFresh, TypeOK
<1>2. /\ rpc[t] = "send" /\ mem' = [mem EXCEPT ![m] = "freed"]
      /\ mine' = [mine EXCEPT ![t] = NULL] /\ rpc' = [rpc EXCEPT ![t] = "idle"]
      /\ raced' = raced /\ last' = last
      /\ UNCHANGED <<message_list, next, told, pc, cur, target, nxt, ans>>
    BY <1>1 DEF SendFails, At, Goto, outVars, mainVars
<1>3. /\ \A h \in Handles : mem'[h] = IF h = m THEN "freed" ELSE mem[h]
      /\ \A u \in Threads : mine'[u] = IF u = t THEN NULL ELSE mine[u]
      /\ \A u \in Threads : mine[u] = m => u = t
    BY <1>1, <1>2, LinkTypes, Pointers DEF HeapInv, MineFresh
<1>4. \A u \in Threads : rpc'[u] = IF u = t THEN "idle" ELSE rpc[u]
    BY <1>2 DEF TypeOK
<1>5. \A h \in Handles : (Linked(h))' <=> Linked(h)
    BY <1>1, <1>3, Pointers DEF Linked
<1>6. \A q \in Sources : (Live(q))' <=> Live(q) /\ q # m
    BY <1>3, Pointers DEF Live, Sources
<1>7. \A q \in Sources : (Link(q))' = Link(q)
    BY <1>2 DEF Link
<1>8. LinksLive' /\ LinksOne'
  <2>1. LinksLive'
      BY <1>5, <1>6, <1>7, LinkTypes DEF HeapInv, LinksLive
  <2>2. LinksOne'
      BY <1>6, <1>7 DEF HeapInv, LinksOne
  <2> QED BY <2>1, <2>2
<1>9. Allocated' \subseteq Allocated
    BY <1>3 DEF Allocated
<1>10. NoCycle(next, Allocated)'
    BY <1>2, <1>9 DEF HeapInv, NoCycle
<1>11. MineFresh'
    BY <1>2, <1>3, <1>4, LinkTypes, Pointers DEF HeapInv, MineFresh
<1>12. UnusedFresh'
    BY <1>2, <1>3 DEF HeapInv, UnusedFresh
<1>13. LastLinked'
  <2>1. last \in [Threads -> Handles \union {NULL, HEAD}]
      BY DEF TypeOK
  <2> QED BY <1>2, <1>3, <1>4, <2>1 DEF HeapInv, LastLinked
<1>14. WalkInv'
  <2>1. Held => NoCycle(Seen, Allocated')
      BY <1>9 DEF WalkInv, SeenAcyclic, NoCycle
  <2> QED BY <1>2, <1>5, <1>6, <2>1, WalkKept
<1>15. NoneForgotten'
    BY <1>2, <1>5, ForgetKept DEF SendFails, At
<1> QED BY <1>8, <1>10, <1>11, <1>12, <1>13, <1>14, <1>15 DEF HeapInv

\* The other steps of a requesting thread touch nothing that others see.
LEMMA QuietHeap ==
    ASSUME TypeOK, HeapInv, WalkInv, NoneForgotten, NEW t \in Threads,
           \/ Number(t) \/ Send(t) \/ AppendReads(t) \/ AppendWalks(t) \/ AppendSeesEnd(t)
    PROVE  HeapInv' /\ WalkInv' /\ NoneForgotten'
<1>1. /\ UNCHANGED <<message_list, next, mem, raced, mine, told, pc, cur, target, nxt, ans>>
      /\ pc # "fault"
      /\ \E step \in {"send", "append", "walk", "link"} :
             rpc' = [rpc EXCEPT ![t] = step] \/ (rpc' = rpc /\ rpc[t] = "walk")
      /\ rpc[t] # "idle"
    BY DEF Number, Send, AppendReads, AppendWalks, AppendSeesEnd, At, Goto, listVars,
           outVars, mainVars
<1>2. \A h \in Handles : (Linked(h))' <=> Linked(h)
    BY <1>1 DEF Linked
<1>3. \A q \in Sources : ((Live(q))' <=> Live(q)) /\ (Link(q))' = Link(q)
    BY <1>1 DEF Live, Link
<1>4. LinksLive' /\ LinksOne'
  <2>1. LinksLive'
      BY <1>2, <1>3, LinkTypes DEF HeapInv, LinksLive
  <2>2. LinksOne'
      BY <1>3 DEF HeapInv, LinksOne
  <2> QED BY <2>1, <2>2
<1>5. Allocated' = Allocated
    BY <1>1 DEF Allocated
<1>6. NoCycle(next, Allocated)'
    BY <1>1, <1>5 DEF HeapInv, NoCycle
<1>7. rpc \in [Threads -> {"idle", "number", "send", "append", "walk", "link"}]
    BY DEF TypeOK
<1>8. \A u \in Threads : u # t => rpc'[u] = rpc[u]
    BY <1>1, <1>7
<1>9. rpc'[t] # "idle"
    BY <1>1, <1>7
<1>10. MineFresh' /\ UnusedFresh'
    BY <1>1, <1>8, <1>9 DEF HeapInv, MineFresh, UnusedFresh
<1>11. LastLinked'
  <2> SUFFICES ASSUME NEW u \in Threads, rpc'[u] \in {"walk", "link"}
               PROVE  /\ last'[u] # NULL
                      /\ last'[u] # HEAD => /\ mem[last'[u]] # "unused"
                                             /\ \A v \in Threads : mine[v] # last'[u]
      BY <1>1 DEF LastLinked
  <2>1. last \in [Threads -> Handles \union {NULL, HEAD}]
      BY DEF TypeOK
  <2>2. CASE u # t
    <3>1. last'[u] = last[u]
        BY <2>1, <2>2 DEF Number, Send, AppendReads, AppendWalks, AppendSeesEnd
    <3> QED BY <1>8, <2>2, <3>1 DEF HeapInv, LastLinked
  <2>3. CASE u = t /\ (Number(t) \/ Send(t))
      BY <1>7, <2>3 DEF Number, Send, Goto
  <2>4. CASE u = t /\ AppendReads(t)
      BY <2>1, <2>4, Pointers DEF AppendReads
  <2>5. CASE u = t /\ AppendWalks(t)
    <3>1. rpc[t] = "walk" /\ Link(last[t]) # NULL /\ last'[t] = Link(last[t]) /\ ~Gone(last[t])
        BY <2>1, <2>5 DEF AppendWalks, At
    <3>2. last[t] \in Sources /\ Live(last[t])
        BY <2>1, <3>1, LinkTypes DEF HeapInv, LastLinked, Sources, Live, Gone
    <3>3. Linked(last'[t])
        BY <3>1, <3>2 DEF HeapInv, LinksLive
    <3> QED BY <2>5, <3>1, <3>3 DEF Linked
  <2>6. CASE u = t /\ AppendSeesEnd(t)
      BY <2>6 DEF AppendSeesEnd, At, HeapInv, LastLinked
  <2> QED BY <2>2, <2>3, <2>4, <2>5, <2>6
<1>12. WalkInv'
  <2>1. Held => NoCycle(Seen, Allocated')
      BY <1>5 DEF WalkInv, SeenAcyclic
  <2> QED BY <1>1, <1>2, <1>3, <2>1, WalkKept
<1>13. NoneForgotten'
    BY <1>1, <1>2, ForgetKept
<1> QED BY <1>4, <1>6, <1>10, <1>11, <1>12, <1>13 DEF HeapInv

------------------------------------------------------------------------------
\* A step of the main thread that writes no link.
MainOnly == UNCHANGED <<message_list, next, mem, raced, mine, rpc, last>> /\ pc # "fault"

LEMMA MainHeap ==
    ASSUME TypeOK, HeapInv, NoneForgotten, MainOnly,
           \A h \in Handles : told'[h] = told[h] \/ Linked(h)
    PROVE  HeapInv' /\ NoneForgotten'
<1>1. \A h \in Handles : (Linked(h))' <=> Linked(h)
    BY DEF Linked, MainOnly
<1>2. \A q \in Sources : ((Live(q))' <=> Live(q)) /\ (Link(q))' = Link(q)
    BY DEF Live, Link, MainOnly
<1>3. LinksLive' /\ LinksOne'
  <2>1. LinksLive'
      BY <1>1, <1>2, LinkTypes DEF HeapInv, LinksLive
  <2>2. LinksOne'
      BY <1>2 DEF HeapInv, LinksOne
  <2> QED BY <2>1, <2>2
<1>4. NoCycle(next, Allocated)'
    BY DEF HeapInv, NoCycle, Allocated, MainOnly
<1>5. MineFresh' /\ UnusedFresh' /\ LastLinked'
  <2>1. MineFresh'
      BY LinkTypes DEF HeapInv, MineFresh, MainOnly, Linked
  <2>2. UnusedFresh'
      BY DEF HeapInv, UnusedFresh, MainOnly, Linked
  <2>3. LastLinked'
      BY DEF HeapInv, LastLinked, MainOnly
  <2> QED BY <2>1, <2>2, <2>3
<1>6. NoneForgotten'
    BY <1>1, ForgetKept DEF MainOnly
<1> QED BY <1>3, <1>4, <1>5, <1>6 DEF HeapInv

\* What the main thread comes to hold was within its reach.
LEMMA RootsMove ==
    ASSUME TypeOK, WalkInv, MainOnly, told' = told,
           NEW S \in SUBSET Handles, Rooted(S), \A h \in S : Good(h),
           \A h \in {cur', target', nxt'} : h \in Handles => h \in S,
           \A h \in S : told[h] # 0 => Telling' /\ h = target'
    PROVE  RootsGood'
<1>1. (Rooted(S))'
    BY DEF Rooted, MainOnly
<1>2. \A h \in S : (Good(h))'
    BY DEF Good, Linked, MainOnly
<1> QED BY <1>1, <1>2 DEF RootsGood

\* Steps that tell nobody, outside of a telling.
LEMMA LookWalk ==
    ASSUME TypeOK, WalkInv,
           \/ matop_serice_destory \/ DestroyEnds \/ FindPasses \/ FindFails
           \/ YieldBegins \/ YieldPasses \/ YieldEnds
           \/ \E h \in Handles, ok \in BOOLEAN : Receive(h, ok)
    PROVE  MainOnly /\ told' = told /\ WalkInv'
<1>1. MainOnly /\ told' = told /\ ~Telling /\ ~Telling'
    BY DEF matop_serice_destory, DestroyEnds, FindPasses, FindFails, YieldBegins, YieldPasses,
           YieldEnds, Receive, Idle, Return, MainOnly, Telling, listVars, reqVars, outVars
<1>2. PICK S \in SUBSET Handles : Rooted(S) /\ \A h \in S : Good(h)
    BY DEF WalkInv, RootsGood
<1>3. \A h \in S : told[h] = 0
    BY <1>1, <1>2 DEF Good
<1>4. Stages' /\ \A h \in {cur', target', nxt'} : h \in Handles => h \in S
  <2>1. CASE matop_serice_destory \/ DestroyEnds \/ FindFails \/ YieldEnds
      BY <2>1, Pointers DEF matop_serice_destory, DestroyEnds, FindFails, YieldEnds, Return,
                  Idle, WalkInv, Stages, Telling
  <2>2. CASE \E h \in Handles, ok \in BOOLEAN : Receive(h, ok)
    <3>1. /\ pc = "idle" /\ pc' = "find" /\ ans' \in Handles /\ target' = message_list
          /\ cur' = cur /\ nxt' = nxt
        BY <2>2 DEF Receive, Idle
    <3>2. cur' = HEAD /\ nxt' = NULL
        BY <3>1 DEF WalkInv, Stages
    <3>3. target' \in Handles => target' \in S
        BY <1>2, <3>1 DEF Rooted
    <3> QED BY <3>1, <3>2, <3>3, Pointers DEF Stages, Telling
  <2>3. CASE FindPasses
    <3>1. /\ pc = "find" /\ pc' = pc /\ ans' = ans /\ target # NULL /\ target' = next[target]
          /\ cur' = cur /\ nxt' = nxt
        BY <2>3 DEF FindPasses
    <3>2. target \in S
        BY <1>2, <3>1 DEF Rooted, TypeOK
    <3>3. target' \in Handles => target' \in S
        BY <1>2, <3>1, <3>2, Pointers DEF Rooted
    <3>4. cur' = HEAD /\ nxt' = NULL
        BY <3>1 DEF WalkInv, Stages
    <3> QED BY <3>1, <3>3, <3>4, Pointers DEF WalkInv, Stages, Telling
  <2>4. CASE YieldBegins
      BY <2>4, Pointers DEF YieldBegins, Idle, WalkInv, Stages, Telling
  <2>5. CASE YieldPasses
    <3>1. /\ pc = "yield" /\ pc' = pc /\ cur' = Link(cur) /\ Link(cur) # NULL
          /\ target' = target /\ nxt' = nxt
        BY <2>5 DEF YieldPasses
    <3>2. cur # NULL /\ target = NULL /\ nxt = NULL
        BY <3>1 DEF WalkInv, Stages
    <3>3. cur' \in Handles => cur' \in S
        BY <1>2, <3>1, <3>2 DEF Rooted, Link, TypeOK
    <3> QED BY <3>1, <3>2, <3>3, Pointers DEF Stages, Telling
  <2> QED BY <2>1, <2>2, <2>3, <2>4, <2>5
<1>5. RootsGood'
    BY <1>1, <1>2, <1>3, <1>4, RootsMove
<1>6. HeldOne' /\ SeenAcyclic' /\ UnlinkSkips'
    BY <1>1 DEF HeldOne, SeenAcyclic, UnlinkSkips, Held, Telling
<1> QED BY <1>1, <1>4, <1>5, <1>6 DEF WalkInv

\* The steps between the callback and the removal.
LEMMA UnlinkWalk ==
    ASSUME TypeOK, HeapInv, WalkInv, TellReturns \/ UnlinkPasses \/ UnlinkFinds \/ UnlinkEnds
    PROVE  MainOnly /\ told' = told /\ WalkInv'
<1>1. MainOnly /\ told' = told /\ Telling
    BY DEF TellReturns, UnlinkPasses, UnlinkFinds, UnlinkEnds, MainOnly, Telling, listVars,
           reqVars, outVars
<1>2. PICK S \in SUBSET Handles : Rooted(S) /\ \A h \in S : Good(h)
    BY DEF WalkInv, RootsGood
<1>3. target \in Handles /\ told[target] = 1 /\ target \in S /\ Linked(target)
    BY <1>1, <1>2 DEF WalkInv, Stages, Rooted, Good
<1>4. \A h \in S : told[h] # 0 => h = target
    BY <1>1, <1>2 DEF Good
<1>5. next[target] \in Handles \union {NULL} /\ (next[target] # NULL => next[target] \in S)
    BY <1>2, <1>3 DEF Rooted, TypeOK
<1>6. \A q \in Sources : (Live(q))' = Live(q) /\ (Link(q))' = Link(q)
    BY <1>1 DEF MainOnly, Live, Link
<1>7. target \in Sources /\ Live(target) /\ Link(target) = next[target]
    BY <1>3, Pointers DEF Sources, Live, Link, Linked
<1>8. next[target] # target
  <2>1. {target} \in SUBSET Allocated /\ {target} # {}
      BY <1>3 DEF Allocated, Linked
  <2> QED BY <2>1 DEF HeapInv, NoCycle
<1>9. Allocated' = Allocated
    BY <1>1 DEF Allocated, MainOnly
<1>10. CASE TellReturns /\ cur = NULL
  <2>1. pc = "tell" /\ pc' = "unlink" /\ cur' = HEAD /\ nxt' = nxt /\ target' = target
      BY <1>10 DEF TellReturns
  <2>2. nxt = NULL
      BY <2>1 DEF WalkInv, Stages
  <2>3. Stages' /\ Telling'
      BY <1>1, <1>3, <2>1, <2>2, Pointers DEF Stages, Telling
  <2>4. HeldOne' /\ SeenAcyclic'
      BY <2>1 DEF HeldOne, SeenAcyclic, Held
  <2>5. RootsGood'
      BY <1>1, <1>2, <1>3, <1>4, <2>1, <2>2, <2>3, Pointers, RootsMove
  <2>6. UnlinkSkips'
    <3>1. (Skipped({}))'
        BY <2>1 DEF Skipped
    <3> QED BY <3>1 DEF UnlinkSkips
  <2> QED BY <1>1, <2>3, <2>4, <2>5, <2>6 DEF WalkInv
<1>11. ASSUME pc' = "splice", cur' = cur, target' = target, nxt' = next[target],
              cur \in Sources, cur # target,
              \A q \in Sources : Live(q) /\ Link(q) = target => q = cur,
              NEW f, NoCycle(f, Allocated),
              \A h \in Handles : f[h] = IF h = cur THEN target ELSE next[h]
       PROVE  WalkInv'
  <2>1. Stages' /\ Telling' /\ Held'
      BY <1>1, <1>3, <1>8, <1>11, Pointers DEF Stages, Telling, Sources, Held
  <2>2. HeldOne'
    <3>1. next[target] # NULL =>
              \A q \in Sources : Live(q) /\ Link(q) = next[target] => q = target
        BY <1>7 DEF HeapInv, LinksOne
    <3> QED BY <1>6, <1>11, <3>1 DEF HeldOne
  <2>3. SeenAcyclic'
    <3>1. \A h \in Handles : Seen'[h] = f[h]
      <4> DEFINE g == IF cur = HEAD THEN next ELSE [next EXCEPT ![cur] = target]
      <4>1. g \in [Handles -> Handles \union {NULL}]
          BY <1>3, LinkTypes
      <4>2. \A h \in Handles : g[h] = f[h]
          BY <1>11, LinkTypes, Pointers DEF Sources
      <4>3. Seen' = [g EXCEPT ![target] = next[target]]
          BY <1>1, <1>11 DEF Seen, MainOnly
      <4> HIDE DEF g
      <4> QED BY <1>3, <1>11, <4>1, <4>2, <4>3
    <3>2. NoCycle(Seen', Allocated)
        BY <1>11, <3>1 DEF NoCycle, Allocated
    <3> QED BY <1>9, <3>2 DEF SeenAcyclic, NoCycle
  <2>4. RootsGood'
    <3>1. \A h \in {cur', target', nxt'} : h \in Handles => h \in S
        BY <1>2, <1>3, <1>5, <1>11, Pointers DEF Rooted
    <3> QED BY <1>1, <1>2, <1>4, <1>11, <2>1, <3>1, RootsMove
  <2>5. UnlinkSkips'
      BY <1>11 DEF UnlinkSkips
  <2> QED BY <2>1, <2>2, <2>3, <2>4, <2>5 DEF WalkInv
<1>12. CASE TellReturns /\ cur # NULL
  <2>1. /\ pc = "tell" /\ pc' = "splice" /\ cur' = cur /\ target' = target
        /\ nxt' = next[target] /\ Held
      BY <1>12 DEF TellReturns, Held
  <2>2. cur \in Sources
      BY <2>1, SeenIs
  <2>3. \A q \in Sources : Live(q) /\ Link(q) = target => q = cur
      BY <2>1 DEF WalkInv, HeldOne
  <2>4. NoCycle(Seen, Allocated) /\ \A h \in Handles : Seen[h] = IF h = cur THEN target ELSE next[h]
      BY <2>1, SeenIs DEF WalkInv, SeenAcyclic
  <2> HIDE DEF Seen
  <2>5. cur # target
    <3>1. {target} \in SUBSET Allocated /\ {target} # {}
        BY <1>3 DEF Allocated, Linked
    <3> QED BY <1>3, <2>4, <3>1 DEF NoCycle
  <2> QED BY <1>1, <1>11, <2>1, <2>2, <2>3, <2>4, <2>5
<1>13. CASE UnlinkFinds
  <2>1. /\ pc = "unlink" /\ Link(cur) = target /\ pc' = "splice" /\ cur' = cur
        /\ target' = target /\ nxt' = next[target]
      BY <1>13 DEF UnlinkFinds
  <2>2. cur \in Sources /\ cur # target /\ Live(cur)
      BY <2>1, RootsLinked DEF WalkInv, Stages, Sources, Live, Good, Linked
  <2>3. \A q \in Sources : Live(q) /\ Link(q) = target => q = cur
      BY <1>3, <2>1, <2>2, Pointers DEF HeapInv, LinksOne
  <2>4. NoCycle(next, Allocated) /\ \A h \in Handles : next[h] = IF h = cur THEN target ELSE next[h]
      BY <2>1, Pointers DEF HeapInv, Link
  <2> QED BY <1>1, <1>11, <2>1, <2>2, <2>3, <2>4
<1>14. CASE UnlinkPasses
  <2>1. /\ pc = "unlink" /\ Link(cur) \notin {target, NULL} /\ cur' = Link(cur) /\ pc' = pc
        /\ target' = target /\ nxt' = nxt
      BY <1>14 DEF UnlinkPasses
  <2>2. cur # NULL /\ nxt = NULL
      BY <2>1 DEF WalkInv, Stages
  <2>3. cur' \in S /\ cur' \in Handles
      BY <1>2, <2>1, <2>2 DEF Rooted, Link, TypeOK
  <2>4. Stages' /\ Telling' /\ HeldOne' /\ SeenAcyclic'
      BY <1>1, <1>3, <2>1, <2>2 DEF Stages, Telling, HeldOne, SeenAcyclic, Held
  <2>5. RootsGood'
    <3>1. \A h \in {cur', target', nxt'} : h \in Handles => h \in S
        BY <1>3, <2>1, <2>2, <2>3, Pointers
    <3> QED BY <1>1, <1>2, <1>4, <2>1, <2>4, <3>1, RootsMove
  <2>6. UnlinkSkips'
    <3>1. PICK T \in SUBSET Handles : Skipped(T)
        BY <2>1 DEF WalkInv, UnlinkSkips
    <3>2. PICK U \in SUBSET Handles : U = T \union {cur'}
        BY <2>3
    <3>3. (Skipped(U))'
        BY <1>1, <2>1, <3>1, <3>2, Pointers DEF Skipped, MainOnly, Link
    <3> QED BY <3>3 DEF UnlinkSkips
  <2> QED BY <1>1, <2>4, <2>5, <2>6 DEF WalkInv
<1>15. CASE UnlinkEnds
  <2>1. /\ pc = "unlink" /\ Link(cur) = NULL /\ pc' = "idle" /\ cur' = HEAD /\ target' = NULL
        /\ nxt' = NULL
      BY <1>15 DEF UnlinkEnds, Return
  <2>2. Stages' /\ HeldOne' /\ SeenAcyclic' /\ UnlinkSkips'
      BY <2>1 DEF Stages, HeldOne, SeenAcyclic, UnlinkSkips, Held, Telling
  <2>3. PICK T \in SUBSET Handles : Skipped(T)
      BY <2>1 DEF WalkInv, UnlinkSkips
  <2>4. PICK U \in SUBSET Handles : U = S \intersect T
      OBVIOUS
  <2>5. cur = HEAD => message_list = NULL
      BY <2>1 DEF Link
  <2>6. \A h \in T : h = cur => next[h] = NULL
      BY <2>1, Pointers DEF Link
  <2>7. (Rooted(U))'
      BY <1>1, <1>2, <2>1, <2>3, <2>4, <2>5, <2>6, LinkTypes, Pointers DEF Rooted, Skipped, MainOnly
  <2>8. \A h \in U : (Good(h))'
    <3>1. target \notin U
        BY <2>3, <2>4 DEF Skipped
    <3> QED BY <1>1, <1>2, <1>4, <2>4, <3>1 DEF Good, Linked, MainOnly
  <2>9. RootsGood'
      BY <2>7, <2>8 DEF RootsGood
  <2> QED BY <1>1, <2>2, <2>9 DEF WalkInv
<1> QED BY <1>10, <1>12, <1>13, <1>14, <1>15

\* What is told is linked, was not told before, and is still linked by what the main
\* thread keeps to find it by.
LEMMA TellsWhom ==
    ASSUME TypeOK, WalkInv, FindTells \/ YieldTells
    PROVE  /\ MainOnly /\ pc' = "tell" /\ nxt' = NULL /\ ~Telling
           /\ target' \in Handles /\ Good(target') /\ told[target'] = 0
           /\ told' = [told EXCEPT ![target'] = 1]
           /\ IF FindTells THEN cur' = NULL
              ELSE cur' = cur /\ cur \in Sources /\ Live(cur) /\ Link(cur) = target'
           /\ \A h \in Handles : told'[h] = told[h] \/ Linked(h)
<1>1. PICK S \in SUBSET Handles : Rooted(S) /\ \A h \in S : Good(h)
    BY DEF WalkInv, RootsGood
<1>2. MainOnly /\ pc' = "tell" /\ ~Telling
    BY DEF FindTells, YieldTells, MainOnly, Telling, listVars, reqVars
<1>3. nxt' = NULL
    BY DEF FindTells, YieldTells, WalkInv, Stages
<1>4. CASE FindTells
  <2>1. target' = target /\ target # NULL /\ cur' = NULL /\ Notify(target, ans)
      BY <1>4 DEF FindTells
  <2>2. target \in Handles /\ Good(target) /\ told[target] = 0
      BY <1>2, <2>1, RootsLinked DEF Good
  <2>3. told' = [told EXCEPT ![target] = 1]
      BY <2>1, <2>2 DEF Notify
  <2> QED BY <1>2, <1>3, <1>4, <2>1, <2>2, <2>3 DEF TypeOK, Good
<1>5. CASE YieldTells /\ ~FindTells
  <2> DEFINE e == Link(cur)
  <2>1. pc = "yield" /\ target' = e /\ e # NULL /\ cur' = cur /\ Notify(e, NULL)
      BY <1>5 DEF YieldTells
  <2>2. cur \in Sources /\ Live(cur)
      BY <2>1, RootsLinked DEF WalkInv, Stages, Sources, Live, Good, Linked
  <2>3. e \in S /\ e \in Handles
      BY <1>1, <2>1, <2>2, LinkTypes DEF Rooted, Link, Sources
  <2>4. Good(e) /\ told[e] = 0
      BY <1>1, <1>2, <2>3 DEF Good
  <2> HIDE DEF e
  <2>5. told' = [told EXCEPT ![e] = 1]
      BY <2>1, <2>4 DEF Notify
  <2>6. Link(cur) = e
      BY DEF e
  <2> QED BY <1>2, <1>3, <1>5, <2>1, <2>2, <2>3, <2>4, <2>5, <2>6 DEF TypeOK, Good
<1> QED BY <1>4, <1>5

LEMMA TellWalk ==
    ASSUME TypeOK, HeapInv, WalkInv, FindTells \/ YieldTells
    PROVE  WalkInv'
<1>1. PICK S \in SUBSET Handles : Rooted(S) /\ \A h \in S : Good(h)
    BY DEF WalkInv, RootsGood
<1>2. PICK e \in Handles : e = target'
    BY TellsWhom
<1>3. /\ MainOnly /\ pc' = "tell" /\ nxt' = NULL /\ ~Telling /\ Good(e) /\ told[e] = 0
      /\ told' = [told EXCEPT ![e] = 1]
      /\ cur' # NULL => cur' = cur /\ cur \in Sources /\ Live(cur) /\ Link(cur) = e
    BY <1>2, TellsWhom
<1>4. told'[e] = 1 /\ \A h \in Handles : h # e => told'[h] = told[h]
    BY <1>3 DEF TypeOK
<1>5. Stages' /\ Telling' /\ (Held' <=> cur' # NULL)
    BY <1>2, <1>3, <1>4 DEF Stages, Telling, Held
<1>6. \A q \in Sources : (Live(q))' = Live(q) /\ (Link(q))' = Link(q)
    BY <1>3 DEF MainOnly, Live, Link
<1>7. HeldOne'
    BY <1>2, <1>3, <1>5, <1>6, Pointers DEF HeapInv, LinksOne, HeldOne
<1>8. SeenAcyclic'
  <2> SUFFICES ASSUME cur' # NULL PROVE NoCycle(Seen', Allocated')
      BY <1>5 DEF SeenAcyclic, NoCycle
  <2>1. Seen' = IF cur = HEAD THEN next ELSE [next EXCEPT ![cur] = e]
      BY <1>2, <1>3 DEF Seen, MainOnly
  <2>2. Allocated' = Allocated
      BY <1>3 DEF Allocated, MainOnly
  <2>3. \A h \in Handles : Seen'[h] = next[h]
      BY <1>3, <2>1, LinkTypes DEF Link
  <2> QED BY <2>2, <2>3 DEF HeapInv, NoCycle, Allocated
<1>9. RootsGood'
  <2>1. cur' \in Handles => cur' = cur
      BY <1>3, Pointers
  <2>2. e \in S
    <3>1. CASE FindTells
        BY <1>1, <1>2, <3>1 DEF FindTells, Rooted
    <3>2. CASE YieldTells
      <4>1. e = Link(cur) /\ pc = "yield" /\ cur # NULL
          BY <1>2, <3>2 DEF YieldTells, WalkInv, Stages
      <4> QED BY <1>1, <4>1, Pointers DEF Rooted, Link, TypeOK
    <3> QED BY <3>1, <3>2
  <2>3. (Rooted(S))'
      BY <1>1, <1>2, <1>3, <2>1, <2>2, Pointers DEF Rooted, MainOnly
  <2>4. \A h \in S : (Good(h))'
      BY <1>1, <1>2, <1>3, <1>4, <1>5 DEF Good, Linked, MainOnly
  <2> QED BY <2>3, <2>4 DEF RootsGood
<1>10. UnlinkSkips'
    BY <1>3 DEF UnlinkSkips
<1> QED BY <1>5, <1>7, <1>8, <1>9, <1>10 DEF WalkInv

\* The memset of a new connection forgets a list that may not be empty.
LEMMA InitHeap ==
    ASSUME TypeOK, HeapInv, WalkInv, NoneForgotten, matop_serice_init
    PROVE  HeapInv' /\ WalkInv' /\ NoneForgotten'
<1>1. /\ pc = "idle" /\ message_list' = NULL /\ raced' = (raced \/ message_list # NULL)
      /\ UNCHANGED <<next, mem, told, mine, rpc, last, pc, cur, target, nxt, ans>>
    BY DEF matop_serice_init, Idle, outVars, mainVars, reqVars
<1>2. cur = HEAD /\ target = NULL /\ nxt = NULL
    BY <1>1 DEF WalkInv, Stages
<1>3. \A h \in Handles : (Linked(h))' <=> Linked(h)
    BY <1>1 DEF Linked
<1>4. \A q \in Sources : ((Live(q))' <=> Live(q)) /\ (Link(q))' \in {Link(q), NULL}
    BY <1>1 DEF Live, Link
<1>5. LinksLive' /\ LinksOne'
  <2>1. LinksLive'
      BY <1>3, <1>4, LinkTypes DEF HeapInv, LinksLive
  <2>2. LinksOne'
      BY <1>4 DEF HeapInv, LinksOne
  <2> QED BY <2>1, <2>2
<1>6. NoCycle(next, Allocated)'
    BY <1>1 DEF HeapInv, NoCycle, Allocated
<1>7. MineFresh' /\ UnusedFresh' /\ LastLinked'
    BY <1>1 DEF HeapInv, MineFresh, UnusedFresh, LastLinked
<1>8. Stages' /\ HeldOne' /\ SeenAcyclic' /\ UnlinkSkips'
    BY <1>1, <1>2 DEF Stages, HeldOne, SeenAcyclic, UnlinkSkips, Held, Telling
<1>9. RootsGood'
  <2>1. (Rooted({}))'
      BY <1>1, <1>2, Pointers DEF Rooted
  <2> QED BY <2>1 DEF RootsGood
<1>10. NoneForgotten'
  <2>1. CASE message_list # NULL
      BY <1>1, <2>1 DEF NoneForgotten
  <2>2. CASE message_list = NULL
      BY <1>1, <1>3, <2>2, ForgetKept
  <2> QED BY <2>1, <2>2
<1> QED BY <1>5, <1>6, <1>7, <1>8, <1>9, <1>10 DEF HeapInv, WalkInv

\* All steps together.
HeapWalkInv == HeapInv /\ WalkInv /\ NoneForgotten

LEMMA HeapWalkKept ==
    ASSUME TypeOK, HeapWalkInv, [Next]_vars, pc' # "fault"
    PROVE  HeapWalkInv'
<1> USE DEF HeapWalkInv
<1>1. ASSUME UNCHANGED <<message_list, next, mem, told, raced, mine, rpc, last,
                         pc, cur, target, nxt, ans>>
      PROVE  HeapWalkInv'
  <2>1. MainOnly
      BY <1>1 DEF MainOnly
  <2>2. HeapInv' /\ NoneForgotten'
      BY <1>1, <2>1, MainHeap
  <2>3. \A h \in Handles : Linked(h) => (Linked(h))'
      BY <1>1 DEF Linked
  <2>4. \A q \in Sources : (Live(q))' /\ Link(q) # NULL => Live(q)
      BY <1>1 DEF Live
  <2>5. Held => NoCycle(Seen, Allocated')
      BY <1>1 DEF WalkInv, SeenAcyclic, Allocated
  <2> QED BY <1>1, <2>2, <2>3, <2>4, <2>5, WalkKept
<1>2. CASE UNCHANGED vars
    BY <1>1, <1>2 DEF vars, listVars, outVars, mainVars, reqVars
<1>3. CASE \E h \in Handles : TimePasses(h)
    BY <1>1, <1>3 DEF TimePasses, listVars, outVars, mainVars, reqVars
<1>4. CASE matop_serice_init
    BY <1>4, InitHeap
<1>5. CASE \/ matop_serice_destory \/ DestroyEnds \/ FindPasses \/ FindFails
           \/ YieldBegins \/ YieldPasses \/ YieldEnds
           \/ \E h \in Handles, ok \in BOOLEAN : Receive(h, ok)
  <2>1. MainOnly /\ told' = told /\ WalkInv'
      BY <1>5, LookWalk
  <2> QED BY <2>1, MainHeap
<1>6. CASE TellReturns \/ UnlinkPasses \/ UnlinkFinds \/ UnlinkEnds
  <2>1. MainOnly /\ told' = told /\ WalkInv'
      BY <1>6, UnlinkWalk
  <2> QED BY <2>1, MainHeap
<1>7. CASE FindTells \/ YieldTells
    BY <1>7, TellsWhom, TellWalk, MainHeap
<1>8. CASE Splice \/ DestroyFrees
    BY <1>8, SpliceHeap, DestroyHeap
<1>9. ASSUME NEW t \in Threads, Requester(t) PROVE HeapWalkInv'
  <2>1. CASE AppendFaults(t)
      BY <2>1 DEF AppendFaults
  <2> QED BY <1>9, <2>1, RequestHeap, SendFailsHeap, AppendHeap, QuietHeap DEF Requester
<1> QED BY <1>2, <1>3, <1>4, <1>5, <1>6, <1>7, <1>8, <1>9 DEF Next, Yield, Removal

------------------------------------------------------------------------------
LEMMA ModUnique ==
    ASSUME NEW n \in Nat, NEW M \in Nat \ {0}, NEW q \in Nat, NEW r \in 0..(M - 1), n = M * q + r
    PROVE  n % M = r
OBVIOUS

\* Counting modulo M goes up by one, or starts again.
LEMMA ModNext ==
    ASSUME NEW n \in Nat, NEW M \in Nat \ {0}
    PROVE  n % M \in 0..(M - 1) /\ ((n + 1) % M = 0 \/ (n + 1) % M = (n % M) + 1)
<1>1. n % M \in 0..(M - 1) /\ n \div M \in Nat /\ n = M * (n \div M) + (n % M)
    OBVIOUS
<1>2. PICK q \in Nat, r \in 0..(M - 1) : n = M * q + r /\ r = n % M
    BY <1>1
<1>3. CASE r + 1 < M
  <2>1. n + 1 = M * q + (r + 1) /\ r + 1 \in 0..(M - 1) /\ n + 1 \in Nat
      BY <1>2, <1>3
  <2> QED BY <1>1, <1>2, <2>1, ModUnique
<1>4. CASE r + 1 = M
  <2>1. M * (q + 1) = M * q + M
      OBVIOUS
  <2>2. n + 1 = M * (q + 1) + 0 /\ 0 \in 0..(M - 1) /\ n + 1 \in Nat /\ q + 1 \in Nat
      BY <1>2, <1>4, <2>1
  <2> QED BY <1>1, <2>2, ModUnique
<1> QED BY <1>2, <1>3, <1>4

\* Only Number gives a handle its number.
LEMMA HasIdKept ==
    ASSUME TypeOK, HeapWalkInv, [Next]_vars, \A t \in Threads : ~Number(t)
    PROVE  \A h \in Handles : (HasId(h))' <=> HasId(h)
<1> USE DEF HeapWalkInv
<1>0. /\ rpc \in [Threads -> {"idle", "number", "send", "append", "walk", "link"}]
      /\ mine \in [Threads -> Handles \union {NULL}]
      /\ mem \in [Handles -> {"unused", "allocated", "freed"}]
      /\ message_list \in Handles \union {NULL} /\ target \in Handles \union {NULL}
    BY DEF TypeOK
<1>1. ASSUME UNCHANGED <<mem, mine, rpc>> PROVE \A h \in Handles : (HasId(h))' <=> HasId(h)
    BY <1>1 DEF HasId
<1>2. CASE UNCHANGED vars \/ matop_serice_init \/ matop_serice_destory \/ DestroyEnds
    BY <1>1, <1>2 DEF vars, listVars, reqVars, matop_serice_init, matop_serice_destory, DestroyEnds
<1>3. CASE Yield \/ FindPasses \/ FindFails \/ FindTells
    BY <1>1, <1>3 DEF Yield, YieldBegins, YieldPasses, YieldEnds, YieldTells, FindPasses,
                      FindFails, FindTells, listVars, reqVars
<1>4. CASE TellReturns \/ UnlinkPasses \/ UnlinkFinds \/ UnlinkEnds
    BY <1>1, <1>4 DEF TellReturns, UnlinkPasses, UnlinkFinds, UnlinkEnds, listVars, reqVars
<1>5. CASE \E h \in Handles : TimePasses(h) \/ \E ok \in BOOLEAN : Receive(h, ok)
    BY <1>1, <1>5 DEF TimePasses, Receive, listVars, reqVars
<1>6. CASE DestroyFrees
  <2>1. /\ message_list \in Handles /\ Linked(message_list) /\ mine' = mine /\ rpc' = rpc
        /\ mem' = [mem EXCEPT ![message_list] = "freed"]
      BY <1>0, <1>6, RootsLinked DEF DestroyFrees, Good, reqVars
  <2> QED BY <1>0, <2>1 DEF HasId, Linked
<1>7. CASE Splice
  <2>1. /\ target \in Handles /\ Linked(target) /\ mine' = mine /\ rpc' = rpc
        /\ mem' = [mem EXCEPT ![target] = "freed"]
      BY <1>7, RootsLinked DEF Splice, Good, reqVars, WalkInv, Stages, Telling
  <2> QED BY <1>0, <2>1 DEF HasId, Linked
<1>8. ASSUME NEW t \in Threads, Requester(t) PROVE \A h \in Handles : (HasId(h))' <=> HasId(h)
  <2>1. CASE \E m \in Handles : Request(t, m)
    <3>1. PICK m \in Handles : Request(t, m)
        BY <2>1
    <3>2. /\ rpc[t] = "idle" /\ mem[m] = "unused" /\ mem' = [mem EXCEPT ![m] = "allocated"]
          /\ mine' = [mine EXCEPT ![t] = m] /\ rpc' = [rpc EXCEPT ![t] = "number"]
        BY <3>1 DEF Request, At, Goto
    <3>3. mine[t] = NULL
        BY <3>2 DEF HeapInv, MineFresh
    <3>4. ASSUME NEW h \in Handles PROVE (HasId(h))' <=> HasId(h)
      <4>1. CASE h = m
          BY <1>0, <3>2, <4>1 DEF HasId
      <4>2. CASE h # m
          BY <1>0, <3>2, <3>3, <4>2, Pointers DEF HasId
      <4> QED BY <4>1, <4>2
    <3> QED BY <3>4
  <2>2. CASE SendFails(t) \/ AppendLinks(t)
    <3>1. /\ rpc[t] \in {"send", "link"} /\ mine' = [mine EXCEPT ![t] = NULL]
          /\ rpc' = [rpc EXCEPT ![t] = "idle"] /\ mem' \in {mem, [mem EXCEPT ![mine[t]] = "freed"]}
        BY <2>2 DEF SendFails, AppendLinks, At, Goto
    <3>2. mine[t] \in Handles /\ mem[mine[t]] = "allocated"
        BY <1>0, <3>1 DEF HeapInv, MineFresh
    <3> QED BY <1>0, <3>1, <3>2, Pointers DEF HasId
  <2>3. CASE Send(t) \/ AppendReads(t) \/ AppendSeesEnd(t)
    <3>1. /\ rpc[t] \in {"send", "append", "walk"} /\ mine' = mine /\ mem' = mem
          /\ \E step \in {"append", "walk", "link"} : rpc' = [rpc EXCEPT ![t] = step]
        BY <2>3 DEF Send, AppendReads, AppendSeesEnd, At, Goto, listVars
    <3> QED BY <1>0, <3>1 DEF HasId
  <2>4. CASE AppendWalks(t) \/ AppendFaults(t)
      BY <1>1, <2>4 DEF AppendWalks, AppendFaults, listVars, reqVars
  <2> QED BY <1>8, <2>1, <2>2, <2>3, <2>4 DEF Requester
<1> QED BY <1>2, <1>3, <1>4, <1>5, <1>6, <1>7, <1>8 DEF Next, Removal

LEMMA NumberKeeps ==
    ASSUME TypeOK, HeapWalkInv, IdInv, OwnAnswer, NEW t \in Threads, Number(t)
    PROVE  IdInv' /\ OwnAnswer'
<1> USE DEF HeapWalkInv
<1>1. PICK m \in Handles : m = mine[t]
    BY Pointers DEF Number, At, HeapInv, MineFresh, TypeOK
<1>2. PICK n \in Nat : n = cnt[t]
    BY DEF TypeOK
<1>3. /\ rpc[t] = "number" /\ id_cnt' = n + 1 /\ torn' = (torn \/ id_cnt # n)
      /\ era' = IF (n + 1) % IdMod = 0 THEN era + 1 ELSE era
      /\ id' = [id EXCEPT ![m] = [no |-> (n + 1) % IdMod, era |-> era']]
      /\ mem' = mem /\ mine' = mine /\ rpc' = [rpc EXCEPT ![t] = "send"]
      /\ answers' = answers /\ ans' = ans /\ by' = by
    BY <1>1, <1>2 DEF Number, Numbered, At, Goto, listVars, outVars, mainVars
<1>4. /\ id \in [Handles -> Ids] /\ era \in Nat /\ id_cnt \in Nat
      /\ rpc \in [Threads -> {"idle", "number", "send", "append", "walk", "link"}]
      /\ IdMod \in Nat \ {0} /\ answers \in SUBSET Handles /\ ans \in Handles \union {NULL}
      /\ by \in [Handles -> Handles \union {NULL}]
    BY MatopAssumption DEF TypeOK
<1>5. mem[m] = "allocated" /\ \A u \in Threads : mine[u] = m => u = t
    BY <1>1, Pointers DEF HeapInv, MineFresh
<1>6. ~HasId(m) /\ \A h \in Handles : (HasId(h))' <=> HasId(h) \/ h = m
    BY <1>1, <1>3, <1>4, <1>5 DEF HasId
<1>7. /\ id'[m].no = (n + 1) % IdMod /\ id'[m].era = era'
      /\ \A h \in Handles : h # m => id'[h] = id[h]
    BY <1>3, <1>4
<1>8. era' \in Nat /\ era <= era'
    BY <1>3, <1>4
<1>9. /\ \A h \in Handles : id[h].era \in Nat /\ id[h].no \in Nat
      /\ n % IdMod \in Nat /\ (n + 1) % IdMod \in Nat
      /\ (n + 1) % IdMod = 0 \/ (n + 1) % IdMod = (n % IdMod) + 1
  <2>1. \A h \in Handles : id[h].era \in Nat /\ id[h].no \in Nat
      BY <1>4 DEF Ids
  <2>2. n + 1 \in Nat
      OBVIOUS
  <2>3. /\ n % IdMod \in 0..(IdMod - 1) /\ (n + 1) % IdMod \in 0..(IdMod - 1)
        /\ (n + 1) % IdMod = 0 \/ (n + 1) % IdMod = (n % IdMod) + 1
      BY <1>4, <2>2, ModNext
  <2> QED BY <1>4, <2>1, <2>3
<1>10. ASSUME NEW h \in Handles, HasId(h), id[h].era = era', ~torn'
       PROVE  id[h].no < (n + 1) % IdMod
  <2>1. id[h].era <= era
      BY <1>10 DEF IdInv, IdsBounded
  <2>2. era' = era /\ (n + 1) % IdMod # 0
      BY <1>3, <1>4, <1>8, <1>9, <1>10, <2>1
  <2>3. id_cnt = n /\ id[h].no <= id_cnt % IdMod
      BY <1>3, <1>10, <2>2 DEF IdInv, IdsBounded
  <2> QED BY <1>9, <2>2, <2>3
<1>11. IdsBounded'
  <2> SUFFICES ASSUME NEW h \in Handles, (HasId(h))'
               PROVE  /\ id'[h].era <= era'
                      /\ id'[h].era = era' /\ ~torn' => id'[h].no <= id_cnt' % IdMod
      BY DEF IdsBounded
  <2>1. CASE h = m
      BY <1>3, <1>7, <1>8, <1>9, <2>1
  <2>2. CASE h # m
    <3>1. HasId(h) /\ id'[h] = id[h] /\ id[h].era <= era
        BY <1>6, <1>7, <2>2 DEF IdInv, IdsBounded
    <3>2. id[h].era \in Nat
        BY <1>9
    <3> QED BY <1>3, <1>4, <1>8, <1>9, <1>10, <3>1, <3>2
  <2> QED BY <2>1, <2>2
<1>12. IdsDistinct'
  <2> SUFFICES ASSUME ~torn', NEW g \in Handles, NEW h \in Handles, (HasId(g))', (HasId(h))',
                      id'[g] = id'[h]
               PROVE  g = h
      BY DEF IdsDistinct
  <2>1. ASSUME NEW k \in Handles, k # m, (HasId(k))', id'[k] = id'[m] PROVE FALSE
    <3>1. HasId(k) /\ id[k].era = era' /\ id[k].no = (n + 1) % IdMod
        BY <1>6, <1>7, <2>1
    <3>2. id[k].no < (n + 1) % IdMod
        BY <1>10, <3>1
    <3> QED BY <1>9, <3>1, <3>2
  <2>2. CASE g # m /\ h # m
      BY <1>3, <1>6, <1>7, <2>2 DEF IdInv, IdsDistinct
  <2> QED BY <2>1, <2>2
<1>13. Answered'
    BY <1>3, <1>4, <1>6 DEF IdInv, Answered
<1>14. OwnAnswer'
  <2> SUFFICES ASSUME NEW h \in Handles, by[h] # NULL
               PROVE  by[h] = h \/ id'[by[h]].era # id'[h].era \/ torn'
      BY <1>3 DEF OwnAnswer
  <2>1. h # m /\ by[h] # m /\ by[h] \in Handles
      BY <1>4, <1>6 DEF IdInv, Answered
  <2> QED BY <1>3, <1>7, <2>1 DEF OwnAnswer
<1> QED BY <1>11, <1>12, <1>13, <1>14 DEF IdInv

\* After a fault nothing happens.
LEMMA FaultStops == ASSUME pc = "fault", [Next]_vars PROVE UNCHANGED vars
<1>1. ASSUME NEW t \in Threads, Requester(t) PROVE FALSE
    BY <1>1 DEF Requester, Request, Number, Send, SendFails, AppendReads, AppendWalks,
                AppendSeesEnd, AppendLinks, AppendFaults, At
<1>2. CASE Yield \/ matop_serice_init \/ matop_serice_destory
    BY <1>2 DEF Yield, YieldBegins, YieldPasses, YieldEnds, YieldTells, matop_serice_init,
                matop_serice_destory, Idle
<1>3. CASE Removal
    BY <1>3 DEF Removal, FindPasses, FindFails, FindTells, TellReturns, UnlinkPasses,
                UnlinkFinds, UnlinkEnds, Splice, DestroyFrees, DestroyEnds
<1>4. CASE \E h \in Handles : TimePasses(h) \/ \E ok \in BOOLEAN : Receive(h, ok)
    BY <1>4 DEF TimePasses, Receive, Idle
<1> QED BY <1>1, <1>2, <1>3, <1>4 DEF Next

LEMMA IdsKept ==
    ASSUME TypeOK, HeapWalkInv, IdInv, OwnAnswer, [Next]_vars
    PROVE  IdInv' /\ OwnAnswer'
<1> USE DEF HeapWalkInv
<1>1. CASE \E t \in Threads : Number(t)
    BY <1>1, NumberKeeps
<1> SUFFICES ASSUME \A t \in Threads : ~Number(t) PROVE IdInv' /\ OwnAnswer'
    BY <1>1
<1>2. \A h \in Handles : (HasId(h))' <=> HasId(h)
    BY HasIdKept
<1>3. /\ answers \in SUBSET Handles /\ ans \in Handles \union {NULL} /\ id \in [Handles -> Ids]
      /\ by \in [Handles -> Handles \union {NULL}] /\ era \in Nat
    BY DEF TypeOK
<1>4. ASSUME UNCHANGED <<id_cnt, era, torn, id>>
      PROVE  IdsBounded' /\ IdsDistinct'
    BY <1>2, <1>4 DEF IdInv, IdsBounded, IdsDistinct
<1>5. ASSUME by' = by, torn' = torn, id' = id PROVE OwnAnswer'
    BY <1>5 DEF OwnAnswer
<1>6. ASSUME by' = by, \A h \in answers' : h \in Handles /\ HasId(h), ans' \in {ans, NULL}
      PROVE  Answered'
    BY <1>2, <1>3, <1>6, Pointers DEF IdInv, Answered
<1>7. \A h \in answers : h \in Handles /\ HasId(h)
    BY <1>3 DEF IdInv, Answered
<1>8. ASSUME UNCHANGED <<id_cnt, era, torn, id, by>>, answers' \subseteq answers, ans' \in {ans, NULL}
      PROVE  IdInv' /\ OwnAnswer'
    BY <1>4, <1>5, <1>6, <1>7, <1>8 DEF IdInv
<1>9. CASE UNCHANGED vars \/ matop_serice_destory \/ DestroyEnds \/ DestroyFrees \/ Splice
    BY <1>8, <1>9 DEF vars, numVars, msgVars, outVars, mainVars, matop_serice_destory, DestroyEnds,
                      DestroyFrees, Splice, Return
<1>10. CASE YieldBegins \/ YieldPasses \/ YieldEnds \/ FindPasses \/ FindFails
    BY <1>8, <1>10 DEF YieldBegins, YieldPasses, YieldEnds, FindPasses, FindFails, Return,
                       numVars, msgVars, outVars
<1>11. CASE TellReturns \/ UnlinkPasses \/ UnlinkFinds \/ UnlinkEnds
    BY <1>8, <1>11 DEF TellReturns, UnlinkPasses, UnlinkFinds, UnlinkEnds, Return,
                       numVars, msgVars, outVars
<1>12. CASE matop_serice_init
  <2>1. /\ era' = era + 1 /\ id_cnt' = 0
        /\ torn' = torn /\ id' = id /\ by' = by /\ answers' = answers /\ ans' = ans
      BY <1>12 DEF matop_serice_init, msgVars, outVars, mainVars
  <2>2. IdsBounded'
    <3>1. \A h \in Handles : id[h].era \in Nat
        BY <1>3 DEF Ids
    <3> QED BY <1>2, <1>3, <2>1, <3>1 DEF IdInv, IdsBounded
  <2>3. IdsDistinct'
      BY <1>2, <2>1 DEF IdInv, IdsDistinct
  <2> QED BY <1>5, <1>6, <1>7, <2>1, <2>2, <2>3 DEF IdInv
<1>13. CASE \E h \in Handles : TimePasses(h)
    BY <1>8, <1>13 DEF TimePasses, numVars, outVars, mainVars
<1>14. ASSUME NEW h \in Handles, NEW ok \in BOOLEAN, Receive(h, ok) PROVE IdInv' /\ OwnAnswer'
  <2>1. /\ UNCHANGED <<id_cnt, era, torn, id, by>> /\ answers' \subseteq answers
        /\ ans' = h /\ h \in answers
      BY <1>14 DEF Receive, numVars, msgVars, outVars
  <2>2. Answered'
      BY <1>2, <1>3, <1>7, <2>1 DEF IdInv, Answered
  <2> QED BY <1>4, <1>5, <2>1, <2>2 DEF IdInv
<1>15. CASE FindTells
  <2>1. /\ UNCHANGED <<id_cnt, era, torn, id, answers, ans>> /\ by' = [by EXCEPT ![target] = ans]
        /\ id[target].no = id[ans].no /\ pc = "find" /\ target # NULL
      BY <1>15 DEF FindTells, Notify, Matches, numVars, msgVars
  <2>2. target \in Handles /\ Linked(target) /\ ans \in Handles
      BY <2>1, RootsLinked DEF Good, WalkInv, Stages
  <2>3. HasId(target) /\ HasId(ans)
      BY <2>2, Pointers DEF HasId, Linked, IdInv, Answered
  <2>4. \A h \in Handles : by'[h] = IF h = target THEN ans ELSE by[h]
      BY <1>3, <2>1
  <2>5. Answered'
      BY <1>2, <1>3, <1>7, <2>1, <2>2, <2>3, <2>4 DEF IdInv, Answered
  <2>6. id[target].era = id[ans].era => id[target] = id[ans]
      BY <1>3, <2>1, <2>2 DEF Ids
  <2>7. ans = target \/ id[ans].era # id[target].era \/ torn
      BY <2>2, <2>3, <2>6 DEF IdInv, IdsDistinct
  <2>8. OwnAnswer'
      BY <2>1, <2>4, <2>7 DEF OwnAnswer
  <2> QED BY <1>4, <2>1, <2>5, <2>8 DEF IdInv
<1>16. CASE YieldTells
  <2>1. /\ UNCHANGED <<id_cnt, era, torn, id, answers, ans>>
        /\ by' = [by EXCEPT ![Link(cur)] = NULL]
      BY <1>16 DEF YieldTells, Notify, numVars, msgVars
  <2>2. \A h \in Handles : by'[h] = by[h] \/ by'[h] = NULL
      BY <1>3, <2>1
  <2>3. Answered'
      BY <1>2, <1>3, <1>7, <2>1, <2>2 DEF IdInv, Answered
  <2>4. OwnAnswer'
      BY <2>1, <2>2 DEF OwnAnswer
  <2> QED BY <1>4, <2>1, <2>3, <2>4 DEF IdInv
<1>17. ASSUME NEW t \in Threads, Requester(t) PROVE IdInv' /\ OwnAnswer'
  <2>1. CASE Send(t)
    <3>1. /\ UNCHANGED <<id_cnt, era, torn, id, by, ans>> /\ rpc[t] = "send"
          /\ answers' \in {answers, answers \union {mine[t]}}
        BY <2>1 DEF Send, At, numVars, msgVars, outVars, mainVars
    <3>2. mine[t] \in Handles /\ HasId(mine[t])
        BY <3>1, LinkTypes DEF HeapInv, MineFresh, HasId
    <3>3. \A h \in answers' : h \in Handles /\ HasId(h)
        BY <1>7, <3>1, <3>2
    <3> QED BY <1>4, <1>5, <1>6, <3>1, <3>3 DEF IdInv
  <2>2. CASE (\E m \in Handles : Request(t, m)) \/ SendFails(t) \/ AppendFaults(t)
      BY <1>8, <2>2 DEF Request, SendFails, AppendFaults, numVars, msgVars, outVars, mainVars
  <2>3. CASE AppendReads(t) \/ AppendWalks(t) \/ AppendSeesEnd(t) \/ AppendLinks(t)
      BY <1>8, <2>3 DEF AppendReads, AppendWalks, AppendSeesEnd, AppendLinks, numVars, msgVars,
                        outVars, mainVars
  <2> QED BY <1>17, <2>1, <2>2, <2>3 DEF Requester
<1> QED BY <1>9, <1>10, <1>11, <1>12, <1>13, <1>14, <1>15, <1>16, <1>17
        DEF Next, Yield, Removal

------------------------------------------------------------------------------
\* TypeOK in three parts.
NumTypes ==
    /\ conn \in {"down", "deaf", "up"}
    /\ id_cnt \in Nat /\ era \in Nat /\ torn \in BOOLEAN
    /\ id \in [Handles -> Ids] /\ late \in SUBSET Handles
    /\ cnt \in [Threads -> Nat] /\ answers \in SUBSET Handles
HeapTypes ==
    /\ message_list \in Handles \union {NULL} /\ next \in [Handles -> Handles \union {NULL}]
    /\ mem \in [Handles -> {"unused", "allocated", "freed"}] /\ raced \in BOOLEAN
    /\ rpc \in [Threads -> {"idle", "number", "send", "append", "walk", "link"}]
    /\ mine \in [Threads -> Handles \union {NULL}]
    /\ last \in [Threads -> Handles \union {NULL, HEAD}]
MainTypes ==
    /\ told \in [Handles -> 0..1] /\ by \in [Handles -> Handles \union {NULL}]
    /\ pc \in {"idle", "destroy", "find", "yield", "tell", "unlink", "splice", "fault"}
    /\ cur \in Handles \union {HEAD, NULL} /\ target \in Handles \union {NULL}
    /\ nxt \in Handles \union {NULL} /\ ans \in Handles \union {NULL}
    /\ success \in BOOLEAN

\* What the steps of a requesting thread need to know of it.
LEMMA ThreadHolds ==
    ASSUME TypeOK, HeapWalkInv, NEW t \in Threads
    PROVE  /\ rpc[t] # "idle" => mine[t] \in Handles
           /\ rpc[t] \in {"walk", "link"} => last[t] \in Sources
<1>1. rpc[t] # "idle" => mine[t] \in Handles
    BY DEF HeapWalkInv, HeapInv, MineFresh, TypeOK
<1>2. rpc[t] \in {"walk", "link"} => last[t] \in Sources
    BY DEF HeapWalkInv, HeapInv, LastLinked, TypeOK, Sources
<1> QED BY <1>1, <1>2

LEMMA NumTypesKept ==
    ASSUME TypeOK, HeapWalkInv, Next
    PROVE  NumTypes'
<1>1. NumTypes
    BY DEF TypeOK, NumTypes
<1>2. CASE matop_serice_init
    BY <1>1, <1>2 DEF matop_serice_init, NumTypes, msgVars, reqVars
<1>3. CASE matop_serice_destory \/ DestroyEnds \/ DestroyFrees \/ Splice
    BY <1>1, <1>3 DEF matop_serice_destory, DestroyEnds, DestroyFrees, Splice, NumTypes, numVars,
                      msgVars, reqVars
<1>4. CASE Yield \/ FindPasses \/ FindFails \/ FindTells
    BY <1>1, <1>4 DEF Yield, YieldBegins, YieldPasses, YieldEnds, YieldTells, FindPasses,
                      FindFails, FindTells, NumTypes, numVars, msgVars, reqVars
<1>5. CASE TellReturns \/ UnlinkPasses \/ UnlinkFinds \/ UnlinkEnds
    BY <1>1, <1>5 DEF TellReturns, UnlinkPasses, UnlinkFinds, UnlinkEnds, NumTypes, numVars,
                      msgVars, reqVars
<1>6. CASE \E h \in Handles : TimePasses(h) \/ \E ok \in BOOLEAN : Receive(h, ok)
    BY <1>1, <1>6 DEF TimePasses, Receive, NumTypes, numVars, msgVars, reqVars
<1>7. ASSUME NEW t \in Threads, Requester(t) PROVE NumTypes'
  <2>1. CASE \E m \in Handles : Request(t, m)
      BY <1>1, <2>1 DEF Request, NumTypes, numVars, msgVars
  <2>2. CASE Number(t)
    <3>1. /\ id_cnt' = cnt[t] + 1 /\ torn' = (torn \/ id_cnt # cnt[t])
          /\ era' = IF (cnt[t] + 1) % IdMod = 0 THEN era + 1 ELSE era
          /\ id' = [id EXCEPT ![mine[t]] = [no |-> (cnt[t] + 1) % IdMod, era |-> era']]
          /\ cnt' = [cnt EXCEPT ![t] = 0]
          /\ conn' = conn /\ late' = late /\ answers' = answers
        BY <2>2 DEF Number, Numbered
    <3>2. cnt[t] + 1 \in Nat /\ IdMod \in Nat \ {0}
        BY <1>1, MatopAssumption DEF NumTypes
    <3>3. (cnt[t] + 1) % IdMod \in 0..(IdMod - 1)
        BY <3>2, ModNext
    <3>4. id_cnt' \in Nat /\ torn' \in BOOLEAN /\ era' \in Nat /\ cnt' \in [Threads -> Nat]
        BY <1>1, <3>1, <3>2 DEF NumTypes
    <3>5. [no |-> (cnt[t] + 1) % IdMod, era |-> era'] \in Ids
        BY <3>3, <3>4 DEF Ids
    <3>6. id' \in [Handles -> Ids]
        BY <1>1, <3>1, <3>5 DEF NumTypes
    <3> QED BY <1>1, <3>1, <3>4, <3>6 DEF NumTypes
  <2>3. CASE Send(t)
    <3>1. mine[t] \in Handles
        BY <2>3, ThreadHolds DEF Send, At
    <3> QED BY <1>1, <2>3, <3>1 DEF Send, NumTypes, numVars, msgVars
  <2>4. CASE SendFails(t) \/ AppendReads(t) \/ AppendWalks(t)
      BY <1>1, <2>4 DEF SendFails, AppendReads, AppendWalks, NumTypes, numVars, msgVars
  <2>5. CASE AppendSeesEnd(t) \/ AppendLinks(t) \/ AppendFaults(t)
      BY <1>1, <2>5 DEF AppendSeesEnd, AppendLinks, AppendFaults, NumTypes, numVars, msgVars, reqVars
  <2> QED BY <1>7, <2>1, <2>2, <2>3, <2>4, <2>5 DEF Requester
<1> QED BY <1>2, <1>3, <1>4, <1>5, <1>6, <1>7 DEF Next, Removal

LEMMA HeapTypesKept ==
    ASSUME TypeOK, HeapWalkInv, Next
    PROVE  HeapTypes'
<1>1. HeapTypes
    BY DEF TypeOK, HeapTypes
<1>2. ASSUME UNCHANGED <<listVars, rpc, mine, last>> PROVE HeapTypes'
    BY <1>1, <1>2 DEF HeapTypes, listVars
<1>3. CASE matop_serice_init
    BY <1>1, <1>3 DEF matop_serice_init, HeapTypes, reqVars
<1>4. CASE matop_serice_destory \/ DestroyEnds
    BY <1>2, <1>4 DEF matop_serice_destory, DestroyEnds, reqVars
<1>5. CASE Yield \/ FindPasses \/ FindFails \/ FindTells
    BY <1>2, <1>5 DEF Yield, YieldBegins, YieldPasses, YieldEnds, YieldTells, FindPasses,
                      FindFails, FindTells, reqVars
<1>6. CASE TellReturns \/ UnlinkPasses \/ UnlinkFinds \/ UnlinkEnds
    BY <1>2, <1>6 DEF TellReturns, UnlinkPasses, UnlinkFinds, UnlinkEnds, reqVars
<1>7. CASE \E h \in Handles : TimePasses(h) \/ \E ok \in BOOLEAN : Receive(h, ok)
    BY <1>2, <1>7 DEF TimePasses, Receive, reqVars
<1>8. CASE DestroyFrees
  <2>1. message_list \in Handles /\ next[message_list] \in Handles \union {NULL}
      BY <1>1, <1>8 DEF DestroyFrees, HeapTypes
  <2> QED BY <1>1, <1>8, <2>1 DEF DestroyFrees, HeapTypes, reqVars
<1>9. ASSUME NEW p \in Sources, NEW x \in Handles \union {NULL}, SetLink(p, x)
      PROVE  message_list' \in Handles \union {NULL} /\ next' \in [Handles -> Handles \union {NULL}]
    BY <1>9, SetLinkIs
<1>10. CASE Splice
  <2>1. cur \in Sources /\ nxt \in Handles \union {NULL}
      BY <1>10 DEF Splice, HeapWalkInv, WalkInv, Stages, TypeOK, Sources
  <2>2. message_list' \in Handles \union {NULL} /\ next' \in [Handles -> Handles \union {NULL}]
      BY <1>9, <1>10, <2>1 DEF Splice
  <2> QED BY <1>1, <1>10, <2>2 DEF Splice, HeapTypes, reqVars
<1>11. ASSUME NEW t \in Threads, Requester(t) PROVE HeapTypes'
  <2>1. CASE \E m \in Handles : Request(t, m)
      BY <1>1, <2>1 DEF Request, HeapTypes, Goto
  <2>2. CASE Number(t) \/ Send(t) \/ SendFails(t)
      BY <1>1, <2>2 DEF Number, Send, SendFails, HeapTypes, Goto, listVars
  <2>3. CASE AppendReads(t) \/ AppendSeesEnd(t)
      BY <1>1, <2>3 DEF AppendReads, AppendSeesEnd, HeapTypes, Goto, listVars
  <2>4. CASE AppendWalks(t)
    <3>1. Link(last[t]) \in Handles \union {NULL}
        BY <2>4, ThreadHolds, LinkTypes DEF AppendWalks, At
    <3> QED BY <1>1, <2>4, <3>1 DEF AppendWalks, HeapTypes, listVars
  <2>5. CASE AppendLinks(t)
    <3>1. last[t] \in Sources /\ mine[t] \in Handles /\ SetLink(last[t], mine[t])
        BY <2>5, ThreadHolds DEF AppendLinks, At
    <3>2. message_list' \in Handles \union {NULL} /\ next' \in [Handles -> Handles \union {NULL}]
        BY <1>9, <3>1
    <3> QED BY <1>1, <2>5, <3>2 DEF AppendLinks, HeapTypes, Goto
  <2>6. CASE AppendFaults(t)
      BY <1>2, <2>6 DEF AppendFaults, reqVars
  <2> QED BY <1>11, <2>1, <2>2, <2>3, <2>4, <2>5, <2>6 DEF Requester
<1> QED BY <1>3, <1>4, <1>5, <1>6, <1>7, <1>8, <1>10, <1>11 DEF Next, Removal

LEMMA MainTypesKept ==
    ASSUME TypeOK, HeapWalkInv, Next
    PROVE  MainTypes'
<1>1. MainTypes
    BY DEF TypeOK, MainTypes
<1>2. ASSUME UNCHANGED <<outVars, mainVars>> PROVE MainTypes'
    BY <1>1, <1>2 DEF MainTypes, outVars, mainVars
<1>3. ASSUME UNCHANGED outVars, Return PROVE MainTypes'
    BY <1>1, <1>3 DEF MainTypes, outVars, Return
<1>4. CASE matop_serice_init \/ DestroyFrees \/ \E h \in Handles : TimePasses(h)
    BY <1>2, <1>4 DEF matop_serice_init, DestroyFrees, TimePasses
<1>5. CASE DestroyEnds \/ FindFails \/ YieldEnds \/ UnlinkEnds \/ Splice
    BY <1>3, <1>5 DEF DestroyEnds, FindFails, YieldEnds, UnlinkEnds, Splice
<1>6. cur \in Sources => Link(cur) \in Handles \union {NULL}
    BY LinkTypes
<1>7. pc \in {"yield", "unlink"} => cur \in Sources
    BY DEF HeapWalkInv, WalkInv, Stages, TypeOK, Sources
<1>8. CASE matop_serice_destory \/ YieldBegins \/ UnlinkPasses \/ YieldPasses
    BY <1>1, <1>6, <1>7, <1>8 DEF matop_serice_destory, YieldBegins, UnlinkPasses, YieldPasses,
                                  MainTypes, outVars
<1>9. CASE \E h \in Handles : \E ok \in BOOLEAN : Receive(h, ok)
    BY <1>1, <1>9, LinkTypes DEF Receive, MainTypes, outVars
<1>10. CASE FindPasses
    BY <1>1, <1>10, LinkTypes DEF FindPasses, MainTypes, outVars
<1>11. CASE TellReturns \/ UnlinkFinds
  <2>1. next[target] \in Handles \union {NULL}
    <3>1. target \in Handles
        BY <1>11 DEF TellReturns, UnlinkFinds, Telling, HeapWalkInv, WalkInv, Stages
    <3> QED BY <3>1, LinkTypes
  <2> QED BY <1>1, <1>11, <2>1 DEF TellReturns, UnlinkFinds, MainTypes, outVars
<1>12. CASE FindTells \/ YieldTells
  <2>1. pc' = "tell" /\ target' \in Handles /\ told' = [told EXCEPT ![target'] = 1]
      BY <1>12, TellsWhom DEF HeapWalkInv
  <2>2. told' \in [Handles -> 0..1]
      BY <1>1, <2>1 DEF MainTypes
  <2>3. by' \in [Handles -> Handles \union {NULL}]
      BY <1>1, <1>12 DEF FindTells, YieldTells, Notify, MainTypes
  <2>4. /\ cur' \in {cur, NULL} /\ nxt' = nxt /\ ans' = ans /\ success' \in {success, FALSE}
      BY <1>12 DEF FindTells, YieldTells
  <2> QED BY <1>1, <2>1, <2>2, <2>3, <2>4 DEF MainTypes
<1>13. ASSUME NEW t \in Threads, Requester(t) PROVE MainTypes'
  <2>1. CASE AppendFaults(t)
      BY <1>1, <2>1 DEF AppendFaults, MainTypes, outVars
  <2>2. CASE ~AppendFaults(t)
      BY <1>2, <1>13, <2>2 DEF Requester, Request, Number, Send, SendFails, AppendReads,
                               AppendWalks, AppendSeesEnd, AppendLinks
  <2> QED BY <2>1, <2>2
<1> QED BY <1>4, <1>5, <1>8, <1>9, <1>10, <1>11, <1>12, <1>13 DEF Next, Yield, Removal

------------------------------------------------------------------------------
\* The invariant holds initially.
LEMMA MatopInit == Init => MatopInv
<1> SUFFICES ASSUME Init PROVE MatopInv
    OBVIOUS
<1>1. TypeOK
  <2>1. [no |-> 0, era |-> 0] \in Ids
      BY MatopAssumption DEF Ids
  <2>2. id \in [Handles -> Ids] /\ told \in [Handles -> 0..1] /\ cnt \in [Threads -> Nat]
      BY <2>1 DEF Init
  <2> QED BY <2>2 DEF Init, TypeOK
<1>2. LinksLive /\ LinksOne /\ MineFresh /\ UnusedFresh /\ LastLinked
    BY DEF Init, LinksLive, LinksOne, MineFresh, UnusedFresh, LastLinked, Link, Sources
<1>3. NoCycle(next, Allocated)
    BY Pointers DEF Init, NoCycle, Allocated
<1>4. Stages /\ HeldOne /\ SeenAcyclic /\ UnlinkSkips
    BY DEF Init, Stages, HeldOne, SeenAcyclic, UnlinkSkips, Held, Telling
<1>5. RootsGood
  <2>1. Rooted({})
      BY Pointers DEF Init, Rooted
  <2> QED BY <2>1 DEF RootsGood
<1>6. NoneForgotten /\ OwnAnswer
    BY DEF Init, NoneForgotten, OwnAnswer
<1>7. IdInv
    BY DEF Init, IdInv, IdsBounded, IdsDistinct, Answered, HasId
<1> QED BY <1>1, <1>2, <1>3, <1>4, <1>5, <1>6, <1>7 DEF MatopInv, HeapInv, WalkInv

\* Every step keeps it.
LEMMA MatopStep == MatopInv /\ [Next]_vars => MatopInv'
<1> SUFFICES ASSUME MatopInv, [Next]_vars PROVE MatopInv'
    OBVIOUS
<1>1. CASE UNCHANGED vars
  <2>1. TypeOK'
      BY <1>1 DEF MatopInv, TypeOK, vars, numVars, listVars, msgVars, outVars, mainVars, reqVars
  <2>2. OwnAnswer'
      BY <1>1 DEF MatopInv, OwnAnswer, vars, numVars, msgVars, outVars
  <2>3. CASE pc' = "fault"
      BY <2>1, <2>2, <2>3 DEF MatopInv
  <2>4. CASE pc' # "fault"
    <3>1. pc # "fault"
        BY <1>1, <2>4 DEF vars, mainVars
    <3> QED BY <2>1, <2>2, <2>4, <3>1, HeapWalkKept, IdsKept DEF MatopInv, HeapWalkInv
  <2> QED BY <2>3, <2>4
<1>2. CASE Next /\ ~UNCHANGED vars
  <2>1. pc # "fault"
      BY <1>2, FaultStops
  <2>2. HeapWalkInv /\ IdInv /\ OwnAnswer /\ TypeOK
      BY <2>1 DEF MatopInv, HeapWalkInv
  <2>3. TypeOK'
      BY <1>2, <2>2, NumTypesKept, HeapTypesKept, MainTypesKept
         DEF TypeOK, NumTypes, HeapTypes, MainTypes
  <2>4. IdInv' /\ OwnAnswer' /\ (pc' # "fault" => HeapWalkInv')
      BY <2>2, HeapWalkKept, IdsKept
  <2> QED BY <2>3, <2>4 DEF MatopInv, HeapWalkInv
<1> QED BY <1>1, <1>2

\* The inductive invariant, for any threads, entries, width of the ids and number of
\* connections: until the program faults, links make no cycle, each entry hangs on one
\* link, and what the main thread holds over its steps stays allocated.
THEOREM MatopInvariant == Spec => []MatopInv
<1> QED BY MatopInit, MatopStep, PTL DEF Spec

\* The variables keep their types, and no callback of a request is called twice.
THEOREM MatopTypes == Spec => []TypeOK
<1>1. MatopInv => TypeOK
    BY DEF MatopInv
<1> QED BY <1>1, MatopInvariant, PTL

\* The list holds allocated entries whose callback is still to come, and the main thread
\* never follows a link out of a freed entry, however appends race with removals.
THEOREM MatopListIsLive == Spec => []ListIsLive
<1>1. MatopInv => ListIsLive
  <2> SUFFICES ASSUME MatopInv, pc # "fault" PROVE ListIsLive
      BY DEF ListIsLive
  <2>1. WalkInv /\ TypeOK
      BY DEF MatopInv
  <2>2. PICK S \in SUBSET Handles : Rooted(S) /\ \A h \in S : Good(h)
      BY <2>1 DEF WalkInv, RootsGood
  <2>3. Closed(S)
      BY <2>1, <2>2 DEF Rooted, Closed, TypeOK
  <2>4. Entries \subseteq S
      BY <2>3 DEF Entries
  <2>5. \A h \in Entries : mem[h] = "allocated" /\ (told[h] = 0 \/ (Telling /\ h = target))
      BY <2>2, <2>4 DEF Good, Linked
  <2>6. pc \in {"find", "tell", "unlink", "splice"} /\ target # NULL => mem[target] = "allocated"
      BY <2>1, RootsLinked DEF Good, Linked
  <2>7. pc \in {"yield", "unlink", "splice"} /\ cur # HEAD => mem[cur] = "allocated"
      BY <2>1, RootsLinked DEF WalkInv, Stages, Good, Linked
  <2> QED BY <2>5, <2>6, <2>7 DEF ListIsLive
<1> QED BY <1>1, MatopInvariant, PTL

\* A request that was sent is with its thread, in the list or freed, unless a store hid
\* that of another thread.
THEOREM MatopNoneForgotten == Spec => []NoneForgotten
<1>1. MatopInv => NoneForgotten
    BY DEF MatopInv, NoneForgotten
<1> QED BY <1>1, MatopInvariant, PTL

\* An answer reaches its own request, unless the numbering restarted in between or two
\* threads took one number.
THEOREM MatopOwnAnswer == Spec => []OwnAnswer
<1>1. MatopInv => OwnAnswer
    BY DEF MatopInv
<1> QED BY <1>1, MatopInvariant, PTL

------------------------------------------------------------------------------
\* The refinement of RequestBook.
LEMMA BookInit == Init => Book!Init
BY DEF Init, Book!Init, Book!None, Outcome

LEMMA BookStep ==
    ASSUME TypeOK, HeapWalkInv, Next
    PROVE  [Book!Next]_Outcome
<1> USE DEF HeapWalkInv
<1>0. /\ mem \in [Handles -> {"unused", "allocated", "freed"}] /\ told \in [Handles -> 0..1]
      /\ by \in [Handles -> Handles \union {NULL}]
    BY DEF TypeOK
<1>1. ASSUME UNCHANGED <<mem, told, by>> PROVE Outcome' = Outcome
    BY <1>1 DEF Outcome
<1>2. \A h \in Handles : Outcome[h] = IF mem[h] = "unused" THEN "none"
                          ELSE IF told[h] > 0 THEN IF by[h] = NULL THEN "timedOut" ELSE "answered"
                          ELSE IF mem[h] = "allocated" THEN "open" ELSE "closed"
    BY DEF Outcome
<1>3. \A h \in Handles :
           Outcome'[h] = IF mem'[h] = "unused" THEN "none"
                         ELSE IF told'[h] > 0 THEN IF by'[h] = NULL THEN "timedOut" ELSE "answered"
                         ELSE IF mem'[h] = "allocated" THEN "open" ELSE "closed"
    BY DEF Outcome
<1>4. ASSUME NEW m \in Handles, NEW what, Outcome'[m] = what,
              \A h \in Handles : h # m => Outcome'[h] = Outcome[h]
       PROVE  Outcome' = [Outcome EXCEPT ![m] = what]
    BY <1>4 DEF Outcome
<1>5. ASSUME NEW m \in Handles, told[m] = 0, mem[m] = "allocated",
             mem' = [mem EXCEPT ![m] = "freed"], told' = told, by' = by
      PROVE  Book!Close(m)
  <2>1. Outcome[m] = "open"
      BY <1>2, <1>5
  <2>2. Outcome' = [Outcome EXCEPT ![m] = "closed"]
    <3>1. Outcome'[m] = "closed" /\ \A h \in Handles : h # m => Outcome'[h] = Outcome[h]
        BY <1>0, <1>2, <1>5, <1>3
    <3> QED BY <1>4, <3>1
  <2> QED BY <2>1, <2>2 DEF Book!Close
<1>6. CASE matop_serice_init \/ matop_serice_destory \/ DestroyEnds
    BY <1>1, <1>6 DEF matop_serice_init, matop_serice_destory, DestroyEnds, listVars, outVars
<1>7. CASE YieldBegins \/ YieldPasses \/ YieldEnds \/ FindPasses \/ FindFails
    BY <1>1, <1>7 DEF YieldBegins, YieldPasses, YieldEnds, FindPasses, FindFails, listVars, outVars
<1>8. CASE TellReturns \/ UnlinkPasses \/ UnlinkFinds \/ UnlinkEnds
    BY <1>1, <1>8 DEF TellReturns, UnlinkPasses, UnlinkFinds, UnlinkEnds, listVars, outVars
<1>9. CASE \E h \in Handles : TimePasses(h) \/ \E ok \in BOOLEAN : Receive(h, ok)
    BY <1>1, <1>9 DEF TimePasses, Receive, listVars, outVars
<1>10. CASE DestroyFrees
  <2>1. message_list \in Handles /\ Good(message_list) /\ ~Telling
      BY <1>10, RootsLinked, LinkTypes DEF DestroyFrees, Telling
  <2>2. Book!Close(message_list)
      BY <1>5, <1>10, <2>1 DEF DestroyFrees, outVars, Good, Linked
  <2> QED BY <2>1, <2>2 DEF Book!Next
<1>11. CASE Splice
  <2>1. /\ target \in Handles /\ told[target] = 1 /\ mem[target] = "allocated"
        /\ mem' = [mem EXCEPT ![target] = "freed"] /\ told' = told /\ by' = by
      BY <1>11, RootsLinked DEF Splice, outVars, WalkInv, Stages, Telling, Good, Linked
  <2> QED BY <1>0, <2>1 DEF Outcome
<1>12. CASE FindTells \/ YieldTells
  <2>1. PICK e \in Handles : e = target'
      BY <1>12, TellsWhom
  <2>2. /\ mem[e] = "allocated" /\ told[e] = 0 /\ mem' = mem /\ told' = [told EXCEPT ![e] = 1]
      BY <1>12, <2>1, TellsWhom DEF Good, Linked, MainOnly
  <2>3. Outcome[e] = "open"
      BY <1>2, <2>2
  <2>4. PICK b \in Handles \union {NULL} : by' = [by EXCEPT ![e] = b]
    <3>1. CASE FindTells
        BY <2>1, <3>1 DEF FindTells, Notify, TypeOK
    <3>2. CASE YieldTells
        BY <2>1, <3>2 DEF YieldTells, Notify
    <3> QED BY <1>12, <3>1, <3>2
  <2>5. PICK what \in {"answered", "timedOut"} : what = IF b = NULL THEN "timedOut" ELSE "answered"
      OBVIOUS
  <2>6. Outcome' = [Outcome EXCEPT ![e] = what]
    <3>1. Outcome'[e] = what /\ \A h \in Handles : h # e => Outcome'[h] = Outcome[h]
        BY <1>0, <1>2, <1>3, <2>2, <2>4, <2>5
    <3> QED BY <1>4, <3>1
  <2>7. Book!Tell(e, what)
      BY <2>3, <2>6 DEF Book!Tell
  <2> QED BY <2>7 DEF Book!Next
<1>13. ASSUME NEW t \in Threads, Requester(t) PROVE [Book!Next]_Outcome
  <2>1. CASE \E m \in Handles : Request(t, m)
    <3>1. PICK m \in Handles : Request(t, m)
        BY <2>1
    <3>2. /\ mem[m] = "unused" /\ mem' = [mem EXCEPT ![m] = "allocated"] /\ told' = told
          /\ by' = by /\ told[m] = 0
        BY <3>1 DEF Request, outVars, HeapInv, UnusedFresh
    <3>3. Outcome[m] = "none" /\ Outcome' = [Outcome EXCEPT ![m] = "open"]
      <4>1. Outcome[m] = "none" /\ Outcome'[m] = "open"
          BY <1>0, <1>2, <1>3, <3>2
      <4>2. \A h \in Handles : h # m => Outcome'[h] = Outcome[h]
          BY <1>0, <1>2, <1>3, <3>2
      <4> QED BY <1>4, <4>1, <4>2
    <3> QED BY <3>3 DEF Book!Next, Book!Open
  <2>2. CASE SendFails(t)
    <3>1. mine[t] \in Handles /\ mem[mine[t]] = "allocated" /\ told[mine[t]] = 0
        BY <2>2, ThreadHolds, Pointers DEF SendFails, At, HeapInv, MineFresh
    <3>2. Book!Close(mine[t])
        BY <1>5, <2>2, <3>1 DEF SendFails, outVars
    <3> QED BY <3>1, <3>2 DEF Book!Next
  <2>3. CASE Number(t) \/ Send(t) \/ AppendReads(t) \/ AppendWalks(t)
      BY <1>1, <2>3 DEF Number, Send, AppendReads, AppendWalks, listVars, outVars
  <2>4. CASE AppendSeesEnd(t) \/ AppendLinks(t) \/ AppendFaults(t)
      BY <1>1, <2>4 DEF AppendSeesEnd, AppendLinks, AppendFaults, listVars, outVars
  <2> QED BY <1>13, <2>1, <2>2, <2>3, <2>4 DEF Requester
<1> QED BY <1>6, <1>7, <1>8, <1>9, <1>10, <1>11, <1>12, <1>13 DEF Next, Yield, Removal

\* The service implements RequestBook: each request has one outcome, and a final one,
\* whatever the threads, the list and the timeouts do.
THEOREM MatopOneOutcome == Spec => OneOutcome
<1>1. MatopInv /\ [Next]_vars => [Book!Next]_Outcome
  <2> SUFFICES ASSUME MatopInv, [Next]_vars PROVE [Book!Next]_Outcome
      OBVIOUS
  <2>1. CASE UNCHANGED vars
      BY <2>1 DEF vars, listVars, outVars, Outcome
  <2>2. CASE Next /\ ~UNCHANGED vars
    <3>1. pc # "fault"
        BY <2>2, FaultStops
    <3> QED BY <2>2, <3>1, BookStep DEF MatopInv, HeapWalkInv
  <2> QED BY <2>1, <2>2
<1> QED BY <1>1, BookInit, MatopInvariant, PTL DEF Spec, OneOutcome, Book!Spec
==============================================================================
