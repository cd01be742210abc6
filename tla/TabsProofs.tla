----------------------------- MODULE TabsProofs -----------------------------
(***************************************************************************)
(* Proofs about the tabs of Tabs: the list and the active tab, the tabs    *)
(* that were closed, and the saved session.                                *)
(***************************************************************************)
EXTENDS Tabs, TLAPS, FiniteSetTheorems, SequenceTheorems, WellFoundedInduction

-----------------------------------------------------------------------------
\* The lists of the tab manager.

\* How many of the positions are up to i.
UpTo(at, i) == Cardinality({j \in at : j <= i})

\* A set of natural numbers has a least element.
LEMMA LeastNatural ==
  ASSUME NEW S \in SUBSET Nat, S # {}
  PROVE  \E i \in S : \A j \in S : i <= j
<1>1. PICK i \in S : \A j \in S : ~(<<j, i>> \in OpToRel(<, Nat))
  BY NatLessThanWellFounded, WFMin
<1>2. ASSUME NEW j \in S PROVE i <= j
  <2>1. <<j, i>> \notin {ss \in Nat \X Nat : ss[1] < ss[2]}
    BY <1>1, Zenon DEF OpToRel
  <2> QED
    BY <2>1
<1> QED
  BY <1>2

\* The positions up to i are finitely many.
LEMMA UpToType ==
  ASSUME NEW n \in Nat, NEW at, \A j \in at : j \in 1..n, NEW i \in Nat
  PROVE  /\ IsFiniteSet(at) /\ Cardinality(at) \in Nat
         /\ IsFiniteSet({j \in at : j <= i}) /\ UpTo(at, i) \in 0..Cardinality(at)
<1>1. IsFiniteSet(1..n)
  BY FS_Interval
<1>2. IsFiniteSet(at)
  <2>1. at \in SUBSET (1..n)
    OBVIOUS
  <2> QED
    BY <1>1, <2>1, FS_Subset
<1>3. {j \in at : j <= i} \in SUBSET at
  OBVIOUS
<1>4. /\ IsFiniteSet({j \in at : j <= i})
      /\ Cardinality({j \in at : j <= i}) <= Cardinality(at)
  BY <1>2, <1>3, FS_Subset
<1> QED
  BY <1>2, <1>4, FS_CardinalityType DEF UpTo

\* One more position counts one more, if it is one of them.
LEMMA UpToNext ==
  ASSUME NEW n \in Nat, NEW at, \A j \in at : j \in 1..n, NEW i \in Nat \ {0}
  PROVE  UpTo(at, i) = IF i \in at THEN UpTo(at, i - 1) + 1 ELSE UpTo(at, i - 1)
<1> DEFINE before == {j \in at : j <= i - 1}
<1>0. i - 1 \in Nat /\ \A j \in at : j \in Nat
  OBVIOUS
<1>1. IsFiniteSet(before)
  BY <1>0, UpToType
<1>2. i \notin before
  OBVIOUS
<1>3. CASE i \in at
  <2>0. \A j \in at : j <= i <=> (j <= i - 1 \/ j = i)
    BY <1>0
  <2>1. {j \in at : j <= i} = before \cup {i}
    BY <1>3, <2>0, Zenon
  <2>2. Cardinality(before \cup {i}) = Cardinality(before) + 1
    BY <1>1, <1>2, FS_AddElement
  <2> QED
    BY <1>3, <2>1, <2>2 DEF UpTo
<1>4. CASE i \notin at
  <2>1. {j \in at : j <= i} = before
    BY <1>0, <1>4
  <2> QED
    BY <1>4, <2>1 DEF UpTo
<1> QED
  BY <1>3, <1>4

\* The k-th position is one of them, with k up to it.
LEMMA NthIsThere ==
  ASSUME NEW n \in Nat, NEW at, \A j \in at : j \in 1..n, NEW k \in 1..Cardinality(at)
  PROVE  Nth(at, k) \in at /\ UpTo(at, Nth(at, k)) = k
<1> DEFINE S == {i \in 0..n : UpTo(at, i) >= k}
<1>0. Cardinality(at) \in Nat /\ \A j \in at : j \in 1..n
  BY UpToType
<1>1. n \in S
  <2>1. {j \in at : j <= n} = at
    BY <1>0
  <2> QED
    BY <1>0, <2>1 DEF UpTo
<1>2. PICK i \in S : \A j \in S : i <= j
  <2>1. S \in SUBSET Nat /\ S # {}
    BY <1>1
  <2> HIDE DEF S
  <2> QED
    BY <2>1, LeastNatural
<1>3. i # 0
  <2>1. {j \in at : j <= 0} = {}
    BY <1>0
  <2>2. UpTo(at, 0) = 0
    BY <2>1, FS_EmptySet DEF UpTo
  <2> QED
    BY <2>2
<1>4. i - 1 \in 0..n /\ UpTo(at, i - 1) \in Nat /\ UpTo(at, i) \in Nat
  <2>1. i \in Nat /\ i - 1 \in Nat /\ i - 1 \in 0..n
    BY <1>3
  <2>2. UpTo(at, i - 1) \in 0..Cardinality(at) /\ UpTo(at, i) \in 0..Cardinality(at)
    BY <2>1, UpToType
  <2> QED
    BY <1>0, <2>1, <2>2
<1>5. UpTo(at, i - 1) < k
  BY <1>2, <1>4
<1>6. i \in at /\ UpTo(at, i) = k
  BY <1>3, <1>4, <1>5, UpToNext
<1>7. \E j \in at : Cardinality({l \in at : l <= j}) = k
  BY <1>6 DEF UpTo
<1> QED
  BY <1>7, Zenon DEF Nth, UpTo

\* Different positions have different counts.
LEMMA UpToGrows ==
  ASSUME NEW n \in Nat, NEW at, \A j \in at : j \in 1..n, NEW i \in at, NEW j \in at, i < j
  PROVE  UpTo(at, i) < UpTo(at, j)
<1>0. \A l \in at : l \in Nat
  OBVIOUS
<1>1. {l \in at : l <= i} \in SUBSET {l \in at : l <= j}
  BY <1>0
<1>2. {l \in at : l <= i} # {l \in at : l <= j}
  <2>1. j \in {l \in at : l <= j} /\ j \notin {l \in at : l <= i}
    BY <1>0
  <2> QED
    BY <2>1
<1>3. /\ IsFiniteSet({l \in at : l <= j})
      /\ UpTo(at, i) \in 0..Cardinality(at) /\ UpTo(at, j) \in 0..Cardinality(at)
      /\ Cardinality(at) \in Nat
  <2>1. i \in Nat /\ j \in Nat
    BY <1>0
  <2> QED
    BY <2>1, UpToType
<1>4. UpTo(at, i) <= UpTo(at, j) /\ UpTo(at, i) # UpTo(at, j)
  BY <1>1, <1>2, <1>3, FS_Subset DEF UpTo
<1> QED
  BY <1>3, <1>4

\* A position is the one its count tells.
LEMMA NthOfPosition ==
  ASSUME NEW n \in Nat, NEW at, \A j \in at : j \in 1..n, NEW i \in at
  PROVE  UpTo(at, i) \in 1..Cardinality(at) /\ Nth(at, UpTo(at, i)) = i
<1>1. /\ UpTo(at, i) \in 0..Cardinality(at) /\ Cardinality(at) \in Nat
      /\ IsFiniteSet({j \in at : j <= i}) /\ i \in Nat
  <2>1. i \in Nat
    OBVIOUS
  <2> QED
    BY <2>1, UpToType
<1>2. i \in {j \in at : j <= i}
  OBVIOUS
<1>3. UpTo(at, i) # 0
  BY <1>1, <1>2, FS_EmptySet DEF UpTo
<1>4. UpTo(at, i) \in 1..Cardinality(at)
  BY <1>1, <1>3
<1> DEFINE m == Nth(at, UpTo(at, i))
<1>5. m \in at /\ UpTo(at, m) = UpTo(at, i)
  BY <1>4, NthIsThere
<1> HIDE DEF m
<1>6. ~(m < i) /\ ~(i < m)
  <2>1. m < i => UpTo(at, m) < UpTo(at, i)
    BY <1>5, UpToGrows
  <2>2. i < m => UpTo(at, i) < UpTo(at, m)
    BY <1>5, UpToGrows
  <2> QED
    BY <1>1, <1>5, <2>1, <2>2
<1>7. m = i
  BY <1>5, <1>6
<1> QED
  BY <1>4, <1>7 DEF m

\* A list has each element of another one's positions from a position of its own, and
\* leaves none out.
PicksEach(new, list, at) ==
  /\ \A k \in DOMAIN new : Nth(at, k) \in at /\ new[k] = list[Nth(at, k)]
  /\ \A k, l \in DOMAIN new : Nth(at, k) = Nth(at, l) => k = l
  /\ \A i \in at : \E k \in DOMAIN new : new[k] = list[i]

\* What is picked of a list.
LEMMA PickedFacts ==
  ASSUME NEW S, NEW list \in Seq(S), NEW at \in SUBSET DOMAIN list
  PROVE  /\ Picked(list, at) \in Seq({list[i] : i \in at})
         /\ PicksEach(Picked(list, at), list, at)
<1>0. Len(list) \in Nat /\ \A j \in at : j \in 1..Len(list)
  OBVIOUS
<1>1. Cardinality(at) \in Nat
  BY <1>0, UpToType
<1>2. \A k \in 1..Cardinality(at) : Nth(at, k) \in at /\ UpTo(at, Nth(at, k)) = k
  BY <1>0, NthIsThere
<1>3. \A i \in at : UpTo(at, i) \in 1..Cardinality(at) /\ Nth(at, UpTo(at, i)) = i
  BY <1>0, NthOfPosition
<1>4. /\ DOMAIN Picked(list, at) = 1..Cardinality(at)
      /\ \A k \in 1..Cardinality(at) : Picked(list, at)[k] = list[Nth(at, k)]
      /\ Picked(list, at) \in [1..Cardinality(at) -> {list[i] : i \in at}]
  BY <1>2 DEF Picked
<1>5. Picked(list, at) \in Seq({list[i] : i \in at})
  BY <1>1, <1>4
<1>6. \A k, l \in 1..Cardinality(at) : Nth(at, k) = Nth(at, l) => k = l
  BY <1>2
<1>7. \A i \in at : \E k \in 1..Cardinality(at) : Picked(list, at)[k] = list[i]
  BY <1>3, <1>4
<1> QED
  BY <1>2, <1>4, <1>5, <1>6, <1>7 DEF PicksEach

\* A list whose IDs stand for one tab each.
Distinct(list) == \A i, j \in DOMAIN list : list[i].id = list[j].id => i = j

\* What ListInv says of a tab.
Regular(tab, next) == tab.id < next /\ (tab.id = Settings => tab.kind = "settings")

\* A tab of the list is found.
LEMMA FindFacts ==
  ASSUME NEW list \in Seq(Tab), NEW id \in TabIDs(list)
  PROVE  Find(list, id) \in DOMAIN list /\ list[Find(list, id)].id = id
<1>1. \E i \in DOMAIN list : list[i].id = id
  BY DEF TabIDs
<1> QED
  BY <1>1, Zenon DEF Find

\* The list without a tab has every other one, once each.
LEMMA WithoutFacts ==
  ASSUME NEW list \in Seq(Tab), Distinct(list), NEW id
  PROVE  /\ Without(list, id) \in Seq(Tab) /\ Distinct(Without(list, id))
         /\ \A k \in DOMAIN Without(list, id) :
              \E i \in DOMAIN list : list[i].id # id /\ Without(list, id)[k] = list[i]
         /\ TabIDs(Without(list, id)) = TabIDs(list) \ {id}
<1> DEFINE at == {i \in DOMAIN list : list[i].id # id}
           rest == Picked(list, at)
<1>0. rest = Without(list, id) /\ at \in SUBSET DOMAIN list
  BY DEF Without
<1>1. /\ rest \in Seq({list[i] : i \in at})
      /\ \A k \in DOMAIN rest : Nth(at, k) \in at /\ rest[k] = list[Nth(at, k)]
      /\ \A k, l \in DOMAIN rest : Nth(at, k) = Nth(at, l) => k = l
      /\ \A i \in at : \E k \in DOMAIN rest : rest[k] = list[i]
  <2> HIDE DEF at
  <2>1. list \in Seq(Tab) /\ at \in SUBSET DOMAIN list
    BY <1>0
  <2>2. rest \in Seq({list[i] : i \in at}) /\ PicksEach(rest, list, at)
    BY <2>1, PickedFacts
  <2> HIDE DEF rest
  <2> QED
    BY <2>2 DEF PicksEach
<1>2. rest \in Seq(Tab)
  <2>1. {list[i] : i \in at} \subseteq Tab
    OBVIOUS
  <2> HIDE DEF at, rest
  <2> QED
    BY <1>1, <2>1, SeqMonotonic
<1>3. \A i \in at : i \in DOMAIN list /\ list[i].id # id
  OBVIOUS
<1>4. \A i \in DOMAIN list : list[i].id # id => i \in at
  OBVIOUS
<1> HIDE DEF at, rest
<1>5. Distinct(rest)
  <2> SUFFICES ASSUME NEW k \in DOMAIN rest, NEW l \in DOMAIN rest, rest[k].id = rest[l].id
               PROVE  k = l
    BY Zenon DEF Distinct
  <2>1. /\ Nth(at, k) \in DOMAIN list /\ rest[k] = list[Nth(at, k)]
        /\ Nth(at, l) \in DOMAIN list /\ rest[l] = list[Nth(at, l)]
    BY <1>1, <1>3
  <2>2. Nth(at, k) = Nth(at, l)
    BY <2>1 DEF Distinct
  <2> QED
    BY <1>1, <2>2
<1>6. \A k \in DOMAIN rest : \E i \in DOMAIN list : list[i].id # id /\ rest[k] = list[i]
  BY <1>1, <1>3
<1>7. TabIDs(rest) \subseteq TabIDs(list) \ {id}
  BY <1>6, Zenon DEF TabIDs
<1>8. TabIDs(list) \ {id} \subseteq TabIDs(rest)
  <2> SUFFICES ASSUME NEW x \in TabIDs(list), x # id PROVE x \in TabIDs(rest)
    BY Zenon
  <2>1. PICK i \in DOMAIN list : list[i].id = x
    BY DEF TabIDs
  <2>2. PICK k \in DOMAIN rest : rest[k] = list[i]
    BY <1>1, <1>4, <2>1
  <2> QED
    BY <2>1, <2>2, Zenon DEF TabIDs
<1> QED
  BY <1>0, <1>2, <1>5, <1>6, <1>7, <1>8

\* A tab appended to a list that does not have it.
LEMMA AppendFacts ==
  ASSUME NEW list \in Seq(Tab), Distinct(list), NEW tab \in Tab, tab.id \notin TabIDs(list)
  PROVE  /\ Append(list, tab) \in Seq(Tab) /\ Distinct(Append(list, tab))
         /\ \A k \in DOMAIN Append(list, tab) :
              Append(list, tab)[k] = tab \/ \E i \in DOMAIN list : Append(list, tab)[k] = list[i]
         /\ TabIDs(Append(list, tab)) = TabIDs(list) \cup {tab.id}
<1> DEFINE more == Append(list, tab)
<1>1. /\ more \in Seq(Tab) /\ DOMAIN more = 1..Len(list) + 1 /\ Len(list) \in Nat
      /\ DOMAIN list = 1..Len(list)
      /\ \A i \in 1..Len(list) : more[i] = list[i]
      /\ more[Len(list) + 1] = tab
  OBVIOUS
<1>2. \A i \in DOMAIN list : list[i].id # tab.id
  BY Zenon DEF TabIDs
<1> HIDE DEF more
<1>3. DOMAIN more = DOMAIN list \cup {Len(list) + 1} /\ Len(list) + 1 \notin DOMAIN list
  BY <1>1
<1>4. Distinct(more)
  <2> SUFFICES ASSUME NEW i \in DOMAIN more, NEW j \in DOMAIN more, more[i].id = more[j].id
               PROVE  i = j
    BY Zenon DEF Distinct
  <2>1. CASE i \in DOMAIN list /\ j \in DOMAIN list
    BY <1>1, <2>1 DEF Distinct
  <2>2. CASE i \notin DOMAIN list \/ j \notin DOMAIN list
    BY <1>1, <1>2, <1>3, <2>2
  <2> QED
    BY <2>1, <2>2
<1>5. \A k \in DOMAIN more : more[k] = tab \/ \E i \in DOMAIN list : more[k] = list[i]
  BY <1>1, <1>3
<1>6. TabIDs(more) \subseteq TabIDs(list) \cup {tab.id}
  BY <1>5, Zenon DEF TabIDs
<1>7. TabIDs(list) \cup {tab.id} \subseteq TabIDs(more)
  <2>1. \A i \in DOMAIN list : i \in DOMAIN more /\ more[i] = list[i]
    BY <1>1
  <2>2. Len(list) + 1 \in DOMAIN more
    BY <1>1
  <2> QED
    BY <1>1, <2>1, <2>2, Zenon DEF TabIDs
<1> QED
  BY <1>1, <1>4, <1>5, <1>6, <1>7 DEF more

\* upsertTab replaces the tab with its ID or appends it.
LEMMA UpsertedFacts ==
  ASSUME NEW list \in Seq(Tab), Distinct(list), NEW tab \in Tab
  PROVE  /\ Upserted(list, tab) \in Seq(Tab) /\ Distinct(Upserted(list, tab))
         /\ \A k \in DOMAIN Upserted(list, tab) :
              \/ Upserted(list, tab)[k] = tab
              \/ \E i \in DOMAIN list : Upserted(list, tab)[k] = list[i]
         /\ TabIDs(Upserted(list, tab)) = TabIDs(list) \cup {tab.id}
<1>1. CASE tab.id \notin TabIDs(list)
  BY <1>1, AppendFacts DEF Upserted
<1>2. CASE tab.id \in TabIDs(list)
  <2> DEFINE at == Find(list, tab.id)
             new == [list EXCEPT ![at] = tab]
  <2>1. at \in DOMAIN list /\ list[at].id = tab.id
    BY <1>2, FindFacts
  <2>2. Upserted(list, tab) = new
    BY <1>2 DEF Upserted
  <2> HIDE DEF at
  <2>3. /\ new \in Seq(Tab) /\ DOMAIN new = DOMAIN list
        /\ \A i \in DOMAIN list : new[i] = IF i = at THEN tab ELSE list[i]
    BY <2>1
  <2> HIDE DEF new
  <2>4. \A i \in DOMAIN list : new[i].id = list[i].id
    BY <2>1, <2>3
  <2>5. Distinct(new)
    BY <2>3, <2>4, Zenon DEF Distinct
  <2>6. TabIDs(new) = TabIDs(list)
    BY <2>3, <2>4, Zenon DEF TabIDs
  <2>7. \A k \in DOMAIN new : new[k] = tab \/ \E i \in DOMAIN list : new[k] = list[i]
    BY <2>3
  <2>8. TabIDs(list) = TabIDs(list) \cup {tab.id}
    BY <1>2
  <2> QED
    BY <2>2, <2>3, <2>5, <2>6, <2>7, <2>8
<1> QED
  BY <1>1, <1>2

\* reorderTab puts a tab before another one.
LEMMA InsertFacts ==
  ASSUME NEW list \in Seq(Tab), Distinct(list), NEW tab \in Tab, tab.id \notin TabIDs(list),
         NEW at \in DOMAIN list
  PROVE  /\ InsertAt(list, at, tab) \in Seq(Tab) /\ Distinct(InsertAt(list, at, tab))
         /\ \A k \in DOMAIN InsertAt(list, at, tab) :
              \/ InsertAt(list, at, tab)[k] = tab
              \/ \E i \in DOMAIN list : InsertAt(list, at, tab)[k] = list[i]
         /\ TabIDs(InsertAt(list, at, tab)) = TabIDs(list) \cup {tab.id}
<1> DEFINE new == InsertAt(list, at, tab)
           front == SubSeq(list, 1, at - 1)
           back == SubSeq(list, at, Len(list))
<1>0. /\ Len(list) \in Nat /\ DOMAIN list = 1..Len(list) /\ at \in 1..Len(list)
      /\ \A i \in 1..Len(list) : list[i] \in Tab
  OBVIOUS
<1>1. /\ front \in Seq(Tab) /\ Len(front) = at - 1
      /\ \A i \in 1..at - 1 : front[i] = list[i]
  <2>1. \A i \in 1..at - 1 : list[i] \in Tab
    BY <1>0
  <2>2. 1 \in Int /\ at - 1 \in Int
    BY <1>0
  <2>3. /\ front \in Seq(Tab) /\ Len(front) = (IF 1 <= at - 1 THEN at - 1 - 1 + 1 ELSE 0)
        /\ \A i \in 1..at - 1 - 1 + 1 : front[i] = list[1 + i - 1]
    BY <2>1, <2>2, SubSeqProperties
  <2> QED
    BY <1>0, <2>3
<1>2. /\ back \in Seq(Tab) /\ Len(back) = Len(list) - at + 1
      /\ \A i \in 1..Len(list) - at + 1 : back[i] = list[at + i - 1]
  <2>1. \A i \in at..Len(list) : list[i] \in Tab
    BY <1>0
  <2>2. at \in Int /\ Len(list) \in Int /\ at <= Len(list)
    BY <1>0
  <2> QED
    BY <2>1, <2>2, SubSeqProperties
<1> HIDE DEF front, back
<1>3. new = front \o <<tab>> \o back
  BY DEF InsertAt, front, back
<1>4. /\ new \in Seq(Tab) /\ DOMAIN new = 1..Len(list) + 1
      /\ \A i \in 1..Len(list) + 1 : new[i] = IF i < at THEN front[i]
                                              ELSE IF i = at THEN tab ELSE back[i - at]
  BY <1>0, <1>1, <1>2, <1>3
<1> HIDE DEF new
<1>5. \A i \in 1..Len(list) + 1 : new[i] = IF i < at THEN list[i]
                                            ELSE IF i = at THEN tab ELSE list[i - 1]
  <2> SUFFICES ASSUME NEW i \in 1..Len(list) + 1
               PROVE  new[i] = IF i < at THEN list[i] ELSE IF i = at THEN tab ELSE list[i - 1]
    OBVIOUS
  <2>1. CASE i < at
    <3>1. i \in 1..at - 1
      BY <1>0, <2>1
    <3> QED
      BY <1>0, <1>1, <1>4, <2>1, <3>1
  <2>2. CASE i = at
    BY <1>0, <1>4, <2>2
  <2>3. CASE i > at
    <3>1. i - at \in 1..Len(list) - at + 1 /\ at + (i - at) - 1 = i - 1
      BY <1>0, <2>3
    <3>2. new[i] = back[i - at] /\ ~(i < at) /\ i # at
      BY <1>0, <1>4, <2>3
    <3>3. back[i - at] = list[at + (i - at) - 1]
      BY <1>2, <3>1, Zenon
    <3>4. back[i - at] = list[i - 1]
      BY <3>1, <3>3, Zenon
    <3> QED
      BY <3>2, <3>4, Zenon
  <2> QED
    BY <1>0, <2>1, <2>2, <2>3
<1>6. \A i \in DOMAIN list : list[i].id # tab.id
  BY Zenon DEF TabIDs
<1>7. /\ at \in DOMAIN new /\ new[at] = tab
      /\ \A k \in DOMAIN new : k # at => \E i \in DOMAIN list : new[k] = list[i]
  <2>1. at \in DOMAIN new /\ new[at] = tab
    BY <1>0, <1>4, <1>5
  <2>2. ASSUME NEW k \in DOMAIN new, k # at PROVE \E i \in DOMAIN list : new[k] = list[i]
    <3>1. CASE k < at
      BY <1>0, <1>4, <1>5, <2>2, <3>1
    <3>2. CASE k > at
      <4>1. k - 1 \in DOMAIN list /\ new[k] = list[k - 1]
        BY <1>0, <1>4, <1>5, <2>2, <3>2
      <4> QED
        BY <4>1
    <3> QED
      BY <1>0, <1>4, <2>2, <3>1, <3>2
  <2> QED
    BY <2>1, <2>2
<1>8. Distinct(new)
  <2> SUFFICES ASSUME NEW i \in DOMAIN new, NEW j \in DOMAIN new, new[i].id = new[j].id
               PROVE  i = j
    BY Zenon DEF Distinct
  <2>1. CASE i # at /\ j # at
    <3> DEFINE k == IF i < at THEN i ELSE i - 1
               l == IF j < at THEN j ELSE j - 1
    <3>1. k \in DOMAIN list /\ new[i] = list[k]
      BY <1>0, <1>4, <1>5, <2>1
    <3>2. l \in DOMAIN list /\ new[j] = list[l]
      BY <1>0, <1>4, <1>5, <2>1
    <3>3. k = l
      BY <3>1, <3>2 DEF Distinct
    <3> QED
      BY <1>0, <1>4, <2>1, <3>3
  <2>2. CASE i = at \/ j = at
    <3>1. \A k \in DOMAIN new : k # at => new[k].id # tab.id
      BY <1>6, <1>7
    <3> QED
      BY <1>7, <2>2, <3>1
  <2> QED
    BY <2>1, <2>2
<1>9. TabIDs(new) \subseteq TabIDs(list) \cup {tab.id}
  BY <1>7, Zenon DEF TabIDs
<1>10. TabIDs(list) \cup {tab.id} \subseteq TabIDs(new)
  <2>1. \A i \in DOMAIN list : \E k \in DOMAIN new : new[k] = list[i]
    <3> SUFFICES ASSUME NEW i \in DOMAIN list PROVE \E k \in DOMAIN new : new[k] = list[i]
      OBVIOUS
    <3>1. CASE i < at
      BY <1>0, <1>4, <1>5, <3>1
    <3>2. CASE ~(i < at)
      <4>1. i + 1 \in DOMAIN new /\ new[i + 1] = list[i]
        BY <1>0, <1>4, <1>5, <3>2
      <4> QED
        BY <4>1
    <3> QED
      BY <3>1, <3>2
  <2>2. TabIDs(list) \subseteq TabIDs(new)
    BY <2>1, Zenon DEF TabIDs
  <2>3. tab.id \in TabIDs(new)
    BY <1>7, Zenon DEF TabIDs
  <2> QED
    BY <2>2, <2>3
<1> QED
  BY <1>4, <1>7, <1>8, <1>9, <1>10 DEF new

\* A tab is put before another one, or at the end.
Moved(list, tab, before) ==
  IF before \in TabIDs(list) THEN InsertAt(list, Find(list, before), tab) ELSE Append(list, tab)

\* A tab that was moved is in the list once, with the others.
LEMMA MovedFacts ==
  ASSUME NEW list \in Seq(Tab), Distinct(list), NEW tab \in Tab, tab.id \notin TabIDs(list),
         NEW before
  PROVE  /\ Moved(list, tab, before) \in Seq(Tab) /\ Distinct(Moved(list, tab, before))
         /\ \A k \in DOMAIN Moved(list, tab, before) :
              \/ Moved(list, tab, before)[k] = tab
              \/ \E i \in DOMAIN list : Moved(list, tab, before)[k] = list[i]
         /\ TabIDs(Moved(list, tab, before)) = TabIDs(list) \cup {tab.id}
<1>1. CASE before \in TabIDs(list)
  <2>1. Find(list, before) \in DOMAIN list
    BY <1>1, FindFacts
  <2>2. Moved(list, tab, before) = InsertAt(list, Find(list, before), tab)
    BY <1>1 DEF Moved
  <2> DEFINE seq == InsertAt(list, Find(list, before), tab)
  <2>3. /\ seq \in Seq(Tab) /\ Distinct(seq)
        /\ \A k \in DOMAIN seq : seq[k] = tab \/ \E i \in DOMAIN list : seq[k] = list[i]
        /\ TabIDs(seq) = TabIDs(list) \cup {tab.id}
    BY <2>1, InsertFacts, Zenon
  <2> HIDE DEF seq
  <2> QED
    BY <2>2, <2>3 DEF seq
<1>2. CASE before \notin TabIDs(list)
  <2>1. Moved(list, tab, before) = Append(list, tab)
    BY <1>2 DEF Moved
  <2> DEFINE seq == Append(list, tab)
  <2>3. /\ seq \in Seq(Tab) /\ Distinct(seq)
        /\ \A k \in DOMAIN seq : seq[k] = tab \/ \E i \in DOMAIN list : seq[k] = list[i]
        /\ TabIDs(seq) = TabIDs(list) \cup {tab.id}
    BY <2>1, AppendFacts, Zenon
  <2> HIDE DEF seq
  <2> QED
    BY <2>1, <2>3 DEF seq
<1> QED
  BY <1>1, <1>2

\* What persistOpenTabs collects is a list of tabs to be saved.
LEMMA SaveableType == ASSUME NEW list \in Seq(Tab) PROVE Saveable(list) \in Seq(SavedTab)
<1> DEFINE at == SaveableAt(list)
           kept == Picked(list, at)
<1>0. /\ at \in SUBSET DOMAIN list
      /\ \A i \in at : list[i] \in Tab /\ list[i].kind # "settings" /\ list[i].url # Blank
  BY DEF SaveableAt
<1> HIDE DEF at
<1>1. /\ kept \in Seq({list[i] : i \in at})
      /\ \A k \in DOMAIN kept : Nth(at, k) \in at /\ kept[k] = list[Nth(at, k)]
  BY <1>0, PickedFacts DEF PicksEach
<1>2. Saveable(list) = [k \in DOMAIN kept |-> [kind |-> kept[k].kind, url |-> kept[k].url]]
  BY DEF Saveable, at
<1> HIDE DEF kept
<1>3. \A k \in DOMAIN kept : [kind |-> kept[k].kind, url |-> kept[k].url] \in SavedTab
  <2>1. \A tab \in Tab : tab.kind # "settings" /\ tab.url # Blank =>
          [kind |-> tab.kind, url |-> tab.url] \in SavedTab
    BY DEF Tab, SavedTab, Kinds
  <2> QED
    BY <1>0, <1>1, <2>1
<1>4. Len(kept) \in Nat /\ DOMAIN kept = 1..Len(kept)
  BY <1>1
<1> QED
  BY <1>2, <1>3, <1>4

\* Only the tabs that are saved count.
LEMMA SaveableSame ==
  ASSUME NEW list \in Seq(Tab), NEW new \in Seq(Tab), SaveableAt(new) = SaveableAt(list),
         \A i \in SaveableAt(list) : new[i] = list[i]
  PROVE  Saveable(new) = Saveable(list)
<1> DEFINE at == SaveableAt(list)
<1>1. at \in SUBSET DOMAIN list
  BY DEF SaveableAt
<1>2. /\ Len(list) \in Nat /\ \A i \in at : i \in 1..Len(list)
  BY <1>1
<1>3. \A k \in 1..Cardinality(at) : Nth(at, k) \in at
  BY <1>2, NthIsThere
<1>4. Picked(new, at) = Picked(list, at)
  BY <1>3 DEF Picked
<1> QED
  BY <1>4 DEF Saveable

\* The Settings tab is not saved.
LEMMA SettingsNotSaved ==
  ASSUME NEW list \in Seq(Tab), Distinct(list),
         \A i \in DOMAIN list : list[i].id = Settings => list[i].kind = "settings",
         SettingsTab \in Tab
  PROVE  Saveable(Upserted(list, SettingsTab)) = Saveable(list)
<1> DEFINE new == Upserted(list, SettingsTab)
<1>0. /\ SettingsTab.id = Settings /\ SettingsTab.kind = "settings"
  BY DEF SettingsTab
<1>1. new \in Seq(Tab)
  BY UpsertedFacts
<1>2. SaveableAt(new) = SaveableAt(list) /\ \A i \in SaveableAt(list) : new[i] = list[i]
  <2>1. CASE Settings \in TabIDs(list)
    <3> DEFINE at == Find(list, Settings)
    <3>1. at \in DOMAIN list /\ list[at].id = Settings
      BY <2>1, FindFacts
    <3>2. new = [list EXCEPT ![at] = SettingsTab]
      BY <1>0, <2>1 DEF Upserted
    <3> HIDE DEF at, new
    <3>3. /\ DOMAIN new = DOMAIN list
          /\ \A i \in DOMAIN list : new[i] = IF i = at THEN SettingsTab ELSE list[i]
      BY <3>1, <3>2
    <3>4. at \notin SaveableAt(list) /\ at \notin SaveableAt(new)
      BY <1>0, <3>1, <3>3 DEF SaveableAt
    <3>5. \A i \in DOMAIN list : i \in SaveableAt(new) <=> i \in SaveableAt(list)
      BY <3>3, <3>4 DEF SaveableAt
    <3>6. SaveableAt(new) \subseteq DOMAIN list /\ SaveableAt(list) \subseteq DOMAIN list
      BY <3>3 DEF SaveableAt
    <3> QED
      BY <3>3, <3>4, <3>5, <3>6
  <2>2. CASE Settings \notin TabIDs(list)
    <3>1. new = Append(list, SettingsTab)
      BY <1>0, <2>2 DEF Upserted
    <3> HIDE DEF new
    <3>2. /\ Len(list) \in Nat /\ DOMAIN list = 1..Len(list) /\ DOMAIN new = 1..Len(list) + 1
          /\ \A i \in DOMAIN list : new[i] = list[i]
          /\ new[Len(list) + 1] = SettingsTab
      BY <3>1
    <3>3. DOMAIN new = DOMAIN list \cup {Len(list) + 1}
      BY <3>2
    <3>4. Len(list) + 1 \notin SaveableAt(new)
      BY <1>0, <3>2 DEF SaveableAt
    <3>5. \A i \in DOMAIN list : i \in SaveableAt(new) <=> i \in SaveableAt(list)
      BY <3>2, <3>3 DEF SaveableAt
    <3>6. SaveableAt(new) \subseteq DOMAIN list /\ SaveableAt(list) \subseteq DOMAIN list
      BY <3>3, <3>4 DEF SaveableAt
    <3> QED
      BY <3>2, <3>5, <3>6
  <2> QED
    BY <2>1, <2>2
<1> QED
  BY <1>1, <1>2, SaveableSame

\* sanitizeSavedTabs and dedupeRecentTabs return lists of tabs to be saved.
LEMMA SessionTypes ==
  ASSUME NEW session \in Seq(SavedTab)
  PROVE  /\ Sanitized(session) \in Seq(SavedTab)
         /\ DedupedTabs(session) \in Seq(SavedTab)
<1>1. Sanitized(session) \in Seq(SavedTab)
  <2> DEFINE n == IF Len(session) > SessionLimit THEN SessionLimit ELSE Len(session)
  <2>1. n \in Int /\ 1 \in Int /\ n <= Len(session)
    BY TabsAssumption
  <2>2. Sanitized(session) = SubSeq(session, 1, n)
    BY DEF Sanitized
  <2> HIDE DEF n
  <2>3. \A i \in 1..n : session[i] \in SavedTab
    BY <2>1
  <2> QED
    BY <2>1, <2>2, <2>3, SubSeqProperties
<1>2. DedupedTabs(session) \in Seq(SavedTab)
  <2> DEFINE at == {i \in DOMAIN session : \A j \in 1..i - 1 : session[j] # session[i]}
  <2>1. at \in SUBSET DOMAIN session /\ {session[i] : i \in at} \subseteq SavedTab
    OBVIOUS
  <2>2. DedupedTabs(session) = Picked(session, at)
    BY DEF DedupedTabs
  <2> HIDE DEF at
  <2>3. Picked(session, at) \in Seq({session[i] : i \in at})
    BY <2>1, PickedFacts
  <2> QED
    BY <2>1, <2>2, <2>3, SeqMonotonic
<1> QED
  BY <1>1, <1>2

-----------------------------------------------------------------------------
\* The todo lists.

\* The functions of the GTK thread and what tells them apart.
LEMMA WorkFacts ==
  /\ HideAll \in Work /\ HideAll # Resolve /\ Resolve \in Work
  /\ \A id \in IDs : Destroy(id) \in Work /\ Destroy(id) # Resolve
  /\ \A id \in IDs : Show(id) \in Work /\ Show(id) # Resolve
  /\ \A u \in Urls : Popup(u) \in Work /\ Popup(u) # Resolve
  /\ \A id \in IDs, u \in Urls : /\ Open(id, u) \in Work /\ Open(id, u) # Resolve
                                 /\ Select(id, u) \in Work /\ Select(id, u) # Resolve
  /\ \A f \in Work : f.fn \in {"open", "select"} => f.id \in IDs /\ f.url \in Urls
  /\ \A f \in Work : f.fn \in {"destroy", "show"} => f.id \in IDs
  /\ \A f \in Work : f.fn = "popup" => f.url \in Urls
  /\ \A f \in Work : f.fn = "resolve" <=> f = Resolve
  /\ HideAll.fn # "show" /\ Resolve.fn # "show" /\ \A id : Show(id).fn = "show" /\ Show(id).id = id
  /\ \A id : Destroy(id).fn # "show"
  /\ \A u : Popup(u).fn # "show"
  /\ \A id, u : Open(id, u).fn # "show" /\ Select(id, u).fn # "show"
BY DEF Work, HideAll, Resolve, Destroy, Popup, Open, Select, Show

\* The steps of a goroutine and what tells them apart.
LEMMA StepFacts ==
  /\ Persist \in Steps /\ Persist.do = "persist"
  /\ GoHome \in Steps /\ GoHome.do = "goHome"
  /\ \A id \in IDs : SwitchTo(id) \in Steps /\ SwitchTo(id).do = "switch"
  /\ \A tab \in Tab : /\ Upsert(tab) \in Steps /\ Upsert(tab).do = "upsert"
                      /\ Upsert(tab).tab = tab
  /\ \A f \in Work : Dispatch(f) \in Steps /\ Dispatch(f).do = "dispatch" /\ Dispatch(f).work = f
  /\ \A l \in Seq(SavedTab) : SaveTabs(l) \in Steps /\ SaveTabs(l).do = "saveTabs"
  /\ \A l \in Seq(SavedTab), own \in BOOLEAN :
       /\ SaveList(l, own) \in Steps /\ SaveList(l, own).do = "save"
       /\ SaveList(l, own).session = l /\ SaveList(l, own).own = own
BY DEF Steps, Persist, GoHome, SwitchTo, Upsert, Dispatch, SaveTabs, SaveList

\* A step of each kind has its fields.
LEMMA StepShape ==
  ASSUME NEW s \in Steps
  PROVE  /\ s.do = "persist" => s = Persist
         /\ s.do = "switch" => s.id \in IDs
         /\ s.do = "upsert" => s.tab \in Tab
         /\ s.do = "dispatch" => s.work \in Work /\ s = Dispatch(s.work)
         /\ s.do = "saveTabs" => s.session \in Seq(SavedTab)
         /\ s.do = "save" => s.session \in Seq(SavedTab) /\ s.own \in BOOLEAN
BY DEF Steps, Persist, Dispatch

\* The answer to the shell is one dispatch, and no other.
LEMMA ResolutionFacts ==
  /\ Resolution \in Steps /\ Resolution.do = "dispatch"
  /\ \A f \in Work : Dispatch(f) = Resolution <=> f = Resolve
BY WorkFacts, StepFacts DEF Resolution

\* A tab that a step is going to show has been given out.
Known(s, next) == s.do = "dispatch" /\ s.work.fn = "show" => s.work.id < next

\* A step that neither registers a tab, nor answers the shell's queue, nor saves.
Plain(s, next) ==
  s \in Steps /\ s.do \notin {"upsert", "save"} /\ s # Resolution /\ Known(s, next)

\* What messages leave to do is plain.
LEMMA PlainSteps ==
  ASSUME NEW next
  PROVE  /\ Plain(Persist, next) /\ Plain(GoHome, next)
         /\ \A id \in IDs : Plain(SwitchTo(id), next)
         /\ Plain(Dispatch(HideAll), next)
         /\ \A id \in IDs : Plain(Dispatch(Destroy(id)), next)
         /\ \A id \in IDs : id < next => Plain(Dispatch(Show(id)), next)
         /\ \A id \in IDs, u \in Urls : /\ Plain(Dispatch(Open(id, u)), next)
                                        /\ Plain(Dispatch(Select(id, u)), next)
         /\ \A l \in Seq(SavedTab) : Plain(SaveTabs(l), next)
BY WorkFacts, StepFacts, ResolutionFacts DEF Plain, Known

\* Plain steps one after the other.
LEMMA PlainConcat ==
  ASSUME NEW next, NEW a \in Seq(Steps), NEW b \in Seq(Steps),
         \A i \in DOMAIN a : Plain(a[i], next), \A i \in DOMAIN b : Plain(b[i], next)
  PROVE  /\ a \o b \in Seq(Steps) /\ \A i \in DOMAIN (a \o b) : Plain((a \o b)[i], next)
         /\ \A i \in DOMAIN a : i \in DOMAIN (a \o b) /\ (a \o b)[i] = a[i]
<1> DEFINE c == a \o b
<1>1. /\ c \in Seq(Steps) /\ Len(a) \in Nat /\ Len(b) \in Nat
      /\ DOMAIN a = 1..Len(a) /\ DOMAIN b = 1..Len(b) /\ DOMAIN c = 1..Len(a) + Len(b)
      /\ \A i \in 1..Len(a) : c[i] = a[i]
      /\ \A i \in Len(a) + 1..Len(a) + Len(b) : c[i] = b[i - Len(a)]
  OBVIOUS
<1> HIDE DEF c
<1>2. ASSUME NEW i \in DOMAIN c PROVE Plain(c[i], next)
  <2>1. CASE i <= Len(a)
    BY <1>1, <2>1
  <2>2. CASE i > Len(a)
    <3>1. i - Len(a) \in DOMAIN b /\ c[i] = b[i - Len(a)]
      BY <1>1, <2>2
    <3> QED
      BY <3>1
  <2> QED
    BY <1>1, <2>1, <2>2
<1>3. \A i \in DOMAIN a : i \in DOMAIN c /\ c[i] = a[i]
  BY <1>1
<1> QED
  BY <1>1, <1>2, <1>3 DEF c

\* The tabs that the shell may have on its way to be registered.
May == ShownOrClosing \cup {Settings}

\* What RegisterInv says of one todo list.
Registers(list, next, may) ==
  \A i \in DOMAIN list :
    /\ list[i].do = "upsert" =>
         /\ Regular(list[i].tab, next) /\ list[i].tab.id \in may
         /\ \E j \in DOMAIN list : j > i /\ list[j] = Persist
         /\ \E j \in DOMAIN list : j > i /\ list[j] = Resolution
    /\ Known(list[i], next)

\* RegisterInv, list by list.
LEMMA RegisterInvIs == RegisterInv <=> \A t \in Everyone : Registers(todo[t], nextID, May)
BY Zenon DEF RegisterInv, Registers, Regular, Known, May

\* RegisterInv of the next state, list by list.
LEMMA RegisterInvNext == RegisterInv' <=> \A t \in Everyone : Registers(todo'[t], nextID', May')
BY Zenon DEF RegisterInv, Registers, Regular, Known, May

\* A goroutine has done its first step and has more to do in its place.
LEMMA TodoShape ==
  ASSUME NEW list \in Seq(Steps), list # <<>>, NEW more \in Seq(Steps)
  PROVE  /\ more \o Tail(list) \in Seq(Steps)
         /\ Len(list) \in Nat \ {0} /\ DOMAIN list = 1..Len(list) /\ Head(list) = list[1]
         /\ Len(more) \in Nat /\ DOMAIN more = 1..Len(more)
         /\ DOMAIN (more \o Tail(list)) = 1..Len(more) + Len(list) - 1
         /\ \A i \in 1..Len(more) : (more \o Tail(list))[i] = more[i]
         /\ \A i \in Len(more) + 1..Len(more) + Len(list) - 1 :
              (more \o Tail(list))[i] = list[i - Len(more) + 1]
         /\ \A i \in 2..Len(list) : (more \o Tail(list))[i + Len(more) - 1] = list[i]
<1> DEFINE rest == Tail(list)
           new == more \o rest
<1>1. /\ Len(list) \in Nat \ {0} /\ DOMAIN list = 1..Len(list) /\ Head(list) = list[1]
      /\ rest \in Seq(Steps) /\ Len(rest) = Len(list) - 1
      /\ \A i \in 1..Len(list) - 1 : rest[i] = list[i + 1]
      /\ Len(more) \in Nat /\ DOMAIN more = 1..Len(more)
  OBVIOUS
<1> HIDE DEF rest
<1>2. /\ new \in Seq(Steps) /\ DOMAIN new = 1..Len(more) + Len(list) - 1
      /\ \A i \in 1..Len(more) : new[i] = more[i]
      /\ \A i \in Len(more) + 1..Len(more) + Len(list) - 1 : new[i] = rest[i - Len(more)]
  BY <1>1
<1> HIDE DEF new
<1>3. ASSUME NEW i \in Len(more) + 1..Len(more) + Len(list) - 1
      PROVE  new[i] = list[i - Len(more) + 1]
  <2>1. i - Len(more) \in 1..Len(list) - 1
    BY <1>1
  <2> QED
    BY <1>1, <1>2, <2>1
<1>4. ASSUME NEW i \in 2..Len(list) PROVE new[i + Len(more) - 1] = list[i]
  <2>1. /\ i + Len(more) - 1 \in Len(more) + 1..Len(more) + Len(list) - 1
        /\ (i + Len(more) - 1) - Len(more) + 1 = i
    BY <1>1
  <2>2. new[i + Len(more) - 1] = list[(i + Len(more) - 1) - Len(more) + 1]
    BY <1>3, <2>1, Zenon
  <2> QED
    BY <2>1, <2>2, Zenon
<1> QED
  BY <1>1, <1>2, <1>3, <1>4 DEF new, rest

\* What more does not have is in the same order as before.
LEMMA Carried ==
  ASSUME NEW list \in Seq(Steps), list # <<>>, NEW more \in Seq(Steps)
  PROVE  /\ \A i \in DOMAIN (more \o Tail(list)) :
              \/ i \in DOMAIN more /\ (more \o Tail(list))[i] = more[i]
              \/ \E k \in DOMAIN list : /\ k > 1 /\ i = k + Len(more) - 1
                                        /\ (more \o Tail(list))[i] = list[k]
         /\ \A k \in DOMAIN list : k > 1 =>
              \E i \in DOMAIN (more \o Tail(list)) :
                i = k + Len(more) - 1 /\ (more \o Tail(list))[i] = list[k]
<1> DEFINE new == more \o Tail(list)
<1>1. /\ Len(list) \in Nat \ {0} /\ DOMAIN list = 1..Len(list)
      /\ Len(more) \in Nat /\ DOMAIN more = 1..Len(more)
      /\ DOMAIN new = 1..Len(more) + Len(list) - 1
      /\ \A i \in 1..Len(more) : new[i] = more[i]
      /\ \A i \in Len(more) + 1..Len(more) + Len(list) - 1 : new[i] = list[i - Len(more) + 1]
      /\ \A i \in 2..Len(list) : new[i + Len(more) - 1] = list[i]
  BY TodoShape
<1> HIDE DEF new
<1>2. ASSUME NEW i \in DOMAIN new
      PROVE  \/ i \in DOMAIN more /\ new[i] = more[i]
             \/ \E k \in DOMAIN list : k > 1 /\ i = k + Len(more) - 1 /\ new[i] = list[k]
  <2>1. CASE i <= Len(more)
    BY <1>1, <2>1
  <2>2. CASE i > Len(more)
    <3>1. /\ i - Len(more) + 1 \in DOMAIN list /\ i - Len(more) + 1 > 1
          /\ i = (i - Len(more) + 1) + Len(more) - 1
      BY <1>1, <2>2
    <3>2. new[i] = list[i - Len(more) + 1]
      BY <1>1, <2>2
    <3> QED
      BY <3>1, <3>2
  <2> QED
    BY <1>1, <2>1, <2>2
<1>3. ASSUME NEW k \in DOMAIN list, k > 1
      PROVE  \E i \in DOMAIN new : i = k + Len(more) - 1 /\ new[i] = list[k]
  <2>1. k + Len(more) - 1 \in DOMAIN new
    BY <1>1, <1>3
  <2> QED
    BY <1>1, <1>3, <2>1
<1> QED
  BY <1>2, <1>3 DEF new

\* A list of plain steps registers nothing.
LEMMA RegistersPlain ==
  ASSUME NEW next, NEW may, NEW list \in Seq(Steps), \A i \in DOMAIN list : Plain(list[i], next)
  PROVE  Registers(list, next, may)
BY DEF Registers, Plain

\* An ID stays given out, and what may be registered may still be.
LEMMA RegistersGrow ==
  ASSUME NEW list \in Seq(Steps), NEW next \in Nat, NEW later \in Nat, next <= later,
         NEW may, NEW more, may \subseteq more, Registers(list, next, may)
  PROVE  Registers(list, later, more)
<1> SUFFICES ASSUME NEW i \in DOMAIN list
             PROVE  /\ list[i].do = "upsert" =>
                         /\ Regular(list[i].tab, later) /\ list[i].tab.id \in more
                         /\ \E j \in DOMAIN list : j > i /\ list[j] = Persist
                         /\ \E j \in DOMAIN list : j > i /\ list[j] = Resolution
                    /\ Known(list[i], later)
  BY Zenon DEF Registers
<1>0. list[i] \in Steps
  OBVIOUS
<1>1. ASSUME list[i].do = "upsert" PROVE Regular(list[i].tab, later) /\ list[i].tab.id \in more
  <2>1. list[i].tab \in Tab /\ Regular(list[i].tab, next) /\ list[i].tab.id \in may
    BY <1>0, <1>1, StepShape DEF Registers
  <2>2. list[i].tab.id \in Nat
    BY <2>1, TabsAssumption DEF Tab, IDs
  <2> QED
    BY <2>1, <2>2 DEF Regular
<1>2. Known(list[i], later)
  <2> SUFFICES ASSUME list[i].do = "dispatch", list[i].work.fn = "show"
               PROVE  list[i].work.id < later
    BY DEF Known
  <2>1. list[i].work \in Work /\ list[i].work.id < next
    BY <1>0, StepShape DEF Registers, Known
  <2>2. list[i].work.id \in Nat
    BY <2>1, WorkFacts, TabsAssumption DEF IDs
  <2> QED
    BY <2>1, <2>2
<1> QED
  BY <1>1, <1>2 DEF Registers

\* A goroutine that has done a step still persists and answers what it registers.
LEMMA RegistersDone ==
  ASSUME NEW list \in Seq(Steps), list # <<>>, NEW more \in Seq(Steps), NEW next, NEW may,
         \A i \in DOMAIN more : more[i].do # "upsert" /\ Known(more[i], next),
         Registers(list, next, may)
  PROVE  Registers(more \o Tail(list), next, may)
<1> DEFINE new == more \o Tail(list)
<1>0. /\ Len(list) \in Nat /\ DOMAIN list = 1..Len(list) /\ Len(more) \in Nat
  OBVIOUS
<1>1. /\ \A i \in DOMAIN new :
           \/ i \in DOMAIN more /\ new[i] = more[i]
           \/ \E k \in DOMAIN list : k > 1 /\ i = k + Len(more) - 1 /\ new[i] = list[k]
      /\ \A k \in DOMAIN list : k > 1 =>
           \E i \in DOMAIN new : i = k + Len(more) - 1 /\ new[i] = list[k]
  BY Carried
<1> HIDE DEF new
<1>2. ASSUME NEW i \in DOMAIN new, new[i].do = "upsert"
      PROVE  /\ Regular(new[i].tab, next) /\ new[i].tab.id \in may
             /\ \E j \in DOMAIN new : j > i /\ new[j] = Persist
             /\ \E j \in DOMAIN new : j > i /\ new[j] = Resolution
  <2>1. PICK k \in DOMAIN list : k > 1 /\ i = k + Len(more) - 1 /\ new[i] = list[k]
    BY <1>1, <1>2
  <2>2. /\ Regular(new[i].tab, next) /\ new[i].tab.id \in may
        /\ \E j \in DOMAIN list : j > k /\ list[j] = Persist
        /\ \E j \in DOMAIN list : j > k /\ list[j] = Resolution
    BY <1>2, <2>1, Zenon DEF Registers
  <2>3. ASSUME NEW j \in DOMAIN list, j > k
        PROVE  \E l \in DOMAIN new : l > i /\ new[l] = list[j]
    <3>1. j > 1
      BY <1>0, <2>1, <2>3
    <3>2. PICK l \in DOMAIN new : l = j + Len(more) - 1 /\ new[l] = list[j]
      BY <1>1, <3>1
    <3>3. l > i
      BY <1>0, <2>1, <2>3, <3>2
    <3> QED
      BY <3>2, <3>3
  <2> QED
    BY <2>2, <2>3
<1>3. ASSUME NEW i \in DOMAIN new PROVE Known(new[i], next)
  BY <1>1 DEF Registers
<1> QED
  BY <1>2, <1>3, Zenon DEF Registers, new

\* What one list has of something the other had, all of it moved by the same distance.
Shifted(new, old, what, d) ==
  \A i \in DOMAIN new : new[i] = what => i + d \in DOMAIN old /\ old[i + d] = what

\* The shell's queue goes on as long as no answer appears from nowhere.
LEMMA MutationKept ==
  ASSUME MutationInv, mutating' = mutating,
         todo \in [Everyone -> Seq(Steps)], todo' \in [Everyone -> Seq(Steps)],
         queue \in Seq(Work), queue' \in Seq(Work),
         NEW t \in Everyone, \A u \in Everyone : u # t => todo'[u] = todo[u],
         NEW d \in Int, NEW e \in Int,
         Shifted(todo'[t], todo[t], Resolution, d), Shifted(queue', queue, Resolve, e)
  PROVE  MutationInv'
<1>0. /\ \A u \in Everyone : \A i \in DOMAIN todo'[u] : i \in Nat
      /\ \A i \in DOMAIN queue' : i \in Nat
  <2>1. \A u \in Everyone : todo'[u] \in Seq(Steps)
    OBVIOUS
  <2> QED
    BY <2>1
<1>1. ASSUME NEW u \in Everyone, NEW i \in DOMAIN todo'[u], todo'[u][i] = Resolution
      PROVE  \E k \in DOMAIN todo[u] : /\ todo[u][k] = Resolution
                                       /\ k = IF u = t THEN i + d ELSE i
  BY <1>1 DEF Shifted
<1>2. ASSUME NEW u \in Everyone, NEW v \in Everyone,
             NEW i \in DOMAIN todo'[u], NEW j \in DOMAIN todo'[v],
             todo'[u][i] = Resolution, todo'[v][j] = Resolution
      PROVE  u = v /\ i = j
  <2>1. PICK k \in DOMAIN todo[u] : todo[u][k] = Resolution /\ k = IF u = t THEN i + d ELSE i
    BY <1>1, <1>2
  <2>2. PICK l \in DOMAIN todo[v] : todo[v][l] = Resolution /\ l = IF v = t THEN j + d ELSE j
    BY <1>1, <1>2
  <2>3. u = v /\ k = l
    BY <2>1, <2>2 DEF MutationInv
  <2> QED
    BY <1>0, <1>2, <2>1, <2>2, <2>3
<1>3. ASSUME NEW i \in DOMAIN queue', NEW j \in DOMAIN queue',
             queue'[i] = Resolve, queue'[j] = Resolve
      PROVE  i = j
  <2>1. i + e = j + e
    BY <1>3 DEF MutationInv, Shifted
  <2> QED
    BY <1>0, <2>1
<1>4. ASSUME NEW u \in Everyone, NEW i \in DOMAIN todo'[u], todo'[u][i] = Resolution
      PROVE  mutating' /\ \A j \in DOMAIN queue' : queue'[j] # Resolve
  <2>1. PICK k \in DOMAIN todo[u] : todo[u][k] = Resolution
    BY <1>1, <1>4
  <2>2. mutating /\ \A j \in DOMAIN queue : queue[j] # Resolve
    BY <2>1 DEF MutationInv
  <2> QED
    BY <2>2 DEF Shifted
<1>5. ASSUME NEW j \in DOMAIN queue', queue'[j] = Resolve PROVE mutating'
  BY <1>5 DEF MutationInv, Shifted
<1> QED
  BY <1>2, <1>3, <1>4, <1>5 DEF MutationInv

\* Nobody registers a tab while the shell's queue is free.
LEMMA FreeMeansNothingRegisters ==
  ASSUME RegisterInv, MutationInv, ~mutating
  PROVE  /\ \A t \in Everyone : \A i \in DOMAIN todo[t] :
              todo[t][i] # Resolution /\ todo[t][i].do # "upsert"
         /\ \A j \in DOMAIN queue : queue[j] # Resolve
BY DEF RegisterInv, MutationInv

\* The type of the todo lists once one of them has changed.
LEMMA TodoType ==
  ASSUME todo \in [Everyone -> Seq(Steps)], NEW t \in Everyone, NEW rest \in Seq(Steps),
         todo' = [todo EXCEPT ![t] = rest]
  PROVE  /\ todo' \in [Everyone -> Seq(Steps)] /\ todo'[t] = rest
         /\ \A u \in Everyone : u # t => todo'[u] = todo[u]
OBVIOUS

\* A goroutine takes up plain work.
LEMMA PlainWork ==
  ASSUME TypeOK, RegisterInv, MutationInv, NEW t \in Everyone, todo[t] = <<>>,
         NEW rest \in Seq(Steps), \A i \in DOMAIN rest : Plain(rest[i], nextID'),
         todo' = [todo EXCEPT ![t] = rest], mutating' = mutating, May \subseteq May',
         nextID' \in Nat, nextID <= nextID', queue' \in Seq(Work),
         NEW e \in Int,
         \A i \in DOMAIN queue' : queue'[i] = Resolve =>
           i + e \in DOMAIN queue /\ queue[i + e] = Resolve
  PROVE  todo' \in [Everyone -> Seq(Steps)] /\ RegisterInv' /\ MutationInv'
<1>0. todo \in [Everyone -> Seq(Steps)] /\ queue \in Seq(Work) /\ nextID \in Nat
  BY TabsAssumption DEF TypeOK, Everyone
<1>1. /\ todo' \in [Everyone -> Seq(Steps)] /\ todo'[t] = rest
      /\ \A u \in Everyone : u # t => todo'[u] = todo[u]
  BY <1>0, TodoType
<1>2. RegisterInv'
  <2> SUFFICES ASSUME NEW u \in Everyone PROVE Registers(todo'[u], nextID', May')
    BY RegisterInvNext
  <2>1. CASE u = t
    BY <1>1, <2>1, RegistersPlain
  <2>2. CASE u # t
    <3>1. Registers(todo[u], nextID, May) /\ todo[u] \in Seq(Steps)
      BY <1>0, RegisterInvIs
    <3>2. Registers(todo[u], nextID', May')
      BY <1>0, <3>1, RegistersGrow
    <3> QED
      BY <1>1, <2>2, <3>2
  <2> QED
    BY <2>1, <2>2
<1>3. MutationInv'
  <2> DEFINE d == 0
  <2>1. d \in Int /\ mutating' = mutating /\ Shifted(todo'[t], todo[t], Resolution, d)
    BY <1>1 DEF Plain, Shifted
  <2>2. Shifted(queue', queue, Resolve, e)
    BY DEF Shifted
  <2> HIDE DEF d
  <2> QED
    BY <1>0, <1>1, <2>1, <2>2, MutationKept
<1> QED
  BY <1>1, <1>2, <1>3

\* A goroutine does a step that queues no answer.
LEMMA PlainDone ==
  ASSUME TypeOK, RegisterInv, MutationInv, NEW t \in Everyone, todo[t] # <<>>,
         NEW more \in Seq(Steps),
         \A i \in DOMAIN more : more[i].do # "upsert" /\ more[i] # Resolution /\ Known(more[i], nextID),
         todo' = [todo EXCEPT ![t] = more \o Tail(@)], UNCHANGED <<mutating, nextID>>, May' = May,
         queue' \in Seq(Work),
         \A i \in DOMAIN queue' : queue'[i] = Resolve => i \in DOMAIN queue /\ queue[i] = Resolve
  PROVE  todo' \in [Everyone -> Seq(Steps)] /\ RegisterInv' /\ MutationInv'
<1> DEFINE list == todo[t]
           new == more \o Tail(list)
<1>0. todo \in [Everyone -> Seq(Steps)] /\ queue \in Seq(Work) /\ list \in Seq(Steps) /\ list # <<>>
  BY DEF TypeOK, Everyone
<1>1. /\ \A i \in DOMAIN new :
           \/ i \in DOMAIN more /\ new[i] = more[i]
           \/ \E k \in DOMAIN list : k > 1 /\ i = k + Len(more) - 1 /\ new[i] = list[k]
      /\ new \in Seq(Steps) /\ Len(more) \in Nat /\ \A k \in DOMAIN list : k \in Nat
  <2> HIDE DEF list
  <2>1. /\ new \in Seq(Steps) /\ Len(more) \in Nat /\ \A k \in DOMAIN list : k \in Nat
    BY <1>0, TodoShape
  <2> QED
    BY <1>0, <2>1, Carried
<1>2. /\ todo' \in [Everyone -> Seq(Steps)] /\ todo'[t] = new
      /\ \A u \in Everyone : u # t => todo'[u] = todo[u]
  <2>1. todo' = [todo EXCEPT ![t] = new]
    OBVIOUS
  <2> HIDE DEF new
  <2> QED
    BY <1>0, <1>1, <2>1, TodoType
<1>3. Registers(new, nextID, May)
  <2>1. Registers(list, nextID, May)
    BY RegisterInvIs
  <2> QED
    BY <1>0, <2>1, RegistersDone
<1> HIDE DEF new, list
<1>4. RegisterInv'
  <2> SUFFICES ASSUME NEW u \in Everyone PROVE Registers(todo'[u], nextID', May')
    BY RegisterInvNext
  <2>1. Registers(todo[u], nextID, May)
    BY RegisterInvIs
  <2> QED
    BY <1>2, <1>3, <2>1
<1>5. MutationInv'
  <2> DEFINE d == 1 - Len(more)
             e == 0
  <2>1. ASSUME NEW i \in DOMAIN todo'[t], todo'[t][i] = Resolution
        PROVE  i + d \in DOMAIN list /\ list[i + d] = Resolution
    <3>1. PICK k \in DOMAIN list : k > 1 /\ i = k + Len(more) - 1 /\ new[i] = list[k]
      BY <1>1, <1>2, <2>1
    <3>2. i + d = k
      <4>1. k \in Int /\ Len(more) \in Int /\ i = k + Len(more) - 1
        BY <1>1, <3>1
      <4> QED
        BY <4>1
    <3> QED
      BY <1>2, <2>1, <3>1, <3>2
  <2>2. /\ d \in Int /\ e \in Int /\ mutating' = mutating
        /\ Shifted(queue', queue, Resolve, e)
    BY <1>0, <1>1 DEF Shifted
  <2>3. Shifted(todo'[t], todo[t], Resolution, d)
    BY <2>1 DEF list, Shifted
  <2> HIDE DEF d, e
  <2> QED
    BY <1>0, <1>2, <2>2, <2>3, MutationKept
<1> QED
  BY <1>2, <1>4, <1>5

\* A mutation of the shell's queue begins.  What it registers it persists.
LEMMA MutationBegins ==
  ASSUME TypeOK, RegisterInv, MutationInv, NEW t \in Threads, NEW op, NEW rest \in Seq(Steps),
         Sends(t, op, rest),
         \A i \in DOMAIN rest : rest[i] # Resolution /\ Known(rest[i], nextID),
         \A i \in DOMAIN rest : rest[i].do = "upsert" =>
           /\ Regular(rest[i].tab, nextID) /\ rest[i].tab.id \in May'
           /\ \E j \in DOMAIN rest : j > i /\ rest[j] = Persist,
         UNCHANGED <<queue, nextID>>
  PROVE  /\ todo' \in [Everyone -> Seq(Steps)] /\ RegisterInv' /\ MutationInv'
         /\ mutating' \in BOOLEAN
<1> DEFINE new == rest \o <<Resolution>>
<1>0. /\ todo \in [Everyone -> Seq(Steps)] /\ queue \in Seq(Work) /\ t \in Everyone
      /\ nextID' = nextID
  BY DEF TypeOK, Everyone
<1>1. /\ ~mutating /\ mutating' = TRUE /\ todo[t] = <<>> /\ todo' = [todo EXCEPT ![t] = new]
  BY DEF Sends, QueueFree, Resolution
<1>2. /\ new \in Seq(Steps) /\ Len(rest) \in Nat
      /\ DOMAIN rest = 1..Len(rest) /\ DOMAIN new = 1..Len(rest) + 1
      /\ \A i \in 1..Len(rest) : new[i] = rest[i]
      /\ new[Len(rest) + 1] = Resolution
  BY ResolutionFacts
<1> HIDE DEF new
<1>3. /\ todo' \in [Everyone -> Seq(Steps)] /\ todo'[t] = new
      /\ \A u \in Everyone : u # t => todo'[u] = todo[u]
  BY <1>0, <1>1, <1>2, TodoType
<1>4. /\ \A u \in Everyone : \A i \in DOMAIN todo[u] :
           todo[u][i] # Resolution /\ todo[u][i].do # "upsert"
      /\ \A j \in DOMAIN queue : queue[j] # Resolve
  BY <1>1, FreeMeansNothingRegisters
<1>5. RegisterInv'
  <2> SUFFICES ASSUME NEW u \in Everyone PROVE Registers(todo'[u], nextID, May')
    BY <1>0, RegisterInvNext
  <2>1. CASE u = t
    <3>1. ASSUME NEW i \in DOMAIN new, new[i].do = "upsert"
          PROVE  /\ Regular(new[i].tab, nextID) /\ new[i].tab.id \in May'
                 /\ \E j \in DOMAIN new : j > i /\ new[j] = Persist
                 /\ \E j \in DOMAIN new : j > i /\ new[j] = Resolution
      <4>1. i \in DOMAIN rest /\ new[i] = rest[i] /\ i < Len(rest) + 1
        BY <1>2, <3>1, ResolutionFacts
      <4>2. PICK j \in DOMAIN rest : j > i /\ rest[j] = Persist
        BY <3>1, <4>1
      <4>3. j \in DOMAIN new /\ new[j] = rest[j] /\ Len(rest) + 1 \in DOMAIN new
        BY <1>2
      <4> QED
        BY <1>2, <3>1, <4>1, <4>2, <4>3
    <3>2. ASSUME NEW i \in DOMAIN new PROVE Known(new[i], nextID)
      <4>1. Known(Resolution, nextID)
        BY StepFacts, WorkFacts DEF Known, Resolution
      <4>2. i \in DOMAIN rest \/ i = Len(rest) + 1
        BY <1>2
      <4> QED
        BY <1>2, <4>1, <4>2
    <3> QED
      BY <1>3, <2>1, <3>1, <3>2, Zenon DEF Registers
  <2>2. CASE u # t
    <3>1. Registers(todo[u], nextID, May)
      BY RegisterInvIs
    <3> QED
      BY <1>3, <1>4, <2>2, <3>1 DEF Registers
  <2> QED
    BY <2>1, <2>2
<1>6. MutationInv'
  <2>1. \A u \in Everyone : \A i \in DOMAIN todo'[u] :
          todo'[u][i] = Resolution => u = t /\ i = Len(rest) + 1
    <3> SUFFICES ASSUME NEW u \in Everyone, NEW i \in DOMAIN todo'[u], todo'[u][i] = Resolution
                 PROVE  u = t /\ i = Len(rest) + 1
      OBVIOUS
    <3>1. u = t
      BY <1>3, <1>4
    <3>2. i \notin 1..Len(rest)
      BY <1>2, <1>3, <3>1
    <3> QED
      BY <1>2, <1>3, <3>1, <3>2
  <2> QED
    BY <1>1, <1>4, <2>1 DEF MutationInv
<1> QED
  BY <1>1, <1>3, <1>5, <1>6

\* A message that does not go through the shell's queue leaves plain work.
LEMMA MessageBegins ==
  ASSUME TypeOK, RegisterInv, MutationInv, NEW t \in Threads, NEW rest \in Seq(Steps),
         Message(t, rest), \A i \in DOMAIN rest : Plain(rest[i], nextID'),
         UNCHANGED <<mutating, queue>>, May \subseteq May', nextID' \in Nat, nextID <= nextID'
  PROVE  /\ todo' \in [Everyone -> Seq(Steps)] /\ RegisterInv' /\ MutationInv'
         /\ messages' \in 0..MaxMessages
<1>0. /\ t \in Everyone /\ todo[t] = <<>> /\ todo' = [todo EXCEPT ![t] = rest]
      /\ messages' = messages + 1 /\ messages < MaxMessages
      /\ messages \in 0..MaxMessages /\ MaxMessages \in Nat
  BY TabsAssumption DEF Message, Everyone, TypeOK
<1> DEFINE e == 0
<1>1. /\ e \in Int /\ queue' \in Seq(Work) /\ UNCHANGED mutating
      /\ \A i \in DOMAIN queue' : queue'[i] = Resolve =>
           i + e \in DOMAIN queue /\ queue[i + e] = Resolve
  BY DEF TypeOK
<1> HIDE DEF e
<1>2. todo' \in [Everyone -> Seq(Steps)] /\ RegisterInv' /\ MutationInv'
  BY <1>0, <1>1, PlainWork
<1> QED
  BY <1>0, <1>2

\* A goroutine queues the answer to a mutation.
LEMMA AnswerQueued ==
  ASSUME TypeOK, RegisterInv, MutationInv, NEW t \in Everyone, todo[t] # <<>>,
         Head(todo[t]) = Resolution, todo' = [todo EXCEPT ![t] = <<>> \o Tail(@)],
         queue' = Append(queue, Resolve), UNCHANGED <<mutating, nextID>>, May' = May
  PROVE  todo' \in [Everyone -> Seq(Steps)] /\ RegisterInv' /\ MutationInv'
<1> DEFINE list == todo[t]
           new == <<>> \o Tail(list)
<1>0. /\ todo \in [Everyone -> Seq(Steps)] /\ queue \in Seq(Work)
      /\ list \in Seq(Steps) /\ list # <<>> /\ <<>> \in Seq(Steps) /\ Len(<<>>) = 0
      /\ \A i \in DOMAIN <<>> : <<>>[i].do # "upsert" /\ Known(<<>>[i], nextID)
  BY DEF TypeOK, Everyone
<1>1. /\ new \in Seq(Steps) /\ DOMAIN list = 1..Len(list) /\ Len(list) \in Nat \ {0}
      /\ list[1] = Resolution
  BY <1>0, TodoShape
<1>2. \A i \in DOMAIN new : \E k \in DOMAIN list : k > 1 /\ new[i] = list[k]
  <2>1. \A i \in DOMAIN new : i \notin DOMAIN <<>>
    OBVIOUS
  <2> QED
    BY <1>0, <2>1, Carried
<1>3. /\ todo' \in [Everyone -> Seq(Steps)] /\ todo'[t] = new
      /\ \A u \in Everyone : u # t => todo'[u] = todo[u]
  <2>1. todo' = [todo EXCEPT ![t] = new]
    OBVIOUS
  <2> HIDE DEF new
  <2> QED
    BY <1>0, <1>1, <2>1, TodoType
<1>4. Registers(new, nextID, May)
  <2>1. Registers(list, nextID, May)
    BY RegisterInvIs
  <2> QED
    BY <1>0, <2>1, RegistersDone
<1>5. 1 \in DOMAIN todo[t] /\ todo[t][1] = Resolution
  BY <1>1
<1>6. list = todo[t]
  OBVIOUS
<1> HIDE DEF new, list
<1>7. RegisterInv'
  <2> SUFFICES ASSUME NEW u \in Everyone PROVE Registers(todo'[u], nextID', May')
    BY RegisterInvNext
  <2>1. Registers(todo[u], nextID, May)
    BY RegisterInvIs
  <2> QED
    BY <1>3, <1>4, <2>1
<1>8. mutating /\ \A j \in DOMAIN queue : queue[j] # Resolve
  BY <1>5 DEF MutationInv
<1>9. \A u \in Everyone : \A i \in DOMAIN todo[u] : todo[u][i] = Resolution => u = t /\ i = 1
  BY <1>5 DEF MutationInv
<1>10. \A u \in Everyone : \A i \in DOMAIN todo'[u] : todo'[u][i] # Resolution
  <2> SUFFICES ASSUME NEW u \in Everyone, NEW i \in DOMAIN todo'[u], todo'[u][i] = Resolution
               PROVE  FALSE
    OBVIOUS
  <2>1. u = t
    BY <1>3, <1>9
  <2>2. PICK k \in DOMAIN list : k > 1 /\ new[i] = list[k]
    BY <1>2, <1>3, <2>1
  <2>3. k = 1
    BY <1>3, <1>6, <1>9, <2>1, <2>2
  <2> QED
    BY <2>2, <2>3
<1>11. \A i \in DOMAIN queue' : queue'[i] = Resolve => i = Len(queue) + 1
  BY <1>0, <1>8, WorkFacts
<1> QED
  BY <1>3, <1>7, <1>8, <1>10, <1>11 DEF MutationInv

\* The GTK thread takes a function from its queue.
LEMMA QueueTaken ==
  ASSUME TypeOK, RegisterInv, MutationInv, queue # <<>>, queue' = Tail(queue),
         UNCHANGED <<todo, nextID>>, May \subseteq May',
         mutating' = IF Head(queue) = Resolve THEN FALSE ELSE mutating
  PROVE  queue' \in Seq(Work) /\ RegisterInv' /\ MutationInv'
<1>0. todo \in [Everyone -> Seq(Steps)] /\ queue \in Seq(Work) /\ queue' \in Seq(Work)
  BY DEF TypeOK, Everyone
<1>1. /\ Len(queue) \in Nat \ {0} /\ DOMAIN queue = 1..Len(queue)
      /\ queue[1] = Head(queue)
      /\ \A i \in DOMAIN queue' : i \in Nat /\ i > 0 /\ i + 1 \in DOMAIN queue /\ queue'[i] = queue[i + 1]
  BY <1>0
<1>2. RegisterInv'
  <2>1. ASSUME NEW t \in Everyone PROVE Registers(todo'[t], nextID', May')
    <3>1. Registers(todo[t], nextID, May)
      BY RegisterInvIs
    <3> QED
      BY <3>1, Zenon DEF Registers
  <2> QED
    BY <2>1, RegisterInvNext
<1>3. CASE Head(queue) = Resolve
  <2>1. /\ \A i \in DOMAIN queue : queue[i] = Resolve => i = 1
        /\ \A t \in Everyone : \A i \in DOMAIN todo[t] : todo[t][i] # Resolution
    BY <1>1, <1>3 DEF MutationInv
  <2>2. \A i \in DOMAIN queue' : queue'[i] # Resolve
    BY <1>1, <2>1
  <2> QED
    BY <1>0, <1>2, <2>1, <2>2 DEF MutationInv
<1>4. CASE Head(queue) # Resolve
  <2>0. /\ \A t, u \in Everyone : \A i \in DOMAIN todo[t], j \in DOMAIN todo[u] :
             todo[t][i] = Resolution /\ todo[u][j] = Resolution => t = u /\ i = j
        /\ \A t \in Everyone : \A i \in DOMAIN todo[t] : todo[t][i] = Resolution =>
             mutating /\ \A j \in DOMAIN queue : queue[j] # Resolve
    BY DEF MutationInv
  <2>1. \A i, j \in DOMAIN queue' : queue'[i] = Resolve /\ queue'[j] = Resolve => i = j
    <3> SUFFICES ASSUME NEW i \in DOMAIN queue', NEW j \in DOMAIN queue',
                        queue'[i] = Resolve, queue'[j] = Resolve
                 PROVE  i = j
      OBVIOUS
    <3>1. i + 1 = j + 1
      BY <1>1 DEF MutationInv
    <3> QED
      BY <1>1, <3>1
  <2>2. \A i \in DOMAIN queue' : queue'[i] = Resolve => mutating
    BY <1>1 DEF MutationInv
  <2>3. \A t \in Everyone : \A i \in DOMAIN todo[t] : todo[t][i] = Resolution =>
          \A j \in DOMAIN queue' : queue'[j] # Resolve
    BY <1>1, <2>0
  <2>4. mutating' = mutating /\ todo' = todo
    BY <1>4
  <2> QED
    BY <1>0, <1>2, <2>0, <2>1, <2>2, <2>3, <2>4 DEF MutationInv
<1> QED
  BY <1>3, <1>4

-----------------------------------------------------------------------------
\* The shell's tabs and its queue of mutations.

\* What tells the mutations apart.
LEMMA MutationFacts ==
  /\ Clear \in Mutations /\ Clear.op = "clear"
  /\ \A id \in IDs : Close(id) \in Mutations /\ Register(id) \in Mutations
  /\ \A id \in IDs : Mutation("reorder", id) \in Mutations /\ Mutation("forget", id) \in Mutations
  /\ \A id : /\ Close(id).op = "close" /\ Close(id).id = id
              /\ Register(id).op = "register" /\ Register(id).id = id
              /\ Mutation("reorder", id).op = "reorder" /\ Mutation("forget", id).op = "forget"
  /\ \A m \in Mutations : m.op # "clear" => m.id \in IDs
BY DEF Mutations, Mutation, Clear, Close, Register

\* What PendingInv says of the shell's queue.
Pending(list, shells, next) ==
  \A i \in DOMAIN list :
    /\ list[i].op # "clear" => list[i].id < next
    /\ list[i].op = "register" =>
         \/ list[i].id = Settings \/ list[i].id \in shells
         \/ \E j \in DOMAIN list : j > i /\ list[j] = Close(list[i].id)

\* PendingInv in terms of Pending.
LEMMA PendingInvIs == PendingInv <=> Pending(mutations, shellTabs, nextID)
BY Zenon DEF PendingInv, Pending

\* PendingInv of the next state in terms of Pending.
LEMMA PendingInvNext == PendingInv' <=> Pending(mutations', shellTabs', nextID')
BY Zenon DEF PendingInv, Pending

\* An ID stays given out, and a tab the shell shows may still be registered.
LEMMA PendingGrows ==
  ASSUME NEW list \in Seq(Mutations), NEW shells, NEW more, shells \subseteq more,
         NEW next \in Nat, NEW later \in Nat, next <= later, Pending(list, shells, next)
  PROVE  Pending(list, more, later)
<1> SUFFICES ASSUME NEW i \in DOMAIN list
             PROVE  /\ list[i].op # "clear" => list[i].id < later
                    /\ list[i].op = "register" =>
                         \/ list[i].id = Settings \/ list[i].id \in more
                         \/ \E j \in DOMAIN list : j > i /\ list[j] = Close(list[i].id)
  BY Zenon DEF Pending
<1>1. list[i].op # "clear" => list[i].id \in Nat
  <2>1. list[i] \in Mutations
    OBVIOUS
  <2> QED
    BY <2>1, MutationFacts, TabsAssumption DEF IDs
<1> QED
  BY <1>1 DEF Pending

\* A mutation is put into the shell's queue: the close of the tab that leaves the shell's
\* list, or another one.
LEMMA PendingAppended ==
  ASSUME NEW list \in Seq(Mutations), NEW m \in Mutations, NEW shells, NEW more,
         NEW next \in Nat, NEW later \in Nat, next <= later, Pending(list, shells, next),
         m.op # "clear" => m.id < later,
         m.op = "register" => m.id = Settings \/ m.id \in more,
         \A id \in shells : id \in more \/ id = Settings \/ m = Close(id)
  PROVE  Pending(Append(list, m), more, later)
<1> DEFINE new == Append(list, m)
           n == Len(list) + 1
<1>1. /\ DOMAIN new = DOMAIN list \cup {n} /\ n \in DOMAIN new /\ new[n] = m
      /\ \A i \in DOMAIN list : i < n /\ new[i] = list[i] /\ list[i] \in Mutations
  OBVIOUS
<1> HIDE DEF new, n
<1> SUFFICES ASSUME NEW i \in DOMAIN new
             PROVE  /\ new[i].op # "clear" => new[i].id < later
                    /\ new[i].op = "register" =>
                         \/ new[i].id = Settings \/ new[i].id \in more
                         \/ \E j \in DOMAIN new : j > i /\ new[j] = Close(new[i].id)
  BY Zenon DEF Pending, new
<1>2. CASE i = n
  BY <1>1, <1>2
<1>3. CASE i \in DOMAIN list
  <2>1. /\ list[i].op # "clear" => list[i].id < next
        /\ list[i].op = "register" =>
             \/ list[i].id = Settings \/ list[i].id \in shells
             \/ \E j \in DOMAIN list : j > i /\ list[j] = Close(list[i].id)
    BY <1>3, Zenon DEF Pending
  <2>2. new[i] = list[i] /\ (list[i].op # "clear" => list[i].id \in Nat)
    BY <1>1, <1>3, MutationFacts, TabsAssumption DEF IDs
  <2>3. new[i].op # "clear" => new[i].id < later
    BY <2>1, <2>2
  <2>4. ASSUME new[i].op = "register", NEW j \in DOMAIN list, j > i, list[j] = Close(list[i].id)
        PROVE  \E l \in DOMAIN new : l > i /\ new[l] = Close(new[i].id)
    BY <1>1, <2>2, <2>4
  <2>5. ASSUME new[i].op = "register", list[i].id \in shells
        PROVE  \/ new[i].id = Settings \/ new[i].id \in more
               \/ \E j \in DOMAIN new : j > i /\ new[j] = Close(new[i].id)
    <3>1. list[i].id \in more \/ list[i].id = Settings \/ m = Close(list[i].id)
      BY <2>5
    <3> QED
      BY <1>1, <1>3, <2>2, <3>1
  <2> QED
    BY <2>1, <2>2, <2>3, <2>4, <2>5
<1> QED
  BY <1>1, <1>2, <1>3

\* The oldest mutation is sent: if it registers a tab, that is one the shell shows, or its
\* close is left in the queue.
LEMMA PendingSent ==
  ASSUME NEW list \in Seq(Mutations), list # <<>>, NEW shells, NEW next, Pending(list, shells, next)
  PROVE  /\ Head(list) \in Mutations /\ Tail(list) \in Seq(Mutations)
         /\ Pending(Tail(list), shells, next)
         /\ Head(list).op # "clear" => Head(list).id < next
         /\ Head(list).op = "register" =>
              \/ Head(list).id = Settings \/ Head(list).id \in shells
              \/ \E j \in DOMAIN Tail(list) : Tail(list)[j] = Close(Head(list).id)
<1> DEFINE rest == Tail(list)
<1>1. /\ rest \in Seq(Mutations) /\ Head(list) \in Mutations
      /\ 1 \in DOMAIN list /\ Head(list) = list[1]
      /\ \A i \in DOMAIN rest : i \in Nat /\ i + 1 \in DOMAIN list /\ rest[i] = list[i + 1]
      /\ \A j \in DOMAIN list : j > 1 => j \in Nat /\ j - 1 \in DOMAIN rest /\ rest[j - 1] = list[j]
  OBVIOUS
<1> HIDE DEF rest
<1>2. Pending(rest, shells, next)
  <2> SUFFICES ASSUME NEW i \in DOMAIN rest
               PROVE  /\ rest[i].op # "clear" => rest[i].id < next
                      /\ rest[i].op = "register" =>
                           \/ rest[i].id = Settings \/ rest[i].id \in shells
                           \/ \E j \in DOMAIN rest : j > i /\ rest[j] = Close(rest[i].id)
    BY Zenon DEF Pending
  <2> DEFINE k == i + 1
  <2>1. k \in DOMAIN list /\ rest[i] = list[k] /\ i \in Nat /\ k = i + 1
    BY <1>1
  <2> HIDE DEF k
  <2>2. /\ rest[i].op # "clear" => rest[i].id < next
        /\ rest[i].op = "register" =>
             \/ rest[i].id = Settings \/ rest[i].id \in shells
             \/ \E j \in DOMAIN list : j > k /\ list[j] = Close(rest[i].id)
    BY <2>1, Zenon DEF Pending
  <2>3. ASSUME NEW j \in DOMAIN list, j > k, list[j] = Close(rest[i].id)
        PROVE  \E l \in DOMAIN rest : l > i /\ rest[l] = Close(rest[i].id)
    <3>1. j \in Nat
      OBVIOUS
    <3>2. j > 1 /\ j - 1 > i
      BY <2>1, <2>3, <3>1
    <3> QED
      BY <1>1, <2>3, <3>2
  <2> QED
    BY <2>2, <2>3
<1>3. /\ Head(list).op # "clear" => Head(list).id < next
      /\ Head(list).op = "register" =>
           \/ Head(list).id = Settings \/ Head(list).id \in shells
           \/ \E j \in DOMAIN rest : rest[j] = Close(Head(list).id)
  <2>1. /\ Head(list).op # "clear" => Head(list).id < next
        /\ Head(list).op = "register" =>
             \/ Head(list).id = Settings \/ Head(list).id \in shells
             \/ \E j \in DOMAIN list : j > 1 /\ list[j] = Close(Head(list).id)
    <3>1. /\ list[1].op # "clear" => list[1].id < next
          /\ list[1].op = "register" =>
               \/ list[1].id = Settings \/ list[1].id \in shells
               \/ \E j \in DOMAIN list : j > 1 /\ list[j] = Close(list[1].id)
      BY <1>1, Zenon DEF Pending
    <3> QED
      BY <1>1, <3>1, Zenon
  <2> QED
    BY <1>1, <2>1
<1> QED
  BY <1>1, <1>2, <1>3 DEF rest

\* The shell's queue stands still, and the shell may show more tabs.
LEMMA ShellKept ==
  ASSUME TypeOK, ShellInv, PendingInv, mutations' = mutations, shellTabs \subseteq shellTabs',
         nextID' \in Nat, nextID <= nextID', \A id \in shellTabs' : id < nextID',
         \A i \in DOMAIN queue' : queue'[i].fn = "show" => queue'[i].id < nextID'
  PROVE  ShellInv' /\ PendingInv' /\ May \subseteq May'
<1>1. ShellInv'
  BY DEF ShellInv
<1>2. Pending(mutations', shellTabs', nextID')
  <2>1. mutations \in Seq(Mutations) /\ nextID \in Nat /\ Pending(mutations, shellTabs, nextID)
    BY PendingInvIs, TabsAssumption DEF TypeOK
  <2> QED
    BY <2>1, PendingGrows
<1>3. May \subseteq May'
  BY DEF May, ShownOrClosing, ClosePending
<1> QED
  BY <1>1, <1>2, <1>3, PendingInvNext

\* Neither the shell nor the GTK thread's queue changes.
LEMMA ShellStill ==
  ASSUME TypeOK, ShellInv, PendingInv, UNCHANGED <<shellTabs, mutations, queue>>,
         nextID' \in Nat, nextID <= nextID'
  PROVE  ShellInv' /\ PendingInv' /\ May' = May
<1>0. nextID \in Nat /\ shellTabs \subseteq IDs /\ queue \in Seq(Work) /\ \A id \in IDs : id \in Nat
  BY TabsAssumption DEF TypeOK, IDs
<1>1. \A id \in shellTabs' : id < nextID'
  BY <1>0 DEF ShellInv
<1>2. ASSUME NEW i \in DOMAIN queue', queue'[i].fn = "show" PROVE queue'[i].id < nextID'
  <2>1. queue[i] \in Work /\ queue[i].fn = "show" /\ queue[i].id < nextID
    BY <1>0, <1>2 DEF ShellInv
  <2>2. queue[i].id \in Nat
    BY <1>0, <2>1, WorkFacts
  <2> QED
    BY <1>0, <2>1, <2>2
<1>3. May' = May
  BY DEF May, ShownOrClosing, ClosePending
<1> QED
  BY <1>1, <1>2, <1>3, ShellKept

-----------------------------------------------------------------------------
\* The steps that change the tabs.

\* ListInv in terms of Distinct and Regular.
LEMMA ListInvIs ==
  ListInv <=> /\ Distinct(tabs) /\ \A i \in DOMAIN tabs : Regular(tabs[i], nextID)
              /\ activeTab # Nobody => activeTab \in TabIDs(tabs)
BY Zenon DEF ListInv, Distinct, Regular

\* ListInv of the next state in terms of Distinct and Regular.
LEMMA ListInvNext ==
  ListInv' <=> /\ Distinct(tabs') /\ \A i \in DOMAIN tabs' : Regular(tabs'[i], nextID')
               /\ activeTab' # Nobody => activeTab' \in TabIDs(tabs')
BY Zenon DEF ListInv, Distinct, Regular, TabIDs

\* More IDs have been given out.
LEMMA MoreIDs == \A a, b \in Nat : a <= b => 1..a - 1 \subseteq 1..b - 1
OBVIOUS

\* The IDs of the tabs have been given out.
LEMMA IDFacts ==
  ASSUME TypeOK
  PROVE  /\ nextID \in Nat \ {0} /\ MaxTabs \in Nat /\ nextID <= MaxTabs + 1
         /\ Settings \in IDs /\ Settings = 0 /\ IDs = 0..MaxTabs
         /\ \A id \in 0..nextID - 1 : id \in IDs
         /\ nextID <= MaxTabs => nextID \in IDs /\ nextID + 1 \in 1..MaxTabs + 1
         /\ SettingsTab \in Tab /\ SettingsTab.id = Settings /\ SettingsTab.kind = "settings"
         /\ \A id \in IDs, kind \in Kinds, u \in Urls \cup {Blank} :
              [id |-> id, kind |-> kind, url |-> u] \in Tab
BY TabsAssumption DEF TypeOK, IDs, Settings, SettingsTab, Tab, Kinds

\* A tab of the list has been given out.
LEMMA TabFacts ==
  ASSUME TypeOK, ListInv
  PROVE  /\ \A i \in DOMAIN tabs : /\ tabs[i] \in Tab /\ tabs[i].id \in 0..nextID - 1
                                   /\ Regular(tabs[i], nextID)
         /\ TabIDs(tabs) \subseteq 0..nextID - 1 /\ nextID \notin TabIDs(tabs)
<1>1. \A i \in DOMAIN tabs : tabs[i] \in Tab /\ Regular(tabs[i], nextID)
  BY ListInvIs DEF TypeOK
<1>2. \A tab \in Tab : tab.id \in 0..MaxTabs
  BY DEF Tab, IDs
<1>3. \A i \in DOMAIN tabs : tabs[i].id \in 0..nextID - 1
  BY <1>1, <1>2, IDFacts DEF Regular
<1>4. TabIDs(tabs) \subseteq 0..nextID - 1
  BY <1>3 DEF TabIDs
<1>5. nextID \notin 0..nextID - 1
  BY IDFacts
<1> QED
  BY <1>1, <1>3, <1>4, <1>5

\* A list of the tabs that were open, and of regular ones.
LEMMA ListKept ==
  ASSUME TypeOK, ListInv, tabs' \in Seq(Tab), Distinct(tabs'),
         nextID' \in Nat, nextID <= nextID',
         \A k \in DOMAIN tabs' : \/ Regular(tabs'[k], nextID')
                                 \/ \E i \in DOMAIN tabs : tabs'[k] = tabs[i],
         activeTab' # Nobody => activeTab' \in TabIDs(tabs')
  PROVE  ListInv'
<1>1. \A i \in DOMAIN tabs : Regular(tabs[i], nextID')
  <2>1. \A i \in DOMAIN tabs : tabs[i].id \in 0..nextID - 1 /\ Regular(tabs[i], nextID)
    BY TabFacts
  <2>2. \A id \in 0..nextID - 1 : id < nextID'
    BY IDFacts
  <2> QED
    BY <2>1, <2>2 DEF Regular
<1>2. \A k \in DOMAIN tabs' : Regular(tabs'[k], nextID')
  BY <1>1
<1> QED
  BY <1>2, ListInvNext

\* A new tab with the next ID.
LEMMA NewTabIsRegular ==
  ASSUME TypeOK, NEW tab \in Tab, tab.id = nextID, nextID' = nextID + 1
  PROVE  Regular(tab, nextID')
<1>1. nextID < nextID + 1 /\ nextID # Settings
  BY IDFacts DEF Settings
<1> QED
  BY <1>1 DEF Regular

\* The type invariant after a step of the tab manager.
LEMMA ManagerType ==
  ASSUME TypeOK, UNCHANGED Elsewhere, tabs' \in Seq(Tab), activeTab' \in IDs \cup {Nobody},
         lastCloseTab' \in IDs \cup {Nobody}, restored' \in BOOLEAN, mutating' \in BOOLEAN,
         shellTabs' \subseteq IDs, mutations' \in Seq(Mutations),
         todo' \in [Everyone -> Seq(Steps)], nextID' \in 1..MaxTabs + 1,
         gone' \subseteq 1..nextID' - 1, messages' \in 0..MaxMessages
  PROVE  TypeOK'
BY DEF TypeOK, Elsewhere, Everyone

\* newBrowserTab, in its locked section.
LEMMA BrowserOpenedKeeps ==
  ASSUME TypeOK, ListInv, NEW u \in Urls, BrowserOpened(u)
  PROVE  /\ tabs' \in Seq(Tab) /\ activeTab' \in IDs \cup {Nobody}
         /\ nextID \in IDs /\ nextID' \in 1..MaxTabs + 1 /\ nextID' \in Nat /\ nextID <= nextID'
         /\ gone' = gone /\ gone \subseteq 1..nextID' - 1
         /\ lastCloseTab' \in IDs \cup {Nobody} /\ restored' \in BOOLEAN
         /\ ListInv'
<1> DEFINE tab == [id |-> nextID, kind |-> "browser", url |-> u]
<1>1. /\ nextID <= MaxTabs /\ tabs' = Append(tabs, tab) /\ activeTab' = nextID
      /\ nextID' = nextID + 1 /\ UNCHANGED <<lastCloseTab, restored, gone>>
  BY DEF BrowserOpened
<1>2. tab \in Tab /\ tab.id = nextID /\ nextID \in IDs
  BY <1>1, IDFacts DEF Kinds
<1>3. nextID' \in 1..MaxTabs + 1 /\ nextID' \in Nat /\ nextID <= nextID'
  BY <1>1, IDFacts
<1>4. gone \subseteq 1..nextID' - 1
  BY <1>1, IDFacts DEF TypeOK
<1> HIDE DEF tab
<1>5. /\ tabs' \in Seq(Tab) /\ Distinct(tabs') /\ nextID \in TabIDs(tabs')
      /\ \A k \in DOMAIN tabs' : tabs'[k] = tab \/ \E i \in DOMAIN tabs : tabs'[k] = tabs[i]
  <2>1. tabs \in Seq(Tab) /\ Distinct(tabs) /\ tab.id \notin TabIDs(tabs)
    BY <1>2, TabFacts, ListInvIs DEF TypeOK
  <2> QED
    BY <1>1, <1>2, <2>1, AppendFacts
<1>6. Regular(tab, nextID')
  BY <1>1, <1>2, NewTabIsRegular
<1>7. ListInv'
  BY <1>1, <1>3, <1>5, <1>6, ListKept
<1>8. /\ activeTab' \in IDs \cup {Nobody} /\ lastCloseTab' \in IDs \cup {Nobody}
      /\ restored' \in BOOLEAN
  BY <1>1, <1>2 DEF TypeOK
<1> QED
  BY <1>1, <1>2, <1>3, <1>4, <1>5, <1>7, <1>8

\* A message that does not go through the shell's queue.
LEMMA MessageInv ==
  ASSUME TypeOK, IInv, NEW t \in Threads, NEW rest \in Seq(Steps), Message(t, rest),
         \A i \in DOMAIN rest : Plain(rest[i], nextID'),
         UNCHANGED <<Elsewhere, mutations, mutating, gone>>,
         shellTabs \subseteq shellTabs', shellTabs' \subseteq IDs, \A id \in shellTabs' : id < nextID',
         tabs' \in Seq(Tab), activeTab' \in IDs \cup {Nobody},
         lastCloseTab' \in IDs \cup {Nobody}, restored' \in BOOLEAN,
         nextID' \in 1..MaxTabs + 1, nextID <= nextID', ListInv'
  PROVE  TypeOK' /\ IInv'
<1>0. ListInv /\ ShellInv /\ PendingInv /\ RegisterInv /\ MutationInv
  BY DEF IInv
<1>1. /\ UNCHANGED <<mutations, mutating, gone, queue>> /\ UNCHANGED Elsewhere /\ mutating' \in BOOLEAN
      /\ nextID' \in Nat /\ gone' \subseteq 1..nextID' - 1 /\ mutations' \in Seq(Mutations)
  <2>1. gone \subseteq 1..nextID - 1 /\ mutating \in BOOLEAN /\ mutations \in Seq(Mutations)
    BY DEF TypeOK
  <2>2. nextID \in Nat /\ nextID' \in Nat /\ nextID <= nextID'
    BY IDFacts
  <2>3. 1..nextID - 1 \subseteq 1..nextID' - 1
    BY <2>2, MoreIDs
  <2>4. UNCHANGED <<mutations, mutating, gone, queue>> /\ UNCHANGED Elsewhere
    BY DEF Elsewhere
  <2> QED
    BY <2>1, <2>2, <2>3, <2>4
<1>2. ShellInv' /\ PendingInv' /\ May \subseteq May'
  <2>1. ASSUME NEW i \in DOMAIN queue', queue'[i].fn = "show" PROVE queue'[i].id < nextID'
    <3>1. queue[i] \in Work /\ queue[i].fn = "show" /\ queue[i].id < nextID
      BY <1>0, <1>1, <2>1 DEF ShellInv, TypeOK
    <3>2. queue[i].id \in Nat /\ nextID \in Nat
      BY <3>1, WorkFacts, IDFacts
    <3> QED
      BY <1>1, <3>1, <3>2
  <2> QED
    BY <1>0, <1>1, <2>1, ShellKept
<1>3. /\ todo' \in [Everyone -> Seq(Steps)] /\ RegisterInv' /\ MutationInv'
      /\ messages' \in 0..MaxMessages
  BY <1>0, <1>1, <1>2, MessageBegins
<1>4. TypeOK'
  BY <1>1, <1>3, ManagerType
<1> QED
  BY <1>2, <1>3, <1>4 DEF IInv

\* A message that the shell sends at once and that leaves the shell alone.
LEMMA PlainMessageInv ==
  ASSUME TypeOK, IInv, NEW t \in Threads, NEW rest \in Seq(Steps), Message(t, rest),
         \A i \in DOMAIN rest : Plain(rest[i], nextID'),
         UNCHANGED <<Elsewhere, ShellQueue, gone>>,
         tabs' \in Seq(Tab), activeTab' \in IDs \cup {Nobody},
         lastCloseTab' \in IDs \cup {Nobody}, restored' \in BOOLEAN,
         nextID' \in 1..MaxTabs + 1, nextID <= nextID', ListInv'
  PROVE  TypeOK' /\ IInv'
<1>1. /\ shellTabs' = shellTabs /\ UNCHANGED <<Elsewhere, mutations, mutating, gone>>
      /\ shellTabs \subseteq IDs /\ \A id \in shellTabs : id < nextID
  BY DEF ShellQueue, TypeOK, IInv, ShellInv
<1>2. \A id \in shellTabs' : id < nextID'
  BY <1>1, IDFacts
<1> QED
  BY <1>1, <1>2, MessageInv

\* A message that goes through the shell's queue.
LEMMA MutationMessageInv ==
  ASSUME TypeOK, IInv, NEW t \in Threads, NEW op, NEW rest \in Seq(Steps), mutations # <<>>,
         Sends(t, op, rest),
         \A i \in DOMAIN rest : rest[i] # Resolution /\ Known(rest[i], nextID),
         \A i \in DOMAIN rest : rest[i].do = "upsert" =>
           /\ Regular(rest[i].tab, nextID) /\ rest[i].tab.id \in May'
           /\ \E j \in DOMAIN rest : j > i /\ rest[j] = Persist,
         UNCHANGED Beyond, tabs' \in Seq(Tab), activeTab' \in IDs \cup {Nobody},
         lastCloseTab' \in IDs \cup {Nobody}, gone' \subseteq 1..nextID - 1, ListInv'
  PROVE  TypeOK' /\ IInv'
<1>0. /\ ShellInv /\ PendingInv /\ RegisterInv /\ MutationInv
      /\ UNCHANGED <<queue, shellTabs, restored, nextID, messages>> /\ UNCHANGED Elsewhere
      /\ mutations \in Seq(Mutations) /\ mutations' = Tail(mutations)
  BY DEF IInv, Beyond, Elsewhere, Sends, TypeOK
<1>1. /\ todo' \in [Everyone -> Seq(Steps)] /\ RegisterInv' /\ MutationInv'
      /\ mutating' \in BOOLEAN
  BY <1>0, MutationBegins
<1>2. mutations' \in Seq(Mutations) /\ Pending(mutations', shellTabs', nextID')
  BY <1>0, PendingInvIs, PendingSent
<1>3. ShellInv' /\ PendingInv'
  BY <1>0, <1>2, PendingInvNext DEF ShellInv
<1>4. TypeOK'
  <2>1. /\ shellTabs' \subseteq IDs /\ restored' \in BOOLEAN /\ nextID' \in 1..MaxTabs + 1
        /\ gone' \subseteq 1..nextID' - 1 /\ messages' \in 0..MaxMessages
    BY <1>0 DEF TypeOK
  <2> QED
    BY <1>0, <1>1, <1>2, <2>1, ManagerType
<1> QED
  BY <1>1, <1>3, <1>4 DEF IInv

\* The mutation that is sent, and its tab.
LEMMA SentFacts ==
  ASSUME TypeOK, IInv, mutations # <<>>
  PROVE  /\ Head(mutations) \in Mutations
         /\ Head(mutations).op # "clear" =>
              Head(mutations).id \in IDs /\ Head(mutations).id \in 0..nextID - 1
<1>1. mutations \in Seq(Mutations) /\ Pending(mutations, shellTabs, nextID)
  BY PendingInvIs DEF TypeOK, IInv
<1>2. Head(mutations) \in Mutations /\ (Head(mutations).op # "clear" => Head(mutations).id < nextID)
  BY <1>1, PendingSent
<1> QED
  BY <1>2, MutationFacts, IDFacts

\* newBrowserTab appends a tab with a new ID.
LEMMA NewBrowserTabInv ==
  ASSUME TypeOK, IInv, NEW t \in Threads, NewBrowserTab(t)
  PROVE  TypeOK' /\ IInv'
<1>1. PICK u \in Urls : /\ BrowserOpened(u)
                        /\ Message(t, <<Persist, Dispatch(Show(nextID)), Dispatch(Open(nextID, u))>>)
                        /\ UNCHANGED <<Elsewhere, ShellQueue>>
  BY DEF NewBrowserTab
<1>2. /\ tabs' \in Seq(Tab) /\ activeTab' \in IDs \cup {Nobody}
      /\ nextID \in IDs /\ nextID' \in 1..MaxTabs + 1 /\ nextID <= nextID'
      /\ gone' = gone
      /\ lastCloseTab' \in IDs \cup {Nobody} /\ restored' \in BOOLEAN
      /\ ListInv'
  BY <1>1, BrowserOpenedKeeps DEF IInv
<1> DEFINE rest == <<Persist, Dispatch(Show(nextID)), Dispatch(Open(nextID, u))>>
<1>3. rest \in Seq(Steps) /\ \A i \in DOMAIN rest : Plain(rest[i], nextID')
  <2>0. nextID < nextID'
    BY <1>1, IDFacts DEF BrowserOpened
  <2>1. /\ Plain(Persist, nextID') /\ Plain(Dispatch(Open(nextID, u)), nextID')
        /\ Plain(Dispatch(Show(nextID)), nextID')
    BY <1>2, <2>0, PlainSteps
  <2> QED
    BY <2>1 DEF Plain
<1>4. Message(t, rest) /\ UNCHANGED <<Elsewhere, ShellQueue, gone>>
  BY <1>1, <1>2
<1> HIDE DEF rest
<1> QED
  BY <1>2, <1>3, <1>4, PlainMessageInv

\* newTerminalTab, newVNCTab and newRDPTab append a tab with a new ID.
LEMMA NewRemoteTabInv ==
  ASSUME TypeOK, IInv, NEW t \in Threads, NewRemoteTab(t)
  PROVE  TypeOK' /\ IInv'
<1> DEFINE tab(u) == [id |-> nextID, kind |-> "remote", url |-> u]
           rest == <<Persist, Dispatch(HideAll)>>
<1>1. PICK u \in Urls :
        /\ nextID <= MaxTabs /\ tabs' = Upserted(tabs, tab(u))
        /\ activeTab' = nextID /\ nextID' = nextID + 1 /\ Message(t, rest)
        /\ UNCHANGED <<Elsewhere, ShellQueue, lastCloseTab, restored, gone>>
  BY DEF NewRemoteTab
<1>2. tab(u) \in Tab /\ tab(u).id = nextID /\ nextID \in IDs
  BY <1>1, IDFacts DEF Kinds
<1>3. rest \in Seq(Steps) /\ \A i \in DOMAIN rest : Plain(rest[i], nextID')
  <2>1. Plain(Persist, nextID') /\ Plain(Dispatch(HideAll), nextID')
    BY PlainSteps
  <2> QED
    BY <2>1 DEF Plain
<1>4. nextID' \in 1..MaxTabs + 1 /\ nextID' \in Nat /\ nextID <= nextID'
  BY <1>1, IDFacts
<1> HIDE DEF tab, rest
<1>5. ListInv /\ tabs \in Seq(Tab) /\ Distinct(tabs)
  BY ListInvIs DEF IInv, TypeOK
<1>6. /\ tabs' \in Seq(Tab) /\ Distinct(tabs') /\ nextID \in TabIDs(tabs')
      /\ \A k \in DOMAIN tabs' : tabs'[k] = tab(u) \/ \E i \in DOMAIN tabs : tabs'[k] = tabs[i]
  BY <1>1, <1>2, <1>5, UpsertedFacts
<1>7. Regular(tab(u), nextID')
  BY <1>1, <1>2, NewTabIsRegular
<1>8. ListInv'
  BY <1>1, <1>4, <1>5, <1>6, <1>7, ListKept
<1>9. /\ activeTab' \in IDs \cup {Nobody} /\ lastCloseTab' \in IDs \cup {Nobody}
      /\ restored' \in BOOLEAN /\ UNCHANGED <<Elsewhere, ShellQueue, gone>>
  BY <1>1, <1>2 DEF TypeOK
<1> QED
  BY <1>1, <1>3, <1>4, <1>6, <1>8, <1>9, PlainMessageInv

\* The Settings tab is regular.
LEMMA SettingsIsRegular == ASSUME TypeOK PROVE Regular(SettingsTab, nextID)
BY IDFacts DEF Regular

\* openSettingsTab adds the Settings tab or replaces it.
LEMMA OpenSettingsTabInv ==
  ASSUME TypeOK, IInv, NEW t \in Threads, OpenSettingsTab(t)
  PROVE  TypeOK' /\ IInv'
<1> DEFINE rest == <<Dispatch(HideAll)>>
<1>1. /\ tabs' = Upserted(tabs, SettingsTab) /\ activeTab' = Settings /\ Message(t, rest)
      /\ UNCHANGED <<Elsewhere, ShellQueue, lastCloseTab, restored, nextID, gone>>
  BY DEF OpenSettingsTab
<1>2. rest \in Seq(Steps) /\ \A i \in DOMAIN rest : Plain(rest[i], nextID')
  <2>1. Plain(Dispatch(HideAll), nextID')
    BY PlainSteps
  <2> QED
    BY <2>1 DEF Plain
<1> HIDE DEF rest
<1>3. ListInv /\ tabs \in Seq(Tab) /\ Distinct(tabs)
  BY ListInvIs DEF IInv, TypeOK
<1>4. /\ tabs' \in Seq(Tab) /\ Distinct(tabs') /\ Settings \in TabIDs(tabs')
      /\ \A k \in DOMAIN tabs' : tabs'[k] = SettingsTab \/ \E i \in DOMAIN tabs : tabs'[k] = tabs[i]
  BY <1>1, <1>3, IDFacts, UpsertedFacts
<1>5. Regular(SettingsTab, nextID') /\ nextID' \in Nat /\ nextID <= nextID'
  BY <1>1, IDFacts, SettingsIsRegular
<1>6. ListInv'
  BY <1>1, <1>3, <1>4, <1>5, ListKept
<1>7. /\ activeTab' \in IDs \cup {Nobody} /\ lastCloseTab' \in IDs \cup {Nobody}
      /\ restored' \in BOOLEAN /\ UNCHANGED <<Elsewhere, ShellQueue, gone>>
      /\ nextID' \in 1..MaxTabs + 1
  BY <1>1, IDFacts DEF TypeOK
<1> QED
  BY <1>1, <1>2, <1>4, <1>5, <1>6, <1>7, PlainMessageInv

\* Only addresses change.
LEMMA ReaddressedKeeps ==
  ASSUME TypeOK, ListInv, NEW at \in SUBSET DOMAIN tabs, NEW u \in Urls,
         tabs' = [i \in DOMAIN tabs |-> IF i \in at THEN [tabs[i] EXCEPT !.url = u] ELSE tabs[i]],
         UNCHANGED <<activeTab, nextID>>
  PROVE  tabs' \in Seq(Tab) /\ ListInv'
<1>1. tabs \in Seq(Tab) /\ \A i \in DOMAIN tabs : tabs[i] \in Tab
  BY DEF TypeOK
<1>2. \A tab \in Tab : /\ [tab EXCEPT !.url = u] \in Tab
                       /\ [tab EXCEPT !.url = u].id = tab.id
                       /\ [tab EXCEPT !.url = u].kind = tab.kind
  BY DEF Tab
<1>3. /\ DOMAIN tabs' = DOMAIN tabs
      /\ \A i \in DOMAIN tabs : /\ tabs'[i] \in Tab /\ tabs'[i].id = tabs[i].id
                                /\ tabs'[i].kind = tabs[i].kind
  BY <1>1, <1>2
<1>4. tabs' \in Seq(Tab)
  <2>1. Len(tabs) \in Nat /\ DOMAIN tabs = 1..Len(tabs)
    BY <1>1
  <2>2. tabs' \in [1..Len(tabs) -> Tab]
    BY <1>3, <2>1
  <2> QED
    BY <2>1, <2>2
<1>5. /\ Distinct(tabs) /\ \A i \in DOMAIN tabs : Regular(tabs[i], nextID)
      /\ activeTab # Nobody => activeTab \in TabIDs(tabs)
  BY ListInvIs
<1>6. Distinct(tabs')
  BY <1>3, <1>5 DEF Distinct
<1>7. \A i \in DOMAIN tabs' : Regular(tabs'[i], nextID')
  BY <1>3, <1>5 DEF Regular
<1>8. TabIDs(tabs') = TabIDs(tabs)
  BY <1>3, Zenon DEF TabIDs
<1> QED
  BY <1>4, <1>5, <1>6, <1>7, <1>8, ListInvNext

\* navigateBrowser changes the address of the active tab.
LEMMA NavigateBrowserInv ==
  ASSUME TypeOK, IInv, NEW t \in Threads, NavigateBrowser(t)
  PROVE  TypeOK' /\ IInv'
<1> DEFINE rest(u) == <<Persist>> \o IF ActiveBrowser = {} THEN <<>>
                                     ELSE <<Dispatch(Show(activeTab)), Dispatch(Open(activeTab, u))>>
<1>1. PICK u \in Urls :
        /\ tabs' = [i \in DOMAIN tabs |-> IF i \in ActiveBrowser THEN [tabs[i] EXCEPT !.url = u]
                                          ELSE tabs[i]]
        /\ Message(t, rest(u))
        /\ UNCHANGED <<Elsewhere, ShellQueue, activeTab, lastCloseTab, restored, nextID, gone>>
  BY DEF NavigateBrowser
<1>2. ActiveBrowser \in SUBSET DOMAIN tabs
  BY DEF ActiveBrowser
<1>3. rest(u) \in Seq(Steps) /\ \A i \in DOMAIN rest(u) : Plain(rest(u)[i], nextID')
  <2> DEFINE show == IF ActiveBrowser = {} THEN <<>>
                     ELSE <<Dispatch(Show(activeTab)), Dispatch(Open(activeTab, u))>>
  <2>1. ActiveBrowser # {} => activeTab \in IDs /\ activeTab < nextID'
    <3> SUFFICES ASSUME ActiveBrowser # {} PROVE activeTab \in IDs /\ activeTab < nextID'
      OBVIOUS
    <3>1. PICK i \in DOMAIN tabs : tabs[i].id = activeTab
      BY DEF ActiveBrowser
    <3>2. tabs[i] \in Tab /\ tabs[i].id < nextID
      BY DEF TypeOK, IInv, ListInv
    <3> QED
      BY <1>1, <3>1, <3>2 DEF Tab
  <2>2. /\ Plain(Persist, nextID')
        /\ ActiveBrowser # {} => /\ Plain(Dispatch(Show(activeTab)), nextID')
                                /\ Plain(Dispatch(Open(activeTab, u)), nextID')
    BY <2>1, PlainSteps
  <2>3. /\ <<Persist>> \in Seq(Steps) /\ \A i \in DOMAIN <<Persist>> : Plain(<<Persist>>[i], nextID')
        /\ show \in Seq(Steps) /\ \A i \in DOMAIN show : Plain(show[i], nextID')
    BY <2>2 DEF Plain
  <2>4. rest(u) = <<Persist>> \o show
    OBVIOUS
  <2> HIDE DEF show, rest
  <2> QED
    BY <2>3, <2>4, PlainConcat
<1> HIDE DEF rest
<1>4. tabs' \in Seq(Tab) /\ ListInv'
  BY <1>1, <1>2, ReaddressedKeeps DEF IInv
<1>5. /\ activeTab' \in IDs \cup {Nobody} /\ lastCloseTab' \in IDs \cup {Nobody}
      /\ restored' \in BOOLEAN /\ UNCHANGED <<Elsewhere, ShellQueue, gone>>
      /\ nextID' \in 1..MaxTabs + 1 /\ nextID <= nextID'
  BY <1>1, IDFacts DEF TypeOK
<1> QED
  BY <1>1, <1>3, <1>4, <1>5, PlainMessageInv

\* updateActiveBrowserTitle changes the address of the active tab.
LEMMA UpdateActiveBrowserTitleInv ==
  ASSUME TypeOK, IInv, NEW t \in Threads, UpdateActiveBrowserTitle(t)
  PROVE  TypeOK' /\ IInv'
<1> DEFINE rest == <<Persist>>
<1>1. PICK u \in Urls, i \in ActiveBrowser :
        /\ tabs' = [tabs EXCEPT ![i].url = u] /\ Message(t, rest)
        /\ UNCHANGED <<Elsewhere, ShellQueue, activeTab, lastCloseTab, restored, nextID, gone>>
  BY DEF UpdateActiveBrowserTitle
<1>2. rest \in Seq(Steps) /\ \A k \in DOMAIN rest : Plain(rest[k], nextID')
  <2>1. Plain(Persist, nextID')
    BY PlainSteps
  <2> QED
    BY <2>1 DEF Plain
<1> HIDE DEF rest
<1>3. {i} \in SUBSET DOMAIN tabs
  BY DEF ActiveBrowser
<1>4. tabs' = [k \in DOMAIN tabs |-> IF k \in {i} THEN [tabs[k] EXCEPT !.url = u] ELSE tabs[k]]
  BY <1>1, <1>3
<1>5. tabs' \in Seq(Tab) /\ ListInv'
  BY <1>1, <1>3, <1>4, ReaddressedKeeps DEF IInv
<1>6. /\ activeTab' \in IDs \cup {Nobody} /\ lastCloseTab' \in IDs \cup {Nobody}
      /\ restored' \in BOOLEAN /\ UNCHANGED <<Elsewhere, ShellQueue, gone>>
      /\ nextID' \in 1..MaxTabs + 1 /\ nextID <= nextID'
  BY <1>1, IDFacts DEF TypeOK
<1> QED
  BY <1>1, <1>2, <1>5, <1>6, PlainMessageInv

\* switchTab and closeTab show an open tab.
LEMMA ShowStepsPlain ==
  ASSUME TypeOK, NEW id \in IDs, NEW next
  PROVE  /\ ShowSteps(id) \in Seq(Steps)
         /\ \A i \in DOMAIN ShowSteps(id) : Plain(ShowSteps(id)[i], next)
<1>1. CASE id \notin TabIDs(tabs)
  BY <1>1 DEF ShowSteps
<1>2. CASE id \in TabIDs(tabs)
  <2> DEFINE tab == tabs[Find(tabs, id)]
  <2>1. tab \in Tab
    BY <1>2, FindFacts DEF TypeOK
  <2>2. ShowSteps(id) = IF tab.kind = "browser" /\ tab.url # Blank
                        THEN <<Dispatch(Select(id, tab.url))>> ELSE <<Dispatch(HideAll)>>
    BY <1>2 DEF ShowSteps
  <2> HIDE DEF tab
  <2>3. tab.url # Blank => tab.url \in Urls
    BY <2>1 DEF Tab
  <2>4. /\ Plain(Dispatch(HideAll), next)
        /\ tab.url # Blank => Plain(Dispatch(Select(id, tab.url)), next)
    BY <2>3, PlainSteps
  <2> QED
    BY <2>2, <2>4 DEF Plain
<1> QED
  BY <1>1, <1>2

\* The locked section of switchTab.
LEMMA ActivatedKeeps ==
  ASSUME TypeOK, ListInv, NEW id \in IDs, Activated(id), UNCHANGED <<tabs, nextID>>
  PROVE  activeTab' \in IDs \cup {Nobody} /\ ListInv'
<1>1. activeTab' = IF id \in TabIDs(tabs) THEN id ELSE activeTab
  BY DEF Activated
<1>2. activeTab' # Nobody => activeTab' \in TabIDs(tabs')
  BY <1>1, ListInvIs
<1>3. activeTab' \in IDs \cup {Nobody}
  BY <1>1 DEF TypeOK
<1>4. Distinct(tabs') /\ \A i \in DOMAIN tabs' : Regular(tabs'[i], nextID')
  BY ListInvIs
<1> QED
  BY <1>2, <1>3, <1>4, ListInvNext

\* switchTab activates an open tab.
LEMMA SwitchTabInv ==
  ASSUME TypeOK, IInv, NEW t \in Threads, SwitchTab(t)
  PROVE  TypeOK' /\ IInv'
<1>1. PICK id \in 0..nextID - 1 :
        /\ Activated(id) /\ Message(t, ShowSteps(id))
        /\ UNCHANGED <<Elsewhere, ShellQueue, tabs, lastCloseTab, restored, nextID, gone>>
  BY DEF SwitchTab
<1>2. id \in IDs
  BY IDFacts
<1>3. /\ ShowSteps(id) \in Seq(Steps)
      /\ \A i \in DOMAIN ShowSteps(id) : Plain(ShowSteps(id)[i], nextID')
  BY <1>2, ShowStepsPlain
<1>4. activeTab' \in IDs \cup {Nobody} /\ ListInv'
  BY <1>1, <1>2, ActivatedKeeps DEF IInv
<1>5. /\ tabs' \in Seq(Tab) /\ lastCloseTab' \in IDs \cup {Nobody}
      /\ restored' \in BOOLEAN /\ UNCHANGED <<Elsewhere, ShellQueue, gone>>
      /\ nextID' \in 1..MaxTabs + 1 /\ nextID <= nextID'
  BY <1>1, IDFacts DEF TypeOK
<1> QED
  BY <1>1, <1>3, <1>4, <1>5, PlainMessageInv

\* reorderTab moves a tab.
LEMMA ReorderTabInv ==
  ASSUME TypeOK, IInv, mutations # <<>>, NEW t \in Threads, ReorderTab(t)
  PROVE  TypeOK' /\ IInv'
<1> DEFINE id == Head(mutations).id
           rest == Without(tabs, id)
           moved == tabs[Find(tabs, id)]
           steps == <<Persist>>
           none == <<>>
<1>1. CASE /\ Sends(t, "reorder", steps) /\ id \in TabIDs(tabs)
           /\ \E before \in 0..nextID - 1 :
                tabs' = IF before \in TabIDs(rest) THEN InsertAt(rest, Find(rest, before), moved)
                        ELSE Append(rest, moved)
           /\ UNCHANGED <<Beyond, activeTab, lastCloseTab, gone>>
  <2>1. PICK before : tabs' = Moved(rest, moved, before)
    BY <1>1 DEF Moved
  <2>2. /\ steps \in Seq(Steps)
        /\ \A i \in DOMAIN steps : Plain(steps[i], nextID)
    <3>1. Plain(Persist, nextID)
      BY PlainSteps
    <3> QED
      BY <3>1 DEF Plain
  <2>3. ListInv /\ tabs \in Seq(Tab) /\ Distinct(tabs) /\ nextID' = nextID
    BY <1>1, ListInvIs DEF IInv, TypeOK, Beyond
  <2>4. /\ rest \in Seq(Tab) /\ Distinct(rest) /\ TabIDs(rest) = TabIDs(tabs) \ {id}
        /\ \A k \in DOMAIN rest : \E i \in DOMAIN tabs : rest[k] = tabs[i]
    BY <2>3, WithoutFacts
  <2>5. moved \in Tab /\ moved.id = id /\ \E i \in DOMAIN tabs : moved = tabs[i]
    BY <1>1, <2>3, FindFacts
  <2> HIDE DEF rest, moved, steps, id
  <2>6. moved.id \notin TabIDs(rest) /\ TabIDs(rest) \cup {moved.id} = TabIDs(tabs)
    BY <1>1, <2>4, <2>5
  <2>7. /\ tabs' \in Seq(Tab) /\ Distinct(tabs') /\ TabIDs(tabs') = TabIDs(tabs)
        /\ \A k \in DOMAIN tabs' : tabs'[k] = moved \/ \E i \in DOMAIN rest : tabs'[k] = rest[i]
    <3>1. LET new == Moved(rest, moved, before)
          IN  /\ new \in Seq(Tab) /\ Distinct(new)
              /\ \A k \in DOMAIN new : new[k] = moved \/ \E i \in DOMAIN rest : new[k] = rest[i]
              /\ TabIDs(new) = TabIDs(rest) \cup {moved.id}
      BY <2>4, <2>5, <2>6, MovedFacts
    <3> QED
      BY <2>1, <2>6, <3>1
  <2>8. \A k \in DOMAIN tabs' : \E i \in DOMAIN tabs : tabs'[k] = tabs[i]
    BY <2>4, <2>5, <2>7
  <2>9. /\ activeTab' \in IDs \cup {Nobody} /\ lastCloseTab' \in IDs \cup {Nobody}
        /\ nextID' \in Nat /\ nextID <= nextID' /\ gone' \subseteq 1..nextID - 1 /\ UNCHANGED Beyond
    BY <1>1, <2>3, IDFacts DEF TypeOK
  <2>10. ListInv'
    <3>1. activeTab' # Nobody => activeTab' \in TabIDs(tabs')
      BY <1>1, <2>3, <2>7, ListInvIs
    <3> QED
      BY <2>3, <2>7, <2>8, <2>9, <3>1, ListKept
  <2> QED
    BY <1>1, <2>2, <2>7, <2>9, <2>10, MutationMessageInv DEF Plain
<1>2. CASE /\ Sends(t, "reorder", none)
           /\ UNCHANGED <<Beyond, tabs, activeTab, lastCloseTab, gone>>
  <2>1. ListInv'
    BY <1>2 DEF IInv, ListInv, TabIDs, Beyond
  <2>2. none \in Seq(Steps) /\ DOMAIN none = {}
    OBVIOUS
  <2>3. /\ tabs' \in Seq(Tab) /\ activeTab' \in IDs \cup {Nobody}
        /\ lastCloseTab' \in IDs \cup {Nobody} /\ gone' \subseteq 1..nextID - 1 /\ UNCHANGED Beyond
    BY <1>2 DEF TypeOK
  <2> HIDE DEF none
  <2> QED
    BY <1>2, <2>1, <2>2, <2>3, MutationMessageInv
<1> QED
  BY <1>1, <1>2 DEF ReorderTab

\* A tab leaves the list, and the active tab is another one.
LEMMA ClosedKeeps ==
  ASSUME TypeOK, ListInv, NEW id, tabs' = Without(tabs, id), UNCHANGED nextID,
         activeTab' # Nobody => activeTab' \in TabIDs(tabs) \ {id}
  PROVE  tabs' \in Seq(Tab) /\ ListInv'
<1>1. tabs \in Seq(Tab) /\ Distinct(tabs) /\ \A i \in DOMAIN tabs : Regular(tabs[i], nextID)
  BY ListInvIs DEF TypeOK
<1>2. /\ tabs' \in Seq(Tab) /\ Distinct(tabs') /\ TabIDs(tabs') = TabIDs(tabs) \ {id}
      /\ \A k \in DOMAIN tabs' : \E i \in DOMAIN tabs : tabs[i].id # id /\ tabs'[k] = tabs[i]
  BY <1>1, WithoutFacts
<1>3. \A k \in DOMAIN tabs' : Regular(tabs'[k], nextID')
  BY <1>1, <1>2
<1> QED
  BY <1>2, <1>3, ListInvNext

\* One more tab was closed.
LEMMA GoneMore ==
  ASSUME TypeOK, NEW id \in 0..nextID - 1, gone' = gone \cup ({id} \ {Settings})
  PROVE  gone' \subseteq 1..nextID - 1
<1>1. id # Settings => id \in 1..nextID - 1
  BY IDFacts
<1> QED
  BY <1>1 DEF TypeOK

\* forgetTab takes a tab off the list.
LEMMA ForgetTabInv ==
  ASSUME TypeOK, IInv, mutations # <<>>, NEW t \in Threads, ForgetTab(t)
  PROVE  TypeOK' /\ IInv'
<1> DEFINE id == Head(mutations).id
           rest == <<Dispatch(Destroy(id)), Persist>>
<1>1. /\ tabs' = Without(tabs, id) /\ activeTab' = ActiveAfterForget(id)
      /\ gone' = gone \cup ({id} \ {Settings}) /\ Sends(t, "forget", rest)
      /\ UNCHANGED <<Beyond, lastCloseTab>>
  BY DEF ForgetTab
<1>2. id \in IDs /\ id \in 0..nextID - 1
  BY <1>1, SentFacts DEF Sends
<1> HIDE DEF id
<1>3. /\ rest \in Seq(Steps)
      /\ \A i \in DOMAIN rest : Plain(rest[i], nextID)
  <2>1. Plain(Persist, nextID) /\ Plain(Dispatch(Destroy(id)), nextID)
    BY <1>2, PlainSteps
  <2> QED
    BY <2>1 DEF Plain
<1> HIDE DEF rest
<1>4. activeTab' # Nobody => activeTab' \in TabIDs(tabs) \ {id}
  BY <1>1, ListInvIs DEF ActiveAfterForget, IInv
<1>5. tabs' \in Seq(Tab) /\ ListInv'
  BY <1>1, <1>4, ClosedKeeps DEF IInv, Beyond
<1>6. gone' \subseteq 1..nextID - 1
  BY <1>1, <1>2, GoneMore
<1>7. /\ activeTab' \in IDs \cup {Nobody} /\ lastCloseTab' \in IDs \cup {Nobody}
      /\ UNCHANGED Beyond
  BY <1>1 DEF TypeOK, ActiveAfterForget
<1> QED
  BY <1>1, <1>3, <1>5, <1>6, <1>7, MutationMessageInv DEF Plain

\* closeTab takes a tab off the list and activates its neighbour.
LEMMA CloseTabInv ==
  ASSUME TypeOK, IInv, mutations # <<>>, NEW t \in Threads, CloseTab(t)
  PROVE  TypeOK' /\ IInv'
<1> DEFINE id == Head(mutations).id
           rest == Without(tabs, id)
           at == Find(tabs, id)
           next == IF activeTab # id THEN activeTab
                   ELSE IF rest = <<>> THEN Nobody
                   ELSE rest[IF at > Len(rest) THEN Len(rest) ELSE at].id
           more == IF rest = <<>> \/ next = Nobody THEN <<GoHome>>
                   ELSE IF activeTab = id THEN <<SwitchTo(next)>> ELSE <<>>
           steps == <<Dispatch(Destroy(id)), Persist>> \o more
<1>1. /\ Sends(t, "close", steps) /\ id \in TabIDs(tabs)
      /\ tabs' = rest /\ activeTab' = next /\ lastCloseTab' = id
      /\ gone' = gone \cup ({id} \ {Settings})
      /\ UNCHANGED Beyond
  BY DEF CloseTab
<1>2. ListInv /\ tabs \in Seq(Tab) /\ Distinct(tabs)
  BY ListInvIs DEF IInv, TypeOK
<1>3. id \in IDs /\ id \in 0..nextID - 1
  BY <1>1, SentFacts DEF Sends
<1> HIDE DEF id
<1>4. next # Nobody => next \in TabIDs(tabs) \ {id}
  <2>1. CASE activeTab # id
    BY <1>2, <2>1, ListInvIs
  <2>2. CASE activeTab = id /\ rest # <<>>
    <3> DEFINE k == IF at > Len(rest) THEN Len(rest) ELSE at
    <3>1. rest \in Seq(Tab) /\ TabIDs(rest) = TabIDs(tabs) \ {id} /\ rest # <<>>
      BY <1>2, <2>2, WithoutFacts
    <3>2. at \in Nat \ {0}
      <4>1. at \in DOMAIN tabs
        BY <1>1, <1>2, FindFacts
      <4> QED
        BY <1>2, <4>1
    <3>3. next = rest[k].id
      BY <2>2
    <3> HIDE DEF rest, at
    <3>4. k \in DOMAIN rest
      BY <3>1, <3>2
    <3>5. rest[k].id \in TabIDs(rest)
      BY <3>4 DEF TabIDs
    <3> QED
      BY <3>1, <3>3, <3>5
  <2>3. CASE activeTab = id /\ rest = <<>>
    BY <2>3
  <2> QED
    BY <2>1, <2>2, <2>3
<1>5. next # Nobody => next \in IDs
  BY <1>2, <1>4, TabFacts, IDFacts
<1> HIDE DEF next
<1>6. steps \in Seq(Steps) /\ \A i \in DOMAIN steps : Plain(steps[i], nextID)
  <2> DEFINE first == <<Dispatch(Destroy(id)), Persist>>
  <2> HIDE DEF rest
  <2>1. /\ Plain(Persist, nextID) /\ Plain(Dispatch(Destroy(id)), nextID) /\ Plain(GoHome, nextID)
        /\ next # Nobody => Plain(SwitchTo(next), nextID)
    BY <1>3, <1>5, PlainSteps
  <2>2. /\ first \in Seq(Steps) /\ \A i \in DOMAIN first : Plain(first[i], nextID)
        /\ more \in Seq(Steps) /\ \A i \in DOMAIN more : Plain(more[i], nextID)
    BY <2>1 DEF Plain
  <2>3. steps = first \o more
    OBVIOUS
  <2> HIDE DEF first, more, steps
  <2> QED
    BY <2>2, <2>3, PlainConcat
<1> HIDE DEF steps, more, at
<1>7. tabs' \in Seq(Tab) /\ ListInv'
  BY <1>1, <1>2, <1>4, ClosedKeeps DEF Beyond
<1> HIDE DEF rest
<1>8. gone' \subseteq 1..nextID - 1
  BY <1>1, <1>3, GoneMore
<1>9. /\ activeTab' \in IDs \cup {Nobody} /\ lastCloseTab' \in IDs \cup {Nobody}
      /\ UNCHANGED Beyond
  BY <1>1, <1>3, <1>5 DEF TypeOK
<1> QED
  BY <1>1, <1>6, <1>7, <1>8, <1>9, MutationMessageInv DEF Plain

\* closeTab finds nothing to close.
LEMMA CloseNothingInv ==
  ASSUME TypeOK, IInv, mutations # <<>>, NEW t \in Threads, CloseNothing(t)
  PROVE  TypeOK' /\ IInv'
<1> DEFINE rest == <<>>
<1>1. /\ lastCloseTab' = Head(mutations).id /\ Sends(t, "close", rest)
      /\ UNCHANGED <<Beyond, tabs, activeTab, gone>>
  BY DEF CloseNothing
<1>2. Head(mutations).id \in IDs
  BY <1>1, SentFacts DEF Sends
<1>3. rest \in Seq(Steps) /\ DOMAIN rest = {}
  OBVIOUS
<1> HIDE DEF rest
<1>4. ListInv'
  BY <1>1 DEF IInv, ListInv, TabIDs, Beyond
<1>5. /\ tabs' \in Seq(Tab) /\ activeTab' \in IDs \cup {Nobody}
      /\ lastCloseTab' \in IDs \cup {Nobody} /\ UNCHANGED Beyond /\ gone' \subseteq 1..nextID - 1
  BY <1>1, <1>2 DEF TypeOK
<1> QED
  BY <1>1, <1>3, <1>4, <1>5, MutationMessageInv

\* The shell clears the active tab.
LEMMA ClearActiveTabInv ==
  ASSUME TypeOK, IInv, mutations # <<>>, NEW t \in Threads, ClearActiveTab(t)
  PROVE  TypeOK' /\ IInv'
<1> DEFINE rest == <<Dispatch(HideAll)>>
<1>1. /\ activeTab' = Nobody /\ Sends(t, "clear", rest)
      /\ UNCHANGED <<Beyond, tabs, lastCloseTab, gone>>
  BY DEF ClearActiveTab
<1>2. /\ rest \in Seq(Steps)
      /\ \A i \in DOMAIN rest : Plain(rest[i], nextID)
  <2>1. Plain(Dispatch(HideAll), nextID)
    BY PlainSteps
  <2> QED
    BY <2>1 DEF Plain
<1> HIDE DEF rest
<1>3. ListInv'
  BY <1>1 DEF IInv, ListInv, TabIDs, Beyond
<1>4. /\ tabs' \in Seq(Tab) /\ activeTab' \in IDs \cup {Nobody}
      /\ lastCloseTab' \in IDs \cup {Nobody} /\ UNCHANGED Beyond /\ gone' \subseteq 1..nextID - 1
  BY <1>1 DEF TypeOK
<1> QED
  BY <1>1, <1>2, <1>3, <1>4, MutationMessageInv DEF Plain

\* handleSaveTabs is left with the list it was sent.
LEMMA HandleSaveTabsInv ==
  ASSUME TypeOK, IInv, NEW t \in Threads, HandleSaveTabs(t)
  PROVE  TypeOK' /\ IInv'
<1> DEFINE session == Sanitized(DedupedTabs(Saveable(tabs)))
           rest == <<SaveTabs(session)>>
<1>1. /\ Message(t, rest)
      /\ UNCHANGED <<Elsewhere, ShellQueue, tabs, activeTab, lastCloseTab, restored, nextID, gone>>
  BY DEF HandleSaveTabs
<1>2. session \in Seq(SavedTab)
  BY SaveableType, SessionTypes DEF TypeOK
<1> HIDE DEF session
<1>3. rest \in Seq(Steps) /\ \A i \in DOMAIN rest : Plain(rest[i], nextID')
  <2>1. Plain(SaveTabs(session), nextID')
    BY <1>2, PlainSteps
  <2> QED
    BY <2>1 DEF Plain
<1> HIDE DEF rest
<1>4. ListInv'
  BY <1>1 DEF IInv, ListInv, TabIDs
<1>5. /\ tabs' \in Seq(Tab) /\ activeTab' \in IDs \cup {Nobody}
      /\ lastCloseTab' \in IDs \cup {Nobody} /\ restored' \in BOOLEAN
      /\ UNCHANGED <<Elsewhere, ShellQueue, gone>>
      /\ nextID' \in 1..MaxTabs + 1 /\ nextID <= nextID'
  BY <1>1, IDFacts DEF TypeOK
<1> QED
  BY <1>1, <1>3, <1>4, <1>5, PlainMessageInv

\* What registerLocalTab leaves to do: the tab that the shell names, for its second locked
\* section, and the persist after it, or nothing.
LEMMA RegisterStepsFacts ==
  ASSUME TypeOK, NEW id \in IDs, id < nextID, NEW kind \in {"browser", "remote"},
         NEW u \in Urls \cup {Blank, Missing}
  PROVE  \/ RegisterSteps(id, kind, u) = <<>>
         \/ \E tab \in Tab : /\ tab.id = id /\ Regular(tab, nextID)
                             /\ RegisterSteps(id, kind, u) = <<Upsert(tab), Persist>>
<1>1. CASE id = Settings
  BY <1>1, IDFacts, SettingsIsRegular DEF RegisterSteps
<1>2. CASE id # Settings /\ (Listed(id, u) \in Urls \/ (kind = "browser" /\ u = Blank))
  <2> DEFINE tab == [id |-> id, kind |-> kind, url |-> Listed(id, u)]
  <2>1. Listed(id, u) \in Urls \cup {Blank}
    BY <1>2, TabsAssumption DEF Listed
  <2>2. tab \in Tab /\ tab.id = id
    BY <2>1, IDFacts DEF Kinds
  <2>3. RegisterSteps(id, kind, u) = <<Upsert(tab), Persist>>
    BY <1>2 DEF RegisterSteps
  <2> HIDE DEF tab
  <2>4. Regular(tab, nextID)
    BY <1>2, <2>2 DEF Regular
  <2> QED
    BY <2>2, <2>3, <2>4
<1>3. CASE id # Settings /\ ~(Listed(id, u) \in Urls \/ (kind = "browser" /\ u = Blank))
  BY <1>3 DEF RegisterSteps
<1> QED
  BY <1>1, <1>2, <1>3

\* registerLocalTab ends its first locked section.
LEMMA RegisterLocalTabInv ==
  ASSUME TypeOK, IInv, mutations # <<>>, NEW t \in Threads, RegisterLocalTab(t)
  PROVE  TypeOK' /\ IInv'
<1> DEFINE id == Head(mutations).id
<1>1. PICK kind \in {"browser", "remote"}, u \in Urls \cup {Blank, Missing} :
        Sends(t, "register", RegisterSteps(id, kind, u))
  BY DEF RegisterLocalTab
<1>2. UNCHANGED <<Beyond, tabs, activeTab, lastCloseTab, gone>>
  BY DEF RegisterLocalTab
<1>3. id \in IDs /\ id < nextID /\ id \in May'
  <2>1. mutations \in Seq(Mutations) /\ Pending(mutations, shellTabs, nextID)
    BY PendingInvIs DEF TypeOK, IInv
  <2>2. Head(mutations).op = "register" /\ mutations' = Tail(mutations) /\ shellTabs' = shellTabs
    BY <1>1, <1>2 DEF Sends, Beyond
  <2>3. id \in IDs /\ id < nextID
    BY <2>1, <2>2, SentFacts, PendingSent
  <2>4. \/ id = Settings \/ id \in shellTabs
        \/ \E j \in DOMAIN mutations' : mutations'[j] = Close(id)
    BY <2>1, <2>2, PendingSent
  <2> QED
    BY <2>2, <2>3, <2>4 DEF May, ShownOrClosing, ClosePending
<1>4. /\ ListInv'
      /\ tabs' \in Seq(Tab) /\ activeTab' \in IDs \cup {Nobody}
      /\ lastCloseTab' \in IDs \cup {Nobody} /\ UNCHANGED Beyond /\ gone' \subseteq 1..nextID - 1
  BY <1>2 DEF TypeOK, IInv, ListInv, TabIDs, Beyond
<1> HIDE DEF id
<1>5. CASE RegisterSteps(id, kind, u) = <<>>
  <2> DEFINE rest == <<>>
  <2>1. rest \in Seq(Steps) /\ DOMAIN rest = {} /\ Sends(t, "register", rest)
    BY <1>1, <1>5
  <2> HIDE DEF rest
  <2> QED
    BY <1>4, <2>1, MutationMessageInv
<1>6. ASSUME NEW tab \in Tab, tab.id = id, Regular(tab, nextID),
             RegisterSteps(id, kind, u) = <<Upsert(tab), Persist>>
      PROVE  TypeOK' /\ IInv'
  <2> DEFINE rest == <<Upsert(tab), Persist>>
  <2>1. /\ rest \in Seq(Steps) /\ DOMAIN rest = 1..2 /\ rest[2] = Persist
        /\ \A i \in DOMAIN rest : rest[i] # Resolution /\ Known(rest[i], nextID)
        /\ \A i \in DOMAIN rest : rest[i].do = "upsert" => i = 1 /\ rest[i].tab = tab
    <3>1. /\ Upsert(tab) \in Steps /\ Upsert(tab).do = "upsert" /\ Upsert(tab).tab = tab
          /\ Persist \in Steps /\ Persist.do = "persist"
          /\ Resolution.do = "dispatch"
      BY StepFacts, ResolutionFacts
    <3> QED
      BY <3>1 DEF Known
  <2>2. Sends(t, "register", rest)
    BY <1>1, <1>6
  <2> HIDE DEF rest
  <2>3. \A i \in DOMAIN rest : rest[i].do = "upsert" =>
          /\ Regular(rest[i].tab, nextID) /\ rest[i].tab.id \in May'
          /\ \E j \in DOMAIN rest : j > i /\ rest[j] = Persist
    BY <1>3, <1>6, <2>1
  <2> QED
    BY <1>4, <2>1, <2>2, <2>3, MutationMessageInv
<1> QED
  BY <1>3, <1>5, <1>6, RegisterStepsFacts

\* shellTabs restores the saved session under new IDs, or only lists the tabs.
LEMMA ShellTabsInv ==
  ASSUME TypeOK, IInv, NEW t \in Threads, ShellTabs(t)
  PROVE  TypeOK' /\ IInv'
<1> DEFINE session == Sanitized(openTabs)
           restore == ~restored /\ restoreTabs /\ tabs = <<>>
           list == [i \in DOMAIN session |-> [id |-> nextID + i - 1, kind |-> session[i].kind,
                                              url |-> session[i].url]]
<1>1. /\ restored' = TRUE /\ (restore => nextID + Len(session) <= MaxTabs + 1)
      /\ tabs' = (IF ~restore THEN tabs ELSE list)
      /\ activeTab' = (IF restore /\ session # <<>> THEN nextID ELSE activeTab)
      /\ nextID' = (IF restore THEN nextID + Len(session) ELSE nextID)
      /\ shellTabs' = shellTabs \cup {id \in TabIDs(tabs') : ~ClosePending(id)}
      /\ Message(t, <<>>) /\ UNCHANGED <<Elsewhere, mutations, mutating, lastCloseTab, gone>>
  BY DEF ShellTabs
<1>2. session \in Seq(SavedTab)
  BY SessionTypes DEF TypeOK
<1>3. ListInv /\ tabs \in Seq(Tab)
  BY DEF IInv, TypeOK
<1>4. <<>> \in Seq(Steps) /\ \A i \in DOMAIN <<>> : Plain(<<>>[i], nextID')
  OBVIOUS
<1> HIDE DEF session
<1>5. /\ restored' \in BOOLEAN /\ lastCloseTab' \in IDs \cup {Nobody}
      /\ UNCHANGED <<Elsewhere, mutations, mutating, gone>>
  BY <1>1 DEF TypeOK
<1>8. ASSUME tabs' \in Seq(Tab), nextID' \in 1..MaxTabs + 1, nextID <= nextID',
             \A i \in DOMAIN tabs' : tabs'[i].id < nextID'
      PROVE  /\ shellTabs \subseteq shellTabs' /\ shellTabs' \subseteq IDs
             /\ \A id \in shellTabs' : id < nextID'
  <2>1. shellTabs \subseteq IDs /\ \A id \in shellTabs : id < nextID
    BY DEF TypeOK, IInv, ShellInv
  <2>2. \A id \in shellTabs : id < nextID'
    BY <1>8, <2>1, IDFacts
  <2>3. \A id \in TabIDs(tabs') : id \in IDs /\ id < nextID'
    <3>1. \A i \in DOMAIN tabs' : tabs'[i] \in Tab
      BY <1>8
    <3> QED
      BY <1>8, <3>1 DEF TabIDs, Tab
  <2> QED
    BY <1>1, <2>1, <2>2, <2>3
<1>6. CASE ~restore
  <2>1. /\ tabs' = tabs /\ activeTab' = activeTab /\ nextID' = nextID
    BY <1>1, <1>6
  <2>2. ListInv'
    BY <1>1, <1>3, <2>1 DEF ListInv, TabIDs
  <2>3. /\ tabs' \in Seq(Tab) /\ activeTab' \in IDs \cup {Nobody}
        /\ nextID' \in 1..MaxTabs + 1 /\ nextID <= nextID'
    BY <2>1, IDFacts DEF TypeOK
  <2>4. /\ shellTabs \subseteq shellTabs' /\ shellTabs' \subseteq IDs
        /\ \A id \in shellTabs' : id < nextID'
    BY <1>8, <2>2, <2>3 DEF ListInv
  <2> QED
    BY <1>1, <1>4, <1>5, <2>2, <2>3, <2>4, MessageInv
<1>7. CASE restore
  <2>1. /\ tabs' = list /\ nextID' = nextID + Len(session) /\ tabs = <<>>
        /\ nextID + Len(session) <= MaxTabs + 1
        /\ activeTab' = (IF session # <<>> THEN nextID ELSE activeTab)
    BY <1>1, <1>7
  <2>2. Len(session) \in Nat /\ DOMAIN session = 1..Len(session)
    BY <1>2
  <2>3. nextID' \in 1..MaxTabs + 1 /\ nextID' \in Nat /\ nextID <= nextID'
    BY <2>1, <2>2, IDFacts
  <2>4. ASSUME NEW i \in DOMAIN session
        PROVE  /\ list[i] \in Tab /\ list[i].id = nextID + i - 1
               /\ Regular(list[i], nextID')
    <3>1. nextID + i - 1 \in IDs /\ nextID + i - 1 < nextID' /\ nextID + i - 1 > nextID - 1
      BY <2>1, <2>2, IDFacts
    <3>2. session[i].kind \in Kinds /\ session[i].url \in Urls \cup {Blank}
      <4>1. session[i] \in SavedTab
        BY <1>2
      <4> QED
        BY <4>1 DEF SavedTab, Kinds
    <3>3. list[i] = [id |-> nextID + i - 1, kind |-> session[i].kind, url |-> session[i].url]
      OBVIOUS
    <3>4. list[i] \in Tab /\ list[i].id = nextID + i - 1
      BY <3>1, <3>2, <3>3, IDFacts
    <3>5. nextID + i - 1 # Settings
      BY <2>2, IDFacts DEF Settings
    <3> QED
      BY <1>1, <3>1, <3>4, <3>5 DEF Regular
  <2>5. DOMAIN list = 1..Len(session)
    BY <2>2
  <2> HIDE DEF list
  <2>6. tabs' \in Seq(Tab)
    <3>1. \A i \in 1..Len(session) : list[i] \in Tab
      BY <2>2, <2>4
    <3>2. list = [i \in 1..Len(session) |-> list[i]]
      BY <2>2 DEF list
    <3> QED
      BY <2>1, <2>2, <3>1, <3>2
  <2>7. Distinct(tabs')
    <3> SUFFICES ASSUME NEW i \in DOMAIN tabs', NEW j \in DOMAIN tabs', tabs'[i].id = tabs'[j].id
                 PROVE  i = j
      BY Zenon DEF Distinct
    <3>1. i \in 1..Len(session) /\ j \in 1..Len(session) /\ nextID + i - 1 = nextID + j - 1
      BY <2>1, <2>2, <2>4, <2>5
    <3> QED
      BY <2>2, <3>1, IDFacts
  <2>8. \A i \in DOMAIN tabs' : Regular(tabs'[i], nextID')
    BY <2>1, <2>2, <2>4, <2>5
  <2>11. /\ shellTabs \subseteq shellTabs' /\ shellTabs' \subseteq IDs
         /\ \A id \in shellTabs' : id < nextID'
    BY <1>8, <2>3, <2>6, <2>8 DEF Regular
  <2>9. CASE session # <<>>
    <3>1. 1 \in DOMAIN session
      BY <1>2, <2>9
    <3>2. 1 \in DOMAIN tabs' /\ tabs'[1].id = nextID
      BY <2>1, <2>2, <2>4, <2>5, <3>1, IDFacts
    <3>3. activeTab' = nextID /\ activeTab' \in TabIDs(tabs')
      BY <2>1, <2>9, <3>2 DEF TabIDs
    <3>4. nextID \in IDs
      BY <2>1, <2>2, <3>1, IDFacts
    <3>5. ListInv' /\ activeTab' \in IDs \cup {Nobody}
      BY <2>7, <2>8, <3>3, <3>4, ListInvNext
    <3> QED
      BY <1>1, <1>4, <1>5, <2>3, <2>6, <2>11, <3>5, MessageInv
  <2>10. CASE session = <<>>
    <3>1. TabIDs(tabs) = {}
      BY <2>1 DEF TabIDs
    <3>2. activeTab' = Nobody
      BY <1>3, <2>1, <2>10, <3>1, ListInvIs
    <3>3. ListInv' /\ activeTab' \in IDs \cup {Nobody}
      BY <2>7, <2>8, <3>2, ListInvNext
    <3> QED
      BY <1>1, <1>4, <1>5, <2>3, <2>6, <2>11, <3>3, MessageInv
  <2> QED
    BY <2>9, <2>10
<1> QED
  BY <1>6, <1>7

-----------------------------------------------------------------------------
\* What the user does in the shell.

\* A mutation is put into the shell's queue.
LEMMA ClickInv ==
  ASSUME TypeOK, IInv, NEW m \in Mutations, Click(m), UNCHANGED Program,
         shellTabs' \subseteq IDs, \A id \in shellTabs' : id < nextID',
         nextID' \in 1..MaxTabs + 1, nextID <= nextID',
         m.op # "clear" => m.id < nextID',
         m.op = "register" => m.id = Settings \/ m.id \in shellTabs',
         \A id \in shellTabs : id \in shellTabs' \/ id = Settings \/ m = Close(id)
  PROVE  TypeOK' /\ IInv'
<1>0. /\ ListInv /\ ShellInv /\ PendingInv /\ RegisterInv /\ MutationInv
      /\ mutations \in Seq(Mutations) /\ mutations' = Append(mutations, m)
      /\ messages < MaxMessages /\ messages' = messages + 1
      /\ nextID \in Nat /\ nextID' \in Nat
  BY IDFacts DEF IInv, TypeOK, Click
<1>1. /\ UNCHANGED <<tabs, activeTab, lastCloseTab, openTabs, savedTabs, restoreTabs, restored,
                     locked, configSaveMu, todo, queue, closed, views, shown, mutating, gone,
                     saveOK>>
  BY DEF Program
<1>2. mutations' \in Seq(Mutations) /\ Pending(mutations', shellTabs', nextID')
  <2>1. mutations' \in Seq(Mutations)
    BY <1>0
  <2>2. Pending(mutations, shellTabs, nextID)
    BY <1>0, PendingInvIs
  <2>3. Pending(Append(mutations, m), shellTabs', nextID')
    BY <1>0, <2>2, PendingAppended
  <2> QED
    BY <1>0, <2>1, <2>3
<1>3. May \subseteq May'
  <2>1. ASSUME NEW id \in IDs, ClosePending(id) PROVE ClosePending(id)'
    <3>1. PICK i \in DOMAIN mutations : mutations[i] = Close(id)
      BY <2>1 DEF ClosePending
    <3>2. i \in DOMAIN mutations' /\ mutations'[i] = Close(id)
      BY <1>0, <3>1
    <3> QED
      BY <3>2 DEF ClosePending
  <2>2. ASSUME NEW id \in IDs, m = Close(id) PROVE ClosePending(id)'
    <3>1. Len(mutations) + 1 \in DOMAIN mutations' /\ mutations'[Len(mutations) + 1] = Close(id)
      BY <1>0, <2>2
    <3> QED
      BY <3>1 DEF ClosePending
  <2>3. shellTabs \subseteq IDs
    BY DEF TypeOK
  <2> QED
    BY <2>1, <2>2, <2>3 DEF May, ShownOrClosing
<1>4. ShellInv'
  <2>1. ASSUME NEW i \in DOMAIN queue', queue'[i].fn = "show" PROVE queue'[i].id < nextID'
    <3>1. queue[i] \in Work /\ queue[i].fn = "show" /\ queue[i].id < nextID
      BY <1>0, <1>1, <2>1 DEF ShellInv, TypeOK
    <3>2. queue[i].id \in Nat
      BY <3>1, WorkFacts, IDFacts
    <3> QED
      BY <1>0, <1>1, <3>1, <3>2
  <2> QED
    BY <2>1 DEF ShellInv
<1>5. RegisterInv'
  <2>1. ASSUME NEW t \in Everyone PROVE Registers(todo'[t], nextID', May')
    <3>1. Registers(todo[t], nextID, May) /\ todo[t] \in Seq(Steps)
      BY <1>0, RegisterInvIs DEF TypeOK, Everyone
    <3>2. Registers(todo[t], nextID', May')
      BY <1>0, <1>3, <3>1, RegistersGrow
    <3> QED
      BY <1>1, <3>2
  <2> QED
    BY <2>1, RegisterInvNext
<1>6. MutationInv'
  BY <1>0, <1>1 DEF MutationInv
<1>7. ListInv'
  <2>1. /\ tabs' \in Seq(Tab) /\ Distinct(tabs') /\ \A k \in DOMAIN tabs' : tabs'[k] = tabs[k]
        /\ activeTab' # Nobody => activeTab' \in TabIDs(tabs')
    BY <1>0, <1>1, ListInvIs DEF TypeOK
  <2> QED
    BY <1>0, <1>1, <2>1, ListKept
<1>8. TypeOK'
  <2>1. gone' \subseteq 1..nextID' - 1
    <3>1. 1..nextID - 1 \subseteq 1..nextID' - 1
      BY <1>0, MoreIDs
    <3> QED
      BY <1>1, <3>1 DEF TypeOK
  <2>2. messages' \in 0..MaxMessages
    BY <1>0, TabsAssumption DEF TypeOK
  <2> QED
    BY <1>1, <1>2, <2>1, <2>2, ZenonT(40) DEF TypeOK
<1> QED
  BY <1>2, <1>4, <1>5, <1>6, <1>7, <1>8, PendingInvNext DEF IInv

\* The user moves, closes or changes a tab that the shell shows.
LEMMA ClickTabInv == ASSUME TypeOK, IInv, ClickTab PROVE TypeOK' /\ IInv'
<1>0. /\ UNCHANGED Program /\ nextID' = nextID /\ nextID' \in 1..MaxTabs + 1 /\ nextID <= nextID'
      /\ shellTabs \subseteq IDs /\ \A id \in shellTabs : id < nextID'
      /\ Settings \in IDs /\ Settings < nextID'
      /\ \A id \in 1..nextID - 1 : id \in IDs /\ id < nextID'
  BY IDFacts DEF ClickTab, TypeOK, IInv, ShellInv
<1>1. ASSUME NEW id \in shellTabs, Click(Mutation("reorder", id)), UNCHANGED shellTabs
      PROVE  TypeOK' /\ IInv'
  <2> DEFINE m == Mutation("reorder", id)
  <2>1. m \in Mutations /\ m.op = "reorder" /\ m.id = id /\ Click(m)
    BY <1>0, <1>1, MutationFacts DEF Mutation
  <2> HIDE DEF m
  <2> QED
    BY <1>0, <1>1, <2>1, ClickInv
<1>2. ASSUME Click(Mutation("forget", Settings)), shellTabs' = shellTabs \ {Settings}
      PROVE  TypeOK' /\ IInv'
  <2> DEFINE m == Mutation("forget", Settings)
  <2>1. m \in Mutations /\ m.op = "forget" /\ m.id = Settings /\ Click(m)
    BY <1>0, <1>2, MutationFacts DEF Mutation
  <2> HIDE DEF m
  <2> QED
    BY <1>0, <1>2, <2>1, ClickInv
<1>3. ASSUME NEW id \in 1..nextID - 1, Click(Close(id)), shellTabs' = shellTabs \ {id}
      PROVE  TypeOK' /\ IInv'
  <2> DEFINE m == Close(id)
  <2>1. m \in Mutations /\ m.op = "close" /\ m.id = id /\ Click(m) /\ m = Close(id)
    BY <1>0, <1>3, MutationFacts
  <2> HIDE DEF m
  <2> QED
    BY <1>0, <1>3, <2>1, ClickInv
<1>4. ASSUME NEW id \in shellTabs \cup {Settings}, Click(Register(id)), UNCHANGED shellTabs
      PROVE  TypeOK' /\ IInv'
  <2> DEFINE m == Register(id)
  <2>1. m \in Mutations /\ m.op = "register" /\ m.id = id /\ Click(m)
    BY <1>0, <1>4, MutationFacts
  <2> HIDE DEF m
  <2> QED
    BY <1>0, <1>4, <2>1, ClickInv
<1>5. ASSUME Click(Clear), UNCHANGED shellTabs PROVE TypeOK' /\ IInv'
  <2> DEFINE m == Clear
  <2>1. m \in Mutations /\ m.op = "clear" /\ Click(m)
    BY <1>5, MutationFacts
  <2> HIDE DEF m
  <2> QED
    BY <1>0, <1>5, <2>1, ClickInv
<1> QED
  BY <1>1, <1>2, <1>3, <1>4, <1>5 DEF ClickTab

\* The shell makes a tab with the next ID.
LEMMA ClickNewTabInv == ASSUME TypeOK, IInv, ClickNewTab PROVE TypeOK' /\ IInv'
<1> DEFINE m == Register(nextID)
<1>1. /\ nextID <= MaxTabs /\ nextID' = nextID + 1 /\ Click(m) /\ UNCHANGED Program
      /\ shellTabs' = shellTabs \cup {nextID}
  BY DEF ClickNewTab
<1>2. /\ nextID \in IDs /\ nextID' \in 1..MaxTabs + 1 /\ nextID <= nextID' /\ nextID < nextID'
      /\ shellTabs \subseteq IDs /\ \A id \in shellTabs : id < nextID'
  BY <1>1, IDFacts DEF TypeOK, IInv, ShellInv
<1>3. m \in Mutations /\ m.op = "register" /\ m.id = nextID
  BY <1>2, MutationFacts
<1> HIDE DEF m
<1> QED
  BY <1>1, <1>2, <1>3, ClickInv

-----------------------------------------------------------------------------
\* The steps of the goroutines and of the GTK thread.

\* The next step of a goroutine is a step.
LEMMA HeadFacts ==
  ASSUME TypeOK, NEW t \in Everyone, todo[t] # <<>>
  PROVE  Head(todo[t]) \in Steps
BY DEF TypeOK, Everyone

\* The next step of a goroutine shows a tab that has been given out.
LEMMA HeadIsKnown ==
  ASSUME TypeOK, IInv, NEW t \in Everyone, todo[t] # <<>>
  PROVE  Registers(todo[t], nextID, May) /\ Known(Head(todo[t]), nextID)
<1>1. Registers(todo[t], nextID, May)
  BY RegisterInvIs DEF IInv
<1>2. todo[t] \in Seq(Steps)
  BY DEF TypeOK, Everyone
<1>3. 1 \in DOMAIN todo[t] /\ todo[t][1] = Head(todo[t])
  BY <1>2
<1> QED
  BY <1>1, <1>3, Zenon DEF Registers

\* The shell and its queue stand still, and the GTK thread is to show no unknown tab.
LEMMA ShellSame ==
  ASSUME TypeOK, IInv, UNCHANGED <<ShellQueue, nextID>>,
         \A i \in DOMAIN queue' : queue'[i].fn = "show" => queue'[i].id < nextID
  PROVE  ShellInv' /\ PendingInv' /\ May' = May
<1>1. /\ UNCHANGED <<shellTabs, mutations, nextID>> /\ nextID \in Nat
      /\ ShellInv /\ PendingInv /\ \A id \in shellTabs : id < nextID
  BY IDFacts DEF ShellQueue, IInv, ShellInv
<1>2. ShellInv' /\ PendingInv'
  BY <1>1, ShellKept
<1>3. May' = May
  BY <1>1 DEF May, ShownOrClosing, ClosePending
<1> QED
  BY <1>2, <1>3

\* A goroutine does a step that leaves the shell and the GTK thread's queue alone.
LEMMA QuietStep ==
  ASSUME TypeOK, IInv, NEW t \in Everyone, todo[t] # <<>>, NEW more \in Seq(Steps),
         \A i \in DOMAIN more : /\ more[i].do # "upsert" /\ more[i] # Resolution
                                /\ Known(more[i], nextID),
         todo' = [todo EXCEPT ![t] = more \o Tail(@)], UNCHANGED <<ShellQueue, nextID, queue>>
  PROVE  /\ todo' \in [Everyone -> Seq(Steps)] /\ RegisterInv' /\ MutationInv'
         /\ ShellInv' /\ PendingInv'
<1>1. /\ UNCHANGED <<mutating, nextID, queue>> /\ RegisterInv /\ MutationInv
      /\ queue' \in Seq(Work)
      /\ \A i \in DOMAIN queue' : queue'[i] = Resolve => i \in DOMAIN queue /\ queue[i] = Resolve
  BY DEF ShellQueue, IInv, TypeOK
<1>2. ShellInv' /\ PendingInv' /\ May' = May
  BY ShellSame DEF IInv, ShellInv
<1>3. todo' \in [Everyone -> Seq(Steps)] /\ RegisterInv' /\ MutationInv'
  BY <1>1, <1>2, PlainDone
<1> QED
  BY <1>2, <1>3

\* persistOpenTabs collects the tabs.
LEMMA BeginPersistInv ==
  ASSUME TypeOK, IInv, NEW t \in Everyone, BeginPersist(t)
  PROVE  TypeOK' /\ IInv'
<1>0. /\ configSaveMu' = t
      /\ UNCHANGED <<tabs, activeTab, lastCloseTab, openTabs, savedTabs, restoreTabs, restored,
                     locked, queue, closed, views, shown, ShellQueue, nextID, gone, saveOK,
                     messages>>
  BY DEF BeginPersist
<1>1. PICK session \in Seq(SavedTab), own \in BOOLEAN :
        todo[t] # <<>> /\ todo' = [todo EXCEPT ![t] = <<SaveList(session, own)>> \o Tail(@)]
  <2>1. CASE Does(t, Persist, <<SaveList(Saveable(tabs), TRUE)>>)
    <3>1. Saveable(tabs) \in Seq(SavedTab)
      BY SaveableType DEF TypeOK
    <3> QED
      BY <2>1, <3>1 DEF Does
  <2>2. CASE /\ todo[t] # <<>> /\ Head(todo[t]).do = "saveTabs"
             /\ Does(t, Head(todo[t]), <<SaveList(Head(todo[t]).session, FALSE)>>)
    <3>1. Head(todo[t]).session \in Seq(SavedTab)
      BY <2>2, HeadFacts, StepShape
    <3> QED
      BY <2>2, <3>1 DEF Does
  <2> QED
    BY <2>1, <2>2 DEF BeginPersist
<1> DEFINE more == <<SaveList(session, own)>>
<1>2. /\ more \in Seq(Steps)
      /\ \A i \in DOMAIN more : /\ more[i].do # "upsert" /\ more[i] # Resolution
                                /\ Known(more[i], nextID)
  <2>1. SaveList(session, own) \in Steps /\ SaveList(session, own).do = "save"
    BY StepFacts
  <2>2. SaveList(session, own) # Resolution /\ Known(SaveList(session, own), nextID)
    BY <2>1, ResolutionFacts DEF Known
  <2> QED
    BY <2>1, <2>2
<1>3. todo' = [todo EXCEPT ![t] = more \o Tail(@)]
  BY <1>1
<1> HIDE DEF more
<1>4. /\ todo' \in [Everyone -> Seq(Steps)] /\ RegisterInv' /\ MutationInv'
      /\ ShellInv' /\ PendingInv'
  BY <1>0, <1>1, <1>2, <1>3, QuietStep
<1>5. TypeOK'
  BY <1>0, <1>4 DEF TypeOK, Everyone, ShellQueue
<1>6. ListInv'
  BY <1>0 DEF IInv, ListInv, TabIDs
<1> QED
  BY <1>4, <1>5, <1>6 DEF IInv

\* persistOpenTabs has saved them.
LEMMA EndPersistInv ==
  ASSUME TypeOK, IInv, NEW t \in Everyone, EndPersist(t)
  PROVE  TypeOK' /\ IInv'
<1>0. /\ todo[t] # <<>> /\ Head(todo[t]).do = "save"
      /\ todo' = [todo EXCEPT ![t] = <<>> \o Tail(@)]
      /\ UNCHANGED <<tabs, activeTab, lastCloseTab, restoreTabs, restored, locked, queue,
                     closed, views, shown, ShellQueue, nextID, gone, messages>>
  BY DEF EndPersist, Does
<1>1. /\ <<>> \in Seq(Steps)
      /\ \A i \in DOMAIN <<>> : /\ <<>>[i].do # "upsert" /\ <<>>[i] # Resolution
                                /\ Known(<<>>[i], nextID)
  OBVIOUS
<1>2. /\ todo' \in [Everyone -> Seq(Steps)] /\ RegisterInv' /\ MutationInv'
      /\ ShellInv' /\ PendingInv'
  BY <1>0, <1>1, QuietStep
<1>3. /\ configSaveMu' = Nobody /\ openTabs' \in Seq(SavedTab) /\ savedTabs' \in Seq(SavedTab)
      /\ saveOK' \in BOOLEAN
  <2>1. Head(todo[t]).session \in Seq(SavedTab) /\ Head(todo[t]).own \in BOOLEAN
    BY <1>0, HeadFacts, StepShape
  <2>2. Sanitized(Head(todo[t]).session) \in Seq(SavedTab)
    BY <2>1, SessionTypes
  <2> QED
    BY <2>1, <2>2 DEF EndPersist, FailedSaveUnlock, TypeOK
<1>4. TypeOK'
  BY <1>0, <1>2, <1>3 DEF TypeOK, Everyone, ShellQueue
<1>5. ListInv'
  BY <1>0 DEF IInv, ListInv, TabIDs
<1> QED
  BY <1>2, <1>4, <1>5 DEF IInv

\* onUIThread queues a function, the answer to the shell among them.
LEMMA QueueWorkInv ==
  ASSUME TypeOK, IInv, NEW t \in Everyone, QueueWork(t)
  PROVE  TypeOK' /\ IInv'
<1> DEFINE f == Head(todo[t]).work
<1>0. /\ todo[t] # <<>> /\ Head(todo[t]).do = "dispatch"
      /\ todo' = [todo EXCEPT ![t] = <<>> \o Tail(@)]
      /\ queue' = (IF closed THEN <<>> ELSE Append(queue, f))
      /\ UNCHANGED <<tabs, activeTab, lastCloseTab, openTabs, savedTabs, restoreTabs, restored,
                     locked, configSaveMu, closed, views, shown, ShellQueue, nextID, gone,
                     saveOK, messages>>
      /\ ListInv /\ RegisterInv /\ MutationInv
  BY DEF QueueWork, Does, IInv
<1>1. f \in Work /\ Head(todo[t]) = Dispatch(f) /\ (f.fn = "show" => f.id < nextID)
  BY <1>0, HeadFacts, StepShape, HeadIsKnown DEF Known
<1> HIDE DEF f
<1>2. queue \in Seq(Work) /\ queue' \in Seq(Work) /\ (closed' => queue' = <<>>)
  BY <1>0, <1>1 DEF TypeOK
<1>3. ShellInv' /\ PendingInv' /\ May' = May
  <2>1. ASSUME NEW i \in DOMAIN queue', queue'[i].fn = "show" PROVE queue'[i].id < nextID
    <3>1. queue'[i] = f \/ \E j \in DOMAIN queue : queue'[i] = queue[j]
      BY <1>0, <1>1, <1>2, <2>1
    <3>2. \A j \in DOMAIN queue : queue[j].fn = "show" => queue[j].id < nextID
      BY DEF IInv, ShellInv
    <3> QED
      BY <1>1, <2>1, <3>1, <3>2
  <2> QED
    BY <1>0, <2>1, ShellSame
<1>4. todo' \in [Everyone -> Seq(Steps)] /\ RegisterInv' /\ MutationInv'
  <2>0. UNCHANGED <<mutating, nextID>>
    BY <1>0 DEF ShellQueue
  <2>1. CASE f = Resolve /\ ~closed
    <3>1. Head(todo[t]) = Resolution /\ queue' = Append(queue, Resolve)
      BY <1>0, <1>1, <2>1 DEF Resolution
    <3> QED
      BY <1>0, <1>3, <2>0, <3>1, AnswerQueued
  <2>2. CASE f # Resolve \/ closed
    <3>1. \A i \in DOMAIN queue' : queue'[i] = Resolve => i \in DOMAIN queue /\ queue[i] = Resolve
      <4>1. CASE closed
        BY <1>0, <4>1
      <4>2. CASE ~closed /\ f # Resolve
        BY <1>0, <1>1, <1>2, <4>2
      <4> QED
        BY <2>2, <4>1, <4>2
    <3>2. /\ <<>> \in Seq(Steps)
          /\ \A i \in DOMAIN <<>> : /\ <<>>[i].do # "upsert" /\ <<>>[i] # Resolution
                                    /\ Known(<<>>[i], nextID)
      OBVIOUS
    <3> QED
      BY <1>0, <1>2, <1>3, <2>0, <3>1, <3>2, PlainDone
  <2> QED
    BY <2>1, <2>2
<1>5. TypeOK'
  BY <1>0, <1>2, <1>4 DEF TypeOK, Everyone, ShellQueue
<1>6. ListInv'
  BY <1>0 DEF ListInv, TabIDs
<1> QED
  BY <1>3, <1>4, <1>5, <1>6 DEF IInv

\* The tab that registerLocalTab writes.
LEMMA RegisteredTab ==
  ASSUME TypeOK, IInv, NEW t \in Everyone, todo[t] # <<>>, Head(todo[t]).do = "upsert"
  PROVE  /\ Head(todo[t]).tab \in Tab /\ Regular(Head(todo[t]).tab, nextID)
         /\ Head(todo[t]).tab.id \in May
<1>1. Registers(todo[t], nextID, May)
  BY HeadIsKnown
<1>2. todo[t] \in Seq(Steps)
  BY DEF TypeOK, Everyone
<1>3. 1 \in DOMAIN todo[t] /\ todo[t][1] = Head(todo[t])
  BY <1>2
<1>4. Regular(Head(todo[t]).tab, nextID) /\ Head(todo[t]).tab.id \in May
  BY <1>1, <1>3 DEF Registers
<1> QED
  BY <1>4, HeadFacts, StepShape

\* registerLocalTab writes a tab, one that was closed meanwhile too.
LEMMA EndRegisterInv ==
  ASSUME TypeOK, IInv, NEW t \in Everyone, EndRegister(t)
  PROVE  TypeOK' /\ IInv'
<1> DEFINE tab == Head(todo[t]).tab
<1>0. /\ todo[t] # <<>> /\ Head(todo[t]).do = "upsert"
      /\ todo' = [todo EXCEPT ![t] = <<>> \o Tail(@)]
      /\ UpsertTab(tab)
      /\ UNCHANGED <<Elsewhere, ShellQueue, lastCloseTab, restored, nextID, gone, messages>>
  BY DEF EndRegister, Does
<1>1. tab \in Tab /\ Regular(tab, nextID)
  BY <1>0, RegisteredTab
<1> HIDE DEF tab
<1>2. /\ tabs' = Upserted(tabs, tab)
      /\ activeTab' = IF tab.id \in TabIDs(tabs) THEN activeTab ELSE tab.id
  BY <1>0 DEF UpsertTab
<1>3. /\ tabs \in Seq(Tab) /\ Distinct(tabs) /\ (activeTab # Nobody => activeTab \in TabIDs(tabs))
      /\ ListInv
  BY ListInvIs DEF TypeOK, IInv
<1>4. /\ tabs' \in Seq(Tab) /\ Distinct(tabs') /\ TabIDs(tabs') = TabIDs(tabs) \cup {tab.id}
      /\ \A k \in DOMAIN tabs' : tabs'[k] = tab \/ \E i \in DOMAIN tabs : tabs'[k] = tabs[i]
  BY <1>1, <1>2, <1>3, UpsertedFacts
<1>5. nextID' = nextID /\ nextID' \in Nat /\ nextID <= nextID' /\ UNCHANGED gone
  BY <1>0, IDFacts
<1>6. activeTab' # Nobody => activeTab' \in TabIDs(tabs')
  BY <1>2, <1>3, <1>4
<1>7. Regular(tab, nextID')
  BY <1>1, <1>5
<1>8. ListInv'
  BY <1>3, <1>4, <1>5, <1>6, <1>7, ListKept
<1>9. /\ <<>> \in Seq(Steps) /\ UNCHANGED <<ShellQueue, nextID, queue>>
      /\ \A i \in DOMAIN <<>> : /\ <<>>[i].do # "upsert" /\ <<>>[i] # Resolution
                                /\ Known(<<>>[i], nextID)
  BY <1>0 DEF Elsewhere
<1>10. /\ todo' \in [Everyone -> Seq(Steps)] /\ RegisterInv' /\ MutationInv'
       /\ ShellInv' /\ PendingInv'
  BY <1>0, <1>9, QuietStep
<1>11. /\ activeTab' \in IDs \cup {Nobody} /\ UNCHANGED Elsewhere /\ mutating' \in BOOLEAN
       /\ shellTabs' \subseteq IDs /\ mutations' \in Seq(Mutations)
       /\ lastCloseTab' \in IDs \cup {Nobody} /\ restored' \in BOOLEAN
       /\ nextID' \in 1..MaxTabs + 1 /\ gone' \subseteq 1..nextID' - 1
       /\ messages' \in 0..MaxMessages
  BY <1>0, <1>1, <1>2 DEF TypeOK, Tab, ShellQueue
<1>12. TypeOK'
  BY <1>4, <1>10, <1>11, ManagerType
<1> QED
  BY <1>8, <1>10, <1>12 DEF IInv

\* closeTab shows the neighbour or goes home.
LEMMA EndCloseInv ==
  ASSUME TypeOK, IInv, NEW t \in Everyone, EndClose(t)
  PROVE  TypeOK' /\ IInv'
<1>0. /\ todo[t] # <<>>
      /\ UNCHANGED <<Elsewhere, ShellQueue, tabs, lastCloseTab, restored, nextID, gone, messages>>
      /\ ListInv
  BY DEF EndClose, IInv
<1>1. /\ activeTab' \in IDs \cup {Nobody} /\ ListInv'
      /\ \E more \in Seq(Steps) : /\ \A i \in DOMAIN more : Plain(more[i], nextID)
                                  /\ todo' = [todo EXCEPT ![t] = more \o Tail(@)]
  <2>1. CASE Does(t, GoHome, <<Dispatch(HideAll)>>) /\ activeTab' = Nobody
    <3>1. Plain(Dispatch(HideAll), nextID)
      BY PlainSteps
    <3> DEFINE more == <<Dispatch(HideAll)>>
    <3>2. more \in Seq(Steps) /\ \A i \in DOMAIN more : Plain(more[i], nextID)
      BY <3>1 DEF Plain
    <3>3. todo' = [todo EXCEPT ![t] = more \o Tail(@)]
      BY <2>1 DEF Does
    <3> HIDE DEF more
    <3>4. ListInv'
      BY <1>0, <2>1 DEF ListInv, TabIDs
    <3> QED
      BY <2>1, <3>2, <3>3, <3>4
  <2>2. CASE /\ Head(todo[t]).do = "switch" /\ Activated(Head(todo[t]).id)
             /\ Does(t, Head(todo[t]), ShowSteps(Head(todo[t]).id))
    <3> DEFINE id == Head(todo[t]).id
    <3>1. id \in IDs
      BY <1>0, <2>2, HeadFacts, StepShape
    <3>2. Activated(id) /\ todo' = [todo EXCEPT ![t] = ShowSteps(id) \o Tail(@)]
      BY <2>2 DEF Does
    <3> HIDE DEF id
    <3>3. /\ ShowSteps(id) \in Seq(Steps)
          /\ \A i \in DOMAIN ShowSteps(id) : Plain(ShowSteps(id)[i], nextID)
      BY <3>1, ShowStepsPlain
    <3>4. activeTab' \in IDs \cup {Nobody} /\ ListInv'
      BY <1>0, <3>1, <3>2, ActivatedKeeps
    <3> QED
      BY <3>2, <3>3, <3>4
  <2> QED
    BY <2>1, <2>2 DEF EndClose
<1>2. PICK more \in Seq(Steps) : /\ \A i \in DOMAIN more : Plain(more[i], nextID)
                                 /\ todo' = [todo EXCEPT ![t] = more \o Tail(@)]
  BY <1>1
<1>3. /\ \A i \in DOMAIN more : /\ more[i].do # "upsert" /\ more[i] # Resolution
                                /\ Known(more[i], nextID)
      /\ UNCHANGED <<ShellQueue, nextID, queue>>
  BY <1>0, <1>2 DEF Elsewhere, Plain
<1>4. /\ todo' \in [Everyone -> Seq(Steps)] /\ RegisterInv' /\ MutationInv'
      /\ ShellInv' /\ PendingInv'
  BY <1>0, <1>2, <1>3, QuietStep
<1>5. /\ tabs' \in Seq(Tab) /\ UNCHANGED Elsewhere /\ mutating' \in BOOLEAN
      /\ shellTabs' \subseteq IDs /\ mutations' \in Seq(Mutations)
      /\ lastCloseTab' \in IDs \cup {Nobody} /\ restored' \in BOOLEAN
      /\ nextID' \in 1..MaxTabs + 1 /\ gone' \subseteq 1..nextID' - 1
      /\ messages' \in 0..MaxMessages
  BY <1>0 DEF TypeOK, ShellQueue
<1>6. TypeOK'
  BY <1>1, <1>4, <1>5, ManagerType
<1> QED
  BY <1>1, <1>4, <1>6 DEF IInv

\* A page opens a window.
LEMMA OpenPopupInv == ASSUME TypeOK, IInv, OpenPopup PROVE TypeOK' /\ IInv'
<1>0. /\ ~closed /\ messages < MaxMessages /\ messages' = messages + 1
      /\ UNCHANGED <<tabs, activeTab, lastCloseTab, openTabs, savedTabs, restoreTabs, restored,
                     locked, configSaveMu, todo, closed, views, shown, ShellQueue, nextID, gone,
                     saveOK>>
  BY DEF OpenPopup
<1>1. PICK u \in Urls : queue' = Append(queue, Popup(u))
  BY DEF OpenPopup
<1>2. Popup(u) \in Work /\ Popup(u) # Resolve /\ Popup(u).fn # "show"
  BY WorkFacts
<1>3. queue \in Seq(Work) /\ queue' \in Seq(Work) /\ todo \in [Everyone -> Seq(Steps)]
  BY <1>1, <1>2 DEF TypeOK, Everyone
<1>4. \A i \in DOMAIN queue' : queue'[i] = Popup(u) \/ (i \in DOMAIN queue /\ queue'[i] = queue[i])
  BY <1>1, <1>2, <1>3
<1>5. ShellInv' /\ PendingInv' /\ May' = May
  <2>1. \A i \in DOMAIN queue' : queue'[i].fn = "show" => queue'[i].id < nextID
    BY <1>2, <1>4 DEF IInv, ShellInv
  <2> QED
    BY <1>0, <2>1, ShellSame
<1>6. RegisterInv' /\ ListInv'
  <2>1. RegisterInv'
    BY <1>0, <1>5, RegisterInvIs, RegisterInvNext DEF IInv
  <2> QED
    BY <1>0, <2>1 DEF IInv, ListInv, TabIDs
<1>7. MutationInv'
  <2>1. /\ mutating' = mutating /\ MutationInv
        /\ \A i \in DOMAIN queue' : queue'[i] = Resolve => i \in DOMAIN queue /\ queue[i] = Resolve
    BY <1>0, <1>2, <1>4 DEF ShellQueue, IInv
  <2> QED
    BY <1>0, <1>3, <2>1 DEF MutationInv
<1>8. messages' \in 0..MaxMessages
  BY <1>0, TabsAssumption DEF TypeOK
<1>9. TypeOK'
  BY <1>0, <1>3, <1>8 DEF TypeOK, ShellQueue
<1> QED
  BY <1>5, <1>6, <1>7, <1>9 DEF IInv

\* The GTK thread tells the shell of a tab, which registers it.
LEMMA ShownIsPending ==
  ASSUME TypeOK, IInv, NEW id \in IDs, id < nextID, UNCHANGED nextID,
         shellTabs' = shellTabs \cup {id}, mutations' = Append(mutations, Register(id)),
         \A i \in DOMAIN queue' : queue'[i].fn = "show" => queue'[i].id < nextID
  PROVE  /\ ShellInv' /\ PendingInv' /\ May \subseteq May'
         /\ shellTabs' \subseteq IDs /\ mutations' \in Seq(Mutations)
<1>1. /\ mutations \in Seq(Mutations) /\ Pending(mutations, shellTabs, nextID) /\ nextID \in Nat
      /\ Register(id) \in Mutations /\ Register(id).op = "register" /\ Register(id).id = id
      /\ shellTabs \subseteq IDs
  BY PendingInvIs, IDFacts, MutationFacts DEF TypeOK, IInv
<1> DEFINE m == Register(id)
<1>2. /\ m \in Mutations /\ m.op = "register" /\ m.id = id
  BY <1>1
<1>3. mutations' = Append(mutations, m) /\ mutations' \in Seq(Mutations)
  BY <1>1
<1> HIDE DEF m
<1>4. nextID' \in Nat /\ nextID <= nextID' /\ m.id < nextID' /\ m.id \in shellTabs'
  BY <1>1, <1>2
<1>5. \A x \in shellTabs : x \in shellTabs'
  OBVIOUS
<1>6. Pending(Append(mutations, m), shellTabs', nextID')
  BY <1>1, <1>2, <1>4, <1>5, PendingAppended
<1>7. PendingInv'
  BY <1>3, <1>6, PendingInvNext
<1>8. ShellInv'
  BY DEF IInv, ShellInv
<1>9. May \subseteq May'
  <2>1. \A i \in DOMAIN mutations : i \in DOMAIN mutations' /\ mutations'[i] = mutations[i]
    BY <1>1, <1>2, <1>3
  <2> QED
    BY <2>1 DEF May, ShownOrClosing, ClosePending
<1> QED
  BY <1>1, <1>3, <1>7, <1>8, <1>9

\* drainQueue runs a function, and an answer ends a mutation.
LEMMA RunQueuedInv == ASSUME TypeOK, IInv, RunQueued PROVE TypeOK' /\ IInv'
<1> DEFINE f == Head(queue)
<1>0. /\ queue # <<>> /\ queue' = Tail(queue)
      /\ UNCHANGED <<tabs, activeTab, lastCloseTab, openTabs, savedTabs, restoreTabs, restored,
                     locked, configSaveMu, todo, closed, nextID, gone, saveOK, messages>>
      /\ ListInv /\ RegisterInv /\ MutationInv
  BY DEF RunQueued, IInv
<1>1. f \in Work /\ queue \in Seq(Work) /\ queue' \in Seq(Work)
  BY <1>0 DEF TypeOK
<1>2. /\ f.fn \in {"open", "select"} => f.id \in IDs /\ f.url \in Urls
      /\ f.fn = "show" => f.id \in IDs
      /\ f.fn = "resolve" <=> f = Resolve
  BY <1>1, WorkFacts
<1>3. /\ f.fn = "show" => f.id < nextID
      /\ \A i \in DOMAIN queue' : queue'[i].fn = "show" => queue'[i].id < nextID
  <2>1. \A i \in DOMAIN queue : queue[i].fn = "show" => queue[i].id < nextID
    BY DEF IInv, ShellInv
  <2>2. 1 \in DOMAIN queue /\ f = queue[1] /\ \A i \in DOMAIN queue' : \E j \in DOMAIN queue : queue'[i] = queue[j]
    BY <1>0, <1>1
  <2> QED
    BY <2>1, <2>2
<1>4. /\ mutating' = IF f = Resolve THEN FALSE ELSE mutating
      /\ DOMAIN views' \subseteq IDs /\ \A i \in DOMAIN views' : views'[i] \in Urls
      /\ shown' \in DOMAIN views' \cup {Nobody}
      /\ \/ UNCHANGED <<shellTabs, mutations>>
         \/ /\ f.fn = "show" /\ shellTabs' = shellTabs \cup {f.id}
            /\ mutations' = Append(mutations, Register(f.id))
  <2> HIDE DEF f
  <2>0. /\ DOMAIN views \subseteq IDs /\ \A i \in DOMAIN views : views[i] \in Urls
        /\ shown \in DOMAIN views \cup {Nobody}
    BY DEF TypeOK
  <2>1. CASE /\ f.fn = "open" \/ (f.fn = "select" /\ f.id \notin DOMAIN views)
             /\ views' = Ensured(f.id, f.url) /\ shown' = f.id /\ UNCHANGED ShellQueue
    BY <1>2, <2>0, <2>1 DEF Ensured, ShellQueue
  <2>2. CASE /\ f.fn = "select" /\ f.id \in DOMAIN views /\ shown' = f.id
             /\ UNCHANGED <<views, ShellQueue>>
    BY <1>2, <2>0, <2>2 DEF ShellQueue
  <2>3. CASE f.fn = "hide" /\ shown' = Nobody /\ UNCHANGED <<views, ShellQueue>>
    BY <1>2, <2>0, <2>3 DEF ShellQueue
  <2>4. CASE /\ f.fn = "destroy" /\ views' = Destroyed(f.id)
             /\ shown' = (IF shown = f.id THEN Nobody ELSE shown) /\ UNCHANGED ShellQueue
    <3>1. DOMAIN views' = DOMAIN views \ {f.id} /\ \A i \in DOMAIN views' : views'[i] = views[i]
      BY <2>4 DEF Destroyed
    <3> QED
      BY <1>2, <2>0, <2>4, <3>1 DEF ShellQueue
  <2>5. CASE f.fn = "resolve" /\ mutating' = FALSE /\ UNCHANGED <<views, shown, shellTabs, mutations>>
    BY <1>2, <2>0, <2>5
  <2>6. CASE /\ f.fn = "show" /\ shellTabs' = shellTabs \cup {f.id}
             /\ mutations' = Append(mutations, Register(f.id))
             /\ UNCHANGED <<views, shown, mutating>>
    BY <1>2, <2>0, <2>6
  <2> QED
    BY <2>1, <2>2, <2>3, <2>4, <2>5, <2>6 DEF RunQueued, f
<1>5. /\ ShellInv' /\ PendingInv' /\ May \subseteq May'
      /\ shellTabs' \subseteq IDs /\ mutations' \in Seq(Mutations)
  <2> HIDE DEF f
  <2>1. CASE UNCHANGED <<shellTabs, mutations>>
    <3>1. /\ nextID' \in Nat /\ nextID <= nextID' /\ \A id \in shellTabs' : id < nextID'
          /\ shellTabs \subseteq shellTabs' /\ ShellInv /\ PendingInv
      BY <1>0, <2>1, IDFacts DEF IInv, ShellInv
    <3>2. \A i \in DOMAIN queue' : queue'[i].fn = "show" => queue'[i].id < nextID'
      BY <1>0, <1>3
    <3> QED
      BY <2>1, <3>1, <3>2, ShellKept DEF TypeOK
  <2>2. CASE /\ f.fn = "show" /\ shellTabs' = shellTabs \cup {f.id}
             /\ mutations' = Append(mutations, Register(f.id))
    BY <1>0, <1>2, <1>3, <2>2, ShownIsPending
  <2> QED
    BY <1>4, <2>1, <2>2
<1>6. RegisterInv' /\ MutationInv'
  BY <1>0, <1>4, <1>5, QueueTaken
<1>7. (closed' => queue' = <<>>) /\ mutating' \in BOOLEAN
  BY <1>0, <1>4 DEF TypeOK
<1>8. TypeOK'
  BY <1>0, <1>1, <1>4, <1>5, <1>7 DEF TypeOK
<1>9. ListInv'
  BY <1>0 DEF ListInv, TabIDs
<1> QED
  BY <1>5, <1>6, <1>8, <1>9 DEF IInv

\* A popup opens a tab on the GTK thread, or is refused.
LEMMA RunPopupInv == ASSUME TypeOK, IInv, RunPopup PROVE TypeOK' /\ IInv'
<1> DEFINE u == Head(queue).url
           rest == <<Persist, Dispatch(Show(nextID)), Dispatch(Open(nextID, u))>>
<1>0. /\ queue # <<>> /\ todo[UI] = <<>> /\ Head(queue).fn = "popup" /\ queue' = Tail(queue)
      /\ \/ BrowserOpened(u) /\ todo' = [todo EXCEPT ![UI] = rest]
         \/ UNCHANGED <<tabs, activeTab, lastCloseTab, restored, nextID, gone, todo>>
      /\ UNCHANGED <<openTabs, savedTabs, restoreTabs, locked, configSaveMu, closed, views, shown,
                     ShellQueue, saveOK, messages>>
      /\ ListInv /\ ShellInv /\ PendingInv /\ RegisterInv /\ MutationInv
  BY DEF RunPopup, IInv
<1>1. queue \in Seq(Work) /\ queue' \in Seq(Work) /\ Head(queue) \in Work
  BY <1>0 DEF TypeOK
<1>2. u \in Urls
  BY <1>0, <1>1, WorkFacts
<1>3. Head(queue) # Resolve
  BY <1>0, <1>1, WorkFacts DEF Resolve
<1> HIDE DEF u
<1>4. UNCHANGED <<shellTabs, mutations, mutating>>
  BY <1>0 DEF ShellQueue
<1>5. ASSUME nextID' \in Nat, nextID <= nextID'
      PROVE  ShellInv' /\ PendingInv' /\ May \subseteq May'
  <2>1. \A id \in shellTabs' : id < nextID'
    <3>1. shellTabs \subseteq IDs /\ \A id \in shellTabs : id < nextID
      BY <1>0 DEF ShellInv, TypeOK
    <3>2. nextID \in Nat /\ \A id \in IDs : id \in Nat
      BY IDFacts
    <3> QED
      BY <1>4, <1>5, <3>1, <3>2
  <2>2. ASSUME NEW i \in DOMAIN queue', queue'[i].fn = "show" PROVE queue'[i].id < nextID'
    <3>1. PICK j \in DOMAIN queue : queue'[i] = queue[j]
      BY <1>0, <1>1
    <3>2. queue[j] \in Work /\ queue[j].fn = "show" /\ queue[j].id < nextID
      BY <1>0, <1>1, <2>2, <3>1 DEF ShellInv
    <3>3. queue[j].id \in Nat /\ nextID \in Nat
      BY <3>2, WorkFacts, IDFacts
    <3> QED
      BY <1>5, <3>1, <3>2, <3>3
  <2> QED
    BY <1>0, <1>4, <1>5, <2>1, <2>2, ShellKept
<1>6. CASE BrowserOpened(u) /\ todo' = [todo EXCEPT ![UI] = rest]
  <2>1. /\ tabs' \in Seq(Tab) /\ activeTab' \in IDs \cup {Nobody}
        /\ nextID \in IDs /\ nextID' \in 1..MaxTabs + 1 /\ nextID' \in Nat /\ nextID <= nextID'
        /\ gone' = gone /\ gone \subseteq 1..nextID' - 1
        /\ lastCloseTab' \in IDs \cup {Nobody} /\ restored' \in BOOLEAN
        /\ ListInv'
    BY <1>0, <1>2, <1>6, BrowserOpenedKeeps
  <2>2. rest \in Seq(Steps) /\ \A i \in DOMAIN rest : Plain(rest[i], nextID')
    <3>0. nextID < nextID'
      BY <1>6, IDFacts DEF BrowserOpened
    <3>1. /\ Plain(Persist, nextID') /\ Plain(Dispatch(Open(nextID, u)), nextID')
          /\ Plain(Dispatch(Show(nextID)), nextID')
      BY <1>2, <2>1, <3>0, PlainSteps
    <3> QED
      BY <3>1 DEF Plain
  <2> HIDE DEF rest
  <2> DEFINE e == 1
  <2>3. /\ e \in Int /\ UI \in Everyone /\ UNCHANGED mutating
        /\ \A i \in DOMAIN queue' : queue'[i] = Resolve =>
             i + e \in DOMAIN queue /\ queue[i + e] = Resolve
    BY <1>0, <1>1, <1>4 DEF Everyone
  <2> HIDE DEF e
  <2>4. ShellInv' /\ PendingInv' /\ May \subseteq May'
    BY <1>5, <2>1
  <2>5. todo' \in [Everyone -> Seq(Steps)] /\ RegisterInv' /\ MutationInv'
    BY <1>0, <1>1, <1>6, <2>1, <2>2, <2>3, <2>4, PlainWork
  <2>6. TypeOK'
    BY <1>0, <1>1, <1>4, <2>1, <2>5 DEF TypeOK, Everyone
  <2> QED
    BY <2>1, <2>4, <2>5, <2>6 DEF IInv
<1>7. CASE UNCHANGED <<tabs, activeTab, lastCloseTab, restored, nextID, gone, todo>>
  <2>1. ShellInv' /\ PendingInv' /\ May \subseteq May'
    BY <1>5, <1>7, IDFacts
  <2>2. RegisterInv' /\ MutationInv'
    BY <1>0, <1>3, <1>4, <1>7, <2>1, QueueTaken
  <2>3. ListInv'
    BY <1>0, <1>7 DEF ListInv, TabIDs
  <2>4. TypeOK'
    BY <1>0, <1>1, <1>4, <1>7 DEF TypeOK
  <2> QED
    BY <2>1, <2>2, <2>3, <2>4 DEF IInv
<1> QED
  BY <1>0, <1>6, <1>7

\* The window closes and its queue with it.
LEMMA CloseWindowInv == ASSUME TypeOK, IInv, CloseWindow PROVE TypeOK' /\ IInv'
<1>0. /\ closed' = TRUE /\ queue' = <<>> /\ views' = <<>> /\ shown' = Nobody
      /\ UNCHANGED <<tabs, activeTab, lastCloseTab, openTabs, savedTabs, restoreTabs, restored,
                     locked, configSaveMu, todo, ShellQueue, nextID, gone, saveOK, messages>>
  BY DEF CloseWindow
<1>1. DOMAIN queue' = {} /\ DOMAIN views' = {} /\ queue' \in Seq(Work)
  BY <1>0
<1>2. ShellInv' /\ PendingInv' /\ May' = May
  BY <1>0, <1>1, ShellSame
<1>3. RegisterInv'
  BY <1>0, <1>2, RegisterInvIs, RegisterInvNext DEF IInv
<1>4. ListInv'
  BY <1>0 DEF IInv, ListInv, TabIDs
<1>5. MutationInv'
  BY <1>0, <1>1 DEF IInv, MutationInv, ShellQueue
<1>6. TypeOK'
  BY <1>0, <1>1 DEF TypeOK, ShellQueue
<1> QED
  BY <1>2, <1>3, <1>4, <1>5, <1>6 DEF IInv

\* IInv of a state with the same lists.
LEMMA SameInv ==
  ASSUME IInv, UNCHANGED <<tabs, activeTab, todo, queue, shellTabs, mutations, mutating, nextID>>
  PROVE  IInv'
<1>1. May' = May
  BY DEF May, ShownOrClosing, ClosePending
<1>2. RegisterInv'
  BY <1>1, RegisterInvIs, RegisterInvNext DEF IInv
<1>3. ListInv' /\ ShellInv' /\ PendingInv' /\ MutationInv'
  BY DEF IInv, ListInv, ShellInv, PendingInv, MutationInv, TabIDs
<1> QED
  BY <1>2, <1>3 DEF IInv

\* The program is unlocked.
LEMMA UnlockInv == ASSUME TypeOK, IInv, Unlock PROVE TypeOK' /\ IInv'
<1>0. /\ locked' = FALSE
      /\ UNCHANGED <<tabs, activeTab, lastCloseTab, openTabs, savedTabs, restoreTabs, restored,
                     configSaveMu, todo, queue, closed, views, shown, ShellQueue, nextID, gone,
                     saveOK, messages>>
  BY DEF Unlock
<1>1. TypeOK'
  BY <1>0 DEF TypeOK, ShellQueue
<1>2. IInv'
  BY <1>0, SameInv DEF ShellQueue
<1> QED
  BY <1>1, <1>2

\* Nothing changes.
LEMMA StutterInv == ASSUME TypeOK, IInv, UNCHANGED vars PROVE TypeOK' /\ IInv'
<1>1. TypeOK'
  BY DEF vars, TypeOK
<1>2. IInv'
  BY SameInv DEF vars
<1> QED
  BY <1>1, <1>2

\* The invariant holds at the start.
LEMMA InitInv == ASSUME Init PROVE TypeOK /\ IInv
<1>1. \A t \in Everyone : DOMAIN todo[t] = {}
  BY DEF Init, Everyone
<1>2. /\ DOMAIN tabs = {} /\ DOMAIN queue = {} /\ DOMAIN views = {} /\ DOMAIN mutations = {}
      /\ shellTabs = {}
  BY DEF Init
<1>3. TypeOK
  <2>1. /\ todo \in [Threads \cup {UI} -> Seq(Steps)] /\ tabs \in Seq(Tab) /\ queue \in Seq(Work)
        /\ mutations \in Seq(Mutations)
    BY DEF Init
  <2>2. 1 \in 1..MaxTabs + 1 /\ 0 \in 0..MaxMessages /\ SavedSession \in Seq(SavedTab)
    BY TabsAssumption
  <2> QED
    BY <1>2, <2>1, <2>2 DEF Init, TypeOK
<1>4. IInv
  BY <1>1, <1>2 DEF Init, IInv, ListInv, ShellInv, PendingInv, RegisterInv, MutationInv
<1> QED
  BY <1>3, <1>4

\* Every step of the tab manager, the GTK thread and the shell keeps the invariant.
LEMMA NextInv == ASSUME TypeOK, IInv, [Next]_vars PROVE TypeOK' /\ IInv'
<1>1. ASSUME NEW t \in Threads, ShellTabs(t) PROVE TypeOK' /\ IInv'
  BY <1>1, ShellTabsInv
<1>2. ASSUME NEW t \in Threads, ShellMessage(t) PROVE TypeOK' /\ IInv'
  BY <1>2, NewBrowserTabInv, NewRemoteTabInv, OpenSettingsTabInv, NavigateBrowserInv,
     UpdateActiveBrowserTitleInv, SwitchTabInv, HandleSaveTabsInv
     DEF ShellMessage
<1>3. CASE ShellClick
  BY <1>3, ClickTabInv, ClickNewTabInv DEF ShellClick
<1>4. ASSUME NEW t \in Threads, SendMutation(t) PROVE TypeOK' /\ IInv'
  BY <1>4, ReorderTabInv, ForgetTabInv, CloseTabInv, CloseNothingInv, RegisterLocalTabInv,
     ClearActiveTabInv DEF SendMutation
<1>5. ASSUME NEW t \in Everyone, Step(t) PROVE TypeOK' /\ IInv'
  BY <1>5, BeginPersistInv, EndPersistInv, QueueWorkInv, EndRegisterInv, EndCloseInv DEF Step
<1> QED
  BY <1>1, <1>2, <1>3, <1>4, <1>5, OpenPopupInv, RunQueuedInv, RunPopupInv, CloseWindowInv,
     UnlockInv, StutterInv DEF Next, SomeSend, Everyone

\* TypeOK and the inductive invariant hold in every state: the IDs of App.tabs stand for one
\* tab each, what registerLocalTab is going to write the shell shows or is about to close,
\* and the shell's queue of mutations waits for one reply at a time.
THEOREM Invariance == Spec => [](TypeOK /\ IInv)
<1>1. Init => TypeOK /\ IInv
  BY InitInv
<1>2. (TypeOK /\ IInv) /\ [Next]_vars => (TypeOK /\ IInv)'
  BY NextInv
<1> QED
  BY <1>1, <1>2, PTL DEF Spec

\* ActiveIsOpen of every state: App.activeTab is empty or the ID of exactly one open tab.
THEOREM ActiveOpen == Spec => []ActiveIsOpen
<1>1. TypeOK /\ IInv => ActiveIsOpen
  <2> SUFFICES ASSUME TypeOK, ListInv, activeTab # Nobody
               PROVE  Cardinality({i \in DOMAIN tabs : tabs[i].id = activeTab}) = 1
    BY DEF IInv, ActiveIsOpen
  <2>1. PICK i \in DOMAIN tabs : tabs[i].id = activeTab
    BY DEF ListInv, TabIDs
  <2>2. {j \in DOMAIN tabs : tabs[j].id = activeTab} = {i}
    BY <2>1 DEF ListInv
  <2> QED
    BY <2>2, FS_Singleton
<1> QED
  BY <1>1, Invariance, PTL

\* No tab comes back.
NoReturn == gone \cap (TabIDs(tabs') \ TabIDs(tabs)) = {}

\* A tab that is new in the list has a new ID or is Settings.
LEMMA NewIsNotGone ==
  ASSUME TypeOK, \A id \in TabIDs(tabs') : id \in TabIDs(tabs) \/ id = Settings \/ id >= nextID
  PROVE  NoReturn
<1>1. \A id \in gone : id # Settings /\ ~(id >= nextID)
  <2>1. \A id \in 1..nextID - 1 : id # 0 /\ ~(id >= nextID)
    BY IDFacts
  <2> QED
    BY <2>1 DEF TypeOK, Settings
<1> QED
  BY <1>1 DEF NoReturn

\* The tabs stay the same, but for their addresses.
LEMMA SameNoReturn == ASSUME TabIDs(tabs') \subseteq TabIDs(tabs) PROVE NoReturn
BY DEF NoReturn

\* newBrowserTab's tab is new.
LEMMA OpenedNoReturn == ASSUME TypeOK, IInv, NEW u \in Urls, BrowserOpened(u) PROVE NoReturn
<1> DEFINE tab == [id |-> nextID, kind |-> "browser", url |-> u]
<1>1. nextID <= MaxTabs /\ tabs' = Append(tabs, tab)
  BY DEF BrowserOpened
<1>2. tab \in Tab /\ tab.id = nextID
  BY <1>1, IDFacts DEF Kinds
<1>3. tabs \in Seq(Tab) /\ Distinct(tabs) /\ nextID \notin TabIDs(tabs)
  BY TabFacts, ListInvIs DEF IInv, TypeOK
<1> HIDE DEF tab
<1>4. TabIDs(tabs') = TabIDs(tabs) \cup {nextID}
  BY <1>1, <1>2, <1>3, AppendFacts
<1>5. nextID >= nextID
  BY IDFacts
<1> QED
  BY <1>4, <1>5, NewIsNotGone

\* Addresses change.
LEMMA ReaddressedNoReturn ==
  ASSUME DOMAIN tabs' = DOMAIN tabs, \A i \in DOMAIN tabs : tabs'[i].id = tabs[i].id
  PROVE  NoReturn
BY SameNoReturn DEF TabIDs

\* The messages that the shell sends at once.
LEMMA MessageNoReturn ==
  ASSUME TypeOK, IInv, NEW t \in Threads, ShellMessage(t)
  PROVE  NoReturn
<1>0. tabs \in Seq(Tab) /\ Distinct(tabs) /\ \A tab \in Tab : \A u : [tab EXCEPT !.url = u].id = tab.id
  BY ListInvIs DEF IInv, TypeOK, Tab
<1>1. CASE NewBrowserTab(t)
  BY <1>1, OpenedNoReturn DEF NewBrowserTab
<1>2. CASE NewRemoteTab(t)
  <2> DEFINE tab(u) == [id |-> nextID, kind |-> "remote", url |-> u]
  <2>1. PICK u \in Urls : nextID <= MaxTabs /\ tabs' = Upserted(tabs, tab(u))
    BY <1>2 DEF NewRemoteTab
  <2>2. tab(u) \in Tab /\ tab(u).id = nextID
    BY <2>1, IDFacts DEF Kinds
  <2> HIDE DEF tab
  <2>3. TabIDs(tabs') = TabIDs(tabs) \cup {nextID}
    BY <1>0, <2>1, <2>2, UpsertedFacts
  <2>4. nextID >= nextID
    BY IDFacts
  <2> QED
    BY <2>3, <2>4, NewIsNotGone
<1>3. CASE OpenSettingsTab(t)
  <2>1. tabs' = Upserted(tabs, SettingsTab)
    BY <1>3 DEF OpenSettingsTab
  <2>2. TabIDs(tabs') = TabIDs(tabs) \cup {Settings}
    BY <1>0, <2>1, IDFacts, UpsertedFacts
  <2> QED
    BY <2>2, NewIsNotGone
<1>4. CASE NavigateBrowser(t)
  <2>1. PICK u \in Urls :
          tabs' = [i \in DOMAIN tabs |-> IF i \in ActiveBrowser THEN [tabs[i] EXCEPT !.url = u]
                                         ELSE tabs[i]]
    BY <1>4 DEF NavigateBrowser
  <2>2. DOMAIN tabs' = DOMAIN tabs /\ \A i \in DOMAIN tabs : tabs'[i].id = tabs[i].id
    BY <1>0, <2>1
  <2> QED
    BY <2>2, ReaddressedNoReturn
<1>5. CASE UpdateActiveBrowserTitle(t)
  <2>1. PICK u \in Urls, i \in ActiveBrowser : tabs' = [tabs EXCEPT ![i].url = u]
    BY <1>5 DEF UpdateActiveBrowserTitle
  <2>2. DOMAIN tabs' = DOMAIN tabs /\ \A k \in DOMAIN tabs : tabs'[k].id = tabs[k].id
    BY <1>0, <2>1
  <2> QED
    BY <2>2, ReaddressedNoReturn
<1>6. CASE SwitchTab(t) \/ HandleSaveTabs(t)
  <2>1. tabs' = tabs
    BY <1>6 DEF SwitchTab, HandleSaveTabs
  <2> QED
    BY <2>1, SameNoReturn
<1> QED
  BY <1>1, <1>2, <1>3, <1>4, <1>5, <1>6 DEF ShellMessage

\* The mutations that the shell sends, up to what they have left to do.
LEMMA MutationNoReturn ==
  ASSUME TypeOK, IInv, NEW t \in Threads, SendMutation(t)
  PROVE  NoReturn
<1> DEFINE id == Head(mutations).id
<1>0. tabs \in Seq(Tab) /\ Distinct(tabs)
  BY ListInvIs DEF IInv, TypeOK
<1>1. CASE tabs' = Without(tabs, id)
  <2> HIDE DEF id
  <2>1. TabIDs(tabs') = TabIDs(tabs) \ {id}
    BY <1>0, <1>1, WithoutFacts
  <2> QED
    BY <2>1, SameNoReturn
<1>2. CASE tabs' = tabs
  BY <1>2, SameNoReturn
<1>3. CASE /\ id \in TabIDs(tabs)
           /\ \E before : tabs' = Moved(Without(tabs, id), tabs[Find(tabs, id)], before)
  <2> DEFINE rest == Without(tabs, id)
             moved == tabs[Find(tabs, id)]
  <2>1. PICK before : tabs' = Moved(rest, moved, before)
    BY <1>3
  <2>2. moved \in Tab /\ moved.id = id
    BY <1>0, <1>3, FindFacts
  <2>3. rest \in Seq(Tab) /\ Distinct(rest) /\ TabIDs(rest) = TabIDs(tabs) \ {id}
    BY <1>0, WithoutFacts
  <2> HIDE DEF rest, moved
  <2>4. moved.id \notin TabIDs(rest)
    BY <2>2, <2>3
  <2>5. TabIDs(Moved(rest, moved, before)) = TabIDs(rest) \cup {moved.id}
    BY <2>2, <2>3, <2>4, MovedFacts
  <2>6. TabIDs(tabs') \subseteq TabIDs(tabs)
    BY <1>3, <2>1, <2>2, <2>3, <2>5
  <2> QED
    BY <2>6, SameNoReturn
<1>4. CASE ReorderTab(t)
  BY <1>2, <1>3, <1>4 DEF ReorderTab, Moved
<1>5. CASE ForgetTab(t) \/ CloseTab(t) \/ CloseNothing(t) \/ RegisterLocalTab(t) \/ ClearActiveTab(t)
  BY <1>1, <1>2, <1>5, Zenon DEF ForgetTab, CloseTab, CloseNothing, RegisterLocalTab, ClearActiveTab
<1> QED
  BY <1>4, <1>5 DEF SendMutation

\* shellTabs restores tabs under new IDs.
LEMMA ShellTabsNoReturn == ASSUME TypeOK, IInv, NEW t \in Threads, ShellTabs(t) PROVE NoReturn
<1> DEFINE session == Sanitized(openTabs)
           list == [i \in DOMAIN session |-> [id |-> nextID + i - 1, kind |-> session[i].kind,
                                              url |-> session[i].url]]
<1>1. tabs' = tabs \/ tabs' = list
  BY DEF ShellTabs
<1>2. CASE tabs' = tabs
  BY <1>2, SameNoReturn
<1>3. CASE tabs' = list
  <2>1. session \in Seq(SavedTab)
    BY SessionTypes DEF TypeOK
  <2>2. DOMAIN list = DOMAIN session /\ \A i \in DOMAIN list : list[i].id = nextID + i - 1
    OBVIOUS
  <2> HIDE DEF session, list
  <2>3. \A i \in DOMAIN list : list[i].id >= nextID
    BY <2>1, <2>2, IDFacts
  <2>4. \A id \in TabIDs(tabs') : id = Settings \/ id >= nextID
    BY <1>3, <2>3 DEF TabIDs
  <2> QED
    BY <2>4, NewIsNotGone
<1> QED
  BY <1>1, <1>2, <1>3

\* A tab that comes back is one that registerLocalTab writes, and the shell may register it.
LEMMA ReturnIsShown ==
  ASSUME TypeOK, IInv, NEW t \in Everyone, EndRegister(t)
  PROVE  gone \cap (TabIDs(tabs') \ TabIDs(tabs)) \subseteq ShownOrClosing
<1> DEFINE tab == Head(todo[t]).tab
<1>1. tab \in Tab /\ tab.id \in May /\ tabs' = Upserted(tabs, tab)
  BY RegisteredTab DEF EndRegister, UpsertTab
<1>2. tabs \in Seq(Tab) /\ Distinct(tabs)
  BY ListInvIs DEF IInv, TypeOK
<1> HIDE DEF tab
<1>3. TabIDs(tabs') = TabIDs(tabs) \cup {tab.id}
  BY <1>1, <1>2, UpsertedFacts
<1>4. Settings \notin gone
  <2>1. 0 \notin 1..nextID - 1
    BY IDFacts
  <2> QED
    BY <2>1 DEF TypeOK, Settings
<1> QED
  BY <1>1, <1>3, <1>4 DEF May

\* OnlyShownReturn of every behaviour: registerLocalTab appends a tab that closeTab or
\* forgetTab has taken off the list only while the shell shows it or has its close queued.
THEOREM ReturnsAreShown == Spec => OnlyShownReturn
<1> DEFINE Kept == gone \cap (TabIDs(tabs') \ TabIDs(tabs)) \subseteq ShownOrClosing
<1>1. TypeOK /\ IInv /\ [Next]_vars => [Kept]_vars
  <2> SUFFICES ASSUME TypeOK, IInv, [Next]_vars PROVE Kept
    OBVIOUS
  <2>1. ASSUME NoReturn PROVE Kept
    BY <2>1 DEF NoReturn
  <2>2. ASSUME NEW t \in Threads, ShellTabs(t) \/ ShellMessage(t) \/ SendMutation(t) PROVE Kept
    BY <2>1, <2>2, ShellTabsNoReturn, MessageNoReturn, MutationNoReturn
  <2>3. ASSUME NEW t \in Everyone, Step(t) PROVE Kept
    <3>1. CASE EndRegister(t)
      BY <3>1, ReturnIsShown
    <3>2. CASE BeginPersist(t) \/ EndPersist(t) \/ QueueWork(t) \/ EndClose(t)
      <4>1. tabs' = tabs
        BY <3>2 DEF BeginPersist, EndPersist, QueueWork, EndClose
      <4> QED
        BY <4>1, <2>1, SameNoReturn
    <3> QED
      BY <2>3, <3>1, <3>2 DEF Step
  <2>4. CASE RunPopup
    <3>1. CASE tabs' = tabs
      BY <3>1, <2>1, SameNoReturn
    <3>2. CASE BrowserOpened(Head(queue).url)
      <4>1. Head(queue).url \in Urls
        <5>1. Head(queue) \in Work /\ Head(queue).fn = "popup"
          BY <2>4 DEF RunPopup, TypeOK
        <5> QED
          BY <5>1, WorkFacts
      <4> QED
        BY <3>2, <4>1, <2>1, OpenedNoReturn
    <3> QED
      BY <2>4, <3>1, <3>2 DEF RunPopup
  <2>5. CASE ShellClick \/ OpenPopup \/ RunQueued \/ CloseWindow \/ Unlock \/ UNCHANGED vars
    <3>1. tabs' = tabs
      BY <2>5 DEF ShellClick, ClickTab, ClickNewTab, Program, OpenPopup, RunQueued, CloseWindow,
                  Unlock, vars
    <3> QED
      BY <3>1, <2>1, SameNoReturn
  <2> QED
    BY <2>2, <2>3, <2>4, <2>5 DEF Next, SomeSend, Everyone
<1> QED
  BY <1>1, Invariance, PTL DEF Spec, OnlyShownReturn

-----------------------------------------------------------------------------
\* The saved session, when the user acts after the restore.

\* The session is a list of saved tabs, in memory and, cut to its limit, in the file.
SavedAs(new) == openTabs = new /\ savedTabs = Sanitized(new)

\* What CollectedInv says of a todo list that holds a collected one.
Fresh(list, new) == \A i \in DOMAIN list : list[i].do = "save" /\ list[i].own => list[i].session = new

\* CollectedInv of the next state, list by list.
LEMMA CollectedInvNext ==
  CollectedInv' <=>
    /\ WillPersist' \/ \A t \in Everyone : Fresh(todo'[t], Saveable(tabs'))
    /\ saveOK' => \/ WillPersist' \/ (openTabs' = Saveable(tabs') /\ savedTabs' = Sanitized(Saveable(tabs')))
                  \/ \E t \in Everyone : \E i \in DOMAIN todo'[t] :
                       todo'[t][i] = SaveList(Saveable(tabs'), TRUE)
BY DEF CollectedInv, ListIsSaved, Fresh

\* CollectedInv, list by list.
LEMMA CollectedInvIs ==
  CollectedInv <=>
    /\ WillPersist \/ \A t \in Everyone : Fresh(todo[t], Saveable(tabs))
    /\ saveOK => \/ WillPersist \/ SavedAs(Saveable(tabs))
                 \/ \E t \in Everyone : \E i \in DOMAIN todo[t] :
                      todo[t][i] = SaveList(Saveable(tabs), TRUE)
BY DEF CollectedInv, ListIsSaved, SavedAs, Fresh

\* A goroutine that was idle has taken up work: it saves nothing yet, and it persists
\* the list if it has changed the part that is saved.
Begun(t) ==
  /\ todo[t] = <<>> /\ \A u \in Everyone : u # t => todo'[u] = todo[u]
  /\ \A i \in DOMAIN todo'[t] : todo'[t][i].do # "save"
  /\ UNCHANGED <<openTabs, savedTabs, configSaveMu, saveOK>>
  /\ \/ Saveable(tabs') = Saveable(tabs)
     \/ \E i \in DOMAIN todo'[t] : todo'[t][i] = Persist

\* Work taken up keeps the saved session in order.
LEMMA BegunKeeps ==
  ASSUME SaverInv, CollectedInv, NEW t \in Everyone, Begun(t)
  PROVE  SaverInv' /\ CollectedInv'
<1>1. /\ todo[t] = <<>> /\ \A u \in Everyone : u # t => todo'[u] = todo[u]
      /\ \A i \in DOMAIN todo'[t] : todo'[t][i].do # "save"
      /\ UNCHANGED <<openTabs, savedTabs, configSaveMu, saveOK>>
  BY DEF Begun
<1>2. DOMAIN todo[t] = {}
  BY <1>1
<1>3. SaverInv'
  BY <1>1 DEF SaverInv
<1>4. WillPersist => WillPersist'
  BY <1>1, <1>2 DEF WillPersist
<1>5. CASE Saveable(tabs') = Saveable(tabs)
  <2> DEFINE new == Saveable(tabs)
  <2>1. /\ WillPersist \/ \A u \in Everyone : Fresh(todo[u], new)
        /\ saveOK => \/ WillPersist \/ SavedAs(new)
                     \/ \E u \in Everyone : \E i \in DOMAIN todo[u] :
                          todo[u][i] = SaveList(new, TRUE)
    BY CollectedInvIs
  <2> HIDE DEF new
  <2>2. (\A u \in Everyone : Fresh(todo[u], new)) => \A u \in Everyone : Fresh(todo'[u], new)
    BY <1>1 DEF Fresh
  <2>3. (\E u \in Everyone : \E i \in DOMAIN todo[u] : todo[u][i] = SaveList(new, TRUE)) =>
          \E u \in Everyone : \E i \in DOMAIN todo'[u] : todo'[u][i] = SaveList(new, TRUE)
    BY <1>1, <1>2
  <2>4. Saveable(tabs') = new
    BY <1>5 DEF new
  <2>5. SavedAs(new) => openTabs' = new /\ savedTabs' = Sanitized(new)
    BY <1>1 DEF SavedAs
  <2>6. CollectedInv'
    BY <1>1, <1>4, <2>1, <2>2, <2>3, <2>4, <2>5, CollectedInvNext
  <2> QED
    BY <1>3, <2>6
<1>6. CASE \E i \in DOMAIN todo'[t] : todo'[t][i] = Persist
  <2>1. WillPersist'
    BY <1>6 DEF WillPersist
  <2> QED
    BY <1>3, <2>1, CollectedInvNext
<1> QED
  BY <1>5, <1>6 DEF Begun

\* A message of the shell, through its queue or not, is work taken up.
LEMMA MessageBegun ==
  ASSUME TypeOK, NEW t \in Threads, NEW S, NEW rest \in Seq(S),
         Message(t, rest) \/ \E op : Sends(t, op, rest),
         \A i \in DOMAIN rest : rest[i].do # "save", UNCHANGED Elsewhere,
         Saveable(tabs') = Saveable(tabs) \/ \E i \in DOMAIN rest : rest[i] = Persist
  PROVE  Begun(t)
<1>0. t \in Everyone /\ todo \in [Everyone -> Seq(Steps)]
  BY DEF TypeOK, Everyone
<1>1. UNCHANGED <<openTabs, savedTabs, configSaveMu, saveOK>>
  BY DEF Elsewhere
<1>2. CASE Message(t, rest)
  <2>1. todo[t] = <<>> /\ todo'[t] = rest /\ \A u \in Everyone : u # t => todo'[u] = todo[u]
    BY <1>0, <1>2 DEF Message
  <2> QED
    BY <1>1, <2>1 DEF Begun
<1>3. CASE \E op : Sends(t, op, rest)
  <2> DEFINE all == rest \o <<Dispatch(Resolve)>>
  <2>1. todo[t] = <<>> /\ todo'[t] = all /\ \A u \in Everyone : u # t => todo'[u] = todo[u]
    BY <1>0, <1>3 DEF Sends
  <2>2. /\ Len(rest) \in Nat /\ DOMAIN rest = 1..Len(rest) /\ DOMAIN all = 1..Len(rest) + 1
        /\ \A i \in 1..Len(rest) : all[i] = rest[i]
        /\ all[Len(rest) + 1] = Dispatch(Resolve)
    OBVIOUS
  <2>3. Dispatch(Resolve).do = "dispatch"
    BY DEF Dispatch
  <2> HIDE DEF all
  <2>4. DOMAIN all = DOMAIN rest \cup {Len(rest) + 1}
    BY <2>2
  <2>5. \A i \in DOMAIN all : all[i].do # "save"
    BY <2>2, <2>3, <2>4
  <2>6. (\E i \in DOMAIN rest : rest[i] = Persist) => \E i \in DOMAIN all : all[i] = Persist
    BY <2>2, <2>4
  <2> QED
    BY <1>1, <2>1, <2>5, <2>6 DEF Begun
<1> QED
  BY <1>2, <1>3

\* One list after the other.
LEMMA Joined ==
  ASSUME NEW S, NEW a \in Seq(S), NEW b \in Seq(S)
  PROVE  /\ a \o b \in Seq(S)
         /\ \A i \in DOMAIN (a \o b) : \/ i \in DOMAIN a /\ (a \o b)[i] = a[i]
                                       \/ \E k \in DOMAIN b : (a \o b)[i] = b[k]
         /\ \A i \in DOMAIN a : i \in DOMAIN (a \o b) /\ (a \o b)[i] = a[i]
<1> DEFINE c == a \o b
<1>1. /\ c \in Seq(S) /\ Len(a) \in Nat /\ Len(b) \in Nat
      /\ DOMAIN a = 1..Len(a) /\ DOMAIN b = 1..Len(b) /\ DOMAIN c = 1..Len(a) + Len(b)
      /\ \A i \in 1..Len(a) : c[i] = a[i]
      /\ \A i \in Len(a) + 1..Len(a) + Len(b) : c[i] = b[i - Len(a)]
  OBVIOUS
<1> HIDE DEF c
<1>2. ASSUME NEW i \in DOMAIN c
      PROVE  (i \in DOMAIN a /\ c[i] = a[i]) \/ \E k \in DOMAIN b : c[i] = b[k]
  <2>1. CASE i <= Len(a)
    BY <1>1, <2>1
  <2>2. CASE i > Len(a)
    <3>1. i - Len(a) \in DOMAIN b /\ c[i] = b[i - Len(a)]
      BY <1>1, <2>2
    <3> QED
      BY <3>1
  <2> QED
    BY <1>1, <2>1, <2>2
<1>3. \A i \in DOMAIN a : i \in DOMAIN c /\ c[i] = a[i]
  BY <1>1
<1> QED
  BY <1>1, <1>2, <1>3 DEF c

\* A list of one and a list of two.
LEMMA Three ==
  ASSUME NEW a, NEW b, NEW c
  PROVE  <<a>> \o <<b, c>> = <<a, b, c>>
<1> DEFINE S == {a, b, c}
           s == <<a>> \o <<b, c>>
           r == <<a, b, c>>
<1>1. s \in Seq(S) /\ r \in Seq(S)
  OBVIOUS
<1>2. Len(s) = 3 /\ Len(r) = 3
  OBVIOUS
<1>3. s[1] = a /\ s[2] = b /\ s[3] = c
  OBVIOUS
<1>4. r[1] = a /\ r[2] = b /\ r[3] = c
  OBVIOUS
<1> HIDE DEF s, r, S
<1>5. \A i \in 1..3 : s[i] = r[i]
  BY <1>3, <1>4
<1>6. s = r
  BY <1>1, <1>2, <1>5
<1> QED
  BY <1>6 DEF s, r

\* The messages that change a tab persist the list.
LEMMA EditsBegin ==
  ASSUME TypeOK, NEW t \in Threads,
         \/ NewBrowserTab(t) \/ NewRemoteTab(t) \/ NavigateBrowser(t)
         \/ UpdateActiveBrowserTitle(t) \/ ReorderTab(t) \/ ForgetTab(t)
  PROVE  Begun(t) /\ UNCHANGED restored
<1>0. Persist.do = "persist" /\ \A f : Dispatch(f).do = "dispatch"
  BY DEF Persist, Dispatch
<1>1. ASSUME NEW f, Message(t, <<Persist, f>>), f.do = "dispatch", UNCHANGED Elsewhere PROVE Begun(t)
  <2> DEFINE rest == <<Persist, f>>
  <2>1. /\ rest \in Seq({Persist, f}) /\ \A i \in DOMAIN rest : rest[i].do # "save"
        /\ 1 \in DOMAIN rest /\ rest[1] = Persist /\ Message(t, rest)
    BY <1>0, <1>1
  <2> HIDE DEF rest
  <2> QED
    BY <1>1, <2>1, MessageBegun
<1>2. ASSUME Message(t, <<Persist>>) \/ Sends(t, "reorder", <<Persist>>), UNCHANGED Elsewhere
      PROVE  Begun(t)
  <2> DEFINE rest == <<Persist>>
  <2>1. /\ rest \in Seq({Persist}) /\ \A i \in DOMAIN rest : rest[i].do # "save"
        /\ 1 \in DOMAIN rest /\ rest[1] = Persist
        /\ Message(t, rest) \/ \E op : Sends(t, op, rest)
    BY <1>0, <1>2
  <2> HIDE DEF rest
  <2> QED
    BY <1>2, <2>1, MessageBegun
<1>3. ASSUME NEW f, Sends(t, "forget", <<f, Persist>>), f.do = "dispatch", UNCHANGED Elsewhere
      PROVE  Begun(t)
  <2> DEFINE rest == <<f, Persist>>
  <2>1. /\ rest \in Seq({Persist, f}) /\ \A i \in DOMAIN rest : rest[i].do # "save"
        /\ 2 \in DOMAIN rest /\ rest[2] = Persist /\ \E op : Sends(t, op, rest)
    BY <1>0, <1>3
  <2> HIDE DEF rest
  <2> QED
    BY <1>3, <2>1, MessageBegun
<1>4. ASSUME NEW f, NEW g, Message(t, <<Persist, f, g>>), f.do = "dispatch", g.do = "dispatch",
             UNCHANGED Elsewhere
      PROVE  Begun(t)
  <2> DEFINE rest == <<Persist, f, g>>
  <2>1. /\ rest \in Seq({Persist, f, g}) /\ \A i \in DOMAIN rest : rest[i].do # "save"
        /\ 1 \in DOMAIN rest /\ rest[1] = Persist /\ Message(t, rest)
    BY <1>0, <1>4
  <2> HIDE DEF rest
  <2> QED
    BY <1>4, <2>1, MessageBegun
<1>5. CASE NewBrowserTab(t)
  <2>1. PICK u \in Urls : /\ BrowserOpened(u) /\ UNCHANGED <<Elsewhere, ShellQueue>>
                         /\ Message(t, <<Persist, Dispatch(Show(nextID)), Dispatch(Open(nextID, u))>>)
    BY <1>5 DEF NewBrowserTab
  <2>2. UNCHANGED Elsewhere /\ UNCHANGED restored
    BY <2>1 DEF BrowserOpened
  <2> QED
    BY <1>0, <1>4, <2>1, <2>2
<1>6. CASE NewRemoteTab(t)
  <2>1. Message(t, <<Persist, Dispatch(HideAll)>>) /\ UNCHANGED Elsewhere /\ UNCHANGED restored
    BY <1>6 DEF NewRemoteTab
  <2> QED
    BY <1>0, <1>1, <2>1
<1>7. CASE NavigateBrowser(t)
  <2>1. PICK u \in Urls :
          /\ Message(t, <<Persist>> \o IF ActiveBrowser = {} THEN <<>>
                                       ELSE <<Dispatch(Show(activeTab)), Dispatch(Open(activeTab, u))>>)
          /\ UNCHANGED Elsewhere /\ UNCHANGED restored
    BY <1>7 DEF NavigateBrowser
  <2>2. CASE ActiveBrowser = {}
    <3>1. <<Persist>> \o <<>> = <<Persist>>
      OBVIOUS
    <3>2. Message(t, <<Persist>>)
      BY <2>1, <2>2, <3>1
    <3> QED
      BY <1>2, <2>1, <3>2
  <2>3. CASE ActiveBrowser # {}
    <3> DEFINE f == Dispatch(Show(activeTab))
               g == Dispatch(Open(activeTab, u))
    <3>1. Message(t, <<Persist>> \o <<f, g>>) /\ f.do = "dispatch" /\ g.do = "dispatch"
      BY <1>0, <2>1, <2>3
    <3> HIDE DEF f, g
    <3>2. <<Persist>> \o <<f, g>> = <<Persist, f, g>>
      BY Three
    <3>3. Message(t, <<Persist, f, g>>)
      BY <3>1, <3>2
    <3> QED
      BY <1>4, <2>1, <3>1, <3>3
  <2> QED
    BY <2>2, <2>3
<1>8. CASE UpdateActiveBrowserTitle(t)
  <2>1. Message(t, <<Persist>>) /\ UNCHANGED Elsewhere /\ UNCHANGED restored
    BY <1>8 DEF UpdateActiveBrowserTitle
  <2> QED
    BY <1>2, <2>1
<1>9. CASE ReorderTab(t)
  <2>1. UNCHANGED Elsewhere /\ UNCHANGED restored
    BY <1>9 DEF ReorderTab, Beyond
  <2>2. CASE Sends(t, "reorder", <<Persist>>)
    BY <1>2, <2>1, <2>2
  <2>3. CASE Sends(t, "reorder", <<>>) /\ tabs' = tabs
    <3> DEFINE rest == <<>>
    <3>1. /\ rest \in Seq(Steps) /\ \A i \in DOMAIN rest : rest[i].do # "save"
          /\ \E op : Sends(t, op, rest)
      BY <2>3
    <3> HIDE DEF rest
    <3>2. Saveable(tabs') = Saveable(tabs)
      BY <2>3
    <3> QED
      BY <2>1, <3>1, <3>2, MessageBegun
  <2> QED
    BY <1>9, <2>2, <2>3 DEF ReorderTab
<1>10. CASE ForgetTab(t)
  <2>1. PICK id : /\ Sends(t, "forget", <<Dispatch(Destroy(id)), Persist>>)
                  /\ UNCHANGED Elsewhere /\ UNCHANGED restored
    BY <1>10 DEF ForgetTab, Beyond
  <2> QED
    BY <1>0, <1>3, <2>1
<1> QED
  BY <1>5, <1>6, <1>7, <1>8, <1>9, <1>10

\* closeTab persists the list, and registerLocalTab will.
LEMMA CloseAndRegisterBegin ==
  ASSUME TypeOK, IInv, NEW t \in Threads, CloseTab(t) \/ RegisterLocalTab(t)
  PROVE  Begun(t) /\ UNCHANGED restored
<1>0. /\ Persist.do = "persist" /\ \A f : Dispatch(f).do = "dispatch"
      /\ \A f : Upsert(f).do = "upsert"
      /\ \A f : SwitchTo(f).do = "switch"
      /\ GoHome.do = "goHome"
  BY DEF Persist, Dispatch, Upsert, SwitchTo, GoHome
<1>1. ASSUME NEW f, f.do # "save", NEW S, NEW more \in Seq(S), \A i \in DOMAIN more : more[i].do # "save",
             Sends(t, "close", <<f, Persist>> \o more), UNCHANGED Elsewhere
      PROVE  Begun(t)
  <2> DEFINE first == <<f, Persist>>
             rest == first \o more
             T == S \cup {f, Persist}
  <2>1. /\ first \in Seq(T) /\ more \in Seq(T) /\ 2 \in DOMAIN first /\ first[2] = Persist
        /\ \A i \in DOMAIN first : first[i].do # "save"
    <3>1. first \in Seq(T) /\ 2 \in DOMAIN first /\ first[2] = Persist
      OBVIOUS
    <3>2. \A i \in DOMAIN first : first[i].do # "save"
      BY <1>0, <1>1
    <3>3. more \in Seq(T)
      BY <1>1, SeqMonotonic
    <3> QED
      BY <3>1, <3>2, <3>3
  <2>2. \E op : Sends(t, op, rest)
    BY <1>1
  <2> HIDE DEF first, T
  <2>3. /\ rest \in Seq(T) /\ 2 \in DOMAIN rest /\ rest[2] = Persist
        /\ \A i \in DOMAIN rest : rest[i].do # "save"
    BY <1>1, <2>1, Joined
  <2> HIDE DEF rest
  <2> QED
    BY <1>1, <2>2, <2>3, MessageBegun
<1>2. CASE CloseTab(t)
  <2>0. \E id, next, rest :
          /\ Sends(t, "close", <<Dispatch(Destroy(id)), Persist>> \o
                         IF rest = <<>> \/ next = Nobody THEN <<GoHome>>
                         ELSE IF activeTab = id THEN <<SwitchTo(next)>> ELSE <<>>)
          /\ UNCHANGED Elsewhere /\ UNCHANGED restored
    <3> DEFINE id == Head(mutations).id
               rest == Without(tabs, id)
               at == Find(tabs, id)
               next == IF activeTab # id THEN activeTab
                       ELSE IF rest = <<>> THEN Nobody
                       ELSE rest[IF at > Len(rest) THEN Len(rest) ELSE at].id
    <3>1. Sends(t, "close", <<Dispatch(Destroy(id)), Persist>> \o
                         IF rest = <<>> \/ next = Nobody THEN <<GoHome>>
                         ELSE IF activeTab = id THEN <<SwitchTo(next)>> ELSE <<>>)
      BY <1>2 DEF CloseTab
    <3>2. UNCHANGED Elsewhere /\ UNCHANGED restored
      BY <1>2 DEF CloseTab, Beyond
    <3> HIDE DEF id, rest, next
    <3> QED
      BY <3>1, <3>2
  <2>1. PICK id, next, rest :
          /\ Sends(t, "close", <<Dispatch(Destroy(id)), Persist>> \o
                         IF rest = <<>> \/ next = Nobody THEN <<GoHome>>
                         ELSE IF activeTab = id THEN <<SwitchTo(next)>> ELSE <<>>)
          /\ UNCHANGED Elsewhere /\ UNCHANGED restored
    BY <2>0
  <2> DEFINE more == IF rest = <<>> \/ next = Nobody THEN <<GoHome>>
                     ELSE IF activeTab = id THEN <<SwitchTo(next)>> ELSE <<>>
  <2>2. more \in Seq({GoHome, SwitchTo(next)}) /\ \A i \in DOMAIN more : more[i].do # "save"
    <3> DEFINE switch == SwitchTo(next)
    <3>1. switch.do = "switch" /\ GoHome.do = "goHome"
      BY <1>0
    <3>2. more = <<GoHome>> \/ more = <<switch>> \/ more = <<>>
      OBVIOUS
    <3> HIDE DEF more, switch
    <3>3. CASE more = <<GoHome>>
      BY <3>1, <3>3
    <3>4. CASE more = <<switch>>
      <4>1. more \in Seq({GoHome, switch}) /\ \A i \in DOMAIN more : more[i].do # "save"
        BY <3>1, <3>4
      <4> QED
        BY <4>1 DEF switch
    <3>5. CASE more = <<>>
      BY <3>5
    <3> QED
      BY <3>2, <3>3, <3>4, <3>5
  <2>3. Sends(t, "close", <<Dispatch(Destroy(id)), Persist>> \o more)
    BY <2>1
  <2> HIDE DEF more
  <2> QED
    BY <1>0, <1>1, <2>1, <2>2, <2>3
<1>3. CASE RegisterLocalTab(t)
  <2>1. UNCHANGED Elsewhere /\ UNCHANGED restored /\ Saveable(tabs') = Saveable(tabs)
    BY <1>3 DEF RegisterLocalTab, Beyond
  <2>2. PICK id, kind, u : Sends(t, "register", RegisterSteps(id, kind, u))
    BY <1>3, Zenon DEF RegisterLocalTab
  <2> DEFINE rest == RegisterSteps(id, kind, u)
  <2>3. (\E tab : rest = <<Upsert(tab), Persist>>) \/ rest = <<>>
    BY DEF RegisterSteps
  <2>4. \E op : Sends(t, op, rest)
    BY <2>2
  <2> HIDE DEF rest
  <2>5. \E S : rest \in Seq(S) /\ \A i \in DOMAIN rest : rest[i].do # "save"
    <3>1. ASSUME NEW tab, rest = <<Upsert(tab), Persist>>
          PROVE  rest \in Seq({Upsert(tab), Persist}) /\ \A i \in DOMAIN rest : rest[i].do # "save"
      BY <1>0, <3>1
    <3>2. ASSUME rest = <<>>
          PROVE  rest \in Seq(Steps) /\ \A i \in DOMAIN rest : rest[i].do # "save"
      BY <3>2
    <3> QED
      BY <2>3, <3>1, <3>2
  <2>6. Begun(t)
    BY <2>1, <2>4, <2>5, MessageBegun
  <2> QED
    BY <2>1, <2>6
<1> QED
  BY <1>2, <1>3

\* The other messages leave what is saved of the list alone.
LEMMA OthersBegin ==
  ASSUME TypeOK, IInv, NEW t \in Threads,
         \/ OpenSettingsTab(t) \/ SwitchTab(t) \/ CloseNothing(t) \/ ClearActiveTab(t)
         \/ HandleSaveTabs(t)
  PROVE  Begun(t) /\ UNCHANGED restored
<1>0. (\A f : Dispatch(f).do = "dispatch") /\ \A l : SaveTabs(l).do = "saveTabs"
  BY DEF Dispatch, SaveTabs
<1>1. ASSUME NEW f, Message(t, <<f>>) \/ \E op : Sends(t, op, <<f>>), f.do # "save",
             Saveable(tabs') = Saveable(tabs), UNCHANGED Elsewhere
      PROVE  Begun(t)
  <2> DEFINE rest == <<f>>
  <2>1. /\ rest \in Seq({f}) /\ \A i \in DOMAIN rest : rest[i].do # "save"
        /\ Message(t, rest) \/ \E op : Sends(t, op, rest)
    BY <1>1
  <2> HIDE DEF rest
  <2> QED
    BY <1>1, <2>1, MessageBegun
<1>2. CASE OpenSettingsTab(t)
  <2>1. /\ tabs' = Upserted(tabs, SettingsTab) /\ Message(t, <<Dispatch(HideAll)>>)
        /\ UNCHANGED Elsewhere /\ UNCHANGED restored
    BY <1>2 DEF OpenSettingsTab
  <2>2. /\ tabs \in Seq(Tab) /\ Distinct(tabs) /\ SettingsTab \in Tab
        /\ \A i \in DOMAIN tabs : tabs[i].id = Settings => tabs[i].kind = "settings"
    BY IDFacts, ListInvIs DEF IInv, TypeOK, Regular
  <2>3. Saveable(tabs') = Saveable(tabs)
    BY <2>1, <2>2, SettingsNotSaved
  <2> QED
    BY <1>0, <1>1, <2>1, <2>3
<1>3. CASE SwitchTab(t)
  <2>1. PICK id \in 0..nextID - 1 :
          /\ Message(t, ShowSteps(id)) /\ tabs' = tabs /\ UNCHANGED Elsewhere /\ UNCHANGED restored
    BY <1>3 DEF SwitchTab
  <2>2. /\ ShowSteps(id) \in Seq(Steps)
        /\ \A i \in DOMAIN ShowSteps(id) : Plain(ShowSteps(id)[i], nextID)
    BY IDFacts, ShowStepsPlain
  <2>3. \A i \in DOMAIN ShowSteps(id) : ShowSteps(id)[i].do # "save"
    BY <2>2 DEF Plain
  <2>4. Begun(t)
    BY <2>1, <2>2, <2>3, MessageBegun
  <2> QED
    BY <2>1, <2>4
<1>4. CASE CloseNothing(t)
  <2> DEFINE rest == <<>>
  <2>1. /\ \E op : Sends(t, op, rest)
        /\ tabs' = tabs /\ UNCHANGED Elsewhere /\ UNCHANGED restored
    BY <1>4 DEF CloseNothing, Beyond
  <2>2. rest \in Seq(Steps) /\ \A i \in DOMAIN rest : rest[i].do # "save"
    OBVIOUS
  <2> HIDE DEF rest
  <2>3. Begun(t)
    BY <2>1, <2>2, MessageBegun
  <2> QED
    BY <2>1, <2>3
<1>5. CASE ClearActiveTab(t)
  <2>1. /\ Sends(t, "clear", <<Dispatch(HideAll)>>) /\ Saveable(tabs') = Saveable(tabs)
        /\ UNCHANGED Elsewhere /\ UNCHANGED restored
    BY <1>5 DEF ClearActiveTab, Beyond
  <2>2. Dispatch(HideAll).do # "save"
    BY <1>0
  <2> QED
    BY <1>1, <2>1, <2>2
<1>6. CASE HandleSaveTabs(t)
  <2>1. PICK l : /\ Message(t, <<SaveTabs(l)>>) /\ tabs' = tabs
                 /\ UNCHANGED Elsewhere /\ UNCHANGED restored
    BY <1>6 DEF HandleSaveTabs
  <2> QED
    BY <1>0, <1>1, <2>1
<1> QED
  BY <1>2, <1>3, <1>4, <1>5, <1>6

\* What a goroutine that does a step has left: it saves nothing but what it has taken up
\* instead of the step, and a persist to come is still to come.
LEMMA DoneFacts ==
  ASSUME TypeOK, SaverInv, NEW t \in Everyone, todo[t] # <<>>, NEW more \in Seq(Steps),
         todo' = [todo EXCEPT ![t] = more \o Tail(@)]
  PROVE  /\ \A u \in Everyone : u # t => todo'[u] = todo[u]
         /\ 1 \in DOMAIN todo[t] /\ todo[t][1] = Head(todo[t])
         /\ \A i \in DOMAIN todo'[t] : todo'[t][i].do = "save" =>
              i \in DOMAIN more /\ todo'[t][i] = more[i]
         /\ \A i \in DOMAIN more : i \in DOMAIN todo'[t] /\ todo'[t][i] = more[i]
         /\ WillPersist /\ Head(todo[t]) # Persist => WillPersist'
         /\ (\E j \in DOMAIN todo[t] : j > 1 /\ todo[t][j] = Persist) => WillPersist'
<1> DEFINE list == todo[t]
           new == more \o Tail(list)
<1>0. todo \in [Everyone -> Seq(Steps)] /\ list \in Seq(Steps) /\ list # <<>>
  BY DEF TypeOK, Everyone
<1>1. todo'[t] = new /\ \A u \in Everyone : u # t => todo'[u] = todo[u]
  BY <1>0
<1>2. \A i \in DOMAIN list : list[i].do = "save" => i = 1
  BY DEF SaverInv
<1> HIDE DEF list
<1>3. /\ Len(list) \in Nat \ {0} /\ DOMAIN list = 1..Len(list) /\ Head(list) = list[1]
      /\ Len(more) \in Nat /\ DOMAIN more = 1..Len(more)
      /\ DOMAIN new = 1..Len(more) + Len(list) - 1
      /\ \A i \in 1..Len(more) : new[i] = more[i]
  BY <1>0, TodoShape
<1>4. /\ \A i \in DOMAIN new : \/ i \in DOMAIN more /\ new[i] = more[i]
                               \/ \E k \in DOMAIN list : k > 1 /\ new[i] = list[k]
      /\ \A k \in DOMAIN list : k > 1 => \E i \in DOMAIN new : new[i] = list[k]
  BY <1>0, Carried
<1> HIDE DEF new
<1>5. 1 \in DOMAIN list /\ \A k \in DOMAIN list : k # 1 => k > 1
  BY <1>3
<1>6. \A i \in DOMAIN new : new[i].do = "save" => i \in DOMAIN more /\ new[i] = more[i]
  BY <1>2, <1>4
<1>7. \A i \in DOMAIN more : i \in DOMAIN new /\ new[i] = more[i]
  BY <1>3
<1>8. ASSUME NEW j \in DOMAIN list, j > 1, list[j] = Persist PROVE WillPersist'
  <2>1. PICK i \in DOMAIN new : new[i] = list[j]
    BY <1>4, <1>8, Zenon
  <2>2. \E k \in DOMAIN todo'[t] : todo'[t][k] = Persist
    BY <1>1, <1>8, <2>1, Zenon
  <2> QED
    BY <2>2, Zenon DEF WillPersist
<1>9. ASSUME WillPersist, Head(list) # Persist PROVE WillPersist'
  <2>1. PICK u \in Everyone : \E i \in DOMAIN todo[u] : todo[u][i] = Persist
    BY <1>9 DEF WillPersist
  <2>2. CASE u # t
    BY <1>1, <2>1, <2>2 DEF WillPersist
  <2>3. CASE u = t
    BY <1>3, <1>5, <1>8, <1>9, <2>1, <2>3 DEF list
  <2> QED
    BY <2>2, <2>3
<1> QED
  BY <1>1, <1>3, <1>5, <1>6, <1>7, <1>8, <1>9 DEF list

\* A step that neither collects the tabs nor saves them.
LEMMA OtherStepKeeps ==
  ASSUME TypeOK, SaverInv, CollectedInv, NEW t \in Everyone, todo[t] # <<>>,
         Head(todo[t]).do # "save", Head(todo[t]) # Persist,
         NEW more \in Seq(Steps), \A i \in DOMAIN more : more[i].do # "save",
         todo' = [todo EXCEPT ![t] = more \o Tail(@)],
         UNCHANGED <<openTabs, savedTabs, configSaveMu, saveOK>>,
         Saveable(tabs') = Saveable(tabs) \/ WillPersist'
  PROVE  SaverInv' /\ CollectedInv'
<1>1. /\ \A u \in Everyone : u # t => todo'[u] = todo[u]
      /\ \A i \in DOMAIN todo[t] : todo[t][i].do # "save"
      /\ \A i \in DOMAIN todo'[t] : todo'[t][i].do # "save"
      /\ WillPersist => WillPersist'
  <2>1. /\ \A u \in Everyone : u # t => todo'[u] = todo[u]
        /\ 1 \in DOMAIN todo[t] /\ todo[t][1] = Head(todo[t])
        /\ \A i \in DOMAIN todo'[t] : todo'[t][i].do = "save" =>
             i \in DOMAIN more /\ todo'[t][i] = more[i]
        /\ WillPersist => WillPersist'
    BY DoneFacts
  <2>2. \A i \in DOMAIN todo[t] : todo[t][i].do # "save"
    BY <2>1 DEF SaverInv
  <2> QED
    BY <2>1, <2>2
<1>2. SaverInv'
  BY <1>1 DEF SaverInv
<1>3. CASE WillPersist'
  BY <1>2, <1>3, CollectedInvNext
<1>4. CASE Saveable(tabs') = Saveable(tabs) /\ ~WillPersist'
  <2> DEFINE now == Saveable(tabs)
             saved == SaveList(now, TRUE)
  <2>1. /\ \A u \in Everyone : Fresh(todo[u], now)
        /\ saveOK => \/ SavedAs(now)
                     \/ \E u \in Everyone : \E i \in DOMAIN todo[u] : todo[u][i] = saved
    BY <1>1, <1>4, CollectedInvIs
  <2>2. saved.do = "save"
    BY DEF SaveList
  <2> HIDE DEF now, saved
  <2>3. \A u \in Everyone : Fresh(todo'[u], now)
    BY <1>1, <2>1 DEF Fresh
  <2>4. saveOK' => \/ openTabs' = now /\ savedTabs' = Sanitized(now)
                   \/ \E u \in Everyone : \E i \in DOMAIN todo'[u] : todo'[u][i] = saved
    BY <1>1, <2>1, <2>2 DEF SavedAs
  <2>5. CollectedInv'
    BY <1>4, <2>3, <2>4, CollectedInvNext DEF now, saved
  <2> QED
    BY <1>2, <2>5
<1> QED
  BY <1>3, <1>4

\* persistOpenTabs and handleSaveTabs take configSaveMu: nobody else has a list to save.
LEMMA BeginPersistKeeps ==
  ASSUME TypeOK, SaverInv, CollectedInv, NEW t \in Everyone, BeginPersist(t)
  PROVE  SaverInv' /\ CollectedInv'
<1> DEFINE now == Saveable(tabs)
<1>0. /\ configSaveMu = Nobody /\ configSaveMu' = t /\ UNCHANGED <<tabs, openTabs, savedTabs, saveOK>>
      /\ Saveable(tabs') = now
  BY DEF BeginPersist, MutexFree
<1>1. \A u \in Everyone : \A i \in DOMAIN todo[u] : todo[u][i].do # "save"
  BY <1>0, TabsAssumption DEF SaverInv, Everyone
<1>2. now \in Seq(SavedTab)
  BY SaveableType DEF TypeOK
<1>3. /\ saveOK => \/ WillPersist \/ SavedAs(now)
                   \/ \E u \in Everyone : \E i \in DOMAIN todo[u] : todo[u][i] = SaveList(now, TRUE)
  BY CollectedInvIs
<1>4. (\A s, own : SaveList(s, own).do = "save") /\ Persist.do = "persist"
  BY DEF SaveList, Persist
<1> HIDE DEF now
<1>5. ASSUME NEW save \in Steps, save.do = "save", todo[t] # <<>>,
             todo' = [todo EXCEPT ![t] = <<save>> \o Tail(@)]
      PROVE  /\ SaverInv'
             /\ \A u \in Everyone : \A i \in DOMAIN todo'[u] : todo'[u][i].do = "save" => todo'[u][i] = save
             /\ \E i \in DOMAIN todo'[t] : todo'[t][i] = save
             /\ WillPersist /\ Head(todo[t]) # Persist => WillPersist'
  <2> DEFINE more == <<save>>
  <2>1. more \in Seq(Steps) /\ DOMAIN more = {1} /\ more[1] = save
    OBVIOUS
  <2>2. todo' = [todo EXCEPT ![t] = more \o Tail(@)]
    BY <1>5
  <2> HIDE DEF more
  <2>3. /\ \A u \in Everyone : u # t => todo'[u] = todo[u]
        /\ \A i \in DOMAIN todo'[t] : todo'[t][i].do = "save" =>
             i \in DOMAIN more /\ todo'[t][i] = more[i]
        /\ \A i \in DOMAIN more : i \in DOMAIN todo'[t] /\ todo'[t][i] = more[i]
        /\ WillPersist /\ Head(todo[t]) # Persist => WillPersist'
    BY <1>5, <2>1, <2>2, DoneFacts
  <2>4. SaverInv'
    BY <1>0, <1>1, <2>1, <2>3 DEF SaverInv
  <2>5. \A u \in Everyone : \A i \in DOMAIN todo'[u] : todo'[u][i].do = "save" => todo'[u][i] = save
    BY <1>1, <2>1, <2>3
  <2>6. \E i \in DOMAIN todo'[t] : todo'[t][i] = save
    BY <2>1, <2>3
  <2> QED
    BY <2>3, <2>4, <2>5, <2>6
<1>6. CASE Does(t, Persist, <<SaveList(now, TRUE)>>)
  <2> DEFINE save == SaveList(now, TRUE)
  <2>1. save \in Steps /\ save.do = "save" /\ save.session = now
    BY <1>2, StepFacts
  <2>2. todo[t] # <<>> /\ todo' = [todo EXCEPT ![t] = <<save>> \o Tail(@)]
    BY <1>6 DEF Does
  <2> HIDE DEF save
  <2>3. /\ SaverInv' /\ \E i \in DOMAIN todo'[t] : todo'[t][i] = save
        /\ \A u \in Everyone : \A i \in DOMAIN todo'[u] : todo'[u][i].do = "save" => todo'[u][i] = save
    BY <1>5, <2>1, <2>2
  <2>4. \A u \in Everyone : Fresh(todo'[u], now)
    BY <2>1, <2>3 DEF Fresh
  <2>5. \E u \in Everyone : \E i \in DOMAIN todo'[u] : todo'[u][i] = SaveList(now, TRUE)
    BY <2>3 DEF save
  <2>6. CollectedInv'
    BY <1>0, <2>4, <2>5, CollectedInvNext
  <2> QED
    BY <2>3, <2>6
<1>7. CASE /\ todo[t] # <<>> /\ Head(todo[t]).do = "saveTabs"
           /\ Does(t, Head(todo[t]), <<SaveList(Head(todo[t]).session, FALSE)>>)
  <2> DEFINE save == SaveList(Head(todo[t]).session, FALSE)
  <2>1. save \in Steps /\ save.do = "save" /\ save.own = FALSE
    <3>1. Head(todo[t]).session \in Seq(SavedTab)
      BY <1>7, HeadFacts, StepShape
    <3> QED
      BY <3>1, StepFacts
  <2>2. todo[t] # <<>> /\ todo' = [todo EXCEPT ![t] = <<save>> \o Tail(@)]
    BY <1>7 DEF Does
  <2>3. Head(todo[t]) # Persist
    BY <1>4, <1>7
  <2> HIDE DEF save
  <2>4. /\ SaverInv' /\ (WillPersist => WillPersist')
        /\ \A u \in Everyone : \A i \in DOMAIN todo'[u] : todo'[u][i].do = "save" => todo'[u][i] = save
    BY <1>5, <2>1, <2>2, <2>3
  <2>5. \A u \in Everyone : Fresh(todo'[u], now)
    BY <2>1, <2>4 DEF Fresh
  <2>6. saveOK' => WillPersist' \/ (openTabs' = now /\ savedTabs' = Sanitized(now))
    BY <1>0, <1>1, <1>3, <1>4, <2>4 DEF SavedAs
  <2>7. CollectedInv'
    BY <1>0, <2>5, <2>6, CollectedInvNext
  <2> QED
    BY <2>4, <2>7
<1> QED
  BY <1>6, <1>7 DEF BeginPersist, now

\* SaveConfig ends: the list it saved is the one of this moment, or another persist comes.
LEMMA EndPersistKeeps ==
  ASSUME TypeOK, SaverInv, CollectedInv, NEW t \in Everyone, EndPersist(t)
  PROVE  SaverInv' /\ CollectedInv'
<1> DEFINE now == Saveable(tabs)
           save == Head(todo[t])
<1>0. /\ todo[t] # <<>> /\ save.do = "save" /\ todo' = [todo EXCEPT ![t] = <<>> \o Tail(@)]
      /\ Saveable(tabs') = now /\ <<>> \in Seq(Steps) /\ DOMAIN <<>> = {}
      /\ \/ /\ openTabs' = save.session /\ savedTabs' = Sanitized(save.session)
            /\ saveOK' = save.own
         \/ saveOK' = FALSE
  BY DEF EndPersist, Does
<1>1. /\ \A u \in Everyone : u # t => todo'[u] = todo[u]
      /\ 1 \in DOMAIN todo[t] /\ todo[t][1] = save
      /\ \A i \in DOMAIN todo'[t] : todo'[t][i].do # "save"
      /\ WillPersist /\ save # Persist => WillPersist'
  BY <1>0, DoneFacts
<1>2. save # Persist
  BY <1>0 DEF Persist
<1>3. configSaveMu = t
  BY <1>0, <1>1 DEF SaverInv
<1>4. \A u \in Everyone : \A i \in DOMAIN todo'[u] : todo'[u][i].do # "save"
  BY <1>1, <1>3 DEF SaverInv
<1>5. SaverInv'
  BY <1>4 DEF SaverInv
<1>6. save.own => save.session = now \/ WillPersist
  BY <1>0, <1>1 DEF CollectedInv
<1> HIDE DEF now, save
<1>7. \A u \in Everyone : Fresh(todo'[u], now)
  BY <1>4 DEF Fresh
<1>8. saveOK' => WillPersist' \/ (openTabs' = now /\ savedTabs' = Sanitized(now))
  BY <1>0, <1>1, <1>2, <1>6
<1>9. CollectedInv'
  BY <1>0, <1>7, <1>8, CollectedInvNext
<1> QED
  BY <1>5, <1>9

\* Every step of a goroutine or of the GTK thread.
LEMMA StepKeeps ==
  ASSUME TypeOK, IInv, SaverInv, CollectedInv, NEW t \in Everyone, Step(t)
  PROVE  SaverInv' /\ CollectedInv'
<1>0. /\ Persist.do = "persist" /\ GoHome.do = "goHome" /\ <<>> \in Seq(Steps)
      /\ \A i \in DOMAIN <<>> : <<>>[i].do # "save"
  BY DEF Persist, GoHome
<1>1. CASE QueueWork(t)
  <2>1. /\ todo[t] # <<>> /\ Head(todo[t]).do = "dispatch"
        /\ todo' = [todo EXCEPT ![t] = <<>> \o Tail(@)]
        /\ UNCHANGED <<openTabs, savedTabs, configSaveMu, saveOK>> /\ Saveable(tabs') = Saveable(tabs)
    BY <1>1 DEF QueueWork, Does
  <2>2. Head(todo[t]).do # "save" /\ Head(todo[t]) # Persist
    BY <1>0, <2>1
  <2> QED
    BY <1>0, <2>1, <2>2, OtherStepKeeps
<1>2. CASE EndRegister(t)
  <2>1. /\ todo[t] # <<>> /\ Head(todo[t]).do = "upsert"
        /\ todo' = [todo EXCEPT ![t] = <<>> \o Tail(@)]
        /\ UNCHANGED <<openTabs, savedTabs, configSaveMu, saveOK>>
    BY <1>2 DEF EndRegister, Does, Elsewhere
  <2>2. Head(todo[t]).do # "save" /\ Head(todo[t]) # Persist
    BY <1>0, <2>1
  <2>3. /\ 1 \in DOMAIN todo[t] /\ todo[t][1] = Head(todo[t])
        /\ (\E j \in DOMAIN todo[t] : j > 1 /\ todo[t][j] = Persist) => WillPersist'
    BY <1>0, <2>1, DoneFacts
  <2>4. \E j \in DOMAIN todo[t] : j > 1 /\ todo[t][j] = Persist
    BY <2>1, <2>3 DEF IInv, RegisterInv
  <2> QED
    BY <1>0, <2>1, <2>2, <2>3, <2>4, OtherStepKeeps
<1>3. CASE EndClose(t)
  <2>0. /\ todo[t] # <<>> /\ UNCHANGED <<openTabs, savedTabs, configSaveMu, saveOK>>
        /\ Saveable(tabs') = Saveable(tabs)
    BY <1>3 DEF EndClose, Elsewhere
  <2>1. CASE Does(t, GoHome, <<Dispatch(HideAll)>>)
    <3> DEFINE more == <<Dispatch(HideAll)>>
    <3>1. more \in Seq(Steps) /\ \A i \in DOMAIN more : more[i].do # "save"
      <4>1. Plain(Dispatch(HideAll), nextID)
        BY PlainSteps
      <4> QED
        BY <4>1 DEF Plain
    <3>2. todo' = [todo EXCEPT ![t] = more \o Tail(@)] /\ Head(todo[t]) = GoHome
      BY <2>1 DEF Does
    <3>3. Head(todo[t]).do # "save" /\ Head(todo[t]) # Persist
      BY <1>0, <3>2
    <3> HIDE DEF more
    <3> QED
      BY <2>0, <3>1, <3>2, <3>3, OtherStepKeeps
  <2>2. CASE Head(todo[t]).do = "switch" /\ Does(t, Head(todo[t]), ShowSteps(Head(todo[t]).id))
    <3> DEFINE more == ShowSteps(Head(todo[t]).id)
    <3>1. more \in Seq(Steps) /\ \A i \in DOMAIN more : more[i].do # "save"
      <4>1. Head(todo[t]).id \in IDs
        BY <2>0, <2>2, HeadFacts, StepShape
      <4>2. /\ ShowSteps(Head(todo[t]).id) \in Seq(Steps)
            /\ \A i \in DOMAIN ShowSteps(Head(todo[t]).id) :
                 Plain(ShowSteps(Head(todo[t]).id)[i], nextID)
        BY <4>1, ShowStepsPlain
      <4> QED
        BY <4>2 DEF Plain
    <3>2. todo' = [todo EXCEPT ![t] = more \o Tail(@)]
      BY <2>2 DEF Does
    <3>3. Head(todo[t]).do # "save" /\ Head(todo[t]) # Persist
      BY <1>0, <2>2
    <3> HIDE DEF more
    <3> QED
      BY <2>0, <3>1, <3>2, <3>3, OtherStepKeeps
  <2> QED
    BY <1>3, <2>1, <2>2 DEF EndClose
<1> QED
  BY <1>1, <1>2, <1>3, BeginPersistKeeps, EndPersistKeeps DEF Step

\* shellTabs restores the session while nothing has been saved or is to be saved.
LEMMA ShellTabsKeeps ==
  ASSUME TypeOK, SessionInv, NEW t \in Threads, ShellTabs(t)
  PROVE  SessionInv'
<1>0. /\ restored' = TRUE /\ Message(t, <<>>) /\ UNCHANGED Elsewhere
      /\ restored => tabs' = tabs
      /\ SaverInv /\ CollectedInv /\ FirstInv
  BY DEF ShellTabs, SessionInv
<1>1. t \in Everyone /\ todo[t] = <<>> /\ todo' = todo /\ UNCHANGED <<openTabs, savedTabs, configSaveMu, saveOK>>
  <2>1. t \in Everyone /\ todo \in [Everyone -> Seq(Steps)] /\ todo[t] = <<>>
        /\ todo' = [todo EXCEPT ![t] = <<>>]
    BY <1>0 DEF Message, TypeOK, Everyone
  <2> QED
    BY <1>0, <2>1 DEF Elsewhere
<1>2. FirstInv'
  BY <1>0 DEF FirstInv
<1>3. SaverInv'
  BY <1>0, <1>1 DEF SaverInv
<1>4. CASE restored
  <2>1. Saveable(tabs') = Saveable(tabs)
    BY <1>0, <1>4
  <2>2. DOMAIN todo[t] = {}
    BY <1>1
  <2>3. Begun(t)
    BY <1>1, <2>1, <2>2 DEF Begun
  <2> QED
    BY <1>0, <1>1, <1>2, <2>3, BegunKeeps DEF SessionInv
<1>5. CASE ~restored
  <2>1. ~saveOK' /\ \A u \in Everyone : DOMAIN todo'[u] = {}
    BY <1>0, <1>1, <1>5 DEF FirstInv
  <2>2. CollectedInv'
    BY <2>1, CollectedInvNext DEF Fresh
  <2> QED
    BY <1>2, <1>3, <2>2 DEF SessionInv
<1> QED
  BY <1>4, <1>5

\* The steps of the GTK thread and the unlock.
LEMMA WindowKeeps ==
  ASSUME TypeOK, SessionInv,
         OpenPopup \/ RunQueued \/ RunPopup \/ CloseWindow \/ Unlock \/ UNCHANGED vars
  PROVE  SessionInv'
<1>0. SaverInv /\ CollectedInv /\ FirstInv
  BY DEF SessionInv
<1>1. CASE RunPopup /\ BrowserOpened(Head(queue).url)
           /\ todo' = [todo EXCEPT ![UI] = <<Persist, Dispatch(Show(nextID)),
                                             Dispatch(Open(nextID, Head(queue).url))>>]
  <2> DEFINE rest == <<Persist, Dispatch(Show(nextID)), Dispatch(Open(nextID, Head(queue).url))>>
  <2>1. /\ queue # <<>> /\ todo[UI] = <<>> /\ restored' = restored
        /\ todo' = [todo EXCEPT ![UI] = rest]
        /\ UNCHANGED <<openTabs, savedTabs, configSaveMu, saveOK>>
    BY <1>1 DEF RunPopup, BrowserOpened
  <2>2. UI \in Everyone /\ todo \in [Everyone -> Seq(Steps)]
    BY DEF TypeOK, Everyone
  <2>3. 1 \in DOMAIN rest /\ rest[1] = Persist /\ \A i \in DOMAIN rest : rest[i].do # "save"
    BY DEF Persist, Dispatch
  <2> HIDE DEF rest
  <2>4. todo'[UI] = rest /\ \A u \in Everyone : u # UI => todo'[u] = todo[u]
    BY <2>1, <2>2
  <2>5. Begun(UI)
    BY <2>1, <2>3, <2>4 DEF Begun
  <2>6. FirstInv'
    BY <1>0, <2>1 DEF FirstInv
  <2> QED
    BY <1>0, <2>2, <2>5, <2>6, BegunKeeps DEF SessionInv
<1>2. CASE \/ OpenPopup \/ RunQueued \/ CloseWindow \/ Unlock \/ UNCHANGED vars
           \/ RunPopup /\ UNCHANGED <<tabs, activeTab, lastCloseTab, restored, nextID, gone, todo>>
  <2>1. UNCHANGED <<tabs, openTabs, savedTabs, restored, configSaveMu, todo, saveOK>>
    BY <1>2 DEF OpenPopup, RunQueued, RunPopup, CloseWindow, Unlock, vars
  <2>2. ~restored => queue' = <<>> /\ views' = <<>> /\ mutations' = <<>>
    BY <1>0, <1>2 DEF FirstInv, OpenPopup, RunQueued, RunPopup, CloseWindow, Unlock, ShellQueue, vars
  <2>3. SaverInv' /\ FirstInv'
    BY <1>0, <2>1, <2>2 DEF SaverInv, FirstInv
  <2>4. WillPersist' <=> WillPersist
    BY <2>1 DEF WillPersist
  <2>5. Saveable(tabs') = Saveable(tabs)
    BY <2>1
  <2>6. CollectedInv'
    BY <1>0, <2>1, <2>4, <2>5, CollectedInvIs, CollectedInvNext DEF SavedAs
  <2> QED
    BY <2>3, <2>6 DEF SessionInv
<1> QED
  BY <1>1, <1>2 DEF RunPopup

\* Every step, when the user acts after the restore.
LEMMA SessionNext ==
  ASSUME ~EarlyMessages, TypeOK, IInv, SessionInv, [Next]_vars
  PROVE  SessionInv'
<1>0. SaverInv /\ CollectedInv /\ FirstInv
  BY DEF SessionInv
<1>1. ASSUME NEW t \in Threads, ShellMessage(t) \/ SendMutation(t) PROVE SessionInv'
  <2>1. Begun(t) /\ UNCHANGED restored /\ restored
    <3>1. CASE ShellMessage(t)
      BY <3>1, EditsBegin, OthersBegin DEF ShellMessage
    <3>2. CASE SendMutation(t)
      <4>1. Begun(t) /\ UNCHANGED restored
        BY <3>2, EditsBegin, CloseAndRegisterBegin, OthersBegin DEF SendMutation
      <4>2. restored
        BY <1>0, <3>2 DEF FirstInv, SendMutation
      <4> QED
        BY <4>1, <4>2
    <3> QED
      BY <1>1, <3>1, <3>2
  <2>2. FirstInv' /\ t \in Everyone
    BY <2>1 DEF FirstInv, Everyone
  <2> QED
    BY <1>0, <2>1, <2>2, BegunKeeps DEF SessionInv
<1>2. ASSUME NEW t \in Everyone, Step(t) PROVE SessionInv'
  <2>1. todo[t] # <<>> /\ UNCHANGED restored
    BY <1>2 DEF Step, BeginPersist, EndPersist, QueueWork, EndRegister, EndClose, Does
  <2>2. restored'
    BY <1>0, <2>1 DEF FirstInv
  <2>3. FirstInv'
    BY <2>2 DEF FirstInv
  <2> QED
    BY <1>0, <1>2, <2>3, StepKeeps DEF SessionInv
<1>3. CASE ShellClick
  <2>1. /\ restored /\ UNCHANGED <<tabs, openTabs, savedTabs, restored, configSaveMu, todo, saveOK>>
    BY <1>3 DEF ShellClick, ClickTab, ClickNewTab, Program
  <2>2. SaverInv' /\ FirstInv'
    BY <1>0, <2>1 DEF SaverInv, FirstInv
  <2>3. WillPersist' <=> WillPersist
    BY <2>1 DEF WillPersist
  <2>4. Saveable(tabs') = Saveable(tabs)
    BY <2>1
  <2>5. CollectedInv'
    BY <1>0, <2>1, <2>3, <2>4, CollectedInvIs, CollectedInvNext DEF SavedAs
  <2> QED
    BY <2>2, <2>5 DEF SessionInv
<1> QED
  BY <1>1, <1>2, <1>3, ShellTabsKeeps, WindowKeeps DEF Next, SomeSend, Everyone

\* SessionIsSaved of every state, when the user acts after the restore: persistOpenTabs
\* collects the tabs under configSaveMu, and every goroutine that changes them persists
\* after it, so a save that was the last one is of the list as it is, in memory whole and in
\* the file as far as sanitizeSavedTabs lets it through.
THEOREM SessionSaved == ~EarlyMessages => (Spec => []SessionIsSaved)
<1> SUFFICES ASSUME ~EarlyMessages PROVE Spec => []SessionIsSaved
  OBVIOUS
<1>1. Init => SessionInv
  <2> SUFFICES ASSUME Init PROVE SessionInv
    OBVIOUS
  <2>1. /\ tabs = <<>> /\ ~saveOK /\ queue = <<>> /\ views = <<>> /\ mutations = <<>>
        /\ \A t \in Everyone : todo[t] = <<>>
    BY DEF Init, Everyone
  <2>2. \A t \in Everyone : DOMAIN todo[t] = {}
    BY <2>1
  <2> QED
    BY <2>1, <2>2 DEF SessionInv, SaverInv, CollectedInv, FirstInv
<1>2. TypeOK /\ IInv /\ SessionInv /\ [Next]_vars => SessionInv'
  BY SessionNext
<1>3. SessionInv => SessionIsSaved
  <2> SUFFICES ASSUME SessionInv, AtRest, saveOK PROVE ListIsSaved
    BY DEF SessionIsSaved
  <2>1. \A t \in Everyone : DOMAIN todo[t] = {}
    BY DEF AtRest, Everyone
  <2> QED
    BY <2>1 DEF SessionInv, CollectedInv, WillPersist
<1> QED
  BY <1>1, <1>2, <1>3, Invariance, PTL DEF Spec
=============================================================================
