------------------------- MODULE MessageQueueProofs -------------------------
(***************************************************************************)
(* Proofs about MessageQueue, for every set of tabs and messages and every *)
(* bound.                                                                  *)
(***************************************************************************)
EXTENDS MessageQueue, FiniteSetTheorems, SequenceTheorems, TLAPS

(***************************************************************************)
(* Lists.                                                                  *)
(***************************************************************************)

\* Counting the positions up to k numbers the positions in ks.
LEMMA Ranks ==
    ASSUME NEW n \in Nat, NEW ks \in SUBSET (1..n)
    PROVE  LET Rank == [k \in ks |-> Cardinality({j \in ks : j <= k})]
               c == Cardinality(ks)
           IN  /\ c \in Nat /\ c <= n
               /\ Rank \in [ks -> 1..c]
               /\ \A j, k \in ks : Rank[j] = Rank[k] => j = k
               /\ \A m \in 1..c : \E k \in ks : Rank[k] = m
               /\ 1 \in ks => Rank[1] = 1
<1> DEFINE Upto(k) == {j \in ks : j <= k}
           Rank == [k \in ks |-> Cardinality(Upto(k))]
           c == Cardinality(ks)
<1>0. \A k \in ks : k \in Nat /\ k >= 1
  OBVIOUS
<1>1. IsFiniteSet(1..n) /\ Cardinality(1..n) = n
  BY FS_Interval
<1>2. IsFiniteSet(ks) /\ c \in Nat /\ c <= n
  BY <1>1, FS_Subset, FS_CardinalityType
<1>3. ASSUME NEW k \in ks
      PROVE  /\ IsFiniteSet(Upto(k)) /\ Cardinality(Upto(k)) \in 1..c
  <2>1. Upto(k) \subseteq ks /\ k \in Upto(k)
    OBVIOUS
  <2>2. IsFiniteSet(Upto(k)) /\ Cardinality(Upto(k)) <= c
    BY <1>2, <2>1, FS_Subset
  <2>3. Cardinality(Upto(k)) \in Nat /\ Cardinality(Upto(k)) # 0
    BY <2>1, <2>2, FS_CardinalityType, FS_EmptySet
  <2> QED
    BY <1>2, <2>2, <2>3
<1>4. Rank \in [ks -> 1..c]
  BY <1>3
<1>5. ASSUME NEW j \in ks, NEW k \in ks, j < k
      PROVE  Rank[j] # Rank[k]
  <2>0. \A i \in ks : i <= j => i <= k
    BY <1>0, <1>5
  <2>1. Upto(j) \subseteq Upto(k) /\ k \in Upto(k) /\ k \notin Upto(j)
    <3>1. ~(k <= j) /\ k <= k
      BY <1>0, <1>5
    <3> QED
      BY <2>0, <3>1, Zenon
  <2>2. Cardinality(Upto(j)) # Cardinality(Upto(k))
    BY <1>3, <2>1, FS_Subset
  <2> QED
    BY <2>2
<1>6. \A j, k \in ks : Rank[j] = Rank[k] => j = k
  BY <1>5
<1>7. IsFiniteSet(1..c) /\ Cardinality(1..c) = c
  BY <1>2, FS_Interval
<1>8. Rank \in Injection(ks, 1..c)
  BY <1>4, <1>6, Zenon DEF Injection, IsInjective
<1>9. Rank \in Surjection(ks, 1..c)
  BY <1>2, <1>7, <1>8, FS_Injection
<1>10. \A m \in 1..c : \E k \in ks : Rank[k] = m
  BY <1>9 DEF Surjection
<1>11. ASSUME 1 \in ks
       PROVE  Rank[1] = 1
  <2>0. \A k \in ks : k <= 1 <=> k = 1
    BY <1>0
  <2>1. Upto(1) = {1}
    BY <1>11, <2>0, Zenon
  <2> QED
    BY <1>11, <2>1, FS_Singleton
<1> QED
  BY <1>2, <1>4, <1>6, <1>10, <1>11

\* Keep takes the elements at the chosen positions, each once, the first first.
LEMMA KeepSelects ==
    ASSUME NEW S, NEW s \in Seq(S), NEW ks \in SUBSET DOMAIN s
    PROVE  LET c == Cardinality(ks)
           IN  /\ c \in Nat /\ c <= Len(s)
               /\ \E at \in [1..c -> ks] :
                      /\ Keep(s, ks) = [n \in 1..c |-> s[at[n]]]
                      /\ \A k \in ks : \E n \in 1..c : at[n] = k
                      /\ \A a, b \in 1..c : at[a] = at[b] => a = b
                      /\ 1 \in ks => 1 \in 1..c /\ at[1] = 1
<1> DEFINE Rank == [k \in ks |-> Cardinality({j \in ks : j <= k})]
           c == Cardinality(ks)
           at == [n \in 1..c |-> CHOOSE k \in ks : Cardinality({j \in ks : j <= k}) = n]
<1>1. Len(s) \in Nat /\ ks \in SUBSET (1..Len(s))
  OBVIOUS
<1>2. /\ c \in Nat /\ c <= Len(s)
      /\ Rank \in [ks -> 1..c]
      /\ \A j, k \in ks : Rank[j] = Rank[k] => j = k
      /\ \A m \in 1..c : \E k \in ks : Rank[k] = m
      /\ 1 \in ks => Rank[1] = 1
  BY <1>1, Ranks
<1>3. ASSUME NEW n \in 1..c
      PROVE  at[n] \in ks /\ Rank[at[n]] = n
  <2>1. \E k \in ks : Cardinality({j \in ks : j <= k}) = n
    BY <1>2
  <2> QED
    BY <2>1
<1>4. at \in [1..c -> ks]
  BY <1>3
<1>5. Keep(s, ks) = [n \in 1..c |-> s[at[n]]]
  BY DEF Keep
<1>6. \A k \in ks : Rank[k] \in 1..c /\ at[Rank[k]] = k
  BY <1>2, <1>3
<1>7. \A a, b \in 1..c : at[a] = at[b] => a = b
  BY <1>3
<1>8. 1 \in ks => 1 \in 1..c /\ at[1] = 1
  BY <1>2, <1>6
<1> HIDE DEF at, Rank
<1> QED
  BY <1>2, <1>4, <1>5, <1>6, <1>7, <1>8

\* A list without some of the ids: the other entries, the first one first.
LEMMA WithoutList ==
    ASSUME NEW B \in Lists, NEW ids
    PROVE  LET A == Without(B, ids)
           IN  /\ A \in Lists
               /\ \A k \in DOMAIN A : \E j \in DOMAIN B : A[k] = B[j] /\ B[j].id \notin ids
               /\ \A j \in DOMAIN B : B[j].id \notin ids => \E k \in DOMAIN A : A[k] = B[j]
               /\ B # <<>> /\ B[1].id \notin ids => A # <<>> /\ A[1] = B[1]
<1> DEFINE ks == {k \in DOMAIN B : B[k].id \notin ids}
           A == Without(B, ids)
           c == Cardinality(ks)
<1>1. B \in Seq(Entry) /\ Len(B) <= MaxQueue /\ MaxQueue \in Nat
  BY BoundsAreNaturals DEF Lists
<1>2. ks \in SUBSET DOMAIN B /\ A = Keep(B, ks)
  BY DEF Without
<1>12. \A k \in DOMAIN B : k \in ks <=> B[k].id \notin ids
  OBVIOUS
<1> HIDE DEF ks, A
<1>3. c \in Nat /\ c <= Len(B)
  BY <1>1, <1>2, KeepSelects
<1>4. PICK at \in [1..c -> ks] :
          /\ Keep(B, ks) = [n \in 1..c |-> B[at[n]]]
          /\ \A k \in ks : \E n \in 1..c : at[n] = k
          /\ 1 \in ks => 1 \in 1..c /\ at[1] = 1
  BY <1>1, <1>2, KeepSelects
<1>5. A = [n \in 1..c |-> B[at[n]]]
  BY <1>2, <1>4
<1>6. \A n \in 1..c : at[n] \in DOMAIN B /\ B[at[n]] \in Entry /\ B[at[n]].id \notin ids
  BY <1>1, <1>2, <1>4, <1>12
<1>7. A \in Seq(Entry) /\ Len(A) = c /\ DOMAIN A = 1..c
  BY <1>3, <1>5, <1>6
<1>8. A \in Lists
  BY <1>1, <1>3, <1>7 DEF Lists
<1>9. \A k \in DOMAIN A : \E j \in DOMAIN B : A[k] = B[j] /\ B[j].id \notin ids
  BY <1>5, <1>6, <1>7
<1>10. ASSUME NEW j \in DOMAIN B, B[j].id \notin ids
       PROVE  \E k \in DOMAIN A : A[k] = B[j]
  BY <1>4, <1>5, <1>7, <1>10, <1>12
<1>11. ASSUME B # <<>>, B[1].id \notin ids
       PROVE  A # <<>> /\ A[1] = B[1]
  <2>1. 1 \in ks
    BY <1>1, <1>11, <1>12
  <2> QED
    BY <1>4, <1>5, <1>7, <2>1
<1> QED
  BY <1>8, <1>9, <1>10, <1>11 DEF A

\* Each element of Keep comes from a chosen position of its own.
LEMMA KeptFrom ==
    ASSUME NEW S, NEW s \in Seq(S), NEW ks \in SUBSET DOMAIN s
    PROVE  /\ Keep(s, ks) \in Seq(S)
           /\ \E at \in [DOMAIN Keep(s, ks) -> ks] :
                  /\ \A k \in DOMAIN Keep(s, ks) : Keep(s, ks)[k] = s[at[k]]
                  /\ \A j, k \in DOMAIN Keep(s, ks) : at[j] = at[k] => j = k
<1> DEFINE c == Cardinality(ks)
<1>1. c \in Nat
  BY KeepSelects
<1>2. PICK at \in [1..c -> ks] :
          /\ Keep(s, ks) = [n \in 1..c |-> s[at[n]]]
          /\ \A a, b \in 1..c : at[a] = at[b] => a = b
  BY KeepSelects
<1>3. \A n \in 1..c : at[n] \in ks /\ s[at[n]] \in S
  OBVIOUS
<1>4. Keep(s, ks) \in Seq(S) /\ DOMAIN Keep(s, ks) = 1..c
  BY <1>1, <1>2, <1>3
<1>5. /\ at \in [DOMAIN Keep(s, ks) -> ks]
      /\ \A k \in DOMAIN Keep(s, ks) : Keep(s, ks)[k] = s[at[k]]
      /\ \A j, k \in DOMAIN Keep(s, ks) : at[j] = at[k] => j = k
  BY <1>2, <1>3, <1>4
<1> QED
  BY <1>4, <1>5, Zenon

\* A is B without some of the entries with these ids.
Dropped(A, B, ids) ==
    /\ A \in Lists
    /\ \A k \in DOMAIN A : \E j \in DOMAIN B : A[k] = B[j]
    /\ \A j \in DOMAIN B : B[j].id \notin ids => \E k \in DOMAIN A : A[k] = B[j]
    /\ B # <<>> /\ B[1].id \notin ids => A # <<>> /\ A[1] = B[1]
    /\ B # <<>> /\ B[1].id \in Ids(A) => A # <<>> /\ A[1] = B[1]

\* A is B with the status of i set.
Marked(A, B, i, st) ==
    /\ A \in Lists
    /\ DOMAIN A = DOMAIN B
    /\ A # <<>> <=> B # <<>>
    /\ \A k \in DOMAIN B :
           /\ A[k].id = B[k].id
           /\ B[k].id # i => A[k] = B[k]
           /\ B[k].id = i => A[k].st = st

LEMMA DroppedNone ==
    ASSUME NEW B \in Lists, NEW ids
    PROVE  Dropped(B, B, ids)
BY DEF Dropped

LEMMA WithoutDrops ==
    ASSUME NEW B \in Lists, NEW ids
    PROVE  Dropped(Without(B, ids), B, ids)
<1> DEFINE A == Without(B, ids)
<1>1. /\ A \in Lists
      /\ \A k \in DOMAIN A : \E j \in DOMAIN B : A[k] = B[j] /\ B[j].id \notin ids
      /\ \A j \in DOMAIN B : B[j].id \notin ids => \E k \in DOMAIN A : A[k] = B[j]
      /\ B # <<>> /\ B[1].id \notin ids => A # <<>> /\ A[1] = B[1]
  BY WithoutList
<1> HIDE DEF A
<1>2. B[1].id \in Ids(A) => B[1].id \notin ids
  BY <1>1 DEF Ids
<1> QED
  BY <1>1, <1>2 DEF Dropped, A

LEMMA RemoveDrops ==
    ASSUME NEW q \in QueueType, NEW i
    PROVE  /\ RemoveItem(q, i) \in QueueType
           /\ Dropped(RemoveItem(q, i).items, q.items, {i})
           /\ RemoveItem(q, i).run = q.run
<1>1. q.items \in Lists
  BY DEF QueueType
<1>2. Dropped(Without(q.items, {i}), q.items, {i})
  BY <1>1, WithoutDrops
<1>3. Without(q.items, {i}) \in Lists
  BY <1>2 DEF Dropped
<1> QED
  BY <1>2, <1>3 DEF RemoveItem, QueueType

LEMMA ReconcileDrops ==
    ASSUME NEW q \in QueueType, NEW seen
    PROVE  /\ ReconcileHistory(q, seen) \in QueueType
           /\ Dropped(ReconcileHistory(q, seen).items, q.items, seen)
<1> DEFINE rest == Without(q.items, seen)
<1>1. q.items \in Lists /\ q.run \in RunStates
  BY DEF QueueType
<1>2. Dropped(rest, q.items, seen)
  BY <1>1, WithoutDrops
<1>3. rest \in Lists
  BY <1>2 DEF Dropped
<1>4. CASE Len(rest) = Len(q.items)
  BY <1>1, <1>4, DroppedNone DEF ReconcileHistory
<1>5. CASE Len(rest) # Len(q.items)
  <2> HIDE DEF rest
  <2>1. PICK r \in RunStates : ReconcileHistory(q, seen) = [items |-> rest, run |-> r]
    BY <1>1, <1>5 DEF ReconcileHistory, RunStates, rest
  <2> QED
    BY <1>2, <1>3, <2>1 DEF QueueType
<1> QED
  BY <1>4, <1>5

LEMMA EntryMarks ==
    ASSUME NEW e \in Entry, NEW st \in Statuses
    PROVE  LET m == [e EXCEPT !.st = st, !.tries = IF st = "failed" THEN 1 ELSE @]
           IN  m \in Entry /\ m.id = e.id /\ m.st = st
<1>1. PICK n \in 0..1 : [e EXCEPT !.st = st, !.tries = IF st = "failed" THEN 1 ELSE @]
                          = [e EXCEPT !.st = st, !.tries = n]
  <2>1. CASE st = "failed"
    BY <2>1
  <2>2. CASE st # "failed"
    BY <2>2 DEF Entry
  <2> QED
    BY <2>1, <2>2
<1> QED
  BY <1>1 DEF Entry

LEMMA StatusMarks ==
    ASSUME NEW q \in QueueType, NEW i, NEW st \in Statuses
    PROVE  /\ SetItemStatus(q, i, st) \in QueueType
           /\ Marked(SetItemStatus(q, i, st).items, q.items, i, st)
           /\ st # "failed" => SetItemStatus(q, i, st).run = q.run
<1> DEFINE B == q.items
           Mark(e) == IF e.id # i THEN e
                      ELSE [e EXCEPT !.st = st, !.tries = IF st = "failed" THEN 1 ELSE @]
           A == [k \in DOMAIN B |-> Mark(B[k])]
<1>1. B \in Seq(Entry) /\ Len(B) <= MaxQueue /\ q.run \in RunStates
  BY DEF QueueType, Lists
<1>2. PICK r \in RunStates : /\ SetItemStatus(q, i, st) = [items |-> A, run |-> r]
                             /\ st # "failed" => r = q.run
  BY <1>1 DEF SetItemStatus, RunStates
<1>3. \A e \in Entry : /\ Mark(e) \in Entry /\ Mark(e).id = e.id
                       /\ e.id # i => Mark(e) = e
                       /\ e.id = i => Mark(e).st = st
  BY EntryMarks
<1> HIDE DEF Mark, B
<1>4. Len(B) \in Nat /\ DOMAIN B = 1..Len(B)
  BY <1>1
<1>5. /\ \A k \in DOMAIN B : B[k] \in Entry /\ A[k] = Mark(B[k])
      /\ DOMAIN A = DOMAIN B
  BY <1>1
<1>6. A \in [1..Len(B) -> Entry]
  BY <1>3, <1>4, <1>5
<1>7. A \in Seq(Entry) /\ Len(A) = Len(B)
  BY <1>4, <1>6
<1> HIDE DEF A
<1>8. A \in Lists /\ (A # <<>> <=> B # <<>>)
  BY <1>1, <1>7 DEF Lists
<1>9. Marked(A, B, i, st)
  BY <1>3, <1>5, <1>8 DEF Marked
<1>10. [items |-> A, run |-> r] \in QueueType
  BY <1>8 DEF QueueType
<1> QED
  BY <1>2, <1>9, <1>10 DEF B

(***************************************************************************)
(* What a step does to a list.  B is the list before, A after the step.    *)
(***************************************************************************)

\* The first message has been sent or has failed.
Front(items, i) ==
    /\ items # <<>>
    /\ items[1].id = i
    /\ items[1].st \in {"sending", "failed"}

\* A message under way that the user knows nothing of stays in front, and the
\* one a sender is for stays at the head.
FrontKept(B, A) ==
    \A i \in InFlight \ (taken \cup waived') : Front(B, i) => Front(A, i)
HeadKept(B, A) ==
    \A i \in Ids(A) \ waived' :
        (\E t \in Tabs : job[t].id = i) /\ B # <<>> /\ B[1].id = i
            => A # <<>> /\ A[1].id = i

\* Nothing is added; what goes was accepted or taken off by the user.
Kept(B, A) ==
    /\ Ids(A) \subseteq Ids(B)
    /\ Ids(B) \ Ids(A) \subseteq taken' \cup dropped'
    /\ FrontKept(B, A)
    /\ HeadKept(B, A)

\* What may be sent could be sent before.
StillPending(B, A) ==
    \A k \in DOMAIN A : A[k].st = "pending" => \E j \in DOMAIN B : B[j] = A[k]

LEMMA SameKept ==
    ASSUME NEW B
    PROVE  Kept(B, B) /\ StillPending(B, B)
BY DEF Kept, StillPending, FrontKept, HeadKept

LEMMA KeptTwice ==
    ASSUME NEW A, NEW B, NEW C, Kept(B, C), Kept(C, A)
    PROVE  Kept(B, A)
<1>1. FrontKept(B, A)
  BY DEF Kept, FrontKept
<1>2. HeadKept(B, A)
  BY DEF Kept, HeadKept
<1> QED
  BY <1>1, <1>2 DEF Kept

LEMMA StillPendingTwice ==
    ASSUME NEW A, NEW B, NEW C, StillPending(B, C), StillPending(C, A)
    PROVE  StillPending(B, A)
BY DEF StillPending

LEMMA DroppedKept ==
    ASSUME NEW B \in Lists, NEW A, NEW ids, Dropped(A, B, ids),
           ids \subseteq taken' \cup dropped',
           ids \cap InFlight \subseteq taken \cup waived'
    PROVE  Kept(B, A) /\ StillPending(B, A)
<1>1. Ids(A) \subseteq Ids(B)
  BY DEF Dropped, Ids
<1>2. Ids(B) \ Ids(A) \subseteq taken' \cup dropped'
  BY DEF Dropped, Ids
<1>3. FrontKept(B, A)
  BY DEF Dropped, FrontKept, Front
<1>4. HeadKept(B, A)
  BY DEF Dropped, HeadKept
<1>5. StillPending(B, A)
  BY DEF Dropped, StillPending
<1> QED
  BY <1>1, <1>2, <1>3, <1>4, <1>5 DEF Kept

LEMMA MarkedKept ==
    ASSUME NEW B \in Lists, NEW A, NEW i, NEW st, Marked(A, B, i, st),
           st \in {"sending", "failed"} \/ i \in waived'
    PROVE  /\ Kept(B, A) /\ Ids(A) = Ids(B)
           /\ st # "pending" => StillPending(B, A)
<1>0. Len(B) \in Nat /\ DOMAIN B = 1..Len(B) /\ (B # <<>> => 1 \in DOMAIN B)
  BY DEF Lists
<1>1. Ids(A) = Ids(B)
  BY DEF Marked, Ids
<1>2. B # <<>> => A # <<>> /\ A[1].id = B[1].id
                  /\ (B[1].id # i => A[1] = B[1])
                  /\ (B[1].id = i => A[1].st = st)
  BY <1>0 DEF Marked
<1>3. FrontKept(B, A)
  BY <1>2 DEF FrontKept, Front
<1>4. HeadKept(B, A)
  BY <1>2 DEF HeadKept
<1>5. ASSUME st # "pending"
      PROVE  StillPending(B, A)
  BY <1>5 DEF StillPending, Marked
<1> QED
  BY <1>1, <1>3, <1>4, <1>5 DEF Kept

(***************************************************************************)
(* Writes.  Every write of a tab is a list made from the one it works on,  *)
(* with broadcasts of which the last list is the one written.              *)
(***************************************************************************)

\* The tab knows the queue: it shows it, works on it or was told of it.
Live(t) == \/ page[t] = "here"
           \/ job[t] # NoJob
           \/ queue[t].items # <<>>

\* The list a write is made from.
Base(t, B) == B = stored.items \/ (B = queue[t].items /\ Live(t))

Tells(msgs, q, B) ==
    /\ msgs \in Seq(Message)
    /\ \A k \in DOMAIN msgs : msgs[k].list =>
           /\ Ids(msgs[k].items) \subseteq Ids(B) \cup Ids(q.items)
           /\ FrontKept(B, msgs[k].items)
           /\ (\A j \in DOMAIN msgs : j > k => ~msgs[j].list)
                  => msgs[k].items = q.items
    /\ (\E k \in DOMAIN msgs : msgs[k].list) \/ q.items = B

\* A message that may be sent could be sent before, is new, or somebody has
\* just asked for it.
PendingKept(B, A) ==
    \A k \in DOMAIN A : A[k].st = "pending" =>
        LET i == A[k].id
        IN  \/ i \in asked' \cup (made' \ made)
            \/ /\ i \notin asked \ asked' /\ posts'[i] = posts[i]
               /\ \E j \in DOMAIN B : B[j] = A[k]

Follows(B, A) ==
    /\ Ids(A) \subseteq Ids(B) \cup (made' \ made)
    /\ Ids(B) \ Ids(A) \subseteq taken' \cup dropped'
    /\ PendingKept(B, A)
    /\ FrontKept(B, A)
    /\ HeadKept(B, A)

Writes(t, q, msgs, B) ==
    /\ Commit(t, q, msgs)
    /\ q \in QueueType /\ B \in Lists
    /\ Base(t, B)
    /\ Tells(msgs, q, B)
    /\ Follows(B, q.items)
    /\ msgs = <<>> => posts' = posts /\ asked \subseteq asked'

Rewrites(t) == \E q, msgs, B : Writes(t, q, msgs, B)

LEMMA MessagesOf ==
    ASSUME NEW q \in QueueType
    PROVE  /\ ListOf(q) \in Message /\ ListOf(q).list /\ ListOf(q).items = q.items
           /\ BothOf(q) \in Message /\ BothOf(q).list /\ BothOf(q).items = q.items
           /\ RunOf(q) \in Message /\ ~RunOf(q).list
<1>1. <<>> \in Lists
  BY BoundsAreNaturals DEF Lists
<1> QED
  BY <1>1 DEF QueueType, Message, ListOf, BothOf, RunOf

LEMMA Singles ==
    ASSUME NEW a, NEW b
    PROVE  /\ <<a>> \o <<b>> = <<a, b>>
           /\ <<a>> \o <<>> = <<a>>
           /\ <<>> \o <<a>> = <<a>>
<1> DEFINE S == {a, b}
<1>1. <<a>> \in Seq(S) /\ <<b>> \in Seq(S) /\ <<>> \in Seq(S) /\ <<a, b>> \in Seq(S)
  OBVIOUS
<1>2. <<a>> \o <<b>> = <<a, b>>
  <2> DEFINE s == <<a>> \o <<b>>
  <2>1. Len(s) = 2 /\ s[1] = a /\ s[2] = b /\ s \in Seq(S)
    BY <1>1
  <2> HIDE DEF s, S
  <2>2. \A k \in 1..2 : s[k] = <<a, b>>[k]
    BY <2>1
  <2>3. s = <<a, b>>
    BY <1>1, <2>1, <2>2, SeqEqual
  <2> QED
    BY <2>3 DEF s
<1>3. <<a>> \o <<>> = <<a>> /\ <<>> \o <<a>> = <<a>>
  BY <1>1, ConcatEmptySeq
<1> QED
  BY <1>2, <1>3

LEMMA TellsNothing ==
    ASSUME NEW q
    PROVE  Tells(<<>>, q, q.items)
BY DEF Tells

LEMMA TellsList ==
    ASSUME NEW q, NEW B, NEW m \in Message, m.list, m.items = q.items,
           FrontKept(B, q.items)
    PROVE  Tells(<<m>>, q, B)
BY DEF Tells

LEMMA TellsRun ==
    ASSUME NEW q, NEW m \in Message, ~m.list
    PROVE  Tells(<<m>>, q, q.items)
BY DEF Tells

LEMMA TellsTwo ==
    ASSUME NEW q, NEW B, NEW m \in Message, NEW n \in Message, m.list,
           Ids(m.items) \subseteq Ids(B) \cup Ids(q.items),
           FrontKept(B, m.items), FrontKept(B, q.items),
           n.list => n.items = q.items,
           ~n.list => m.items = q.items
    PROVE  Tells(<<m, n>>, q, B)
<1>1. <<m, n>> \in Seq(Message) /\ DOMAIN <<m, n>> = 1..2
  OBVIOUS
<1> QED
  BY <1>1 DEF Tells

\* Where nothing is sent, a list whose messages could be sent before follows.
LEMMA KeptFollows ==
    ASSUME NEW A, NEW B, Kept(B, A), StillPending(B, A),
           posts' = posts, asked \subseteq asked'
    PROVE  Follows(B, A)
<1>1. PendingKept(B, A)
  BY DEF StillPending, PendingKept
<1> QED
  BY <1>1 DEF Kept, Follows

(***************************************************************************)
(* Types, and what they need.                                              *)
(***************************************************************************)

\* The tabs that wait for the conversation show it, and wait once.
LineInv ==
    /\ \A k \in DOMAIN waiting : page[waiting[k]] = "here"
    /\ \A j, k \in DOMAIN waiting : waiting[j] = waiting[k] => j = k

\* A closed tab has nothing.
PageInv ==
    \A t \in Tabs : page[t] = "closed" =>
        queue[t] = Empty /\ inbox[t] = <<>> /\ job[t] = NoJob

\* What is in a list was queued, and what was posted was.
KnownInv ==
    /\ Ids(stored.items) \subseteq made
    /\ \A t \in Tabs : Ids(queue[t].items) \subseteq made
    /\ \A t \in Tabs : \A k \in DOMAIN inbox[t] :
           inbox[t][k].list => Ids(inbox[t][k].items) \subseteq made
    /\ \A i \in Items : posts[i] > 0 => i \in made

\* A sender that got its reply, or reads its stream, is for a message the
\* backend has taken; an interrupt was the user's.
JobInv ==
    \A t \in Tabs :
        /\ job[t].reply = "ok" \/ job[t].pc = "draining" => job[t].id \in taken
        /\ job[t].pc = "stopping" => job[t].id \in waived
        /\ job[t].pc \notin {"none", "slot"} => job[t].role \in {"fg", "bg"}

TypeInv == TypeOK /\ LineInv /\ PageInv /\ KnownInv /\ JobInv

(***************************************************************************)
(* Each action that writes makes its list from the one it works on.        *)
(***************************************************************************)

LEMMA QueueOf ==
    ASSUME TypeOK, NEW t \in Tabs
    PROVE  /\ queue[t] \in QueueType /\ queue[t].items \in Lists
           /\ stored \in QueueType /\ stored.items \in Lists
           /\ queue[t] = [items |-> queue[t].items, run |-> queue[t].run]
           /\ <<>> \in Lists
BY BoundsAreNaturals DEF TypeOK, ListTypes, QueueType, Lists

LEMMA MountWrites ==
    ASSUME TypeOK, JobInv, NEW t \in Tabs, Mount(t)
    PROVE  Rewrites(t)
<1> DEFINE B == stored.items
           q0 == LoadFromStorage(t)
           q1 == RemoveItem(q0, job[t].id)
<1>1. /\ posts' = posts /\ asked' = asked /\ taken' = taken
      /\ IF Subscribed(t) THEN Commit(t, q1, <<ListOf(q1)>>) ELSE Commit(t, q0, <<>>)
  BY DEF Mount, backend
<1>2. q0 \in QueueType /\ q0.items = B /\ B \in Lists
  BY QueueOf DEF LoadFromStorage, QueueType, RunStates
<1> HIDE DEF q0
<1>3. CASE Subscribed(t)
  <2>1. q1 \in QueueType /\ Dropped(q1.items, B, {job[t].id})
    BY <1>2, RemoveDrops
  <2>2. job[t].id \in taken
    BY <1>3 DEF Subscribed, JobInv
  <2> HIDE DEF q1
  <2>3. Kept(B, q1.items) /\ StillPending(B, q1.items)
    BY <1>1, <1>2, <2>1, <2>2, DroppedKept
  <2>4. Follows(B, q1.items)
    BY <1>1, <2>3, KeptFollows
  <2>5. Tells(<<ListOf(q1)>>, q1, B)
    BY <2>1, <2>3, MessagesOf, TellsList DEF Kept
  <2>6. Writes(t, q1, <<ListOf(q1)>>, B)
    BY <1>1, <1>2, <1>3, <2>1, <2>4, <2>5 DEF Writes, Base
  <2> QED
    BY <2>6 DEF Rewrites
<1>4. CASE ~Subscribed(t)
  <2>1. Follows(B, q0.items)
    BY <1>1, <1>2, SameKept, KeptFollows
  <2>2. Tells(<<>>, q0, B)
    BY <1>2, TellsNothing
  <2>3. Writes(t, q0, <<>>, B)
    BY <1>1, <1>2, <1>4, <2>1, <2>2 DEF Writes, Base
  <2> QED
    BY <2>3 DEF Rewrites
<1> QED
  BY <1>3, <1>4

LEMMA EnqueueWrites ==
    ASSUME TypeOK, NEW t \in Tabs, NEW i \in Items, Enqueue(t, i)
    PROVE  Rewrites(t)
<1> DEFINE B == queue[t].items
           e == [id |-> i, st |-> "pending", tries |-> 0]
           q == [queue[t] EXCEPT !.items = Append(@, e)]
           A == Append(B, e)
<1>1. /\ i \notin made /\ made' = made \cup {i} /\ Len(B) < MaxQueue
      /\ Commit(t, q, <<ListOf(q)>>) /\ page[t] = "here"
      /\ posts' = posts /\ asked' = asked /\ taken' = taken /\ waived' = waived
  BY DEF Enqueue, Edits
<1>2. B \in Seq(Entry) /\ queue[t] \in QueueType /\ MaxQueue \in Nat /\ B \in Lists
  BY QueueOf, BoundsAreNaturals DEF Lists
<1>3. e \in Entry
  BY DEF Entry, Statuses
<1>4. /\ A \in Seq(Entry) /\ Len(A) = Len(B) + 1 /\ A[Len(A)] = e
      /\ \A k \in DOMAIN B : k \in DOMAIN A /\ A[k] = B[k]
      /\ \A k \in DOMAIN A : k \in DOMAIN B \/ A[k] = e
  BY <1>2, <1>3
<1>5. A \in Lists
  BY <1>1, <1>2, <1>4 DEF Lists
<1>6. q \in QueueType /\ q.items = A
  BY <1>2, <1>5 DEF QueueType
<1> HIDE DEF q, A, e
<1>7. B # <<>> => A # <<>> /\ A[1] = B[1]
  BY <1>2, <1>4
<1>8. Ids(A) \subseteq Ids(B) \cup (made' \ made) /\ Ids(B) \subseteq Ids(A)
  BY <1>1, <1>4 DEF Ids, e
<1>9. FrontKept(B, A) /\ HeadKept(B, A)
  BY <1>7 DEF FrontKept, HeadKept, Front
<1>10. PendingKept(B, A)
  <2>1. e.id = i
    BY DEF e
  <2> QED
    BY <1>1, <1>4, <2>1 DEF PendingKept
<1>11. Follows(B, A)
  BY <1>8, <1>9, <1>10 DEF Follows
<1>12. Tells(<<ListOf(q)>>, q, B)
  BY <1>6, <1>9, MessagesOf, TellsList
<1>13. Writes(t, q, <<ListOf(q)>>, B)
  BY <1>1, <1>2, <1>6, <1>11, <1>12 DEF Writes, Base, Live, q, A, e
<1> QED
  BY <1>13 DEF Rewrites

LEMMA EditWrites ==
    ASSUME TypeOK, NEW t \in Tabs, Edit(t) \/ Pause(t)
    PROVE  Rewrites(t)
<1> DEFINE B == queue[t].items
           q == [queue[t] EXCEPT !.run = "paused"]
<1>1. /\ page[t] = "here" /\ posts' = posts /\ asked' = asked
      /\ \/ Commit(t, queue[t], <<ListOf(queue[t])>>)
         \/ Commit(t, q, <<RunOf(q)>>)
  BY DEF Edit, Pause, Edits
<1>2. queue[t] \in QueueType /\ B \in Lists
  BY QueueOf
<1>3. q \in QueueType /\ q.items = B
  BY <1>2 DEF QueueType, RunStates
<1>4. Kept(B, B) /\ Follows(B, B)
  BY <1>1, SameKept, KeptFollows
<1> HIDE DEF q
<1>5. CASE Commit(t, queue[t], <<ListOf(queue[t])>>)
  <2>1. Tells(<<ListOf(queue[t])>>, queue[t], B)
    BY <1>2, <1>4, MessagesOf, TellsList DEF Kept
  <2>2. Writes(t, queue[t], <<ListOf(queue[t])>>, B)
    BY <1>1, <1>2, <1>4, <1>5, <2>1 DEF Writes, Base, Live
  <2> QED
    BY <2>2 DEF Rewrites
<1>6. CASE Commit(t, q, <<RunOf(q)>>)
  <2>1. Tells(<<RunOf(q)>>, q, B)
    BY <1>3, MessagesOf, TellsRun
  <2>2. Writes(t, q, <<RunOf(q)>>, B)
    BY <1>1, <1>2, <1>3, <1>4, <1>6, <2>1 DEF Writes, Base, Live
  <2> QED
    BY <2>2 DEF Rewrites
<1> QED
  BY <1>1, <1>5, <1>6

\* The user knows of whatever is under way when a control is used.
LEMMA Intervened ==
    ASSUME NEW B, NEW A \in Lists, UnderWay \subseteq waived'
    PROVE  FrontKept(B, A) /\ HeadKept(B, A)
<1>1. Ids(A) \subseteq Items
  <2>1. \A k \in DOMAIN A : A[k] \in Entry
    BY DEF Lists
  <2> QED
    BY <2>1 DEF Ids, Entry
<1>2. FrontKept(B, A)
  BY DEF FrontKept, UnderWay
<1>3. HeadKept(B, A)
  BY <1>1 DEF HeadKept, UnderWay
<1> QED
  BY <1>2, <1>3

LEMMA ReorderWrites ==
    ASSUME TypeOK, NEW t \in Tabs, Reorder(t)
    PROVE  Rewrites(t)
<1> DEFINE B == queue[t].items
<1>1. queue[t] \in QueueType /\ B \in Lists /\ B \in Seq(Entry)
  BY QueueOf DEF Lists
<1>2. PICK k \in 1..(Len(B) - 1) :
          Intervene(t, [queue[t] EXCEPT !.items = Swap(B, k, k + 1)],
                    <<ListOf([queue[t] EXCEPT !.items = Swap(B, k, k + 1)])>>, {}, {})
  BY DEF Reorder
<1> DEFINE A == Swap(B, k, k + 1)
           q == [queue[t] EXCEPT !.items = A]
<1>3. /\ UnderWay \subseteq waived' /\ posts' = posts /\ asked' = asked
      /\ Commit(t, q, <<ListOf(q)>>) /\ page[t] = "here"
  BY <1>2 DEF Intervene, Edits
<1>4. /\ A \in Seq(Entry) /\ Len(A) = Len(B) /\ DOMAIN A = DOMAIN B
      /\ A[k] = B[k + 1] /\ A[k + 1] = B[k]
      /\ \A j \in DOMAIN B : j \notin {k, k + 1} => A[j] = B[j]
      /\ k \in DOMAIN B /\ k + 1 \in DOMAIN B
  BY <1>1, <1>2 DEF Swap
<1>5. A \in Lists
  BY <1>1, <1>4 DEF Lists
<1>6. q \in QueueType /\ q.items = A
  BY <1>1, <1>5 DEF QueueType
<1> HIDE DEF q, A
<1>7. Ids(A) \subseteq Ids(B) /\ Ids(B) \subseteq Ids(A)
  BY <1>4 DEF Ids
<1>8. StillPending(B, A)
  BY <1>4 DEF StillPending
<1>9. FrontKept(B, A) /\ HeadKept(B, A)
  BY <1>3, <1>5, Intervened
<1>10. Follows(B, A)
  BY <1>3, <1>7, <1>8, <1>9, KeptFollows DEF Kept
<1>11. Tells(<<ListOf(q)>>, q, B)
  BY <1>6, <1>9, MessagesOf, TellsList
<1>12. Writes(t, q, <<ListOf(q)>>, B)
  BY <1>1, <1>3, <1>6, <1>10, <1>11 DEF Writes, Base, Live
<1> QED
  BY <1>12 DEF Rewrites

LEMMA RemoveWrites ==
    ASSUME TypeOK, NEW t \in Tabs, NEW i \in Items, Remove(t, i)
    PROVE  Rewrites(t)
<1> DEFINE B == queue[t].items
           q == RemoveItem(queue[t], i)
<1>1. queue[t] \in QueueType /\ B \in Lists
  BY QueueOf
<1>2. /\ UnderWay \subseteq waived' /\ i \in dropped' /\ posts' = posts
      /\ asked \subseteq asked' /\ Commit(t, q, <<ListOf(q)>>) /\ page[t] = "here"
  BY DEF Remove, Intervene, Edits
<1>3. q \in QueueType /\ Dropped(q.items, B, {i})
  BY <1>1, RemoveDrops
<1> HIDE DEF q
<1>4. Kept(B, q.items) /\ StillPending(B, q.items)
  BY <1>1, <1>2, <1>3, DroppedKept DEF UnderWay
<1>5. Follows(B, q.items)
  BY <1>2, <1>4, KeptFollows
<1>6. Tells(<<ListOf(q)>>, q, B)
  BY <1>3, <1>4, MessagesOf, TellsList DEF Kept
<1>7. Writes(t, q, <<ListOf(q)>>, B)
  BY <1>1, <1>2, <1>3, <1>5, <1>6 DEF Writes, Base, Live
<1> QED
  BY <1>7 DEF Rewrites

LEMMA ClearWrites ==
    ASSUME TypeOK, NEW t \in Tabs, Clear(t)
    PROVE  Rewrites(t)
<1> DEFINE B == queue[t].items
<1>1. B \in Lists /\ <<>> \in Lists
  BY QueueOf
<1>2. /\ UnderWay \subseteq waived' /\ Ids(B) \subseteq dropped' /\ posts' = posts
      /\ asked \subseteq asked' /\ Commit(t, Empty, <<ListOf(Empty)>>)
      /\ page[t] = "here"
  BY DEF Clear, Intervene, Edits
<1>3. Empty \in QueueType /\ Empty.items = <<>>
  BY <1>1 DEF Empty, QueueType, RunStates
<1>4. FrontKept(B, <<>>) /\ HeadKept(B, <<>>)
  BY <1>1, <1>2, Intervened
<1>5. StillPending(B, <<>>) /\ Ids(<<>>) = {}
  BY DEF StillPending, Ids
<1>6. Follows(B, <<>>)
  BY <1>2, <1>4, <1>5, KeptFollows DEF Kept
<1>7. Tells(<<ListOf(Empty)>>, Empty, B)
  BY <1>3, <1>4, MessagesOf, TellsList
<1>8. Writes(t, Empty, <<ListOf(Empty)>>, B)
  BY <1>1, <1>2, <1>3, <1>6, <1>7 DEF Writes, Base, Live
<1> QED
  BY <1>8 DEF Rewrites

\* A message is made ready again because the user asks for it.
LEMMA AskedFollows ==
    ASSUME NEW B \in Lists, NEW A, NEW i, Marked(A, B, i, "pending"),
           i \in waived', i \in asked', asked \subseteq asked', posts' = posts
    PROVE  Follows(B, A) /\ FrontKept(B, A) /\ Ids(A) = Ids(B)
<1>1. Kept(B, A) /\ Ids(A) = Ids(B)
  BY MarkedKept
<1>2. PendingKept(B, A)
  BY DEF Marked, PendingKept
<1> QED
  BY <1>1, <1>2 DEF Follows, Kept

LEMMA ResumeWrites ==
    ASSUME TypeOK, NEW t \in Tabs,
           Resume(t) \/ \E i \in Items : Retry(t, i)
    PROVE  Rewrites(t)
<1> DEFINE B == queue[t].items
           Idle(q1) == [q1 EXCEPT !.run = "idle"]
           Ready(i) == SetItemStatus(queue[t], i, "pending")
<1>1. queue[t] \in QueueType /\ B \in Lists
  BY QueueOf
<1>2. /\ page[t] = "here" /\ posts' = posts /\ asked \subseteq asked'
      /\ \/ Commit(t, Idle(queue[t]), <<RunOf(Idle(queue[t]))>>)
         \/ \E i : /\ i \in waived' /\ i \in asked'
                   /\ Commit(t, Idle(Ready(i)), <<BothOf(Ready(i)), RunOf(Idle(Ready(i)))>>)
  <2>1. CASE \E i \in Items : Retry(t, i)
    BY <2>1 DEF Retry, Intervene, Edits
  <2>2. CASE Resume(t) /\ HeadIn(queue[t], {"failed"})
    <3> DEFINE i == Head(queue[t].items).id
               q1 == Ready(i)
    <3>1. Intervene(t, Idle(q1), <<BothOf(q1)>> \o <<RunOf(Idle(q1))>>, {i}, {})
      BY <2>2 DEF Resume
    <3>2. <<BothOf(q1)>> \o <<RunOf(Idle(q1))>> = <<BothOf(q1), RunOf(Idle(q1))>>
      BY Singles
    <3> HIDE DEF i, q1
    <3>3. /\ i \in waived' /\ i \in asked' /\ page[t] = "here" /\ posts' = posts
          /\ asked \subseteq asked'
          /\ Commit(t, Idle(q1), <<BothOf(q1), RunOf(Idle(q1))>>)
      BY <3>1, <3>2 DEF Intervene, Edits
    <3> QED
      BY <3>3 DEF q1
  <2>3. CASE Resume(t) /\ ~HeadIn(queue[t], {"failed"})
    <3>1. Intervene(t, Idle(queue[t]), <<>> \o <<RunOf(Idle(queue[t]))>>, {}, {})
      BY <2>3 DEF Resume
    <3>2. <<>> \o <<RunOf(Idle(queue[t]))>> = <<RunOf(Idle(queue[t]))>>
      OBVIOUS
    <3>3. Intervene(t, Idle(queue[t]), <<RunOf(Idle(queue[t]))>>, {}, {})
      BY <3>1, <3>2
    <3> QED
      BY <3>3 DEF Intervene, Edits
  <2> QED
    BY <2>1, <2>2, <2>3
<1>3. ASSUME NEW q1 \in QueueType
      PROVE  Idle(q1) \in QueueType /\ Idle(q1).items = q1.items
  BY DEF QueueType, RunStates
<1>4. CASE Commit(t, Idle(queue[t]), <<RunOf(Idle(queue[t]))>>)
  <2> DEFINE q == Idle(queue[t])
  <2>1. q \in QueueType /\ q.items = B
    BY <1>1, <1>3
  <2>2. Commit(t, q, <<RunOf(q)>>)
    BY <1>4
  <2> HIDE DEF q
  <2>3. Follows(B, B)
    BY <1>2, SameKept, KeptFollows
  <2>4. Tells(<<RunOf(q)>>, q, B)
    BY <2>1, MessagesOf, TellsRun
  <2>5. Writes(t, q, <<RunOf(q)>>, B)
    BY <1>1, <1>2, <2>1, <2>2, <2>3, <2>4 DEF Writes, Base, Live
  <2> QED
    BY <2>5 DEF Rewrites
<1>5. ASSUME NEW i, i \in waived', i \in asked',
             Commit(t, Idle(Ready(i)), <<BothOf(Ready(i)), RunOf(Idle(Ready(i)))>>)
      PROVE  Rewrites(t)
  <2> DEFINE q1 == Ready(i)
             q == Idle(q1)
  <2>1. q1 \in QueueType /\ Marked(q1.items, B, i, "pending")
    BY <1>1, StatusMarks DEF Statuses
  <2>2. Commit(t, q, <<BothOf(q1), RunOf(q)>>)
    BY <1>5
  <2> HIDE DEF q1
  <2>3. q \in QueueType /\ q.items = q1.items
    BY <1>3, <2>1
  <2> HIDE DEF q
  <2>4. Follows(B, q.items) /\ FrontKept(B, q.items) /\ Ids(q.items) = Ids(B)
    BY <1>1, <1>2, <1>5, <2>1, <2>3, AskedFollows
  <2>5. Tells(<<BothOf(q1), RunOf(q)>>, q, B)
    BY <2>1, <2>3, <2>4, MessagesOf, TellsTwo
  <2>6. Writes(t, q, <<BothOf(q1), RunOf(q)>>, B)
    BY <1>1, <1>2, <2>2, <2>3, <2>4, <2>5 DEF Writes, Base, Live
  <2> QED
    BY <2>6 DEF Rewrites
<1> QED
  BY <1>2, <1>4, <1>5

LEMMA SkipWrites ==
    ASSUME TypeOK, NEW t \in Tabs, NEW i \in Items, Skip(t, i)
    PROVE  Rewrites(t)
<1> DEFINE B == queue[t].items
           q1 == RemoveItem(queue[t], i)
           q == IF queue[t].run = "paused" THEN q1 ELSE [q1 EXCEPT !.run = "idle"]
           msgs == <<ListOf(q)>> \o IF q.run = "paused" THEN <<>> ELSE <<RunOf(q)>>
<1>1. queue[t] \in QueueType /\ B \in Lists
  BY QueueOf
<1>2. /\ UnderWay \subseteq waived' /\ i \in dropped' /\ posts' = posts
      /\ asked \subseteq asked' /\ Commit(t, q, msgs) /\ page[t] = "here"
  BY DEF Skip, Intervene, Edits
<1>3. q1 \in QueueType /\ Dropped(q1.items, B, {i})
  BY <1>1, RemoveDrops
<1> HIDE DEF q1
<1>4. q \in QueueType /\ q.items = q1.items
  BY <1>3 DEF QueueType, RunStates
<1> HIDE DEF q
<1>5. msgs \in {<<ListOf(q)>>, <<ListOf(q), RunOf(q)>>}
  <2>1. CASE q.run = "paused"
    BY <2>1, Singles
  <2>2. CASE q.run # "paused"
    BY <2>2, Singles
  <2> QED
    BY <2>1, <2>2
<1> HIDE DEF msgs
<1>6. Kept(B, q.items) /\ StillPending(B, q.items)
  BY <1>1, <1>2, <1>3, <1>4, DroppedKept DEF UnderWay
<1>7. Follows(B, q.items)
  BY <1>2, <1>6, KeptFollows
<1>8. Tells(msgs, q, B)
  <2>1. CASE msgs = <<ListOf(q)>>
    BY <1>4, <1>6, <2>1, MessagesOf, TellsList DEF Kept
  <2>2. CASE msgs = <<ListOf(q), RunOf(q)>>
    BY <1>4, <1>6, <2>2, MessagesOf, TellsTwo DEF Kept
  <2> QED
    BY <1>5, <2>1, <2>2
<1>9. Writes(t, q, msgs, B)
  BY <1>1, <1>2, <1>4, <1>7, <1>8 DEF Writes, Base, Live
<1> QED
  BY <1>9 DEF Rewrites

\* To take off a message that is not there changes nothing.
LEMMA RemoveNothing ==
    ASSUME NEW q \in QueueType, NEW i, i \notin Ids(q.items)
    PROVE  RemoveItem(q, i) = q
<1> DEFINE B == q.items
           ks == {k \in DOMAIN B : B[k].id \notin {i}}
           Upto(k) == {j \in 1..Len(B) : j <= k}
<1>1. B \in Seq(Entry) /\ Len(B) \in Nat /\ DOMAIN B = 1..Len(B)
  BY DEF QueueType, Lists
<1>2. ks = 1..Len(B)
  BY <1>1 DEF Ids
<1>3. ASSUME NEW k \in 1..Len(B)
      PROVE  Cardinality(Upto(k)) = k
  <2>1. \A j : j \in 1..Len(B) /\ j <= k <=> j \in 1..k
    BY <1>1
  <2>2. Upto(k) = 1..k
    BY <2>1, Zenon
  <2>3. k \in Nat /\ k >= 1
    BY <1>1
  <2>4. Cardinality(1..k) = k
    BY <2>3, FS_Interval
  <2> QED
    BY <2>2, <2>4
<1>4. Cardinality(1..Len(B)) = Len(B)
  BY <1>1, FS_Interval
<1>5. \A n \in 1..Len(B) : (CHOOSE k \in 1..Len(B) : Cardinality(Upto(k)) = n) = n
  BY <1>3
<1> DEFINE At(n) == CHOOSE k \in 1..Len(B) : Cardinality(Upto(k)) = n
<1>9. Keep(B, 1..Len(B)) = [n \in 1..Cardinality(1..Len(B)) |-> B[At(n)]]
  BY DEF Keep
<1>10. \A n \in 1..Len(B) : At(n) = n
  BY <1>5
<1> HIDE DEF At, Upto, B
<1>6. Keep(B, 1..Len(B)) = [n \in 1..Len(B) |-> B[n]]
  BY <1>4, <1>9, <1>10
<1>7. Keep(B, 1..Len(B)) = B
  BY <1>1, <1>6
<1>8. Without(B, {i}) = B
  BY <1>2, <1>7 DEF Without
<1> QED
  BY <1>8 DEF RemoveItem, QueueType, B

\* What a sender that posts nothing writes: the queue it has found or
\* reconciled, and a message that failed.
LEMMA TurnWrites ==
    ASSUME TypeOK, NEW t \in Tabs, job[t] # NoJob,
           NEW q \in QueueType, NEW msgs, NEW i,
           Kept(queue[t].items, q.items), StillPending(queue[t].items, q.items),
           (q = queue[t] /\ msgs = <<>>) \/ msgs = <<BothOf(q)>>,
           posts' = posts, asked' = asked,
           \/ Commit(t, q, msgs)
           \/ Commit(t, SetItemStatus(q, i, "failed"),
                     msgs \o <<BothOf(SetItemStatus(q, i, "failed"))>>)
    PROVE  Rewrites(t)
<1> DEFINE B == queue[t].items
           bad == SetItemStatus(q, i, "failed")
<1>1. B \in Lists /\ Live(t) /\ q.items \in Lists
  BY QueueOf DEF Live, QueueType
<1>2. CASE Commit(t, q, msgs)
  <2>1. Tells(msgs, q, B)
    <3>1. CASE q = queue[t] /\ msgs = <<>>
      BY <3>1, TellsNothing
    <3>2. CASE msgs = <<BothOf(q)>>
      BY <3>2, MessagesOf, TellsList DEF Kept
    <3> QED
      BY <3>1, <3>2
  <2>2. Follows(B, q.items)
    BY KeptFollows
  <2>3. Writes(t, q, msgs, B)
    BY <1>1, <1>2, <2>1, <2>2 DEF Writes, Base
  <2> QED
    BY <2>3 DEF Rewrites
<1>3. CASE Commit(t, bad, msgs \o <<BothOf(bad)>>)
  <2> DEFINE out == msgs \o <<BothOf(bad)>>
  <2>1. bad \in QueueType /\ Marked(bad.items, q.items, i, "failed")
    BY StatusMarks DEF Statuses
  <2>2. out = <<BothOf(bad)>> \/ out = <<BothOf(q), BothOf(bad)>>
    BY Singles
  <2>3. Commit(t, bad, out)
    BY <1>3
  <2> HIDE DEF bad, out
  <2>4. Kept(q.items, bad.items) /\ StillPending(q.items, bad.items)
    BY <1>1, <2>1, MarkedKept
  <2>5. Kept(B, bad.items) /\ StillPending(B, bad.items)
    BY <2>4, KeptTwice, StillPendingTwice
  <2>6. Follows(B, bad.items)
    BY <2>5, KeptFollows
  <2>7. Tells(out, bad, B)
    <3>1. CASE out = <<BothOf(bad)>>
      BY <2>1, <2>5, <3>1, MessagesOf, TellsList DEF Kept
    <3>2. CASE out = <<BothOf(q), BothOf(bad)>>
      BY <2>1, <2>5, <3>2, MessagesOf, TellsTwo DEF Kept
    <3> QED
      BY <2>2, <3>1, <3>2
  <2>8. Writes(t, bad, out, B)
    BY <1>1, <2>1, <2>3, <2>6, <2>7 DEF Writes, Base
  <2>9. out # <<>>
    BY <2>2
  <2> QED
    BY <2>8 DEF Rewrites
<1> QED
  BY <1>2, <1>3

LEMMA ReconciledKept ==
    ASSUME TypeOK, NEW t \in Tabs, taken' = taken
    PROVE  /\ Reconciled(t) \in QueueType
           /\ Kept(queue[t].items, Reconciled(t).items)
           /\ StillPending(queue[t].items, Reconciled(t).items)
           /\ \/ Reconciled(t) = queue[t] /\ News(t) = <<>>
              \/ News(t) = <<BothOf(Reconciled(t))>>
<1>1. job[t].seen \subseteq taken
  BY DEF TypeOK, SenderTypes, JobType
<1>2. queue[t] \in QueueType /\ queue[t].items \in Lists
  BY QueueOf
<1>3. /\ Reconciled(t) \in QueueType
      /\ Dropped(Reconciled(t).items, queue[t].items, job[t].seen)
  BY <1>2, ReconcileDrops DEF Reconciled
<1>4. /\ Kept(queue[t].items, Reconciled(t).items)
      /\ StillPending(queue[t].items, Reconciled(t).items)
  BY <1>1, <1>2, <1>3, DroppedKept
<1> QED
  BY <1>3, <1>4 DEF News

LEMMA RecoveredWrites ==
    ASSUME TypeOK, NEW t \in Tabs, job[t] # NoJob,
           NEW q \in QueueType, NEW msgs,
           Kept(queue[t].items, q.items), StillPending(queue[t].items, q.items),
           (q = queue[t] /\ msgs = <<>>) \/ msgs = <<BothOf(q)>>,
           posts' = posts, asked' = asked, Recovered(t, q, msgs)
    PROVE  Rewrites(t)
<1> DEFINE bad == SetItemStatus(q, job[t].id, "failed")
<1>1. \/ Commit(t, bad, msgs \o <<BothOf(bad)>>)
      \/ Commit(t, q, msgs \o <<>>)
  BY DEF Recovered, JobWrites
<1>2. msgs \o <<>> = msgs
  BY Singles, TellsNothing
<1> QED
  BY <1>1, <1>2, TurnWrites

LEMMA StoppedWrites ==
    ASSUME TypeOK, JobInv, NEW t \in Tabs, Stopped(t)
    PROVE  \/ Rewrites(t)
           \/ UNCHANGED <<queue, stored, inbox, stale, posts, asked>>
<1> DEFINE B == queue[t].items
           i == job[t].id
           q1 == SetItemStatus(queue[t], i, "pending")
           q == [q1 EXCEPT !.run = IF @ = "error" THEN "idle" ELSE @]
           msgs == <<BothOf(q1)>> \o IF q.run = q1.run THEN <<>> ELSE <<RunOf(q)>>
           bad == SetItemStatus(queue[t], i, "failed")
<1>1. queue[t] \in QueueType /\ B \in Lists
  BY QueueOf
<1>2. /\ i \in waived /\ waived' = waived /\ posts' = posts /\ job[t].pc = "stopping"
      /\ made' = made /\ taken' = taken
  BY DEF JobInv, Stopped
<1>3. job[t] # NoJob /\ Live(t)
  BY <1>2 DEF NoJob, Live
<1>4. CASE Commit(t, q, msgs) /\ asked' = asked \cup {i}
  <2>1. q1 \in QueueType /\ Marked(q1.items, B, i, "pending")
    BY <1>1, StatusMarks DEF Statuses
  <2> HIDE DEF q1
  <2>2. q \in QueueType /\ q.items = q1.items
    BY <2>1 DEF QueueType, RunStates
  <2> HIDE DEF q, i
  <2>3. msgs = <<BothOf(q1)>> \/ msgs = <<BothOf(q1), RunOf(q)>>
    <3>1. CASE q.run = q1.run
      BY <3>1, Singles
    <3>2. CASE q.run # q1.run
      BY <3>2, Singles
    <3> QED
      BY <3>1, <3>2
  <2>4. Commit(t, q, msgs)
    BY <1>4
  <2> HIDE DEF msgs
  <2>5. Follows(B, q.items) /\ FrontKept(B, q.items) /\ Ids(q.items) = Ids(B)
    BY <1>1, <1>2, <1>4, <2>1, <2>2, AskedFollows
  <2>6. Tells(msgs, q, B)
    <3>1. CASE msgs = <<BothOf(q1)>>
      BY <2>1, <2>2, <2>5, <3>1, MessagesOf, TellsList
    <3>2. CASE msgs = <<BothOf(q1), RunOf(q)>>
      BY <2>1, <2>2, <2>5, <3>2, MessagesOf, TellsTwo
    <3> QED
      BY <2>3, <3>1, <3>2
  <2>7. msgs # <<>>
    BY <2>3
  <2>8. Writes(t, q, msgs, B)
    BY <1>1, <1>3, <2>2, <2>4, <2>5, <2>6, <2>7 DEF Writes, Base
  <2> QED
    BY <2>8 DEF Rewrites
<1>5. Kept(B, B) /\ StillPending(B, B)
  BY SameKept
<1>6. CASE Commit(t, queue[t], <<>>) /\ asked' = asked
  BY <1>1, <1>2, <1>3, <1>5, <1>6, TurnWrites
<1>7. CASE Commit(t, bad, <<BothOf(bad)>>) /\ asked' = asked
  <2>1. <<>> \o <<BothOf(bad)>> = <<BothOf(bad)>>
    BY Singles
  <2>2. Commit(t, bad, <<>> \o <<BothOf(bad)>>)
    BY <1>7, <2>1
  <2> QED
    BY <1>1, <1>2, <1>3, <1>5, <1>7, <2>2, TurnWrites
<1> QED
  <2>1. \/ Commit(t, q, msgs) /\ asked' = asked \cup {i}
        \/ Commit(t, queue[t], <<>>) /\ asked' = asked
        \/ UNCHANGED <<queue, stored, inbox, stale, posts, asked>>
        \/ Commit(t, bad, <<BothOf(bad)>>) /\ asked' = asked
    <3> HIDE DEF q, msgs, bad, i
    <3> QED
      BY DEF Stopped, q, msgs, bad, q1, i
  <2> QED
    BY <1>4, <1>6, <1>7, <2>1

LEMMA StatusFailsWrites ==
    ASSUME TypeOK, NEW t \in Tabs, StatusFails(t)
    PROVE  Rewrites(t)
<1> DEFINE B == queue[t].items
           bad == SetItemStatus(queue[t], job[t].id, "failed")
<1>1. queue[t] \in QueueType /\ B \in Lists
  BY QueueOf
<1>2. posts' = posts /\ asked' = asked /\ job[t].pc = "asking" /\ taken' = taken
  BY DEF StatusFails, JobRest
<1>3. job[t] # NoJob
  BY <1>2 DEF NoJob
<1>4. Kept(B, B) /\ StillPending(B, B)
  BY SameKept
<1>5. CASE Recovered(t, queue[t], <<>>)
  BY <1>1, <1>2, <1>3, <1>4, <1>5, RecoveredWrites
<1>6. CASE Commit(t, queue[t], <<>>)
  BY <1>1, <1>2, <1>3, <1>4, <1>6, TurnWrites
<1>7. CASE Commit(t, bad, <<>> \o <<BothOf(bad)>>)
  BY <1>1, <1>2, <1>3, <1>4, <1>7, TurnWrites
<1> QED
  BY <1>5, <1>6, <1>7 DEF StatusFails, Fails, JobWrites

LEMMA AnswerWrites ==
    ASSUME TypeOK, NEW t \in Tabs,
           \/ StillRunning(t) \/ RecoverAnswered(t)
           \/ HandoffAnswered(t) \/ SkipAnswered(t)
    PROVE  Rewrites(t)
<1>1. /\ posts' = posts /\ asked' = asked /\ job[t].pc = "answered" /\ taken' = taken
      /\ \/ Commit(t, Reconciled(t), News(t))
         \/ Recovered(t, Reconciled(t), News(t))
  BY DEF StillRunning, RecoverAnswered, HandoffAnswered, SkipAnswered, Answered,
         JobRest, JobWrites
<1>2. job[t] # NoJob
  BY <1>1 DEF NoJob
<1>3. /\ Reconciled(t) \in QueueType
      /\ Kept(queue[t].items, Reconciled(t).items)
      /\ StillPending(queue[t].items, Reconciled(t).items)
      /\ \/ Reconciled(t) = queue[t] /\ News(t) = <<>>
         \/ News(t) = <<BothOf(Reconciled(t))>>
  BY <1>1, ReconciledKept
<1>4. CASE Commit(t, Reconciled(t), News(t))
  BY <1>1, <1>2, <1>3, <1>4, TurnWrites
<1>5. CASE Recovered(t, Reconciled(t), News(t))
  BY <1>1, <1>2, <1>3, <1>5, RecoveredWrites
<1> QED
  BY <1>1, <1>4, <1>5

\* What a sender posts: a message that was ready in the list it has.
LEMMA PostWrites ==
    ASSUME TypeOK, NEW t \in Tabs, job[t].pc = "answered", taken' = taken,
           Post(t, Reconciled(t), News(t))
    PROVE  Rewrites(t)
<1> DEFINE B == queue[t].items
           i == job[t].id
           q == Reconciled(t)
           q1 == SetItemStatus(q, i, "sending")
           msgs == News(t) \o <<BothOf(q1)>>
<1>1. B \in Lists /\ q \in QueueType /\ Kept(B, q.items) /\ StillPending(B, q.items)
  BY QueueOf, ReconciledKept
<1>2. News(t) = <<>> \/ News(t) = <<BothOf(q)>>
  BY ReconciledKept
<1>3. /\ Commit(t, q1, msgs) /\ asked' = asked \ {i}
      /\ posts' = [posts EXCEPT ![i] = posts[i] + 1]
  BY DEF Post, JobWrites
<1>4. job[t] # NoJob
  BY DEF NoJob
<1>5. q1 \in QueueType /\ Marked(q1.items, q.items, i, "sending") /\ q.items \in Lists
  BY <1>1, StatusMarks DEF Statuses, QueueType
<1>6. posts \in [Items -> Nat]
  BY DEF TypeOK, SenderTypes
<1>7. msgs = <<BothOf(q1)>> \/ msgs = <<BothOf(q), BothOf(q1)>>
  BY <1>2, Singles
<1> HIDE DEF q, q1, msgs
<1>8. Kept(q.items, q1.items) /\ StillPending(q.items, q1.items)
  BY <1>5, MarkedKept
<1>9. Kept(B, q1.items) /\ StillPending(B, q1.items)
  BY <1>1, <1>8, KeptTwice, StillPendingTwice
<1>10. ASSUME NEW k \in DOMAIN q1.items, q1.items[k].st = "pending"
       PROVE  /\ q1.items[k].id \notin asked \ asked'
              /\ posts'[q1.items[k].id] = posts[q1.items[k].id]
  <2>1. q1.items[k] \in Entry
    BY <1>5 DEF QueueType, Lists
  <2>2. q1.items[k].id # i
    BY <1>5, <1>10 DEF Marked
  <2>3. q1.items[k].id \in Items
    BY <2>1 DEF Entry
  <2> QED
    BY <1>3, <1>6, <2>2, <2>3
<1>11. PendingKept(B, q1.items)
  BY <1>9, <1>10 DEF PendingKept, StillPending
<1>12. Follows(B, q1.items)
  BY <1>9, <1>11 DEF Follows, Kept
<1>13. Tells(msgs, q1, B)
  <2>1. CASE msgs = <<BothOf(q1)>>
    BY <1>5, <1>9, <2>1, MessagesOf, TellsList DEF Kept
  <2>2. CASE msgs = <<BothOf(q), BothOf(q1)>>
    BY <1>1, <1>5, <1>9, <2>2, MessagesOf, TellsTwo DEF Kept
  <2> QED
    BY <1>7, <2>1, <2>2
<1>14. Writes(t, q1, msgs, B)
  BY <1>1, <1>3, <1>4, <1>5, <1>7, <1>12, <1>13 DEF Writes, Base, Live
<1> QED
  BY <1>14 DEF Rewrites

LEMMA SendAnsweredWrites ==
    ASSUME TypeOK, NEW t \in Tabs, SendAnswered(t)
    PROVE  Rewrites(t)
<1>1. job[t].pc = "answered" /\ taken' = taken
  BY DEF SendAnswered
<1>2. job[t] # NoJob
  BY <1>1 DEF NoJob
<1>3. CASE Post(t, Reconciled(t), News(t))
  BY <1>1, <1>3, PostWrites
<1>4. CASE /\ Commit(t, Reconciled(t), News(t))
           /\ posts' = posts /\ asked' = asked
  BY <1>1, <1>2, <1>4, ReconciledKept, TurnWrites
<1> QED
  BY <1>3, <1>4 DEF SendAnswered, JobWrites

\* An accepted message leaves the queue.
LEMMA AcceptedWrites ==
    ASSUME TypeOK, NEW t \in Tabs, job[t] # NoJob, job[t].id \in taken,
           taken' = taken, posts' = posts, asked' = asked, NEW msgs,
           Commit(t, RemoveItem(queue[t], job[t].id), msgs),
           \/ msgs = <<ListOf(RemoveItem(queue[t], job[t].id))>>
           \/ msgs = <<>> /\ job[t].id \notin Ids(queue[t].items)
    PROVE  Rewrites(t)
<1> DEFINE B == queue[t].items
           q == RemoveItem(queue[t], job[t].id)
<1>1. queue[t] \in QueueType /\ B \in Lists
  BY QueueOf
<1>2. q \in QueueType /\ Dropped(q.items, B, {job[t].id})
  BY <1>1, RemoveDrops
<1>3. msgs = <<>> => q = queue[t]
  BY <1>1, RemoveNothing
<1> HIDE DEF q
<1>4. Kept(B, q.items) /\ StillPending(B, q.items)
  BY <1>1, <1>2, DroppedKept
<1>5. Follows(B, q.items)
  BY <1>4, KeptFollows
<1>6. Tells(msgs, q, B)
  <2>1. CASE msgs = <<ListOf(q)>>
    BY <1>2, <1>4, <2>1, MessagesOf, TellsList DEF Kept
  <2>2. CASE msgs = <<>>
    BY <1>3, <2>2, TellsNothing
  <2> QED
    BY <2>1, <2>2 DEF q
<1>7. Writes(t, q, msgs, B)
  BY <1>1, <1>2, <1>5, <1>6 DEF Writes, Base, Live, q
<1> QED
  BY <1>7 DEF Rewrites

LEMMA ReplyWrites ==
    ASSUME TypeOK, JobInv, NEW t \in Tabs, PostReplied(t) \/ DrainEnds(t)
    PROVE  Rewrites(t)
<1> DEFINE q == RemoveItem(queue[t], job[t].id)
           bad == SetItemStatus(queue[t], job[t].id, "failed")
<1>1. /\ posts' = posts /\ asked' = asked /\ taken' = taken
      /\ job[t].pc \in {"posting", "draining"}
  BY DEF PostReplied, DrainEnds, JobRest
<1>2. job[t] # NoJob
  BY <1>1 DEF NoJob
<1>3. queue[t] \in QueueType
  BY QueueOf
<1>4. Kept(queue[t].items, queue[t].items) /\ StillPending(queue[t].items, queue[t].items)
  BY SameKept
<1>5. CASE Commit(t, queue[t], <<>>)
  BY <1>1, <1>2, <1>3, <1>4, <1>5, TurnWrites
<1>6. CASE Commit(t, bad, <<>> \o <<BothOf(bad)>>)
  BY <1>1, <1>2, <1>3, <1>4, <1>6, TurnWrites
<1>7. CASE /\ job[t].id \in taken
           /\ \/ Commit(t, q, <<ListOf(q)>>)
              \/ Commit(t, q, <<>>) /\ job[t].id \notin Ids(queue[t].items)
  BY <1>1, <1>2, <1>7, AcceptedWrites
<1> HIDE DEF q, bad
<1>8. CASE PostReplied(t)
  <2>1. CASE job[t].reply = "ok" /\ job[t].role = "fg"
    <3>1. job[t].id \in taken
      BY <2>1 DEF JobInv
    <3>2. Commit(t, q, IF job[t].id \in Ids(queue[t].items) THEN <<ListOf(q)>> ELSE <<>>)
      BY <1>8, <2>1 DEF PostReplied, JobWrites, q
    <3> QED
      BY <1>7, <3>1, <3>2
  <2>2. CASE ~(job[t].reply = "ok" /\ job[t].role = "fg")
    <3>1. Commit(t, queue[t], <<>>) \/ Commit(t, bad, <<>> \o <<BothOf(bad)>>)
      BY <1>8, <2>2 DEF PostReplied, JobWrites, Fails, bad
    <3> QED
      BY <1>5, <1>6, <3>1
  <2> QED
    BY <2>1, <2>2
<1>9. CASE DrainEnds(t)
  <2>1. job[t].id \in taken
    BY <1>9 DEF JobInv, DrainEnds
  <2>2. Commit(t, q, <<ListOf(q)>>)
    BY <1>9 DEF DrainEnds, JobWrites, q
  <2> QED
    BY <1>7, <2>1, <2>2
<1> QED
  BY <1>8, <1>9

(***************************************************************************)
(* The history variables only grow.                                        *)
(***************************************************************************)

Grows == /\ made \subseteq made' /\ taken \subseteq taken'
         /\ dropped \subseteq dropped' /\ waived \subseteq waived'
         /\ stale \subseteq stale'

LEMMA CommitGrows ==
    ASSUME NEW t, NEW q, NEW msgs, Commit(t, q, msgs)
    PROVE  stale \subseteq stale'
BY DEF Commit

LEMMA TabGrows ==
    ASSUME NEW t \in Tabs, TabStep(t)
    PROVE  Grows /\ made' = made
<1>1. CASE Mount(t)
  <2>1. stale \subseteq stale'
    BY <1>1, CommitGrows DEF Mount
  <2> QED
    BY <1>1, <2>1 DEF Mount, Grows
<1>2. CASE ~Mount(t)
  BY <1>2 DEF TabStep, Open, Grant, Leave, Close, StartAllBackgroundQueues, Deliver,
              histories, Grows
<1> QED
  BY <1>1, <1>2

LEMMA EditsGrow ==
    ASSUME NEW t, NEW q, NEW msgs, Edits(t, q, msgs)
    PROVE  stale \subseteq stale' /\ taken' = taken /\ posts' = posts
BY CommitGrows DEF Edits

LEMMA PanelGrows ==
    ASSUME NEW t \in Tabs, PanelStep(t)
    PROVE  Grows /\ posts' = posts
<1>1. CASE Edit(t) \/ Pause(t)
  BY <1>1, EditsGrow DEF Edit, Pause, Grows
<1>2. CASE \E i \in Items : Enqueue(t, i)
  BY <1>2, EditsGrow DEF Enqueue, Grows
<1>3. CASE \E i \in Items : Interrupt(t, i)
  BY <1>3 DEF Interrupt, Grows
<1>4. ASSUME NEW q, NEW msgs, NEW again, NEW gone, Intervene(t, q, msgs, again, gone)
      PROVE  Grows /\ posts' = posts
  BY <1>4, EditsGrow DEF Intervene, Grows
<1>5. CASE \/ Reorder(t) \/ Clear(t) \/ Resume(t)
           \/ \E i \in Items : Remove(t, i) \/ Retry(t, i) \/ Skip(t, i)
  BY <1>4, <1>5 DEF Reorder, Clear, Resume, Remove, Retry, Skip
<1> QED
  BY <1>1, <1>2, <1>3, <1>5 DEF PanelStep

LEMMA JobGrows ==
    ASSUME NEW t \in Tabs, JobStep(t)
    PROVE  Grows /\ UNCHANGED <<made, taken, dropped>>
<1>1. CASE Stopped(t)
  <2>1. stale \subseteq stale'
    BY <1>1, CommitGrows DEF Stopped
  <2> QED
    BY <1>1, <2>1 DEF Stopped, Grows
<1>2. CASE TimerFires(t) \/ BgTurn(t) \/ ReadHistory(t) \/ ReadStatus(t)
  BY <1>2 DEF TimerFires, BgTurn, ReadHistory, ReadStatus, histories, Grows
<1>3. ASSUME NEW q, NEW msgs, JobWrites(t, q, msgs)
      PROVE  stale \subseteq stale'
  BY <1>3, CommitGrows DEF JobWrites
<1>4. /\ NextTurn(t) => waived' = waived
      /\ EndsTurn(t) => waived' = waived
      /\ \A j : Stays(t, j) => waived' = waived
      /\ \A i : GoesOn(t, i) => waived \subseteq waived'
  BY DEF NextTurn, EndsTurn, Stays, GoesOn, LeaveTurn
<1>5. ASSUME NEW q, NEW msgs, Recovered(t, q, msgs)
      PROVE  stale \subseteq stale' /\ waived \subseteq waived'
  BY <1>3, <1>4, <1>5 DEF Recovered
<1>6. ASSUME NEW q, NEW msgs, Fails(t, q, msgs)
      PROVE  stale \subseteq stale' /\ waived \subseteq waived'
  BY <1>3, <1>4, <1>6 DEF Fails
<1>7. CASE StatusFails(t)
  <2>1. stale \subseteq stale' /\ waived \subseteq waived'
    BY <1>3, <1>4, <1>5, <1>6, <1>7, CommitGrows DEF StatusFails
  <2> QED
    BY <1>7, <2>1 DEF StatusFails, JobRest, Grows
<1>8. CASE StillRunning(t) \/ RecoverAnswered(t) \/ HandoffAnswered(t) \/ SkipAnswered(t)
  <2>1. stale \subseteq stale' /\ waived \subseteq waived'
    BY <1>3, <1>4, <1>5, <1>8, CommitGrows
       DEF StillRunning, RecoverAnswered, HandoffAnswered, SkipAnswered
  <2> QED
    BY <1>8, <2>1 DEF StillRunning, RecoverAnswered, HandoffAnswered, SkipAnswered,
                      Answered, JobRest, Grows
<1>9. CASE SendAnswered(t)
  <2>1. stale \subseteq stale' /\ waived \subseteq waived'
    BY <1>3, <1>4, <1>9 DEF SendAnswered, Post
  <2> QED
    BY <1>9, <2>1 DEF SendAnswered, Grows
<1>10. CASE PostReplied(t) \/ DrainEnds(t)
  <2>1. stale \subseteq stale' /\ waived \subseteq waived'
    BY <1>3, <1>4, <1>6, <1>10 DEF PostReplied, DrainEnds
  <2> QED
    BY <1>10, <2>1 DEF PostReplied, DrainEnds, JobRest, Grows
<1> QED
  BY <1>1, <1>2, <1>7, <1>8, <1>9, <1>10 DEF JobStep

LEMMA BackendGrows ==
    ASSUME BackendStep
    PROVE  Grows /\ made' = made
<1>1. CASE \E p \in net : PostArrives(p) \/ PostLost(p)
  BY <1>1 DEF PostArrives, PostLost, BackendRest, Grows
<1>2. CASE RunEnds \/ RunLost \/ OtherRun
  BY <1>2 DEF RunEnds, RunLost, OtherRun, BackendRest, Grows
<1> QED
  BY <1>1, <1>2 DEF BackendStep

LEMMA NextGrows ==
    ASSUME [Next]_vars
    PROVE  Grows
<1>1. CASE UNCHANGED vars
  BY <1>1 DEF vars, histories, Grows
<1>2. CASE Next
  BY <1>2, TabGrows, PanelGrows, JobGrows, BackendGrows DEF Next
<1> QED
  BY <1>1, <1>2

(***************************************************************************)
(* Senders and locks.                                                      *)
(***************************************************************************)

GoodJob(j) ==
    /\ j \in JobType'
    /\ j.reply = "ok" \/ j.pc = "draining" => j.id \in taken'
    /\ j.pc = "stopping" => j.id \in waived'
    /\ j.pc \notin {"none", "slot"} => j.role \in {"fg", "bg"}

\* Tab t gets the sender j, which has the conversation unless it sends nothing.
Takes(t, j) ==
    /\ Become(t, j)
    /\ page[t] # "closed"
    /\ \/ /\ j.pc \in {"none", "slot"}
          /\ owner' = owner \/ (owner = t /\ owner' = NoTab)
       \/ /\ owner' = t
          /\ owner = t \/ (owner = NoTab /\ waiting = <<>>)

\* A step of the panel or the sender of tab t.
Turns(t) ==
    /\ UNCHANGED <<page, waiting>>
    /\ wake' \in [Tabs -> BOOLEAN]
    /\ UNCHANGED <<job, owner>> \/ \E j : GoodJob(j) /\ Takes(t, j)

LEMMA IdleGood == GoodJob(NoJob) /\ GoodJob(Slot) /\ NoJob.pc = "none" /\ Slot.pc = "slot"
BY DEF GoodJob, JobType, NoJob, Slot

LEMMA AskingGood ==
    ASSUME NEW role \in {"fg", "bg"},
           NEW mode \in {"recover", "send", "refresh", "handoff", "skip"},
           NEW i \in made' \cup {NoItem}, NEW forced \in BOOLEAN
    PROVE  /\ GoodJob(Asking(role, mode, i, forced))
           /\ Asking(role, mode, i, forced).pc = "asking"
<1> DEFINE j == Asking(role, mode, i, forced)
<1>1. NoJob \in JobType' /\ NoJob.reply = "none"
  BY DEF JobType, NoJob
<1>2. j \in JobType'
  BY <1>1 DEF Asking, JobType
<1>3. j.pc = "asking" /\ j.role = role /\ j.reply = NoJob.reply
  BY <1>1 DEF Asking, JobType
<1> QED
  BY <1>1, <1>2, <1>3 DEF GoodJob

LEMMA WakeTypes ==
    ASSUME TypeOK, NEW t \in Tabs
    PROVE  /\ \A q, msgs : Rearm(t, q, msgs) => wake' \in [Tabs -> BOOLEAN]
           /\ \A b \in BOOLEAN : wake' = [wake EXCEPT ![t] = b] => wake' \in [Tabs -> BOOLEAN]
           /\ wake' = wake => wake' \in [Tabs -> BOOLEAN]
<1>1. wake \in [Tabs -> BOOLEAN]
  BY DEF TypeOK, PageTypes
<1>2. \A b \in BOOLEAN : wake' = [wake EXCEPT ![t] = b] => wake' \in [Tabs -> BOOLEAN]
  BY <1>1
<1>3. ASSUME NEW q, NEW msgs, Rearm(t, q, msgs)
      PROVE  wake' \in [Tabs -> BOOLEAN]
  <2> DEFINE b == wake[t] \/ (msgs # <<>> /\ page[t] = "here" /\ q.items # <<>>)
  <2>1. wake' = [wake EXCEPT ![t] = b]
    BY <1>3 DEF Rearm
  <2>2. b \in BOOLEAN
    OBVIOUS
  <2> HIDE DEF b
  <2> QED
    BY <1>2, <2>1, <2>2
<1> QED
  BY <1>1, <1>2, <1>3

LEMMA TurnPages ==
    ASSUME TypeInv, NEW t \in Tabs, Turns(t)
    PROVE  /\ PageTypes' /\ LineInv'
           /\ \A k \in DOMAIN waiting' : waiting'[k] # owner'
           /\ \A o \in Tabs : job'[o].pc \notin {"none", "slot"} => owner' = o
<1> USE DEF TypeInv, TypeOK, PageTypes, SenderTypes
<1>1. CASE UNCHANGED <<job, owner>>
  BY <1>1 DEF Turns, LineInv
<1>2. ASSUME NEW j, GoodJob(j), Takes(t, j)
      PROVE  /\ PageTypes' /\ LineInv'
             /\ \A k \in DOMAIN waiting' : waiting'[k] # owner'
             /\ \A o \in Tabs : job'[o].pc \notin {"none", "slot"} => owner' = o
  <2>1. page' = page /\ waiting' = waiting /\ wake' \in [Tabs -> BOOLEAN]
    BY DEF Turns
  <2>2. job' = [job EXCEPT ![t] = j]
    BY <1>2 DEF Takes, Become
  <2>3. \A k \in DOMAIN waiting : waiting[k] \in Tabs /\ waiting[k] # NoTab
    BY DistinctNulls
  <2>4. owner' \in Tabs \cup {NoTab}
    BY <1>2 DEF Takes
  <2>5. \A k \in DOMAIN waiting' : waiting'[k] # owner'
    BY <1>2, <2>1, <2>3 DEF Takes
  <2>6. ASSUME NEW o \in Tabs, job'[o].pc \notin {"none", "slot"}
        PROVE  owner' = o
    <3>1. CASE o = t
      <4>1. job'[o] = j
        BY <2>2, <3>1
      <4> QED
        BY <1>2, <2>6, <3>1, <4>1 DEF Takes
    <3>2. CASE o # t
      <4>1. job'[o] = job[o]
        BY <2>2, <3>2
      <4>2. owner = o /\ o # NoTab
        BY <2>6, <4>1, DistinctNulls
      <4> QED
        BY <1>2, <3>2, <4>2 DEF Takes
    <3> QED
      BY <3>1, <3>2
  <2> QED
    BY <2>1, <2>4, <2>5, <2>6 DEF LineInv
<1> QED
  BY <1>1, <1>2 DEF Turns

\* The sender of another tab stays what it is.
Others(t) == \A o \in Tabs \ {t} : /\ page'[o] = page[o]
                                   /\ job'[o] = NoJob <=> job[o] = NoJob

LEMMA TurnSenders ==
    ASSUME TypeInv, NEW t \in Tabs, Turns(t), made \subseteq made', taken \subseteq taken',
           waived \subseteq waived'
    PROVE  /\ job' \in [Tabs -> JobType'] /\ JobInv'
           /\ Others(t)
           /\ \A o \in Tabs : page'[o] = "closed" => job'[o] = NoJob
<1>1. job \in [Tabs -> JobType] /\ JobType \subseteq JobType'
  BY DEF TypeInv, TypeOK, SenderTypes, JobType
<1>2. CASE UNCHANGED <<job, owner>>
  BY <1>1, <1>2 DEF Turns, TypeInv, JobInv, Others, PageInv
<1>3. ASSUME NEW j, GoodJob(j), Takes(t, j)
      PROVE  /\ job' \in [Tabs -> JobType'] /\ JobInv'
             /\ Others(t)
             /\ \A o \in Tabs : page'[o] = "closed" => job'[o] = NoJob
  <2>1. job' = [job EXCEPT ![t] = j] /\ page' = page /\ page[t] # "closed"
    BY <1>3 DEF Turns, Takes, Become
  <2>2. job'[t] = j /\ \A o \in Tabs \ {t} : job'[o] = job[o]
    BY <1>1, <2>1
  <2>3. job' \in [Tabs -> JobType']
    BY <1>1, <1>3, <2>1 DEF GoodJob
  <2>4. ASSUME NEW o \in Tabs
        PROVE  /\ job'[o].reply = "ok" \/ job'[o].pc = "draining" => job'[o].id \in taken'
               /\ job'[o].pc = "stopping" => job'[o].id \in waived'
               /\ job'[o].pc \notin {"none", "slot"} => job'[o].role \in {"fg", "bg"}
    <3>1. CASE o = t
      BY <1>3, <2>2, <3>1 DEF GoodJob
    <3>2. CASE o # t
      BY <2>2, <3>2 DEF TypeInv, JobInv
    <3> QED
      BY <3>1, <3>2
  <2>5. JobInv'
    BY <2>4 DEF JobInv
  <2> QED
    BY <2>1, <2>2, <2>3, <2>5 DEF Others, TypeInv, PageInv
<1> QED
  BY <1>2, <1>3 DEF Turns

LEMMA QueuedIsMade ==
    ASSUME TypeInv, NEW t \in Tabs
    PROVE  /\ Ids(queue[t].items) \subseteq made
           /\ queue[t].items # <<>> => Head(queue[t].items).id \in made
<1>1. queue[t].items \in Seq(Entry)
  BY QueueOf DEF TypeInv, Lists
<1>2. Ids(queue[t].items) \subseteq made
  BY DEF TypeInv, KnownInv
<1>3. ASSUME queue[t].items # <<>>
      PROVE  Head(queue[t].items).id \in Ids(queue[t].items)
  <2>1. 1 \in DOMAIN queue[t].items /\ Head(queue[t].items) = queue[t].items[1]
    BY <1>1, <1>3
  <2> QED
    BY <2>1 DEF Ids
<1> QED
  BY <1>2, <1>3

LEMMA PanelTurns ==
    ASSUME TypeInv, NEW t \in Tabs, PanelStep(t)
    PROVE  Turns(t)
<1>0. TypeOK
  BY DEF TypeInv
<1>1. ASSUME NEW q, NEW msgs, Edits(t, q, msgs)
      PROVE  /\ UNCHANGED <<page, waiting, owner>> /\ page[t] # "closed"
             /\ wake' \in [Tabs -> BOOLEAN]
  BY <1>0, <1>1, WakeTypes DEF Edits, locks
<1>2. CASE Edit(t) \/ Pause(t) \/ \E i \in Items : Enqueue(t, i)
  BY <1>1, <1>2 DEF Edit, Pause, Enqueue, Turns
<1>3. ASSUME NEW q, NEW msgs, NEW again, NEW gone, Intervene(t, q, msgs, again, gone)
      PROVE  /\ UNCHANGED <<page, waiting, owner>> /\ page[t] # "closed"
             /\ wake' \in [Tabs -> BOOLEAN] /\ made' = made
  BY <1>1, <1>3 DEF Intervene
<1>4. CASE Reorder(t) \/ Clear(t) \/ \E i \in Items : Remove(t, i)
  BY <1>3, <1>4 DEF Reorder, Clear, Remove, Turns
<1>5. ASSUME NEW i, i \in made, made' = made, NEW mode \in {"send", "skip"},
             StartsNow(t, Asking("fg", mode, i, FALSE)),
             UNCHANGED <<page, waiting, owner>>, page[t] # "closed",
             wake' \in [Tabs -> BOOLEAN]
      PROVE  Turns(t)
  <2>1. GoodJob(Asking("fg", mode, i, FALSE))
    BY <1>5, AskingGood
  <2>2. CASE owner = t /\ SendLockFree
    <3>1. Takes(t, Asking("fg", mode, i, FALSE))
      BY <1>5, <2>2 DEF StartsNow, Takes
    <3> QED
      BY <1>5, <2>1, <3>1 DEF Turns
  <2>3. CASE ~(owner = t /\ SendLockFree)
    BY <1>5, <2>3 DEF StartsNow, Turns
  <2> QED
    BY <2>2, <2>3
<1>6. CASE Resume(t)
  <2> DEFINE i == Head(queue[t].items).id
  <2>1. StartsNow(t, Asking("fg", "send", i, FALSE)) /\ queue[t].items # <<>>
    BY <1>6 DEF Resume
  <2>2. \E q, msgs, again : Intervene(t, q, msgs, again, {})
    BY <1>6 DEF Resume
  <2>3. i \in made
    BY <2>1, QueuedIsMade
  <2> HIDE DEF i
  <2> QED
    BY <1>3, <1>5, <2>1, <2>2, <2>3
<1>7. ASSUME NEW i \in Items, Has(queue[t], i, "failed")
      PROVE  i \in made
  BY <1>7, QueuedIsMade DEF Has, Ids
<1>8. ASSUME NEW i \in Items, Retry(t, i)
      PROVE  Turns(t)
  <2>1. \E q, msgs, again : Intervene(t, q, msgs, again, {})
    BY <1>8 DEF Retry
  <2>2. StartsNow(t, Asking("fg", "send", i, FALSE)) /\ i \in made
    BY <1>7, <1>8 DEF Retry
  <2> QED
    BY <1>3, <1>5, <2>1, <2>2
<1>9. ASSUME NEW i \in Items, Skip(t, i)
      PROVE  Turns(t)
  <2>1. \E q, msgs, gone : Intervene(t, q, msgs, {}, gone)
    BY <1>9 DEF Skip
  <2>2. StartsNow(t, Asking("fg", "skip", i, FALSE)) /\ i \in made
    BY <1>7, <1>9 DEF Skip
  <2> QED
    BY <1>3, <1>5, <2>1, <2>2
<1>10. ASSUME NEW i \in Items, Interrupt(t, i)
       PROVE  Turns(t)
  <2> DEFINE a == Asking("fg", "send", i, TRUE)
             j == [a EXCEPT !.pc = "stopping"]
  <2>1. /\ i \in Ids(queue[t].items) /\ i \in waived' /\ owner = t /\ page[t] = "here"
        /\ UNCHANGED <<page, waiting, owner, wake, made>> /\ Become(t, j)
    BY <1>10 DEF Interrupt, locks
  <2>2. GoodJob(a) /\ a.id = i /\ a.role = "fg" /\ a.reply = "none"
    <3>1. i \in made'
      BY <2>1, QueuedIsMade
    <3> QED
      BY <3>1, AskingGood DEF Asking, NoJob
  <2> HIDE DEF a
  <2>3. GoodJob(j)
    BY <2>1, <2>2 DEF GoodJob, JobType
  <2> HIDE DEF j
  <2>4. Takes(t, j)
    BY <2>1 DEF Takes
  <2> QED
    BY <1>0, <2>1, <2>3, <2>4, WakeTypes DEF Turns
<1> QED
  BY <1>2, <1>4, <1>6, <1>8, <1>9, <1>10 DEF PanelStep

\* The ways a sender's step leaves the sender.
LEMMA TurnTakes ==
    ASSUME TypeInv, NEW t \in Tabs, job[t].pc \notin {"none", "slot"},
           \/ EndsTurn(t) \/ NextTurn(t)
           \/ \E j : GoodJob(j) /\ Stays(t, j)
           \/ \E i \in made' : GoesOn(t, i)
    PROVE  waiting' = waiting /\ \E j : GoodJob(j) /\ Takes(t, j)
<1>1. owner = t
  BY DEF TypeInv, TypeOK
<1>2. page[t] # "closed"
  BY DEF TypeInv, PageInv, NoJob
<1>3. CASE EndsTurn(t) \/ NextTurn(t)
  <2>1. /\ waiting' = waiting
        /\ owner' = owner \/ (owner = t /\ owner' = NoTab)
        /\ Become(t, NoJob) \/ Become(t, Slot)
    BY <1>1, <1>3 DEF EndsTurn, NextTurn, LeaveTurn
  <2>2. Takes(t, NoJob) \/ Takes(t, Slot)
    BY <1>2, <2>1, IdleGood DEF Takes
  <2> QED
    BY <2>1, <2>2, IdleGood
<1>4. ASSUME NEW j, GoodJob(j), Stays(t, j)
      PROVE  waiting' = waiting /\ Takes(t, j)
  BY <1>1, <1>2, <1>4 DEF Stays, Takes, locks
<1>5. ASSUME NEW i \in made', GoesOn(t, i)
      PROVE  waiting' = waiting /\ \E j : GoodJob(j) /\ Takes(t, j)
  <2> DEFINE j == Asking("fg", "send", i, FALSE)
  <2>1. GoodJob(j)
    BY AskingGood
  <2>2. waiting' = waiting /\ owner' = owner /\ Become(t, j)
    BY <1>5 DEF GoesOn, locks
  <2> HIDE DEF j
  <2> QED
    BY <1>1, <1>2, <2>1, <2>2 DEF Takes
<1> QED
  BY <1>3, <1>4, <1>5

LEMMA HeadOf ==
    ASSUME NEW q \in QueueType, q.items # <<>>
    PROVE  Head(q.items).id \in Ids(q.items) /\ Head(q.items) = q.items[1]
<1>1. q.items \in Seq(Entry)
  BY DEF QueueType, Lists
<1>2. 1 \in DOMAIN q.items /\ Head(q.items) = q.items[1]
  BY <1>1
<1> QED
  BY <1>2 DEF Ids

LEMMA MarkedIds ==
    ASSUME NEW q \in QueueType, NEW i
    PROVE  Ids(SetItemStatus(q, i, "failed").items) = Ids(q.items)
<1>1. Marked(SetItemStatus(q, i, "failed").items, q.items, i, "failed")
  BY StatusMarks DEF Statuses
<1> QED
  BY <1>1 DEF Marked, Ids

LEMMA RecoveredTurns ==
    ASSUME TypeInv, NEW t \in Tabs, job[t].pc \notin {"none", "slot"}, made' = made,
           NEW q \in QueueType, NEW msgs, Ids(q.items) \subseteq Ids(queue[t].items),
           page' = page, Recovered(t, q, msgs)
    PROVE  Turns(t)
<1> DEFINE i == job[t].id
           lost == Has(q, i, "sending") /\ q.run # "paused"
           bad == SetItemStatus(q, i, "failed")
           q1 == IF lost THEN bad ELSE q
           out == msgs \o IF lost THEN <<BothOf(q1)>> ELSE <<>>
<1>1. bad \in QueueType /\ Ids(bad.items) = Ids(q.items)
  BY StatusMarks, MarkedIds DEF Statuses
<1>2. q1 \in QueueType /\ Ids(q1.items) \subseteq made
  BY <1>1, QueuedIsMade
<1>3. /\ JobWrites(t, q1, out)
      /\ IF job[t].role = "bg" THEN NextTurn(t)
         ELSE IF HeadIn(q1, {"pending"}) /\ ~Halted(q1)
         THEN GoesOn(t, Head(q1.items).id)
         ELSE EndsTurn(t)
  BY DEF Recovered
<1> HIDE DEF q1, out, lost
<1>4. wake' \in [Tabs -> BOOLEAN]
  BY <1>3, WakeTypes DEF JobWrites, TypeInv
<1>5. HeadIn(q1, {"pending"}) => Head(q1.items).id \in made'
  BY <1>2, HeadOf DEF HeadIn
<1>6. waiting' = waiting /\ \E j : GoodJob(j) /\ Takes(t, j)
  <2>1. \/ EndsTurn(t) \/ NextTurn(t)
        \/ \E k \in made' : GoesOn(t, k)
    BY <1>3, <1>5
  <2> QED
    BY <2>1, TurnTakes
<1> QED
  BY <1>4, <1>6 DEF Turns

\* A sender that changes what it knows or waits for.
LEMMA SenderGood ==
    ASSUME TypeInv, NEW t \in Tabs, job[t].pc \notin {"none", "slot"},
           made \subseteq made', taken \subseteq taken', waived \subseteq waived'
    PROVE  /\ job[t] \in JobType' /\ job[t].role \in {"fg", "bg"}
           /\ job[t].reply = "ok" => job[t].id \in taken'
           /\ GoodJob(job[t])
BY DEF TypeInv, TypeOK, SenderTypes, JobType, JobInv, GoodJob

LEMMA FirstTurns ==
    ASSUME TypeInv, NEW t \in Tabs, Stopped(t) \/ TimerFires(t) \/ BgTurn(t)
    PROVE  Turns(t)
<1>0. TypeOK /\ queue[t] \in QueueType
  BY QueueOf DEF TypeInv
<1>1. CASE Stopped(t)
  <2>1. /\ UNCHANGED <<page, waiting, owner, made>> /\ job[t].pc = "stopping"
        /\ wake' \in [Tabs -> BOOLEAN]
    BY <1>0, <1>1, WakeTypes DEF Stopped, locks
  <2>2. owner = t /\ page[t] # "closed"
    BY <2>1 DEF TypeInv, TypeOK, PageInv, NoJob
  <2>3. CASE Become(t, NoJob)
    <3>1. Takes(t, NoJob)
      BY <2>1, <2>2, <2>3, IdleGood DEF Takes
    <3> QED
      BY <2>1, <3>1, IdleGood DEF Turns
  <2>4. CASE job[t].id \in Ids(queue[t].items) /\ Become(t, Asking("fg", "send", job[t].id, TRUE))
    <3>1. GoodJob(Asking("fg", "send", job[t].id, TRUE))
      BY <2>1, <2>4, AskingGood, QueuedIsMade
    <3>2. Takes(t, Asking("fg", "send", job[t].id, TRUE))
      BY <2>1, <2>2, <2>4 DEF Takes
    <3> QED
      BY <2>1, <3>1, <3>2 DEF Turns
  <2> QED
    BY <1>1, <2>3, <2>4 DEF Stopped
<1>2. ASSUME NEW role \in {"fg", "bg"}, NEW mode \in {"recover", "send"}, made' = made,
             queue[t].items # <<>>
      PROVE  GoodJob(Asking(role, mode, Head(queue[t].items).id, FALSE))
  BY <1>2, AskingGood, QueuedIsMade
<1>3. CASE TimerFires(t)
  <2> DEFINE mode == IF HeadIn(queue[t], {"sending"}) THEN "recover" ELSE "send"
             j == Asking("fg", mode, Head(queue[t].items).id, FALSE)
  <2>1. /\ UNCHANGED <<page, waiting, owner, made>> /\ wake' = [wake EXCEPT ![t] = FALSE]
        /\ \/ UNCHANGED job
           \/ /\ owner = t /\ queue[t].items # <<>> /\ Become(t, j)
    BY <1>3 DEF TimerFires, locks, HeadIn, histories
  <2>2. wake' \in [Tabs -> BOOLEAN]
    BY <1>0, <2>1, WakeTypes
  <2>3. queue[t].items # <<>> => page[t] # "closed"
    BY DEF TypeInv, PageInv, Empty
  <2>4. queue[t].items # <<>> => GoodJob(j)
    BY <1>2, <2>1
  <2> HIDE DEF j
  <2> QED
    BY <2>1, <2>2, <2>3, <2>4 DEF Turns, Takes
<1>4. CASE BgTurn(t)
  <2> DEFINE mode == IF HeadIn(queue[t], {"sending"}) THEN "recover" ELSE "send"
             j == Asking("bg", mode, Head(queue[t].items).id, FALSE)
  <2>1. /\ UNCHANGED <<page, waiting, wake, made>> /\ job[t].pc = "slot"
        /\ \/ Become(t, NoJob) /\ UNCHANGED owner
           \/ /\ owner = NoTab /\ waiting = <<>> /\ queue[t].items # <<>>
              /\ Become(t, j) /\ owner' = t
    BY <1>4 DEF BgTurn, Owns, HeadIn, histories
  <2>2. wake' \in [Tabs -> BOOLEAN]
    BY <1>0, <2>1, WakeTypes
  <2>3. page[t] # "closed"
    BY <2>1 DEF TypeInv, PageInv, NoJob
  <2>4. queue[t].items # <<>> => GoodJob(j)
    BY <1>2, <2>1
  <2> HIDE DEF j
  <2> QED
    BY <2>1, <2>2, <2>3, <2>4, IdleGood DEF Turns, Takes
<1> QED
  BY <1>1, <1>3, <1>4

LEMMA ReadTurns ==
    ASSUME TypeInv, NEW t \in Tabs, ReadHistory(t) \/ ReadStatus(t)
    PROVE  Turns(t)
<1> DEFINE h == [job[t] EXCEPT !.pc = "read", !.seen = history]
           r == [job[t] EXCEPT !.pc = "answered", !.busy = chat # NoItem]
<1>1. /\ UNCHANGED <<page, waiting, owner, wake, made, taken, waived>>
      /\ job[t].pc \in {"asking", "read"}
      /\ Become(t, h) \/ Become(t, r)
  BY DEF ReadHistory, ReadStatus, locks, histories
<1>2. job[t] \in JobType' /\ GoodJob(job[t])
  BY <1>1, SenderGood
<1>3. GoodJob(h)
  <2>1. history \subseteq taken'
    BY <1>1 DEF TypeInv, TypeOK, HistoryTypes
  <2>2. h \in JobType'
    BY <1>2, <2>1 DEF JobType
  <2>3. h.pc = "read" /\ h.reply = job[t].reply /\ h.id = job[t].id /\ h.role = job[t].role
    BY <1>2 DEF JobType
  <2> QED
    BY <1>1, <1>2, <2>2, <2>3 DEF GoodJob
<1>4. GoodJob(r)
  <2>1. (chat # NoItem) \in BOOLEAN
    OBVIOUS
  <2>2. r \in JobType'
    BY <1>2, <2>1 DEF JobType
  <2>3. r.pc = "answered" /\ r.reply = job[t].reply /\ r.id = job[t].id /\ r.role = job[t].role
    BY <1>2 DEF JobType
  <2> QED
    BY <1>1, <1>2, <2>2, <2>3 DEF GoodJob
<1>5. owner = t /\ page[t] # "closed"
  BY <1>1 DEF TypeInv, TypeOK, PageInv, NoJob
<1>6. wake' \in [Tabs -> BOOLEAN]
  BY <1>1, WakeTypes DEF TypeInv
<1> HIDE DEF h, r
<1> QED
  BY <1>1, <1>3, <1>4, <1>5, <1>6 DEF Turns, Takes

LEMMA StatusFailsTurns ==
    ASSUME TypeInv, NEW t \in Tabs, StatusFails(t)
    PROVE  Turns(t)
<1>1. /\ job[t].pc = "asking" /\ page' = page /\ made' = made
      /\ \/ Recovered(t, queue[t], <<>>)
         \/ /\ EndsTurn(t)
            /\ \/ \E q, msgs : JobWrites(t, q, msgs)
               \/ wake' = [wake EXCEPT ![t] = TRUE]
  BY DEF StatusFails, JobRest, Fails
<1>2. CASE Recovered(t, queue[t], <<>>)
  BY <1>1, <1>2, QueueOf, RecoveredTurns DEF TypeInv
<1>3. CASE /\ EndsTurn(t)
           /\ \/ \E q, msgs : JobWrites(t, q, msgs)
              \/ wake' = [wake EXCEPT ![t] = TRUE]
  <2>1. wake' \in [Tabs -> BOOLEAN]
    BY <1>3, WakeTypes DEF JobWrites, TypeInv
  <2> QED
    BY <1>1, <1>3, <2>1, TurnTakes DEF Turns
<1> QED
  BY <1>1, <1>2, <1>3

LEMMA AnswerTurns ==
    ASSUME TypeInv, NEW t \in Tabs,
           \/ StillRunning(t) \/ RecoverAnswered(t)
           \/ HandoffAnswered(t) \/ SkipAnswered(t)
    PROVE  Turns(t)
<1> DEFINE q == Reconciled(t)
           again == [job[t] EXCEPT !.pc = "asking", !.seen = {}, !.busy = FALSE]
<1>1. job[t].pc = "answered" /\ UNCHANGED <<page, made, taken>> /\ waived \subseteq waived'
  <2>1. Grows
    BY JobGrows DEF JobStep
  <2> QED
    BY <2>1 DEF StillRunning, RecoverAnswered, HandoffAnswered, SkipAnswered, Answered,
              JobRest, Grows
<1>2. TypeOK /\ q \in QueueType /\ Ids(q.items) \subseteq Ids(queue[t].items)
  BY <1>1, ReconciledKept DEF Kept, TypeInv
<1>3. CASE RecoverAnswered(t)
  BY <1>1, <1>2, <1>3, RecoveredTurns DEF RecoverAnswered
<1>4. CASE StillRunning(t) \/ HandoffAnswered(t) \/ SkipAnswered(t)
  <2>1. wake' \in [Tabs -> BOOLEAN]
    BY <1>2, <1>4, WakeTypes DEF StillRunning, HandoffAnswered, SkipAnswered, JobWrites
  <2>2. GoodJob(again)
    <3>1. GoodJob(job[t]) /\ job[t] \in JobType'
      BY <1>1, SenderGood
    <3>2. again \in JobType'
      BY <3>1 DEF JobType
    <3>3. again.pc = "asking" /\ again.reply = job[t].reply /\ again.id = job[t].id
          /\ again.role = job[t].role
      BY <3>1 DEF JobType
    <3> QED
      BY <1>1, <3>1, <3>2, <3>3 DEF GoodJob
  <2>3. q.items # <<>> => Head(q.items).id \in made'
    BY <1>1, <1>2, HeadOf, QueuedIsMade
  <2>4. \/ EndsTurn(t) \/ Stays(t, again)
        \/ q.items # <<>> /\ GoesOn(t, Head(q.items).id)
    <3> HIDE DEF again, q
    <3> QED
      BY <1>4 DEF StillRunning, HandoffAnswered, SkipAnswered, q, again
  <2> HIDE DEF again, q
  <2>5. waiting' = waiting /\ \E j : GoodJob(j) /\ Takes(t, j)
    BY <1>1, <2>2, <2>3, <2>4, TurnTakes
  <2> QED
    BY <1>1, <2>1, <2>5 DEF Turns
<1> QED
  BY <1>3, <1>4

LEMMA SendAnsweredTurns ==
    ASSUME TypeInv, NEW t \in Tabs, SendAnswered(t)
    PROVE  Turns(t)
<1> DEFINE refreshing == [job[t] EXCEPT !.pc = "asking", !.mode = "refresh", !.seen = {}]
           posting == [job[t] EXCEPT !.pc = "posting", !.seen = {},
                                     !.n = posts[job[t].id] + 1]
<1>1. Grows
  BY JobGrows DEF JobStep
<1>2. /\ job[t].pc = "answered" /\ UNCHANGED <<page, made, taken>>
      /\ \E q, msgs : JobWrites(t, q, msgs)
      /\ \/ EndsTurn(t) \/ NextTurn(t) \/ Stays(t, refreshing)
         \/ Stays(t, posting) /\ MaySend(job[t], Reconciled(t))
  <2> HIDE DEF refreshing, posting
  <2> QED
    BY DEF SendAnswered, Post, refreshing, posting
<1>3. wake' \in [Tabs -> BOOLEAN]
  BY <1>2, WakeTypes DEF JobWrites, TypeInv
<1>4. GoodJob(job[t]) /\ job[t] \in JobType'
  BY <1>1, <1>2, SenderGood DEF Grows
<1>5. GoodJob(refreshing)
  <2>1. refreshing \in JobType'
    BY <1>4 DEF JobType
  <2>2. /\ refreshing.pc = "asking" /\ refreshing.reply = job[t].reply
        /\ refreshing.id = job[t].id /\ refreshing.role = job[t].role
    BY <1>4 DEF JobType
  <2> QED
    BY <1>2, <1>4, <2>1, <2>2 DEF GoodJob
<1>6. MaySend(job[t], Reconciled(t)) => GoodJob(posting)
  <2> SUFFICES ASSUME MaySend(job[t], Reconciled(t)) PROVE GoodJob(posting)
    OBVIOUS
  <2>1. Reconciled(t) \in QueueType
    BY <1>2, ReconciledKept DEF TypeInv
  <2>2. job[t].id \in Items
    <3>1. PICK k \in DOMAIN Reconciled(t).items : Reconciled(t).items[k].id = job[t].id
      BY DEF MaySend, Has
    <3>2. Reconciled(t).items[k] \in Entry
      BY <2>1 DEF QueueType, Lists
    <3> QED
      BY <3>1, <3>2 DEF Entry
  <2>3. posts[job[t].id] + 1 \in Nat
    BY <2>2 DEF TypeInv, TypeOK, SenderTypes
  <2>4. posting \in JobType'
    BY <1>4, <2>3 DEF JobType
  <2>5. /\ posting.pc = "posting" /\ posting.reply = job[t].reply
        /\ posting.id = job[t].id /\ posting.role = job[t].role
    BY <1>4 DEF JobType
  <2> QED
    BY <1>2, <1>4, <2>4, <2>5 DEF GoodJob
<1> HIDE DEF refreshing, posting
<1>7. waiting' = waiting /\ \E j : GoodJob(j) /\ Takes(t, j)
  BY <1>2, <1>5, <1>6, TurnTakes
<1> QED
  BY <1>2, <1>3, <1>7 DEF Turns

LEMMA ReplyTurns ==
    ASSUME TypeInv, NEW t \in Tabs, PostReplied(t) \/ DrainEnds(t)
    PROVE  Turns(t)
<1> DEFINE draining == [job[t] EXCEPT !.pc = "draining"]
<1>1. Grows
  BY JobGrows DEF JobStep
<1>2. /\ job[t].pc \in {"posting", "draining"} /\ UNCHANGED <<page, made, taken>>
      /\ \E q, msgs : JobWrites(t, q, msgs)
      /\ \/ EndsTurn(t) \/ NextTurn(t)
         \/ Stays(t, draining) /\ job[t].reply = "ok"
  <2> HIDE DEF draining
  <2> QED
    BY DEF PostReplied, DrainEnds, JobRest, Fails, draining
<1>3. wake' \in [Tabs -> BOOLEAN]
  BY <1>2, WakeTypes DEF JobWrites, TypeInv
<1>4. job[t].reply = "ok" => GoodJob(draining)
  <2>1. GoodJob(job[t]) /\ job[t] \in JobType'
    BY <1>1, <1>2, SenderGood DEF Grows
  <2>2. draining \in JobType'
    BY <2>1 DEF JobType
  <2>3. /\ draining.pc = "draining" /\ draining.reply = job[t].reply
        /\ draining.id = job[t].id /\ draining.role = job[t].role
    BY <2>1 DEF JobType
  <2> QED
    BY <1>2, <2>1, <2>2, <2>3 DEF GoodJob
<1> HIDE DEF draining
<1>5. waiting' = waiting /\ \E j : GoodJob(j) /\ Takes(t, j)
  BY <1>2, <1>4, TurnTakes
<1> QED
  BY <1>2, <1>3, <1>5 DEF Turns

LEMMA JobTurns ==
    ASSUME TypeInv, NEW t \in Tabs, JobStep(t)
    PROVE  Turns(t)
BY FirstTurns, ReadTurns, StatusFailsTurns, AnswerTurns, SendAnsweredTurns, ReplyTurns
   DEF JobStep

\* What is known of pages, the ownership of the conversation, and senders.
Held ==
    /\ PageTypes
    /\ LineInv
    /\ \A k \in DOMAIN waiting : waiting[k] # owner
    /\ \A t \in Tabs : job[t].pc \notin {"none", "slot"} => owner = t
    /\ job \in [Tabs -> JobType]
    /\ JobInv
    /\ \A t \in Tabs : page[t] = "closed" => job[t] = NoJob

LEMMA HeldNow ==
    ASSUME TypeInv
    PROVE  Held
BY DEF TypeInv, TypeOK, SenderTypes, PageInv, Held

LEMMA TurnHeld ==
    ASSUME TypeInv, NEW t \in Tabs, PanelStep(t) \/ JobStep(t)
    PROVE  Held' /\ Others(t) /\ page' = page
<1>1. Turns(t) /\ Grows
  BY PanelTurns, JobTurns, PanelGrows, JobGrows
<1> QED
  BY <1>1, TurnPages, TurnSenders DEF Held, Grows, Turns

LEMMA SenderChanges ==
    ASSUME TypeInv, NEW t \in Tabs, NEW j, GoodJob(j), Grows, Become(t, j) \/ UNCHANGED job
    PROVE  /\ job' \in [Tabs -> JobType'] /\ JobInv'
           /\ \A o \in Tabs : job'[o] = job[o] \/ (o = t /\ job'[o] = j)
           /\ Become(t, j) => job'[t] = j
<1>1. job \in [Tabs -> JobType] /\ JobType \subseteq JobType' /\ taken \subseteq taken'
      /\ waived \subseteq waived'
  BY DEF TypeInv, TypeOK, SenderTypes, JobType, Grows
<1>2. /\ \A o \in Tabs : job'[o] = job[o] \/ (o = t /\ job'[o] = j)
      /\ Become(t, j) => job'[t] = j
  BY <1>1 DEF Become
<1>3. job' \in [Tabs -> JobType']
  BY <1>1 DEF Become, GoodJob
<1>4. JobInv'
  BY <1>1, <1>2 DEF JobInv, TypeInv, GoodJob
<1> QED
  BY <1>2, <1>3, <1>4

LEMMA MountHeld ==
    ASSUME TypeInv, NEW t \in Tabs, Mount(t)
    PROVE  Held' /\ Others(t)
<1>1. Grows
  BY TabGrows DEF TabStep
<1>2. /\ page[t] = "away" /\ page' = [page EXCEPT ![t] = "here"]
      /\ wake' = [wake EXCEPT ![t] = LoadFromStorage(t).items # <<>>]
      /\ owner' = IF owner = t THEN NoTab ELSE owner
      /\ waiting' = Append(waiting, t) /\ Become(t, NoJob)
  BY DEF Mount
<1>3. job' \in [Tabs -> JobType'] /\ JobInv' /\ job'[t] = NoJob
      /\ \A o \in Tabs : job'[o] = job[o] \/ (o = t /\ job'[o] = NoJob)
  BY <1>1, <1>2, IdleGood, SenderChanges
<1>4. Held
  BY HeldNow
<1>5. t # NoTab /\ \A k \in DOMAIN waiting : waiting[k] # t
  BY <1>2, <1>4, DistinctNulls DEF Held, LineInv
<1>6. /\ waiting' \in Seq(Tabs) /\ DOMAIN waiting' = 1..Len(waiting) + 1
      /\ Len(waiting) \in Nat /\ DOMAIN waiting = 1..Len(waiting)
      /\ waiting'[Len(waiting) + 1] = t
      /\ \A k \in DOMAIN waiting : waiting'[k] = waiting[k]
  BY <1>2, <1>4 DEF Held, PageTypes
<1>7. PageTypes'
  <2>1. (LoadFromStorage(t).items # <<>>) \in BOOLEAN
    OBVIOUS
  <2> QED
    BY <1>2, <1>4, <1>6, <2>1 DEF Held, PageTypes
<1>8. /\ \A o \in Tabs : page'[o] = IF o = t THEN "here" ELSE page[o]
      /\ \A k \in DOMAIN waiting : waiting[k] \in Tabs
  BY <1>2, <1>4, <1>6 DEF Held, PageTypes
<1>9. ASSUME NEW k \in DOMAIN waiting'
      PROVE  page'[waiting'[k]] = "here" /\ waiting'[k] # owner'
  <2>1. CASE k \in DOMAIN waiting
    <3>1. page[waiting[k]] = "here" /\ waiting[k] # owner /\ waiting[k] # NoTab
      BY <1>4, <1>8, <2>1, DistinctNulls DEF Held, LineInv
    <3> QED
      BY <1>2, <1>6, <1>8, <2>1, <3>1
  <2>2. CASE k = Len(waiting) + 1
    BY <1>2, <1>5, <1>6, <1>8, <2>2
  <2> QED
    BY <1>6, <2>1, <2>2
<1>10. \A a, b \in DOMAIN waiting' : waiting'[a] = waiting'[b] => a = b
  <2> SUFFICES ASSUME NEW a \in DOMAIN waiting', NEW b \in DOMAIN waiting',
                      waiting'[a] = waiting'[b]
               PROVE  a = b
    OBVIOUS
  <2>1. a \in DOMAIN waiting \/ a = Len(waiting) + 1
    BY <1>6
  <2>2. b \in DOMAIN waiting \/ b = Len(waiting) + 1
    BY <1>6
  <2> QED
    BY <1>4, <1>5, <1>6, <2>1, <2>2 DEF Held, LineInv
<1>11. \A o \in Tabs : job'[o].pc \notin {"none", "slot"} => owner' = o
  BY <1>2, <1>3, <1>4, IdleGood DEF Held
<1>12. \A o \in Tabs : page'[o] = "closed" => job'[o] = NoJob
  BY <1>3, <1>4, <1>8 DEF Held
<1>13. Others(t)
  BY <1>3, <1>8 DEF Others
<1> QED
  BY <1>3, <1>7, <1>9, <1>10, <1>11, <1>12, <1>13 DEF Held, LineInv

LEMMA GrantHeld ==
    ASSUME TypeInv, NEW t \in Tabs, Grant(t)
    PROVE  Held' /\ Others(t) /\ page[t] = "here"
<1>1. Grows
  BY TabGrows DEF TabStep
<1>2. /\ owner = NoTab /\ waiting # <<>> /\ Head(waiting) = t
      /\ owner' = t /\ waiting' = Tail(waiting) /\ page' = page /\ made' = made
      /\ wake' = [wake EXCEPT ![t] = @ \/ queue[t].items # <<>>]
      /\ UNCHANGED job \/ Become(t, Asking("fg", "handoff", NoItem, FALSE))
  BY DEF Grant, histories
<1>3. Held
  BY HeldNow
<1>4. GoodJob(Asking("fg", "handoff", NoItem, FALSE))
  BY AskingGood
<1>5. Asking("fg", "handoff", NoItem, FALSE) # NoJob
  BY AskingGood, IdleGood
<1>6. job' \in [Tabs -> JobType'] /\ JobInv'
      /\ \A o \in Tabs : \/ job'[o] = job[o]
                         \/ o = t /\ job'[o] = Asking("fg", "handoff", NoItem, FALSE)
  BY <1>1, <1>2, <1>4, SenderChanges
<1>7. /\ Len(waiting) \in Nat /\ DOMAIN waiting = 1..Len(waiting)
      /\ 1 \in DOMAIN waiting /\ waiting[1] = t
      /\ waiting' \in Seq(Tabs) /\ Len(waiting') = Len(waiting) - 1
      /\ DOMAIN waiting' = 1..Len(waiting) - 1
      /\ \A k \in DOMAIN waiting' : k + 1 \in DOMAIN waiting /\ waiting'[k] = waiting[k + 1]
  BY <1>2, <1>3 DEF Held, PageTypes
<1>8. PageTypes'
  <2>1. (wake[t] \/ queue[t].items # <<>>) \in BOOLEAN
    OBVIOUS
  <2> QED
    BY <1>2, <1>3, <1>7, <2>1 DEF Held, PageTypes
<1>9. page[t] = "here"
  BY <1>3, <1>7 DEF Held, LineInv
<1>10. LineInv'
  BY <1>2, <1>3, <1>7 DEF Held, LineInv
<1>11. \A k \in DOMAIN waiting' : waiting'[k] # t
  <2> SUFFICES ASSUME NEW k \in DOMAIN waiting', waiting'[k] = t PROVE FALSE
    OBVIOUS
  <2>1. waiting[k + 1] = waiting[1] /\ k + 1 # 1
    BY <1>7
  <2> QED
    BY <1>3, <1>7, <2>1 DEF Held, LineInv
<1>12. \A o \in Tabs : job'[o].pc \notin {"none", "slot"} => owner' = o
  BY <1>2, <1>3, <1>6, DistinctNulls DEF Held
<1>13. \A o \in Tabs : page'[o] = "closed" => job'[o] = NoJob
  BY <1>2, <1>3, <1>6, <1>9 DEF Held
<1>14. Others(t)
  BY <1>2, <1>6 DEF Others
<1> QED
  BY <1>2, <1>6, <1>8, <1>9, <1>10, <1>11, <1>12, <1>13, <1>14 DEF Held

LEMMA LeaveHeld ==
    ASSUME TypeInv, NEW t \in Tabs, Leave(t) \/ Close(t)
    PROVE  Held' /\ Others(t)
<1> DEFINE rest == Keep(waiting, {k \in DOMAIN waiting : waiting[k] # t})
<1>1. Grows
  BY TabGrows DEF TabStep
<1>2. /\ page[t] # "closed" /\ wake' = [wake EXCEPT ![t] = FALSE]
      /\ owner' = IF owner = t THEN NoTab ELSE owner
      /\ waiting' = rest
      /\ \/ page' = [page EXCEPT ![t] = "away"] /\ (Become(t, NoJob) \/ Become(t, Slot))
         \/ page' = [page EXCEPT ![t] = "closed"] /\ Become(t, NoJob)
  BY DEF Leave, Close
<1>3. Held
  BY HeldNow
<1>4. /\ job' \in [Tabs -> JobType'] /\ JobInv'
      /\ job'[t] \in {NoJob, Slot}
      /\ page' = [page EXCEPT ![t] = "closed"] => job'[t] = NoJob
      /\ \A o \in Tabs \ {t} : job'[o] = job[o]
  <2>1. CASE Become(t, NoJob)
    BY <1>1, <2>1, IdleGood, SenderChanges
  <2>2. CASE Become(t, Slot) /\ page' = [page EXCEPT ![t] = "away"]
    <3>1. page'[t] = "away"
      BY <1>3, <2>2 DEF Held, PageTypes
    <3>2. page' # [page EXCEPT ![t] = "closed"]
      BY <1>3, <3>1 DEF Held, PageTypes
    <3> QED
      BY <1>1, <2>2, <3>2, IdleGood, SenderChanges
  <2> QED
    BY <1>2, <2>1, <2>2
<1>14. waiting \in Seq(Tabs)
  BY <1>3 DEF Held, PageTypes
<1>5. /\ rest \in Seq(Tabs)
      /\ \A k \in DOMAIN rest : rest[k] # t
      /\ \E at \in [DOMAIN rest -> DOMAIN waiting] :
             /\ \A k \in DOMAIN rest : rest[k] = waiting[at[k]]
             /\ \A j, k \in DOMAIN rest : at[j] = at[k] => j = k
  <2> DEFINE ks == {k \in DOMAIN waiting : waiting[k] # t}
  <2>1. /\ ks \in SUBSET DOMAIN waiting
        /\ \A k \in ks : waiting[k] # t
        /\ rest = Keep(waiting, ks)
    OBVIOUS
  <2> HIDE DEF rest, ks
  <2>2. PICK at \in [DOMAIN rest -> ks] :
             /\ \A k \in DOMAIN rest : rest[k] = waiting[at[k]]
             /\ \A j, k \in DOMAIN rest : at[j] = at[k] => j = k
    BY <1>14, <2>1, KeptFrom
  <2>3. rest \in Seq(Tabs)
    BY <1>14, <2>1, KeptFrom
  <2>4. at \in [DOMAIN rest -> DOMAIN waiting]
    BY <2>1
  <2>5. \A k \in DOMAIN rest : rest[k] # t
    BY <2>1, <2>2
  <2> QED
    BY <2>2, <2>3, <2>4, <2>5, Zenon
<1> HIDE DEF rest
<1>6. PICK at \in [DOMAIN rest -> DOMAIN waiting] :
             /\ \A k \in DOMAIN rest : rest[k] = waiting[at[k]]
             /\ \A j, k \in DOMAIN rest : at[j] = at[k] => j = k
  BY <1>5
<1>7. PageTypes'
  BY <1>2, <1>3, <1>5 DEF Held, PageTypes
<1>8. /\ \A o \in Tabs \ {t} : page'[o] = page[o]
      /\ page'[t] = "closed" => page' = [page EXCEPT ![t] = "closed"]
  BY <1>2, <1>3 DEF Held, PageTypes
<1>9. ASSUME NEW k \in DOMAIN waiting'
      PROVE  page'[waiting'[k]] = "here" /\ waiting'[k] # owner'
  <2>1. waiting'[k] \in Tabs \ {t} /\ waiting'[k] = waiting[at[k]] /\ at[k] \in DOMAIN waiting
    BY <1>2, <1>5, <1>6
  <2>2. page[waiting'[k]] = "here" /\ waiting'[k] # owner /\ waiting'[k] # NoTab
    BY <1>3, <2>1, DistinctNulls DEF Held, LineInv
  <2> QED
    BY <1>2, <1>8, <2>1, <2>2
<1>10. \A a, b \in DOMAIN waiting' : waiting'[a] = waiting'[b] => a = b
  BY <1>2, <1>3, <1>6 DEF Held, LineInv
<1>11. \A o \in Tabs : job'[o].pc \notin {"none", "slot"} => owner' = o
  BY <1>2, <1>3, <1>4, IdleGood DEF Held
<1>12. \A o \in Tabs : page'[o] = "closed" => job'[o] = NoJob
  BY <1>3, <1>4, <1>8 DEF Held
<1>13. Others(t)
  BY <1>4, <1>8 DEF Others
<1> QED
  BY <1>4, <1>7, <1>9, <1>10, <1>11, <1>12, <1>13 DEF Held, LineInv

LEMMA OpenHeld ==
    ASSUME TypeInv, NEW t \in Tabs, Open(t) \/ StartAllBackgroundQueues(t) \/ Deliver(t)
    PROVE  Held' /\ Others(t)
<1>1. Grows
  BY TabGrows DEF TabStep
<1>2. Held /\ TypeOK
  BY HeldNow DEF TypeInv
<1>3. CASE Open(t)
  <2>1. UNCHANGED <<owner, waiting, wake, job>> /\ page' = [page EXCEPT ![t] = "away"]
        /\ page[t] = "closed"
    BY <1>3 DEF Open, locks
  <2>2. job' \in [Tabs -> JobType'] /\ JobInv'
    BY <1>1, <2>1, IdleGood, SenderChanges
  <2>3. \A o \in Tabs : page'[o] = IF o = t THEN "away" ELSE page[o]
    BY <1>2, <2>1 DEF Held, PageTypes
  <2>4. PageTypes'
    BY <1>2, <2>1 DEF Held, PageTypes
  <2>5. LineInv'
    <3>1. \A k \in DOMAIN waiting : waiting[k] \in Tabs
      BY <1>2 DEF Held, PageTypes
    <3> QED
      BY <1>2, <2>1, <2>3, <3>1 DEF Held, LineInv
  <2> QED
    BY <1>2, <2>1, <2>2, <2>3, <2>4, <2>5 DEF Held, Others
<1>4. CASE StartAllBackgroundQueues(t)
  <2>1. /\ UNCHANGED <<page, owner, waiting, wake>> /\ Become(t, Slot)
        /\ queue[t].items # <<>>
    BY <1>4 DEF StartAllBackgroundQueues, locks
  <2>2. page[t] # "closed"
    BY <2>1 DEF TypeInv, PageInv, Empty
  <2>3. wake' \in [Tabs -> BOOLEAN]
    BY <1>2, <2>1, WakeTypes
  <2>4. Turns(t)
    BY <2>1, <2>2, <2>3, IdleGood DEF Turns, Takes
  <2> QED
    BY <1>1, <2>4, TurnPages, TurnSenders DEF Held, Grows
<1>5. CASE Deliver(t)
  <2>1. UNCHANGED <<page, owner, waiting, job>> /\ \E q, msgs : Rearm(t, q, msgs)
    BY <1>5 DEF Deliver, locks
  <2>2. wake' \in [Tabs -> BOOLEAN]
    BY <1>2, <2>1, WakeTypes
  <2>3. Turns(t)
    BY <2>1, <2>2 DEF Turns
  <2> QED
    BY <1>1, <2>3, TurnPages, TurnSenders DEF Held, Grows
<1> QED
  BY <1>3, <1>4, <1>5

\* The backend only answers senders.
LEMMA BackendHeld ==
    ASSUME TypeInv, BackendStep
    PROVE  /\ Held' /\ page' = page /\ queue' = queue /\ stored' = stored
           /\ inbox' = inbox /\ stale' = stale /\ posts' = posts /\ asked' = asked
           /\ \A t \in Tabs : job'[t] = NoJob <=> job[t] = NoJob
<1>1. Grows /\ BackendRest
  BY BackendGrows DEF BackendStep, PostArrives, PostLost, RunEnds, RunLost, OtherRun
<1>2. Held
  BY HeldNow
<1>3. job \in [Tabs -> JobType'] /\ taken \subseteq taken' /\ waived \subseteq waived'
  BY <1>1 DEF TypeInv, TypeOK, SenderTypes, JobType, Grows
<1>4. \/ UNCHANGED job
      \/ \E p \in net : \/ Replied(p, "ok") /\ p.id \in taken'
                        \/ Replied(p, "bad")
  BY DEF BackendStep, PostArrives, PostLost, RunEnds, RunLost, OtherRun
<1>5. ASSUME NEW p, NEW r \in {"ok", "bad"}, Replied(p, r), r = "ok" => p.id \in taken'
      PROVE  /\ job' \in [Tabs -> JobType'] /\ JobInv'
             /\ \A t \in Tabs : /\ job'[t].pc = job[t].pc
                                /\ job'[t] = NoJob <=> job[t] = NoJob
  <2>1. ASSUME NEW t \in Tabs
        PROVE  /\ job'[t] \in JobType' /\ job'[t].pc = job[t].pc
               /\ job'[t].id = job[t].id /\ job'[t].role = job[t].role
               /\ job'[t] = NoJob <=> job[t] = NoJob
               /\ job'[t].reply = "ok" => job'[t].id \in taken'
    <3>1. CASE job[t].pc = "posting" /\ job[t].id = p.id /\ job[t].n = p.n
      <4>1. job'[t] = [job[t] EXCEPT !.reply = r] /\ job[t] \in JobType'
        BY <1>3, <1>5, <3>1 DEF Replied
      <4>2. /\ job'[t] \in JobType' /\ job'[t].pc = job[t].pc /\ job'[t].reply = r
            /\ job'[t].id = job[t].id /\ job'[t].role = job[t].role
        BY <4>1 DEF JobType
      <4> QED
        BY <1>5, <3>1, <4>2, IdleGood
    <3>2. CASE ~(job[t].pc = "posting" /\ job[t].id = p.id /\ job[t].n = p.n)
      <4>1. job'[t] = job[t]
        BY <1>5, <3>2 DEF Replied
      <4> QED
        BY <1>2, <1>3, <4>1 DEF Held, JobInv
    <3> QED
      BY <3>1, <3>2
  <2>2. job' \in [Tabs -> JobType']
    BY <1>5, <2>1 DEF Replied
  <2>3. JobInv'
    BY <1>2, <1>3, <2>1 DEF Held, JobInv
  <2> QED
    BY <2>1, <2>2, <2>3
<1>6. /\ job' \in [Tabs -> JobType'] /\ JobInv'
      /\ \A t \in Tabs : /\ job'[t].pc = job[t].pc
                         /\ job'[t] = NoJob <=> job[t] = NoJob
  <2>1. CASE UNCHANGED job
    BY <1>2, <1>3, <2>1 DEF Held, JobInv
  <2>2. CASE \E p \in net : \/ Replied(p, "ok") /\ p.id \in taken'
                            \/ Replied(p, "bad")
    BY <1>5, <2>2
  <2> QED
    BY <1>4, <2>1, <2>2
<1> QED
  BY <1>1, <1>2, <1>6 DEF Held, BackendRest, locks, PageTypes, LineInv

(***************************************************************************)
(* Every step writes, delivers, closes a tab, or leaves the lists alone.   *)
(***************************************************************************)

Passes == /\ UNCHANGED <<queue, stored, inbox, stale, posts, asked>>
          /\ \A t \in Tabs : /\ Live(t)' => Live(t)
                             /\ page'[t] = "closed" => page[t] = "closed"

LEMMA OthersPass ==
    ASSUME NEW t \in Tabs, Others(t), Live(t) \/ ~Live(t)',
           page'[t] = "closed" => page[t] = "closed",
           UNCHANGED <<queue, stored, inbox, stale, posts, asked>>
    PROVE  Passes
BY DEF Passes, Others, Live

LEMMA TabWrites ==
    ASSUME TypeInv, NEW t \in Tabs, TabStep(t)
    PROVE  /\ Held'
           /\ \/ Rewrites(t) /\ Others(t) /\ page'[t] # "closed"
              \/ Deliver(t) \/ Close(t) \/ Passes
<1>1. CASE Mount(t)
  <2>1. Rewrites(t)
    BY <1>1, MountWrites DEF TypeInv
  <2>2. page'[t] # "closed"
    BY <1>1 DEF Mount, TypeInv, TypeOK, PageTypes
  <2> QED
    BY <1>1, <2>1, <2>2, MountHeld
<1>2. CASE Deliver(t)
  BY <1>2, OpenHeld
<1>3. CASE Close(t)
  BY <1>3, LeaveHeld
<1>4. CASE Open(t) \/ StartAllBackgroundQueues(t)
  <2>1. Held' /\ Others(t)
    BY <1>4, OpenHeld
  <2>2. UNCHANGED <<queue, stored, inbox, stale, posts, asked>>
    BY <1>4 DEF Open, StartAllBackgroundQueues, histories
  <2>4. page'[t] = "closed" => page[t] = "closed"
    BY <1>4 DEF Open, StartAllBackgroundQueues
  <2>3. Live(t) \/ ~Live(t)'
    <3>1. CASE Open(t)
      <4>1. queue[t] = Empty /\ job[t] = NoJob
        BY <3>1 DEF Open, TypeInv, PageInv
      <4>2. page'[t] = "away" /\ job' = job
        BY <3>1 DEF Open, TypeInv, TypeOK, PageTypes
      <4> QED
        BY <2>2, <4>1, <4>2 DEF Live, Empty
    <3>2. CASE StartAllBackgroundQueues(t)
      BY <3>2 DEF StartAllBackgroundQueues, Live
    <3> QED
      BY <1>4, <3>1, <3>2
  <2> QED
    BY <2>1, <2>2, <2>3, <2>4, OthersPass
<1>5. CASE Grant(t)
  <2>1. Held' /\ Others(t) /\ page[t] = "here"
    BY <1>5, GrantHeld
  <2>2. UNCHANGED <<queue, stored, inbox, stale, posts, asked>>
    BY <1>5 DEF Grant, histories
  <2>3. page' = page
    BY <1>5 DEF Grant
  <2> QED
    BY <2>1, <2>2, <2>3, OthersPass DEF Live
<1>6. CASE Leave(t)
  <2>1. Held' /\ Others(t) /\ page[t] = "here"
    BY <1>6, LeaveHeld DEF Leave
  <2>2. UNCHANGED <<queue, stored, inbox, stale, posts, asked>>
    BY <1>6 DEF Leave, histories
  <2>3. page'[t] = "away"
    BY <1>6 DEF Leave, TypeInv, TypeOK, PageTypes
  <2> QED
    BY <2>1, <2>2, <2>3, OthersPass DEF Live
<1> QED
  BY <1>1, <1>2, <1>3, <1>4, <1>5, <1>6 DEF TabStep

LEMMA PanelWrites ==
    ASSUME TypeInv, NEW t \in Tabs, PanelStep(t)
    PROVE  /\ Held'
           /\ \/ Rewrites(t) /\ Others(t) /\ page'[t] # "closed"
              \/ Passes
<1>1. Held' /\ Others(t) /\ page' = page
  BY TurnHeld
<1>2. TypeOK
  BY DEF TypeInv
<1>3. page[t] = "here"
  BY DEF PanelStep, Edit, Pause, Reorder, Clear, Resume, Enqueue, Remove, Retry, Skip,
         Interrupt, Intervene, Edits
<1>4. CASE \E i \in Items : Interrupt(t, i)
  <2>1. UNCHANGED <<queue, stored, inbox, stale, posts, asked>>
    BY <1>4 DEF Interrupt
  <2> QED
    BY <1>1, <1>3, <2>1, OthersPass DEF Live
<1>5. CASE ~ \E i \in Items : Interrupt(t, i)
  <2>1. Rewrites(t)
    BY <1>2, <1>5, EnqueueWrites, EditWrites, ReorderWrites, RemoveWrites, ClearWrites,
       ResumeWrites, SkipWrites DEF PanelStep
  <2> QED
    BY <1>1, <1>3, <2>1
<1> QED
  BY <1>4, <1>5

LEMMA JobWritesStep ==
    ASSUME TypeInv, NEW t \in Tabs, JobStep(t)
    PROVE  /\ Held'
           /\ \/ Rewrites(t) /\ Others(t) /\ page'[t] # "closed"
              \/ Passes
<1>1. Held' /\ Others(t) /\ page' = page
  BY TurnHeld
<1>2. TypeOK /\ JobInv
  BY DEF TypeInv
<1>3. CASE TimerFires(t)
  <2>1. UNCHANGED <<queue, stored, inbox, stale, posts, asked>>
    BY <1>3 DEF TimerFires, histories
  <2>2. job' = job \/ queue[t].items # <<>>
    BY <1>3 DEF TimerFires, HeadIn
  <2> QED
    BY <1>1, <2>1, <2>2, OthersPass DEF Live
<1>4. CASE ~TimerFires(t)
  <2>1. job[t].pc # "none"
    BY <1>4 DEF JobStep, Stopped, BgTurn, ReadHistory, ReadStatus, StatusFails, StillRunning,
                RecoverAnswered, HandoffAnswered, SkipAnswered, SendAnswered, Answered,
                PostReplied, DrainEnds
  <2>2. job[t] # NoJob
    BY <2>1, IdleGood
  <2>3. page[t] # "closed" /\ Live(t)
    BY <2>2 DEF TypeInv, PageInv, Live
  <2>4. CASE BgTurn(t) \/ ReadHistory(t) \/ ReadStatus(t)
    <3>1. UNCHANGED <<queue, stored, inbox, stale, posts, asked>>
      BY <2>4 DEF BgTurn, ReadHistory, ReadStatus, histories
    <3> QED
      BY <1>1, <2>3, <3>1, OthersPass
  <2>5. CASE ~(BgTurn(t) \/ ReadHistory(t) \/ ReadStatus(t))
    <3>1. \/ Rewrites(t)
          \/ UNCHANGED <<queue, stored, inbox, stale, posts, asked>>
      BY <1>2, <1>4, <2>5, StoppedWrites, StatusFailsWrites, AnswerWrites,
         SendAnsweredWrites, ReplyWrites DEF JobStep
    <3> QED
      BY <1>1, <2>3, <3>1, OthersPass
  <2> QED
    BY <2>4, <2>5
<1> QED
  BY <1>3, <1>4

LEMMA StepWrites ==
    ASSUME TypeInv, [Next]_vars
    PROVE  /\ Held'
           /\ \/ \E t \in Tabs : Rewrites(t) /\ Others(t) /\ page'[t] # "closed"
              \/ \E t \in Tabs : Deliver(t) \/ Close(t)
              \/ Passes
<1>1. CASE UNCHANGED vars
  BY <1>1, HeldNow DEF vars, locks, backend, histories, Held, Passes, Live, PageTypes, LineInv,
                       JobInv, JobType
<1>2. CASE BackendStep
  <2>1. /\ Held' /\ page' = page /\ queue' = queue /\ stored' = stored
        /\ inbox' = inbox /\ stale' = stale /\ posts' = posts /\ asked' = asked
        /\ \A t \in Tabs : job'[t] = NoJob <=> job[t] = NoJob
    BY <1>2, BackendHeld
  <2> QED
    BY <2>1 DEF Passes, Live
<1> QED
  BY <1>1, <1>2, TabWrites, PanelWrites, JobWritesStep DEF Next

\* What a commit does to the lists.
LEMMA CommitLists ==
    ASSUME TypeOK, NEW t \in Tabs, NEW q \in QueueType, NEW msgs, Commit(t, q, msgs)
    PROVE  /\ queue'[t] = q
           /\ \A o \in Tabs \ {t} : queue'[o] = queue[o]
           /\ DOMAIN queue' = Tabs /\ queue' \in [Tabs -> QueueType]
           /\ msgs = <<>> => UNCHANGED <<stored, inbox, stale>>
           /\ msgs # <<>> =>
                  /\ stored' \in QueueType /\ stored'.items = q.items
                  /\ \A o \in Tabs : inbox'[o] = IF o = t \/ page[o] = "closed" THEN inbox[o]
                                                ELSE inbox[o] \o msgs
                  /\ DOMAIN inbox' = Tabs /\ inbox' = [o \in Tabs |-> inbox'[o]]
                  /\ stale' = IF inbox[t] = <<>> THEN stale
                              ELSE stale \cup Ids(q.items) \cup Ids(stored.items)
<1>1. queue \in [Tabs -> QueueType] /\ queue' = [queue EXCEPT ![t] = q]
  BY DEF TypeOK, ListTypes, Commit
<1>2. /\ queue'[t] = q /\ queue' \in [Tabs -> QueueType]
      /\ \A o \in Tabs \ {t} : queue'[o] = queue[o]
  BY <1>1
<1>3. CASE msgs = <<>>
  BY <1>2, <1>3 DEF Commit
<1>4. CASE msgs # <<>>
  <2>1. stored' = IF q.items = <<>> THEN Empty ELSE q
    BY <1>4 DEF Commit, WriteQueueToStorage
  <2>2. Empty \in QueueType /\ Empty.items = <<>>
    BY QueueOf DEF Empty, QueueType, RunStates
  <2>3. stored' \in QueueType /\ stored'.items = q.items
    BY <2>1, <2>2
  <2>4. inbox' = [o \in Tabs |-> IF o = t \/ page[o] = "closed" THEN inbox[o]
                                 ELSE inbox[o] \o msgs]
    BY <1>4 DEF Commit
  <2>5. /\ \A o \in Tabs : inbox'[o] = IF o = t \/ page[o] = "closed" THEN inbox[o]
                                       ELSE inbox[o] \o msgs
        /\ DOMAIN inbox' = Tabs /\ inbox' = [o \in Tabs |-> inbox'[o]]
    BY <2>4
  <2>6. stale' = IF inbox[t] = <<>> THEN stale
                 ELSE stale \cup Ids(q.items) \cup Ids(stored.items)
    BY <1>4 DEF Commit
  <2> QED
    BY <1>2, <1>4, <2>3, <2>5, <2>6
<1> QED
  BY <1>3, <1>4

\* The lists of the tabs and in storage.
ListInv ==
    /\ ListTypes
    /\ Ids(stored.items) \subseteq made
    /\ \A t \in Tabs : Ids(queue[t].items) \subseteq made
    /\ \A t \in Tabs : \A k \in DOMAIN inbox[t] :
           inbox[t][k].list => Ids(inbox[t][k].items) \subseteq made
    /\ \A t \in Tabs : page[t] = "closed" => queue[t] = Empty /\ inbox[t] = <<>>

\* A broadcast is one that was under way or a new one.
LEMMA Broadcast ==
    ASSUME NEW old \in Seq(Message), NEW msgs \in Seq(Message)
    PROVE  /\ old \o msgs \in Seq(Message)
           /\ Len(old \o msgs) = Len(old) + Len(msgs)
           /\ \A k \in DOMAIN (old \o msgs) :
                  \/ k \in DOMAIN old /\ (old \o msgs)[k] = old[k]
                  \/ /\ k - Len(old) \in DOMAIN msgs
                     /\ (old \o msgs)[k] = msgs[k - Len(old)]
           /\ \A k \in DOMAIN old : k \in DOMAIN (old \o msgs) /\ (old \o msgs)[k] = old[k]
           /\ \A k \in DOMAIN msgs : /\ k + Len(old) \in DOMAIN (old \o msgs)
                                     /\ (old \o msgs)[k + Len(old)] = msgs[k]
BY ConcatProperties

LEMMA WritesLists ==
    ASSUME TypeInv, Grows, NEW t \in Tabs, Rewrites(t), Others(t), page'[t] # "closed"
    PROVE  ListInv'
<1>1. PICK q, msgs, B : Writes(t, q, msgs, B)
  BY DEF Rewrites
<1>2. TypeOK /\ q \in QueueType /\ Commit(t, q, msgs) /\ msgs \in Seq(Message)
  BY <1>1 DEF Writes, Tells, TypeInv
<1>3. Ids(B) \subseteq made /\ made \subseteq made'
  BY <1>1 DEF Writes, Base, TypeInv, KnownInv, Grows
<1>4. Ids(q.items) \subseteq made'
  BY <1>1, <1>3 DEF Writes, Follows
<1>5. \A k \in DOMAIN msgs : msgs[k].list => Ids(msgs[k].items) \subseteq made'
  BY <1>1, <1>3, <1>4 DEF Writes, Tells
<1>6. /\ queue'[t] = q
      /\ \A o \in Tabs \ {t} : queue'[o] = queue[o]
      /\ DOMAIN queue' = Tabs /\ queue' \in [Tabs -> QueueType]
      /\ msgs = <<>> => UNCHANGED <<stored, inbox, stale>>
      /\ msgs # <<>> =>
             /\ stored' \in QueueType /\ stored'.items = q.items
             /\ \A o \in Tabs : inbox'[o] = IF o = t \/ page[o] = "closed" THEN inbox[o]
                                           ELSE inbox[o] \o msgs
             /\ DOMAIN inbox' = Tabs /\ inbox' = [o \in Tabs |-> inbox'[o]]
  BY <1>2, CommitLists
<1>7. inbox \in [Tabs -> Seq(Message)] /\ stored \in QueueType
  BY <1>2 DEF TypeOK, ListTypes
<1>8. Ids(stored'.items) \subseteq made'
  BY <1>3, <1>4, <1>6 DEF TypeInv, KnownInv
<1>9. \A o \in Tabs : Ids(queue'[o].items) \subseteq made'
  BY <1>3, <1>4, <1>6 DEF TypeInv, KnownInv
<1>10. ASSUME NEW o \in Tabs
       PROVE  /\ inbox'[o] \in Seq(Message)
              /\ \A k \in DOMAIN inbox'[o] :
                     inbox'[o][k].list => Ids(inbox'[o][k].items) \subseteq made'
  <2>1. /\ inbox[o] \in Seq(Message)
        /\ \A k \in DOMAIN inbox[o] : inbox[o][k].list => Ids(inbox[o][k].items) \subseteq made'
    BY <1>3, <1>7 DEF TypeInv, KnownInv
  <2>2. CASE inbox'[o] = inbox[o]
    BY <2>1, <2>2
  <2>3. CASE inbox'[o] = inbox[o] \o msgs
    BY <1>2, <1>5, <2>1, <2>3, Broadcast
  <2> QED
    BY <1>6, <2>2, <2>3
<1>11. inbox' \in [Tabs -> Seq(Message)]
  <2>1. inbox' = [o \in Tabs |-> inbox'[o]]
    BY <1>6, <1>7
  <2> QED
    BY <1>10, <2>1
<1>12. ASSUME NEW o \in Tabs, page'[o] = "closed"
       PROVE  queue'[o] = Empty /\ inbox'[o] = <<>>
  <2>1. o # t /\ page[o] = "closed"
    BY <1>12 DEF Others
  <2>2. queue[o] = Empty /\ inbox[o] = <<>>
    BY <2>1 DEF TypeInv, PageInv
  <2> QED
    BY <1>6, <2>1, <2>2
<1>13. stored' \in QueueType
  BY <1>6, <1>7
<1> QED
  BY <1>6, <1>8, <1>9, <1>10, <1>11, <1>12, <1>13 DEF ListInv, ListTypes

LEMMA DeliverLists ==
    ASSUME TypeInv, Grows, NEW t \in Tabs, Deliver(t) \/ Close(t)
    PROVE  ListInv'
<1>1. /\ stored' = stored /\ made \subseteq made'
      /\ queue \in [Tabs -> QueueType] /\ stored \in QueueType
      /\ inbox \in [Tabs -> Seq(Message)]
  BY DEF Deliver, Close, Grows, TypeInv, TypeOK, ListTypes
<1>2. Ids(stored'.items) \subseteq made'
  BY <1>1 DEF TypeInv, KnownInv
<1>3. CASE Deliver(t)
  <2> DEFINE m == Head(inbox[t])
             q == [items |-> IF m.list THEN m.items ELSE queue[t].items,
                   run |-> IF m.run = NoRun THEN queue[t].run ELSE m.run]
  <2>1. /\ inbox[t] # <<>> /\ inbox' = [inbox EXCEPT ![t] = Tail(@)]
        /\ queue' = [queue EXCEPT ![t] = q] /\ page' = page
    BY <1>3 DEF Deliver
  <2>2. /\ m = inbox[t][1] /\ 1 \in DOMAIN inbox[t] /\ m \in Message
        /\ Tail(inbox[t]) \in Seq(Message)
        /\ \A k \in DOMAIN Tail(inbox[t]) : /\ k + 1 \in DOMAIN inbox[t]
                                            /\ Tail(inbox[t])[k] = inbox[t][k + 1]
    BY <1>1, <2>1
  <2> HIDE DEF m
  <2>3. q \in QueueType /\ q.items = IF m.list THEN m.items ELSE queue[t].items
    BY <1>1, <2>2 DEF Message, QueueType
  <2>4. Ids(q.items) \subseteq made'
    BY <1>1, <2>2, <2>3 DEF TypeInv, KnownInv
  <2> HIDE DEF q
  <2>5. ListTypes'
    BY <1>1, <2>1, <2>2, <2>3 DEF ListTypes
  <2>6. \A o \in Tabs : Ids(queue'[o].items) \subseteq made'
    BY <1>1, <2>1, <2>4 DEF TypeInv, KnownInv
  <2>7. \A o \in Tabs : \A k \in DOMAIN inbox'[o] :
            inbox'[o][k].list => Ids(inbox'[o][k].items) \subseteq made'
    BY <1>1, <2>1, <2>2 DEF TypeInv, KnownInv
  <2>8. \A o \in Tabs : page'[o] = "closed" => queue'[o] = Empty /\ inbox'[o] = <<>>
    BY <1>1, <2>1 DEF TypeInv, PageInv
  <2> QED
    BY <1>2, <2>5, <2>6, <2>7, <2>8 DEF ListInv
<1>4. CASE Close(t)
  <2>1. /\ queue' = [queue EXCEPT ![t] = Empty] /\ inbox' = [inbox EXCEPT ![t] = <<>>]
        /\ page' = [page EXCEPT ![t] = "closed"]
    BY <1>4 DEF Close
  <2>2. Empty \in QueueType /\ Empty.items = <<>>
    BY QueueOf DEF Empty, QueueType, RunStates, TypeInv
  <2>3. ListTypes'
    BY <1>1, <2>1, <2>2 DEF ListTypes
  <2>4. \A o \in Tabs : Ids(queue'[o].items) \subseteq made'
    BY <1>1, <2>1, <2>2 DEF TypeInv, KnownInv, Ids
  <2>5. \A o \in Tabs : \A k \in DOMAIN inbox'[o] :
            inbox'[o][k].list => Ids(inbox'[o][k].items) \subseteq made'
    BY <1>1, <2>1 DEF TypeInv, KnownInv
  <2>6. \A o \in Tabs : page'[o] = "closed" => queue'[o] = Empty /\ inbox'[o] = <<>>
    BY <1>1, <2>1 DEF TypeInv, TypeOK, PageTypes, PageInv
  <2> QED
    BY <1>2, <2>3, <2>4, <2>5, <2>6 DEF ListInv
<1> QED
  BY <1>3, <1>4

LEMMA NextLists ==
    ASSUME TypeInv, [Next]_vars
    PROVE  ListInv'
<1>1. Grows
  BY NextGrows
<1>2. CASE Passes
  <2>1. ListTypes' /\ made \subseteq made'
    BY <1>1, <1>2 DEF Passes, TypeInv, TypeOK, ListTypes, Grows
  <2> QED
    BY <1>2, <2>1 DEF Passes, TypeInv, KnownInv, PageInv, ListInv
<1> QED
  BY <1>1, <1>2, StepWrites, WritesLists, DeliverLists

\* What is posted, run and remembered was queued.
SentInv ==
    /\ net \subseteq [id : made, n : Nat]
    /\ chat \in taken \cup {NoItem, Other}
    /\ posts \in [Items -> Nat]
    /\ HistoryTypes
    /\ \A i \in Items : posts[i] > 0 => i \in made

LEMMA SentNow ==
    ASSUME TypeInv
    PROVE  SentInv
BY DEF TypeInv, TypeOK, SenderTypes, KnownInv, SentInv

\* A message that is posted was ready in the list of its sender.
LEMMA PostedIsQueued ==
    ASSUME TypeInv, NEW t \in Tabs, taken' = taken, MaySend(job[t], Reconciled(t))
    PROVE  job[t].id \in Items /\ job[t].id \in made
<1>1. Reconciled(t) \in QueueType /\ Ids(Reconciled(t).items) \subseteq Ids(queue[t].items)
  BY ReconciledKept DEF TypeInv, Kept
<1>2. PICK k \in DOMAIN Reconciled(t).items : Reconciled(t).items[k].id = job[t].id
  BY DEF MaySend, Has
<1>3. Reconciled(t).items[k] \in Entry
  BY <1>1 DEF QueueType, Lists
<1>4. job[t].id \in Ids(Reconciled(t).items)
  BY <1>2 DEF Ids
<1> QED
  BY <1>1, <1>2, <1>3, <1>4, QueuedIsMade DEF Entry

LEMMA NextSent ==
    ASSUME TypeInv, [Next]_vars
    PROVE  SentInv'
<1>1. SentInv /\ Grows
  BY SentNow, NextGrows
<1>2. CASE UNCHANGED <<net, chat, posts, history, taken>> /\ (made' = made \/ made' \subseteq Items)
  BY <1>1, <1>2 DEF SentInv, HistoryTypes, Grows
<1>3. CASE UNCHANGED vars
  BY <1>2, <1>3 DEF vars, backend, histories
<1>4. ASSUME NEW t \in Tabs, TabStep(t)
      PROVE  SentInv'
  BY <1>2, <1>4 DEF TabStep, Open, Mount, Grant, Leave, Close, StartAllBackgroundQueues,
                    Deliver, histories, backend
<1>5. ASSUME NEW t \in Tabs, PanelStep(t)
      PROVE  SentInv'
  <2>1. UNCHANGED <<net, chat, posts, history, taken>>
    BY <1>5 DEF PanelStep, Edit, Pause, Reorder, Clear, Resume, Enqueue, Remove, Retry, Skip,
                Interrupt, Intervene, Edits, backend
  <2>2. made' = made \/ made' \subseteq Items
    <3>1. CASE \E i \in Items : Enqueue(t, i)
      BY <1>1, <3>1 DEF Enqueue, SentInv, HistoryTypes
    <3>2. CASE ~ \E i \in Items : Enqueue(t, i)
      BY <1>5, <3>2 DEF PanelStep, Edit, Pause, Reorder, Clear, Resume, Remove, Retry, Skip,
                        Interrupt, Intervene
    <3> QED
      BY <3>1, <3>2
  <2> QED
    BY <1>2, <2>1, <2>2
<1>6. ASSUME NEW t \in Tabs, JobStep(t)
      PROVE  SentInv'
  <2>1. UNCHANGED <<made, taken>>
    BY <1>6, JobGrows
  <2>2. CASE ~SendAnswered(t)
    <3>1. UNCHANGED <<net, chat, posts, history>>
      BY <1>6, <2>2 DEF JobStep, Stopped, TimerFires, BgTurn, ReadHistory, ReadStatus,
            StatusFails, StillRunning, RecoverAnswered, HandoffAnswered, SkipAnswered,
            PostReplied, DrainEnds, Answered, JobRest, backend, histories
    <3> QED
      BY <1>2, <2>1, <3>1
  <2>3. CASE SendAnswered(t)
    <3> DEFINE i == job[t].id
    <3>1. CASE UNCHANGED <<net, chat, history, posts>>
      BY <1>2, <2>1, <3>1
    <3>2. CASE /\ net' = net \cup {[id |-> i, n |-> posts[i] + 1]}
               /\ posts' = [posts EXCEPT ![i] = @ + 1]
               /\ UNCHANGED <<chat, history>>
               /\ MaySend(job[t], Reconciled(t))
      <4>1. i \in Items /\ i \in made
        BY <2>1, <3>2, PostedIsQueued
      <4> HIDE DEF i
      <4>2. posts[i] + 1 \in Nat
        BY <1>1, <4>1 DEF SentInv
      <4>3. net' \subseteq [id : made', n : Nat]
        BY <1>1, <2>1, <3>2, <4>1, <4>2 DEF SentInv
      <4>4. /\ posts' \in [Items -> Nat]
            /\ \A k \in Items : posts'[k] > 0 => k \in made'
        BY <1>1, <2>1, <3>2, <4>1, <4>2 DEF SentInv
      <4> QED
        BY <1>1, <2>1, <3>2, <4>3, <4>4 DEF SentInv, HistoryTypes
    <3> HIDE DEF i
    <3>3. \/ UNCHANGED <<net, chat, history, posts>>
          \/ /\ net' = net \cup {[id |-> i, n |-> posts[i] + 1]}
             /\ posts' = [posts EXCEPT ![i] = @ + 1]
             /\ UNCHANGED <<chat, history>>
             /\ MaySend(job[t], Reconciled(t))
      BY <2>3 DEF SendAnswered, Post, backend, i
    <3> QED
      BY <3>1, <3>2, <3>3
  <2> QED
    BY <2>2, <2>3
<1>7. CASE BackendStep
  <2>1. UNCHANGED <<made, posts>>
    BY <1>7 DEF BackendStep, PostArrives, PostLost, RunEnds, RunLost, OtherRun, BackendRest
  <2>2. ASSUME NEW p \in net, PostArrives(p) \/ PostLost(p)
        PROVE  SentInv'
    <3>1. /\ p.id \in made /\ net' = net \ {p} /\ history' = history
          /\ \/ chat' = p.id /\ taken' = taken \cup {p.id}
             \/ chat' = chat /\ taken' = taken
      BY <1>1, <2>2 DEF PostArrives, PostLost, SentInv
    <3> QED
      BY <1>1, <2>1, <3>1 DEF SentInv, HistoryTypes
  <2>3. CASE RunEnds
    <3>1. /\ history' = history \cup ({chat} \cap Items) /\ chat' = NoItem
          /\ net' = net /\ taken' = taken
      BY <2>3 DEF RunEnds
    <3>2. {chat} \cap Items \subseteq taken
      BY <1>1, DistinctNulls DEF SentInv
    <3> QED
      BY <1>1, <2>1, <3>1, <3>2 DEF SentInv, HistoryTypes
  <2>4. CASE RunLost \/ OtherRun
    <3>1. chat' \in {NoItem, Other} /\ UNCHANGED <<net, history, taken>>
      BY <2>4 DEF RunLost, OtherRun
    <3> QED
      BY <1>1, <2>1, <3>1 DEF SentInv, HistoryTypes
  <2> QED
    BY <1>7, <2>2, <2>3, <2>4 DEF BackendStep
<1> QED
  BY <1>3, <1>4, <1>5, <1>6, <1>7 DEF Next

LEMMA InitTypes == Init => TypeInv
<1> SUFFICES ASSUME Init PROVE TypeInv
  OBVIOUS
<1>1. <<>> \in Lists /\ Empty \in QueueType /\ Ids(<<>>) = {} /\ Empty.items = <<>>
  BY BoundsAreNaturals DEF Lists, Empty, QueueType, RunStates, Ids
<1>2. PageTypes /\ ListTypes /\ HistoryTypes
  BY <1>1 DEF Init, PageTypes, ListTypes, HistoryTypes
<1>3. NoJob \in JobType
  BY DEF Init, JobType, NoJob
<1>4. SenderTypes
  BY <1>3 DEF Init, SenderTypes
<1>5. TypeOK
  BY <1>2, <1>4, IdleGood DEF Init, TypeOK
<1>6. JobInv
  BY IdleGood DEF Init, JobInv, NoJob
<1>7. LineInv /\ PageInv /\ KnownInv
  BY <1>1 DEF Init, LineInv, PageInv, KnownInv
<1> QED
  BY <1>5, <1>6, <1>7 DEF TypeInv

LEMMA NextTypes == TypeInv /\ [Next]_vars => TypeInv'
<1> SUFFICES ASSUME TypeInv, [Next]_vars PROVE TypeInv'
  OBVIOUS
<1>1. Held' /\ ListInv' /\ SentInv'
  BY StepWrites, NextLists, NextSent
<1> QED
  BY <1>1 DEF Held, ListInv, SentInv, TypeInv, TypeOK, SenderTypes, PageInv, KnownInv

\* Every copy of the queue stays well-formed and within its limit, the
\* backend runs what was queued, and whoever sends owns the conversation.
THEOREM TypeCorrect == Spec => []TypeOK
<1>1. TypeInv => TypeOK
  BY DEF TypeInv
<1> QED
  BY InitTypes, NextTypes, <1>1, PTL DEF Spec

(***************************************************************************)
(* What a tab has or is still to be told is the stored list, unless it and *)
(* the stored list were written from a copy with undelivered news.         *)
(***************************************************************************)

InStep(items) == items = stored.items \/ Ids(items) \cup Ids(stored.items) \subseteq stale

\* The last list that is under way to t.
Newest(t, k) == inbox[t][k].list /\ \A j \in DOMAIN inbox[t] : j > k => ~inbox[t][j].list

Untold(t) == \A k \in DOMAIN inbox[t] : ~inbox[t][k].list

SyncInv ==
    \A t \in Tabs :
        /\ \A k \in DOMAIN inbox[t] : Newest(t, k) => InStep(inbox[t][k].items)
        /\ Live(t) /\ Untold(t) => InStep(queue[t].items)

\* A list that is written is made from the stored one, or from one that was
\* written from a copy with undelivered news, or is itself.
LEMMA BaseInStep ==
    ASSUME SyncInv, NEW t \in Tabs, NEW B, Base(t, B),
           stale \subseteq stale',
           inbox[t] # <<>> => Ids(B) \cup Ids(stored.items) \subseteq stale'
    PROVE  B = stored.items \/ Ids(B) \cup Ids(stored.items) \subseteq stale'
<1>1. CASE inbox[t] = <<>> /\ B = queue[t].items /\ Live(t)
  <2>1. Untold(t)
    BY <1>1 DEF Untold
  <2> QED
    BY <1>1, <2>1 DEF SyncInv, InStep
<1> QED
  BY <1>1 DEF Base

LEMMA WritesSync ==
    ASSUME TypeInv, SyncInv, NEW t \in Tabs, Rewrites(t), Others(t)
    PROVE  SyncInv'
<1>1. PICK q, msgs, B : Writes(t, q, msgs, B)
  BY DEF Rewrites
<1>2. TypeOK /\ q \in QueueType /\ Commit(t, q, msgs) /\ Base(t, B) /\ Tells(msgs, q, B)
      /\ msgs \in Seq(Message)
  BY <1>1 DEF Writes, Tells, TypeInv
<1>3. stale \subseteq stale'
  BY <1>2, CommitGrows
<1>4. /\ queue'[t] = q
      /\ \A o \in Tabs \ {t} : queue'[o] = queue[o]
      /\ msgs = <<>> => UNCHANGED <<stored, inbox, stale>>
      /\ msgs # <<>> =>
             /\ stored'.items = q.items
             /\ \A o \in Tabs : inbox'[o] = IF o = t \/ page[o] = "closed" THEN inbox[o]
                                           ELSE inbox[o] \o msgs
             /\ stale' = IF inbox[t] = <<>> THEN stale
                         ELSE stale \cup Ids(q.items) \cup Ids(stored.items)
  BY <1>2, CommitLists
<1>5. inbox \in [Tabs -> Seq(Message)]
  BY <1>2 DEF TypeOK, ListTypes
<1>6. \A o \in Tabs \ {t} : Live(o)' => Live(o)
  BY <1>4 DEF Others, Live
<1>7. CASE msgs = <<>>
  <2>1. q.items = B
    BY <1>2, <1>7 DEF Tells
  <2>2. ASSUME Untold(t) PROVE InStep(q.items)
    BY <1>2, <2>1, <2>2 DEF Base, SyncInv, InStep
  <2> QED
    BY <1>4, <1>6, <1>7, <2>2 DEF SyncInv, Newest, Untold, InStep
<1>8. CASE msgs # <<>>
  <2>1. /\ stored'.items = q.items
        /\ inbox[t] # <<>> => Ids(q.items) \cup Ids(stored.items) \subseteq stale'
    BY <1>4, <1>8
  <2>2. \/ \E k \in DOMAIN msgs : msgs[k].list
        \/ stored'.items = stored.items
        \/ Ids(stored'.items) \cup Ids(stored.items) \subseteq stale'
    <3>1. CASE q.items = B
      BY <1>2, <1>3, <2>1, <3>1, BaseInStep
    <3> QED
      BY <1>2, <3>1 DEF Tells
  <2>3. ASSUME NEW items, InStep(items),
               \/ inbox[t] # <<>> \/ \A k \in DOMAIN msgs : ~msgs[k].list
        PROVE  items = stored'.items \/ Ids(items) \cup Ids(stored'.items) \subseteq stale'
    BY <1>3, <2>1, <2>2, <2>3 DEF InStep
  <2>4. ASSUME NEW k \in DOMAIN inbox'[t], Newest(t, k)'
        PROVE  InStep(inbox[t][k].items)'
    <3>1. inbox'[t] = inbox[t]
      BY <1>4, <1>8
    <3>2. inbox[t] # <<>> /\ InStep(inbox[t][k].items)
      BY <1>5, <2>4, <3>1 DEF Newest, SyncInv
    <3> QED
      BY <2>3, <3>1, <3>2 DEF InStep
  <2>5. InStep(queue[t].items)'
    BY <1>4, <2>1 DEF InStep
  <2>6. ASSUME NEW o \in Tabs \ {t}, page[o] = "closed"
        PROVE  DOMAIN inbox'[o] = {} /\ ~Live(o)'
    <3>1. queue[o] = Empty /\ inbox[o] = <<>> /\ job[o] = NoJob
      BY <2>6 DEF TypeInv, PageInv
    <3> QED
      BY <1>4, <1>6, <1>8, <2>6, <3>1 DEF Live, Empty
  <2>7. ASSUME NEW o \in Tabs \ {t}, page[o] # "closed"
        PROVE  /\ inbox'[o] = inbox[o] \o msgs /\ inbox[o] \in Seq(Message)
               /\ Len(inbox[o]) \in Nat /\ DOMAIN inbox[o] = 1..Len(inbox[o])
               /\ Len(msgs) \in Nat /\ DOMAIN msgs = 1..Len(msgs)
    <3>1. inbox'[o] = inbox[o] \o msgs
      BY <1>4, <1>8, <2>7
    <3>2. inbox[o] \in Seq(Message)
      BY <1>5
    <3> QED
      BY <1>2, <3>1, <3>2
  <2>8. ASSUME NEW o \in Tabs \ {t}, page[o] # "closed",
               NEW k \in DOMAIN inbox'[o], Newest(o, k)'
        PROVE  InStep(inbox[o][k].items)'
    <3> DEFINE n == Len(inbox[o])
    <3>1. /\ inbox'[o] = inbox[o] \o msgs /\ inbox[o] \in Seq(Message)
          /\ n \in Nat /\ DOMAIN inbox[o] = 1..n
          /\ DOMAIN msgs = 1..Len(msgs)
      BY <2>7, <2>8
    <3>2. /\ \/ k \in DOMAIN inbox[o] /\ inbox'[o][k] = inbox[o][k]
             \/ k - n \in DOMAIN msgs /\ inbox'[o][k] = msgs[k - n]
          /\ \A j \in DOMAIN inbox[o] : j \in DOMAIN inbox'[o] /\ inbox'[o][j] = inbox[o][j]
          /\ \A j \in DOMAIN msgs : /\ j + n \in DOMAIN inbox'[o]
                                    /\ inbox'[o][j + n] = msgs[j]
      <4>0. inbox[o] \in Seq(Message) /\ msgs \in Seq(Message)
        BY <1>2, <3>1
      <4>3. /\ \A j \in DOMAIN inbox[o] : /\ j \in DOMAIN (inbox[o] \o msgs)
                                         /\ (inbox[o] \o msgs)[j] = inbox[o][j]
            /\ \A j \in DOMAIN msgs :
                  /\ j + Len(inbox[o]) \in DOMAIN (inbox[o] \o msgs)
                  /\ (inbox[o] \o msgs)[j + Len(inbox[o])] = msgs[j]
        BY <4>0, Broadcast
      <4>1. /\ \A j \in DOMAIN inbox[o] : j \in DOMAIN inbox'[o] /\ inbox'[o][j] = inbox[o][j]
            /\ \A j \in DOMAIN msgs : /\ j + n \in DOMAIN inbox'[o]
                                      /\ inbox'[o][j + n] = msgs[j]
        BY <3>1, <4>3
      <4>2. \/ k \in DOMAIN inbox[o] /\ inbox'[o][k] = inbox[o][k]
            \/ k - n \in DOMAIN msgs /\ inbox'[o][k] = msgs[k - n]
        BY <1>2, <2>8, <3>1, Broadcast
      <4> QED
        BY <4>1, <4>2
    <3>3. inbox'[o][k].list /\ \A j \in DOMAIN inbox'[o] : j > k => ~inbox'[o][j].list
      BY <2>8 DEF Newest
    <3> HIDE DEF n
    <3>4. CASE k \in DOMAIN inbox[o] /\ inbox'[o][k] = inbox[o][k]
      <4>1. Newest(o, k)
        BY <3>1, <3>2, <3>3, <3>4 DEF Newest
      <4>2. \A j \in DOMAIN msgs : ~msgs[j].list
        <5> SUFFICES ASSUME NEW j \in DOMAIN msgs PROVE ~msgs[j].list
          OBVIOUS
        <5>1. j + n > k
          BY <3>1, <3>4
        <5> QED
          BY <3>2, <3>3, <5>1
      <4> QED
        BY <2>3, <3>4, <4>1, <4>2 DEF SyncInv, InStep
    <3>5. CASE k - n \in DOMAIN msgs /\ inbox'[o][k] = msgs[k - n]
      <4>1. \A j \in DOMAIN msgs : j > k - n => ~msgs[j].list
        <5> SUFFICES ASSUME NEW j \in DOMAIN msgs, j > k - n PROVE ~msgs[j].list
          OBVIOUS
        <5>1. j + n > k
          <6>1. k \in Int
            BY <1>2, <2>8, <3>1, Broadcast
          <6> QED
            BY <3>1, <6>1
        <5> QED
          BY <3>2, <3>3, <5>1
      <4>2. msgs[k - n].items = q.items
        BY <1>2, <3>3, <3>5, <4>1 DEF Tells
      <4> QED
        BY <2>1, <3>5, <4>2 DEF InStep
    <3> QED
      BY <3>2, <3>4, <3>5
  <2>9. ASSUME NEW o \in Tabs \ {t}, page[o] # "closed", Live(o)', Untold(o)'
        PROVE  InStep(queue[o].items)'
    <3>6. /\ inbox'[o] = inbox[o] \o msgs /\ inbox[o] \in Seq(Message)
          /\ Len(inbox[o]) \in Nat
      BY <2>7, <2>9
    <3>1. \A j \in DOMAIN inbox[o] : j \in DOMAIN inbox'[o] /\ inbox'[o][j] = inbox[o][j]
      BY <1>2, <3>6, Broadcast
    <3>5. \A j \in DOMAIN msgs : /\ j + Len(inbox[o]) \in DOMAIN inbox'[o]
                                  /\ inbox'[o][j + Len(inbox[o])] = msgs[j]
      BY <1>2, <3>6, Broadcast
    <3>2. \A j \in DOMAIN msgs : \E k \in DOMAIN inbox'[o] : inbox'[o][k] = msgs[j]
      BY <3>5, Zenon
    <3>3. Untold(o) /\ \A j \in DOMAIN msgs : ~msgs[j].list
      BY <2>9, <3>1, <3>2 DEF Untold
    <3>4. InStep(queue[o].items)
      BY <1>6, <2>9, <3>3 DEF SyncInv
    <3> QED
      BY <1>4, <2>3, <3>3, <3>4 DEF InStep
  <2>10. ASSUME NEW o \in Tabs \ {t}
         PROVE  /\ \A k \in DOMAIN inbox'[o] : Newest(o, k)' => InStep(inbox[o][k].items)'
                /\ Live(o)' /\ Untold(o)' => InStep(queue[o].items)'
    BY <2>6, <2>8, <2>9
  <2> QED
    BY <2>4, <2>5, <2>10 DEF SyncInv, InStep
<1> QED
  BY <1>7, <1>8

LEMMA DeliverSync ==
    ASSUME TypeInv, SyncInv, NEW t \in Tabs, Deliver(t) \/ Close(t)
    PROVE  SyncInv'
<1>1. /\ queue \in [Tabs -> QueueType] /\ inbox \in [Tabs -> Seq(Message)]
      /\ page \in [Tabs -> {"closed", "away", "here"}] /\ job \in [Tabs -> JobType]
      /\ stored' = stored /\ stale' = stale
  BY DEF TypeInv, TypeOK, ListTypes, PageTypes, SenderTypes, Deliver, Close, histories
<1>2. ASSUME NEW o \in Tabs \ {t}
      PROVE  /\ queue'[o] = queue[o] /\ inbox'[o] = inbox[o]
             /\ Live(o)' <=> Live(o)
  <2>1. queue'[o] = queue[o] /\ inbox'[o] = inbox[o] /\ page'[o] = page[o]
        /\ job'[o] = job[o]
    BY <1>1 DEF Deliver, Close, Become
  <2> QED
    BY <2>1 DEF Live
<1>3. ASSUME NEW o \in Tabs \ {t}
      PROVE  /\ \A k \in DOMAIN inbox'[o] : Newest(o, k)' => InStep(inbox[o][k].items)'
             /\ Live(o)' /\ Untold(o)' => InStep(queue[o].items)'
  <2>1. /\ queue'[o] = queue[o] /\ inbox'[o] = inbox[o]
        /\ Live(o)' <=> Live(o)
    BY <1>2
  <2>2. \A items : InStep(items) => items = stored'.items \/ Ids(items) \cup Ids(stored'.items) \subseteq stale'
    BY <1>1 DEF InStep
  <2>3. ASSUME NEW k \in DOMAIN inbox'[o], Newest(o, k)'
        PROVE  InStep(inbox[o][k].items)'
    <3>1. k \in DOMAIN inbox[o] /\ Newest(o, k)
      BY <2>1, <2>3 DEF Newest
    <3>2. InStep(inbox[o][k].items)
      BY <3>1 DEF SyncInv
    <3> QED
      BY <2>1, <2>2, <3>2 DEF InStep
  <2>4. ASSUME Live(o)', Untold(o)'
        PROVE  InStep(queue[o].items)'
    <3>1. Live(o) /\ Untold(o)
      BY <2>1, <2>4 DEF Untold
    <3>2. InStep(queue[o].items)
      BY <3>1 DEF SyncInv
    <3> QED
      BY <2>1, <2>2, <3>2 DEF InStep
  <2> QED
    BY <2>3, <2>4
<1>4. CASE Deliver(t)
  <2> DEFINE m == Head(inbox[t])
             q == [items |-> IF m.list THEN m.items ELSE queue[t].items,
                   run |-> IF m.run = NoRun THEN queue[t].run ELSE m.run]
  <2>1. /\ inbox[t] # <<>> /\ inbox'[t] = Tail(inbox[t]) /\ queue'[t] = q
        /\ page' = page /\ job' = job
    BY <1>1, <1>4 DEF Deliver
  <2>2. /\ Len(inbox[t]) \in Nat /\ DOMAIN inbox[t] = 1..Len(inbox[t])
        /\ 1 \in DOMAIN inbox[t] /\ m = inbox[t][1] /\ m \in Message
        /\ DOMAIN inbox'[t] = 1..Len(inbox[t]) - 1
        /\ \A k \in DOMAIN inbox'[t] : /\ k + 1 \in DOMAIN inbox[t]
                                       /\ inbox'[t][k] = inbox[t][k + 1]
        /\ \A k \in DOMAIN inbox[t] : k = 1 \/ k - 1 \in DOMAIN inbox'[t]
    BY <1>1, <2>1
  <2>0. \A k \in DOMAIN inbox[t] : k > 1 => /\ k - 1 \in DOMAIN inbox'[t]
                                            /\ inbox'[t][k - 1] = inbox[t][k]
    <3>1. \A k \in 1..Len(inbox[t]) : k > 1 => /\ k - 1 \in 1..Len(inbox[t]) - 1
                                               /\ (k - 1) + 1 = k
      BY <2>2
    <3> QED
      BY <2>2, <3>1
  <2>3. q.items = IF m.list THEN m.items ELSE queue[t].items
    OBVIOUS
  <2> HIDE DEF m, q
  <2>4. ASSUME NEW k \in DOMAIN inbox'[t], Newest(t, k)'
        PROVE  InStep(inbox[t][k].items)'
    <3>1. inbox[t][k + 1].list
      BY <2>2, <2>4 DEF Newest
    <3>2. ASSUME NEW j \in DOMAIN inbox[t], j > k + 1
          PROVE  ~inbox[t][j].list
      <4>1. j - 1 \in DOMAIN inbox'[t] /\ j - 1 > k /\ inbox'[t][j - 1] = inbox[t][j]
        BY <2>2, <2>4, <3>2
      <4> QED
        BY <2>4, <4>1 DEF Newest
    <3>3. InStep(inbox[t][k + 1].items)
      BY <2>2, <3>1, <3>2 DEF Newest, SyncInv
    <3> QED
      BY <1>1, <2>2, <3>3 DEF InStep
  <2>5. ASSUME Live(t)', Untold(t)'
        PROVE  InStep(queue[t].items)'
    <3>1. \A j \in DOMAIN inbox[t] : j > 1 => ~inbox[t][j].list
      <4> SUFFICES ASSUME NEW j \in DOMAIN inbox[t], j > 1 PROVE ~inbox[t][j].list
        OBVIOUS
      <4>1. j - 1 \in DOMAIN inbox'[t] /\ inbox'[t][j - 1] = inbox[t][j]
        BY <2>0
      <4> QED
        BY <2>5, <4>1 DEF Untold
    <3>2. CASE m.list
      <4>1. InStep(m.items)
        BY <2>2, <3>1, <3>2 DEF Newest, SyncInv
      <4> QED
        BY <1>1, <2>1, <2>3, <3>2, <4>1 DEF InStep
    <3>3. CASE ~m.list
      <4>1. Untold(t)
        <5> SUFFICES ASSUME NEW j \in DOMAIN inbox[t] PROVE ~inbox[t][j].list
          BY DEF Untold
        <5>1. j = 1 \/ j > 1
          BY <2>2
        <5> QED
          BY <2>2, <3>1, <3>3, <5>1
      <4>2. Live(t)
        BY <2>1, <2>3, <2>5, <3>3 DEF Live
      <4>3. InStep(queue[t].items)
        BY <4>1, <4>2 DEF SyncInv
      <4> QED
        BY <1>1, <2>1, <2>3, <3>3, <4>3 DEF InStep
    <3> QED
      BY <3>2, <3>3
  <2> QED
    BY <1>3, <2>4, <2>5 DEF SyncInv
<1>5. CASE Close(t)
  <2>1. queue'[t] = Empty /\ inbox'[t] = <<>> /\ page'[t] = "closed" /\ job'[t] = NoJob
    BY <1>1, <1>5 DEF Close, Become
  <2>2. ~Live(t)' /\ DOMAIN inbox'[t] = {}
    BY <2>1 DEF Live, Empty
  <2> QED
    BY <1>3, <2>2 DEF SyncInv
<1> QED
  BY <1>4, <1>5

LEMMA NextSync ==
    ASSUME TypeInv, SyncInv, [Next]_vars
    PROVE  SyncInv'
<1>1. CASE Passes
  BY <1>1 DEF Passes, SyncInv, InStep, Newest, Untold
<1> QED
  BY <1>1, StepWrites, WritesSync, DeliverSync

(***************************************************************************)
(* How a message can be lost.                                              *)
(***************************************************************************)

\* A message that is queued is in the list that is written.
LEMMA NewIsStored ==
    ASSUME TypeInv, [Next]_vars
    PROVE  /\ made' = made \/ posts' = posts
           /\ made' \ made \subseteq Ids(stored'.items)
<1>1. ASSUME NEW t \in Tabs, NEW i \in Items, Enqueue(t, i)
      PROVE  posts' = posts /\ made' \ made \subseteq Ids(stored'.items)
  <2> DEFINE B == queue[t].items
             e == [id |-> i, st |-> "pending", tries |-> 0]
             A == Append(B, e)
             q == [queue[t] EXCEPT !.items = Append(@, e)]
  <2>1. /\ made' = made \cup {i} /\ posts' = posts
        /\ Commit(t, q, <<ListOf(q)>>)
    BY <1>1 DEF Enqueue, Edits
  <2>2. queue[t] \in QueueType /\ B \in Seq(Entry)
    BY QueueOf DEF TypeInv, Lists
  <2>3. q.items = A
    BY <2>2 DEF QueueType
  <2>4. Len(B) + 1 \in DOMAIN A /\ A[Len(B) + 1].id = i
    BY <2>2
  <2> HIDE DEF q, A
  <2>5. stored' = IF q.items = <<>> THEN Empty ELSE q
    BY <2>1 DEF Commit, WriteQueueToStorage
  <2>6. stored'.items = A
    BY <2>3, <2>5 DEF Empty
  <2> QED
    BY <2>1, <2>4, <2>6 DEF Ids
<1>2. CASE \E t \in Tabs, i \in Items : Enqueue(t, i)
  BY <1>1, <1>2
<1>3. CASE ~ \E t \in Tabs, i \in Items : Enqueue(t, i)
  <2>1. made' = made
    <3>1. ASSUME NEW t \in Tabs, PanelStep(t)
          PROVE  made' = made
      BY <1>3, <3>1 DEF PanelStep, Edit, Pause, Reorder, Clear, Resume, Remove, Retry, Skip,
                        Interrupt, Intervene
    <3>2. CASE UNCHANGED vars
      BY <3>2 DEF vars, histories
    <3> QED
      BY <3>1, <3>2, TabGrows, JobGrows, BackendGrows DEF Next
  <2> QED
    BY <2>1
<1> QED
  BY <1>2, <1>3

LEMMA WriteLoses ==
    ASSUME TypeInv, SyncInv, [Next]_vars, NEW t \in Tabs, Rewrites(t),
           NEW i \in Ids(stored.items) \ Ids(stored'.items), i \notin taken' \cup dropped'
    PROVE  i \in stale' /\ WrittenBy(t) /\ i \notin Ids(queue[t].items)
<1>1. PICK q, msgs, B : Writes(t, q, msgs, B)
  BY DEF Rewrites
<1>2. /\ TypeOK /\ q \in QueueType /\ Commit(t, q, msgs) /\ Base(t, B)
      /\ Ids(B) \ Ids(q.items) \subseteq taken' \cup dropped'
      /\ msgs \in Seq(Message)
  BY <1>1 DEF Writes, Follows, Tells, TypeInv
<1>3. msgs # <<>>
  BY <1>2 DEF Commit
<1>4. /\ queue'[t] = q /\ stored'.items = q.items
      /\ \A o \in Tabs \ {t} : page[o] # "closed" => inbox'[o] = inbox[o] \o msgs
      /\ inbox[t] # <<>> => Ids(stored.items) \subseteq stale'
  <2>1. /\ queue'[t] = q /\ stored'.items = q.items
        /\ \A o \in Tabs : inbox'[o] = IF o = t \/ page[o] = "closed" THEN inbox[o]
                                        ELSE inbox[o] \o msgs
        /\ stale' = IF inbox[t] = <<>> THEN stale
                    ELSE stale \cup Ids(q.items) \cup Ids(stored.items)
    BY <1>2, <1>3, CommitLists
  <2> QED
    BY <2>1, Zenon
<1>5. i \notin Ids(B) /\ B # stored.items
  BY <1>2, <1>4
<1>6. B = queue[t].items
  BY <1>2, <1>5 DEF Base
<1>7. i \in stale'
  <2>1. CASE inbox[t] = <<>>
    BY <1>2, <1>5, <2>1, BaseInStep, NextGrows DEF Grows
  <2> QED
    BY <1>4, <2>1
<1>8. WrittenBy(t)
  <2>1. ASSUME NEW o \in Tabs \ {t}, page[o] # "closed"
        PROVE  inbox'[o] # inbox[o]
    <3>1. inbox[o] \in Seq(Message)
      BY <1>2 DEF TypeOK, ListTypes
    <3>2. Len(msgs) \in Nat \ {0} /\ Len(inbox[o]) \in Nat
      BY <1>2, <1>3, <3>1
    <3>3. Len(inbox[o] \o msgs) = Len(inbox[o]) + Len(msgs)
      BY <1>2, <3>1, Broadcast
    <3>4. inbox'[o] = inbox[o] \o msgs
      BY <1>4, <2>1
    <3> QED
      BY <3>2, <3>3, <3>4
  <2> QED
    BY <1>4, <2>1 DEF WrittenBy
<1> QED
  BY <1>5, <1>6, <1>7, <1>8

LEMMA NextLoses ==
    ASSUME TypeInv, SyncInv, [Next]_vars,
           NEW i \in (Ids(stored.items) \cup (made' \ made)) \ Ids(stored'.items)
    PROVE  \/ i \in taken' \cup dropped'
           \/ /\ i \in stale'
              /\ \E t \in Tabs : WrittenBy(t) /\ i \notin Ids(queue[t].items)
<1>1. i \in Ids(stored.items) \ Ids(stored'.items)
  BY NewIsStored
<1>2. PICK t \in Tabs : Rewrites(t)
  <2>1. stored' # stored
    BY <1>1
  <2> QED
    BY <2>1, StepWrites DEF Deliver, Close, Passes
<1> QED
  BY <1>1, <1>2, WriteLoses

\* Only a race of two tabs can lose a message: one that leaves the stored
\* queue was started, was taken off by the user, or was overwritten by a tab
\* without it, after a write from a copy with broadcasts to come.
THEOREM LossIsAnOverwrite == Spec => LostOnlyIfOverwritten
<1>1. Init => SyncInv
  BY DEF Init, SyncInv, Newest, Untold, InStep, Empty
<1>2. TypeInv /\ SyncInv /\ [Next]_vars => SyncInv'
  BY NextSync
<1>3. TypeInv /\ SyncInv /\ [Next]_vars =>
          [\A i \in (Ids(stored.items) \cup (made' \ made)) \ Ids(stored'.items) :
              \/ i \in taken' \cup dropped'
              \/ /\ i \in stale'
                 /\ \E t \in Tabs : WrittenBy(t) /\ i \notin Ids(queue[t].items)]_vars
  BY NextLoses
<1> QED
  BY InitTypes, NextTypes, <1>1, <1>2, <1>3, PTL DEF Spec, LostOnlyIfOverwritten

(***************************************************************************)
(* No message is posted again behind the user's back.                      *)
(***************************************************************************)

\* What may be sent in the stored queue was never posted, unless somebody
\* asked for it or a tab wrote it from a copy with undelivered news.
UnsentInv ==
    \A k \in DOMAIN stored.items :
        stored.items[k].st = "pending" /\ posts[stored.items[k].id] > 0
            => stored.items[k].id \in asked \cup stale

\* The same holds of the list a write is made from.
LEMMA BaseUnsent ==
    ASSUME SyncInv, UnsentInv, NEW t \in Tabs, NEW B, Base(t, B), stale \subseteq stale',
           inbox[t] = <<>>,
           NEW k \in DOMAIN B, B[k].st = "pending", posts[B[k].id] > 0
    PROVE  B[k].id \in asked \cup stale'
<1>1. B = stored.items \/ Ids(B) \cup Ids(stored.items) \subseteq stale'
  BY BaseInStep
<1> QED
  BY <1>1 DEF UnsentInv, Ids

LEMMA WritesUnsent ==
    ASSUME TypeInv, SyncInv, UnsentInv, [Next]_vars, NEW t \in Tabs, Rewrites(t)
    PROVE  UnsentInv'
<1>1. PICK q, msgs, B : Writes(t, q, msgs, B)
  BY DEF Rewrites
<1>2. TypeOK /\ q \in QueueType /\ Commit(t, q, msgs) /\ Base(t, B)
      /\ PendingKept(B, q.items)
  BY <1>1 DEF Writes, Follows, TypeInv
<1>3. stale \subseteq stale'
  BY <1>2, CommitGrows
<1>4. CASE msgs = <<>>
  <2>1. UNCHANGED <<stored, stale, posts>> /\ asked \subseteq asked'
    BY <1>1, <1>2, <1>4 DEF Writes, Commit
  <2> QED
    BY <2>1 DEF UnsentInv
<1>5. CASE msgs # <<>>
  <2>1. /\ stored'.items = q.items
        /\ inbox[t] # <<>> => Ids(q.items) \subseteq stale'
    BY <1>2, <1>5, CommitLists
  <2>2. ASSUME NEW k \in DOMAIN q.items, q.items[k].st = "pending",
               posts'[q.items[k].id] > 0
        PROVE  q.items[k].id \in asked' \cup stale'
    <3> DEFINE i == q.items[k].id
    <3>1. q.items[k] \in Entry
      BY <1>2 DEF QueueType, Lists
    <3>2. i \in Items /\ i \in Ids(q.items)
      BY <3>1 DEF Entry, Ids
    <3>3. CASE inbox[t] # <<>>
      BY <2>1, <3>2, <3>3
    <3>4. CASE i \in made' \ made
      <4>1. posts'[i] = posts[i] /\ posts[i] \in Nat
        BY <3>2, <3>4, NewIsStored DEF TypeInv, TypeOK, SenderTypes
      <4>2. posts[i] > 0
        BY <2>2, <4>1
      <4> QED
        BY <3>2, <3>4, <4>2 DEF TypeInv, KnownInv
    <3>5. ASSUME inbox[t] = <<>>, i \notin asked', i \notin made' \ made
          PROVE  i \in asked' \cup stale'
      <4>1. /\ i \notin asked \ asked' /\ posts'[i] = posts[i]
            /\ \E j \in DOMAIN B : B[j] = q.items[k]
        BY <1>2, <2>2, <3>5 DEF PendingKept
      <4>2. i \in asked \cup stale'
        BY <1>2, <1>3, <2>2, <3>5, <4>1, BaseUnsent
      <4> QED
        BY <4>1, <4>2
    <3> QED
      BY <3>3, <3>4, <3>5
  <2> QED
    BY <2>1, <2>2 DEF UnsentInv
<1> QED
  BY <1>4, <1>5

LEMMA NextUnsent ==
    ASSUME TypeInv, SyncInv, UnsentInv, [Next]_vars
    PROVE  UnsentInv'
<1>1. CASE Passes
  BY <1>1 DEF Passes, UnsentInv
<1>2. ASSUME NEW t \in Tabs, Deliver(t) \/ Close(t)
      PROVE  UnsentInv'
  BY <1>2 DEF Deliver, Close, histories, UnsentInv
<1> QED
  BY <1>1, <1>2, StepWrites, WritesUnsent

\* A step that posts is the one of a sender whose message may be sent.
LEMMA PostIsSend ==
    ASSUME TypeInv, [Next]_vars, posts' # posts
    PROVE  \E t \in Tabs : /\ SendAnswered(t)
                           /\ MaySend(job[t], Reconciled(t))
                           /\ Post(t, Reconciled(t), News(t))
<1>1. PICK t \in Tabs : JobStep(t)
  BY PanelGrows DEF Next, vars, histories, TabStep, Open, Mount, Grant, Leave, Close,
     StartAllBackgroundQueues, Deliver, BackendStep, PostArrives, PostLost, RunEnds, RunLost,
     OtherRun, BackendRest
<1>2. SendAnswered(t)
  BY <1>1 DEF JobStep, Stopped, TimerFires, BgTurn, ReadHistory, ReadStatus,
     StatusFails, StillRunning, RecoverAnswered, HandoffAnswered, SkipAnswered,
     PostReplied, DrainEnds, histories
<1>3. \/ MaySend(job[t], Reconciled(t)) /\ Post(t, Reconciled(t), News(t))
      \/ posts' = posts
  BY <1>2, Zenon DEF SendAnswered
<1> QED
  BY <1>2, <1>3

\* What a sender posts is in its list as a message that may be sent, and in
\* the list it writes.
LEMMA PostedFrom ==
    ASSUME TypeInv, NEW t \in Tabs, job[t].pc = "answered", taken' = taken,
           MaySend(job[t], Reconciled(t)), Post(t, Reconciled(t), News(t))
    PROVE  /\ \E k \in DOMAIN queue[t].items : /\ queue[t].items[k].id = job[t].id
                                               /\ queue[t].items[k].st = "pending"
           /\ inbox[t] # <<>> => job[t].id \in stale'
           /\ Live(t)
<1> DEFINE i == job[t].id
           q == Reconciled(t)
           q1 == SetItemStatus(q, i, "sending")
           msgs == News(t) \o <<BothOf(q1)>>
<1>1. TypeOK /\ q \in QueueType /\ StillPending(queue[t].items, q.items)
  BY ReconciledKept DEF TypeInv
<1>2. PICK k \in DOMAIN q.items : q.items[k].id = i /\ q.items[k].st = "pending"
  BY DEF MaySend, Has
<1>3. \E j \in DOMAIN queue[t].items : queue[t].items[j] = q.items[k]
  BY <1>1, <1>2 DEF StillPending
<1>4. q1 \in QueueType /\ Marked(q1.items, q.items, i, "sending")
  BY <1>1, StatusMarks DEF Statuses
<1>5. i \in Ids(q1.items)
  BY <1>2, <1>4 DEF Marked, Ids
<1>6. Commit(t, q1, msgs) /\ msgs # <<>>
  <2>1. News(t) = <<>> \/ News(t) = <<BothOf(q)>>
    BY ReconciledKept DEF TypeInv
  <2>2. msgs = <<BothOf(q1)>> \/ msgs = <<BothOf(q), BothOf(q1)>>
    BY <2>1, Singles
  <2> QED
    BY <2>2 DEF Post, JobWrites
<1> HIDE DEF q1, msgs
<1>7. inbox[t] # <<>> => i \in stale'
  BY <1>1, <1>4, <1>5, <1>6, CommitLists
<1>8. Live(t)
  BY IdleGood DEF Live
<1> QED
  BY <1>2, <1>3, <1>7, <1>8

LEMMA ResendIsAsked ==
    ASSUME TypeInv, SyncInv, UnsentInv, [Next]_vars,
           NEW i \in Items, posts'[i] > posts[i], posts[i] > 0
    PROVE  i \in asked \cup stale'
<1>1. posts' # posts
  BY DEF TypeInv, TypeOK, SenderTypes
<1>2. PICK t \in Tabs : /\ SendAnswered(t)
                        /\ MaySend(job[t], Reconciled(t))
                        /\ Post(t, Reconciled(t), News(t))
  BY <1>1, PostIsSend
<1>3. i = job[t].id
  BY <1>2 DEF Post, TypeInv, TypeOK, SenderTypes
<1>4. job[t].pc = "answered" /\ taken' = taken
  BY <1>2 DEF SendAnswered
<1>5. PICK k \in DOMAIN queue[t].items : /\ queue[t].items[k].id = job[t].id
                                         /\ queue[t].items[k].st = "pending"
  BY <1>2, <1>4, PostedFrom
<1>6. (inbox[t] # <<>> => i \in stale') /\ Live(t)
  BY <1>2, <1>3, <1>4, PostedFrom
<1>7. Base(t, queue[t].items) /\ stale \subseteq stale'
  BY <1>6, NextGrows DEF Base, Grows
<1> QED
  BY <1>3, <1>5, <1>6, <1>7, BaseUnsent

\* A message is posted again only after somebody asked for it, whatever
\* aborted the sender that had posted it.
THEOREM NoSilentResends == Spec => NoSilentResend
<1>1. Init => SyncInv /\ UnsentInv
  BY DEF Init, SyncInv, UnsentInv, Newest, Untold, InStep, Empty
<1>2. TypeInv /\ SyncInv /\ [Next]_vars => SyncInv'
  BY NextSync
<1>3. TypeInv /\ SyncInv /\ UnsentInv /\ [Next]_vars => UnsentInv'
  BY NextUnsent
<1>4. TypeInv /\ SyncInv /\ UnsentInv /\ [Next]_vars
          => [\A i \in Items : posts'[i] > posts[i] /\ posts[i] > 0
                                   => i \in asked \cup stale']_vars
  BY ResendIsAsked
<1> QED
  BY InitTypes, NextTypes, <1>1, <1>2, <1>3, <1>4, PTL DEF Spec, NoSilentResend

(***************************************************************************)
(* Turns do not pile up.                                                   *)
(***************************************************************************)

\* A sender that finds out what to do; it posts its message if nothing is
\* wrong (on the page: Sending), goes on after a skip, or recovers the head.
Deciding(t) == job[t].pc \in {"asking", "read", "answered"}
Sending(t) == /\ Deciding(t) /\ job[t].role = "fg"
              /\ job[t].mode \in {"send", "refresh"}
Recovering(t) == Deciding(t) /\ job[t].role = "fg" /\ job[t].mode = "recover"

\* A sender that may post on top of whatever is under way.
Bold(t) == \/ Sending(t)
           \/ Deciding(t) /\ job[t].mode = "skip"
           \/ job[t].pc = "stopping"

\* The sender of t is what it was, or has less to say.
Continues(t) ==
    /\ Bold(t)' => Bold(t)
    /\ Sending(t)' => \/ Sending(t) /\ job'[t].id = job[t].id
                      \/ job'[t].id \in waived'
    /\ Recovering(t)' => Recovering(t)

\* The user has used a control.
Told(t) ==
    /\ InFlight \subseteq waived'
    /\ ~Recovering(t)'
    /\ Sending(t)' => \/ job'[t].id \in waived'
                      \/ /\ stored'.items # <<>>
                         /\ stored'.items[1].id = job'[t].id

\* The timer has started a sender for the head.
Timed(t) ==
    /\ UNCHANGED <<queue, stored, inbox, waived, stale, net>>
    /\ inbox[t] = <<>> /\ queue[t].items # <<>>
    /\ job'[t].id = queue[t].items[1].id
    /\ IF queue[t].items[1].st = "sending" THEN ~Bold(t)'
       ELSE ~Recovering(t)' /\ queue[t].items[1].st = "pending"

\* The sender has gone on to the head of what it has written.
GoneOn(t) ==
    /\ ~Recovering(t)'
    /\ inbox[t] # <<>> => job'[t].id \in waived'
    /\ \E q, msgs :
           /\ Commit(t, q, msgs) /\ q \in QueueType
           /\ msgs = <<>> => q.items = queue[t].items
           /\ q.items # <<>> /\ job'[t].id = q.items[1].id
           /\ \/ Bold(t)
              \/ /\ Recovering(t)
                 /\ FrontKept(queue[t].items, q.items)
                 /\ q.items[1].st = "pending"

Decides(t) == Continues(t) \/ Told(t) \/ Timed(t) \/ GoneOn(t)

LEMMA SenderOf ==
    ASSUME TypeInv, NEW t \in Tabs, NEW o \in Tabs
    PROVE  /\ \A j : Become(o, j) => job'[t] = IF t = o THEN j ELSE job[t]
           /\ job'[t] = job[t] => Continues(t)
           /\ job'[t].pc \in {"none", "slot", "posting", "draining"} => Continues(t)
<1>1. job \in [Tabs -> JobType]
  BY DEF TypeInv, TypeOK, SenderTypes
<1>2. \A j : Become(o, j) => job'[t] = IF t = o THEN j ELSE job[t]
  BY <1>1 DEF Become
<1>3. job'[t] = job[t] => Continues(t)
  BY DEF Continues, Bold, Sending, Recovering, Deciding
<1>4. job'[t].pc \in {"none", "slot", "posting", "draining"} => Continues(t)
  BY DEF Continues, Bold, Sending, Recovering, Deciding
<1> QED
  BY <1>2, <1>3, <1>4

LEMMA TabDecides ==
    ASSUME TypeInv, NEW t \in Tabs, NEW o \in Tabs, TabStep(o)
    PROVE  Decides(t)
<1>1. \/ UNCHANGED job
      \/ \E j \in {NoJob, Slot, Asking("fg", "handoff", NoItem, FALSE)} : Become(o, j)
  BY DEF TabStep, Open, Mount, Grant, Leave, Close, StartAllBackgroundQueues, Deliver
<1>2. CASE job'[t] = job[t] \/ job'[t] \in {NoJob, Slot}
  BY <1>2, SenderOf, IdleGood DEF Decides
<1>3. CASE job'[t] = Asking("fg", "handoff", NoItem, FALSE)
  <2>1. job'[t].mode = "handoff" /\ job'[t].pc = "asking"
    BY <1>3 DEF Asking, NoJob
  <2>2. Continues(t)
    BY <2>1 DEF Continues, Bold, Sending, Recovering, Deciding
  <2> QED
    BY <2>2 DEF Decides
<1> QED
  BY <1>1, <1>2, <1>3, SenderOf

LEMMA BackendDecides ==
    ASSUME TypeInv, NEW t \in Tabs, BackendStep
    PROVE  Decides(t)
<1>1. \/ UNCHANGED job
      \/ \E p \in net : Replied(p, "ok") \/ Replied(p, "bad")
  BY DEF BackendStep, PostArrives, PostLost, RunEnds, RunLost, OtherRun
<1>2. ASSUME NEW p, NEW r, Replied(p, r)
      PROVE  job'[t] = job[t] \/ job'[t].pc = "posting"
  BY <1>2 DEF Replied, TypeInv, TypeOK, SenderTypes, JobType
<1> QED
  BY <1>1, <1>2, SenderOf DEF Decides

LEMMA PanelDecides ==
    ASSUME TypeInv, NEW t \in Tabs, NEW o \in Tabs, PanelStep(o)
    PROVE  Decides(t)
<1>1. CASE job'[t] = job[t]
  BY <1>1, SenderOf DEF Decides
<1>2. CASE /\ InFlight \subseteq waived' /\ job'[t].pc \in {"asking", "stopping"}
           /\ \/ job'[t].mode = "skip"
              \/ /\ job'[t].mode = "send"
                 /\ \/ job'[t].id \in waived'
                    \/ stored'.items # <<>> /\ stored'.items[1].id = job'[t].id
  BY <1>2 DEF Decides, Told, Recovering, Sending
<1>3. CASE \/ Edit(o) \/ Pause(o) \/ Reorder(o) \/ Clear(o)
           \/ \E i \in Items : Enqueue(o, i) \/ Remove(o, i)
  BY <1>1, <1>3 DEF Edit, Pause, Reorder, Clear, Enqueue, Remove
<1>4. ASSUME NEW q, NEW msgs, NEW again, NEW gone, Intervene(o, q, msgs, again, gone)
      PROVE  InFlight \subseteq waived' /\ again \subseteq waived' /\ Commit(o, q, msgs)
  BY <1>4 DEF Intervene, Edits, UnderWay
<1>5. CASE Resume(o)
  <2> DEFINE i == Head(queue[o].items).id
             failed == HeadIn(queue[o], {"failed"})
             q1 == IF failed THEN SetItemStatus(queue[o], i, "pending") ELSE queue[o]
             q == [q1 EXCEPT !.run = "idle"]
             msgs == (IF failed THEN <<BothOf(q1)>> ELSE <<>>) \o <<RunOf(q)>>
  <2>1. /\ Intervene(o, q, msgs, IF failed THEN {i} ELSE {}, {})
        /\ StartsNow(o, Asking("fg", "send", i, FALSE))
        /\ queue[o].items # <<>>
    BY <1>5 DEF Resume
  <2>2. CASE job'[t] = Asking("fg", "send", i, FALSE)
    <3>1. job'[t].mode = "send" /\ job'[t].pc = "asking" /\ job'[t].id = i
      BY <2>2 DEF Asking, NoJob
    <3>2. queue[o] \in QueueType /\ queue[o].items # <<>> /\ i = queue[o].items[1].id
      BY <2>1, QueueOf, HeadOf DEF TypeInv
    <3>3. q1 \in QueueType /\ q1.items # <<>> /\ q1.items[1].id = i
      <4>1. CASE ~failed
        BY <3>2, <4>1
      <4>2. CASE failed
        <5>1. q1 \in QueueType /\ Marked(q1.items, queue[o].items, i, "pending")
          BY <3>2, <4>2, StatusMarks DEF Statuses
        <5>2. 1 \in DOMAIN queue[o].items
          BY <3>2 DEF QueueType, Lists
        <5> QED
          BY <3>2, <5>1, <5>2 DEF Marked
      <4> QED
        BY <4>1, <4>2
    <3>4. msgs # <<>>
      <4>1. CASE failed
        BY <4>1, Singles
      <4>2. CASE ~failed
        BY <4>2, Singles
      <4> QED
        BY <4>1, <4>2
    <3> HIDE DEF q1, i
    <3>5. q \in QueueType /\ q.items = q1.items
      BY <3>3 DEF QueueType, RunStates
    <3> HIDE DEF q, msgs
    <3>6. InFlight \subseteq waived' /\ Commit(o, q, msgs)
      BY <1>4, <2>1
    <3>7. stored'.items = q.items
      BY <3>4, <3>5, <3>6, CommitLists DEF TypeInv
    <3> QED
      BY <1>2, <3>1, <3>3, <3>5, <3>6, <3>7
  <2>3. job'[t] = job[t] \/ job'[t] = Asking("fg", "send", i, FALSE)
    <3> HIDE DEF i
    <3> QED
      BY <2>1, SenderOf DEF StartsNow
  <2> QED
    BY <1>1, <2>2, <2>3
<1>6. ASSUME NEW i \in Items, Retry(o, i)
      PROVE  Decides(t)
  <2>1. /\ \E q, msgs : Intervene(o, q, msgs, {i}, {})
        /\ StartsNow(o, Asking("fg", "send", i, FALSE))
    BY <1>6 DEF Retry
  <2>2. InFlight \subseteq waived' /\ i \in waived'
    BY <1>4, <2>1
  <2>3. job'[t] = job[t] \/ job'[t] = Asking("fg", "send", i, FALSE)
    BY <2>1, SenderOf DEF StartsNow
  <2>4. /\ Asking("fg", "send", i, FALSE).pc = "asking"
        /\ Asking("fg", "send", i, FALSE).mode = "send"
        /\ Asking("fg", "send", i, FALSE).id = i
    BY DEF Asking, NoJob
  <2> QED
    BY <1>1, <1>2, <2>2, <2>3, <2>4
<1>7. ASSUME NEW i \in Items, Skip(o, i)
      PROVE  Decides(t)
  <2>1. /\ \E q, msgs : Intervene(o, q, msgs, {}, {i})
        /\ StartsNow(o, Asking("fg", "skip", i, FALSE))
    BY <1>7 DEF Skip
  <2>2. InFlight \subseteq waived'
    BY <1>4, <2>1
  <2>3. job'[t] = job[t] \/ job'[t] = Asking("fg", "skip", i, FALSE)
    BY <2>1, SenderOf DEF StartsNow
  <2>4. /\ Asking("fg", "skip", i, FALSE).pc = "asking"
        /\ Asking("fg", "skip", i, FALSE).mode = "skip"
        /\ Asking("fg", "skip", i, FALSE).id = i
    BY DEF Asking, NoJob
  <2> QED
    BY <1>1, <1>2, <2>2, <2>3, <2>4
<1>8. ASSUME NEW i \in Items, Interrupt(o, i)
      PROVE  Decides(t)
  <2> DEFINE a == Asking("fg", "send", i, TRUE)
             j == [a EXCEPT !.pc = "stopping"]
  <2>1. InFlight \subseteq waived' /\ i \in waived' /\ Become(o, j)
    BY <1>8 DEF Interrupt, UnderWay
  <2>2. j.pc = "stopping" /\ j.mode = "send" /\ j.id = i
    BY DEF Asking, NoJob
  <2> HIDE DEF j
  <2>3. job'[t] = job[t] \/ job'[t] = j
    BY <2>1, SenderOf
  <2> QED
    BY <1>1, <1>2, <2>1, <2>2, <2>3
<1> QED
  BY <1>3, <1>5, <1>6, <1>7, <1>8 DEF PanelStep

LEMMA TurnDecides ==
    ASSUME TypeInv, NEW t \in Tabs, EndsTurn(t) \/ NextTurn(t)
    PROVE  Decides(t)
<1>1. Become(t, NoJob) \/ Become(t, Slot)
  BY DEF EndsTurn, NextTurn
<1> QED
  BY <1>1, SenderOf, IdleGood DEF Decides

\* A sender that goes on asking.
LEMMA AskDecides ==
    ASSUME TypeInv, NEW t \in Tabs, Deciding(t), NEW j, Become(t, j),
           j.id = job[t].id, j.role = job[t].role,
           \/ j.mode = job[t].mode
           \/ job[t].mode \in {"send", "refresh"} /\ j.mode = "refresh",
           j.pc # "stopping"
    PROVE  Decides(t)
<1>1. job'[t] = j
  BY SenderOf
<1> QED
  BY <1>1 DEF Decides, Continues, Bold, Sending, Recovering, Deciding

LEMMA GoesOnDecides ==
    ASSUME TypeInv, NEW t \in Tabs, NEW q \in QueueType, NEW msgs, Commit(t, q, msgs),
           msgs = <<>> => q.items = queue[t].items,
           q.items # <<>>, GoesOn(t, Head(q.items).id),
           \/ Bold(t)
           \/ /\ Recovering(t)
              /\ FrontKept(queue[t].items, q.items)
              /\ Head(q.items).st = "pending"
    PROVE  Decides(t)
<1> DEFINE i == Head(q.items).id
<1>1. Head(q.items) = q.items[1]
  BY HeadOf
<1>2. job'[t] = Asking("fg", "send", i, FALSE)
  BY SenderOf DEF GoesOn
<1>3. job'[t].id = i /\ job'[t].mode = "send"
  BY <1>2 DEF Asking, NoJob
<1>4. inbox[t] # <<>> => i \in waived'
  BY DEF GoesOn
<1>5. ~Recovering(t)'
  BY <1>3 DEF Recovering
<1>6. GoneOn(t)
  BY <1>1, <1>3, <1>4, <1>5 DEF GoneOn
<1> QED
  BY <1>6 DEF Decides

LEMMA RecoveredDecides ==
    ASSUME TypeInv, NEW t \in Tabs, Deciding(t), job[t].mode = "recover",
           NEW q \in QueueType, NEW msgs, FrontKept(queue[t].items, q.items),
           (q = queue[t] /\ msgs = <<>>) \/ msgs = <<BothOf(q)>>,
           Recovered(t, q, msgs)
    PROVE  Decides(t)
<1> DEFINE i == job[t].id
           lost == Has(q, i, "sending") /\ q.run # "paused"
           q1 == IF lost THEN SetItemStatus(q, i, "failed") ELSE q
           out == msgs \o IF lost THEN <<BothOf(q1)>> ELSE <<>>
<1>1. /\ JobWrites(t, q1, out)
      /\ IF job[t].role = "bg" THEN NextTurn(t)
         ELSE IF HeadIn(q1, {"pending"}) /\ ~Halted(q1)
         THEN GoesOn(t, Head(q1.items).id)
         ELSE EndsTurn(t)
  BY DEF Recovered
<1>2. q1 \in QueueType /\ FrontKept(queue[t].items, q1.items)
  <2>1. CASE ~lost
    BY <2>1
  <2>2. CASE lost
    <3>1. q1 \in QueueType /\ Marked(q1.items, q.items, i, "failed")
      BY <2>2, StatusMarks DEF Statuses
    <3>2. q.items \in Lists
      BY DEF QueueType
    <3>3. FrontKept(q.items, q1.items)
      BY <3>1, <3>2, MarkedKept DEF Kept
    <3> QED
      BY <3>1, <3>3 DEF FrontKept
  <2> QED
    BY <2>1, <2>2
<1>3. out = <<>> => q1.items = queue[t].items
  <2>1. CASE lost
    <3>1. out # <<>>
      BY <2>1, Singles
    <3> QED
      BY <3>1
  <2>2. CASE ~lost
    BY <2>2, Singles
  <2> QED
    BY <2>1, <2>2
<1> HIDE DEF q1, out, lost
<1>4. ASSUME job[t].role # "bg", HeadIn(q1, {"pending"}), ~Halted(q1)
      PROVE  Decides(t)
  <2>1. Recovering(t)
    BY <1>4 DEF Recovering, Deciding, TypeInv, JobInv
  <2>2. q1.items # <<>> /\ Head(q1.items).st = "pending" /\ GoesOn(t, Head(q1.items).id)
    BY <1>1, <1>4 DEF HeadIn
  <2>3. Commit(t, q1, out)
    BY <1>1 DEF JobWrites
  <2> QED
    BY <1>2, <1>3, <2>1, <2>2, <2>3, GoesOnDecides
<1> QED
  BY <1>1, <1>4, TurnDecides

LEMMA TimerDecides ==
    ASSUME TypeInv, NEW t \in Tabs, TimerFires(t)
    PROVE  Decides(t)
<1> DEFINE q == queue[t]
           ready == /\ owner = t
                    /\ ~Halted(q)
                    /\ HeadIn(q, {"pending", "sending"})
                    /\ SendLockFree
           mode == IF HeadIn(q, {"sending"}) THEN "recover" ELSE "send"
<1>1. /\ inbox[t] = <<>>
      /\ UNCHANGED <<queue, stored, inbox, waived, stale, net>>
      /\ IF ready THEN Become(t, Asking("fg", mode, Head(q.items).id, FALSE))
         ELSE UNCHANGED job
  BY DEF TimerFires, backend, histories
<1>2. CASE ~ready
  BY <1>1, <1>2, SenderOf DEF Decides
<1>3. CASE ready
  <2>1. q \in QueueType /\ q.items # <<>> /\ Head(q.items) = q.items[1]
        /\ q.items[1].st \in {"pending", "sending"}
    BY <1>3, QueueOf, HeadOf DEF HeadIn, TypeInv
  <2>2. mode = IF q.items[1].st = "sending" THEN "recover" ELSE "send"
    BY <2>1 DEF HeadIn
  <2> HIDE DEF mode
  <2>3. job'[t] = Asking("fg", mode, Head(q.items).id, FALSE)
    BY <1>1, <1>3, SenderOf
  <2>4. job'[t].mode = mode /\ job'[t].id = Head(q.items).id /\ job'[t].pc = "asking"
    BY <2>3 DEF Asking, NoJob
  <2>5. CASE q.items[1].st = "sending"
    BY <1>1, <2>1, <2>2, <2>4, <2>5 DEF Decides, Timed, Bold, Sending
  <2>6. CASE q.items[1].st = "pending"
    BY <1>1, <2>1, <2>2, <2>4, <2>6 DEF Decides, Timed, Recovering
  <2> QED
    BY <2>1, <2>5, <2>6
<1> QED
  BY <1>2, <1>3

LEMMA AnswerDecides ==
    ASSUME TypeInv, NEW t \in Tabs,
           \/ StatusFails(t) \/ StillRunning(t) \/ RecoverAnswered(t) \/ HandoffAnswered(t)
           \/ SkipAnswered(t)
    PROVE  Decides(t)
<1>1. TypeOK /\ queue[t] \in QueueType /\ job[t] \in JobType
  BY QueueOf DEF TypeInv, TypeOK, SenderTypes
<1>2. taken' = taken /\ Deciding(t)
  BY DEF StatusFails, StillRunning, RecoverAnswered, HandoffAnswered, SkipAnswered, Answered,
         JobRest, Deciding
<1>3. CASE EndsTurn(t) \/ NextTurn(t)
  BY <1>3, TurnDecides
<1>4. CASE StatusFails(t)
  <2>1. CASE job[t].mode = "recover" /\ Recovered(t, queue[t], <<>>)
    BY <1>1, <1>2, <2>1, RecoveredDecides DEF FrontKept
  <2>2. CASE ~(job[t].mode = "recover" /\ Recovered(t, queue[t], <<>>))
    <3>1. EndsTurn(t)
      BY <1>4, <2>2 DEF StatusFails, Fails
    <3> QED
      BY <1>3, <3>1
  <2> QED
    BY <2>1, <2>2
<1>5. CASE StillRunning(t)
  <2> DEFINE j == [job[t] EXCEPT !.pc = "asking", !.seen = {}, !.busy = FALSE]
  <2>1. EndsTurn(t) \/ Become(t, j)
    BY <1>5 DEF StillRunning, Stays
  <2>2. j.id = job[t].id /\ j.role = job[t].role /\ j.mode = job[t].mode /\ j.pc = "asking"
    BY <1>1 DEF JobType
  <2> HIDE DEF j
  <2> QED
    BY <1>2, <1>3, <2>1, <2>2, AskDecides
<1>6. CASE RecoverAnswered(t)
  <2>1. job[t].mode = "recover" /\ Recovered(t, Reconciled(t), News(t))
    BY <1>6 DEF RecoverAnswered, Answered
  <2>2. /\ Reconciled(t) \in QueueType
        /\ FrontKept(queue[t].items, Reconciled(t).items)
        /\ \/ Reconciled(t) = queue[t] /\ News(t) = <<>>
           \/ News(t) = <<BothOf(Reconciled(t))>>
    BY <1>1, <1>2, ReconciledKept DEF Kept
  <2> QED
    BY <1>2, <2>1, <2>2, RecoveredDecides
<1>7. CASE HandoffAnswered(t)
  BY <1>3, <1>7 DEF HandoffAnswered
<1>8. CASE SkipAnswered(t)
  <2> DEFINE q == Reconciled(t)
  <2>1. /\ job[t].mode = "skip" /\ Commit(t, q, News(t))
        /\ \/ EndsTurn(t)
           \/ q.items # <<>> /\ GoesOn(t, Head(q.items).id)
    BY <1>8 DEF SkipAnswered, Answered, JobWrites
  <2>2. q \in QueueType /\ (News(t) = <<>> => q.items = queue[t].items)
    <3>1. /\ q \in QueueType
          /\ q = queue[t] \/ News(t) = <<BothOf(q)>>
      BY <1>1, <1>2, ReconciledKept
    <3>2. <<BothOf(q)>> # <<>>
      OBVIOUS
    <3> HIDE DEF q
    <3> QED
      BY <3>1, <3>2
  <2>3. Bold(t)
    BY <1>2, <2>1 DEF Bold
  <2> HIDE DEF q
  <2> QED
    BY <1>3, <2>1, <2>2, <2>3, GoesOnDecides
<1> QED
  BY <1>4, <1>5, <1>6, <1>7, <1>8

LEMMA JobDecides ==
    ASSUME TypeInv, NEW t \in Tabs, NEW o \in Tabs, JobStep(o)
    PROVE  Decides(t)
<1>1. CASE t # o
  <2>1. Turns(o)
    BY JobTurns
  <2>2. job'[t] = job[t]
    BY <1>1, <2>1, SenderOf DEF Turns, Takes
  <2> QED
    BY <2>2, SenderOf DEF Decides
<1>2. CASE t = o
  <2>0. job[t] \in JobType
    BY DEF TypeInv, TypeOK, SenderTypes
  <2>1. CASE Stopped(t)
    <3>1. /\ job[t].pc = "stopping" /\ waived' = waived
          /\ \/ Become(t, NoJob)
             \/ Become(t, Asking("fg", "send", job[t].id, TRUE))
      BY <2>1 DEF Stopped
    <3>2. CASE Become(t, NoJob)
      BY <3>2, SenderOf, IdleGood DEF Decides
    <3>3. CASE Become(t, Asking("fg", "send", job[t].id, TRUE))
      <4>1. job'[t] = Asking("fg", "send", job[t].id, TRUE)
        BY <3>3, SenderOf
      <4>2. job'[t].mode = "send" /\ job'[t].id = job[t].id
        BY <4>1 DEF Asking, NoJob
      <4>3. job[t].id \in waived'
        BY <3>1 DEF TypeInv, JobInv
      <4> QED
        BY <3>1, <4>2, <4>3 DEF Decides, Continues, Bold, Sending, Recovering
    <3> QED
      BY <3>1, <3>2, <3>3
  <2>2. CASE BgTurn(t)
    <3>1. \/ Become(t, NoJob)
          \/ \E mode \in {"recover", "send"} : \E i :
                 Become(t, Asking("bg", mode, i, FALSE))
      BY <2>2 DEF BgTurn
    <3>2. CASE Become(t, NoJob)
      BY <3>2, SenderOf, IdleGood DEF Decides
    <3>3. ASSUME NEW mode \in {"recover", "send"}, NEW i,
                 Become(t, Asking("bg", mode, i, FALSE))
          PROVE  Decides(t)
      <4>1. job'[t] = Asking("bg", mode, i, FALSE)
        BY <3>3, SenderOf
      <4>2. job'[t].mode = mode /\ job'[t].role = "bg" /\ job'[t].pc = "asking"
        BY <4>1 DEF Asking, NoJob
      <4> QED
        BY <4>2 DEF Decides, Continues, Bold, Sending, Recovering
    <3> QED
      BY <3>1, <3>2, <3>3
  <2>3. CASE ReadHistory(t) \/ ReadStatus(t)
    <3>1. PICK j \in {[job[t] EXCEPT !.pc = "read", !.seen = history],
                      [job[t] EXCEPT !.pc = "answered", !.busy = chat # NoItem]} :
                Become(t, j)
      BY <2>3 DEF ReadHistory, ReadStatus
    <3>2. j.id = job[t].id /\ j.role = job[t].role /\ j.mode = job[t].mode
          /\ j.pc # "stopping"
      BY <2>0, <3>1 DEF JobType
    <3>3. Deciding(t)
      BY <2>3 DEF ReadHistory, ReadStatus, Deciding
    <3> QED
      BY <3>1, <3>2, <3>3, AskDecides
  <2>4. CASE SendAnswered(t)
    <3> DEFINE j == [job[t] EXCEPT !.pc = "asking", !.mode = "refresh", !.seen = {}]
               p == [job[t] EXCEPT !.pc = "posting", !.seen = {},
                                   !.n = posts[job[t].id] + 1]
    <3>1. /\ job[t].pc = "answered" /\ job[t].mode \in {"send", "refresh"}
          /\ EndsTurn(t) \/ NextTurn(t) \/ Become(t, j) \/ Become(t, p)
      BY <2>4 DEF SendAnswered, Post, Stays
    <3>2. j.id = job[t].id /\ j.role = job[t].role /\ j.mode = "refresh" /\ j.pc = "asking"
          /\ p.pc = "posting"
      BY <2>0 DEF JobType
    <3> HIDE DEF j, p
    <3>3. CASE Become(t, p)
      BY <3>2, <3>3, SenderOf DEF Decides
    <3>4. CASE Become(t, j)
      BY <3>1, <3>2, <3>4, AskDecides DEF Deciding
    <3> QED
      BY <3>1, <3>3, <3>4, TurnDecides
  <2>5. CASE PostReplied(t) \/ DrainEnds(t)
    <3> DEFINE j == [job[t] EXCEPT !.pc = "draining"]
    <3>1. EndsTurn(t) \/ NextTurn(t) \/ Become(t, j)
      BY <2>5 DEF PostReplied, DrainEnds, Fails, Stays
    <3>2. j.pc = "draining"
      BY <2>0 DEF JobType
    <3> HIDE DEF j
    <3> QED
      BY <3>1, <3>2, SenderOf, TurnDecides DEF Decides
  <2> QED
    BY <1>2, <2>1, <2>2, <2>3, <2>4, <2>5, TimerDecides, AnswerDecides DEF JobStep
<1> QED
  BY <1>1, <1>2

LEMMA NextDecides ==
    ASSUME TypeInv, [Next]_vars, NEW t \in Tabs
    PROVE  Decides(t)
<1>1. CASE UNCHANGED vars
  BY <1>1, SenderOf DEF vars, Decides
<1> QED
  BY <1>1, TabDecides, PanelDecides, JobDecides, BackendDecides DEF Next

\* The messages under way that the user knows nothing of.
Loud == InFlight \ (waived \cup stale)

\* They were posted once and are not run yet.
CountInv ==
    /\ asked \subseteq waived
    /\ \A i \in Items : posts[i] > 1 => i \in waived \cup stale
    /\ \A i \in taken : posts[i] > 0
    /\ \A p \in net : p.n > 0 /\ p.n <= posts[p.id]
    /\ Loud \cap taken = {}

LEMMA NetSteps ==
    ASSUME TypeInv, [Next]_vars
    PROVE  /\ asked' \subseteq asked \cup waived'
           /\ posts' = posts => /\ net' \subseteq net
                                /\ \A i \in taken' \ taken :
                                       \E p \in net : p.id = i /\ net' = net \ {p}
<1>1. CASE UNCHANGED vars
  BY <1>1 DEF vars, backend, histories
<1>2. CASE BackendStep
  BY <1>2 DEF BackendStep, PostArrives, PostLost, RunEnds, RunLost, OtherRun, BackendRest
<1>3. ASSUME NEW t \in Tabs, TabStep(t)
      PROVE  UNCHANGED <<net, taken, asked>>
  BY <1>3 DEF TabStep, Open, Mount, Grant, Leave, Close, StartAllBackgroundQueues,
              Deliver, backend, histories
<1>4. ASSUME NEW t \in Tabs, PanelStep(t)
      PROVE  UNCHANGED <<net, taken>> /\ asked' \subseteq asked \cup waived'
  <2>1. UNCHANGED <<net, taken>>
    BY <1>4 DEF PanelStep, Edit, Pause, Reorder, Clear, Resume, Enqueue, Remove, Retry, Skip,
                Interrupt, Intervene, Edits, backend
  <2>2. \A q, msgs, again, gone :
            Intervene(t, q, msgs, again, gone) => asked' \subseteq asked \cup waived'
    BY DEF Intervene
  <2>3. asked' \subseteq asked \cup waived'
    BY <1>4, <2>2 DEF PanelStep, Edit, Pause, Reorder, Clear, Resume, Enqueue, Remove, Retry,
                      Skip, Interrupt
  <2> QED
    BY <2>1, <2>3
<1>5. ASSUME NEW t \in Tabs, JobStep(t)
      PROVE  /\ taken' = taken /\ asked' \subseteq asked \cup waived'
             /\ posts' = posts => net' = net
  <2>1. taken' = taken
    BY <1>5, JobGrows
  <2>2. CASE SendAnswered(t)
    <3>1. posts' = posts => net' = net
      <4>1. CASE Post(t, Reconciled(t), News(t)) /\ posts' = posts
        <5>1. MaySend(job[t], Reconciled(t)) \/ UNCHANGED <<net, posts>>
          BY <2>2 DEF SendAnswered, backend
        <5>2. CASE MaySend(job[t], Reconciled(t))
          <6>1. job[t].id \in Items
            BY <2>1, <5>2, PostedIsQueued
          <6>2. posts'[job[t].id] = posts[job[t].id] + 1
            BY <4>1, <6>1 DEF Post, TypeInv, TypeOK, SenderTypes
          <6>3. posts[job[t].id] \in Nat
            BY <6>1 DEF TypeInv, TypeOK, SenderTypes
          <6> QED
            BY <4>1, <6>2, <6>3
        <5> QED
          BY <5>1, <5>2
      <4> QED
        BY <2>2, <4>1 DEF SendAnswered, backend
    <3>2. asked' \subseteq asked
      BY <2>2 DEF SendAnswered, Post
    <3> QED
      BY <2>1, <3>1, <3>2
  <2>3. CASE Stopped(t)
    BY <2>1, <2>3 DEF Stopped, TypeInv, JobInv, backend
  <2>4. CASE ~SendAnswered(t) /\ ~Stopped(t)
    BY <1>5, <2>1, <2>4 DEF JobStep, TimerFires, BgTurn, ReadHistory, ReadStatus,
                   StatusFails, StillRunning, RecoverAnswered, HandoffAnswered, SkipAnswered,
                   Answered, JobRest, PostReplied, DrainEnds, histories, backend
  <2> QED
    BY <2>2, <2>3, <2>4
<1> QED
  BY <1>1, <1>2, <1>3, <1>4, <1>5 DEF Next

\* A post is one more of a message of which none the user knows nothing of is
\* under way.
LEMMA PostSteps ==
    ASSUME TypeInv, SyncInv, UnsentInv, CountInv, [Next]_vars,
           NEW t \in Tabs, SendAnswered(t), MaySend(job[t], Reconciled(t)),
           Post(t, Reconciled(t), News(t))
    PROVE  /\ job[t].id \in Items /\ UNCHANGED <<taken, waived>>
           /\ posts' = [posts EXCEPT ![job[t].id] = @ + 1]
           /\ net' = net \cup {[id |-> job[t].id, n |-> posts[job[t].id] + 1]}
           /\ posts[job[t].id] > 0 => job[t].id \in waived' \cup stale'
<1> DEFINE i == job[t].id
<1>1. UNCHANGED <<taken, waived>>
  BY DEF SendAnswered, Post, Stays
<1>2. i \in Items
  BY <1>1, PostedIsQueued
<1>3. /\ posts' = [posts EXCEPT ![i] = @ + 1]
      /\ net' = net \cup {[id |-> i, n |-> posts[i] + 1]}
  BY DEF Post
<1>4. posts \in [Items -> Nat]
  BY DEF TypeInv, TypeOK, SenderTypes
<1>5. posts'[i] > posts[i]
  BY <1>2, <1>3, <1>4
<1>6. asked \subseteq waived'
  BY <1>1 DEF CountInv
<1>7. posts[i] > 0 => i \in asked \cup stale'
  BY <1>2, <1>5, ResendIsAsked
<1> QED
  BY <1>1, <1>2, <1>3, <1>6, <1>7

LEMMA NextCount ==
    ASSUME TypeInv, SyncInv, UnsentInv, CountInv, [Next]_vars
    PROVE  CountInv'
<1>1. /\ asked' \subseteq asked \cup waived' /\ Grows
      /\ posts \in [Items -> Nat] /\ taken \subseteq Items
      /\ \A p \in net : p.id \in Items /\ p.n \in Nat
  BY NetSteps, NextGrows DEF TypeInv, TypeOK, SenderTypes, HistoryTypes
<1>2. asked' \subseteq waived'
  BY <1>1 DEF CountInv, Grows
<1>3. CASE posts' = posts
  <2>1. /\ net' \subseteq net
        /\ \A i \in taken' \ taken : \E p \in net : p.id = i /\ net' = net \ {p}
    BY <1>3, NetSteps
  <2>2. \A i \in taken' : posts'[i] > 0
    BY <1>1, <1>3, <2>1 DEF CountInv
  <2>3. ASSUME NEW i \in Loud', i \in taken'
        PROVE  FALSE
    <3>1. i \in Loud /\ i \notin waived \cup stale
      BY <1>1, <2>1, <2>3 DEF Loud, InFlight, Grows
    <3>2. PICK p \in net : p.id = i /\ net' = net \ {p}
      BY <2>1, <2>3, <3>1 DEF CountInv
    <3>3. PICK r \in net : r.id = i /\ r # p
      BY <2>3, <3>2 DEF Loud, InFlight
    <3>4. p \in [id : made, n : Nat] /\ r \in [id : made, n : Nat]
      BY <3>2, <3>3 DEF TypeInv, TypeOK, SenderTypes
    <3>5. p.n # r.n
      BY <3>2, <3>3, <3>4
    <3>6. i \in Items /\ p.n \in Nat /\ r.n \in Nat /\ posts[i] \in Nat
      BY <1>1, <3>2, <3>3
    <3>7. /\ p.n > 0 /\ p.n <= posts[i] /\ r.n > 0 /\ r.n <= posts[i]
      BY <3>2, <3>3 DEF CountInv
    <3>8. posts[i] > 1
      BY <3>5, <3>6, <3>7
    <3> QED
      BY <3>1, <3>6, <3>8 DEF CountInv
  <2> QED
    BY <1>1, <1>2, <1>3, <2>1, <2>2, <2>3 DEF CountInv, Grows
<1>4. CASE posts' # posts
  <2>1. PICK t \in Tabs : /\ SendAnswered(t)
                          /\ MaySend(job[t], Reconciled(t))
                          /\ Post(t, Reconciled(t), News(t))
    BY <1>4, PostIsSend
  <2> DEFINE i == job[t].id
             r == [id |-> i, n |-> posts[i] + 1]
  <2>2. /\ i \in Items /\ UNCHANGED <<taken, waived>>
        /\ posts' = [posts EXCEPT ![i] = @ + 1]
        /\ net' = net \cup {r}
        /\ posts[i] > 0 => i \in waived' \cup stale'
    BY <2>1, PostSteps
  <2>3. /\ posts'[i] = posts[i] + 1 /\ posts[i] \in Nat
        /\ \A k \in Items \ {i} : posts'[k] = posts[k]
        /\ \A k \in Items : posts[k] \in Nat
        /\ r.id = i /\ r.n = posts[i] + 1
    BY <1>1, <2>2
  <2> HIDE DEF i, r
  <2>4. \A k \in Items : posts'[k] > 1 => k \in waived' \cup stale'
    BY <1>1, <2>2, <2>3 DEF CountInv, Grows
  <2>5. \A k \in taken' : posts'[k] > 0
    <3> SUFFICES ASSUME NEW k \in taken' PROVE posts'[k] > 0
      OBVIOUS
    <3>1. k \in Items /\ posts[k] > 0
      BY <1>1, <2>2 DEF CountInv
    <3> QED
      BY <2>3, <3>1
  <2>6. \A p \in net' : p.n > 0 /\ p.n <= posts'[p.id]
    <3> SUFFICES ASSUME NEW p \in net' PROVE p.n > 0 /\ p.n <= posts'[p.id]
      OBVIOUS
    <3>1. CASE p = r
      BY <2>3, <3>1
    <3>2. CASE p \in net
      <4>1. p.id \in Items /\ p.n \in Nat /\ p.n > 0 /\ p.n <= posts[p.id]
        BY <1>1, <3>2 DEF CountInv
      <4>2. posts[p.id] \in Nat /\ posts[p.id] <= posts'[p.id] /\ posts'[p.id] \in Nat
        BY <2>3, <4>1
      <4> QED
        BY <4>1, <4>2
    <3> QED
      BY <2>2, <3>1, <3>2
  <2>7. ASSUME NEW k \in Loud', k \in taken'
        PROVE  FALSE
    <3>1. k \in Loud \/ k = i
      BY <1>1, <2>2, <2>3, <2>7 DEF Loud, InFlight, Grows
    <3>2. k \in taken /\ posts[k] > 0
      BY <2>2, <2>7 DEF CountInv
    <3> QED
      BY <2>2, <2>7, <3>1, <3>2 DEF CountInv, Loud
  <2> QED
    BY <1>2, <2>4, <2>5, <2>6, <2>7 DEF CountInv
<1> QED
  BY <1>3, <1>4

\* Nobody may post on top of them.
QuietInv == \A t \in Tabs : Bold(t) => Loud = {}

\* They stay in front, where a sender finds them and asks for their receipt.
FrontInv ==
    \A i \in Loud :
        /\ Front(stored.items, i)
        /\ \A t \in Tabs : Recovering(t) =>
               /\ Front(queue[t].items, i)
               /\ \A k \in DOMAIN inbox[t] :
                      inbox[t][k].list => Front(inbox[t][k].items, i)

\* The message a page is about to send is at the head.
HeadInv ==
    \A t \in Tabs : Sending(t) /\ job[t].id \in Ids(stored.items) \ (waived \cup stale)
        => stored.items # <<>> /\ stored.items[1].id = job[t].id

TurnInv ==
    /\ SyncInv /\ UnsentInv /\ CountInv
    /\ QuietInv /\ FrontInv /\ HeadInv

\* While nothing is posted no message gets loud.
LEMMA LoudSteps ==
    ASSUME TypeInv, TurnInv, [Next]_vars, posts' = posts
    PROVE  /\ Loud' \subseteq Loud
           /\ Loud' \subseteq InFlight \ (taken \cup waived' \cup stale')
<1>1. net' \subseteq net /\ Grows
  BY NetSteps, NextGrows
<1>2. Loud' \subseteq InFlight' \ (waived' \cup stale') /\ InFlight' \subseteq InFlight
  BY <1>1 DEF Loud, InFlight
<1>3. Loud' \subseteq Loud
  BY <1>1, <1>2 DEF Loud, Grows
<1>4. Loud \cap taken = {}
  BY DEF TurnInv, CountInv
<1> QED
  BY <1>2, <1>3, <1>4

\* A step that posts leaves nobody who could post or recover.
LEMMA PostAlone ==
    ASSUME TypeInv, [Next]_vars, NEW o \in Tabs, SendAnswered(o),
           Post(o, Reconciled(o), News(o)), NEW t \in Tabs
    PROVE  ~Bold(t)' /\ ~Recovering(t)' /\ ~Sending(t)'
<1>1. TypeInv' /\ Tabs' = Tabs
  BY NextTypes
<1>2. \A u \in Tabs : job'[u].pc \notin {"none", "slot"} => owner' = u
  BY <1>1 DEF TypeInv, TypeOK
<1> DEFINE p == [job[o] EXCEPT !.pc = "posting", !.seen = {}, !.n = posts[job[o].id] + 1]
<1>3. job'[o] = p
  BY SenderOf DEF Post, Stays
<1>4. job'[o].pc = "posting"
  BY <1>3 DEF TypeInv, TypeOK, SenderTypes, JobType
<1>5. t = o \/ job'[t].pc \in {"none", "slot"}
  BY <1>2, <1>4
<1> QED
  BY <1>4, <1>5 DEF Bold, Recovering, Sending, Deciding

\* What a tab that was told everything has is what is stored, where a message
\* is concerned that nobody wrote from a copy with undelivered news.
LEMMA OwnCopy ==
    ASSUME SyncInv, NEW t \in Tabs, Live(t), inbox[t] = <<>>, stale \subseteq stale',
           NEW i, i \notin stale', i \in Ids(stored.items) \cup Ids(queue[t].items)
    PROVE  queue[t].items = stored.items
<1>1. Untold(t)
  BY DEF Untold
<1>2. InStep(queue[t].items)
  BY <1>1 DEF SyncInv
<1> QED
  BY <1>2 DEF InStep

LEMMA FrontIsIn ==
    ASSUME NEW items \in Lists, NEW i, Front(items, i)
    PROVE  i \in Ids(items)
<1>1. items \in Seq(Entry) /\ items # <<>>
  BY DEF Lists, Front
<1>2. 1 \in DOMAIN items
  BY <1>1
<1> QED
  BY <1>2 DEF Front, Ids

LEMMA QuietSteps ==
    ASSUME TypeInv, TurnInv, [Next]_vars
    PROVE  QuietInv'
<1> SUFFICES ASSUME NEW t \in Tabs, Bold(t)', NEW i \in Loud'
             PROVE  FALSE
  BY DEF QuietInv
<1>1. posts' = posts
  BY PostIsSend, PostAlone
<1>2. /\ Loud' \subseteq Loud
      /\ i \in Loud /\ i \in InFlight /\ i \notin taken /\ i \notin waived'
      /\ i \notin stale'
  BY <1>1, LoudSteps
<1>3. ~Bold(t)
  BY <1>2 DEF TurnInv, QuietInv
<1>4. Front(stored.items, i) /\ i \in Ids(stored.items)
  BY <1>2, FrontIsIn, QueueOf DEF TurnInv, FrontInv, TypeInv
<1>5. stale \subseteq stale' /\ SyncInv
  BY NextGrows DEF Grows, TurnInv
<1>6. CASE Timed(t)
  <2>1. inbox[t] = <<>> /\ queue[t].items # <<>> /\ Live(t)
        /\ queue[t].items[1].st = "pending"
    BY <1>6 DEF Timed, Live
  <2>2. queue[t].items = stored.items
    BY <1>2, <1>4, <1>5, <2>1, OwnCopy
  <2> QED
    BY <1>4, <2>1, <2>2 DEF Front
<1>7. CASE GoneOn(t)
  <2>1. PICK q, msgs : /\ Recovering(t)
                       /\ FrontKept(queue[t].items, q.items)
                       /\ q.items[1].st = "pending"
    BY <1>3, <1>7 DEF GoneOn
  <2>2. Front(queue[t].items, i)
    BY <1>2, <2>1 DEF TurnInv, FrontInv
  <2>3. Front(q.items, i)
    BY <1>2, <2>1, <2>2 DEF FrontKept
  <2> QED
    BY <2>1, <2>3 DEF Front
<1>8. CASE Continues(t) \/ Told(t)
  BY <1>2, <1>3, <1>8 DEF Continues, Told
<1> QED
  BY <1>6, <1>7, <1>8, NextDecides DEF Decides

\* What a commit leaves in storage, of a message that nobody wrote from a copy
\* with undelivered news: it is made from what was stored.
LEMMA WrittenFrom ==
    ASSUME TypeInv, SyncInv, NEW o \in Tabs, NEW q, NEW msgs, NEW B,
           Writes(o, q, msgs, B), msgs # <<>>,
           NEW i, i \notin stale', i \in Ids(stored.items) \cup (Ids(q.items) \cap Ids(B))
    PROVE  /\ B = stored.items /\ stored'.items = q.items /\ inbox[o] = <<>>
           /\ \A u \in Tabs : inbox'[u] = IF u = o \/ page[u] = "closed" THEN inbox[u]
                                         ELSE inbox[u] \o msgs
<1>1. TypeOK /\ q \in QueueType /\ Commit(o, q, msgs) /\ Base(o, B)
  BY DEF Writes, TypeInv
<1>2. /\ stored'.items = q.items
      /\ \A u \in Tabs : inbox'[u] = IF u = o \/ page[u] = "closed" THEN inbox[u]
                                    ELSE inbox[u] \o msgs
      /\ inbox[o] # <<>> => Ids(q.items) \cup Ids(stored.items) \subseteq stale'
  BY <1>1, CommitLists
<1>3. inbox[o] = <<>>
  BY <1>2
<1>4. B = stored.items \/ Ids(B) \cup Ids(stored.items) \subseteq stale'
  BY <1>1, <1>3, BaseInStep, CommitGrows
<1>5. B = stored.items
  BY <1>4
<1> QED
  BY <1>2, <1>3, <1>5

LEMMA NewInFront ==
    ASSUME TypeInv, TurnInv, [Next]_vars, NEW o \in Tabs, SendAnswered(o),
           MaySend(job[o], Reconciled(o)), Post(o, Reconciled(o), News(o)),
           job[o].id \notin waived' \cup stale'
    PROVE  Front(stored'.items, job[o].id)
<1> DEFINE i == job[o].id
           q == Reconciled(o)
           q1 == SetItemStatus(q, i, "sending")
           msgs == News(o) \o <<BothOf(q1)>>
           B == queue[o].items
<1>1. /\ TypeOK /\ q \in QueueType /\ q.items \in Lists
      /\ HeadKept(B, q.items)
      /\ \/ q = queue[o] /\ News(o) = <<>>
         \/ News(o) = <<BothOf(q)>>
  <2>1. taken' = taken
    BY DEF SendAnswered
  <2>2. /\ q \in QueueType
        /\ Kept(B, q.items)
        /\ \/ q = queue[o] /\ News(o) = <<>>
           \/ News(o) = <<BothOf(q)>>
    BY <2>1, ReconciledKept DEF TypeInv
  <2> QED
    BY <2>2 DEF TypeInv, Kept, QueueType
<1>2. PICK k \in DOMAIN q.items : q.items[k].id = i
  BY DEF MaySend, Has
<1>3. i \in Ids(q.items) /\ q.items # <<>>
  <2>1. q.items \in Seq(Entry)
    BY <1>1 DEF Lists
  <2> QED
    BY <1>2, <2>1 DEF Ids
<1>4. q1 \in QueueType /\ Marked(q1.items, q.items, i, "sending")
  BY <1>1, StatusMarks DEF Statuses
<1>5. Commit(o, q1, msgs) /\ msgs # <<>>
  <2>1. msgs = <<BothOf(q1)>> \/ msgs = <<BothOf(q), BothOf(q1)>>
    BY <1>1, Singles
  <2> QED
    BY <2>1 DEF Post, JobWrites
<1>6. job[o].pc = "answered" /\ job[o].mode \in {"send", "refresh"}
      /\ job[o].role \in {"fg", "bg"}
  BY DEF SendAnswered, TypeInv, JobInv
<1>7. ASSUME q.items[1].id = i
      PROVE  Front(stored'.items, i)
  <2> HIDE DEF q, q1, msgs, i, B
  <2>1. stored'.items = q1.items
    BY <1>1, <1>4, <1>5, CommitLists
  <2>2. DOMAIN q.items = 1..Len(q.items) /\ Len(q.items) \in Nat /\ 1 \in DOMAIN q.items
    BY <1>1, <1>3 DEF Lists
  <2>3. q1.items \in Seq(Entry) /\ 1 \in DOMAIN q1.items
        /\ q1.items[1].id = i /\ q1.items[1].st = "sending"
    BY <1>4, <1>7, <2>2 DEF Marked, QueueType, Lists
  <2>4. q1.items # <<>>
    BY <2>3
  <2> QED
    BY <2>1, <2>3, <2>4 DEF Front
<1>8. CASE job[o].role = "bg"
  <2>1. Head(q.items).id = i
    BY <1>8 DEF MaySend
  <2> QED
    BY <1>1, <1>3, <1>7, <2>1, HeadOf
<1>9. CASE job[o].role = "fg"
  <2>1. Sending(o) /\ Live(o)
    BY <1>6, <1>9, IdleGood DEF Sending, Deciding, Live
  <2>2. PICK j \in DOMAIN B : B[j].id = i
    BY <1>6, PostedFrom DEF SendAnswered
  <2>3. i \in Ids(B)
    BY <2>2 DEF Ids
  <2>4. inbox[o] = <<>>
    BY <1>6, PostedFrom DEF SendAnswered
  <2>5. B = stored.items
    BY <2>1, <2>3, <2>4, OwnCopy, NextGrows DEF Grows, TurnInv
  <2>6. stored.items # <<>> /\ stored.items[1].id = i
    BY <2>1, <2>3, <2>5, NextGrows DEF Grows, TurnInv, HeadInv
  <2>7. q.items[1].id = i
    BY <1>1, <1>3, <2>5, <2>6 DEF HeadKept
  <2> QED
    BY <1>7, <2>7
<1> QED
  BY <1>6, <1>8, <1>9

LEMMA StoredFront ==
    ASSUME TypeInv, SyncInv, [Next]_vars,
           NEW i \in InFlight \ (taken \cup waived' \cup stale'), Front(stored.items, i)
    PROVE  Front(stored'.items, i)
<1>1. i \in Ids(stored.items)
  BY FrontIsIn DEF TypeInv, TypeOK, ListTypes, QueueType
<1>2. ASSUME NEW o \in Tabs, Rewrites(o)
      PROVE  Front(stored'.items, i)
  <2>1. PICK q, msgs, B : Writes(o, q, msgs, B)
    BY <1>2 DEF Rewrites
  <2>2. CASE msgs = <<>>
    BY <2>1, <2>2 DEF Writes, Commit
  <2>3. CASE msgs # <<>>
    <3>1. B = stored.items /\ stored'.items = q.items
      BY <1>1, <2>1, <2>3, WrittenFrom
    <3>2. FrontKept(B, q.items)
      BY <2>1 DEF Writes, Follows
    <3> QED
      BY <3>1, <3>2 DEF FrontKept
  <2> QED
    BY <2>2, <2>3
<1>3. \/ stored' = stored
      \/ \E o \in Tabs : Rewrites(o)
  BY StepWrites DEF Deliver, Close, Passes
<1> QED
  BY <1>2, <1>3

\* A sender that recovers is shown them in front, now and by what it is told.
LEMMA RecoveringFront ==
    ASSUME TypeInv, TurnInv, [Next]_vars, NEW t \in Tabs, Recovering(t), Recovering(t)',
           NEW i \in Loud, i \in InFlight \ (taken \cup waived' \cup stale')
    PROVE  /\ Front(queue'[t].items, i)
           /\ \A k \in DOMAIN inbox'[t] : inbox'[t][k].list => Front(inbox'[t][k].items, i)
<1>0. SyncInv /\ i \notin stale'
  BY DEF TurnInv
<1>1. /\ Front(stored.items, i) /\ Front(queue[t].items, i)
      /\ \A k \in DOMAIN inbox[t] : inbox[t][k].list => Front(inbox[t][k].items, i)
      /\ i \in Ids(stored.items)
  BY FrontIsIn, QueueOf DEF TurnInv, FrontInv, TypeInv
<1>2. /\ queue \in [Tabs -> QueueType] /\ inbox \in [Tabs -> Seq(Message)]
      /\ job \in [Tabs -> JobType] /\ TypeOK
  BY DEF TypeInv, TypeOK, ListTypes, SenderTypes
<1>3. CASE queue'[t] = queue[t] /\ inbox'[t] = inbox[t]
  BY <1>1, <1>3
<1>4. ASSUME NEW o \in Tabs, Rewrites(o)
      PROVE  /\ Front(queue'[t].items, i)
             /\ \A k \in DOMAIN inbox'[t] : inbox'[t][k].list => Front(inbox'[t][k].items, i)
  <2>1. PICK q, msgs, B : Writes(o, q, msgs, B)
    BY <1>4 DEF Rewrites
  <2>2. /\ q \in QueueType /\ Commit(o, q, msgs) /\ Base(o, B) /\ FrontKept(B, q.items)
        /\ msgs \in Seq(Message)
        /\ \A k \in DOMAIN msgs : msgs[k].list => FrontKept(B, msgs[k].items)
    BY <2>1 DEF Writes, Follows, Tells
  <2>3. /\ queue'[o] = q
        /\ \A u \in Tabs \ {o} : queue'[u] = queue[u]
        /\ msgs = <<>> => inbox' = inbox
    BY <1>2, <2>2, CommitLists
  <2>4. Front(queue'[t].items, i)
    <3>1. CASE t # o
      BY <1>1, <2>3, <3>1
    <3>2. CASE t = o
      <4>1. Front(B, i)
        BY <1>1, <2>2, <3>2 DEF Base
      <4> QED
        BY <2>2, <2>3, <3>2, <4>1 DEF FrontKept
    <3> QED
      BY <3>1, <3>2
  <2>5. ASSUME msgs # <<>>, inbox'[t] # inbox[t]
        PROVE  \A k \in DOMAIN inbox'[t] : inbox'[t][k].list => Front(inbox'[t][k].items, i)
    <3>1. /\ B = stored.items
          /\ inbox'[t] = inbox[t] \o msgs
      <4>1. i \notin stale' /\ i \in Ids(stored.items) \cup (Ids(q.items) \cap Ids(B))
        BY <1>0, <1>1
      <4>2. /\ B = stored.items
            /\ \A u \in Tabs : inbox'[u] = IF u = o \/ page[u] = "closed" THEN inbox[u]
                                          ELSE inbox[u] \o msgs
        BY <1>0, <2>1, <2>5, <4>1, WrittenFrom
      <4> QED
        BY <2>5, <4>2
    <3>2. \A k \in DOMAIN msgs : msgs[k].list => Front(msgs[k].items, i)
      BY <1>1, <2>2, <3>1 DEF FrontKept
    <3>3. inbox[t] \in Seq(Message)
      BY <1>2
    <3>4. \A k \in DOMAIN (inbox[t] \o msgs) :
              \/ k \in DOMAIN inbox[t] /\ (inbox[t] \o msgs)[k] = inbox[t][k]
              \/ /\ k - Len(inbox[t]) \in DOMAIN msgs
                 /\ (inbox[t] \o msgs)[k] = msgs[k - Len(inbox[t])]
      BY <2>2, <3>3, Broadcast
    <3> QED
      BY <1>1, <3>1, <3>2, <3>4
  <2> QED
    BY <1>1, <2>3, <2>4, <2>5
<1>5. CASE Deliver(t)
  <2> DEFINE m == Head(inbox[t])
             q == [items |-> IF m.list THEN m.items ELSE queue[t].items,
                   run |-> IF m.run = NoRun THEN queue[t].run ELSE m.run]
  <2>1. inbox[t] # <<>> /\ inbox'[t] = Tail(inbox[t]) /\ queue'[t] = q
    BY <1>2, <1>5 DEF Deliver
  <2>2. /\ 1 \in DOMAIN inbox[t] /\ m = inbox[t][1]
        /\ \A k \in DOMAIN inbox'[t] : /\ k + 1 \in DOMAIN inbox[t]
                                       /\ inbox'[t][k] = inbox[t][k + 1]
    BY <1>2, <2>1
  <2>3. q.items = IF m.list THEN m.items ELSE queue[t].items
    OBVIOUS
  <2> HIDE DEF m, q
  <2> QED
    BY <1>1, <2>1, <2>2, <2>3
<1>6. ASSUME NEW o \in Tabs, Deliver(o) \/ Close(o), ~Deliver(t)
      PROVE  queue'[t] = queue[t] /\ inbox'[t] = inbox[t]
  <2>1. ~Close(t)
    <3>1. Close(t) => job'[t] = NoJob
      BY SenderOf DEF Close
    <3> QED
      BY <3>1, IdleGood DEF Recovering, Deciding
  <2>2. CASE Deliver(o)
    <3>1. o # t
      BY <1>6, <2>2
    <3> QED
      BY <1>2, <2>2, <3>1 DEF Deliver
  <2>3. CASE Close(o)
    <3>1. o # t
      BY <2>1, <2>3
    <3> QED
      BY <1>2, <2>3, <3>1 DEF Close
  <2> QED
    BY <1>6, <2>2, <2>3
<1> QED
  BY <1>3, <1>4, <1>5, <1>6, StepWrites DEF Passes

LEMMA FrontSteps ==
    ASSUME TypeInv, TurnInv, [Next]_vars
    PROVE  FrontInv'
<1> SUFFICES ASSUME NEW i \in Loud'
             PROVE  /\ Front(stored'.items, i)
                    /\ \A t \in Tabs : Recovering(t)' =>
                           /\ Front(queue'[t].items, i)
                           /\ \A k \in DOMAIN inbox'[t] :
                                  inbox'[t][k].list => Front(inbox'[t][k].items, i)
  BY DEF FrontInv
<1>1. /\ Grows /\ SyncInv /\ UnsentInv /\ CountInv /\ Loud \cap taken = {}
      /\ i \notin waived' \cup stale' /\ i \in InFlight'
  BY NextGrows DEF TurnInv, CountInv, Loud
<1>2. CASE posts' # posts
  <2>1. PICK o \in Tabs : /\ SendAnswered(o)
                          /\ MaySend(job[o], Reconciled(o))
                          /\ Post(o, Reconciled(o), News(o))
    BY <1>2, PostIsSend
  <2>2. \A t \in Tabs : ~Recovering(t)'
    BY <2>1, PostAlone
  <2>3. CASE i = job[o].id
    BY <1>1, <2>1, <2>2, <2>3, NewInFront
  <2>4. CASE i # job[o].id
    <3>1. net' = net \cup {[id |-> job[o].id, n |-> posts[job[o].id] + 1]}
      BY <1>1, <2>1, PostSteps
    <3>2. i \in InFlight
      BY <1>1, <2>4, <3>1 DEF InFlight
    <3>3. i \in Loud /\ i \in InFlight \ (taken \cup waived' \cup stale')
      BY <1>1, <3>2 DEF Loud, Grows
    <3>4. Front(stored.items, i)
      BY <3>3 DEF TurnInv, FrontInv
    <3>5. Front(stored'.items, i)
      BY <1>1, <3>3, <3>4, StoredFront
    <3> QED
      BY <2>2, <3>5
  <2> QED
    BY <2>3, <2>4
<1>3. CASE posts' = posts
  <2>1. i \in Loud /\ i \in InFlight \ (taken \cup waived' \cup stale')
    BY <1>3, LoudSteps
  <2>2. Front(stored.items, i) /\ i \in Ids(stored.items)
    BY <2>1, FrontIsIn DEF TurnInv, FrontInv, TypeInv, TypeOK, ListTypes, QueueType
  <2>3. Front(stored'.items, i)
    BY <1>1, <2>1, <2>2, StoredFront
  <2>4. ASSUME NEW t \in Tabs, Recovering(t)'
        PROVE  /\ Front(queue'[t].items, i)
               /\ \A k \in DOMAIN inbox'[t] :
                      inbox'[t][k].list => Front(inbox'[t][k].items, i)
    <3>1. CASE Recovering(t)
      BY <2>1, <2>4, <3>1, RecoveringFront
    <3>2. CASE ~Recovering(t)
      <4>1. Timed(t)
        BY <2>4, <3>2, NextDecides DEF Decides, Continues, Told, GoneOn
      <4>2. /\ inbox[t] = <<>> /\ inbox' = inbox /\ queue' = queue
            /\ queue[t].items # <<>> /\ Live(t)
        BY <4>1 DEF Timed, Live
      <4>3. queue[t].items = stored.items
        BY <1>1, <2>1, <2>2, <4>2, OwnCopy DEF Grows
      <4> QED
        BY <2>2, <4>2, <4>3
    <3> QED
      BY <3>1, <3>2
  <2> QED
    BY <2>3, <2>4
<1> QED
  BY <1>2, <1>3

LEMMA HeadSteps ==
    ASSUME TypeInv, TurnInv, [Next]_vars
    PROVE  HeadInv'
<1> SUFFICES ASSUME NEW t \in Tabs, Sending(t)', NEW i, i = job'[t].id,
                    i \in Ids(stored'.items), i \notin waived' \cup stale'
             PROVE  stored'.items # <<>> /\ stored'.items[1].id = i
  BY DEF HeadInv
<1>1. Grows /\ SyncInv /\ i \notin waived \cup stale /\ i \notin stale'
      /\ stale \subseteq stale'
  BY NextGrows DEF TurnInv, Grows
<1>2. TypeOK /\ stored.items \in Lists /\ stored'.items \in Lists
  <2>1. TypeInv'
    BY NextTypes
  <2> QED
    BY <2>1 DEF TypeInv, TypeOK, ListTypes, QueueType
<1>3. posts' = posts
  BY PostIsSend, PostAlone
<1>4. ASSUME stored'.items = stored.items, inbox[t] = <<>>, Live(t),
             queue[t].items # <<>>, queue[t].items[1].id = i
      PROVE  stored'.items # <<>> /\ stored'.items[1].id = i
  <2>1. queue[t].items = stored.items
    BY <1>1, <1>4, OwnCopy
  <2> QED
    BY <1>4, <2>1
<1>5. CASE Told(t)
  BY <1>5 DEF Told
<1>6. CASE Timed(t)
  BY <1>4, <1>6 DEF Timed, Live
<1>7. CASE GoneOn(t)
  <2>1. PICK q, msgs : /\ Commit(t, q, msgs) /\ q \in QueueType
                       /\ msgs = <<>> => q.items = queue[t].items
                       /\ q.items # <<>> /\ job'[t].id = q.items[1].id
                       /\ Bold(t) \/ Recovering(t)
    BY <1>7 DEF GoneOn
  <2>2. inbox[t] = <<>> /\ Live(t)
    BY <1>7, <2>1, IdleGood DEF GoneOn, Bold, Sending, Recovering, Deciding, Live
  <2>3. CASE msgs # <<>>
    BY <1>2, <2>1, <2>3, CommitLists
  <2>4. CASE msgs = <<>>
    BY <1>4, <2>1, <2>2, <2>4 DEF Commit
  <2> QED
    BY <2>3, <2>4
<1>8. CASE Continues(t)
  <2>1. Sending(t) /\ job[t].id = i
    BY <1>8 DEF Continues
  <2>2. CASE stored'.items = stored.items
    BY <1>1, <2>1, <2>2 DEF TurnInv, HeadInv
  <2>3. ASSUME NEW o \in Tabs, NEW q, NEW msgs, NEW B, Writes(o, q, msgs, B), msgs # <<>>
        PROVE  stored'.items # <<>> /\ stored'.items[1].id = i
    <3>1. stored'.items = q.items
      BY <1>2, <2>3, CommitLists DEF Writes
    <3>2. q.items \in Lists /\ i \in Ids(q.items)
      BY <2>3, <3>1 DEF Writes, QueueType
    <3>3. i \in made
      <4>1. PICK k \in DOMAIN q.items : i = q.items[k].id
        BY <3>2 DEF Ids
      <4>2. i \in Items
        <5>1. q.items[k] \in Entry
          BY <3>2, <4>1 DEF Lists
        <5> QED
          BY <4>1, <5>1 DEF Entry
      <4>3. i \in made \cup {NoItem}
        BY <1>2, <2>1 DEF TypeOK, SenderTypes, JobType
      <4> QED
        BY <4>2, <4>3, DistinctNulls
    <3>4. Ids(q.items) \subseteq Ids(B) \cup (made' \ made) /\ HeadKept(B, q.items)
      BY <2>3 DEF Writes, Follows
    <3>5. i \in Ids(B)
      BY <3>2, <3>3, <3>4
    <3>6. B = stored.items
      BY <1>1, <2>3, <3>2, <3>5, WrittenFrom
    <3>7. stored.items # <<>> /\ stored.items[1].id = i
      BY <1>1, <2>1, <3>5, <3>6 DEF TurnInv, HeadInv
    <3> QED
      BY <2>1, <3>1, <3>2, <3>4, <3>6, <3>7 DEF HeadKept
  <2>4. ASSUME NEW o \in Tabs, Rewrites(o)
        PROVE  stored'.items # <<>> /\ stored'.items[1].id = i
    <3>1. PICK q, msgs, B : Writes(o, q, msgs, B)
      BY <2>4 DEF Rewrites
    <3>2. msgs = <<>> => stored' = stored
      BY <3>1 DEF Writes, Commit
    <3> QED
      BY <2>2, <2>3, <3>1, <3>2
  <2> QED
    BY <2>2, <2>4, StepWrites DEF Deliver, Close, Passes
<1> QED
  BY <1>5, <1>6, <1>7, <1>8, NextDecides DEF Decides

LEMMA NextTurns ==
    ASSUME TypeInv, TurnInv, [Next]_vars
    PROVE  TurnInv'
<1>1. SyncInv /\ UnsentInv /\ CountInv
  BY DEF TurnInv
<1> QED
  BY <1>1, NextSync, NextUnsent, NextCount, QuietSteps, FrontSteps, HeadSteps DEF TurnInv

LEMMA InitTurns == Init => TurnInv
<1> SUFFICES ASSUME Init PROVE TurnInv
  OBVIOUS
<1>1. Loud = {} /\ \A t \in Tabs : ~Sending(t)
  BY DEF Init, Loud, InFlight, Sending, Deciding, NoJob
<1>2. SyncInv /\ UnsentInv
  BY DEF Init, SyncInv, UnsentInv, Newest, Untold, InStep, Empty
<1>3. CountInv
  BY <1>1 DEF Init, CountInv
<1> QED
  BY <1>1, <1>2, <1>3 DEF TurnInv, QuietInv, FrontInv, HeadInv

\* A sender starts to post only by sending.
LEMMA PostedBy ==
    ASSUME TypeInv, [Next]_vars, NEW t \in Tabs,
           job[t].pc = "answered", job'[t].pc = "posting"
    PROVE  /\ SendAnswered(t) /\ MaySend(job[t], Reconciled(t))
           /\ Post(t, Reconciled(t), News(t))
<1>1. job[t] \in JobType /\ job'[t] # job[t]
  BY DEF TypeInv, TypeOK, SenderTypes
<1>2. ASSUME NEW o \in Tabs, NEW j, Become(o, j)
      PROVE  o = t /\ j.pc = "posting"
  BY <1>1, <1>2, SenderOf
<1>3. ASSUME NEW role, NEW mode, NEW i, NEW forced
      PROVE  Asking(role, mode, i, forced).pc = "asking"
  BY DEF Asking, NoJob
<1>4. ~BackendStep
  <2>1. ASSUME NEW p, NEW r, Replied(p, r)
        PROVE  FALSE
    BY <1>1, <2>1 DEF Replied
  <2> QED
    BY <1>1, <2>1 DEF BackendStep, PostArrives, PostLost, RunEnds, RunLost, OtherRun
<1>5. \A o \in Tabs : ~TabStep(o)
  <2>1. \A o \in Tabs : ~Become(o, NoJob) /\ ~Become(o, Slot)
                        /\ ~Become(o, Asking("fg", "handoff", NoItem, FALSE))
    BY <1>2, <1>3, IdleGood
  <2> QED
    BY <1>1, <2>1 DEF TabStep, Open, Mount, Grant, Leave, Close, StartAllBackgroundQueues,
                      Deliver
<1>6. \A o \in Tabs : ~PanelStep(o)
  <2> SUFFICES ASSUME NEW o \in Tabs, PanelStep(o) PROVE FALSE
    OBVIOUS
  <2>1. ASSUME NEW mode, NEW i, StartsNow(o, Asking("fg", mode, i, FALSE))
        PROVE  FALSE
    BY <1>1, <1>2, <1>3, <2>1 DEF StartsNow
  <2>2. ASSUME NEW i \in Items, Interrupt(o, i)
        PROVE  FALSE
    <3> DEFINE a == Asking("fg", "send", i, TRUE)
               j == [a EXCEPT !.pc = "stopping"]
    <3>1. j.pc = "stopping"
      BY DEF Asking, NoJob
    <3>2. Become(o, j)
      BY <2>2 DEF Interrupt
    <3> HIDE DEF j
    <3> QED
      BY <1>2, <3>1, <3>2
  <2> QED
    BY <1>1, <2>1, <2>2 DEF PanelStep, Edit, Pause, Reorder, Clear, Resume, Enqueue, Remove,
                            Retry, Skip
<1>7. JobStep(t)
  <2>1. \A o \in Tabs : JobStep(o) => o = t
    <3>1. ASSUME NEW o \in Tabs, Turns(o)
          PROVE  o = t
      BY <1>1, <1>2, <3>1 DEF Turns, Takes
    <3> QED
      BY <3>1, JobTurns
  <2> QED
    BY <1>1, <1>4, <1>5, <1>6, <2>1 DEF Next, vars
<1>8. ~EndsTurn(t) /\ ~NextTurn(t) /\ \A i : ~GoesOn(t, i)
  BY <1>2, <1>3, IdleGood DEF EndsTurn, NextTurn, GoesOn
<1> DEFINE again == [job[t] EXCEPT !.pc = "asking", !.seen = {}, !.busy = FALSE]
           refreshing == [job[t] EXCEPT !.pc = "asking", !.mode = "refresh", !.seen = {}]
<1>9. ~Become(t, again) /\ ~Become(t, refreshing)
  <2>1. again.pc = "asking" /\ refreshing.pc = "asking"
    BY <1>1 DEF JobType
  <2> HIDE DEF again, refreshing
  <2> QED
    BY <1>2, <2>1
<1>10. SendAnswered(t)
  <2>1. ~SendLockFree
    BY DEF SendLockFree
  <2>2. ~TimerFires(t)
    BY <1>1, <2>1 DEF TimerFires
  <2>3. ~StillRunning(t) /\ ~RecoverAnswered(t) /\ ~HandoffAnswered(t) /\ ~SkipAnswered(t)
    BY <1>8, <1>9 DEF StillRunning, RecoverAnswered, HandoffAnswered, SkipAnswered, Recovered,
                      Stays
  <2> QED
    BY <1>7, <2>2, <2>3 DEF JobStep, Stopped, BgTurn, ReadHistory, ReadStatus, StatusFails,
                            PostReplied, DrainEnds
<1> QED
  BY <1>8, <1>9, <1>10 DEF SendAnswered, Stays

\* When a sender posts, the backend has decided every earlier post, or the
\* user knows of it.
LEMMA NoPostOnTop ==
    ASSUME TypeInv, TurnInv, [Next]_vars, NEW t \in Tabs,
           job[t].pc = "answered", job'[t].pc = "posting"
    PROVE  InFlight \subseteq waived \cup stale'
<1> SUFFICES ASSUME NEW i \in InFlight, i \notin waived \cup stale'
             PROVE  FALSE
  OBVIOUS
<1>1. stale \subseteq stale' /\ SyncInv /\ UnsentInv /\ CountInv
  BY NextGrows DEF Grows, TurnInv
<1>2. i \in Loud
  BY <1>1 DEF Loud
<1>3. Front(stored.items, i) /\ i \in Ids(stored.items)
  BY <1>2, FrontIsIn DEF TurnInv, FrontInv, TypeInv, TypeOK, ListTypes, QueueType
<1>4. SendAnswered(t) /\ MaySend(job[t], Reconciled(t)) /\ Post(t, Reconciled(t), News(t))
  BY PostedBy
<1> DEFINE j == job[t].id
<1>5. UNCHANGED <<taken, waived>> /\ job[t].mode \in {"send", "refresh"}
      /\ job[t].role \in {"fg", "bg"}
  BY <1>4 DEF SendAnswered, Post, Stays, TypeInv, JobInv
<1>6. ~Bold(t)
  BY <1>2 DEF TurnInv, QuietInv
<1>7. job[t].role = "bg" /\ Live(t)
  BY <1>5, <1>6, IdleGood DEF Bold, Sending, Deciding, Live
<1> DEFINE q == Reconciled(t)
           q1 == SetItemStatus(q, j, "sending")
           msgs == News(t) \o <<BothOf(q1)>>
<1>8. /\ TypeOK /\ q \in QueueType /\ FrontKept(queue[t].items, q.items)
      /\ \/ q = queue[t] /\ News(t) = <<>>
         \/ News(t) = <<BothOf(q)>>
  BY <1>5, ReconciledKept DEF TypeInv, Kept
<1>9. inbox[t] = <<>>
  <2>1. q1 \in QueueType
    BY <1>8, StatusMarks DEF Statuses
  <2>2. Commit(t, q1, msgs) /\ msgs # <<>>
    <3>1. msgs = <<BothOf(q1)>> \/ msgs = <<BothOf(q), BothOf(q1)>>
      BY <1>8, Singles
    <3> QED
      BY <1>4, <3>1 DEF Post, JobWrites
  <2> HIDE DEF q1, msgs
  <2> QED
    BY <1>3, <1>8, <2>1, <2>2, CommitLists
<1>10. queue[t].items = stored.items
  BY <1>1, <1>3, <1>7, <1>9, OwnCopy
<1>11. Front(q.items, i)
  <2>1. i \notin taken
    BY <1>1, <1>2 DEF CountInv
  <2> QED
    BY <1>3, <1>5, <1>8, <1>10, <2>1 DEF FrontKept
<1>12. i = j
  <2>1. Head(q.items).id = j /\ q.items # <<>>
    BY <1>4, <1>7, <1>11 DEF MaySend, Front
  <2> QED
    BY <1>8, <1>11, <2>1, HeadOf DEF Front
<1>13. posts[i] > 0
  <2>1. PICK p \in net : p.id = i
    BY DEF InFlight
  <2>2. p.n \in Nat /\ p.n > 0 /\ p.n <= posts[i] /\ i \in Items /\ posts[i] \in Nat
    BY <1>1, <2>1 DEF CountInv, TypeInv, TypeOK, SenderTypes, HistoryTypes
  <2> QED
    BY <2>2
<1>14. i \in waived' \cup stale'
  BY <1>1, <1>4, <1>12, <1>13, PostSteps
<1> QED
  BY <1>5, <1>14

\* Turns do not pile up: a sender posts a message only when the backend has
\* decided every earlier post, but for those the user knows of and those that
\* were written or picked from a copy with undelivered news.
THEOREM OneTurn == Spec => OneTurnAtATime
<1>1. TypeInv /\ TurnInv /\ [Next]_vars => TurnInv'
  BY NextTurns
<1>2. TypeInv /\ TurnInv /\ [Next]_vars
          => [\A t \in Tabs :
                 job[t].pc = "answered" /\ job'[t].pc = "posting"
                     => InFlight \subseteq waived \cup stale']_vars
  BY NoPostOnTop
<1> QED
  BY InitTypes, NextTypes, InitTurns, <1>1, <1>2, PTL DEF Spec, OneTurnAtATime

(***************************************************************************)
(* Two ways in which sending stalls.                                       *)
(***************************************************************************)

\* The page shows a conversation it owns, and the head may be sent.
Waits(t) ==
    /\ page[t] = "here" /\ owner = t
    /\ ~Halted(queue[t])
    /\ HeadIn(queue[t], {"pending", "sending"})

\* The sender of the page is about to send the head, to find out what became
\* of it, or to arm the timer.
Committed(t) ==
    /\ Deciding(t)
    /\ \/ job[t].mode = "handoff"
       \/ /\ job[t].role = "fg"
          /\ job[t].id = Head(queue[t].items).id
          /\ \/ /\ job[t].mode \in {"send", "refresh"}
                /\ Head(queue[t].items).st = "pending"
             \/ /\ job[t].mode = "recover"
                /\ Head(queue[t].items).st = "sending"

Attended(t) == Waits(t) => wake[t] \/ Committed(t)
HeadIsAttended == \A t \in Tabs : Attended(t)

\* The timer's attempt finds the send lock taken and is dropped.
DropsAttempt == \E t \in Tabs : TimerFires(t) /\ ~SendLockFree

\* The refresh of the history before a retried message is sent finds that
\* another run has started, and gives up.
GivesUpRefresh == \E t \in Tabs : StillRunning(t) /\ job[t].mode = "refresh"

\* What a step of tab o may change.
Elsewhere(o) ==
    /\ owner' \in {owner, NoTab, o}
    /\ UNCHANGED page \/ \E p : page' = [page EXCEPT ![o] = p]
    /\ UNCHANGED queue \/ \E q : queue' = [queue EXCEPT ![o] = q]
    /\ UNCHANGED wake \/ \E w : wake' = [wake EXCEPT ![o] = w]
    /\ UNCHANGED job \/ \E j : Become(o, j)

LEMMA TabElsewhere ==
    ASSUME NEW o \in Tabs, TabStep(o)
    PROVE  Elsewhere(o)
<1>1. CASE Open(o)
  BY <1>1 DEF Elsewhere, Open, locks
<1>2. CASE Mount(o)
  BY <1>2 DEF Elsewhere, Mount, Commit
<1>3. CASE Grant(o)
  BY <1>3 DEF Elsewhere, Grant
<1>4. CASE Leave(o)
  BY <1>4 DEF Elsewhere, Leave
<1>5. CASE Close(o)
  BY <1>5 DEF Elsewhere, Close
<1>6. CASE StartAllBackgroundQueues(o)
  BY <1>6 DEF Elsewhere, StartAllBackgroundQueues, locks
<1>7. CASE Deliver(o)
  BY <1>7 DEF Elsewhere, Deliver, Rearm, locks
<1> QED
  BY <1>1, <1>2, <1>3, <1>4, <1>5, <1>6, <1>7 DEF TabStep

\* A control writes the queue, or interrupts what runs.
Written(t) == \E q, msgs : Edits(t, q, msgs) /\ msgs # <<>>

LEMMA PanelEdits ==
    ASSUME NEW t \in Tabs, PanelStep(t)
    PROVE  /\ Written(t) \/ \E i \in Items : Interrupt(t, i)
           /\ UNCHANGED job \/ \E j : Become(t, j)
<1> DEFINE Starts == UNCHANGED job \/ \E j : Become(t, j)
<1>1. \A a, b : <<a>> # <<>> /\ <<a, b>> # <<>>
  OBVIOUS
<1>2. ASSUME NEW q, NEW msgs, NEW again, NEW gone, Intervene(t, q, msgs, again, gone),
             msgs # <<>>
      PROVE  Written(t)
  BY <1>2 DEF Intervene, Written
<1>3. ASSUME NEW j, StartsNow(t, j)
      PROVE  Starts
  BY <1>3 DEF StartsNow
<1>4. CASE Edit(t)
  <2>1. Edits(t, queue[t], <<ListOf(queue[t])>>) /\ UNCHANGED job
    BY <1>4 DEF Edit
  <2> QED
    BY <1>1, <2>1, Zenon DEF Written
<1>5. CASE Pause(t)
  <2>1. (\E q : Edits(t, q, <<RunOf(q)>>)) /\ UNCHANGED job
    BY <1>5 DEF Pause
  <2> QED
    BY <1>1, <2>1, Zenon DEF Written
<1>6. ASSUME NEW i \in Items, Enqueue(t, i)
      PROVE  Written(t) /\ Starts
  <2>1. (\E q : Edits(t, q, <<ListOf(q)>>)) /\ UNCHANGED job
    BY <1>6 DEF Enqueue
  <2> QED
    BY <1>1, <2>1, Zenon DEF Written
<1>7. CASE Reorder(t)
  <2>1. (\E q : Intervene(t, q, <<ListOf(q)>>, {}, {})) /\ UNCHANGED job
    BY <1>7 DEF Reorder
  <2> QED
    BY <1>1, <1>2, <2>1, Zenon
<1>8. ASSUME NEW i \in Items, Remove(t, i)
      PROVE  Written(t) /\ Starts
  <2>1. (\E q : Intervene(t, q, <<ListOf(q)>>, {}, {i})) /\ UNCHANGED job
    BY <1>8 DEF Remove
  <2> QED
    BY <1>1, <1>2, <2>1, Zenon
<1>9. CASE Clear(t)
  <2>1. (\E gone : Intervene(t, Empty, <<ListOf(Empty)>>, {}, gone)) /\ UNCHANGED job
    BY <1>9 DEF Clear
  <2> QED
    BY <1>1, <1>2, <2>1, Zenon
<1>10. CASE Resume(t)
  <2> DEFINE i == Head(queue[t].items).id
             failed == HeadIn(queue[t], {"failed"})
             q1 == IF failed THEN SetItemStatus(queue[t], i, "pending") ELSE queue[t]
             q == [q1 EXCEPT !.run = "idle"]
             msgs == (IF failed THEN <<BothOf(q1)>> ELSE <<>>) \o <<RunOf(q)>>
             again == IF failed THEN {i} ELSE {}
             j == Asking("fg", "send", i, FALSE)
  <2>1. Intervene(t, q, msgs, again, {}) /\ StartsNow(t, j)
    BY <1>10 DEF Resume
  <2>2. msgs # <<>>
    <3>1. CASE failed
      BY <3>1, Singles
    <3>2. CASE ~failed
      BY <3>2, Singles
    <3> QED
      BY <3>1, <3>2
  <2> HIDE DEF q, msgs, again, j
  <2> QED
    BY <1>2, <1>3, <2>1, <2>2, Zenon
<1>11. ASSUME NEW i \in Items, Retry(t, i)
       PROVE  Written(t) /\ Starts
  <2> DEFINE j == Asking("fg", "send", i, FALSE)
  <2>1. (\E q1, q : Intervene(t, q, <<BothOf(q1), RunOf(q)>>, {i}, {})) /\ StartsNow(t, j)
    BY <1>11 DEF Retry
  <2> HIDE DEF j
  <2> QED
    BY <1>1, <1>2, <1>3, <2>1, Zenon
<1>12. ASSUME NEW i \in Items, Skip(t, i)
       PROVE  Written(t) /\ Starts
  <2> DEFINE q1 == RemoveItem(queue[t], i)
             q == IF queue[t].run = "paused" THEN q1 ELSE [q1 EXCEPT !.run = "idle"]
             paused == q.run = "paused"
             msgs == <<ListOf(q)>> \o IF paused THEN <<>> ELSE <<RunOf(q)>>
             j == Asking("fg", "skip", i, FALSE)
  <2>1. Intervene(t, q, msgs, {}, {i}) /\ StartsNow(t, j)
    BY <1>12 DEF Skip
  <2>2. msgs # <<>>
    <3> HIDE DEF q, paused
    <3>1. CASE paused
      BY <3>1, Singles
    <3>2. CASE ~paused
      BY <3>2, Singles
    <3> QED
      BY <3>1, <3>2
  <2> HIDE DEF q, msgs, j
  <2> QED
    BY <1>2, <1>3, <2>1, <2>2, Zenon
<1>13. ASSUME NEW i \in Items, Interrupt(t, i)
       PROVE  Starts
  BY <1>13 DEF Interrupt
<1> QED
  BY <1>4, <1>5, <1>6, <1>7, <1>8, <1>9, <1>10, <1>11, <1>12, <1>13 DEF PanelStep

LEMMA PanelElsewhere ==
    ASSUME NEW o \in Tabs, PanelStep(o)
    PROVE  Elsewhere(o)
<1>1. ASSUME NEW q, NEW msgs, Edits(o, q, msgs), UNCHANGED job \/ \E j : Become(o, j)
      PROVE  Elsewhere(o)
  BY <1>1 DEF Elsewhere, Edits, Commit, Rearm, locks
<1>2. ASSUME NEW i \in Items, Interrupt(o, i)
      PROVE  Elsewhere(o)
  BY <1>2 DEF Elsewhere, Interrupt, locks
<1> QED
  BY <1>1, <1>2, PanelEdits DEF Written

\* A step of a sender leaves the queue alone or writes it.
LEMMA JobEdits ==
    ASSUME NEW o \in Tabs, JobStep(o)
    PROVE  /\ UNCHANGED queue \/ \E q : queue' = [queue EXCEPT ![o] = q]
           /\ UNCHANGED wake \/ \E w : wake' = [wake EXCEPT ![o] = w]
<1> DEFINE Goal == /\ UNCHANGED queue \/ \E q : queue' = [queue EXCEPT ![o] = q]
                   /\ UNCHANGED wake \/ \E w : wake' = [wake EXCEPT ![o] = w]
<1>1. ASSUME NEW q, NEW msgs, Commit(o, q, msgs), Rearm(o, q, msgs)
      PROVE  Goal
  BY <1>1 DEF Commit, Rearm
<1>2. ASSUME NEW q, NEW msgs, Recovered(o, q, msgs) \/ Fails(o, q, msgs) \/ Post(o, q, msgs)
      PROVE  Goal
  <2>1. \E a, b : JobWrites(o, a, b)
    BY <1>2 DEF Recovered, Fails, Post
  <2> QED
    BY <1>1, <2>1 DEF JobWrites
<1>3. CASE TimerFires(o) \/ BgTurn(o) \/ ReadHistory(o) \/ ReadStatus(o)
  BY <1>3 DEF TimerFires, BgTurn, ReadHistory, ReadStatus
<1>4. CASE Stopped(o)
  <2>1. \/ \E q, msgs : Commit(o, q, msgs) /\ (Rearm(o, q, msgs) \/ UNCHANGED wake)
        \/ UNCHANGED <<queue, wake>>
    BY <1>4 DEF Stopped
  <2> QED
    BY <1>1, <2>1 DEF Commit
<1>5. CASE StatusFails(o)
  <2>1. \/ \E q, msgs : Recovered(o, q, msgs) \/ Fails(o, q, msgs)
        \/ \E q, msgs : JobWrites(o, q, msgs)
        \/ \E q, msgs : Commit(o, q, msgs) /\ wake' = [wake EXCEPT ![o] = TRUE]
    BY <1>5 DEF StatusFails
  <2> QED
    BY <1>1, <1>2, <2>1 DEF JobWrites, Commit
<1>6. CASE StillRunning(o) \/ SkipAnswered(o) \/ DrainEnds(o)
  BY <1>1, <1>6 DEF StillRunning, SkipAnswered, DrainEnds, JobWrites
<1>7. CASE RecoverAnswered(o)
  BY <1>2, <1>7 DEF RecoverAnswered
<1>8. CASE HandoffAnswered(o)
  BY <1>8 DEF HandoffAnswered, Commit
<1>9. CASE SendAnswered(o)
  <2>1. Post(o, Reconciled(o), News(o)) \/ JobWrites(o, Reconciled(o), News(o))
    BY <1>9 DEF SendAnswered
  <2> QED
    BY <1>1, <1>2, <2>1 DEF JobWrites
<1>10. CASE PostReplied(o)
  <2>1. \/ Fails(o, queue[o], <<>>)
        \/ \E q, msgs : JobWrites(o, q, msgs)
    BY <1>10 DEF PostReplied
  <2> QED
    BY <1>1, <1>2, <2>1 DEF JobWrites
<1> QED
  BY <1>3, <1>4, <1>5, <1>6, <1>7, <1>8, <1>9, <1>10 DEF JobStep

LEMMA JobElsewhere ==
    ASSUME TypeInv, NEW o \in Tabs, JobStep(o)
    PROVE  Elsewhere(o)
<1>1. /\ UNCHANGED page
      /\ UNCHANGED <<job, owner>> \/ \E j : Takes(o, j)
  BY JobTurns DEF Turns
<1>2. ASSUME NEW j, Takes(o, j)
      PROVE  Become(o, j) /\ owner' \in {owner, NoTab, o}
  BY <1>2 DEF Takes
<1> QED
  BY <1>1, <1>2, JobEdits DEF Elsewhere

\* A step of another tab.
LEMMA OthersAttended ==
    ASSUME TypeInv, NEW t \in Tabs, NEW o \in Tabs, o # t, Elsewhere(o), Attended(t)
    PROVE  Attended(t)'
<1>1. /\ page \in [Tabs -> {"closed", "away", "here"}] /\ wake \in [Tabs -> BOOLEAN]
      /\ job \in [Tabs -> JobType] /\ queue \in [Tabs -> QueueType]
  BY DEF TypeInv, TypeOK, PageTypes, SenderTypes, ListTypes
<1>2. owner' = t => owner = t
  BY DistinctNulls DEF Elsewhere
<1>3. page'[t] = page[t]
  BY <1>1 DEF Elsewhere
<1>4. queue'[t] = queue[t]
  BY <1>1 DEF Elsewhere
<1>5. wake'[t] = wake[t]
  <2>1. CASE UNCHANGED wake
    BY <2>1
  <2>2. ASSUME NEW w, wake' = [wake EXCEPT ![o] = w]
        PROVE  wake'[t] = wake[t]
    BY <1>1, <2>2, Zenon
  <2> QED
    BY <2>1, <2>2 DEF Elsewhere
<1>6. job'[t] = job[t]
  BY <1>1 DEF Elsewhere, Become
<1>7. Waits(t)' => Waits(t)
  BY <1>2, <1>3, <1>4 DEF Waits
<1>8. Committed(t) => Committed(t)'
  BY <1>4, <1>6 DEF Committed, Deciding
<1> QED
  BY <1>5, <1>7, <1>8, Zenon DEF Attended

\* A write of the page's own tab arms the timer; without one the queue stays.
LEMMA ArmedBy ==
    ASSUME TypeInv, NEW t \in Tabs, NEW q, NEW msgs, Commit(t, q, msgs),
           Rearm(t, q, msgs), page' = page
    PROVE  /\ queue'[t] = q
           /\ wake[t] => wake'[t]
           /\ msgs # <<>> /\ Waits(t)' => wake'[t]
<1>1. wake \in [Tabs -> BOOLEAN] /\ queue \in [Tabs -> QueueType]
  BY DEF TypeInv, TypeOK, PageTypes, ListTypes
<1>2. queue'[t] = q
  BY <1>1 DEF Commit
<1>3. wake'[t] <=> \/ wake[t]
                   \/ msgs # <<>> /\ page[t] = "here" /\ q.items # <<>>
  BY <1>1, Zenon DEF Rearm
<1>4. Waits(t)' => page[t] = "here" /\ q.items # <<>>
  BY <1>2 DEF Waits, HeadIn
<1> QED
  BY <1>2, <1>3, <1>4, Zenon

\* Nobody else's turn: the timer stays as it is, and no sender has ended.
LEMMA QuietAttended ==
    ASSUME TypeInv, NEW t \in Tabs, Attended(t), Waits(t)' => Waits(t),
           wake[t] => wake'[t], Committed(t) => wake'[t] \/ Committed(t)'
    PROVE  Attended(t)'
BY Zenon DEF Attended

LEMMA TabAttended ==
    ASSUME TypeInv, NEW t \in Tabs, TabStep(t)
    PROVE  Attended(t)'
<1>1. /\ page \in [Tabs -> {"closed", "away", "here"}] /\ wake \in [Tabs -> BOOLEAN]
      /\ queue \in [Tabs -> QueueType] /\ t # NoTab
  BY DistinctNulls DEF TypeInv, TypeOK, PageTypes, ListTypes
<1>2. CASE Open(t) \/ Leave(t) \/ Close(t)
  BY <1>1, <1>2 DEF Open, Leave, Close, Attended, Waits
<1>3. CASE Mount(t)
  BY <1>1, <1>3 DEF Mount, Attended, Waits
<1>4. CASE StartAllBackgroundQueues(t)
  BY <1>1, <1>4 DEF StartAllBackgroundQueues, Attended, Waits
<1>5. CASE Grant(t)
  <2>1. queue' = queue /\ wake' = [wake EXCEPT ![t] = @ \/ queue[t].items # <<>>]
    BY <1>5 DEF Grant
  <2>2. queue[t].items # <<>> => wake'[t]
    BY <1>1, <2>1, Zenon
  <2>3. Waits(t)' => queue[t].items # <<>>
    BY <2>1 DEF Waits, HeadIn
  <2> QED
    BY <2>2, <2>3, Zenon DEF Attended
<1>6. CASE Deliver(t)
  <2> DEFINE m == Head(inbox[t])
             q == [items |-> IF m.list THEN m.items ELSE queue[t].items,
                   run |-> IF m.run = NoRun THEN queue[t].run ELSE m.run]
  <2>1. /\ queue' = [queue EXCEPT ![t] = q] /\ page' = page
        /\ wake' = [wake EXCEPT ![t] =
                       @ \/ (<<m>> # <<>> /\ page[t] = "here" /\ q.items # <<>>)]
    BY <1>6 DEF Deliver, Rearm
  <2> HIDE DEF m, q
  <2>2. queue'[t] = q /\ <<m>> # <<>>
    BY <1>1, <2>1
  <2>3. page[t] = "here" /\ q.items # <<>> => wake'[t]
    BY <1>1, <2>1, <2>2, Zenon
  <2>4. Waits(t)' => page[t] = "here" /\ q.items # <<>>
    BY <2>1, <2>2 DEF Waits, HeadIn
  <2> QED
    BY <2>3, <2>4, Zenon DEF Attended
<1> QED
  BY <1>2, <1>3, <1>4, <1>5, <1>6 DEF TabStep

LEMMA PanelAttended ==
    ASSUME TypeInv, NEW t \in Tabs, PanelStep(t), Attended(t)
    PROVE  Attended(t)'
<1>1. CASE Written(t)
  <2>1. PICK q, msgs : Edits(t, q, msgs) /\ msgs # <<>>
    BY <1>1 DEF Written
  <2>2. Commit(t, q, msgs) /\ Rearm(t, q, msgs) /\ page' = page
    BY <2>1 DEF Edits
  <2>3. Waits(t)' => wake'[t]
    BY <2>1, <2>2, ArmedBy
  <2> QED
    BY <2>3, Zenon DEF Attended
<1>2. ASSUME NEW i \in Items, Interrupt(t, i)
      PROVE  Attended(t)'
  <2>1. /\ UNCHANGED <<page, queue, owner, wake>>
        /\ job[t].pc \in {"none", "slot"}
    BY <1>2 DEF Interrupt, locks, SendLockFree
  <2>2. ~Committed(t) /\ (Waits(t)' => Waits(t))
    BY <2>1 DEF Committed, Deciding, Waits
  <2>3. wake[t] => wake'[t]
    BY <2>1
  <2> QED
    BY <2>2, <2>3, QuietAttended
<1> QED
  BY <1>1, <1>2, PanelEdits

LEMMA BackendAttended ==
    ASSUME TypeInv, NEW t \in Tabs, BackendStep, Attended(t)
    PROVE  Attended(t)'
<1>1. UNCHANGED <<page, queue, owner, wake>>
  BY DEF BackendStep, PostArrives, PostLost, RunEnds, RunLost, OtherRun, BackendRest, locks
<1>2. UNCHANGED job \/ \E p \in net : Replied(p, "ok") \/ Replied(p, "bad")
  BY DEF BackendStep, PostArrives, PostLost, RunEnds, RunLost, OtherRun
<1>3. Committed(t) => job'[t] = job[t]
  <2>1. ASSUME NEW p, NEW r, Replied(p, r), Committed(t)
        PROVE  job'[t] = job[t]
    BY <2>1 DEF Replied, Committed, Deciding
  <2> QED
    BY <1>2, <2>1
<1>4. Committed(t) => Committed(t)'
  BY <1>1, <1>3 DEF Committed, Deciding
<1>5. Waits(t)' => Waits(t)
  BY <1>1 DEF Waits
<1>6. wake[t] => wake'[t]
  BY <1>1
<1> QED
  BY <1>4, <1>5, <1>6, QuietAttended

\* The head of the queue a page has committed its sender to.
LEMMA HeadCommitted ==
    ASSUME TypeInv, NEW t \in Tabs, Committed(t), job[t].mode # "handoff",
           HeadIn(queue[t], {"pending", "sending"})
    PROVE  /\ job[t].role = "fg" /\ job[t].id \in Ids(queue[t].items)
           /\ Has(queue[t], job[t].id, Head(queue[t].items).st)
           /\ \/ /\ job[t].mode \in {"send", "refresh"}
                 /\ Head(queue[t].items).st = "pending"
              \/ job[t].mode = "recover" /\ Head(queue[t].items).st = "sending"
<1> DEFINE q == queue[t]
<1>1. q \in QueueType /\ q.items # <<>>
  BY QueueOf DEF HeadIn, TypeInv
<1>2. 1 \in DOMAIN q.items /\ Head(q.items) = q.items[1]
      /\ Head(q.items).id \in Ids(q.items)
  BY <1>1, HeadOf DEF QueueType, Lists
<1>3. Has(q, Head(q.items).id, Head(q.items).st)
  BY <1>2 DEF Has
<1> QED
  BY <1>2, <1>3 DEF Committed

LEMMA TimerAttended ==
    ASSUME TypeInv, NEW t \in Tabs, TimerFires(t), SendLockFree
    PROVE  Attended(t)'
<1> DEFINE q == queue[t]
           ready == /\ owner = t
                    /\ ~Halted(q)
                    /\ HeadIn(q, {"pending", "sending"})
                    /\ SendLockFree
           mode == IF HeadIn(q, {"sending"}) THEN "recover" ELSE "send"
<1>1. /\ UNCHANGED <<page, queue, owner>>
      /\ IF ready THEN Become(t, Asking("fg", mode, Head(q.items).id, FALSE))
         ELSE UNCHANGED job
  BY DEF TimerFires, locks
<1>2. CASE ~ready
  <2>1. ~Waits(t)'
    BY <1>1, <1>2 DEF Waits
  <2> QED
    BY <2>1 DEF Attended
<1>3. CASE ready
  <2>1. Head(q.items).st \in {"pending", "sending"}
        /\ mode = IF Head(q.items).st = "sending" THEN "recover" ELSE "send"
    BY <1>3 DEF HeadIn
  <2> HIDE DEF mode
  <2>2. job'[t] = Asking("fg", mode, Head(q.items).id, FALSE)
    BY <1>1, <1>3, SenderOf
  <2>3. job'[t].mode = mode /\ job'[t].id = Head(q.items).id /\ job'[t].role = "fg"
        /\ job'[t].pc = "asking"
    BY <2>2 DEF Asking, NoJob
  <2>4. Committed(t)'
    BY <1>1, <2>1, <2>3 DEF Committed, Deciding
  <2> QED
    BY <2>4, Zenon DEF Attended
<1> QED
  BY <1>2, <1>3

\* A sender that recovers the head arms the timer: the head is what it was
\* committed to, and the step writes it as failed.
LEMMA RecoveredAttended ==
    ASSUME TypeInv, NEW t \in Tabs, Attended(t), Deciding(t), job[t].mode = "recover",
           page' = page, NEW q, NEW msgs,
           \/ q = queue[t] /\ msgs = <<>>
           \/ msgs = <<BothOf(q)>>,
           Recovered(t, q, msgs)
    PROVE  Attended(t)'
<1> DEFINE i == job[t].id
           lost == Has(q, i, "sending") /\ q.run # "paused"
           q1 == IF lost THEN SetItemStatus(q, i, "failed") ELSE q
           out == msgs \o IF lost THEN <<BothOf(q1)>> ELSE <<>>
<1>1. Commit(t, q1, out) /\ Rearm(t, q1, out)
  BY DEF Recovered, JobWrites
<1>2. CASE out # <<>>
  <2> HIDE DEF q1, out
  <2>1. Waits(t)' => wake'[t]
    BY <1>1, <1>2, ArmedBy
  <2> QED
    BY <2>1, Zenon DEF Attended
<1>3. CASE out = <<>>
  <2>1. ~lost /\ q1 = queue[t]
    <3> HIDE DEF q1
    <3>1. lost => out # <<>>
      BY Singles
    <3>2. msgs = <<>> /\ q = queue[t]
      BY <1>3, <3>1, Singles
    <3> QED
      BY <1>3, <3>1, <3>2 DEF q1
  <2>2. queue'[t] = queue[t] /\ (wake[t] => wake'[t])
    <3> HIDE DEF q1, out
    <3> QED
      BY <1>1, <2>1, ArmedBy
  <2>3. Waits(t)' => Waits(t)
    BY <2>2 DEF Waits, Deciding, TypeInv, TypeOK
  <2>4. ~(Waits(t)' /\ Committed(t))
    <3> SUFFICES ASSUME Waits(t)', Committed(t)
                 PROVE  FALSE
      OBVIOUS
    <3>1. Has(queue[t], i, "sending")
      BY <2>3, HeadCommitted DEF Waits
    <3>2. queue[t].run # "paused"
      BY <2>3 DEF Waits, Halted
    <3>3. q = queue[t]
      BY <2>1
    <3> QED
      BY <2>1, <3>1, <3>2, <3>3
  <2> QED
    BY <2>2, <2>3, <2>4, Zenon DEF Attended
<1> QED
  BY <1>2, <1>3

LEMMA StatusFailsAttended ==
    ASSUME TypeInv, NEW t \in Tabs, Attended(t), StatusFails(t)
    PROVE  Attended(t)'
<1> DEFINE q == queue[t]
<1>1. page' = page /\ Deciding(t) /\ job[t].pc = "asking"
  BY DEF StatusFails, JobRest, Deciding
<1>2. owner = t
  BY <1>1 DEF TypeInv, TypeOK, Deciding
<1>3. wake \in [Tabs -> BOOLEAN]
  BY DEF TypeInv, TypeOK, PageTypes
<1>4. CASE job[t].mode = "recover" /\ Recovered(t, q, <<>>)
  BY <1>1, <1>4, RecoveredAttended
<1>5. CASE Fails(t, q, <<>>)
  <2>1. PICK q1 : JobWrites(t, q1, <<>> \o <<BothOf(q1)>>)
    BY <1>5 DEF Fails
  <2>2. <<>> \o <<BothOf(q1)>> # <<>>
    BY Singles
  <2>3. Waits(t)' => wake'[t]
    BY <1>1, <2>1, <2>2, ArmedBy DEF JobWrites
  <2> QED
    BY <2>3, Zenon DEF Attended
<1>6. CASE job[t].mode = "handoff" /\ wake' = [wake EXCEPT ![t] = TRUE]
  <2>1. wake'[t]
    BY <1>3, <1>6, Zenon
  <2> QED
    BY <2>1, Zenon DEF Attended
<1>7. CASE /\ JobWrites(t, q, <<>>)
           /\ \/ job[t].mode = "skip"
              \/ /\ job[t].mode \in {"send", "refresh"}
                 /\ ~(job[t].role = "fg" /\ job[t].id \in Ids(q.items))
  <2>1. queue'[t] = q /\ (wake[t] => wake'[t])
    BY <1>1, <1>7, ArmedBy DEF JobWrites
  <2>2. Waits(t)' => Waits(t)
    BY <1>1, <1>2, <2>1 DEF Waits
  <2>3. ~(Waits(t)' /\ Committed(t))
    BY <1>7, <2>2, HeadCommitted DEF Waits
  <2> QED
    BY <2>1, <2>2, <2>3, Zenon DEF Attended
<1> QED
  BY <1>4, <1>5, <1>6, <1>7 DEF StatusFails

\* The answer that the chat is idle finds the head as it was, or writes.
LEMMA AnswersAttended ==
    ASSUME TypeInv, NEW t \in Tabs, Attended(t),
           \/ StillRunning(t) /\ job[t].mode # "refresh"
           \/ RecoverAnswered(t) \/ HandoffAnswered(t) \/ SkipAnswered(t)
    PROVE  Attended(t)'
<1> DEFINE q == Reconciled(t)
<1>1. page' = page /\ Deciding(t) /\ taken' = taken
  BY DEF StillRunning, RecoverAnswered, HandoffAnswered, SkipAnswered, Answered, JobRest, Deciding
<1>2. owner = t
  BY <1>1 DEF TypeInv, TypeOK, Deciding
<1>3. wake \in [Tabs -> BOOLEAN] /\ job[t] \in JobType
  BY DEF TypeInv, TypeOK, PageTypes, SenderTypes
<1>4. \/ q = queue[t] /\ News(t) = <<>>
      \/ News(t) = <<BothOf(q)>>
  BY <1>1, ReconciledKept DEF TypeInv
<1>5. CASE RecoverAnswered(t)
  <2>1. job[t].mode = "recover" /\ Recovered(t, q, News(t))
    BY <1>5 DEF RecoverAnswered, Answered
  <2> HIDE DEF q
  <2> QED
    BY <1>1, <1>4, <2>1, RecoveredAttended
<1>6. CASE HandoffAnswered(t)
  <2>1. wake'[t]
    BY <1>3, <1>6, Zenon DEF HandoffAnswered
  <2> QED
    BY <2>1, Zenon DEF Attended
<1>7. CASE /\ JobWrites(t, q, News(t))
           /\ \/ job[t].mode = "skip"
              \/ Committed(t) => Committed(t)' \/ News(t) # <<>>
  <2>1. /\ queue'[t] = q /\ (wake[t] => wake'[t])
        /\ News(t) # <<>> /\ Waits(t)' => wake'[t]
    BY <1>1, <1>7, ArmedBy DEF JobWrites
  <2>2. CASE News(t) # <<>>
    BY <2>1, <2>2, Zenon DEF Attended
  <2>3. CASE News(t) = <<>>
    <3>1. q = queue[t]
      <4>1. <<BothOf(q)>> # <<>>
        OBVIOUS
      <4> QED
        BY <1>4, <2>3, <4>1
    <3>2. Waits(t)' => Waits(t)
      BY <1>1, <1>2, <2>1, <3>1 DEF Waits
    <3>3. Waits(t)' /\ Committed(t) => Committed(t)'
      BY <1>7, <2>3, <3>2, HeadCommitted DEF Waits
    <3> QED
      BY <2>1, <3>2, <3>3, Zenon DEF Attended
  <2> QED
    BY <2>2, <2>3
<1>8. CASE SkipAnswered(t)
  BY <1>7, <1>8 DEF SkipAnswered, Answered
<1>9. CASE StillRunning(t) /\ job[t].mode # "refresh"
  <2> DEFINE j == [job[t] EXCEPT !.pc = "asking", !.seen = {}, !.busy = FALSE]
  <2>1. Become(t, j) /\ JobWrites(t, q, News(t))
    BY <1>9 DEF StillRunning, Stays
  <2>2. /\ j.pc = "asking" /\ j.id = job[t].id /\ j.role = job[t].role
        /\ j.mode = job[t].mode
    BY <1>3 DEF JobType
  <2> HIDE DEF j
  <2>3. job'[t] = j
    BY <2>1, SenderOf
  <2>4. queue'[t] = q
    <3> HIDE DEF q
    <3> QED
      BY <1>1, <2>1, ArmedBy DEF JobWrites
  <2>5. Committed(t) => Committed(t)' \/ News(t) # <<>>
    <3> HIDE DEF q
    <3>1. <<BothOf(q)>> # <<>>
      OBVIOUS
    <3> QED
      BY <1>4, <2>2, <2>3, <2>4, <3>1 DEF Committed, Deciding
  <2> QED
    BY <1>7, <2>1, <2>5
<1> QED
  BY <1>5, <1>6, <1>8, <1>9

\* A tab whose page is shown has no background sender.
AwayInv ==
    \A t \in Tabs : page[t] = "here" =>
        job[t].role # "bg" /\ job[t].pc \notin {"slot", "draining"}

LEMMA SendAttended ==
    ASSUME TypeInv, NEW t \in Tabs, Attended(t), SendAnswered(t)
    PROVE  Attended(t)'
<1> DEFINE q == Reconciled(t)
           j == [job[t] EXCEPT !.pc = "asking", !.mode = "refresh", !.seen = {}]
<1>1. /\ page' = page /\ Deciding(t) /\ taken' = taken
      /\ job[t].mode \in {"send", "refresh"}
  BY DEF SendAnswered, Deciding
<1>2. owner = t
  BY <1>1 DEF TypeInv, TypeOK, Deciding
<1>3. job[t] \in JobType
  BY DEF TypeInv, TypeOK, SenderTypes
<1>4. \/ q = queue[t] /\ News(t) = <<>>
      \/ News(t) = <<BothOf(q)>>
  BY <1>1, ReconciledKept DEF TypeInv
<1>5. CASE Post(t, q, News(t))
  <2> DEFINE out(q1) == News(t) \o <<BothOf(q1)>>
  <2>1. PICK q1 : JobWrites(t, q1, out(q1))
    BY <1>5 DEF Post
  <2>2. out(q1) # <<>>
    <3>1. CASE News(t) = <<>>
      BY <3>1, Singles
    <3>2. CASE News(t) = <<BothOf(q)>>
      BY <3>2, Singles
    <3> QED
      BY <1>4, <3>1, <3>2
  <2> HIDE DEF out
  <2>3. Waits(t)' => wake'[t]
    BY <1>1, <2>1, <2>2, ArmedBy DEF JobWrites
  <2> QED
    BY <2>3, Zenon DEF Attended
<1>6. CASE JobWrites(t, q, News(t)) /\ News(t) # <<>>
  <2> HIDE DEF q
  <2>1. Waits(t)' => wake'[t]
    BY <1>1, <1>6, ArmedBy DEF JobWrites
  <2> QED
    BY <2>1, Zenon DEF Attended
<1>7. CASE /\ ~Post(t, q, News(t)) /\ JobWrites(t, q, News(t)) /\ News(t) = <<>>
  <2>1. q = queue[t]
    <3>1. <<BothOf(q)>> # <<>>
      OBVIOUS
    <3> QED
      BY <1>4, <1>7, <3>1
  <2>2. queue'[t] = queue[t] /\ (wake[t] => wake'[t])
    <3> HIDE DEF q
    <3> QED
      BY <1>1, <1>7, <2>1, ArmedBy DEF JobWrites
  <2>3. Waits(t)' => Waits(t)
    BY <1>1, <1>2, <2>2 DEF Waits
  <2>4. ASSUME Waits(t)', Committed(t)
        PROVE  Committed(t)'
    <3>1. Waits(t)
      BY <2>3, <2>4
    <3>2. /\ job[t].role = "fg" /\ Head(queue[t].items).st = "pending"
          /\ Has(queue[t], job[t].id, "pending")
      BY <1>1, <2>4, <3>1, HeadCommitted DEF Waits
    <3>3. MaySend(job[t], q)
      BY <2>1, <3>1, <3>2 DEF MaySend, Waits, Halted
    <3>4. Become(t, j)
      BY <1>7, <3>3 DEF SendAnswered, Stays
    <3>5. /\ j.pc = "asking" /\ j.mode = "refresh" /\ j.id = job[t].id
          /\ j.role = job[t].role
      BY <1>3 DEF JobType
    <3> HIDE DEF j
    <3>6. job'[t] = j
      BY <3>4, SenderOf
    <3> QED
      BY <1>1, <2>2, <2>4, <3>2, <3>5, <3>6 DEF Committed, Deciding
  <2> QED
    BY <2>2, <2>3, <2>4, Zenon DEF Attended
<1> QED
  BY <1>5, <1>6, <1>7 DEF SendAnswered

\* A sender that is not finding out what to do.
LEMMA RestAttended ==
    ASSUME TypeInv, AwayInv, NEW t \in Tabs, Attended(t),
           \/ Stopped(t) \/ BgTurn(t) \/ ReadHistory(t) \/ ReadStatus(t)
           \/ PostReplied(t) \/ DrainEnds(t)
    PROVE  Attended(t)'
<1>1. job[t] \in JobType
  BY DEF TypeInv, TypeOK, SenderTypes
<1>2. CASE ReadHistory(t) \/ ReadStatus(t)
  <2>1. PICK j \in {[job[t] EXCEPT !.pc = "read", !.seen = history],
                    [job[t] EXCEPT !.pc = "answered", !.busy = chat # NoItem]} :
              Become(t, j)
    BY <1>2 DEF ReadHistory, ReadStatus
  <2>2. j.id = job[t].id /\ j.role = job[t].role /\ j.mode = job[t].mode
        /\ j.pc \in {"read", "answered"}
    BY <1>1, <2>1 DEF JobType
  <2>3. UNCHANGED <<page, queue, owner, wake>>
    BY <1>2 DEF ReadHistory, ReadStatus, locks
  <2>4. job'[t] = j
    BY <2>1, SenderOf
  <2>5. Committed(t) => Committed(t)'
    BY <2>2, <2>3, <2>4 DEF Committed, Deciding
  <2>6. (Waits(t)' => Waits(t)) /\ (wake[t] => wake'[t])
    BY <2>3 DEF Waits
  <2> QED
    BY <2>5, <2>6, QuietAttended
<1>3. CASE BgTurn(t)
  <2>1. job[t].pc = "slot" /\ page' = page
    BY <1>3 DEF BgTurn
  <2>2. ~Waits(t)'
    BY <2>1 DEF AwayInv, Waits
  <2> QED
    BY <2>2, Zenon DEF Attended
<1>4. ASSUME NEW q, NEW msgs, Commit(t, q, msgs), Rearm(t, q, msgs), page' = page,
             owner = t, ~Deciding(t), msgs = <<>> => q = queue[t]
      PROVE  Attended(t)'
  <2>1. /\ queue'[t] = q
        /\ wake[t] => wake'[t]
        /\ msgs # <<>> /\ Waits(t)' => wake'[t]
    BY <1>4, ArmedBy
  <2>2. msgs = <<>> /\ Waits(t)' => Waits(t)
    BY <1>4, <2>1 DEF Waits
  <2>3. ~Committed(t)
    BY <1>4 DEF Committed
  <2> QED
    BY <2>1, <2>2, <2>3, Zenon DEF Attended
<1>5. \A a, b : <<a>> # <<>> /\ <<a, b>> # <<>>
  OBVIOUS
<1>6. CASE Stopped(t)
  <2>1. ~Deciding(t) /\ page' = page /\ owner = t
    BY <1>6 DEF Stopped, Deciding, TypeInv, TypeOK
  <2>2. CASE queue'[t] = queue[t] /\ wake' = wake
    <3>1. Waits(t)' => Waits(t)
      BY <2>1, <2>2 DEF Waits
    <3>2. ~Committed(t) /\ (wake[t] => wake'[t])
      BY <2>1, <2>2 DEF Committed
    <3> QED
      BY <3>1, <3>2, QuietAttended
  <2>3. ASSUME NEW bad, JobWrites(t, bad, <<BothOf(bad)>>)
        PROVE  Attended(t)'
    BY <1>4, <1>5, <2>1, <2>3, Zenon DEF JobWrites
  <2>4. ASSUME NEW q1, NEW q, NEW halted,
               JobWrites(t, q, <<BothOf(q1)>> \o IF halted THEN <<>> ELSE <<RunOf(q)>>)
        PROVE  Attended(t)'
    <3> DEFINE msgs == <<BothOf(q1)>> \o IF halted THEN <<>> ELSE <<RunOf(q)>>
    <3>1. msgs # <<>>
      <4>1. CASE halted
        BY <4>1, Singles
      <4>2. CASE ~halted
        BY <4>2, Singles
      <4> QED
        BY <4>1, <4>2
    <3>2. JobWrites(t, q, msgs)
      BY <2>4
    <3> HIDE DEF msgs
    <3> QED
      BY <1>4, <2>1, <3>1, <3>2, Zenon DEF JobWrites
  <2>5. queue \in [Tabs -> QueueType]
    BY DEF TypeInv, TypeOK, ListTypes
  <2> QED
    <3>1. \/ UNCHANGED <<queue, wake>>
          \/ Commit(t, queue[t], <<>>) /\ UNCHANGED wake
          \/ \E bad : JobWrites(t, bad, <<BothOf(bad)>>)
          \/ \E q1, q : JobWrites(t, q, <<BothOf(q1)>> \o
                                       IF q.run = q1.run THEN <<>> ELSE <<RunOf(q)>>)
      BY <1>6 DEF Stopped, JobWrites
    <3>2. CASE Commit(t, queue[t], <<>>) /\ UNCHANGED wake
      BY <2>2, <2>5, <3>2 DEF Commit
    <3>3. ASSUME NEW q1, NEW q,
                 JobWrites(t, q, <<BothOf(q1)>> \o
                                     IF q.run = q1.run THEN <<>> ELSE <<RunOf(q)>>)
          PROVE  Attended(t)'
      <4> DEFINE halted == q.run = q1.run
      <4> QED
        BY <2>4, <3>3, Zenon
    <3> QED
      BY <2>2, <2>3, <3>1, <3>2, <3>3
<1>7. CASE PostReplied(t)
  <2>1. ~Deciding(t) /\ page' = page /\ owner = t
    BY <1>7 DEF PostReplied, Deciding, JobRest, TypeInv, TypeOK
  <2> DEFINE i == job[t].id
             q == RemoveItem(queue[t], i)
  <2>2. CASE JobWrites(t, queue[t], <<>>)
    BY <1>4, <2>1, <2>2, Zenon DEF JobWrites
  <2>3. CASE JobWrites(t, q, IF i \in Ids(queue[t].items) THEN <<ListOf(q)>> ELSE <<>>)
    <3>1. queue[t] \in QueueType
      BY QueueOf DEF TypeInv
    <3>2. CASE i \in Ids(queue[t].items)
      <4> HIDE DEF q
      <4> QED
        BY <1>4, <1>5, <2>1, <2>3, <3>2, Zenon DEF JobWrites
    <3>3. CASE i \notin Ids(queue[t].items)
      <4>1. q = queue[t]
        BY <3>1, <3>3, RemoveNothing
      <4> HIDE DEF q
      <4> QED
        BY <1>4, <2>1, <2>3, <3>3, <4>1, Zenon DEF JobWrites
    <3> QED
      BY <3>2, <3>3
  <2>4. CASE Fails(t, queue[t], <<>>)
    <3>1. PICK q1 : JobWrites(t, q1, <<>> \o <<BothOf(q1)>>)
      BY <2>4 DEF Fails
    <3>2. <<>> \o <<BothOf(q1)>> # <<>>
      BY Singles
    <3> QED
      BY <1>4, <2>1, <3>1, <3>2, Zenon DEF JobWrites
  <2> QED
    BY <1>7, <2>2, <2>3, <2>4 DEF PostReplied
<1>8. CASE DrainEnds(t)
  <2>1. ~Deciding(t) /\ page' = page /\ owner = t
    BY <1>8 DEF DrainEnds, Deciding, JobRest, TypeInv, TypeOK
  <2>2. PICK q : JobWrites(t, q, <<ListOf(q)>>)
    BY <1>8 DEF DrainEnds
  <2> QED
    BY <1>4, <1>5, <2>1, <2>2, Zenon DEF JobWrites
<1> QED
  BY <1>2, <1>3, <1>6, <1>7, <1>8

\* A page's sender.
PageJob(j) == j.role # "bg" /\ j.pc \notin {"slot", "draining"}

LEMMA PageSenders ==
    /\ PageJob(NoJob)
    /\ \A mode, i, forced : PageJob(Asking("fg", mode, i, forced))
<1>1. NoJob.role = "none" /\ NoJob.pc = "none"
  BY DEF NoJob
<1>2. ASSUME NEW mode, NEW i, NEW forced
      PROVE  PageJob(Asking("fg", mode, i, forced))
  BY DEF PageJob, Asking, NoJob
<1> QED
  BY <1>1, <1>2 DEF PageJob

\* The sender that a page's tab becomes.
LEMMA PageBecomes ==
    ASSUME TypeInv, NEW t \in Tabs
    PROVE  /\ \A j : Become(t, j) /\ PageJob(j) => PageJob(job'[t])
           /\ Become(t, NoJob) => PageJob(job'[t])
           /\ \A mode, i, forced :
                  Become(t, Asking("fg", mode, i, forced)) => PageJob(job'[t])
           /\ UNCHANGED job /\ PageJob(job[t]) => PageJob(job'[t])
<1>1. \A j : Become(t, j) => job'[t] = j
  BY SenderOf
<1>2. \A j : Become(t, j) /\ PageJob(j) => PageJob(job'[t])
  BY <1>1
<1> QED
  BY <1>2, PageSenders

LEMMA TabAway ==
    ASSUME TypeInv, AwayInv, NEW t \in Tabs, TabStep(t), page'[t] = "here"
    PROVE  PageJob(job'[t])
<1>1. page \in [Tabs -> {"closed", "away", "here"}] /\ job \in [Tabs -> JobType]
  BY DEF TypeInv, TypeOK, PageTypes, SenderTypes
<1>2. CASE Mount(t)
  BY <1>2, PageBecomes DEF Mount
<1>3. CASE Grant(t) \/ Deliver(t)
  <2>1. page' = page /\ (UNCHANGED job \/ Become(t, Asking("fg", "handoff", NoItem, FALSE)))
    BY <1>3 DEF Grant, Deliver
  <2>2. PageJob(job[t])
    BY <2>1 DEF AwayInv, PageJob
  <2> QED
    BY <2>1, <2>2, PageBecomes
<1>4. ~(Open(t) \/ Leave(t) \/ Close(t) \/ StartAllBackgroundQueues(t))
  BY <1>1 DEF Open, Leave, Close, StartAllBackgroundQueues
<1> QED
  BY <1>2, <1>3, <1>4 DEF TabStep

LEMMA PanelAway ==
    ASSUME TypeInv, AwayInv, NEW t \in Tabs, PanelStep(t), page'[t] = "here"
    PROVE  PageJob(job'[t])
<1>1. page' = page
  BY PanelEdits DEF Written, Edits, Interrupt
<1>2. PageJob(job[t])
  BY <1>1 DEF AwayInv, PageJob
<1>3. \/ UNCHANGED job
      \/ \E mode, i, forced : Become(t, Asking("fg", mode, i, forced))
      \/ \E i : Become(t, [Asking("fg", "send", i, TRUE) EXCEPT !.pc = "stopping"])
  BY DEF PanelStep, Edit, Pause, Reorder, Clear, Resume, Enqueue, Remove, Retry, Skip,
         Interrupt, StartsNow
<1>4. ASSUME NEW i, Become(t, [Asking("fg", "send", i, TRUE) EXCEPT !.pc = "stopping"])
      PROVE  PageJob(job'[t])
  <2> DEFINE j == [Asking("fg", "send", i, TRUE) EXCEPT !.pc = "stopping"]
  <2>1. PageJob(j) /\ Become(t, j)
    BY <1>4 DEF PageJob, Asking, NoJob
  <2> HIDE DEF j
  <2> QED
    BY <2>1, PageBecomes
<1>5. ASSUME NEW mode, NEW i, NEW forced, Become(t, Asking("fg", mode, i, forced))
      PROVE  PageJob(job'[t])
  BY <1>5, PageBecomes
<1> QED
  BY <1>2, <1>3, <1>4, <1>5, PageBecomes

LEMMA JobAway ==
    ASSUME TypeInv, AwayInv, NEW t \in Tabs, JobStep(t), page'[t] = "here"
    PROVE  PageJob(job'[t])
<1>1. page' = page /\ job[t] \in JobType
  BY JobTurns DEF Turns, TypeInv, TypeOK, SenderTypes
<1>2. job[t].role # "bg" /\ job[t].pc \notin {"slot", "draining"}
  BY <1>1 DEF AwayInv
<1>3. CASE EndsTurn(t) \/ \E i : GoesOn(t, i)
  BY <1>3, PageBecomes DEF EndsTurn, GoesOn
<1>4. ASSUME NEW q, NEW msgs, Recovered(t, q, msgs)
      PROVE  EndsTurn(t) \/ \E i : GoesOn(t, i)
  BY <1>2, <1>4 DEF Recovered
<1>5. ASSUME NEW j, Become(t, j), j.role = job[t].role, j.pc \notin {"slot", "draining"}
      PROVE  PageJob(job'[t])
  BY <1>2, <1>5, SenderOf DEF PageJob
<1>6. CASE Stopped(t)
  <2>1. Become(t, NoJob) \/ Become(t, Asking("fg", "send", job[t].id, TRUE))
    BY <1>6 DEF Stopped
  <2> QED
    BY <2>1, PageBecomes
<1>7. CASE TimerFires(t)
  <2>1. UNCHANGED job \/ \E mode, i : Become(t, Asking("fg", mode, i, FALSE))
    BY <1>7 DEF TimerFires
  <2> QED
    BY <1>2, <2>1, PageBecomes DEF PageJob
<1>8. CASE ReadHistory(t) \/ ReadStatus(t)
  <2>1. PICK j \in {[job[t] EXCEPT !.pc = "read", !.seen = history],
                    [job[t] EXCEPT !.pc = "answered", !.busy = chat # NoItem]} :
              Become(t, j)
    BY <1>8 DEF ReadHistory, ReadStatus
  <2>2. j.role = job[t].role /\ j.pc \in {"read", "answered"}
    BY <1>1, <2>1 DEF JobType
  <2> QED
    BY <1>5, <2>1, <2>2
<1>9. CASE StatusFails(t) \/ RecoverAnswered(t) \/ HandoffAnswered(t) \/ SkipAnswered(t)
  BY <1>3, <1>4, <1>9 DEF StatusFails, RecoverAnswered, HandoffAnswered, SkipAnswered, Fails
<1>10. CASE StillRunning(t)
  <2> DEFINE j == [job[t] EXCEPT !.pc = "asking", !.seen = {}, !.busy = FALSE]
  <2>1. EndsTurn(t) \/ Become(t, j)
    BY <1>10 DEF StillRunning, Stays
  <2>2. j.role = job[t].role /\ j.pc = "asking"
    BY <1>1 DEF JobType
  <2> HIDE DEF j
  <2> QED
    BY <1>3, <1>5, <2>1, <2>2
<1>11. CASE SendAnswered(t)
  <2> DEFINE j == [job[t] EXCEPT !.pc = "asking", !.mode = "refresh", !.seen = {}]
             p == [job[t] EXCEPT !.pc = "posting", !.seen = {}, !.n = posts[job[t].id] + 1]
  <2>1. EndsTurn(t) \/ Become(t, j) \/ Become(t, p)
    BY <1>2, <1>11 DEF SendAnswered, Post, Stays
  <2>2. j.role = job[t].role /\ j.pc = "asking" /\ p.role = job[t].role /\ p.pc = "posting"
    BY <1>1 DEF JobType
  <2> HIDE DEF j, p
  <2> QED
    BY <1>3, <1>5, <2>1, <2>2
<1>12. CASE PostReplied(t)
  BY <1>2, <1>3, <1>12 DEF PostReplied, Fails
<1>13. ~BgTurn(t) /\ ~DrainEnds(t)
  BY <1>2 DEF BgTurn, DrainEnds
<1> QED
  BY <1>6, <1>7, <1>8, <1>9, <1>10, <1>11, <1>12, <1>13 DEF JobStep

LEMMA NextAway ==
    ASSUME TypeInv, AwayInv, [Next]_vars
    PROVE  AwayInv'
<1>1. \A t \in Tabs : page[t] = "here" => PageJob(job[t])
  BY DEF AwayInv, PageJob
<1>2. ASSUME NEW t \in Tabs, page'[t] = "here"
      PROVE  PageJob(job'[t])
  <2>1. CASE UNCHANGED vars
    BY <1>1, <1>2, <2>1 DEF vars
  <2>2. ASSUME NEW o \in Tabs, o # t, Elsewhere(o)
        PROVE  PageJob(job'[t])
    <3>1. page \in [Tabs -> {"closed", "away", "here"}] /\ job \in [Tabs -> JobType]
      BY DEF TypeInv, TypeOK, PageTypes, SenderTypes
    <3>2. page'[t] = page[t] /\ job'[t] = job[t]
      BY <2>2, <3>1 DEF Elsewhere, Become
    <3> QED
      BY <1>1, <1>2, <3>2
  <2>3. CASE BackendStep
    <3>1. page' = page /\ job \in [Tabs -> JobType]
      BY <2>3, BackendHeld DEF TypeInv, TypeOK, SenderTypes
    <3>2. UNCHANGED job \/ \E p \in net : Replied(p, "ok") \/ Replied(p, "bad")
      BY <2>3 DEF BackendStep, PostArrives, PostLost, RunEnds, RunLost, OtherRun
    <3>3. ASSUME NEW p, NEW r, Replied(p, r)
          PROVE  job'[t].role = job[t].role /\ job'[t].pc = job[t].pc
      BY <3>1, <3>3 DEF Replied, JobType
    <3>4. job'[t].role = job[t].role /\ job'[t].pc = job[t].pc
      BY <3>2, <3>3
    <3> QED
      BY <1>1, <1>2, <3>1, <3>4 DEF PageJob
  <2> QED
    BY <1>2, <2>1, <2>2, <2>3, TabAway, PanelAway, JobAway, TabElsewhere, PanelElsewhere,
       JobElsewhere DEF Next
<1> QED
  BY <1>2 DEF AwayInv, PageJob

LEMMA NextAttended ==
    ASSUME TypeInv, AwayInv, HeadIsAttended,
           [Next /\ ~DropsAttempt /\ ~GivesUpRefresh]_vars
    PROVE  HeadIsAttended'
<1> SUFFICES ASSUME NEW t \in Tabs
             PROVE  Attended(t)'
  BY DEF HeadIsAttended
<1>1. Attended(t)
  BY DEF HeadIsAttended
<1>2. CASE UNCHANGED vars
  BY <1>1, <1>2 DEF vars, locks, Attended, Waits, Committed, Deciding
<1>3. ASSUME NEW o \in Tabs, o # t, TabStep(o) \/ PanelStep(o) \/ JobStep(o)
      PROVE  Attended(t)'
  BY <1>1, <1>3, OthersAttended, TabElsewhere, PanelElsewhere, JobElsewhere
<1>4. CASE JobStep(t) /\ ~DropsAttempt /\ ~GivesUpRefresh
  <2>1. TimerFires(t) => SendLockFree
    BY <1>4 DEF DropsAttempt
  <2>2. StillRunning(t) => job[t].mode # "refresh"
    BY <1>4 DEF GivesUpRefresh
  <2> QED
    BY <1>1, <1>4, <2>1, <2>2, TimerAttended, StatusFailsAttended, AnswersAttended,
       SendAttended, RestAttended DEF JobStep
<1>5. CASE TabStep(t) \/ PanelStep(t) \/ BackendStep
  BY <1>1, <1>5, TabAttended, PanelAttended, BackendAttended
<1> QED
  BY <1>2, <1>3, <1>4, <1>5 DEF Next

LEMMA InitAttended == Init => AwayInv /\ HeadIsAttended
BY DEF Init, AwayInv, HeadIsAttended, Attended, Waits

\* The page that owns the conversation always has its timer armed, or a sender
\* committed to the head, while the head may be sent - unless an attempt of the
\* timer was dropped because the send lock was taken, or the refresh before a
\* retried message gave up because another run had started: nothing else makes
\* the queue of a shown page stand still (the safety half of QueueDrains).
THEOREM SendingStallsInTwoWays ==
    Init /\ [][Next /\ ~DropsAttempt /\ ~GivesUpRefresh]_vars => []HeadIsAttended
<1>1. TypeInv /\ [Next /\ ~DropsAttempt /\ ~GivesUpRefresh]_vars => TypeInv'
  BY NextTypes
<1>2. TypeInv /\ AwayInv /\ [Next /\ ~DropsAttempt /\ ~GivesUpRefresh]_vars => AwayInv'
  BY NextAway
<1>3. /\ TypeInv /\ AwayInv /\ HeadIsAttended
      /\ [Next /\ ~DropsAttempt /\ ~GivesUpRefresh]_vars
      => HeadIsAttended'
  BY NextAttended
<1> QED
  BY InitTypes, InitAttended, <1>1, <1>2, <1>3, PTL
=============================================================================
