------------------------ MODULE ScriptRuntimeProofs ------------------------
(***************************************************************************)
(* Proofs about the global store, for any number of workers, keys, levels  *)
(* and values: the walk under the lock implements the map of PathMap, and  *)
(* the tree stays one.  Then about ScriptRuntime, for any number of hooks, *)
(* editions, signals and events: the containers over the store.            *)
(***************************************************************************)
EXTENDS ScriptRuntime, SequenceTheorems, TLAPS

Upto(p, n) == Map!Upto(p, n)

(* Rooted at every level, not at the next one only. *)
Forest(t) ==
    /\ t \in Map!Trees
    /\ \A q \in Paths : t[q] # NULL => \A n \in 1..(Len(q) - 1) : t[Upto(q, n)] = HASH

-----------------------------------------------------------------------------
(* Paths and their beginnings. *)

LEMMA RangeEqual ==
    ASSUME NEW m \in Nat, NEW n \in Nat, 1..m = 1..n
    PROVE  m = n
<1>1. m = 0 \/ m \in 1..n
  <2>1. m \in 1..m \/ m = 0
    OBVIOUS
  <2> QED
    BY <2>1
<1>2. n = 0 \/ n \in 1..m
  <2>1. n \in 1..n \/ n = 0
    OBVIOUS
  <2> QED
    BY <2>1
<1> QED
  BY <1>1, <1>2

LEMMA PathFacts ==
    ASSUME NEW p \in Paths
    PROVE  p \in Seq(Keys) /\ Len(p) \in 1..Depth /\ p \in [1..Len(p) -> Keys]
<1>1. PICK n \in 1..Depth : p \in [1..n -> Keys]
  BY DEF Paths, Map!Paths
<1>2. n \in Nat /\ Depth \in Nat
  BY GlobalStoreAssumption DEF Map!PathMapAssumption
<1>3. p \in Seq(Keys)
  BY <1>1, <1>2, SeqDef
<1>4. Len(p) \in Nat /\ DOMAIN p = 1..Len(p) /\ p \in [1..Len(p) -> Keys]
  BY <1>3, LenProperties
<1>5. 1..Len(p) = 1..n
  BY <1>1, <1>4
<1>6. Len(p) = n
  BY <1>2, <1>4, <1>5, RangeEqual
<1> QED
  BY <1>3, <1>4, <1>6

LEMMA PathMade ==
    ASSUME NEW n \in 1..Depth, NEW p \in [1..n -> Keys]
    PROVE  p \in Paths /\ Len(p) = n
<1>1. p \in Paths
  BY DEF Paths, Map!Paths
<1>2. Len(p) \in 1..Depth /\ p \in [1..Len(p) -> Keys]
  BY <1>1, PathFacts
<1>3. 1..Len(p) = 1..n
  BY <1>2
<1>4. n \in 1..Len(p) /\ Len(p) \in 1..n
  BY <1>2, <1>3
<1> QED
  BY <1>1, <1>2, <1>4

LEMMA UptoPath ==
    ASSUME NEW p \in Paths, NEW n \in 1..Len(p)
    PROVE  Upto(p, n) \in Paths /\ Len(Upto(p, n)) = n
<1>1. Len(p) \in 1..Depth /\ p \in [1..Len(p) -> Keys] /\ Depth \in Nat
  BY PathFacts, GlobalStoreAssumption DEF Map!PathMapAssumption
<1>2. Upto(p, n) \in [1..n -> Keys] /\ n \in 1..Depth
  BY <1>1 DEF Upto, Map!Upto
<1> QED
  BY <1>2, PathMade

LEMMA UptoAll ==
    ASSUME NEW p \in Paths
    PROVE  Upto(p, Len(p)) = p
<1>1. p \in [1..Len(p) -> Keys]
  BY PathFacts
<1> QED
  BY <1>1 DEF Upto, Map!Upto

LEMMA UptoUpto ==
    ASSUME NEW p \in Paths, NEW n \in 1..Len(p), NEW m \in 1..n
    PROVE  Upto(Upto(p, n), m) = Upto(p, m)
<1>1. Len(p) \in Nat
  BY PathFacts
<1> QED
  BY <1>1 DEF Upto, Map!Upto

(* A path below another begins with it, and so do its own beginnings. *)
LEMMA BelowFacts ==
    ASSUME NEW p \in Paths, NEW q \in Paths
    PROVE  Map!Below(q, p) <=> Len(p) < Len(q) /\ p = Upto(q, Len(p))
BY DEF Map!Below, Map!Above, Upto

LEMMA AboveFacts ==
    ASSUME NEW p \in Paths, NEW q \in Paths
    PROVE  Map!Above(q, p) <=> Len(q) < Len(p) /\ q = Upto(p, Len(q))
BY DEF Map!Above, Upto

LEMMA RestPath ==
    ASSUME NEW p \in Paths, NEW q \in Paths, Len(p) < Len(q)
    PROVE  /\ Map!Rest(q, p) \in Paths
           /\ Len(Map!Rest(q, p)) = Len(q) - Len(p)
<1>1. /\ Len(p) \in 1..Depth /\ Len(q) \in 1..Depth /\ Depth \in Nat
      /\ q \in [1..Len(q) -> Keys]
  BY PathFacts, GlobalStoreAssumption DEF Map!PathMapAssumption
<1> DEFINE n == Len(q) - Len(p)
<1>2. n \in 1..Depth
  BY <1>1
<1>3. Map!Rest(q, p) \in [1..n -> Keys]
  BY <1>1 DEF Map!Rest
<1> QED
  BY <1>2, <1>3, PathMade

LEMMA RestUpto ==
    ASSUME NEW p \in Paths, NEW q \in Paths, Len(p) < Len(q),
           NEW m \in 1..Len(q), Len(p) < m
    PROVE  Map!Rest(Upto(q, m), p) = Upto(Map!Rest(q, p), m - Len(p))
<1>1. Len(p) \in Nat /\ Len(q) \in Nat /\ m \in Nat
  BY PathFacts
<1>2. Len(Upto(q, m)) = m
  BY UptoPath
<1>3. \A i \in 1..(m - Len(p)) :
        /\ Len(p) + i \in 1..m
        /\ i \in 1..(Len(q) - Len(p))
  BY <1>1
<1> QED
  BY <1>1, <1>2, <1>3 DEF Map!Rest, Upto, Map!Upto, Map!Paths

LEMMA ConcatPath ==
    ASSUME NEW p \in Paths, NEW q \in Paths, Len(p) + Len(q) <= Depth
    PROVE  /\ p \o q \in Paths
           /\ Len(p \o q) = Len(p) + Len(q)
           /\ \A n \in 1..Len(p) : Upto(p \o q, n) = Upto(p, n)
<1>1. /\ p \in Seq(Keys) /\ q \in Seq(Keys)
      /\ Len(p) \in 1..Depth /\ Len(q) \in 1..Depth /\ Depth \in Nat
  BY PathFacts, GlobalStoreAssumption DEF Map!PathMapAssumption
<1>2. /\ p \o q \in Seq(Keys)
      /\ Len(p \o q) = Len(p) + Len(q)
      /\ \A i \in 1..Len(p) + Len(q) :
            (p \o q)[i] = IF i <= Len(p) THEN p[i] ELSE q[i - Len(p)]
  BY <1>1, ConcatProperties
<1>3. p \o q \in [1..Len(p \o q) -> Keys]
  BY <1>2, LenProperties
<1>4. Len(p \o q) \in 1..Depth
  BY <1>1, <1>2
<1>5. p \o q \in Paths
  BY <1>3, <1>4, PathMade
<1>6. ASSUME NEW n \in 1..Len(p) PROVE Upto(p \o q, n) = Upto(p, n)
  <2>1. \A i \in 1..n : (p \o q)[i] = p[i]
    BY <1>1, <1>2
  <2> QED
    BY <1>2, <2>1 DEF Upto, Map!Upto
<1> QED
  BY <1>2, <1>6, <1>5
-----------------------------------------------------------------------------
(* What setting, clearing and making tables do to a tree. *)

LEMMA NodeFacts ==
    /\ \A t \in Map!Trees, q \in Paths : t[q] \in Map!Nodes
    /\ {NULL, HASH, ARRAY} \subseteq Map!Nodes
    /\ NULL # HASH /\ NULL # ARRAY /\ HASH # ARRAY
BY GlobalStoreAssumption DEF Map!Trees, Map!Nodes, Paths, Map!PathMapAssumption

LEMMA NilFacts ==
    /\ Nil \in Map!AllValues /\ Map!WellFormed(Nil)
    /\ Nil.root = NULL /\ \A q \in Paths : Nil.fields[q] = NULL
BY NodeFacts DEF Nil, Map!Nil, Map!AllValues, Map!Trees, Map!WellFormed, Paths

LEMMA OpenedTree ==
    ASSUME NEW t \in Map!Trees, NEW p \in Paths, NEW n \in Nat
    PROVE  /\ Map!Opened(t, p, n) \in Map!Trees
           /\ \A q \in Paths :
                Map!Opened(t, p, n)[q] =
                    IF Len(q) <= n /\ Len(q) < Len(p) /\ q = Upto(p, Len(q)) THEN HASH ELSE t[q]
<1>1. Map!Opened(t, p, n) = [q \in Paths |-> IF Len(q) <= n /\ Map!Above(q, p) THEN HASH ELSE t[q]]
  BY DEF Map!Opened, Paths
<1>2. \A q \in Paths : Map!Above(q, p) <=> Len(q) < Len(p) /\ q = Upto(p, Len(q))
  BY AboveFacts
<1>3. \A q \in Paths : (IF Len(q) <= n /\ Map!Above(q, p) THEN HASH ELSE t[q]) \in Map!Nodes
  BY NodeFacts
<1>4. Map!Opened(t, p, n) \in Map!Trees
  BY <1>1, <1>3 DEF Map!Trees, Paths
<1>5. \A q \in Paths : Map!Opened(t, p, n)[q] = IF Len(q) <= n /\ Map!Above(q, p) THEN HASH ELSE t[q]
  BY <1>1
<1> QED
  BY <1>2, <1>4, <1>5

(* The tables that were made, and what was left alone. *)
LEMMA OpenedAt ==
    ASSUME NEW t \in Map!Trees, NEW p \in Paths, NEW n \in Nat, NEW m \in 1..Len(p)
    PROVE  /\ m <= n /\ m < Len(p) => Map!Opened(t, p, n)[Upto(p, m)] = HASH
           /\ n < m => Map!Opened(t, p, n)[Upto(p, m)] = t[Upto(p, m)]
<1>1. Upto(p, m) \in Paths /\ Len(Upto(p, m)) = m /\ Len(p) \in Nat
  BY UptoPath, PathFacts
<1> DEFINE q == Upto(p, m)
<1>2. Map!Opened(t, p, n)[q] = IF Len(q) <= n /\ Len(q) < Len(p) /\ q = Upto(p, Len(q)) THEN HASH ELSE t[q]
  BY <1>1, OpenedTree
<1> QED
  BY <1>1, <1>2

LEMMA OpenedForest ==
    ASSUME NEW t, Forest(t), NEW p \in Paths, NEW n \in Nat
    PROVE  Forest(Map!Opened(t, p, n))
<1> DEFINE o == Map!Opened(t, p, n)
<1>1. t \in Map!Trees
  BY DEF Forest
<1>2. o \in Map!Trees
  BY <1>1, OpenedTree
<1>3. ASSUME NEW q \in Paths, o[q] # NULL, NEW m \in 1..(Len(q) - 1)
      PROVE  o[Upto(q, m)] = HASH
  <2>1. Len(q) \in Nat /\ Len(p) \in Nat
    BY PathFacts
  <2>2. Upto(q, m) \in Paths /\ Len(Upto(q, m)) = m /\ m < Len(q)
    BY <2>1, UptoPath
  <2>3. CASE Len(q) <= n /\ Len(q) < Len(p) /\ q = Upto(p, Len(q))
    <3>1. Upto(q, m) = Upto(p, m)
      <4>1. Len(q) \in 1..Len(p) /\ m \in 1..Len(q)
        BY <2>1, <2>2, <2>3
      <4> QED
        BY <2>3, <4>1, UptoUpto
    <3>2. m \in 1..Len(p) /\ m <= n /\ m < Len(p)
      BY <2>1, <2>2, <2>3
    <3> QED
      BY <1>1, <3>1, <3>2, OpenedAt
  <2>4. CASE ~(Len(q) <= n /\ Len(q) < Len(p) /\ q = Upto(p, Len(q)))
    <3>1. t[q] # NULL
      BY <1>1, <1>3, <2>4, OpenedTree
    <3>2. t[Upto(q, m)] = HASH
      BY <3>1 DEF Forest
    <3> DEFINE r == Upto(q, m)
    <3>3. o[r] = IF Len(r) <= n /\ Len(r) < Len(p) /\ r = Upto(p, Len(r)) THEN HASH ELSE t[r]
      BY <1>1, <2>2, OpenedTree
    <3> QED
      BY <3>2, <3>3
  <2> QED
    BY <2>3, <2>4
<1> QED
  BY <1>2, <1>3 DEF Forest

LEMMA OpenedNone ==
    ASSUME NEW t \in Map!Trees, NEW p \in Paths
    PROVE  Map!Opened(t, p, 0) = t
<1>1. Map!Opened(t, p, 0) \in Map!Trees
  BY OpenedTree
<1>2. \A q \in Paths : Len(q) > 0
  BY PathFacts
<1>3. \A q \in Paths : Map!Opened(t, p, 0)[q] = t[q]
  BY <1>2, OpenedTree, PathFacts
<1> QED
  BY <1>1, <1>3 DEF Map!Trees, Paths

(* Making tables of what are tables already does nothing. *)
LEMMA OpenedSame ==
    ASSUME NEW t \in Map!Trees, NEW p \in Paths, NEW n \in 0..(Len(p) - 1),
           \A m \in 1..n : t[Upto(p, m)] = HASH
    PROVE  Map!Opened(t, p, n) = t
<1>1. Len(p) \in Nat /\ n \in Nat
  BY PathFacts
<1>2. Map!Opened(t, p, n) \in Map!Trees
  BY <1>1, OpenedTree
<1>3. ASSUME NEW q \in Paths PROVE Map!Opened(t, p, n)[q] = t[q]
  <2>1. Len(q) \in 1..Depth
    BY PathFacts
  <2>2. Len(q) <= n => Len(q) \in 1..n
    BY <1>1, <2>1, GlobalStoreAssumption DEF Map!PathMapAssumption
  <2>3. Map!Opened(t, p, n)[q] = IF Len(q) <= n /\ Len(q) < Len(p) /\ q = Upto(p, Len(q)) THEN HASH ELSE t[q]
    BY <1>1, OpenedTree
  <2>4. Len(q) <= n /\ q = Upto(p, Len(q)) => t[q] = HASH
    BY <2>2
  <2> QED
    BY <2>3, <2>4
<1> QED
  BY <1>2, <1>3 DEF Map!Trees, Paths

LEMMA OpenedNext ==
    ASSUME NEW t \in Map!Trees, NEW p \in Paths, NEW n \in Nat, n + 1 < Len(p)
    PROVE  [Map!Opened(t, p, n) EXCEPT ![Upto(p, n + 1)] = HASH] = Map!Opened(t, p, n + 1)
<1> DEFINE o == Map!Opened(t, p, n)
           u == [o EXCEPT ![Upto(p, n + 1)] = HASH]
<1>1. Len(p) \in Nat /\ n + 1 \in 1..Len(p)
  BY PathFacts
<1>2. Upto(p, n + 1) \in Paths /\ Len(Upto(p, n + 1)) = n + 1
  BY <1>1, UptoPath
<1>3. o \in Map!Trees /\ Map!Opened(t, p, n + 1) \in Map!Trees
  BY OpenedTree
<1>4. u \in Map!Trees
  BY <1>3, NodeFacts DEF Map!Trees
<1>5. ASSUME NEW q \in Paths PROVE u[q] = Map!Opened(t, p, n + 1)[q]
  <2>1. Len(q) \in Nat
    BY PathFacts
  <2>2. CASE q = Upto(p, n + 1)
    BY <1>1, <1>2, <1>3, <2>2, OpenedAt DEF Map!Trees, Paths
  <2>3. CASE q # Upto(p, n + 1)
    <3>1. u[q] = o[q]
      BY <1>3, <2>3 DEF Map!Trees, Paths
    <3>2. Len(q) <= n + 1 /\ q = Upto(p, Len(q)) => Len(q) <= n
      BY <2>1, <2>3
    <3> QED
      BY <2>1, <3>1, <3>2, OpenedTree
  <2> QED
    BY <2>2, <2>3
<1> QED
  BY <1>3, <1>4, <1>5 DEF Map!Trees, Paths

LEMMA PutTree ==
    ASSUME NEW t \in Map!Trees, NEW p \in Paths, NEW v \in Map!AllValues
    PROVE  /\ Map!Put(t, p, v) \in Map!Trees
           /\ \A q \in Paths :
                Map!Put(t, p, v)[q] =
                    IF q = p THEN v.root
                    ELSE IF Len(p) < Len(q) /\ p = Upto(q, Len(p)) THEN v.fields[Map!Rest(q, p)]
                    ELSE t[q]
<1>1. Map!Put(t, p, v) = [q \in Paths |-> IF q = p THEN v.root
                                          ELSE IF Map!Below(q, p) THEN v.fields[Map!Rest(q, p)]
                                          ELSE t[q]]
  BY DEF Map!Put, Paths
<1>2. \A q \in Paths : Map!Below(q, p) <=> Len(p) < Len(q) /\ p = Upto(q, Len(p))
  BY BelowFacts
<1>3. v.root \in Map!Nodes /\ v.fields \in Map!Trees
  BY DEF Map!AllValues
<1>4. ASSUME NEW q \in Paths
      PROVE  (IF q = p THEN v.root ELSE IF Map!Below(q, p) THEN v.fields[Map!Rest(q, p)] ELSE t[q]) \in Map!Nodes
  <2>1. Map!Below(q, p) => Map!Rest(q, p) \in Paths
    BY <1>2, RestPath
  <2>2. Map!Below(q, p) => v.fields[Map!Rest(q, p)] \in Map!Nodes
    BY <1>3, <2>1, NodeFacts
  <2> QED
    BY <1>3, <2>2, NodeFacts
<1>5. Map!Put(t, p, v) \in Map!Trees
  BY <1>1, <1>4 DEF Map!Trees, Paths
<1>6. \A q \in Paths : Map!Put(t, p, v)[q] = IF q = p THEN v.root
                                             ELSE IF Map!Below(q, p) THEN v.fields[Map!Rest(q, p)]
                                             ELSE t[q]
  BY <1>1
<1> QED
  BY <1>2, <1>5, <1>6

(* A value put below tables leaves no part of the old one and hangs whole. *)
LEMMA PutForest ==
    ASSUME NEW t, Forest(t), NEW p \in Paths, NEW v \in Map!AllValues, Map!WellFormed(v),
           \A m \in 1..(Len(p) - 1) : t[Upto(p, m)] = HASH
    PROVE  Forest(Map!Put(t, p, v))
<1> DEFINE u == Map!Put(t, p, v)
           Under(q) == Len(p) < Len(q) /\ p = Upto(q, Len(p))
<1>1. t \in Map!Trees
  BY DEF Forest
<1>2. u \in Map!Trees
  BY <1>1, PutTree
<1>3. \A q \in Paths : u[q] = IF q = p THEN v.root ELSE IF Under(q) THEN v.fields[Map!Rest(q, p)] ELSE t[q]
  BY <1>1, PutTree
<1> HIDE DEF u
<1>4. ASSUME NEW q \in Paths, u[q] # NULL, NEW m \in 1..(Len(q) - 1)
      PROVE  u[Upto(q, m)] = HASH
  <2> DEFINE r == Upto(q, m)
  <2>1. Len(q) \in Nat /\ Len(p) \in Nat /\ Len(p) >= 1
    BY PathFacts
  <2>2. r \in Paths /\ Len(r) = m /\ m < Len(q) /\ m \in 1..Len(q)
    BY <2>1, UptoPath
  <2>3. u[r] = IF r = p THEN v.root ELSE IF Under(r) THEN v.fields[Map!Rest(r, p)] ELSE t[r]
    BY <1>3, <2>2
  <2>4. Under(r) => Under(q)
    <3> SUFFICES ASSUME Under(r) PROVE Under(q)
      OBVIOUS
    <3>1. Len(p) \in 1..m
      BY <2>1, <2>2
    <3>2. Upto(r, Len(p)) = Upto(q, Len(p))
      BY <2>2, <3>1, UptoUpto
    <3> QED
      BY <2>1, <2>2, <3>2
  <2>5. CASE q = p \/ (Under(q) /\ m < Len(p))
    <3>1. m \in 1..(Len(p) - 1)
      BY <2>1, <2>2, <2>5
    <3>2. r = Upto(p, m)
      <4>1. CASE q = p
        BY <4>1
      <4>2. CASE Under(q)
        <5>1. Len(p) \in 1..Len(q) /\ m \in 1..Len(p)
          BY <2>1, <3>1, <4>2
        <5> QED
          BY <4>2, <5>1, UptoUpto
      <4> QED
        BY <2>5, <4>1, <4>2
    <3>3. t[r] = HASH
      BY <3>1, <3>2
    <3>4. r # p /\ ~Under(r)
      BY <2>1, <2>2, <3>1
    <3> QED
      BY <2>3, <3>3, <3>4
  <2>6. CASE q # p /\ Under(q) /\ m >= Len(p)
    <3> DEFINE s == Map!Rest(q, p)
    <3>1. s \in Paths /\ Len(s) = Len(q) - Len(p)
      BY <2>6, RestPath
    <3>2. v.fields[s] # NULL
      BY <1>3, <1>4, <2>6
    <3>3. v.root = HASH /\ \A n \in 1..(Len(s) - 1) : v.fields[Upto(s, n)] = HASH
      BY <3>1, <3>2 DEF Map!WellFormed, Paths, Upto
    <3>4. CASE m = Len(p)
      BY <2>3, <2>6, <3>3, <3>4
    <3>5. CASE m > Len(p)
      <4>1. m \in Nat /\ m - Len(p) \in 1..(Len(s) - 1)
        BY <2>1, <2>2, <3>1, <3>5
      <4>2. Map!Rest(r, p) = Upto(s, m - Len(p))
        BY <2>2, <2>6, <3>5, RestUpto
      <4>3. Upto(r, Len(p)) = Upto(q, Len(p))
        <5>1. Len(p) \in 1..m
          BY <2>1, <2>2, <3>5
        <5> QED
          BY <2>2, <5>1, UptoUpto
      <4>4. Under(r) /\ r # p
        BY <2>1, <2>2, <2>6, <3>5, <4>3
      <4> QED
        BY <2>3, <3>3, <4>1, <4>2, <4>4
    <3> QED
      BY <2>1, <2>2, <2>6, <3>4, <3>5
  <2>7. CASE q # p /\ ~Under(q)
    <3>1. t[q] # NULL
      BY <1>3, <1>4, <2>7
    <3>2. t[r] = HASH
      BY <3>1 DEF Forest
    <3>3. r # p
      BY <2>2, <2>7
    <3> QED
      BY <2>3, <2>4, <2>7, <3>2, <3>3
  <2> QED
    BY <2>1, <2>2, <2>5, <2>6, <2>7
<1> QED
  BY <1>2, <1>4 DEF Forest, u

LEMMA AtValue ==
    ASSUME NEW t \in Map!Trees, NEW p \in Paths
    PROVE  /\ Map!At(t, p) \in Map!AllValues
           /\ Map!At(t, p).root = t[p]
           /\ \A q \in Paths : Map!At(t, p).fields[q] = IF Len(p) + Len(q) <= Depth THEN t[p \o q] ELSE NULL
<1> DEFINE f == [q \in Paths |-> IF Len(p) + Len(q) <= Depth THEN t[p \o q] ELSE NULL]
<1>1. Map!At(t, p) = [root |-> t[p], fields |-> f]
  BY DEF Map!At, Paths
<1>2. ASSUME NEW q \in Paths, Len(p) + Len(q) <= Depth PROVE t[p \o q] \in Map!Nodes
  BY <1>2, ConcatPath, NodeFacts
<1>3. f \in Map!Trees
  BY <1>2, NodeFacts DEF Map!Trees, Paths
<1> QED
  BY <1>1, <1>3, NodeFacts DEF Map!AllValues

(* Nothing is found below what is no table. *)
LEMMA AtNil ==
    ASSUME NEW t, Forest(t), NEW p \in Paths, NEW m \in 1..(Len(p) - 1), t[Upto(p, m)] # HASH
    PROVE  Map!At(t, p) = Nil
<1>1. t \in Map!Trees /\ Len(p) \in Nat
  BY PathFacts DEF Forest
<1>2. t[p] = NULL
  BY DEF Forest
<1>3. ASSUME NEW q \in Paths, Len(p) + Len(q) <= Depth PROVE t[p \o q] = NULL
  <2>1. p \o q \in Paths /\ Len(p \o q) = Len(p) + Len(q) /\ Upto(p \o q, m) = Upto(p, m)
    BY <1>1, <1>3, ConcatPath
  <2>2. m \in 1..(Len(p \o q) - 1)
    BY <1>1, <2>1, PathFacts
  <2> QED
    BY <2>1, <2>2 DEF Forest
<1>4. [q \in Paths |-> IF Len(p) + Len(q) <= Depth THEN t[p \o q] ELSE NULL] = [q \in Paths |-> NULL]
  BY <1>3
<1> QED
  BY <1>2, <1>4 DEF Map!At, Nil, Map!Nil, Paths

-----------------------------------------------------------------------------
(* The inductive invariant.  base is the map before the call that holds    *)
(* the lock; the tree is what that call has made of it so far.             *)

Blocked(w) == lost[w] \/ InArray(w)
PastArray(w) == \E n \in 1..depth[w] : base[Upto(Path(w), n)] = ARRAY

Walking(w) ==
    IF ~IsSet(w) THEN tree = base /\ ~lost[w]
    ELSE IF PastArray(w) THEN tree = base /\ Blocked(w)
    ELSE tree = Map!Opened(base, Path(w), depth[w]) /\ ~lost[w]

Partly(w, t) ==
    \E n \in 0..(Len(Path(w)) - 1) :
        t \in {Map!Opened(base, Path(w), n),
              Map!Put(Map!Opened(base, Path(w), n), Upto(Path(w), n + 1), Nil)}

Finished(w) ==
    IF IsSet(w)
    THEN \/ ans[w] = Returned(TRUE, Nil) /\ tree = Map!Assigned(base, Path(w), call[w].val)
         \/ ans[w] = Returned(FALSE, Nil) /\ Partly(w, tree)
    ELSE tree = base /\ ans[w] = Returned(TRUE, Map!At(base, Path(w)))

CallOK(w) ==
    /\ pc[w] # "idle" => call[w] \in Calls /\ Path(w) \in Paths
    /\ pc[w] \in {"idle", "lock"} => depth[w] = 0 /\ ~lost[w]
    /\ pc[w] = "walk" => depth[w] < Len(Path(w)) /\ Walking(w)
    /\ pc[w] = "unlock" => Finished(w)

TreeInv ==
    /\ Forest(tree) /\ Forest(base)
    /\ lock = NULL => tree = base

IInv == TypeOK /\ LockInside /\ TreeInv /\ \A w \in Workers : CallOK(w)

(* A step of w leaves the calls of the others alone. *)
Alone(w) ==
    \A v \in Workers \ {w} :
        /\ pc'[v] = pc[v] /\ call'[v] = call[v] /\ depth'[v] = depth[v]
        /\ lost'[v] = lost[v] /\ ans'[v] = ans[v]

LEMMA OthersKept ==
    ASSUME IInv, NEW w \in Workers, Alone(w), Inside(w) \/ UNCHANGED <<tree, base>>, CallOK(w)'
    PROVE  \A v \in Workers : CallOK(v)'
<1> SUFFICES ASSUME NEW v \in Workers, v # w PROVE CallOK(v)'
  OBVIOUS
<1>1. /\ pc'[v] = pc[v] /\ call'[v] = call[v] /\ depth'[v] = depth[v]
      /\ lost'[v] = lost[v] /\ ans'[v] = ans[v]
  BY DEF Alone
<1>2. CallOK(v)
  BY DEF IInv
<1>3. CASE Inside(v)
  <2>1. UNCHANGED <<tree, base>>
    BY <1>3 DEF IInv, LockInside
  <2> QED
    BY <1>1, <1>2, <2>1 DEF CallOK, Walking, Finished, Partly, PastArray, Blocked, InArray, Here, IsSet, Path
<1>4. CASE ~Inside(v)
  BY <1>1, <1>2, <1>4 DEF CallOK, Inside, Path
<1> QED
  BY <1>3, <1>4

LEMMA CallFacts ==
    ASSUME NEW c \in Calls
    PROVE  /\ c.op \in {"set", "get"} /\ c.path \in Paths \cup {NULL}
           /\ c.val \in Values /\ c.val \in Map!AllValues /\ Map!WellFormed(c.val)
BY GlobalStoreAssumption DEF Map!PathMapAssumption

LEMMA WalkFacts ==
    ASSUME IInv, NEW w \in Workers, pc[w] = "walk"
    PROVE  /\ lock = w /\ call[w] \in Calls /\ Path(w) \in Paths
           /\ depth[w] \in 0..(Len(Path(w)) - 1) /\ Len(Path(w)) \in Nat
           /\ Child(w) = Upto(Path(w), depth[w] + 1)
           /\ Child(w) \in Paths /\ Len(Child(w)) = depth[w] + 1
           /\ depth[w] > 0 => Here(w) = Upto(Path(w), depth[w])
           /\ Walking(w) /\ Forest(tree) /\ Forest(base)
           /\ tree \in Map!Trees /\ base \in Map!Trees
<1>1. CallOK(w) /\ depth[w] \in Nat /\ lock = w
  BY DEF IInv, TypeOK, LockInside, Inside
<1>2. call[w] \in Calls /\ Path(w) \in Paths /\ Walking(w) /\ depth[w] < Len(Path(w))
  BY <1>1 DEF CallOK
<1>3. Len(Path(w)) \in Nat
  BY <1>2, PathFacts
<1>4. depth[w] + 1 \in 1..Len(Path(w))
  BY <1>1, <1>2, <1>3
<1>5. Upto(Path(w), depth[w] + 1) \in Paths /\ Len(Upto(Path(w), depth[w] + 1)) = depth[w] + 1
  BY <1>2, <1>4, UptoPath
<1>6. Forest(tree) /\ Forest(base)
  BY DEF IInv, TreeInv
<1> QED
  BY <1>1, <1>2, <1>3, <1>5, <1>6 DEF Child, Here, Upto, Forest

(* A set that met an array found nothing in its way and changes nothing. *)
LEMMA BlockedFacts ==
    ASSUME IInv, NEW w \in Workers, pc[w] = "walk", IsSet(w), Blocked(w)
    PROVE  PastArray(w) /\ tree = base /\ Found(w) = NULL
<1> DEFINE p == Path(w)
<1>1. /\ p \in Paths /\ depth[w] \in 0..(Len(p) - 1) /\ Len(p) \in Nat
      /\ Walking(w) /\ Forest(base) /\ base \in Map!Trees
      /\ Child(w) = Upto(p, depth[w] + 1) /\ Child(w) \in Paths /\ Len(Child(w)) = depth[w] + 1
      /\ depth[w] > 0 => Here(w) = Upto(p, depth[w])
  BY WalkFacts
<1>2. PastArray(w)
  <2> SUFFICES ASSUME ~PastArray(w) PROVE FALSE
    OBVIOUS
  <2>1. tree = Map!Opened(base, p, depth[w]) /\ ~lost[w]
    BY <1>1 DEF Walking
  <2>2. depth[w] > 0 /\ tree[Here(w)] = ARRAY
    BY <2>1 DEF Blocked, InArray
  <2>3. depth[w] \in 1..Len(p) /\ depth[w] < Len(p) /\ depth[w] \in Nat
    BY <1>1, <2>2
  <2>4. tree[Upto(p, depth[w])] = HASH
    BY <1>1, <2>1, <2>3, OpenedAt
  <2> QED
    BY <1>1, <2>2, <2>4, NodeFacts
<1>3. tree = base
  BY <1>1, <1>2 DEF Walking
<1>4. PICK n \in 1..depth[w] : base[Upto(p, n)] = ARRAY
  BY <1>2 DEF PastArray
<1>5. base[Child(w)] = NULL
  <2> SUFFICES ASSUME base[Child(w)] # NULL PROVE FALSE
    OBVIOUS
  <2>1. n \in 1..(Len(Child(w)) - 1)
    BY <1>1
  <2>2. base[Upto(Child(w), n)] = HASH
    BY <1>1, <2>1 DEF Forest
  <2>3. depth[w] + 1 \in 1..Len(p) /\ n \in 1..(depth[w] + 1)
    BY <1>1
  <2>4. Upto(Child(w), n) = Upto(p, n)
    BY <1>1, <2>3, UptoUpto
  <2> QED
    BY <1>4, <2>2, <2>4, NodeFacts
<1> QED
  BY <1>2, <1>3, <1>5 DEF Found

(* A set that met none stands below tables, all of which were there or are *)
(* made by it, and what is next is as it was.                              *)
LEMMA OpenFacts ==
    ASSUME IInv, NEW w \in Workers, pc[w] = "walk", IsSet(w), ~Blocked(w)
    PROVE  /\ ~PastArray(w) /\ ~lost[w]
           /\ tree = Map!Opened(base, Path(w), depth[w])
           /\ \A n \in 1..depth[w] : tree[Upto(Path(w), n)] = HASH
           /\ \A n \in 1..(Len(Child(w)) - 1) : tree[Upto(Child(w), n)] = HASH
           /\ Found(w) = base[Child(w)]
<1> DEFINE p == Path(w)
<1>1. /\ p \in Paths /\ depth[w] \in 0..(Len(p) - 1) /\ Len(p) \in Nat
      /\ Walking(w) /\ base \in Map!Trees
      /\ Child(w) = Upto(p, depth[w] + 1) /\ Child(w) \in Paths /\ Len(Child(w)) = depth[w] + 1
  BY WalkFacts
<1>2. ~PastArray(w) /\ ~lost[w] /\ tree = Map!Opened(base, p, depth[w])
  BY <1>1 DEF Walking, Blocked
<1>3. ASSUME NEW n \in 1..depth[w] PROVE tree[Upto(p, n)] = HASH
  <2>1. n \in 1..Len(p) /\ n <= depth[w] /\ n < Len(p) /\ depth[w] \in Nat
    BY <1>1
  <2> QED
    BY <1>1, <1>2, <2>1, OpenedAt
<1>4. ASSUME NEW n \in 1..(Len(Child(w)) - 1) PROVE tree[Upto(Child(w), n)] = HASH
  <2>1. depth[w] + 1 \in 1..Len(p) /\ n \in 1..(depth[w] + 1) /\ n \in 1..depth[w]
    BY <1>1
  <2>2. Upto(Child(w), n) = Upto(p, n)
    BY <1>1, <2>1, UptoUpto
  <2> QED
    BY <1>3, <2>1, <2>2
<1>5. tree[Child(w)] = base[Child(w)]
  <2>1. depth[w] + 1 \in 1..Len(p) /\ depth[w] < depth[w] + 1 /\ depth[w] \in Nat
    BY <1>1
  <2> QED
    BY <1>1, <1>2, <2>1, OpenedAt
<1> QED
  BY <1>2, <1>3, <1>4, <1>5 DEF Found

-----------------------------------------------------------------------------
(* The steps of a walk, each with what it does to the tree. *)

LEMMA Keeps ==
    ASSUME IInv, NEW w \in Workers, Alone(w), Inside(w) \/ UNCHANGED <<tree, base>>,
           TypeOK', LockInside', TreeInv', CallOK(w)'
    PROVE  IInv'
BY OthersKept DEF IInv

(* Taking out what is at the next key. *)
LEMMA ClearedKeeps ==
    ASSUME IInv, NEW w \in Workers, pc[w] = "walk", IsSet(w)
    PROVE  /\ Forest(Cleared(w))
           /\ Partly(w, Cleared(w))
<1> DEFINE p == Path(w)
<1>1. /\ p \in Paths /\ depth[w] \in 0..(Len(p) - 1) /\ Len(p) \in Nat
      /\ Forest(tree) /\ base \in Map!Trees
      /\ Child(w) = Upto(p, depth[w] + 1) /\ Child(w) \in Paths
  BY WalkFacts
<1>2. CASE Blocked(w)
  <2>1. tree = base /\ Cleared(w) = tree
    BY <1>2, BlockedFacts DEF Cleared, Blocked
  <2>2. Cleared(w) = Map!Opened(base, p, 0)
    BY <1>1, <2>1, OpenedNone
  <2>3. 0 \in 0..(Len(p) - 1)
    BY <1>1
  <2> QED
    BY <1>1, <2>1, <2>2, <2>3 DEF Partly
<1>3. CASE ~Blocked(w)
  <2>1. Cleared(w) = Map!Put(tree, Child(w), Nil)
    BY <1>3 DEF Cleared, Blocked
  <2>2. /\ tree = Map!Opened(base, p, depth[w])
        /\ \A n \in 1..(Len(Child(w)) - 1) : tree[Upto(Child(w), n)] = HASH
    BY <1>3, OpenFacts
  <2>3. Forest(Cleared(w))
    BY <1>1, <2>1, <2>2, NilFacts, PutForest
  <2>4. Partly(w, Cleared(w))
    BY <1>1, <2>1, <2>2 DEF Partly
  <2> QED
    BY <2>3, <2>4
<1> QED
  BY <1>2, <1>3

LEMMA BeginKeeps ==
    ASSUME IInv, NEW w \in Workers, NEW c \in Calls, Begin(w, c)
    PROVE  IInv'
<1>1. TypeOK'
  <2>1. Returned(c.op = "get", Nil) \in [ok : BOOLEAN, val : Map!AllValues]
    BY NilFacts DEF Returned
  <2>2. ret' \in [Workers -> [ok : BOOLEAN, val : Map!AllValues]]
    BY <2>1 DEF IInv, TypeOK, Begin
  <2>3. pc' \in [Workers -> {"idle", "lock", "walk", "unlock"}] /\ call' \in [Workers -> Calls \cup {NULL}]
    BY DEF IInv, TypeOK, Begin, Goto
  <2>4. /\ UNCHANGED <<world, tree, lock, depth, lost, ans, base>>
        /\ calls' \in Nat
    BY DEF IInv, TypeOK, Begin
  <2> QED
    BY <2>2, <2>3, <2>4 DEF IInv, TypeOK
<1>2. Alone(w) /\ UNCHANGED <<tree, base>>
  BY DEF IInv, TypeOK, Begin, Goto, Alone
<1>3. LockInside'
  BY DEF IInv, TypeOK, LockInside, Inside, Begin, Goto
<1>4. TreeInv'
  BY DEF IInv, TreeInv, Forest, Begin, Upto, Map!Upto
<1>5. CallOK(w)'
  <2>1. CallOK(w) /\ depth[w] = 0 /\ ~lost[w]
    BY DEF IInv, CallOK, Begin
  <2>2. c.path \in Paths \cup {NULL}
    BY CallFacts
  <2>3. UNCHANGED <<depth, lost>>
    BY DEF Begin
  <2>4. CASE c.path = NULL
    BY <2>1, <2>3, <2>4 DEF Begin, CallOK, Path
  <2>5. CASE c.path # NULL
    <3>1. pc'[w] = "lock" /\ call'[w] = c
      BY <2>5 DEF Begin, Goto, IInv, TypeOK
    <3> QED
      BY <2>1, <2>2, <2>3, <2>5, <3>1 DEF CallOK, Path
  <2> QED
    BY <2>4, <2>5
<1> QED
  BY <1>1, <1>2, <1>3, <1>4, <1>5, Keeps

LEMMA LockKeeps ==
    ASSUME IInv, NEW w \in Workers, Lock(w)
    PROVE  IInv'
<1>1. TypeOK'
  BY DEF IInv, TypeOK, Lock, Goto
<1>2. Alone(w) /\ UNCHANGED <<tree, base>>
  BY DEF IInv, TypeOK, Lock, Goto, Alone
<1>3. LockInside'
  <2>1. \A v \in Workers : ~Inside(v)
    BY GlobalStoreAssumption DEF IInv, LockInside, Lock
  <2>2. pc'[w] = "walk" /\ \A v \in Workers : v # w => pc'[v] = pc[v]
    BY DEF IInv, TypeOK, Lock, Goto
  <2>3. lock' = w
    BY DEF Lock
  <2> QED
    BY <2>1, <2>2, <2>3 DEF LockInside, Inside
<1>4. TreeInv' /\ tree = base
  BY GlobalStoreAssumption DEF IInv, TreeInv, Forest, Lock, Upto, Map!Upto
<1>5. CallOK(w)'
  <2>1. /\ call[w] \in Calls /\ Path(w) \in Paths
        /\ depth[w] = 0 /\ ~lost[w]
    BY DEF IInv, CallOK, Lock
  <2>2. /\ pc'[w] = "walk"
        /\ call'[w] = call[w] /\ depth'[w] = depth[w] /\ lost'[w] = lost[w]
        /\ tree' = tree /\ base' = base
    BY DEF IInv, TypeOK, Lock, Goto
  <2>3. Map!Opened(base, Path(w), 0) = base /\ Len(Path(w)) > 0
    BY <2>1, OpenedNone, PathFacts DEF IInv, TypeOK
  <2>4. ~PastArray(w)
    BY <2>1 DEF PastArray
  <2>5. Walking(w)
    BY <1>4, <2>1, <2>3, <2>4 DEF Walking
  <2>6. Walking(w)'
    BY <2>2, <2>5 DEF Walking, PastArray, Blocked, InArray, Here, IsSet, Path
  <2> QED
    BY <2>1, <2>2, <2>3, <2>6 DEF CallOK, Path
<1> QED
  BY <1>1, <1>2, <1>3, <1>4, <1>5, Keeps

LEMMA EnterKeeps ==
    ASSUME IInv, NEW w \in Workers, Enter(w)
    PROVE  IInv'
<1> DEFINE p == Path(w)
<1>1. pc[w] = "walk" /\ depth[w] + 1 < Len(p)
  BY DEF Enter, AtKey
<1>2. /\ p \in Paths /\ depth[w] \in 0..(Len(p) - 1) /\ Len(p) \in Nat /\ call[w] \in Calls
      /\ Walking(w) /\ Forest(base) /\ tree \in Map!Trees /\ base \in Map!Trees
      /\ Child(w) = Upto(p, depth[w] + 1) /\ Child(w) \in Paths /\ Len(Child(w)) = depth[w] + 1
  BY <1>1, WalkFacts
<1>3. /\ depth'[w] = depth[w] + 1
      /\ UNCHANGED <<world, tree, lock, pc, call, lost, ans, ret, calls, base>>
  BY DEF Enter, IInv, TypeOK
<1>4. TypeOK'
  BY <1>2 DEF IInv, TypeOK, Enter
<1>5. Alone(w)
  BY DEF IInv, TypeOK, Enter, Alone
<1>6. LockInside'
  BY <1>3 DEF IInv, LockInside, Inside
<1>7. TreeInv'
  BY <1>3 DEF IInv, TreeInv, Forest, Upto, Map!Upto
<1>8. Walking(w)'
  <2>1. CASE ~IsSet(w)
    BY <1>2, <1>3, <2>1 DEF Walking, IsSet
  <2>2. CASE IsSet(w)
    <3>1. ~Blocked(w)
      BY <1>1, <2>2, BlockedFacts, NodeFacts DEF Enter, IsObject
    <3>2. /\ ~PastArray(w) /\ ~lost[w]
          /\ tree = Map!Opened(base, p, depth[w])
          /\ \A n \in 1..depth[w] : tree[Upto(p, n)] = HASH
          /\ Found(w) = base[Child(w)]
      BY <1>1, <2>2, <3>1, OpenFacts
    <3>3. IsSet(w)' /\ ~lost'[w] /\ Path(w)' = p
      BY <1>3, <2>2, <3>2 DEF IsSet, Path
    <3>4. base[Child(w)] \in {HASH, ARRAY}
      BY <3>2 DEF Enter, IsObject
    <3>5. \A n \in 1..depth[w] : base[Upto(p, n)] = HASH
      <4> SUFFICES ASSUME NEW n \in 1..depth[w] PROVE base[Upto(p, n)] = HASH
        OBVIOUS
      <4>1. base[Child(w)] # NULL
        BY <3>4, NodeFacts
      <4>2. n \in 1..(Len(Child(w)) - 1) /\ depth[w] + 1 \in 1..Len(p) /\ n \in 1..(depth[w] + 1)
        BY <1>1, <1>2
      <4>3. base[Upto(Child(w), n)] = HASH
        BY <1>2, <4>1, <4>2 DEF Forest
      <4> QED
        BY <1>2, <4>2, <4>3, UptoUpto
    <3>6. Map!Opened(base, p, depth[w]) = base
      BY <1>2, <3>5, OpenedSame
    <3>7. CASE base[Child(w)] = ARRAY
      <4>1. PastArray(w)'
        BY <1>2, <1>3, <3>3, <3>7 DEF PastArray
      <4>2. InArray(w)'
        <5>1. Here(w)' = Child(w)
          BY <1>2, <1>3, <3>3 DEF Here, Upto
        <5>2. depth'[w] > 0 /\ tree'[Child(w)] = ARRAY
          BY <1>2, <1>3, <3>2, <3>6, <3>7
        <5> QED
          BY <5>1, <5>2 DEF InArray
      <4> QED
        BY <1>3, <3>2, <3>3, <3>6, <4>1, <4>2 DEF Walking, Blocked
    <3>8. CASE base[Child(w)] = HASH
      <4>1. \A n \in 1..(depth[w] + 1) : base[Upto(p, n)] = HASH
        BY <1>2, <3>5, <3>8
      <4>2. ~PastArray(w)'
        BY <1>3, <3>3, <4>1, NodeFacts DEF PastArray
      <4>3. depth[w] + 1 \in 0..(Len(p) - 1)
        BY <1>1, <1>2
      <4>4. Map!Opened(base, p, depth[w] + 1) = base
        BY <1>2, <4>1, <4>3, OpenedSame
      <4> QED
        BY <1>3, <3>2, <3>3, <3>6, <4>2, <4>4 DEF Walking
    <3> QED
      BY <3>4, <3>7, <3>8
  <2> QED
    BY <2>1, <2>2
<1>9. CallOK(w)'
  BY <1>1, <1>2, <1>3, <1>8 DEF CallOK, Path
<1> QED
  BY <1>1, <1>4, <1>5, <1>6, <1>7, <1>9, Keeps DEF Inside

LEMMA ReplaceKeeps ==
    ASSUME IInv, NEW w \in Workers, Replace(w)
    PROVE  IInv'
<1> DEFINE p == Path(w)
<1>1. pc[w] = "walk" /\ depth[w] + 1 < Len(p) /\ IsSet(w) /\ ~IsObject(Found(w))
  BY DEF Replace, AtKey
<1>2. /\ p \in Paths /\ depth[w] \in 0..(Len(p) - 1) /\ Len(p) \in Nat /\ call[w] \in Calls
      /\ Forest(tree) /\ tree \in Map!Trees /\ base \in Map!Trees
      /\ Child(w) = Upto(p, depth[w] + 1) /\ lock = w
  BY <1>1, WalkFacts
<1>3. /\ depth'[w] = depth[w] + 1
      /\ lost'[w] = Blocked(w)
      /\ tree' = IF Blocked(w) THEN tree ELSE [tree EXCEPT ![Child(w)] = HASH]
      /\ UNCHANGED <<world, lock, pc, call, ans, ret, calls, base>>
  BY DEF Replace, IInv, TypeOK, Blocked
<1>4. Forest(tree') /\ Walking(w)'
  <2>1. CASE Blocked(w)
    <3>1. PastArray(w) /\ tree = base
      BY <1>1, <2>1, BlockedFacts
    <3>2. PICK n \in 1..depth[w] : base[Upto(p, n)] = ARRAY
      BY <3>1 DEF PastArray
    <3>3. n \in 1..(depth[w] + 1)
      BY <1>2
    <3>4. PastArray(w)' /\ IsSet(w)'
      BY <1>1, <1>3, <3>2, <3>3 DEF PastArray, Path, IsSet
    <3> QED
      BY <1>2, <1>3, <2>1, <3>1, <3>4 DEF Walking, Blocked
  <2>2. CASE ~Blocked(w)
    <3>1. /\ ~PastArray(w) /\ tree = Map!Opened(base, p, depth[w])
          /\ Found(w) = base[Child(w)]
      BY <1>1, <2>2, OpenFacts
    <3>2. depth[w] \in Nat /\ depth[w] + 1 \in Nat
      BY <1>2
    <3>3. tree' = Map!Opened(base, p, depth[w] + 1)
      BY <1>1, <1>2, <1>3, <2>2, <3>1, <3>2, OpenedNext
    <3>4. Forest(base)
      BY DEF IInv, TreeInv
    <3>5. Forest(tree')
      BY <1>2, <3>2, <3>3, <3>4, OpenedForest
    <3>6. \A n \in 1..(depth[w] + 1) : base[Upto(p, n)] # ARRAY
      BY <1>1, <1>2, <3>1 DEF PastArray, IsObject
    <3>7. ~PastArray(w)' /\ IsSet(w)'
      BY <1>1, <1>3, <3>6 DEF PastArray, Path, IsSet
    <3> QED
      BY <1>3, <2>2, <3>3, <3>5, <3>7 DEF Walking, Path
  <2> QED
    BY <2>1, <2>2
<1>5. TypeOK'
  <2>1. tree' \in Map!Trees
    BY <1>4 DEF Forest
  <2>2. lost' \in [Workers -> BOOLEAN] /\ depth' \in [Workers -> Nat]
    BY DEF IInv, TypeOK, Replace
  <2> QED
    BY <1>3, <2>1, <2>2 DEF IInv, TypeOK
<1>6. Alone(w)
  BY DEF IInv, TypeOK, Replace, Alone
<1>7. LockInside'
  BY <1>3 DEF IInv, LockInside, Inside
<1>8. TreeInv'
  <2>1. lock # NULL
    BY <1>2, GlobalStoreAssumption
  <2> QED
    BY <1>3, <1>4, <2>1 DEF IInv, TreeInv, Forest, Upto, Map!Upto
<1>9. CallOK(w)'
  BY <1>1, <1>2, <1>3, <1>4 DEF CallOK, Path
<1> QED
  BY <1>1, <1>5, <1>6, <1>7, <1>8, <1>9, Keeps DEF Inside

(* The steps that come to an answer. *)
LEMMA FinishKeeps ==
    ASSUME IInv, NEW w \in Workers, NEW ok \in BOOLEAN, NEW v \in Map!AllValues,
           pc[w] = "walk", Finish(w, ok, v), Forest(tree'),
           \/ IsSet(w) /\ ok /\ v = Nil /\ tree' = Map!Assigned(base, Path(w), call[w].val)
           \/ IsSet(w) /\ ~ok /\ v = Nil /\ Partly(w, tree')
           \/ ~IsSet(w) /\ ok /\ v = Map!At(base, Path(w)) /\ tree' = base
    PROVE  IInv'
<1>1. call[w] \in Calls /\ Path(w) \in Paths /\ lock = w
  BY WalkFacts
<1>2. /\ ans' = [ans EXCEPT ![w] = Returned(ok, v)]
      /\ pc' = [pc EXCEPT ![w] = "unlock"]
      /\ UNCHANGED <<world, lock, call, depth, lost, ret, calls, base>>
  BY DEF Finish, Goto
<1>3. pc'[w] = "unlock" /\ ans'[w] = Returned(ok, v)
  BY <1>2 DEF IInv, TypeOK
<1>4. TypeOK'
  <2>1. Returned(ok, v) \in [ok : BOOLEAN, val : Map!AllValues]
    BY DEF Returned
  <2>2. ans' \in [Workers -> [ok : BOOLEAN, val : Map!AllValues]]
    BY <1>2, <2>1 DEF IInv, TypeOK
  <2>3. pc' \in [Workers -> {"idle", "lock", "walk", "unlock"}]
    BY <1>2 DEF IInv, TypeOK
  <2>4. tree' \in Map!Trees
    BY DEF Forest
  <2> QED
    BY <1>2, <2>2, <2>3, <2>4 DEF IInv, TypeOK
<1>5. Alone(w)
  BY <1>2 DEF IInv, TypeOK, Alone
<1>6. LockInside'
  BY <1>2, <1>3 DEF IInv, TypeOK, LockInside, Inside
<1>7. TreeInv'
  <2>1. lock # NULL
    BY <1>1, GlobalStoreAssumption
  <2> QED
    BY <1>2, <2>1 DEF IInv, TreeInv, Forest, Upto, Map!Upto
<1>8. Finished(w)'
  <2>1. call' = call /\ base' = base
    BY <1>2
  <2>2. CASE IsSet(w) /\ ok /\ v = Nil /\ tree' = Map!Assigned(base, Path(w), call[w].val)
    BY <1>3, <2>1, <2>2 DEF Finished, IsSet, Path, Returned
  <2>3. CASE IsSet(w) /\ ~ok /\ v = Nil /\ Partly(w, tree')
    BY <1>3, <2>1, <2>3 DEF Finished, IsSet, Path, Returned, Partly
  <2>4. CASE ~IsSet(w) /\ ok /\ v = Map!At(base, Path(w)) /\ tree' = base
    BY <1>3, <2>1, <2>4 DEF Finished, IsSet, Path, Returned
  <2> QED
    BY <2>2, <2>3, <2>4
<1>9. CallOK(w)'
  BY <1>1, <1>2, <1>3, <1>8 DEF CallOK, Path
<1> QED
  BY <1>4, <1>5, <1>6, <1>7, <1>9, Keeps DEF Inside

LEMMA FailKeeps ==
    ASSUME IInv, NEW w \in Workers, ReplaceFails(w) \/ StoreFails(w)
    PROVE  IInv'
<1>1. pc[w] = "walk" /\ IsSet(w) /\ tree' = Cleared(w) /\ Finish(w, FALSE, Nil)
  BY DEF ReplaceFails, StoreFails, AtKey, AtLast
<1>2. Forest(tree') /\ Partly(w, tree')
  BY <1>1, ClearedKeeps
<1> QED
  BY <1>1, <1>2, NilFacts, FinishKeeps

LEMMA StoreKeeps ==
    ASSUME IInv, NEW w \in Workers, Store(w)
    PROVE  IInv'
<1> DEFINE p == Path(w)
           v == call[w].val
<1>1. /\ pc[w] = "walk" /\ depth[w] + 1 = Len(p) /\ IsSet(w) /\ Finish(w, TRUE, Nil)
      /\ tree' = IF Blocked(w) \/ Map!EndsBlank(p) THEN tree ELSE Map!Put(tree, p, v)
  BY DEF Store, AtLast, Blocked
<1>2. /\ p \in Paths /\ depth[w] \in 0..(Len(p) - 1) /\ Len(p) \in Nat /\ call[w] \in Calls
      /\ Forest(tree) /\ tree \in Map!Trees /\ base \in Map!Trees
      /\ depth[w] = Len(p) - 1
  BY <1>1, WalkFacts
<1>3. v \in Map!AllValues /\ Map!WellFormed(v)
  BY <1>2, CallFacts
<1>4. PastArray(w) <=> Map!UnderArray(base, p)
  BY <1>2 DEF PastArray, Map!UnderArray, Upto
<1>5. CASE Blocked(w)
  <2>1. PastArray(w) /\ tree = base
    BY <1>1, <1>5, BlockedFacts
  <2>2. tree' = Map!Assigned(base, p, v)
    BY <1>1, <1>4, <1>5, <2>1 DEF Map!Assigned
  <2> QED
    BY <1>1, <1>2, <1>5, <2>2, NilFacts, FinishKeeps
<1>6. CASE ~Blocked(w)
  <2>1. /\ ~PastArray(w) /\ tree = Map!Opened(base, p, Len(p) - 1)
        /\ \A n \in 1..(Len(p) - 1) : tree[Upto(p, n)] = HASH
    BY <1>1, <1>2, <1>6, OpenFacts
  <2>2. tree' = Map!Assigned(base, p, v)
    BY <1>1, <1>4, <1>6, <2>1 DEF Map!Assigned
  <2>3. Forest(tree')
    <3>1. Forest(Map!Put(tree, p, v))
      BY <1>2, <1>3, <2>1, PutForest
    <3> QED
      BY <1>1, <1>2, <1>6, <3>1
  <2> QED
    BY <1>1, <2>2, <2>3, NilFacts, FinishKeeps
<1> QED
  BY <1>5, <1>6

LEMMA GetKeeps ==
    ASSUME IInv, NEW w \in Workers, Miss(w) \/ Answer(w)
    PROVE  IInv'
<1> DEFINE p == Path(w)
<1>1. pc[w] = "walk" /\ ~IsSet(w) /\ tree' = tree
  BY DEF Miss, Answer, AtKey, AtLast
<1>2. /\ p \in Paths /\ depth[w] \in 0..(Len(p) - 1) /\ Len(p) \in Nat
      /\ Forest(tree) /\ tree \in Map!Trees
      /\ Child(w) = Upto(p, depth[w] + 1)
      /\ tree = base /\ ~lost[w]
  BY <1>1, WalkFacts DEF Walking
<1>3. Map!At(tree, p) \in Map!AllValues
  BY <1>2, AtValue
<1>4. CASE Miss(w)
  <2>1. depth[w] + 1 < Len(p) /\ tree[Child(w)] \notin {HASH, ARRAY} /\ Finish(w, TRUE, Nil)
    BY <1>2, <1>4 DEF Miss, AtKey, Found, IsObject
  <2>2. depth[w] + 1 \in 1..(Len(p) - 1)
    BY <1>2, <2>1
  <2>3. Map!At(tree, p) = Nil
    BY <1>2, <2>1, <2>2, AtNil
  <2> QED
    BY <1>1, <1>2, <1>3, <2>1, <2>3, FinishKeeps
<1>5. CASE Answer(w)
  BY <1>1, <1>2, <1>3, <1>5, FinishKeeps DEF Answer
<1> QED
  BY <1>4, <1>5

LEMMA LeaveTypes ==
    ASSUME IInv, NEW w \in Workers, Leave(w)
    PROVE  /\ pc' \in [Workers -> {"idle", "lock", "walk", "unlock"}]
           /\ call' \in [Workers -> Calls \cup {NULL}]
           /\ depth' \in [Workers -> Nat] /\ lost' \in [Workers -> BOOLEAN]
           /\ ans' \in [Workers -> [ok : BOOLEAN, val : Map!AllValues]]
           /\ Alone(w) /\ CallOK(w)'
<1>1. Returned(TRUE, Nil) \in [ok : BOOLEAN, val : Map!AllValues]
  BY NilFacts DEF Returned
<1>2. ans' \in [Workers -> [ok : BOOLEAN, val : Map!AllValues]]
  BY <1>1 DEF IInv, TypeOK, Leave
<1>3. /\ pc' \in [Workers -> {"idle", "lock", "walk", "unlock"}]
      /\ call' \in [Workers -> Calls \cup {NULL}]
      /\ depth' \in [Workers -> Nat] /\ lost' \in [Workers -> BOOLEAN]
  BY DEF IInv, TypeOK, Leave, Goto
<1>4. Alone(w)
  BY DEF IInv, TypeOK, Leave, Goto, Alone
<1>5. pc'[w] = "idle" /\ depth'[w] = 0 /\ ~lost'[w]
  BY DEF IInv, TypeOK, Leave, Goto
<1> QED
  BY <1>2, <1>3, <1>4, <1>5 DEF CallOK

LEMMA RaiseKeeps ==
    ASSUME IInv, NEW w \in Workers, Raise(w)
    PROVE  IInv'
<1>1. /\ pc[w] = "walk" /\ world.raises /\ Leave(w)
      /\ UNCHANGED <<world, lock, ret, calls, base>>
      /\ tree' = IF IsSet(w) THEN Cleared(w) ELSE tree
  BY DEF Raise, AtLast
<1>2. lock = w /\ lock # NULL /\ Forest(tree)
  BY <1>1, WalkFacts, GlobalStoreAssumption
<1>3. Forest(tree')
  BY <1>1, <1>2, ClearedKeeps
<1>4. TypeOK'
  <2>1. tree' \in Map!Trees
    BY <1>3 DEF Forest
  <2> QED
    BY <1>1, <2>1, LeaveTypes DEF IInv, TypeOK
<1>5. LockInside'
  BY <1>1, <1>2 DEF IInv, TypeOK, LockInside, Inside, Leave, Goto
<1>6. TreeInv'
  BY <1>1, <1>2, <1>3 DEF IInv, TreeInv, Forest, Upto, Map!Upto
<1> QED
  BY <1>1, <1>4, <1>5, <1>6, LeaveTypes, Keeps DEF Inside

LEMMA UnlockKeeps ==
    ASSUME IInv, NEW w \in Workers, Unlock(w)
    PROVE  IInv'
<1>1. /\ pc[w] = "unlock" /\ lock' = NULL /\ base' = tree /\ Leave(w)
      /\ ret' = [ret EXCEPT ![w] = ans[w]]
      /\ UNCHANGED <<world, tree, calls>>
  BY DEF Unlock
<1>2. TypeOK'
  <2>1. ret' \in [Workers -> [ok : BOOLEAN, val : Map!AllValues]]
    BY <1>1 DEF IInv, TypeOK
  <2> QED
    BY <1>1, <2>1, LeaveTypes DEF IInv, TypeOK
<1>3. LockInside'
  BY <1>1 DEF IInv, TypeOK, LockInside, Inside, Leave, Goto
<1>4. TreeInv'
  BY <1>1 DEF IInv, TreeInv, Forest, Upto, Map!Upto
<1> QED
  BY <1>1, <1>2, <1>3, <1>4, LeaveTypes, Keeps DEF Inside

-----------------------------------------------------------------------------
LEMMA InitInv == Init => IInv
<1> SUFFICES ASSUME Init PROVE IInv
  OBVIOUS
<1>1. tree = [q \in Paths |-> NULL] /\ base = tree
  BY DEF Init
<1>2. tree \in Map!Trees /\ \A q \in Paths : tree[q] = NULL
  BY <1>1, NodeFacts DEF Map!Trees, Paths
<1>3. Forest(tree) /\ Forest(base)
  BY <1>1, <1>2 DEF Forest
<1>4. TypeOK
  <2>1. Returned(TRUE, Nil) \in [ok : BOOLEAN, val : Map!AllValues]
    BY NilFacts DEF Returned
  <2>2. world \in [fails : BOOLEAN, raises : BOOLEAN]
    BY GlobalStoreAssumption DEF Init
  <2> QED
    BY <1>1, <1>2, <2>1, <2>2 DEF Init, TypeOK
<1>5. LockInside /\ \A w \in Workers : CallOK(w)
  BY DEF Init, LockInside, Inside, CallOK
<1> QED
  BY <1>1, <1>3, <1>4, <1>5 DEF IInv, TreeInv

LEMMA NextInv == IInv /\ [Next]_vars => IInv'
<1> SUFFICES ASSUME IInv, [Next]_vars PROVE IInv'
  OBVIOUS
<1>1. ASSUME NEW w \in Workers, Step(w) PROVE IInv'
  BY <1>1, LockKeeps, EnterKeeps, ReplaceKeeps, FailKeeps, StoreKeeps, GetKeeps, UnlockKeeps DEF Step
<1>2. ASSUME NEW w \in Workers, Raise(w) PROVE IInv'
  BY <1>2, RaiseKeeps
<1>3. ASSUME NEW w \in Workers, NEW c \in Calls, Begin(w, c) PROVE IInv'
  BY <1>3, BeginKeeps
<1>4. CASE UNCHANGED vars
  <2>1. TypeOK' /\ LockInside'
    BY <1>4 DEF vars, IInv, TypeOK, LockInside, Inside
  <2>2. TreeInv'
    BY <1>4 DEF vars, IInv, TreeInv, Forest, Upto, Map!Upto
  <2>3. \A w \in Workers : CallOK(w)'
    BY <1>4 DEF vars, IInv, CallOK, Walking, Finished, Partly, PastArray, Blocked, InArray, Here, IsSet, Path
  <2> QED
    BY <2>1, <2>2, <2>3 DEF IInv
<1> QED
  BY <1>1, <1>2, <1>3, <1>4 DEF Next

LEMMA Inductive == Spec => []IInv
BY InitInv, NextInv, PTL DEF Spec

(* Every variable keeps its type, whatever hooks call and whatever fails.  *)
THEOREM TypeCorrect == Spec => []TypeOK
<1>1. IInv => TypeOK
  BY DEF IInv
<1> QED
  BY <1>1, Inductive, PTL

(* Every return of global_set and global_get unlocks, and nobody is inside *)
(* without base_lock, however many workers call.                           *)
THEOREM LockCorrect == Spec => []LockInside
<1>1. IInv => LockInside
  BY DEF IInv
<1> QED
  BY <1>1, Inductive, PTL

(* What is in the tree hangs in tables at all times, also while a set is   *)
(* under way, fails or is left by a Lua error (global_set).                *)
THEOREM RootedCorrect == Spec => []Rooted
<1>1. IInv => Rooted
  <2> SUFFICES ASSUME IInv, NEW q \in Paths, Len(q) > 1, tree[q] # NULL
               PROVE  tree[Map!Upto(q, Len(q) - 1)] = HASH
    BY DEF Rooted
  <2>1. Len(q) - 1 \in 1..(Len(q) - 1)
    BY PathFacts
  <2> QED
    BY <2>1 DEF IInv, TreeInv, Forest, Upto
<1> QED
  BY <1>1, Inductive, PTL

-----------------------------------------------------------------------------
(* The walk implements the map: unlocking is the call, and every other     *)
(* step but a bad path is a stutter.                                       *)

LEMMA UnlockMaps ==
    ASSUME IInv, NEW w \in Workers, Unlock(w)
    PROVE  Map!Next
<1> DEFINE p == Path(w)
<1>1. /\ pc[w] = "unlock" /\ base' = tree
      /\ ret' = [ret EXCEPT ![w] = ans[w]]
  BY DEF Unlock
<1>2. call[w] \in Calls /\ p \in Paths /\ Finished(w)
  BY <1>1 DEF IInv, CallOK
<1>3. call[w].val \in Values
  BY <1>2, CallFacts
<1>4. CASE IsSet(w) /\ ans[w] = Returned(TRUE, Nil) /\ tree = Map!Assigned(base, p, call[w].val)
  <2>1. Map!Set(w, p, call[w].val)
    BY <1>1, <1>4 DEF Map!Set, Map!Answer, Returned, Nil
  <2> QED
    BY <1>2, <1>3, <2>1 DEF Map!Next, Paths
<1>5. CASE IsSet(w) /\ ans[w] = Returned(FALSE, Nil) /\ Partly(w, tree)
  <2>1. Map!SetFails(w, p)
    BY <1>1, <1>5 DEF Map!SetFails, Map!Answer, Returned, Nil, Partly, Upto
  <2> QED
    BY <1>2, <2>1 DEF Map!Next, Paths
<1>6. CASE ~IsSet(w)
  <2>1. tree = base /\ ans[w] = Returned(TRUE, Map!At(base, p))
    BY <1>2, <1>6 DEF Finished
  <2>2. Map!Get(w, p)
    BY <1>1, <2>1 DEF Map!Get, Map!Answer, Returned
  <2> QED
    BY <1>2, <2>2 DEF Map!Next, Paths
<1> QED
  BY <1>2, <1>4, <1>5, <1>6 DEF Finished

LEMMA BeginMaps ==
    ASSUME IInv, NEW w \in Workers, NEW c \in Calls, Begin(w, c)
    PROVE  Map!Next \/ UNCHANGED <<base, ret>>
<1>1. CASE c.path = NULL
  <2>1. base' = base /\ ret' = [ret EXCEPT ![w] = Returned(c.op = "get", Nil)]
    BY <1>1 DEF Begin
  <2>2. Map!BadPath(w, c.op = "get")
    BY <2>1 DEF Map!BadPath, Map!Answer, Returned, Nil
  <2>3. (c.op = "get") \in BOOLEAN
    OBVIOUS
  <2> QED
    BY <2>2, <2>3 DEF Map!Next
<1>2. CASE c.path # NULL
  BY <1>2 DEF Begin
<1> QED
  BY <1>1, <1>2

LEMMA NextMaps == IInv /\ [Next]_vars => [Map!Next]_<<base, ret>>
<1> SUFFICES ASSUME IInv, [Next]_vars PROVE Map!Next \/ UNCHANGED <<base, ret>>
  OBVIOUS
<1>1. ASSUME NEW w \in Workers, Step(w) PROVE Map!Next \/ UNCHANGED <<base, ret>>
  <2>1. CASE Unlock(w)
    BY <2>1, UnlockMaps
  <2>2. CASE Lock(w) \/ Enter(w) \/ Replace(w)
    BY <2>2 DEF Lock, Enter, Replace
  <2>3. CASE ReplaceFails(w) \/ Store(w) \/ StoreFails(w) \/ Miss(w) \/ Answer(w)
    BY <2>3 DEF ReplaceFails, Store, StoreFails, Miss, Answer, Finish
  <2> QED
    BY <1>1, <2>1, <2>2, <2>3 DEF Step
<1>2. ASSUME NEW w \in Workers, Raise(w) PROVE UNCHANGED <<base, ret>>
  BY <1>2 DEF Raise
<1>3. CASE UNCHANGED vars
  BY <1>3 DEF vars
<1> QED
  BY <1>1, <1>2, <1>3, BeginMaps DEF Next

LEMMA InitMaps == Init => Map!Init
BY DEF Init, Map!Init, Returned, Nil, Paths

(* The store under the spinlock is the map of dotted paths: what a hook    *)
(* gets is what the calls before it left, for any number of workers, keys, *)
(* levels and values, also when allocations fail or Lua raises.            *)
THEOREM Refinement == Spec => StoreSpec
BY InitMaps, NextMaps, Inductive, PTL DEF Spec, StoreSpec, Map!Spec
-----------------------------------------------------------------------------
(* The containers. *)

Careful == setting.quiet /\ setting.complete /\ ~world.fails

(* The loops over the workers. *)
LoopInv ==
    /\ setting \in [quiet : BOOLEAN, complete : BOOLEAN, stores : 0..MaxCalls, signals : BOOLEAN]
    /\ file \in Files /\ Usable(file)
    /\ edition \in Nat /\ edition >= 1 /\ floor \in Nat /\ floor <= edition /\ main.from <= edition
    /\ main.inside => main.op # "none" /\ main.i < NumWorkers
    /\ main.op = "start" => \A w \in open : w < main.i

(* No file is older than the last loop that ended, and up to the turn of   *)
(* main none is older than the loop that is under way.                     *)
NewInv ==
    setting.complete =>
        /\ \A w \in open, h \in Hooks : globals[w][h] >= floor /\ globals[w][h] >= 1
        /\ ~wild /\ main.op # "none" =>
            \A w \in open, h \in Hooks : w < main.i => globals[w][h] >= main.from

(* While signals wait for hooks, hooks wait for the main thread. *)
QuietInv ==
    Careful =>
        /\ ~wild
        /\ \A w \in Workers : top[w] = 0
        /\ main.op # "none" => \A w \in Workers : where[w] = "idle"

RInv == IInv /\ RuntimeTypeOK /\ LoopInv /\ NewInv /\ QuietInv

-----------------------------------------------------------------------------
(* The runtime's steps are the store's steps or leave the store alone. *)
LEMMA RuntimeStore == RuntimeNext => [Next]_vars
<1> SUFFICES ASSUME RuntimeNext PROVE Next \/ UNCHANGED vars
  OBVIOUS
<1>1. ASSUME NEW w \in Workers, Worker(w) PROVE Next \/ UNCHANGED vars
  <2>1. CASE CallStore(w)
    BY <2>1 DEF CallStore, Next
  <2>2. CASE GoOn(w)
    BY <2>2 DEF GoOn, Next
  <2>3. CASE HookRaises(w)
    BY <2>3 DEF HookRaises, Next
  <2>4. CASE HookReturns(w)
    BY <2>4 DEF HookReturns
  <2>5. ASSUME NEW h \in Hooks, CallHook(w, h) PROVE UNCHANGED vars
    BY <2>5 DEF CallHook
  <2> QED
    BY <1>1, <2>1, <2>2, <2>3, <2>4, <2>5 DEF Worker
<1>2. CASE MainThread
  BY <1>2 DEF MainThread, Signal, TurnBegins, TurnEnds, TurnFails, LoopEnds
<1>3. CASE EditFile
  BY <1>3 DEF EditFile
<1> QED
  BY <1>1, <1>2, <1>3 DEF RuntimeNext

LEMMA StoreInv == IInv /\ [RuntimeNext]_allVars => IInv'
<1> SUFFICES ASSUME IInv, [RuntimeNext]_allVars PROVE IInv'
  OBVIOUS
<1>1. [Next]_vars
  BY RuntimeStore DEF allVars
<1> QED
  BY <1>1, NextInv

LEMMA RuntimeInitInv == RuntimeInit => RInv
<1> SUFFICES ASSUME RuntimeInit PROVE RInv
  OBVIOUS
<1>1. Init /\ IInv /\ TypeOK
  BY InitInv DEF RuntimeInit, IInv
<1>2. \A w \in Workers : pc[w] = "idle"
  BY <1>1 DEF Init
<1>3. RuntimeTypeOK
  BY <1>1, <1>2, ScriptRuntimeAssumption DEF RuntimeInit, RuntimeTypeOK
<1>4. LoopInv
  BY ScriptRuntimeAssumption DEF RuntimeInit, LoopInv
<1>5. NewInv /\ QuietInv
  BY DEF RuntimeInit, NewInv, QuietInv
<1> QED
  BY <1>1, <1>3, <1>4, <1>5 DEF RInv

-----------------------------------------------------------------------------
LEMMA EditFileKeeps ==
    ASSUME RInv, ~wild, IInv', EditFile
    PROVE  RInv'
<1>1. RuntimeTypeOK'
  BY DEF RInv, IInv, RuntimeTypeOK, EditFile, vars
<1>2. LoopInv'
  <2>1. file' \in Files /\ Usable(file') /\ setting' = setting
    BY DEF EditFile
  <2>2. Usable(file)'
    BY <2>1 DEF Usable
  <2>3. main.from \in Nat /\ edition' = edition + 1
    BY DEF RInv, RuntimeTypeOK, EditFile
  <2>4. UNCHANGED <<open, main, floor>>
    BY DEF EditFile
  <2> QED
    BY <2>1, <2>2, <2>3, <2>4 DEF RInv, LoopInv
<1>3. NewInv' /\ QuietInv'
  BY DEF RInv, NewInv, QuietInv, Careful, EditFile, vars
<1> QED
  BY <1>1, <1>2, <1>3 DEF RInv

LEMMA SignalKeeps ==
    ASSUME RInv, ~wild, IInv', Signal
    PROVE  RInv'
<1>1. PICK op \in {"load", "restart"} : main' = [op |-> op, i |-> 0, inside |-> FALSE, from |-> edition]
  BY DEF Signal
<1>2. RuntimeTypeOK'
  <2>1. 0 \in 0..NumWorkers /\ edition \in Nat
    BY ScriptRuntimeAssumption DEF RInv, LoopInv
  <2>2. main' \in [op : {"start", "load", "restart", "none"}, i : 0..NumWorkers, inside : BOOLEAN, from : Nat]
    BY <1>1, <2>1
  <2>3. UNCHANGED <<vars, open, globals, top, where>>
    BY DEF Signal
  <2> QED
    BY <2>2, <2>3 DEF RInv, IInv, RuntimeTypeOK, vars
<1>3. LoopInv'
  BY <1>1 DEF RInv, LoopInv, Signal, Usable
<1>4. NewInv'
  <2>1. \A w \in Workers : ~(w < 0)
    BY ScriptRuntimeAssumption
  <2> QED
    BY <1>1, <2>1 DEF RInv, RuntimeTypeOK, NewInv, Signal
<1>5. QuietInv'
  BY <1>1 DEF RInv, QuietInv, Careful, Signal, vars
<1> QED
  BY <1>2, <1>3, <1>4, <1>5 DEF RInv

LEMMA TurnBeginsKeeps ==
    ASSUME RInv, ~wild, IInv', TurnBegins
    PROVE  RInv'
<1>1. main \in [op : {"start", "load", "restart", "none"}, i : 0..NumWorkers, inside : BOOLEAN, from : Nat]
  BY DEF RInv, RuntimeTypeOK
<1>2. /\ main' = [main EXCEPT !.inside = TRUE] /\ main.op # "none" /\ main.i < NumWorkers
      /\ UNCHANGED <<vars, setting, open, globals, top, where, file, edition, floor>>
      /\ wild' = (main.op # "start" /\ main.i \in open /\ where[main.i] = "hook")
  BY DEF TurnBegins
<1>3. /\ main'.op = main.op /\ main'.i = main.i /\ main'.inside /\ main'.from = main.from
      /\ main' \in [op : {"start", "load", "restart", "none"}, i : 0..NumWorkers, inside : BOOLEAN, from : Nat]
  BY <1>1, <1>2
<1>4. RuntimeTypeOK'
  BY <1>2, <1>3 DEF RInv, IInv, RuntimeTypeOK, vars
<1>5. LoopInv'
  BY <1>2, <1>3 DEF RInv, LoopInv, Usable
<1>6. QuietInv'
  <2>1. main.i \in open => main.i \in Workers
    BY DEF RInv, RuntimeTypeOK
  <2> QED
    BY <1>2, <1>3, <2>1 DEF RInv, QuietInv, Careful, vars
<1>7. NewInv'
  BY <1>2, <1>3 DEF RInv, NewInv
<1> QED
  BY <1>4, <1>5, <1>6, <1>7 DEF RInv

(* A loaded script: no edition is older than before, and a file that loads *)
(* and defines all hooks leaves nothing on the stack.                      *)
LEMMA LoadedFacts ==
    ASSUME RInv, NEW w \in Workers, NEW g \in [Hooks -> Nat], NEW n \in Nat, Loaded(w, g, n)
    PROVE  /\ globals' \in [Workers -> [Hooks -> Nat]] /\ top' \in [Workers -> Nat]
           /\ \A v \in Workers : v # w => globals'[v] = globals[v] /\ top'[v] = top[v]
           /\ setting.complete => /\ \A h \in Hooks : globals'[w][h] = edition
                                  /\ top'[w] = n
<1> DEFINE D(X) == [h \in Hooks |-> IF h \in X THEN edition ELSE g[h]]
<1>1. edition \in Nat /\ globals \in [Workers -> [Hooks -> Nat]] /\ top \in [Workers -> Nat]
  BY DEF RInv, RuntimeTypeOK, LoopInv
<1>2. PICK f \in [Hooks -> Nat], m \in {n, n + 1} :
        /\ globals' = [globals EXCEPT ![w] = f] /\ top' = [top EXCEPT ![w] = m]
        /\ file.load = "ok" => m = n /\ f = D(file.defines)
  <2>1. \A X \in SUBSET Hooks : D(X) \in [Hooks -> Nat]
    BY <1>1
  <2>2. file.defines \in SUBSET Hooks
    BY ScriptRuntimeAssumption DEF RInv, LoopInv
  <2>3. CASE file.load = "ok"
    <3>1. globals' = [globals EXCEPT ![w] = D(file.defines)] /\ top' = [top EXCEPT ![w] = n]
      BY <2>3 DEF Loaded
    <3> QED
      BY <2>1, <2>2, <3>1
  <2>4. CASE file.load = "broken"
    <3>1. globals' = [globals EXCEPT ![w] = g] /\ top' = [top EXCEPT ![w] = n + 1]
      BY <2>4 DEF Loaded
    <3> QED
      BY <2>4, <3>1
  <2>5. CASE file.load = "raises"
    <3>1. PICK X \in SUBSET file.defines :
            globals' = [globals EXCEPT ![w] = D(X)] /\ top' = [top EXCEPT ![w] = n + 1]
      BY <2>5 DEF Loaded
    <3>2. D(X) \in [Hooks -> Nat]
      BY <2>1, <2>2
    <3> QED
      BY <2>5, <3>1, <3>2
  <2> QED
    BY <2>3, <2>4, <2>5 DEF Loaded
<1>3. setting.complete => file.load = "ok" /\ file.defines = Hooks
  BY DEF RInv, LoopInv, Usable
<1>4. globals' \in [Workers -> [Hooks -> Nat]] /\ top' \in [Workers -> Nat]
  BY <1>1, <1>2
<1>5. globals'[w] = f /\ top'[w] = m /\ \A v \in Workers : v # w => globals'[v] = globals[v] /\ top'[v] = top[v]
  BY <1>1, <1>2
<1> QED
  BY <1>2, <1>3, <1>4, <1>5

(* The end of a turn: what became of the container of the worker. *)
LEMMA TurnEndsFacts ==
    ASSUME RInv, TurnEnds
    PROVE  /\ main.i \in Workers /\ open' \subseteq Workers /\ open \subseteq open'
           /\ open' \subseteq open \cup {main.i}
           /\ main.op # "start" => open' = open
           /\ globals' \in [Workers -> [Hooks -> Nat]] /\ top' \in [Workers -> Nat]
           /\ \A v \in Workers : v # main.i => globals'[v] = globals[v] /\ top'[v] = top[v]
           /\ main.i \in open' /\ setting.complete =>
                    /\ \A h \in Hooks : globals'[main.i][h] = edition
                    /\ top'[main.i] \in {0, top[main.i]}
           /\ main.i \notin open' => top' = top
<1> DEFINE w == main.i
<1>1. w \in Workers
  BY ScriptRuntimeAssumption DEF RInv, RuntimeTypeOK, LoopInv, TurnEnds
<1>2. open \subseteq Workers /\ globals \in [Workers -> [Hooks -> Nat]] /\ top \in [Workers -> Nat]
  BY DEF RInv, RuntimeTypeOK
<1>3. [h \in Hooks |-> 0] \in [Hooks -> Nat] /\ 0 \in Nat /\ globals[w] \in [Hooks -> Nat] /\ top[w] \in Nat
  BY <1>1, <1>2
<1>4. CASE main.op = "start" /\ open' = open \cup {w} /\ Fresh(w)
  <2>1. Loaded(w, [h \in Hooks |-> 0], 0)
    BY <1>4 DEF Fresh
  <2> QED
    BY <1>1, <1>2, <1>3, <1>4, <2>1, LoadedFacts
<1>5. CASE main.op = "restart" /\ w \in open /\ Fresh(w) /\ UNCHANGED open
  <2>1. Loaded(w, [h \in Hooks |-> 0], 0)
    BY <1>5 DEF Fresh
  <2> QED
    BY <1>1, <1>2, <1>3, <1>5, <2>1, LoadedFacts
<1>6. CASE main.op = "load" /\ w \in open /\ Reload(w) /\ UNCHANGED open
  <2>1. Loaded(w, globals[w], top[w])
    BY <1>6 DEF Reload
  <2> QED
    BY <1>1, <1>2, <1>3, <1>6, <2>1, LoadedFacts
<1>7. CASE main.op # "start" /\ w \notin open /\ UNCHANGED <<open, globals, top>>
  BY <1>1, <1>2, <1>7
<1>8. \/ main.op = "start" /\ open' = open \cup {w} /\ Fresh(w)
      \/ main.op = "restart" /\ w \in open /\ Fresh(w) /\ UNCHANGED open
      \/ main.op = "load" /\ w \in open /\ Reload(w) /\ UNCHANGED open
      \/ main.op # "start" /\ w \notin open /\ UNCHANGED <<open, globals, top>>
  BY DEF TurnEnds
<1> QED
  BY Zenon, <1>4, <1>5, <1>6, <1>7, <1>8

LEMMA NextTurnFacts ==
    ASSUME RInv, main.inside, NextTurn
    PROVE  /\ main' \in [op : {"start", "load", "restart", "none"}, i : 0..NumWorkers, inside : BOOLEAN, from : Nat]
           /\ main'.op = main.op /\ main'.i = main.i + 1 /\ ~main'.inside /\ main'.from = main.from
           /\ main.op # "none" /\ main.i \in Nat
           /\ \A w \in Workers : w < main.i + 1 <=> w < main.i \/ w = main.i
<1>1. /\ main \in [op : {"start", "load", "restart", "none"}, i : 0..NumWorkers, inside : BOOLEAN, from : Nat]
      /\ main.op # "none" /\ main.i < NumWorkers
  BY DEF RInv, RuntimeTypeOK, LoopInv
<1>2. main.i \in Nat /\ main.i + 1 \in 0..NumWorkers
  BY <1>1, ScriptRuntimeAssumption
<1>3. \A w \in Workers : w \in Nat
  BY ScriptRuntimeAssumption
<1>4. main' = [main EXCEPT !.inside = FALSE, !.i = main.i + 1]
  BY DEF NextTurn
<1>5. main' = [op |-> main.op, i |-> main.i + 1, inside |-> FALSE, from |-> main.from]
  BY <1>1, <1>4
<1>6. main' \in [op : {"start", "load", "restart", "none"}, i : 0..NumWorkers, inside : BOOLEAN, from : Nat]
  BY <1>1, <1>2, <1>5
<1>7. ASSUME NEW w \in Workers PROVE w < main.i + 1 <=> w < main.i \/ w = main.i
  <2> DEFINE i == main.i
  <2>1. w \in Nat /\ i \in Nat
    BY <1>2, <1>3
  <2> HIDE DEF i
  <2>2. w < i + 1 <=> w < i \/ w = i
    BY <2>1
  <2> QED
    BY <2>2 DEF i
<1>8. main'.op = main.op /\ main'.i = main.i + 1 /\ main'.from = main.from
  BY <1>5
<1>9. ~main'.inside
  BY <1>5
<1> QED
  BY <1>1, <1>2, <1>6, <1>7, <1>8, <1>9

LEMMA TurnEndsKeeps ==
    ASSUME RInv, ~wild, IInv', TurnEnds
    PROVE  RInv'
<1>1. /\ main.inside /\ NextTurn /\ wild' = (\E w \in Workers : top'[w] > Room)
      /\ UNCHANGED <<vars, setting, where, file, edition, floor>>
  BY DEF TurnEnds
<1>2. /\ main' \in [op : {"start", "load", "restart", "none"}, i : 0..NumWorkers, inside : BOOLEAN, from : Nat]
      /\ main'.op = main.op /\ main'.i = main.i + 1 /\ ~main'.inside /\ main'.from = main.from
      /\ main.op # "none" /\ main.i \in Nat
      /\ \A w \in Workers : w < main.i + 1 <=> w < main.i \/ w = main.i
  BY <1>1, NextTurnFacts
<1>3. RuntimeTypeOK'
  BY <1>1, <1>2, TurnEndsFacts DEF RInv, IInv, RuntimeTypeOK, vars
<1>4. LoopInv'
  BY <1>1, <1>2, TurnEndsFacts DEF RInv, RuntimeTypeOK, LoopInv, Usable
<1>5. NewInv'
  <2> SUFFICES ASSUME setting.complete, NEW w \in open', NEW h \in Hooks
               PROVE  /\ globals'[w][h] >= floor /\ globals'[w][h] >= 1
                      /\ w < main.i + 1 => globals'[w][h] >= main.from
    BY <1>1, <1>2 DEF NewInv
  <2>1. w \in Workers
    BY TurnEndsFacts
  <2>2. CASE w = main.i
    <3>1. globals'[w][h] = edition
      BY <2>2, TurnEndsFacts
    <3> QED
      BY <3>1 DEF RInv, LoopInv
  <2>3. CASE w # main.i
    <3>1. w \in open /\ globals'[w] = globals[w]
      BY <2>1, <2>3, TurnEndsFacts
    <3> QED
      BY <1>2, <2>1, <2>3, <3>1 DEF RInv, NewInv
  <2> QED
    BY <2>2, <2>3
<1>6. QuietInv'
  <2> SUFFICES ASSUME Careful
               PROVE  ~wild' /\ (\A w \in Workers : top'[w] = 0) /\ \A w \in Workers : where'[w] = "idle"
    BY <1>1 DEF QuietInv, Careful, vars
  <2>1. (\A w \in Workers : top[w] = 0) /\ \A w \in Workers : where[w] = "idle"
    BY <1>2 DEF RInv, QuietInv
  <2>2. ASSUME NEW w \in Workers PROVE top'[w] = 0
    BY <2>1, TurnEndsFacts DEF Careful
  <2>3. ~wild'
    BY <1>1, <2>2, ScriptRuntimeAssumption
  <2> QED
    BY <1>1, <2>1, <2>2, <2>3
<1> QED
  BY <1>3, <1>4, <1>5, <1>6 DEF RInv

LEMMA TurnFailsKeeps ==
    ASSUME RInv, ~wild, IInv', TurnFails
    PROVE  RInv'
<1>1. /\ main.inside /\ NextTurn /\ wild' = (main.op = "restart") /\ world.fails
      /\ main.op \in {"start", "restart"}
      /\ UNCHANGED <<vars, setting, open, globals, top, where, file, edition, floor>>
  BY DEF TurnFails
<1>2. /\ main' \in [op : {"start", "load", "restart", "none"}, i : 0..NumWorkers, inside : BOOLEAN, from : Nat]
      /\ main'.op = main.op /\ main'.i = main.i + 1 /\ ~main'.inside /\ main'.from = main.from
      /\ main.op # "none" /\ main.i \in Nat
      /\ \A w \in Workers : w < main.i + 1 <=> w < main.i \/ w = main.i
  BY <1>1, NextTurnFacts
<1>3. RuntimeTypeOK'
  BY <1>1, <1>2 DEF RInv, IInv, RuntimeTypeOK, vars
<1>4. LoopInv'
  BY <1>1, <1>2 DEF RInv, RuntimeTypeOK, LoopInv, Usable
<1>5. NewInv'
  <2>1. main.op = "start" => main.i \notin open
    BY <1>2 DEF RInv, LoopInv
  <2> QED
    BY <1>1, <1>2, <2>1 DEF RInv, RuntimeTypeOK, NewInv
<1>6. QuietInv'
  BY <1>1 DEF QuietInv, Careful, vars
<1> QED
  BY <1>3, <1>4, <1>5, <1>6 DEF RInv

LEMMA LoopEndsKeeps ==
    ASSUME RInv, ~wild, IInv', LoopEnds
    PROVE  RInv'
<1>1. main \in [op : {"start", "load", "restart", "none"}, i : 0..NumWorkers, inside : BOOLEAN, from : Nat]
  BY DEF RInv, RuntimeTypeOK
<1>2. /\ main' = [main EXCEPT !.op = "none"] /\ main.op # "none" /\ ~main.inside /\ main.i = NumWorkers
      /\ floor' = main.from
      /\ UNCHANGED <<vars, setting, open, globals, top, where, file, edition, wild>>
  BY DEF LoopEnds
<1>3. /\ main'.op = "none" /\ main'.i = main.i /\ ~main'.inside /\ main'.from = main.from
      /\ main' \in [op : {"start", "load", "restart", "none"}, i : 0..NumWorkers, inside : BOOLEAN, from : Nat]
  BY <1>1, <1>2
<1>4. RuntimeTypeOK'
  BY <1>2, <1>3 DEF RInv, IInv, RuntimeTypeOK, vars
<1>5. LoopInv'
  BY <1>1, <1>2, <1>3 DEF RInv, LoopInv, Usable
<1>6. NewInv'
  <2>1. \A w \in open : w < main.i
    BY <1>2, ScriptRuntimeAssumption DEF RInv, RuntimeTypeOK
  <2> QED
    BY <1>2, <1>3, <2>1 DEF RInv, NewInv
<1>7. QuietInv'
  BY <1>2, <1>3 DEF RInv, QuietInv, Careful, vars
<1> QED
  BY <1>4, <1>5, <1>6, <1>7 DEF RInv

-----------------------------------------------------------------------------
(* The steps of workers leave the loops and the scripts alone. *)

LEMMA WorkerLoops ==
    ASSUME RInv, ~wild, UNCHANGED <<setting, open, globals, main, file, edition, floor>>
    PROVE  LoopInv' /\ NewInv'
<1>1. LoopInv'
  BY DEF RInv, LoopInv, Usable
<1>2. NewInv'
  BY DEF RInv, NewInv
<1> QED
  BY <1>1, <1>2

LEMMA CallHookKeeps ==
    ASSUME RInv, ~wild, IInv', NEW w \in Workers, NEW h \in Hooks, CallHook(w, h)
    PROVE  RInv'
<1>1. /\ UNCHANGED <<vars, setting, open, globals, main, file, edition, floor>>
      /\ where[w] = "idle" /\ (setting.quiet => main.op = "none")
  BY DEF CallHook
<1>2. open \subseteq Workers /\ globals \in [Workers -> [Hooks -> Nat]] /\ top \in [Workers -> Nat]
      /\ where \in [Workers -> {"idle", "hook"}]
  BY DEF RInv, RuntimeTypeOK
<1>3. CASE w \notin open
  <2>1. UNCHANGED <<top, where, wild>>
    BY <1>3 DEF CallHook
  <2> QED
    BY <1>1, <2>1 DEF RInv, IInv, RuntimeTypeOK, LoopInv, NewInv, QuietInv, Careful, Usable, vars
<1>4. CASE w \in open
  <2>1. /\ wild' = ((main.inside /\ main.i = w) \/ top[w] + 1 > Room)
        /\ \/ globals[w][h] = 0 /\ top' = [top EXCEPT ![w] = @ + 1] /\ UNCHANGED where
           \/ globals[w][h] # 0 /\ where' = [where EXCEPT ![w] = "hook"] /\ UNCHANGED top
    BY <1>4 DEF CallHook
  <2>2. top' \in [Workers -> Nat]
    BY <1>2, <2>1
  <2>3. where' \in [Workers -> {"idle", "hook"}] /\ \A v \in Workers : where[v] = "hook" => where'[v] = "hook"
    BY <1>2, <2>1
  <2>4. RuntimeTypeOK'
    BY <1>1, <2>2, <2>3 DEF RInv, IInv, RuntimeTypeOK, vars
  <2>5. LoopInv' /\ NewInv'
    BY <1>1, <2>1, WorkerLoops
  <2>6. QuietInv'
    <3> SUFFICES ASSUME Careful
                 PROVE  ~wild' /\ (\A v \in Workers : top'[v] = 0) /\ main.op = "none"
      BY <1>1 DEF QuietInv, Careful, vars
    <3>1. main.op = "none" /\ ~main.inside
      BY <1>1 DEF Careful, RInv, LoopInv
    <3>2. globals[w][h] >= 1 /\ globals[w][h] \in Nat
      BY <1>2, <1>4 DEF Careful, RInv, NewInv
    <3>3. UNCHANGED top
      BY <2>1, <3>2
    <3>4. \A v \in Workers : top[v] = 0
      BY DEF RInv, QuietInv
    <3>5. ~(top[w] + 1 > Room)
      BY <3>4, ScriptRuntimeAssumption
    <3>6. ~wild'
      BY <2>1, <3>1, <3>5
    <3> QED
      BY <3>1, <3>3, <3>4, <3>6
  <2> QED
    BY <2>4, <2>5, <2>6 DEF RInv
<1> QED
  BY <1>3, <1>4

LEMMA HookEndsKeeps ==
    ASSUME RInv, ~wild, IInv', NEW w \in Workers, where[w] = "hook", HookEnds(w), world' = world,
           \A v \in Workers : pc'[v] # "idle" => v # w /\ pc[v] # "idle"
    PROVE  RInv'
<1>1. /\ where' = [where EXCEPT ![w] = "idle"] /\ top' = [top EXCEPT ![w] = 0]
      /\ wild' = (main.inside /\ main.i = w)
      /\ UNCHANGED <<setting, open, globals, main, file, edition, floor>>
  BY DEF HookEnds
<1>2. top \in [Workers -> Nat] /\ where \in [Workers -> {"idle", "hook"}]
  BY DEF RInv, RuntimeTypeOK
<1>3. RuntimeTypeOK'
  BY <1>1, <1>2 DEF RInv, IInv, RuntimeTypeOK
<1>4. LoopInv' /\ NewInv'
  BY <1>1, WorkerLoops
<1>5. QuietInv'
  <2> SUFFICES ASSUME Careful
               PROVE  ~wild' /\ (\A v \in Workers : top'[v] = 0) /\ main.op = "none"
    BY <1>1 DEF QuietInv, Careful
  <2>1. main.op = "none" /\ ~main.inside /\ \A v \in Workers : top[v] = 0
    BY DEF RInv, QuietInv, LoopInv
  <2> QED
    BY <1>1, <1>2, <2>1
<1> QED
  BY <1>3, <1>4, <1>5 DEF RInv

LEMMA StorePc ==
    ASSUME IInv, NEW w \in Workers, Step(w)
    PROVE  /\ world' = world /\ pc[w] # "idle"
           /\ \A v \in Workers : v # w => pc'[v] = pc[v]
<1>1. pc \in [Workers -> {"idle", "lock", "walk", "unlock"}]
  BY DEF IInv, TypeOK
<1>2. CASE Lock(w) \/ Enter(w) \/ Replace(w)
  BY <1>1, <1>2 DEF Lock, Enter, Replace, AtKey, Goto
<1>3. CASE ReplaceFails(w) \/ Store(w) \/ StoreFails(w) \/ Miss(w) \/ Answer(w)
  BY <1>1, <1>3 DEF ReplaceFails, Store, StoreFails, Miss, Answer, Finish, AtKey, AtLast, Goto
<1>4. CASE Unlock(w)
  BY <1>1, <1>4 DEF Unlock, Leave, Goto
<1> QED
  BY <1>2, <1>3, <1>4 DEF Step

LEMMA CallKeeps ==
    ASSUME RInv, ~wild, IInv', NEW w \in Workers, CallStore(w) \/ GoOn(w)
    PROVE  RInv'
<1>1. UNCHANGED runtime
  BY DEF CallStore, GoOn
<1>2. world' = world /\ where[w] = "hook" /\ \A v \in Workers : v # w => pc'[v] = pc[v]
  <2>1. CASE CallStore(w)
    <3>1. PICK c \in Calls : Begin(w, c)
      BY <2>1 DEF CallStore
    <3> QED
      BY <2>1, <3>1 DEF CallStore, Begin, Goto, RInv, IInv, TypeOK
  <2>2. CASE GoOn(w)
    <3>1. Step(w) /\ IInv
      BY <2>2 DEF GoOn, RInv
    <3>2. world' = world /\ pc[w] # "idle" /\ \A v \in Workers : v # w => pc'[v] = pc[v]
      BY <3>1, StorePc
    <3>3. where[w] = "hook"
      BY <3>2 DEF RInv, RuntimeTypeOK
    <3> QED
      BY <3>2, <3>3
  <2> QED
    BY <2>1, <2>2
<1>3. RuntimeTypeOK'
  BY <1>1, <1>2 DEF RInv, IInv, RuntimeTypeOK, runtime
<1>4. LoopInv' /\ NewInv' /\ QuietInv'
  BY <1>1, <1>2 DEF RInv, LoopInv, NewInv, QuietInv, Careful, Usable, runtime
<1> QED
  BY <1>3, <1>4 DEF RInv

LEMMA ReturnKeeps ==
    ASSUME RInv, ~wild, IInv', NEW w \in Workers, HookReturns(w) \/ HookRaises(w)
    PROVE  RInv'
<1>1. pc \in [Workers -> {"idle", "lock", "walk", "unlock"}] /\ \A v \in Workers : pc[v] # "idle" => where[v] = "hook"
  BY DEF RInv, RuntimeTypeOK, IInv, TypeOK
<1>2. CASE HookReturns(w)
  <2>1. where[w] = "hook" /\ pc[w] = "idle" /\ HookEnds(w) /\ UNCHANGED <<world, pc>>
    BY <1>2 DEF HookReturns, vars
  <2> QED
    BY <2>1, HookEndsKeeps
<1>3. CASE HookRaises(w)
  <2>1. HookEnds(w) /\ pc[w] = "walk" /\ world' = world /\ pc' = [pc EXCEPT ![w] = "idle"]
    BY <1>3 DEF HookRaises, Raise, AtLast, Leave, Goto
  <2> QED
    BY <1>1, <2>1, HookEndsKeeps
<1> QED
  BY <1>2, <1>3

-----------------------------------------------------------------------------
LEMMA RuntimeNextInv == RInv /\ [RuntimeNext]_allVars => RInv'
<1> SUFFICES ASSUME RInv, [RuntimeNext]_allVars PROVE RInv'
  OBVIOUS
<1>1. IInv'
  BY StoreInv DEF RInv
<1>2. CASE UNCHANGED allVars
  BY <1>1, <1>2
     DEF allVars, runtime, vars, RInv, IInv, RuntimeTypeOK, LoopInv, NewInv, QuietInv, Careful, Usable
<1>3. CASE RuntimeNext
  <2>1. ~wild
    BY <1>3 DEF RuntimeNext
  <2>2. ASSUME NEW w \in Workers, Worker(w) PROVE RInv'
    BY <1>1, <2>1, <2>2, CallHookKeeps, CallKeeps, ReturnKeeps DEF Worker
  <2>3. CASE MainThread
    BY <1>1, <2>1, <2>3, SignalKeeps, TurnBeginsKeeps, TurnEndsKeeps, TurnFailsKeeps, LoopEndsKeeps DEF MainThread
  <2>4. CASE EditFile
    BY <1>1, <2>1, <2>4, EditFileKeeps
  <2> QED
    BY <1>3, <2>2, <2>3, <2>4 DEF RuntimeNext
<1> QED
  BY <1>2, <1>3

LEMMA RuntimeInductive == RuntimeSpec => []RInv
BY RuntimeInitInv, RuntimeNextInv, PTL DEF RuntimeSpec

(* Hooks use the store as GlobalStore says, so what is proved of it holds  *)
(* for the containers that run over it.                                    *)
THEOREM RuntimeUsesStore == RuntimeSpec => Spec
<1>1. RuntimeInit => Init
  BY DEF RuntimeInit
<1>2. [RuntimeNext]_allVars => [Next]_vars
  BY RuntimeStore DEF allVars
<1> QED
  BY <1>1, <1>2, PTL DEF RuntimeSpec, Spec

(* Every variable of containers and store keeps its type, the main         *)
(* thread's loop stays among the workers, and a worker is in a call of the *)
(* store only inside a hook.                                               *)
THEOREM RuntimeTypeCorrect == RuntimeSpec => []RuntimeTypeOK
<1>1. RInv => RuntimeTypeOK
  BY DEF RInv
<1> QED
  BY <1>1, RuntimeInductive, PTL

(* With signals that wait for hooks and files that define them all, no two *)
(* threads use one lua_State and no stack overflows, for any number of     *)
(* workers, events and signals.                                            *)
THEOREM OneThreadCorrect == RuntimeSpec => []OneThreadPerState
<1>1. RInv => OneThreadPerState
  BY DEF RInv, QuietInv, Careful, OneThreadPerState
<1> QED
  BY <1>1, RuntimeInductive, PTL

(* A signal that was handled has reached every container. *)
THEOREM ReloadCorrect == RuntimeSpec => []ReloadReachesAll
<1>1. RInv => ReloadReachesAll
  BY DEF RInv, NewInv, ReloadReachesAll
<1> QED
  BY <1>1, RuntimeInductive, PTL
=============================================================================
