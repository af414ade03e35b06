----------------------- MODULE DynamicChannelsProofs -----------------------
(***************************************************************************)
(* Proofs about DynamicChannels, for any number of channels, any first     *)
(* size and any bound.  TypeInv needs nothing of the allocator.  LiveInv   *)
(* needs bsp_realloc to succeed: a failure frees a channel that stays      *)
(* listed and makes number 0 the next one.  ExactInv also needs the new    *)
(* half of a grown list to be cleared, and gives the refinement of IdPool. *)
(***************************************************************************)
EXTENDS DynamicChannels, FiniteSetTheorems, TLAPS

TypeInv == TypeOK /\ IndicesInArray

(* The number given out next is nobody's: this is what keeps new_channel   *)
(* from displacing a live channel.                                         *)
LiveInv == TypeInv /\ Listed /\ \A c \in alive : id[c] # nextId

(* The list holds the live channels and nothing else, and the next number  *)
(* is the smallest free place.                                             *)
ExactInv ==
    /\ LiveInv
    /\ \A i \in 0..(size - 1) : list[i] # NULL => list[i] \in alive /\ id[list[i]] = i
    /\ list[nextId] = NULL
    /\ \A i \in 0..(nextId - 1) : list[i] # NULL
    /\ size <= MaxSize
    /\ IsFiniteSet(alive)

(* What a step is: the cases every proof below goes through. *)
LEMMA StepCases ==
    ASSUME [Next]_vars
    PROVE  \/ \E c \in Channels : NewChannel(c)
           \/ \E c \in Channels : NewChannelFails(c)
           \/ \E c \in alive : \E i \in 0..MaxSize : CheckChannel(i) = c /\ Remove(c)
           \/ UNCHANGED <<list, size, nextId, alive, id>> /\ wild' \in {wild, TRUE}
  BY DEF Next, DelChannel, vars

(* A process keeps its allocator. *)
LEMMA AllocKept == [Next]_vars => UNCHANGED <<alloc, Bound>>
  BY DEF Next, vars, Bound

LEMMA BoundInBound == TypeOK => Bound \in 0..MaxSize
  BY DynamicChannelsAssumption DEF TypeOK, Bound

-----------------------------------------------------------------------------
LEMMA TypeInit == Init => TypeInv
<1> SUFFICES ASSUME Init PROVE TypeInv
  OBVIOUS
<1>1. size \in Nat \ {0} /\ list \in [0..(size - 1) -> Channels \cup {NULL}] /\ 0 \in 0..(size - 1)
  BY DynamicChannelsAssumption DEF Init
<1>2. nextId \in DOMAIN list /\ id \in [Channels -> Nat] /\ alloc \in [clears : BOOLEAN, fails : BOOLEAN]
  BY <1>1, DynamicChannelsAssumption DEF Init
<1>. QED  BY <1>1, <1>2 DEF Init, TypeInv, TypeOK, IndicesInArray

LEMMA TypeStep == TypeInv /\ [Next]_vars => TypeInv'
<1> SUFFICES ASSUME TypeInv, [Next]_vars PROVE TypeInv'
  OBVIOUS
<1>t. TypeOK /\ IndicesInArray /\ alloc' = alloc
  BY AllocKept DEF TypeInv
<1>1. ASSUME NEW c \in Channels, NewChannel(c) PROVE TypeInv'
  <2> DEFINE l == [list EXCEPT ![nextId] = c]
  <2>1. l \in [0..(size - 1) -> Channels \cup {NULL}]
    BY <1>t DEF TypeOK
  <2>2. id' \in [Channels -> Nat] /\ alive' \subseteq Channels /\ wild' \in BOOLEAN
    BY <1>t, <1>1 DEF NewChannel, TypeOK
  <2>3. CASE FindNext(l)
    <3>1. nextId' \in 1..(size - 1) /\ list' = l /\ size' = size
      BY <2>3 DEF FindNext, FreePlaces
    <3>. QED  BY <1>t, <1>1, <2>1, <2>2, <3>1 DEF NewChannel, TypeInv, TypeOK, IndicesInArray
  <2>4. CASE GrowList(l)
    <3>1. list' \in [0..(2 * size - 1) -> Channels \cup {NULL}] /\ nextId' = size /\ size' = 2 * size
      BY <2>4 DEF GrowList, Grown
    <3>. QED  BY <1>t, <1>1, <2>2, <3>1 DEF NewChannel, TypeInv, TypeOK, IndicesInArray
  <2>. QED  BY <1>1, <2>3, <2>4 DEF NewChannel
<1>2. ASSUME NEW c \in Channels, NewChannelFails(c) PROVE TypeInv'
  BY <1>t, <1>2 DEF NewChannelFails, TypeInv, TypeOK, IndicesInArray
<1>3. ASSUME NEW c \in alive, Remove(c) PROVE TypeInv'
  BY <1>t, <1>3 DEF Remove, TypeInv, TypeOK, IndicesInArray
<1>4. CASE UNCHANGED <<list, size, nextId, alive, id>> /\ wild' \in {wild, TRUE}
  BY <1>t, <1>4 DEF TypeInv, TypeOK, IndicesInArray
<1>. QED  BY <1>1, <1>2, <1>3, <1>4, StepCases

LEMMA TypeInvariance == Spec => []TypeInv
  BY TypeInit, TypeStep, PTL DEF Spec

(* Every variable keeps its type, and new_channel finds the next number    *)
(* inside the array it writes to.                                          *)
THEOREM TypeCorrect == Spec => []TypeOK
<1>1. TypeInv => TypeOK
  BY DEF TypeInv
<1>. QED  BY <1>1, TypeInvariance, PTL

(* No index the channel functions use unchecked leaves the array, even     *)
(* when bsp_realloc fails or leaves garbage in the new half.               *)
THEOREM IndicesCorrect == Spec => []IndicesInArray
<1>1. TypeInv => IndicesInArray
  BY DEF TypeInv
<1>. QED  BY <1>1, TypeInvariance, PTL

-----------------------------------------------------------------------------
LEMMA LiveInit == Init => LiveInv
  BY TypeInit DEF Init, LiveInv, Listed

LEMMA LiveStep ==
    ASSUME ~alloc.fails
    PROVE  LiveInv /\ [Next]_vars => LiveInv'
<1> SUFFICES ASSUME LiveInv, [Next]_vars PROVE LiveInv'
  OBVIOUS
<1>t. TypeOK /\ IndicesInArray /\ Listed /\ \A c \in alive : id[c] # nextId
  BY DEF LiveInv, TypeInv
<1>i. TypeInv'
  BY TypeStep DEF LiveInv
<1>1. ASSUME NEW c \in Channels, NewChannel(c) PROVE LiveInv'
  <2> DEFINE l == [list EXCEPT ![nextId] = c]
  <2>1. \A d \in alive' : id'[d] \in 0..(size - 1) /\ l[id'[d]] = d
    BY <1>t, <1>1 DEF NewChannel, TypeOK, IndicesInArray, Listed
  <2>2. CASE FindNext(l)
    <3>1. nextId' \in 1..(size - 1) /\ l[nextId'] = NULL /\ list' = l /\ size' = size
      BY <2>2 DEF FindNext, FreePlaces
    <3>2. \A d \in alive' : id'[d] # nextId'
      BY <1>i, <2>1, <3>1, DynamicChannelsAssumption DEF TypeInv, TypeOK
    <3>. QED  BY <1>i, <1>t, <2>1, <3>1, <3>2 DEF LiveInv, Listed, TypeOK
  <2>3. CASE GrowList(l)
    <3>1. nextId' = size /\ size' = 2 * size /\ \A i \in 0..(size - 1) : list'[i] = l[i]
      BY <2>3 DEF GrowList, Grown
    <3>. QED  BY <1>i, <1>t, <2>1, <3>1 DEF LiveInv, Listed, TypeOK
  <2>. QED  BY <1>1, <2>2, <2>3 DEF NewChannel
<1>2. ASSUME NEW c \in Channels, NewChannelFails(c) PROVE LiveInv'
  BY <1>2 DEF NewChannelFails
<1>3. ASSUME NEW c \in alive, Remove(c) PROVE LiveInv'
  <2>1. list[id[c]] = c /\ id[c] \in 0..(size - 1)
    BY <1>t DEF Listed, TypeOK
  <2>2. \A d \in alive' : d \in alive /\ id[d] # id[c]
    BY <1>t, <1>3, <2>1 DEF Remove, Listed
  <2>3. list' = [list EXCEPT ![id[c]] = NULL] /\ nextId' \in {id[c], nextId} /\ size' = size /\ id' = id
    BY <1>3, <2>1 DEF Remove
  <2>. QED  BY <1>i, <1>t, <2>2, <2>3 DEF LiveInv, Listed, TypeOK
<1>4. CASE UNCHANGED <<list, size, nextId, alive, id>> /\ wild' \in {wild, TRUE}
  BY <1>i, <1>t, <1>4 DEF LiveInv, Listed
<1>. QED  BY <1>1, <1>2, <1>3, <1>4, StepCases

LEMMA LiveInvariance == Spec => [](~alloc.fails => LiveInv)
<1>1. Init => (~alloc.fails => LiveInv)
  BY LiveInit
<1>2. (~alloc.fails => LiveInv) /\ [Next]_vars => (~alloc.fails => LiveInv)'
  BY LiveStep, AllocKept
<1>. QED  BY <1>1, <1>2, PTL DEF Spec

(* While the array can grow, every live channel stays listed under its own *)
(* number, so two channels never share one.                                *)
THEOREM LiveCorrect == Spec => []LiveListed
<1>1. (~alloc.fails => LiveInv) => LiveListed
  BY DEF LiveInv, LiveListed
<1>. QED  BY <1>1, LiveInvariance, PTL

-----------------------------------------------------------------------------
(* Below the smallest free place, and at 0, every place is taken.          *)
LEMMA LeastFree ==
    ASSUME NEW l, NEW n \in FreePlaces(l), \A j \in FreePlaces(l) : n <= j,
           size \in Nat, l[0] # NULL
    PROVE  \A i \in 0..(n - 1) : l[i] # NULL
<1> SUFFICES ASSUME NEW i \in 0..(n - 1), i # 0 PROVE l[i] # NULL
  OBVIOUS
<1>1. n \in 1..(size - 1)
  BY DEF FreePlaces
<1>2. i \in 1..(size - 1) /\ i < n
  BY <1>1
<1>3. i \notin FreePlaces(l)
  BY <1>1, <1>2
<1>. QED  BY <1>2, <1>3 DEF FreePlaces

LEMMA ExactInit == Init => ExactInv
<1>1. Init => IsFiniteSet(alive)
  BY FS_EmptySet DEF Init
<1>. QED  BY <1>1, LiveInit, DynamicChannelsAssumption DEF Init, ExactInv

LEMMA ExactStep ==
    ASSUME Tidy
    PROVE  ExactInv /\ [Next]_vars => ExactInv'
<1> SUFFICES ASSUME ExactInv, [Next]_vars PROVE ExactInv'
  OBVIOUS
<1>t. TypeOK /\ Listed /\ LiveInv
  BY DEF ExactInv, LiveInv, TypeInv
<1>l. LiveInv' /\ TypeOK'
  BY <1>t, LiveStep DEF LiveInv, TypeInv, Tidy
<1>1. ASSUME NEW c \in Channels, NewChannel(c) PROVE ExactInv'
  <2> DEFINE l == [list EXCEPT ![nextId] = c]
  <2>0. IsFiniteSet(alive')
    BY <1>1, FS_AddElement DEF NewChannel, ExactInv
  <2>1. \A i \in 0..(size - 1) : l[i] # NULL => l[i] \in alive' /\ id'[l[i]] = i
    BY <1>t, <1>1 DEF NewChannel, ExactInv, TypeOK
  <2>2. l[0] # NULL
    BY <1>t, DynamicChannelsAssumption DEF ExactInv, TypeOK
  <2>3. CASE FindNext(l)
    <3>1. list' = l /\ size' = size /\ nextId' \in FreePlaces(l) /\ \A j \in FreePlaces(l) : nextId' <= j
      BY <2>3 DEF FindNext
    <3>2. \A i \in 0..(nextId' - 1) : l[i] # NULL
      BY <1>t, <2>2, <3>1, LeastFree DEF TypeOK
    <3>3. l[nextId'] = NULL
      BY <3>1 DEF FreePlaces
    <3>. QED  BY <1>l, <2>0, <2>1, <3>1, <3>2, <3>3 DEF ExactInv
  <2>4. CASE GrowList(l)
    <3>0. 2 * size <= Bound
      BY <2>4 DEF GrowList
    <3>1. /\ FreePlaces(l) = {} /\ nextId' = size /\ size' = 2 * size
          /\ \A i \in 0..(size - 1) : list'[i] = l[i]
          /\ \A i \in size..(2 * size - 1) : list'[i] = NULL
      BY <2>4 DEF GrowList, Grown, Tidy
    <3>2. \A i \in 0..(nextId' - 1) : list'[i] # NULL
      BY <1>t, <2>2, <3>1 DEF FreePlaces, TypeOK
    <3>3. list'[nextId'] = NULL
      BY <1>t, <3>1 DEF TypeOK
    <3>4. \A i \in 0..(size' - 1) : list'[i] # NULL => list'[i] \in alive' /\ id'[list'[i]] = i
      BY <1>t, <2>1, <3>1 DEF TypeOK
    <3>5. size' <= MaxSize
      BY <1>t, <3>0, <3>1, BoundInBound, DynamicChannelsAssumption DEF TypeOK
    <3>. QED  BY <1>l, <2>0, <3>1, <3>2, <3>3, <3>4, <3>5 DEF ExactInv
  <2>. QED  BY <1>1, <2>3, <2>4 DEF NewChannel
<1>2. ASSUME NEW c \in Channels, NewChannelFails(c) PROVE ExactInv'
  BY <1>2 DEF NewChannelFails, Tidy
<1>3. ASSUME NEW c \in alive, Remove(c) PROVE ExactInv'
  <2>0. IsFiniteSet(alive')
    BY <1>3, FS_RemoveElement DEF Remove, ExactInv
  <2>1. list[id[c]] = c /\ id[c] \in 0..(size - 1)
    BY <1>t DEF Listed, TypeOK
  <2>2. /\ list' = [list EXCEPT ![id[c]] = NULL]
        /\ nextId' = IF id[c] < nextId THEN id[c] ELSE nextId
        /\ size' = size /\ id' = id /\ alive' = alive \ {c}
    BY <1>3, <2>1 DEF Remove
  <2>3. \A i \in 0..(size' - 1) : list'[i] # NULL => list'[i] \in alive' /\ id'[list'[i]] = i
    BY <1>t, <2>1, <2>2 DEF ExactInv, TypeOK
  <2>4. list'[nextId'] = NULL /\ \A i \in 0..(nextId' - 1) : list'[i] # NULL
    BY <1>t, <2>1, <2>2 DEF ExactInv, TypeOK
  <2>. QED  BY <1>l, <2>0, <2>2, <2>3, <2>4 DEF ExactInv
<1>4. CASE UNCHANGED <<list, size, nextId, alive, id>> /\ wild' \in {wild, TRUE}
  BY <1>l, <1>4 DEF ExactInv
<1>. QED  BY <1>1, <1>2, <1>3, <1>4, StepCases

LEMMA ExactInvariance == Spec => [](Tidy => ExactInv)
<1>1. Init => (Tidy => ExactInv)
  BY ExactInit
<1>2. (Tidy => ExactInv) /\ [Next]_vars => (Tidy => ExactInv)'
  <2>1. [Next]_vars => Tidy' = Tidy
    BY AllocKept DEF Tidy
  <2>. QED  BY <2>1, ExactStep
<1>. QED  BY <1>1, <1>2, PTL DEF Spec

(* No number a script holds leads to a freed channel.                      *)
THEOREM NoStaleCorrect == Spec => []NoStaleEntry
<1>1. (Tidy => ExactInv) => NoStaleEntry
  <2> SUFFICES ASSUME ExactInv, NEW i \in 0..MaxSize, CheckChannel(i) # NULL
               PROVE  CheckChannel(i) \in alive /\ id[CheckChannel(i)] = i
    BY DEF NoStaleEntry, NoStale
  <2>1. i < size /\ CheckChannel(i) = list[i]
    BY DynamicChannelsAssumption DEF CheckChannel, ExactInv, LiveInv, TypeInv, TypeOK
  <2>. QED  BY <2>1, DynamicChannelsAssumption DEF ExactInv, LiveInv, TypeInv, TypeOK
<1>. QED  BY <1>1, ExactInvariance, PTL

(* The places below the next number hold as many different live channels.  *)
LEMMA NextIdBound == ExactInv => nextId <= Cardinality(alive)
<1> SUFFICES ASSUME ExactInv PROVE nextId <= Cardinality(alive)
  OBVIOUS
<1> DEFINE f == [i \in 0..(nextId - 1) |-> list[i]]
<1>t. nextId \in 0..(size - 1) /\ size \in Nat
  BY DEF ExactInv, LiveInv, TypeInv, TypeOK
<1>1. f \in Injection(0..(nextId - 1), alive)
  <2>1. \A i \in 0..(nextId - 1) : list[i] \in alive /\ id[list[i]] = i
    BY <1>t DEF ExactInv
  <2>2. f \in [0..(nextId - 1) -> alive]
    BY <2>1
  <2>3. \A a, b \in 0..(nextId - 1) : f[a] = f[b] => a = b
    BY <2>1
  <2>. QED  BY <2>2, <2>3 DEF Injection, IsInjective
<1>2. Cardinality(0..(nextId - 1)) <= Cardinality(alive)
  BY <1>1, FS_Injection DEF ExactInv
<1>3. Cardinality(0..(nextId - 1)) = nextId
  BY <1>t, FS_Interval
<1>. QED  BY <1>2, <1>3

(* A new channel's number never exceeds the number of open channels.       *)
THEOREM CompactCorrect == Spec => CompactIds
<1>1. (Tidy => ExactInv) /\ [Next]_vars => [Tidy => Compact]_vars
  <2> SUFFICES ASSUME Tidy, ExactInv, [Next]_vars, NEW c \in alive' \ alive
               PROVE  id'[c] <= Cardinality(alive)
    BY DEF Compact
  <2>1. ASSUME NEW d \in Channels, NewChannel(d) PROVE id'[c] = nextId
    BY <2>1 DEF NewChannel, ExactInv, LiveInv, TypeInv, TypeOK
  <2>2. ASSUME NEW d \in Channels, NewChannelFails(d) PROVE FALSE
    BY <2>2 DEF NewChannelFails, Tidy
  <2>3. ASSUME NEW d \in alive, Remove(d) PROVE FALSE
    BY <2>3 DEF Remove
  <2>4. id'[c] = nextId
    BY <2>1, <2>2, <2>3, StepCases
  <2>. QED  BY <2>4, NextIdBound
<1>. QED  BY <1>1, ExactInvariance, PTL DEF Spec, CompactIds

-----------------------------------------------------------------------------
LEMMA PoolInit == Init => Pool!Init
  BY DEF Init, Pool!Init, Numbers

LEMMA PoolStep ==
    ASSUME Tidy
    PROVE  ExactInv /\ ExactInv' /\ [Next]_vars => [Pool!Next]_(IF Tidy THEN Numbers ELSE {})
<1> DEFINE inUse == {i \in 0..(size - 1) : list[i] # NULL}
<1>n. ASSUME [Next]_vars
      PROVE  Tidy' /\ (IF Tidy THEN Numbers ELSE {}) = inUse /\ (IF Tidy THEN Numbers ELSE {})' = inUse'
  BY <1>n, AllocKept DEF Tidy, Numbers
<1> SUFFICES ASSUME ExactInv, ExactInv', [Next]_vars
             PROVE  Pool!Next \/ inUse' = inUse
  <2>1. CASE Pool!Next
    BY <2>1
  <2>2. CASE inUse' = inUse
    BY <1>n, <2>2
  <2>. QED  BY <2>1, <2>2
<1>t. TypeOK /\ TypeOK' /\ Listed
  BY DEF ExactInv, LiveInv, TypeInv
<1>m. size <= MaxSize /\ size' <= MaxSize /\ MaxSize \in Nat
  BY DynamicChannelsAssumption DEF ExactInv
<1>1. ASSUME NEW c \in Channels, NewChannel(c) PROVE Pool!Next
  <2> DEFINE l == [list EXCEPT ![nextId] = c]
  <2>1. nextId \in 0..(size - 1) /\ nextId \in 0..(MaxSize - 1) /\ nextId \notin inUse
    BY <1>t, <1>m DEF ExactInv, TypeOK
  <2>2. \A j \in 0..(nextId - 1) : j \in inUse
    BY <1>t DEF ExactInv, TypeOK
  <2>3. \A i \in 0..(size - 1) : l[i] # NULL <=> i \in inUse \cup {nextId}
    BY <1>t, DynamicChannelsAssumption DEF TypeOK
  <2>4. inUse' = inUse \cup {nextId}
    <3>1. CASE FindNext(l)
      BY <2>1, <2>3, <3>1 DEF FindNext
    <3>2. CASE GrowList(l)
      <4>1. /\ size' = 2 * size
            /\ \A i \in 0..(size - 1) : list'[i] = l[i]
            /\ \A i \in size..(2 * size - 1) : list'[i] = NULL
        BY <3>2 DEF GrowList, Grown, Tidy
      <4>2. \A i \in 0..(2 * size - 1) : list'[i] # NULL <=> i \in inUse \cup {nextId}
        BY <1>t, <2>1, <2>3, <4>1 DEF TypeOK
      <4>3. inUse \cup {nextId} \subseteq 0..(2 * size - 1)
        BY <1>t, <2>1 DEF TypeOK
      <4>. QED  BY <4>1, <4>2, <4>3
    <3>. QED  BY <1>1, <3>1, <3>2 DEF NewChannel
  <2>. QED  BY <1>n, <2>1, <2>2, <2>4 DEF Pool!Next, Pool!Open
<1>2. ASSUME NEW c \in Channels, NewChannelFails(c) PROVE FALSE
  BY <1>2 DEF NewChannelFails, Tidy
<1>3. ASSUME NEW c \in alive, Remove(c) PROVE Pool!Next
  <2>1. list[id[c]] = c /\ c # NULL /\ id[c] \in 0..(size - 1)
    BY <1>t, DynamicChannelsAssumption DEF Listed, TypeOK
  <2>2. list' = [list EXCEPT ![id[c]] = NULL] /\ size' = size
    BY <1>3, <2>1 DEF Remove
  <2>3. id[c] \in inUse /\ inUse' = inUse \ {id[c]} /\ id[c] \in 0..(MaxSize - 1)
    BY <1>t, <1>m, <2>1, <2>2 DEF TypeOK
  <2>. QED  BY <1>n, <2>3 DEF Pool!Next, Pool!Close
<1>4. CASE UNCHANGED <<list, size, nextId, alive, id>> /\ wild' \in {wild, TRUE}
  BY <1>4
<1>. QED  BY <1>1, <1>2, <1>3, <1>4, StepCases

(* The list with its next number implements the pool of numbers.           *)
THEOREM Refinement == Spec => PoolSpec
<1>1. (Tidy => ExactInv) /\ (Tidy => ExactInv)' /\ [Next]_vars => [Pool!Next]_(IF Tidy THEN Numbers ELSE {})
  <2>1. [Next]_vars => Tidy' = Tidy
    BY AllocKept DEF Tidy
  <2>. QED  BY <2>1, PoolStep
<1>. QED  BY <1>1, ExactInvariance, PoolInit, PTL DEF Spec, PoolSpec, Pool!Spec
=============================================================================
