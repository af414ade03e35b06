-------------------------- MODULE DynamicChannels --------------------------
(***************************************************************************)
(* The table of dynamic (anonymous) channels of server/clients.c: the      *)
(* array dynamic_channel_list, doubled when it is full, whose indices are  *)
(* the numbers scripts know channels by, and next_dynamic_channel_id, the  *)
(* index the next channel gets.  bsp_new_channel() and bsp_del_channel()   *)
(* of wrapper/standard.c call these functions one at a time; so does       *)
(* quit_channel, which deletes a dynamic channel with its last member.     *)
(***************************************************************************)
EXTENDS Naturals, FiniteSets

CONSTANTS
    Channels,       \* slots of mp_channel
    NULL,
    Initial,        \* DYNAMIC_CHANNEL_LIST_INITIAL
    MaxSize,        \* bound: the array does not grow beyond it
    DirtySize,      \* bound: nor beyond this, where the new half is not cleared
    Allocators      \* what is known of bsp_realloc: it zeroes what it adds, it may fail

ASSUME DynamicChannelsAssumption ==
    /\ NULL \notin Channels
    /\ Initial \in Nat \ {0}
    /\ MaxSize \in Nat
    /\ Initial <= MaxSize
    /\ DirtySize \in 0..MaxSize
    /\ Allocators \subseteq [clears : BOOLEAN, fails : BOOLEAN]

VARIABLES
    alloc,      \* the allocator this process has
    list,       \* dynamic_channel_list
    size,       \* dynamic_channel_list_size
    nextId,     \* next_dynamic_channel_id
    alive,      \* slots allocated from mp_channel
    id,         \* the id field of each slot
    wild        \* a pointer to something else was followed: anything may happen

vars == <<alloc, list, size, nextId, alive, id, wild>>

Init ==
    /\ alloc \in Allocators
    /\ list = [i \in 0..(Initial - 1) |-> NULL]
    /\ size = Initial
    /\ nextId = 0
    /\ alive = {}
    /\ id = [c \in Channels |-> 0]
    /\ wild = FALSE

(* The array after doubling: the new half holds what the allocator left    *)
(* there, which may be an old array of channel pointers.                   *)
Grown(l) ==
    {m \in [0..(2 * size - 1) -> Channels \cup {NULL}] :
        /\ \A i \in 0..(size - 1) : m[i] = l[i]
        /\ alloc.clears => \A i \in size..(2 * size - 1) : m[i] = NULL}

Bound == IF alloc.clears THEN MaxSize ELSE DirtySize

(* "Find next" looks for a free place from index 1 on. *)
FreePlaces(l) == {i \in 1..(size - 1) : l[i] = NULL}

FindNext(l) ==
    /\ nextId' \in FreePlaces(l)
    /\ \A j \in FreePlaces(l) : nextId' <= j
    /\ list' = l
    /\ UNCHANGED size

(* Mutant: the next number is not moved to the new half. *)
GrowListKeepsNext(l) ==
    /\ FreePlaces(l) = {}
    /\ 2 * size <= Bound
    /\ list' \in Grown(l)
    /\ size' = 2 * size
    /\ nextId' = 0

GrowList(l) ==
    /\ FreePlaces(l) = {}
    /\ 2 * size <= Bound
    /\ list' \in Grown(l)
    /\ nextId' = size
    /\ size' = 2 * size

(* new_channel(NULL) *)
NewChannel(c) ==
    /\ c \notin alive
    /\ alive' = alive \cup {c}
    /\ id' = [id EXCEPT ![c] = nextId]
    /\ LET l == [list EXCEPT ![nextId] = c] IN FindNext(l) \/ GrowList(l)
    /\ UNCHANGED wild

(* Mutant: the sizes are updated before bsp_realloc's result is looked at. *)
NewChannelFailsGrown(c) ==
    /\ alloc.fails
    /\ c \notin alive
    /\ id' = [id EXCEPT ![c] = nextId]
    /\ list' = [list EXCEPT ![nextId] = c]
    /\ FreePlaces(list') = {}
    /\ nextId' = size
    /\ size' = 2 * size
    /\ UNCHANGED <<alive, wild>>

(* new_channel(NULL), out of memory: the channel is freed and stays in the *)
(* list, and the next number is left at the 0 the search started from.     *)
NewChannelFails(c) ==
    /\ alloc.fails
    /\ c \notin alive
    /\ id' = [id EXCEPT ![c] = nextId]
    /\ list' = [list EXCEPT ![nextId] = c]
    /\ FreePlaces(list') = {}
    /\ nextId' = 0
    /\ UNCHANGED <<size, alive, wild>>

(* check_dynamic_channel *)
CheckChannel(i) == IF i >= size THEN NULL ELSE list[i]

(* Mutant: the freed number is the next one even if a smaller one is free. *)
RemoveSetsNext(c) ==
    /\ alive' = alive \ {c}
    /\ list' = [list EXCEPT ![id[c]] = NULL]
    /\ nextId' = id[c]
    /\ UNCHANGED <<size, id, wild>>

(* Mutant: the place in the list is not cleared. *)
RemoveUnlisted(c) ==
    /\ alive' = alive \ {c}
    /\ nextId' = IF id[c] < nextId THEN id[c] ELSE nextId
    /\ UNCHANGED <<size, list, id, wild>>

(* del_channel of a dynamic channel *)
Remove(c) ==
    /\ alive' = alive \ {c}
    /\ IF list[id[c]] = c
       THEN /\ list' = [list EXCEPT ![id[c]] = NULL]
            /\ nextId' = IF id[c] < nextId THEN id[c] ELSE nextId
       ELSE UNCHANGED <<list, nextId>>
    /\ UNCHANGED <<size, id, wild>>

(* A script deletes the channel of a number, or its last member quits. *)
DelChannel(i) ==
    \/ /\ CheckChannel(i) \in alive
       /\ Remove(CheckChannel(i))
    \/ /\ CheckChannel(i) = NULL
       /\ UNCHANGED vars
    \/ /\ CheckChannel(i) \notin alive \cup {NULL}
       /\ wild' = TRUE
       /\ UNCHANGED <<list, size, nextId, alive, id>>

Next ==
    /\ ~wild
    /\ UNCHANGED alloc
    /\ \/ \E c \in Channels : NewChannel(c) \/ NewChannelFails(c)
       \/ \E i \in 0..MaxSize : DelChannel(i)

Spec == Init /\ [][Next]_vars

-----------------------------------------------------------------------------
(* Type invariant; the next number is always an index of the array. *)
TypeOK ==
    /\ alloc \in [clears : BOOLEAN, fails : BOOLEAN]
    /\ size \in Nat \ {0}
    /\ list \in [0..(size - 1) -> Channels \cup {NULL}]
    /\ nextId \in 0..(size - 1)
    /\ alive \subseteq Channels
    /\ id \in [Channels -> Nat]
    /\ wild \in BOOLEAN

(* new_channel and del_channel index the array with next_dynamic_channel_id *)
(* and with channel->id unchecked: both stay inside the array it has now,   *)
(* also after a bsp_realloc that failed.                                    *)
IndicesInArray ==
    /\ nextId \in DOMAIN list
    /\ \A c \in alive : id[c] \in DOMAIN list

(* Every live channel is found under its own number, so numbers are unique *)
(* and no channel is displaced from the list by a later one, whatever the  *)
(* memory of a grown list holds (new_channel, del_channel).  A bsp_realloc *)
(* that fails frees a channel that stays listed, so it must not fail.      *)
Listed == \A c \in alive : id[c] < size /\ list[id[c]] = c
LiveListed == ~alloc.fails => Listed

Tidy == alloc.clears /\ ~alloc.fails

(* Under any number a script finds a live channel with that number or      *)
(* nothing: never a freed one (check_dynamic_channel).  This needs a       *)
(* realloc that succeeds and clears the new half.                          *)
NoStale ==
    \A i \in 0..MaxSize : CheckChannel(i) # NULL => CheckChannel(i) \in alive /\ id[CheckChannel(i)] = i
NoStaleEntry == Tidy => NoStale

(* A new channel's number is at most the number of channels already open,  *)
(* however many were opened and deleted before ("Find next").              *)
Compact == \A c \in alive' \ alive : id'[c] <= Cardinality(alive)
CompactIds == [][Tidy => Compact]_vars

(* Numbers are given out as the abstract pool gives them: the smallest     *)
(* free one, to one channel at a time.                                     *)
Numbers == {i \in 0..(size - 1) : list[i] # NULL}

Pool == INSTANCE IdPool WITH
    Ids <- 0..(MaxSize - 1),
    inUse <- IF Tidy THEN Numbers ELSE {}

PoolSpec == Pool!Spec
=============================================================================
