---------------------------- MODULE GlobalStore ----------------------------
(***************************************************************************)
(* The global store of wrapper/global.c: one tree of objects that the      *)
(* hooks of all workers read and write by dotted paths, bsp_global_set and *)
(* bsp_global_get, under one spinlock.  A call walks the tree key by key;  *)
(* a value is converted from and to Lua while the lock is held.            *)
(*                                                                         *)
(* The tree is a function from paths to what is there: NULL, a scalar, a   *)
(* HASH, whose fields are the longer paths, or an ARRAY, which has no keys *)
(* and is one value here.  An object the code makes for a key of an array  *)
(* is never linked into the tree: a call that walks on in it is lost.  An  *)
(* empty Lua table is an ARRAY, its length being its number of fields.     *)
(***************************************************************************)
EXTENDS Naturals, Sequences

CONSTANTS
    Workers,    \* the threads that run hooks
    Keys,       \* what stands between the dots of a path
    Blank,      \* the empty key
    Scalars,
    Values,     \* the values scripts set
    Depth,      \* bound: keys in a path
    NULL, HASH, ARRAY,
    Calls,      \* the calls hooks make: records of op, path and val
    MaxCalls,   \* bound: calls of all workers
    Worlds      \* fails: libbsp's allocations; raises: Lua, in a conversion

VARIABLES
    world,
    tree,       \* base_object
    lock,       \* holder of base_lock
    pc,         \* where a worker is in global_set or global_get
    call,       \* the call it is in, or NULL
    depth,      \* keys of the path it has walked
    lost,       \* it walks in an object that is not in the tree
    ans,        \* what it is about to return
    ret,        \* what its last call returned
    calls,      \* calls made so far
    base        \* history: the tree when a call last unlocked

vars == <<world, tree, lock, pc, call, depth, lost, ans, ret, calls, base>>

(* The store as its callers see it: a call happens when it unlocks. *)
Map == INSTANCE PathMap WITH kv <- base

Paths == Map!Paths
Nil == Map!Nil
Returned(ok, v) == [ok |-> ok, val |-> v]

ASSUME GlobalStoreAssumption ==
    /\ Map!PathMapAssumption
    /\ Keys # {}
    /\ NULL \notin Workers /\ NULL \notin Calls
    /\ Calls \subseteq [op : {"set", "get"}, path : Paths \cup {NULL}, val : Values]
    /\ MaxCalls \in Nat
    /\ Worlds \subseteq [fails : BOOLEAN, raises : BOOLEAN]

Init ==
    /\ world \in Worlds
    /\ tree = [q \in Paths |-> NULL]
    /\ lock = NULL
    /\ pc = [w \in Workers |-> "idle"]
    /\ call = [w \in Workers |-> NULL]
    /\ depth = [w \in Workers |-> 0]
    /\ lost = [w \in Workers |-> FALSE]
    /\ ans = [w \in Workers |-> Returned(TRUE, Nil)]
    /\ ret = [w \in Workers |-> Returned(TRUE, Nil)]
    /\ calls = 0
    /\ base = tree

Goto(w, label) == pc' = [pc EXCEPT ![w] = label]
IsSet(w) == call[w].op = "set"
Path(w) == call[w].path

(* The call is over, its local variables are gone. *)
Leave(w) ==
    /\ Goto(w, "idle")
    /\ call' = [call EXCEPT ![w] = NULL]
    /\ depth' = [depth EXCEPT ![w] = 0]
    /\ lost' = [lost EXCEPT ![w] = FALSE]
    /\ ans' = [ans EXCEPT ![w] = Returned(TRUE, Nil)]

-----------------------------------------------------------------------------
(* A hook calls.  A path that is no string is answered without the lock. *)
Begin(w, c) ==
    /\ pc[w] = "idle"
    /\ calls < MaxCalls
    /\ calls' = calls + 1
    /\ IF c.path = NULL
       THEN /\ ret' = [ret EXCEPT ![w] = Returned(c.op = "get", Nil)]
            /\ UNCHANGED <<pc, call>>
       ELSE /\ Goto(w, "lock")
            /\ call' = [call EXCEPT ![w] = c]
            /\ UNCHANGED ret
    /\ UNCHANGED <<world, tree, lock, depth, lost, ans, base>>

Lock(w) ==
    /\ pc[w] = "lock"
    /\ lock = NULL
    /\ lock' = w
    /\ Goto(w, "walk")
    /\ UNCHANGED <<world, tree, call, depth, lost, ans, ret, calls, base>>

(* The lock is held and the next key is one a dot follows, or the last. *)
AtKey(w) == pc[w] = "walk" /\ depth[w] + 1 < Len(Path(w))
AtLast(w) == pc[w] = "walk" /\ depth[w] + 1 = Len(Path(w))

Here(w) == Map!Upto(Path(w), depth[w])
Child(w) == Map!Upto(Path(w), depth[w] + 1)
InArray(w) == depth[w] > 0 /\ tree[Here(w)] = ARRAY
IsObject(node) == node \in {HASH, ARRAY}

(* What the code can look up for the next key, in the object it is in. *)
Found(w) == IF lost[w] THEN NULL ELSE tree[Child(w)]

(* Mutant: what is found is taken for a table unchecked. *)
EnterUnchecked(w) ==
    /\ AtKey(w)
    /\ Found(w) # NULL
    /\ depth' = [depth EXCEPT ![w] = @ + 1]
    /\ UNCHANGED <<world, tree, lock, pc, call, lost, ans, ret, calls, base>>

Enter(w) ==
    /\ AtKey(w)
    /\ IsObject(Found(w))
    /\ depth' = [depth EXCEPT ![w] = @ + 1]
    /\ UNCHANGED <<world, tree, lock, pc, call, lost, ans, ret, calls, base>>

(* global_set puts a new HASH where it finds none or a scalar. *)
Replace(w) ==
    /\ AtKey(w)
    /\ IsSet(w)
    /\ ~IsObject(Found(w))
    /\ lost' = [lost EXCEPT ![w] = @ \/ InArray(w)]
    /\ tree' = IF lost'[w] THEN tree ELSE [tree EXCEPT ![Child(w)] = HASH]
    /\ depth' = [depth EXCEPT ![w] = @ + 1]
    /\ UNCHANGED <<world, lock, pc, call, ans, ret, calls, base>>

(* Mutant: a table is taken out of the tree without its fields. *)
ClearedOnly(w) == IF lost[w] \/ InArray(w) THEN tree ELSE [tree EXCEPT ![Child(w)] = NULL]

(* Deleting a value deletes all that is in it. *)
Cleared(w) == IF lost[w] \/ InArray(w) THEN tree ELSE Map!Put(tree, Child(w), Nil)

Finish(w, ok, v) ==
    /\ ans' = [ans EXCEPT ![w] = Returned(ok, v)]
    /\ Goto(w, "unlock")
    /\ UNCHANGED <<world, lock, call, depth, lost, ret, calls, base>>

(* Out of memory: the scalar is already deleted. *)
ReplaceFails(w) ==
    /\ AtKey(w)
    /\ IsSet(w)
    /\ world.fails
    /\ ~IsObject(Found(w))
    /\ tree' = Cleared(w)
    /\ Finish(w, FALSE, Nil)

(* The last key: the old value is deleted, the new one converted and set.  *)
(* A path that ends in a dot has no last key.                              *)
Store(w) ==
    /\ AtLast(w)
    /\ IsSet(w)
    /\ tree' = IF lost[w] \/ InArray(w) \/ Map!EndsBlank(Path(w)) THEN tree
               ELSE Map!Put(tree, Path(w), call[w].val)
    /\ Finish(w, TRUE, Nil)

StoreFails(w) ==
    /\ AtLast(w)
    /\ IsSet(w)
    /\ world.fails
    /\ ~Map!EndsBlank(Path(w))
    /\ tree' = Cleared(w)
    /\ Finish(w, FALSE, Nil)

(* Mutant: the early return does not unlock. *)
MissLocked(w) ==
    /\ AtKey(w)
    /\ ~IsSet(w)
    /\ ~IsObject(Found(w))
    /\ Leave(w)
    /\ UNCHANGED <<world, tree, lock, ret, calls, base>>

(* Nothing to walk on in. *)
Miss(w) ==
    /\ AtKey(w)
    /\ ~IsSet(w)
    /\ ~IsObject(Found(w))
    /\ Finish(w, TRUE, Nil)
    /\ UNCHANGED tree

Answer(w) ==
    /\ AtLast(w)
    /\ ~IsSet(w)
    /\ Finish(w, TRUE, Map!At(tree, Path(w)))
    /\ UNCHANGED tree

(* A Lua error leaves the conversion by longjmp, past the unlock, to the   *)
(* lua_pcallk that runs the hook: a table with a number for a key that is  *)
(* no sequence, a __len that raises, or a lack of memory.                  *)
Raise(w) ==
    /\ AtLast(w)
    /\ world.raises
    /\ ~(IsSet(w) /\ Map!EndsBlank(Path(w)))
    /\ tree' = IF IsSet(w) THEN Cleared(w) ELSE tree
    /\ Leave(w)
    /\ UNCHANGED <<world, lock, ret, calls, base>>

Unlock(w) ==
    /\ pc[w] = "unlock"
    /\ lock' = NULL
    /\ base' = tree
    /\ ret' = [ret EXCEPT ![w] = ans[w]]
    /\ Leave(w)
    /\ UNCHANGED <<world, tree, calls>>

-----------------------------------------------------------------------------
Step(w) ==
    \/ Lock(w) \/ Enter(w) \/ Replace(w) \/ ReplaceFails(w) \/ Store(w) \/ StoreFails(w)
    \/ Miss(w) \/ Answer(w) \/ Unlock(w)

Next == \E w \in Workers : Step(w) \/ Raise(w) \/ \E c \in Calls : Begin(w, c)

Spec == Init /\ [][Next]_vars

-----------------------------------------------------------------------------
Inside(w) == pc[w] \in {"walk", "unlock"}

(* Type invariant. *)
TypeOK ==
    /\ world \in [fails : BOOLEAN, raises : BOOLEAN]
    /\ tree \in Map!Trees /\ base \in Map!Trees
    /\ lock \in Workers \cup {NULL}
    /\ pc \in [Workers -> {"idle", "lock", "walk", "unlock"}]
    /\ call \in [Workers -> Calls \cup {NULL}]
    /\ depth \in [Workers -> Nat]
    /\ lost \in [Workers -> BOOLEAN]
    /\ ans \in [Workers -> [ok : BOOLEAN, val : Map!AllValues]]
    /\ ret \in [Workers -> [ok : BOOLEAN, val : Map!AllValues]]
    /\ calls \in Nat

(* Only the holder of base_lock is inside global_set or global_get, and    *)
(* outside of them the lock is free, unless a Lua error can leave a        *)
(* conversion: every return of the two functions unlocks.                  *)
LockInside ==
    /\ \A w \in Workers : Inside(w) => lock = w
    /\ lock # NULL => Inside(lock) \/ world.raises

(* The tree is one: what is at a path hangs in a HASH, so deleting or      *)
(* replacing a value leaves nothing of it below (global_set).              *)
Rooted ==
    \A q \in Paths : Len(q) > 1 /\ tree[q] # NULL => tree[Map!Upto(q, Len(q) - 1)] = HASH

(* The walk under the lock is the map of paths of PathMap: each call seems *)
(* to happen at one moment, a get answers what the sets before it left,    *)
(* and a set touches its own path and what is in its way only.             *)
StoreSpec == Map!Spec
=============================================================================
