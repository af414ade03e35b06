------------------------------ MODULE PathMap ------------------------------
(***************************************************************************)
(* What the global store (wrapper/global.c) promises to the hooks of all   *)
(* workers: one map from dotted paths to values, set and read as if each   *)
(* call happened at one moment.  A table is present at its own path and at *)
(* the paths of its fields; an array is one value.  A set makes a table of *)
(* every path above its own, whatever was there, with two exceptions that  *)
(* report success and store nothing: below an array, and where the path    *)
(* ends in a dot, which leaves the tables above it made.                   *)
(***************************************************************************)
EXTENDS Naturals, Sequences

CONSTANTS
    Workers,
    Keys,       \* what stands between the dots
    Blank,      \* the empty key
    Scalars,
    Values,     \* the values scripts set, among those below
    Depth,      \* bound: keys in a path
    NULL, HASH, ARRAY

Paths == UNION {[1..n -> Keys] : n \in 1..Depth}
Nodes == Scalars \cup {NULL, HASH, ARRAY}
Trees == [Paths -> Nodes]

(* A value has a root of its own, as scripts pass and get it. *)
AllValues == [root : Nodes, fields : Trees]
Nil == [root |-> NULL, fields |-> [q \in Paths |-> NULL]]

(* The first n keys of a path, and what is left of one path below another. *)
Upto(p, n) == [i \in 1..n |-> p[i]]
Above(q, p) == Len(q) < Len(p) /\ q = Upto(p, Len(q))
Below(q, p) == Above(p, q)
Rest(q, p) == [i \in 1..(Len(q) - Len(p)) |-> q[Len(p) + i]]

(* Only a HASH has fields. *)
WellFormed(v) ==
    \A q \in Paths :
        v.fields[q] # NULL =>
            /\ v.root = HASH
            /\ \A n \in 1..(Len(q) - 1) : v.fields[Upto(q, n)] = HASH

(* What a module that instantiates this one assumes of its constants. *)
PathMapAssumption ==
    /\ Depth \in Nat \ {0}
    /\ Blank \in Keys
    /\ NULL \notin Scalars \cup {HASH, ARRAY}
    /\ HASH \notin Scalars \cup {ARRAY}
    /\ ARRAY \notin Scalars
    /\ \A v \in Values : v \in AllValues /\ WellFormed(v)

VARIABLES
    kv,     \* what is at each path
    ret     \* what each worker's last call returned

EndsBlank(p) == p[Len(p)] = Blank
UnderArray(t, p) == \E n \in 1..(Len(p) - 1) : t[Upto(p, n)] = ARRAY

(* t with the value v at the path p. *)
Put(t, p, v) ==
    [q \in Paths |-> IF q = p THEN v.root
                     ELSE IF Below(q, p) THEN v.fields[Rest(q, p)]
                     ELSE t[q]]

(* The value at the path p of t.  Nothing is below what is no table. *)
At(t, p) ==
    [root |-> t[p],
     fields |-> [q \in Paths |-> IF Len(p) + Len(q) <= Depth THEN t[p \o q] ELSE NULL]]

(* t with tables at the first n paths above p. *)
Opened(t, p, n) ==
    [q \in Paths |-> IF Len(q) <= n /\ Above(q, p) THEN HASH ELSE t[q]]

Assigned(t, p, v) ==
    IF UnderArray(t, p) THEN t
    ELSE LET o == Opened(t, p, Len(p) - 1)
         IN IF EndsBlank(p) THEN o ELSE Put(o, p, v)

-----------------------------------------------------------------------------
Init ==
    /\ kv = [q \in Paths |-> NULL]
    /\ ret = [w \in Workers |-> [ok |-> TRUE, val |-> Nil]]

Answer(w, ok, v) == ret' = [ret EXCEPT ![w] = [ok |-> ok, val |-> v]]

Set(w, p, v) ==
    /\ Answer(w, TRUE, Nil)
    /\ kv' = Assigned(kv, p, v)

(* Out of memory: some tables above the path were made, and what was in    *)
(* the way, or at the path itself, is gone.                                *)
SetFails(w, p) ==
    /\ Answer(w, FALSE, Nil)
    /\ \E n \in 0..(Len(p) - 1) :
        kv' \in {Opened(kv, p, n), Put(Opened(kv, p, n), Upto(p, n + 1), Nil)}

Get(w, p) ==
    /\ UNCHANGED kv
    /\ Answer(w, TRUE, At(kv, p))

(* A path that is no string. *)
BadPath(w, ok) ==
    /\ UNCHANGED kv
    /\ Answer(w, ok, Nil)

Next ==
    \E w \in Workers :
        \/ \E p \in Paths : SetFails(w, p) \/ Get(w, p) \/ \E v \in Values : Set(w, p, v)
        \/ \E ok \in BOOLEAN : BadPath(w, ok)

Spec == Init /\ [][Next]_<<kv, ret>>
=============================================================================
