---------------------------- MODULE IntakeProofs ----------------------------
(***************************************************************************)
(* Proofs about Intake, for texts, requests, command lines and             *)
(* configurations of any length.  The decoder, the walk over the header    *)
(* lines and the list of servers are recursive functions; that there are   *)
(* such functions is proved first.                                         *)
(***************************************************************************)
EXTENDS Intake, FiniteSetTheorems, SequenceTheorems, WellFoundedInduction, TLAPS

Texts == Seq(0..255)

(* Induction over the natural numbers: a set of them that has 0 and is     *)
(* closed under successor has them all.                                    *)
LEMMA NatSetInduction ==
    ASSUME NEW S \in SUBSET Nat, 0 \in S, \A n \in S : n + 1 \in S
    PROVE  S = Nat
<1>. SUFFICES ASSUME Nat \ S # {}
              PROVE  FALSE
  OBVIOUS
<1>. DEFINE R == OpToRel(<, Nat)
<1>1. IsWellFoundedOn(R, Nat)
  BY NatLessThanWellFounded
<1>2. \A x, y \in Nat : <<x, y>> \in R <=> x < y
  BY DEF OpToRel
<1>. HIDE DEF R
<1>3. \E x \in Nat \ S : \A y \in Nat \ S : ~ (<<y, x>> \in R)
  BY <1>1, WFMin
<1>4. PICK n \in Nat \ S : \A m \in Nat \ S : ~ (m < n)
  BY <1>2, <1>3
<1>5. n - 1 \in Nat
  BY <1>4
<1>6. n - 1 \in S
  BY <1>4, <1>5
<1>. QED  BY <1>4, <1>5, <1>6
-----------------------------------------------------------------------------
(* The parts of the decoder that look at bytes only. *)

LEMMA FindFinds ==
    ASSUME NEW A, NEW t \in Seq(A), NEW p \in 1..(Len(t) + 1), NEW S
    PROVE  /\ Find(t, p, S) \in p..(Len(t) + 1)
           /\ \A i \in p..(Find(t, p, S) - 1) : t[i] \notin S
           /\ Find(t, p, S) <= Len(t) => t[Find(t, p, S)] \in S
<1>. DEFINE Found(a, q) ==
              /\ q \in a..(Len(t) + 1)
              /\ \A i \in a..(q - 1) : t[i] \notin S
              /\ q <= Len(t) => t[q] \in S
            Distances == {n \in Nat : \A a \in Nat : a + n = Len(t) + 1 => \E q : Found(a, q)}
<1>t. Len(t) \in Nat
  OBVIOUS
<1>1. 0 \in Distances
  <2>1. ASSUME NEW a \in Nat, a + 0 = Len(t) + 1
        PROVE  Found(a, a)
    BY <1>t, <2>1
  <2>. QED  BY <2>1
<1>2. ASSUME NEW n \in Distances
      PROVE  n + 1 \in Distances
  <2>. SUFFICES ASSUME NEW a \in Nat, a + (n + 1) = Len(t) + 1
                PROVE  \E q : Found(a, q)
    OBVIOUS
  <2>1. CASE t[a] \in S
    <3>1. Found(a, a)
      BY <1>t, <2>1
    <3>. QED  BY <3>1
  <2>2. CASE t[a] \notin S
    <3>1. PICK q : Found(a + 1, q)
      <4>1. a + 1 \in Nat /\ (a + 1) + n = Len(t) + 1
        BY <1>t
      <4>. QED  BY <4>1
    <3>2. Found(a, q)
      <4>1. \A i \in a..(q - 1) : i = a \/ i \in (a + 1)..(q - 1)
        BY <1>t, <3>1
      <4>. QED  BY <1>t, <2>2, <3>1, <4>1
    <3>. QED  BY <3>2
  <2>. QED  BY <2>1, <2>2
<1>3. Distances = Nat
  <2>. HIDE DEF Distances
  <2>1. Distances \in SUBSET Nat
    BY DEF Distances
  <2>. QED  BY <1>1, <1>2, <2>1, NatSetInduction
<1>4. \E q : Found(p, q)
  <2>1. Len(t) + 1 - p \in Nat /\ p \in Nat /\ p + (Len(t) + 1 - p) = Len(t) + 1
    BY <1>t
  <2>. QED  BY <1>3, <2>1
<1>5. Found(p, Find(t, p, S))
  BY <1>4 DEF Find
<1>. QED  BY <1>5

LEMMA FindIs ==
    ASSUME NEW A, NEW t \in Seq(A), NEW p \in 1..(Len(t) + 1), NEW S,
           NEW q \in p..(Len(t) + 1), \A i \in p..(q - 1) : t[i] \notin S,
           q <= Len(t) => t[q] \in S
    PROVE  Find(t, p, S) = q
<1>. DEFINE f == Find(t, p, S)
<1>1. /\ f \in p..(Len(t) + 1)
      /\ \A i \in p..(f - 1) : t[i] \notin S
      /\ f <= Len(t) => t[f] \in S
  BY FindFinds
<1>2. Len(t) \in Nat
  OBVIOUS
<1>. HIDE DEF f
<1>3. ~ (f < q)
  BY <1>1, <1>2
<1>4. ~ (q < f)
  BY <1>1, <1>2
<1>5. f = q
  BY <1>1, <1>2, <1>3, <1>4
<1>. QED  BY <1>5 DEF f

LEMMA NumberInside ==
    ASSUME NEW t \in Texts, NEW p \in 1..Len(t)
    PROVE  Number(t, p).pos \in (p + 1)..(Len(t) + 1)
<1>. DEFINE d == IF t[p] = Minus THEN p + 1 ELSE p
            q == Find(t, d, (0..255) \ Digits)
<1>1. Len(t) \in Nat /\ d \in 1..(Len(t) + 1) /\ d >= p
  BY DEF Texts
<1>2. q \in d..(Len(t) + 1)
  BY <1>1, FindFinds DEF Texts
<1>. HIDE DEF d, q
<1>3. Number(t, p).pos = IF q = d THEN p + 1 ELSE q
  BY DEF Number, Read, d, q
<1>. QED  BY <1>1, <1>2, <1>3

LEMMA StripInside ==
    ASSUME NEW t \in Texts, NEW p \in 1..Len(t)
    PROVE  Strip(t, p).pos \in (p + 1)..(Len(t) + 1)
<1>1. Len(t) \in Nat
  BY DEF Texts
<1>2. \/ Strip(t, p).pos = p + 1
      \/ Strip(t, p).pos = p + 5 /\ Len(t) - p + 1 > 4
  BY DEF Strip, Read, Remain
<1>. QED  BY <1>1, <1>2

LEMMA SpellingInside ==
    ASSUME NEW t \in Texts, NEW p \in 1..Len(t),
           NEW w \in DOMAIN Spelling, StartsWith(t, p, Spelling[w])
    PROVE  p + Len(Spelling[w]) \in (p + 1)..(Len(t) + 1)
<1>1. Len(t) \in Nat
  BY DEF Texts
<1>2. w \in {"null", "true", "false"}
  BY DEF Spelling
<1>3. Len(Spelling[w]) \in {4, 5}
  BY <1>2 DEF Spelling
<1>4. PICK l \in {4, 5} : l = Len(Spelling[w])
  BY <1>3
<1>5. Len(t) - p + 1 >= l
  BY <1>4 DEF StartsWith, Remain
<1>. QED  BY <1>1, <1>4, <1>5
-----------------------------------------------------------------------------
(* What is read at a place depends on places with less left to read only,  *)
(* as long as these are read without going behind the end.                 *)
Kinds == {"value", "string", "array", "hash"}
Places(t) == Kinds \X (1..Len(t))
Left(t, kind, p) == 2 * (Len(t) - p) + (IF kind = "value" THEN 0 ELSE 1)
Inside(t, r, p) == r.pos \in (p + 1)..(Len(t) + 1)

Agree(t, D, E, n) ==
    \A kind \in Kinds, p \in 1..Len(t) :
        Left(t, kind, p) < n => D[<<kind, p>>] = E[<<kind, p>>] /\ Inside(t, D[<<kind, p>>], p)

LEMMA LeftBelow ==
    ASSUME NEW t \in Texts, NEW kind \in Kinds, NEW p \in 1..Len(t)
    PROVE  Left(t, kind, p) \in Nat /\ Left(t, kind, p) < 2 * Len(t)
<1>1. Len(t) \in Nat
  BY DEF Texts
<1>. QED  BY <1>1 DEF Left

LEMMA AgreeBelow ==
    ASSUME NEW t \in Texts, NEW D, NEW E, NEW m \in Nat, Agree(t, D, E, m),
           NEW kind \in Kinds, NEW p \in 1..Len(t), Left(t, kind, p) < m + 1
    PROVE  Agree(t, D, E, Left(t, kind, p))
<1>1. \A k \in Kinds, q \in 1..Len(t) : Left(t, k, q) \in Nat
  BY LeftBelow
<1>2. \A k \in Kinds, q \in 1..Len(t) : Left(t, k, q) < Left(t, kind, p) => Left(t, k, q) < m
  BY <1>1
<1>. QED  BY <1>2 DEF Agree

LEMMA AtSame ==
    ASSUME NEW t \in Texts, NEW D, NEW E, NEW n \in Nat, Agree(t, D, E, n),
           NEW kind \in Kinds, NEW p \in 1..(Len(t) + 1), 2 * (Len(t) - p) + 1 < n
    PROVE  /\ At(t, D, kind, p) = At(t, E, kind, p)
           /\ At(t, D, kind, p).pos \in p..(Len(t) + 1)
<1>1. Len(t) \in Nat
  BY DEF Texts
<1>2. CASE p > Len(t)
  BY <1>1, <1>2 DEF At, Read
<1>3. CASE p <= Len(t)
  <2>1. p \in 1..Len(t) /\ Left(t, kind, p) < n
    BY <1>1, <1>3 DEF Left
  <2>2. D[<<kind, p>>] = E[<<kind, p>>] /\ D[<<kind, p>>].pos \in (p + 1)..(Len(t) + 1)
    BY <2>1 DEF Agree, Inside
  <2>. QED  BY <1>1, <1>3, <2>2 DEF At
<1>. QED  BY <1>1, <1>2, <1>3

LEMMA ValueSame ==
    ASSUME NEW t \in Texts, NEW D, NEW E, NEW p \in 1..Len(t),
           Agree(t, D, E, Left(t, "value", p))
    PROVE  /\ GetValue(t, D, p) = GetValue(t, E, p)
           /\ Inside(t, GetValue(t, D, p), p)
<1>. DEFINE n == Left(t, "value", p)
            spelled == \E w \in DOMAIN Spelling : StartsWith(t, p, Spelling[w])
            w == CHOOSE w \in DOMAIN Spelling : StartsWith(t, p, Spelling[w])
            r == IF t[p] > 32 THEN Number(t, p) ELSE Read(Nothing, p + 1)
<1>1. Len(t) \in Nat /\ n \in Nat /\ n = 2 * (Len(t) - p)
  BY DEF Texts, Left
<1>2. ASSUME NEW kind \in Kinds, NEW q \in (p + 1)..(Len(t) + 1)
      PROVE  /\ At(t, D, kind, q) = At(t, E, kind, q)
             /\ At(t, D, kind, q).pos \in (p + 1)..(Len(t) + 1)
  <2>1. q \in 1..(Len(t) + 1) /\ 2 * (Len(t) - q) + 1 < n
    BY <1>1
  <2>2. /\ At(t, D, kind, q) = At(t, E, kind, q)
        /\ At(t, D, kind, q).pos \in q..(Len(t) + 1)
    BY <1>1, <2>1, AtSame
  <2>. QED  BY <1>1, <2>2
<1>3. p + 1 \in (p + 1)..(Len(t) + 1)
  BY <1>1
<1>4. spelled => p + Len(Spelling[w]) \in (p + 1)..(Len(t) + 1)
  BY SpellingInside
<1>5. r.pos \in (p + 1)..(Len(t) + 1)
  BY <1>3, NumberInside DEF Read
<1>. HIDE DEF r, w, spelled
<1>6. ASSUME NEW F
      PROVE  GetValue(t, F, p) =
                IF t[p] = Quote THEN At(t, F, "string", p + 1)
                ELSE IF t[p] = OpenHash THEN At(t, F, "hash", p + 1)
                ELSE IF t[p] = CloseHash THEN Read(Word("hash end"), p + 1)
                ELSE IF t[p] = OpenArray THEN At(t, F, "array", p + 1)
                ELSE IF t[p] = CloseArray THEN Read(Word("array end"), p + 1)
                ELSE IF spelled THEN Read(Word(w), p + Len(Spelling[w]))
                ELSE IF r.val = Nothing THEN At(t, F, "value", r.pos) ELSE r
  BY DEF GetValue, r, w, spelled
<1>7. ASSUME NEW kind \in Kinds
      PROVE  /\ At(t, D, kind, p + 1) = At(t, E, kind, p + 1)
             /\ At(t, D, kind, p + 1).pos \in (p + 1)..(Len(t) + 1)
  BY <1>2, <1>3
<1>8. /\ At(t, D, "value", r.pos) = At(t, E, "value", r.pos)
      /\ At(t, D, "value", r.pos).pos \in (p + 1)..(Len(t) + 1)
  BY <1>2, <1>5 DEF Kinds
<1>9. GetValue(t, D, p) = GetValue(t, E, p)
  BY <1>6, <1>7, <1>8 DEF Kinds
<1>10. GetValue(t, D, p).pos \in (p + 1)..(Len(t) + 1)
  <2>1. \A v, q : Read(v, q).pos = q
    BY DEF Read
  <2>2. "string" \in Kinds /\ "hash" \in Kinds /\ "array" \in Kinds
    BY DEF Kinds
  <2>3. \/ \E kind \in Kinds : GetValue(t, D, p) = At(t, D, kind, p + 1)
        \/ \E v : GetValue(t, D, p) = Read(v, p + 1)
        \/ spelled /\ \E v : GetValue(t, D, p) = Read(v, p + Len(Spelling[w]))
        \/ GetValue(t, D, p) = At(t, D, "value", r.pos)
        \/ GetValue(t, D, p) = r
    BY <1>6, <2>2
  <2>. QED  BY <1>3, <1>4, <1>5, <1>7, <1>8, <2>1, <2>3
<1>. QED  BY <1>9, <1>10 DEF Inside

LEMMA StringSame ==
    ASSUME NEW t \in Texts, NEW D, NEW E, NEW p \in 1..Len(t),
           Agree(t, D, E, Left(t, "string", p))
    PROVE  /\ InString(t, D, p) = InString(t, E, p)
           /\ Inside(t, InString(t, D, p), p)
<1>. DEFINE n == Left(t, "string", p)
            q == Find(t, p, {Quote, Backslash})
            r == Strip(t, q + 1)
<1>1. Len(t) \in Nat /\ n \in Nat /\ n = 2 * (Len(t) - p) + 1
  BY DEF Texts, Left
<1>2. q \in p..(Len(t) + 1)
  BY <1>1, FindFinds DEF Texts
<1>. HIDE DEF q, r
<1>3. CASE q >= Len(t) \/ t[q] = Quote
  BY <1>1, <1>2, <1>3 DEF InString, Inside, Read, q
<1>4. CASE q < Len(t) /\ t[q] # Quote
  <2>1. r.pos \in (q + 2)..(Len(t) + 1)
    <3>1. q + 1 \in 1..Len(t)
      BY <1>1, <1>2, <1>4
    <3>. QED  BY <1>1, <1>2, <3>1, StripInside DEF r
  <2>2. r.pos \in 1..(Len(t) + 1) /\ 2 * (Len(t) - r.pos) + 1 < n
    BY <1>1, <1>2, <2>1
  <2>3. /\ At(t, D, "string", r.pos) = At(t, E, "string", r.pos)
        /\ At(t, D, "string", r.pos).pos \in r.pos..(Len(t) + 1)
    BY <1>1, <2>2, AtSame DEF Kinds
  <2>4. ASSUME NEW F
        PROVE  InString(t, F, p) =
                  Read(Str(SubSeq(t, p, q - 1) \o r.val \o At(t, F, "string", r.pos).val.s),
                       At(t, F, "string", r.pos).pos)
    BY <1>1, <1>2, <1>4 DEF InString, q, r
  <2>5. InString(t, D, p).pos = At(t, D, "string", r.pos).pos
    BY <2>4 DEF Read
  <2>. QED  BY <1>1, <1>2, <2>1, <2>3, <2>4, <2>5 DEF Inside
<1>. QED  BY <1>1, <1>2, <1>3, <1>4

LEMMA ArraySame ==
    ASSUME NEW t \in Texts, NEW D, NEW E, NEW p \in 1..Len(t),
           Agree(t, D, E, Left(t, "array", p))
    PROVE  /\ Traverse(t, D, p) = Traverse(t, E, p)
           /\ Inside(t, Traverse(t, D, p), p)
<1>. DEFINE n == Left(t, "array", p)
            r == D[<<"value", p>>]
<1>1. Len(t) \in Nat /\ n \in Nat /\ n = 2 * (Len(t) - p) + 1
  BY DEF Texts, Left
<1>2. r = E[<<"value", p>>] /\ r.pos \in (p + 1)..(Len(t) + 1)
  <2>1. Left(t, "value", p) < n
    BY <1>1 DEF Left
  <2>. QED  BY <2>1 DEF Agree, Kinds, Inside
<1>. HIDE DEF r
<1>3. r.pos \in 1..(Len(t) + 1) /\ 2 * (Len(t) - r.pos) + 1 < n
  BY <1>1, <1>2
<1>4. /\ At(t, D, "array", r.pos) = At(t, E, "array", r.pos)
      /\ At(t, D, "array", r.pos).pos \in r.pos..(Len(t) + 1)
  BY <1>1, <1>3, AtSame DEF Kinds
<1>5. D[<<"value", p>>] = r
  BY DEF r
<1>6. Traverse(t, D, p) = Traverse(t, E, p)
  BY <1>2, <1>4, <1>5 DEF Traverse
<1>7. Traverse(t, D, p).pos \in {r.pos, At(t, D, "array", r.pos).pos}
  BY <1>5 DEF Traverse, Read
<1>. QED  BY <1>1, <1>2, <1>4, <1>6, <1>7 DEF Inside

LEMMA HashSame ==
    ASSUME NEW t \in Texts, NEW D, NEW E, NEW p \in 1..Len(t),
           Agree(t, D, E, Left(t, "hash", p))
    PROVE  /\ TraverseHash(t, D, p) = TraverseHash(t, E, p)
           /\ Inside(t, TraverseHash(t, D, p), p)
<1>. DEFINE n == Left(t, "hash", p)
            key == D[<<"value", p>>]
            r == At(t, D, "value", key.pos)
            rest == At(t, D, "hash", r.pos)
<1>1. Len(t) \in Nat /\ n \in Nat /\ n = 2 * (Len(t) - p) + 1
  BY DEF Texts, Left
<1>2. key = E[<<"value", p>>] /\ key.pos \in (p + 1)..(Len(t) + 1)
  <2>1. Left(t, "value", p) < n
    BY <1>1 DEF Left
  <2>. QED  BY <2>1 DEF Agree, Kinds, Inside
<1>. HIDE DEF key
<1>3. r = At(t, E, "value", key.pos) /\ r.pos \in key.pos..(Len(t) + 1)
  <2>1. key.pos \in 1..(Len(t) + 1) /\ 2 * (Len(t) - key.pos) + 1 < n
    BY <1>1, <1>2
  <2>. QED  BY <1>1, <2>1, AtSame DEF Kinds
<1>. HIDE DEF r
<1>4. rest = At(t, E, "hash", r.pos) /\ rest.pos \in r.pos..(Len(t) + 1)
  <2>1. r.pos \in 1..(Len(t) + 1) /\ 2 * (Len(t) - r.pos) + 1 < n
    <3>1. r.pos \in (p + 1)..(Len(t) + 1)
      BY <1>1, <1>2, <1>3
    <3>. QED  BY <1>1, <3>1
  <2>. QED  BY <1>1, <2>1, AtSame DEF Kinds
<1>. HIDE DEF rest
<1>5. D[<<"value", p>>] = key /\ At(t, D, "value", key.pos) = r /\ At(t, D, "hash", r.pos) = rest
  BY DEF key, r, rest
<1>6. TraverseHash(t, D, p) = TraverseHash(t, E, p)
  BY <1>2, <1>3, <1>4, <1>5 DEF TraverseHash
<1>7. TraverseHash(t, D, p).pos \in {key.pos, r.pos, rest.pos}
  BY <1>5 DEF TraverseHash, Read
<1>. QED  BY <1>1, <1>2, <1>3, <1>4, <1>6, <1>7 DEF Inside

LEMMA StepSame ==
    ASSUME NEW t \in Texts, NEW D, NEW E, NEW kind \in Kinds, NEW p \in 1..Len(t),
           Agree(t, D, E, Left(t, kind, p))
    PROVE  /\ Step(t, D, kind, p) = Step(t, E, kind, p)
           /\ Inside(t, Step(t, D, kind, p), p)
<1>1. CASE kind = "value"
  BY <1>1, ValueSame DEF Step
<1>2. CASE kind = "string"
  BY <1>2, StringSame DEF Step
<1>3. CASE kind = "array"
  BY <1>3, ArraySame DEF Step
<1>4. CASE kind = "hash"
  BY <1>4, HashSame DEF Step
<1>. QED  BY <1>1, <1>2, <1>3, <1>4 DEF Kinds
-----------------------------------------------------------------------------
(* D reads as Step says, and never behind the end, where less than n is    *)
(* left to read.                                                           *)
Reads(t, D, n) ==
    \A kind \in Kinds, p \in 1..Len(t) :
        Left(t, kind, p) < n =>
            /\ D[<<kind, p>>] = Step(t, D, kind, p)
            /\ Inside(t, D[<<kind, p>>], p)

LEMMA SomeReading ==
    ASSUME NEW t \in Texts, NEW n \in Nat
    PROVE  \E D : D = [x \in Places(t) |-> D[x]] /\ Reads(t, D, n)
<1>. DEFINE Readers(D, m) == D = [x \in Places(t) |-> D[x]] /\ Reads(t, D, m)
            Depths == {m \in Nat : \E D : Readers(D, m)}
<1>1. 0 \in Depths
  <2>1. Readers([x \in Places(t) |-> 0], 0)
    BY DEF Reads, Left, Texts
  <2>. QED  BY <2>1
<1>2. ASSUME NEW m \in Depths
      PROVE  m + 1 \in Depths
  <2>1. PICK D : Readers(D, m)
    OBVIOUS
  <2>. DEFINE E == [x \in Places(t) |-> Step(t, D, x[1], x[2])]
  <2>2. ASSUME NEW kind \in Kinds, NEW p \in 1..Len(t)
        PROVE  E[<<kind, p>>] = Step(t, D, kind, p)
    BY DEF Places
  <2>. HIDE DEF E
  <2>3. Agree(t, D, E, m)
    BY <2>1, <2>2 DEF Agree, Reads
  <2>4. ASSUME NEW kind \in Kinds, NEW p \in 1..Len(t), Left(t, kind, p) < m + 1
        PROVE  /\ E[<<kind, p>>] = Step(t, E, kind, p)
               /\ Inside(t, E[<<kind, p>>], p)
    <3>1. Agree(t, D, E, Left(t, kind, p))
      BY <2>3, <2>4, AgreeBelow
    <3>. QED  BY <2>2, <3>1, StepSame
  <2>5. Readers(E, m + 1)
    BY <2>4 DEF Reads, E
  <2>. QED  BY <2>5
<1>. HIDE DEF Depths
<1>3. Depths \in SUBSET Nat
  BY DEF Depths
<1>4. n \in Depths
  BY <1>1, <1>2, <1>3, NatSetInduction
<1>. QED  BY <1>4 DEF Depths

LEMMA StepReads ==
    ASSUME NEW t \in Texts, NEW D, NEW n \in Nat,
           D = [x \in Places(t) |-> Step(t, D, x[1], x[2])]
    PROVE  Reads(t, D, n)
<1>. DEFINE Depths == {m \in Nat : Reads(t, D, m)}
<1>1. 0 \in Depths
  BY DEF Reads, Left, Texts
<1>2. ASSUME NEW m \in Depths
      PROVE  m + 1 \in Depths
  <2>1. ASSUME NEW kind \in Kinds, NEW p \in 1..Len(t), Left(t, kind, p) < m + 1
        PROVE  /\ D[<<kind, p>>] = Step(t, D, kind, p)
               /\ Inside(t, D[<<kind, p>>], p)
    <3>1. D[<<kind, p>>] = Step(t, D, kind, p)
      BY DEF Places
    <3>2. Agree(t, D, D, m)
      BY DEF Agree, Reads
    <3>3. Agree(t, D, D, Left(t, kind, p))
      BY <2>1, <3>2, AgreeBelow
    <3>. QED  BY <3>1, <3>3, StepSame
  <2>. QED  BY <2>1 DEF Reads
<1>. HIDE DEF Depths
<1>3. Depths \in SUBSET Nat
  BY DEF Depths
<1>4. n \in Depths
  BY <1>1, <1>2, <1>3, NatSetInduction
<1>. QED  BY <1>4 DEF Depths

LEMMA ReadingReads ==
    ASSUME NEW t \in Texts
    PROVE  Reads(t, Reading(t), 2 * Len(t))
<1>1. 2 * Len(t) \in Nat
  BY DEF Texts
<1>2. PICK D : D = [x \in Places(t) |-> D[x]] /\ Reads(t, D, 2 * Len(t))
  BY <1>1, SomeReading
<1>3. ASSUME NEW k \in Kinds, NEW q \in 1..Len(t)
      PROVE  Left(t, k, q) < 2 * Len(t)
  BY LeftBelow
<1>4. D = [x \in Places(t) |-> Step(t, D, x[1], x[2])]
  <2>1. \A x \in Places(t) : x = <<x[1], x[2]>> /\ x[1] \in Kinds /\ x[2] \in 1..Len(t)
    BY DEF Places
  <2>2. \A x \in Places(t) : D[x] = Step(t, D, x[1], x[2])
    BY <1>2, <1>3, <2>1 DEF Reads
  <2>. QED  BY <1>2, <2>2
<1>5. Places(t) = (DOMAIN Empty) \X (1..Len(t))
  BY DEF Places, Kinds, Empty
<1>6. Reading(t) = [x \in Places(t) |-> Step(t, Reading(t), x[1], x[2])]
  BY <1>4, <1>5 DEF Reading
<1>7. Reads(t, Reading(t), 2 * Len(t))
  BY <1>1, <1>6, StepReads
<1>. QED  BY <1>7

(* Whatever the text, json_nd_decode comes to an end: what it does at a    *)
(* place rests on what it does further on, and every value, and every rest *)
(* of a string, an array or a hash, takes a byte at least                  *)
(* (_get_value_from_json, _traverse_json_array, _traverse_json_hash).      *)
THEOREM DecoderEnds ==
    ASSUME NEW t \in Texts, NEW kind \in Kinds, NEW p \in 1..Len(t)
    PROVE  /\ Reading(t)[<<kind, p>>] = Step(t, Reading(t), kind, p)
           /\ Reading(t)[<<kind, p>>].pos \in (p + 1)..(Len(t) + 1)
BY ReadingReads, LeftBelow DEF Reads, Inside

LEMMA FirstInside ==
    ASSUME NEW t \in Texts
    PROVE  First(t).pos \in 1..(Len(t) + 1)
<1>1. Len(t) \in Nat
  BY DEF Texts
<1>2. CASE Len(t) = 0
  BY <1>2 DEF First, At, Read
<1>3. CASE 1 \in 1..Len(t)
  <2>1. Reading(t)[<<"value", 1>>].pos \in (1 + 1)..(Len(t) + 1)
    BY <1>3, DecoderEnds DEF Kinds
  <2>. QED  BY <1>1, <1>3, <2>1 DEF First, At
<1>. QED  BY <1>1, <1>2, <1>3
-----------------------------------------------------------------------------
(* What has been written so far. *)
TextInv == in.kind = "text" => in \in [kind : {"text"}, t : Texts, size : Nat]

StartInv ==
    in.kind = "start" =>
        /\ DOMAIN in = {"kind", "args", "file", "env"}
        /\ Has(in.file, "servers") =>
            /\ DOMAIN in.file = DOMAIN Nothing /\ DOMAIN in.file.h["servers"] = DOMAIN Nothing
            /\ in.file.h["servers"].a \in Seq(Entries)

Asked ==
    [method : DOMAIN Methods, uri : Seq(STRING \ Blank) \ {<<>>},
     version : {v \in Seq(STRING \ Blank) : Len(v) < 2}, headers : Seq(HeaderLines),
     body : Seq(STRING)]

RequestInv == in.kind = "request" => in \in [kind : {"request"}, req : Asked]

WrittenInv == TextInv /\ StartInv /\ RequestInv

LEMMA InvInit == IntakeInit => WrittenInv
<1>1. CASE in = [kind |-> "text", t |-> <<>>, size |-> 0]
  BY <1>1 DEF WrittenInv, TextInv, StartInv, RequestInv, Texts
<1>2. CASE in \in [kind : {"start"}, args : {<<>>}, file : Files, env : Environments]
  <2>1. in.kind = "start" /\ in.file \in Files /\ DOMAIN in = {"kind", "args", "file", "env"}
    BY <1>2
  <2>2. <<>> \in Seq(Entries)
    OBVIOUS
  <2>3. Has(in.file, "servers") =>
            /\ DOMAIN in.file = DOMAIN Nothing /\ DOMAIN in.file.h["servers"] = DOMAIN Nothing
            /\ in.file.h["servers"].a = <<>>
    BY <2>1, IntakeAssumption, Zenon
  <2>. QED  BY <2>1, <2>2, <2>3 DEF WrittenInv, TextInv, StartInv, RequestInv
<1>3. CASE in \in [kind : {"request"}, req : Requests]
  <2>1. in.kind = "request" /\ in.req \in Requests /\ in = [kind |-> "request", req |-> in.req]
    BY <1>3
  <2>2. in.req \in [method : DOMAIN Methods, uri : Seq(STRING \ Blank) \ {<<>>},
                    version : {v \in Seq(STRING \ Blank) : Len(v) < 2}, headers : {<<>>},
                    body : Seq(STRING)]
    BY <2>1, IntakeAssumption, Zenon
  <2>3. <<>> \in Seq(HeaderLines)
    OBVIOUS
  <2>4. in.req \in Asked
    BY <2>2, <2>3 DEF Asked
  <2>. QED  BY <2>1, <2>4 DEF WrittenInv, TextInv, StartInv, RequestInv
<1>. QED  BY <1>1, <1>2, <1>3 DEF IntakeInit

LEMMA InvStep == WrittenInv /\ [IntakeNext]_in => WrittenInv'
<1>. SUFFICES ASSUME TextInv, StartInv, RequestInv, [IntakeNext]_in
              PROVE  TextInv' /\ StartInv' /\ RequestInv'
  BY DEF WrittenInv
<1>1. CASE AddPiece
  <2>1. PICK p \in Pieces : in' = [in EXCEPT !.t = @ \o p, !.size = @ + 1]
    BY <1>1 DEF AddPiece
  <2>2. in \in [kind : {"text"}, t : Texts, size : Nat]
    BY <1>1 DEF AddPiece, TextInv
  <2>3. in.t \o p \in Texts
    BY <2>2, IntakeAssumption DEF Texts
  <2>4. in' = [kind |-> "text", t |-> in.t \o p, size |-> in.size + 1]
    BY <2>1, <2>2
  <2>5. in' \in [kind : {"text"}, t : Texts, size : Nat]
    BY <2>2, <2>3, <2>4
  <2>. QED  BY <2>5 DEF TextInv, StartInv, RequestInv
<1>2. CASE AddOption
  <2>1. PICK w \in Words : in' = [in EXCEPT !.args = Append(@, w)]
    BY <1>2 DEF AddOption
  <2>2. in.kind = "start" /\ DOMAIN in = {"kind", "args", "file", "env"}
    BY <1>2 DEF AddOption, StartInv
  <2>3. in'.kind = "start" /\ in'.file = in.file /\ DOMAIN in' = DOMAIN in
    BY <2>1, <2>2
  <2>. QED  BY <2>2, <2>3 DEF TextInv, StartInv, RequestInv
<1>3. CASE AddEntry
  <2>1. PICK e \in Entries : in' = [in EXCEPT !.file.h["servers"].a = Append(@, e)]
    BY <1>3 DEF AddEntry
  <2>2. /\ in.kind = "start" /\ DOMAIN in = {"kind", "args", "file", "env"}
        /\ "servers" \in DOMAIN in.file.h
        /\ DOMAIN in.file = {"k", "s", "n", "a", "h"}
        /\ DOMAIN in.file.h["servers"] = {"k", "s", "n", "a", "h"}
        /\ in.file.h["servers"].a \in Seq(Entries)
    BY <1>3 DEF AddEntry, StartInv, Has, Nothing
  <2>3. /\ in'.kind = "start" /\ DOMAIN in' = DOMAIN in
        /\ DOMAIN in'.file = DOMAIN in.file
        /\ DOMAIN in'.file.h = DOMAIN in.file.h
        /\ DOMAIN in'.file.h["servers"] = DOMAIN in.file.h["servers"]
        /\ in'.file.h["servers"].a = Append(in.file.h["servers"].a, e)
    BY <2>1, <2>2
  <2>4. in'.file.h["servers"].a \in Seq(Entries)
    BY <2>2, <2>3
  <2>. QED  BY <2>2, <2>3, <2>4 DEF TextInv, StartInv, RequestInv, Has, Nothing
<1>4. CASE AddHeader
  <2>1. PICK h \in HeaderLines : in' = [in EXCEPT !.req.headers = Append(@, h)]
    BY <1>4 DEF AddHeader
  <2>2. in.kind = "request" /\ in = [kind |-> "request", req |-> in.req] /\ in.req \in Asked
    BY <1>4 DEF AddHeader, RequestInv
  <2>3. in' = [kind |-> "request", req |-> [in.req EXCEPT !.headers = Append(@, h)]]
    BY <2>1, <2>2
  <2>4. [in.req EXCEPT !.headers = Append(@, h)] \in Asked
    <3>1. Append(in.req.headers, h) \in Seq(HeaderLines)
      BY <2>2 DEF Asked
    <3>. QED  BY <2>2, <3>1 DEF Asked
  <2>. QED  BY <2>3, <2>4 DEF TextInv, StartInv, RequestInv
<1>5. CASE UNCHANGED in
  BY <1>5 DEF TextInv, StartInv, RequestInv
<1>. QED  BY <1>1, <1>2, <1>3, <1>4, <1>5 DEF IntakeNext

LEMMA Invariance == IntakeSpec => []WrittenInv
BY InvInit, InvStep, PTL DEF IntakeSpec

(* Whatever anybody sends, and however long it is, json_nd_decode stops at *)
(* its end at the latest (_get_value_from_json, _traverse_json_array,      *)
(* _traverse_json_hash).                                                   *)
THEOREM DecoderCorrect == IntakeSpec => []DecoderInside
<1>1. TextInv => DecoderInside
  <2>. SUFFICES ASSUME in.t \in Texts
                PROVE  First(in.t).pos <= Len(in.t) + 1
    BY DEF TextInv, DecoderInside
  <2>1. Len(in.t) \in Nat
    BY DEF Texts
  <2>. QED  BY <2>1, FirstInside
<1>. QED  BY <1>1, Invariance, PTL DEF WrittenInv
-----------------------------------------------------------------------------
(* The command line and the configuration. *)

Fields == DOMAIN NoConf

LEMMA FieldsAre ==
    Fields = {"verbose", "daemonize", "clock", "trace", "log", "threads", "script", "load", "servers"}
BY DEF Fields, NoConf

LEMMA ServersOnly ==
    ASSUME NEW c, DOMAIN c = Fields, NEW conf
    PROVE  /\ \A f \in Fields \ {"servers"} : Servers(c, conf)[f] = c[f]
           /\ Servers(c, conf).servers =
                IF Has(conf, "servers")
                THEN Linked(c.servers, conf.h["servers"].a)[Len(conf.h["servers"].a)]
                ELSE c.servers
BY FieldsAre DEF Servers

LEMMA GlobalsOnly ==
    ASSUME NEW c, DOMAIN c = Fields, NEW g
    PROVE  /\ DOMAIN Globals(c, g) = Fields
           /\ Globals(c, g).servers = c.servers
           /\ c.verbose => Globals(c, g).trace = All
           /\ c.daemonize => Globals(c, g).daemonize
<1>. DEFINE G == Globals(c, g)
<1>1. /\ DOMAIN G = DOMAIN c
      /\ G.servers = c.servers
      /\ c.verbose => G.trace = All
      /\ G.daemonize = (c.daemonize \/ FlagAt(g, "daemonize", FALSE))
  BY FieldsAre DEF Globals
<1>. QED  BY <1>1

LEMMA ParsedOnly ==
    ASSUME NEW c, DOMAIN c = Fields, NEW conf
    PROVE  LET p == ParsedConf(c, conf)
               global == Has(conf, "global") /\ conf.h["global"].k = "hash"
           IN  /\ c.verbose /\ global => p.trace = All
               /\ c.daemonize => p.daemonize
               /\ p.servers = IF global /\ Has(conf, "servers")
                              THEN Linked(c.servers, conf.h["servers"].a)[Len(conf.h["servers"].a)]
                              ELSE c.servers
<1>. DEFINE G == Globals(c, conf.h["global"])
            global == Has(conf, "global") /\ conf.h["global"].k = "hash"
<1>1. CASE ~global
  BY <1>1 DEF ParsedConf
<1>2. CASE global
  <2>1. /\ DOMAIN G = Fields
        /\ G.servers = c.servers
        /\ c.verbose => G.trace = All
        /\ c.daemonize => G.daemonize
    BY GlobalsOnly
  <2>. HIDE DEF G
  <2>2. /\ Servers(G, conf)["trace"] = G["trace"]
        /\ Servers(G, conf)["daemonize"] = G["daemonize"]
    <3>1. "trace" \in Fields \ {"servers"} /\ "daemonize" \in Fields \ {"servers"}
      BY FieldsAre
    <3>. QED  BY <2>1, <3>1, ServersOnly, Zenon
  <2>3. Servers(G, conf).servers =
            IF Has(conf, "servers")
            THEN Linked(G.servers, conf.h["servers"].a)[Len(conf.h["servers"].a)]
            ELSE G.servers
    BY <2>1, ServersOnly, Zenon
  <2>4. ParsedConf(c, conf) = Servers(G, conf)
    BY <1>2 DEF ParsedConf, G
  <2>. QED  BY <1>2, <2>1, <2>2, <2>3, <2>4
<1>. QED  BY <1>1, <1>2

LEMMA Given ==
    ASSUME NEW args
    PROVE  LET d == [Options(args) EXCEPT !.log = All]
           IN  /\ DOMAIN d = Fields
               /\ d.verbose <=> "v" \in ToSet(args)
               /\ d.daemonize <=> "d" \in ToSet(args)
               /\ d.servers = <<>>
<1>1. DOMAIN NoConf = Fields /\ NoConf.servers = <<>>
  BY DEF Fields, NoConf
<1>2. /\ DOMAIN Options(args) = Fields
      /\ Options(args).verbose = ("v" \in ToSet(args))
      /\ Options(args).daemonize = ("d" \in ToSet(args))
      /\ Options(args).servers = <<>>
  BY <1>1, FieldsAre DEF Options
<1>. QED  BY <1>2, FieldsAre

LEMMA StartedAs ==
    ASSUME NEW args, NEW file, NEW env
    PROVE  LET s == Started(args, file, env)
               c == ParsedConf([Options(args) EXCEPT !.log = All], file)
           IN  /\ s.how = "usage" <=> "h" \in ToSet(args)
               /\ s.how = "running" => file.k = "hash" /\ s.c = c
               /\ \/ s.how = "usage"
                  \/ s.c = c
                  \/ s.c = [Options(args) EXCEPT !.log = All]
BY DEF Started, Ends

(* Whatever the file has, what the command line asks for stands: -v traces *)
(* everything, -d makes a daemon, -h ends with the usage (main, parse_conf).*)
THEOREM CommandLineCorrect == IntakeSpec => []CommandLineWins
<1>1. CommandLineWins
  <2>. DEFINE d == [Options(in.args) EXCEPT !.log = All]
              c == ParsedConf(d, in.file)
  <2>1. /\ DOMAIN d = Fields
        /\ d.verbose <=> "v" \in ToSet(in.args)
        /\ d.daemonize <=> "d" \in ToSet(in.args)
    BY Given
  <2>2. /\ Start.how = "usage" <=> "h" \in ToSet(in.args)
        /\ Start.how = "running" => Start.c = c
        /\ Start.how = "usage" \/ Start.c = c \/ Start.c = d
    BY StartedAs DEF Start
  <2>. HIDE DEF d
  <2>3. /\ d.verbose /\ GlobalTable => c.trace = All
        /\ d.daemonize => c.daemonize
    BY <2>1, ParsedOnly DEF GlobalTable
  <2>. QED  BY <2>1, <2>2, <2>3 DEF CommandLineWins
<1>. QED  BY <1>1, PTL
-----------------------------------------------------------------------------
(* The list of servers. *)

Link(ss, entries, L, i) ==
    IF i = 0 THEN ss
    ELSE IF entries[i].k = "hash" THEN <<ServerConf(entries[i])>> \o L[i - 1]
    ELSE L[i - 1]

LEMMA LinkedLinks ==
    ASSUME NEW ss, NEW entries \in Seq(Entries)
    PROVE  \A i \in 0..Len(entries) :
                Linked(ss, entries)[i] = Link(ss, entries, Linked(ss, entries), i)
<1>. DEFINE Loop == 0..Len(entries)
            Links(L, m) == /\ L = [i \in Loop |-> L[i]]
                           /\ \A i \in Loop : i < m => L[i] = Link(ss, entries, L, i)
            Turns == {m \in Nat : \E L : Links(L, m)}
<1>t. Len(entries) \in Nat
  OBVIOUS
<1>1. 0 \in Turns
  <2>1. Links([i \in Loop |-> 0], 0)
    BY <1>t
  <2>. QED  BY <2>1
<1>2. ASSUME NEW m \in Turns
      PROVE  m + 1 \in Turns
  <2>1. PICK L : Links(L, m)
    OBVIOUS
  <2>. DEFINE M == [i \in Loop |-> Link(ss, entries, L, i)]
  <2>2. \A i \in Loop : i < m => M[i] = L[i]
    BY <2>1
  <2>3. ASSUME NEW i \in Loop, i < m + 1
        PROVE  M[i] = Link(ss, entries, M, i)
    <3>1. i = 0 \/ (i - 1 \in Loop /\ i - 1 < m)
      BY <1>t, <2>3
    <3>. HIDE DEF M
    <3>2. i = 0 \/ M[i - 1] = L[i - 1]
      BY <2>2, <3>1
    <3>3. Link(ss, entries, L, i) = Link(ss, entries, M, i)
      BY <3>2 DEF Link
    <3>. QED  BY <3>3 DEF M
  <2>4. M = [i \in Loop |-> M[i]]
    OBVIOUS
  <2>. HIDE DEF M
  <2>5. Links(M, m + 1)
    BY <2>3, <2>4
  <2>. QED  BY <2>5
<1>. HIDE DEF Turns
<1>3. Turns \in SUBSET Nat
  BY DEF Turns
<1>4. Len(entries) + 1 \in Turns
  BY <1>t, <1>1, <1>2, <1>3, NatSetInduction
<1>5. PICK L : Links(L, Len(entries) + 1)
  BY <1>4 DEF Turns
<1>6. L = [i \in Loop |-> Link(ss, entries, L, i)]
  <2>1. \A i \in Loop : L[i] = Link(ss, entries, L, i)
    BY <1>t, <1>5
  <2>. QED  BY <1>5, <2>1
<1>7. Linked(ss, entries) = [i \in Loop |-> Link(ss, entries, Linked(ss, entries), i)]
  <2>. HIDE DEF Links
  <2>. QED  BY <1>6 DEF Linked, Link
<1>. QED  BY <1>7

(* The tables among the first m entries, and how many of them come from    *)
(* the i-th on.                                                            *)
TablesUpto(entries, m) == {i \in 1..m : entries[i].k = "hash"}
After(entries, m, i) == {j \in TablesUpto(entries, m) : j >= i}

LEMMA CountTables ==
    ASSUME NEW entries, NEW m \in Nat
    PROVE  /\ IsFiniteSet(TablesUpto(entries, m))
           /\ Cardinality(TablesUpto(entries, m)) \in Nat
           /\ \A i \in TablesUpto(entries, m) :
                /\ IsFiniteSet(After(entries, m, i))
                /\ Cardinality(After(entries, m, i)) \in 1..Cardinality(TablesUpto(entries, m))
<1>1. IsFiniteSet(1..m)
  BY FS_Interval
<1>2. IsFiniteSet(TablesUpto(entries, m))
  BY <1>1, FS_Subset DEF TablesUpto
<1>3. Cardinality(TablesUpto(entries, m)) \in Nat
  BY <1>2, FS_CardinalityType
<1>4. ASSUME NEW i \in TablesUpto(entries, m)
      PROVE  /\ IsFiniteSet(After(entries, m, i))
             /\ Cardinality(After(entries, m, i)) \in 1..Cardinality(TablesUpto(entries, m))
  <2>1. /\ IsFiniteSet(After(entries, m, i))
        /\ Cardinality(After(entries, m, i)) <= Cardinality(TablesUpto(entries, m))
    BY <1>2, FS_Subset DEF After
  <2>2. Cardinality(After(entries, m, i)) \in Nat
    BY <2>1, FS_CardinalityType
  <2>3. i \in After(entries, m, i)
    BY DEF After, TablesUpto
  <2>4. Cardinality(After(entries, m, i)) # 0
    BY <2>1, <2>3, FS_EmptySet
  <2>. QED  BY <1>3, <2>1, <2>2, <2>4
<1>. QED  BY <1>2, <1>3, <1>4

LEMMA CountNext ==
    ASSUME NEW entries, NEW m \in Nat, entries[m + 1].k = "hash"
    PROVE  /\ TablesUpto(entries, m + 1) = TablesUpto(entries, m) \cup {m + 1}
           /\ Cardinality(TablesUpto(entries, m + 1)) = Cardinality(TablesUpto(entries, m)) + 1
           /\ \A i \in TablesUpto(entries, m) :
                Cardinality(After(entries, m + 1, i)) = Cardinality(After(entries, m, i)) + 1
           /\ Cardinality(After(entries, m + 1, m + 1)) = 1
<1>1. 1..(m + 1) = (1..m) \cup {m + 1} /\ m + 1 \notin 1..m
  OBVIOUS
<1>2. TablesUpto(entries, m + 1) = TablesUpto(entries, m) \cup {m + 1}
  BY <1>1 DEF TablesUpto
<1>3. m + 1 \notin TablesUpto(entries, m)
  BY <1>1 DEF TablesUpto
<1>4. Cardinality(TablesUpto(entries, m + 1)) = Cardinality(TablesUpto(entries, m)) + 1
  BY <1>2, <1>3, CountTables, FS_AddElement
<1>5. ASSUME NEW i \in TablesUpto(entries, m)
      PROVE  Cardinality(After(entries, m + 1, i)) = Cardinality(After(entries, m, i)) + 1
  <2>1. After(entries, m + 1, i) = After(entries, m, i) \cup {m + 1}
    <3>1. i \in Nat /\ m + 1 >= i
      BY DEF TablesUpto
    <3>. QED  BY <1>2, <3>1 DEF After
  <2>2. m + 1 \notin After(entries, m, i)
    BY <1>3 DEF After
  <2>. QED  BY <2>1, <2>2, CountTables, FS_AddElement
<1>6. After(entries, m + 1, m + 1) = {m + 1}
  <2>1. \A j \in TablesUpto(entries, m) : j \in Nat /\ ~ (j >= m + 1)
    BY DEF TablesUpto
  <2>. QED  BY <1>2, <2>1 DEF After
<1>. QED  BY <1>2, <1>4, <1>5, <1>6, FS_Singleton

Confs == {ServerConf(e) : e \in Entries}

ListRight(L, entries, m) ==
    /\ L[m] \in Seq(Confs)
    /\ Len(L[m]) = Cardinality(TablesUpto(entries, m))
    /\ \A i \in TablesUpto(entries, m) :
            L[m][Cardinality(After(entries, m, i))] = ServerConf(entries[i])

LEMMA LinkedRight ==
    ASSUME NEW entries \in Seq(Entries)
    PROVE  ListRight(Linked(<<>>, entries), entries, Len(entries))
<1>. DEFINE L == Linked(<<>>, entries)
            Turns == {m \in Nat : m <= Len(entries) => ListRight(L, entries, m)}
<1>t. Len(entries) \in Nat
  OBVIOUS
<1>l. \A i \in 0..Len(entries) : L[i] = Link(<<>>, entries, L, i)
  BY LinkedLinks
<1>. HIDE DEF L
<1>1. 0 \in Turns
  <2>1. L[0] = <<>>
    <3>1. 0 \in 0..Len(entries)
      BY <1>t
    <3>2. Link(<<>>, entries, L, 0) = <<>>
      BY Zenon DEF Link
    <3>. QED  BY <1>l, <3>1, <3>2
  <2>2. TablesUpto(entries, 0) = {}
    BY DEF TablesUpto
  <2>3. Cardinality({}) = 0
    BY FS_EmptySet
  <2>4. L[0] \in Seq(Confs) /\ Len(L[0]) = 0
    BY <2>1
  <2>5. ListRight(L, entries, 0)
    BY <2>2, <2>3, <2>4 DEF ListRight
  <2>. QED  BY <2>5
<1>2. ASSUME NEW m \in Turns, m + 1 <= Len(entries)
      PROVE  ListRight(L, entries, m + 1)
  <2>1. ListRight(L, entries, m) /\ m \in Nat
    BY <1>t, <1>2
  <2>2. m + 1 \in 1..Len(entries) /\ L[m + 1] = Link(<<>>, entries, L, m + 1)
    BY <1>t, <1>l, <1>2
  <2>3. CASE entries[m + 1].k = "hash"
    <3>. DEFINE x == ServerConf(entries[m + 1])
    <3>1. L[m + 1] = <<x>> \o L[m]
      BY <2>1, <2>2, <2>3 DEF Link
    <3>2. x \in Confs
      BY <2>2 DEF Confs
    <3>. HIDE DEF x
    <3>3. /\ L[m + 1] \in Seq(Confs) /\ Len(L[m + 1]) = Len(L[m]) + 1
          /\ L[m + 1][1] = x
          /\ \A k \in 1..Len(L[m]) : L[m + 1][k + 1] = L[m][k]
      BY <2>1, <3>1, <3>2 DEF ListRight
    <3>4. /\ TablesUpto(entries, m + 1) = TablesUpto(entries, m) \cup {m + 1}
          /\ Cardinality(TablesUpto(entries, m + 1)) = Cardinality(TablesUpto(entries, m)) + 1
          /\ \A i \in TablesUpto(entries, m) :
                Cardinality(After(entries, m + 1, i)) = Cardinality(After(entries, m, i)) + 1
          /\ Cardinality(After(entries, m + 1, m + 1)) = 1
      BY <2>1, <2>3, CountNext
    <3>5. ASSUME NEW i \in TablesUpto(entries, m + 1)
          PROVE  L[m + 1][Cardinality(After(entries, m + 1, i))] = ServerConf(entries[i])
      <4>1. CASE i = m + 1
        BY <3>3, <3>4, <4>1 DEF x
      <4>2. CASE i \in TablesUpto(entries, m)
        <5>1. Cardinality(After(entries, m, i)) \in 1..Len(L[m])
          BY <2>1, <4>2, CountTables DEF ListRight
        <5>. QED  BY <2>1, <3>3, <3>4, <4>2, <5>1 DEF ListRight
      <4>. QED  BY <3>4, <4>1, <4>2
    <3>. QED  BY <2>1, <3>3, <3>4, <3>5 DEF ListRight
  <2>4. CASE entries[m + 1].k # "hash"
    <3>1. L[m + 1] = L[m]
      BY <2>1, <2>2, <2>4 DEF Link
    <3>2. TablesUpto(entries, m + 1) = TablesUpto(entries, m)
      BY <2>1, <2>4 DEF TablesUpto
    <3>3. \A i : After(entries, m + 1, i) = After(entries, m, i)
      BY <3>2 DEF After
    <3>. QED  BY <2>1, <3>1, <3>2, <3>3 DEF ListRight
  <2>. QED  BY <2>3, <2>4
<1>3. \A m \in Turns : m + 1 \in Turns
  BY <1>2
<1>. HIDE DEF Turns
<1>4. Turns \in SUBSET Nat
  BY DEF Turns
<1>5. Len(entries) \in Turns
  BY <1>t, <1>1, <1>3, <1>4, NatSetInduction
<1>. QED  BY <1>t, <1>5 DEF Turns, L

(* The types as they are matched: the first that the word begins with.     *)
LEMMA TypeWritten ==
    ASSUME NEW e \in Entries
    PROVE  ServerConf(e).type = Written(e) /\ ServerConf(e).name = TextAt(e, "name")
<1>. DEFINE s == TextAt(e, "type")
            hits == {i \in 1..Len(Types) : s # NULL /\ IsPrefix(Types[i][1], s)}
            first == CHOOSE i \in hits : \A j \in hits : i <= j
<1>1. \E S : s \in Seq(S)
  <2>1. CASE "type" \in DOMAIN e.h /\ e.h["type"].k = "string"
    <3>1. s = e.h["type"].s
      BY <2>1 DEF TextAt, Has
    <3>2. \E S : e.h["type"].s \in Seq(S)
      BY <2>1, IntakeAssumption, Zenon
    <3>. QED  BY <3>1, <3>2
  <2>2. CASE ~("type" \in DOMAIN e.h /\ e.h["type"].k = "string")
    <3>1. s = NULL
      BY <2>2 DEF TextAt, Has
    <3>2. NULL \in Seq({"NULL"})
      BY DEF NULL
    <3>. QED  BY <3>1, <3>2
  <2>. QED  BY <2>1, <2>2
<1>2. /\ Len(Types) = 4
      /\ Types[1] = <<<<"internal">>, "INTERNAL">>
      /\ Types[2] = <<<<"normal">>, "NORMAL">>
      /\ Types[3] = <<<<>>, "HTTP">>
  BY DEF Types
<1>3. ServerConf(e).type = IF hits = {} THEN "NORMAL" ELSE Types[first][2]
  BY DEF ServerConf, Matched
<1>4. ServerConf(e).name = TextAt(e, "name")
  BY DEF ServerConf
<1>. HIDE DEF s
<1>5. ASSUME NEW w
      PROVE  IsPrefix(<<w>>, s) <=> s # <<>> /\ s[1] = w
  <2>1. Len(<<w>>) = 1 /\ SubSeq(<<w>>, 1, 1) = <<w>>
    <3>1. <<w>> \in Seq({w}) /\ Len(<<w>>) = 1
      OBVIOUS
    <3>. QED  BY <3>1, SubSeqFull
  <2>2. IsPrefix(<<w>>, s) <=> 1 <= Len(s) /\ <<w>> = SubSeq(s, 1, 1)
    BY <2>1 DEF IsPrefix
  <2>3. CASE s = <<>>
    BY <2>2, <2>3
  <2>4. CASE s # <<>>
    <3>. PICK S : s \in Seq(S)
      BY <1>1
    <3>1. 1 <= Len(s) /\ \A i \in 1..1 : s[i] \in S
      BY <2>4
    <3>. DEFINE u == SubSeq(s, 1, 1)
    <3>2. u \in Seq(S) /\ Len(u) = 1 /\ u[1] = s[1]
      BY <3>1, SubSeqProperties
    <3>. HIDE DEF u
    <3>3. <<s[1]>> \in Seq(S) /\ Len(<<s[1]>>) = 1
      BY <3>1
    <3>4. u = <<s[1]>>
      BY <3>2, <3>3, SeqEqual
    <3>5. u = <<w>> <=> s[1] = w
      BY <3>4
    <3>6. SubSeq(s, 1, 1) = u
      BY DEF u
    <3>. QED  BY <2>2, <2>4, <3>1, <3>5, <3>6
  <2>. QED  BY <2>3, <2>4
<1>6. IsPrefix(<<>>, s)
  BY <1>1 DEF IsPrefix
<1>7. CASE s = NULL
  <2>1. hits = {}
    BY <1>7
  <2>. QED  BY <1>3, <1>4, <1>7, <2>1 DEF Written, s
<1>8. CASE s # NULL
  <2>1. /\ 1 \in hits <=> s # <<>> /\ s[1] = "internal"
        /\ 2 \in hits <=> s # <<>> /\ s[1] = "normal"
        /\ 3 \in hits
        /\ hits \subseteq 1..4
    <3>1. /\ Types[1][1] = <<"internal">> /\ Types[2][1] = <<"normal">> /\ Types[3][1] = <<>>
          /\ 1 \in 1..Len(Types) /\ 2 \in 1..Len(Types) /\ 3 \in 1..Len(Types)
          /\ 1..Len(Types) = 1..4
      BY <1>2
    <3>2. \A i : i \in hits <=> i \in 1..Len(Types) /\ IsPrefix(Types[i][1], s)
      BY <1>8
    <3>. HIDE DEF hits
    <3>4. 1 \in hits <=> s # <<>> /\ s[1] = "internal"
      BY <1>5, <3>1, <3>2
    <3>5. 2 \in hits <=> s # <<>> /\ s[1] = "normal"
      BY <1>5, <3>1, <3>2
    <3>6. 3 \in hits
      BY <1>6, <3>1, <3>2
    <3>7. hits \subseteq 1..4
      BY <3>1, <3>2
    <3>. QED  BY <3>4, <3>5, <3>6, <3>7
  <2>. HIDE DEF hits
  <2>. DEFINE least == IF 1 \in hits THEN 1 ELSE IF 2 \in hits THEN 2 ELSE 3
  <2>2. least \in hits /\ least \in Int /\ \A j \in hits : least <= j
    BY <2>1
  <2>3. \A j \in hits : j \in Int
    BY <2>1
  <2>. HIDE DEF least
  <2>4. first \in hits /\ \A j \in hits : first <= j
    BY <2>2
  <2>5. first = least
    <3>. HIDE DEF first
    <3>. QED  BY <2>2, <2>3, <2>4
  <2>6. first = IF 1 \in hits THEN 1 ELSE IF 2 \in hits THEN 2 ELSE 3
    BY <2>5 DEF least
  <2>7. Types[first][2] = IF 1 \in hits THEN "INTERNAL" ELSE IF 2 \in hits THEN "NORMAL" ELSE "HTTP"
    <3>. HIDE DEF first
    <3>. QED  BY <1>2, <2>6
  <2>8. hits # {}
    BY <2>1
  <2>. HIDE DEF first
  <2>9. Written(e) = IF s = <<>> THEN "HTTP" ELSE IF s[1] = "internal" THEN "INTERNAL"
                     ELSE IF s[1] = "normal" THEN "NORMAL" ELSE "HTTP"
    BY <1>8 DEF Written, s
  <2>. QED  BY <1>3, <1>4, <2>1, <2>7, <2>8, <2>9
<1>. QED  BY <1>7, <1>8

(* However many servers the file lists, those of a running bspd are its    *)
(* tables, last first, each with its name and of its type (parse_conf,     *)
(* _parse_conf_server).                                                    *)
THEOREM ServersCorrect == IntakeSpec => []ServersAsWritten
<1>1. StartInv => ServersAsWritten
  <2>. DEFINE es == IF GlobalTable /\ Has(in.file, "servers") THEN in.file.h["servers"].a ELSE <<>>
              tables == {i \in 1..Len(es) : es[i].k = "hash"}
              d == [Options(in.args) EXCEPT !.log = All]
              c == ParsedConf(d, in.file)
  <2>. SUFFICES ASSUME StartInv, in.kind = "start", Start.how = "running"
                PROVE  /\ Len(Start.c.servers) = Cardinality(tables)
                       /\ \A i \in tables :
                            LET s == Start.c.servers[Cardinality({j \in tables : j >= i})]
                            IN  s.type = Written(es[i]) /\ s.name = TextAt(es[i], "name")
    BY DEF ServersAsWritten
  <2>1. es \in Seq(Entries)
    BY DEF StartInv
  <2>2. Start.c = c
    BY StartedAs DEF Start
  <2>3. DOMAIN d = Fields /\ d.servers = <<>>
    BY Given
  <2>. HIDE DEF d
  <2>4. c.servers = IF GlobalTable /\ Has(in.file, "servers") THEN Linked(<<>>, es)[Len(es)] ELSE <<>>
    BY <2>3, ParsedOnly DEF GlobalTable
  <2>5. Linked(<<>>, <<>>)[0] = <<>>
    <3>1. <<>> \in Seq(Entries) /\ 0 \in 0..Len(<<>>)
      OBVIOUS
    <3>2. \A L : Link(<<>>, <<>>, L, 0) = <<>>
      BY Zenon DEF Link
    <3>. QED  BY <3>1, <3>2, LinkedLinks
  <2>6. c.servers = Linked(<<>>, es)[Len(es)]
    BY <2>4, <2>5
  <2>. HIDE DEF es, c
  <2>7. ListRight(Linked(<<>>, es), es, Len(es))
    BY <2>1, LinkedRight
  <2>8. tables = TablesUpto(es, Len(es)) /\ \A i : {j \in tables : j >= i} = After(es, Len(es), i)
    BY DEF TablesUpto, After
  <2>9. \A i \in tables : es[i] \in Entries
    BY <2>1
  <2>. HIDE DEF tables
  <2>. QED  BY <2>2, <2>6, <2>7, <2>8, <2>9, TypeWritten DEF ListRight
<1>. QED  BY <1>1, Invariance, PTL DEF WrittenInv
-----------------------------------------------------------------------------
(* The text of a header line, and what is read of it. *)

(* All the bytes and pieces that requests are made of. *)
Symbols == STRING \cup {CRLF, KeyEnd, Space, "LF", "chopped"} \cup DOMAIN Methods

LEMMA ConcatAt ==
    ASSUME NEW A, NEW s \in Seq(A), NEW t \in Seq(A), NEW c, c = s \o t
    PROVE  /\ c \in Seq(A) /\ Len(c) = Len(s) + Len(t)
           /\ \A i \in 1..Len(s) : c[i] = s[i]
           /\ \A i \in 1..Len(t) : c[Len(s) + i] = t[i]
BY ConcatProperties

(* A header line without its end, and what is read of its value. *)
Body(h) == h.key \o <<KeyEnd, Space>> \o h.value
ValueRead(h) == SubSeq(h.value, 1, Find(h.value, 1, Control) - 1)

LEMMA LineGiven ==
    ASSUME NEW h \in HeaderLines
    PROVE  /\ h.key \in Seq(Symbols) /\ h.value \in Seq(Symbols)
           /\ Len(h.key) \in Nat \ {0} /\ Len(h.value) \in Nat
           /\ \A i \in 1..Len(h.key) : h.key[i] \notin Blank /\ h.key[i] # KeyEnd
           /\ \A i \in 1..Len(h.value) : h.value[i] # CRLF
           /\ h.value # <<>> => h.value[1] \notin Blank
<1>1. /\ h \in [key : Seq(STRING \ (Blank \cup {KeyEnd})) \ {<<>>}, value : Seq(STRING \ {CRLF})]
      /\ h.value # <<>> => h.value[1] \notin Blank
  BY IntakeAssumption, Zenon
<1>. DEFINE K == STRING \ (Blank \cup {KeyEnd})
            V == STRING \ {CRLF}
<1>2. h.key \in Seq(K) /\ h.key # <<>> /\ h.value \in Seq(V)
  BY <1>1
<1>3. K \subseteq STRING /\ V \subseteq STRING
  OBVIOUS
<1>4. \A x \in K : x \notin Blank /\ x # KeyEnd
  OBVIOUS
<1>5. \A x \in V : x # CRLF
  OBVIOUS
<1>. HIDE DEF K, V
<1>6. h.key \in Seq(Symbols) /\ h.value \in Seq(Symbols)
  <2>1. K \subseteq Symbols /\ V \subseteq Symbols
    BY <1>3 DEF Symbols
  <2>. QED  BY <1>2, <2>1, SeqMonotonic
<1>7. /\ Len(h.key) \in Nat \ {0} /\ Len(h.value) \in Nat
      /\ \A i \in 1..Len(h.key) : h.key[i] \in K
      /\ \A i \in 1..Len(h.value) : h.value[i] \in V
  BY <1>2
<1>. QED  BY <1>1, <1>4, <1>5, <1>6, <1>7

LEMMA BodyShape ==
    ASSUME NEW h \in HeaderLines
    PROVE  /\ Body(h) \in Seq(Symbols)
           /\ Len(Body(h)) = Len(h.key) + 2 + Len(h.value)
           /\ \A i \in 1..Len(h.key) : Body(h)[i] = h.key[i]
           /\ Body(h)[Len(h.key) + 1] = KeyEnd /\ Body(h)[Len(h.key) + 2] = Space
           /\ \A i \in 1..Len(h.value) : Body(h)[Len(h.key) + 2 + i] = h.value[i]
<1>1. /\ h.key \in Seq(Symbols) /\ h.value \in Seq(Symbols)
      /\ Len(h.key) \in Nat \ {0} /\ Len(h.value) \in Nat
  BY LineGiven
<1>. DEFINE sep == <<KeyEnd, Space>>
            k == h.key
            v == h.value
<1>2. sep \in Seq(Symbols) /\ Len(sep) = 2 /\ sep[1] = KeyEnd /\ sep[2] = Space
  <2>1. KeyEnd \in Symbols /\ Space \in Symbols
    BY DEF Symbols
  <2>. QED  BY <2>1
<1>. HIDE DEF sep, k, v
<1>3. k \in Seq(Symbols) /\ v \in Seq(Symbols) /\ Len(k) \in Nat \ {0} /\ Len(v) \in Nat
  BY <1>1 DEF k, v
<1>4. /\ k \o sep \in Seq(Symbols) /\ Len(k \o sep) = Len(k) + 2
      /\ \A i \in 1..Len(k) : (k \o sep)[i] = k[i]
      /\ (k \o sep)[Len(k) + 1] = KeyEnd /\ (k \o sep)[Len(k) + 2] = Space
  <2>1. 1 \in 1..Len(sep) /\ 2 \in 1..Len(sep)
    BY <1>2
  <2>. DEFINE c == k \o sep
              l == Len(k)
  <2>. HIDE DEF c
  <2>2. /\ c \in Seq(Symbols) /\ Len(c) = Len(k) + Len(sep)
        /\ \A i \in 1..Len(k) : c[i] = k[i]
        /\ \A i \in 1..Len(sep) : c[Len(k) + i] = sep[i]
    <3>1. c = k \o sep
      BY DEF c
    <3>2. k \in Seq(Symbols) /\ sep \in Seq(Symbols)
      BY <1>2, <1>3
    <3>. QED  BY <3>1, <3>2, ConcatAt
  <2>. HIDE DEF l
  <2>3. c[l + 1] = sep[1] /\ c[l + 2] = sep[2]
    BY <2>1, <2>2 DEF l
  <2>. QED  BY <1>2, <2>2, <2>3 DEF c, l
<1>. DEFINE ks == k \o sep
<1>. HIDE DEF ks
<1>5. /\ ks \o v \in Seq(Symbols) /\ Len(ks \o v) = Len(ks) + Len(v)
      /\ \A i \in 1..Len(ks) : (ks \o v)[i] = ks[i]
      /\ \A i \in 1..Len(v) : (ks \o v)[Len(ks) + i] = v[i]
  <2>1. ks \in Seq(Symbols)
    BY <1>4 DEF ks
  <2>. QED  BY <1>3, <2>1, ConcatAt
<1>6. Body(h) = ks \o v
  BY DEF Body, ks, k, v, sep
<1>. DEFINE b == ks \o v
<1>. HIDE DEF b
<1>7. /\ b \in Seq(Symbols) /\ Len(b) = Len(k) + 2 + Len(v)
      /\ \A i \in 1..Len(k) : b[i] = k[i]
      /\ b[Len(k) + 1] = KeyEnd /\ b[Len(k) + 2] = Space
      /\ \A i \in 1..Len(v) : b[Len(k) + 2 + i] = v[i]
  <2>1. /\ Len(ks) = Len(k) + 2 /\ \A i \in 1..Len(k) : ks[i] = k[i]
        /\ ks[Len(k) + 1] = KeyEnd /\ ks[Len(k) + 2] = Space
    BY <1>4 DEF ks
  <2>2. Len(k) + 1 \in 1..Len(ks) /\ Len(k) + 2 \in 1..Len(ks)
        /\ \A i \in 1..Len(k) : i \in 1..Len(ks)
    BY <1>3, <2>1
  <2>. QED  BY <1>3, <1>5, <2>1, <2>2 DEF b
<1>. QED  BY <1>6, <1>7 DEF b, k, v

LEMMA LineShape ==
    ASSUME NEW h \in HeaderLines
    PROVE  /\ Line(h) \in Seq(Symbols)
           /\ Len(Line(h)) = Len(Body(h)) + 1
           /\ \A i \in 1..Len(Body(h)) : Line(h)[i] = Body(h)[i] /\ Body(h)[i] # CRLF
           /\ Line(h)[Len(Body(h)) + 1] = CRLF
           /\ Len(Body(h)) \in Nat \ {0}
<1>1. /\ Body(h) \in Seq(Symbols) /\ Len(Body(h)) \in Nat \ {0}
      /\ \A i \in 1..Len(Body(h)) : Body(h)[i] # CRLF
  <2>1. CRLF # KeyEnd /\ CRLF # Space /\ CRLF \in Blank
    BY DEF CRLF, Blank, Control, KeyEnd, Space
  <2>2. /\ Len(h.key) \in Nat \ {0} /\ Len(h.value) \in Nat
        /\ \A i \in 1..Len(h.key) : h.key[i] # CRLF
        /\ \A i \in 1..Len(h.value) : h.value[i] # CRLF
    BY <2>1, LineGiven
  <2>. DEFINE k == Len(h.key)
              v == Len(h.value)
              b == Body(h)
  <2>3. /\ b \in Seq(Symbols)
        /\ Len(b) = k + 2 + v
        /\ \A i \in 1..k : b[i] # CRLF
        /\ b[k + 1] # CRLF /\ b[k + 2] # CRLF
        /\ \A i \in 1..v : b[k + 2 + i] # CRLF
    BY <2>1, <2>2, BodyShape
  <2>4. k \in Nat \ {0} /\ v \in Nat
    BY <2>2
  <2>. HIDE DEF k, v, b
  <2>5. ASSUME NEW i \in 1..Len(b)
        PROVE  b[i] # CRLF
    <3>1. \/ i \in 1..k
          \/ i = k + 1
          \/ i = k + 2
          \/ i - (k + 2) \in 1..v /\ i = k + 2 + (i - (k + 2))
      BY <2>3, <2>4
    <3>. QED  BY <2>3, <3>1
  <2>. QED  BY <2>3, <2>4, <2>5 DEF b
<1>. DEFINE b == Body(h)
<1>2. Line(h) = b \o <<CRLF>>
  BY DEF Line, Body
<1>. HIDE DEF b
<1>3. <<CRLF>> \in Seq(Symbols) /\ Len(<<CRLF>>) = 1 /\ <<CRLF>>[1] = CRLF
  BY DEF Symbols
<1>4. b \in Seq(Symbols) /\ Len(b) \in Nat \ {0} /\ \A i \in 1..Len(b) : b[i] # CRLF
  BY <1>1 DEF b
<1>5. /\ b \o <<CRLF>> \in Seq(Symbols)
      /\ Len(b \o <<CRLF>>) = Len(b) + 1
      /\ \A i \in 1..Len(b) : (b \o <<CRLF>>)[i] = b[i]
      /\ (b \o <<CRLF>>)[Len(b) + 1] = CRLF
  <2>1. 1 \in 1..Len(<<CRLF>>)
    BY <1>3
  <2>. QED  BY <1>3, <1>4, <2>1, ConcatAt
<1>. DEFINE l == b \o <<CRLF>>
<1>. HIDE DEF l
<1>6. /\ l \in Seq(Symbols) /\ Len(l) = Len(b) + 1
      /\ \A i \in 1..Len(b) : l[i] = b[i]
      /\ l[Len(b) + 1] = CRLF
  BY <1>3, <1>4, <1>5 DEF l
<1>. QED  BY <1>2, <1>4, <1>6 DEF b, l

LEMMA HeaderFrom ==
    ASSUME NEW r, NEW b, NEW e, NEW f, NEW key, Find(b, 1, Visible(b)) = 1,
           Find(b, 1, Blank \cup {KeyEnd}) = e, SubSeq(b, 1, e - 1) = key, e + 1 = f
    PROVE  Header(r, b) =
            IF e > Len(b) THEN r
            ELSE IF f > Len(b) \/ Find(b, f, Visible(b)) > Len(b)
            THEN [r EXCEPT !.wild = TRUE]
            ELSE Set(r, Upper(key), ValueOf(b, f))
<1>. DEFINE start == Find(b, 1, Visible(b))
            end == Find(b, start, Blank \cup {KeyEnd})
            from == end + 1
<1>1. start = 1
  OBVIOUS
<1>2. end = e
  BY <1>1
<1>3. from = f
  BY <1>2
<1>4. SubSeq(b, start, end - 1) = key
  BY <1>1, <1>2
<1>5. Header(r, b) =
        IF end > Len(b) THEN r
        ELSE IF from > Len(b) \/ Find(b, from, Visible(b)) > Len(b)
        THEN [r EXCEPT !.wild = TRUE]
        ELSE Set(r, Upper(SubSeq(b, start, end - 1)), ValueOf(b, from))
  BY Zenon DEF Header
<1>. HIDE DEF start, end, from
<1>. QED  BY <1>2, <1>3, <1>4, <1>5

(* What _parse_http_request_header makes of a line as it was sent. *)
LEMMA HeaderReads ==
    ASSUME NEW r, NEW h \in HeaderLines
    PROVE  Header(r, Body(h)) = IF h.value = <<>> THEN [r EXCEPT !.wild = TRUE]
                                ELSE Set(r, Name(h), ValueRead(h))
<1>. DEFINE b == Body(h)
            k == Len(h.key)
            v == Len(h.value)
<1>1. /\ h.key \in Seq(Symbols) /\ h.value \in Seq(Symbols)
      /\ k \in Nat \ {0} /\ v \in Nat
      /\ \A i \in 1..k : h.key[i] \notin Blank /\ h.key[i] # KeyEnd
      /\ v > 0 => h.value[1] \notin Blank
      /\ v > 0 <=> h.value # <<>>
  BY LineGiven
<1>2. /\ b \in Seq(Symbols) /\ Len(b) = k + 2 + v
      /\ \A i \in 1..k : b[i] = h.key[i]
      /\ b[k + 1] = KeyEnd /\ b[k + 2] = Space
      /\ \A i \in 1..v : b[k + 2 + i] = h.value[i]
  BY BodyShape
<1>3. \A i \in 1..Len(b) : b[i] \in Visible(b) <=> b[i] \notin Blank
  BY DEF Visible
<1>4. KeyEnd \notin Blank /\ Space \in Blank /\ Control \subseteq Blank
  BY DEF Blank, Control, CRLF, KeyEnd, Space
<1>. HIDE DEF b, k, v
<1>6. Find(b, 1, Visible(b)) = 1
  <2>1. b[1] \in Visible(b) /\ 1 \in 1..(Len(b) + 1) /\ 1 <= Len(b)
    BY <1>1, <1>2, <1>3
  <2>. QED  BY <1>2, <2>1, FindIs
<1>7. Find(b, 1, Blank \cup {KeyEnd}) = k + 1
  <2>. DEFINE e == k + 1
  <2>1. e \in 1..(Len(b) + 1) /\ 1 \in 1..(Len(b) + 1)
    BY <1>1, <1>2
  <2>2. ASSUME NEW i \in 1..(e - 1)
        PROVE  b[i] \notin Blank \cup {KeyEnd}
    <3>1. i \in 1..k
      BY <1>1
    <3>. QED  BY <1>1, <1>2, <3>1
  <2>3. b[e] \in Blank \cup {KeyEnd}
    BY <1>2
  <2>. HIDE DEF e
  <2>4. Find(b, 1, Blank \cup {KeyEnd}) = e
    BY <1>2, <2>1, <2>2, <2>3, FindIs
  <2>. QED  BY <2>4 DEF e
<1>8. SubSeq(b, 1, (k + 1) - 1) = h.key
  <2>1. (k + 1) - 1 = k /\ 1 \in Int /\ k \in Int
    BY <1>1
  <2>2. \A i \in 1..k : b[i] \in Symbols
    BY <1>1, <1>2
  <2>. DEFINE s == SubSeq(b, 1, k)
  <2>3. s \in Seq(Symbols) /\ Len(s) = k /\ \A i \in 1..k : s[i] = b[i]
    <3>1. /\ s \in Seq(Symbols) /\ Len(s) = IF 1 <= k THEN k - 1 + 1 ELSE 0
          /\ \A i \in 1..(k - 1 + 1) : s[i] = b[1 + i - 1]
      BY <2>1, <2>2, SubSeqProperties
    <3>. HIDE DEF s
    <3>. QED  BY <1>1, <3>1
  <2>. HIDE DEF s
  <2>4. s = h.key
    BY <1>1, <1>2, <2>3, SeqEqual DEF k
  <2>. QED  BY <2>1, <2>4 DEF s
<1>5. Header(r, b) =
        IF k + 1 > Len(b) THEN r
        ELSE IF k + 2 > Len(b) \/ Find(b, k + 2, Visible(b)) > Len(b)
        THEN [r EXCEPT !.wild = TRUE]
        ELSE Set(r, Upper(h.key), ValueOf(b, k + 2))
  <2>. DEFINE e == k + 1
              f == k + 2
  <2>1. f = e + 1
    BY <1>1
  <2>2. Find(b, 1, Blank \cup {KeyEnd}) = e /\ SubSeq(b, 1, e - 1) = h.key
    BY <1>7, <1>8, Zenon
  <2>. HIDE DEF e, f
  <2>3. Header(r, b) =
          IF e > Len(b) THEN r
          ELSE IF f > Len(b) \/ Find(b, f, Visible(b)) > Len(b)
          THEN [r EXCEPT !.wild = TRUE]
          ELSE Set(r, Upper(h.key), ValueOf(b, f))
    BY <1>6, <2>1, <2>2, HeaderFrom
  <2>. QED  BY <2>3 DEF e, f
<1>9. CASE v = 0
  <2>1. Find(b, k + 2, Visible(b)) = Len(b) + 1
    <3>1. /\ Len(b) = k + 2 /\ k + 2 \in 1..(Len(b) + 1)
          /\ Len(b) + 1 \in (k + 2)..(Len(b) + 1)
          /\ \A i \in (k + 2)..(Len(b) + 1 - 1) : b[i] \notin Visible(b)
      BY <1>1, <1>2, <1>3, <1>4, <1>9
    <3>2. ~ (Len(b) + 1 <= Len(b))
      BY <1>2
    <3>. DEFINE e == Len(b) + 1
                p == k + 2
    <3>3. /\ p \in 1..(Len(b) + 1) /\ e \in p..(Len(b) + 1) /\ ~ (e <= Len(b))
          /\ \A i \in p..(e - 1) : b[i] \notin Visible(b)
      BY <3>1, <3>2
    <3>. HIDE DEF e, p
    <3>4. Find(b, p, Visible(b)) = e
      BY <1>2, <3>3, FindIs
    <3>. QED  BY <3>4 DEF e, p
  <2>2. ~ (k + 1 > Len(b)) /\ Len(b) + 1 > Len(b)
    BY <1>1, <1>2, <1>9
  <2>3. Header(r, b) = [r EXCEPT !.wild = TRUE]
    BY <1>5, <2>1, <2>2
  <2>4. h.value = <<>>
    BY <1>1, <1>9
  <2>. QED  BY <2>3, <2>4 DEF b
<1>10. CASE v > 0
  <2>1. /\ Find(b, k + 2, Visible(b)) = k + 3
        /\ k + 3 \in 1..(Len(b) + 1)
    <3>. DEFINE p == k + 2
                e == k + 3
    <3>1. /\ p \in 1..(Len(b) + 1) /\ e \in p..(Len(b) + 1) /\ e \in 1..Len(b)
          /\ e = p + 1 /\ p \in 1..Len(b)
      BY <1>1, <1>2, <1>10
    <3>2. b[p] \notin Visible(b)
      BY <1>2, <1>3, <1>4, <3>1
    <3>3. b[e] \in Visible(b)
      <4>1. 1 \in 1..v /\ k + 2 + 1 = e
        BY <1>1, <1>10
      <4>2. b[e] = h.value[1]
        BY <1>2, <4>1
      <4>. QED  BY <1>1, <1>3, <1>10, <3>1, <4>2
    <3>. HIDE DEF p, e
    <3>4. ASSUME NEW i \in p..(e - 1)
          PROVE  b[i] \notin Visible(b)
      <4>1. i = p
        BY <3>1
      <4>. QED  BY <3>2, <4>1
    <3>5. Find(b, p, Visible(b)) = e
      BY <1>2, <3>1, <3>3, <3>4, FindIs
    <3>. QED  BY <3>1, <3>5 DEF p, e
  <2>. DEFINE q == Find(h.value, 1, Control)
  <2>2. /\ q \in 1..(v + 1) /\ \A i \in 1..(q - 1) : h.value[i] \notin Control
        /\ q <= v => h.value[q] \in Control
    <3>1. 1 \in 1..(Len(h.value) + 1)
      BY <1>1 DEF v
    <3>. QED  BY <1>1, <3>1, FindFinds DEF v
  <2>. HIDE DEF q
  <2>3. Find(b, k + 3, Control) = k + 2 + q
    <3>. DEFINE p == k + 3
                e == k + 2 + q
    <3>1. p \in 1..(Len(b) + 1) /\ e \in p..(Len(b) + 1)
      BY <1>1, <1>2, <1>10, <2>2
    <3>2. ASSUME NEW i \in p..(e - 1)
          PROVE  b[i] \notin Control
      <4>1. i - (k + 2) \in 1..(q - 1) /\ i - (k + 2) \in 1..v /\ k + 2 + (i - (k + 2)) = i
        BY <1>1, <2>2
      <4>. QED  BY <1>2, <2>2, <4>1
    <3>3. e <= Len(b) => b[e] \in Control
      <4>1. e <= Len(b) => q \in 1..v /\ q <= v
        BY <1>1, <1>2, <2>2
      <4>. QED  BY <1>2, <2>2, <4>1
    <3>. HIDE DEF p, e
    <3>4. Find(b, p, Control) = e
      BY <1>2, <3>1, <3>2, <3>3, FindIs
    <3>. QED  BY <3>4 DEF p, e
  <2>4. SubSeq(b, k + 3, (k + 2 + q) - 1) = SubSeq(h.value, 1, q - 1)
    <3>. DEFINE m == k + 3
                n == (k + 2 + q) - 1
                w == q - 1
                s == SubSeq(b, m, n)
                u == SubSeq(h.value, 1, w)
    <3>1. /\ m \in Int /\ n \in Int /\ w \in Nat /\ n - m + 1 = w /\ (m <= n <=> 1 <= w)
          /\ \A i \in 1..w : m + i - 1 = k + 2 + i /\ i \in 1..v
          /\ \A i \in m..n : i \in 1..Len(b)
      <4>1. m \in Int /\ n \in Int /\ w \in Nat /\ n - m + 1 = w /\ (m <= n <=> 1 <= w)
        BY <1>1, <2>2
      <4>2. \A i \in 1..w : m + i - 1 = k + 2 + i /\ i \in 1..v
        BY <1>1, <2>2
      <4>3. \A i \in m..n : i \in 1..Len(b)
        BY <1>1, <1>2, <2>2
      <4>. QED  BY <4>1, <4>2, <4>3
    <3>. HIDE DEF m, n, w
    <3>2. /\ \A i \in m..n : b[i] \in Symbols
          /\ \A i \in 1..w : h.value[i] \in Symbols
      <4>1. \A i \in 1..Len(b) : b[i] \in Symbols
        BY <1>2
      <4>2. \A i \in 1..v : h.value[i] \in Symbols
        BY <1>1 DEF v
      <4>3. \A i \in m..n : b[i] \in Symbols
        BY <3>1, <4>1
      <4>4. \A i \in 1..w : h.value[i] \in Symbols
        BY <3>1, <4>2
      <4>. QED  BY <4>3, <4>4
    <3>3. /\ s \in Seq(Symbols) /\ Len(s) = IF m <= n THEN n - m + 1 ELSE 0
          /\ \A i \in 1..(n - m + 1) : s[i] = b[m + i - 1]
      BY <3>1, <3>2, SubSeqProperties
    <3>4. /\ u \in Seq(Symbols) /\ Len(u) = IF 1 <= w THEN w - 1 + 1 ELSE 0
          /\ \A i \in 1..(w - 1 + 1) : u[i] = h.value[1 + i - 1]
      BY <3>1, <3>2, SubSeqProperties
    <3>. HIDE DEF s, u
    <3>5. Len(s) = w /\ Len(u) = w
      BY <3>1, <3>3, <3>4
    <3>6. ASSUME NEW i \in 1..w
          PROVE  s[i] = u[i]
      <4>1. i \in 1..(n - m + 1) /\ i \in 1..(w - 1 + 1) /\ 1 + i - 1 = i
        BY <3>1
      <4>. QED  BY <1>2, <3>1, <3>3, <3>4, <4>1
    <3>7. s = u
      BY <3>3, <3>4, <3>5, <3>6, SeqEqual
    <3>. QED  BY <3>7 DEF s, u, m, n, w
  <2>5. ValueOf(b, k + 2) = ValueRead(h)
    <3>. DEFINE from == k + 2
                start == k + 3
                end == k + 2 + q
    <3>1. Find(b, from, Visible(b)) = start /\ Find(b, start, Control) = end
      BY <2>1, <2>3
    <3>. HIDE DEF from, start, end
    <3>3. ValueOf(b, from) = SubSeq(b, start, end - 1)
      BY <3>1, Zenon DEF ValueOf
    <3>2. ValueOf(b, k + 2) = SubSeq(b, k + 3, (k + 2 + q) - 1)
      BY <3>3, Zenon DEF from, start, end
    <3>. QED  BY <2>4, <3>2 DEF ValueRead, q
  <2>6. ~ (k + 1 > Len(b)) /\ ~ (k + 2 > Len(b)) /\ ~ (k + 3 > Len(b))
    BY <1>1, <1>2, <1>10
  <2>7. Header(r, b) = Set(r, Upper(h.key), ValueRead(h))
    BY <1>5, <2>1, <2>5, <2>6
  <2>. QED  BY <1>1, <1>10, <2>7 DEF b, Name
<1>. QED  BY <1>1, <1>9, <1>10
-----------------------------------------------------------------------------
(* The text of the header lines together. *)

(* The texts of the header lines, one after the other. *)
Joined(hs, T, i) == IF i = 0 THEN <<>> ELSE T[i - 1] \o Line(hs[i])

LEMMA HeadersJoined ==
    ASSUME NEW hs \in Seq(HeaderLines)
    PROVE  \A i \in 0..Len(hs) : HeaderText(hs)[i] = Joined(hs, HeaderText(hs), i)
<1>. DEFINE Loop == 0..Len(hs)
            Joins(T, m) == /\ T = [i \in Loop |-> T[i]]
                           /\ \A i \in Loop : i < m => T[i] = Joined(hs, T, i)
            Turns == {m \in Nat : \E T : Joins(T, m)}
<1>t. Len(hs) \in Nat
  OBVIOUS
<1>1. 0 \in Turns
  <2>1. Joins([i \in Loop |-> 0], 0)
    BY <1>t
  <2>. QED  BY <2>1
<1>2. ASSUME NEW m \in Turns
      PROVE  m + 1 \in Turns
  <2>1. PICK T : Joins(T, m)
    OBVIOUS
  <2>. DEFINE U == [i \in Loop |-> Joined(hs, T, i)]
  <2>2. \A i \in Loop : i < m => U[i] = T[i]
    BY <2>1
  <2>3. ASSUME NEW i \in Loop, i < m + 1
        PROVE  U[i] = Joined(hs, U, i)
    <3>1. i = 0 \/ (i - 1 \in Loop /\ i - 1 < m)
      BY <1>t, <2>3
    <3>. HIDE DEF U
    <3>2. i = 0 \/ U[i - 1] = T[i - 1]
      BY <2>2, <3>1
    <3>3. Joined(hs, T, i) = Joined(hs, U, i)
      BY <3>2 DEF Joined
    <3>. QED  BY <3>3 DEF U
  <2>4. U = [i \in Loop |-> U[i]]
    OBVIOUS
  <2>. HIDE DEF U
  <2>5. Joins(U, m + 1)
    BY <2>3, <2>4
  <2>. QED  BY <2>5
<1>. HIDE DEF Turns
<1>3. Turns \in SUBSET Nat
  BY DEF Turns
<1>4. Len(hs) + 1 \in Turns
  BY <1>t, <1>1, <1>2, <1>3, NatSetInduction
<1>5. PICK T : Joins(T, Len(hs) + 1)
  BY <1>4 DEF Turns
<1>6. T = [i \in Loop |-> Joined(hs, T, i)]
  <2>1. \A i \in Loop : T[i] = Joined(hs, T, i)
    BY <1>t, <1>5
  <2>. QED  BY <1>5, <2>1
<1>7. HeaderText(hs) = [i \in Loop |-> Joined(hs, HeaderText(hs), i)]
  <2>. HIDE DEF Joins
  <2>. QED  BY <1>6 DEF HeaderText, Joined
<1>. QED  BY <1>7

(* A text that ends with a line end, has no empty line and does not begin  *)
(* with a line end, or nothing at all.                                     *)
Tidy(s) ==
    /\ s \in Seq(Symbols)
    /\ Len(s) > 0 => s[1] # CRLF /\ s[Len(s)] = CRLF
    /\ \A i \in 1..(Len(s) - 1) : s[i] = CRLF => s[i + 1] # CRLF

LEMMA TidyJoined ==
    ASSUME NEW s, NEW u, NEW c, Tidy(s), Tidy(u), c = s \o u
    PROVE  Tidy(c)
<1>. DEFINE k == Len(s)
            n == Len(u)
<1>1. /\ k \in Nat /\ n \in Nat
      /\ k > 0 => s[1] # CRLF /\ s[k] = CRLF
      /\ n > 0 => u[1] # CRLF /\ u[n] = CRLF
      /\ \A i \in 1..(k - 1) : s[i] = CRLF => s[i + 1] # CRLF
      /\ \A i \in 1..(n - 1) : u[i] = CRLF => u[i + 1] # CRLF
  BY DEF Tidy
<1>2. /\ c \in Seq(Symbols) /\ Len(c) = k + n
      /\ \A i \in 1..k : c[i] = s[i]
      /\ \A i \in 1..n : c[k + i] = u[i]
  BY ConcatAt DEF Tidy
<1>. HIDE DEF k, n
<1>3. Len(c) > 0 => c[1] # CRLF /\ c[Len(c)] = CRLF
  <2>1. CASE k > 0 /\ n > 0
    <3>1. 1 \in 1..k /\ n \in 1..n
      BY <1>1, <2>1
    <3>. QED  BY <1>1, <1>2, <2>1, <3>1
  <2>2. CASE k > 0 /\ n = 0
    <3>1. 1 \in 1..k /\ k \in 1..k /\ k + n = k
      BY <1>1, <2>2
    <3>. QED  BY <1>1, <1>2, <2>2, <3>1
  <2>3. CASE k = 0 /\ n > 0
    <3>1. 1 \in 1..n /\ n \in 1..n /\ k + 1 = 1
      BY <1>1, <2>3
    <3>. QED  BY <1>1, <1>2, <2>3, <3>1
  <2>4. CASE k = 0 /\ n = 0
    BY <1>2, <2>4
  <2>. QED  BY <1>1, <2>1, <2>2, <2>3, <2>4
<1>4. ASSUME NEW i \in 1..(Len(c) - 1), c[i] = CRLF
      PROVE  c[i + 1] # CRLF
  <2>1. \/ i \in 1..(k - 1) /\ i \in 1..k /\ i + 1 \in 1..k
        \/ i = k /\ 1 \in 1..n /\ n > 0
        \/ i - k \in 1..(n - 1) /\ i - k \in 1..n /\ (i - k) + 1 \in 1..n
           /\ k + (i - k) = i /\ k + ((i - k) + 1) = i + 1
    BY <1>1, <1>2
  <2>2. CASE i \in 1..(k - 1) /\ i \in 1..k /\ i + 1 \in 1..k
    BY <1>1, <1>2, <1>4, <2>2
  <2>3. CASE i = k /\ 1 \in 1..n /\ n > 0
    BY <1>1, <1>2, <2>3
  <2>4. CASE i - k \in 1..(n - 1) /\ i - k \in 1..n /\ (i - k) + 1 \in 1..n
             /\ k + (i - k) = i /\ k + ((i - k) + 1) = i + 1
    <3>. DEFINE j == i - k
    <3>1. c[i] = u[j] /\ c[i + 1] = u[j + 1]
      BY <1>2, <2>4
    <3>2. j \in 1..(n - 1)
      BY <2>4
    <3>. HIDE DEF j
    <3>. QED  BY <1>1, <1>4, <3>1, <3>2
  <2>. QED  BY <2>1, <2>2, <2>3, <2>4
<1>. QED  BY <1>2, <1>3, <1>4 DEF Tidy

LEMMA LineTidy ==
    ASSUME NEW h \in HeaderLines
    PROVE  Tidy(Line(h)) /\ Len(Line(h)) \in Nat /\ Len(Line(h)) > 3
<1>. DEFINE l == Line(h)
            b == Len(Body(h))
<1>1. /\ l \in Seq(Symbols) /\ Len(l) = b + 1 /\ b \in Nat \ {0}
      /\ \A i \in 1..b : l[i] # CRLF
      /\ l[b + 1] = CRLF
  BY LineShape
<1>2. b > 2
  <2>. DEFINE k == Len(h.key)
              v == Len(h.value)
  <2>1. b = k + 2 + v
    BY BodyShape
  <2>2. k \in Nat \ {0} /\ v \in Nat
    BY LineGiven
  <2>. HIDE DEF b, k, v
  <2>. QED  BY <2>1, <2>2
<1>. HIDE DEF l, b
<1>3. 1 \in 1..b /\ \A i \in 1..(Len(l) - 1) : i \in 1..b
  BY <1>1
<1>4. Tidy(l)
  BY <1>1, <1>3 DEF Tidy
<1>. QED  BY <1>1, <1>2, <1>4 DEF l

(* Where the lines are in the text of the first m of them. *)
Laid(hs, T, m) ==
    /\ Tidy(T[m]) /\ Len(T[m]) >= m
    /\ \A i \in 1..m :
        /\ Len(T[i - 1]) \in Nat /\ Len(T[i]) = Len(T[i - 1]) + Len(Line(hs[i]))
        /\ Len(T[i]) <= Len(T[m])
        /\ \A j \in 1..Len(Line(hs[i])) : T[m][Len(T[i - 1]) + j] = Line(hs[i])[j]

LEMMA HeadersLaid ==
    ASSUME NEW hs \in Seq(HeaderLines)
    PROVE  /\ \A m \in 0..Len(hs) : Laid(hs, HeaderText(hs), m)
           /\ HeaderText(hs)[0] = <<>>
<1>. DEFINE T == HeaderText(hs)
            Turns == {m \in Nat : m <= Len(hs) => Laid(hs, T, m)}
<1>t. Len(hs) \in Nat
  OBVIOUS
<1>j. \A i \in 0..Len(hs) : T[i] = Joined(hs, T, i)
  BY HeadersJoined
<1>. HIDE DEF T
<1>0. T[0] = <<>>
  <2>1. 0 \in 0..Len(hs)
    BY <1>t
  <2>2. Joined(hs, T, 0) = <<>>
    BY Zenon DEF Joined
  <2>. QED  BY <1>j, <2>1, <2>2
<1>1. 0 \in Turns
  <2>1. T[0] \in Seq(Symbols) /\ Len(T[0]) = 0
    BY <1>0
  <2>2. Laid(hs, T, 0)
    BY <2>1 DEF Laid, Tidy
  <2>. QED  BY <2>2
<1>2. ASSUME NEW m \in Turns, m + 1 <= Len(hs)
      PROVE  Laid(hs, T, m + 1)
  <2>1. Laid(hs, T, m) /\ m \in Nat
    BY <1>t, <1>2
  <2>. DEFINE l == Line(hs[m + 1])
              n == m + 1
              a == Len(T[m])
  <2>2. n \in 1..Len(hs) /\ n - 1 = m /\ n \in 0..Len(hs) /\ n # 0
    BY <1>t, <1>2, <2>1
  <2>3. T[n] = T[m] \o l
    BY <1>j, <2>2 DEF Joined
  <2>4. Tidy(l) /\ Len(l) \in Nat /\ Len(l) > 3
    <3>1. hs[n] \in HeaderLines
      BY <2>2
    <3>. QED  BY <3>1, LineTidy
  <2>5. T[m] \in Seq(Symbols) /\ l \in Seq(Symbols) /\ Tidy(T[m]) /\ a \in Nat /\ a >= m
    BY <2>1, <2>4 DEF Laid, Tidy
  <2>. HIDE DEF l
  <2>6. /\ T[n] \in Seq(Symbols) /\ Len(T[n]) = Len(T[m]) + Len(l)
        /\ \A i \in 1..Len(T[m]) : T[n][i] = T[m][i]
        /\ \A i \in 1..Len(l) : T[n][Len(T[m]) + i] = l[i]
    BY <2>3, <2>5, ConcatAt
  <2>7. Tidy(T[n])
    BY <2>3, <2>4, <2>5, TidyJoined
  <2>l. l = Line(hs[n])
    BY DEF l
  <2>. HIDE DEF n, a
  <2>a. /\ a = Len(T[m]) /\ Len(T[n]) = a + Len(l)
        /\ \A i \in 1..a : T[n][i] = T[m][i]
    BY <2>6 DEF a
  <2>8. ASSUME NEW i \in 1..n
        PROVE  /\ Len(T[i - 1]) \in Nat /\ Len(T[i]) = Len(T[i - 1]) + Len(Line(hs[i]))
               /\ Len(T[i]) <= Len(T[n])
               /\ \A j \in 1..Len(Line(hs[i])) : T[n][Len(T[i - 1]) + j] = Line(hs[i])[j]
    <3>1. CASE i = n
      <4>1. i - 1 = m /\ Line(hs[i]) = l
        BY <2>2, <2>l, <3>1
      <4>2. Len(T[n]) <= Len(T[n])
        BY <2>4, <2>5, <2>a
      <4>. QED  BY <2>5, <2>6, <2>a, <3>1, <4>1, <4>2
    <3>2. CASE i \in 1..m
      <4>. DEFINE c == Len(T[i - 1])
                  k == Line(hs[i])
                  d == Len(T[i])
      <4>1. /\ c \in Nat /\ d = c + Len(k) /\ d <= a
            /\ \A j \in 1..Len(k) : T[m][c + j] = k[j]
        BY <2>1, <3>2 DEF Laid, a
      <4>2. Len(k) \in Nat
        <5>1. hs[i] \in HeaderLines
          BY <2>2
        <5>. QED  BY <5>1, LineTidy
      <4>. HIDE DEF c, k, d
      <4>3. ASSUME NEW j \in 1..Len(k)
            PROVE  T[n][c + j] = k[j]
        <5>1. c + j \in 1..a
          BY <2>5, <4>1, <4>2
        <5>2. T[n][c + j] = T[m][c + j]
          BY <2>a, <5>1
        <5>. QED  BY <4>1, <5>2
      <4>4. d <= Len(T[n])
        BY <2>4, <2>5, <2>a, <4>1, <4>2
      <4>. QED  BY <4>1, <4>3, <4>4 DEF c, k, d
    <3>3. i = n \/ i \in 1..m
      BY <2>1, <2>2
    <3>. QED  BY <3>1, <3>2, <3>3
  <2>9. Len(T[n]) >= n
    BY <2>1, <2>2, <2>4, <2>5, <2>a
  <2>. QED  BY <2>7, <2>8, <2>9 DEF Laid, n
<1>3. \A m \in Turns : m + 1 \in Turns
  BY <1>2
<1>. HIDE DEF Turns
<1>4. Turns \in SUBSET Nat
  BY DEF Turns
<1>5. Turns = Nat
  BY <1>1, <1>3, <1>4, NatSetInduction
<1>6. \A m \in 0..Len(hs) : Laid(hs, T, m)
  BY <1>t, <1>5 DEF Turns
<1>. QED  BY <1>0, <1>6 DEF T
-----------------------------------------------------------------------------
(* The text of the first line. *)

LEMMA AskedGiven ==
    ASSUME NEW req \in Asked
    PROVE  /\ req.method \in DOMAIN Methods
           /\ req.uri \in Seq(Symbols) /\ Len(req.uri) \in Nat \ {0}
           /\ \A i \in 1..Len(req.uri) : req.uri[i] \notin Blank
           /\ req.version \in Seq(Symbols) /\ Len(req.version) \in {0, 1}
           /\ \A i \in 1..Len(req.version) : req.version[i] \notin Blank
           /\ req.headers \in Seq(HeaderLines) /\ Len(req.headers) \in Nat
           /\ req.body \in Seq(Symbols)
<1>. DEFINE V == STRING \ Blank
            B == STRING
<1>1. /\ req.method \in DOMAIN Methods
      /\ req.uri \in Seq(V) /\ req.uri # <<>>
      /\ req.version \in Seq(V) /\ Len(req.version) < 2
      /\ req.headers \in Seq(HeaderLines) /\ req.body \in Seq(B)
  BY DEF Asked
<1>2. V \subseteq Symbols /\ B \subseteq Symbols
  BY DEF Symbols
<1>3. \A x \in V : x \notin Blank
  OBVIOUS
<1>. HIDE DEF V, B
<1>4. /\ req.uri \in Seq(Symbols) /\ req.version \in Seq(Symbols) /\ req.body \in Seq(Symbols)
  BY <1>1, <1>2, SeqMonotonic
<1>5. Len(req.uri) \in Nat \ {0} /\ \A i \in 1..Len(req.uri) : req.uri[i] \in V
  BY <1>1
<1>6. Len(req.version) \in {0, 1} /\ \A i \in 1..Len(req.version) : req.version[i] \in V
  <2>1. Len(req.version) \in Nat /\ \A i \in 1..Len(req.version) : req.version[i] \in V
    BY <1>1
  <2>2. Len(req.version) < 2
    BY <1>1
  <2>3. \A k \in Nat : k < 2 => k \in {0, 1}
    OBVIOUS
  <2>. QED  BY <2>1, <2>2, <2>3
<1>7. Len(req.headers) \in Nat
  BY <1>1
<1>. QED  BY <1>1, <1>3, <1>4, <1>5, <1>6, <1>7

LEMMA MethodSymbol ==
    ASSUME NEW m \in DOMAIN Methods
    PROVE  m \in Symbols /\ m # CRLF /\ m # Space /\ m \notin Blank
BY DEF Symbols, Methods, CRLF, Space, Blank, Control

(* The first line as it is sent. *)
LEMMA FirstLineShape ==
    ASSUME NEW req \in Asked, NEW l, l = FirstLine(req), NEW u, u = Len(req.uri),
           NEW f, f = IF req.version = <<>> THEN u + 2 ELSE u + 4
    PROVE  /\ l \in Seq(Symbols) /\ Len(l) = f
           /\ l[1] = req.method
           /\ \A i \in 1..u : l[i + 1] = req.uri[i]
           /\ req.version # <<>> => l[u + 2] = Space /\ l[u + 3] = req.version[1]
           /\ l[f] = CRLF
           /\ \A i \in 1..(f - 1) : l[i] # CRLF
<1>. DEFINE m == <<req.method>>
            v == IF req.version = <<>> THEN <<>> ELSE <<Space>> \o req.version
            n == <<CRLF>>
            a == m \o req.uri
            b == a \o v
<1>1. /\ req.method \in Symbols /\ req.method # CRLF
      /\ req.uri \in Seq(Symbols) /\ u \in Nat \ {0}
      /\ \A i \in 1..u : req.uri[i] # CRLF
      /\ req.version \in Seq(Symbols) /\ Len(req.version) \in {0, 1}
      /\ \A i \in 1..Len(req.version) : req.version[i] # CRLF
      /\ Space # CRLF
  <2>1. CRLF \in Blank /\ Space # CRLF
    BY DEF CRLF, Blank, Control, Space
  <2>. QED  BY <2>1, AskedGiven, MethodSymbol
<1>2. m \in Seq(Symbols) /\ Len(m) = 1 /\ m[1] = req.method
  BY <1>1
<1>3. n \in Seq(Symbols) /\ Len(n) = 1 /\ n[1] = CRLF
  BY DEF Symbols
<1>4. /\ v \in Seq(Symbols)
      /\ Len(v) = IF req.version = <<>> THEN 0 ELSE 2
      /\ \A i \in 1..Len(v) : v[i] # CRLF
      /\ req.version # <<>> => v[1] = Space /\ v[2] = req.version[1]
  <2>1. CASE req.version = <<>>
    BY <2>1
  <2>2. CASE req.version # <<>>
    <3>. DEFINE s == <<Space>>
                w == s \o req.version
    <3>1. Len(req.version) = 1
      BY <1>1, <2>2
    <3>2. s \in Seq(Symbols) /\ Len(s) = 1 /\ s[1] = Space
      BY DEF Symbols
    <3>3. w = s \o req.version
      OBVIOUS
    <3>. HIDE DEF s, w
    <3>4. /\ w \in Seq(Symbols) /\ Len(w) = Len(s) + Len(req.version)
          /\ \A i \in 1..Len(s) : w[i] = s[i]
          /\ \A i \in 1..Len(req.version) : w[Len(s) + i] = req.version[i]
      <4>1. s \in Seq(Symbols) /\ req.version \in Seq(Symbols)
        BY <1>1, <3>2
      <4>. QED  BY <3>3, <4>1, ConcatAt
    <3>5. Len(w) = 2 /\ w[1] = Space /\ w[2] = req.version[1]
      BY <3>1, <3>2, <3>4
    <3>6. \A i \in 1..2 : w[i] # CRLF
      BY <1>1, <3>1, <3>5
    <3>7. v = w
      BY <2>2 DEF w, s
    <3>. HIDE DEF v
    <3>. QED  BY <2>2, <3>4, <3>5, <3>6, <3>7
  <2>. QED  BY <2>1, <2>2
<1>5. l = b \o n
  BY DEF FirstLine
<1>. DEFINE k == Len(v)
<1>. HIDE DEF m, v, n, k
<1>6. a = m \o req.uri /\ b = a \o v
  OBVIOUS
<1>. HIDE DEF a, b
<1>7. /\ a \in Seq(Symbols) /\ Len(a) = 1 + u
      /\ a[1] = req.method /\ \A i \in 1..u : a[1 + i] = req.uri[i]
  <2>1. /\ a \in Seq(Symbols) /\ Len(a) = Len(m) + Len(req.uri)
        /\ \A i \in 1..Len(m) : a[i] = m[i]
        /\ \A i \in 1..Len(req.uri) : a[Len(m) + i] = req.uri[i]
    <3>1. m \in Seq(Symbols) /\ req.uri \in Seq(Symbols) /\ a = m \o req.uri
      BY <1>1, <1>2, <1>6
    <3>. QED  BY <3>1, ConcatAt
  <2>. QED  BY <1>2, <2>1
<1>8. /\ b \in Seq(Symbols) /\ Len(b) = (1 + u) + k
      /\ \A i \in 1..(1 + u) : b[i] = a[i]
      /\ \A i \in 1..k : b[(1 + u) + i] = v[i]
  <2>1. /\ b \in Seq(Symbols) /\ Len(b) = Len(a) + Len(v)
        /\ \A i \in 1..Len(a) : b[i] = a[i]
        /\ \A i \in 1..Len(v) : b[Len(a) + i] = v[i]
    <3>1. a \in Seq(Symbols) /\ v \in Seq(Symbols) /\ b = a \o v
      BY <1>4, <1>6, <1>7
    <3>. QED  BY <3>1, ConcatAt
  <2>. QED  BY <1>7, <2>1 DEF k
<1>9. /\ l \in Seq(Symbols) /\ Len(l) = Len(b) + 1
      /\ \A i \in 1..Len(b) : l[i] = b[i]
      /\ l[Len(b) + 1] = CRLF
  <2>1. /\ l \in Seq(Symbols) /\ Len(l) = Len(b) + Len(n)
        /\ \A i \in 1..Len(b) : l[i] = b[i]
        /\ \A i \in 1..Len(n) : l[Len(b) + i] = n[i]
    <3>1. b \in Seq(Symbols) /\ n \in Seq(Symbols) /\ l = b \o n
      BY <1>3, <1>5, <1>8
    <3>. QED  BY <3>1, ConcatAt
  <2>2. 1 \in 1..Len(n)
    BY <1>3
  <2>. QED  BY <1>3, <2>1, <2>2
<1>10. /\ k \in {0, 2} /\ (k = 0 <=> req.version = <<>>)
       /\ f = u + 2 + k /\ Len(b) = f - 1 /\ f \in Nat
  <2>1. k = IF req.version = <<>> THEN 0 ELSE 2
    BY <1>4 DEF k
  <2>2. u \in Nat /\ Len(b) = (1 + u) + k
    BY <1>1, <1>8
  <2>3. CASE req.version = <<>>
    BY <2>1, <2>2, <2>3
  <2>4. CASE req.version # <<>>
    BY <2>1, <2>2, <2>4
  <2>. QED  BY <2>3, <2>4
<1>11. Len(l) = f /\ l[f] = CRLF
  BY <1>9, <1>10
<1>12. l[1] = req.method /\ \A i \in 1..u : l[i + 1] = req.uri[i]
  <2>1. 1 \in 1..(1 + u) /\ 1 \in 1..Len(b)
    BY <1>1, <1>10
  <2>2. ASSUME NEW i \in 1..u
        PROVE  l[i + 1] = req.uri[i]
    <3>1. 1 + i = i + 1 /\ i + 1 \in 1..(1 + u) /\ i + 1 \in 1..Len(b)
      BY <1>1, <1>10
    <3>. QED  BY <1>7, <1>8, <1>9, <3>1
  <2>. QED  BY <1>7, <1>8, <1>9, <2>1, <2>2
<1>13. req.version # <<>> => l[u + 2] = Space /\ l[u + 3] = req.version[1]
  <2>. SUFFICES ASSUME req.version # <<>>
                PROVE  l[u + 2] = Space /\ l[u + 3] = req.version[1]
    OBVIOUS
  <2>1. /\ k = 2 /\ (1 + u) + 1 = u + 2 /\ (1 + u) + 2 = u + 3
        /\ u + 2 \in 1..Len(b) /\ u + 3 \in 1..Len(b)
    BY <1>1, <1>10
  <2>2. b[(1 + u) + 1] = v[1] /\ b[(1 + u) + 2] = v[2]
    BY <1>8, <2>1
  <2>. QED  BY <1>4, <1>9, <2>1, <2>2
<1>14. ASSUME NEW i \in 1..(f - 1)
       PROVE  l[i] # CRLF
  <2>1. i \in 1..Len(b) /\ l[i] = b[i]
    BY <1>9, <1>10
  <2>2. \/ i = 1
        \/ i - 1 \in 1..u /\ 1 + (i - 1) = i
        \/ i - (1 + u) \in 1..k /\ (1 + u) + (i - (1 + u)) = i
    BY <1>1, <1>10
  <2>3. CASE i = 1
    <3>1. 1 \in 1..(1 + u)
      BY <1>1
    <3>. QED  BY <1>1, <1>7, <1>8, <2>1, <2>3, <3>1
  <2>4. CASE i - 1 \in 1..u /\ 1 + (i - 1) = i
    <3>1. i \in 1..(1 + u)
      BY <1>1, <2>4
    <3>2. a[i] = req.uri[i - 1]
      BY <1>7, <2>4
    <3>. QED  BY <1>1, <1>8, <2>1, <2>4, <3>1, <3>2
  <2>5. CASE i - (1 + u) \in 1..k /\ (1 + u) + (i - (1 + u)) = i
    <3>1. b[i] = v[i - (1 + u)]
      BY <1>8, <2>5
    <3>. QED  BY <1>4, <2>1, <2>5, <3>1 DEF k
  <2>. QED  BY <2>2, <2>3, <2>4, <2>5
<1>. QED  BY <1>9, <1>11, <1>12, <1>13, <1>14
-----------------------------------------------------------------------------
(* The text of a request. *)

(* A request as it is sent: the first line ends at f, and the empty line   *)
(* is at e.                                                                *)
Layout(t, req, f, e) ==
    LET hs == req.headers
        T == HeaderText(hs)
    IN  /\ t \in Seq(Symbols) /\ f \in Nat /\ f > 2 /\ e = f + Len(T[Len(hs)]) /\ Len(t) > e
        /\ f = Len(FirstLine(req)) /\ Len(T[Len(hs)]) \in Nat
        /\ \A i \in 1..f : t[i] = FirstLine(req)[i]
        /\ \A i \in 1..(f - 1) : t[i] # CRLF
        /\ t[f] = CRLF /\ t[e] = CRLF /\ t[e + 1] = CRLF
        /\ \A i \in 1..(e - 1) : ~ EmptyLineAt(t, i)
        /\ \A i \in 1..Len(T[Len(hs)]) : t[f + i] = T[Len(hs)][i]

LEMMA SentLaid ==
    ASSUME NEW req \in Asked, NEW f, f = Len(FirstLine(req)),
           NEW e, e = f + Len(HeaderText(req.headers)[Len(req.headers)])
    PROVE  Layout(Sent(req), req, f, e)
<1>. DEFINE hs == req.headers
            T == HeaderText(hs)
            l == FirstLine(req)
            s == T[Len(hs)]
            n == <<CRLF>>
            a == l \o s
            b == a \o n
            t == b \o req.body
            k == Len(s)
<1>1. /\ l \in Seq(Symbols) /\ f \in Nat /\ f > 2
      /\ \A i \in 1..(f - 1) : l[i] # CRLF
      /\ l[f] = CRLF /\ f = Len(l)
  <2>. DEFINE u == Len(req.uri)
              g == IF req.version = <<>> THEN u + 2 ELSE u + 4
  <2>1. u \in Nat \ {0}
    BY AskedGiven
  <2>. HIDE DEF u
  <2>2. g \in Nat /\ g > 2
    BY <2>1
  <2>. HIDE DEF g
  <2>3. l \in Seq(Symbols) /\ Len(l) = g /\ l[g] = CRLF /\ \A i \in 1..(g - 1) : l[i] # CRLF
    <3>1. l = FirstLine(req) /\ u = Len(req.uri)
      BY DEF u
    <3>2. g = IF req.version = <<>> THEN u + 2 ELSE u + 4
      BY DEF g
    <3>. HIDE DEF l
    <3>. QED  BY <3>1, <3>2, FirstLineShape
  <2>4. f = g
    BY <2>3
  <2>. QED  BY <2>2, <2>3, <2>4
<1>2. Tidy(l)
  <2>. HIDE DEF l
  <2>1. l[1] # CRLF /\ \A i \in 1..(f - 1) : l[i] = CRLF => l[i + 1] # CRLF
    <3>1. 1 \in 1..(f - 1)
      BY <1>1
    <3>. QED  BY <1>1, <3>1
  <2>. QED  BY <1>1, <2>1 DEF Tidy
<1>3. Tidy(s)
  <2>1. Len(hs) \in Nat /\ hs \in Seq(HeaderLines)
    BY AskedGiven
  <2>2. Len(hs) \in 0..Len(hs)
    BY <2>1
  <2>3. Laid(hs, T, Len(hs))
    BY <2>1, <2>2, HeadersLaid
  <2>. QED  BY <2>3 DEF Laid
<1>4. n \in Seq(Symbols) /\ Len(n) = 1 /\ n[1] = CRLF
  BY DEF Symbols
<1>5. req.body \in Seq(Symbols) /\ Len(req.body) \in Nat
  BY AskedGiven
<1>6. Sent(req) = t /\ f = Len(l) /\ e = f + k
  BY DEF Sent
<1>. HIDE DEF l, s, n, k, hs, T
<1>7. a = l \o s /\ b = a \o n /\ t = b \o req.body
  OBVIOUS
<1>. HIDE DEF a, b, t
<1>8. Tidy(a)
  BY <1>2, <1>3, <1>7, TidyJoined
<1>9. s \in Seq(Symbols) /\ k \in Nat /\ k = Len(s)
  BY <1>3 DEF Tidy, k
<1>10. /\ a \in Seq(Symbols) /\ Len(a) = f + k
       /\ \A i \in 1..f : a[i] = l[i]
       /\ \A i \in 1..k : a[f + i] = s[i]
  <2>1. l \in Seq(Symbols) /\ s \in Seq(Symbols) /\ a = l \o s
    BY <1>1, <1>7, <1>9
  <2>2. /\ a \in Seq(Symbols) /\ Len(a) = Len(l) + Len(s)
        /\ \A i \in 1..Len(l) : a[i] = l[i]
        /\ \A i \in 1..Len(s) : a[Len(l) + i] = s[i]
    BY <2>1, ConcatAt
  <2>. QED  BY <1>6, <1>9, <2>2
<1>11. /\ b \in Seq(Symbols) /\ Len(b) = e + 1
       /\ \A i \in 1..e : b[i] = a[i]
       /\ b[e + 1] = CRLF
  <2>1. a \in Seq(Symbols) /\ n \in Seq(Symbols) /\ b = a \o n
    BY <1>4, <1>7, <1>10
  <2>2. /\ b \in Seq(Symbols) /\ Len(b) = Len(a) + Len(n)
        /\ \A i \in 1..Len(a) : b[i] = a[i]
        /\ \A i \in 1..Len(n) : b[Len(a) + i] = n[i]
    BY <2>1, ConcatAt
  <2>3. Len(a) = e /\ 1 \in 1..Len(n)
    BY <1>4, <1>6, <1>10
  <2>. QED  BY <1>4, <2>2, <2>3
<1>12. /\ t \in Seq(Symbols) /\ Len(t) = (e + 1) + Len(req.body)
       /\ \A i \in 1..(e + 1) : t[i] = b[i]
  <2>1. b \in Seq(Symbols) /\ req.body \in Seq(Symbols) /\ t = b \o req.body
    BY <1>5, <1>7, <1>11
  <2>2. /\ t \in Seq(Symbols) /\ Len(t) = Len(b) + Len(req.body)
        /\ \A i \in 1..Len(b) : t[i] = b[i]
    BY <2>1, ConcatAt
  <2>. QED  BY <1>11, <2>2
<1>13. e \in Nat /\ e >= f /\ e = f + k /\ e > 0
  BY <1>1, <1>6, <1>9
<1>14. /\ \A i \in 1..f : t[i] = l[i]
       /\ \A i \in 1..(f - 1) : t[i] # CRLF
       /\ t[f] = CRLF
  <2>1. \A i \in 1..f : i \in 1..e /\ i \in 1..(e + 1)
    BY <1>1, <1>13
  <2>2. \A i \in 1..f : t[i] = l[i]
    BY <1>10, <1>11, <1>12, <2>1
  <2>3. f \in 1..f /\ \A i \in 1..(f - 1) : i \in 1..f
    BY <1>1
  <2>. QED  BY <1>1, <2>2, <2>3
<1>15. \A i \in 1..e : t[i] = a[i]
  <2>1. \A i \in 1..e : i \in 1..(e + 1)
    BY <1>13
  <2>. QED  BY <1>11, <1>12, <2>1
<1>16. t[e + 1] = CRLF /\ t[e] = CRLF
  <2>1. e \in 1..e /\ e + 1 \in 1..(e + 1) /\ Len(a) = e
    BY <1>6, <1>10, <1>13
  <2>. QED  BY <1>8, <1>11, <1>12, <1>13, <1>15, <2>1 DEF Tidy
<1>17. ASSUME NEW i \in 1..(e - 1)
       PROVE  ~ EmptyLineAt(t, i)
  <2>1. i \in 1..e /\ i + 1 \in 1..e /\ i \in 1..(Len(a) - 1)
    BY <1>6, <1>10, <1>13
  <2>. QED  BY <1>8, <1>15, <2>1 DEF Tidy, EmptyLineAt
<1>18. \A i \in 1..k : t[f + i] = s[i]
  <2>1. \A i \in 1..k : f + i \in 1..e
    BY <1>1, <1>9, <1>13
  <2>. QED  BY <1>10, <1>15, <2>1
<1>19. Len(t) > e
  <2>. DEFINE d == Len(req.body)
  <2>1. d \in Nat /\ Len(t) = (e + 1) + d
    BY <1>5, <1>12
  <2>. HIDE DEF d
  <2>. QED  BY <1>13, <2>1
<1>20. /\ t \in Seq(Symbols) /\ f \in Nat /\ f > 2 /\ e = f + k /\ Len(t) > e
       /\ f = Len(l) /\ k \in Nat
       /\ \A i \in 1..f : t[i] = l[i]
       /\ \A i \in 1..(f - 1) : t[i] # CRLF
       /\ t[f] = CRLF /\ t[e] = CRLF /\ t[e + 1] = CRLF
       /\ \A i \in 1..(e - 1) : ~ EmptyLineAt(t, i)
       /\ \A i \in 1..k : t[f + i] = s[i]
  <2>1. t \in Seq(Symbols) /\ f \in Nat /\ f > 2 /\ e = f + k /\ Len(t) > e /\ f = Len(l) /\ k \in Nat
    BY <1>1, <1>6, <1>9, <1>12, <1>19
  <2>. QED  BY <2>1, <1>14, <1>16, <1>17, <1>18
<1>21. Layout(t, req, f, e)
  BY <1>20, Zenon DEF Layout, l, s, k, hs, T
<1>. QED  BY <1>6, <1>21

(* Where the header lines begin, and what the lines of the request are.    *)
LEMMA ParsedFrom ==
    ASSUME NEW t, NEW req, NEW f, NEW e, Layout(t, req, f, e)
    PROVE  Parsed(t) = Headers(RequestLine(t), t, f + 1, e)
<1>. DEFINE ends == {i \in 1..Len(t) : EmptyLineAt(t, i)}
            first == CHOOSE i \in ends : \A j \in ends : i <= j
<1>1. /\ t \in Seq(Symbols) /\ Len(t) \in Nat /\ f \in Nat /\ f > 2 /\ e \in Nat
      /\ e >= f /\ Len(t) > e
      /\ \A i \in 1..(f - 1) : t[i] # CRLF
      /\ t[f] = CRLF /\ t[e] = CRLF /\ t[e + 1] = CRLF
      /\ \A i \in 1..(e - 1) : ~ EmptyLineAt(t, i)
  BY DEF Layout
<1>2. e \in ends
  BY <1>1 DEF EmptyLineAt
<1>3. ASSUME NEW j \in ends
      PROVE  e <= j /\ j \in Nat
  BY <1>1
<1>4. first = e
  <2>. HIDE DEF ends
  <2>1. \E i \in ends : \A j \in ends : i <= j
    BY <1>2, <1>3
  <2>2. first \in ends /\ \A j \in ends : first <= j
    BY <2>1
  <2>. HIDE DEF first
  <2>. QED  BY <1>1, <1>2, <1>3, <2>2
<1>5. Find(t, 1, {CRLF}) = f
  <2>1. 1 \in 1..(Len(t) + 1) /\ f \in 1..(Len(t) + 1)
    BY <1>1
  <2>2. \A i \in 1..(f - 1) : t[i] \notin {CRLF}
    BY <1>1
  <2>3. t[f] \in {CRLF}
    BY <1>1
  <2>4. t \in Seq(Symbols)
    BY <1>1
  <2>. QED  BY <2>1, <2>2, <2>3, <2>4, FindIs
<1>6. Parsed(t) = IF ends = {} THEN NoRequest
                  ELSE Headers(RequestLine(t), t, Find(t, 1, {CRLF}) + 1, first)
  BY Zenon DEF Parsed
<1>. HIDE DEF ends, first
<1>. QED  BY <1>2, <1>4, <1>5, <1>6
-----------------------------------------------------------------------------
(* The walk over the lines. *)

(* Where the k-th header line begins and where it ends. *)
LineStart(req, f, k) == f + Len(HeaderText(req.headers)[k - 1]) + 1
LineEnd(req, f, k) == f + Len(HeaderText(req.headers)[k])

(* The line at c that ends at d has this body. *)
LineOf(t, c, d, e, body) ==
    /\ c \in Nat /\ d \in Nat /\ c < d /\ d <= e
    /\ Find(t, c, {CRLF}) = d /\ SubSeq(t, c, d - 1) = body

LEMMA LineAt ==
    ASSUME NEW t, NEW req \in Asked, NEW f, NEW e, Layout(t, req, f, e),
           NEW k \in 1..Len(req.headers)
    PROVE  LineOf(t, LineStart(req, f, k), LineEnd(req, f, k), e, Body(req.headers[k]))
<1>. DEFINE c == LineStart(req, f, k)
            d == LineEnd(req, f, k)
            hs == req.headers
            T == HeaderText(hs)
            n == Len(hs)
            h == hs[k]
            b == Body(h)
            l == Line(h)
            m == Len(b)
            o == Len(T[k - 1])
            q == Len(T[n])
            g == c - 1
<1>1. n \in Nat /\ hs \in Seq(HeaderLines) /\ k \in 1..n
  BY AskedGiven
<1>2. h \in HeaderLines
  BY <1>1
<1>3. /\ l \in Seq(Symbols) /\ Len(l) = m + 1 /\ b \in Seq(Symbols)
      /\ \A i \in 1..m : l[i] = b[i] /\ b[i] # CRLF
      /\ l[m + 1] = CRLF /\ m \in Nat \ {0}
  BY <1>2, LineShape, BodyShape
<1>4. /\ t \in Seq(Symbols) /\ Len(t) \in Nat /\ f \in Nat /\ q \in Nat
      /\ e = f + q /\ Len(t) > e
      /\ \A i \in 1..q : t[f + i] = T[n][i]
  BY DEF Layout
<1>5. /\ o \in Nat /\ Len(T[k]) = o + Len(l) /\ Len(T[k]) <= q
      /\ \A j \in 1..Len(l) : T[n][o + j] = l[j]
  <2>1. n \in 0..n
    BY <1>1
  <2>2. Laid(hs, T, n)
    BY <1>1, <2>1, HeadersLaid
  <2>. QED  BY <1>1, <2>2 DEF Laid
<1>6. c = (f + o) + 1 /\ d = f + Len(T[k])
  <2>1. c = f + o + 1 /\ d = f + Len(T[k])
    BY Zenon DEF LineStart, LineEnd
  <2>. HIDE DEF o
  <2>. QED  BY <1>4, <1>5, <2>1
<1>. HIDE DEF hs, T, n, h, b, l, m, o, q, c, d
<1>a. /\ o \in Nat /\ m \in Nat /\ m > 0 /\ f \in Nat /\ q \in Nat
      /\ c = (f + o) + 1 /\ d = f + (o + (m + 1)) /\ o + (m + 1) <= q /\ e = f + q
  <2>1. m \in Nat /\ m > 0
    BY <1>3
  <2>2. Len(l) = m + 1 /\ Len(T[k]) = o + Len(l) /\ Len(T[k]) <= q
    BY <1>3, <1>5
  <2>3. o + (m + 1) <= q /\ d = f + (o + (m + 1))
    BY <1>6, <2>2
  <2>. QED  BY <1>4, <1>5, <1>6, <2>1, <2>3
<1>7. /\ g \in Nat /\ g = f + o /\ m \in Nat /\ m > 0 /\ f \in Nat /\ o \in Nat
      /\ c = g + 1 /\ d = (g + m) + 1 /\ d <= e /\ d \in Nat /\ e \in Nat
  BY <1>a
<1>. HIDE DEF g
<1>b. Len(t) \in Nat /\ Len(t) > e
  BY <1>4
<1>8. ASSUME NEW j \in 1..(m + 1)
      PROVE  t[g + j] = l[j]
  <2>1. o + j \in 1..q /\ f + (o + j) = g + j
    BY <1>3, <1>4, <1>5, <1>7
  <2>2. t[f + (o + j)] = T[n][o + j]
    BY <1>4, <2>1
  <2>3. T[n][o + j] = l[j]
    BY <1>3, <1>5
  <2>. QED  BY <2>1, <2>2, <2>3
<1>9. /\ \A j \in 1..m : t[g + j] = b[j] /\ t[g + j] # CRLF
      /\ t[d] = CRLF
  <2>1. \A j \in 1..m : j \in 1..(m + 1)
    BY <1>3
  <2>2. m + 1 \in 1..(m + 1) /\ g + (m + 1) = d
    BY <1>3, <1>7
  <2>. QED  BY <1>3, <1>8, <2>1, <2>2
<1>10. Find(t, c, {CRLF}) = d
  <2>1. c \in 1..(Len(t) + 1) /\ d \in c..(Len(t) + 1)
    BY <1>b, <1>7
  <2>2. ASSUME NEW i \in c..(d - 1)
        PROVE  t[i] \notin {CRLF}
    <3>1. i - g \in 1..m /\ g + (i - g) = i
      BY <1>7
    <3>. QED  BY <1>9, <3>1
  <2>3. t[d] \in {CRLF} /\ t \in Seq(Symbols)
    BY <1>4, <1>9
  <2>. QED  BY <2>1, <2>2, <2>3, FindIs
<1>11. SubSeq(t, c, d - 1) = b
  <2>. DEFINE z == d - 1
              s == SubSeq(t, c, z)
  <2>1. /\ c \in Int /\ z \in Int /\ c <= z /\ z - c + 1 = m
        /\ \A i \in c..z : i \in 1..Len(t)
        /\ \A i \in 1..m : c + i - 1 = g + i
    <3>1. c \in Int /\ z \in Int /\ c <= z /\ z - c + 1 = m
      BY <1>7
    <3>2. \A i \in c..z : i \in 1..Len(t)
      BY <1>b, <1>7
    <3>3. \A i \in 1..m : c + i - 1 = g + i
      BY <1>7
    <3>. QED  BY <3>1, <3>2, <3>3
  <2>2. \A i \in c..z : t[i] \in Symbols
    BY <1>4, <2>1
  <2>. HIDE DEF z
  <2>3. /\ s \in Seq(Symbols) /\ Len(s) = IF c <= z THEN z - c + 1 ELSE 0
        /\ \A i \in 1..(z - c + 1) : s[i] = t[c + i - 1]
    <3>1. c \in Int /\ z \in Int /\ \A i \in c..z : t[i] \in Symbols
      BY <2>1, <2>2
    <3>. QED  BY <3>1, SubSeqProperties
  <2>. HIDE DEF s
  <2>4. Len(s) = m /\ \A i \in 1..m : s[i] = b[i]
    BY <1>9, <2>1, <2>3
  <2>5. Len(b) = m /\ b \in Seq(Symbols)
    BY <1>3 DEF m
  <2>6. s = b
    BY <2>3, <2>4, <2>5, SeqEqual
  <2>. QED  BY <2>6 DEF s, z
<1>12. c \in Nat /\ d \in Nat /\ c < d /\ d <= e
  BY <1>7
<1>13. LineOf(t, c, d, e, b)
  BY <1>10, <1>11, <1>12 DEF LineOf
<1>. QED  BY <1>13 DEF b, h, hs, c, d

(* One turn of the loop over the lines. *)
Turn(t, r, p, L, i) ==
    IF i = 0 THEN [req |-> r, pos |-> p]
    ELSE [req |-> Header(L[i - 1].req, SubSeq(t, L[i - 1].pos, Find(t, L[i - 1].pos, {CRLF}) - 1)),
          pos |-> Find(t, L[i - 1].pos, {CRLF}) + 1]

LEMMA LinesTurn ==
    ASSUME NEW t \in Seq(Symbols), NEW r, NEW p
    PROVE  \A i \in 0..Len(t) : Lines(r, t, p)[i] = Turn(t, r, p, Lines(r, t, p), i)
<1>. DEFINE Loop == 0..Len(t)
            Walks(L, m) == /\ L = [i \in Loop |-> L[i]]
                           /\ \A i \in Loop : i < m => L[i] = Turn(t, r, p, L, i)
            Turns == {m \in Nat : \E L : Walks(L, m)}
<1>t. Len(t) \in Nat
  OBVIOUS
<1>1. 0 \in Turns
  <2>1. Walks([i \in Loop |-> 0], 0)
    BY <1>t
  <2>. QED  BY <2>1
<1>2. ASSUME NEW m \in Turns
      PROVE  m + 1 \in Turns
  <2>1. PICK L : Walks(L, m)
    OBVIOUS
  <2>. DEFINE M == [i \in Loop |-> Turn(t, r, p, L, i)]
  <2>2. \A i \in Loop : i < m => M[i] = L[i]
    BY <2>1
  <2>3. ASSUME NEW i \in Loop, i < m + 1
        PROVE  M[i] = Turn(t, r, p, M, i)
    <3>1. i = 0 \/ (i - 1 \in Loop /\ i - 1 < m)
      BY <1>t, <2>3
    <3>. HIDE DEF M
    <3>2. i = 0 \/ M[i - 1] = L[i - 1]
      BY <2>2, <3>1
    <3>3. Turn(t, r, p, L, i) = Turn(t, r, p, M, i)
      BY <3>2 DEF Turn
    <3>. QED  BY <3>3 DEF M
  <2>4. M = [i \in Loop |-> M[i]]
    OBVIOUS
  <2>. HIDE DEF M
  <2>5. Walks(M, m + 1)
    BY <2>3, <2>4
  <2>. QED  BY <2>5
<1>. HIDE DEF Turns
<1>3. Turns \in SUBSET Nat
  BY DEF Turns
<1>4. Len(t) + 1 \in Turns
  BY <1>t, <1>1, <1>2, <1>3, NatSetInduction
<1>5. PICK L : Walks(L, Len(t) + 1)
  BY <1>4 DEF Turns
<1>6. L = [i \in Loop |-> Turn(t, r, p, L, i)]
  <2>1. \A i \in Loop : L[i] = Turn(t, r, p, L, i)
    BY <1>t, <1>5
  <2>. QED  BY <1>5, <2>1
<1>7. Lines(r, t, p) = [i \in Loop |-> Turn(t, r, p, Lines(r, t, p), i)]
  <2>. HIDE DEF Walks
  <2>. QED  BY <1>6 DEF Lines, Turn
<1>. QED  BY <1>7
-----------------------------------------------------------------------------
(* What the header lines make of the fields. *)

(* A request with its fields in a hash. *)
Formed(r) ==
    /\ r = Request(r.fields, r.wild) /\ r.wild \in BOOLEAN
    /\ r.fields = [x \in DOMAIN r.fields |-> r.fields[x]]

LEMMA SetIs ==
    ASSUME NEW r, Formed(r), NEW key, NEW value, NEW s, s = Set(r, key, value)
    PROVE  /\ Formed(s) /\ s.wild = r.wild
           /\ DOMAIN s.fields = DOMAIN r.fields \cup {key}
           /\ s.fields[key] = value
           /\ \A x \in DOMAIN r.fields : x # key => s.fields[x] = r.fields[x]
<1>. DEFINE F == [x \in {key} \cup DOMAIN r.fields |-> IF x = key THEN value ELSE r.fields[x]]
<1>1. r = [fields |-> r.fields, wild |-> r.wild] /\ r.wild \in BOOLEAN
  BY DEF Formed, Request
<1>2. s = [fields |-> F, wild |-> r.wild]
  BY <1>1 DEF Set
<1>3. /\ F = [x \in DOMAIN F |-> F[x]] /\ DOMAIN F = DOMAIN r.fields \cup {key}
      /\ F[key] = value
      /\ \A x \in DOMAIN r.fields : x # key => F[x] = r.fields[x]
  OBVIOUS
<1>. HIDE DEF F
<1>4. s.fields = F /\ s.wild = r.wild
  BY <1>2
<1>. QED  BY <1>1, <1>2, <1>3, <1>4 DEF Formed, Request

LEMMA WildIs ==
    ASSUME NEW r, Formed(r), NEW s, s = [r EXCEPT !.wild = TRUE]
    PROVE  Formed(s) /\ s.wild = TRUE /\ s.fields = r.fields
<1>1. r = [fields |-> r.fields, wild |-> r.wild]
  BY DEF Formed, Request
<1>2. s = [fields |-> r.fields, wild |-> TRUE]
  BY <1>1
<1>. QED  BY <1>2 DEF Formed, Request

(* The first k header lines that have a value. *)
Valued(hs, k) == {i \in 1..k : hs[i].value # <<>>}

(* What the first k header lines make of the request r0. *)
Kept(r, r0, hs, k) ==
    /\ Formed(r)
    /\ r.wild <=> r0.wild \/ \E i \in 1..k : hs[i].value = <<>>
    /\ DOMAIN r.fields = DOMAIN r0.fields \cup {Name(hs[i]) : i \in Valued(hs, k)}
    /\ \A i \in Valued(hs, k) :
        (\A j \in Valued(hs, k) : j > i => Name(hs[j]) # Name(hs[i]))
            => r.fields[Name(hs[i])] = ValueRead(hs[i])
    /\ \A x \in DOMAIN r0.fields :
        (\A i \in Valued(hs, k) : Name(hs[i]) # x) => r.fields[x] = r0.fields[x]

LEMMA KeptEmpty ==
    ASSUME NEW r, NEW r0, NEW hs, NEW k \in Nat, Kept(r, r0, hs, k), hs[k + 1].value = <<>>,
           NEW s, s = [r EXCEPT !.wild = TRUE]
    PROVE  Kept(s, r0, hs, k + 1)
<1>. DEFINE n == k + 1
<1>1. 1..n = (1..k) \cup {n}
  OBVIOUS
<1>2. Formed(s) /\ s.wild = TRUE /\ s.fields = r.fields
  <2>1. Formed(r)
    BY DEF Kept
  <2>. QED  BY <2>1, WildIs
<1>3. Valued(hs, n) = Valued(hs, k)
  BY <1>1 DEF Valued
<1>4. \E i \in 1..n : hs[i].value = <<>>
  BY <1>1
<1>. HIDE DEF n
<1>5. Kept(s, r0, hs, n)
  BY <1>2, <1>3, <1>4 DEF Kept
<1>. QED  BY <1>5 DEF n

LEMMA KeptValue ==
    ASSUME NEW r, NEW r0, NEW hs, NEW k \in Nat, Kept(r, r0, hs, k), hs[k + 1].value # <<>>,
           NEW key, key = Name(hs[k + 1]), NEW value, value = ValueRead(hs[k + 1]),
           NEW s, s = Set(r, key, value)
    PROVE  Kept(s, r0, hs, k + 1)
<1>. DEFINE n == k + 1
            V == Valued(hs, k)
            W == Valued(hs, n)
<1>1. 1..n = (1..k) \cup {n} /\ n \notin 1..k /\ ~ (n > n)
  OBVIOUS
<1>2. \A i \in V : i \in 1..k /\ n > i /\ ~ (i > n)
  BY DEF Valued
<1>3. /\ Formed(r)
      /\ r.wild <=> r0.wild \/ \E i \in 1..k : hs[i].value = <<>>
      /\ DOMAIN r.fields = DOMAIN r0.fields \cup {Name(hs[i]) : i \in V}
      /\ \A i \in V :
            (\A j \in V : j > i => Name(hs[j]) # Name(hs[i]))
                => r.fields[Name(hs[i])] = ValueRead(hs[i])
      /\ \A x \in DOMAIN r0.fields :
            (\A i \in V : Name(hs[i]) # x) => r.fields[x] = r0.fields[x]
  BY DEF Kept
<1>4. /\ Formed(s) /\ s.wild = r.wild
      /\ DOMAIN s.fields = DOMAIN r.fields \cup {key}
      /\ s.fields[key] = value
      /\ \A x \in DOMAIN r.fields : x # key => s.fields[x] = r.fields[x]
  <2>1. Formed(r)
    BY <1>3
  <2>. QED  BY <2>1, SetIs
<1>5. W = V \cup {n} /\ key = Name(hs[n]) /\ value = ValueRead(hs[n])
  BY <1>1 DEF Valued
<1>6. (\E i \in 1..n : hs[i].value = <<>>) <=> (\E i \in 1..k : hs[i].value = <<>>)
  BY <1>1
<1>. HIDE DEF n, V, W
<1>7. s.wild <=> r0.wild \/ \E i \in 1..n : hs[i].value = <<>>
  BY <1>3, <1>4, <1>6
<1>8. DOMAIN s.fields = DOMAIN r0.fields \cup {Name(hs[i]) : i \in W}
  <2>1. {Name(hs[i]) : i \in W} = {Name(hs[i]) : i \in V} \cup {key}
    BY <1>5
  <2>. QED  BY <1>3, <1>4, <2>1
<1>9. ASSUME NEW i \in W, \A j \in W : j > i => Name(hs[j]) # Name(hs[i])
      PROVE  s.fields[Name(hs[i])] = ValueRead(hs[i])
  <2>1. CASE i = n
    BY <1>4, <1>5, <2>1
  <2>2. CASE i \in V
    <3>1. Name(hs[i]) # key
      BY <1>2, <1>5, <1>9, <2>2
    <3>2. \A j \in V : j > i => Name(hs[j]) # Name(hs[i])
      BY <1>5, <1>9
    <3>3. Name(hs[i]) \in DOMAIN r.fields
      BY <1>3, <2>2
    <3>. QED  BY <1>3, <1>4, <2>2, <3>1, <3>2, <3>3
  <2>. QED  BY <1>5, <2>1, <2>2
<1>10. ASSUME NEW x \in DOMAIN r0.fields, \A i \in W : Name(hs[i]) # x
       PROVE  s.fields[x] = r0.fields[x]
  <2>1. x # key /\ \A i \in V : Name(hs[i]) # x
    BY <1>5, <1>10
  <2>2. x \in DOMAIN r.fields
    BY <1>3
  <2>. QED  BY <1>3, <1>4, <2>1, <2>2
<1>11. Kept(s, r0, hs, n)
  BY <1>4, <1>7, <1>8, <1>9, <1>10 DEF Kept, W
<1>. QED  BY <1>11 DEF n

LEMMA HeaderNone == ASSUME NEW r PROVE Header(r, <<>>) = r
<1>. DEFINE start == Find(<<>>, 1, Visible(<<>>))
            end == Find(<<>>, start, Blank \cup {KeyEnd})
<1>1. <<>> \in Seq(Symbols) /\ Len(<<>>) = 0 /\ 1 \in 1..(Len(<<>>) + 1)
  OBVIOUS
<1>2. start \in 1..(0 + 1)
  BY <1>1, FindFinds
<1>3. start = 1
  BY <1>2
<1>. HIDE DEF start
<1>4. end \in 1..(0 + 1)
  BY <1>1, <1>3, FindFinds
<1>5. end > Len(<<>>)
  BY <1>1, <1>4
<1>. QED  BY <1>5 DEF Header, start, end

(* The walk over the lines, each of which is read on its own. *)
LEMMA HeadersKept ==
    ASSUME NEW t, NEW req \in Asked, NEW f, NEW e, Layout(t, req, f, e), NEW r0, Formed(r0)
    PROVE  Kept(Headers(r0, t, f + 1, e), r0, req.headers, Len(req.headers))
<1>. DEFINE hs == req.headers
            n == Len(hs)
            T == HeaderText(hs)
            p == f + 1
            L == Lines(r0, t, p)
            Begin(k) == LineStart(req, f, k + 1)
            Turns == {k \in Nat : k <= n => L[k].pos = Begin(k) /\ Kept(L[k].req, r0, hs, k)}
<1>1. n \in Nat /\ hs \in Seq(HeaderLines)
  BY AskedGiven
<1>2. /\ t \in Seq(Symbols) /\ Len(t) \in Nat /\ f \in Nat /\ f > 2
      /\ Len(T[n]) \in Nat /\ e = f + Len(T[n]) /\ e \in Nat /\ Len(t) > e
      /\ t[e + 1] = CRLF
  BY DEF Layout
<1>3. n <= Len(T[n]) /\ T[0] = <<>> /\ Len(T[0]) = 0
  <2>1. n \in 0..n
    BY <1>1
  <2>2. Laid(hs, T, n) /\ T[0] = <<>>
    BY <1>1, <2>1, HeadersLaid
  <2>. QED  BY <2>2 DEF Laid
<1>4. n < Len(t)
  <2>. DEFINE a == Len(T[n])
              b == Len(t)
  <2>1. a \in Nat /\ b \in Nat /\ n <= a /\ e = f + a /\ b > e
    BY <1>2, <1>3
  <2>. HIDE DEF a, b, n
  <2>2. n \in Nat
    BY <1>1 DEF n
  <2>3. n < b
    BY <1>2, <2>1, <2>2
  <2>. QED  BY <2>3 DEF b
<1>5. \A i \in 0..Len(t) : L[i] = Turn(t, r0, p, L, i)
  BY <1>2, LinesTurn
<1>6. L[0] = [req |-> r0, pos |-> p]
  <2>1. 0 \in 0..Len(t)
    BY <1>2
  <2>2. Turn(t, r0, p, L, 0) = [req |-> r0, pos |-> p]
    BY Zenon DEF Turn
  <2>. QED  BY <1>5, <2>1, <2>2
<1>7. ASSUME NEW k \in Nat, k + 1 \in 1..Len(t)
      PROVE  /\ L[k + 1].req =
                    Header(L[k].req, SubSeq(t, L[k].pos, Find(t, L[k].pos, {CRLF}) - 1))
             /\ L[k + 1].pos = Find(t, L[k].pos, {CRLF}) + 1
  <2>1. k + 1 \in 0..Len(t) /\ k + 1 # 0 /\ (k + 1) - 1 = k
    BY <1>7
  <2>2. L[k + 1] = Turn(t, r0, p, L, k + 1)
    BY <1>5, <2>1
  <2>. HIDE DEF L
  <2>. QED  BY <2>1, <2>2 DEF Turn
<1>l. \A k \in 1..n : LineOf(t, LineStart(req, f, k), LineEnd(req, f, k), e, Body(hs[k]))
  BY LineAt
<1>m. LineStart(req, f, 1) = f + 1 /\ LineStart(req, f, n + 1) = e + 1
  <2>1. n + 1 - 1 = n /\ 1 - 1 = 0
    BY <1>1
  <2>2. LineStart(req, f, 1) = f + Len(T[0]) + 1 /\ LineStart(req, f, n + 1) = f + Len(T[n]) + 1
    BY <2>1 DEF LineStart
  <2>. DEFINE a == Len(T[n])
  <2>. HIDE DEF a
  <2>. QED  BY <1>2, <1>3, <2>2 DEF a
<1>n. ASSUME NEW j \in Nat
      PROVE  LineStart(req, f, j + 1) = LineEnd(req, f, j) + 1
  <2>1. (j + 1) - 1 = j
    OBVIOUS
  <2>. QED  BY <2>1 DEF LineStart, LineEnd
<1>o. \A k \in 1..n : hs[k] \in HeaderLines
  BY <1>1
<1>. HIDE DEF L, T, n, hs
<1>8. 0 \in Turns
  <2>1. L[0].pos = Begin(0)
    <3>1. 0 + 1 = 1
      OBVIOUS
    <3>. QED  BY <1>6, <1>m, <3>1
  <2>2. Kept(r0, r0, hs, 0)
    <3>1. Valued(hs, 0) = {} /\ ~ \E i \in 1..0 : hs[i].value = <<>>
      BY DEF Valued
    <3>. QED  BY <3>1 DEF Kept
  <2>3. L[0].req = r0
    BY <1>6
  <2>. HIDE DEF Begin
  <2>. QED  BY <2>1, <2>2, <2>3
<1>9. ASSUME NEW j \in Turns, j + 1 <= n
      PROVE  L[j + 1].pos = Begin(j + 1) /\ Kept(L[j + 1].req, r0, hs, j + 1)
  <2>. DEFINE k == j + 1
              c == LineStart(req, f, k)
              d == LineEnd(req, f, k)
  <2>1. j \in Nat /\ j <= n /\ k \in 1..n /\ k - 1 = j /\ k \in 1..Len(t) /\ k \in Nat
    BY <1>1, <1>2, <1>4, <1>9
  <2>2. L[j].pos = c /\ Kept(L[j].req, r0, hs, j)
    BY <2>1
  <2>. HIDE DEF k
  <2>3. c = LineStart(req, f, k) /\ d = LineEnd(req, f, k)
    OBVIOUS
  <2>. HIDE DEF c, d
  <2>5. c \in Nat /\ d \in Nat /\ Find(t, c, {CRLF}) = d /\ SubSeq(t, c, d - 1) = Body(hs[k])
    BY <1>l, <2>1 DEF LineOf, c, d
  <2>6. L[k].req = Header(L[j].req, Body(hs[k])) /\ L[k].pos = d + 1
    <3>1. /\ L[k].req = Header(L[j].req, SubSeq(t, L[j].pos, Find(t, L[j].pos, {CRLF}) - 1))
          /\ L[k].pos = Find(t, L[j].pos, {CRLF}) + 1
      BY <1>7, <2>1 DEF k
    <3>. QED  BY <2>2, <2>5, <3>1
  <2>7. L[k].pos = Begin(k)
    <3>1. LineStart(req, f, k + 1) = LineEnd(req, f, k) + 1
      BY <1>n, <2>1
    <3>2. LineStart(req, f, k + 1) = d + 1
      BY <3>1 DEF d
    <3>. QED  BY <2>6, <3>2
  <2>8. hs[k] \in HeaderLines
    BY <1>o, <2>1
  <2>k. k = j + 1
    BY DEF k
  <2>9. Kept(L[k].req, r0, hs, k)
    <3>. DEFINE r == L[j].req
                h == hs[k]
                s == L[k].req
    <3>1. Kept(r, r0, hs, j) /\ h = hs[j + 1]
      BY <2>2, <2>k
    <3>2. s = Header(r, Body(h)) /\ h \in HeaderLines
      BY <2>6, <2>8
    <3>. HIDE DEF r, h, s
    <3>3. CASE h.value = <<>>
      <4>1. s = [r EXCEPT !.wild = TRUE]
        BY <3>2, <3>3, HeaderReads
      <4>2. Kept(s, r0, hs, j + 1)
        BY <2>1, <3>1, <3>3, <4>1, KeptEmpty
      <4>. QED  BY <2>k, <4>2 DEF s
    <3>4. CASE h.value # <<>>
      <4>. DEFINE key == Name(h)
                  value == ValueRead(h)
      <4>1. s = Set(r, key, value)
        BY <3>2, <3>4, HeaderReads
      <4>2. key = Name(hs[j + 1]) /\ value = ValueRead(hs[j + 1]) /\ hs[j + 1].value # <<>>
        BY <3>1, <3>4
      <4>. HIDE DEF key, value
      <4>3. Kept(s, r0, hs, j + 1)
        BY <2>1, <3>1, <4>1, <4>2, KeptValue
      <4>. QED  BY <2>k, <4>3 DEF s
    <3>. QED  BY <3>3, <3>4
  <2>. QED  BY <2>7, <2>9, <2>k
<1>10. \A j \in Turns : j + 1 \in Turns
  BY <1>9
<1>. HIDE DEF Turns
<1>11. Turns \in SUBSET Nat
  BY DEF Turns
<1>12. Turns = Nat
  BY <1>8, <1>10, <1>11, NatSetInduction
<1>13. \A k \in 0..n : L[k].pos = Begin(k) /\ Kept(L[k].req, r0, hs, k)
  BY <1>1, <1>12 DEF Turns
<1>14. Headers(r0, t, p, e) = L[n].req
  <2>. DEFINE Walked(k) == L[k].pos >= e /\ \A m \in 1..(k - 1) : L[m].pos < e
              end == CHOOSE k \in 1..Len(t) : Walked(k)
  <2>1. Headers(r0, t, p, e) = L[end].req
    BY Zenon DEF Headers, L
  <2>2. CASE n = 0
    <3>1. L[0].pos = e + 1 /\ L[0].req = r0
      BY <1>2, <1>3, <1>6, <2>2
    <3>2. 1 \in 1..Len(t)
      BY <1>2
    <3>3. Find(t, e + 1, {CRLF}) = e + 1
      <4>. DEFINE q == e + 1
      <4>1. q \in 1..(Len(t) + 1) /\ q \in q..(Len(t) + 1) /\ \A i \in q..(q - 1) : t[i] \notin {CRLF}
        BY <1>2
      <4>2. t[q] \in {CRLF} /\ t \in Seq(Symbols)
        BY <1>2
      <4>. HIDE DEF q
      <4>3. Find(t, q, {CRLF}) = q
        BY <4>1, <4>2, FindIs
      <4>. QED  BY <4>3 DEF q
    <3>4. SubSeq(t, e + 1, (e + 1) - 1) = <<>>
      <4>1. e + 1 \in Int /\ (e + 1) - 1 \in Int /\ ~ (e + 1 <= (e + 1) - 1)
        BY <1>2
      <4>. QED  BY <1>2, <4>1
    <3>5. L[1].req = Header(r0, <<>>) /\ L[1].pos = (e + 1) + 1
      <4>. DEFINE q == e + 1
      <4>1. q = L[0].pos /\ q = Find(t, q, {CRLF}) /\ SubSeq(t, q, q - 1) = <<>> /\ L[0].req = r0
        BY <3>1, <3>3, <3>4
      <4>. HIDE DEF q
      <4>2. /\ L[1].req = Header(L[0].req, SubSeq(t, L[0].pos, Find(t, L[0].pos, {CRLF}) - 1))
            /\ L[1].pos = Find(t, L[0].pos, {CRLF}) + 1
        <5>1. 0 \in Nat /\ 0 + 1 = 1
          OBVIOUS
        <5>. QED  BY <1>7, <3>2, <5>1
      <4>3. L[1].req = Header(r0, <<>>) /\ L[1].pos = q + 1
        BY <4>1, <4>2
      <4>. QED  BY <4>3 DEF q
    <3>6. Header(r0, <<>>) = r0
      BY HeaderNone
    <3>7. Walked(1)
      <4>1. (e + 1) + 1 >= e /\ \A m \in 1..(1 - 1) : FALSE
        BY <1>2
      <4>. QED  BY <3>5, <4>1
    <3>8. end \in 1..Len(t) /\ Walked(end)
      BY <3>2, <3>7
    <3>9. end = 1
      <4>. HIDE DEF end
      <4>1. (e + 1) + 1 >= e /\ ~ ((e + 1) + 1 < e)
        BY <1>2
      <4>2. ~ (L[1].pos < e)
        BY <3>5, <4>1
      <4>3. end # 1 => 1 \in 1..(end - 1)
        BY <3>8
      <4>4. end # 1 => L[1].pos < e
        BY <3>8, <4>3
      <4>. QED  BY <4>2, <4>4
    <3>. HIDE DEF end
    <3>. QED  BY <2>1, <2>2, <3>1, <3>5, <3>6, <3>9
  <2>3. CASE n > 0
    <3>1. n \in 1..Len(t)
      BY <1>1, <1>2, <1>4, <2>3
    <3>2. L[n].pos = e + 1
      <4>1. n \in 0..n
        BY <1>1
      <4>2. L[n].pos = Begin(n)
        BY <1>13, <4>1
      <4>. QED  BY <1>m, <4>2
    <3>3. ASSUME NEW m \in 1..(n - 1)
          PROVE  L[m].pos < e /\ L[m].pos \in Nat
      <4>. DEFINE k == m + 1
                  c == LineStart(req, f, k)
                  d == LineEnd(req, f, k)
      <4>1. m \in 0..n /\ k \in 1..n
        BY <1>1
      <4>2. L[m].pos = c
        BY <1>13, <4>1
      <4>. HIDE DEF k
      <4>3. c = LineStart(req, f, k) /\ d = LineEnd(req, f, k)
        OBVIOUS
      <4>. HIDE DEF c, d
      <4>5. c \in Nat /\ d \in Nat /\ c < d /\ d <= e
        BY <1>l, <4>1 DEF LineOf, c, d
      <4>. QED  BY <1>2, <4>2, <4>5
    <3>4. Walked(n)
      BY <1>2, <3>2, <3>3
    <3>5. end \in 1..Len(t) /\ Walked(end)
      BY <3>1, <3>4
    <3>6. end = n
      <4>. HIDE DEF end, n
      <4>1. end \in Nat /\ n \in Nat /\ n > 0 /\ end > 0
        BY <2>3, <3>1, <3>5
      <4>2. end < n => end \in 1..(n - 1)
        BY <4>1
      <4>3. n < end => n \in 1..(end - 1)
        BY <4>1
      <4>4. L[n].pos >= e /\ L[n].pos \in Nat
        BY <1>2, <3>2
      <4>5. ~ (L[n].pos < e)
        BY <1>2, <4>4
      <4>6. ~ (n < end)
        BY <3>5, <4>3, <4>5
      <4>7. ~ (end < n)
        <5>. SUFFICES ASSUME end < n
                      PROVE  FALSE
          OBVIOUS
        <5>1. end \in 1..(n - 1)
          BY <4>2
        <5>2. L[end].pos < e /\ L[end].pos \in Nat
          BY <3>3, <5>1
        <5>. QED  BY <1>2, <3>5, <5>2
      <4>. QED  BY <4>1, <4>6, <4>7
    <3>. QED  BY <2>1, <3>6
  <2>. QED  BY <1>1, <2>2, <2>3
<1>15. n \in 0..n
  BY <1>1
<1>16. Kept(L[n].req, r0, hs, n)
  BY <1>13, <1>15
<1>. QED  BY <1>14, <1>16 DEF hs, n
-----------------------------------------------------------------------------
(* What is read of the first line. *)

LEMMA NamesDiffer == METHOD # REQUEST_URI /\ METHOD # VERSION /\ REQUEST_URI # VERSION
BY DEF METHOD, REQUEST_URI, VERSION

LEMMA NothingFormed == Formed(NoRequest) /\ NoRequest.wild = FALSE /\ DOMAIN NoRequest.fields = {}
<1>1. <<>> = [x \in DOMAIN <<>> |-> <<>>[x]] /\ DOMAIN <<>> = {}
  OBVIOUS
<1>2. NoRequest.fields = <<>> /\ NoRequest.wild = FALSE
  BY DEF NoRequest, Request
<1>. QED  BY <1>1, <1>2 DEF Formed, NoRequest

OptionsPiece == "OPTIONS "

(* What follows the method, and what is read of it. *)
AfterMethod(t) == IF Head(t) = OptionsPiece THEN Chopped(Tail(t)) ELSE Tail(t)

FieldsAt(u, v, start, end) ==
    LET method == Set(NoRequest, METHOD, <<v>>)
        uri == IF end > Len(u) THEN method ELSE Set(method, REQUEST_URI, SubSeq(u, start, end - 1))
        rest == SubSeq(u, end, Len(u))
        at == Find(rest, 1, Visible(rest))
    IN  IF at > Len(rest)
        THEN [Set(uri, VERSION, IF end > Len(u) THEN METHOD ELSE REQUEST_URI) EXCEPT !.wild = TRUE]
        ELSE Set(uri, VERSION, <<VersionOf(rest[at])>>)

FieldsOf(u, v) ==
    FieldsAt(u, v, Find(u, 1, Visible(u)), Find(u, Find(u, 1, Visible(u)), Blank))

LEMMA FieldsAfter ==
    ASSUME NEW t, t # <<>>, Head(t) \in DOMAIN Methods
    PROVE  RequestLine(t) = FieldsOf(AfterMethod(t), Methods[Head(t)])
BY Zenon DEF RequestLine, FieldsOf, FieldsAt, AfterMethod, OptionsPiece

(* A URI that begins at start and ends before end, and what follows. *)
UriAt(u, start, end) ==
    /\ u \in Seq(Symbols) /\ start \in 1..Len(u) /\ end \in start..Len(u)
    /\ \A i \in 1..(start - 1) : u[i] \in Blank
    /\ \A i \in start..(end - 1) : u[i] \notin Blank
    /\ u[start] \notin Blank /\ u[end] \in Blank

UriIn(r, v, u, start, end) ==
    /\ Formed(r) /\ DOMAIN r.fields = {METHOD, REQUEST_URI, VERSION}
    /\ r.fields[METHOD] = <<v>>
    /\ r.fields[REQUEST_URI] = SubSeq(u, start, end - 1)
    /\ end < Len(u) /\ u[end + 1] \notin Blank =>
        r.wild = FALSE /\ r.fields[VERSION] = <<VersionOf(u[end + 1])>>

LEMMA UriRead ==
    ASSUME NEW v, NEW u, NEW start, NEW end, UriAt(u, start, end)
    PROVE  UriIn(FieldsOf(u, v), v, u, start, end)
<1>. DEFINE r == FieldsOf(u, v)
            value == SubSeq(u, start, end - 1)
            rest == SubSeq(u, end, Len(u))
            at == Find(rest, 1, Visible(rest))
            m == Set(NoRequest, METHOD, <<v>>)
            q == Set(m, REQUEST_URI, value)
            w == Set(q, VERSION, REQUEST_URI)
            x == Set(q, VERSION, <<VersionOf(rest[at])>>)
<1>g. /\ u \in Seq(Symbols) /\ start \in 1..Len(u) /\ end \in start..Len(u)
      /\ \A i \in 1..(start - 1) : u[i] \in Blank
      /\ \A i \in start..(end - 1) : u[i] \notin Blank
      /\ u[start] \notin Blank /\ u[end] \in Blank
  BY DEF UriAt
<1>1. Len(u) \in Nat
  BY <1>g
<1>2. Find(u, 1, Visible(u)) = start
  <2>1. \A i \in 1..Len(u) : u[i] \in Visible(u) <=> u[i] \notin Blank
    BY DEF Visible
  <2>2. 1 \in 1..(Len(u) + 1) /\ start \in 1..(Len(u) + 1) /\ \A i \in 1..(start - 1) : i \in 1..Len(u)
    BY <1>1, <1>g
  <2>3. \A i \in 1..(start - 1) : u[i] \notin Visible(u)
    BY <1>g, <2>1, <2>2
  <2>4. u[start] \in Visible(u)
    BY <1>g, <2>1
  <2>. QED  BY <1>g, <2>2, <2>3, <2>4, FindIs
<1>3. Find(u, start, Blank) = end
  <2>1. start \in 1..(Len(u) + 1) /\ end \in start..(Len(u) + 1)
    BY <1>1, <1>g
  <2>. QED  BY <1>g, <2>1, FindIs
<1>4. r = IF at > Len(rest) THEN [w EXCEPT !.wild = TRUE] ELSE x
  <2>1. ~ (end > Len(u))
    BY <1>1, <1>g
  <2>2. r = FieldsAt(u, v, start, end)
    BY <1>2, <1>3, Zenon DEF FieldsOf
  <2>. HIDE DEF r
  <2>. QED  BY <2>1, <2>2, Zenon DEF FieldsAt
<1>. HIDE DEF r, value
<1>5. /\ Formed(m) /\ m.wild = FALSE /\ DOMAIN m.fields = {METHOD} /\ m.fields[METHOD] = <<v>>
  <2>. DEFINE z == <<v>>
  <2>1. m = Set(NoRequest, METHOD, z)
    OBVIOUS
  <2>. HIDE DEF z, m
  <2>2. /\ Formed(m) /\ m.wild = NoRequest.wild
        /\ DOMAIN m.fields = DOMAIN NoRequest.fields \cup {METHOD} /\ m.fields[METHOD] = z
    BY <2>1, NothingFormed, SetIs
  <2>. QED  BY <2>2, NothingFormed DEF z
<1>. HIDE DEF m
<1>6. /\ Formed(q) /\ q.wild = FALSE /\ DOMAIN q.fields = {METHOD, REQUEST_URI}
      /\ q.fields[METHOD] = <<v>> /\ q.fields[REQUEST_URI] = value
  <2>1. q = Set(m, REQUEST_URI, value) /\ Formed(m)
    BY <1>5
  <2>. HIDE DEF q
  <2>2. /\ Formed(q) /\ q.wild = m.wild
        /\ DOMAIN q.fields = DOMAIN m.fields \cup {REQUEST_URI} /\ q.fields[REQUEST_URI] = value
        /\ \A y \in DOMAIN m.fields : y # REQUEST_URI => q.fields[y] = m.fields[y]
    BY <2>1, SetIs
  <2>. QED  BY <1>5, <2>2, NamesDiffer
<1>. HIDE DEF q
<1>7. ASSUME NEW y, NEW s, s = Set(q, VERSION, y)
      PROVE  /\ Formed(s) /\ s.wild = FALSE /\ DOMAIN s.fields = {METHOD, REQUEST_URI, VERSION}
             /\ s.fields[METHOD] = <<v>> /\ s.fields[REQUEST_URI] = value /\ s.fields[VERSION] = y
  <2>1. Formed(q)
    BY <1>6
  <2>2. /\ Formed(s) /\ s.wild = q.wild
        /\ DOMAIN s.fields = DOMAIN q.fields \cup {VERSION} /\ s.fields[VERSION] = y
        /\ \A n \in DOMAIN q.fields : n # VERSION => s.fields[n] = q.fields[n]
    BY <1>7, <2>1, SetIs
  <2>. QED  BY <1>6, <2>2, NamesDiffer
<1>8. /\ Formed(w) /\ DOMAIN w.fields = {METHOD, REQUEST_URI, VERSION}
      /\ w.fields[METHOD] = <<v>> /\ w.fields[REQUEST_URI] = value
  <2>1. w = Set(q, VERSION, REQUEST_URI)
    OBVIOUS
  <2>. HIDE DEF w
  <2>. QED  BY <1>7, <2>1
<1>9. /\ Formed(x) /\ x.wild = FALSE /\ DOMAIN x.fields = {METHOD, REQUEST_URI, VERSION}
      /\ x.fields[METHOD] = <<v>> /\ x.fields[REQUEST_URI] = value
      /\ x.fields[VERSION] = <<VersionOf(rest[at])>>
  <2>. DEFINE y == <<VersionOf(rest[at])>>
  <2>1. x = Set(q, VERSION, y)
    OBVIOUS
  <2>. HIDE DEF x, y
  <2>2. /\ Formed(x) /\ x.wild = FALSE /\ DOMAIN x.fields = {METHOD, REQUEST_URI, VERSION}
        /\ x.fields[METHOD] = <<v>> /\ x.fields[REQUEST_URI] = value /\ x.fields[VERSION] = y
    BY <1>7, <2>1
  <2>. QED  BY <2>2 DEF y
<1>. HIDE DEF w, x
<1>10. /\ Formed(r) /\ DOMAIN r.fields = {METHOD, REQUEST_URI, VERSION}
       /\ r.fields[METHOD] = <<v>> /\ r.fields[REQUEST_URI] = value
  <2>1. CASE at > Len(rest)
    <3>1. r = [w EXCEPT !.wild = TRUE] /\ Formed(w)
      BY <1>4, <1>8, <2>1
    <3>2. Formed(r) /\ r.fields = w.fields
      BY <3>1, WildIs
    <3>. QED  BY <1>8, <3>2
  <2>2. CASE ~ (at > Len(rest))
    BY <1>4, <1>9, <2>2
  <2>. QED  BY <1>g, <2>1, <2>2
<1>11. ASSUME end < Len(u), u[end + 1] \notin Blank
       PROVE  r.wild = FALSE /\ r.fields[VERSION] = <<VersionOf(u[end + 1])>>
  <2>. DEFINE k == Len(u)
  <2>1. k \in Nat /\ end \in Nat /\ end + 1 <= k /\ end > 0
    BY <1>1, <1>11, <1>g
  <2>2. \A i \in end..k : u[i] \in Symbols
    BY <1>g, <2>1
  <2>3. /\ rest \in Seq(Symbols) /\ Len(rest) = k - end + 1
        /\ \A i \in 1..(k - end + 1) : rest[i] = u[end + i - 1]
    <3>1. rest = SubSeq(u, end, k) /\ end \in Int /\ k \in Int /\ end <= k
      BY <2>1
    <3>. HIDE DEF rest, k
    <3>2. /\ SubSeq(u, end, k) \in Seq(Symbols)
          /\ Len(SubSeq(u, end, k)) = IF end <= k THEN k - end + 1 ELSE 0
          /\ \A i \in 1..(k - end + 1) : SubSeq(u, end, k)[i] = u[end + i - 1]
      BY <1>g, <2>2, <3>1, SubSeqProperties
    <3>. QED  BY <3>1, <3>2
  <2>. HIDE DEF rest, k
  <2>4. /\ 1 \in 1..(k - end + 1) /\ 2 \in 1..(k - end + 1)
        /\ end + 1 - 1 = end /\ end + 2 - 1 = end + 1
    BY <2>1
  <2>5. /\ rest[1] = u[end] /\ rest[2] = u[end + 1]
        /\ 1 \in 1..Len(rest) /\ 2 \in 1..Len(rest) /\ Len(rest) \in Nat
    BY <2>1, <2>3, <2>4
  <2>6. rest[1] \notin Visible(rest) /\ rest[2] \in Visible(rest)
    BY <1>g, <1>11, <2>5 DEF Visible
  <2>7. at = 2
    <3>1. 1 \in 1..(Len(rest) + 1) /\ 2 \in 1..(Len(rest) + 1)
      BY <2>5
    <3>2. \A i \in 1..(2 - 1) : rest[i] \notin Visible(rest)
      BY <2>6
    <3>3. Find(rest, 1, Visible(rest)) = 2
      BY <2>3, <2>6, <3>1, <3>2, FindIs
    <3>. QED  BY <3>3
  <2>. HIDE DEF at
  <2>8. r = x
    BY <1>4, <2>5, <2>7
  <2>. QED  BY <1>9, <2>5, <2>7, <2>8
<1>. QED  BY <1>10, <1>11 DEF r, value, UriIn

LEMMA PartAt ==
    ASSUME NEW A, NEW s \in Seq(A), NEW a \in 1..Len(s), NEW b \in a..Len(s), NEW n, n = b - a + 1
    PROVE  /\ SubSeq(s, a, b) \in Seq(A) /\ Len(SubSeq(s, a, b)) = n
           /\ \A i \in 1..n : SubSeq(s, a, b)[i] = s[a + i - 1]
<1>1. a \in Int /\ b \in Int /\ a <= b /\ \A i \in a..b : s[i] \in A
  OBVIOUS
<1>2. /\ SubSeq(s, a, b) \in Seq(A)
      /\ Len(SubSeq(s, a, b)) = IF a <= b THEN b - a + 1 ELSE 0
      /\ \A i \in 1..(b - a + 1) : SubSeq(s, a, b)[i] = s[a + i - 1]
  BY <1>1, SubSeqProperties
<1>. QED  BY <1>1, <1>2

(* Whatever follows the method, there is a VERSION. *)
LEMMA FieldsFormed ==
    ASSUME NEW u, NEW v
    PROVE  /\ Formed(FieldsOf(u, v))
           /\ VERSION \in DOMAIN FieldsOf(u, v).fields
           /\ DOMAIN FieldsOf(u, v).fields \subseteq {METHOD, REQUEST_URI, VERSION}
<1>. DEFINE r == FieldsOf(u, v)
<1>1. ASSUME NEW start, NEW end, NEW s, s = FieldsAt(u, v, start, end)
      PROVE  Formed(s) /\ VERSION \in DOMAIN s.fields
             /\ DOMAIN s.fields \subseteq {METHOD, REQUEST_URI, VERSION}
  <2>. DEFINE value == SubSeq(u, start, end - 1)
              rest == SubSeq(u, end, Len(u))
              at == Find(rest, 1, Visible(rest))
              z == <<v>>
              m == Set(NoRequest, METHOD, z)
              q == IF end > Len(u) THEN m ELSE Set(m, REQUEST_URI, value)
              y == IF end > Len(u) THEN METHOD ELSE REQUEST_URI
              g == <<VersionOf(rest[at])>>
  <2>1. s = IF at > Len(rest) THEN [Set(q, VERSION, y) EXCEPT !.wild = TRUE] ELSE Set(q, VERSION, g)
    BY <1>1, Zenon DEF FieldsAt
  <2>2. Formed(m) /\ DOMAIN m.fields = {METHOD}
    <3>1. m = Set(NoRequest, METHOD, z)
      OBVIOUS
    <3>. HIDE DEF m, z
    <3>2. Formed(m) /\ DOMAIN m.fields = DOMAIN NoRequest.fields \cup {METHOD}
      BY <3>1, NothingFormed, SetIs
    <3>. QED  BY <3>2, NothingFormed
  <2>. HIDE DEF m, value
  <2>3. Formed(q) /\ DOMAIN q.fields \subseteq {METHOD, REQUEST_URI}
    <3>1. CASE end > Len(u)
      BY <2>2, <3>1
    <3>2. CASE ~ (end > Len(u))
      <4>1. q = Set(m, REQUEST_URI, value)
        BY <3>2
      <4>. HIDE DEF q
      <4>2. Formed(q) /\ DOMAIN q.fields = DOMAIN m.fields \cup {REQUEST_URI}
        BY <2>2, <4>1, SetIs
      <4>. QED  BY <2>2, <4>2
    <3>. QED  BY <3>1, <3>2
  <2>. HIDE DEF q
  <2>4. ASSUME NEW b, NEW w, w = Set(q, VERSION, b)
        PROVE  Formed(w) /\ VERSION \in DOMAIN w.fields
               /\ DOMAIN w.fields \subseteq {METHOD, REQUEST_URI, VERSION}
    <3>1. Formed(w) /\ DOMAIN w.fields = DOMAIN q.fields \cup {VERSION}
      BY <2>3, <2>4, SetIs
    <3>. QED  BY <2>3, <3>1
  <2>5. CASE at > Len(rest)
    <3>. DEFINE w == Set(q, VERSION, y)
    <3>1. Formed(w) /\ VERSION \in DOMAIN w.fields
          /\ DOMAIN w.fields \subseteq {METHOD, REQUEST_URI, VERSION}
      BY <2>4
    <3>2. s = [w EXCEPT !.wild = TRUE]
      BY <2>1, <2>5
    <3>. HIDE DEF w
    <3>3. Formed(s) /\ s.fields = w.fields
      BY <3>1, <3>2, WildIs
    <3>. QED  BY <3>1, <3>3
  <2>6. CASE ~ (at > Len(rest))
    <3>1. s = Set(q, VERSION, g)
      BY <2>1, <2>6
    <3>. QED  BY <2>4, <3>1
  <2>. QED  BY <2>5, <2>6
<1>2. \E start, end : r = FieldsAt(u, v, start, end)
  BY DEF FieldsOf
<1>. QED  BY <1>1, <1>2

(* What follows the method of a request as it was sent. *)
Behind(t) == Tail(t)

LEMMA TailGiven ==
    ASSUME NEW t, NEW req \in Asked, NEW f, NEW e, Layout(t, req, f, e),
           NEW s, s = Behind(t), NEW n, n = Len(req.uri)
    PROVE  /\ t # <<>> /\ Head(t) = req.method
           /\ s \in Seq(Symbols) /\ Len(s) \in Nat /\ Len(s) > n
           /\ \A i \in 1..n : s[i] = req.uri[i]
           /\ s[n + 1] \in Blank
           /\ req.version # <<>> =>
                s[n + 1] = Space /\ s[n + 2] = req.version[1] /\ s[n + 3] = CRLF /\ Len(s) > n + 2
<1>. DEFINE l == FirstLine(req)
            g == IF req.version = <<>> THEN n + 2 ELSE n + 4
            k == Len(t)
<1>1. /\ t \in Seq(Symbols) /\ k \in Nat /\ f \in Nat /\ k > f /\ f > 2 /\ f = Len(l)
      /\ \A i \in 1..f : t[i] = l[i]
  <2>. DEFINE a == Len(HeaderText(req.headers)[Len(req.headers)])
  <2>1. /\ t \in Seq(Symbols) /\ f \in Nat /\ k > e /\ f > 2 /\ f = Len(l)
        /\ e = f + a /\ a \in Nat
        /\ \A i \in 1..f : t[i] = l[i]
    BY DEF Layout
  <2>2. k \in Nat
    BY <2>1
  <2>. HIDE DEF a, k, l
  <2>. QED  BY <2>1, <2>2
<1>2. n \in Nat \ {0}
  BY AskedGiven
<1>3. /\ Len(l) = g /\ l[1] = req.method
      /\ \A i \in 1..n : l[i + 1] = req.uri[i]
      /\ req.version # <<>> => l[n + 2] = Space /\ l[n + 3] = req.version[1]
      /\ l[g] = CRLF
  <2>1. l = FirstLine(req) /\ g = IF req.version = <<>> THEN n + 2 ELSE n + 4
    OBVIOUS
  <2>. HIDE DEF l, g
  <2>. QED  BY <2>1, FirstLineShape
<1>4. Space \in Blank /\ CRLF \in Blank
  BY DEF Blank, Control
<1>5. t # <<>> /\ Head(t) = t[1]
  BY <1>1
<1>6. s \in Seq(Symbols) /\ Len(s) = k - 1 /\ \A i \in 1..(k - 1) : s[i] = t[i + 1]
  BY <1>1 DEF Behind
<1>. HIDE DEF l, k
<1>7. g \in Nat /\ f = g /\ n + 1 < g /\ g - 1 < k - 1 /\ k - 1 \in Nat
      /\ g = IF req.version = <<>> THEN n + 2 ELSE n + 4
  BY <1>1, <1>2, <1>3
<1>. HIDE DEF g
<1>8. ASSUME NEW i \in 1..(g - 1)
      PROVE  s[i] = l[i + 1]
  <2>1. i \in 1..(k - 1) /\ i + 1 \in 1..f
    BY <1>7
  <2>. QED  BY <1>1, <1>6, <2>1
<1>9. \A i \in 1..n : s[i] = req.uri[i]
  <2>1. \A i \in 1..n : i \in 1..(g - 1)
    BY <1>2, <1>7
  <2>. QED  BY <1>3, <1>8, <2>1
<1>10. CASE req.version = <<>>
  <2>1. n + 1 \in 1..(g - 1) /\ (n + 1) + 1 = g
    BY <1>2, <1>7, <1>10
  <2>2. s[n + 1] = CRLF
    BY <1>3, <1>8, <2>1
  <2>3. Len(s) \in Nat /\ Len(s) > n
    BY <1>2, <1>6, <1>7
  <2>4. 1 \in 1..f
    BY <1>1
  <2>. QED  BY <1>1, <1>3, <1>4, <1>5, <1>6, <1>9, <1>10, <2>2, <2>3, <2>4
<1>11. CASE req.version # <<>>
  <2>1. /\ n + 1 \in 1..(g - 1) /\ (n + 1) + 1 = n + 2
        /\ n + 2 \in 1..(g - 1) /\ (n + 2) + 1 = n + 3
        /\ n + 3 \in 1..(g - 1) /\ (n + 3) + 1 = g
    BY <1>2, <1>7, <1>11
  <2>2. s[n + 1] = l[n + 2] /\ s[n + 2] = l[n + 3] /\ s[n + 3] = l[g]
    BY <1>8, <2>1
  <2>3. Len(s) \in Nat /\ Len(s) > n /\ Len(s) > n + 2
    BY <1>2, <1>6, <1>7, <1>11
  <2>4. 1 \in 1..f
    BY <1>1
  <2>. QED  BY <1>1, <1>3, <1>4, <1>5, <1>6, <1>9, <1>11, <2>2, <2>3, <2>4
<1>. QED  BY <1>10, <1>11
-----------------------------------------------------------------------------
(* The first lines that are read as they were sent, and those for OPTIONS. *)

(* The first line of a request, neither OPTIONS nor without a version. *)
LEMMA PlainLine ==
    ASSUME NEW t, NEW req \in Asked, NEW f, NEW e, Layout(t, req, f, e),
           req.method # OptionsPiece, req.version # <<>>, NEW r, r = RequestLine(t)
    PROVE  /\ Formed(r) /\ r.wild = FALSE
           /\ DOMAIN r.fields = {METHOD, REQUEST_URI, VERSION}
           /\ r.fields[METHOD] = <<Methods[req.method]>>
           /\ r.fields[REQUEST_URI] = req.uri
           /\ r.fields[VERSION] = <<VersionOf(req.version[1])>>
<1>. DEFINE s == Behind(t)
            n == Len(req.uri)
            v == Methods[req.method]
            end == n + 1
<1>1. /\ req.method \in DOMAIN Methods
      /\ req.uri \in Seq(Symbols) /\ n \in Nat \ {0}
      /\ \A i \in 1..n : req.uri[i] \notin Blank
      /\ Len(req.version) \in {0, 1}
      /\ \A i \in 1..Len(req.version) : req.version[i] \notin Blank
  BY AskedGiven
<1>2. req.version[1] \notin Blank
  <2>1. req.version \in Seq(Symbols)
    BY AskedGiven
  <2>2. Len(req.version) = 1
    BY <1>1, <2>1
  <2>. QED  BY <1>1, <2>2
<1>3. /\ t # <<>> /\ Head(t) = req.method
      /\ s \in Seq(Symbols) /\ Len(s) \in Nat /\ Len(s) > n
      /\ \A i \in 1..n : s[i] = req.uri[i]
      /\ s[n + 1] = Space /\ s[n + 2] = req.version[1] /\ Len(s) > n + 2
  <2>. DEFINE u == s
              k == n
  <2>1. u = Behind(t) /\ k = Len(req.uri)
    OBVIOUS
  <2>. HIDE DEF u, k
  <2>2. /\ t # <<>> /\ Head(t) = req.method
        /\ u \in Seq(Symbols) /\ Len(u) \in Nat /\ Len(u) > k
        /\ \A i \in 1..k : u[i] = req.uri[i]
        /\ u[k + 1] \in Blank
        /\ req.version # <<>> =>
             u[k + 1] = Space /\ u[k + 2] = req.version[1] /\ u[k + 3] = CRLF /\ Len(u) > k + 2
    BY <2>1, TailGiven
  <2>. QED  BY <2>2 DEF u, k
<1>4. r = FieldsOf(s, v)
  <2>1. r = FieldsOf(AfterMethod(t), v)
    BY <1>1, <1>3, FieldsAfter
  <2>2. AfterMethod(t) = s
    BY <1>3, Zenon DEF AfterMethod, Behind
  <2>. QED  BY <2>1, <2>2
<1>. HIDE DEF s, n, v
<1>5. /\ 1 \in 1..Len(s) /\ end \in 1..Len(s) /\ end < Len(s) /\ end + 1 = n + 2 /\ end - 1 = n
      /\ n \in 1..Len(s) /\ n = n - 1 + 1
  BY <1>1, <1>3
<1>6. /\ \A i \in 1..(1 - 1) : s[i] \in Blank
      /\ s[1] \notin Blank
      /\ \A i \in 1..(end - 1) : s[i] \notin Blank
      /\ s[end] \in Blank /\ s[end + 1] \notin Blank
  <2>1. Space \in Blank
    BY DEF Blank
  <2>2. 1 \in 1..n
    BY <1>1
  <2>. QED  BY <1>1, <1>2, <1>3, <1>5, <2>1, <2>2
<1>. HIDE DEF end
<1>w. UriIn(FieldsOf(s, v), v, s, 1, end)
  <2>1. s \in Seq(Symbols)
    BY <1>3
  <2>2. 1 \in 1..Len(s) /\ end \in 1..Len(s)
    BY <1>5
  <2>3. /\ \A i \in 1..(1 - 1) : s[i] \in Blank
        /\ s[1] \notin Blank
        /\ \A i \in 1..(end - 1) : s[i] \notin Blank
        /\ s[end] \in Blank
    BY <1>6
  <2>4. UriAt(s, 1, end)
    BY <2>1, <2>2, <2>3 DEF UriAt
  <2>. QED  BY <2>4, UriRead
<1>7. /\ Formed(FieldsOf(s, v))
      /\ DOMAIN FieldsOf(s, v).fields = {METHOD, REQUEST_URI, VERSION}
      /\ FieldsOf(s, v).fields[METHOD] = <<v>>
      /\ FieldsOf(s, v).fields[REQUEST_URI] = SubSeq(s, 1, end - 1)
      /\ FieldsOf(s, v).wild = FALSE
      /\ FieldsOf(s, v).fields[VERSION] = <<VersionOf(s[end + 1])>>
  BY <1>w, <1>5, <1>6 DEF UriIn
<1>8. SubSeq(s, 1, end - 1) = req.uri
  <2>. DEFINE p == SubSeq(s, 1, n)
  <2>1. p \in Seq(Symbols) /\ Len(p) = n /\ \A i \in 1..n : p[i] = s[1 + i - 1]
    <3>1. n \in 1..Len(s) /\ n = n - 1 + 1 /\ 1 \in 1..Len(s) /\ s \in Seq(Symbols)
      BY <1>3, <1>5
    <3>. QED  BY <3>1, PartAt
  <2>. HIDE DEF p
  <2>2. \A i \in 1..n : 1 + i - 1 = i
    BY <1>1
  <2>3. \A i \in 1..n : p[i] = req.uri[i]
    BY <1>3, <2>1, <2>2
  <2>4. Len(req.uri) = n
    BY DEF n
  <2>5. p = req.uri
    BY <1>1, <2>1, <2>3, <2>4, SeqEqual
  <2>. QED  BY <1>5, <2>5 DEF p
<1>9. s[end + 1] = req.version[1]
  BY <1>3, <1>5
<1>. QED  BY <1>4, <1>7, <1>8, <1>9 DEF v

LEMMA ChoppedIs ==
    ASSUME NEW s \in Seq(Symbols), Len(s) > 0, s[1] # CRLF, NEW u, u = Chopped(s)
    PROVE  \/ /\ s[1] # "chopped" /\ u \in Seq(Symbols) /\ Len(u) = Len(s) /\ u[1] = "chopped"
              /\ \A i \in 2..Len(s) : u[i] = s[i]
           \/ /\ u \in Seq(Symbols) /\ Len(u) = Len(s) - 1
              /\ \A i \in 1..(Len(s) - 1) : u[i] = s[i + 1]
<1>. DEFINE w == Tail(s)
            c == <<"chopped">>
<1>1. s # <<>> /\ Head(s) = s[1] /\ Len(s) \in Nat
  OBVIOUS
<1>2. w \in Seq(Symbols) /\ Len(w) = Len(s) - 1 /\ \A i \in 1..(Len(s) - 1) : w[i] = s[i + 1]
  BY <1>1
<1>3. c \in Seq(Symbols) /\ Len(c) = 1 /\ c[1] = "chopped"
  BY DEF Symbols
<1>4. u = IF s[1] \in DOMAIN Versions \cup DOMAIN Methods THEN c \o w ELSE w
  BY <1>1, Zenon DEF Chopped
<1>5. "chopped" \notin DOMAIN Versions \cup DOMAIN Methods
  BY DEF Versions, Methods
<1>. HIDE DEF w, c
<1>6. CASE s[1] \in DOMAIN Versions \cup DOMAIN Methods
  <2>. DEFINE x == c \o w
  <2>1. u = x /\ x = c \o w
    BY <1>4, <1>6
  <2>. HIDE DEF x
  <2>s. c \in Seq(Symbols) /\ w \in Seq(Symbols)
    BY <1>2, <1>3
  <2>c. /\ x \in Seq(Symbols) /\ Len(x) = Len(c) + Len(w)
        /\ \A i \in 1..Len(c) : x[i] = c[i]
        /\ \A i \in 1..Len(w) : x[Len(c) + i] = w[i]
    BY <2>1, <2>s, ConcatAt
  <2>2. /\ u \in Seq(Symbols) /\ Len(u) = Len(c) + Len(w)
        /\ \A i \in 1..Len(c) : u[i] = c[i]
        /\ \A i \in 1..Len(w) : u[Len(c) + i] = w[i]
    BY <2>1, <2>c
  <2>3. u[1] = "chopped" /\ Len(u) = Len(s)
    <3>1. 1 \in 1..Len(c) /\ 1 + (Len(s) - 1) = Len(s)
      BY <1>1, <1>3
    <3>2. u[1] = c[1]
      BY <2>2, <3>1
    <3>3. Len(u) = 1 + (Len(s) - 1)
      BY <1>2, <1>3, <2>2
    <3>. QED  BY <1>3, <3>1, <3>2, <3>3
  <2>4. ASSUME NEW i \in 2..Len(s)
        PROVE  u[i] = s[i]
    <3>. DEFINE j == i - 1
    <3>1. j \in 1..(Len(s) - 1) /\ 1 + j = i /\ j + 1 = i
      BY <1>1
    <3>. HIDE DEF j
    <3>2. u[Len(c) + j] = w[j] /\ w[j] = s[j + 1]
      BY <1>2, <2>2, <3>1
    <3>. QED  BY <1>3, <3>1, <3>2
  <2>. QED  BY <1>5, <1>6, <2>2, <2>3, <2>4
<1>7. CASE s[1] \notin DOMAIN Versions \cup DOMAIN Methods
  BY <1>2, <1>4, <1>7
<1>. QED  BY <1>6, <1>7

(* The first line of a request for OPTIONS: its URI has lost a byte. *)
LEMMA OptionsLine ==
    ASSUME NEW t, NEW req \in Asked, NEW f, NEW e, Layout(t, req, f, e),
           req.method = OptionsPiece, req.version # <<>>, req.uri # req.version,
           NEW r, r = RequestLine(t)
    PROVE  REQUEST_URI \in DOMAIN r.fields /\ r.fields[REQUEST_URI] # req.uri
<1>. DEFINE s == Behind(t)
            n == Len(req.uri)
            v == Methods[req.method]
            u == Chopped(s)
<1>1. /\ req.method \in DOMAIN Methods
      /\ req.uri \in Seq(Symbols) /\ n \in Nat \ {0}
      /\ \A i \in 1..n : req.uri[i] \notin Blank
      /\ req.version \in Seq(Symbols) /\ Len(req.version) = 1 /\ req.version[1] \notin Blank
  <2>1. /\ req.method \in DOMAIN Methods
        /\ req.uri \in Seq(Symbols) /\ n \in Nat \ {0}
        /\ \A i \in 1..n : req.uri[i] \notin Blank
        /\ req.version \in Seq(Symbols) /\ Len(req.version) \in {0, 1}
        /\ \A i \in 1..Len(req.version) : req.version[i] \notin Blank
    BY AskedGiven
  <2>2. Len(req.version) = 1
    BY <2>1
  <2>. QED  BY <2>1, <2>2
<1>3. /\ t # <<>> /\ Head(t) = req.method
      /\ s \in Seq(Symbols) /\ Len(s) \in Nat /\ Len(s) > n
      /\ \A i \in 1..n : s[i] = req.uri[i]
      /\ s[n + 1] = Space /\ s[n + 2] = req.version[1] /\ s[n + 3] = CRLF /\ Len(s) > n + 2
  <2>. DEFINE w == s
              k == n
  <2>1. w = Behind(t) /\ k = Len(req.uri)
    OBVIOUS
  <2>. HIDE DEF w, k
  <2>2. /\ t # <<>> /\ Head(t) = req.method
        /\ w \in Seq(Symbols) /\ Len(w) \in Nat /\ Len(w) > k
        /\ \A i \in 1..k : w[i] = req.uri[i]
        /\ w[k + 1] \in Blank
        /\ req.version # <<>> =>
             w[k + 1] = Space /\ w[k + 2] = req.version[1] /\ w[k + 3] = CRLF /\ Len(w) > k + 2
    BY <2>1, TailGiven
  <2>. QED  BY <2>2 DEF w, k
<1>4. r = FieldsOf(u, v)
  <2>1. r = FieldsOf(AfterMethod(t), v)
    BY <1>1, <1>3, FieldsAfter
  <2>2. AfterMethod(t) = u
    BY <1>3, Zenon DEF AfterMethod, Behind
  <2>. QED  BY <2>1, <2>2
<1>5. \A start, end : UriAt(u, start, end) => UriIn(r, v, u, start, end)
  <2>. HIDE DEF u, v
  <2>. QED  BY <1>4, UriRead
<1>6. \A start, end : UriAt(u, start, end) =>
            REQUEST_URI \in DOMAIN r.fields /\ r.fields[REQUEST_URI] = SubSeq(u, start, end - 1)
  <2>. HIDE DEF u, v
  <2>. QED  BY <1>5 DEF UriIn
<1>. HIDE DEF s, n, v
<1>7. s[1] = req.uri[1] /\ s[1] \notin Blank /\ s[1] # CRLF /\ Len(s) > 0
      /\ Space \in Blank /\ CRLF \in Blank
  <2>1. CRLF \in Blank /\ Space \in Blank
    BY DEF Blank, Control
  <2>2. 1 \in 1..n
    BY <1>1
  <2>. QED  BY <1>1, <1>3, <2>1, <2>2
<1>c. \/ /\ s[1] # "chopped" /\ u \in Seq(Symbols) /\ Len(u) = Len(s) /\ u[1] = "chopped"
         /\ \A i \in 2..Len(s) : u[i] = s[i]
      \/ /\ u \in Seq(Symbols) /\ Len(u) = Len(s) - 1
         /\ \A i \in 1..(Len(s) - 1) : u[i] = s[i + 1]
  <2>1. u = Chopped(s) /\ s \in Seq(Symbols) /\ Len(s) > 0 /\ s[1] # CRLF
    BY <1>3, <1>7
  <2>. HIDE DEF u
  <2>. QED  BY <2>1, ChoppedIs
<1>. HIDE DEF u
<1>8. CASE /\ s[1] # "chopped" /\ u \in Seq(Symbols) /\ Len(u) = Len(s) /\ u[1] = "chopped"
           /\ \A i \in 2..Len(s) : u[i] = s[i]
  <2>. DEFINE end == n + 1
  <2>1. /\ 1 \in 1..Len(u) /\ end \in 1..Len(u) /\ end \in 2..Len(s) /\ end - 1 = n
        /\ n \in 1..Len(u) /\ n = n - 1 + 1 /\ 1 \in 1..n /\ 1 + 1 - 1 = 1
        /\ \A i \in 1..n : i = 1 \/ i \in 2..Len(s)
    <3>. DEFINE k == Len(s)
    <3>1. k \in Nat /\ k > n + 2 /\ n \in Nat \ {0} /\ Len(u) = k
      BY <1>1, <1>3, <1>8
    <3>. HIDE DEF k
    <3>2. /\ 1 \in 1..k /\ end \in 1..k /\ end \in 2..k /\ end - 1 = n
          /\ n \in 1..k /\ n = n - 1 + 1 /\ 1 \in 1..n /\ 1 + 1 - 1 = 1
          /\ \A i \in 1..n : i = 1 \/ i \in 2..k
      BY <3>1
    <3>. QED  BY <3>1, <3>2 DEF k
  <2>2. "chopped" \notin Blank
    BY DEF Blank, Control, CRLF, Space
  <2>3. \A i \in 1..n : u[i] \notin Blank
    BY <1>1, <1>3, <1>8, <2>1, <2>2
  <2>4. u[end] \in Blank
    BY <1>3, <1>7, <1>8, <2>1
  <2>. HIDE DEF end
  <2>5. UriAt(u, 1, end)
    <3>1. \A i \in 1..(1 - 1) : u[i] \in Blank
      OBVIOUS
    <3>. QED  BY <1>8, <2>1, <2>3, <2>4, <3>1 DEF UriAt
  <2>6. REQUEST_URI \in DOMAIN r.fields /\ r.fields[REQUEST_URI] = SubSeq(u, 1, end - 1)
    BY <1>6, <2>5
  <2>7. SubSeq(u, 1, n)[1] = "chopped"
    <3>1. 1 \in 1..Len(u) /\ n \in 1..Len(u) /\ n = n - 1 + 1 /\ u \in Seq(Symbols)
      BY <1>8, <2>1
    <3>2. \A i \in 1..n : SubSeq(u, 1, n)[i] = u[1 + i - 1]
      BY <3>1, PartAt
    <3>3. SubSeq(u, 1, n)[1] = u[1]
      BY <2>1, <3>2
    <3>. QED  BY <1>8, <3>3
  <2>8. SubSeq(u, 1, n) # req.uri
    BY <1>7, <1>8, <2>7
  <2>. QED  BY <2>1, <2>6, <2>8
<1>9. CASE /\ u \in Seq(Symbols) /\ Len(u) = Len(s) - 1
           /\ \A i \in 1..(Len(s) - 1) : u[i] = s[i + 1]
  <2>1. CASE n = 1
    <3>1. Len(s) > 3 /\ Len(u) \in Nat /\ Len(u) > 2 /\ Len(s) - 1 > 2 /\ Len(s) - 1 \in Nat
      BY <1>3, <1>9, <2>1
    <3>2. /\ 1 \in 1..(Len(s) - 1) /\ 2 \in 1..(Len(s) - 1) /\ 3 \in 1..(Len(s) - 1)
          /\ 1 + 1 = 2 /\ 2 + 1 = 3 /\ 3 + 1 = 4
      BY <3>1
    <3>3. u[1] = s[2] /\ u[2] = s[3] /\ u[3] = s[4]
      BY <1>9, <3>2
    <3>4. u[1] \in Blank /\ u[2] = req.version[1] /\ u[2] \notin Blank /\ u[3] \in Blank
      <4>1. s[2] = Space /\ s[3] = req.version[1] /\ s[4] = CRLF
        BY <1>3, <2>1
      <4>. QED  BY <1>1, <1>7, <3>3, <4>1
    <3>5. UriAt(u, 2, 3)
      <4>1. 2 \in 1..Len(u) /\ 3 \in 2..Len(u)
        BY <3>1
      <4>2. /\ \A i \in 1..(2 - 1) : u[i] \in Blank
            /\ \A i \in 2..(3 - 1) : u[i] \notin Blank
        BY <3>4
      <4>. QED  BY <1>9, <3>4, <4>1, <4>2 DEF UriAt
    <3>6. REQUEST_URI \in DOMAIN r.fields /\ r.fields[REQUEST_URI] = SubSeq(u, 2, 2)
      <4>1. REQUEST_URI \in DOMAIN r.fields /\ r.fields[REQUEST_URI] = SubSeq(u, 2, 3 - 1)
        BY <1>6, <3>5
      <4>2. 3 - 1 = 2
        OBVIOUS
      <4>. QED  BY <4>1, <4>2
    <3>7. SubSeq(u, 2, 2)[1] = u[2]
      <4>1. 2 \in 1..Len(u) /\ 2 \in 2..Len(u) /\ 1 = 2 - 2 + 1 /\ u \in Seq(Symbols)
        BY <1>9, <3>1
      <4>2. \A i \in 1..1 : SubSeq(u, 2, 2)[i] = u[2 + i - 1]
        BY <4>1, PartAt
      <4>3. 1 \in 1..1 /\ 2 + 1 - 1 = 2
        OBVIOUS
      <4>. QED  BY <4>2, <4>3
    <3>8. SubSeq(u, 2, 2) # req.uri
      <4>. SUFFICES ASSUME SubSeq(u, 2, 2) = req.uri
                    PROVE  FALSE
        OBVIOUS
      <4>1. req.uri[1] = req.version[1]
        BY <3>4, <3>7
      <4>2. Len(req.uri) = 1
        BY <2>1 DEF n
      <4>3. req.uri \in Seq(Symbols) /\ req.version \in Seq(Symbols) /\ Len(req.version) = 1
        BY <1>1
      <4>4. \A i \in 1..1 : req.uri[i] = req.version[i]
        BY <4>1
      <4>5. req.uri = req.version
        BY <4>2, <4>3, <4>4, SeqEqual
      <4>. QED  BY <4>5
    <3>. QED  BY <3>6, <3>8
  <2>2. CASE n # 1
    <3>. DEFINE m == n - 1
    <3>1. /\ m \in 1..Len(u) /\ n \in 1..Len(u) /\ 1 \in 1..Len(u) /\ m = m - 1 + 1
          /\ m # n /\ m \in Nat
          /\ n \in 1..(Len(s) - 1)
          /\ \A i \in 1..m : i \in 1..(Len(s) - 1) /\ i + 1 \in 1..n
      BY <1>1, <1>3, <1>9, <2>2
    <3>2. \A i \in 1..m : u[i] \notin Blank
      <4>1. \A i \in 1..m : u[i] = s[i + 1] /\ s[i + 1] = req.uri[i + 1]
        BY <1>3, <1>9, <3>1
      <4>. QED  BY <1>1, <3>1, <4>1
    <3>3. u[n] \in Blank
      BY <1>3, <1>7, <1>9, <3>1
    <3>4. UriAt(u, 1, n)
      <4>1. \A i \in 1..(1 - 1) : u[i] \in Blank
        OBVIOUS
      <4>2. u[1] \notin Blank
        <5>1. 1 \in 1..m
          BY <3>1
        <5>. QED  BY <3>2, <5>1
      <4>. QED  BY <1>9, <3>1, <3>2, <3>3, <4>1, <4>2 DEF UriAt
    <3>5. REQUEST_URI \in DOMAIN r.fields /\ r.fields[REQUEST_URI] = SubSeq(u, 1, m)
      BY <1>6, <3>4
    <3>. HIDE DEF m
    <3>6. Len(SubSeq(u, 1, m)) = m
      <4>1. 1 \in 1..Len(u) /\ m \in 1..Len(u) /\ m = m - 1 + 1 /\ u \in Seq(Symbols)
        BY <1>9, <3>1
      <4>. QED  BY <4>1, PartAt
    <3>7. SubSeq(u, 1, m) # req.uri
      BY <3>1, <3>6 DEF n
    <3>. QED  BY <3>5, <3>7
  <2>. QED  BY <2>1, <2>2
<1>. QED  BY <1>c, <1>8, <1>9
-----------------------------------------------------------------------------
(* The values, and the header lines that are the last ones of their names. *)

(* A value is read up to its first control byte. *)
LEMMA ValueReadAs ==
    ASSUME NEW h \in HeaderLines, h.value # <<>>
    PROVE  ValueRead(h) = h.value <=> ToSet(h.value) \cap Control = {}
<1>. DEFINE v == h.value
            n == Len(v)
            p == Find(v, 1, Control)
<1>1. v \in Seq(Symbols) /\ n \in Nat \ {0} /\ v[1] \notin Blank
  <2>1. v \in Seq(Symbols) /\ v # <<>> /\ v[1] \notin Blank
    BY LineGiven
  <2>. QED  BY <2>1
<1>2. 1 \in 1..(Len(v) + 1)
  BY <1>1
<1>3. p \in 1..(n + 1) /\ (\A i \in 1..(p - 1) : v[i] \notin Control) /\ (p <= n => v[p] \in Control)
  <2>1. v \in Seq(Symbols)
    BY <1>1
  <2>. QED  BY <1>2, <2>1, FindFinds
<1>4. ToSet(v) = {v[i] : i \in 1..n}
  BY <1>1 DEF ToSet
<1>5. ValueRead(h) = SubSeq(v, 1, p - 1)
  BY DEF ValueRead
<1>. HIDE DEF v, p
<1>6. CASE p = n + 1
  <2>1. p - 1 = n
    BY <1>1, <1>6
  <2>2. SubSeq(v, 1, n) = v
    BY <1>1, SubSeqFull
  <2>3. \A i \in 1..n : v[i] \notin Control
    BY <1>3, <2>1
  <2>4. ToSet(v) \cap Control = {}
    BY <1>4, <2>3
  <2>. QED  BY <1>5, <2>1, <2>2, <2>4 DEF v
<1>7. CASE p # n + 1
  <2>. DEFINE m == p - 1
  <2>1. p \in 1..n /\ v[p] \in Control
    BY <1>1, <1>3, <1>7
  <2>2. p # 1
    BY <1>1, <2>1 DEF Blank
  <2>3. m \in 1..n /\ m = m - 1 + 1 /\ 1 \in 1..n /\ m # n
    BY <1>1, <2>1, <2>2
  <2>. HIDE DEF m
  <2>4. Len(SubSeq(v, 1, m)) = m
    <3>1. v \in Seq(Symbols) /\ 1 \in 1..Len(v) /\ m \in 1..Len(v) /\ m = m - 1 + 1
      BY <1>1, <2>3
    <3>. QED  BY <3>1, PartAt
  <2>5. SubSeq(v, 1, m) # v
    BY <2>3, <2>4
  <2>6. ToSet(v) \cap Control # {}
    BY <1>4, <2>1
  <2>. QED  BY <1>5, <2>5, <2>6 DEF v, m
<1>. QED  BY <1>6, <1>7

(* There is just one last line of each name. *)
LEMMA EffectiveFound ==
    ASSUME NEW hs \in Seq(HeaderLines), NEW i \in 1..Len(hs)
    PROVE  \E j \in Effective(hs) : Name(hs[j]) = Name(hs[i])
<1>. DEFINE n == Len(hs)
            Found(k) == \E j \in Effective(hs) : Name(hs[j]) = Name(hs[k])
            Near == {d \in Nat : \A k \in 1..n : n <= k + d => Found(k)}
<1>1. n \in Nat /\ i \in 1..n
  OBVIOUS
<1>2. \A k \in 1..n :
        k \in Effective(hs) \/ \E j \in (k + 1)..n : Name(hs[j]) = Name(hs[k])
  BY DEF Effective
<1>. HIDE DEF n
<1>3. \A k \in 1..n : k \in Effective(hs) => Found(k)
  OBVIOUS
<1>4. \A k, j : Name(hs[j]) = Name(hs[k]) /\ Found(j) => Found(k)
  OBVIOUS
<1>. HIDE DEF Found
<1>5. 0 \in Near
  <2>1. ASSUME NEW k \in 1..n, n <= k + 0
        PROVE  Found(k)
    <3>1. \A j : j \notin (k + 1)..n
      BY <1>1, <2>1
    <3>. QED  BY <1>2, <1>3, <3>1
  <2>. QED  BY <2>1
<1>6. ASSUME NEW d \in Near
      PROVE  d + 1 \in Near
  <2>1. ASSUME NEW k \in 1..n, n <= k + (d + 1)
        PROVE  Found(k)
    <3>1. CASE k \in Effective(hs)
      BY <1>3, <3>1
    <3>2. CASE k \notin Effective(hs)
      <4>1. PICK j \in (k + 1)..n : Name(hs[j]) = Name(hs[k])
        BY <1>2, <3>2
      <4>2. j \in 1..n /\ n <= j + d
        BY <1>1, <2>1, <4>1
      <4>3. Found(j)
        BY <4>2
      <4>. QED  BY <1>4, <4>1, <4>3
    <3>. QED  BY <3>1, <3>2
  <2>2. d + 1 \in Nat
    OBVIOUS
  <2>. QED  BY <2>1, <2>2
<1>7. Near \in SUBSET Nat
  OBVIOUS
<1>. HIDE DEF Near
<1>8. Near = Nat
  BY <1>5, <1>6, <1>7, NatSetInduction
<1>9. n \in Near /\ n <= i + n
  BY <1>1, <1>8
<1>10. Found(i)
  BY <1>1, <1>9 DEF Near
<1>. QED  BY <1>10 DEF Found

LEMMA EffectiveOnce ==
    ASSUME NEW hs \in Seq(HeaderLines), NEW i \in Effective(hs), NEW j \in Effective(hs),
           Name(hs[i]) = Name(hs[j])
    PROVE  i = j
<1>. DEFINE n == Len(hs)
<1>1. /\ n \in Nat /\ i \in 1..n /\ j \in 1..n
      /\ \A k \in (i + 1)..n : Name(hs[k]) # Name(hs[i])
      /\ \A k \in (j + 1)..n : Name(hs[k]) # Name(hs[j])
  BY DEF Effective
<1>. HIDE DEF n
<1>2. i < j => j \in (i + 1)..n
  BY <1>1
<1>3. j < i => i \in (j + 1)..n
  BY <1>1
<1>4. ~ (i < j) /\ ~ (j < i)
  BY <1>1, <1>2, <1>3
<1>. QED  BY <1>1, <1>4
-----------------------------------------------------------------------------
(* The request as a whole. *)

FirstNames == {METHOD, REQUEST_URI, VERSION}
OwnNames(hs) == \A i \in 1..Len(hs) : Name(hs[i]) \notin FirstNames

LEMMA MeantIs ==
    ASSUME NEW req \in Asked, OwnNames(req.headers), NEW m, m = Meant(req)
    PROVE  /\ m = [x \in DOMAIN m |-> m[x]]
           /\ DOMAIN m = {METHOD, REQUEST_URI} \cup (IF req.version = <<>> THEN {} ELSE {VERSION})
                            \cup {Name(req.headers[i]) : i \in 1..Len(req.headers)}
           /\ m[METHOD] = <<Methods[req.method]>> /\ m[REQUEST_URI] = req.uri
           /\ req.version # <<>> => m[VERSION] = <<VersionOf(req.version[1])>>
           /\ \A i \in Effective(req.headers) : m[Name(req.headers[i])] = req.headers[i].value
<1>. DEFINE hs == req.headers
            D == {METHOD, REQUEST_URI} \cup (IF req.version = <<>> THEN {} ELSE {VERSION})
                    \cup {Name(hs[i]) : i \in 1..Len(hs)}
            Latest(x) == CHOOSE i \in Effective(hs) : Name(hs[i]) = x
            F(x) == CASE x = METHOD -> <<Methods[req.method]>>
                      [] x = REQUEST_URI -> req.uri
                      [] x = VERSION -> <<VersionOf(req.version[1])>>
                      [] OTHER -> hs[Latest(x)].value
<1>1. m = [x \in D |-> F(x)]
  BY Zenon DEF Meant
<1>o. OwnNames(hs)
  OBVIOUS
<1>2. \A i \in Effective(hs) : i \in 1..Len(hs)
  BY DEF Effective
<1>3. F(METHOD) = <<Methods[req.method]>> /\ F(REQUEST_URI) = req.uri
      /\ F(VERSION) = <<VersionOf(req.version[1])>>
  <2>. HIDE DEF Latest
  <2>. QED  BY NamesDiffer
<1>4. ASSUME NEW i \in Effective(hs)
      PROVE  F(Name(hs[i])) = hs[i].value
  <2>. DEFINE x == Name(hs[i])
  <2>1. x # METHOD /\ x # REQUEST_URI /\ x # VERSION
    BY <1>2, <1>o DEF OwnNames, FirstNames
  <2>2. Latest(x) \in Effective(hs) /\ Name(hs[Latest(x)]) = x
    OBVIOUS
  <2>. HIDE DEF x, Latest
  <2>3. hs \in Seq(HeaderLines)
    BY AskedGiven
  <2>4. Latest(x) = i
    <3>1. x = Name(hs[i])
      BY DEF x
    <3>. QED  BY <2>2, <2>3, <3>1, EffectiveOnce
  <2>5. F(x) = hs[Latest(x)].value
    BY <2>1
  <2>6. F(x) = hs[i].value
    BY <2>4, <2>5
  <2>. QED  BY <2>6 DEF x
<1>. HIDE DEF F
<1>5. m = [x \in DOMAIN m |-> m[x]] /\ DOMAIN m = D /\ \A x \in D : m[x] = F(x)
  BY <1>1
<1>6. METHOD \in D /\ REQUEST_URI \in D /\ (req.version # <<>> => VERSION \in D)
      /\ \A i \in Effective(hs) : Name(hs[i]) \in D
  BY <1>2
<1>7. DOMAIN m = {METHOD, REQUEST_URI} \cup (IF req.version = <<>> THEN {} ELSE {VERSION})
                    \cup {Name(hs[i]) : i \in 1..Len(hs)}
  BY <1>5
<1>. HIDE DEF D
<1>8. \A i \in Effective(hs) : m[Name(hs[i])] = hs[i].value
  BY <1>4, <1>5, <1>6
<1>9. /\ m[METHOD] = <<Methods[req.method]>> /\ m[REQUEST_URI] = req.uri
      /\ req.version # <<>> => m[VERSION] = <<VersionOf(req.version[1])>>
  BY <1>3, <1>5, <1>6
<1>. QED  BY <1>5, <1>7, <1>8, <1>9

(* Whatever is sent, what becomes of its header lines. *)
LEMMA SentRead ==
    ASSUME NEW req \in Asked, NEW t, t = Sent(req), NEW r0, r0 = RequestLine(t)
    PROVE  /\ Formed(r0) /\ VERSION \in DOMAIN r0.fields
           /\ Kept(Parsed(t), r0, req.headers, Len(req.headers))
           /\ \E f, e : Layout(t, req, f, e)
<1>. DEFINE f == Len(FirstLine(req))
            e == f + Len(HeaderText(req.headers)[Len(req.headers)])
<1>1. Layout(t, req, f, e)
  <2>1. Layout(Sent(req), req, f, e)
    BY SentLaid
  <2>. QED  BY <2>1, Zenon
<1>. HIDE DEF f, e
<1>2. Parsed(t) = Headers(r0, t, f + 1, e)
  BY <1>1, ParsedFrom, Zenon
<1>3. t # <<>> /\ Head(t) = req.method /\ req.method \in DOMAIN Methods
  BY <1>1, TailGiven, AskedGiven
<1>4. Formed(r0) /\ VERSION \in DOMAIN r0.fields
  <2>1. r0 = FieldsOf(AfterMethod(t), Methods[Head(t)])
    BY <1>3, FieldsAfter
  <2>. QED  BY <2>1, FieldsFormed
<1>5. Kept(Headers(r0, t, f + 1, e), r0, req.headers, Len(req.headers))
  BY <1>1, <1>4, HeadersKept
<1>. QED  BY <1>1, <1>2, <1>4, <1>5

LEMMA EffectiveRead ==
    ASSUME NEW hs \in Seq(HeaderLines), NEW r, NEW r0, Kept(r, r0, hs, Len(hs)),
           NEW i \in Effective(hs), hs[i].value # <<>>
    PROVE  r.fields[Name(hs[i])] = ValueRead(hs[i]) /\ Name(hs[i]) \in DOMAIN r.fields
<1>. DEFINE n == Len(hs)
<1>1. n \in Nat /\ i \in 1..n /\ \A j \in (i + 1)..n : Name(hs[j]) # Name(hs[i])
  BY DEF Effective
<1>2. /\ DOMAIN r.fields = DOMAIN r0.fields \cup {Name(hs[j]) : j \in Valued(hs, n)}
      /\ \A k \in Valued(hs, n) :
            (\A j \in Valued(hs, n) : j > k => Name(hs[j]) # Name(hs[k]))
                => r.fields[Name(hs[k])] = ValueRead(hs[k])
  BY DEF Kept
<1>. HIDE DEF n
<1>3. i \in Valued(hs, n)
  BY <1>1 DEF Valued
<1>4. \A j \in Valued(hs, n) : j > i => Name(hs[j]) # Name(hs[i])
  BY <1>1 DEF Valued
<1>. QED  BY <1>2, <1>3, <1>4

LEMMA PlainRead ==
    ASSUME NEW req \in Asked, OwnNames(req.headers), Plain(req), NEW r, r = Parsed(Sent(req))
    PROVE  r = Request(Meant(req), FALSE)
<1>. DEFINE hs == req.headers
            n == Len(hs)
            m == Meant(req)
            t == Sent(req)
            r0 == RequestLine(t)
            names == {Name(hs[i]) : i \in 1..n}
<1>1. /\ DOMAIN m = {METHOD, REQUEST_URI} \cup (IF req.version = <<>> THEN {} ELSE {VERSION})
                            \cup names
      /\ m = [x \in DOMAIN m |-> m[x]]
      /\ m[METHOD] = <<Methods[req.method]>> /\ m[REQUEST_URI] = req.uri
      /\ req.version # <<>> => m[VERSION] = <<VersionOf(req.version[1])>>
      /\ \A i \in Effective(hs) : m[Name(hs[i])] = hs[i].value
  BY MeantIs
<1>2. /\ req.method # OptionsPiece /\ req.version # <<>>
      /\ \A i \in 1..n : hs[i].value # <<>>
      /\ \A i \in Effective(hs) : ToSet(hs[i].value) \cap Control = {}
  BY Zenon DEF Plain, OptionsPiece
<1>3. Kept(r, r0, hs, n)
  BY SentRead
<1>4. /\ r0.wild = FALSE
      /\ DOMAIN r0.fields = {METHOD, REQUEST_URI, VERSION}
      /\ r0.fields[METHOD] = <<Methods[req.method]>>
      /\ r0.fields[REQUEST_URI] = req.uri
      /\ r0.fields[VERSION] = <<VersionOf(req.version[1])>>
  <2>1. PICK f, e : Layout(t, req, f, e)
    BY SentRead
  <2>. HIDE DEF t
  <2>. QED  BY <1>2, <2>1, PlainLine
<1>5. hs \in Seq(HeaderLines) /\ n \in Nat /\ OwnNames(hs)
  BY AskedGiven
<1>. HIDE DEF m, r0, hs
<1>6. Valued(hs, n) = 1..n
  BY <1>2 DEF Valued
<1>7. /\ Formed(r) /\ (r.wild <=> r0.wild \/ \E i \in 1..n : hs[i].value = <<>>)
      /\ DOMAIN r.fields = DOMAIN r0.fields \cup names
      /\ \A x \in DOMAIN r0.fields :
            (\A i \in 1..n : Name(hs[i]) # x) => r.fields[x] = r0.fields[x]
  BY <1>3, <1>6 DEF Kept
<1>8. /\ r = Request(r.fields, r.wild) /\ r.wild \in BOOLEAN
      /\ r.fields = [x \in DOMAIN r.fields |-> r.fields[x]]
  BY <1>7 DEF Formed
<1>9. r.wild = FALSE
  BY <1>2, <1>4, <1>7, <1>8
<1>10. DOMAIN r.fields = DOMAIN m
  BY <1>1, <1>2, <1>4, <1>7
<1>11. ASSUME NEW x \in DOMAIN m
       PROVE  r.fields[x] = m[x]
  <2>1. CASE x \in FirstNames
    <3>1. \A i \in 1..n : Name(hs[i]) # x
      BY <1>5, <2>1 DEF OwnNames
    <3>2. r.fields[x] = r0.fields[x]
      BY <1>4, <1>7, <2>1, <3>1 DEF FirstNames
    <3>. QED  BY <1>1, <1>2, <1>4, <2>1, <3>2 DEF FirstNames
  <2>2. CASE x \notin FirstNames
    <3>1. PICK k \in 1..n : x = Name(hs[k])
      BY <1>1, <2>2 DEF FirstNames
    <3>2. PICK i \in Effective(hs) : Name(hs[i]) = x
      BY <1>5, <3>1, EffectiveFound
    <3>3. i \in 1..n /\ hs[i] \in HeaderLines /\ hs[i].value # <<>>
      BY <1>2, <1>5 DEF Effective
    <3>4. r.fields[x] = ValueRead(hs[i])
      BY <1>3, <1>5, <3>2, <3>3, EffectiveRead
    <3>5. ValueRead(hs[i]) = hs[i].value
      BY <1>2, <3>3, ValueReadAs
    <3>. QED  BY <1>1, <3>2, <3>4, <3>5
  <2>. QED  BY <2>1, <2>2
<1>12. r.fields = m
  BY <1>1, <1>8, <1>10, <1>11
<1>. QED  BY <1>8, <1>9, <1>12 DEF m

LEMMA OnlyPlainRead ==
    ASSUME NEW req \in Asked, OwnNames(req.headers), req.uri # req.version,
           NEW r, r = Parsed(Sent(req)), r = Request(Meant(req), FALSE)
    PROVE  Plain(req)
<1>. DEFINE hs == req.headers
            n == Len(hs)
            m == Meant(req)
            t == Sent(req)
            r0 == RequestLine(t)
            names == {Name(hs[i]) : i \in 1..n}
<1>1. /\ DOMAIN m = {METHOD, REQUEST_URI} \cup (IF req.version = <<>> THEN {} ELSE {VERSION})
                            \cup names
      /\ m[REQUEST_URI] = req.uri
      /\ \A i \in Effective(hs) : m[Name(hs[i])] = hs[i].value
  BY MeantIs
<1>2. r.fields = m /\ r.wild = FALSE
  BY DEF Request
<1>3. Kept(r, r0, hs, n) /\ VERSION \in DOMAIN r0.fields
  BY SentRead
<1>4. hs \in Seq(HeaderLines) /\ n \in Nat /\ OwnNames(hs)
  BY AskedGiven
<1>5. req.method = OptionsPiece /\ req.version # <<>> =>
            REQUEST_URI \in DOMAIN r0.fields /\ r0.fields[REQUEST_URI] # req.uri
  <2>1. PICK f, e : Layout(t, req, f, e)
    BY SentRead
  <2>. HIDE DEF t
  <2>. QED  BY <2>1, OptionsLine
<1>. HIDE DEF m, r0, hs
<1>6. /\ r.wild <=> r0.wild \/ \E i \in 1..n : hs[i].value = <<>>
      /\ DOMAIN r0.fields \subseteq DOMAIN r.fields
      /\ \A x \in DOMAIN r0.fields :
            (\A i \in Valued(hs, n) : Name(hs[i]) # x) => r.fields[x] = r0.fields[x]
  BY <1>3 DEF Kept
<1>7. /\ \A i \in 1..n : Name(hs[i]) # VERSION /\ Name(hs[i]) # REQUEST_URI
      /\ \A i \in Valued(hs, n) : Name(hs[i]) # REQUEST_URI
  BY <1>4 DEF OwnNames, FirstNames, Valued
<1>8. req.version # <<>>
  <2>1. VERSION \in DOMAIN m
    BY <1>2, <1>3, <1>6
  <2>2. VERSION \notin names
    BY <1>7
  <2>. HIDE DEF names
  <2>. QED  BY <1>1, <2>1, <2>2, NamesDiffer
<1>9. req.method # OptionsPiece
  BY <1>1, <1>2, <1>5, <1>6, <1>7, <1>8
<1>10. \A i \in 1..n : hs[i].value # <<>>
  BY <1>2, <1>6
<1>11. ASSUME NEW i \in Effective(hs)
       PROVE  ToSet(hs[i].value) \cap Control = {}
  <2>1. i \in 1..n /\ hs[i] \in HeaderLines /\ hs[i].value # <<>>
    BY <1>4, <1>10 DEF Effective
  <2>2. r.fields[Name(hs[i])] = ValueRead(hs[i])
    BY <1>3, <1>4, <2>1, EffectiveRead
  <2>3. ValueRead(hs[i]) = hs[i].value
    BY <1>1, <1>2, <2>2
  <2>. QED  BY <2>1, <2>3, ValueReadAs
<1>. QED  BY <1>8, <1>9, <1>10, <1>11, Zenon DEF Plain, OptionsPiece, hs

LEMMA ClearRead ==
    ASSUME NEW req \in Asked, NEW r, r = Parsed(Sent(req)), NEW i \in Effective(req.headers),
           req.headers[i].value # <<>>, ToSet(req.headers[i].value) \cap Control = {}
    PROVE  r.fields[Name(req.headers[i])] = req.headers[i].value
<1>. DEFINE hs == req.headers
<1>1. hs \in Seq(HeaderLines)
  BY AskedGiven
<1>2. PICK r0 : Kept(r, r0, hs, Len(hs))
  BY SentRead
<1>3. i \in Effective(hs) /\ hs[i].value # <<>> /\ ToSet(hs[i].value) \cap Control = {}
  OBVIOUS
<1>. HIDE DEF hs
<1>4. r.fields[Name(hs[i])] = ValueRead(hs[i])
  BY <1>1, <1>2, <1>3, EffectiveRead
<1>5. hs[i] \in HeaderLines
  <2>1. i \in 1..Len(hs)
    BY <1>3 DEF Effective
  <2>. QED  BY <1>1, <2>1
<1>6. ValueRead(hs[i]) = hs[i].value
  BY <1>3, <1>5, ValueReadAs
<1>. QED  BY <1>4, <1>6 DEF hs

(* The fields of a request are read as they were sent just if the request  *)
(* is plain, and what a clear header line says is always read, whatever    *)
(* the text of the URI, the keys, the values and the body is               *)
(* (_parse_http_request).                                                  *)
THEOREM RequestsCorrect == IntakeSpec => []RequestRead
<1>1. WrittenInv => RequestRead
  <2>. SUFFICES ASSUME RequestInv, in.kind = "request"
                PROVE  RequestRead
    BY DEF WrittenInv, RequestRead
  <2>. DEFINE req == in.req
              hs == req.headers
              r == Parsed(Sent(req))
  <2>1. req \in Asked
    BY DEF RequestInv
  <2>2. ASSUME req.uri # req.version,
               \A i \in 1..Len(hs) : Name(hs[i]) \notin {METHOD, REQUEST_URI, VERSION}
        PROVE  r = Request(Meant(req), FALSE) <=> Plain(req)
    <3>1. OwnNames(hs)
      BY <2>2, Zenon DEF OwnNames, FirstNames
    <3>. HIDE DEF req
    <3>2. Plain(req) => r = Request(Meant(req), FALSE)
      BY <2>1, <3>1, PlainRead
    <3>3. r = Request(Meant(req), FALSE) => Plain(req)
      BY <2>1, <2>2, <3>1, OnlyPlainRead
    <3>. QED  BY <3>2, <3>3
  <2>3. ASSUME NEW i \in Effective(hs), hs[i].value # <<>>, ToSet(hs[i].value) \cap Control = {}
        PROVE  r.fields[Name(hs[i])] = hs[i].value
    <3>. HIDE DEF req
    <3>. QED  BY <2>1, <2>3, ClearRead
  <2>. QED  BY <2>2, <2>3, Zenon DEF RequestRead
<1>. QED  BY <1>1, Invariance, PTL DEF WrittenInv
=============================================================================
