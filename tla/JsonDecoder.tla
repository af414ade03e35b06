---------------------------- MODULE JsonDecoder ----------------------------
(***************************************************************************)
(* The JSON decoder of serialization/json.c, as a function of texts.  A    *)
(* text is a sequence of bytes.  A value is a record with all fields, of   *)
(* which its kind k tells the one that counts; numbers are integers, and   *)
(* the members of a hash are a function of their keys.                     *)
(***************************************************************************)
EXTENDS Scanning, SequencesExt, TLC

Nothing == [k |-> "none", s |-> <<>>, n |-> 0, a |-> <<>>, h |-> <<>>]
Word(k) == [Nothing EXCEPT !.k = k]
Str(s) == [Nothing EXCEPT !.k = "string", !.s = s]
Num(n) == [Nothing EXCEPT !.k = "number", !.n = n]
Arr(a) == [Nothing EXCEPT !.k = "array", !.a = a]
Hash(h) == [Nothing EXCEPT !.k = "hash", !.h = h]

Quote == 34
Comma == 44
Minus == 45
Colon == 58
Backslash == 92
LetterU == 117
OpenArray == 91
CloseArray == 93
OpenHash == 123
CloseHash == 125

Spelling ==
    [null |-> <<110, 117, 108, 108>>, true |-> <<116, 114, 117, 101>>,
     false |-> <<102, 97, 108, 115, 101>>]

Unescaped ==
    (Backslash :> Backslash) @@ (47 :> 47) @@ (Quote :> Quote) @@
    (98 :> 8) @@ (116 :> 9) @@ (110 :> 10) @@ (102 :> 12) @@ (114 :> 13)

-----------------------------------------------------------------------------
(* Decoding: what is read, and where reading goes on. *)
Read(v, p) == [val |-> v, pos |-> p]

Remain(t, p) == Len(t) - p + 1

(* strtol of four bytes, base 16. *)
HexValue(u) ==
    LET neg == u # <<>> /\ Head(u) = Minus
        d == IF neg THEN Tail(u) ELSE u
        Of == [c \in (48..57) \cup (97..102) \cup (65..70) |->
                 IF c < 58 THEN c - 48 ELSE IF c < 71 THEN c - 55 ELSE c - 87]
        n == CHOOSE n \in 0..Len(d) :
                /\ \A i \in 1..n : d[i] \in DOMAIN Of
                /\ n < Len(d) => d[n + 1] \notin DOMAIN Of
        v == FoldLeft(LAMBDA a, c : a * 16 + Of[c], 0, SubSeq(d, 1, n))
    IN  IF neg THEN -v ELSE v

(* Mutant: two bytes are taken to do for all. *)
UtfBytesTwo(v) ==
    IF v < 128 THEN <<v % 256>> ELSE <<192 + ((v \div 64) % 32), 128 + (v % 64)>>

UtfBytes(v) ==
    IF v < 128 THEN <<v % 256>>
    ELSE IF v < 2048 THEN <<192 + ((v \div 64) % 32), 128 + (v % 64)>>
    ELSE <<224 + ((v \div 4096) % 16), 128 + ((v \div 64) % 64), 128 + (v % 64)>>

(* Mutant: one byte fewer is taken for enough. *)
StripShort(t, p) ==
    IF t[p] \in DOMAIN Unescaped THEN Read(<<Unescaped[t[p]]>>, p + 1)
    ELSE IF t[p] # LetterU THEN Read(<<>>, p + 1)
    ELSE IF Remain(t, p) >= 4 THEN Read(UtfBytes(HexValue(SubSeq(t, p + 1, p + 3))), p + 5)
    ELSE Read(<<LetterU>>, p + 1)

(* The byte after a backslash. *)
Strip(t, p) ==
    IF t[p] \in DOMAIN Unescaped THEN Read(<<Unescaped[t[p]]>>, p + 1)
    ELSE IF t[p] # LetterU THEN Read(<<>>, p + 1)
    ELSE IF Remain(t, p) > 4 THEN Read(UtfBytes(HexValue(SubSeq(t, p + 1, p + 4))), p + 5)
    ELSE Read(<<LetterU>>, p + 1)

Digits == 48..57

StartsWith(t, p, word) == Remain(t, p) >= Len(word) /\ SubSeq(t, p, p + Len(word) - 1) = word

(* The number strtod finds at p, as far as it has a sign and digits. *)
Number(t, p) ==
    LET d == IF t[p] = Minus THEN p + 1 ELSE p
        q == Find(t, d, (0..255) \ Digits)
        v == FoldLeft(LAMBDA a, c : a * 10 + (c - 48), 0, SubSeq(t, d, q - 1))
    IN  IF q = d THEN Read(Nothing, p + 1)
        ELSE Read(Num(IF t[p] = Minus THEN -v ELSE v), q)

-----------------------------------------------------------------------------
(* What is read at each place of a text depends on what is read further    *)
(* on: D is that, for a value, and for what is left of a string, an array, *)
(* a hash.  The code keeps the place in the text itself.                   *)
Empty == [value |-> Nothing, string |-> Str(<<>>), array |-> Arr(<<>>), hash |-> Hash(<<>>)]

At(t, D, kind, p) == IF p > Len(t) THEN Read(Empty[kind], p) ELSE D[<<kind, p>>]

(* Up to the quote, or to what a backslash stands for and what follows.  A *)
(* string that is not closed ends with the text, also after a backslash,   *)
(* where what was appended is appended again.                              *)
InString(t, D, p) ==
    LET q == Find(t, p, {Quote, Backslash})
        upto == SubSeq(t, p, q - 1)
        r == Strip(t, q + 1)
        rest == At(t, D, "string", r.pos)
    IN  IF q > Len(t) THEN Read(Str(upto), q)
        ELSE IF t[q] = Quote THEN Read(Str(upto), q + 1)
        ELSE IF q = Len(t) THEN Read(Str(upto \o SubSeq(t, p, q)), q + 1)
        ELSE Read(Str(upto \o r.val \o rest.val.s), rest.pos)

(* _get_value_from_json.  What begins no value is passed over. *)
GetValue(t, D, p) ==
    IF t[p] = Quote THEN At(t, D, "string", p + 1)
    ELSE IF t[p] = OpenHash THEN At(t, D, "hash", p + 1)
    ELSE IF t[p] = CloseHash THEN Read(Word("hash end"), p + 1)
    ELSE IF t[p] = OpenArray THEN At(t, D, "array", p + 1)
    ELSE IF t[p] = CloseArray THEN Read(Word("array end"), p + 1)
    ELSE IF \E w \in DOMAIN Spelling : StartsWith(t, p, Spelling[w])
    THEN LET w == CHOOSE w \in DOMAIN Spelling : StartsWith(t, p, Spelling[w])
         IN Read(Word(w), p + Len(Spelling[w]))
    ELSE LET r == IF t[p] > 32 THEN Number(t, p) ELSE Read(Nothing, p + 1)
         IN IF r.val = Nothing THEN At(t, D, "value", r.pos) ELSE r

(* _traverse_json_array *)
Traverse(t, D, p) ==
    LET r == D[<<"value", p>>]
        rest == At(t, D, "array", r.pos)
    IN  IF r.val.k \in {"none", "array end"} THEN Read(Arr(<<>>), r.pos)
        ELSE Read(Arr(<<r.val>> \o rest.val.a), rest.pos)

(* _traverse_json_hash *)
TraverseHash(t, D, p) ==
    LET key == D[<<"value", p>>]
        r == At(t, D, "value", key.pos)
        rest == At(t, D, "hash", r.pos)
    IN  IF key.val.k \in {"none", "hash end"} THEN Read(Hash(<<>>), key.pos)
        ELSE IF r.val.k \in {"none", "hash end"} THEN Read(Hash(<<>>), r.pos)
        ELSE IF key.val.k # "string" THEN rest
        ELSE Read(Hash(rest.val.h @@ (key.val.s :> r.val)), rest.pos)

Step(t, D, kind, p) ==
    CASE kind = "value" -> GetValue(t, D, p)
      [] kind = "string" -> InString(t, D, p)
      [] kind = "array" -> Traverse(t, D, p)
      [] kind = "hash" -> TraverseHash(t, D, p)

Reading(t) ==
    LET D[x \in (DOMAIN Empty) \X (1..Len(t))] == Step(t, D, x[1], x[2])
    IN D

(* json_nd_decode *)
First(t) == At(t, Reading(t), "value", 1)
Decoded(t) == First(t).val
=============================================================================
