------------------------------ MODULE JsonText ------------------------------
(***************************************************************************)
(* The JSON encoder of serialization/json.c, as a function of the values   *)
(* of JsonDecoder.                                                         *)
(***************************************************************************)
EXTENDS JsonDecoder

(* What bsp_escape_char gives for the bytes it escapes. *)
Escapes ==
    (Quote :> <<Backslash, Quote>>) @@ (Backslash :> <<Backslash, Backslash>>) @@
    (8 :> <<Backslash, 98>>) @@ (9 :> <<Backslash, 116>>) @@ (10 :> <<Backslash, 110>>) @@
    (12 :> <<Backslash, 102>>) @@ (13 :> <<Backslash, 114>>)

UtfLen(c) == IF c < 224 THEN 2 ELSE IF c < 240 THEN 3 ELSE 4

UtfValue(d, i) ==
    LET len == UtfLen(d[i])
        lead == d[i] % (CASE len = 2 -> 32 [] len = 3 -> 16 [] OTHER -> 8)
    IN  FoldLeft(LAMBDA v, c : v * 64 + (c % 64), lead, SubSeq(d, i + 1, i + len - 1))

(* \u and at least four digits. *)
UtfText(v) ==
    LET w == IF v < 65536 THEN 4 ELSE 5
        Digit(x) == IF x < 10 THEN 48 + x ELSE 87 + x
    IN  <<Backslash, LetterU>> \o [j \in 1..w |-> Digit((v \div 16^(w - j)) % 16)]

(* _append_string_to_json.  start and end are the positions of the run of  *)
(* ordinary bytes that is still to be appended, 0 if unset.                *)
Encoded(d) ==
    LET RECURSIVE From(_, _, _, _)
        From(i, start, end, out) ==
            IF i > Len(d) THEN out
            ELSE
            LET utf == d[i] >= 128
                escaped == d[i] \in DOMAIN Escapes
                last == IF utf THEN i + UtfLen(d[i]) - 1 ELSE i
                first == IF utf \/ escaped \/ start > 0 THEN start ELSE i
                until == IF last = Len(d) THEN last ELSE IF utf \/ escaped THEN i ELSE end
                more == IF utf THEN UtfText(UtfValue(d, i))
                        ELSE IF escaped THEN Escapes[d[i]] ELSE <<>>
            IN  IF first > 0 /\ until > first
                THEN From(last + 1, 0, 0, out \o more \o SubSeq(d, first, until))
                ELSE From(last + 1, first, until, out \o more)
    IN  From(1, 0, 0, <<>>)

Quoted(d) == <<Quote>> \o Encoded(d) \o <<Quote>>

RECURSIVE Decimal(_)
Decimal(n) ==
    IF n < 0 THEN <<Minus>> \o Decimal(-n)
    ELSE IF n < 10 THEN <<48 + n>> ELSE Decimal(n \div 10) \o <<48 + (n % 10)>>

(* Mutant: nothing between the members. *)
JoinedBare(parts) == FlattenSeq(parts)

Joined(parts) ==
    FlattenSeq([i \in 1..Len(parts) |-> IF i = 1 THEN parts[i] ELSE <<Comma>> \o parts[i]])

(* _append_value_to_json and _append_object_to_json; a hash is walked in   *)
(* some order of its keys.                                                 *)
RECURSIVE Text(_)
Text(v) ==
    CASE v.k \in DOMAIN Spelling -> Spelling[v.k]
      [] v.k = "number" -> Decimal(v.n)
      [] v.k = "string" -> Quoted(v.s)
      [] v.k = "array" ->
            <<OpenArray>> \o Joined([i \in 1..Len(v.a) |-> Text(v.a[i])]) \o <<CloseArray>>
      [] v.k = "hash" ->
            LET keys == SetToSeq(DOMAIN v.h)
                Member(i) == Quoted(keys[i]) \o <<Colon>> \o Text(v.h[keys[i]])
            IN  <<OpenHash>> \o Joined([i \in 1..Len(keys) |-> Member(i)]) \o <<CloseHash>>
      [] OTHER -> <<>>
=============================================================================
