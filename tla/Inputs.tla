------------------------------- MODULE Inputs -------------------------------
(***************************************************************************)
(* All that bspd reads: what Intake has, and JSON written by its own       *)
(* encoder.                                                                *)
(***************************************************************************)
EXTENDS Intake, JsonText

CONSTANTS
    Characters,     \* the bytes of each character of a string
    MaxCharacters   \* a bound

ASSUME InputsAssumption == MaxCharacters \in Nat

Init ==
    \/ IntakeInit
    \/ in = [kind |-> "string", s |-> <<>>, size |-> 0]

AddCharacter ==
    /\ in.kind = "string" /\ in.size < MaxCharacters
    /\ \E c \in Characters : in' = [in EXCEPT !.s = @ \o c, !.size = @ + 1]

Next == IntakeNext \/ AddCharacter

Spec == Init /\ [][Next]_in

-----------------------------------------------------------------------------
Ordinary(c) == c < 128 /\ c \notin DOMAIN Escapes

(* The ordinary bytes are at the end and not just one, and every character *)
(* has a number of four digits.                                            *)
Kept(s) ==
    LET plain == {i \in 1..Len(s) : Ordinary(s[i])}
    IN  /\ \A i \in plain : \A j \in i..Len(s) : j \in plain
        /\ Cardinality(plain) # 1
        /\ \A i \in 1..Len(s) : s[i] < 240

(* Values a string can be a part of. *)
With(s) ==
    {Str(s), Arr(<<Num(-12), Str(s), Word("null")>>),
     Hash((s :> Arr(<<Str(s), Hash(<<>>)>>)) @@ (<<120, 121>> :> Word("true")))}

(* What json_nd_encode writes is read back by json_nd_decode as the same   *)
(* value just if its strings are of this form: _append_string_to_json      *)
(* loses a run of one ordinary byte and repeats the byte that ends a run.  *)
EncoderKeeps ==
    in.kind = "string" => \A v \in With(in.s) : Decoded(Text(v)) = v <=> Kept(in.s)

RECURSIVE PartsOf(_)
PartsOf(v) ==
    {v} \cup UNION {PartsOf(v.a[i]) : i \in 1..Len(v.a)}
    \cup UNION {PartsOf(v.h[key]) : key \in DOMAIN v.h}

EndMarks == {"array end", "hash end"}

(* What the decoder makes of a text, malformed or not, is a value that the *)
(* encoder writes and the decoder reads back, as far as its strings are    *)
(* kept and it took no closing bracket for a value (json_nd_decode,        *)
(* json_nd_encode).                                                        *)
DecodedAgain ==
    in.kind = "text" =>
        LET v == Decoded(in.t)
        IN  (\A u \in PartsOf(v) : u.k \notin EndMarks /\ \A s \in {u.s} \cup DOMAIN u.h : Kept(s))
            => Decoded(Text(v)) = v
=============================================================================
