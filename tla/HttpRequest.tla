---------------------------- MODULE HttpRequest ----------------------------
(***************************************************************************)
(* How protocol/http.c reads the header of a request, as a function of the *)
(* bytes that have arrived.  A text is a sequence of pieces: a byte, a     *)
(* line end, a method with the space after it, a version.  The fields of   *)
(* the request line and of the header lines go into one hash, the names of *)
(* the header lines in capitals.                                           *)
(***************************************************************************)
EXTENDS Scanning

CRLF == "CRLF"
Space == " "
KeyEnd == ":"

Methods ==
    [m \in {"OPTIONS ", "GET ", "HEAD ", "POST ", "PUT ", "DELETE ", "TRACE ", "CONNECT "} |->
        CASE m = "OPTIONS " -> "OPTIONS" [] m = "GET " -> "GET" [] m = "HEAD " -> "HEAD"
          [] m = "POST " -> "POST" [] m = "PUT " -> "PUT" [] m = "DELETE " -> "DELETE"
          [] m = "TRACE " -> "TRACE" [] m = "CONNECT " -> "CONNECT"]

Versions ==
    [v \in {"HTTP/0.9", "HTTP/1.0", "HTTP/1.1", "HTTP/2.0"} |->
        CASE v = "HTTP/0.9" -> "0.9" [] v = "HTTP/1.0" -> "1.0"
          [] v = "HTTP/1.1" -> "1.1" [] v = "HTTP/2.0" -> "2.0"]

VersionOf(v) == IF v \in DOMAIN Versions THEN Versions[v] ELSE "UNKNOWN"

(* Bytes up to 32, the value of one byte being signed: 8bit is above 127. *)
Control == {CRLF, "LF", "tab", "8bit"}
Blank == Control \cup {Space}

UpperOf == [x |-> "X", y |-> "Y", method |-> "METHOD"]
Upper(s) == [i \in 1..Len(s) |-> IF s[i] \in DOMAIN UpperOf THEN UpperOf[s[i]] ELSE s[i]]

(* What is left of a text without its first byte. *)
Chopped(t) ==
    IF t = <<>> THEN t
    ELSE IF Head(t) = CRLF THEN <<"LF">> \o Tail(t)
    ELSE IF Head(t) \in DOMAIN Versions \cup DOMAIN Methods THEN <<"chopped">> \o Tail(t)
    ELSE Tail(t)

Visible(t) == {t[i] : i \in 1..Len(t)} \ Blank

(* wild: the hash owns a string twice, or a value of no length was copied. *)
Request(fields, wild) == [fields |-> fields, wild |-> wild]
Set(r, key, value) ==
    [r EXCEPT !.fields =
        [name \in {key} \cup DOMAIN @ |-> IF name = key THEN value ELSE @[name]]]
NoRequest == Request(<<>>, FALSE)

METHOD == <<"METHOD">>
REQUEST_URI == <<"REQUEST_URI">>
VERSION == <<"VERSION">>

(* _parse_http_request_line.  The version is looked for in all that        *)
(* follows the URI; if nothing does, the string of the last key becomes    *)
(* the value of VERSION.                                                   *)
RequestLine(t) ==
    IF t = <<>> \/ Head(t) \notin DOMAIN Methods THEN NoRequest
    ELSE
    LET u == IF Head(t) = "OPTIONS " THEN Chopped(Tail(t)) ELSE Tail(t)
        start == Find(u, 1, Visible(u))
        end == Find(u, start, Blank)
        method == Set(NoRequest, METHOD, <<Methods[Head(t)]>>)
        uri == IF end > Len(u) THEN method ELSE Set(method, REQUEST_URI, SubSeq(u, start, end - 1))
        rest == SubSeq(u, end, Len(u))
        at == Find(rest, 1, Visible(rest))
    IN  IF at > Len(rest)
        THEN [Set(uri, VERSION, IF end > Len(u) THEN METHOD ELSE REQUEST_URI) EXCEPT !.wild = TRUE]
        ELSE Set(uri, VERSION, <<VersionOf(rest[at])>>)

(* Mutant: a value ends at its first blank. *)
ValueToBlank(line, from) ==
    LET start == Find(line, from, Visible(line))
    IN  SubSeq(line, start, Find(line, start, Blank) - 1)

ValueOf(line, from) ==
    LET start == Find(line, from, Visible(line))
    IN  SubSeq(line, start, Find(line, start, Control) - 1)

(* _parse_http_request_header *)
Header(r, line) ==
    LET start == Find(line, 1, Visible(line))
        end == Find(line, start, Blank \cup {KeyEnd})
        from == end + 1
    IN  IF end > Len(line) THEN r
        ELSE IF from > Len(line) \/ Find(line, from, Visible(line)) > Len(line)
        THEN [r EXCEPT !.wild = TRUE]
        ELSE Set(r, Upper(SubSeq(line, start, end - 1)), ValueOf(line, from))

(* What there is after n header lines, the first of which begins at p, and *)
(* where the next one begins.                                              *)
Lines(r, t, p) ==
    LET L[n \in 0..Len(t)] ==
            IF n = 0 THEN [req |-> r, pos |-> p]
            ELSE LET last == L[n - 1]
                     end == Find(t, last.pos, {CRLF})
                 IN  [req |-> Header(last.req, SubSeq(t, last.pos, end - 1)), pos |-> end + 1]
    IN  L

(* The lines from p on, at least one, up to the empty line at e. *)
Headers(r, t, p, e) ==
    LET L == Lines(r, t, p)
        n == CHOOSE n \in 1..Len(t) : L[n].pos >= e /\ \A m \in 1..(n - 1) : L[m].pos < e
    IN  L[n].req

EmptyLineAt(t, i) == i < Len(t) /\ t[i] = CRLF /\ t[i + 1] = CRLF

(* _parse_http_request *)
Parsed(t) ==
    LET ends == {i \in 1..Len(t) : EmptyLineAt(t, i)}
    IN  IF ends = {} THEN NoRequest
        ELSE Headers(RequestLine(t), t, Find(t, 1, {CRLF}) + 1,
                     CHOOSE i \in ends : \A j \in ends : i <= j)
=============================================================================
