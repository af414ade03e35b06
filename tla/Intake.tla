------------------------------- MODULE Intake -------------------------------
(***************************************************************************)
(* What bspd is given that somebody else wrote: JSON from anybody, the     *)
(* headers of HTTP requests, and the command line with the configuration   *)
(* file.  Whoever writes them makes them longer step by step; the          *)
(* properties say what bspd makes of each.                                 *)
(***************************************************************************)
EXTENDS Configuration, HttpRequest, FiniteSets

CONSTANTS
    Pieces,         \* what a JSON text is put together from
    Words,          \* the options of the command line
    Files,          \* decoded configurations with an empty list of servers, or without
    Entries,        \* elements of the list of servers
    Environments,   \* what fails in libbsp
    Requests,       \* requests without header lines: method, uri, version, headers, body
    HeaderLines,    \* header lines: key and value
    MaxPieces, MaxOptions, MaxEntries, MaxHeaders     \* bounds

(* A value has all fields, and a string is a sequence.  In a request, only *)
(* the values of header lines have blanks, and do not begin with one.      *)
ASSUME IntakeAssumption ==
    /\ {MaxPieces, MaxOptions, MaxEntries, MaxHeaders} \subseteq Nat
    /\ Pieces \subseteq Seq(0..255)
    /\ \A f \in Files :
        Has(f, "servers") =>
            /\ DOMAIN f = DOMAIN Nothing /\ DOMAIN f.h["servers"] = DOMAIN Nothing
            /\ f.h["servers"].a = <<>>
    /\ \A e \in Entries : \A key \in DOMAIN e.h : e.h[key].s \in Seq(ToSet(e.h[key].s))
    /\ Requests \subseteq
        [method : DOMAIN Methods, uri : Seq(STRING \ Blank) \ {<<>>},
         version : {v \in Seq(STRING \ Blank) : Len(v) < 2}, headers : {<<>>}, body : Seq(STRING)]
    /\ HeaderLines \subseteq
        [key : Seq(STRING \ (Blank \cup {KeyEnd})) \ {<<>>}, value : Seq(STRING \ {CRLF})]
    /\ \A h \in HeaderLines : h.value # <<>> => h.value[1] \notin Blank

VARIABLE in     \* what has been written so far

IntakeInit ==
    \/ in = [kind |-> "text", t |-> <<>>, size |-> 0]
    \/ in \in [kind : {"start"}, args : {<<>>}, file : Files, env : Environments]
    \/ in \in [kind : {"request"}, req : Requests]

AddPiece ==
    /\ in.kind = "text" /\ in.size < MaxPieces
    /\ \E p \in Pieces : in' = [in EXCEPT !.t = @ \o p, !.size = @ + 1]

AddOption ==
    /\ in.kind = "start" /\ Len(in.args) < MaxOptions
    /\ \E w \in Words : in' = [in EXCEPT !.args = Append(@, w)]

AddEntry ==
    /\ in.kind = "start" /\ Has(in.file, "servers")
    /\ Len(in.file.h["servers"].a) < MaxEntries
    /\ \E e \in Entries : in' = [in EXCEPT !.file.h["servers"].a = Append(@, e)]

AddHeader ==
    /\ in.kind = "request" /\ Len(in.req.headers) < MaxHeaders
    /\ \E h \in HeaderLines : in' = [in EXCEPT !.req.headers = Append(@, h)]

IntakeNext == AddPiece \/ AddOption \/ AddEntry \/ AddHeader

IntakeSpec == IntakeInit /\ [][IntakeNext]_in

-----------------------------------------------------------------------------
(* However a text is broken off or malformed, the decoder does not go on   *)
(* behind its end (_get_value_from_json, _traverse_json_array,             *)
(* _traverse_json_hash).                                                   *)
DecoderInside ==
    in.kind = "text" => First(in.t).pos <= Len(in.t) + 1

-----------------------------------------------------------------------------
Start == Started(in.args, in.file, in.env)
GlobalTable == Has(in.file, "global") /\ in.file.h["global"].k = "hash"

(* What the command line asks for is not taken back by the file: -v traces *)
(* everything, if the file has a global table, and -d makes a daemon; the  *)
(* file is not needed for -h (main, parse_conf).                           *)
CommandLineWins ==
    in.kind = "start" =>
        /\ "v" \in ToSet(in.args) /\ Start.how = "running" /\ GlobalTable => Start.c.trace = All
        /\ "d" \in ToSet(in.args) /\ Start.how # "usage" => Start.c.daemonize
        /\ "h" \in ToSet(in.args) <=> Start.how = "usage"

(* The type of a server as its description has it, in its first word.  A   *)
(* word that is no type means http, and so does websocket.                 *)
Written(e) ==
    LET s == TextAt(e, "type")
    IN  IF s = NULL THEN "NORMAL"
        ELSE IF s = <<>> THEN "HTTP"
        ELSE IF s[1] = "internal" THEN "INTERNAL"
        ELSE IF s[1] = "normal" THEN "NORMAL" ELSE "HTTP"

(* A running bspd has one server for each table in the list, last first,   *)
(* of the type written there, if there is a global table, and none else    *)
(* (parse_conf, _parse_conf_server, bspd_startup).                         *)
ServersAsWritten ==
    in.kind = "start" /\ Start.how = "running" =>
        LET es == IF GlobalTable /\ Has(in.file, "servers") THEN in.file.h["servers"].a ELSE <<>>
            tables == {i \in 1..Len(es) : es[i].k = "hash"}
            Place(i) == Cardinality({j \in tables : j >= i})
        IN  /\ Len(Start.c.servers) = Cardinality(tables)
            /\ \A i \in tables :
                LET s == Start.c.servers[Place(i)]
                IN  s.type = Written(es[i]) /\ s.name = TextAt(es[i], "name")

-----------------------------------------------------------------------------
FirstLine(req) ==
    <<req.method>> \o req.uri \o (IF req.version = <<>> THEN <<>> ELSE <<Space>> \o req.version)
    \o <<CRLF>>

Line(h) == h.key \o <<KeyEnd, Space>> \o h.value \o <<CRLF>>

(* The first i header lines as they are sent. *)
HeaderText(hs) ==
    LET T[i \in 0..Len(hs)] == IF i = 0 THEN <<>> ELSE T[i - 1] \o Line(hs[i])
    IN  T

Sent(req) ==
    FirstLine(req) \o HeaderText(req.headers)[Len(req.headers)] \o <<CRLF>> \o req.body

Name(h) == Upper(h.key)

(* The header lines that are the last ones of their names. *)
Effective(hs) ==
    {i \in 1..Len(hs) : \A j \in (i + 1)..Len(hs) : Name(hs[j]) # Name(hs[i])}

(* The fields of a request, if no header line has the name of a field of   *)
(* the first line.                                                         *)
Meant(req) ==
    LET hs == req.headers
    IN  [name \in {METHOD, REQUEST_URI} \cup (IF req.version = <<>> THEN {} ELSE {VERSION})
                  \cup {Name(hs[i]) : i \in 1..Len(hs)} |->
            CASE name = METHOD -> <<Methods[req.method]>>
              [] name = REQUEST_URI -> req.uri
              [] name = VERSION -> <<VersionOf(req.version[1])>>
              [] OTHER -> hs[CHOOSE i \in Effective(hs) : Name(hs[i]) = name].value]

(* A version, no OPTIONS, no header line without a value, and values of    *)
(* visible ASCII and spaces.                                               *)
Plain(req) ==
    /\ req.method # "OPTIONS " /\ req.version # <<>>
    /\ \A i \in 1..Len(req.headers) : req.headers[i].value # <<>>
    /\ \A i \in Effective(req.headers) : ToSet(req.headers[i].value) \cap Control = {}

(* The fields of a request are read as they were sent, whatever body       *)
(* follows, just if it is of this form; a header line that has the name of *)
(* a field of the first line takes its place (_parse_http_request).        *)
RequestRead ==
    in.kind = "request" =>
        LET req == in.req
            hs == req.headers
            r == Parsed(Sent(req))
            Clear(i) == hs[i].value # <<>> /\ ToSet(hs[i].value) \cap Control = {}
        IN  /\ /\ req.uri # req.version
               /\ \A i \in 1..Len(hs) : Name(hs[i]) \notin {METHOD, REQUEST_URI, VERSION}
               => (r = Request(Meant(req), FALSE) <=> Plain(req))
            /\ \A i \in Effective(hs) : Clear(i) => r.fields[Name(hs[i])] = hs[i].value
=============================================================================
