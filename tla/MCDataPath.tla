----------------------------- MODULE MCDataPath -----------------------------
(* Small instances of DataPath for TLC. *)
EXTENDS DataPath

(* Frames one after the other: kinds is a sequence of [type, len]. *)
LayOut(kinds) ==
    LET At[f \in 1..Len(kinds) + 1] == IF f = 1 THEN 0 ELSE At[f - 1] + kinds[f - 1].len
    IN [f \in 1..Len(kinds) |-> [type |-> kinds[f].type, at |-> At[f], len |-> kinds[f].len]]

Kind(t, n) == [type |-> t, len |-> n]
UpTo(n, Kinds) == {LayOut(k) : k \in UNION {[1..m -> Kinds] : m \in 1..n}}

(* Every kind of packet, with payloads of 0, 1, 3 and 4 bytes: the command  *)
(* of 3 is too short.                                                       *)
PacketStreams ==
    UpTo(4, {Kind("ctl", 1), Kind("str", 5), Kind("str", 6), Kind("obj", 6), Kind("cmd", 8), Kind("cmd", 9)})

(* As few bytes as leave every way of cutting them within reach. *)
ShortStreams == {LayOut(<<Kind("str", 6), Kind("ctl", 1), Kind("cmd", 9)>>)}

RequestStreams == UpTo(4, {Kind("head", 4), Kind("head", 6)})

UploadStreams == {LayOut(<<Kind("head", 5), Kind("body", 2), Kind("head", 4)>>)}

Server(t, d, h) == [type |-> t, data_type |-> d, lua_hook_data |-> h]

(* Every server whose loop ends whatever the bytes are. *)
PatientServers ==
    {Server(t, d, h) : t \in {"normal", "websocket", "internal"}, d \in {"packet", "raw"}, h \in BOOLEAN}
        \cup {Server("http", d, FALSE) : d \in {"packet", "raw"}}

AllScenarios ==
    [stream : PacketStreams, segments : {"one"}, prop : {Server("normal", "packet", TRUE)}]
        \cup [stream : RequestStreams, segments : {"whole"}, prop : {Server("http", d, TRUE) : d \in {"packet", "raw"}}]
        \cup [stream : ShortStreams, segments : {"any"}, prop : PatientServers]
CutPackets == [stream : ShortStreams, segments : {"any"}, prop : {Server("normal", "packet", TRUE)}]
CutUploads == [stream : UploadStreams, segments : {"any"}, prop : {Server("http", "packet", TRUE)}]
=============================================================================
