------------------------------ MODULE DataPath ------------------------------
(***************************************************************************)
(* From the bytes of one connection to script tasks: _bspd_on_data of      *)
(* server/main.c with the barers of protocol/, _proc_packet and _proc_raw. *)
(*                                                                         *)
(* A byte is its position in the stream.  The peer's stream is a sequence  *)
(* of frames: packets (one header byte, and for data packets a four-byte   *)
(* length and that many bytes), or HTTP request headers and bodies.  What  *)
(* a packet parser finds anywhere else than at the start of a frame is     *)
(* left open.  The library (external) keeps the bytes that _bspd_on_data   *)
(* did not count as processed and offers them again in front of new ones.  *)
(***************************************************************************)
EXTENDS Integers, Sequences

CONSTANTS
    Scenarios,  \* [stream, segments, prop]: what a peer sends, what arrives at
                \* once, and the configuration of the server
    NULL

DataPackets == {"str", "obj", "cmd"}

Frame == [type : DataPackets \cup {"ctl", "head", "body"}, at : Nat, len : Nat \ {0}]

(* A frame that arrives in one segment, frames that arrive whole, or bytes. *)
Segments == {"one", "whole", "any"}

Prop == [type : {"normal", "http", "websocket", "internal"}, data_type : {"packet", "raw"}, lua_hook_data : BOOLEAN]

ASSUME DataPathAssumption ==
    /\ Scenarios \subseteq [stream : Seq(Frame), segments : Segments, prop : Prop]
    /\ NULL \notin [from : Nat, to : Nat]
    /\ \A s \in {x.stream : x \in Scenarios} : \A f \in DOMAIN s :
          /\ s[f].at = IF f = 1 THEN 0 ELSE s[f - 1].at + s[f - 1].len
          /\ s[f].type \in DataPackets => s[f].len >= 5
          /\ s[f].type = "head" => s[f].len >= 4

VARIABLES
    stream,     \* what the peer sends: frames [type, at: first byte, len: bytes]
    segments,   \* what arrives at once
    prop,       \* prop: the server's configuration
    arrived,    \* bytes received
    consumed,   \* bytes _bspd_on_data has reported as processed
    pc,         \* where _bspd_on_data is
    offset,     \* offset, counted from the start of the stream
    dataLen,    \* data_len
    data,       \* bared->data: a range of bytes
    proto,      \* bared->proto: the frame it was parsed from, 0 if from elsewhere
    bared,      \* bared->bared
    proced,     \* bared->proced
    tasks,      \* tasks pushed to the script queue
    controls    \* control packets obeyed: echoed, or set in the session

slot == <<data, proto, bared, proced>>
out == <<tasks, controls>>
peer == <<stream, segments, prop>>
vars == <<peer, arrived, consumed, pc, offset, dataLen, slot, out>>

Frames == DOMAIN stream
End(f) == stream[f].at + stream[f].len
StreamLen == IF stream = <<>> THEN 0 ELSE End(Len(stream))

Init ==
    /\ \E s \in Scenarios : stream = s.stream /\ segments = s.segments /\ prop = s.prop
    /\ arrived = 0
    /\ consumed = 0
    /\ pc = "idle"
    /\ offset = 0
    /\ dataLen = 0
    /\ data = NULL
    /\ proto = NULL
    /\ bared = FALSE
    /\ proced = 0
    /\ tasks = <<>>
    /\ controls = <<>>

-----------------------------------------------------------------------------
SegmentEnds ==
    CASE segments = "any" -> (arrived + 1)..StreamLen
      [] segments = "whole" -> {End(f) : f \in {g \in Frames : End(g) > arrived}}
      [] segments = "one" -> {End(f) : f \in {g \in Frames : stream[g].at = arrived}}

(* Bytes arrive and _bspd_on_data is called with all that is unprocessed. *)
OnData ==
    /\ pc = "idle"
    /\ arrived' \in SegmentEnds
    /\ pc' = "loop"
    /\ offset' = consumed
    /\ dataLen' = 0
    /\ UNCHANGED <<peer, consumed, slot, out>>

(* normal_bare_data: everything there is. *)
NormalBare ==
    /\ data' = [from |-> offset, to |-> arrived]
    /\ proto' = NULL
    /\ proced' = arrived - offset
    /\ bared' = TRUE

(* Ends of the request headers in the bytes from offset on (memmem). *)
HeaderEnds ==
    {End(f) : f \in {g \in Frames : stream[g].type = "head" /\ End(g) - 4 >= offset /\ End(g) <= arrived}}

(* The header that ends at e, if it is parsed from its start. *)
HeaderAt(e) ==
    {f \in Frames : stream[f].at = offset /\ End(f) = e}
        \cup {0 : f \in {g \in Frames : End(g) = e /\ stream[g].at # offset}}

(* Mutant: the header is parsed and not counted as processed. *)
HttpBareUncounted ==
    /\ proto' = IF proto = NULL /\ HeaderEnds # {} THEN 0 ELSE proto
    /\ proced' = 0
    /\ bared' = TRUE
    /\ UNCHANGED data

(* http_bare_data: the first header, or none.  expectation is never set,   *)
(* so the slot counts as bared in any case.                                *)
HttpBare ==
    /\ IF proto = NULL /\ HeaderEnds # {}
       THEN \E e \in HeaderEnds :
               /\ \A o \in HeaderEnds : e <= o
               /\ proced' = e - offset
               /\ proto' \in HeaderAt(e)
       ELSE /\ proced' = IF proto = NULL THEN 0 ELSE proced
            /\ UNCHANGED proto
    /\ bared' = TRUE
    /\ UNCHANGED data

(* The loop's head and the barer; websocket and internal ones do nothing. *)
Bare ==
    /\ pc = "loop"
    /\ offset < arrived
    /\ pc' = "proc"
    /\ CASE prop.type = "normal" -> NormalBare
         [] prop.type = "http" -> HttpBare
         [] OTHER -> UNCHANGED slot
    /\ UNCHANGED <<peer, arrived, consumed, offset, dataLen, out>>

-----------------------------------------------------------------------------
(* What _proc_packet may read in the bytes d: the frame that starts there, *)
(* or anything.  plen is the number in the four bytes of the length.       *)
Readings(d) ==
    LET F == {f \in Frames : stream[f].at = d.from /\ stream[f].type \in DataPackets \cup {"ctl"}} IN
    IF F # {} THEN {[frame |-> f, type |-> stream[f].type, plen |-> stream[f].len - 5] : f \in F}
    ELSE [frame : {0}, type : DataPackets \cup {"ctl"}, plen : {-1, 0, 1, 4}]

(* Mutant: the length is compared as a signed number. *)
HalfBakedSigned(n, plen) == n < 5 \/ n - 5 < plen

(* Mutant: the last byte is not counted. *)
HalfBakedOffByOne(n, plen) == n < 5 \/ plen < 0 \/ n - 5 <= plen

(* The length, or the payload, is not all among the n bytes; converted to  *)
(* size_t a negative plen is larger than any packet.                       *)
HalfBaked(n, plen) == n < 5 \/ plen < 0 \/ n - 5 < plen

Payload(d, r) == [from |-> d.from + 5, to |-> d.from + 5 + r.plen]

Dropped(d, r) == HalfBaked(d.to - d.from, r.plen) \/ (r.type = "cmd" /\ r.plen < 4)

(* _proc_packet: one packet at the start of bared->data.  What it returns  *)
(* is never negative, and the caller looks at nothing else of it.          *)
ProcPacket ==
    \/ /\ data = NULL
       /\ UNCHANGED out
    \/ /\ data # NULL
       /\ \E r \in Readings(data) :
             \/ /\ r.type = "ctl"
                /\ controls' = Append(controls, r.frame)
                /\ UNCHANGED tasks
             \/ /\ r.type # "ctl"
                /\ Dropped(data, r)
                /\ UNCHANGED out
             \/ /\ r.type # "ctl"
                /\ ~Dropped(data, r)
                /\ tasks' = Append(tasks, [type |-> r.type, frame |-> r.frame, data |-> Payload(data, r)])
                /\ UNCHANGED controls

(* _proc_raw: the task takes a copy of the data, and the proto itself. *)
ProcRaw ==
    /\ tasks' = Append(tasks, [type |-> "raw", frame |-> proto, data |-> data])
    /\ UNCHANGED controls

(* A bared slot is processed and cleared. *)
Proc ==
    /\ pc = "proc"
    /\ bared /\ prop.lua_hook_data
    /\ IF prop.data_type = "packet" THEN ProcPacket ELSE ProcRaw
    /\ dataLen' = dataLen + proced
    /\ offset' = offset + proced
    /\ data' = NULL
    /\ proto' = NULL
    /\ bared' = FALSE
    /\ pc' = "loop"
    /\ UNCHANGED <<peer, arrived, consumed, proced>>

(* "Next time", or the end of the bytes: data_len is what the library drops. *)
Return ==
    /\ \/ pc = "proc" /\ ~(bared /\ prop.lua_hook_data)
       \/ pc = "loop" /\ offset >= arrived
    /\ pc' = "idle"
    /\ consumed' = consumed + dataLen
    /\ UNCHANGED <<peer, arrived, offset, dataLen, slot, out>>

Next == OnData \/ Bare \/ Proc \/ Return

Spec == Init /\ [][Next]_vars

-----------------------------------------------------------------------------
(* Type invariant; what is processed has arrived. *)
TypeOK ==
    /\ stream \in Seq(Frame)
    /\ segments \in Segments
    /\ prop \in Prop
    /\ arrived \in Nat
    /\ consumed \in 0..arrived
    /\ pc \in {"idle", "loop", "proc"}
    /\ offset \in 0..arrived
    /\ dataLen \in Nat
    /\ data \in [from : Nat, to : Nat] \cup {NULL}
    /\ proto \in Frames \cup {0, NULL}
    /\ bared \in BOOLEAN
    /\ proced \in Nat
    /\ tasks \in Seq([type : DataPackets \cup {"raw"}, frame : Frames \cup {0, NULL},
                      data : [from : Int, to : Int] \cup {NULL}])
    /\ controls \in Seq(Frames \cup {0})

(* However the bytes are cut into segments, a task's payload is a range of  *)
(* bytes that have arrived: _proc_packet copies nothing from outside the    *)
(* input (the signed plen against the unsigned remaining).                  *)
PayloadInInput ==
    \A i \in 1..Len(tasks) :
        tasks[i].data # NULL => tasks[i].data.from <= tasks[i].data.to /\ tasks[i].data.to <= arrived

(* What a received frame asks of the scripts: a header alone carries no     *)
(* packet, and a command packet may be too short for a command.             *)
AskTask(f) ==
    \/ stream[f].type = "head" /\ prop.data_type = "raw"
    \/ stream[f].type \in DataPackets /\ (stream[f].type = "cmd" => stream[f].len >= 9)

Received == {f \in Frames : End(f) <= arrived}

(* Each packet in a segment of its own, or request headers that come whole, *)
(* to a server that hands them on.                                          *)
OnePacket ==
    /\ segments = "one"
    /\ prop = [type |-> "normal", data_type |-> "packet", lua_hook_data |-> TRUE]
    /\ \A f \in Frames : stream[f].type \in DataPackets \cup {"ctl"}

WholeHeaders ==
    /\ segments = "whole"
    /\ prop.type = "http" /\ prop.lua_hook_data
    /\ \A f \in Frames : stream[f].type = "head"

(* The sequence s goes through the frames F, each once, in their order. *)
GoesThrough(s, F) ==
    /\ {s[i] : i \in DOMAIN s} = F
    /\ \A i, j \in DOMAIN s : i < j => s[i] < s[j]

(* Between two calls every received frame has been handed to the scripts,   *)
(* or obeyed, once and in the order of the stream, when each packet comes   *)
(* in a segment of its own, or request headers come whole (_bspd_on_data).  *)
FramesHandledOnce ==
    pc = "idle" /\ (OnePacket \/ WholeHeaders) =>
        /\ consumed = arrived
        /\ GoesThrough([i \in DOMAIN tasks |-> tasks[i].frame], {f \in Received : AskTask(f)})
        /\ GoesThrough(controls, {f \in Received : stream[f].type = "ctl"})

(* Each turn of the loop of _bspd_on_data gets on: it never handles the     *)
(* same bytes again ("Next time" leaves the loop).                          *)
LoopProgress == [][pc = "proc" /\ pc' = "loop" => offset' > offset]_vars

(* "Half-baked packet": what is not all there is not dropped. *)
HalfBakedKept ==
    \A f \in Frames : stream[f].type \in DataPackets => ~(stream[f].at < consumed /\ consumed < End(f))
=============================================================================
