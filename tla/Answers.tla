------------------------------- MODULE Answers -------------------------------
(***************************************************************************)
(* What hooks send to one connection: send_string, send_object,            *)
(* send_command and _real_send of server/main.c, run by the workers, next  *)
(* to what the I/O thread of the connection does meanwhile: it bares       *)
(* requests into the same BSPD_BARED slot of the fd in which HTTP answers  *)
(* are packed, echoes heartbeats into the same socket, and returns the     *)
(* slot to its pool when the connection ends.                              *)
(*                                                                         *)
(* Nothing here is locked.  An answer is its number; what is written to    *)
(* the socket is a sequence of pieces of answers, each bsp_socket_append() *)
(* being one step.  Using a slot that was returned sets "wild".            *)
(***************************************************************************)
EXTENDS Naturals, Sequences, FiniteSets

CONSTANTS
    Workers,
    Slots,          \* slots of mp_bared, each used once
    NULL,
    MaxSends,       \* bound: answers
    MaxRequests,    \* bound: requests and heartbeats
    Worlds          \* see world

Types == {"normal", "http", "websocket"}

World ==
    [type : Types, data_type : {"packet", "raw"}, workers : Nat \ {0},
     patient : BOOLEAN, unasked : BOOLEAN, heartbeats : BOOLEAN]

(* What is written to the socket at once. *)
Parts == {"hdr", "len", "data", "head", "body", "echo"}
Pieces == [answer : Nat, part : Parts]

ASSUME AnswersAssumption ==
    /\ Worlds \subseteq World
    /\ IsFiniteSet(Workers)
    /\ NULL \notin Slots \cup Pieces \cup Seq(Pieces)
    /\ MaxSends \in Nat /\ MaxRequests \in Nat

VARIABLES
    world,      \* set once: type and data_type of the server, how many of
                \* Workers there are, whether the peer waits for each answer,
                \* whether hooks send unasked, whether the peer sends heartbeats
    open,       \* the fd is registered
    slot,       \* the fd's BSPD_FD_ADD_BARED
    life,       \* life of each slot
    data,       \* packed->data, bared->data: pieces of an answer, or NULL
    io,         \* where the I/O thread is
    bared,      \* its slot
    received,   \* requests and heartbeats received
    tasks,      \* the data of each request handed to the scripts
    pc,         \* where each worker is in _real_send
    packed,     \* its slot
    answer,     \* the number of its answer
    sent,       \* answers begun
    out,        \* what was appended to the socket
    wild        \* a slot was used after it was returned

ioThread == <<io, bared, received, tasks>>
workers == <<pc, packed, answer, sent>>
memory == <<open, slot, life, data>>
vars == <<world, memory, ioThread, workers, out, wild>>

Piece(n, part) == [answer |-> n, part |-> part]

Init ==
    /\ world \in Worlds
    /\ open = TRUE
    /\ slot = NULL
    /\ life = [s \in Slots |-> "fresh"]
    /\ data = [s \in Slots |-> NULL]
    /\ io = "idle"
    /\ bared = NULL
    /\ received = 0
    /\ tasks = <<>>
    /\ pc = [w \in Workers |-> "idle"]
    /\ packed = [w \in Workers |-> NULL]
    /\ answer = [w \in Workers |-> 0]
    /\ sent = 0
    /\ out = <<>>
    /\ wild = FALSE

GoWild ==
    /\ wild' = TRUE
    /\ UNCHANGED <<memory, ioThread, workers, out>>

(* bsp_socket_append; what is appended to a closed socket is gone. *)
Write(pieces) == out' = IF open THEN out \o pieces ELSE out

-----------------------------------------------------------------------------
(* The workers *)

Busy == {w \in Workers : pc[w] # "idle"}

(* send_string, send_object, send_command up to the choice of a packer.    *)
(* Only packet servers send objects and commands; these and packets of a   *)
(* string differ in what their data says.                                  *)
Send(w) ==
    /\ open
    /\ pc[w] = "idle"
    /\ Cardinality(Busy) < world.workers
    /\ sent < MaxSends
    /\ world.unasked \/ sent < Len(tasks)
    /\ sent' = sent + 1
    /\ answer' = [answer EXCEPT ![w] = sent + 1]
    /\ pc' = [pc EXCEPT ![w] = IF world.type # "normal" THEN "get"
                               ELSE IF world.data_type = "packet" THEN "hdr" ELSE "data"]
    /\ UNCHANGED <<memory, ioThread, packed, out, wild>>

(* A server without packer: header, length and data are appended to the    *)
(* socket one by one.                                                      *)
Append3(w, part, next) ==
    /\ pc[w] = part
    /\ Write(<<Piece(answer[w], part)>>)
    /\ pc' = [pc EXCEPT ![w] = next]
    /\ UNCHANGED <<memory, ioThread, packed, answer, sent, wild>>

AppendHdr(w) == Append3(w, "hdr", "len")
AppendLen(w) == Append3(w, "len", "data")
AppendData(w) == Append3(w, "data", "idle")

GetSlot(w) ==
    /\ pc[w] = "get"
    /\ packed' = [packed EXCEPT ![w] = slot]
    /\ pc' = [pc EXCEPT ![w] = IF slot = NULL THEN "set" ELSE "head"]
    /\ UNCHANGED <<memory, ioThread, answer, sent, out, wild>>

(* No slot yet, in _real_send. *)
SetSlot(w) ==
    /\ pc[w] = "set"
    /\ \E s \in Slots :
          /\ life[s] = "fresh"
          /\ life' = [life EXCEPT ![s] = "live"]
          /\ slot' = s
          /\ packed' = [packed EXCEPT ![w] = s]
    /\ pc' = [pc EXCEPT ![w] = "head"]
    /\ UNCHANGED <<open, data, ioThread, answer, sent, out, wild>>

(* A step of worker w on its slot, from pc a to pc b, that leaves d in it. *)
OnSlot(w, a, b, d) ==
    /\ pc[w] = a
    /\ \/ /\ life[packed[w]] = "live"
          /\ data' = [data EXCEPT ![packed[w]] = d]
          /\ pc' = [pc EXCEPT ![w] = b]
          /\ UNCHANGED <<open, slot, life, ioThread, packed, answer, sent, wild>>
       \/ /\ life[packed[w]] = "freed"
          /\ GoWild

(* _build_http_response_header: what was there is replaced.  The websocket *)
(* packer does nothing.                                                    *)
BuildHeader(w) ==
    LET old == data[packed[w]] IN
    /\ OnSlot(w, "head", "body", IF world.type = "http" THEN <<Piece(answer[w], "head")>> ELSE old)
    /\ UNCHANGED out

(* Mutant: the body is packed, header or not. *)
PackBodyUnchecked(w) ==
    LET old == data[packed[w]] IN
    /\ OnSlot(w, "body", "append",
              IF world.type # "http" THEN old
              ELSE IF old = NULL THEN <<Piece(answer[w], "body")>> ELSE Append(old, Piece(answer[w], "body")))
    /\ UNCHANGED out

(* http_pack_data: the body follows, if the header is still there. *)
PackBody(w) ==
    LET old == data[packed[w]] IN
    /\ OnSlot(w, "body", "append",
              IF world.type = "http" /\ old # NULL THEN Append(old, Piece(answer[w], "body")) ELSE old)
    /\ UNCHANGED out

(* The answer is appended to the socket, if it is still there. *)
AppendPacked(w) ==
    LET old == data[packed[w]] IN
    /\ OnSlot(w, "append", IF old = NULL THEN "idle" ELSE "drop", old)
    /\ IF old = NULL \/ life[packed[w]] # "live" THEN UNCHANGED out ELSE Write(old)

(* Mutant: the answer stays in the slot. *)
DropPackedNot(w) ==
    /\ OnSlot(w, "drop", "idle", data[packed[w]])
    /\ UNCHANGED out

(* ... and deleted. *)
DropPacked(w) ==
    /\ OnSlot(w, "drop", "idle", NULL)
    /\ UNCHANGED out

-----------------------------------------------------------------------------
(* The I/O thread *)

(* A peer that waits sends nothing while an answer is due. *)
PeerSends ==
    /\ open /\ io = "idle"
    /\ received < MaxRequests
    /\ world.patient => Busy = {} /\ sent >= Len(tasks)

(* _bspd_on_data: a request has arrived. *)
OnData ==
    /\ PeerSends
    /\ received' = received + 1
    /\ bared' = slot
    /\ io' = IF slot = NULL THEN "set" ELSE "proc"
    /\ UNCHANGED <<memory, tasks, workers, out, wild>>

(* Mutant: what is stored was not allocated. *)
BareNewUnallocated ==
    /\ io = "set"
    /\ \E s \in Slots :
          /\ life[s] = "fresh"
          /\ slot' = s
          /\ bared' = s
    /\ io' = "proc"
    /\ UNCHANGED <<open, life, data, received, tasks, workers, out, wild>>

(* No slot yet, in _bspd_on_data. *)
BareNew ==
    /\ io = "set"
    /\ \E s \in Slots :
          /\ life[s] = "fresh"
          /\ life' = [life EXCEPT ![s] = "live"]
          /\ slot' = s
          /\ bared' = s
    /\ io' = "proc"
    /\ UNCHANGED <<open, data, received, tasks, workers, out, wild>>

(* The barer and _proc_raw or _proc_packet.  The HTTP barer leaves the     *)
(* data of the slot alone: a packet server finds no packet in it, a raw    *)
(* one hands it on.  Nothing else bares a request.                         *)
Proc ==
    /\ io = "proc"
    /\ tasks' = CASE world.type = "normal" -> Append(tasks, <<>>)
                  [] world.type = "http" /\ world.data_type = "raw" -> Append(tasks, data[bared])
                  [] OTHER -> tasks
    /\ io' = IF world.type = "websocket" THEN "idle" ELSE "clear"
    /\ UNCHANGED <<memory, bared, received, workers, out, wild>>

(* Its data, and whatever is there by now, is deleted. *)
Clear ==
    /\ io = "clear"
    /\ data' = [data EXCEPT ![bared] = NULL]
    /\ io' = "idle"
    /\ UNCHANGED <<open, slot, life, bared, received, tasks, workers, out, wild>>

(* BSPD_CTL_HEARTBEAT: "Send back". *)
Heartbeat ==
    /\ PeerSends
    /\ world.heartbeats /\ world.type = "normal" /\ world.data_type = "packet"
    /\ received' = received + 1
    /\ Write(<<Piece(0, "echo")>>)
    /\ UNCHANGED <<memory, io, bared, tasks, workers, wild>>

(* Mutant: the slot is kept. *)
OnDisconnectKeep ==
    /\ open /\ io = "idle"
    /\ io' = "close"
    /\ UNCHANGED <<memory, bared, received, tasks, workers, out, wild>>

(* _bspd_on_disconnect: the slot is returned and stays in the fd. *)
OnDisconnect ==
    /\ open /\ io = "idle"
    /\ IF slot = NULL
       THEN UNCHANGED <<life, data>>
       ELSE /\ life' = [life EXCEPT ![slot] = "freed"]
            /\ data' = [data EXCEPT ![slot] = NULL]
    /\ io' = "close"
    /\ UNCHANGED <<open, slot, bared, received, tasks, workers, out, wild>>

(* The library closes the fd. *)
Close ==
    /\ io = "close"
    /\ open' = FALSE
    /\ io' = "closed"
    /\ UNCHANGED <<slot, life, data, bared, received, tasks, workers, out, wild>>

RealSend(w) ==
    \/ AppendHdr(w) \/ AppendLen(w) \/ AppendData(w)
    \/ GetSlot(w) \/ SetSlot(w) \/ BuildHeader(w) \/ PackBody(w) \/ AppendPacked(w) \/ DropPacked(w)

IoStep == OnData \/ BareNew \/ Proc \/ Clear \/ Heartbeat \/ OnDisconnect \/ Close

Next == ~wild /\ (IoStep \/ \E w \in Workers : Send(w) \/ RealSend(w)) /\ UNCHANGED world

Spec == Init /\ [][Next]_vars

-----------------------------------------------------------------------------
(* Type invariant; once it has a slot the fd keeps one. *)
TypeOK ==
    /\ world \in Worlds
    /\ open \in BOOLEAN
    /\ slot \in Slots \cup {NULL}
    /\ life \in [Slots -> {"fresh", "live", "freed"}]
    /\ data \in [Slots -> Seq(Pieces) \cup {NULL}]
    /\ io \in {"idle", "set", "proc", "clear", "close", "closed"}
    /\ bared \in Slots \cup {NULL}
    /\ received \in 0..MaxRequests
    /\ tasks \in Seq(Seq(Pieces) \cup {NULL})
    /\ pc \in [Workers -> {"idle", "hdr", "len", "data", "get", "set", "head", "body", "append", "drop"}]
    /\ packed \in [Workers -> Slots \cup {NULL}]
    /\ answer \in [Workers -> Nat]
    /\ sent \in 0..MaxSends
    /\ out \in Seq(Pieces)
    /\ wild \in BOOLEAN
    /\ slot # NULL => life[slot] # "fresh"

(* One sender at a time writes into the socket, or each writes whole       *)
(* answers.                                                                *)
Framed ==
    \/ world.type = "normal" /\ world.data_type = "raw"
    \/ world.workers = 1 /\ ~world.heartbeats

(* The pieces that may follow piece p, none if there is a single one. *)
Continuation(p) ==
    CASE p.part = "hdr" -> Piece(p.answer, "len")
      [] p.part = "len" -> Piece(p.answer, "data")
      [] p.part = "head" -> Piece(p.answer, "body")
      [] OTHER -> NULL

Begins(p) ==
    p.part \in {"hdr", "head", "echo"} \/ (p.part = "data" /\ world.data_type = "raw")

(* What the peer reads is one whole answer after the other, each once and  *)
(* in the order of the sends if there is one worker, whatever the I/O      *)
(* thread deletes meanwhile, as long as no two threads append pieces       *)
(* (_real_send).                                                           *)
AnswersWhole ==
    Framed => \A i \in 1..Len(out) :
        LET expected == IF i = 1 THEN NULL ELSE Continuation(out[i - 1]) IN
        /\ IF expected = NULL THEN Begins(out[i]) ELSE out[i] = expected
        /\ world.workers = 1 /\ expected = NULL => \A j \in 1..(i - 1) : out[j].answer < out[i].answer

(* A slot in use is the connection's slot and is returned with it, as long *)
(* as hooks only answer requests: none is lost when two threads find that  *)
(* the fd has none (_real_send, _bspd_on_data, _bspd_on_disconnect).       *)
SlotKept ==
    ~world.unasked => \A s \in Slots : life[s] = "live" => s = slot /\ io \notin {"close", "closed"}

(* No answer is taken for the data of the next request, if hooks only      *)
(* answer and the peer waits for that (_real_send's deletion of            *)
(* packed->data).                                                          *)
NoAnswerAsData ==
    world.patient /\ ~world.unasked => \A i \in 1..Len(tasks) : tasks[i] \in {<<>>, NULL}
=============================================================================
