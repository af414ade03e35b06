---------------------------- MODULE AnswersProofs ----------------------------
(***************************************************************************)
(* Proofs about Answers, for any number of workers, slots, answers and     *)
(* requests, in every world.                                               *)
(***************************************************************************)
EXTENDS Answers, FiniteSetTheorems, SequenceTheorems, TLAPS

(* Who works on a slot has one. *)
HandsInv ==
    /\ \A w \in Workers :
        pc[w] \in {"head", "body", "append", "drop"} =>
            packed[w] \in Slots /\ life[packed[w]] # "fresh"
    /\ io \in {"proc", "clear"} => bared \in Slots

(* The first request makes the slot, so no answer does. *)
SlotInv ==
    ~world.unasked =>
        /\ Len(tasks) > 0 \/ io \in {"proc", "clear"} => slot # NULL
        /\ io = "set" => slot = NULL
        /\ \A w \in Workers : pc[w] # "set" /\ (pc[w] # "idle" => Len(tasks) > 0)
        /\ SlotKept

(* Data in a slot is an answer of a worker that is not done with it; while *)
(* a request of a patient peer is bared no worker is.                      *)
Packing(w, s) == pc[w] \in {"body", "append", "drop"} /\ packed[w] = s

DataInv ==
    /\ \A s \in Slots : data[s] # NULL => \E w \in Workers : Packing(w, s)
    /\ world.patient /\ ~world.unasked =>
        /\ io \in {"set", "proc"} => (\A w \in Workers : pc[w] = "idle") /\ sent >= Len(tasks)
        /\ NoAnswerAsData

-----------------------------------------------------------------------------
(* The steps of a worker on its slot, wild or not. *)
LEMMA OnSlotTypes ==
    ASSUME TypeOK, HandsInv, NEW w \in Workers,
           NEW a \in {"head", "body", "append", "drop"},
           NEW b \in {"body", "append", "drop", "idle"},
           NEW d \in Seq(Pieces) \cup {NULL}, OnSlot(w, a, b, d),
           out' \in Seq(Pieces), UNCHANGED world
    PROVE  TypeOK' /\ HandsInv'
<1>1. packed[w] \in Slots
  BY DEF HandsInv, OnSlot
<1>2. CASE wild' = TRUE /\ UNCHANGED <<memory, ioThread, workers>>
  BY <1>2 DEF TypeOK, HandsInv, memory, ioThread, workers
<1>3. CASE /\ data' = [data EXCEPT ![packed[w]] = d]
           /\ pc' = [pc EXCEPT ![w] = b]
           /\ UNCHANGED <<open, slot, life, ioThread, packed, answer, sent, wild>>
  <2>1. data' \in [Slots -> Seq(Pieces) \cup {NULL}]
    BY <1>1, <1>3 DEF TypeOK
  <2>2. pc' \in [Workers -> {"idle", "hdr", "len", "data", "get", "set", "head", "body", "append", "drop"}]
    BY <1>3 DEF TypeOK
  <2>3. TypeOK'
    BY <1>3, <2>1, <2>2 DEF TypeOK, ioThread
  <2>4. HandsInv'
    BY <1>3, <1>1 DEF TypeOK, HandsInv, ioThread, OnSlot
  <2> QED
    BY <2>3, <2>4
<1> QED
  BY <1>2, <1>3 DEF OnSlot, GoWild

LEMMA PieceType ==
    ASSUME TypeOK, NEW w \in Workers, NEW part \in Parts
    PROVE  Piece(answer[w], part) \in Pieces
BY DEF TypeOK, Piece, Pieces

LEMMA WriteType ==
    ASSUME TypeOK, NEW q \in Seq(Pieces), Write(q)
    PROVE  out' \in Seq(Pieces)
BY DEF TypeOK, Write

LEMMA AppendTypes ==
    ASSUME TypeOK, HandsInv, UNCHANGED world,
           NEW w \in Workers, AppendHdr(w) \/ AppendLen(w) \/ AppendData(w)
    PROVE  TypeOK' /\ HandsInv'
<1>1. PICK part \in {"hdr", "len", "data"}, next \in {"len", "data", "idle"} : Append3(w, part, next)
  BY DEF AppendHdr, AppendLen, AppendData
<1>2. out' \in Seq(Pieces)
  <2>1. Piece(answer[w], part) \in Pieces
    BY PieceType DEF Parts
  <2>2. <<Piece(answer[w], part)>> \in Seq(Pieces)
    BY <2>1
  <2>3. Write(<<Piece(answer[w], part)>>)
    BY <1>1 DEF Append3
  <2> QED
    BY <2>2, <2>3, WriteType
<1>3. pc' = [pc EXCEPT ![w] = next] /\ UNCHANGED <<memory, ioThread, packed, answer, sent, wild>>
  BY <1>1 DEF Append3
<1>4. pc' \in [Workers -> {"idle", "hdr", "len", "data", "get", "set", "head", "body", "append", "drop"}]
  BY <1>3 DEF TypeOK
<1>5. TypeOK'
  BY <1>2, <1>3, <1>4 DEF TypeOK, memory, ioThread
<1>6. HandsInv'
  BY <1>3 DEF TypeOK, HandsInv, memory, ioThread
<1> QED
  BY <1>5, <1>6

LEMMA PackTypes ==
    ASSUME TypeOK, HandsInv, UNCHANGED world, NEW w \in Workers,
           BuildHeader(w) \/ PackBody(w) \/ AppendPacked(w) \/ DropPacked(w)
    PROVE  TypeOK' /\ HandsInv'
<1> DEFINE old == data[packed[w]]
<1>1. pc[w] \in {"head", "body", "append", "drop"}
  BY DEF BuildHeader, PackBody, AppendPacked, DropPacked, OnSlot
<1>2. old \in Seq(Pieces) \cup {NULL} /\ out \in Seq(Pieces)
  BY <1>1 DEF TypeOK, HandsInv
<1>3. /\ Piece(answer[w], "head") \in Pieces
      /\ Piece(answer[w], "body") \in Pieces
  BY PieceType DEF Parts
<1>4. CASE BuildHeader(w)
  <2>1. <<Piece(answer[w], "head")>> \in Seq(Pieces)
    BY <1>3
  <2> QED
    BY <1>2, <1>4, <2>1, OnSlotTypes DEF BuildHeader
<1>5. CASE PackBody(w)
  <2> DEFINE d == IF world.type = "http" /\ old # NULL THEN Append(old, Piece(answer[w], "body")) ELSE old
  <2>1. d \in Seq(Pieces) \cup {NULL}
    BY <1>2, <1>3
  <2>2. OnSlot(w, "body", "append", d) /\ out' = out
    BY <1>5 DEF PackBody
  <2> HIDE DEF d
  <2> QED
    BY <1>2, <2>1, <2>2, OnSlotTypes
<1>6. CASE AppendPacked(w)
  <2>1. out' \in Seq(Pieces)
    BY <1>2, <1>6, WriteType DEF AppendPacked
  <2>2. PICK b \in {"idle", "drop"} : OnSlot(w, "append", b, old)
    BY <1>6 DEF AppendPacked
  <2> QED
    BY <1>2, <2>1, <2>2, OnSlotTypes
<1>7. CASE DropPacked(w)
  BY <1>2, <1>7, OnSlotTypes DEF DropPacked
<1> QED
  BY <1>4, <1>5, <1>6, <1>7

LEMMA WorkerTypes ==
    ASSUME TypeOK, HandsInv, UNCHANGED world, NEW w \in Workers, Send(w) \/ RealSend(w)
    PROVE  TypeOK' /\ HandsInv'
<1> USE AnswersAssumption
<1>1. CASE Send(w)
  <2>1. sent + 1 \in 0..MaxSends /\ sent + 1 \in Nat
    BY <1>1 DEF Send, TypeOK
  <2>2. /\ answer' \in [Workers -> Nat]
        /\ pc' \in [Workers -> {"idle", "hdr", "len", "data", "get", "set", "head", "body", "append", "drop"}]
    BY <1>1, <2>1 DEF Send, TypeOK
  <2>3. TypeOK'
    BY <1>1, <2>1, <2>2 DEF Send, TypeOK, memory, ioThread
  <2> QED
    BY <1>1, <2>3 DEF Send, TypeOK, HandsInv, memory, ioThread
<1>2. CASE GetSlot(w)
  <2>1. pc' \in [Workers -> {"idle", "hdr", "len", "data", "get", "set", "head", "body", "append", "drop"}]
    BY <1>2 DEF GetSlot, TypeOK
  <2>2. TypeOK'
    BY <1>2, <2>1 DEF GetSlot, TypeOK, memory, ioThread
  <2> QED
    BY <1>2, <2>2 DEF GetSlot, TypeOK, HandsInv, memory, ioThread
<1>3. CASE SetSlot(w)
  <2>1. TypeOK'
    BY <1>3 DEF SetSlot, TypeOK, ioThread
  <2> QED
    BY <1>3, <2>1 DEF SetSlot, TypeOK, HandsInv, ioThread
<1> QED
  BY <1>1, <1>2, <1>3, AppendTypes, PackTypes DEF RealSend

LEMMA IoTypes ==
    ASSUME TypeOK, HandsInv, UNCHANGED world, IoStep
    PROVE  TypeOK' /\ HandsInv'
<1> USE AnswersAssumption
<1>1. CASE OnData
  BY <1>1 DEF OnData, PeerSends, TypeOK, HandsInv, memory, workers
<1>2. CASE BareNew
  BY <1>2 DEF BareNew, TypeOK, HandsInv, workers
<1>3. CASE Proc
  <2>1. data[bared] \in Seq(Pieces) \cup {NULL} /\ <<>> \in Seq(Pieces)
    BY <1>3 DEF Proc, TypeOK, HandsInv
  <2>2. tasks' \in Seq(Seq(Pieces) \cup {NULL})
    <3>1. tasks' = tasks \/ \E d \in Seq(Pieces) \cup {NULL} : tasks' = Append(tasks, d)
      BY <1>3, <2>1 DEF Proc
    <3>2. tasks \in Seq(Seq(Pieces) \cup {NULL})
      BY DEF TypeOK
    <3> QED
      BY <3>1, <3>2
  <2> QED
    BY <1>3, <2>2 DEF Proc, TypeOK, HandsInv, memory, workers
<1>4. CASE Clear
  BY <1>4 DEF Clear, TypeOK, HandsInv, workers
<1>5. CASE Heartbeat
  <2>1. Piece(0, "echo") \in Pieces
    BY DEF Piece, Pieces, Parts
  <2>2. <<Piece(0, "echo")>> \in Seq(Pieces) /\ Write(<<Piece(0, "echo")>>)
    BY <1>5, <2>1 DEF Heartbeat
  <2>3. out' \in Seq(Pieces)
    BY <2>2, WriteType
  <2> QED
    BY <1>5, <2>3 DEF Heartbeat, PeerSends, TypeOK, HandsInv, memory, workers
<1>6. CASE OnDisconnect
  <2>1. life' \in [Slots -> {"fresh", "live", "freed"}] /\ data' \in [Slots -> Seq(Pieces) \cup {NULL}]
    BY <1>6 DEF OnDisconnect, TypeOK
  <2>2. \A s \in Slots : life[s] # "fresh" => life'[s] # "fresh"
    BY <1>6 DEF OnDisconnect, TypeOK
  <2> QED
    BY <1>6, <2>1, <2>2 DEF OnDisconnect, TypeOK, HandsInv, workers
<1>7. CASE Close
  BY <1>7 DEF Close, TypeOK, HandsInv, workers
<1> QED
  BY <1>1, <1>2, <1>3, <1>4, <1>5, <1>6, <1>7 DEF IoStep

LEMMA TypesNext == TypeOK /\ HandsInv /\ [Next]_vars => TypeOK' /\ HandsInv'
<1> SUFFICES ASSUME TypeOK, HandsInv, [Next]_vars PROVE TypeOK' /\ HandsInv'
  OBVIOUS
<1>1. CASE UNCHANGED vars
  BY <1>1 DEF vars, memory, ioThread, workers, TypeOK, HandsInv
<1> QED
  BY <1>1, IoTypes, WorkerTypes DEF Next

LEMMA TypesInit == Init => TypeOK /\ HandsInv
<1> SUFFICES ASSUME Init PROVE TypeOK /\ HandsInv
  OBVIOUS
<1>1. tasks \in Seq(Seq(Pieces) \cup {NULL}) /\ out \in Seq(Pieces)
  BY DEF Init
<1>2. 0 \in 0..MaxSends /\ 0 \in 0..MaxRequests
  BY AnswersAssumption
<1> QED
  BY <1>1, <1>2 DEF Init, TypeOK, HandsInv

(* The variables keep their types, and the fd's slot was allocated. *)
THEOREM TypeCorrect == Spec => []TypeOK
<1>1. Spec => [](TypeOK /\ HandsInv)
  BY TypesInit, TypesNext, PTL DEF Spec
<1> QED
  BY <1>1, PTL

-----------------------------------------------------------------------------
(* What a step of a worker on its slot can change. *)
LEMMA OnSlotFacts ==
    ASSUME TypeOK, HandsInv, NEW w \in Workers, NEW a, NEW b, NEW d, OnSlot(w, a, b, d)
    PROVE  /\ UNCHANGED <<open, slot, life, ioThread, packed, answer, sent>>
           /\ \/ pc' = [pc EXCEPT ![w] = b] /\ data' = [data EXCEPT ![packed[w]] = d]
              \/ UNCHANGED <<pc, data>>
BY DEF OnSlot, GoWild, memory, ioThread, workers

(* A send neither gives an fd a slot nor goes without a request, if hooks  *)
(* only answer.                                                            *)
LEMMA SlotWorker ==
    ASSUME TypeOK, HandsInv, SlotInv, ~world.unasked, UNCHANGED world,
           NEW w \in Workers, Send(w) \/ RealSend(w)
    PROVE  SlotInv'
<1>1. UNCHANGED <<slot, life, io, tasks>> /\ (pc'[w] # "set") /\ (pc'[w] # "idle" => Len(tasks) > 0)
  <2>1. CASE Send(w)
    BY <2>1 DEF Send, TypeOK, memory, ioThread
  <2>2. CASE AppendHdr(w) \/ AppendLen(w) \/ AppendData(w)
    BY <2>2 DEF AppendHdr, AppendLen, AppendData, Append3, TypeOK, SlotInv, memory, ioThread
  <2>3. CASE GetSlot(w)
    BY <2>3 DEF GetSlot, TypeOK, SlotInv, memory, ioThread
  <2>4. CASE SetSlot(w)
    BY <2>4 DEF SetSlot, SlotInv
  <2>5. CASE BuildHeader(w) \/ PackBody(w) \/ AppendPacked(w) \/ DropPacked(w)
    <3>1. \E a \in {"head", "body", "append", "drop"}, b \in {"idle", "body", "append", "drop"} :
            \E d : OnSlot(w, a, b, d)
      BY <2>5 DEF BuildHeader, PackBody, AppendPacked, DropPacked
    <3>2. PICK a \in {"head", "body", "append", "drop"}, b \in {"idle", "body", "append", "drop"} :
            \E d : OnSlot(w, a, b, d)
      BY <3>1
    <3>3. PICK d : OnSlot(w, a, b, d)
      BY <3>2
    <3>4. pc[w] # "idle"
      BY <3>3 DEF OnSlot
    <3> QED
      BY <3>3, <3>4, OnSlotFacts DEF TypeOK, SlotInv, ioThread
  <2> QED
    BY <2>1, <2>2, <2>3, <2>4, <2>5 DEF RealSend
<1>2. \A v \in Workers : v # w => pc'[v] = pc[v]
  BY DEF TypeOK, Send, RealSend, AppendHdr, AppendLen, AppendData, Append3, GetSlot, SetSlot,
     BuildHeader, PackBody, AppendPacked, DropPacked, OnSlot, GoWild, workers
<1> QED
  BY <1>1, <1>2 DEF SlotInv, SlotKept

LEMMA SlotIo ==
    ASSUME TypeOK, HandsInv, SlotInv, ~world.unasked, UNCHANGED world, IoStep
    PROVE  SlotInv'
<1> USE AnswersAssumption
<1>1. CASE OnData
  BY <1>1 DEF OnData, PeerSends, TypeOK, SlotInv, SlotKept, memory, workers
<1>2. CASE BareNew
  BY <1>2 DEF BareNew, TypeOK, SlotInv, SlotKept, workers
<1>3. CASE Proc
  <2>1. Len(tasks') >= Len(tasks)
    <3>1. tasks' = tasks \/ \E d : tasks' = Append(tasks, d)
      BY <1>3 DEF Proc
    <3> QED
      BY <3>1 DEF TypeOK
  <2> QED
    BY <1>3, <2>1 DEF Proc, TypeOK, SlotInv, SlotKept, memory, workers
<1>4. CASE Clear
  BY <1>4 DEF Clear, TypeOK, SlotInv, SlotKept, workers
<1>5. CASE Heartbeat
  BY <1>5 DEF Heartbeat, TypeOK, SlotInv, SlotKept, memory, workers
<1>6. CASE OnDisconnect
  BY <1>6 DEF OnDisconnect, TypeOK, SlotInv, SlotKept, workers
<1>7. CASE Close
  BY <1>7 DEF Close, TypeOK, SlotInv, SlotKept, workers
<1> QED
  BY <1>1, <1>2, <1>3, <1>4, <1>5, <1>6, <1>7 DEF IoStep

LEMMA SlotNext == TypeOK /\ HandsInv /\ SlotInv /\ [Next]_vars => SlotInv'
<1> SUFFICES ASSUME TypeOK, HandsInv, SlotInv, [Next]_vars PROVE SlotInv'
  OBVIOUS
<1>1. CASE UNCHANGED vars
  BY <1>1 DEF vars, memory, ioThread, workers, SlotInv, SlotKept
<1>2. CASE world.unasked
  BY <1>2 DEF Next, vars, SlotInv
<1> QED
  BY <1>1, <1>2, SlotIo, SlotWorker DEF Next

LEMMA SlotInit == Init => SlotInv
BY DEF Init, SlotInv, SlotKept

(* As long as hooks only answer, the slot in use is the connection's and   *)
(* goes with it.                                                           *)
THEOREM SlotCorrect == Spec => []SlotKept
<1>1. SlotInv => SlotKept
  BY DEF SlotInv, SlotKept
<1>2. Spec => [](TypeOK /\ HandsInv /\ SlotInv)
  BY TypesInit, TypesNext, SlotInit, SlotNext, PTL DEF Spec
<1> QED
  BY <1>1, <1>2, PTL

-----------------------------------------------------------------------------
LEMMA DataOnSlot ==
    ASSUME TypeOK, HandsInv, DataInv, NEW w \in Workers,
           NEW a \in {"head", "body", "append", "drop"},
           NEW b \in {"body", "append", "drop", "idle"}, NEW d,
           OnSlot(w, a, b, d), d # NULL => b # "idle", UNCHANGED world
    PROVE  DataInv'
<1>1. /\ packed[w] \in Slots /\ pc[w] = a
      /\ UNCHANGED <<packed, sent, io, tasks>>
      /\ \/ pc' = [pc EXCEPT ![w] = b] /\ data' = [data EXCEPT ![packed[w]] = d]
         \/ UNCHANGED <<pc, data>>
  BY OnSlotFacts DEF HandsInv, OnSlot, ioThread
<1>2. ASSUME NEW s \in Slots, data'[s] # NULL PROVE \E v \in Workers : Packing(v, s)'
  <2>1. CASE UNCHANGED <<pc, data>>
    BY <1>1, <1>2, <2>1 DEF DataInv, Packing
  <2>2. CASE pc' = [pc EXCEPT ![w] = b] /\ data' = [data EXCEPT ![packed[w]] = d]
    <3>1. CASE s = packed[w]
      <4>1. d # NULL
        BY <1>2, <2>2, <3>1 DEF TypeOK
      <4>2. Packing(w, s)'
        BY <1>1, <2>2, <3>1, <4>1 DEF TypeOK, Packing
      <4> QED
        BY <4>2
    <3>2. CASE s # packed[w]
      <4>1. data[s] # NULL
        BY <1>2, <2>2, <3>2 DEF TypeOK
      <4>2. PICK v \in Workers : Packing(v, s)
        BY <4>1 DEF DataInv
      <4>3. v # w
        BY <3>2, <4>2 DEF Packing
      <4>4. Packing(v, s)'
        BY <1>1, <2>2, <4>2, <4>3 DEF TypeOK, Packing
      <4> QED
        BY <4>4
    <3> QED
      BY <3>1, <3>2
  <2> QED
    BY <1>1, <2>1, <2>2
<1>3. (world.patient /\ ~world.unasked => ~(io \in {"set", "proc"})) /\ pc[w] # "idle"
  BY <1>1 DEF DataInv
<1> QED
  BY <1>1, <1>2, <1>3 DEF DataInv, NoAnswerAsData

LEMMA DataWorker ==
    ASSUME TypeOK, HandsInv, DataInv, UNCHANGED world,
           NEW w \in Workers, Send(w) \/ RealSend(w)
    PROVE  DataInv'
<1> DEFINE old == data[packed[w]]
<1>1. CASE BuildHeader(w) \/ PackBody(w) \/ AppendPacked(w) \/ DropPacked(w)
  <2>1. PICK a \in {"head", "body", "append", "drop"}, b \in {"body", "append", "drop", "idle"} :
            \E d : OnSlot(w, a, b, d) /\ (d # NULL => b # "idle")
    <3>1. CASE BuildHeader(w)
      BY <3>1 DEF BuildHeader
    <3>2. CASE PackBody(w)
      BY <3>2 DEF PackBody
    <3>3. CASE AppendPacked(w)
      <4>1. OnSlot(w, "append", IF old = NULL THEN "idle" ELSE "drop", old)
        BY <3>3 DEF AppendPacked
      <4> QED
        BY <4>1
    <3>4. CASE DropPacked(w)
      BY <3>4 DEF DropPacked
    <3> QED
      BY <1>1, <3>1, <3>2, <3>3, <3>4
  <2>2. PICK d : OnSlot(w, a, b, d) /\ (d # NULL => b # "idle")
    BY <2>1
  <2> QED
    BY <2>2, DataOnSlot
<1>2. CASE Send(w) \/ AppendHdr(w) \/ AppendLen(w) \/ AppendData(w) \/ GetSlot(w) \/ SetSlot(w)
  <2>1. /\ UNCHANGED <<data, io, tasks>> /\ ~(pc[w] \in {"body", "append", "drop"})
        /\ \A v \in Workers : v # w => pc'[v] = pc[v] /\ packed'[v] = packed[v]
    BY <1>2 DEF TypeOK, Send, AppendHdr, AppendLen, AppendData, Append3, GetSlot, SetSlot, memory, ioThread
  <2>2. ASSUME NEW s \in Slots, data'[s] # NULL PROVE \E v \in Workers : Packing(v, s)'
    <3>1. PICK v \in Workers : Packing(v, s)
      BY <2>1, <2>2 DEF DataInv
    <3>2. Packing(v, s)'
      BY <2>1, <3>1 DEF Packing
    <3> QED
      BY <3>2
  <2>3. world.patient /\ ~world.unasked => ~(io \in {"set", "proc"})
    <3>1. CASE Send(w)
      BY <3>1 DEF Send, DataInv, TypeOK
    <3>2. CASE pc[w] # "idle"
      BY <3>2 DEF DataInv
    <3> QED
      BY <1>2, <3>1, <3>2 DEF AppendHdr, AppendLen, AppendData, Append3, GetSlot, SetSlot
  <2> QED
    BY <2>1, <2>2, <2>3 DEF DataInv, NoAnswerAsData
<1> QED
  BY <1>1, <1>2 DEF RealSend

LEMMA DataIo ==
    ASSUME TypeOK, HandsInv, DataInv, UNCHANGED world, IoStep
    PROVE  DataInv'
<1> USE AnswersAssumption
<1>1. UNCHANGED workers /\ (\A s \in Slots : data'[s] # NULL => data[s] # NULL)
  BY DEF IoStep, OnData, BareNew, Proc, Clear, Heartbeat, OnDisconnect, Close, TypeOK, HandsInv, memory
<1>2. \A s \in Slots : data'[s] # NULL => \E w \in Workers : Packing(w, s)'
  BY <1>1 DEF workers, DataInv, Packing
<1>3. ASSUME world.patient, ~world.unasked
      PROVE  /\ io' \in {"set", "proc"} => (\A w \in Workers : pc'[w] = "idle") /\ sent' >= Len(tasks')
             /\ NoAnswerAsData'
  <2>1. CASE OnData
    <3>1. Busy = {} /\ sent >= Len(tasks)
      BY <1>3, <2>1 DEF OnData, PeerSends
    <3>2. \A w \in Workers : pc[w] = "idle"
      BY <3>1 DEF Busy
    <3> QED
      BY <1>3, <2>1, <3>1, <3>2 DEF OnData, DataInv, NoAnswerAsData, workers
  <2>2. CASE Proc
    <3>1. data[bared] = NULL /\ bared \in Slots
      BY <1>3, <2>2 DEF Proc, HandsInv, DataInv, Packing
    <3>2. tasks' \in {tasks, Append(tasks, <<>>), Append(tasks, NULL)} /\ io' \in {"idle", "clear"}
      BY <2>2, <3>1 DEF Proc
    <3>3. \A d \in {<<>>, NULL} :
            Len(Append(tasks, d)) = Len(tasks) + 1
            /\ \A i \in 1..(Len(tasks) + 1) : Append(tasks, d)[i] = IF i <= Len(tasks) THEN tasks[i] ELSE d
      BY DEF TypeOK
    <3>4. \A i \in 1..Len(tasks) : tasks[i] \in {<<>>, NULL}
      BY <1>3 DEF DataInv, NoAnswerAsData
    <3>5. Len(tasks) \in Nat
      BY DEF TypeOK
    <3>6. \A i \in 1..Len(tasks') : tasks'[i] \in {<<>>, NULL}
      BY <3>2, <3>3, <3>4, <3>5
    <3> QED
      BY <3>2, <3>6 DEF NoAnswerAsData
  <2>3. CASE BareNew \/ Clear \/ Heartbeat \/ OnDisconnect \/ Close
    <3>1. tasks' = tasks /\ (io' \in {"set", "proc"} => io \in {"set", "proc"})
      BY <2>3 DEF BareNew, Clear, Heartbeat, OnDisconnect, Close
    <3> QED
      BY <1>1, <1>3, <3>1 DEF DataInv, NoAnswerAsData, workers
  <2> QED
    BY <2>1, <2>2, <2>3 DEF IoStep
<1> QED
  BY <1>2, <1>3 DEF DataInv

LEMMA DataNext == TypeOK /\ HandsInv /\ DataInv /\ [Next]_vars => DataInv'
<1> SUFFICES ASSUME TypeOK, HandsInv, DataInv, [Next]_vars PROVE DataInv'
  OBVIOUS
<1>1. CASE UNCHANGED vars
  BY <1>1 DEF vars, memory, ioThread, workers, DataInv, Packing, NoAnswerAsData
<1> QED
  BY <1>1, DataIo, DataWorker DEF Next

LEMMA DataInit == Init => DataInv
BY DEF Init, DataInv, NoAnswerAsData

(* No answer becomes a request's data while hooks only answer and the peer *)
(* waits for that.                                                         *)
THEOREM DataCorrect == Spec => []NoAnswerAsData
<1>1. DataInv => NoAnswerAsData
  BY DEF DataInv, NoAnswerAsData
<1>2. Spec => [](TypeOK /\ HandsInv /\ DataInv)
  BY TypesInit, TypesNext, DataInit, DataNext, PTL DEF Spec
<1> QED
  BY <1>1, <1>2, PTL

-----------------------------------------------------------------------------
(* What the peer reads.  Due is the piece that must come next, if any. *)
Due(q) == IF Len(q) = 0 THEN NULL ELSE Continuation(q[Len(q)])

Whole(q) ==
    \A i \in 1..Len(q) :
        LET expected == IF i = 1 THEN NULL ELSE Continuation(q[i - 1]) IN
        /\ IF expected = NULL THEN Begins(q[i]) ELSE q[i] = expected
        /\ world.workers = 1 /\ expected = NULL => \A j \in 1..(i - 1) : q[j].answer < q[i].answer

(* One worker of one works on the last answer. *)
AloneInv ==
    world.workers = 1 =>
        /\ \A v, w \in Workers : pc[v] # "idle" /\ pc[w] # "idle" => v = w
        /\ \A w \in Workers : pc[w] # "idle" => answer[w] = sent

(* Where _real_send leads depends on the server. *)
PathInv ==
    \A w \in Workers :
        pc[w] \in IF world.type # "normal" THEN {"idle", "get", "set", "head", "body", "append", "drop"}
                  ELSE IF world.data_type = "packet" THEN {"idle", "hdr", "len", "data"} ELSE {"idle", "data"}

(* What is packed is the worker's own answer, or what the I/O thread left. *)
PackedInv ==
    /\ world.type = "websocket" => \A s \in Slots : data[s] = NULL
    /\ world.type = "http" /\ world.workers = 1 => \A w \in Workers :
        /\ pc[w] = "body" => data[packed[w]] \in {NULL, <<Piece(answer[w], "head")>>}
        /\ pc[w] = "append" =>
            data[packed[w]] \in {NULL, <<Piece(answer[w], "head"), Piece(answer[w], "body")>>}

(* A worker has written a part of its answer, or nothing yet. *)
Owes(w) == world.data_type = "packet" /\ pc[w] \in {"len", "data"}
Unheard(w) ==
    \/ pc[w] \in {"hdr", "get", "set", "head", "body", "append"}
    \/ pc[w] = "data" /\ world.data_type = "raw"

DueInv ==
    Framed /\ open =>
        /\ (\A w \in Workers : ~Owes(w)) => Due(out) = NULL
        /\ \A w \in Workers : Owes(w) => Due(out) = Piece(answer[w], pc[w])

OutInv ==
    Framed =>
        /\ Whole(out)
        /\ world.workers = 1 => \A i \in 1..Len(out) :
            out[i].answer <= sent /\ \A w \in Workers : Unheard(w) => out[i].answer < answer[w]

-----------------------------------------------------------------------------
LEMMA Continuations ==
    ASSUME NEW n \in Nat
    PROVE  /\ Continuation(Piece(n, "hdr")) = Piece(n, "len")
           /\ Continuation(Piece(n, "len")) = Piece(n, "data")
           /\ Continuation(Piece(n, "head")) = Piece(n, "body")
           /\ Continuation(Piece(n, "data")) = NULL
           /\ Continuation(Piece(n, "body")) = NULL
BY DEF Continuation, Piece

LEMMA PairAppend ==
    ASSUME NEW S, NEW x \in S, NEW y \in S
    PROVE  Append(<<x>>, y) = <<x, y>> /\ <<x>> \o <<y>> = <<x, y>>
<1>1. <<x>> \in Seq(S) /\ <<y>> \in Seq(S) /\ <<x, y>> \in Seq(S)
  OBVIOUS
<1>2. Append(<<x>>, y) \in Seq(S) /\ <<x>> \o <<y>> \in Seq(S)
  BY <1>1
<1>3. Len(Append(<<x>>, y)) = 2 /\ Len(<<x>> \o <<y>>) = 2 /\ Len(<<x, y>>) = 2
  BY <1>1
<1>4. \A i \in 1..2 : Append(<<x>>, y)[i] = <<x, y>>[i] /\ (<<x>> \o <<y>>)[i] = <<x, y>>[i]
  BY <1>1
<1> QED
  BY <1>1, <1>2, <1>3, <1>4, SeqEqual

LEMMA PieceNotNull ==
    ASSUME NEW n \in Nat, NEW part \in Parts
    PROVE  Piece(n, part) # NULL
<1>1. Piece(n, part) \in Pieces
  BY DEF Piece, Pieces
<1> QED
  BY <1>1, AnswersAssumption

(* A piece more. *)
LEMMA WholeAppend ==
    ASSUME NEW q \in Seq(Pieces), Whole(q), NEW p \in Pieces,
           IF Due(q) = NULL
           THEN Begins(p) /\ (world.workers = 1 => \A j \in 1..Len(q) : q[j].answer < p.answer)
           ELSE p = Due(q)
    PROVE  /\ q \o <<p>> \in Seq(Pieces) /\ Len(q \o <<p>>) = Len(q) + 1
           /\ \A i \in 1..(Len(q) + 1) : (q \o <<p>>)[i] = IF i <= Len(q) THEN q[i] ELSE p
           /\ Whole(q \o <<p>>) /\ Due(q \o <<p>>) = Continuation(p)
<1> DEFINE r == q \o <<p>>
<1>1. /\ r \in Seq(Pieces) /\ Len(r) = Len(q) + 1 /\ Len(q) \in Nat
      /\ \A i \in 1..(Len(q) + 1) : r[i] = IF i <= Len(q) THEN q[i] ELSE p
  OBVIOUS
<1> HIDE DEF r
<1>2. Due(r) = Continuation(p)
  <2>1. Len(r) # 0 /\ r[Len(r)] = p
    BY <1>1
  <2> QED
    BY <2>1 DEF Due
<1>3. ASSUME NEW i \in 1..Len(r)
      PROVE  LET expected == IF i = 1 THEN NULL ELSE Continuation(r[i - 1]) IN
             /\ IF expected = NULL THEN Begins(r[i]) ELSE r[i] = expected
             /\ world.workers = 1 /\ expected = NULL => \A j \in 1..(i - 1) : r[j].answer < r[i].answer
  <2> DEFINE expected == IF i = 1 THEN NULL ELSE Continuation(r[i - 1])
  <2>1. CASE i <= Len(q)
    <3>1. i \in 1..Len(q) /\ r[i] = q[i] /\ (i # 1 => r[i - 1] = q[i - 1])
          /\ \A j \in 1..(i - 1) : r[j] = q[j]
      BY <1>1, <2>1
    <3> QED
      BY <3>1 DEF Whole
  <2>2. CASE i = Len(q) + 1
    <3>1. r[i] = p /\ \A j \in 1..Len(q) : r[j] = q[j]
      BY <1>1, <2>2
    <3>2. expected = Due(q)
      <4>1. CASE Len(q) = 0
        BY <2>2, <4>1 DEF Due
      <4>2. CASE Len(q) # 0
        <5>1. i # 1 /\ i - 1 = Len(q) /\ Len(q) \in 1..Len(q)
          BY <1>1, <2>2, <4>2
        <5> QED
          BY <3>1, <4>2, <5>1 DEF Due
      <4> QED
        BY <4>1, <4>2
    <3>3. i - 1 = Len(q)
      BY <1>1, <2>2
    <3> HIDE DEF expected
    <3>4. IF expected = NULL THEN Begins(r[i]) ELSE r[i] = expected
      BY <3>1, <3>2
    <3>5. world.workers = 1 /\ expected = NULL => \A j \in 1..(i - 1) : r[j].answer < r[i].answer
      BY <3>1, <3>2, <3>3
    <3> QED
      BY <3>4, <3>5 DEF expected
  <2> QED
    BY <1>1, <2>1, <2>2
<1>4. Whole(r)
  BY <1>3 DEF Whole
<1> QED
  BY <1>1, <1>2, <1>4 DEF r

-----------------------------------------------------------------------------
(* How a step moves a worker. *)
LEMMA SendMoves ==
    ASSUME TypeOK, NEW w \in Workers, Send(w)
    PROVE  /\ pc[w] = "idle" /\ (world.workers = 1 => \A v \in Workers : pc[v] = "idle")
           /\ sent' = sent + 1 /\ answer' = [answer EXCEPT ![w] = sent + 1]
           /\ pc' = [pc EXCEPT ![w] = IF world.type # "normal" THEN "get"
                                      ELSE IF world.data_type = "packet" THEN "hdr" ELSE "data"]
           /\ UNCHANGED <<open, data, packed, out>>
<1>1. IsFiniteSet(Busy)
  BY AnswersAssumption, FS_Subset DEF Busy
<1>2. Cardinality(Busy) \in Nat /\ (Cardinality(Busy) = 0 <=> Busy = {})
  BY <1>1, FS_CardinalityType, FS_EmptySet
<1>3. world.workers = 1 => Busy = {}
  BY <1>2 DEF Send
<1> QED
  BY <1>3 DEF Send, Busy, memory

LEMMA RealSendMoves ==
    ASSUME TypeOK, HandsInv, PathInv, NEW w \in Workers, RealSend(w), UNCHANGED world
    PROVE  /\ pc[w] # "idle" /\ UNCHANGED <<answer, sent, open>>
           /\ pc' = [pc EXCEPT ![w] = pc'[w]]
           /\ \A v \in Workers : v # w => packed'[v] = packed[v]
           /\ PathInv'
<1>1. /\ pc[w] # "idle" /\ UNCHANGED <<answer, sent, open>>
      /\ \A v \in Workers : v # w => packed'[v] = packed[v]
  BY DEF TypeOK, RealSend, AppendHdr, AppendLen, AppendData, Append3, GetSlot, SetSlot,
     BuildHeader, PackBody, AppendPacked, DropPacked, OnSlot, GoWild, memory, workers
<1>2. \E b : pc' = [pc EXCEPT ![w] = b]
             /\ b \in IF world.type # "normal" THEN {"idle", "get", "set", "head", "body", "append", "drop"}
                  ELSE IF world.data_type = "packet" THEN {"idle", "hdr", "len", "data"} ELSE {"idle", "data"}
  <2>1. CASE AppendHdr(w) \/ AppendLen(w) \/ AppendData(w)
    BY <2>1 DEF PathInv, AppendHdr, AppendLen, AppendData, Append3
  <2>2. CASE GetSlot(w) \/ SetSlot(w)
    BY <2>2 DEF PathInv, GetSlot, SetSlot
  <2>3. CASE BuildHeader(w) \/ PackBody(w) \/ AppendPacked(w) \/ DropPacked(w)
    <3>1. PICK a \in {"head", "body", "append", "drop"}, b \in {"body", "append", "drop", "idle"} :
            \E d : OnSlot(w, a, b, d)
      BY <2>3 DEF BuildHeader, PackBody, AppendPacked, DropPacked
    <3>2. pc[w] = a /\ (pc' = [pc EXCEPT ![w] = b] \/ pc' = pc)
      BY <3>1 DEF OnSlot, GoWild, workers
    <3>3. pc' = pc => pc' = [pc EXCEPT ![w] = pc[w]]
      BY DEF TypeOK
    <3> QED
      BY <3>2, <3>3 DEF PathInv
  <2> QED
    BY <2>1, <2>2, <2>3 DEF RealSend
<1>3. pc' = [pc EXCEPT ![w] = pc'[w]] /\ PathInv'
  BY <1>2 DEF TypeOK, PathInv
<1> QED
  BY <1>1, <1>3

LEMMA PathNext ==
    ASSUME TypeOK, HandsInv, AloneInv, PathInv, [Next]_vars
    PROVE  AloneInv' /\ PathInv'
<1>1. CASE UNCHANGED vars \/ (IoStep /\ UNCHANGED world)
  <2>1. UNCHANGED <<world, workers>>
    BY <1>1 DEF vars, IoStep, OnData, BareNew, Proc, Clear, Heartbeat, OnDisconnect, Close, workers
  <2> QED
    BY <2>1 DEF workers, AloneInv, PathInv
<1>2. ASSUME NEW w \in Workers, Send(w), UNCHANGED world PROVE AloneInv' /\ PathInv'
  <2> DEFINE first == IF world.type # "normal" THEN "get"
                      ELSE IF world.data_type = "packet" THEN "hdr" ELSE "data"
  <2>1. /\ world.workers = 1 => \A v \in Workers : pc[v] = "idle"
        /\ sent' = sent + 1 /\ answer' = [answer EXCEPT ![w] = sent + 1]
        /\ pc' = [pc EXCEPT ![w] = first]
    BY <1>2, SendMoves
  <2>2. \A v \in Workers : v # w => pc'[v] = pc[v] /\ answer'[v] = answer[v]
    BY <2>1 DEF TypeOK
  <2>3. pc'[w] = first /\ answer'[w] = sent'
    BY <2>1 DEF TypeOK
  <2>4. AloneInv'
    BY <1>2, <2>1, <2>2, <2>3 DEF AloneInv
  <2>5. PathInv'
    BY <1>2, <2>2, <2>3 DEF PathInv
  <2> QED
    BY <2>4, <2>5
<1>3. ASSUME NEW w \in Workers, RealSend(w), UNCHANGED world PROVE AloneInv' /\ PathInv'
  <2>1. /\ pc[w] # "idle" /\ UNCHANGED <<answer, sent>> /\ PathInv'
        /\ pc' = [pc EXCEPT ![w] = pc'[w]]
    BY <1>3, RealSendMoves
  <2>2. \A v \in Workers : pc'[v] # "idle" => pc[v] # "idle"
    BY <2>1 DEF TypeOK
  <2> QED
    BY <1>3, <2>1, <2>2 DEF AloneInv
<1> QED
  BY <1>1, <1>2, <1>3 DEF Next

-----------------------------------------------------------------------------
LEMMA PackedNext ==
    ASSUME TypeOK, HandsInv, AloneInv, PathInv, PackedInv, [Next]_vars
    PROVE  PackedInv'
<1>1. CASE UNCHANGED vars
  BY <1>1 DEF vars, memory, workers, PackedInv
<1>2. CASE IoStep /\ UNCHANGED world
  <2>1. UNCHANGED workers /\ \A s \in Slots : data'[s] \in {NULL, data[s]}
    BY <1>2 DEF IoStep, OnData, BareNew, Proc, Clear, Heartbeat, OnDisconnect, Close, TypeOK, HandsInv, memory
  <2>2. \A w \in Workers : pc[w] \in {"body", "append"} => packed[w] \in Slots
    BY DEF HandsInv
  <2> QED
    BY <1>2, <2>1, <2>2 DEF workers, PackedInv
<1>3. ASSUME NEW w \in Workers, Send(w), UNCHANGED world PROVE PackedInv'
  <2>1. /\ world.workers = 1 => \A v \in Workers : pc[v] = "idle"
        /\ pc' = [pc EXCEPT ![w] = pc'[w]] /\ ~(pc'[w] \in {"body", "append"})
        /\ UNCHANGED data
    BY <1>3, SendMoves DEF TypeOK
  <2>2. world.workers = 1 => \A v \in Workers : ~(pc'[v] \in {"body", "append"})
    BY <2>1 DEF TypeOK
  <2> QED
    BY <1>3, <2>1, <2>2 DEF PackedInv
<1>4. ASSUME NEW w \in Workers, RealSend(w), UNCHANGED world PROVE PackedInv'
  <2> DEFINE old == data[packed[w]]
  <2>1. /\ pc[w] # "idle" /\ UNCHANGED answer /\ pc' = [pc EXCEPT ![w] = pc'[w]]
    BY <1>4, RealSendMoves
  <2>2. world.workers = 1 => \A v \in Workers : v # w => pc'[v] = "idle"
    BY <2>1 DEF TypeOK, AloneInv
  <2>3. CASE AppendHdr(w) \/ AppendLen(w) \/ AppendData(w) \/ GetSlot(w) \/ SetSlot(w)
    <3>1. UNCHANGED data /\ ~(pc'[w] \in {"body", "append"})
      BY <2>3 DEF AppendHdr, AppendLen, AppendData, Append3, GetSlot, SetSlot, TypeOK, memory
    <3> QED
      BY <1>4, <2>2, <3>1 DEF PackedInv
  <2>4. CASE UNCHANGED <<pc, data, packed>>
    BY <1>4, <2>1, <2>4 DEF PackedInv
  <2>5. ASSUME NEW b \in {"body", "append", "drop", "idle"}, NEW d,
               packed[w] \in Slots, pc' = [pc EXCEPT ![w] = b], UNCHANGED packed,
               data' = [data EXCEPT ![packed[w]] = d],
               world.type = "websocket" => d = NULL,
               world.type = "http" /\ b = "body" => d \in {NULL, <<Piece(answer[w], "head")>>},
               world.type = "http" /\ world.workers = 1 /\ b = "append" =>
                    d \in {NULL, <<Piece(answer[w], "head"), Piece(answer[w], "body")>>}
        PROVE  PackedInv'
    <3>1. pc'[w] = b /\ data'[packed[w]] = d /\ (\A s \in Slots : s # packed[w] => data'[s] = data[s])
      BY <2>5 DEF TypeOK
    <3> QED
      BY <1>4, <2>1, <2>2, <2>5, <3>1 DEF PackedInv
  <2>6. CASE BuildHeader(w) \/ PackBody(w) \/ AppendPacked(w) \/ DropPacked(w)
    <3>1. packed[w] \in Slots
      BY <2>6 DEF HandsInv, BuildHeader, PackBody, AppendPacked, DropPacked, OnSlot
    <3>2. world.type = "websocket" => old = NULL
      BY <3>1 DEF PackedInv
    <3>3. CASE BuildHeader(w)
      <4> DEFINE d == IF world.type = "http" THEN <<Piece(answer[w], "head")>> ELSE old
      <4>1. OnSlot(w, "head", "body", d)
        BY <3>3 DEF BuildHeader
      <4>2. UNCHANGED <<pc, data, packed>> \/ (pc' = [pc EXCEPT ![w] = "body"]
            /\ UNCHANGED packed /\ data' = [data EXCEPT ![packed[w]] = d])
        BY <4>1 DEF OnSlot, GoWild, memory, workers
      <4> QED
        BY <2>4, <2>5, <3>1, <3>2, <4>2
    <3>4. CASE PackBody(w)
      <4> DEFINE d == IF world.type = "http" /\ old # NULL THEN Append(old, Piece(answer[w], "body")) ELSE old
      <4>1. OnSlot(w, "body", "append", d)
        BY <3>4 DEF PackBody
      <4>2. UNCHANGED <<pc, data, packed>> \/ (pc' = [pc EXCEPT ![w] = "append"]
            /\ UNCHANGED packed /\ data' = [data EXCEPT ![packed[w]] = d])
        BY <4>1 DEF OnSlot, GoWild, memory, workers
      <4>3. world.type = "http" /\ world.workers = 1 => old \in {NULL, <<Piece(answer[w], "head")>>}
        BY <4>1 DEF OnSlot, PackedInv
      <4>4. Append(<<Piece(answer[w], "head")>>, Piece(answer[w], "body"))
            = <<Piece(answer[w], "head"), Piece(answer[w], "body")>>
        BY PieceType, PairAppend DEF Parts
      <4>5. world.type = "http" /\ world.workers = 1 =>
                d \in {NULL, <<Piece(answer[w], "head"), Piece(answer[w], "body")>>}
        BY <4>3, <4>4
      <4>6. world.type = "websocket" => d = NULL
        BY <3>2
      <4> HIDE DEF d
      <4> QED
        BY <2>4, <2>5, <3>1, <4>2, <4>5, <4>6
    <3>5. CASE AppendPacked(w)
      <4> DEFINE b == IF old = NULL THEN "idle" ELSE "drop"
      <4>1. OnSlot(w, "append", b, old)
        BY <3>5 DEF AppendPacked
      <4>2. UNCHANGED <<pc, data, packed>> \/ (pc' = [pc EXCEPT ![w] = b]
            /\ UNCHANGED packed /\ data' = [data EXCEPT ![packed[w]] = old])
        BY <4>1 DEF OnSlot, GoWild, memory, workers
      <4> QED
        BY <2>4, <2>5, <3>1, <3>2, <4>2
    <3>6. CASE DropPacked(w)
      <4>1. OnSlot(w, "drop", "idle", NULL)
        BY <3>6 DEF DropPacked
      <4>2. UNCHANGED <<pc, data, packed>> \/ (pc' = [pc EXCEPT ![w] = "idle"]
            /\ UNCHANGED packed /\ data' = [data EXCEPT ![packed[w]] = NULL])
        BY <4>1 DEF OnSlot, GoWild, memory, workers
      <4> QED
        BY <2>4, <2>5, <3>1, <4>2
    <3> QED
      BY <2>6, <3>3, <3>4, <3>5, <3>6
  <2> QED
    BY <1>4, <2>3, <2>6 DEF RealSend
<1> QED
  BY <1>1, <1>2, <1>3, <1>4 DEF Next

-----------------------------------------------------------------------------
WInv == AloneInv /\ PathInv /\ PackedInv /\ DueInv /\ OutInv

(* A step that appends nothing. *)
LEMMA SilentKeeps ==
    ASSUME TypeOK, WInv, UNCHANGED <<world, out>>, open' => open, sent' \in Nat, sent' >= sent,
           \A w \in Workers : answer'[w] \in Nat,
           \A w \in Workers : Owes(w)' <=> Owes(w),
           \A w \in Workers : Owes(w) => pc'[w] = pc[w] /\ answer'[w] = answer[w],
           world.workers = 1 => \A w \in Workers : Unheard(w)' =>
                (Unheard(w) /\ answer'[w] = answer[w]) \/ answer'[w] > sent
    PROVE  DueInv' /\ OutInv'
<1>1. DueInv'
  BY DEF WInv, DueInv, Framed, Due, Continuation
<1>2. Framed => Whole(out)'
  BY DEF WInv, OutInv, Framed, Whole, Begins, Continuation
<1>3. \A i \in 1..Len(out) : out[i].answer \in Nat
  <2>1. \A i \in 1..Len(out) : out[i] \in Pieces
    BY DEF TypeOK
  <2> QED
    BY <2>1 DEF Pieces
<1>4. ASSUME Framed, world.workers = 1, NEW i \in 1..Len(out)
      PROVE  out[i].answer <= sent' /\ \A w \in Workers : Unheard(w)' => out[i].answer < answer'[w]
  <2>1. out[i].answer <= sent /\ \A w \in Workers : Unheard(w) => out[i].answer < answer[w]
    BY <1>4 DEF WInv, OutInv
  <2>2. sent \in Nat
    BY DEF TypeOK
  <2> QED
    BY <1>3, <1>4, <2>1, <2>2
<1>5. OutInv'
  BY <1>2, <1>4 DEF OutInv, Framed
<1> QED
  BY <1>1, <1>5

(* A step of worker w that appends one piece to the socket. *)
LEMMA PieceKeeps ==
    ASSUME TypeOK, WInv, UNCHANGED <<world, open, sent, answer>>, Framed, open,
           NEW w \in Workers, pc[w] # "idle", pc' = [pc EXCEPT ![w] = pc'[w]],
           NEW part \in Parts, out' = out \o <<Piece(answer[w], part)>>,
           IF Owes(w) THEN part = pc[w] ELSE Begins(Piece(answer[w], part)) /\ Unheard(w),
           world.workers # 1 => world.type = "normal" /\ world.data_type = "raw",
           IF Owes(w)' THEN Continuation(Piece(answer[w], part)) = Piece(answer[w], pc'[w])
                       ELSE Continuation(Piece(answer[w], part)) = NULL,
           ~Unheard(w)'
    PROVE  DueInv' /\ OutInv'
<1> DEFINE p == Piece(answer[w], part)
<1>1. p \in Pieces /\ p.answer = answer[w]
  BY PieceType DEF Piece
<1>2. /\ \A v \in Workers : v # w => pc'[v] = pc[v]
      /\ world.workers = 1 => \A v \in Workers : v # w => pc[v] = "idle"
  BY DEF TypeOK, WInv, AloneInv
<1>3. world.workers # 1 => \A v \in Workers : ~Owes(v) /\ ~Owes(v)'
  BY DEF Owes
<1>4. \A v \in Workers : v # w => ~Owes(v) /\ ~Owes(v)'
  BY <1>2, <1>3 DEF Owes
<1>5. IF Owes(w) THEN Due(out) = p ELSE Due(out) = NULL
  BY <1>4 DEF WInv, DueInv
<1>6. p # NULL
  BY PieceNotNull DEF TypeOK
<1>7. Whole(out) /\ (world.workers = 1 => \A i \in 1..Len(out) :
            out[i].answer <= sent /\ (Unheard(w) => out[i].answer < p.answer))
  BY <1>1 DEF WInv, OutInv
<1>8. IF Due(out) = NULL
      THEN Begins(p) /\ (world.workers = 1 => \A i \in 1..Len(out) : out[i].answer < p.answer)
      ELSE p = Due(out)
  BY <1>5, <1>6, <1>7
<1>9. out \in Seq(Pieces)
  BY DEF TypeOK
<1> HIDE DEF p
<1>10. /\ Len(out') = Len(out) + 1 /\ Len(out) \in Nat
       /\ \A i \in 1..(Len(out) + 1) : out'[i] = IF i <= Len(out) THEN out[i] ELSE p
       /\ Whole(out') /\ Due(out') = Continuation(p)
  BY <1>1, <1>7, <1>8, <1>9, WholeAppend DEF p
<1>11. DueInv'
  <2>1. Due(out)' = Due(out')
    BY DEF Due, Continuation
  <2> QED
    BY <1>4, <1>10, <2>1 DEF DueInv, Framed, Owes, p
<1>12. Whole(out)'
  BY <1>10 DEF Whole, Begins, Continuation
<1>13. ASSUME world.workers = 1, NEW i \in 1..Len(out')
       PROVE  out'[i].answer <= sent /\ \A v \in Workers : ~Unheard(v)'
  <2>1. answer[w] = sent /\ sent \in Nat
    BY <1>13 DEF WInv, AloneInv, TypeOK
  <2>2. out'[i].answer <= sent
    <3>1. CASE i <= Len(out)
      BY <1>7, <1>10, <1>13, <3>1
    <3>2. CASE i = Len(out) + 1
      <4>1. out'[i] = p
        BY <1>10, <3>2
      <4> QED
        BY <1>1, <2>1, <4>1
    <3> QED
      BY <1>10, <3>1, <3>2
  <2>3. \A v \in Workers : ~Unheard(v)'
    BY <1>2, <1>13 DEF Unheard
  <2> QED
    BY <2>2, <2>3
<1>14. OutInv'
  BY <1>12, <1>13 DEF OutInv
<1> QED
  BY <1>11, <1>14

LEMMA AppendKeeps ==
    ASSUME TypeOK, HandsInv, WInv, UNCHANGED world, Framed,
           NEW w \in Workers, AppendHdr(w) \/ AppendLen(w) \/ AppendData(w)
    PROVE  DueInv' /\ OutInv'
<1>1. /\ pc[w] # "idle" /\ UNCHANGED <<answer, sent, open>> /\ pc' = [pc EXCEPT ![w] = pc'[w]]
      /\ PathInv /\ PathInv'
  BY RealSendMoves DEF RealSend, WInv
<1>2. PICK part \in {"hdr", "len", "data"} :
        /\ pc[w] = part /\ Write(<<Piece(answer[w], part)>>)
        /\ pc'[w] = IF part = "hdr" THEN "len" ELSE IF part = "len" THEN "data" ELSE "idle"
  BY DEF AppendHdr, AppendLen, AppendData, Append3, TypeOK
<1>3. world.type = "normal" /\ world.data_type \in {"packet", "raw"}
      /\ (part # "data" => world.data_type = "packet")
  <2>1. world \in World
    BY AnswersAssumption DEF TypeOK
  <2> QED
    BY <1>1, <1>2, <2>1 DEF PathInv, World
<1>4. \A v \in Workers : v # w => pc'[v] = pc[v]
  BY <1>1 DEF TypeOK
<1>5. ~Unheard(w)'
  BY <1>2, <1>3 DEF Unheard
<1>6. CASE open
  <2>1. out' = out \o <<Piece(answer[w], part)>>
    BY <1>2, <1>6 DEF Write
  <2>2. world.workers # 1 => world.data_type = "raw"
    BY <1>3 DEF Framed
  <2>3. IF Owes(w) THEN part = pc[w] ELSE Begins(Piece(answer[w], part)) /\ Unheard(w)
    BY <1>2, <1>3 DEF Owes, Begins, Unheard, Piece
  <2>4. IF Owes(w)' THEN Continuation(Piece(answer[w], part)) = Piece(answer[w], pc'[w])
                    ELSE Continuation(Piece(answer[w], part)) = NULL
    <3>1. answer[w] \in Nat
      BY DEF TypeOK
    <3> QED
      BY <1>2, <1>3, <3>1, Continuations DEF Owes
  <2>5. part \in Parts
    BY DEF Parts
  <2> QED
    BY <1>1, <1>3, <1>5, <1>6, <2>1, <2>2, <2>3, <2>4, <2>5, PieceKeeps
<1>7. CASE ~open
  <2>1. out' = out
    BY <1>2, <1>7 DEF Write
  <2>2. DueInv'
    BY <1>1, <1>7 DEF DueInv
  <2>3. Whole(out)'
    BY <2>1 DEF WInv, OutInv, Whole, Begins, Continuation
  <2>4. \A v \in Workers : Unheard(v)' => Unheard(v)
    BY <1>4, <1>5 DEF Unheard
  <2> QED
    BY <1>1, <2>1, <2>2, <2>3, <2>4 DEF WInv, OutInv
<1> QED
  BY <1>6, <1>7

(* The answer of a packer is appended as a whole. *)
LEMMA AppendPackedKeeps ==
    ASSUME TypeOK, HandsInv, WInv, UNCHANGED world, Framed, open,
           NEW w \in Workers, AppendPacked(w), out' # out
    PROVE  DueInv' /\ OutInv'
<1> DEFINE head == Piece(answer[w], "head")
           body == Piece(answer[w], "body")
<1>1. /\ pc[w] = "append" /\ UNCHANGED <<answer, sent, open>> /\ pc' = [pc EXCEPT ![w] = pc'[w]]
  BY RealSendMoves DEF RealSend, WInv, AppendPacked, OnSlot
<1>2. /\ data[packed[w]] # NULL /\ packed[w] \in Slots
      /\ life[packed[w]] = "live" /\ out' = out \o data[packed[w]]
  BY <1>1 DEF AppendPacked, Write, HandsInv
<1>3. pc'[w] = "drop"
  BY <1>1, <1>2 DEF AppendPacked, OnSlot, TypeOK
<1>4. world.type = "http" /\ world.workers = 1
  <2>1. world \in World
    BY AnswersAssumption DEF TypeOK
  <2>2. world.type # "normal" /\ world.type # "websocket"
    BY <1>1, <1>2 DEF WInv, PathInv, PackedInv
  <2> QED
    BY <2>1, <2>2 DEF World, Types, Framed
<1>5. \A v \in Workers : v # w => pc[v] = "idle" /\ pc'[v] = "idle"
  BY <1>1, <1>4 DEF TypeOK, WInv, AloneInv
<1>6. /\ \A v \in Workers : ~Owes(v) /\ ~Owes(v)' /\ ~Unheard(v)'
      /\ Unheard(w)
  BY <1>1, <1>3, <1>5 DEF Owes, Unheard
<1>7. data[packed[w]] = <<head, body>>
  BY <1>1, <1>2, <1>4 DEF WInv, PackedInv
<1>8. head \in Pieces /\ body \in Pieces /\ head.answer = answer[w] /\ body.answer = answer[w]
      /\ answer[w] = sent /\ sent \in Nat /\ Begins(head)
      /\ Continuation(head) = body /\ Continuation(body) = NULL /\ body # NULL
  <2>1. answer[w] \in Nat /\ sent \in Nat /\ answer[w] = sent
    BY <1>1, <1>4 DEF TypeOK, WInv, AloneInv
  <2>2. head \in Pieces /\ body \in Pieces
    BY PieceType DEF Parts
  <2>3. Continuation(head) = body /\ Continuation(body) = NULL /\ body # NULL
    BY <2>1, Continuations, PieceNotNull DEF Parts
  <2>4. head.answer = answer[w] /\ body.answer = answer[w] /\ Begins(head)
    BY DEF Piece, Begins
  <2> QED
    BY <2>1, <2>2, <2>3, <2>4
<1>9. /\ Due(out) = NULL /\ Whole(out) /\ out \in Seq(Pieces)
      /\ \A i \in 1..Len(out) : out[i].answer < sent
  BY <1>4, <1>6, <1>8 DEF WInv, DueInv, OutInv, TypeOK
<1> DEFINE q == out \o <<head>>
<1> HIDE DEF head, body
<1>10. out' = q \o <<body>>
  <2>1. <<head>> \in Seq(Pieces) /\ <<body>> \in Seq(Pieces) /\ <<head>> \o <<body>> = <<head, body>>
    BY <1>8, PairAppend
  <2>2. (out \o <<head>>) \o <<body>> = out \o (<<head>> \o <<body>>)
    BY <1>9, <2>1, ConcatAssociative
  <2> QED
    BY <1>2, <1>7, <2>1, <2>2
<1>11. /\ q \in Seq(Pieces) /\ Len(q) = Len(out) + 1 /\ Len(out) \in Nat
       /\ \A i \in 1..(Len(out) + 1) : q[i] = IF i <= Len(out) THEN out[i] ELSE head
       /\ Whole(q) /\ Due(q) = body
  BY <1>8, <1>9, WholeAppend
<1> HIDE DEF q
<1>12. /\ Len(out') = Len(q) + 1
       /\ \A i \in 1..(Len(q) + 1) : out'[i] = IF i <= Len(q) THEN q[i] ELSE body
       /\ Whole(out') /\ Due(out') = NULL
  BY <1>8, <1>10, <1>11, WholeAppend
<1>13. DueInv'
  <2>1. Due(out)' = Due(out')
    BY DEF Due, Continuation
  <2> QED
    BY <1>6, <1>12, <2>1 DEF DueInv
<1>14. Whole(out)'
  BY <1>12 DEF Whole, Begins, Continuation
<1>15. \A i \in 1..Len(out') : out'[i].answer <= sent
  <2>1. \A i \in 1..Len(q) : q[i].answer <= sent
    <3> SUFFICES ASSUME NEW i \in 1..Len(q) PROVE q[i].answer <= sent
      OBVIOUS
    <3>1. CASE i <= Len(out)
      <4>1. q[i] = out[i] /\ i \in 1..Len(out)
        BY <1>11, <3>1
      <4>2. out[i] \in Pieces
        BY <1>9, <4>1
      <4>3. out[i].answer \in Nat
        BY <4>2 DEF Pieces
      <4> QED
        BY <1>8, <1>9, <4>1, <4>3
    <3>2. CASE i = Len(out) + 1
      BY <1>8, <1>11, <3>2
    <3> QED
      BY <1>11, <3>1, <3>2
  <2> SUFFICES ASSUME NEW i \in 1..Len(out') PROVE out'[i].answer <= sent
    OBVIOUS
  <2>2. CASE i <= Len(q)
    BY <1>11, <1>12, <2>1, <2>2
  <2>3. CASE i = Len(q) + 1
    BY <1>8, <1>11, <1>12, <2>3
  <2> QED
    BY <1>11, <1>12, <2>2, <2>3
<1>16. OutInv'
  BY <1>1, <1>6, <1>14, <1>15 DEF OutInv
<1> QED
  BY <1>13, <1>16

(* The other steps append nothing. *)
LEMMA OtherKeeps ==
    ASSUME TypeOK, HandsInv, WInv, UNCHANGED world, Framed,
           NEW w \in Workers, GetSlot(w) \/ SetSlot(w) \/ BuildHeader(w) \/ PackBody(w)
                              \/ AppendPacked(w) \/ DropPacked(w), out' = out
    PROVE  DueInv' /\ OutInv'
<1>1. UNCHANGED <<answer, sent, open>> /\ pc' = [pc EXCEPT ![w] = pc'[w]]
  BY RealSendMoves DEF RealSend, WInv
<1>2. /\ pc[w] \in {"get", "set", "head", "body", "append", "drop"}
      /\ pc'[w] \in {"set", "head", "body", "append", "drop", "idle"}
      /\ Unheard(w)' => Unheard(w)
  <2>1. CASE GetSlot(w) \/ SetSlot(w)
    BY <2>1 DEF GetSlot, SetSlot, TypeOK, Unheard
  <2>2. CASE BuildHeader(w)
    BY <2>2 DEF BuildHeader, OnSlot, GoWild, workers, TypeOK, Unheard
  <2>3. CASE PackBody(w)
    BY <2>3 DEF PackBody, OnSlot, GoWild, workers, TypeOK, Unheard
  <2>4. CASE AppendPacked(w)
    <3>1. \E b \in {"idle", "drop"} : OnSlot(w, "append", b, data[packed[w]])
      BY <2>4 DEF AppendPacked
    <3> QED
      BY <3>1 DEF OnSlot, GoWild, workers, TypeOK, Unheard
  <2>5. CASE DropPacked(w)
    BY <2>5 DEF DropPacked, OnSlot, GoWild, workers, TypeOK, Unheard
  <2> QED
    BY <2>1, <2>2, <2>3, <2>4, <2>5
<1>3. \A v \in Workers : v # w => pc'[v] = pc[v]
  BY <1>1 DEF TypeOK
<1>4. \A v \in Workers : (Owes(v)' <=> Owes(v)) /\ (Unheard(v)' => Unheard(v))
                         /\ (Owes(v) => pc'[v] = pc[v])
  BY <1>2, <1>3 DEF Owes, Unheard
<1>5. sent \in Nat /\ \A v \in Workers : answer[v] \in Nat
  BY DEF TypeOK
<1> QED
  BY <1>1, <1>4, <1>5, SilentKeeps

LEMMA SendKeeps ==
    ASSUME TypeOK, WInv, UNCHANGED world, NEW w \in Workers, Send(w)
    PROVE  DueInv' /\ OutInv'
<1> DEFINE first == IF world.type # "normal" THEN "get"
                    ELSE IF world.data_type = "packet" THEN "hdr" ELSE "data"
<1>1. /\ pc[w] = "idle" /\ sent' = sent + 1 /\ answer' = [answer EXCEPT ![w] = sent + 1]
      /\ pc' = [pc EXCEPT ![w] = first] /\ UNCHANGED <<open, out>>
      /\ world.workers = 1 => \A v \in Workers : pc[v] = "idle"
  BY SendMoves
<1>2. /\ pc'[w] = first /\ answer'[w] = sent + 1 /\ sent \in Nat
      /\ \A v \in Workers : v # w => pc'[v] = pc[v] /\ answer'[v] = answer[v]
      /\ \A v \in Workers : answer'[v] \in Nat
  BY <1>1 DEF TypeOK
<1>3. ~Owes(w) /\ ~Owes(w)'
  BY <1>1, <1>2 DEF Owes
<1>4. \A v \in Workers : (Owes(v)' <=> Owes(v))
                         /\ (Owes(v) => pc'[v] = pc[v] /\ answer'[v] = answer[v])
  <2> SUFFICES ASSUME NEW v \in Workers
               PROVE  (Owes(v)' <=> Owes(v)) /\ (Owes(v) => pc'[v] = pc[v] /\ answer'[v] = answer[v])
    OBVIOUS
  <2>1. CASE v = w
    BY <1>3, <2>1
  <2>2. CASE v # w
    BY <1>2, <2>2 DEF Owes
  <2> QED
    BY <2>1, <2>2
<1>5. world.workers = 1 => \A v \in Workers : Unheard(v)' => answer'[v] > sent
  BY <1>1, <1>2 DEF Unheard
<1>6. sent' \in Nat /\ sent' >= sent
  BY <1>1, <1>2
<1> QED
  BY <1>1, <1>2, <1>4, <1>5, <1>6, SilentKeeps

LEMMA IoKeeps ==
    ASSUME TypeOK, HandsInv, WInv, UNCHANGED world, Framed, IoStep
    PROVE  DueInv' /\ OutInv'
<1>1. ~Heartbeat
  BY DEF Heartbeat, Framed
<1>2. UNCHANGED <<workers, out>> /\ (open' => open)
  BY <1>1 DEF IoStep, OnData, BareNew, Proc, Clear, OnDisconnect, Close, memory
<1>3. \A w \in Workers : (Owes(w)' <=> Owes(w)) /\ (Unheard(w)' <=> Unheard(w))
  BY <1>2 DEF workers, Owes, Unheard
<1>4. sent \in Nat /\ \A w \in Workers : answer[w] \in Nat
  BY DEF TypeOK
<1> QED
  BY <1>2, <1>3, <1>4, SilentKeeps DEF workers

LEMMA WNext == TypeOK /\ HandsInv /\ WInv /\ [Next]_vars => WInv'
<1> SUFFICES ASSUME TypeOK, HandsInv, WInv, [Next]_vars PROVE WInv'
  OBVIOUS
<1>1. AloneInv' /\ PathInv' /\ PackedInv'
  BY PathNext, PackedNext DEF WInv
<1>2. DueInv' /\ OutInv'
  <2>1. CASE ~Framed
    BY <2>1 DEF Next, vars, DueInv, OutInv, Framed
  <2>2. CASE UNCHANGED vars
    BY <2>2 DEF WInv, vars, memory, workers, DueInv, OutInv, Framed, Due, Whole, Begins,
       Continuation, Owes, Unheard
  <2>3. ASSUME Framed, UNCHANGED world, NEW w \in Workers, RealSend(w) PROVE DueInv' /\ OutInv'
    <3>1. CASE AppendHdr(w) \/ AppendLen(w) \/ AppendData(w)
      BY <2>3, <3>1, AppendKeeps
    <3>2. CASE AppendPacked(w) /\ out' # out
      <4>1. open
        BY <3>2 DEF AppendPacked, Write
      <4> QED
        BY <2>3, <3>2, <4>1, AppendPackedKeeps
    <3>3. CASE GetSlot(w) \/ SetSlot(w) \/ BuildHeader(w) \/ PackBody(w) \/ DropPacked(w)
      <4>1. out' = out
        BY <3>3 DEF GetSlot, SetSlot, BuildHeader, PackBody, DropPacked
      <4> QED
        BY <2>3, <3>3, <4>1, OtherKeeps
    <3>4. CASE AppendPacked(w) /\ out' = out
      BY <2>3, <3>4, OtherKeeps
    <3> QED
      BY <2>3, <3>1, <3>2, <3>3, <3>4 DEF RealSend
  <2> QED
    BY <2>1, <2>2, <2>3, IoKeeps, SendKeeps DEF Next
<1> QED
  BY <1>1, <1>2 DEF WInv

LEMMA WInit == Init => WInv
<1> SUFFICES ASSUME Init PROVE WInv
  OBVIOUS
<1>1. Len(out) = 0
  BY DEF Init
<1> QED
  BY <1>1 DEF Init, WInv, AloneInv, PathInv, PackedInv, DueInv, OutInv, Whole, Due, Owes, Unheard

(* The peer reads whole answers, and those of one worker in order. *)
THEOREM WholeCorrect == Spec => []AnswersWhole
<1>1. WInv => AnswersWhole
  BY DEF WInv, OutInv, Whole, AnswersWhole
<1>2. Spec => [](TypeOK /\ HandsInv /\ WInv)
  BY TypesInit, TypesNext, WInit, WNext, PTL DEF Spec
<1> QED
  BY <1>1, <1>2, PTL
=============================================================================
