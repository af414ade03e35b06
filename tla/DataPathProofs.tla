--------------------------- MODULE DataPathProofs ---------------------------
(***************************************************************************)
(* Proofs about DataPath: whatever the peer sends and however it is cut    *)
(* into segments, what _bspd_on_data reports as processed has arrived and  *)
(* no task's payload reaches outside what has.                             *)
(***************************************************************************)
EXTENDS DataPath, WellFoundedInduction, TLAPS

(* The bytes of the slot are bytes that have arrived. *)
DataInv == data # NULL => data.from <= data.to /\ data.to <= arrived

(* Inside a call, data_len counts the bytes before offset; a bared slot    *)
(* counts no byte beyond the input, unless it is left over from an earlier *)
(* call, which happens only without a hook.                                *)
CallInv ==
    /\ pc # "idle" => consumed + dataLen = offset
    /\ pc = "proc" /\ bared /\ prop.lua_hook_data => offset + proced <= arrived
    /\ prop.lua_hook_data /\ (pc # "proc" \/ ~bared) => proto = NULL
    /\ prop.lua_hook_data /\ pc # "proc" => ~bared

IInv == TypeOK /\ DataInv /\ CallInv /\ PayloadInInput

Task == [type : DataPackets \cup {"raw"}, frame : Frames \cup {0, NULL}, data : [from : Int, to : Int] \cup {NULL}]

-----------------------------------------------------------------------------
LEMMA FrameEnds ==
    ASSUME TypeOK, NEW f \in Frames
    PROVE  stream[f] \in Frame /\ stream[f].at \in Nat /\ End(f) \in Nat /\ End(f) > stream[f].at
<1>1. stream \in Seq(Frame)
  BY DEF TypeOK
<1>2. stream[f] \in Frame
  BY <1>1 DEF Frames
<1>3. stream[f].at \in Nat /\ stream[f].len \in Nat \ {0}
  BY <1>2 DEF Frame
<1> QED
  BY <1>2, <1>3 DEF End

LEMMA InitInv == Init => IInv
<1> SUFFICES ASSUME Init PROVE IInv
  OBVIOUS
<1>1. PICK s \in Scenarios : stream = s.stream /\ segments = s.segments /\ prop = s.prop
  BY DEF Init
<1>2. stream \in Seq(Frame) /\ segments \in Segments /\ prop \in Prop
  BY <1>1, DataPathAssumption
<1>3. tasks \in Seq(Task) /\ controls \in Seq(Frames \cup {0})
  BY DEF Init
<1>4. /\ arrived \in Nat /\ consumed \in 0..arrived /\ offset \in 0..arrived
      /\ pc \in {"idle", "loop", "proc"} /\ dataLen \in Nat /\ proced \in Nat
      /\ data = NULL /\ proto = NULL
  BY DEF Init
<1> bared \in BOOLEAN
  BY DEF Init
<1>5. TypeOK
  BY <1>2, <1>3, <1>4 DEF TypeOK, Task
<1>6. DataInv /\ CallInv /\ PayloadInInput
  BY <1>2 DEF Init, DataInv, CallInv, PayloadInInput
<1> QED
  BY <1>5, <1>6 DEF IInv

LEMMA SegmentsGrow ==
    ASSUME TypeOK, NEW e \in SegmentEnds
    PROVE  e \in Nat /\ e > arrived
<1>1. CASE segments = "any"
  <2>1. StreamLen \in Int
    <3>1. CASE stream = <<>>
      BY <3>1 DEF StreamLen
    <3>2. CASE stream # <<>>
      <4>1. Len(stream) \in Frames
        BY <3>2 DEF TypeOK, Frames
      <4> QED
        BY <3>2, <4>1, FrameEnds DEF StreamLen
    <3> QED
      BY <3>1, <3>2
  <2> QED
    BY <1>1, <2>1 DEF SegmentEnds, TypeOK
<1>2. CASE segments = "whole"
  BY <1>2, FrameEnds DEF SegmentEnds, TypeOK
<1>3. CASE segments = "one"
  BY <1>3, FrameEnds DEF SegmentEnds, TypeOK
<1> QED
  BY <1>1, <1>2, <1>3 DEF TypeOK, Segments

(* What OnData leaves alone keeps its type and its bounds. *)
LEMMA OnDataInv ==
    ASSUME IInv, OnData
    PROVE  IInv'
<1> USE DEF IInv
<1>1. arrived' \in Nat /\ arrived' > arrived
  BY SegmentsGrow DEF OnData
<1>2. TypeOK'
  BY <1>1 DEF OnData, TypeOK, peer, slot, out, Frames
<1>3. DataInv'
  BY <1>1 DEF OnData, DataInv, TypeOK, slot
<1>4. CallInv'
  BY <1>1 DEF OnData, CallInv, TypeOK, slot, peer
<1>5. PayloadInInput'
  <2>1. tasks' = tasks
    BY DEF OnData, out
  <2> SUFFICES ASSUME NEW i \in 1..Len(tasks), tasks[i].data # NULL
               PROVE  tasks[i].data.from <= tasks[i].data.to /\ tasks[i].data.to <= arrived'
    BY <2>1 DEF PayloadInInput
  <2>2. tasks \in Seq(Task) /\ arrived \in Nat
    BY DEF TypeOK, Task
  <2>3. tasks[i] \in Task
    BY <2>2
  <2>4. tasks[i].data.to \in Int
    BY <2>3 DEF Task
  <2> QED
    BY <1>1, <2>2, <2>4 DEF PayloadInInput
<1> QED
  BY <1>2, <1>3, <1>4, <1>5

LEMMA BareInv ==
    ASSUME IInv, Bare
    PROVE  IInv'
<1> USE DEF IInv
<1> DEFINE SlotOK ==
        /\ data' \in [from : Nat, to : Nat] \cup {NULL}
        /\ proto' \in Frames \cup {0, NULL}
        /\ bared' \in BOOLEAN
        /\ proced' \in Nat
        /\ data' # NULL => data'.from <= data'.to /\ data'.to <= arrived
        /\ prop.lua_hook_data /\ bared' => offset + proced' <= arrived
        /\ prop.lua_hook_data /\ ~bared' => proto' = NULL
<1>1. SlotOK
  <2>1. CASE NormalBare
    BY <2>1 DEF NormalBare, Bare, TypeOK
  <2>2. CASE HttpBare
    <3>0. /\ data' = data /\ bared' = TRUE
          /\ prop.lua_hook_data => proto = NULL
      BY <2>2 DEF HttpBare, Bare, CallInv
    <3>1. CASE proto = NULL /\ HeaderEnds # {}
      <4>1. PICK e \in HeaderEnds : proced' = e - offset /\ proto' \in HeaderAt(e)
        BY <2>2, <3>1 DEF HttpBare
      <4>2. e \in Nat /\ e >= offset /\ e <= arrived
        <5>1. PICK f \in Frames : e = End(f) /\ End(f) - 4 >= offset /\ End(f) <= arrived
          BY <4>1 DEF HeaderEnds
        <5> QED
          BY <5>1, FrameEnds DEF TypeOK
      <4>3. proto' \in Frames \cup {0}
        BY <4>1 DEF HeaderAt
      <4> QED
        BY <3>0, <4>1, <4>2, <4>3 DEF TypeOK, DataInv
    <3>2. CASE ~(proto = NULL /\ HeaderEnds # {})
      BY <2>2, <3>0, <3>2 DEF HttpBare, TypeOK, DataInv
    <3> QED
      BY <3>1, <3>2
  <2>3. CASE UNCHANGED slot
    <3>1. data' = data /\ proto' = proto /\ bared' = bared /\ proced' = proced
      BY <2>3 DEF slot
    <3>2. pc = "loop"
      BY DEF Bare
    <3> QED
      BY <3>1, <3>2 DEF TypeOK, DataInv, CallInv
  <2> QED
    BY <2>1, <2>2, <2>3 DEF Bare, TypeOK, Prop
<1>2. /\ pc = "loop" /\ pc' = "proc"
      /\ UNCHANGED <<stream, segments, prop, arrived, consumed, offset, dataLen, tasks, controls>>
  BY DEF Bare, peer, out
<1>3. TypeOK'
  BY <1>1, <1>2 DEF TypeOK, Frames
<1>4. DataInv' /\ CallInv' /\ PayloadInInput'
  BY <1>1, <1>2 DEF DataInv, CallInv, PayloadInInput, TypeOK
<1> QED
  BY <1>3, <1>4

(* What is handed to the scripts is a task whose payload has arrived. *)
LEMMA PacketTask ==
    ASSUME TypeOK, DataInv, data # NULL, NEW r \in Readings(data), r.type # "ctl", ~Dropped(data, r)
    PROVE  LET t == [type |-> r.type, frame |-> r.frame, data |-> Payload(data, r)]
           IN t \in Task /\ t.data.from <= t.data.to /\ t.data.to <= arrived
<1>1. /\ r.frame \in Frames \cup {0}
      /\ r.type \in DataPackets
      /\ r.plen \in Int
  <2> DEFINE F == {f \in Frames : stream[f].at = data.from /\ stream[f].type \in DataPackets \cup {"ctl"}}
  <2>1. CASE F # {}
    <3>1. PICK f \in F : r = [frame |-> f, type |-> stream[f].type, plen |-> stream[f].len - 5]
      BY <2>1 DEF Readings
    <3>2. stream[f].len \in Nat
      BY <3>1, FrameEnds DEF Frame
    <3> QED
      BY <3>1, <3>2
  <2>2. CASE F = {}
    BY <2>2 DEF Readings
  <2> QED
    BY <2>1, <2>2
<1>2. data.from \in Nat /\ data.to \in Nat /\ data.to <= arrived /\ arrived \in Nat
  BY DEF TypeOK, DataInv
<1>3. r.plen >= 0 /\ data.to - data.from - 5 >= r.plen
  BY <1>1, <1>2 DEF Dropped, HalfBaked
<1>4. Payload(data, r) \in [from : Int, to : Int]
  BY <1>1, <1>2 DEF Payload
<1>5. Payload(data, r).from <= Payload(data, r).to /\ Payload(data, r).to <= arrived
  BY <1>1, <1>2, <1>3 DEF Payload
<1> QED
  BY <1>1, <1>4, <1>5 DEF Task

LEMMA ProcInv ==
    ASSUME IInv, Proc
    PROVE  IInv'
<1> USE DEF IInv
<1> DEFINE Fits(t) == t \in Task /\ (t.data # NULL => t.data.from <= t.data.to /\ t.data.to <= arrived)
<1>1. /\ controls' \in Seq(Frames \cup {0})
      /\ tasks' = tasks \/ \E t : Fits(t) /\ tasks' = Append(tasks, t)
  <2>1. CASE prop.data_type = "packet"
    <3>1. ProcPacket
      BY <2>1 DEF Proc
    <3>2. CASE UNCHANGED out
      BY <3>2 DEF out, TypeOK
    <3>3. ASSUME NEW r \in Readings(data), data # NULL, r.type = "ctl",
                 controls' = Append(controls, r.frame), UNCHANGED tasks
          PROVE  controls' \in Seq(Frames \cup {0})
      <4>1. r.frame \in Frames \cup {0}
        BY <3>3 DEF Readings
      <4> QED
        BY <3>3, <4>1 DEF TypeOK
    <3>4. ASSUME NEW r \in Readings(data), data # NULL, r.type # "ctl", ~Dropped(data, r),
                 tasks' = Append(tasks, [type |-> r.type, frame |-> r.frame, data |-> Payload(data, r)]),
                 UNCHANGED controls
          PROVE  /\ controls' \in Seq(Frames \cup {0})
                 /\ \E t : Fits(t) /\ tasks' = Append(tasks, t)
      <4>1. Fits([type |-> r.type, frame |-> r.frame, data |-> Payload(data, r)])
        BY <3>4, PacketTask
      <4>2. controls' \in Seq(Frames \cup {0})
        BY <3>4 DEF TypeOK
      <4> QED
        BY <3>4, <4>1, <4>2
    <3> QED
      BY <3>1, <3>2, <3>3, <3>4 DEF ProcPacket
  <2>2. CASE prop.data_type # "packet"
    <3>1. /\ controls' = controls
          /\ tasks' = Append(tasks, [type |-> "raw", frame |-> proto, data |-> data])
      BY <2>2 DEF Proc, ProcRaw
    <3>2. Fits([type |-> "raw", frame |-> proto, data |-> data])
      BY DEF Task, TypeOK, DataInv
    <3> QED
      BY <3>1, <3>2 DEF TypeOK
  <2> QED
    BY <2>1, <2>2
<1>2. /\ pc = "proc" /\ bared /\ prop.lua_hook_data
      /\ UNCHANGED <<stream, segments, prop, arrived, consumed, proced>>
      /\ dataLen' = dataLen + proced /\ offset' = offset + proced
      /\ data' = NULL /\ proto' = NULL /\ bared' = FALSE /\ pc' = "loop"
  BY DEF Proc, peer
<1>3. offset' <= arrived /\ consumed + dataLen' = offset'
  BY <1>2 DEF CallInv, TypeOK
<1>4. tasks' \in Seq(Task) /\ PayloadInInput'
  <2>1. CASE tasks' = tasks
    BY <1>2, <2>1 DEF TypeOK, Task, PayloadInInput
  <2>2. CASE \E t : Fits(t) /\ tasks' = Append(tasks, t)
    <3>1. PICK t : Fits(t) /\ tasks' = Append(tasks, t)
      BY <2>2
    <3>2. tasks \in Seq(Task)
      BY DEF TypeOK, Task
    <3>3. /\ tasks' \in Seq(Task)
          /\ Len(tasks') = Len(tasks) + 1
          /\ \A i \in 1..Len(tasks') : tasks'[i] = IF i <= Len(tasks) THEN tasks[i] ELSE t
      BY <3>1, <3>2
    <3> QED
      BY <1>2, <3>1, <3>2, <3>3 DEF PayloadInInput
  <2> QED
    BY <1>1, <2>1, <2>2
<1>5. TypeOK'
  <2>1. /\ arrived' \in Nat /\ consumed' \in 0..arrived' /\ offset' \in 0..arrived'
        /\ dataLen' \in Nat /\ proced' \in Nat
    BY <1>2, <1>3 DEF TypeOK
  <2>2. /\ pc' \in {"idle", "loop", "proc"}
        /\ data' \in [from : Nat, to : Nat] \cup {NULL}
        /\ proto' \in Frames' \cup {0, NULL}
    BY <1>2
  <2>3. bared' \in BOOLEAN
    BY <1>2
  <2>4. /\ stream' \in Seq(Frame) /\ segments' \in Segments /\ prop' \in Prop /\ Frames' = Frames
    BY <1>2 DEF TypeOK, Frames
  <2> QED
    BY <1>1, <1>4, <2>1, <2>2, <2>3, <2>4 DEF TypeOK, Task
<1>6. DataInv' /\ CallInv'
  BY <1>2, <1>3 DEF DataInv, CallInv
<1> QED
  BY <1>4, <1>5, <1>6

LEMMA ReturnInv ==
    ASSUME IInv, Return
    PROVE  IInv'
<1> USE DEF IInv
<1>1. /\ pc # "idle" /\ pc' = "idle" /\ consumed' = consumed + dataLen
      /\ UNCHANGED <<stream, segments, prop, arrived, offset, dataLen, data, proto, bared, proced, tasks, controls>>
  BY DEF Return, peer, slot, out
<1>2. consumed' = offset
  BY <1>1 DEF CallInv
<1>3. TypeOK'
  BY <1>1, <1>2 DEF TypeOK, Frames
<1>4. DataInv' /\ PayloadInInput'
  BY <1>1 DEF DataInv, PayloadInInput
<1>5. prop.lua_hook_data => ~bared
  BY DEF Return, CallInv, TypeOK
<1>6. CallInv'
  BY <1>1, <1>5 DEF CallInv
<1> QED
  BY <1>3, <1>4, <1>6

LEMMA StepInv == IInv /\ [Next]_vars => IInv'
<1> SUFFICES ASSUME IInv, [Next]_vars PROVE IInv'
  OBVIOUS
<1>1. CASE OnData
  BY <1>1, OnDataInv
<1>2. CASE Bare
  BY <1>2, BareInv
<1>3. CASE Proc
  BY <1>3, ProcInv
<1>4. CASE Return
  BY <1>4, ReturnInv
<1>5. CASE UNCHANGED vars
  BY <1>5 DEF vars, peer, slot, out, IInv, TypeOK, DataInv, CallInv, PayloadInInput, Frames
<1> QED
  BY <1>1, <1>2, <1>3, <1>4, <1>5 DEF Next

-----------------------------------------------------------------------------
LEMMA AlwaysInv == Spec => []IInv
BY InitInv, StepInv, PTL DEF Spec

(* What _bspd_on_data reports to the library as processed never exceeds    *)
(* what has arrived, and its variables keep their types.                   *)
THEOREM TypeCorrect == Spec => []TypeOK
BY AlwaysInv, PTL DEF IInv

(* The payload of every task lies within the bytes that have arrived, for  *)
(* every stream, segmentation and configuration (_proc_packet).            *)
THEOREM PayloadCorrect == Spec => []PayloadInInput
BY AlwaysInv, PTL DEF IInv
-----------------------------------------------------------------------------
(* Induction over the natural numbers: a set of them that has 0 and is     *)
(* closed under successor has them all.                                    *)
LEMMA NatSetInduction ==
    ASSUME NEW S \in SUBSET Nat, 0 \in S, \A n \in S : n + 1 \in S
    PROVE  S = Nat
<1>. SUFFICES ASSUME Nat \ S # {}
              PROVE  FALSE
  OBVIOUS
<1>. DEFINE R == OpToRel(<, Nat)
<1>1. IsWellFoundedOn(R, Nat)
  BY NatLessThanWellFounded
<1>2. \A x, y \in Nat : <<x, y>> \in R <=> x < y
  BY DEF OpToRel
<1>. HIDE DEF R
<1>3. \E x \in Nat \ S : \A y \in Nat \ S : ~ (<<y, x>> \in R)
  BY <1>1, WFMin
<1>4. PICK n \in Nat \ S : \A m \in Nat \ S : ~ (m < n)
  BY <1>2, <1>3
<1>5. n - 1 \in Nat
  BY <1>4
<1>6. n - 1 \in S
  BY <1>4, <1>5
<1>. QED  BY <1>4, <1>5, <1>6

(* The frames lie one behind the other, and have room for what they are.   *)
StreamInv ==
    /\ \A f \in Frames : stream[f].at = IF f = 1 THEN 0 ELSE End(f - 1)
    /\ \A f \in Frames : stream[f].type \in DataPackets => stream[f].len >= 5
    /\ \A f \in Frames : stream[f].type = "head" => stream[f].len >= 4

LEMMA Layout ==
    ASSUME TypeOK, StreamInv, NEW f \in Frames, NEW g \in Frames, f < g
    PROVE  End(f) <= stream[g].at
<1>. DEFINE S == {n \in Nat : \A b \in Frames : b <= n => \A a \in Frames : a < b => End(a) <= stream[b].at}
<1>1. Frames = 1..Len(stream) /\ Len(stream) \in Nat
  BY DEF TypeOK, Frames
<1>2. \A a \in Frames : stream[a].at \in Nat /\ End(a) \in Nat /\ End(a) > stream[a].at
  BY FrameEnds
<1>3. 0 \in S
  BY <1>1
<1>4. ASSUME NEW n \in S
      PROVE  n + 1 \in S
  <2>. SUFFICES ASSUME NEW b \in Frames, b <= n + 1, NEW a \in Frames, a < b
                PROVE  End(a) <= stream[b].at
    OBVIOUS
  <2>1. CASE b <= n
    BY <2>1
  <2>2. CASE ~(b <= n)
    <3>1. b = n + 1 /\ n \in Frames /\ b # 1
      BY <1>1, <2>2
    <3>2. stream[b].at = End(n)
      BY <3>1 DEF StreamInv
    <3>3. a = n \/ a < n
      BY <1>1, <3>1
    <3>4. a < n => End(a) <= stream[n].at
      BY <3>1
    <3>. QED  BY <1>2, <3>1, <3>2, <3>3, <3>4
  <2>. QED  BY <2>1, <2>2
<1>. HIDE DEF S
<1>5. S = Nat
  <2>1. S \subseteq Nat
    BY DEF S
  <2>. QED  BY <1>3, <1>4, <2>1, NatSetInduction
<1>6. g \in S
  BY <1>1, <1>5
<1>. QED  BY <1>6, <1>1 DEF S

(* A frame is known by its first byte, and by its last. *)
LEMMA OneFrame ==
    ASSUME TypeOK, StreamInv, NEW f \in Frames, NEW g \in Frames,
           stream[f].at = stream[g].at \/ End(f) = End(g)
    PROVE  f = g
<1>1. f \in Nat /\ g \in Nat
  BY DEF Frames, TypeOK
<1>. QED  BY <1>1, Layout, FrameEnds

(* The frames that end at the byte o or before. *)
Handled(o) == {f \in Frames : End(f) <= o}

LEMMA HandledNext ==
    ASSUME TypeOK, StreamInv, NEW f \in Frames
    PROVE  /\ Handled(End(f)) = Handled(stream[f].at) \cup {f}
           /\ \A g \in Handled(stream[f].at) : g < f
<1>1. \A g \in Frames : g \in Nat /\ stream[g].at \in Nat /\ End(g) \in Nat /\ End(g) > stream[g].at
  BY FrameEnds DEF Frames, TypeOK
<1>2. ASSUME NEW g \in Frames
      PROVE  /\ End(g) <= stream[f].at <=> g < f
             /\ End(g) <= End(f) <=> g < f \/ g = f
  <2>1. CASE g < f
    BY <1>1, <2>1, Layout
  <2>2. CASE g = f
    BY <1>1, <2>2
  <2>3. CASE g > f
    BY <1>1, <2>3, Layout
  <2>. QED  BY <1>1, <2>1, <2>2, <2>3
<1>. QED  BY <1>2 DEF Handled

(* Between frames. *)
Boundary(o) == o = 0 \/ \E f \in Frames : o = End(f)

LEMMA NextFrame ==
    ASSUME TypeOK, StreamInv, NEW o, NEW a, Boundary(o), Boundary(a), o < a
    PROVE  \E f \in Frames : stream[f].at = o /\ End(f) <= a
<1>1. /\ Frames = 1..Len(stream) /\ Len(stream) \in Nat
      /\ \A f \in Frames : stream[f].at \in Nat /\ End(f) \in Nat /\ End(f) > stream[f].at
  BY FrameEnds DEF TypeOK, Frames
<1>2. PICK g \in Frames : a = End(g)
  BY <1>1 DEF Boundary
<1>3. ASSUME NEW f \in Frames, f <= g
      PROVE  End(f) <= End(g)
  BY <1>1, <1>3, Layout
<1>4. CASE o = 0
  <2>1. 1 \in Frames /\ 1 <= g /\ stream[1].at = 0
    BY <1>1 DEF StreamInv
  <2>. QED  BY <1>2, <1>3, <1>4, <2>1
<1>5. ASSUME NEW h \in Frames, o = End(h)
      PROVE  \E f \in Frames : stream[f].at = o /\ End(f) <= a
  <2>1. h < g
    BY <1>1, <1>2, <1>5, Layout
  <2>2. h + 1 \in Frames /\ h + 1 <= g /\ h + 1 # 1 /\ (h + 1) - 1 = h
    BY <1>1, <2>1
  <2>3. stream[h + 1].at = o
    BY <1>5, <2>2 DEF StreamInv
  <2>. QED  BY <1>2, <1>3, <2>2, <2>3
<1>. QED  BY <1>4, <1>5 DEF Boundary

LEMMA GoesOn ==
    ASSUME NEW s, NEW t, NEW n \in Nat, NEW f, NEW F,
           DOMAIN s = 1..n, DOMAIN t = 1..(n + 1),
           \A i \in 1..n : t[i] = s[i], t[n + 1] = f,
           GoesThrough(s, F), \A g \in F : g < f
    PROVE  GoesThrough(t, F \cup {f})
<1>1. {t[i] : i \in DOMAIN t} = F \cup {f}
  <2>1. \A i \in DOMAIN t : i \in 1..n \/ i = n + 1
    OBVIOUS
  <2>. QED  BY <2>1 DEF GoesThrough
<1>2. ASSUME NEW i \in DOMAIN t, NEW j \in DOMAIN t, i < j
      PROVE  t[i] < t[j]
  <2>1. i \in 1..n /\ t[i] \in F
    BY <1>2 DEF GoesThrough
  <2>2. j \in 1..n \/ j = n + 1
    OBVIOUS
  <2>. QED  BY <1>2, <2>1, <2>2 DEF GoesThrough
<1>. QED  BY <1>1, <1>2 DEF GoesThrough
-----------------------------------------------------------------------------
(* When frames come whole, the loop goes from frame to frame.  Between two *)
(* turns the frames before offset have been handled, and no other.         *)
Neat == OnePacket \/ WholeHeaders

TaskFrames == [i \in DOMAIN tasks |-> tasks[i].frame]

Done ==
    /\ GoesThrough(TaskFrames, {f \in Handled(offset) : AskTask(f)})
    /\ GoesThrough(controls, {f \in Handled(offset) : stream[f].type = "ctl"})

(* The frame f is in the slot. *)
Taken(f) ==
    /\ stream[f].at = offset /\ End(f) = offset + proced /\ End(f) <= arrived
    /\ OnePacket => data = [from |-> offset, to |-> arrived] /\ End(f) = arrived
    /\ WholeHeaders => proto = f

HandledInv ==
    /\ Boundary(offset) /\ Boundary(arrived)
    /\ Done
    /\ pc = "idle" => offset = arrived /\ consumed = offset
    /\ OnePacket => \/ offset = arrived
                    \/ \E f \in Frames : stream[f].at = offset /\ End(f) = arrived
    /\ WholeHeaders => data = NULL
    /\ pc = "proc" => bared /\ \E f \in Frames : Taken(f)

LEMMA StreamInit == Init => StreamInv
<1>. SUFFICES ASSUME Init
              PROVE  StreamInv
  OBVIOUS
<1>1. PICK s \in Scenarios : stream = s.stream
  BY DEF Init
<1>2. stream \in {x.stream : x \in Scenarios}
  BY <1>1
<1>3. stream \in Seq(Frame)
  BY <1>1, DataPathAssumption
<1>4. ASSUME NEW f \in Frames
      PROVE  /\ stream[f].at = IF f = 1 THEN 0 ELSE End(f - 1)
             /\ stream[f].type \in DataPackets => stream[f].len >= 5
             /\ stream[f].type = "head" => stream[f].len >= 4
  BY <1>2, <1>4, DataPathAssumption DEF Frames, End
<1>. QED  BY <1>4 DEF StreamInv

LEMMA HandledInit == Init => HandledInv
<1>. SUFFICES ASSUME Init
              PROVE  HandledInv
  OBVIOUS
<1>1. IInv
  BY InitInv
<1>2. Handled(0) = {}
  BY <1>1, FrameEnds DEF IInv, Handled
<1>3. DOMAIN tasks = {} /\ DOMAIN controls = {}
  BY DEF Init
<1>4. GoesThrough(TaskFrames, {}) /\ GoesThrough(controls, {})
  BY <1>3 DEF GoesThrough, TaskFrames
<1>5. Done
  <2>1. offset = 0
    BY DEF Init
  <2>2. {f \in Handled(0) : AskTask(f)} = {} /\ {f \in Handled(0) : stream[f].type = "ctl"} = {}
    BY <1>2
  <2>. QED  BY <1>4, <2>1, <2>2 DEF Done
<1>. QED  BY <1>5 DEF Init, HandledInv, Boundary

(* What stays as it is while the peer's stream does. *)
LEMMA PeerKept ==
    ASSUME UNCHANGED peer
    PROVE  /\ Frames' = Frames
           /\ \A f : End(f)' = End(f)
           /\ \A o : Handled(o)' = Handled(o)
           /\ \A o : Boundary(o)' <=> Boundary(o)
           /\ \A f : AskTask(f)' <=> AskTask(f)
           /\ OnePacket' <=> OnePacket
           /\ WholeHeaders' <=> WholeHeaders
           /\ StreamInv' <=> StreamInv
BY DEF peer, Frames, End, Handled, Boundary, AskTask, OnePacket, WholeHeaders, StreamInv

LEMMA DoneKept ==
    ASSUME Done, UNCHANGED <<peer, offset, tasks, controls>>
    PROVE  Done'
BY DEF Done, peer, Frames, End, Handled, AskTask, TaskFrames

LEMMA OnDataHandled ==
    ASSUME IInv, StreamInv, Neat, HandledInv, OnData
    PROVE  HandledInv'
<1>1. /\ pc = "idle" /\ pc' = "loop" /\ offset' = consumed
      /\ UNCHANGED <<stream, segments, prop, tasks, controls, data>> /\ UNCHANGED peer
  BY DEF OnData, peer, slot, out
<1>2. offset' = offset /\ offset = arrived
  BY <1>1 DEF HandledInv
<1>3. Boundary(arrived') /\ (OnePacket => \E f \in Frames : stream[f].at = offset /\ End(f) = arrived')
  <2>1. CASE OnePacket
    BY <1>2, <2>1 DEF OnData, SegmentEnds, OnePacket, Boundary
  <2>2. CASE WholeHeaders
    BY <2>2 DEF OnData, SegmentEnds, OnePacket, WholeHeaders, Boundary
  <2>. QED  BY <2>1, <2>2 DEF Neat
<1>4. Done'
  BY <1>1, <1>2, DoneKept DEF HandledInv
<1>. QED  BY <1>1, <1>2, <1>3, <1>4, PeerKept DEF HandledInv

LEMMA HeaderEnd ==
    ASSUME TypeOK, StreamInv, WholeHeaders, NEW f \in Frames, stream[f].at = offset,
           End(f) <= arrived
    PROVE  /\ End(f) \in HeaderEnds
           /\ \A e \in HeaderEnds : End(f) <= e
           /\ HeaderAt(End(f)) = {f}
<1>1. /\ \A g \in Frames : g \in Nat /\ stream[g].at \in Nat /\ End(g) \in Nat /\ End(g) > stream[g].at
      /\ offset \in Nat
  BY FrameEnds DEF Frames, TypeOK
<1>2. stream[f].type = "head" /\ stream[f].len >= 4 /\ stream[f].len \in Nat
  BY FrameEnds DEF WholeHeaders, StreamInv, Frame
<1>3. End(f) \in HeaderEnds
  BY <1>1, <1>2 DEF HeaderEnds, End
<1>4. ASSUME NEW g \in Frames, End(g) - 4 >= offset
      PROVE  End(f) <= End(g)
  BY <1>1, <1>4, Layout
<1>5. \A e \in HeaderEnds : End(f) <= e
  BY <1>4 DEF HeaderEnds
<1>6. HeaderAt(End(f)) = {f}
  BY OneFrame DEF HeaderAt
<1>. QED  BY <1>3, <1>5, <1>6

LEMMA BareHandled ==
    ASSUME IInv, StreamInv, Neat, HandledInv, Bare
    PROVE  HandledInv'
<1>t. TypeOK /\ arrived \in Nat /\ offset \in Nat
  BY DEF IInv, TypeOK
<1>1. /\ pc = "loop" /\ offset < arrived /\ pc' = "proc"
      /\ UNCHANGED <<stream, segments, prop, arrived, offset, tasks, controls>> /\ UNCHANGED peer
  BY DEF Bare, peer, out
<1>2. Done'
  BY <1>1, DoneKept DEF HandledInv
<1>3. PICK f \in Frames : stream[f].at = offset /\ End(f) <= arrived
  BY <1>1, <1>t, NextFrame DEF HandledInv
<1>4. CASE OnePacket
  <2>1. End(f) = arrived
    BY <1>t, <1>1, <1>3, <1>4, OneFrame DEF HandledInv
  <2>2. NormalBare
    BY <1>4 DEF Bare, OnePacket
  <2>3. ~WholeHeaders
    BY <1>4 DEF OnePacket, WholeHeaders
  <2>4. Taken(f)'
    BY <1>t, <1>1, <1>3, <2>1, <2>2, <2>3, PeerKept DEF NormalBare, Taken
  <2>. QED  BY <1>1, <1>2, <1>3, <2>1, <2>2, <2>3, <2>4, PeerKept DEF HandledInv, NormalBare
<1>5. CASE WholeHeaders
  <2>1. HttpBare /\ proto = NULL
    BY <1>1, <1>5 DEF Bare, WholeHeaders, IInv, CallInv
  <2>2. PICK e \in HeaderEnds :
          (\A o \in HeaderEnds : e <= o) /\ proced' = e - offset /\ proto' \in HeaderAt(e)
    BY <1>t, <1>3, <1>5, <2>1, HeaderEnd DEF HttpBare
  <2>3. e = End(f)
    <3>1. End(f) <= e /\ e <= End(f)
      BY <1>t, <1>3, <1>5, <2>2, HeaderEnd
    <3>2. End(f) \in Nat /\ e \in Nat
      BY <1>t, FrameEnds DEF HeaderEnds
    <3>. QED  BY <3>1, <3>2
  <2>4. proto' = f
    BY <1>t, <1>3, <1>5, <2>2, <2>3, HeaderEnd
  <2>5. ~OnePacket
    BY <1>5 DEF OnePacket, WholeHeaders
  <2>6. data' = NULL /\ bared' = TRUE
    BY <1>5, <2>1 DEF HttpBare, HandledInv
  <2>7. Taken(f)'
    <3>1. End(f) \in Nat
      BY <1>t, FrameEnds
    <3>. QED  BY <1>t, <1>1, <1>3, <2>2, <2>3, <2>4, <2>5, <3>1, PeerKept DEF Taken
  <2>. QED  BY <1>1, <1>2, <2>5, <2>6, <2>7, PeerKept DEF HandledInv
<1>. QED  BY <1>4, <1>5 DEF Neat

(* What a turn of the loop adds: the frame in the slot, if it asks for a   *)
(* task or is a control packet.                                            *)
LEMMA ProcFrame ==
    ASSUME IInv, StreamInv, Neat, HandledInv, Proc, NEW f \in Frames, Taken(f)
    PROVE  /\ IF AskTask(f) THEN \E t : t.frame = f /\ tasks' = Append(tasks, t) ELSE tasks' = tasks
           /\ IF stream[f].type = "ctl" THEN controls' = Append(controls, f) ELSE controls' = controls
<1>t. TypeOK /\ stream[f] \in Frame /\ stream[f].len \in Nat /\ stream[f].at \in Nat
  BY FrameEnds DEF IInv, Frame
<1>1. CASE OnePacket
  <2>1. data = [from |-> offset, to |-> arrived] /\ stream[f].at = offset /\ End(f) = arrived
    BY <1>1 DEF Taken
  <2>2. data # NULL /\ data.from = offset /\ data.to - data.from = stream[f].len
    <3>1. data \in [from : Nat, to : Nat]
      BY <1>t, <2>1 DEF TypeOK
    <3>2. End(f) = offset + stream[f].len /\ offset \in Nat
      BY <1>t, <2>1 DEF End, TypeOK
    <3>. QED  BY <1>t, <2>1, <3>1, <3>2, DataPathAssumption
  <2>3. stream[f].type \in DataPackets \cup {"ctl"}
    BY <1>1 DEF OnePacket
  <2>4. Readings(data) = {[frame |-> f, type |-> stream[f].type, plen |-> stream[f].len - 5]}
    <3>1. \A g \in Frames : stream[g].at = data.from => g = f
      BY <1>t, <2>1, <2>2, OneFrame
    <3>. QED  BY <2>1, <2>2, <2>3, <3>1 DEF Readings
  <2>5. ProcPacket
    BY <1>1 DEF Proc, OnePacket
  <2>6. PICK r : r = [frame |-> f, type |-> stream[f].type, plen |-> stream[f].len - 5]
    OBVIOUS
  <2>7. \/ r.type = "ctl" /\ controls' = Append(controls, r.frame) /\ tasks' = tasks
        \/ r.type # "ctl" /\ Dropped(data, r) /\ tasks' = tasks /\ controls' = controls
        \/ /\ r.type # "ctl" /\ ~Dropped(data, r) /\ controls' = controls
           /\ tasks' = Append(tasks, [type |-> r.type, frame |-> r.frame, data |-> Payload(data, r)])
    BY <2>2, <2>4, <2>5, <2>6 DEF ProcPacket, out
  <2>8. stream[f].type \in DataPackets => (Dropped(data, r) <=> ~AskTask(f))
    <3>1. stream[f].type \in DataPackets => stream[f].len >= 5
      BY DEF StreamInv
    <3>. QED  BY <1>t, <2>2, <2>6, <3>1 DEF Dropped, HalfBaked, AskTask, DataPackets
  <2>9. stream[f].type = "ctl" => ~AskTask(f)
    BY DEF AskTask, DataPackets
  <2>. QED  BY <2>3, <2>6, <2>7, <2>8, <2>9 DEF DataPackets
<1>2. CASE WholeHeaders
  <2>1. stream[f].type = "head" /\ stream[f].type \notin DataPackets /\ data = NULL /\ proto = f
    BY <1>2 DEF WholeHeaders, HandledInv, Taken, DataPackets
  <2>2. CASE prop.data_type = "packet"
    BY <2>1, <2>2 DEF Proc, ProcPacket, AskTask, out
  <2>3. CASE prop.data_type # "packet"
    <3>1. prop.data_type = "raw"
      BY <1>t, <2>3 DEF TypeOK, Prop
    <3>2. /\ controls' = controls
          /\ tasks' = Append(tasks, [type |-> "raw", frame |-> proto, data |-> data])
      BY <3>1 DEF Proc, ProcRaw
    <3>. QED  BY <2>1, <3>1, <3>2 DEF AskTask
  <2>. QED  BY <2>2, <2>3
<1>. QED  BY <1>1, <1>2 DEF Neat
LEMMA ProcHandled ==
    ASSUME IInv, StreamInv, Neat, HandledInv, Proc
    PROVE  HandledInv'
<1>t. TypeOK /\ arrived \in Nat /\ offset \in Nat /\ tasks \in Seq(Task) /\ controls \in Seq(Frames \cup {0})
  BY DEF IInv, TypeOK, Task
<1>1. /\ pc = "proc" /\ pc' = "loop" /\ offset' = offset + proced /\ data' = NULL
      /\ UNCHANGED <<stream, segments, prop, arrived, consumed>> /\ UNCHANGED peer
  BY DEF Proc, peer
<1>2. PICK f \in Frames : Taken(f)
  BY <1>1 DEF HandledInv
<1>3. offset' = End(f) /\ End(f) <= arrived /\ stream[f].at = offset
  BY <1>1, <1>2 DEF Taken
<1>4. Handled(offset') = Handled(offset) \cup {f} /\ \A g \in Handled(offset) : g < f
  BY <1>t, <1>3, HandledNext
<1>5. /\ IF AskTask(f) THEN \E t : t.frame = f /\ tasks' = Append(tasks, t) ELSE tasks' = tasks
      /\ IF stream[f].type = "ctl" THEN controls' = Append(controls, f) ELSE controls' = controls
  BY <1>2, ProcFrame
<1>6. GoesThrough(TaskFrames', {g \in Handled(offset') : AskTask(g)})
  <2>1. GoesThrough(TaskFrames, {g \in Handled(offset) : AskTask(g)})
    BY DEF HandledInv, Done
  <2>2. CASE AskTask(f)
    <3>1. PICK t : t.frame = f /\ tasks' = Append(tasks, t)
      BY <1>5, <2>2
    <3>2. PICK n \in Nat : n = Len(tasks) /\ DOMAIN tasks = 1..n
      BY <1>t
    <3>3. /\ DOMAIN TaskFrames = 1..n /\ DOMAIN TaskFrames' = 1..(n + 1)
          /\ \A i \in 1..n : TaskFrames'[i] = TaskFrames[i]
          /\ TaskFrames'[n + 1] = f
      <4>1. /\ DOMAIN tasks' = 1..(n + 1)
            /\ \A i \in 1..n : tasks'[i] = tasks[i]
            /\ tasks'[n + 1] = t
        BY <1>t, <3>1, <3>2
      <4>. QED  BY <3>1, <3>2, <4>1 DEF TaskFrames
    <3>4. {g \in Handled(offset') : AskTask(g)} = {g \in Handled(offset) : AskTask(g)} \cup {f}
      BY <1>4, <2>2
    <3>. QED  BY <1>4, <2>1, <3>3, <3>4, GoesOn
  <2>3. CASE ~AskTask(f)
    <3>1. TaskFrames' = TaskFrames
      BY <1>5, <2>3 DEF TaskFrames
    <3>2. {g \in Handled(offset') : AskTask(g)} = {g \in Handled(offset) : AskTask(g)}
      BY <1>4, <2>3
    <3>. QED  BY <2>1, <3>1, <3>2
  <2>. QED  BY <2>2, <2>3
<1>7. GoesThrough(controls', {g \in Handled(offset') : stream[g].type = "ctl"})
  <2>1. GoesThrough(controls, {g \in Handled(offset) : stream[g].type = "ctl"})
    BY DEF HandledInv, Done
  <2>2. CASE stream[f].type = "ctl"
    <3>1. PICK n \in Nat : n = Len(controls) /\ DOMAIN controls = 1..n
      BY <1>t
    <3>2. /\ DOMAIN controls' = 1..(n + 1)
          /\ \A i \in 1..n : controls'[i] = controls[i]
          /\ controls'[n + 1] = f
      BY <1>t, <1>5, <2>2, <3>1
    <3>3. {g \in Handled(offset') : stream[g].type = "ctl"}
            = {g \in Handled(offset) : stream[g].type = "ctl"} \cup {f}
      BY <1>4, <2>2
    <3>. QED  BY <1>4, <2>1, <3>1, <3>2, <3>3, GoesOn
  <2>3. CASE stream[f].type # "ctl"
    <3>1. {g \in Handled(offset') : stream[g].type = "ctl"}
            = {g \in Handled(offset) : stream[g].type = "ctl"}
      BY <1>4, <2>3
    <3>. QED  BY <1>5, <2>1, <2>3, <3>1
  <2>. QED  BY <2>2, <2>3
<1>8. Done'
  BY <1>1, <1>6, <1>7 DEF Done, TaskFrames, Handled, Frames, End, AskTask
<1>9. OnePacket => offset' = arrived'
  BY <1>1, <1>2, <1>3 DEF Taken
<1>10. Boundary(offset') /\ Boundary(arrived')
  BY <1>1, <1>3 DEF HandledInv, Boundary
<1>. QED  BY <1>1, <1>8, <1>9, <1>10, PeerKept DEF HandledInv

LEMMA ReturnHandled ==
    ASSUME IInv, StreamInv, Neat, HandledInv, Return
    PROVE  HandledInv'
<1>t. TypeOK /\ arrived \in Nat /\ offset \in 0..arrived
  BY DEF IInv, TypeOK
<1>1. /\ pc \in {"loop", "proc"} /\ pc' = "idle" /\ consumed' = consumed + dataLen
      /\ UNCHANGED <<stream, segments, prop, arrived, offset, data, tasks, controls>> /\ UNCHANGED peer
  BY DEF Return, peer, slot, out
<1>2. consumed' = offset
  BY <1>1 DEF IInv, CallInv
<1>3. offset = arrived
  <2>1. prop.lua_hook_data
    BY DEF Neat, OnePacket, WholeHeaders
  <2>2. pc = "loop" /\ offset >= arrived
    BY <2>1 DEF Return, HandledInv
  <2>. QED  BY <1>t, <2>2
<1>4. Done'
  BY <1>1, DoneKept DEF HandledInv
<1>. QED  BY <1>1, <1>2, <1>3, <1>4, PeerKept DEF HandledInv

(* The frames' part of the invariant, whatever the scenario. *)
NeatInv == StreamInv /\ (Neat => HandledInv)

LEMMA NeatStep == IInv /\ NeatInv /\ [Next]_vars => NeatInv'
<1>. SUFFICES ASSUME IInv, NeatInv, [Next]_vars
              PROVE  NeatInv'
  OBVIOUS
<1>1. UNCHANGED peer
  BY DEF Next, OnData, Bare, Proc, Return, vars
<1>2. StreamInv' /\ (Neat' <=> Neat)
  BY <1>1, PeerKept DEF NeatInv, Neat
<1>3. ASSUME Neat
      PROVE  HandledInv'
  <2>1. StreamInv /\ HandledInv
    BY <1>3 DEF NeatInv
  <2>2. CASE Next
    BY <1>3, <2>1, <2>2, OnDataHandled, BareHandled, ProcHandled, ReturnHandled DEF Next
  <2>3. CASE UNCHANGED vars
    <3>1. Done'
      BY <2>1, <2>3, DoneKept DEF HandledInv, vars, out
    <3>. QED
      BY <1>1, <2>1, <2>3, <3>1, PeerKept DEF HandledInv, Taken, vars, slot, peer
  <2>. QED  BY <2>2, <2>3
<1>. QED  BY <1>2, <1>3 DEF NeatInv

LEMMA NeatInvariance == Spec => [](IInv /\ NeatInv)
<1>1. Init => NeatInv
  BY StreamInit, HandledInit DEF NeatInv
<1>. QED  BY <1>1, InitInv, StepInv, NeatStep, PTL DEF Spec

(* Each packet that comes in a segment of its own, and each header of      *)
(* requests that come whole, is handed on, or obeyed, exactly once and in  *)
(* the order of the stream, for streams of any length (_bspd_on_data,      *)
(* _proc_packet, _proc_raw, http_bare_data).                               *)
THEOREM FramesCorrect == Spec => []FramesHandledOnce
<1>1. IInv /\ NeatInv => FramesHandledOnce
  <2>. SUFFICES ASSUME HandledInv, pc = "idle"
                PROVE  /\ consumed = arrived
                       /\ GoesThrough([i \in DOMAIN tasks |-> tasks[i].frame], {f \in Received : AskTask(f)})
                       /\ GoesThrough(controls, {f \in Received : stream[f].type = "ctl"})
    BY DEF NeatInv, Neat, FramesHandledOnce
  <2>1. offset = arrived /\ consumed = arrived
    BY DEF HandledInv
  <2>2. Handled(offset) = Received
    BY <2>1 DEF Handled, Received
  <2>. QED  BY <2>1, <2>2 DEF HandledInv, Done, TaskFrames
<1>. QED  BY <1>1, NeatInvariance, PTL
-----------------------------------------------------------------------------
(* A server whose loop gets on whatever arrives: one that does not parse   *)
(* HTTP for a hook, or one whose peer sends headers whole.                 *)
Patient == ~(prop.type = "http" /\ prop.lua_hook_data) \/ WholeHeaders

(* The slot that the loop has filled counts bytes. *)
SlotInv ==
    /\ prop.type \notin {"normal", "http"} => ~bared
    /\ prop.type = "normal" /\ pc = "proc" => proced > 0

LEMMA SlotStep == IInv /\ SlotInv /\ [Next]_vars => SlotInv'
<1>. SUFFICES ASSUME IInv, SlotInv, [Next]_vars
              PROVE  SlotInv'
  OBVIOUS
<1>t. arrived \in Nat /\ offset \in Nat
  BY DEF IInv, TypeOK
<1>1. CASE OnData
  BY <1>1 DEF OnData, SlotInv, peer, slot
<1>2. CASE Bare
  BY <1>t, <1>2 DEF Bare, NormalBare, HttpBare, SlotInv, peer, slot
<1>3. CASE Proc
  BY <1>3 DEF Proc, SlotInv, peer
<1>4. CASE Return
  BY <1>4 DEF Return, SlotInv, peer, slot
<1>5. CASE UNCHANGED vars
  BY <1>5 DEF vars, SlotInv, peer, slot
<1>. QED  BY <1>1, <1>2, <1>3, <1>4, <1>5 DEF Next

(* A turn of the loop of a patient server never comes back to the same     *)
(* bytes, so _bspd_on_data returns (_bspd_on_data, normal_bare_data,       *)
(* http_bare_data).                                                        *)
THEOREM ProgressCorrect == Spec /\ Patient => LoopProgress
<1>1. Init => SlotInv
  BY DEF Init, SlotInv
<1>2. [Next]_vars /\ Patient => Patient'
  <2>. SUFFICES ASSUME [Next]_vars, Patient
                PROVE  Patient'
    OBVIOUS
  <2>1. UNCHANGED peer
    BY DEF Next, OnData, Bare, Proc, Return, vars
  <2>. QED  BY <2>1, PeerKept DEF Patient, peer
<1>3. IInv /\ NeatInv /\ SlotInv /\ Patient /\ [Next]_vars
        => [pc = "proc" /\ pc' = "loop" => offset' > offset]_vars
  <2>. SUFFICES ASSUME IInv, NeatInv, SlotInv, Patient, [Next]_vars, pc = "proc", pc' = "loop"
                PROVE  offset' > offset
    OBVIOUS
  <2>1. Proc
    BY DEF Next, OnData, Bare, Return, vars
  <2>2. /\ bared /\ prop.lua_hook_data /\ offset' = offset + proced
        /\ offset \in Nat /\ proced \in Nat
    BY <2>1 DEF Proc, IInv, TypeOK
  <2>3. CASE prop.type = "normal"
    BY <2>2, <2>3 DEF SlotInv
  <2>4. CASE prop.type = "http"
    <3>1. WholeHeaders /\ HandledInv
      BY <2>2, <2>4 DEF Patient, NeatInv, Neat
    <3>2. PICK f \in Frames : Taken(f)
      BY <3>1 DEF HandledInv
    <3>3. stream[f].at \in Nat /\ End(f) \in Nat /\ End(f) > stream[f].at
      BY FrameEnds DEF IInv
    <3>. QED  BY <2>2, <3>2, <3>3 DEF Taken
  <2>. QED  BY <2>2, <2>3, <2>4 DEF SlotInv
<1>. QED  BY <1>1, <1>2, <1>3, NeatInvariance, SlotStep, PTL DEF Spec, LoopProgress
=============================================================================
