--------------------------- MODULE RegistryProofs ---------------------------
(***************************************************************************)
(* Proofs about Registry, for any number of clients, sessions, channels,   *)
(* ids and workers, and in every world.                                    *)
(***************************************************************************)
EXTENDS Registry, SequenceTheorems, FiniteSetTheorems, TLAPS

AllChannels == Channels \cup {GLOBAL}

Listable == Channels \cup {GLOBAL, NULL}

(* A session never handed out has joined nothing. *)
FreshInv == \A s \in Sessions : life[s] = "fresh" => joined[s] = <<>>

(* Who is listed under an id is alive, has the id and knows where he is     *)
(* listed, unless his joined_list was lost in a way that stops del_session. *)
(* An empty joined_list means no membership: it may be lost without trace.  *)
Knows(s, k) ==
    \/ k = GLOBAL
    \/ joined[s] # NULL /\ \E n \in 1..Len(joined[s]) : joined[s][n] \in {k, NULL}

MemberInv ==
    \A k \in AllChannels, i \in Ids :
        members[k][i] # NULL =>
            /\ Live(members[k][i])
            /\ sid[members[k][i]] = i
            /\ joined[members[k][i]] # <<>>
            /\ Knows(members[k][i], k)

Inv == TypeOK /\ FreshInv /\ MemberInv

(* What a step is: the cases every proof below goes through. *)
LEMMA StepCases ==
    ASSUME [Next]_vars
    PROVE  \/ \E c \in Clients : Connect(c) /\ UNCHANGED world
           \/ \E c \in Clients : Disconnect(c) /\ UNCHANGED world
           \/ \E w \in Workers : TakeOver(w) /\ UNCHANGED world
           \/ \E w \in Workers : LogOn(w) /\ UNCHANGED world
           \/ \E w \in Workers, c \in Clients, i \in Ids : CheckLogged(w, c, i) /\ UNCHANGED world
           \/ \E c \in Clients : UnregClient(c) /\ UNCHANGED world
           \/ \E c \in Clients : CloseFd(c) /\ UNCHANGED world
           \/ \E i \in Ids : CloseSession(i) /\ UNCHANGED world
           \/ \E i \in Ids : UnregSession(i) /\ UNCHANGED world
           \/ \E k \in Channels : NewDynamic(k) /\ UNCHANGED world
           \/ \E k \in Channels : DelChannel(k) /\ UNCHANGED world
           \/ \E k \in Channels, n \in Names : NewStatic(n, k) /\ UNCHANGED world
           \/ \E k \in Channels, i \in Ids : JoinChannel(k, i) /\ UNCHANGED world
           \/ \E k \in Channels, i \in Ids : QuitChannel(k, i) /\ UNCHANGED world
           \/ GoWild /\ UNCHANGED world
           \/ UNCHANGED vars
  BY DEF Next, IoStep, RegStep, WorkerStep, SendChannel, SendSession, ReadClient, vars

-----------------------------------------------------------------------------
(* The operators that the steps share. *)

LEMMA Found ==
    ASSUME TypeOK, NEW i \in Ids \cup {NULL}
    PROVE  LoggedAs(i) \in Sessions \cup {NULL}
  BY RegistryAssumption DEF TypeOK, LoggedAs

LEMMA JoinsType ==
    ASSUME TypeOK, NEW s \in Sessions
    PROVE  Joins(s) \subseteq Listable
  BY ElementOfSeq DEF TypeOK, Joins, Listable

(* Channels with the type, kinds and members they should have. *)
ChannelsOK ==
    /\ kind \in [AllChannels -> Names \cup {"fresh", "dynamic", "freed", "global"}]
    /\ \A k, o \in Channels : kind[k] \in Names /\ kind[k] = kind[o] => k = o
    /\ members \in [AllChannels -> [Ids -> Sessions \cup {NULL}]]

LEMMA QuitAllFacts ==
    ASSUME TypeOK, NEW K \in SUBSET AllChannels, NEW i, QuitAll(K, i)
    PROVE  /\ ChannelsOK'
           /\ \A k \in AllChannels, j \in Ids : members'[k][j] \in {NULL, members[k][j]}
           /\ i \in Ids => \A k \in K : members'[k][i] = NULL
<1>1. /\ kind \in [AllChannels -> Names \cup {"fresh", "dynamic", "freed", "global"}]
      /\ \A k, o \in Channels : kind[k] \in Names /\ kind[k] = kind[o] => k = o
      /\ members \in [AllChannels -> [Ids -> Sessions \cup {NULL}]]
  BY DEF TypeOK, AllChannels
<1>2. Nobody \in [Ids -> {NULL}]
  BY DEF Nobody
<1>3. /\ kind' = [k \in AllChannels |-> IF k \in Emptied(K, i) THEN "freed" ELSE kind[k]]
      /\ members' = [k \in AllChannels |->
                        IF k \in Emptied(K, i) THEN Nobody
                        ELSE IF k \in K THEN [members[k] EXCEPT ![i] = NULL]
                        ELSE members[k]]
  BY <1>1 DEF QuitAll
<1>4. "freed" \notin Names
  BY RegistryAssumption
<1>5. /\ kind' \in [AllChannels -> Names \cup {"fresh", "dynamic", "freed", "global"}]
      /\ \A k, o \in Channels : kind'[k] \in Names /\ kind'[k] = kind'[o] => k = o
  BY <1>1, <1>3, <1>4 DEF AllChannels
<1>6. \A k \in AllChannels : members'[k] \in [Ids -> Sessions \cup {NULL}]
  BY <1>1, <1>2, <1>3
<1>7. members' \in [AllChannels -> [Ids -> Sessions \cup {NULL}]]
  BY <1>3, <1>6
<1>8. \A k \in AllChannels, j \in Ids : members'[k][j] \in {NULL, members[k][j]}
  BY <1>1, <1>2, <1>3
<1>9. i \in Ids => \A k \in K : members'[k][i] = NULL
  BY <1>1, <1>2, <1>3
<1>. QED  BY <1>5, <1>7, <1>8, <1>9 DEF ChannelsOK

LEMMA DelSessionFacts ==
    ASSUME TypeOK, NEW s \in Sessions, DelSession(s)
    PROVE  /\ ChannelsOK'
           /\ \A k \in AllChannels, j \in Ids : members'[k][j] \in {NULL, members[k][j]}
           /\ life' = [life EXCEPT ![s] = "freed"]
           /\ sid' = [sid EXCEPT ![s] = NULL]
           /\ logged' = [logged EXCEPT ![s] = FALSE]
           /\ joined' = [joined EXCEPT ![s] = <<>>]
<1>1. Joins(s) \cup {GLOBAL} \in SUBSET AllChannels
  <2>1. NULL \notin Joins(s)
    BY DEF DelSession, DelSessionSafe, Open
  <2>. QED  BY <2>1, JoinsType DEF AllChannels, Listable
<1>2. CASE sid[s] = NULL
  <2>1. UNCHANGED channels
    BY <1>2 DEF DelSession
  <2>2. ChannelsOK
    BY DEF TypeOK, ChannelsOK, AllChannels
  <2>. QED  BY <2>1, <2>2 DEF DelSession, channels, ChannelsOK
<1>3. CASE sid[s] # NULL
  <2>1. sid[s] \in Ids
    BY <1>3 DEF TypeOK
  <2>2. QuitAll(Joins(s) \cup {GLOBAL}, sid[s])
    BY <1>3 DEF DelSession
  <2>. QED  BY <1>1, <2>1, <2>2, QuitAllFacts DEF DelSession
<1>. QED  BY <1>2, <1>3

(* del_session takes the session off every list it is on. *)
LEMMA DelSessionUnlists ==
    ASSUME Inv, NEW s \in Sessions, DelSession(s), NEW k \in AllChannels, NEW j \in Ids
    PROVE  members'[k][j] # s
<1>1. TypeOK /\ MemberInv
  BY DEF Inv
<1> SUFFICES ASSUME members'[k][j] = s PROVE FALSE
  OBVIOUS
<1>2. s # NULL
  BY RegistryAssumption
<1>3. members[k][j] = s
  BY <1>1, <1>2, DelSessionFacts
<1>4. sid[s] = j /\ j # NULL /\ Knows(s, k)
  BY <1>1, <1>2, <1>3, RegistryAssumption DEF MemberInv
<1>5. QuitAll(Joins(s) \cup {GLOBAL}, j)
  BY <1>4 DEF DelSession
<1>6. NULL \notin Joins(s)
  BY DEF DelSession, DelSessionSafe, Open
<1>7. k \in Joins(s) \cup {GLOBAL}
  BY <1>4, <1>6 DEF Knows, Joins
<1>8. Joins(s) \cup {GLOBAL} \in SUBSET AllChannels
  BY <1>1, <1>6, JoinsType DEF AllChannels, Listable
<1>. QED  BY <1>1, <1>2, <1>5, <1>7, <1>8, QuitAllFacts

-----------------------------------------------------------------------------
(* Type correctness. *)

LEMMA TypeInit == Init => TypeOK
<1> SUFFICES ASSUME Init PROVE TypeOK
  OBVIOUS
<1>1. Nobody \in [Ids -> Sessions \cup {NULL}]
  BY DEF Nobody
<1>2. <<>> \in Seq(Listable)
  OBVIOUS
<1>. QED  BY <1>1, <1>2, RegistryAssumption DEF Init, TypeOK, Listable

LEMMA JoinType ==
    ASSUME TypeOK, NEW k \in AllChannels, NEW s \in Sessions, NEW i, joined[s] # NULL,
           Join(k, s, i) \/ JoinLost(k, s, i)
    PROVE  /\ members' \in [AllChannels -> [Ids -> Sessions \cup {NULL}]]
           /\ joined' \in [Sessions -> Seq(Listable) \cup {NULL}]
<1>1. members' = [members EXCEPT ![k][i] = s]
  BY DEF Join, JoinLost
<1>2. members' \in [AllChannels -> [Ids -> Sessions \cup {NULL}]]
  BY <1>1 DEF TypeOK, AllChannels
<1>3. joined \in [Sessions -> Seq(Listable) \cup {NULL}] /\ joined[s] \in Seq(Listable)
  BY DEF TypeOK, Listable
<1>4. CASE Join(k, s, i)
  <2>1. Append(joined[s], k) \in Seq(Listable)
    BY <1>3, AppendProperties DEF Listable, AllChannels
  <2>. QED  BY <1>2, <1>3, <1>4, <2>1 DEF Join
<1>5. CASE JoinLost(k, s, i)
  <2>1. [n \in DOMAIN joined[s] |-> NULL] \in Seq(Listable)
    <3>1. Len(joined[s]) \in Nat /\ DOMAIN joined[s] = 1..Len(joined[s])
      BY <1>3
    <3>2. [n \in 1..Len(joined[s]) |-> NULL] \in [1..Len(joined[s]) -> Listable]
      BY DEF Listable
    <3>. QED  BY <3>1, <3>2, SeqDef
  <2>. QED  BY <1>2, <1>3, <1>5, <2>1 DEF JoinLost
<1>. QED  BY <1>4, <1>5

LEMMA NewSessionType ==
    ASSUME TypeOK, NEW c \in Clients, NEW s \in Sessions, NewSession(c, s)
    PROVE  /\ life' \in [Sessions -> {"fresh", "live", "freed"}]
           /\ bound' \in [Sessions -> Clients \cup {NULL}]
           /\ additional' \in [Clients -> Sessions \cup {NULL}]
  BY DEF TypeOK, NewSession

LEMMA CloseSocketType ==
    ASSUME TypeOK, NEW c \in Clients \cup {NULL}, CloseSocket(c)
    PROVE  /\ conn' \in [Clients -> {"free", "open", "closed"}]
           /\ UNCHANGED <<additional, sessions, channels, call, wild>>
  BY DEF TypeOK, CloseSocket

LEMMA CloseSessionType ==
    ASSUME TypeOK, NEW i \in Ids \cup {NULL}, CloseSession(i), UNCHANGED world
    PROVE  TypeOK'
<1>1. LoggedAs(i) \in Sessions
  BY Found DEF CloseSession
<1>2. CASE Live(LoggedAs(i)) /\ CloseSocket(bound[LoggedAs(i)])
  <2>1. bound[LoggedAs(i)] \in Clients \cup {NULL}
    BY <1>1 DEF TypeOK
  <2>. QED  BY <1>2, <2>1, CloseSocketType DEF TypeOK, sessions, channels
<1>3. CASE GoWild
  BY <1>3 DEF TypeOK, GoWild, clients, sessions, channels
<1>. QED  BY <1>2, <1>3 DEF CloseSession

LEMMA DelSessionType ==
    ASSUME TypeOK, NEW s \in Sessions, DelSession(s)
    PROVE  /\ life' \in [Sessions -> {"fresh", "live", "freed"}]
           /\ sid' \in [Sessions -> Ids \cup {NULL}]
           /\ logged' \in [Sessions -> BOOLEAN]
           /\ joined' \in [Sessions -> Seq(Listable) \cup {NULL}]
           /\ ChannelsOK'
<1>1. <<>> \in Seq(Listable)
  OBVIOUS
<1>. QED  BY <1>1, DelSessionFacts DEF TypeOK, Listable
LEMMA TypeStep == TypeOK /\ FreshInv /\ [Next]_vars => TypeOK'
<1> SUFFICES ASSUME TypeOK, FreshInv, [Next]_vars PROVE TypeOK'
  OBVIOUS
<1> USE RegistryAssumption
<1>t. /\ ChannelsOK
      /\ joined \in [Sessions -> Seq(Listable) \cup {NULL}]
  BY DEF TypeOK, ChannelsOK, Listable, AllChannels
<1>w. ASSUME GoWild, UNCHANGED world PROVE TypeOK'
  BY <1>w DEF TypeOK, GoWild, clients, sessions, channels
<1>1. ASSUME NEW c \in Clients, Connect(c), UNCHANGED world PROVE TypeOK'
  <2>1. /\ life' \in [Sessions -> {"fresh", "live", "freed"}]
        /\ bound' \in [Sessions -> Clients \cup {NULL}]
        /\ additional' \in [Clients -> Sessions \cup {NULL}]
    BY <1>1, NewSessionType DEF TypeOK, Connect
  <2>. QED  BY <1>1, <2>1 DEF TypeOK, Connect, channels
<1>2. ASSUME NEW c \in Clients, Disconnect(c), UNCHANGED world PROVE TypeOK'
  BY <1>2 DEF TypeOK, Disconnect, sessions, channels
<1>3. ASSUME NEW w \in Workers, TakeOver(w), UNCHANGED world PROVE TypeOK'
  <2>1. call[w] \in Call
    BY <1>3 DEF TypeOK, TakeOver
  <2>2. /\ call[w].clt \in Clients /\ call[w].id \in Ids
        /\ call[w].session \in Sessions \cup {NULL} /\ call[w].old \in Sessions \cup {NULL}
    BY <2>1 DEF Call
  <2>3. CASE call[w].session = call[w].old /\ UNCHANGED <<clients, sessions, channels, wild>>
             /\ call' = [call EXCEPT ![w] = NULL]
    BY <1>3, <2>3 DEF TypeOK, clients, sessions, channels
  <2>4. CASE /\ call[w].session # call[w].old
             /\ IF call[w].session = NULL THEN UNCHANGED <<life, sid, logged, joined, channels>>
                ELSE DelSession(call[w].session)
             /\ call' = [call EXCEPT ![w] = NULL]
             /\ bound' = [bound EXCEPT ![call[w].old] = call[w].clt]
             /\ additional' = [additional EXCEPT ![call[w].clt] = call[w].old]
             /\ UNCHANGED <<conn, wild>>
    <3>1. /\ life' \in [Sessions -> {"fresh", "live", "freed"}]
          /\ sid' \in [Sessions -> Ids \cup {NULL}]
          /\ logged' \in [Sessions -> BOOLEAN]
          /\ joined' \in [Sessions -> Seq(Listable) \cup {NULL}]
          /\ ChannelsOK'
      BY <1>t, <2>2, <2>4, DelSessionType DEF TypeOK, channels, ChannelsOK
    <3>. QED  BY <1>3, <2>2, <2>4, <3>1 DEF TypeOK, ChannelsOK, Listable, AllChannels
  <2>. QED  BY <1>3, <1>w, <2>3, <2>4 DEF TakeOver
<1>4. ASSUME NEW w \in Workers, LogOn(w), UNCHANGED world PROVE TypeOK'
  <2>1. call[w] \in Call
    BY <1>4 DEF TypeOK, LogOn
  <2>2. /\ call[w].clt \in Clients /\ call[w].id \in Ids /\ call[w].session \in Sessions \cup {NULL}
    BY <2>1 DEF Call
  <2>3. ASSUME NEW t \in Sessions,
               IF call[w].session = NULL THEN NewSession(call[w].clt, t)
               ELSE t = call[w].session /\ CanJoin(t) /\ UNCHANGED <<life, bound, additional>>,
               sid' = [sid EXCEPT ![t] = call[w].id],
               \/ Join(GLOBAL, t, call[w].id) /\ logged' = [logged EXCEPT ![t] = TRUE]
               \/ UNCHANGED <<members, joined, logged>>
               \/ JoinLost(GLOBAL, t, call[w].id) /\ UNCHANGED logged,
               call' = [call EXCEPT ![w] = NULL],
               UNCHANGED <<conn, kind, wild>>
        PROVE  TypeOK'
    <3>1. /\ life' \in [Sessions -> {"fresh", "live", "freed"}]
          /\ bound' \in [Sessions -> Clients \cup {NULL}]
          /\ additional' \in [Clients -> Sessions \cup {NULL}]
      BY <2>2, <2>3, NewSessionType DEF TypeOK
    <3>2. joined[t] # NULL
      <4>1. joined[t] = <<>> \/ joined[t] # NULL
        BY <2>3 DEF FreshInv, NewSession, CanJoin
      <4>2. <<>> \in Seq(Channels \cup {GLOBAL, NULL})
        OBVIOUS
      <4>. QED  BY <4>1, <4>2
    <3>3. /\ members' \in [AllChannels -> [Ids -> Sessions \cup {NULL}]]
          /\ joined' \in [Sessions -> Seq(Listable) \cup {NULL}]
          /\ logged' \in [Sessions -> BOOLEAN]
      BY <1>t, <2>2, <2>3, <3>2, JoinType DEF TypeOK, ChannelsOK, AllChannels
    <3>. QED  BY <1>4, <2>2, <2>3, <3>1, <3>3 DEF TypeOK, Listable, AllChannels
  <2>4. CASE call' = [call EXCEPT ![w] = NULL] /\ UNCHANGED <<clients, sessions, channels, wild>>
    BY <1>4, <2>4 DEF TypeOK, clients, sessions, channels
  <2>. QED  BY <1>4, <1>w, <2>3, <2>4 DEF LogOn
<1>5. ASSUME NEW w \in Workers, NEW c \in Clients, NEW i \in Ids, CheckLogged(w, c, i), UNCHANGED world
      PROVE  TypeOK'
  <2>1. [clt |-> c, id |-> i, session |-> additional[c], old |-> LoggedAs(i)] \in Call
    BY Found DEF TypeOK, Call
  <2>. QED  BY <1>5, <2>1 DEF TypeOK, CheckLogged, clients, sessions, channels
<1>6. ASSUME NEW c \in Clients, UnregClient(c), UNCHANGED world PROVE TypeOK'
  <2>1. CASE conn' = [conn EXCEPT ![c] = "free"] /\ UNCHANGED <<additional, sessions, channels, call, wild>>
    BY <1>6, <2>1 DEF TypeOK, sessions, channels
  <2>2. CASE /\ additional[c] # NULL /\ DelSession(additional[c])
             /\ conn' = [conn EXCEPT ![c] = "free"]
             /\ UNCHANGED <<additional, bound, call, wild>>
    <3>1. additional[c] \in Sessions
      BY <2>2 DEF TypeOK
    <3>. QED  BY <1>6, <2>2, <3>1, DelSessionType DEF TypeOK, ChannelsOK, Listable, AllChannels
  <2>. QED  BY <1>6, <1>w, <2>1, <2>2 DEF UnregClient
<1>7. ASSUME NEW c \in Clients, CloseFd(c), UNCHANGED world PROVE TypeOK'
  <2>1. FdId[c] \in Ids \cup {NULL}
    OBVIOUS
  <2>2. CASE CloseSocket(c)
    BY <1>7, <2>2, CloseSocketType DEF TypeOK, sessions, channels
  <2>. QED  BY <1>7, <2>1, <2>2, CloseSessionType DEF CloseFd
<1>8. ASSUME NEW i \in Ids, CloseSession(i), UNCHANGED world PROVE TypeOK'
  BY <1>8, CloseSessionType
<1>9. ASSUME NEW i \in Ids, UnregSession(i), UNCHANGED world PROVE TypeOK'
  <2>1. LoggedAs(i) \in Sessions
    BY <1>9, Found DEF UnregSession
  <2>2. CASE DelSession(LoggedAs(i)) /\ UNCHANGED <<clients, bound, call, wild>>
    BY <1>9, <2>1, <2>2, DelSessionType DEF TypeOK, ChannelsOK, Listable, AllChannels, clients
  <2>. QED  BY <1>9, <1>w, <2>2 DEF UnregSession
<1>10. ASSUME NEW k \in Channels, NewDynamic(k), UNCHANGED world PROVE TypeOK'
  BY <1>10 DEF TypeOK, NewDynamic, clients, sessions
<1>11. ASSUME NEW k \in Channels, DelChannel(k), UNCHANGED world PROVE TypeOK'
  BY <1>11 DEF TypeOK, DelChannel, Nobody, clients, sessions
<1>12. ASSUME NEW k \in Channels, NEW n \in Names, NewStatic(n, k), UNCHANGED world PROVE TypeOK'
  BY <1>12 DEF TypeOK, NewStatic, Nobody, clients, sessions
<1>13. ASSUME NEW k \in Channels, NEW i \in Ids, JoinChannel(k, i), UNCHANGED world PROVE TypeOK'
  <2> DEFINE s == LoggedAs(i)
  <2>1. s \in Sessions
    BY <1>13, Found DEF JoinChannel
  <2>2. CASE /\ CanJoin(s) /\ (Join(k, s, sid[s]) \/ JoinLost(k, s, sid[s]))
             /\ UNCHANGED <<clients, life, sid, bound, logged, kind, call, wild>>
    <3>1. joined[s] # NULL /\ k \in AllChannels
      BY <2>2 DEF CanJoin, AllChannels
    <3>. QED  BY <1>13, <1>t, <2>1, <2>2, <3>1, JoinType DEF TypeOK, Listable, AllChannels, clients
  <2>. QED  BY <1>13, <1>w, <2>2 DEF JoinChannel
<1>14. ASSUME NEW k \in Channels, NEW i \in Ids, QuitChannel(k, i), UNCHANGED world PROVE TypeOK'
  <2>1. {k} \in SUBSET AllChannels
    BY DEF AllChannels
  <2>2. CASE QuitAll({k}, sid[LoggedAs(i)]) /\ UNCHANGED <<clients, sessions, call, wild>>
    BY <1>14, <2>1, <2>2, QuitAllFacts DEF TypeOK, ChannelsOK, AllChannels, clients, sessions
  <2>. QED  BY <1>14, <1>w, <2>2 DEF QuitChannel
<1>15. CASE UNCHANGED vars
  BY <1>15 DEF TypeOK, vars, clients, sessions, channels
<1>. QED  BY <1>w, <1>1, <1>2, <1>3, <1>4, <1>5, <1>6, <1>7, <1>8, <1>9, <1>10, <1>11, <1>12, <1>13, <1>14, <1>15,
             StepCases

(* A session starts with an empty joined_list, and joins when it is alive. *)
LEMMA FreshStep == TypeOK /\ FreshInv /\ [Next]_vars => FreshInv'
<1> SUFFICES ASSUME TypeOK, FreshInv, [Next]_vars, NEW s \in Sessions, life'[s] = "fresh"
             PROVE  joined'[s] = <<>>
  BY DEF FreshInv
<1> USE RegistryAssumption
<1>k. CASE life'[s] = life[s] /\ joined'[s] = joined[s]
  BY <1>k DEF FreshInv
<1>d. ASSUME NEW t \in Sessions, DelSession(t) PROVE joined'[s] = <<>>
  BY <1>d, DelSessionFacts DEF TypeOK, FreshInv
<1>1. ASSUME NEW c \in Clients, Connect(c) PROVE joined'[s] = <<>>
  BY <1>1 DEF Connect, NewSession, TypeOK, FreshInv
<1>2. ASSUME NEW w \in Workers, TakeOver(w) PROVE joined'[s] = <<>>
  <2>1. call[w].session \in Sessions \cup {NULL}
    BY <1>2 DEF TypeOK, TakeOver, Call
  <2>2. CASE call[w].session # NULL /\ DelSession(call[w].session)
    BY <1>d, <2>1, <2>2
  <2>. QED  BY <1>k, <1>2, <2>1, <2>2 DEF TakeOver, GoWild, sessions
<1>3. ASSUME NEW w \in Workers, LogOn(w) PROVE joined'[s] = <<>>
  <2>1. ASSUME NEW t \in Sessions, life'[t] = "live",
               UNCHANGED joined \/ \E l : joined' = [joined EXCEPT ![t] = l],
               \A u \in Sessions \ {t} : life'[u] = life[u]
        PROVE  joined'[s] = <<>>
    BY <2>1 DEF TypeOK, FreshInv
  <2>2. ASSUME NEW t \in Sessions,
               IF call[w].session = NULL THEN NewSession(call[w].clt, t)
               ELSE t = call[w].session /\ CanJoin(t) /\ UNCHANGED life,
               \/ Join(GLOBAL, t, call[w].id)
               \/ UNCHANGED joined
               \/ JoinLost(GLOBAL, t, call[w].id)
        PROVE  joined'[s] = <<>>
    <3>1. life'[t] = "live" /\ \A u \in Sessions \ {t} : life'[u] = life[u]
      BY <2>2 DEF NewSession, CanJoin, Live, TypeOK
    <3>2. UNCHANGED joined \/ \E l : joined' = [joined EXCEPT ![t] = l]
      BY <2>2 DEF Join, JoinLost
    <3>. QED  BY <2>1, <3>1, <3>2
  <2>. QED  BY <1>k, <1>3, <2>2 DEF LogOn, GoWild, sessions
<1>4. ASSUME NEW c \in Clients, UnregClient(c) PROVE joined'[s] = <<>>
  <2>1. additional[c] \in Sessions \cup {NULL}
    BY DEF TypeOK
  <2>. QED  BY <1>k, <1>d, <1>4, <2>1 DEF UnregClient, GoWild, sessions
<1>5. ASSUME NEW i \in Ids, UnregSession(i) PROVE joined'[s] = <<>>
  BY <1>k, <1>d, <1>5, Found DEF UnregSession, GoWild, sessions
<1>6. ASSUME NEW k \in Channels, NEW i \in Ids, JoinChannel(k, i) PROVE joined'[s] = <<>>
  <2>1. CASE CanJoin(LoggedAs(i)) /\ UNCHANGED life
             /\ (Join(k, LoggedAs(i), sid[LoggedAs(i)]) \/ JoinLost(k, LoggedAs(i), sid[LoggedAs(i)]))
    <3>1. LoggedAs(i) # s
      BY <2>1 DEF CanJoin, Live
    <3>. QED  BY <1>k, <2>1, <3>1 DEF Join, JoinLost, TypeOK
  <2>. QED  BY <1>k, <1>6, <2>1 DEF JoinChannel, GoWild, sessions
<1>7. ASSUME NEW i \in Ids \cup {NULL}, CloseSession(i) PROVE joined'[s] = <<>>
  BY <1>k, <1>7 DEF CloseSession, CloseSocket, GoWild, sessions
<1>8. ASSUME NEW c \in Clients, CloseFd(c) PROVE joined'[s] = <<>>
  BY <1>k, <1>7, <1>8 DEF CloseFd, CloseSocket, sessions
<1>. QED
  BY <1>k, <1>1, <1>2, <1>3, <1>4, <1>5, <1>6, <1>7, <1>8, StepCases
  DEF Disconnect, CheckLogged, NewDynamic, DelChannel, NewStatic, QuitChannel, GoWild, vars, sessions
-----------------------------------------------------------------------------
(* Members. *)

LEMMA MemberInit == Init => FreshInv /\ MemberInv
  BY DEF Init, FreshInv, MemberInv, Nobody, AllChannels

(* Memberships may go, and those that stay are of sessions left alone. *)
LEMMA MembersKept ==
    ASSUME TypeOK, MemberInv,
           \A k \in AllChannels, i \in Ids : members'[k][i] \in {NULL, members[k][i]},
           \A k \in AllChannels, i \in Ids :
               LET s == members[k][i] IN
               members'[k][i] # NULL => life'[s] = life[s] /\ sid'[s] = sid[s] /\ joined'[s] = joined[s]
    PROVE  MemberInv'
<1> SUFFICES ASSUME NEW k \in AllChannels, NEW i \in Ids, members'[k][i] # NULL
             PROVE  /\ Live(members[k][i])'
                    /\ sid'[members'[k][i]] = i
                    /\ joined'[members'[k][i]] # <<>>
                    /\ Knows(members[k][i], k)'
  BY DEF MemberInv
<1> DEFINE s == members[k][i]
<1>1. members'[k][i] = s /\ s # NULL
  OBVIOUS
<1>2. life'[s] = life[s] /\ sid'[s] = sid[s] /\ joined'[s] = joined[s]
  BY <1>1
<1>3. Live(s) /\ sid[s] = i /\ joined[s] # <<>> /\ Knows(s, k)
  BY <1>1 DEF MemberInv
<1>. QED  BY <1>1, <1>2, <1>3 DEF Live, Knows

LEMMA DeletionKeepsMembers ==
    ASSUME Inv, NEW s \in Sessions, DelSession(s)
    PROVE  MemberInv'
<1>1. TypeOK /\ MemberInv
  BY DEF Inv
<1>2. \A k \in AllChannels, i \in Ids : members'[k][i] \in {NULL, members[k][i]} /\ members'[k][i] # s
  BY <1>1, DelSessionFacts, DelSessionUnlists
<1>3. \A t \in Sessions \ {s} : life'[t] = life[t] /\ sid'[t] = sid[t] /\ joined'[t] = joined[t]
  BY <1>1, DelSessionFacts DEF TypeOK
<1>4. \A k \in AllChannels, i \in Ids : members[k][i] \in Sessions \cup {NULL}
  BY <1>1 DEF TypeOK, AllChannels
<1>. QED  BY <1>1, <1>2, <1>3, <1>4, MembersKept

(* A session joins under its id, or the only one it is listed under.  If   *)
(* its joined_list is lost it was listed nowhere, or what is left of the    *)
(* list tells.                                                              *)
LEMMA JoiningKeepsMembers ==
    ASSUME TypeOK, MemberInv, NEW k \in AllChannels, NEW s \in Sessions, NEW i \in Ids,
           Join(k, s, i) \/ JoinLost(k, s, i),
           joined[s] # NULL, k # GLOBAL => joined[s] # <<>>,
           life'[s] = "live", sid'[s] = i,
           \A o \in AllChannels, j \in Ids : members[o][j] = s => j = i,
           \A t \in Sessions \ {s} : life'[t] = life[t] /\ sid'[t] = sid[t]
    PROVE  MemberInv'
<1> USE RegistryAssumption
<1> SUFFICES ASSUME NEW o \in AllChannels, NEW j \in Ids, members'[o][j] # NULL
             PROVE  /\ Live(members[o][j])'
                    /\ sid'[members'[o][j]] = j
                    /\ joined'[members'[o][j]] # <<>>
                    /\ Knows(members[o][j], o)'
  BY DEF MemberInv
<1> DEFINE t == members'[o][j]
<1>1. members' = [members EXCEPT ![k][i] = s]
  BY DEF Join, JoinLost
<1>2. (t = s /\ o = k /\ j = i) \/ (t = members[o][j] /\ t \in Sessions)
  BY <1>1 DEF TypeOK, AllChannels
<1>3. joined \in [Sessions -> Seq(Listable) \cup {NULL}] /\ joined[s] \in Seq(Listable)
  BY DEF TypeOK, Listable
<1>4. CASE t # s
  <2>1. t = members[o][j] /\ t \in Sessions /\ t # NULL
    BY <1>2, <1>4
  <2>2. Live(t) /\ sid[t] = j /\ joined[t] # <<>> /\ Knows(t, o)
    BY <2>1 DEF MemberInv
  <2>3. joined'[t] = joined[t]
    BY <1>3, <1>4, <2>1 DEF Join, JoinLost
  <2>. QED  BY <1>4, <2>1, <2>2, <2>3 DEF Live, Knows
<1>5. CASE t = s
  <2>1. j = i
    BY <1>2, <1>5
  <2>2. Live(s)'
    BY DEF Live
  <2>3. o = k \/ (joined[s] # <<>> /\ Knows(s, o))
    BY <1>2, <1>5 DEF MemberInv
  <2>4. CASE Join(k, s, i)
    <3>1. joined'[s] = Append(joined[s], k)
      BY <1>3, <2>4 DEF Join
    <3>2. /\ joined'[s] \in Seq(Listable) /\ joined'[s] # <<>>
          /\ Len(joined'[s]) = Len(joined[s]) + 1 /\ joined'[s][Len(joined[s]) + 1] = k
          /\ \A n \in 1..Len(joined[s]) : joined'[s][n] = joined[s][n]
      BY <1>3, <3>1, AppendProperties DEF Listable, AllChannels
    <3>3. joined'[s] # NULL
      BY <3>2 DEF Listable
    <3>4. Len(joined[s]) \in Nat
      BY <1>3
    <3>5. Knows(s, o)'
      BY <2>3, <3>2, <3>3, <3>4 DEF Knows
    <3>. QED  BY <1>5, <2>1, <2>2, <3>2, <3>5 DEF Knows
  <2>5. CASE JoinLost(k, s, i) /\ joined[s] = <<>>
    <3>1. joined'[s] = NULL
      BY <1>3, <2>5 DEF JoinLost
    <3>2. <<>> \in Seq(Channels \cup {GLOBAL, NULL})
      OBVIOUS
    <3>. QED  BY <1>5, <2>1, <2>2, <2>3, <2>5, <3>1, <3>2 DEF Knows
  <2>6. CASE JoinLost(k, s, i) /\ joined[s] # <<>>
    <3>1. joined'[s] = [n \in DOMAIN joined[s] |-> NULL]
      BY <1>3, <2>6 DEF JoinLost
    <3>2. Len(joined[s]) \in Nat \ {0} /\ DOMAIN joined[s] = 1..Len(joined[s])
      BY <1>3, <2>6
    <3>3. joined'[s] \in Seq(Listable) /\ Len(joined'[s]) = Len(joined[s]) /\ joined'[s][1] = NULL
      <4>1. [n \in 1..Len(joined[s]) |-> NULL] \in [1..Len(joined[s]) -> Listable]
        BY DEF Listable
      <4>2. joined'[s] \in Seq(Listable)
        BY <3>1, <3>2, <4>1, SeqDef
      <4>3. Len(joined'[s]) = Len(joined[s])
        BY <3>1, <3>2, <4>2
      <4>. QED  BY <3>1, <3>2, <4>2, <4>3
    <3>4. joined'[s] # NULL /\ joined'[s] # <<>>
      BY <3>2, <3>3 DEF Listable
    <3>5. Knows(s, o)'
      BY <3>2, <3>3, <3>4 DEF Knows
    <3>. QED  BY <1>5, <2>1, <2>2, <3>4, <3>5 DEF Knows
  <2>. QED  BY <2>4, <2>5, <2>6
<1>. QED  BY <1>4, <1>5
LEMMA MemberStep == Inv /\ [Next]_vars => MemberInv'
<1> SUFFICES ASSUME Inv, [Next]_vars PROVE MemberInv'
  OBVIOUS
<1> USE RegistryAssumption
<1>i. TypeOK /\ FreshInv /\ MemberInv
  BY DEF Inv
<1>m. \A k \in AllChannels, i \in Ids : members[k][i] \in Sessions \cup {NULL}
  BY <1>i DEF TypeOK, AllChannels
<1>k. CASE UNCHANGED <<life, sid, joined, members>>
  BY <1>i, <1>k, MembersKept
<1>c. CASE /\ \A k \in AllChannels, i \in Ids : members'[k][i] \in {NULL, members[k][i]}
           /\ UNCHANGED <<life, sid, joined>>
  BY <1>i, <1>c, MembersKept
<1>d. ASSUME NEW s \in Sessions, DelSession(s) PROVE MemberInv'
  BY <1>d, DeletionKeepsMembers
<1>1. ASSUME NEW c \in Clients, Connect(c) PROVE MemberInv'
  <2>1. \A k \in AllChannels, i \in Ids : members[k][i] # NULL => life'[members[k][i]] = life[members[k][i]]
    BY <1>1, <1>i, <1>m DEF Connect, NewSession, MemberInv, Live, TypeOK
  <2>. QED  BY <1>1, <1>i, <2>1, MembersKept DEF Connect, channels
<1>2. ASSUME NEW w \in Workers, TakeOver(w) PROVE MemberInv'
  <2>1. call[w].session \in Sessions \cup {NULL}
    BY <1>2, <1>i DEF TypeOK, TakeOver, Call
  <2>2. CASE call[w].session # NULL /\ DelSession(call[w].session)
    BY <1>d, <2>1, <2>2
  <2>. QED  BY <1>k, <1>2, <2>1, <2>2 DEF TakeOver, GoWild, sessions, channels
<1>3. ASSUME NEW w \in Workers, LogOn(w) PROVE MemberInv'
  <2> DEFINE i == call[w].id
  <2>1. i \in Ids /\ call[w].session \in Sessions \cup {NULL}
    BY <1>3, <1>i DEF TypeOK, LogOn, Call
  <2>2. ASSUME NEW t \in Sessions,
               IF call[w].session = NULL THEN NewSession(call[w].clt, t)
               ELSE /\ t = call[w].session /\ CanJoin(t)
                    /\ ~Renames(t, i)
                    /\ UNCHANGED <<life, bound, additional>>,
               sid' = [sid EXCEPT ![t] = i],
               \/ Join(GLOBAL, t, i)
               \/ UNCHANGED <<members, joined>>
               \/ JoinLost(GLOBAL, t, i)
        PROVE  MemberInv'
    <3>1. /\ life'[t] = "live" /\ sid'[t] = i
          /\ \A u \in Sessions \ {t} : life'[u] = life[u] /\ sid'[u] = sid[u]
      BY <1>i, <2>2 DEF NewSession, CanJoin, Live, TypeOK
    <3>2. joined[t] # NULL
      <4>1. joined[t] = <<>> \/ joined[t] # NULL
        BY <1>i, <2>2 DEF FreshInv, NewSession, CanJoin
      <4>2. <<>> \in Seq(Channels \cup {GLOBAL, NULL})
        OBVIOUS
      <4>. QED  BY <4>1, <4>2
    <3>3. \A o \in AllChannels, j \in Ids : members[o][j] = t => life[t] = "live" /\ sid[t] = j /\ j = i
      <4> SUFFICES ASSUME NEW o \in AllChannels, NEW j \in Ids, members[o][j] = t
                   PROVE  life[t] = "live" /\ sid[t] = j /\ j = i
        OBVIOUS
      <4>1. life[t] = "live" /\ sid[t] = j /\ j # NULL /\ t # NULL
        BY <1>i DEF MemberInv, Live
      <4>2. ~Renames(t, i)
        BY <2>2, <4>1 DEF NewSession
      <4>. QED  BY <4>1, <4>2 DEF Renames, Live
    <3>4. CASE UNCHANGED <<members, joined>>
      BY <1>i, <1>m, <3>1, <3>3, <3>4, MembersKept
    <3>5. CASE Join(GLOBAL, t, i) \/ JoinLost(GLOBAL, t, i)
      <4>1. GLOBAL \in AllChannels
        BY DEF AllChannels
      <4>. QED  BY <1>i, <2>1, <3>1, <3>2, <3>3, <3>5, <4>1, JoiningKeepsMembers
    <3>. QED  BY <2>2, <3>4, <3>5
  <2>. QED  BY <1>k, <1>3, <2>2 DEF LogOn, GoWild, sessions, channels
<1>4. ASSUME NEW c \in Clients, UnregClient(c) PROVE MemberInv'
  <2>1. additional[c] \in Sessions \cup {NULL}
    BY <1>i DEF TypeOK
  <2>. QED  BY <1>k, <1>d, <1>4, <2>1 DEF UnregClient, GoWild, sessions, channels
<1>5. ASSUME NEW i \in Ids, UnregSession(i) PROVE MemberInv'
  BY <1>k, <1>d, <1>i, <1>5, Found DEF UnregSession, GoWild, sessions, channels
<1>6. ASSUME NEW k \in Channels, NEW i \in Ids, JoinChannel(k, i) PROVE MemberInv'
  <2> DEFINE s == LoggedAs(i)
  <2>1. s \in Sessions /\ s = members[GLOBAL][i]
    BY <1>6, <1>i, Found DEF JoinChannel, LoggedAs
  <2>2. CASE CanJoin(s) /\ (Join(k, s, sid[s]) \/ JoinLost(k, s, sid[s])) /\ UNCHANGED <<life, sid>>
    <3>1. GLOBAL \in AllChannels /\ k \in AllChannels
      BY DEF AllChannels
    <3>2. Live(s) /\ sid[s] = i /\ joined[s] # <<>>
      BY <1>i, <2>1, <3>1 DEF MemberInv
    <3>3. \A o \in AllChannels, j \in Ids : members[o][j] = s => j = i
      BY <1>i, <2>1, <3>2 DEF MemberInv
    <3>4. joined[s] # NULL
      BY <2>2 DEF CanJoin
    <3>5. life'[s] = "live" /\ sid'[s] = i /\ \A t \in Sessions \ {s} : life'[t] = life[t] /\ sid'[t] = sid[t]
      BY <2>2, <3>2 DEF Live
    <3>. QED  BY <1>i, <2>1, <2>2, <3>1, <3>2, <3>3, <3>4, <3>5, JoiningKeepsMembers
  <2>. QED  BY <1>k, <1>6, <2>2 DEF JoinChannel, GoWild, sessions, channels
<1>7. ASSUME NEW i \in Ids \cup {NULL}, CloseSession(i) PROVE MemberInv'
  BY <1>k, <1>7 DEF CloseSession, CloseSocket, GoWild, sessions, channels
<1>8. ASSUME NEW c \in Clients, CloseFd(c) PROVE MemberInv'
  BY <1>k, <1>7, <1>8 DEF CloseFd, CloseSocket, sessions, channels
<1>9. ASSUME NEW k \in Channels, NEW i \in Ids, QuitChannel(k, i) PROVE MemberInv'
  <2>1. {k} \in SUBSET AllChannels
    BY DEF AllChannels
  <2>. QED  BY <1>c, <1>k, <1>i, <1>9, <2>1, QuitAllFacts DEF QuitChannel, GoWild, sessions, channels
<1>10. ASSUME NEW k \in Channels, DelChannel(k) PROVE MemberInv'
  BY <1>c, <1>i, <1>10 DEF DelChannel, Nobody, sessions, TypeOK, AllChannels
<1>11. ASSUME NEW k \in Channels, NEW n \in Names, NewStatic(n, k) PROVE MemberInv'
  BY <1>c, <1>i, <1>11 DEF NewStatic, Nobody, sessions, TypeOK, AllChannels
<1>. QED
  BY <1>k, <1>1, <1>2, <1>3, <1>4, <1>5, <1>6, <1>7, <1>8, <1>9, <1>10, <1>11, StepCases
  DEF Disconnect, CheckLogged, NewDynamic, GoWild, vars, sessions, channels

-----------------------------------------------------------------------------
(* Every variable keeps its type, and a name its one channel. *)
THEOREM TypeCorrect == Spec => []TypeOK
<1>1. Init => TypeOK /\ FreshInv
  BY TypeInit, MemberInit
<1>2. TypeOK /\ FreshInv /\ [Next]_vars => TypeOK' /\ FreshInv'
  BY TypeStep, FreshStep
<1>. QED  BY <1>1, <1>2, PTL DEF Spec

(* No channel lists a freed session, or one under another's id, whatever    *)
(* hooks do, allocations fail and workers overlap: what a broadcast or     *)
(* bsp_list_channel reads is there.                                        *)
THEOREM MembersCorrect == Spec => []NoDanglingMember
<1>1. Init => Inv
  BY TypeInit, MemberInit DEF Inv
<1>2. Inv /\ [Next]_vars => Inv'
  BY TypeStep, FreshStep, MemberStep DEF Inv
<1>3. Inv => NoDanglingMember
  BY DEF Inv, MemberInv, NoDanglingMember, AllChannels
<1>. QED  BY <1>1, <1>2, <1>3, PTL DEF Spec

-----------------------------------------------------------------------------
(* What holds of one worker.  While it registers a session, only the I/O   *)
(* threads move: what it has looked up is still so when it acts on it.     *)
CallInv ==
    OneWorker =>
        /\ \A v, w \in Workers : call[v] # NULL /\ call[w] # NULL => v = w
        /\ \A w \in Workers :
            call[w] # NULL =>
                /\ conn[call[w].clt] # "free"
                /\ additional[call[w].clt] = call[w].session
                /\ LoggedAs(call[w].id) = call[w].old

LEMMA IdleCalls ==
    ASSUME Idle, OneWorker
    PROVE  \A w \in Workers : call[w] = NULL
<1> DEFINE Calling == {w \in Workers : call[w] # NULL}
<1>1. IsFiniteSet(Calling)
  BY RegistryAssumption, FS_Subset
<1>2. Cardinality(Calling) \in Nat /\ (Cardinality(Calling) = 0 <=> Calling = {})
  BY <1>1, FS_CardinalityType, FS_EmptySet
<1>3. Cardinality(Calling) < 1
  BY DEF Idle, OneWorker
<1> HIDE DEF Calling
<1>4. Calling = {}
  BY <1>2, <1>3
<1>. QED  BY <1>4 DEF Calling

LEMMA WorkerStepCall == WorkerStep => Idle /\ call' = call
  BY DEF WorkerStep, UnregClient, CloseFd, CloseSocket, CloseSession, UnregSession, NewDynamic, DelChannel,
     NewStatic, JoinChannel, QuitChannel, SendChannel, SendSession, ReadClient, GoWild

LEMMA CallStep == TypeOK /\ CallInv /\ [Next]_vars => CallInv'
<1> SUFFICES ASSUME TypeOK, CallInv, [Next]_vars PROVE CallInv'
  OBVIOUS
<1>1. CASE UNCHANGED vars
  BY <1>1 DEF vars, CallInv, OneWorker, LoggedAs
<1>2. CASE ~OneWorker /\ UNCHANGED world
  BY <1>2 DEF CallInv, OneWorker
<1>3. CASE OneWorker /\ UNCHANGED world
  <2>1. ASSUME NEW c \in Clients, Connect(c) PROVE CallInv'
    <3>1. /\ UNCHANGED <<call, members>> /\ conn[c] = "free"
          /\ \A d \in Clients : d # c => conn'[d] = conn[d] /\ additional'[d] = additional[d]
      BY <2>1 DEF Connect, NewSession, channels, TypeOK
    <3>2. \A w \in Workers : call[w] # NULL => call[w].clt \in Clients
      BY DEF TypeOK, Call
    <3>. QED  BY <1>3, <3>1, <3>2 DEF CallInv, LoggedAs
  <2>2. ASSUME NEW c \in Clients, Disconnect(c) PROVE CallInv'
    <3>1. /\ UNCHANGED <<call, members, additional>>
          /\ \A d \in Clients : conn[d] # "free" => conn'[d] # "free"
      BY <2>2 DEF Disconnect, channels, TypeOK
    <3>2. \A w \in Workers : call[w] # NULL => call[w].clt \in Clients
      BY DEF TypeOK, Call
    <3>. QED  BY <1>3, <3>1, <3>2 DEF CallInv, LoggedAs
  <2>3. ASSUME NEW w \in Workers, TakeOver(w) \/ LogOn(w) PROVE CallInv'
    <3>1. call[w] # NULL /\ \A v \in Workers : v # w => call[v] = NULL
      BY <1>3, <2>3 DEF TakeOver, LogOn, CallInv
    <3>2. call' = [call EXCEPT ![w] = NULL] \/ GoWild
      BY <2>3 DEF TakeOver, LogOn
    <3>3. CASE call' = [call EXCEPT ![w] = NULL]
      <4>1. \A v \in Workers : call'[v] = NULL
        BY <3>1, <3>3 DEF TypeOK
      <4>. QED  BY <4>1 DEF CallInv
    <3>4. CASE GoWild
      BY <1>3, <3>4 DEF GoWild, CallInv, clients, channels, LoggedAs
    <3>. QED  BY <3>2, <3>3, <3>4
  <2>4. ASSUME NEW w \in Workers, NEW c \in Clients, NEW i \in Ids, CheckLogged(w, c, i) PROVE CallInv'
    <3>1. \A v \in Workers : call[v] = NULL
      BY <1>3, <2>4, IdleCalls DEF CheckLogged
    <3> DEFINE new == [clt |-> c, id |-> i, session |-> additional[c], old |-> LoggedAs(i)]
    <3>2. /\ call' = [call EXCEPT ![w] = new]
          /\ conn[c] = "open" /\ UNCHANGED <<conn, additional, members>>
      BY <2>4 DEF CheckLogged, clients, channels
    <3>3. \A v \in Workers : call'[v] = IF v = w THEN new ELSE NULL
      BY <3>1, <3>2 DEF TypeOK
    <3>. QED  BY <3>2, <3>3 DEF CallInv, LoggedAs
  <2>5. CASE WorkerStep
    BY <1>3, <2>5, IdleCalls, WorkerStepCall DEF CallInv
  <2>. QED  BY <1>1, <2>1, <2>2, <2>3, <2>4, <2>5 DEF Next, IoStep, RegStep
<1>. QED  BY <1>1, <1>2, <1>3 DEF Next

LEMMA CallInit == Init => CallInv
  BY DEF Init, CallInv

(* An anonymous session has a connection. *)
Owned(s) == \E c \in Clients : conn[c] # "free" /\ additional[c] = s

LEMMA OwnedStep ==
    ASSUME TypeOK, CallInv, AnonymousOwned, [Next]_vars, OneWorker,
           NEW s \in Sessions, life'[s] = "live", ~logged'[s]
    PROVE  Owned(s)'
<1>o. life[s] = "live" /\ ~logged[s] => Owned(s)
  BY DEF AnonymousOwned, Live, Owned
<1>k. ASSUME life[s] = "live", ~logged[s],
             \A c \in Clients : conn[c] # "free" => conn'[c] # "free",
             \A c \in Clients : additional[c] = s => additional'[c] = s
      PROVE  Owned(s)'
  BY <1>o, <1>k DEF Owned
<1>u. CASE UNCHANGED <<conn, additional, life, logged>>
  BY <1>k, <1>u
<1>d. ASSUME NEW t \in Sessions, DelSession(t) PROVE t # s /\ life[s] = "live" /\ ~logged[s]
  BY <1>d, DelSessionFacts DEF TypeOK
<1>1. ASSUME NEW c \in Clients, Connect(c) PROVE Owned(s)'
  <2>1. /\ conn[c] = "free" /\ conn' = [conn EXCEPT ![c] = "open"] /\ UNCHANGED logged
        /\ \A d \in Clients : d # c => additional'[d] = additional[d]
    BY <1>1 DEF Connect, NewSession, TypeOK
  <2>2. CASE life[s] = "live"
    BY <1>o, <2>1, <2>2 DEF Owned, TypeOK
  <2>3. CASE life[s] # "live"
    <3>1. NewSession(c, s)
      BY <1>1, <2>3 DEF Connect, NewSession, TypeOK
    <3>. QED  BY <2>1, <3>1 DEF NewSession, Owned, TypeOK
  <2>. QED  BY <2>2, <2>3
<1>2. ASSUME NEW c \in Clients, Disconnect(c) PROVE Owned(s)'
  BY <1>k, <1>2 DEF Disconnect, sessions, TypeOK
<1>3. ASSUME NEW w \in Workers, TakeOver(w) PROVE Owned(s)'
  <2> DEFINE c == call[w].clt  t == call[w].session  old == call[w].old
  <2>1. /\ c \in Clients /\ t \in Sessions \cup {NULL} /\ conn[c] # "free" /\ additional[c] = t
    BY <1>3 DEF TakeOver, TypeOK, Call, CallInv
  <2>2. CASE UNCHANGED <<conn, additional, life, logged>>
    BY <1>u, <2>2
  <2>3. CASE /\ t # NULL => DelSession(t)
             /\ t = NULL => UNCHANGED <<life, logged>>
             /\ additional' = [additional EXCEPT ![c] = old] /\ UNCHANGED conn
    <3>1. t # s /\ life[s] = "live" /\ ~logged[s]
      BY <1>d, <2>1, <2>3, RegistryAssumption
    <3>2. PICK d \in Clients : conn[d] # "free" /\ additional[d] = s
      BY <1>o, <3>1 DEF Owned
    <3>3. d # c
      BY <2>1, <3>1, <3>2
    <3>. QED  BY <2>3, <3>2, <3>3 DEF Owned, TypeOK
  <2>. QED  BY <1>3, <2>2, <2>3 DEF TakeOver, GoWild, clients, sessions
<1>4. ASSUME NEW w \in Workers, LogOn(w) PROVE Owned(s)'
  <2> DEFINE c == call[w].clt
  <2>1. c \in Clients /\ conn[c] # "free" /\ additional[c] = call[w].session
    BY <1>4 DEF LogOn, TypeOK, Call, CallInv
  <2>2. CASE UNCHANGED <<conn, additional, life, logged>>
    BY <1>u, <2>2
  <2>3. ASSUME NEW t \in Sessions, UNCHANGED conn,
               logged' = [logged EXCEPT ![t] = TRUE] \/ UNCHANGED logged,
               IF call[w].session = NULL THEN NewSession(c, t) ELSE UNCHANGED <<life, bound, additional>>
        PROVE  Owned(s)'
    <3>1. ~logged[s]
      BY <2>3 DEF TypeOK
    <3>2. CASE call[w].session = NULL /\ s = t
      BY <2>1, <2>3, <3>2 DEF NewSession, Owned, TypeOK
    <3>3. CASE call[w].session = NULL /\ s # t
      <4>1. life[s] = "live" /\ s # NULL
        BY <2>3, <3>3, RegistryAssumption DEF NewSession, TypeOK
      <4>2. PICK d \in Clients : conn[d] # "free" /\ additional[d] = s
        BY <1>o, <3>1, <4>1 DEF Owned
      <4>3. d # c
        BY <2>1, <3>3, <4>1, <4>2
      <4>. QED  BY <2>3, <3>3, <4>2, <4>3 DEF NewSession, Owned, TypeOK
    <3>4. CASE call[w].session # NULL
      BY <1>k, <2>3, <3>1, <3>4
    <3>. QED  BY <3>2, <3>3, <3>4
  <2>. QED  BY <1>4, <2>2, <2>3 DEF LogOn, GoWild, clients, sessions
<1>5. ASSUME NEW c \in Clients, UnregClient(c) PROVE Owned(s)'
  <2> DEFINE t == additional[c]
  <2>1. t \in Sessions \cup {NULL}
    BY DEF TypeOK
  <2>2. CASE GoWild
    BY <1>u, <2>2 DEF GoWild, clients, sessions
  <2>3. CASE ~GoWild
    <3>1. /\ life[s] = "live" /\ ~logged[s] /\ t # s
          /\ conn' = [conn EXCEPT ![c] = "free"] /\ UNCHANGED additional
      BY <1>5, <1>d, <2>1, <2>3, RegistryAssumption DEF UnregClient, sessions
    <3>2. PICK d \in Clients : conn[d] # "free" /\ additional[d] = s
      BY <1>o, <3>1 DEF Owned
    <3>. QED  BY <3>1, <3>2 DEF Owned, TypeOK
  <2>. QED  BY <2>2, <2>3
<1>6. ASSUME NEW i \in Ids, UnregSession(i) PROVE Owned(s)'
  <2>1. LoggedAs(i) \in Sessions
    BY <1>6, Found DEF UnregSession
  <2>. QED  BY <1>d, <1>k, <1>u, <1>6, <2>1 DEF UnregSession, GoWild, clients, sessions
<1>7. ASSUME NEW i \in Ids \cup {NULL}, CloseSession(i) PROVE Owned(s)'
  BY <1>k, <1>u, <1>7 DEF CloseSession, CloseSocket, GoWild, clients, sessions, TypeOK
<1>8. ASSUME NEW c \in Clients, CloseFd(c) PROVE Owned(s)'
  <2>1. FdId[c] \in Ids \cup {NULL}
    BY RegistryAssumption
  <2>. QED  BY <1>k, <1>7, <1>8, <2>1 DEF CloseFd, CloseSocket, sessions, TypeOK
<1>. QED
  BY <1>u, <1>1, <1>2, <1>3, <1>4, <1>5, <1>6, <1>7, <1>8, StepCases
  DEF CheckLogged, NewDynamic, DelChannel, NewStatic, JoinChannel, QuitChannel, GoWild, vars,
      clients, sessions, channels

LEMMA OwnedNext == TypeOK /\ CallInv /\ AnonymousOwned /\ [Next]_vars => AnonymousOwned'
<1> SUFFICES ASSUME TypeOK, CallInv, AnonymousOwned, [Next]_vars, OneWorker',
                    NEW s \in Sessions, Live(s)', ~logged'[s]
             PROVE  \E c \in Clients : conn'[c] # "free" /\ additional'[c] = s
  BY DEF AnonymousOwned
<1>1. OneWorker
  BY DEF Next, vars, OneWorker
<1>2. Owned(s)'
  BY <1>1, OwnedStep DEF Live
<1>. QED  BY <1>2 DEF Owned

(* With one worker no session is left without a connection that will have  *)
(* it deleted, whatever hooks do and allocations fail.                     *)
THEOREM AnonymousCorrect == Spec => []AnonymousOwned
<1>1. Init => TypeOK /\ FreshInv /\ CallInv /\ AnonymousOwned
  BY TypeInit, MemberInit, CallInit DEF Init, AnonymousOwned, Live
<1>2. TypeOK /\ FreshInv /\ CallInv /\ AnonymousOwned /\ [Next]_vars
      => TypeOK' /\ FreshInv' /\ CallInv' /\ AnonymousOwned'
  BY TypeStep, FreshStep, CallStep, OwnedNext
<1>. QED  BY <1>1, <1>2, PTL DEF Spec

-----------------------------------------------------------------------------
(* What holds of one worker while allocations succeed: the global channel  *)
(* lists just who is registered.                                           *)
LoggedInv ==
    /\ kind[GLOBAL] = "global"
    /\ OneWorker /\ ~OutOfMemory =>
        /\ \A s \in Sessions : life[s] = "fresh" => sid[s] = NULL /\ ~logged[s]
        /\ \A s \in Sessions : Live(s) => (logged[s] <=> sid[s] # NULL)
        /\ \A s \in Sessions : Live(s) /\ sid[s] # NULL => members[GLOBAL][sid[s]] = s

(* Quitting other ids, or other channels, leaves the global channel alone. *)
LEMMA QuitGlobal ==
    ASSUME TypeOK, kind[GLOBAL] = "global", NEW K \in SUBSET AllChannels, NEW i, QuitAll(K, i)
    PROVE  /\ kind'[GLOBAL] = "global"
           /\ \A j \in Ids : j # i \/ GLOBAL \notin K => members'[GLOBAL][j] = members[GLOBAL][j]
<1>1. GLOBAL \notin Emptied(K, i)
  BY DEF Emptied
<1>. QED  BY <1>1 DEF QuitAll, TypeOK, AllChannels

LEMMA DelSessionGlobal ==
    ASSUME TypeOK, kind[GLOBAL] = "global", NEW s \in Sessions, DelSession(s)
    PROVE  /\ kind'[GLOBAL] = "global"
           /\ \A j \in Ids : j # sid[s] => members'[GLOBAL][j] = members[GLOBAL][j]
<1>1. CASE sid[s] = NULL
  BY <1>1 DEF DelSession, channels
<1>2. CASE sid[s] # NULL
  <2>1. Joins(s) \cup {GLOBAL} \in SUBSET AllChannels
    <3>1. NULL \notin Joins(s)
      BY DEF DelSession, DelSessionSafe, Open
    <3>. QED  BY <3>1, JoinsType DEF AllChannels, Listable
  <2>. QED  BY <1>2, <2>1, QuitGlobal DEF DelSession
<1>. QED  BY <1>1, <1>2

LEMMA LoggedKept ==
    ASSUME TypeOK, LoggedInv, kind'[GLOBAL] = "global", UNCHANGED world,
           \A s \in Sessions : life'[s] = life[s] /\ sid'[s] = sid[s] /\ (logged'[s] <=> logged[s]),
           \A j \in Ids : members'[GLOBAL][j] = members[GLOBAL][j]
    PROVE  LoggedInv'
<1>1. \A s \in Sessions : sid[s] \in Ids \cup {NULL}
  BY DEF TypeOK
<1>. QED  BY <1>1 DEF LoggedInv, OneWorker, OutOfMemory, Live

LEMMA LoggedDelete ==
    ASSUME TypeOK, LoggedInv, UNCHANGED world, NEW s \in Sessions, DelSession(s)
    PROVE  LoggedInv'
<1>1. kind[GLOBAL] = "global" /\ kind'[GLOBAL] = "global"
  BY DelSessionGlobal DEF LoggedInv
<1>2. /\ life'[s] = "freed"
      /\ \A u \in Sessions : u # s => life'[u] = life[u] /\ sid'[u] = sid[u] /\ (logged'[u] <=> logged[u])
  BY DelSessionFacts DEF TypeOK
<1>3. ASSUME OneWorker, ~OutOfMemory, NEW u \in Sessions, u # s, Live(u), sid[u] # NULL
      PROVE  members'[GLOBAL][sid[u]] = u
  <2>1. members[GLOBAL][sid[u]] = u /\ sid[u] \in Ids
    BY <1>3 DEF LoggedInv, TypeOK
  <2>2. sid[u] # sid[s]
    BY <1>3, <2>1 DEF LoggedInv, DelSession, DelSessionSafe
  <2>. QED  BY <1>1, <2>1, <2>2, DelSessionGlobal
<1>. QED  BY <1>1, <1>2, <1>3 DEF LoggedInv, OneWorker, OutOfMemory, Live

LEMMA LoggedLogOn ==
    ASSUME TypeOK, FreshInv, CallInv, LoggedInv, UNCHANGED world, NEW w \in Workers, LogOn(w)
    PROVE  LoggedInv'
<1> USE RegistryAssumption
<1> DEFINE i == call[w].id
<1>1. i \in Ids /\ call[w].session \in Sessions \cup {NULL} /\ call[w].old = NULL
  BY DEF TypeOK, LogOn, Call
<1>2. CASE UNCHANGED <<sessions, channels>>
  BY <1>2, LoggedKept DEF sessions, channels, LoggedInv
<1>3. CASE UNCHANGED kind /\ ~(OneWorker /\ ~OutOfMemory)
  BY <1>3 DEF LoggedInv, OneWorker, OutOfMemory
<1>4. ASSUME NEW t \in Sessions, OneWorker, ~OutOfMemory, UNCHANGED kind,
             IF call[w].session = NULL THEN NewSession(call[w].clt, t)
             ELSE t = call[w].session /\ CanJoin(t) /\ UNCHANGED life,
             sid' = [sid EXCEPT ![t] = i], Join(GLOBAL, t, i), logged' = [logged EXCEPT ![t] = TRUE]
      PROVE  LoggedInv'
  <2>1. /\ life'[t] = "live" /\ sid'[t] = i /\ logged'[t]
        /\ \A u \in Sessions : u # t => life'[u] = life[u] /\ sid'[u] = sid[u] /\ (logged'[u] <=> logged[u])
    BY <1>4 DEF NewSession, CanJoin, Live, TypeOK
  <2>2. /\ members'[GLOBAL][i] = t
        /\ \A j \in Ids : j # i => members'[GLOBAL][j] = members[GLOBAL][j]
    BY <1>1, <1>4 DEF Join, TypeOK
  <2>3. members[GLOBAL][i] = NULL
    BY <1>1, <1>4 DEF CallInv, LoggedAs, LogOn
  <2>4. ASSUME NEW u \in Sessions, u # t, Live(u), sid[u] # NULL PROVE members'[GLOBAL][sid[u]] = u
    <3>1. members[GLOBAL][sid[u]] = u /\ sid[u] \in Ids
      BY <1>4, <2>4 DEF LoggedInv, TypeOK
    <3>. QED  BY <2>2, <2>3, <3>1
  <2>. QED  BY <1>1, <1>4, <2>1, <2>2, <2>4 DEF LoggedInv, Live
<1>. QED  BY <1>2, <1>3, <1>4 DEF LogOn, GoWild

LEMMA LoggedStep == TypeOK /\ FreshInv /\ MemberInv /\ CallInv /\ LoggedInv /\ [Next]_vars => LoggedInv'
<1> SUFFICES ASSUME TypeOK, FreshInv, MemberInv, CallInv, LoggedInv, [Next]_vars PROVE LoggedInv'
  OBVIOUS
<1> USE RegistryAssumption
<1>k. CASE UNCHANGED <<world, life, sid, logged, kind, members>>
  BY <1>k, LoggedKept DEF LoggedInv
<1>g. kind[GLOBAL] = "global" /\ GLOBAL \notin Channels
  BY DEF LoggedInv
<1>1. ASSUME NEW c \in Clients, Connect(c), UNCHANGED world PROVE LoggedInv'
  <2>1. /\ \A s \in Sessions : life'[s] # life[s] => life[s] = "fresh" /\ life'[s] = "live"
        /\ UNCHANGED <<sid, logged, kind, members>>
    BY <1>1 DEF Connect, NewSession, channels, TypeOK
  <2>. QED  BY <1>1, <2>1 DEF LoggedInv, OneWorker, OutOfMemory, Live
<1>2. ASSUME NEW w \in Workers, TakeOver(w), UNCHANGED world PROVE LoggedInv'
  <2>1. call[w].session \in Sessions \cup {NULL}
    BY <1>2 DEF TypeOK, TakeOver, Call
  <2>. QED  BY <1>k, <1>2, <2>1, LoggedDelete DEF TakeOver, GoWild, sessions, channels
<1>3. ASSUME NEW c \in Clients, UnregClient(c), UNCHANGED world PROVE LoggedInv'
  <2>1. additional[c] \in Sessions \cup {NULL}
    BY DEF TypeOK
  <2>. QED  BY <1>k, <1>3, <2>1, LoggedDelete DEF UnregClient, GoWild, sessions, channels
<1>4. ASSUME NEW i \in Ids, UnregSession(i), UNCHANGED world PROVE LoggedInv'
  <2>1. LoggedAs(i) \in Sessions
    BY <1>4, Found DEF UnregSession
  <2>. QED  BY <1>k, <1>4, <2>1, LoggedDelete DEF UnregSession, GoWild, sessions, channels
<1>5. ASSUME NEW k \in Channels, NEW i \in Ids, JoinChannel(k, i), UNCHANGED world PROVE LoggedInv'
  <2>1. CASE GoWild
    BY <1>k, <1>5, <2>1 DEF GoWild, sessions, channels
  <2>2. CASE ~GoWild
    <3>1. /\ UNCHANGED <<life, sid, logged, kind>>
          /\ members' = [members EXCEPT ![k][sid[LoggedAs(i)]] = LoggedAs(i)]
      BY <1>5, <2>2 DEF JoinChannel, Join, JoinLost
    <3>2. members'[GLOBAL] = members[GLOBAL]
      BY <1>g, <3>1 DEF TypeOK
    <3>. QED  BY <1>5, <1>g, <3>1, <3>2, LoggedKept
  <2>. QED  BY <2>1, <2>2
<1>6. ASSUME NEW k \in Channels, NEW i \in Ids, QuitChannel(k, i), UNCHANGED world PROVE LoggedInv'
  <2>1. CASE GoWild
    BY <1>k, <1>6, <2>1 DEF GoWild, sessions, channels
  <2>2. CASE ~GoWild
    <3>1. QuitAll({k}, sid[LoggedAs(i)]) /\ UNCHANGED sessions
      BY <1>6, <2>2 DEF QuitChannel
    <3>2. {k} \in SUBSET AllChannels /\ GLOBAL \notin {k}
      BY <1>g DEF AllChannels
    <3>. QED  BY <1>6, <1>g, <3>1, <3>2, QuitGlobal, LoggedKept DEF sessions
  <2>. QED  BY <2>1, <2>2
<1>7. ASSUME NEW k \in Channels, NewDynamic(k) \/ DelChannel(k), UNCHANGED world PROVE LoggedInv'
  <2>1. kind'[GLOBAL] = kind[GLOBAL] /\ members'[GLOBAL] = members[GLOBAL] /\ UNCHANGED sessions
    BY <1>7, <1>g DEF NewDynamic, DelChannel, TypeOK
  <2>. QED  BY <1>7, <1>g, <2>1, LoggedKept DEF sessions
<1>8. ASSUME NEW k \in Channels, NEW n \in Names, NewStatic(n, k), UNCHANGED world PROVE LoggedInv'
  <2>1. "global" # n
    OBVIOUS
  <2>2. kind'[GLOBAL] = kind[GLOBAL] /\ members'[GLOBAL] = members[GLOBAL] /\ UNCHANGED sessions
    BY <1>8, <1>g, <2>1 DEF NewStatic, TypeOK
  <2>. QED  BY <1>8, <1>g, <2>2, LoggedKept DEF sessions
<1>9. ASSUME NEW i \in Ids \cup {NULL}, CloseSession(i), UNCHANGED world PROVE LoggedInv'
  BY <1>k, <1>9 DEF CloseSession, CloseSocket, GoWild, sessions, channels
<1>10. ASSUME NEW c \in Clients, CloseFd(c), UNCHANGED world PROVE LoggedInv'
  BY <1>k, <1>9, <1>10 DEF CloseFd, CloseSocket, sessions, channels
<1>. QED
  BY <1>k, <1>1, <1>2, <1>3, <1>4, <1>5, <1>6, <1>7, <1>8, <1>9, <1>10, LoggedLogOn, StepCases
  DEF Disconnect, CheckLogged, GoWild, vars, sessions, channels

LEMMA LoggedInit == Init => LoggedInv
  BY RegistryAssumption DEF Init, LoggedInv, Live

(* A client that comes back under its id finds its session, whatever the   *)
(* hooks of one worker do, as long as allocations succeed.                 *)
THEOREM LoggedCorrect == Spec => []LoggedReachable
<1>1. Init => Inv /\ CallInv /\ LoggedInv
  BY TypeInit, MemberInit, CallInit, LoggedInit DEF Inv
<1>2. Inv /\ CallInv /\ LoggedInv /\ [Next]_vars => Inv' /\ CallInv' /\ LoggedInv'
  BY TypeStep, FreshStep, MemberStep, CallStep, LoggedStep DEF Inv
<1>3. LoggedInv => LoggedReachable
  BY DEF LoggedInv, LoggedReachable
<1>. QED  BY <1>1, <1>2, <1>3, PTL DEF Spec

-----------------------------------------------------------------------------
(* What holds while hooks only connect, register, come back and join, on    *)
(* one worker: who is connected has a live session, one without an id has   *)
(* joined nothing and is nobody else's, every channel joined is still open, *)
(* and a registration never renames.                                        *)
Holds(c, s) == conn[c] # "free" /\ additional[c] = s

Calm ==
    /\ ~wild
    /\ \A s \in Sessions : Live(s) =>
        /\ joined[s] # NULL /\ (\A k \in Joins(s) : Open(k))
        /\ sid[s] = NULL => joined[s] = <<>>
    /\ \A c \in Clients, s \in Sessions : Holds(c, s) => Live(s)
    /\ \A c, d \in Clients, s \in Sessions : Holds(c, s) /\ Holds(d, s) /\ sid[s] = NULL => c = d
    /\ \A w \in Workers : call[w] # NULL /\ call[w].session # NULL =>
        sid[call[w].session] \in {NULL, call[w].id}

Base == Inv /\ CallInv /\ LoggedInv

(* No membership is lost in the step. *)
Stable ==
    \A k \in AllChannels, i \in Ids : members[k][i] # NULL => members'[k][i] = members[k][i]

LEMMA TidyWorld == Tidy => ~MayUnreg /\ ~MayLeave /\ ~MayAway /\ ~OutOfMemory
  BY DEF Tidy, MayUnreg, MayLeave, MayAway, OutOfMemory

LEMMA SameJoins ==
    ASSUME NEW s \in Sessions, joined'[s] = joined[s] PROVE Joins(s)' = Joins(s)
  BY DEF Joins

(* A session without an id is deleted safely, and leaves no trace. *)
LEMMA AnonymousGone ==
    ASSUME Base, Calm, NEW s \in Sessions, Live(s), sid[s] = NULL
    PROVE  DelSessionSafe(s) /\ (DelSession(s) => UNCHANGED channels)
<1>1. joined[s] = <<>>
  BY DEF Calm
<1>2. Joins(s) = {} /\ Len(joined[s]) = 0
  BY <1>1 DEF Joins
<1>. QED  BY <1>1, <1>2 DEF DelSessionSafe, DelSession

(* Steps that leave sessions and their connections alone. *)
LEMMA CalmKept ==
    ASSUME TypeOK, Calm, UNCHANGED sessions, UNCHANGED additional, ~wild',
           \A c \in Clients : conn'[c] # "free" => conn[c] # "free",
           \A k \in AllChannels : Open(k) => Open(k)',
           \A w \in Workers : call'[w] \in {call[w], NULL}
    PROVE  Calm'
<1>1. \A s \in Sessions : Live(s)' <=> Live(s)
  BY DEF sessions, Live
<1>2. \A s \in Sessions : Live(s) => \A k \in Joins(s) : Open(k) /\ k \in AllChannels
  <2>1. \A s \in Sessions : Joins(s) \subseteq Listable
    BY JoinsType
  <2>. QED  BY <2>1 DEF Calm, Open, Listable, AllChannels
<1>3. \A s \in Sessions : Joins(s)' = Joins(s)
  BY DEF sessions, Joins
<1>4. \A c \in Clients, s \in Sessions : Holds(c, s)' => Holds(c, s)
  BY DEF Holds
<1>. QED  BY <1>1, <1>2, <1>3, <1>4 DEF Calm, sessions

(* The session t gets the id i, if it has none, and joins channel k. *)
LEMMA CalmJoin ==
    ASSUME Base, Calm, NEW t \in Sessions, NEW i \in Ids, NEW k \in AllChannels, Open(k), ~wild',
           UNCHANGED <<kind, conn>>, life' = [life EXCEPT ![t] = "live"],
           Live(t) \/ life[t] = "fresh",
           sid' = [sid EXCEPT ![t] = i],
           joined' = [joined EXCEPT ![t] = Append(joined[t], k)],
           \A c \in Clients, s \in Sessions : s # t /\ Holds(c, s)' => Holds(c, s),
           \A w \in Workers : call'[w] = NULL
    PROVE  Calm'
<1>1. joined[t] # NULL /\ \A o \in Joins(t) : Open(o)
  <2>1. CASE Live(t)
    BY <2>1 DEF Calm
  <2>2. CASE life[t] = "fresh"
    <3>1. joined[t] = <<>>
      BY <2>2 DEF Base, Inv, FreshInv
    <3>2. <<>> \in Seq(Channels \cup {GLOBAL, NULL})
      OBVIOUS
    <3>3. Joins(t) = {}
      <4>1. Len(joined[t]) = 0
        BY <3>1
      <4>. QED  BY <4>1 DEF Joins
    <3>. QED  BY <3>1, <3>2, <3>3, RegistryAssumption
  <2>. QED  BY <2>1, <2>2
<1>2. joined[t] \in Seq(Listable)
  BY <1>1 DEF Base, Inv, TypeOK, Listable
<1>3. /\ joined'[t] = Append(joined[t], k)
      /\ \A s \in Sessions : s # t => joined'[s] = joined[s]
  BY DEF Base, Inv, TypeOK
<1>4. k \in Listable
  BY DEF Listable, AllChannels
<1>5. Append(joined[t], k) \in Seq(Listable) /\ Len(Append(joined[t], k)) = Len(joined[t]) + 1
      /\ \A n \in 1..(Len(joined[t]) + 1) :
            Append(joined[t], k)[n] = IF n <= Len(joined[t]) THEN joined[t][n] ELSE k
  BY <1>2, <1>4, AppendProperties
<1>6. joined'[t] # NULL
  BY <1>3, <1>5, RegistryAssumption DEF Listable
<1>7. Joins(t)' \subseteq Joins(t) \cup {k}
  BY <1>1, <1>2, <1>3, <1>5, LenProperties DEF Joins
<1>8. \A s \in Sessions : s # t => Joins(s)' = Joins(s)
  BY <1>3 DEF Joins
<1>9. \A o : Open(o)' <=> Open(o)
  BY DEF Open
<1>10. /\ Live(t)' /\ sid'[t] = i /\ i # NULL
       /\ \A s \in Sessions : s # t => (Live(s)' <=> Live(s)) /\ sid'[s] = sid[s]
  BY RegistryAssumption DEF Base, Inv, TypeOK, Live
<1>11. \A s \in Sessions : Live(s)' =>
        /\ joined'[s] # NULL /\ (\A o \in Joins(s)' : Open(o)')
        /\ sid'[s] = NULL => joined'[s] = <<>>
  <2> SUFFICES ASSUME NEW s \in Sessions, Live(s)'
               PROVE  /\ joined'[s] # NULL /\ (\A o \in Joins(s)' : Open(o)')
                      /\ sid'[s] = NULL => joined'[s] = <<>>
    OBVIOUS
  <2>1. CASE s = t
    BY <1>1, <1>6, <1>7, <1>9, <1>10, <2>1
  <2>2. CASE s # t
    BY <1>3, <1>8, <1>9, <1>10, <2>2 DEF Calm
  <2>. QED  BY <2>1, <2>2
<1>12. \A c \in Clients, s \in Sessions : Holds(c, s)' => Live(s)'
  BY <1>10 DEF Calm
<1>13. \A c, d \in Clients, s \in Sessions : Holds(c, s)' /\ Holds(d, s)' /\ sid'[s] = NULL => c = d
  BY <1>10 DEF Calm
<1>. QED  BY <1>11, <1>12, <1>13 DEF Calm


Quiet == Calm' /\ Stable

LEMMA QuietConnect ==
    ASSUME Base, Calm, Tidy, NEW c \in Clients, Connect(c), UNCHANGED world
    PROVE  Quiet
<1> USE RegistryAssumption
<1>1. TypeOK
  BY DEF Base, Inv
<1>2. /\ conn[c] = "free" /\ conn' = [conn EXCEPT ![c] = "open"]
      /\ UNCHANGED <<sid, joined, kind, members, call, wild>>
  BY DEF Connect, channels
<1>3. Stable
  BY <1>2 DEF Stable
<1>4. \A s \in Sessions : Joins(s)' = Joins(s) /\ \A k \in Joins(s) : Open(k)' <=> Open(k)
  BY <1>2 DEF Joins, Open
<1>5. \A d \in Clients, s \in Sessions : d # c => (Holds(d, s)' <=> Holds(d, s))
  BY <1>1, <1>2 DEF Connect, NewSession, Holds, TypeOK
<1>6. CASE \E s \in Sessions : NewSession(c, s)
  <2>1. PICK s \in Sessions : NewSession(c, s)
    BY <1>6
  <2>2. /\ life[s] = "fresh" /\ joined[s] = <<>> /\ \A d \in Clients : ~Holds(d, s)
    BY <2>1 DEF NewSession, Base, Inv, FreshInv, Calm, Live
  <2>3. <<>> \in Seq(Channels \cup {GLOBAL, NULL}) /\ Joins(s) = {}
    <3>1. Len(joined[s]) = 0
      BY <2>2
    <3>. QED  BY <3>1 DEF Joins
  <2>4. Live(s)' /\ \A t \in Sessions : t # s => (Live(t)' <=> Live(t))
    BY <1>1, <2>1 DEF NewSession, TypeOK, Live
  <2>5. \A t \in Sessions : Holds(c, t)' => t = s
    BY <1>1, <2>1 DEF NewSession, TypeOK, Holds
  <2>6. \A t \in Sessions : Live(t)' =>
          /\ joined'[t] # NULL /\ (\A k \in Joins(t)' : Open(k)')
          /\ sid'[t] = NULL => joined'[t] = <<>>
    <3> SUFFICES ASSUME NEW t \in Sessions, Live(t)'
                 PROVE  /\ joined'[t] # NULL /\ (\A k \in Joins(t)' : Open(k)')
                        /\ sid'[t] = NULL => joined'[t] = <<>>
      OBVIOUS
    <3>1. CASE t = s
      BY <1>2, <1>4, <2>2, <2>3, <3>1
    <3>2. CASE t # s
      BY <1>2, <1>4, <2>4, <3>2 DEF Calm
    <3>. QED  BY <3>1, <3>2
  <2>. QED  BY <1>2, <1>3, <1>5, <2>2, <2>4, <2>5, <2>6 DEF Calm, Quiet
<1>7. CASE additional' = [additional EXCEPT ![c] = NULL] /\ UNCHANGED <<life, bound>>
  <2>1. \A s \in Sessions : ~Holds(c, s)' /\ (Live(s)' <=> Live(s))
    BY <1>1, <1>7 DEF Holds, TypeOK, Live
  <2>. QED  BY <1>2, <1>3, <1>4, <1>5, <2>1 DEF Calm, Quiet
<1>. QED  BY <1>6, <1>7 DEF Connect

LEMMA CallFacts ==
    ASSUME Base, Calm, OneWorker, NEW w \in Workers, call[w] # NULL
    PROVE  /\ call[w].clt \in Clients /\ call[w].id \in Ids
           /\ call[w].session \in Sessions \cup {NULL} /\ call[w].old \in Sessions \cup {NULL}
           /\ conn[call[w].clt] # "free" /\ additional[call[w].clt] = call[w].session
           /\ call[w].old = members[GLOBAL][call[w].id]
           /\ call[w].session # NULL => Live(call[w].session) /\ Holds(call[w].clt, call[w].session)
           /\ call[w].old # NULL => Live(call[w].old) /\ sid[call[w].old] = call[w].id
           /\ \A v \in Workers : call[v] # NULL => v = w
<1>1. /\ call[w].clt \in Clients /\ call[w].id \in Ids
      /\ call[w].session \in Sessions \cup {NULL} /\ call[w].old \in Sessions \cup {NULL}
  BY DEF Base, Inv, TypeOK, Call
<1>2. /\ conn[call[w].clt] # "free" /\ additional[call[w].clt] = call[w].session
      /\ \A v \in Workers : call[v] # NULL => v = w
      /\ LoggedAs(call[w].id) = call[w].old
  BY DEF Base, CallInv
<1>3. call[w].old = members[GLOBAL][call[w].id]
  BY <1>1, <1>2, RegistryAssumption DEF LoggedAs
<1>4. call[w].old # NULL => Live(call[w].old) /\ sid[call[w].old] = call[w].id
  <2>1. GLOBAL \in AllChannels
    BY DEF AllChannels
  <2>. QED  BY <1>1, <1>3, <2>1 DEF Base, Inv, MemberInv
<1>5. call[w].session # NULL => Live(call[w].session) /\ Holds(call[w].clt, call[w].session)
  BY <1>1, <1>2 DEF Calm, Holds
<1>. QED  BY <1>1, <1>2, <1>3, <1>4, <1>5

(* The client c leaves its anonymous session s, if it has one, for old. *)
LEMMA CalmTakeOver ==
    ASSUME Base, Calm, NEW c \in Clients, NEW s \in Sessions \cup {NULL}, NEW old \in Sessions, s # old,
           Live(old), sid[old] # NULL, s # NULL => Holds(c, s),
           s = NULL => UNCHANGED <<life, sid, logged, joined, channels>>,
           s # NULL => sid[s] = NULL /\ DelSession(s) /\ UNCHANGED channels,
           additional' = [additional EXCEPT ![c] = old], UNCHANGED <<conn, wild>>,
           \A v \in Workers : call'[v] = NULL
    PROVE  Calm'
<1>1. TypeOK /\ UNCHANGED channels
  BY DEF Base, Inv
<1>2. /\ \A t \in Sessions : t # s => (Live(t)' <=> Live(t)) /\ sid'[t] = sid[t] /\ joined'[t] = joined[t]
      /\ s # NULL => ~Live(s)'
  <2>1. CASE s = NULL
    BY <2>1 DEF Live
  <2>2. CASE s # NULL
    <3>1. s \in Sessions /\ DelSession(s)
      BY <2>2
    <3>2. life' = [life EXCEPT ![s] = "freed"] /\ sid' = [sid EXCEPT ![s] = NULL]
          /\ joined' = [joined EXCEPT ![s] = <<>>]
      BY <1>1, <3>1, DelSessionFacts
    <3>. QED  BY <1>1, <3>1, <3>2 DEF Live, TypeOK
  <2>. QED  BY <2>1, <2>2
<1>3. /\ \A t \in Sessions : Holds(c, t)' => t = old
      /\ \A d \in Clients, t \in Sessions : d # c /\ Holds(d, t)' => Holds(d, t)
  BY <1>1 DEF Holds, TypeOK
<1>4. s # NULL => \A d \in Clients : d # c => ~Holds(d, s)
  BY DEF Calm
<1>5. \A t \in Sessions : t # s => Joins(t)' = Joins(t)
  <2>1. \A t \in Sessions : t # s => joined'[t] = joined[t]
    BY <1>2
  <2>. QED  BY <2>1 DEF Joins
<1>6. \A k : Open(k)' <=> Open(k)
  BY <1>1 DEF Open, channels
<1>7. \A t \in Sessions : Live(t)' => t # s
  BY <1>2, RegistryAssumption
<1>8. \A t \in Sessions : Live(t)' =>
        /\ joined'[t] # NULL /\ (\A k \in Joins(t)' : Open(k)')
        /\ sid'[t] = NULL => joined'[t] = <<>>
  BY <1>2, <1>5, <1>6, <1>7 DEF Calm
<1>9. \A d \in Clients, t \in Sessions : Holds(d, t)' => Live(t)' /\ (d # c => Live(t) /\ t # s)
  BY <1>2, <1>3, <1>4, RegistryAssumption DEF Calm
<1>10. \A d, e \in Clients, t \in Sessions : Holds(d, t)' /\ Holds(e, t)' /\ sid'[t] = NULL => d = e
  <2> SUFFICES ASSUME NEW d \in Clients, NEW e \in Clients, NEW t \in Sessions,
                      Holds(d, t)', Holds(e, t)', sid'[t] = NULL
               PROVE  d = e
    OBVIOUS
  <2>1. t # s /\ sid[t] = NULL
    BY <1>2, <1>7, <1>9
  <2>2. d # c /\ e # c
    BY <1>3, <2>1
  <2>. QED  BY <1>3, <2>1, <2>2 DEF Calm
<1>. QED  BY <1>7, <1>8, <1>9, <1>10 DEF Calm

LEMMA QuietTakeOver ==
    ASSUME Base, Calm, Tidy, OneWorker, NEW w \in Workers, TakeOver(w), UNCHANGED world
    PROVE  Quiet
<1> USE RegistryAssumption
<1> DEFINE c == call[w].clt  s == call[w].session  old == call[w].old  i == call[w].id
<1>1. TypeOK
  BY DEF Base, Inv
<1>2. call[w] # NULL /\ old # NULL
  BY DEF TakeOver
<1>3. /\ c \in Clients /\ i \in Ids /\ s \in Sessions \cup {NULL} /\ old \in Sessions
      /\ conn[c] # "free" /\ additional[c] = s /\ old = members[GLOBAL][i]
      /\ s # NULL => Live(s) /\ Holds(c, s)
      /\ Live(old) /\ sid[old] = i /\ i # NULL
      /\ \A v \in Workers : call[v] # NULL => v = w
  BY <1>2, CallFacts
<1>4. CASE s = old /\ call' = [call EXCEPT ![w] = NULL] /\ UNCHANGED <<clients, sessions, channels, wild>>
  <2>1. \A v \in Workers : call'[v] \in {call[v], NULL}
    BY <1>1, <1>4 DEF TypeOK
  <2>2. \A k \in AllChannels : Open(k) => Open(k)'
    BY <1>4 DEF Open, channels
  <2>3. Stable
    BY <1>4 DEF Stable, channels
  <2>. QED  BY <1>1, <1>4, <2>1, <2>2, <2>3, CalmKept DEF clients, Quiet, Calm
<1>5. ASSUME s # old, s # NULL
      PROVE  sid[s] = NULL /\ DelSessionSafe(s) /\ (DelSession(s) => UNCHANGED channels)
  <2>1. sid[s] \in {NULL, i}
    BY <1>2, <1>5 DEF Calm
  <2>2. sid[s] # i
    BY <1>3, <1>5, TidyWorld DEF Base, LoggedInv
  <2>. QED  BY <1>3, <1>5, <2>1, <2>2, AnonymousGone
<1>6. CASE /\ s # old
           /\ IF s = NULL THEN UNCHANGED <<life, sid, logged, joined, channels>> ELSE DelSession(s)
           /\ call' = [call EXCEPT ![w] = NULL]
           /\ additional' = [additional EXCEPT ![c] = old]
           /\ UNCHANGED <<conn, wild>>
  <2>1. \A v \in Workers : call'[v] = NULL
    BY <1>1, <1>3, <1>6 DEF TypeOK
  <2>2. s # NULL => sid[s] = NULL /\ DelSession(s) /\ UNCHANGED channels
    BY <1>5, <1>6
  <2>3. s = NULL => UNCHANGED <<life, sid, logged, joined, channels>>
    BY <1>6
  <2> HIDE DEF c, s, old, i
  <2>4. UNCHANGED channels
    BY <2>2, <2>3
  <2>5. Calm'
    BY <1>3, <1>6, <2>1, <2>2, <2>3, CalmTakeOver
  <2>6. Stable
    BY <2>4 DEF Stable, channels
  <2>. QED  BY <2>5, <2>6 DEF Quiet
<1>. QED  BY <1>3, <1>4, <1>5, <1>6 DEF TakeOver

LEMMA QuietLogOn ==
    ASSUME Base, Calm, Tidy, OneWorker, NEW w \in Workers, LogOn(w), UNCHANGED world
    PROVE  Quiet
<1> USE RegistryAssumption
<1> DEFINE c == call[w].clt  s == call[w].session  i == call[w].id
<1>1. TypeOK /\ ~OutOfMemory /\ GLOBAL \in AllChannels /\ Open(GLOBAL)
  BY TidyWorld DEF Base, Inv, AllChannels, Open, LoggedInv
<1>2. call[w] # NULL /\ call[w].old = NULL
  BY DEF LogOn
<1>3. /\ c \in Clients /\ i \in Ids /\ s \in Sessions \cup {NULL}
      /\ conn[c] # "free" /\ additional[c] = s /\ members[GLOBAL][i] = NULL
      /\ s # NULL => Live(s) /\ Holds(c, s)
      /\ \A v \in Workers : call[v] # NULL => v = w
  BY <1>2, CallFacts
<1>4. s # NULL => CanJoin(s) /\ ~Renames(s, i)
  BY <1>2, <1>3 DEF Calm, CanJoin, Renames, Open
<1>5. ASSUME NEW t \in Sessions,
             IF s = NULL THEN NewSession(c, t) ELSE t = s /\ UNCHANGED <<life, bound, additional>>,
             sid' = [sid EXCEPT ![t] = i], Join(GLOBAL, t, i),
             call' = [call EXCEPT ![w] = NULL], UNCHANGED <<conn, kind, wild>>
      PROVE  Quiet
  <2>1. life' = [life EXCEPT ![t] = "live"] /\ (Live(t) \/ life[t] = "fresh")
    BY <1>1, <1>3, <1>5 DEF NewSession, Live, TypeOK
  <2>2. \A d \in Clients, u \in Sessions : u # t /\ Holds(d, u)' => Holds(d, u)
    BY <1>1, <1>3, <1>5 DEF NewSession, Holds, TypeOK
  <2>3. \A v \in Workers : call'[v] = NULL
    BY <1>1, <1>3, <1>5 DEF TypeOK
  <2>4. Calm'
    BY <1>1, <1>3, <1>5, <2>1, <2>2, <2>3, CalmJoin DEF Join, Calm
  <2>5. Stable
    BY <1>1, <1>3, <1>5 DEF Stable, Join, TypeOK, AllChannels
  <2>. QED  BY <2>4, <2>5 DEF Quiet
<1>6. CASE call' = [call EXCEPT ![w] = NULL] /\ UNCHANGED <<clients, sessions, channels, wild>>
  <2>1. \A v \in Workers : call'[v] \in {call[v], NULL}
    BY <1>1, <1>6 DEF TypeOK
  <2>2. \A k \in AllChannels : Open(k) => Open(k)'
    BY <1>6 DEF Open, channels
  <2>3. Stable
    BY <1>6 DEF Stable, channels
  <2>. QED  BY <1>1, <1>6, <2>1, <2>2, <2>3, CalmKept DEF clients, Quiet, Calm
<1>. QED  BY <1>1, <1>4, <1>5, <1>6 DEF LogOn

LEMMA QuietCheckLogged ==
    ASSUME Base, Calm, Tidy, NEW w \in Workers, NEW c \in Clients, NEW i \in Ids, CheckLogged(w, c, i)
    PROVE  Quiet
<1>1. /\ TypeOK /\ conn[c] = "open" /\ ~Renames(additional[c], i)
      /\ UNCHANGED <<clients, sessions, channels, wild>>
  BY TidyWorld DEF CheckLogged, Base, Inv
<1> DEFINE new == [clt |-> c, id |-> i, session |-> additional[c], old |-> LoggedAs(i)]
<1>2. \A v \in Workers : call'[v] \in {call[v], new}
  BY <1>1 DEF CheckLogged, TypeOK
<1>3. additional[c] # NULL => sid[additional[c]] \in {NULL, i}
  <2>1. additional[c] # NULL => additional[c] \in Sessions /\ Holds(c, additional[c])
    BY <1>1 DEF TypeOK, Holds
  <2>. QED  BY <1>1, <2>1 DEF Renames, Calm
<1>4. \A v \in Workers : call'[v] # NULL /\ call'[v].session # NULL =>
        sid'[call'[v].session] \in {NULL, call'[v].id}
  <2> SUFFICES ASSUME NEW v \in Workers, call'[v] # NULL, call'[v].session # NULL
               PROVE  sid[call'[v].session] \in {NULL, call'[v].id}
    BY <1>1 DEF sessions
  <2>1. CASE call'[v] = new
    BY <1>3, <2>1
  <2>2. CASE call'[v] = call[v]
    BY <2>2 DEF Calm
  <2>. QED  BY <1>2, <2>1, <2>2
<1>5. Stable
  BY <1>1 DEF Stable, channels
<1>6. /\ \A s \in Sessions : Joins(s)' = Joins(s) /\ (Live(s)' <=> Live(s))
      /\ \A k : Open(k)' <=> Open(k)
      /\ \A d \in Clients, s \in Sessions : Holds(d, s)' <=> Holds(d, s)
  BY <1>1 DEF Joins, Live, Open, Holds, clients, sessions, channels
<1>. QED  BY <1>1, <1>4, <1>5, <1>6 DEF Calm, Quiet, sessions

LEMMA QuietUnregClient ==
    ASSUME Base, Calm, Tidy, OneWorker, Idle, NEW c \in Clients, UnregClient(c), UNCHANGED world
    PROVE  Quiet
<1> USE RegistryAssumption
<1>1. TypeOK /\ conn[c] = "closed" /\ \A w \in Workers : call[w] = NULL
  BY IdleCalls DEF Base, Inv, UnregClient
<1>2. CASE conn' = [conn EXCEPT ![c] = "free"] /\ UNCHANGED <<additional, sessions, channels, call, wild>>
  <2>1. /\ \A d \in Clients : conn'[d] # "free" => conn[d] # "free"
        /\ \A k \in AllChannels : Open(k) => Open(k)'
        /\ Stable
    BY <1>1, <1>2 DEF TypeOK, Open, channels, Stable
  <2>. QED  BY <1>1, <1>2, <2>1, CalmKept DEF Quiet, Calm
<1>3. ASSUME additional[c] # NULL PROVE additional[c] \in Sessions /\ Holds(c, additional[c]) /\ Live(additional[c])
  BY <1>1, <1>3 DEF TypeOK, Holds, Calm
<1>4. ASSUME NEW s \in Sessions, additional[c] = s, ~logged[s], DelSession(s),
             conn' = [conn EXCEPT ![c] = "free"], UNCHANGED <<additional, bound, call, wild>>
      PROVE  Quiet
  <2>1. Live(s) /\ Holds(c, s) /\ sid[s] = NULL
    BY <1>3, <1>4, TidyWorld DEF Base, LoggedInv
  <2>2. UNCHANGED channels
    BY <1>4, <2>1, AnonymousGone
  <2>3. /\ \A t \in Sessions : t # s => (Live(t)' <=> Live(t)) /\ sid'[t] = sid[t] /\ joined'[t] = joined[t]
        /\ ~Live(s)'
    <3>1. life' = [life EXCEPT ![s] = "freed"] /\ sid' = [sid EXCEPT ![s] = NULL]
          /\ joined' = [joined EXCEPT ![s] = <<>>]
      BY <1>1, <1>4, DelSessionFacts
    <3>. QED  BY <1>1, <3>1 DEF Live, TypeOK
  <2>4. \A d \in Clients, t \in Sessions : Holds(d, t)' => Holds(d, t) /\ d # c
    BY <1>1, <1>4 DEF Holds, TypeOK
  <2>5. \A d \in Clients : Holds(d, s) => d = c
    BY <2>1 DEF Calm
  <2>6. /\ \A t \in Sessions : t # s => Joins(t)' = Joins(t)
        /\ \A k : Open(k)' <=> Open(k)
    <3>1. \A t \in Sessions : t # s => joined'[t] = joined[t]
      BY <2>3
    <3>2. \A t \in Sessions : t # s => Joins(t)' = Joins(t)
      BY <3>1, SameJoins
    <3>3. \A k : Open(k)' <=> Open(k)
      BY <2>2 DEF Open, channels
    <3>. QED  BY <3>2, <3>3
  <2>7. \A t \in Sessions : Live(t)' => t # s
    BY <2>3
  <2>8. \A t \in Sessions : Live(t)' =>
          /\ joined'[t] # NULL /\ (\A k \in Joins(t)' : Open(k)')
          /\ sid'[t] = NULL => joined'[t] = <<>>
    BY <2>3, <2>6, <2>7 DEF Calm
  <2>9. \A d \in Clients, t \in Sessions : Holds(d, t)' => t # s /\ Live(t)' /\ Holds(d, t) /\ sid'[t] = sid[t]
    BY <2>3, <2>4, <2>5 DEF Calm
  <2>10. \A d, e \in Clients, t \in Sessions : Holds(d, t)' /\ Holds(e, t)' /\ sid'[t] = NULL => d = e
    BY <2>9 DEF Calm
  <2>11. Stable
    BY <2>2 DEF Stable, channels
  <2>. QED  BY <1>1, <1>4, <2>8, <2>9, <2>10, <2>11 DEF Calm, Quiet
<1>. QED  BY <1>2, <1>3, <1>4 DEF UnregClient

LEMMA QuietClose ==
    ASSUME Base, Calm, NEW c \in Clients \cup {NULL}, CloseSocket(c)
    PROVE  Quiet
<1>1. TypeOK /\ \A d \in Clients : conn'[d] # "free" => conn[d] # "free"
  BY DEF Base, Inv, TypeOK, CloseSocket
<1>2. /\ \A k \in AllChannels : Open(k) => Open(k)'
      /\ Stable
  BY DEF CloseSocket, Open, channels, Stable
<1>. QED  BY <1>1, <1>2, CalmKept DEF Quiet, Calm, CloseSocket

(* Whoever is found under an id is alive and can join. *)
LEMMA FoundLive ==
    ASSUME Base, Calm, NEW i \in Ids \cup {NULL}, LoggedAs(i) # NULL
    PROVE  /\ i \in Ids /\ LoggedAs(i) \in Sessions /\ Live(LoggedAs(i)) /\ CanJoin(LoggedAs(i))
           /\ sid[LoggedAs(i)] = i /\ members[GLOBAL][i] = LoggedAs(i)
<1>1. i \in Ids /\ LoggedAs(i) = members[GLOBAL][i]
  BY DEF LoggedAs
<1>2. LoggedAs(i) \in Sessions /\ GLOBAL \in AllChannels
  BY Found DEF Base, Inv, AllChannels
<1>3. Live(LoggedAs(i)) /\ sid[LoggedAs(i)] = i
  BY <1>1, <1>2 DEF Base, Inv, MemberInv
<1>. QED  BY <1>1, <1>2, <1>3 DEF CanJoin, Calm, Open

LEMMA QuietCloseSession ==
    ASSUME Base, Calm, NEW i \in Ids \cup {NULL}, CloseSession(i)
    PROVE  Quiet
<1>1. CloseSocket(bound[LoggedAs(i)]) /\ LoggedAs(i) \in Sessions
  BY FoundLive DEF CloseSession
<1>2. bound[LoggedAs(i)] \in Clients \cup {NULL}
  BY <1>1 DEF Base, Inv, TypeOK
<1>. QED  BY <1>1, <1>2, QuietClose

LEMMA QuietOpen ==
    ASSUME Base, Calm, Tidy, NEW k \in Channels, NewDynamic(k) \/ \E n \in Names : NewStatic(n, k)
    PROVE  Quiet
<1> USE RegistryAssumption
<1>1. TypeOK /\ ~MayLeave /\ ~OutOfMemory /\ kind[GLOBAL] = "global" /\ kind[k] = "fresh"
  BY TidyWorld DEF Base, Inv, LoggedInv, NewDynamic, NewStatic, MayOpen
<1>2. CASE NewDynamic(k)
  <2>1. /\ \A o \in AllChannels : Open(o) => Open(o)'
        /\ Stable
    BY <1>1, <1>2 DEF NewDynamic, Open, TypeOK, AllChannels, Stable
  <2>. QED  BY <1>1, <1>2, <2>1, CalmKept DEF Quiet, Calm, NewDynamic, clients
<1>3. ASSUME NEW n \in Names, NewStatic(n, k) PROVE Quiet
  <2>1. \A o \in AllChannels : kind[o] # n
    BY <1>1, <1>3 DEF NewStatic, AllChannels
  <2>2. kind' = [o \in DOMAIN kind |-> IF o = k THEN n ELSE kind[o]] /\ members' = members
    <3>1. kind \in [AllChannels -> Names \cup {"fresh", "dynamic", "freed", "global"}]
          /\ members \in [AllChannels -> [Ids -> Sessions \cup {NULL}]]
      BY <1>1 DEF TypeOK, AllChannels
    <3>. QED  BY <1>1, <1>3, <2>1, <3>1 DEF NewStatic
  <2>3. n \notin {"fresh", "freed"}
    OBVIOUS
  <2>4. /\ \A o \in AllChannels : Open(o) => Open(o)'
        /\ Stable
    BY <1>1, <2>2, <2>3 DEF Open, TypeOK, AllChannels, Stable
  <2>. QED  BY <1>1, <1>3, <2>4, CalmKept DEF Quiet, Calm, NewStatic, clients
<1>. QED  BY <1>2, <1>3

LEMMA QuietJoinChannel ==
    ASSUME Base, Calm, Tidy, OneWorker, Idle, NEW k \in Channels, NEW i \in Ids, JoinChannel(k, i), UNCHANGED world
    PROVE  Quiet
<1> USE RegistryAssumption
<1> DEFINE s == LoggedAs(i)
<1>1. TypeOK /\ ~OutOfMemory /\ k \in AllChannels /\ \A w \in Workers : call[w] = NULL
  BY TidyWorld, IdleCalls DEF Base, Inv, AllChannels
<1>2. s \in Sessions /\ Live(s) /\ CanJoin(s) /\ sid[s] = i /\ i # NULL
  BY FoundLive DEF JoinChannel
<1>3. Join(k, s, i) /\ Open(k) /\ UNCHANGED <<clients, life, sid, bound, logged, kind, call, wild>>
  BY <1>1, <1>2 DEF JoinChannel
<1>4. life' = [life EXCEPT ![s] = "live"] /\ sid' = [sid EXCEPT ![s] = i]
  BY <1>1, <1>2, <1>3 DEF TypeOK, Live
<1>5. joined' = [joined EXCEPT ![s] = Append(joined[s], k)] /\ members' = [members EXCEPT ![k][i] = s]
  BY <1>3 DEF Join
<1>6. \A c \in Clients, t \in Sessions : Holds(c, t)' => Holds(c, t)
  BY <1>3 DEF Holds, clients
<1>7. \A u \in Sessions : members[k][i] = u => u = s
  <2> SUFFICES ASSUME NEW u \in Sessions, members[k][i] = u PROVE u = s
    OBVIOUS
  <2>1. Live(u) /\ sid[u] = i
    BY <1>1, RegistryAssumption DEF Base, Inv, MemberInv
  <2>. QED  BY <1>1, <1>2, <2>1 DEF Base, LoggedInv, LoggedAs
<1>8. Stable
  BY <1>1, <1>2, <1>5, <1>7 DEF Stable, TypeOK, AllChannels
<1>9. \A w \in Workers : call'[w] = NULL
  BY <1>1, <1>3
<1>10. ~wild' /\ UNCHANGED <<kind, conn>>
  BY <1>3 DEF Calm, clients
<1> HIDE DEF s
<1>11. Calm'
  BY <1>1, <1>2, <1>3, <1>4, <1>5, <1>6, <1>9, <1>10, CalmJoin
<1>. QED  BY <1>8, <1>11 DEF Quiet

(* Nothing that is read is gone. *)
LEMMA NoWildRead ==
    ASSUME Base, Calm, Tidy
    PROVE  /\ \A k \in AllChannels : ~SendChannel(k)
           /\ \A i \in Ids : ~SendSession(i)
           /\ \A c \in Clients : ~ReadClient(c)
<1>1. \A k \in AllChannels, i \in Ids : members[k][i] # NULL => Reachable(members[k][i])
  BY TidyWorld DEF Base, Inv, MemberInv, Reachable
<1>2. \A i \in Ids : LoggedAs(i) # NULL => Reachable(LoggedAs(i))
  BY TidyWorld, FoundLive DEF Reachable
<1>3. \A c \in Clients : conn[c] = "open" => Readable(c)
  BY DEF Base, Inv, TypeOK, Calm, Holds, Readable
<1>. QED  BY <1>1, <1>2, <1>3 DEF SendChannel, SendSession, ReadClient

LEMMA QuietStep ==
    ASSUME Base, Calm, Tidy, OneWorker, Next
    PROVE  Quiet
<1>1. UNCHANGED world /\ ~MayUnreg /\ ~MayLeave
  BY TidyWorld DEF Next
<1>2. ASSUME NEW c \in Clients, Disconnect(c) PROVE Quiet
  <2>1. TypeOK /\ \A d \in Clients : conn'[d] # "free" => conn[d] # "free"
    BY <1>2 DEF Base, Inv, TypeOK, Disconnect
  <2>2. /\ \A k \in AllChannels : Open(k) => Open(k)'
        /\ Stable
    BY <1>2 DEF Disconnect, Open, channels, Stable
  <2>. QED  BY <1>2, <2>1, <2>2, CalmKept DEF Quiet, Calm, Disconnect
<1>3. CASE IoStep
  BY <1>1, <1>2, <1>3, QuietConnect DEF IoStep
<1>4. CASE RegStep
  BY <1>1, <1>4, QuietTakeOver, QuietLogOn, QuietCheckLogged DEF RegStep
<1>5. ASSUME NEW c \in Clients, CloseFd(c) PROVE Quiet
  <2>1. FdId[c] \in Ids \cup {NULL}
    BY RegistryAssumption
  <2>. QED  BY <1>5, <2>1, QuietClose, QuietCloseSession DEF CloseFd
<1>6. CASE WorkerStep
  <2>1. /\ \A i \in Ids : ~UnregSession(i)
        /\ \A k \in Channels : ~DelChannel(k) /\ \A i \in Ids : ~QuitChannel(k, i)
    BY <1>1 DEF UnregSession, DelChannel, QuitChannel
  <2>. QED
    BY <1>1, <1>5, <1>6, <2>1, NoWildRead, QuietUnregClient, QuietCloseSession, QuietOpen, QuietJoinChannel
    DEF WorkerStep, AllChannels
<1>. QED  BY <1>3, <1>4, <1>6 DEF Next

TidyInv == Tidy /\ OneWorker => Calm

LEMMA CalmInit == Init => Calm
  BY RegistryAssumption DEF Init, Calm, Live, Holds

LEMMA BaseInit == Init => Base
  BY TypeInit, MemberInit, CallInit, LoggedInit DEF Base, Inv

LEMMA BaseStep == Base /\ [Next]_vars => Base'
  BY TypeStep, FreshStep, MemberStep, CallStep, LoggedStep DEF Base, Inv

LEMMA TidyStep == Base /\ TidyInv /\ [Next]_vars => TidyInv'
<1> SUFFICES ASSUME Base, TidyInv, [Next]_vars, Tidy', OneWorker' PROVE Calm'
  BY DEF TidyInv
<1>1. Tidy /\ OneWorker
  BY DEF Tidy, OneWorker, Next, vars
<1>2. CASE UNCHANGED vars
  <2>1. /\ TypeOK /\ Calm /\ UNCHANGED <<conn, additional, call, wild, kind>> /\ UNCHANGED sessions
    BY <1>1, <1>2 DEF vars, sessions, TidyInv, Base, Inv
  <2>2. \A k \in AllChannels : Open(k) => Open(k)'
    BY <2>1 DEF Open
  <2>. QED  BY <2>1, <2>2, CalmKept DEF Calm
<1>. QED  BY <1>1, <1>2, QuietStep DEF Quiet, TidyInv

(* On one worker, hooks that only connect, register, come back, join and    *)
(* send to whom is connected never lead to a freed session or channel.     *)
THEOREM NeverWildCorrect == Spec => []NeverWild
<1>1. Init => Base /\ TidyInv
  BY BaseInit, CalmInit DEF TidyInv
<1>2. Base /\ TidyInv /\ [Next]_vars => Base' /\ TidyInv'
  BY BaseStep, TidyStep
<1>3. TidyInv => NeverWild
  BY DEF TidyInv, Calm, NeverWild
<1>. QED  BY <1>1, <1>2, <1>3, PTL DEF Spec

(* Nor do they make an id lose its session or a channel it has joined.     *)
THEOREM StableCorrect == Spec => StableMembership
<1>1. Init => Base /\ TidyInv
  BY BaseInit, CalmInit DEF TidyInv
<1>2. Base /\ TidyInv /\ [Next]_vars => Base' /\ TidyInv'
  BY BaseStep, TidyStep
<1>3. Base /\ TidyInv /\ [Next]_vars =>
        [Tidy /\ OneWorker => \A k \in Channels \cup {GLOBAL}, i \in Ids :
            members[k][i] # NULL => members'[k][i] = members[k][i]]_vars
  BY QuietStep DEF Quiet, Stable, TidyInv, AllChannels
<1>. QED  BY <1>1, <1>2, <1>3, PTL DEF Spec, StableMembership
=============================================================================
