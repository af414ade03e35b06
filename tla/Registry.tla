------------------------------ MODULE Registry ------------------------------
(***************************************************************************)
(* Clients, sessions and channels: server/clients.c and the functions of   *)
(* wrapper/standard.c through which Lua hooks reach it.  A connection gets *)
(* an anonymous session; a hook registers it under an id, or binds the     *)
(* connection to the session that already has the id; registered sessions  *)
(* outlive their connection, join channels and receive broadcasts.         *)
(*                                                                         *)
(* Nothing here is locked.  Connect and Disconnect are steps of the I/O    *)
(* threads, everything else runs on a worker, which may be in the middle   *)
(* of bsp_reg_session() while other threads move.  Objects point at each   *)
(* other in both directions and nothing counts the pointers: following one *)
(* to a freed object, or overwriting the keys of a hash, sets "wild",      *)
(* after which anything may happen and the model stops.  A pool slot is    *)
(* used once, so that every such step shows.                               *)
(***************************************************************************)
EXTENDS Naturals, Sequences, FiniteSets

CONSTANTS
    Clients,        \* client structures of the library, reused
    Sessions,       \* slots of mp_session, each used once
    Channels,       \* slots of mp_channel, each used once
    GLOBAL,         \* global_channel
    Ids,            \* session ids
    Names,          \* names of static channels
    Workers,
    NULL,
    FdId,           \* the session id that reads as the number of a client's fd
    MaxJoined,      \* bound: length of a session's joined_list
    Worlds          \* what may happen, see world

ASSUME RegistryAssumption ==
    /\ NULL \notin Clients \cup Sessions \cup Channels \cup Ids \cup {GLOBAL}
    /\ NULL \notin Seq(Channels \cup {GLOBAL, NULL})
    /\ GLOBAL \notin Channels
    /\ IsFiniteSet(Workers)
    /\ Names \cap {"fresh", "dynamic", "freed", "global"} = {}
    /\ FdId \in [Clients -> Ids \cup {NULL}]
    /\ MaxJoined \in Nat
    /\ Worlds \subseteq [may : SUBSET {"unreg", "leave", "away", "oom"}, channels : Nat, workers : Nat \ {0}]

VARIABLES
    world,      \* set once: what may happen ("unreg": hooks unregister sessions
                \* or move a client to another one, "leave": hooks quit, delete
                \* and replace channels, "away": hooks send to sessions whose
                \* connection has ended, "oom": allocations fail), a bound on
                \* the channels opened, and how many of Workers there are
    conn,       \* life of the connection in each client structure
    additional, \* additional: the session of a client
    life,       \* life of each session slot
    sid,        \* session_id
    bound,      \* bind: the client of a session
    logged,     \* logged
    joined,     \* joined_list up to total_joined; NULL if it could not be
                \* allocated, of NULLs if it could not grow
    kind,       \* type of each channel slot: its name if it is static
    members,    \* list of each channel: session ids to sessions
    call,       \* what bsp_reg_session() has looked up, for each worker
    wild        \* a pointer to no live object was followed

clients == <<conn, additional>>
sessions == <<life, sid, bound, logged, joined>>
channels == <<kind, members>>
vars == <<world, conn, additional, life, sid, bound, logged, joined, kind, members, call, wild>>

Live(s) == life[s] = "live"
Open(k) == k # NULL /\ kind[k] \notin {"fresh", "freed"}
Nobody == [i \in Ids |-> NULL]
Call == [clt : Clients, id : Ids, session : Sessions \cup {NULL}, old : Sessions \cup {NULL}]

MayUnreg == "unreg" \in world.may
MayLeave == "leave" \in world.may
MayAway == "away" \in world.may
OutOfMemory == "oom" \in world.may
Tidy == world.may = {}
OneWorker == world.workers = 1

Init ==
    /\ world \in Worlds
    /\ conn = [c \in Clients |-> "free"]
    /\ additional = [c \in Clients |-> NULL]
    /\ life = [s \in Sessions |-> "fresh"]
    /\ sid = [s \in Sessions |-> NULL]
    /\ bound = [s \in Sessions |-> NULL]
    /\ logged = [s \in Sessions |-> FALSE]
    /\ joined = [s \in Sessions |-> <<>>]
    /\ kind = [k \in Channels \cup {GLOBAL} |-> IF k = GLOBAL THEN "global" ELSE "fresh"]
    /\ members = [k \in Channels \cup {GLOBAL} |-> Nobody]
    /\ call = [w \in Workers |-> NULL]
    /\ wild = FALSE

(* A worker is not in the middle of a call. *)
Idle == Cardinality({w \in Workers : call[w] # NULL}) < world.workers

(* A freed object is used, or one that was never there. *)
GoWild ==
    /\ wild' = TRUE
    /\ UNCHANGED <<clients, sessions, channels, call>>

-----------------------------------------------------------------------------
(* Sessions and clients *)

(* new_session and bind_session *)
NewSession(c, s) ==
    /\ life[s] = "fresh"
    /\ life' = [life EXCEPT ![s] = "live"]
    /\ bound' = [bound EXCEPT ![s] = c]
    /\ additional' = [additional EXCEPT ![c] = s]

(* _bspd_on_connect: reg_client.  The library hands out a cleared client.  *)
Connect(c) ==
    /\ conn[c] = "free"
    /\ conn' = [conn EXCEPT ![c] = "open"]
    /\ \/ \E s \in Sessions : NewSession(c, s)
       \/ /\ OutOfMemory \/ \A s \in Sessions : life[s] # "fresh"
          /\ additional' = [additional EXCEPT ![c] = NULL]
          /\ UNCHANGED <<life, bound>>
    /\ UNCHANGED <<sid, logged, joined, channels, call, wild>>

(* _bspd_on_disconnect: the task that ends in unreg_client is queued. *)
Disconnect(c) ==
    /\ conn[c] = "open"
    /\ conn' = [conn EXCEPT ![c] = "closed"]
    /\ UNCHANGED <<additional, sessions, channels, call, wild>>

Joins(s) == IF joined[s] = NULL THEN {} ELSE {joined[s][i] : i \in 1..Len(joined[s])}

(* The channels the session's quitting leaves empty. *)
Emptied(K, i) ==
    {k \in K : /\ kind[k] = "dynamic"
               /\ \E j \in Ids : members[k][j] # NULL
               /\ \A j \in Ids \ {i} : members[k][j] = NULL}

(* quit_channel: a dynamic channel is deleted with its last member. *)
QuitAll(K, i) ==
    /\ kind' = [k \in DOMAIN kind |-> IF k \in Emptied(K, i) THEN "freed" ELSE kind[k]]
    /\ members' = [k \in DOMAIN members |->
                      IF k \in Emptied(K, i) THEN Nobody
                      ELSE IF k \in K THEN [members[k] EXCEPT ![i] = NULL]
                      ELSE members[k]]

(* del_session walks joined_list: a channel in it may be gone, or go at    *)
(* its first occurrence and be used at its second.                         *)
DelSessionSafe(s) ==
    /\ Live(s)
    /\ \A k \in Joins(s) : Open(k)
    /\ joined[s] # NULL =>
          \A n, m \in 1..Len(joined[s]) :
             joined[s][n] = joined[s][m] => n = m \/ joined[s][n] \notin Emptied(Joins(s), sid[s])

(* What a freed slot holds does not matter: it is never read without GoWild. *)
DelSession(s) ==
    /\ DelSessionSafe(s)
    /\ life' = [life EXCEPT ![s] = "freed"]
    /\ sid' = [sid EXCEPT ![s] = NULL]
    /\ logged' = [logged EXCEPT ![s] = FALSE]
    /\ joined' = [joined EXCEPT ![s] = <<>>]
    /\ IF sid[s] = NULL THEN UNCHANGED channels ELSE QuitAll(Joins(s) \cup {GLOBAL}, sid[s])

(* Mutant: the session is deleted whether it is registered or not. *)
UnregClientAlways(c) ==
    /\ conn[c] = "closed"
    /\ LET s == additional[c] IN
       \/ /\ s = NULL
          /\ conn' = [conn EXCEPT ![c] = "free"]
          /\ UNCHANGED <<additional, sessions, channels, call, wild>>
       \/ /\ s # NULL
          /\ DelSession(s)
          /\ conn' = [conn EXCEPT ![c] = "free"]
          /\ UNCHANGED <<additional, bound, call, wild>>
       \/ s # NULL /\ ~DelSessionSafe(s) /\ GoWild

(* unreg_client, the follow-up of the disconnect task: a registered session *)
(* stays for the client that comes back.                                    *)
UnregClient(c) ==
    /\ conn[c] = "closed"
    /\ LET s == additional[c] IN
       \/ /\ s # NULL => Live(s) /\ logged[s]
          /\ conn' = [conn EXCEPT ![c] = "free"]
          /\ UNCHANGED <<additional, sessions, channels, call, wild>>
       \/ /\ s # NULL /\ ~logged[s]
          /\ DelSession(s)
          /\ conn' = [conn EXCEPT ![c] = "free"]
          /\ UNCHANGED <<additional, bound, call, wild>>
       \/ s # NULL /\ ~Live(s) /\ GoWild

(* check_logged_session *)
LoggedAs(i) == IF i = NULL THEN NULL ELSE members[GLOBAL][i]

(* The client is registered under another id already.  If the new one is   *)
(* free, session_id is overwritten, which is also the memory of the keys   *)
(* under which channels list the session.                                  *)
Renames(s, i) == s # NULL /\ Live(s) /\ sid[s] \notin {NULL, i}

CloseSocket(c) ==
    /\ conn[c] = "open"
    /\ conn' = [conn EXCEPT ![c] = "closed"]
    /\ UNCHANGED <<additional, sessions, channels, call, wild>>

(* bsp_net_close(id) *)
CloseSession(i) ==
    LET s == LoggedAs(i) IN
    /\ s # NULL
    /\ \/ Live(s) /\ CloseSocket(bound[s])
       \/ ~Live(s) /\ GoWild

(* bsp_net_close(fd): the number is looked up as a session id as well, and *)
(* a session found that way has its client closed instead.                 *)
CloseFd(c) ==
    \/ LoggedAs(FdId[c]) # NULL /\ CloseSession(FdId[c])
    \/ LoggedAs(FdId[c]) = NULL /\ CloseSocket(c)

(* Mutant: the session the id already has is not looked for. *)
CheckLoggedSkip(w, c, i) ==
    /\ Idle /\ call[w] = NULL
    /\ conn[c] = "open"
    /\ LET s == additional[c] IN
       /\ Renames(s, i) => MayUnreg
       /\ call' = [call EXCEPT ![w] = [clt |-> c, id |-> i, session |-> s, old |-> NULL]]
    /\ UNCHANGED <<clients, sessions, channels, wild>>

(* bsp_reg_session(fd, id), first half: the client of the fd, its session  *)
(* and the session logged under the id are looked up.                      *)
CheckLogged(w, c, i) ==
    /\ Idle /\ call[w] = NULL
    /\ conn[c] = "open"
    /\ LET s == additional[c] IN
       /\ Renames(s, i) => MayUnreg
       /\ call' = [call EXCEPT ![w] = [clt |-> c, id |-> i, session |-> s, old |-> LoggedAs(i)]]
    /\ UNCHANGED <<clients, sessions, channels, wild>>

(* Mutant: the session the client had is forgotten, not deleted. *)
TakeOverKeep(w) ==
    LET c == call[w].clt  s == call[w].session  old == call[w].old IN
    /\ call[w] # NULL
    /\ old # NULL
    /\ call' = [call EXCEPT ![w] = NULL]
    /\ bound' = [bound EXCEPT ![old] = c]
    /\ additional' = [additional EXCEPT ![c] = old]
    /\ UNCHANGED <<conn, life, sid, logged, joined, channels, wild>>

(* Mutant: the client keeps its own session and the old one is deleted. *)
TakeOverNew(w) ==
    LET c == call[w].clt  s == call[w].session  old == call[w].old IN
    /\ call[w] # NULL
    /\ old # NULL
    /\ \/ s = old /\ UNCHANGED <<sessions, channels>>
       \/ /\ s # old /\ s # NULL
          /\ DelSession(old)
          /\ UNCHANGED bound
    /\ call' = [call EXCEPT ![w] = NULL]
    /\ UNCHANGED <<clients, wild>>

(* Second half, the id is taken: the client's own session goes and the     *)
(* client is bound to the old one.                                         *)
TakeOver(w) ==
    LET c == call[w].clt  s == call[w].session  old == call[w].old IN
    /\ call[w] # NULL
    /\ old # NULL
    /\ \/ /\ s = old
          /\ call' = [call EXCEPT ![w] = NULL]
          /\ UNCHANGED <<clients, sessions, channels, wild>>
       \/ /\ s # old
          /\ Live(old)
          /\ IF s = NULL THEN UNCHANGED <<life, sid, logged, joined, channels>> ELSE DelSession(s)
          /\ call' = [call EXCEPT ![w] = NULL]
          /\ bound' = [bound EXCEPT ![old] = c]
          /\ additional' = [additional EXCEPT ![c] = old]
          /\ UNCHANGED <<conn, wild>>
       \/ /\ s # old
          /\ ~Live(old) \/ (s # NULL /\ ~DelSessionSafe(s))
          /\ GoWild

(* join_channel under the session's own id.                                *)
Join(k, s, i) ==
    /\ Len(joined[s]) < MaxJoined
    /\ members' = [members EXCEPT ![k][i] = s]
    /\ joined' = [joined EXCEPT ![s] = Append(joined[s], k)]

CanJoin(s) == Live(s) /\ joined[s] # NULL /\ NULL \notin Joins(s)

(* joined_list cannot be allocated, or cannot grow and is lost: the session *)
(* is in the channel's list but does not know it, and its next join writes  *)
(* to no list.  The length at which the list is full is left open.          *)
JoinLost(k, s, i) ==
    /\ members' = [members EXCEPT ![k][i] = s]
    /\ joined' = [joined EXCEPT ![s] = IF joined[s] = <<>> THEN NULL ELSE [n \in DOMAIN joined[s] |-> NULL]]

(* Second half, the id is free: the session of the client, or a new one,   *)
(* gets it and joins the global channel.  If joining fails the session     *)
(* keeps the id and is not logged.                                         *)
LogOn(w) ==
    LET c == call[w].clt  s == call[w].session  i == call[w].id IN
    /\ call[w] # NULL
    /\ call[w].old = NULL
    /\ \/ /\ \E t \in Sessions :
                /\ IF s = NULL
                   THEN NewSession(c, t)
                   ELSE t = s /\ CanJoin(s) /\ ~Renames(s, i) /\ UNCHANGED <<life, bound, additional>>
                /\ sid' = [sid EXCEPT ![t] = i]
                /\ \/ /\ Join(GLOBAL, t, i)
                      /\ logged' = [logged EXCEPT ![t] = TRUE]
                   \/ /\ OutOfMemory
                      /\ UNCHANGED <<members, joined, logged>>
                   \/ /\ OutOfMemory
                      /\ JoinLost(GLOBAL, t, i)
                      /\ UNCHANGED logged
          /\ call' = [call EXCEPT ![w] = NULL]
          /\ UNCHANGED <<conn, kind, wild>>
       \/ /\ s = NULL
          /\ OutOfMemory \/ \A n \in Sessions : life[n] # "fresh"
          /\ call' = [call EXCEPT ![w] = NULL]
          /\ UNCHANGED <<clients, sessions, channels, wild>>
       \/ /\ s # NULL
          /\ ~CanJoin(s) \/ Renames(s, i)
          /\ GoWild

(* bsp_unreg_session(id); given an fd it looks the number up as an id too. *)
UnregSession(i) ==
    LET s == LoggedAs(i) IN
    /\ MayUnreg
    /\ s # NULL
    /\ \/ /\ DelSession(s)
          /\ UNCHANGED <<clients, bound, call, wild>>
       \/ ~DelSessionSafe(s) /\ GoWild

-----------------------------------------------------------------------------
(* Channels *)

MayOpen(k) == kind[k] = "fresh" /\ Cardinality({o \in Channels : kind[o] # "fresh"}) < world.channels

(* bsp_new_channel(): dynamic without a name *)
NewDynamic(k) ==
    /\ MayOpen(k)
    /\ kind' = [kind EXCEPT ![k] = "dynamic"]
    /\ UNCHANGED <<clients, sessions, members, call, wild>>

(* bsp_new_channel(name): the channel that had the name is deleted first,  *)
(* and stays deleted if there is no memory for the new one.                *)
NewStatic(n, k) ==
    /\ MayOpen(k)
    /\ MayLeave \/ \A o \in Channels : kind[o] # n
    /\ \E t \in {n} \cup (IF OutOfMemory THEN {"freed"} ELSE {}) :
          kind' = [o \in DOMAIN kind |-> IF o = k THEN t ELSE IF kind[o] = n THEN "freed" ELSE kind[o]]
    /\ members' = [o \in DOMAIN members |-> IF kind[o] = n THEN Nobody ELSE members[o]]
    /\ UNCHANGED <<clients, sessions, call, wild>>

(* bsp_del_channel(): only a number passes its argument check. *)
DelChannel(k) ==
    /\ MayLeave
    /\ kind[k] = "dynamic"
    /\ kind' = [kind EXCEPT ![k] = "freed"]
    /\ members' = [members EXCEPT ![k] = Nobody]
    /\ UNCHANGED <<clients, sessions, call, wild>>

(* Mutant: the channel is not remembered in the session. *)
JoinChannelUnlisted(k, i) ==
    LET s == LoggedAs(i) IN
    /\ Open(k) /\ k # GLOBAL
    /\ s # NULL
    /\ Live(s)
    /\ members' = [members EXCEPT ![k][sid[s]] = s]
    /\ UNCHANGED <<clients, sessions, kind, call, wild>>

(* bsp_join_channel(channel, id) *)
JoinChannel(k, i) ==
    LET s == LoggedAs(i) IN
    /\ Open(k) /\ k # GLOBAL
    /\ s # NULL
    /\ \/ /\ CanJoin(s)
          /\ \/ Join(k, s, sid[s])
             \/ OutOfMemory /\ JoinLost(k, s, sid[s])
          /\ UNCHANGED <<clients, life, sid, bound, logged, kind, call, wild>>
       \/ s # NULL /\ ~CanJoin(s) /\ GoWild

(* bsp_quit_channel(channel, id): joined_list is left alone. *)
QuitChannel(k, i) ==
    LET s == LoggedAs(i) IN
    /\ MayLeave
    /\ Open(k) /\ k # GLOBAL
    /\ s # NULL
    /\ \/ /\ Live(s)
          /\ QuitAll({k}, sid[s])
          /\ UNCHANGED <<clients, sessions, call, wild>>
       \/ ~Live(s) /\ GoWild

-----------------------------------------------------------------------------
(* Functions that only read: what matters is whether what they read is     *)
(* there.  bsp_list_channel() reads the ids of the members, which is what   *)
(* NoDanglingMember is about.                                               *)

(* send_string, send_object and send_command: how to serialize and compress *)
(* is asked of the session of the client they send to.                      *)
Readable(c) == additional[c] = NULL \/ Live(additional[c])

(* bind is followed to the client.  Nothing clears it when the connection   *)
(* of a registered session ends: the structure may serve another one, or    *)
(* have served one whose session is deleted.                                *)
Reachable(s) == Live(s) /\ (MayAway => bound[s] = NULL \/ Readable(bound[s]))

(* bsp_net_send_channel(channel, ...): every member, one after the other. *)
SendChannel(k) ==
    /\ Open(k)
    /\ \E i \in Ids : members[k][i] # NULL /\ ~Reachable(members[k][i])
    /\ GoWild

(* bsp_net_send(id, ...) *)
SendSession(i) ==
    /\ LoggedAs(i) # NULL
    /\ ~Reachable(LoggedAs(i))
    /\ GoWild

(* bsp_net_send(fd, ...), and bsp_check_session(fd), which reads session_id. *)
ReadClient(c) ==
    /\ conn[c] = "open"
    /\ ~Readable(c)
    /\ GoWild

IoStep == \E c \in Clients : Connect(c) \/ Disconnect(c)

RegStep ==
    \E w \in Workers :
        \/ TakeOver(w)
        \/ LogOn(w)
        \/ \E c \in Clients, i \in Ids : CheckLogged(w, c, i)

WorkerStep ==
    /\ Idle
    /\ \/ \E c \in Clients : UnregClient(c) \/ CloseFd(c)
       \/ \E i \in Ids : UnregSession(i) \/ CloseSession(i)
       \/ \E k \in Channels : NewDynamic(k) \/ DelChannel(k) \/ \E n \in Names : NewStatic(n, k)
       \/ \E k \in Channels, i \in Ids : JoinChannel(k, i) \/ QuitChannel(k, i)
       \/ \E k \in Channels \cup {GLOBAL} : SendChannel(k)
       \/ \E i \in Ids : SendSession(i)
       \/ \E c \in Clients : ReadClient(c)

Next == ~wild /\ (IoStep \/ RegStep \/ WorkerStep) /\ UNCHANGED world

Spec == Init /\ [][Next]_vars

-----------------------------------------------------------------------------
(* Type invariant; a name has one channel, as in static_channel_list. *)
TypeOK ==
    /\ world \in Worlds
    /\ conn \in [Clients -> {"free", "open", "closed"}]
    /\ additional \in [Clients -> Sessions \cup {NULL}]
    /\ life \in [Sessions -> {"fresh", "live", "freed"}]
    /\ sid \in [Sessions -> Ids \cup {NULL}]
    /\ bound \in [Sessions -> Clients \cup {NULL}]
    /\ logged \in [Sessions -> BOOLEAN]
    /\ joined \in [Sessions -> Seq(Channels \cup {GLOBAL, NULL}) \cup {NULL}]
    /\ kind \in [Channels \cup {GLOBAL} -> Names \cup {"fresh", "dynamic", "freed", "global"}]
    /\ \A k, o \in Channels : kind[k] \in Names /\ kind[k] = kind[o] => k = o
    /\ members \in [Channels \cup {GLOBAL} -> [Ids -> Sessions \cup {NULL}]]
    /\ call \in [Workers -> Call \cup {NULL}]
    /\ wild \in BOOLEAN

(* No freed session or channel is ever used, as long as hooks only connect, *)
(* register, come back, join and send to whom is connected, on one worker:  *)
(* sessions shared by an old and a new connection survive both              *)
(* (unreg_client, bsp_reg_session).                                         *)
NeverWild == Tidy /\ OneWorker => ~wild

(* A session id keeps its session and its channels across reconnections,   *)
(* as long as no hook takes them away and one worker runs the hooks         *)
(* (bsp_reg_session, unreg_client).                                         *)
StableMembership ==
    [][Tidy /\ OneWorker => \A k \in Channels \cup {GLOBAL}, i \in Ids :
          members[k][i] # NULL => members'[k][i] = members[k][i]]_vars

(* Every registered session is the one its id leads to, so that a client   *)
(* that comes back finds it, unless an allocation failed on the way or a    *)
(* second worker registered the id at the same time (bsp_reg_session,       *)
(* check_logged_session).                                                   *)
LoggedReachable ==
    OneWorker /\ ~OutOfMemory => \A s \in Sessions : Live(s) /\ logged[s] => members[GLOBAL][sid[s]] = s

(* A session nobody registered belongs to a connection that will have it   *)
(* deleted: none is leaked when connections end or are taken over, even     *)
(* when registering failed for want of memory, as long as one worker does   *)
(* all the registering (unreg_client, bsp_reg_session).                     *)
AnonymousOwned ==
    OneWorker => \A s \in Sessions : Live(s) /\ ~logged[s] => \E c \in Clients : conn[c] # "free" /\ additional[c] = s

(* The members of a channel are live sessions listed under their own ids,  *)
(* whatever was quit, deleted or unregistered in between, with failing      *)
(* allocations and with two workers: a broadcast or a list of the channel   *)
(* never reads a freed session (bsp_net_send_channel, del_session).         *)
NoDanglingMember ==
    \A k \in Channels \cup {GLOBAL}, i \in Ids :
        members[k][i] # NULL => Live(members[k][i]) /\ sid[members[k][i]] = i

(* "Close fd": bsp_net_close(fd) closes no connection but that of the fd. *)
CloseFdClosesFd ==
    [][\A c, d \in Clients : conn[c] = "open" /\ CloseFd(c) /\ c # d => conn'[d] = conn[d]]_vars
=============================================================================
