# A TLA+ model of bspd

bspd is an application server in C: libbsp's threads accept connections and read bytes, bspd turns what they
read into tasks, worker threads run the tasks as Lua functions, and the Lua functions answer through sessions and
channels. This directory holds TLA+ modules for the parts of it in which order, memory and concurrency are hard to
get right, the TLC configurations that check them on small instances, and TLAPS proofs of what holds in general.
Paths such as `server/script.c` are relative to `src/src/`.

Contents: 1 the system, 2 the modules, 3 the runs, 4 the proofs, 5 disagreements found, 6 not modelled, 7 plan.

## 1. The system

| Part | State | Operations | Correct when |
|---|---|---|---|
| Script task queue (`server/script.c` 753-855, `server/main.c` 59-128, 361-435, 1038-1063) | linked list `task_queue_head`, `task_queue_tail` under a spinlock; task slots of `mp_task`; notifications of each worker | new, push, pop, delete a task; poke; run hook, then `follow_up` | a FIFO queue; each task run once and freed once; no task waits without a notification; a connection's hooks in order, its session freed last |
| Clients, sessions, channels (`server/clients.c`, `wrapper/standard.c` 44-629) | `clt->additional`, `session->bind`, `joined_list`, a channel's `list`, `global_channel`, `static_channel_list` | connect, disconnect, register, come back, unregister, join, quit, open and delete channels, broadcast | an id has one session; it survives reconnection with its channels; nothing freed is used; nothing is leaked |
| Dynamic channel table (`server/clients.c` 84-91, 257-410) | `dynamic_channel_list`, its size, `next_dynamic_channel_id` | open, find, delete | numbers unique and smallest free; an index stays inside the array |
| Data path (`server/main.c` 95-574, `protocol/*.c`) | the `BSPD_BARED` slot of an fd; `offset`, `data_len` | bare, process packet or raw, report what was processed | each frame handled once and in order; nothing read outside the input; the loop ends |
| Sending (`server/main.c` 577-962) | the same slot | frame and send strings, objects, commands | an answer is sent whole, to its client |
| Script containers (`server/script.c` 54-193, 560-652, `server/main.c` 964-1036) | a `lua_State` per worker: its globals, its stack | create, load, restart on a signal, call a hook | no state is used by two threads; a signal reaches every worker; no stack overflows |
| Global store (`wrapper/global.c`) | a tree of values under one spinlock | set, get (flush does nothing) | a map from paths to values, each call at one moment; the lock always released |
| Timers of scripts (`wrapper/standard.c` 640-729) | libbsp timers | start, stop | not modelled |
| Configuration (`server/conf.c`, `server/main.c` 1066-1264, `bspd.c`) | a `bspd_config_t` | read options, parse the file, start servers and threads | each server started as described; the file takes back nothing the command line asked for |
| JSON (`serialization/json.c`) | none | encode, decode | what is written is read back; nothing is read behind the end |
| HTTP headers (`protocol/http.c` 46-292) | none | parse | the fields of a request as they were sent |
| Logging (`utils/debug.c`) | `log_fp` under `log_lock` | append, close | not modelled |

Threads. An I/O thread serves a connection from connect to disconnect and handles its events one by one; several
I/O threads run at once. The boss thread runs the base clock. Workers wait for notifications. Producers (I/O
threads, boss) reach the workers only through the task queue; workers reach the connections through the
registry, which has no lock, and through `bsp_socket_append`.

Signals reach the main thread: on USR1 it loads the script again into every container, on USR2 it restarts the
containers, on HUP it closes the log, which the next message opens again, emptied; TSTP does nothing. All hooks share
the global store.

Hard behaviour: two producers and several consumers on one list; slots recycled with old contents; a disconnect that
races hooks already queued; a client that comes back while its old connection is still open; sessions and channels
that point at each other without counting; allocation failures half way; an array grown over uncleared memory;
packets and headers cut anywhere by the network; a tree changed key by key under a lock that a Lua error can leave
held; containers rebuilt while their workers run; malformed texts. PROJECT.json lists each with its line.

libbsp is not part of the repository. What the code assumes of it is a constant, a variable that `Init` chooses, or
an operator marked external: whether its pool clears memory (`PoolClears`), counts notifications (`CountedPokes`), may
run out (`OutOfMemory`, `alloc.fails`, `world.fails`), clears a grown array (`alloc.clears`); that it keeps a client
structure until `unreg_client`, clears an fd's additional data before the fd is used again, and hands out unused
`BSPD_BARED` slots cleared.

## 2. The modules

### ScriptQueue, TaskFifo
One program counter per thread: the I/O context of each connection, the boss, each worker. `OnConnect`, `OnData`,
`OnDisconnect` and `OnBaseClock` are the four places that make a task; `SelectThread` ... `Release` are
`push_script_task` and `pop_script_task`, split at each read and write of the list so that it is the spinlock
that makes them atomic; `WorkerOnPoke`, `CallScript`, `AfterDisconnectTask`, `DelTask` are `_worker_on_poke`. The
pointers `head`, `tail`, `next` are those of the code. History variables: `fifo`, the tasks linked and not yet
unlinked, and `ran`, the last event whose hook ran. `RunHook` is what matters of `call_script`: the
event whose hook it runs. A failed allocation in a connect or disconnect handler leads to
`segv`, as the code writes through the result; after it nothing moves.
What a task carries is reduced to its type, its connection and the number of the event.

`ServedQueue` adds which workers libbsp serves, chosen once: `bsp_select_thread` picks among these. `MCServedQueue` has
all of them or one, so that one run compares both.

`TaskFifo` says what users of the queue may rely on: tasks are put at one end, taken at the other, and each is
finished by its taker. `ScriptQueue!FifoSpec` instantiates it with `fifo` and with what each worker `Got`.

### DynamicChannels, IdPool
`list`, `size`, `nextId` are the array, its size and `next_dynamic_channel_id`. `NewChannel` is `new_channel(NULL)`
with its search (`FindNext`) and its doubling (`GrowList`, where `Grown` leaves open what the new half holds);
`NewChannelFails` is the same with a failing `bsp_realloc`; `DelChannel` is a deletion by number. `alloc` is
the allocator: whether it clears and whether it fails. Following an
entry that is not a live channel sets `wild` and stops. `IdPool` is the abstract promise: a pool that gives the
smallest free number.

### Registry
`additional`, `bound`, `joined` and `members` are the four kinds of pointers between clients, sessions and channels.
`Connect` and `Disconnect` are steps of the I/O threads. The functions scripts call are steps of a worker, except
`bsp_reg_session`, which looks the id up (`CheckLogged`) and acts on it later (`TakeOver`, `LogOn`), so that other
threads move in between. `UnregClient` is the end of the disconnect task. Slots are used once, so a stale pointer is
always seen: following one sets `wild`. The functions that only read (`SendChannel`, `SendSession`, `ReadClient`:
`bsp_net_send_channel`, `bsp_net_send`, `bsp_check_session`) are steps only when they read something freed. Renaming a
registered client to a free id overwrites the memory of hash keys and counts as `wild` as well.

`world`, chosen in `Init`, says what hooks do (`unreg`: unregister sessions or move a client to another one; `leave`:
quit, delete and replace channels; `away`: send to sessions whose connection ended), whether allocations fail (`oom`),
how many channels are opened and how many workers run. A property that holds only in some worlds says so.

### Answers
One connection, its fd's `BSPD_BARED` slot, its I/O thread and the workers whose hooks send to it. `Send` is the entry of
`send_string`, `send_object`, `send_command`; the rest of `RealSend` is `_real_send`, a step for each append to the
socket (`AppendHdr`, `AppendLen`, `AppendData`) or, with a packer, for getting the slot, building the header, packing the
body, appending and dropping the result. `OnData`, `BareNew`, `Proc`, `Clear` are the steps of `_bspd_on_data` that touch
the slot, `Heartbeat` the echo of `_proc_packet`, `OnDisconnect` the release. `world` is the type of the server, the
number of workers, whether the peer waits for its answers, whether hooks send unasked and whether heartbeats come.
An answer is a sequence of pieces; `out` is what the peer reads.

### DataPath
A byte is its position in the stream, a stream is a sequence of frames, and a segment is what arrives at once. `OnData`,
`Bare`, `Proc`, `Return` are `_bspd_on_data`'s entry, barer, processing and end. `ProcPacket` reads the frame at
the start of the data, or, anywhere else, any header and length (`Readings`): this is what the code does with the rest
of a cut packet. `HalfBaked` keeps the comparison of a signed length with an unsigned rest.

### GlobalStore, PathMap
The tree is a function from paths to what is there: nothing, a scalar, a hash, an array. A worker's walk is `pc` and
`depth`, the number of keys it has passed; `Enter` walks into a table, `Replace` puts one in the way of a set, `Store`
and `Answer` are the last key, `Miss` a get that ends early, `ReplaceFails` and `StoreFails` a failed allocation, after
which the old value is already gone. `lost` is the walk in an object that was made but not linked, as for a key of an
array. `Raise` is a Lua error in a conversion, which jumps past the unlock. `base` is a history variable: the tree when
a call last unlocked. `PathMap` is the promise: `Set`, `SetFails`, `Get`, `BadPath` on one map of paths, each at one
moment, the unlock.

### ScriptRuntime
It EXTENDS GlobalStore: hooks that run in a worker's `lua_State` call the store. `main` is the loop of the main thread
over the workers, at start, on USR1 and on USR2; `TurnBegins` reads a container's pointer, `TurnEnds` and
`TurnFails` are what it does there, and in between the worker moves. `globals` has, for each hook, the edition of the
script file that defined it, `top` is the height of the Lua stack, `where` whether the worker is in `lua_pcallk`.
`CallHook` is `call_script` up to there, with its early return, `HookReturns` and `HookRaises` its end. A `lua_State`
used by two threads and a stack pushed beyond `Room` set `wild`. `setting` is chosen in `Init`: `quiet`, the
operator signals when no hook runs; `complete`, every edition of the file loads and defines all hooks; `stores`, how many
calls hooks make; `signals`, whether there are any.

### Scanning, JsonDecoder, JsonText, HttpRequest, Configuration, Intake, Inputs
The first five are functions: `Decoded` and `Text` (`json_nd_decode`, `json_nd_encode`) on sequences of bytes, with the
encoder's run of ordinary bytes (`start`, `end`) as in the code; `Parsed` (`_parse_http_request`) on a sequence of bytes,
line ends, methods and versions; `Started` (`main`, `parse_conf`, `_parse_conf_server`, `bspd_startup`) from options and
decoded file to what runs. The decoder is a recursive function of the places of a text, `Reading`: what is read there, and
where reading goes on, of a value and of what is left of a string, an array or a hash; the code's loops are its recursion
(`InString`, `Traverse`, `TraverseHash`), and a place behind the end has nothing (`At`). `Linked` is the loop over the
list of servers, `Lines` the one over the header lines: what there is after n of them, and where the next one begins.
`Scanning` has what the readers share, the loop that looks for a byte (`Find`).

`Intake` has one variable, the input written so far: a JSON text from anybody, a request, or options and configuration.
It makes it longer step by step, so that a run checks every input up to its bounds. A request is a method, a URI, perhaps
a version, header lines and a body; `Sent` is its text, `Meant` the fields it should be read as. `Inputs` adds what is
written by the encoder: that is recursive over values, and the proofs need modules that are not.

The MC modules give the constants values and define the symmetry; nothing in a .cfg replaces a definition.

## 3. The runs

| Run | Instance | Shows |
|---|---|---|
| `queue_safety` | 2 connections, 2 workers, 3 slots, 1 data event each, failing allocation and thread selection, stale slots; 0.9 million states | `QueueShape`, `OneHolder`, `NoWriteToTaken`: the memory of the queue is sound; `PokesCoverQueue`: no task waits with all workers asleep; `UnregAfterClose`; `FifoSpec`: it is the abstract queue |
| `queue_liveness` | 2 slots, fairness, libbsp serves 2 workers or one; 0.4 million states | `FifoFairness`: each task is taken and finished; `EventuallyUnregistered`, `UnregOnce`: a connection's end is handled, once; with one worker `AloneHooksInOrder`, `AloneNoHookAfterUnreg` |
| `queue_gc` | violation | finding 1 |
| `channel_numbers` | 5 channels, array of 2 that may double twice; three allocators: clearing, not clearing, failing | `IndicesInArray` always; `LiveListed` unless it fails; `NoStaleEntry`, `PoolSpec` if it clears |
| `registry` | 2 clients, 3 sessions, 2 channels, 2 ids, joined lists of up to 2; four worlds, one of them with 2 workers; 1.4 million states | `NeverWild` and `StableMembership` while the hooks of one worker only register, come back and join; `LoggedReachable` whatever one worker's hooks do; `AnonymousOwned` also when allocations fail; `NoDanglingMember` always |
| `registry_close_fd` | violation | finding 2 |
| `answers` | 56 combinations of server, peer, hooks and 1 or 2 workers; 3 answers, 2 requests or heartbeats, 3 slots; 1.6 million states | `AnswersWhole`: the peer reads whole answers, in order for one worker; `SlotKept`: the slot is neither leaked nor kept; `NoAnswerAsData`: no answer becomes a request's data |
| `data_path` | all streams of up to 4 packets of 6 kinds, one in a segment; all of up to 4 request headers in whole segments; one stream of 16 bytes cut in every way for 14 configurations | `FramesHandledOnce`, `PayloadInInput`, `LoopProgress` |
| `script_runtime` | 2 workers, 2 hooks, 2 keys (one of them empty), paths of up to 3 keys, 4 values, 11 calls of which 3 happen, 3 events, 2 signals, 1 new edition of 4 script files, stack room for 2; with and without failing allocations and Lua errors; 0.3 million states | `StoreSpec`: the store is the atomic map; `Rooted`, `LockInside`; `OneThreadPerState`, `ReloadReachesAll`: a careful operator's signals are safe and reach all; `HooksReturn`: no hook waits for ever |
| `inputs` | strings of 4 characters of 6 kinds; JSON texts of 5 of 14 pieces; 54 requests with 2 of 7 header lines; 2 of 5 options, 9 files, 3 of 8 list entries; 0.8 million inputs | `EncoderKeeps`, `RequestRead`: exactly which strings and requests come through unchanged; `DecoderInside`, `DecodedAgain`; `CommandLineWins`, `ServersAsWritten` |
| `data_half_baked`, `data_http_part` | violations | findings 3 and 4 |

The type invariants of `ScriptQueue`, `DynamicChannels`, `Registry` and `DataPath` are proved and not among the runs;
so is `CompactIds`, that every number below the next free one is taken.

Bounds. Two producers and two consumers show every pair of steps that meet at the list; three slots let the queue
hold two tasks while one is run and a slot be recycled under an old follow-up. Five channels in an array of two reach
each branch of the search and both doublings. In the registry two clients are the old and the new connection of an id;
three sessions are both of theirs and a spare one; two channels distinguish emptied from surviving ones; a joined list
of two holds the global channel and another. Packets of 0, 1, 3 and 4 bytes of payload are the boundaries of the command
header. Three answers are two that meet and a later one that meets what they left; two requests are one that finds the
slot missing and one that finds it used; three slots are one for each thread that may find none. Three keys
are a table, a table in it and a field of that, so a walk can be stopped at the first, in the middle and at the last key;
three calls are one that puts something in the way, one that meets it and one that looks. Two signals meet: the second
begins after the first one's loop, over what it left. Five pieces of JSON are enough for a hash with a member, for a
string with an escape cut short, and for nested brackets that are not closed. `MaxData`, `MaxTicks`, `MaxJoined`,
`MaxSize`, `MaxSends`, `MaxRequests`, `MaxCalls`, `MaxHooks`, `MaxSignals`, `MaxEdits`, `Depth`, `MaxCharacters`,
`MaxPieces`, `MaxHeaders`, `MaxOptions`, `MaxEntries`, `world.channels` are bounds of the models, not of the code.

Deadlock is left unchecked where the system stops by design of the model: after a crash or a wild pointer, when the
peer has sent all or is gone, when all channel slots are used, when
all calls and signals are made, when an input has its full length.

Fairness. `queue_liveness`: each thread is scheduled, each connection ends. The workers and producers loop over
events that libbsp delivers. The spinlock has no queue; weak fairness of a thread suffices because no thread takes
the lock unboundedly often: each push is an event of a finite connection and each pop a notification.
`script_runtime`: a thread inside a hook goes on with it (`GoOn`) and a hook returns (`HookReturns`); the spinlock of the
store is taken once per call, so weak fairness does again, as calls are bounded. `HooksReturn` is claimed where Lua
raises no error in a conversion: where it does, the lock stays held and TLC finds all workers spinning.

## 4. The proofs

All proofs are for every value of the constants, under each module's named assumption only, and use no other trust.

`ScriptQueueProofs` (`TypeCorrect`, `ShapeCorrect`, `OwnershipCorrect`, `UnregCorrect`, `WritesCorrect`, `Refinement`,
`PokesCorrect`). The queue's shape is not inductive: it is broken inside critical sections. The inductive invariant
says, for each thread in a critical section, that it holds the lock and how far the list is from its shape: linked but
not appended, read but not advanced. Ownership adds that the hands of threads, the positions of the queue and the
refused tasks are disjoint and make up the allocated slots; only with it does a write to `tail->next` reach a waiting
task. Refinement follows: linking maps to a stutter, appending to `Push`, advancing to `Take`, freeing to `Finish`.
That pokes cover the queue compares a length with a sum over the workers. `Notices` is that sum as a finite set, a
pair for each notification that is pending or being answered, so a step adds or removes one pair. A pop that finds the
queue empty is what the argument turns on: it uses up a notice, and there is no task left that it could have been
meant for. The theorem assumes that every worker has a script and that no poke is lost (`CountedPokes`).

`HookOrderProofs` (`UnregOnceCorrect`, `SoleHooksRise`, `SoleHooksInOrder`, `SoleNoHookAfterUnreg`,
`AloneNoHookCorrect`, `AloneHooksCorrect`) goes on from that invariant. A client has one slot whose follow-up is due,
and is not unregistered while it is (`OnceInv`); this holds for any number of workers, if the pool clears its slots.
The others are about a worker that is the only one with a script (`Sole`; one worker in all is a case of it). The
numbers of a connection's events rise along the way of its tasks: the hook called last, the worker's task, the queue,
the task being pushed (`OrderInv`), so hooks are called in order. If no task is lost, the tasks under way cover all
numbers not yet called (`CoverInv`), so none is left out. A disconnect task has the last number of its connection
(`LastInv`), so no hook is left after it. For `ServedQueue` the only busy worker is the one that is served
(`AloneInv`), and the same step lemmas give `AloneNoHookCorrect` and `AloneHooksCorrect`, the properties of the run
`queue_liveness`.

`DynamicChannelsProofs` (`TypeCorrect`, `IndicesCorrect`, `LiveCorrect`, `NoStaleCorrect`, `CompactCorrect`,
`Refinement`), in three layers: types and indices hold whatever the allocator does; if `bsp_realloc` does not fail,
`next` is a free place below the size and live channels are found; if it also clears, the array holds exactly the live
channels and every number below the next is taken, from which the smallest-free refinement follows.

`DataPathProofs` (`TypeCorrect`, `PayloadCorrect`, `FramesCorrect`, `ProgressCorrect`). `data_len + consumed = offset`
inside a call, the slot's bytes have arrived, and with a hook configured a slot is never bared between calls: without the
last, a stale `proced` could be counted again. That each frame is handled exactly once speaks of streams of any length.
That frames lie one behind the other (`Layout`) is an induction over the stream; it is done with a set of numbers that
contains 0 and is closed under successor (`NatSetInduction`). With it the invariant is that the loop stands between two
frames and what was handed on are, in order, the frames before `offset` (`HandledInv`): for packets that come in a
segment of their own, and for headers of requests that come whole. `LoopProgress` needs the same for the second, and
otherwise only that a slot that is bared has something in it.

`RegistryProofs` (`TypeCorrect`, `MembersCorrect`, `AnonymousCorrect`, `LoggedCorrect`, `NeverWildCorrect`,
`StableCorrect`), in three layers. Whatever happens: that a channel lists only live sessions under their own ids is not
inductive, as deleting a session removes it from the channels of its `joined_list` only. `MemberInv` adds that a
listed session knows the channel that lists it, or has lost its `joined_list` in a way that makes `del_session` follow
`NULL` (which is `wild`), so that a deletion leaves no trace of it; `FreshInv` adds that an unused slot has joined
nothing, which a new session's first registration needs. Deletion (`DelSessionUnlists`) and joining
(`JoiningKeepsMembers`) carry the argument, every other action disturbs one conjunct at most. With one worker:
`CallInv`, that while `bsp_reg_session` is half way only the I/O threads move, so what it has looked up is still so;
and, while allocations succeed, `LoggedInv`, that the registered sessions are just those the global channel
lists. In the tidy world, on one worker: `Calm`, that who is connected has a live session, one without an id has joined
nothing and is held by one connection only, every channel joined is open, and a registration never renames. Hence
a session that is taken over or closed anonymously goes without touching a channel (`AnonymousGone`), which is both
why no pointer to it is left and why nobody else's membership changes.

`ScriptRuntimeProofs` has two parts. The store (`TypeCorrect`, `LockCorrect`, `RootedCorrect`, `Refinement`), for
workers, keys, values and depths of any number. Under the lock the tree is between two abstract maps, so the inductive
invariant ties it to `base`: a get has not changed it; a set that has passed `depth` keys has made it `Opened(base,
path, depth)`, or it met an array and the tree is `base`; once it has finished, its answer says which of the abstract
steps leads from `base` to the tree; and with the lock free the two are equal. `Forest` (only a hash has fields) holds
of both at every step, from the lemmas on `Put`, `Opened` and `At`. Unlocking then is `Set`, `SetFails` or `Get`, an
early answer `BadPath`, and all else a stutter.

The containers (`RuntimeUsesStore`, `RuntimeTypeCorrect`, `OneThreadCorrect`, `ReloadCorrect`).
`RuntimeUsesStore`: the containers' steps are the store's steps or leave it alone, so the store's theorems hold of hooks
in containers. For the rest, three invariants: a loop's turn is below its end while inside, and its `from` is an
edition that was; containers behind the loop have the edition of its `from` for every hook, and those before it that
of `floor`; and with a careful operator, a loop and a hook exclude each other, containers define every hook, and
stacks are empty.

`AnswersProofs` (`TypeCorrect`, `SlotCorrect`, `DataCorrect`, `WholeCorrect`). Who works on a slot has one that was
allocated (`HandsInv`). While hooks only answer, the first request has made the slot before any answer looks for it
(`SlotInv`). Data in a slot is the answer of a worker that is not done with it, and no worker is at work while a request
of a patient peer is bared (`DataInv`). For whole answers the invariant follows what the last piece in the socket
calls for (`Due`): it is just the piece the one worker is about to append, or nothing (`DueInv`); what a worker has in
its slot is its own answer as far as it got, or nothing if the I/O thread was there (`PackedInv`); and what was
written is numbered below what is still to be (`OutInv`).

`IntakeProofs` (`DecoderEnds`, `DecoderCorrect`, `CommandLineCorrect`, `ServersCorrect`, `RequestsCorrect`), for texts,
requests, command lines and files of any length. The decoder, the header lines and the list of servers are recursive
functions, of which nothing can be said before it is proved that there are such functions. `Left` measures what is left
to read at a place; `StepSame` shows, operation by operation, that what is read there depends on places with less left
only, as long as these were read without going behind the end, and is then read without doing so itself. So there is a
function that reads right where less than n is left, for each n (`SomeReading`, by `NatSetInduction`), and for the whole
text the decoder is it. `DecoderEnds` says both: the code's recursion is grounded, each value taking a byte at least,
and it stays inside. `LinkedLinks` does the same for the loop over the servers; `LinkedRight` follows it entry by entry,
counting the tables from an entry on, which is where the entry's server is in the list. `TypeWritten` has the order in
which the words for types are tried.

`RequestsCorrect` says both directions of `RequestRead`: which requests are read as they were sent, and that no others
are. The sent text is laid out first (`SentLaid`): the first line end is that of the first line, and two line ends in a
row come first at the empty line, whatever the body is, since no line is empty (`HeadersLaid`). So `_parse_http_request`
walks over just the lines that were sent (`LinesTurn`, `LineAt`), and each is read on its own (`HeaderReads`). `Kept`
is the invariant of that walk: after k lines every name among them has the value of its last line that has one, the
other fields are still those of the first line, and a line without a value has made the request wild (`HeadersKept`).
A first line with a version is read right (`PlainLine`), for OPTIONS the URI has lost a byte or is another word
(`OptionsLine`), and without a version there is a VERSION all the same (`FieldsFormed`). A value is read as sent just
if it has no control byte (`ValueReadAs`). What is assumed of requests is `IntakeAssumption`: words have no blanks, keys
no colon, values do not begin with a blank and have no line end.

Only model-checked: the liveness properties (fairness is beyond TLAPS); `EncoderKeeps` and `DecodedAgain` (the encoder,
`Text`, is recursive over values); and the violations. What the proofs need of induction over data is done where the
data is counted by a number (`Layout` in DataPathProofs, `SomeReading`, `LinkedRight`, `HeadersKept`), with a set of
numbers in place of the library's induction rules.

## 5. Disagreements found

1. `queue_gc`: the clock announces the collection of worker i's script and pushes a task any worker may take
   (`server/main.c` 1050-1058).
2. `registry_close_fd`: `bsp_net_close(fd)` also treats the number as a session id, because of a `;` after the second
   condition (`wrapper/standard.c` 62), and closes the client of that session.
3. `data_half_baked`: what `_proc_packet` leaves for later is reported as processed (`server/main.c` 541).
4. `data_http_part`: an HTTP header that is not complete keeps `_bspd_on_data` in its loop (`protocol/http.c` 357-360).

Behaviour the models show and no document denies is listed among the hazards: with two workers, hooks of a connection
overtake each other, two registrations of one id race and packets are mixed; a request that comes before the answer to
the last one destroys it; hooks that quit, delete or unregister lead to freed sessions and channels; a failed
`bsp_realloc` displaces channel 0; a failed set leaves tables made and what was in their way deleted, and a set below
an array reports success and stores nothing; a Lua error in a conversion leaves the store locked for good; a hook that
is no function, or a file that does not load, leaves a value on the Lua stack at each try; the JSON encoder loses a run
of one ordinary character at the end, and repeats the character that ends a run; the URI of OPTIONS loses its first
byte; a server of type websocket, or of no known type, becomes an HTTP server; what `parse_conf` returns is ignored.

## 6. Not modelled

Timers of scripts pass numbers to libbsp and their events run no Lua; the wrong field in the computation of nanoseconds
(`wrapper/standard.c` 676) is a hazard in PROJECT.json that no model of bspd's own state would show. Logging prints;
its file is opened by whoever appends, under a lock, and closed by the main thread alone, on HUP and at the end. Stubs
(`utils/compress.c`, `protocol/websocket.c`, `protocol/internal.c`) do nothing; `server/session.c` is not built;
`wrapper/misc.c` has no state; `deps/` is vendored. Of start-up, daemonizing, the pid file, and which thread gets which
socket are libbsp's and the system's.

Contents of tasks, Lua itself, and what a broadcast says are left out. In ScriptRuntime, Lua is a table of globals and
the height of a stack. In GlobalStore, an array is one value, and numbers and booleans are scalars. In JSON,
numbers are integers: `printf` and `strtod` of fractions are libc's. In HttpRequest, bytes are a few classes, and a
line end, a method and a version are one piece each: a request cut inside one of them is DataPath's subject, which
looks for the header's end only. In the registry, whom a message reaches after a client structure is reused, the cursor
of a channel's list, ids longer than a session can store, and two workers outside `bsp_reg_session` are left out; its
second half is one step. In Answers, what headers say, objects that cannot be serialized (they are not sent), and a
string freed by one thread between another's test and its use, which is one step, are left out.

## 7. Plan

1. A composition of DataPath with TaskFifo, from the frames of two connections to their hooks, and of Answers with
   Registry, from a broadcast to each member's socket.
2. The encoder as a recursive function of the depth of a value, so that `EncoderKeeps` and `DecodedAgain` can be proved.
3. Logging: `append_log` against `close_log`, once something but the main thread closes the file.
