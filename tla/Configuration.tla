--------------------------- MODULE Configuration ---------------------------
(***************************************************************************)
(* How bspd starts: the options of main (bspd.c), the configuration file   *)
(* (server/conf.c) and bspd_startup (server/main.c), as functions of the   *)
(* command line and of the decoded file.  Values are those of JsonDecoder; a  *)
(* string is a sequence of words here, and a key is one word.              *)
(***************************************************************************)
EXTENDS JsonDecoder

NULL == <<"NULL">>
Levels == <<"emerg", "alert", "crit", "err", "warn", "notice", "info", "debug">>
All == {Levels[i] : i \in 1..Len(Levels)}
Threads == {"boss_threads", "acceptor_threads", "io_threads", "worker_threads"}

Has(d, key) == key \in DOMAIN d.h
TextAt(d, key) == IF Has(d, key) /\ d.h[key].k = "string" THEN d.h[key].s ELSE NULL
NumAt(d, key, old) == IF Has(d, key) THEN d.h[key].n ELSE old
FlagAt(d, key, old) == IF Has(d, key) THEN d.h[key].k = "true" ELSE old

(* strncasecmp with the words of a table in turn, each with its length.    *)
Matched(s, table, old) ==
    LET hits == {i \in 1..Len(table) : s # NULL /\ IsPrefix(table[i][1], s)}
    IN  IF hits = {} THEN old ELSE table[CHOOSE i \in hits : \A j \in hits : i <= j][2]

InetTypes == << <<<<"ipv4">>, "IPV4">>, <<<<"ipv6">>, "IPV6">>, <<<<"local">>, "LOCAL">> >>
SockTypes == << <<<<"tcp">>, "TCP">>, <<<<"udp">>, "UDP">>, <<<<"sctp">>, "SCTP">> >>

(* The length given for http is 0: every string matches it. *)
Types ==
    << <<<<"internal">>, "INTERNAL">>, <<<<"normal">>, "NORMAL">>, <<<<>>, "HTTP">>,
       <<<<"websocket">>, "WEBSOCKET">> >>

DataTypes == << <<<<"packet">>, "PACKET">> >>

Upto(i) == {Levels[j] : j \in 1..i}
Masks ==
    << <<<<"none">>, {}>> >> \o [i \in 1..Len(Levels) |-> <<<<Levels[i]>>, Upto(i)>>]
    \o << <<<<"all">>, All>> >>

(* _parse_conf_server *)
ServerConf(d) ==
    [name |-> TextAt(d, "name"),
     inet |-> Matched(TextAt(d, "inet"), InetTypes, "ANY"),
     sock |-> Matched(TextAt(d, "sock"), SockTypes, "ANY"),
     addr |-> TextAt(d, "addr"),
     port |-> NumAt(d, "port", 0) % 65536,
     type |-> Matched(TextAt(d, "type"), Types, "NORMAL"),
     data |-> Matched(TextAt(d, "data_type"), DataTypes, "RAW"),
     debug |-> <<FlagAt(d, "debug_input", FALSE), FlagAt(d, "debug_output", FALSE)>>,
     connect |-> TextAt(d, "lua_hook_connect"),
     disconnect |-> TextAt(d, "lua_hook_disconnect"),
     hook |-> TextAt(d, "lua_hook_data")]

(* Mutant: the file has the last word. *)
GlobalsOver(c, g) ==
    [c EXCEPT
        !.trace = Matched(TextAt(g, "trace_level"), Masks, @),
        !.log = Matched(TextAt(g, "log_level"), Masks, @),
        !.daemonize = FlagAt(g, "daemonize", @),
        !.threads = [t \in Threads |-> NumAt(g, t, c.threads[t])],
        !.script = TextAt(g, "script"),
        !.load = TextAt(g, "lua_hook_load"),
        !.clock = FlagAt(g, "enable_main_clock", @)]

Globals(c, g) ==
    [c EXCEPT
        !.trace = IF c.verbose THEN All ELSE Matched(TextAt(g, "trace_level"), Masks, @),
        !.log = Matched(TextAt(g, "log_level"), Masks, @),
        !.daemonize = @ \/ FlagAt(g, "daemonize", FALSE),
        !.threads = [t \in Threads |-> NumAt(g, t, c.threads[t])],
        !.script = TextAt(g, "script"),
        !.load = TextAt(g, "lua_hook_load"),
        !.clock = FlagAt(g, "enable_main_clock", @)]

(* Mutant: every server takes the place of those before. *)
LinkedLast(ss, entries) ==
    LET L[i \in 0..Len(entries)] ==
            IF i = 0 THEN ss
            ELSE IF entries[i].k = "hash" THEN <<ServerConf(entries[i])>> ELSE L[i - 1]
    IN  L

(* The servers that are there once the first i entries have been looked    *)
(* at: each table is put before those that were.                           *)
Linked(ss, entries) ==
    LET L[i \in 0..Len(entries)] ==
            IF i = 0 THEN ss
            ELSE IF entries[i].k = "hash" THEN <<ServerConf(entries[i])>> \o L[i - 1]
            ELSE L[i - 1]
    IN  L

Servers(c, conf) ==
    IF Has(conf, "servers")
    THEN LET entries == conf.h["servers"].a
         IN [c EXCEPT !.servers = Linked(@, entries)[Len(entries)]]
    ELSE c

(* parse_conf.  What it returns is not looked at. *)
ParsedConf(c, conf) ==
    IF Has(conf, "global") /\ conf.h["global"].k = "hash"
    THEN Servers(Globals(c, conf.h["global"]), conf)
    ELSE c

-----------------------------------------------------------------------------
(* The options of main. *)
NoConf ==
    [verbose |-> FALSE, daemonize |-> FALSE, clock |-> TRUE, trace |-> {}, log |-> {},
     threads |-> [t \in Threads |-> 0], script |-> NULL, load |-> NULL, servers |-> <<>>]

Options(args) ==
    [NoConf EXCEPT !.verbose = "v" \in ToSet(args), !.daemonize = "d" \in ToSet(args)]

(* A local server without a path has no socket. *)
Listening(s) == s.inet # "LOCAL" \/ s.addr # NULL

Ends(how, c) == [how |-> how, c |-> c, serving |-> <<>>, open |-> {}]

(* main and bspd_startup.  file is the decoded configuration, Nothing if   *)
(* there is none; env tells what fails in libbsp.                          *)
Started(args, file, env) ==
    LET d == [Options(args) EXCEPT !.log = All]
        c == ParsedConf(d, file)
        serving == SelectSeq(c.servers, LAMBDA s : Listening(s) /\ ~env.sockets)
        run == [how |-> "running", c |-> c, serving |-> serving,
                open |-> {i \in 0..(c.threads["worker_threads"] - 1) : ~env.containers}]
    IN  IF "h" \in ToSet(args) THEN Ends("usage", NoConf)
        ELSE IF file.k # "hash" THEN Ends("no configuration", d)
        ELSE IF c.clock /\ env.timers THEN [run EXCEPT !.how = "no base timer"]
        ELSE run
=============================================================================
