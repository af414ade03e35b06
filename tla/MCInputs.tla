------------------------------ MODULE MCInputs ------------------------------
(* A small instance of Inputs for TLC. *)
EXTENDS Inputs

SomeCharacters ==
    {<<97>>, <<Quote>>, <<10>>, <<195, 169>>, <<226, 130, 172>>, <<240, 159, 152, 128>>}

SomePieces ==
    {<<Quote>>, <<Backslash>>, <<Backslash, LetterU, 48, 48>>, <<97>>, <<49>>, <<Minus>>,
     <<Comma>>, <<32>>, <<OpenArray>>, <<CloseArray>>, <<OpenHash>>, <<CloseHash>>,
     Spelling["null"], Spelling["true"]}

SomeRequests ==
    [method : {"GET ", "OPTIONS "}, uri : {<<"x">>, <<"z">>, <<"y", ":">>},
     version : {<<>>, <<"HTTP/1.0">>, <<"z">>}, headers : {<<>>},
     body : {<<>>, <<"x", "CRLF">>, <<"HTTP/1.1">>}]

SomeHeaders ==
    {[key |-> <<"x">>, value |-> <<"x">>], [key |-> <<"X">>, value |-> <<"y", " ", "x">>],
     [key |-> <<"y">>, value |-> <<"x", ":", "8bit", "x">>], [key |-> <<"x">>, value |-> <<>>],
     [key |-> <<"y", "method">>, value |-> <<"x", "tab", "y">>],
     [key |-> <<"method">>, value |-> <<"y">>], [key |-> <<"VERSION">>, value |-> <<"UNKNOWN">>]}

SomeWords == {"v", "d", "h", "c", "p"}

No == Word("false")
Yes == Word("true")

Global1 == [trace_level |-> Str(<<"err", "or">>), daemonize |-> No, worker_threads |-> Num(2)]
Global2 ==
    [trace_level |-> Str(<<"none">>), log_level |-> Str(<<"all">>), daemonize |-> Yes,
     worker_threads |-> Num(1), enable_main_clock |-> No, script |-> Str(<<"main.lua">>)]

File(g) == Hash([global |-> g, servers |-> Arr(<<>>)])
SomeFiles ==
    {Nothing, Arr(<<>>), Hash(<<>>), Hash([servers |-> Arr(<<>>)]), File(Arr(<<>>)),
     File(Hash(<<>>)), File(Hash(Global1)), File(Hash(Global2)), Hash([global |-> Hash(Global1)])}

Entry(n, t) == Hash([name |-> Str(<<n>>), type |-> Str(t), inet |-> Str(<<"ipv4">>), port |-> Num(65537)])
SomeEntries ==
    {Entry("a", <<"http">>), Entry("b", <<"websocket">>), Entry("c", <<"normal">>),
     Entry("d", <<"internal">>), Entry("e", <<>>), Hash([inet |-> Str(<<"local">>)]),
     Hash([inet |-> Str(<<"local">>), addr |-> Str(<<"socket">>), name |-> Str(<<"f">>)]),
     Str(<<"http">>)}

SomeEnvironments ==
    {[sockets |-> FALSE, containers |-> FALSE, timers |-> FALSE],
     [sockets |-> TRUE, containers |-> TRUE, timers |-> TRUE]}
=============================================================================
