-------------------------- MODULE MCScriptRuntime ------------------------
(* A small instance of ScriptRuntime for TLC: the hooks of two workers set *)
(* and read a scalar, a table and an array at three levels while the       *)
(* script is reloaded and restarted.                                       *)
EXTENDS ScriptRuntime, TLC

CONSTANTS h1, h2, a, blank, one

TwoWorkers == {0, 1}
TwoHooks == {h1, h2}
TwoKeys == {a, blank}
OneScalar == {one}

SomePaths == UNION {[1..n -> TwoKeys] : n \in 1..Depth}
Plain(n) == [root |-> n, fields |-> [q \in SomePaths |-> NULL]]
Table == [root |-> HASH, fields |-> [q \in SomePaths |-> IF q = <<a>> THEN one ELSE NULL]]
SomeValues == {Plain(NULL), Plain(one), Plain(ARRAY), Table}

Op(o, p, v) == [op |-> o, path |-> p, val |-> v]
SomeCalls ==
    {Op("set", <<a>>, Plain(one)), Op("set", <<a>>, Plain(ARRAY)), Op("set", <<a>>, Table),
     Op("set", <<blank, a>>, Plain(one)), Op("set", <<a, a, a>>, Plain(one)),
     Op("set", <<a, blank>>, Plain(one)), Op("set", NULL, Plain(one)),
     Op("get", <<a>>, Plain(NULL)), Op("get", <<a, a, a>>, Plain(NULL)),
     Op("get", <<blank, a>>, Plain(NULL)), Op("get", NULL, Plain(NULL))}

World(f, r) == [fails |-> f, raises |-> r]
AllWorlds == {World(FALSE, FALSE), World(TRUE, FALSE), World(FALSE, TRUE)}

Script(D, l) == [defines |-> D, load |-> l]
SomeFiles == {Script(TwoHooks, "ok"), Script({h1}, "ok"), Script({h2}, "raises"), Script({}, "broken")}

Behaviour(q, c, st, si) == [quiet |-> q, complete |-> c, stores |-> st, signals |-> si]
AllSettings ==
    {Behaviour(TRUE, TRUE, 3, FALSE), Behaviour(TRUE, TRUE, 1, TRUE),
     Behaviour(TRUE, FALSE, 0, TRUE), Behaviour(FALSE, TRUE, 0, TRUE)}
=============================================================================
