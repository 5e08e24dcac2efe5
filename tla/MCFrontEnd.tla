----------------------------- MODULE MCFrontEnd -----------------------------
(* Instances of FrontEnd for TLC: command lines with up to two options in  *)
(* either order among a few that are accepted, those that are rejected,    *)
(* and a small tree below <<9>>, with a link out of it and one to a file   *)
(* beside it. A size word is its value in units, then its suffix: K is 4   *)
(* and G is 64, of integers below 256.                                     *)
EXTENDS FrontEnd

MCSizes == ("0" :> <<0, 1>>) @@ ("3" :> <<3, 1>>) @@ ("2K" :> <<2, 4>>) @@ ("3G" :> <<3, 64>>) @@ ("4G" :> <<4, 64>>)

Options ==
    {<<"--gpu">>, <<"--no-gpu">>, <<"--overwrite">>, <<"--no-recurse">>, <<"--quiet">>,
     <<"--format", "gzip">>, <<"--format", "zstd">>, <<"--level", "best">>,
     <<"--threads", "4G">>, <<"--io-threads", "0">>}
    \cup {<<"--gpu-threshold", s>> : s \in {"0", "2K", "4G"}}
    \cup {<<"--block-bytes", s>> : s \in {"3", "2K", "3G", "4G"}}

Asks(options, names) == <<"pack">> \o options \o <<"--output", "out">> \o names
MCCommandLines ==
    {Asks(a \o b, <<"f">>) : a, b \in Options}
    \cup {Asks(o, <<"d">>) : o \in {<<>>} \cup Options}
    \cup {Asks(o, names) : o \in {<<>>, <<"--no-recurse">>}, names \in
            {<<"f", "xd">>, <<"xd", "f">>, <<"f", "f">>, <<"gone">>, <<"f", "pipe">>, <<"d", "xd">>}}
    \cup {Asks(o, <<"f">>) : o \in {<<"--level">>, <<"--format", "tar">>, <<"--threads", "f">>, <<"--output", "--overwrite">>}}
    \cup {<<>>, <<"info">>, <<"--help">>, <<"tar">>, <<"pack">>, <<"pack", "f">>,
          <<"pack", "--output", "out">>, <<"pack", "f", "--output">>, <<"pack", "--help">>, <<"pack", "--zip", "f">>}

Reg(path, real, deep, size) == [path |-> path, real |-> real, deep |-> deep, regular |-> TRUE, size |-> size]
Dir(path) == [path |-> path, real |-> <<9>> \o path, deep |-> FALSE, regular |-> FALSE, size |-> 0]
Node(path, kind, size, base, under) ==
    [path |-> path, kind |-> kind, size |-> size, base |-> base, under |-> under]
MCTree ==
    ("f" :> Node(<<1, 5>>, "file", 8, <<9, 1>>, {})) @@ ("gone" :> Node(<<6>>, "missing", 0, <<9, 6>>, {}))
    @@ ("pipe" :> Node(<<7>>, "other", 0, <<9, 7>>, {}))
    @@ ("d" :> Node(<<2>>, "dir", 0, <<9, 2>>,
            {Dir(<<2, 1>>), Reg(<<2, 1, 3>>, <<9, 2, 1, 3>>, TRUE, 5), Reg(<<2, 2>>, <<8, 5>>, FALSE, 9)}))
    @@ ("xd" :> Node(<<1, 2>>, "dir", 0, <<9, 1>>,
            {Reg(<<1, 2, 4>>, <<9, 1, 2, 4>>, FALSE, 7), Reg(<<1, 2, 3>>, <<9, 1, 2, 4>>, FALSE, 7),
             Reg(<<1, 2, 6>>, <<9, 1, 2, 6>>, FALSE, 0)}))

MCPaths == DOMAIN MCTree
MCMachines == {[cuda |-> FALSE, devices |-> 1], [cuda |-> TRUE, devices |-> 0], [cuda |-> TRUE, devices |-> 1]}
=============================================================================
