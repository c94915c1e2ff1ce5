------------------------------- MODULE MCConn -------------------------------
(* Limits of one byte of text, and scripts on both sides of every limit.   *)
EXTENDS Conn

Headers  == {<<>>, <<"x", "cr", "lf">>, <<"x", "lf">>, <<"x", "x", "cr", "lf">>}
Hellos   == {<<>>, <<"hello">>}
Requests == {<<"cr", "lf">>, <<"x", "cr", "lf">>, <<"x", "x", "lf">>,
             <<"x", "x", "cr", "lf">>, <<"x", "x", "x", "cr", "lf">>,
             <<"cr", "x", "lf">>, <<"x", "lf", "x", "lf">>}

\* A header, well formed but for what is said of one field.
Text(w)   == [word |-> w, ip |-> <<>>, zone |-> FALSE, num |-> NaN]
Addr(ip)  == [word |-> "address", ip |-> ip, zone |-> FALSE, num |-> NaN]
Port(n)   == [word |-> "number", ip |-> <<>>, zone |-> FALSE, num |-> n]
Family(n) == IF n = 4 THEN "TCP4" ELSE "TCP6"
Someone(n) == IF n = 4 THEN <<8, 8, 8, 8>> ELSE <<38, 6>> \o Zeros(14)
From(ip)  == <<Text("PROXY"), Text(Family(Len(ip))), Addr(ip), Addr(Someone(Len(ip))),
               Port(40000), Port(79)>>
Valid     == From(Someone(4))

BadHeaders ==
    {[Valid EXCEPT ![1] = Text("PROXY2")], [Valid EXCEPT ![2] = Text("TCP6")],
     [Valid EXCEPT ![2] = Text("UNKNOWN")], [Valid EXCEPT ![3] = Text("host")],
     [Valid EXCEPT ![4] = Addr(Someone(16))], <<Text("PROXY"), Text("UNKNOWN")>>,
     [From(Someone(16)) EXCEPT ![3].zone = TRUE], [From(Someone(16)) EXCEPT ![4].zone = TRUE],
     <<Text("")>> \o Valid, [Valid EXCEPT ![5] = Text("")], Append(Valid, Text("more"))}
    \cup {[Valid EXCEPT ![i] = Port(n)] : i \in {5, 6}, n \in {0, 65536, NaN}}

\* The first and the last address of a block, and their neighbours outside.
Padded(p, n, o) == p \o [i \in 1..(n - Len(p)) |-> o]
Edges(b, n) ==
    LET k == Len(b.net)
        with(o) == [b.net EXCEPT ![k] = o]
        o == b.net[k]
    IN  {Padded(b.net, n, 0), Padded(with(o + b.unit - 1), n, 255)}
        \cup {Padded(with(o - 1), n, 255) : x \in {1} \cap 1..o}
        \cup {Padded(with(o + b.unit), n, 0) : x \in {1} \cap 1..(256 - o - b.unit)}
Addresses == UNION {Edges(b, 4) : b \in Blocks4} \cup UNION {Edges(b, 16) : b \in Blocks6}

Client(s, h) == [script |-> s, header |-> h]
MCClients == {Client(h \o t \o r, Valid) : h \in Headers, t \in Hellos, r \in Requests}
             \cup {Client(<<"x", "cr", "lf">>, h) : h \in BadHeaders \cup {From(ip) : ip \in Addresses}}

\* What debug/fuzz_live.sh sends first in proxy mode: a header that announces
\* its CLIENT_IP, which comes from a block for documentation, to its PROXY_IP,
\* and the empty request.
LiveHeader == [From(<<203, 0, 113, 10>>) EXCEPT ![4] = Addr(<<127, 0, 0, 1>>)]
LiveProbe  == {Client(<<"x", "cr", "lf", "cr", "lf">>, LiveHeader)}
Oversized == {Client(s, Valid) : s \in {<<"x", "x", "x", "cr", "lf">>, <<"x", "x", "cr", "lf">>}}
=============================================================================
