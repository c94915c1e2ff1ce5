----------------------------- MODULE MCStartup -----------------------------
(* Integers of six bits with four units to a millisecond, so that 8 wraps   *)
(* to a negative, 16 to zero and 17 to a positive duration; ports up to 9;  *)
(* keys of every parser with values it takes, refuses or bends, and pairs   *)
(* of the lines that bear on one another in both orders.                    *)
EXTENDS Startup

CONSTANTS w1, w2
MCWriters == {w1, w2}
MCTexts == {<<"lf", "a">>, <<"wide", "sp", "wide", "ctl">>}
MCPieces == {1}

Word(key, w) == [key |-> key, value |-> [word |-> w, num |-> NaN]]
Num(key, n)  == [key |-> key, value |-> [word |-> "number", num |-> n]]

Base == <<Word("bind_ip", "ip"), Num("port", 2), Word("doc_root", "/a")>>
TLS  == Base \o <<Word("tls_enable", "yes_both"), Word("tls_cert", "/a"), Word("tls_key", "/b")>>

Single ==
    {Word(k, w) : k \in {"skip", "malformed", "long", "colour"}, w \in {"x"}}
    \cup {Word(k, w) : k \in {"tpl_extend", "tpl_wrapper", "log_errors"}, w \in {"yes", "no", "maybe"}}
    \cup {Num(k, n) : k \in {"port", "tls_port", "max_response_bytes"}, n \in {0, 9, 10, 32}}
    \cup {Num(k, n) : k \in {"read_timeout_ms", "cgi_timeout_ms"}, n \in {0, 7, 8, 16, 17, 32}}
    \cup {Word(k, w) : k \in {"doc_root", "tls_key", "tls_doc_root", "log_root"}, w \in {"/b", "b"}}
    \cup {Word("bind_ip", "here"), Word("trusted_proxy_ips", "ip, here"),
          Word("log_group", "two words"), Word("log_format", "plain"),
          Num("log_umask", 7), Word("log_umask", "u"), Word("tls_enable", "maybe")}

Related ==
    {{Word("tls_enable", "no"), Word("tls_enable", "yes_strict"), Num("tls_port", 2), Num("port", 8)},
     {Word("tls_doc_root", "/b"), Word("doc_root", "/b"), Word("doc_root", "b")},
     {Word("tls_cgi_enable", "no"), Word("tls_cgi_enable", "yes"), Word("cgi_enable", "yes")},
     {Word("log_errors", "no"), Word("log_requests", "yes"), Word("log_root", "logs")},
     {Word("proxy_protocol", "yes"), Word("trusted_proxy_ips", "ip, ip4")}}

MCConfigFiles ==
    {<<>>, Tail(Base), <<Base[1], Base[3]>>, <<Base[1], Base[2]>>}
    \cup {TLS \o <<l>> : l \in Single}
    \cup {<<Word("tpl_credits", "no")>> \o Base, Base \o <<Word("log_root", "logs")>>}
    \cup UNION {{<<l>> \o TLS \o <<k>> : l \in group, k \in group} : group \in Related}
=============================================================================
