------------------------------- MODULE Config -------------------------------
(***************************************************************************)
(* internal/config/config.go: what one line of the configuration file does *)
(* to a Config, and which Configs Validate lets through.                   *)
(*                                                                         *)
(* A value is known by what the parsers can make of it: a word (a path, an *)
(* address, yes, no, ...) and the number it spells, or NaN.  A line is a   *)
(* key and a value; "skip" stands for the key of a blank or comment line,  *)
(* "malformed" for that of a line without "=", without key or value, and   *)
(* "long" for that of a line the scanner's buffer cannot hold.             *)
(*                                                                         *)
(* A definition that ends in "_" is a faulty variant of the one after it,  *)
(* kept to show that a property would notice the fault.                    *)
(***************************************************************************)
EXTENDS Integers

CONSTANTS MaxInt,     \* the largest int and the largest time.Duration (2^63 - 1)
          Milli,      \* time.Millisecond in units of Duration (1000000)
          MaxPort     \* 65535

ASSUME ConfigAssumption == /\ MaxInt \in Nat \ {0}
                           /\ Milli \in Nat \ {0}
                           /\ MaxPort \in Nat \ {0}

NaN       == -1
AbsPaths  == {"/", "/a", "/b"}
Addresses == {"ip", "ip4"}
IPLists   == Addresses \cup {"ip, ip4"}
Wrap(n)   == ((n + MaxInt + 1) % (2 * (MaxInt + 1))) - MaxInt - 1

Switches  == {"tpl_extend", "tls_cgi_enable", "cgi_enable", "tpl_wrapper",
              "tpl_credits", "log_errors", "log_requests", "proxy_protocol"}
Counts    == {"port", "tls_port", "max_request_bytes", "cgi_max_stdout_bytes",
              "max_response_bytes"}
Timeouts  == {"read_timeout_ms", "write_timeout_ms", "cgi_timeout_ms"}
Paths     == {"doc_root", "tls_cert", "tls_key", "tls_doc_root", "log_root"}
Required  == {"bind_ip", "port", "doc_root"}
Allowed   == Switches \cup Counts \cup Timeouts \cup Paths
               \cup {"bind_ip", "tls_enable", "log_group", "log_umask",
                     "log_format", "trusted_proxy_ips"}

\* Default, with the zero value for what it does not name.
Default ==
    [bind_ip |-> "", port |-> 0, doc_root |-> "", tpl_extend |-> FALSE,
     tls_enable |-> "no", tls_port |-> MaxPort - 1, tls_cert |-> "", tls_key |-> "",
     tls_doc_root |-> "", tls_cgi_enable |-> FALSE, tls_cgi_enable_set |-> FALSE,
     read_timeout_ms |-> Milli, write_timeout_ms |-> Milli, cgi_timeout_ms |-> Milli,
     max_request_bytes |-> 1, cgi_max_stdout_bytes |-> 2, max_response_bytes |-> 2,
     cgi_enable |-> FALSE, tpl_wrapper |-> FALSE, tpl_credits |-> TRUE,
     log_root |-> "/", log_group |-> "finger", log_umask |-> 7,
     log_format |-> "rfc5424", log_errors |-> TRUE, log_requests |-> FALSE,
     proxy_protocol |-> FALSE, trusted_proxy_ips |-> ""]
-----------------------------------------------------------------------------
(* applyValue and its parsers.  A parser returns the values it can make of *)
(* a text: one, or none when it refuses the text.                          *)

PositiveInt(v) == {n \in {v.num} : n > 0 /\ n <= MaxInt}
MillisOf(v)    == {Wrap(n * Milli) : n \in PositiveInt(v)}
YesNo(v)       == {b \in BOOLEAN : v.word = IF b THEN "yes" ELSE "no"}

Parsed(key, v) ==
    CASE key \in Switches -> YesNo(v)
      [] key \in Counts   -> PositiveInt(v)
      [] key \in Timeouts -> MillisOf(v)
      [] key \in Paths    -> {v.word}
      [] key = "bind_ip"  -> {v.word} \cap Addresses
      [] key = "tls_enable" -> {v.word} \cap {"no", "yes_both", "yes_strict"}
      [] key = "trusted_proxy_ips" -> {v.word} \cap IPLists
      [] key = "log_group"  -> {v.word} \ {"two words"}
      [] key = "log_umask"  -> {v.num} \ {NaN}
      [] key = "log_format" -> {v.word}

Store_(c, key, value) == [c EXCEPT ![key] = value]

Store(c, key, value) ==
    [c EXCEPT ![key] = value,
              !.tls_cgi_enable_set = @ \/ key = "tls_cgi_enable"]

\* The Configs that one accepted line leads to: none when it is an error.
ApplyLine(c, l) ==
    IF l.key = "skip" THEN {c}
    ELSE IF l.key \notin Allowed THEN {}
    ELSE {Store(c, l.key, value) : value \in Parsed(l.key, l.value)}
-----------------------------------------------------------------------------
TLSEnabled(c)    == c.tls_enable # "no"
PlainEnabled_(c) == TRUE
PlainEnabled(c)  == c.tls_enable # "yes_strict"

Validate(c) ==
    /\ c.bind_ip # ""
    /\ c.port \in 1..MaxPort
    /\ c.doc_root \in AbsPaths
    /\ c.tls_enable \in {"no", "yes_both", "yes_strict"}
    /\ c.tls_doc_root \in AbsPaths \cup {""}
    /\ TLSEnabled(c) =>
          /\ c.tls_port \in 1..MaxPort
          /\ c.tls_cert \in AbsPaths /\ c.tls_key \in AbsPaths
          /\ c.tls_enable = "yes_both" => c.tls_port # c.port
    /\ c.max_request_bytes > 0 /\ c.cgi_max_stdout_bytes > 0
    /\ c.max_response_bytes > 0
    /\ c.read_timeout_ms > 0 /\ c.write_timeout_ms > 0 /\ c.cgi_timeout_ms > 0
    /\ c.log_format \in {"rfc3164", "rfc5424"}
    /\ c.log_errors \/ c.log_requests => c.log_root \in AbsPaths
    /\ c.log_group # ""
    /\ c.proxy_protocol => c.trusted_proxy_ips # ""

EffectiveTLSDocRoot(c) ==
    IF c.tls_doc_root # "" THEN c.tls_doc_root ELSE c.doc_root
EffectiveTLSCGIEnable(c) ==
    IF c.tls_cgi_enable_set THEN c.tls_cgi_enable ELSE c.cgi_enable

\* Server.listenerModes.
ListenerModes(c) ==
    {m \in {[tls |-> FALSE, port |-> c.port, docRoot |-> c.doc_root,
             cgi |-> c.cgi_enable]} : PlainEnabled(c)}
    \cup
    {m \in {[tls |-> TRUE, port |-> c.tls_port, docRoot |-> EffectiveTLSDocRoot(c),
             cgi |-> EffectiveTLSCGIEnable(c)]} : TLSEnabled(c)}
=============================================================================
