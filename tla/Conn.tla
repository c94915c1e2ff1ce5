-------------------------------- MODULE Conn --------------------------------
(***************************************************************************)
(* One connection from Accept to Close: Server.serveConn with prepareConn, *)
(* readLine, discardLine, shouldSilentlyClose and writeAndLog, against a   *)
(* client that sends at any pace, half-closes, resets or falls silent.     *)
(*                                                                         *)
(* Bytes are the classes the code tells apart: "x" stands for acceptable   *)
(* text, "cr" and "lf" for the line-ending bytes and "hello" for a TLS     *)
(* handshake.  Names ending in an underscore are faulty variants, no part  *)
(* of Spec.                                                                *)
(***************************************************************************)
EXTENDS ProxyLine

CONSTANTS MaxRequestBytes,  \* cfg.MaxRequestBytes
          MaxHeaderBytes,   \* the 108 of a PROXY header
          Clients           \* what clients may send over a whole connection

Bytes == {"x", "cr", "lf", "hello"}
Outcomes == {"hit", "miss", "cgi_hit", "cgi_fail"}   \* of buildValidResponse

ASSUME ConnAssumption == /\ MaxRequestBytes \in Nat \ {0}
                         /\ MaxHeaderBytes \in Nat \ {0}
                         /\ Clients \subseteq [script : Seq(Bytes), header : Seq(Field)]

VARIABLES
    tls,        \* mode.tls
    proxied,    \* cfg.ProxyProtocol and the peer is a trusted proxy
    script,     \* the bytes this client would send
    header,     \* the fields its first line has when it is a line of text
    toSend,     \* those of them that it has not sent yet
    fin,        \* the client's end: "open", "eof" or "reset"
    net,        \* bytes received by the kernel and not read
    buf,        \* the bufio.Reader over the connection
    tbuf,       \* the bufio.Reader over the TLS connection
    pc,         \* where serveConn is
    line,       \* the bytes readLine has collected
    consumed,   \* history: the bytes taken from the readers, in order
    preamble,   \* history: how many of them precede the request line
    armed,      \* a read deadline is set
    expired,    \* it has passed
    clientIP,   \* whose address is logged: "peer" or "header"
    answer,     \* what is written: "none", "invalid" or an outcome
    access,     \* entries in the access log
    errors      \* entries in the error log

vars == <<tls, proxied, script, header, toSend, fin, net, buf, tbuf, pc, line,
          consumed, preamble, armed, expired, clientIP, answer, access, errors>>
configVars == <<tls, proxied, script, header>>
peerVars   == <<toSend, fin>>
logVars    == <<access, errors>>

ConnPC  == {"start", "header", "handshake", "ready", "request", "discard",
            "respond", "write", "close", "closed"}
Reading == {"header", "handshake", "request", "discard"}

Init == /\ tls \in BOOLEAN /\ proxied \in BOOLEAN
        /\ \E c \in Clients : script = c.script /\ header = c.header
        /\ toSend = script /\ fin = "open"
        /\ net = <<>> /\ buf = <<>> /\ tbuf = <<>>
        /\ pc = "start" /\ line = <<>> /\ consumed = <<>> /\ preamble = 0
        /\ armed = FALSE /\ expired = FALSE
        /\ clientIP = "peer" /\ answer = "none" /\ access = 0 /\ errors = 0
-----------------------------------------------------------------------------
(* The client and the clock.                                               *)

Send == /\ pc # "closed" /\ fin = "open" /\ toSend # <<>>
        /\ net' = Append(net, Head(toSend))
        /\ toSend' = Tail(toSend)
        /\ UNCHANGED <<configVars, fin, buf, tbuf, pc, line, consumed, preamble,
                       armed, expired, clientIP, answer, logVars>>

HangUp == /\ pc # "closed" /\ fin = "open"
          /\ fin' \in {"eof", "reset"}
          /\ UNCHANGED <<configVars, toSend, net, buf, tbuf, pc, line, consumed,
                         preamble, armed, expired, clientIP, answer, logVars>>

Expire == /\ pc \in Reading /\ armed /\ ~expired
          /\ expired' = TRUE
          /\ UNCHANGED <<configVars, peerVars, net, buf, tbuf, pc, line, consumed,
                         preamble, armed, clientIP, answer, logVars>>
-----------------------------------------------------------------------------
(* Reading.  A bufio.Reader goes to the kernel only when it is empty, and  *)
(* the kernel read looks at the deadline before it looks for data.         *)

\* Once TLS is up, requests are read through the second reader.
OverTLS == tls /\ pc \in {"request", "discard"}
Reader  == IF OverTLS THEN tbuf ELSE buf
Drained == buf = <<>> /\ tbuf = <<>>

Fill == /\ pc \in Reading /\ Drained /\ ~expired /\ net # <<>>
        /\ net' = <<>>
        /\ buf' = IF OverTLS THEN buf ELSE net
        /\ tbuf' = IF OverTLS THEN net ELSE tbuf
        /\ UNCHANGED <<configVars, peerVars, pc, line, consumed, preamble, armed,
                       expired, clientIP, answer, logVars>>

\* bufferedConn.Read hands TLS what the first reader holds already.
FillFromFirst == /\ OverTLS /\ tbuf = <<>> /\ buf # <<>>
                 /\ tbuf' = buf
                 /\ buf' = <<>>
                 /\ UNCHANGED <<configVars, peerVars, net, pc, line, consumed,
                                preamble, armed, expired, clientIP, answer, logVars>>

\* ReadByte takes b from the reader in use.
TakeByte(b) ==
    /\ Reader # <<>>
    /\ b = Head(Reader)
    /\ consumed' = Append(consumed, b)
    /\ buf' = IF OverTLS THEN buf ELSE Tail(buf)
    /\ tbuf' = IF OverTLS THEN Tail(tbuf) ELSE tbuf

\* The errors a read ends with; shouldSilentlyClose is true of the first two.
TimedOut == Drained /\ expired
AtEOF    == Drained /\ ~expired /\ net = <<>> /\ fin = "eof"
Broken   == Drained /\ ~expired /\ net = <<>> /\ fin = "reset"
-----------------------------------------------------------------------------
(* prepareConn.                                                            *)

\* trimLineEnding.
Content(l) == LET n == Len(l)
                  m == IF n > 0 /\ l[n] = "lf" THEN n - 1 ELSE n
              IN  SubSeq(l, 1, IF m > 0 /\ l[m] = "cr" THEN m - 1 ELSE m)

EndsCRLF(l) == Len(l) >= 2 /\ l[Len(l) - 1] = "cr" /\ l[Len(l)] = "lf"
Clean(l)    == \A i \in DOMAIN Content(l) : Content(l)[i] = "x"

\* A line of other bytes than text has no field that parseProxyLine accepts.
ValidHeader(l) == /\ EndsCRLF(l) /\ Content(l) # <<>> /\ Clean(l)
                  /\ parseProxyLine(header) # {}

\* parseRequest, as far as these byte classes go.
ValidRequest(l) == Clean(l) /\ (tls => EndsCRLF(l))

\* TLS listeners, and plain ones behind a proxy, set a read deadline first.
Prepare == /\ pc = "start"
           /\ armed' = (tls \/ proxied)
           /\ pc' = IF proxied THEN "header" ELSE IF tls THEN "handshake" ELSE "ready"
           /\ UNCHANGED <<configVars, peerVars, net, buf, tbuf, line, consumed,
                          preamble, expired, clientIP, answer, logVars>>

HeaderByte_ ==      \* the announced address is not passed on
    /\ pc = "header"
    /\ \E b \in Bytes :
        /\ TakeByte(b)
        /\ IF b # "lf" THEN line' = Append(line, b) /\ UNCHANGED <<pc, preamble>>
           ELSE /\ pc' = IF tls THEN "handshake" ELSE "ready"
                /\ preamble' = Len(consumed')
                /\ line' = <<>>
    /\ UNCHANGED <<configVars, peerVars, net, armed, expired, clientIP, answer,
                   logVars>>

\* A header byte: the line goes on, is too long, or is complete; a complete
\* one names the client or ends the connection.  TLS sets its deadline anew.
HeaderByte ==
    /\ pc = "header"
    /\ \E b \in Bytes :
        /\ TakeByte(b)
        /\ \/ /\ Len(line) >= MaxHeaderBytes + 2
              /\ pc' = "close" /\ errors' = errors + 1
              /\ UNCHANGED <<line, clientIP, preamble, expired>>
           \/ /\ Len(line) < MaxHeaderBytes + 2 /\ b # "lf"
              /\ line' = Append(line, b)
              /\ UNCHANGED <<pc, errors, clientIP, preamble, expired>>
           \/ /\ Len(line) < MaxHeaderBytes + 2 /\ b = "lf"
              /\ IF ValidHeader(Append(line, b))
                 THEN /\ pc' = IF tls THEN "handshake" ELSE "ready"
                      /\ clientIP' = "header"
                      /\ preamble' = Len(consumed')
                      /\ expired' = (expired /\ ~tls)
                      /\ line' = <<>>
                      /\ UNCHANGED errors
                 ELSE /\ pc' = "close" /\ errors' = errors + 1
                      /\ UNCHANGED <<line, clientIP, preamble, expired>>
    /\ UNCHANGED <<configVars, peerVars, net, armed, answer, access>>

HeaderError ==
    /\ pc = "header"
    /\ TimedOut \/ AtEOF \/ Broken
    /\ errors' = IF Broken THEN errors + 1 ELSE errors
    /\ pc' = "close"
    /\ UNCHANGED <<configVars, peerVars, net, buf, tbuf, line, consumed, preamble,
                   armed, expired, clientIP, answer, access>>

Handshake_ ==       \* tls.Server(conn): what buf holds is not handed on
    /\ pc = "handshake"
    /\ buf # <<>> /\ Head(buf) = "hello"
    /\ consumed' = Append(consumed, "hello")
    /\ buf' = <<>> /\ UNCHANGED tbuf
    /\ preamble' = Len(consumed')
    /\ armed' = FALSE /\ expired' = FALSE
    /\ pc' = "ready"
    /\ UNCHANGED <<configVars, peerVars, net, line, clientIP, answer, logVars>>

\* The handshake succeeds and its deadline is cleared.
Handshake == /\ pc = "handshake"
             /\ TakeByte("hello")
             /\ preamble' = Len(consumed')
             /\ armed' = FALSE /\ expired' = FALSE
             /\ pc' = "ready"
             /\ UNCHANGED <<configVars, peerVars, net, line, clientIP, answer,
                            logVars>>

\* The handshake fails: no hello, a timeout, the end of the stream.
HandshakeError ==
    /\ pc = "handshake"
    /\ \/ \E b \in Bytes \ {"hello"} : TakeByte(b)
       \/ (TimedOut \/ AtEOF \/ Broken) /\ UNCHANGED <<buf, tbuf, consumed>>
    /\ errors' = errors + 1
    /\ pc' = "close"
    /\ UNCHANGED <<configVars, peerVars, net, line, preamble, armed, expired,
                   clientIP, answer, access>>
-----------------------------------------------------------------------------
(* serveConn after prepareConn.                                            *)

Ready_ == /\ pc = "ready" /\ pc' = "request"     \* no SetReadDeadline
          /\ UNCHANGED <<configVars, peerVars, net, buf, tbuf, line, consumed,
                         preamble, armed, expired, clientIP, answer, logVars>>

\* The deadline of the request line.
Ready == /\ pc = "ready"
         /\ armed' = TRUE /\ expired' = FALSE
         /\ pc' = "request"
         /\ UNCHANGED <<configVars, peerVars, net, buf, tbuf, line, consumed,
                        preamble, clientIP, answer, logVars>>

\* A byte of the request line.  The byte after the limit is dropped unseen,
\* a line feed included.
RequestByte_ ==     \* the limit is not checked
    /\ pc = "request"
    /\ \E b \in Bytes :
        /\ TakeByte(b)
        /\ line' = Append(line, b)
        /\ \/ b # "lf" /\ UNCHANGED <<pc, answer>>
           \/ /\ b = "lf"
              /\ IF ValidRequest(line')
                 THEN pc' = "respond" /\ UNCHANGED answer
                 ELSE pc' = "write" /\ answer' = "invalid"
    /\ UNCHANGED <<configVars, peerVars, net, preamble, armed, expired, clientIP,
                   logVars>>

RequestByte ==
    /\ pc = "request"
    /\ \E b \in Bytes :
        /\ TakeByte(b)
        /\ \/ /\ Len(line) >= MaxRequestBytes + 2
              /\ pc' = "discard"
              /\ UNCHANGED <<line, answer>>
           \/ /\ Len(line) < MaxRequestBytes + 2 /\ b # "lf"
              /\ line' = Append(line, b)
              /\ UNCHANGED <<pc, answer>>
           \/ /\ Len(line) < MaxRequestBytes + 2 /\ b = "lf"
              /\ line' = Append(line, b)
              /\ IF ValidRequest(line')
                 THEN pc' = "respond" /\ UNCHANGED answer
                 ELSE pc' = "write" /\ answer' = "invalid"
    /\ UNCHANGED <<configVars, peerVars, net, preamble, armed, expired, clientIP,
                   logVars>>

DiscardByte_ ==     \* a discarded line is not answered
    /\ pc = "discard"
    /\ \E b \in Bytes : TakeByte(b) /\ pc' = IF b = "lf" THEN "close" ELSE pc
    /\ UNCHANGED <<configVars, peerVars, net, line, preamble, armed, expired,
                   clientIP, answer, logVars>>

\* discardLine: the rest of an oversized line, up to its line feed.
DiscardByte ==
    /\ pc = "discard"
    /\ \E b \in Bytes :
        /\ TakeByte(b)
        /\ IF b = "lf" THEN pc' = "write" /\ answer' = "invalid"
                       ELSE UNCHANGED <<pc, answer>>
    /\ UNCHANGED <<configVars, peerVars, net, line, preamble, armed, expired,
                   clientIP, logVars>>

\* A read error in either: the client that stopped or left gets no answer,
\* any other error is answered as an invalid request.
ReadError ==
    /\ pc \in {"request", "discard"}
    /\ \/ (TimedOut \/ AtEOF) /\ pc' = "close" /\ UNCHANGED answer
       \/ Broken /\ pc' = "write" /\ answer' = "invalid"
    /\ UNCHANGED <<configVars, peerVars, net, buf, tbuf, line, consumed, preamble,
                   armed, expired, clientIP, logVars>>

\* buildValidResponse.
Respond == /\ pc = "respond"
           /\ answer' \in Outcomes
           /\ pc' = "write"
           /\ UNCHANGED <<configVars, peerVars, net, buf, tbuf, line, consumed,
                          preamble, armed, expired, clientIP, logVars>>

Write_ ==           \* no access entry when the write fails
    /\ pc = "write"
    /\ \/ access' = access + 1 /\ UNCHANGED errors
       \/ errors' = errors + 1 /\ UNCHANGED access
    /\ pc' = "close"
    /\ UNCHANGED <<configVars, peerVars, net, buf, tbuf, line, consumed, preamble,
                   armed, expired, clientIP, answer>>

\* writeAndLog: the write may fail or time out, and is logged either way.
Write == /\ pc = "write"
         /\ errors' \in {errors, errors + 1}
         /\ access' = access + 1
         /\ pc' = "close"
         /\ UNCHANGED <<configVars, peerVars, net, buf, tbuf, line, consumed,
                        preamble, armed, expired, clientIP, answer>>

\* The deferred Close.
Close == /\ pc = "close"
         /\ pc' = "closed"
         /\ UNCHANGED <<configVars, peerVars, net, buf, tbuf, line, consumed,
                        preamble, armed, expired, clientIP, answer, logVars>>

Closed == pc = "closed" /\ UNCHANGED vars
-----------------------------------------------------------------------------
ServerStep == \/ Prepare \/ Fill \/ FillFromFirst \/ HeaderByte \/ HeaderError
              \/ Handshake \/ HandshakeError \/ Ready \/ RequestByte
              \/ DiscardByte \/ ReadError \/ Respond \/ Write \/ Close

Next == Send \/ HangUp \/ Expire \/ ServerStep \/ Closed

Spec == Init /\ [][Next]_vars

\* The goroutine runs, a deadline that is set passes, buildValidResponse and
\* the write (which has a deadline) return; the client owes nothing.
FairSpec == Spec /\ WF_vars(ServerStep) /\ WF_vars(Expire)
-----------------------------------------------------------------------------
TypeOK == /\ tls \in BOOLEAN /\ proxied \in BOOLEAN
          /\ script \in Seq(Bytes) /\ header \in Seq(Field) /\ toSend \in Seq(Bytes)
          /\ fin \in {"open", "eof", "reset"}
          /\ net \in Seq(Bytes) /\ buf \in Seq(Bytes) /\ tbuf \in Seq(Bytes)
          /\ pc \in ConnPC
          /\ line \in Seq(Bytes) /\ Len(line) <= MaxRequestBytes + MaxHeaderBytes + 2
          /\ consumed \in Seq(Bytes) /\ preamble \in 0..Len(consumed)
          /\ armed \in BOOLEAN /\ expired \in BOOLEAN
          /\ clientIP \in {"peer", "header"}
          /\ answer \in {"none", "invalid"} \cup Outcomes
          /\ access \in Nat /\ errors \in Nat

\* No byte is lost, repeated or reordered between the kernel, the reader that
\* took the PROXY header, and the TLS connection that is stacked upon it.
NoByteLost == consumed \o tbuf \o buf \o net \o toSend = script

ReachedRequest == line # <<>> /\ (tls \/ proxied => preamble > 0)
Received == SubSeq(consumed, preamble + 1, Len(consumed))

\* The request that is answered with content is what the client sent between
\* its preamble and the first line feed: all of it, nothing of the header, a
\* valid line within the limit.
AnsweredLineIsWhole ==
    answer \in Outcomes => /\ Received = line
                           /\ Len(line) <= MaxRequestBytes + 2
                           /\ ValidRequest(line)
                           /\ \A i \in DOMAIN line : line[i] = "lf" => i = Len(line)

\* The access log names the client the proxy announced, and only a client
\* behind a trusted proxy can be named by a header.
LoggedForClient == access > 0 => (clientIP = "header" <=> proxied)

\* Whom a header brings into the logs, or to an answer, is a client with a
\* public address: none of the blocks set aside for other uses holds it, not
\* even written as an IPv6 address that stands for an IPv4 one.
HeaderNamesPublicClient ==
    clientIP = "header" \/ (proxied /\ answer # "none") => Public(header[3].ip)

\* A connection that reaches its request and is closed without an answer had
\* sent no complete line: the line feed of a line one byte too long, which
\* readLine swallows, is the only one that goes without.
SilenceMeansNoLine ==
    ReachedRequest /\ pc = "closed" /\ answer = "none"
        => \A i \in DOMAIN Received : Received[i] = "lf" => i = MaxRequestBytes + 3

\* An oversized request is answered as invalid once its line is complete.
OversizedLineIsAnswered ==
    pc = "closed" /\ answer = "none" /\ ~proxied /\ ~tls
        => \A i \in DOMAIN Received : Received[i] # "lf"

\* What the live scripts send through a trusted proxy is answered, by a valid
\* response or by the invalid body, once it has all been sent in time over a
\* connection that stays open.
LiveProbeIsAnswered ==
    pc = "closed" /\ proxied /\ ~tls /\ toSend = <<>> /\ fin = "open" /\ ~expired
        => answer # "none"

\* Every connection ends, whatever its client does.
EveryConnEnds == <>(pc = "closed")

\* The promise to client and access log, in terms of this module's state.
Written == pc \in {"close", "closed"} /\ answer # "none"
Promise == INSTANCE Exchange
             WITH Answers <- {"invalid"} \cup Outcomes,
                  stage   <- IF pc = "closed" THEN "closed"
                             ELSE IF Written THEN "answered" ELSE "open",
                  answer  <- IF Written THEN answer ELSE "none",
                  entries <- access
ImplementsExchange == Promise!Spec
=============================================================================
