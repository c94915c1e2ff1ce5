----------------------------- MODULE ConnProofs -----------------------------
(***************************************************************************)
(* Proofs about Conn for any limits and any clients: that a connection     *)
(* keeps the promise of Exchange, whom the log names, that no byte is lost *)
(* and which line is answered.                                             *)
(***************************************************************************)
EXTENDS Conn, ProxyLineProofs

USE DEF configVars, peerVars, logVars

\* The answer is settled before it is written, and written and logged once.
AnswerInv ==
    /\ pc \in ConnPC
    /\ answer \in {"none", "invalid"} \cup Outcomes
    /\ access = IF Written THEN 1 ELSE 0
    /\ answer # "none" => pc \in {"write", "close", "closed"}
    /\ pc = "write" => answer # "none"

\* The header's address is used from the end of the header on.
ClientInv ==
    /\ pc \in {"start", "header"} => clientIP = "peer"
    /\ pc = "header" => proxied
    /\ pc \in ConnPC \ {"start", "header", "close", "closed"}
          => (clientIP = "header" <=> proxied)
    /\ answer # "none" => (clientIP = "header" <=> proxied)

\* The header that is used is one that parseProxyLine accepts.
HeaderInv == header \in Seq(Field) /\ (clientIP = "header" => parseProxyLine(header) # {})

IInv == AnswerInv /\ ClientInv /\ HeaderInv

\* IInv is preserved by every step.
LEMMA ConnInvStep == IInv /\ [Next]_vars => IInv'
<1> SUFFICES ASSUME IInv, [Next]_vars PROVE IInv'
  OBVIOUS
<1> USE DEF IInv, AnswerInv, ClientInv, HeaderInv, Written, ConnPC, Reading, Outcomes, OverTLS
<1>1. CASE Send            BY <1>1 DEF Send
<1>2. CASE HangUp          BY <1>2 DEF HangUp
<1>3. CASE Expire          BY <1>3 DEF Expire
<1>4. CASE Prepare         BY <1>4 DEF Prepare
<1>5. CASE Fill            BY <1>5 DEF Fill
<1>6. CASE FillFromFirst   BY <1>6 DEF FillFromFirst
<1>7. CASE HeaderByte
  <2>1. pc = "header" /\ UNCHANGED <<answer, access, proxied, header>>
    BY <1>7 DEF HeaderByte
  <2>2. \/ pc' \in {"header", "close"} /\ UNCHANGED clientIP
        \/ /\ pc' \in {"handshake", "ready"} /\ clientIP' = "header"
           /\ parseProxyLine(header) # {}
    BY <1>7 DEF HeaderByte, ValidHeader
  <2> QED  BY <2>1, <2>2
<1>8. CASE HeaderError     BY <1>8 DEF HeaderError
<1>9. CASE Handshake       BY <1>9 DEF Handshake
<1>10. CASE HandshakeError BY <1>10 DEF HandshakeError
<1>11. CASE Ready          BY <1>11 DEF Ready
<1>12. CASE RequestByte    BY <1>12 DEF RequestByte
<1>13. CASE DiscardByte    BY <1>13 DEF DiscardByte
<1>14. CASE ReadError      BY <1>14 DEF ReadError
<1>15. CASE Respond        BY <1>15 DEF Respond
<1>16. CASE Write          BY <1>16 DEF Write
<1>17. CASE Close          BY <1>17 DEF Close
<1>18. CASE UNCHANGED vars BY <1>18 DEF vars
<1> QED  BY <1>1, <1>2, <1>3, <1>4, <1>5, <1>6, <1>7, <1>8, <1>9, <1>10, <1>11,
            <1>12, <1>13, <1>14, <1>15, <1>16, <1>17, <1>18
         DEF Next, ServerStep, Closed

\* IInv holds in every state.
THEOREM ConnInductive == Spec => []IInv
<1>1. Init => IInv
  <2> SUFFICES ASSUME Init PROVE IInv
    OBVIOUS
  <2>1. header \in Seq(Field)
    <3>1. PICK c \in Clients : header = c.header  BY DEF Init
    <3>2. c \in [script : Seq(Bytes), header : Seq(Field)]  BY ConnAssumption
    <3> QED  BY <3>1, <3>2
  <2> QED  BY <2>1 DEF Init, IInv, AnswerInv, ClientInv, HeaderInv, Written, ConnPC, Outcomes
<1> QED  BY <1>1, ConnInvStep, PTL DEF Spec

\* Access entries name the client that the proxy announced.
THEOREM LoggedAddress == Spec => []LoggedForClient
<1>1. IInv => LoggedForClient
  BY DEF IInv, AnswerInv, ClientInv, LoggedForClient, Written
<1> QED  BY <1>1, ConnInductive, PTL

\* The client that a header brings into the logs or to an answer has a public
\* address, whatever the header says.
THEOREM HeaderClientIsPublic == Spec => []HeaderNamesPublicClient
<1>1. IInv => HeaderNamesPublicClient
  <2> SUFFICES ASSUME IInv, clientIP = "header" \/ (proxied /\ answer # "none")
               PROVE  Public(header[3].ip)
    BY DEF HeaderNamesPublicClient
  <2>1. header \in Seq(Field) /\ parseProxyLine(header) # {}
    BY DEF IInv, ClientInv, HeaderInv
  <2> QED  BY <2>1, HeaderIsPublic
<1> QED  BY <1>1, ConnInductive, PTL

\* A connection implements the safety part of Exchange: at most one answer,
\* one access entry for it and none without, nothing after the close.
THEOREM KeepsPromise == Spec => Promise!Init /\ [][Promise!Next]_Promise!exchangeVars
<1>1. Init => Promise!Init
  BY DEF Init, Promise!Init, Written
<1>2. IInv /\ IInv' /\ [Next]_vars => [Promise!Next]_Promise!exchangeVars
  <2> SUFFICES ASSUME IInv, IInv', [Next]_vars
               PROVE  [Promise!Next]_Promise!exchangeVars
    OBVIOUS
  <2> USE DEF IInv, AnswerInv, Written, ConnPC, Outcomes, Promise!exchangeVars,
              Promise!Next, Promise!Answer, Promise!HangUp
  <2>1. CASE Write  BY <2>1 DEF Write
  <2>2. CASE Close  BY <2>2 DEF Close
  <2>3. CASE pc # "write" /\ pc # "close" /\ pc # "closed" /\ ~Written'
    BY <2>3
  <2>4. CASE UNCHANGED <<pc, answer, access>>  BY <2>4
  <2>5. \/ Write \/ Close \/ UNCHANGED <<pc, answer, access>>
        \/ pc # "write" /\ pc # "close" /\ pc # "closed" /\ ~Written' /\ pc' # "closed"
    BY DEF Next, ServerStep, Send, HangUp, Expire, Prepare, Fill, FillFromFirst,
           HeaderByte, HeaderError, Handshake, HandshakeError, Ready, RequestByte,
           DiscardByte, ReadError, Respond, Closed, vars, Reading, OverTLS
  <2> QED  BY <2>1, <2>2, <2>3, <2>4, <2>5
<1> QED  BY <1>1, <1>2, ConnInductive, PTL DEF Spec
-----------------------------------------------------------------------------
(* No byte is lost between the readers.                                    *)

\* Moving the head of one sequence to the end of the one before it keeps
\* their concatenation.
LEMMA MoveHead ==
    ASSUME NEW s \in Seq(Bytes), NEW t \in Seq(Bytes), t # <<>>
    PROVE  /\ Append(s, Head(t)) \o Tail(t) = s \o t
           /\ Append(s, Head(t)) \in Seq(Bytes) /\ Tail(t) \in Seq(Bytes)
<1>1. Head(t) \in Bytes /\ Tail(t) \in Seq(Bytes) /\ t = <<Head(t)>> \o Tail(t)
  BY HeadTailProperties
<1>2. Append(s, Head(t)) = s \o <<Head(t)>>  BY <1>1, AppendIsConcat
<1>3. <<Head(t)>> \in Seq(Bytes)  BY <1>1
<1>4. (s \o <<Head(t)>>) \o Tail(t) = s \o (<<Head(t)>> \o Tail(t))
  BY <1>1, <1>3, ConcatAssociative
<1> QED  BY <1>1, <1>2, <1>4, AppendProperties

Queues == /\ consumed \in Seq(Bytes) /\ tbuf \in Seq(Bytes) /\ buf \in Seq(Bytes)
          /\ net \in Seq(Bytes) /\ toSend \in Seq(Bytes)

\* The second reader is empty until the request is read over TLS.
ByteInv == /\ Queues
           /\ ~tls \/ pc \in {"start", "header", "handshake", "ready"} => tbuf = <<>>
           /\ NoByteLost

\* Taking a byte from the reader in use keeps every byte in its order.
LEMMA TakeKeepsBytes ==
    ASSUME ByteInv, NEW b, TakeByte(b), pc \in Reading,
           UNCHANGED <<net, toSend, script, tls>>
    PROVE  Queues' /\ NoByteLost' /\ (tbuf = <<>> => tbuf' = <<>>)
<1> USE DEF ByteInv, Queues, NoByteLost, TakeByte, Reader
<1>1. CASE OverTLS
  <2>1. tbuf # <<>> /\ consumed' = Append(consumed, Head(tbuf)) /\ tbuf' = Tail(tbuf)
        /\ UNCHANGED buf
    BY <1>1
  <2>2. consumed \in Seq(Bytes) /\ tbuf \in Seq(Bytes)
    OBVIOUS
  <2>3. consumed' \o tbuf' = consumed \o tbuf /\ consumed' \in Seq(Bytes) /\ tbuf' \in Seq(Bytes)
    <3> HIDE DEF ByteInv
    <3> QED  BY <2>1, <2>2, MoveHead
  <2> QED  BY <2>1, <2>3
<1>2. CASE ~OverTLS
  <2>1. tbuf = <<>>  BY <1>2 DEF OverTLS, Reading
  <2>2. buf # <<>> /\ consumed' = Append(consumed, Head(buf)) /\ buf' = Tail(buf)
        /\ UNCHANGED tbuf
    BY <1>2
  <2>3. consumed' \o buf' = consumed \o buf /\ consumed' \in Seq(Bytes) /\ buf' \in Seq(Bytes)
    BY <2>2, MoveHead
  <2>4. consumed \o tbuf = consumed /\ consumed' \o tbuf' = consumed'
    BY <2>1, <2>2, <2>3, ConcatEmptySeq
  <2> QED  BY <2>1, <2>2, <2>3, <2>4
<1> QED  BY <1>1, <1>2

\* ByteInv is preserved by every step.
LEMMA ByteInvStep == ByteInv /\ [Next]_vars => ByteInv'
<1> SUFFICES ASSUME ByteInv, [Next]_vars PROVE ByteInv'
  OBVIOUS
<1>1. CASE Send
  <2>1. toSend # <<>> /\ net' = Append(net, Head(toSend)) /\ toSend' = Tail(toSend)
    BY <1>1 DEF Send
  <2>2. net' \o toSend' = net \o toSend /\ net' \in Seq(Bytes) /\ toSend' \in Seq(Bytes)
    BY <2>1, MoveHead DEF ByteInv, Queues
  <2>3. UNCHANGED <<consumed, tbuf, buf, pc, tls, script>>  BY <1>1 DEF Send
  <2> DEFINE front == consumed \o tbuf \o buf
  <2>4. front \in Seq(Bytes)  BY ConcatProperties DEF ByteInv, Queues
  <2>5. front \o net \o toSend = front \o (net \o toSend)
    <3>1. net \in Seq(Bytes) /\ toSend \in Seq(Bytes)  BY DEF ByteInv, Queues
    <3> HIDE DEF front
    <3> QED  BY <2>4, <3>1, ConcatAssociative
  <2>6. front \o net' \o toSend' = front \o (net' \o toSend')
    <3>1. net' \in Seq(Bytes) /\ toSend' \in Seq(Bytes)  BY <2>2
    <3> HIDE DEF front
    <3> QED  BY <2>4, <3>1, ConcatAssociative
  <2> QED  BY <2>2, <2>3, <2>5, <2>6 DEF ByteInv, Queues, NoByteLost
<1>2. CASE Fill
  <2>1. UNCHANGED <<consumed, toSend, pc, tls, script>>  BY <1>2 DEF Fill
  <2>2. /\ buf = <<>> /\ tbuf = <<>> /\ net' = <<>>
        /\ \/ buf' = <<>> /\ tbuf' = net /\ tls /\ pc \in {"request", "discard"}
           \/ buf' = net /\ tbuf' = <<>>
    BY <1>2 DEF Fill, Drained, OverTLS
  <2>3. \A s \in Seq(Bytes) : s \o <<>> = s  BY ConcatEmptySeq
  <2>4. consumed \o net \in Seq(Bytes)  BY ConcatProperties DEF ByteInv, Queues
  <2>5. consumed' \o tbuf' \o buf' \o net' = consumed \o net
    BY <2>1, <2>2, <2>3, <2>4 DEF ByteInv, Queues
  <2>6. consumed \o tbuf \o buf \o net = consumed \o net
    BY <2>2, <2>3 DEF ByteInv, Queues
  <2>7. NoByteLost'  BY <2>1, <2>5, <2>6 DEF ByteInv, NoByteLost
  <2> QED  BY <2>1, <2>2, <2>7 DEF ByteInv, Queues
<1>3. CASE FillFromFirst
  <2>1. /\ UNCHANGED <<consumed, net, toSend, pc, tls, script>>
        /\ tbuf = <<>> /\ tbuf' = buf /\ buf' = <<>>
        /\ tls /\ pc \in {"request", "discard"}
    BY <1>3 DEF FillFromFirst, OverTLS
  <2>2. \A s \in Seq(Bytes) : s \o <<>> = s  BY ConcatEmptySeq
  <2>3. consumed \o buf \in Seq(Bytes)  BY ConcatProperties DEF ByteInv, Queues
  <2>4. consumed' \o tbuf' \o buf' = consumed \o tbuf \o buf
    BY <2>1, <2>2, <2>3 DEF ByteInv, Queues
  <2> QED  BY <2>1, <2>4 DEF ByteInv, Queues, NoByteLost
<1>4. CASE HeaderByte \/ Handshake \/ RequestByte \/ DiscardByte
           \/ (HandshakeError /\ \E b \in Bytes : TakeByte(b))
  <2>1. PICK b \in Bytes : TakeByte(b)
    BY <1>4 DEF HeaderByte, Handshake, RequestByte, DiscardByte, Bytes
  <2>2. pc \in Reading /\ UNCHANGED <<net, toSend, script, tls>>
    BY <1>4 DEF HeaderByte, Handshake, HandshakeError, RequestByte, DiscardByte,
                Reading, configVars, peerVars
  <2>3. tls /\ tbuf # <<>> => pc' \in {"request", "discard", "respond", "write", "close"}
    BY <1>4 DEF ByteInv, HeaderByte, Handshake, HandshakeError, RequestByte, DiscardByte
  <2> QED  BY <2>1, <2>2, <2>3, TakeKeepsBytes DEF ByteInv
<1>5. CASE UNCHANGED <<consumed, tbuf, buf, net, toSend, script, tls>>
           /\ (tls /\ pc' \in {"start", "header", "handshake", "ready"}
                  => pc \in {"start", "header", "handshake", "ready"})
  BY <1>5 DEF ByteInv, Queues, NoByteLost
<1>6. ~(Send \/ Fill \/ FillFromFirst \/ HeaderByte \/ Handshake \/ RequestByte
        \/ DiscardByte \/ (HandshakeError /\ \E b \in Bytes : TakeByte(b)))
      => /\ UNCHANGED <<consumed, tbuf, buf, net, toSend, script, tls>>
         /\ tls /\ pc' \in {"start", "header", "handshake", "ready"}
               => pc \in {"start", "header", "handshake", "ready"}
  BY DEF Next, ServerStep, HangUp, Expire, Prepare, HeaderError, HandshakeError,
         Ready, ReadError, Respond, Write, Close, Closed, vars, configVars, peerVars
<1> QED  BY <1>1, <1>2, <1>3, <1>4, <1>5, <1>6

\* ByteInv holds at the start.
LEMMA ByteInit == Init => ByteInv
<1> SUFFICES ASSUME Init PROVE ByteInv
  OBVIOUS
<1>1. script \in Seq(Bytes)
  <2>1. PICK c \in Clients : script = c.script  BY DEF Init
  <2>2. c \in [script : Seq(Bytes), header : Seq(Field)]  BY ConnAssumption
  <2> QED  BY <2>1, <2>2
<1>2. <<>> \in Seq(Bytes) /\ <<>> \o <<>> = <<>> /\ <<>> \o script = script
  BY <1>1, EmptySeq, ConcatEmptySeq
<1> QED  BY <1>1, <1>2 DEF Init, ByteInv, Queues, NoByteLost

\* Every byte the client sent is in the kernel, in one of the readers or has
\* been consumed, once and in its order.
THEOREM BytesKept == Spec => []NoByteLost
BY ByteInit, ByteInvStep, PTL DEF Spec, ByteInv
-----------------------------------------------------------------------------
(* Types, and the line that is answered.                                   *)

\* What follows position p grows with the sequence.
LEMMA SubSeqAppend ==
    ASSUME NEW S, NEW c \in Seq(S), NEW p \in 0..Len(c), NEW b \in S
    PROVE  /\ SubSeq(c, p + 1, Len(c)) \in Seq(S)
           /\ SubSeq(Append(c, b), p + 1, Len(c) + 1) = Append(SubSeq(c, p + 1, Len(c)), b)
<1> DEFINE d == Append(c, b)
           s == SubSeq(c, p + 1, Len(c))
           t == SubSeq(d, p + 1, Len(c) + 1)
<1>1. Len(c) \in Nat /\ \A i \in (p + 1)..Len(c) : c[i] \in S
  BY ElementOfSeq, LenProperties
<1>2. /\ d \in Seq(S) /\ Len(d) = Len(c) + 1 /\ d[Len(c) + 1] = b
      /\ \A i \in 1..Len(c) : d[i] = c[i]
  BY AppendProperties
<1>3. \A i \in (p + 1)..(Len(c) + 1) : d[i] \in S
  BY <1>2, ElementOfSeq
<1>4. /\ s \in Seq(S) /\ Len(s) = Len(c) - p
      /\ \A i \in 1..(Len(c) - p) : s[i] = c[p + i]
  BY <1>1, SubSeqProperties
<1>5. /\ t \in Seq(S) /\ Len(t) = Len(c) - p + 1
      /\ \A i \in 1..(Len(c) - p + 1) : t[i] = d[p + i]
  <2> HIDE DEF d
  <2> QED  BY <1>1, <1>3, SubSeqProperties
<1>6. /\ Append(s, b) \in Seq(S) /\ Len(Append(s, b)) = Len(c) - p + 1
      /\ Append(s, b)[Len(c) - p + 1] = b
      /\ \A i \in 1..(Len(c) - p) : Append(s, b)[i] = s[i]
  <2> HIDE DEF s
  <2> QED  BY <1>4, AppendProperties
<1>7. t = Append(s, b)
  <2> HIDE DEF s, t, d
  <2>1. ASSUME NEW i \in 1..(Len(c) - p + 1) PROVE t[i] = Append(s, b)[i]
    <3>1. t[i] = d[p + i]  BY <1>5
    <3>2. CASE i = Len(c) - p + 1
      <4>1. p + i = Len(c) + 1  BY <1>1, <3>2
      <4> QED  BY <1>2, <1>6, <3>1, <3>2, <4>1
    <3>3. CASE i \in 1..(Len(c) - p)
      <4>1. p + i \in 1..Len(c)  BY <1>1, <3>3
      <4>2. d[p + i] = c[p + i]  BY <1>2, <4>1
      <4>3. s[i] = c[p + i]  BY <1>4, <3>3
      <4>4. Append(s, b)[i] = s[i]  BY <1>6, <3>3
      <4> QED  BY <3>1, <4>2, <4>3, <4>4
    <3>4. Len(c) - p \in Nat /\ (i = Len(c) - p + 1 \/ i \in 1..(Len(c) - p))
      BY <1>1
    <3> QED  BY <3>2, <3>3, <3>4
  <2> QED  BY <2>1, <1>1, <1>5, <1>6, SeqEqual
<1> QED  BY <1>4, <1>7

NoLF(s) == \A i \in 1..Len(s) : s[i] # "lf"
Silent  == \A i \in 1..Len(Received) : Received[i] = "lf" => i = MaxRequestBytes + 3
Whole   == /\ Received = line /\ Len(line) <= MaxRequestBytes + 2 /\ ValidRequest(line)
           /\ \A i \in 1..Len(line) : line[i] = "lf" => i = Len(line)

\* The line and what was received after the preamble go together.
LineInv ==
    /\ line \in Seq(Bytes) /\ preamble \in 0..Len(consumed)
    /\ Len(line) <= MaxRequestBytes + MaxHeaderBytes + 2
    /\ pc \in {"start", "handshake", "ready"} => line = <<>>
    /\ pc \in {"start", "header"} => preamble = 0
    /\ pc = "start" => consumed = <<>>
    /\ pc = "header" => proxied /\ Len(line) <= MaxHeaderBytes + 2
    /\ pc = "ready" => preamble = Len(consumed)
    /\ pc = "request" => Received = line /\ NoLF(line) /\ Len(line) <= MaxRequestBytes + 2
    /\ pc = "discard" => Len(Received) >= MaxRequestBytes + 3 /\ Silent
    /\ pc = "respond" \/ answer \in Outcomes => Whole
    /\ pc \in {"close", "closed"} /\ answer = "none" /\ ReachedRequest => Silent

\* A byte that is taken is received.
LEMMA TakeReceives ==
    ASSUME ByteInv, LineInv, NEW b \in Bytes, consumed' = Append(consumed, b)
    PROVE  /\ Received \in Seq(Bytes) /\ Len(consumed') = Len(consumed) + 1
           /\ preamble' = preamble => Received' = Append(Received, b)
<1>1. consumed \in Seq(Bytes) /\ preamble \in 0..Len(consumed)
  BY DEF ByteInv, Queues, LineInv
<1>2. Len(consumed') = Len(consumed) + 1
  BY <1>1, AppendProperties
<1> QED  BY <1>1, <1>2, SubSeqAppend DEF Received

\* LineInv is preserved by the steps that take a byte.
LEMMA ByteLine ==
    ASSUME ByteInv, LineInv, IInv,
           HeaderByte \/ Handshake \/ HandshakeError \/ RequestByte \/ DiscardByte
    PROVE  LineInv'
<1> USE ConnAssumption DEF Outcomes
<1>1. ASSUME NEW b \in Bytes
      PROVE  /\ Append(line, b) \in Seq(Bytes) /\ Len(Append(line, b)) = Len(line) + 1
             /\ Append(line, b)[Len(line) + 1] = b
             /\ \A i \in 1..Len(line) : Append(line, b)[i] = line[i]
             /\ Len(line) \in Nat
  BY AppendProperties, LenProperties DEF LineInv
<1>2. Len(consumed) \in Nat
  BY DEF ByteInv, Queues
<1>3. CASE HeaderByte
  <2>1. PICK b \in Bytes : consumed' = Append(consumed, b) /\
          \/ pc' = "close" /\ UNCHANGED <<line, preamble>>
          \/ Len(line) < MaxHeaderBytes + 2 /\ line' = Append(line, b) /\ UNCHANGED <<pc, preamble>>
          \/ pc' \in {"handshake", "ready"} /\ preamble' = Len(consumed') /\ line' = <<>>
    BY <1>3 DEF HeaderByte, TakeByte
  <2>2. pc = "header" /\ UNCHANGED <<answer, proxied, tls>> /\ answer = "none"
    BY <1>3 DEF HeaderByte, IInv, AnswerInv
  <2>3. Len(consumed') = Len(consumed) + 1  BY <2>1, TakeReceives
  <2>4. preamble = 0 /\ proxied /\ Len(line) <= MaxHeaderBytes + 2
    BY <2>2 DEF LineInv
  <2>5. CASE pc' = "close" /\ UNCHANGED <<line, preamble>>
    BY <1>2, <2>2, <2>3, <2>4, <2>5 DEF LineInv, ReachedRequest
  <2>6. CASE Len(line) < MaxHeaderBytes + 2 /\ line' = Append(line, b) /\ UNCHANGED <<pc, preamble>>
    BY <1>1, <1>2, <2>2, <2>3, <2>4, <2>6 DEF LineInv
  <2>7. CASE pc' \in {"handshake", "ready"} /\ preamble' = Len(consumed') /\ line' = <<>>
    <3>1. <<>> \in Seq(Bytes) /\ Len(<<>>) = 0  BY EmptySeq
    <3> QED  BY <1>2, <2>2, <2>3, <2>7, <3>1 DEF LineInv
  <2> QED  BY <2>1, <2>5, <2>6, <2>7
<1>4. CASE Handshake
  <2>1. /\ consumed' = Append(consumed, "hello") /\ preamble' = Len(consumed')
        /\ pc = "handshake" /\ pc' = "ready" /\ UNCHANGED <<line, answer>> /\ answer = "none"
    BY <1>4 DEF Handshake, TakeByte, IInv, AnswerInv
  <2>2. Len(consumed') = Len(consumed) + 1  BY <2>1, TakeReceives DEF Bytes
  <2> QED  BY <1>2, <2>1, <2>2 DEF LineInv
<1>5. CASE HandshakeError
  <2>1. /\ pc = "handshake" /\ pc' = "close" /\ UNCHANGED <<line, answer, preamble>>
        /\ line = <<>> /\ answer = "none"
    BY <1>5 DEF HandshakeError, IInv, AnswerInv, LineInv
  <2>2. Len(consumed') \in Nat /\ Len(consumed') >= Len(consumed)
    <3>1. CASE consumed' = consumed  BY <1>2, <3>1
    <3>2. CASE \E b \in Bytes : consumed' = Append(consumed, b)
      BY <1>2, <3>2, TakeReceives
    <3> QED  BY <1>5, <3>1, <3>2 DEF HandshakeError, TakeByte
  <2> QED  BY <1>2, <2>1, <2>2 DEF LineInv, ReachedRequest
<1>6. CASE RequestByte
  <2>1. PICK b \in Bytes : consumed' = Append(consumed, b) /\
          \/ Len(line) >= MaxRequestBytes + 2 /\ pc' = "discard" /\ UNCHANGED <<line, answer>>
          \/ /\ Len(line) < MaxRequestBytes + 2 /\ b # "lf" /\ line' = Append(line, b)
             /\ UNCHANGED <<pc, answer>>
          \/ /\ Len(line) < MaxRequestBytes + 2 /\ b = "lf" /\ line' = Append(line, b)
             /\ \/ ValidRequest(line') /\ pc' = "respond" /\ UNCHANGED answer
                \/ pc' = "write" /\ answer' = "invalid"
    BY <1>6 DEF RequestByte, TakeByte
  <2>2. /\ pc = "request" /\ UNCHANGED <<preamble, tls, proxied>> /\ answer = "none"
        /\ Received = line /\ NoLF(line) /\ Len(line) <= MaxRequestBytes + 2
    BY <1>6 DEF RequestByte, IInv, AnswerInv, LineInv
  <2>3. Received' = Append(line, b) /\ Len(consumed') = Len(consumed) + 1
    BY <2>1, <2>2, TakeReceives
  <2>4. CASE Len(line) >= MaxRequestBytes + 2 /\ pc' = "discard" /\ UNCHANGED <<line, answer>>
    <3>1. Len(line) = MaxRequestBytes + 2  BY <1>1, <2>2, <2>4
    <3>2. Len(Received') = MaxRequestBytes + 3 /\ Silent'
      BY <1>1, <2>2, <2>3, <3>1 DEF Silent, NoLF
    <3> QED  BY <1>1, <1>2, <2>2, <2>3, <2>4, <3>2 DEF LineInv
  <2>5. CASE b # "lf" /\ line' = Append(line, b) /\ UNCHANGED <<pc, answer>>
             /\ Len(line) < MaxRequestBytes + 2
    BY <1>1, <1>2, <2>2, <2>3, <2>5 DEF LineInv, NoLF
  <2>6. CASE b = "lf" /\ line' = Append(line, b) /\ Len(line) < MaxRequestBytes + 2
             /\ \/ ValidRequest(line') /\ pc' = "respond" /\ UNCHANGED answer
                \/ pc' = "write" /\ answer' = "invalid"
    <3>1. ValidRequest(line') => ValidRequest(line)'  BY <2>2 DEF ValidRequest
    <3>2. ValidRequest(line') => Whole'
      BY <1>1, <2>2, <2>3, <2>6, <3>1 DEF Whole, NoLF
    <3> QED  BY <1>1, <1>2, <2>2, <2>3, <2>6, <3>2 DEF LineInv
  <2> QED  BY <2>1, <2>4, <2>5, <2>6
<1>7. CASE DiscardByte
  <2>1. PICK b \in Bytes : consumed' = Append(consumed, b) /\
          \/ b = "lf" /\ pc' = "write" /\ answer' = "invalid"
          \/ b # "lf" /\ UNCHANGED <<pc, answer>>
    BY <1>7 DEF DiscardByte, TakeByte
  <2>2. /\ pc = "discard" /\ UNCHANGED <<line, preamble>> /\ answer = "none"
        /\ Len(Received) >= MaxRequestBytes + 3 /\ Silent
    BY <1>7 DEF DiscardByte, IInv, AnswerInv, LineInv
  <2>3. /\ Received' = Append(Received, b) /\ Received \in Seq(Bytes)
        /\ Len(consumed') = Len(consumed) + 1
    BY <2>1, <2>2, TakeReceives
  <2>4. /\ Len(Received') = Len(Received) + 1 /\ Len(Received) \in Nat
        /\ Received'[Len(Received) + 1] = b
        /\ \A i \in 1..Len(Received) : Received'[i] = Received[i]
    BY <2>3, AppendProperties
  <2>5. b # "lf" => Silent'
    BY <2>2, <2>4 DEF Silent
  <2> QED  BY <1>2, <2>1, <2>2, <2>3, <2>4, <2>5 DEF LineInv
<1> QED  BY <1>3, <1>4, <1>5, <1>6, <1>7

\* LineInv holds in every state.
LEMMA LineInductive == Spec => [](LineInv /\ ByteInv /\ IInv)
<1>1. Init => LineInv
  <2> SUFFICES ASSUME Init PROVE LineInv
    OBVIOUS
  <2>1. <<>> \in Seq(Bytes) /\ Len(<<>>) = 0  BY EmptySeq
  <2> QED  BY <2>1, ConnAssumption DEF Init, LineInv, Outcomes
<1>2. LineInv /\ ByteInv /\ IInv /\ [Next]_vars => LineInv'
  <2> SUFFICES ASSUME LineInv, ByteInv, IInv, [Next]_vars PROVE LineInv'
    OBVIOUS
  <2>1. CASE HeaderByte \/ Handshake \/ HandshakeError \/ RequestByte \/ DiscardByte
    BY <2>1, ByteLine
  <2>2. CASE Prepare
    <3>1. /\ UNCHANGED <<line, consumed, preamble, answer>> /\ answer = "none"
          /\ pc = "start" /\ pc' \in {"header", "handshake", "ready"}
          /\ pc' = "header" => proxied'
      BY <2>2 DEF Prepare, IInv, AnswerInv
    <3>2. line = <<>> /\ Len(line) = 0 /\ Len(consumed) = 0 /\ preamble = 0
      BY <3>1, EmptySeq DEF LineInv
    <3> QED  BY <3>1, <3>2, ConnAssumption DEF LineInv, Outcomes
  <2>3. CASE HeaderError
    <3>1. /\ UNCHANGED <<line, consumed, preamble, answer, tls, proxied>> /\ answer = "none"
          /\ pc = "header" /\ pc' = "close"
      BY <2>3 DEF HeaderError, IInv, AnswerInv
    <3> QED  BY <3>1 DEF LineInv, ReachedRequest, Outcomes
  <2>4. CASE Ready
    <3>1. /\ UNCHANGED <<line, consumed, preamble, answer>> /\ answer = "none"
          /\ pc = "ready" /\ pc' = "request"
      BY <2>4 DEF Ready, IInv, AnswerInv
    <3>2. line = <<>> /\ Len(line) = 0 /\ preamble = Len(consumed) /\ Len(consumed) \in Nat
      BY <3>1, EmptySeq, LenProperties DEF LineInv, ByteInv, Queues
    <3>3. Received' = <<>>
      BY <3>1, <3>2, SubSeqEmpty DEF Received
    <3> QED  BY <3>1, <3>2, <3>3, ConnAssumption DEF LineInv, NoLF, Outcomes
  <2>5. CASE ReadError \/ Respond \/ Write \/ Close
    <3>1. /\ UNCHANGED <<line, consumed, preamble, tls, proxied>>
          /\ \/ /\ pc \in {"request", "discard"} /\ answer = "none"
                /\ \/ pc' = "close" /\ answer' = "none"
                   \/ pc' = "write" /\ answer' = "invalid"
             \/ pc = "respond" /\ pc' = "write" /\ answer' \in Outcomes
             \/ pc \in {"write", "close"} /\ pc' \in {"close", "closed"} /\ UNCHANGED answer
                /\ (pc = "write" => answer # "none")
      BY <2>5 DEF ReadError, Respond, Write, Close, IInv, AnswerInv
    <3>2. Received' = Received /\ (ReachedRequest' <=> ReachedRequest)
          /\ (ValidRequest(line)' <=> ValidRequest(line))
      BY <3>1 DEF Received, ReachedRequest, ValidRequest
    <3>3. pc = "request" => Silent
      BY DEF LineInv, Silent, NoLF
    <3> QED  BY <3>1, <3>2, <3>3 DEF LineInv, Silent, Whole, Outcomes
  <2>6. CASE UNCHANGED <<tls, proxied, pc, line, consumed, preamble, answer>>
    <3>1. Received' = Received /\ (ReachedRequest' <=> ReachedRequest)
          /\ (ValidRequest(line)' <=> ValidRequest(line))
      BY <2>6 DEF Received, ReachedRequest, ValidRequest
    <3> QED  BY <2>6, <3>1 DEF LineInv, Silent, Whole
  <2> QED  BY <2>1, <2>2, <2>3, <2>4, <2>5, <2>6
           DEF Next, ServerStep, Send, HangUp, Expire, Fill, FillFromFirst, Closed, vars
<1>3. Init => ByteInv  BY ByteInit
<1> QED  BY <1>1, <1>2, <1>3, ByteInvStep, ConnInductive, PTL DEF Spec

\* The line that is answered with content is the whole of what the client sent
\* up to its first line feed, and nothing of its header.
THEOREM WholeLine == Spec => []AnsweredLineIsWhole
<1>1. LineInv => AnsweredLineIsWhole
  <2> SUFFICES ASSUME LineInv, answer \in Outcomes PROVE Whole
    BY LenProperties DEF AnsweredLineIsWhole, Whole, LineInv
  <2> QED  BY DEF LineInv
<1> QED  BY <1>1, LineInductive, PTL

\* Who is left without an answer had sent no complete line within the limit.
THEOREM NoSilentLine == Spec => []SilenceMeansNoLine
<1>1. LineInv /\ ByteInv => SilenceMeansNoLine
  <2> SUFFICES ASSUME LineInv, ByteInv, ReachedRequest, pc = "closed", answer = "none"
               PROVE  \A i \in DOMAIN Received : Received[i] = "lf" => i = MaxRequestBytes + 3
    BY DEF SilenceMeansNoLine
  <2>1. Received \in Seq(Bytes)
    <3>1. consumed \in Seq(Bytes) /\ preamble \in 0..Len(consumed)
      BY DEF LineInv, ByteInv, Queues
    <3> QED  BY <3>1, SubSeqAppend DEF Received, Bytes
  <2>2. DOMAIN Received = 1..Len(Received)  BY <2>1, LenProperties
  <2> QED  BY <2>2 DEF LineInv, Silent
<1> QED  BY <1>1, LineInductive, PTL

\* Every reachable state of a connection is correctly typed.
THEOREM ConnTypeCorrect == Spec => []TypeOK
<1> DEFINE ValuesOK == /\ script \in Seq(Bytes) /\ fin \in {"open", "eof", "reset"}
                       /\ clientIP \in {"peer", "header"} /\ errors \in Nat
           TimersOK == /\ tls \in BOOLEAN /\ proxied \in BOOLEAN
                       /\ armed \in BOOLEAN /\ expired \in BOOLEAN
           FlagsOK == ValuesOK /\ TimersOK
<1>1. Init => FlagsOK
  <2> SUFFICES ASSUME Init PROVE FlagsOK
    OBVIOUS
  <2>1. PICK c \in Clients : script = c.script  BY DEF Init
  <2>2. c \in [script : Seq(Bytes), header : Seq(Field)]  BY ConnAssumption
  <2>3. script \in Seq(Bytes)  BY <2>1, <2>2
  <2> QED  BY <2>3 DEF Init
<1>2. FlagsOK /\ [Next]_vars => FlagsOK'
  <2> SUFFICES ASSUME FlagsOK, [Next]_vars PROVE FlagsOK'
    OBVIOUS
  <2> DEFINE Change == /\ UNCHANGED <<tls, proxied, script>>
                       /\ fin' \in {fin, "eof", "reset"}
                       /\ clientIP' \in {clientIP, "header"}
                       /\ errors' \in {errors, errors + 1}
             Timer == /\ \/ armed' = armed \/ armed' = TRUE \/ armed' = FALSE
                         \/ armed' = (tls \/ proxied)
                      /\ \/ expired' = expired \/ expired' = TRUE \/ expired' = FALSE
                         \/ expired' = (expired /\ ~tls)
  <2>0. Change /\ Timer => FlagsOK'
    <3> SUFFICES ASSUME Change, Timer PROVE FlagsOK'
      OBVIOUS
    <3>1. ValuesOK'  OBVIOUS
    <3>2. tls' = tls /\ proxied' = proxied  OBVIOUS
    <3>3. TimersOK'  BY <3>2, Zenon
    <3> QED  BY <3>1, <3>3
  <2> HIDE DEF Change, Timer, FlagsOK
  <2>1. CASE Send
    <3>1. Change  BY <2>1 DEF Change, Send
    <3>2. Timer  BY <2>1, Zenon DEF Timer, Send
    <3> QED  BY <2>0, <3>1, <3>2
  <2>2. CASE HangUp
    <3>1. Change  BY <2>2 DEF Change, HangUp
    <3>2. Timer  BY <2>2, Zenon DEF Timer, HangUp
    <3> QED  BY <2>0, <3>1, <3>2
  <2>3. CASE Expire
    <3>1. Change  BY <2>3 DEF Change, Expire
    <3>2. Timer  BY <2>3, Zenon DEF Timer, Expire
    <3> QED  BY <2>0, <3>1, <3>2
  <2>4. CASE Prepare
    <3>1. Change  BY <2>4 DEF Change, Prepare
    <3>2. Timer  BY <2>4, Zenon DEF Timer, Prepare
    <3> QED  BY <2>0, <3>1, <3>2
  <2>5. CASE Fill
    <3>1. Change  BY <2>5 DEF Change, Fill
    <3>2. Timer  BY <2>5, Zenon DEF Timer, Fill
    <3> QED  BY <2>0, <3>1, <3>2
  <2>6. CASE FillFromFirst
    <3>1. Change  BY <2>6 DEF Change, FillFromFirst
    <3>2. Timer  BY <2>6, Zenon DEF Timer, FillFromFirst
    <3> QED  BY <2>0, <3>1, <3>2
  <2>7. CASE HeaderByte
    <3>1. Change  BY <2>7 DEF Change, HeaderByte
    <3>2. Timer  BY <2>7, Zenon DEF Timer, HeaderByte
    <3> QED  BY <2>0, <3>1, <3>2
  <2>8. CASE HeaderError
    <3>1. Change  BY <2>8 DEF Change, HeaderError
    <3>2. Timer  BY <2>8, Zenon DEF Timer, HeaderError
    <3> QED  BY <2>0, <3>1, <3>2
  <2>9. CASE Handshake
    <3>1. Change  BY <2>9 DEF Change, Handshake
    <3>2. Timer  BY <2>9, Zenon DEF Timer, Handshake
    <3> QED  BY <2>0, <3>1, <3>2
  <2>10. CASE HandshakeError
    <3>1. Change  BY <2>10 DEF Change, HandshakeError
    <3>2. Timer  BY <2>10, Zenon DEF Timer, HandshakeError
    <3> QED  BY <2>0, <3>1, <3>2
  <2>11. CASE Ready
    <3>1. Change  BY <2>11 DEF Change, Ready
    <3>2. Timer  BY <2>11, Zenon DEF Timer, Ready
    <3> QED  BY <2>0, <3>1, <3>2
  <2>12. CASE RequestByte
    <3>1. Change  BY <2>12 DEF Change, RequestByte
    <3>2. Timer  BY <2>12, Zenon DEF Timer, RequestByte
    <3> QED  BY <2>0, <3>1, <3>2
  <2>13. CASE DiscardByte
    <3>1. Change  BY <2>13 DEF Change, DiscardByte
    <3>2. Timer  BY <2>13, Zenon DEF Timer, DiscardByte
    <3> QED  BY <2>0, <3>1, <3>2
  <2>14. CASE ReadError
    <3>1. Change  BY <2>14 DEF Change, ReadError
    <3>2. Timer  BY <2>14, Zenon DEF Timer, ReadError
    <3> QED  BY <2>0, <3>1, <3>2
  <2>15. CASE Respond
    <3>1. Change  BY <2>15 DEF Change, Respond
    <3>2. Timer  BY <2>15, Zenon DEF Timer, Respond
    <3> QED  BY <2>0, <3>1, <3>2
  <2>16. CASE Write
    <3>1. Change  BY <2>16 DEF Change, Write
    <3>2. Timer  BY <2>16, Zenon DEF Timer, Write
    <3> QED  BY <2>0, <3>1, <3>2
  <2>17. CASE Close
    <3>1. Change  BY <2>17 DEF Change, Close
    <3>2. Timer  BY <2>17, Zenon DEF Timer, Close
    <3> QED  BY <2>0, <3>1, <3>2
  <2>18. CASE UNCHANGED vars  BY <2>18 DEF FlagsOK, vars
  <2> QED  BY <2>1, <2>2, <2>3, <2>4, <2>5, <2>6, <2>7, <2>8, <2>9,
              <2>10, <2>11, <2>12, <2>13, <2>14, <2>15, <2>16, <2>17, <2>18
           DEF Next, ServerStep, Closed
<1>3. FlagsOK /\ LineInv /\ ByteInv /\ IInv => TypeOK
  BY DEF TypeOK, LineInv, ByteInv, Queues, IInv, AnswerInv, HeaderInv
<1> QED  BY <1>1, <1>2, <1>3, LineInductive, PTL DEF Spec
-----------------------------------------------------------------------------
(* Every connection ends: no step can be repeated for ever, and whoever    *)
(* waits for the client has a deadline.                                    *)

\* How many stages serveConn still has before it.
Stages == CASE pc = "start" -> 9     [] pc = "header" -> 8  [] pc = "handshake" -> 7
            [] pc = "ready" -> 6     [] pc = "request" -> 5 [] pc = "discard" -> 4
            [] pc = "respond" -> 3   [] pc = "write" -> 2   [] pc = "close" -> 1
            [] OTHER -> 0

\* A byte moves from the client over the kernel and the readers to the code;
\* entering a stage may set a deadline anew, which may pass once.
Queued == 4 * Len(toSend) + 3 * Len(net) + 2 * Len(buf) + Len(tbuf)
Peer   == IF fin = "open" THEN 1 ELSE 0
Clock  == IF expired THEN 0 ELSE 1
Left   == 2 * Stages + Queued + Peer + Clock

\* A reader waits with a deadline set.
Waiting == pc \in Reading => armed

\* What is left is a number.
LEMMA LeftIsNat ==
    ASSUME Queues
    PROVE  /\ Stages \in 0..9 /\ Queued \in Nat /\ Peer \in 0..1 /\ Clock \in 0..1
           /\ Left \in Nat
<1>1. /\ Len(toSend) \in Nat /\ Len(net) \in Nat /\ Len(buf) \in Nat /\ Len(tbuf) \in Nat
  BY LenProperties DEF Queues
<1>2. Stages \in 0..9  BY DEF Stages
<1>3. Queued \in Nat  BY <1>1 DEF Queued
<1>4. Peer \in 0..1 /\ Clock \in 0..1  BY DEF Peer, Clock
<1> QED  BY <1>2, <1>3, <1>4 DEF Left

\* Taking a byte leaves less in the readers.
LEMMA TakeLeavesLess ==
    ASSUME Queues, NEW b, TakeByte(b), UNCHANGED <<net, toSend>>
    PROVE  Queued' < Queued
<1>1. /\ Len(toSend) \in Nat /\ Len(net) \in Nat /\ Len(buf) \in Nat /\ Len(tbuf) \in Nat
  BY LenProperties DEF Queues
<1>2. \/ tbuf # <<>> /\ tbuf' = Tail(tbuf) /\ buf' = buf
      \/ buf # <<>> /\ buf' = Tail(buf) /\ tbuf' = tbuf
  BY DEF TakeByte, Reader
<1>3. CASE tbuf # <<>> /\ tbuf' = Tail(tbuf) /\ buf' = buf
  <2>1. Len(tbuf') = Len(tbuf) - 1  BY <1>3, HeadTailProperties DEF Queues
  <2> QED  BY <1>1, <1>3, <2>1 DEF Queued
<1>4. CASE buf # <<>> /\ buf' = Tail(buf) /\ tbuf' = tbuf
  <2>1. Len(buf') = Len(buf) - 1  BY <1>4, HeadTailProperties DEF Queues
  <2> QED  BY <1>1, <1>4, <2>1 DEF Queued
<1> QED  BY <1>2, <1>3, <1>4

\* Every step that changes anything leaves less to do.
LEMMA StepLeavesLess ==
    ASSUME Queues, Queues', IInv, Next, vars' # vars
    PROVE  Left' \in Nat /\ Left' < Left
<1>1. /\ Stages \in 0..9 /\ Queued \in Nat /\ Peer \in 0..1 /\ Clock \in 0..1
  BY LeftIsNat
<1>2. /\ Stages' \in 0..9 /\ Queued' \in Nat /\ Peer' \in 0..1 /\ Clock' \in 0..1
  <2>1. Stages' \in 0..9  BY DEF Stages
  <2>2. Peer' \in 0..1 /\ Clock' \in 0..1  BY DEF Peer, Clock
  <2>3. /\ Len(toSend') \in Nat /\ Len(net') \in Nat /\ Len(buf') \in Nat
        /\ Len(tbuf') \in Nat
    BY LenProperties DEF Queues
  <2>4. Queued' \in Nat  BY <2>3 DEF Queued
  <2> QED  BY <2>1, <2>2, <2>4
<1>3. Left' \in Nat
  <2>1. ASSUME NEW s \in 0..9, NEW q \in Nat, NEW p \in 0..1, NEW c \in 0..1
        PROVE  2 * s + q + p + c \in Nat
    BY <2>1
  <2>2. Left' = 2 * Stages' + Queued' + Peer' + Clock'  BY DEF Left
  <2> QED  BY <1>2, <2>1, <2>2
<1> SUFFICES Left' < Left
  BY <1>3
<1>4. /\ Len(toSend) \in Nat /\ Len(net) \in Nat /\ Len(buf) \in Nat /\ Len(tbuf) \in Nat
  BY LenProperties DEF Queues
<1>5. Len(<<>>) = 0 /\ (net # <<>> => Len(net) > 0) /\ (buf # <<>> => Len(buf) > 0)
  BY EmptySeq, LenProperties DEF Queues
<1>6. \/ Stages' = Stages /\ Queued' < Queued /\ Peer' = Peer /\ Clock' = Clock
      \/ Stages' < Stages /\ Queued' <= Queued /\ Peer' = Peer
      \/ Stages' = Stages /\ Queued' = Queued /\ Peer' + Clock' < Peer + Clock
      => Left' < Left
  <2>1. ASSUME NEW s \in Int, NEW q \in Int, NEW p \in Int, NEW c \in 0..1,
               NEW t \in Int, NEW r \in Int, NEW o \in Int, NEW d \in 0..1,
               \/ t = s /\ r < q /\ o = p /\ d = c
               \/ t < s /\ r <= q /\ o = p
               \/ t = s /\ r = q /\ o + d < p + c
        PROVE  2 * t + r + o + d < 2 * s + q + p + c
    BY <2>1
  <2>2. /\ Stages \in Int /\ Queued \in Int /\ Peer \in Int /\ Clock \in 0..1
        /\ Stages' \in Int /\ Queued' \in Int /\ Peer' \in Int /\ Clock' \in 0..1
    BY <1>1, <1>2
  <2>3. /\ Left = 2 * Stages + Queued + Peer + Clock
        /\ Left' = 2 * Stages' + Queued' + Peer' + Clock'
    BY DEF Left
  <2> QED  BY <2>1, <2>2, <2>3
<1>7. CASE Send
  <2>1. /\ toSend # <<>> /\ net' = Append(net, Head(toSend)) /\ toSend' = Tail(toSend)
        /\ UNCHANGED <<buf, tbuf, pc, fin, expired>>
    BY <1>7 DEF Send
  <2>2. Len(toSend') = Len(toSend) - 1 /\ Head(toSend) \in Bytes
    BY <2>1, HeadTailProperties DEF Queues
  <2>3. Len(net') = Len(net) + 1  BY <2>1, <2>2, AppendProperties DEF Queues
  <2>4. Queued' < Queued  BY <1>4, <2>1, <2>2, <2>3 DEF Queued
  <2>5. Stages' = Stages /\ Peer' = Peer /\ Clock' = Clock
    BY <2>1 DEF Stages, Peer, Clock
  <2> QED  BY <1>6, <2>4, <2>5
<1>8. CASE Fill \/ FillFromFirst
  <2>1. UNCHANGED <<pc, fin, expired, toSend>>  BY <1>8 DEF Fill, FillFromFirst
  <2>2. Stages' = Stages /\ Peer' = Peer /\ Clock' = Clock
    BY <2>1 DEF Stages, Peer, Clock
  <2>3. Fill => Queued' < Queued
    <3> SUFFICES ASSUME Fill PROVE Queued' < Queued
      OBVIOUS
    <3>1. /\ net # <<>> /\ buf = <<>> /\ tbuf = <<>> /\ net' = <<>> /\ toSend' = toSend
          /\ \/ buf' = net /\ tbuf' = <<>>
             \/ buf' = <<>> /\ tbuf' = net
      BY DEF Fill, Drained
    <3> QED  BY <1>4, <1>5, <3>1 DEF Queued
  <2>4. FillFromFirst => Queued' < Queued
    <3> SUFFICES ASSUME FillFromFirst PROVE Queued' < Queued
      OBVIOUS
    <3>1. /\ buf # <<>> /\ tbuf = <<>> /\ net' = net /\ toSend' = toSend
          /\ tbuf' = buf /\ buf' = <<>>
      BY DEF FillFromFirst
    <3> QED  BY <1>4, <1>5, <3>1 DEF Queued
  <2>5. Queued' < Queued  BY <1>8, <2>3, <2>4
  <2> QED  BY <1>6, <2>2, <2>5
<1>9. CASE \E b \in Bytes : TakeByte(b) /\ pc \in Reading /\ UNCHANGED <<net, toSend, fin>>
           /\ (Stages' < Stages \/ UNCHANGED <<pc, expired>>)
  <2>1. Queued' < Queued  BY <1>9, TakeLeavesLess
  <2>2. Peer' = Peer  BY <1>9 DEF Peer
  <2>3. Stages' < Stages \/ (Stages' = Stages /\ Clock' = Clock)
    BY <1>9 DEF Stages, Clock
  <2>4. Queued' \in Nat /\ Queued \in Nat  BY <1>1, <1>2
  <2>5. Queued' <= Queued  BY <2>1, <2>4
  <2> QED  BY <1>6, <2>1, <2>2, <2>3, <2>5
<1>10. CASE HeaderByte
  <2>1. PICK b \in Bytes : TakeByte(b)  BY <1>10 DEF HeaderByte
  <2>2. /\ pc = "header" /\ UNCHANGED <<net, toSend, fin>>
        /\ pc' \in {"handshake", "ready", "close"} \/ UNCHANGED <<pc, expired>>
    BY <1>10 DEF HeaderByte
  <2>3. Stages' < Stages \/ UNCHANGED <<pc, expired>>  BY <2>2 DEF Stages
  <2> QED  BY <1>9, <2>1, <2>2, <2>3 DEF Reading
<1>11. CASE Handshake
  <2>1. TakeByte("hello") /\ "hello" \in Bytes  BY <1>11 DEF Handshake, Bytes
  <2>2. pc = "handshake" /\ pc' = "ready" /\ UNCHANGED <<net, toSend, fin>>
    BY <1>11 DEF Handshake
  <2>3. Stages' < Stages  BY <2>2 DEF Stages
  <2> QED  BY <1>9, <2>1, <2>2, <2>3 DEF Reading
<1>12. CASE RequestByte
  <2>1. PICK b \in Bytes : TakeByte(b)  BY <1>12 DEF RequestByte
  <2>2. /\ pc = "request" /\ UNCHANGED <<net, toSend, fin, expired>>
        /\ pc' \in {"discard", "respond", "write"} \/ UNCHANGED pc
    BY <1>12 DEF RequestByte
  <2>3. Stages' < Stages \/ UNCHANGED <<pc, expired>>  BY <2>2 DEF Stages
  <2> QED  BY <1>9, <2>1, <2>2, <2>3 DEF Reading
<1>13. CASE DiscardByte
  <2>1. PICK b \in Bytes : TakeByte(b)  BY <1>13 DEF DiscardByte
  <2>2. /\ pc = "discard" /\ UNCHANGED <<net, toSend, fin, expired>>
        /\ pc' = "write" \/ UNCHANGED pc
    BY <1>13 DEF DiscardByte
  <2>3. Stages' < Stages \/ UNCHANGED <<pc, expired>>  BY <2>2 DEF Stages
  <2> QED  BY <1>9, <2>1, <2>2, <2>3 DEF Reading
<1>14. CASE HandshakeError
  <2>1. pc = "handshake" /\ pc' = "close" /\ UNCHANGED <<net, toSend, fin, expired>>
    BY <1>14 DEF HandshakeError
  <2>2. Stages' < Stages  BY <2>1 DEF Stages
  <2>3. CASE UNCHANGED <<buf, tbuf>>
    <3>1. Queued' = Queued /\ Peer' = Peer /\ Clock' = Clock
      BY <2>1, <2>3 DEF Queued, Peer, Clock
    <3>2. Queued' <= Queued  BY <1>1, <3>1
    <3> QED  BY <1>6, <2>2, <3>1, <3>2
  <2>4. CASE \E b \in Bytes : TakeByte(b)
    BY <1>9, <2>1, <2>2, <2>4 DEF Reading
  <2> QED  BY <1>14, <2>3, <2>4 DEF HandshakeError
<1>15. CASE HangUp \/ Expire
  <2>1. /\ UNCHANGED <<pc, toSend, net, buf, tbuf>>
        /\ \/ fin = "open" /\ fin' # "open" /\ UNCHANGED expired
           \/ ~expired /\ expired' /\ UNCHANGED fin
    BY <1>15 DEF HangUp, Expire
  <2>2. Stages' = Stages /\ Queued' = Queued  BY <2>1 DEF Stages, Queued
  <2>3. CASE fin = "open" /\ fin' # "open" /\ UNCHANGED expired
    <3>1. Peer = 1 /\ Peer' = 0 /\ Clock' = Clock  BY <2>3 DEF Peer, Clock
    <3> QED  BY <1>1, <1>6, <2>2, <3>1
  <2>4. CASE ~expired /\ expired' /\ UNCHANGED fin
    <3>1. Clock = 1 /\ Clock' = 0 /\ Peer' = Peer  BY <2>4 DEF Peer, Clock
    <3> QED  BY <1>1, <1>6, <2>2, <3>1
  <2> QED  BY <2>1, <2>3, <2>4
<1>16. CASE Prepare \/ HeaderError \/ Ready \/ ReadError \/ Respond \/ Write \/ Close
  <2>1. UNCHANGED <<fin, toSend, net, buf, tbuf>>
    BY <1>16 DEF Prepare, HeaderError, Ready, ReadError, Respond, Write, Close
  <2>2. Stages' < Stages
    BY <1>16 DEF Stages, Prepare, HeaderError, Ready, ReadError, Respond, Write, Close
  <2>3. Queued' = Queued /\ Peer' = Peer  BY <2>1 DEF Queued, Peer
  <2>4. Queued' <= Queued  BY <1>1, <2>3
  <2> QED  BY <1>6, <2>2, <2>3, <2>4
<1> QED  BY <1>7, <1>8, <1>10, <1>11, <1>12, <1>13, <1>14, <1>15, <1>16
         DEF Next, ServerStep, Closed

\* A connection never runs in circles: every step, of the server, the client
\* or the clock, lowers a number that is at most four times what the client
\* would send and twenty more, so there are no more steps than that.
THEOREM EveryStepCounts ==
    Spec => [](Left \in 0..(4 * Len(script) + 20)) /\ [][Left' < Left]_vars
<1> DEFINE Max == 4 * Len(script) + 20
           LInv == ByteInv /\ IInv /\ Left \in Nat /\ Max \in Nat /\ Left <= Max
<1>1. Init /\ ByteInv /\ IInv => LInv
  <2> SUFFICES ASSUME Init, ByteInv PROVE Left \in Nat /\ Max \in Nat /\ Left <= Max
    OBVIOUS
  <2>1. /\ Stages \in 0..9 /\ Peer \in 0..1 /\ Clock \in 0..1 /\ Left \in Nat
        /\ Queued \in Nat
    BY LeftIsNat DEF ByteInv
  <2>2. toSend = script /\ net = <<>> /\ buf = <<>> /\ tbuf = <<>>  BY DEF Init
  <2>3. Len(<<>>) = 0 /\ Len(script) \in Nat
    BY <2>2, EmptySeq, LenProperties DEF ByteInv, Queues
  <2>4. Queued = 4 * Len(script)  BY <2>2, <2>3 DEF Queued
  <2> QED  BY <2>1, <2>3, <2>4 DEF Left
<1>2. LInv /\ ByteInv' /\ IInv' /\ [Next]_vars => LInv' /\ [Left' < Left]_vars
  <2> SUFFICES ASSUME LInv, ByteInv', [Next]_vars
               PROVE  Left' \in Nat /\ Max' = Max /\ Left' <= Max /\ [Left' < Left]_vars
    OBVIOUS
  <2>1. Max' = Max
    <3>1. script' = script
      BY DEF Next, ServerStep, Send, HangUp, Expire, Prepare, Fill, FillFromFirst,
             HeaderByte, HeaderError, Handshake, HandshakeError, Ready, RequestByte,
             DiscardByte, ReadError, Respond, Write, Close, Closed, vars
    <3> QED  BY <3>1
  <2>2. Left \in Nat /\ Max \in Nat /\ Left <= Max
    OBVIOUS
  <2>3. CASE UNCHANGED vars
    <3>1. Left' = Left
      BY <2>3 DEF vars, Left, Stages, Queued, Peer, Clock
    <3> QED  BY <2>1, <2>2, <2>3, <3>1
  <2>4. CASE vars' # vars
    <3>1. Left' \in Nat /\ Left' < Left  BY <2>4, StepLeavesLess DEF ByteInv
    <3> HIDE DEF Max
    <3> QED  BY <2>1, <2>2, <3>1
  <2> QED  BY <2>3, <2>4
<1>3. LInv => Left \in 0..Max
  OBVIOUS
<1>4. ByteInv /\ [Next]_vars => ByteInv'  BY ByteInvStep
<1>5. Spec => []LInv /\ [][Left' < Left]_vars
  <2> HIDE DEF LInv
  <2>1. ByteInv /\ IInv /\ [Next]_vars => ByteInv' /\ IInv'  BY <1>4, ConnInvStep
  <2>2. LInv => ByteInv /\ IInv  BY DEF LInv
  <2>3. Init => ByteInv  BY ByteInit
  <2> QED  BY <1>1, <1>2, <2>1, <2>2, <2>3, ConnInductive, PTL DEF Spec
<1> HIDE DEF LInv
<1> QED  BY <1>3, <1>5, PTL

\* The server never waits for a client without a deadline, so a silent one
\* cannot hold the connection.
THEOREM WaitsHaveDeadlines == Spec => []Waiting
<1>1. Init => Waiting  BY DEF Init, Waiting, Reading
<1>2. Waiting /\ [Next]_vars => Waiting'
  BY DEF Waiting, Reading, Next, ServerStep, Send, HangUp, Expire, Prepare, Fill,
         FillFromFirst, HeaderByte, HeaderError, Handshake, HandshakeError, Ready,
         RequestByte, DiscardByte, ReadError, Respond, Write, Close, Closed, vars
<1> QED  BY <1>1, <1>2, PTL DEF Spec
=============================================================================
