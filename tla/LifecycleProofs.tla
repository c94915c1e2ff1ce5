--------------------------- MODULE LifecycleProofs ---------------------------
(***************************************************************************)
(* Proofs about Lifecycle for any finite, non-empty set of listeners and   *)
(* any set of connections.                                                 *)
(***************************************************************************)
EXTENDS Lifecycle, FiniteSetTheorems, SequenceTheorems, TLAPS

USE DEF MainPC, ListenerPC, AcceptErrs, ConnStates, mainVars, listenerVars,
        Up, Exited, Goto, CloseSocket

\* The error channel holds listeners, whether empty, appended to or received from.
LEMMA ErrChType ==
    /\ <<>> \in Seq(Modes)
    /\ \A s \in Seq(Modes), m \in Modes : Append(s, m) \in Seq(Modes)
BY EmptySeq, AppendProperties

\* Every state of the daemon has the types declared in TypeOK.
LEMMA TypeStep == TypeOK /\ [Next]_vars => TypeOK'
<1> SUFFICES ASSUME TypeOK, [Next]_vars PROVE TypeOK'
  OBVIOUS
<1> USE DEF TypeOK
<1>1. CASE LoadConfig  BY <1>1 DEF LoadConfig
<1>2. CASE NewServer   BY <1>2 DEF NewServer
<1>3. CASE Select
  <2>1. errCh # <<>> => Head(errCh) \in Modes /\ Tail(errCh) \in Seq(Modes)
    OBVIOUS
  <2> QED  BY <1>3, <2>1 DEF Select
<1>4. CASE WakeOnDone  BY <1>4 DEF WakeOnDone
<1>5. CASE Collect     BY <1>5 DEF Collect
<1>6. CASE AfterRun    BY <1>6 DEF AfterRun
<1>7. CASE CloseServer BY <1>7 DEF CloseServer
<1>8. CASE Signal
  <2>1. clean' \in BOOLEAN  BY <1>8, Zenon DEF Signal
  <2>2. signalled' \in BOOLEAN  BY <1>8, Zenon DEF Signal
  <2> QED  BY <1>8, <2>1, <2>2 DEF Signal
<1>9. ASSUME NEW m \in Modes, ListenerStep(m) PROVE TypeOK'
  <2>1. CASE Listen(m)          BY <2>1 DEF Listen
  <2>2. CASE AcceptFails(m)     BY <2>2 DEF AcceptFails
  <2>3. CASE HandleAcceptErr(m) BY <2>3 DEF HandleAcceptErr
  <2>4. CASE Backoff(m)         BY <2>4 DEF Backoff
  <2>5. CASE Drain(m)           BY <2>5 DEF Drain
  <2>6. CASE Unwind(m)          BY <2>6 DEF Unwind
  <2>7. CASE CheckCtx(m)        BY <2>7 DEF CheckCtx
  <2>8. CASE SendErr(m)
    <3>1. mpc' \in MainPC /\ result' \in Modes \cup {"pending", "nil"}
      BY <2>8 DEF SendErr
    <3>2. errCh' \in Seq(Modes)
      <4>1. errCh' = errCh \/ errCh' = Append(errCh, m)  BY <2>8 DEF SendErr
      <4> QED  BY <4>1, ErrChType
    <3>3. lpc' \in [Modes -> ListenerPC]  BY <2>8 DEF SendErr
    <3>4. UNCHANGED <<log, signalled, ctx, acceptErr, sock, closer, pending,
                      conn, home, reported, clean>>
      BY <2>8 DEF SendErr
    <3> QED  BY <3>1, <3>2, <3>3, <3>4
  <2>9. CASE CancelCtx(m)       BY <2>9 DEF CancelCtx
  <2>10. CASE Closer(m)         BY <2>10 DEF Closer
  <2>11. ASSUME NEW c \in Conns, AcceptConn(m, c) PROVE TypeOK'
    BY <2>11 DEF AcceptConn
  <2> QED  BY <1>9, <2>1, <2>2, <2>3, <2>4, <2>5, <2>6, <2>7, <2>8, <2>9,
              <2>10, <2>11 DEF ListenerStep
<1>10. ASSUME NEW c \in Conns, ConnStep(c) PROVE TypeOK'
  <2>1. CASE Dial(c)   BY <2>1 DEF Dial
  <2>2. CASE Serve(c)  BY <2>2 DEF Serve
  <2>3. CASE Finish(c) BY <2>3 DEF Finish
  <2> QED  BY <1>10, <2>1, <2>2, <2>3 DEF ConnStep
<1>11. CASE UNCHANGED vars  BY <1>11 DEF vars
<1> QED  BY <1>1, <1>2, <1>3, <1>4, <1>5, <1>6, <1>7, <1>8, <1>9, <1>10, <1>11
         DEF Next, MainStep, Terminated

\* The initial states have the declared types.
LEMMA InitTypeOK == Init => TypeOK
<1> SUFFICES ASSUME Init PROVE TypeOK
  OBVIOUS
<1>1. errCh \in Seq(Modes)  BY ErrChType DEF Init
<1>2. /\ pending \in [Modes -> SUBSET Conns]
      /\ conn \in [Conns -> ConnStates]
      /\ home \in [Conns -> Modes]
      /\ reported \in SUBSET Modes
  BY DEF Init
<1> QED  BY <1>1, <1>2 DEF Init, TypeOK

\* Every reachable state is correctly typed.
THEOREM TypeCorrect == Spec => []TypeOK
BY InitTypeOK, TypeStep, PTL DEF Spec
-----------------------------------------------------------------------------
(* The inductive invariant, in five parts.                                 *)

\* Main: its result is settled exactly when it leaves the select, and it gets
\* past <-done only when every listener goroutine has exited.
MainInv ==
    /\ mpc \in {"load", "new"} => ~clean /\ \A m \in Modes : lpc[m] = "idle"
    /\ mpc \in {"load", "new", "run", "parked"} => result = "pending"
    /\ mpc \in {"collect", "returned", "stopped", "exit0"} => result # "pending"
    /\ mpc = "exit1" => result # "nil" /\ (result = "pending" => ~clean)
    /\ Returned => Done

\* A listener: which socket, errors and connections go with each place.
ListenerInv ==
  \A m \in Modes :
    /\ lpc[m] \in {"idle", "listen"}
          => sock[m] = "none" /\ closer[m] = "none" /\ pending[m] = {}
    /\ closer[m] # "none" => sock[m] # "none"
    /\ lpc[m] \in {"accept", "acceptErr", "backoff", "drain", "unwind"}
          => sock[m] # "none"
    /\ lpc[m] \in {"accept", "acceptErr", "backoff"} /\ sock[m] = "closed"
          => ctx = "done"
    /\ lpc[m] = "acceptErr" => /\ acceptErr[m] # "none"
                               /\ acceptErr[m] = "closed" => ctx = "done"
    /\ lpc[m] = "unwind" => acceptErr[m] = "fatal"
    /\ lpc[m] \in {"drain", "exit"} => ctx = "done"
    /\ lpc[m] \in {"check", "send", "cancel", "exit"}
          => sock[m] # "open" /\ (acceptErr[m] = "fatal" \/ pending[m] = {})
    /\ lpc[m] \in {"check", "send", "cancel"}
          => acceptErr[m] = "fatal" \/ sock[m] = "none"

\* The WaitGroup of a listener counts exactly its connections in service.
ConnInv == \A m \in Modes, c \in Conns :
              c \in pending[m] <=> home[c] = m /\ conn[c] \in {"spawned", "serving"}

\* The error channel: each reported error is in one place, at most once.
ErrInv ==
    /\ \A m \in reported : /\ lpc[m] \in {"send", "cancel", "exit"}
                           /\ acceptErr[m] = "fatal" \/ sock[m] = "none"
    /\ \A m \in Modes : lpc[m] \in {"send", "cancel"} => m \in reported
    /\ \A i \in DOMAIN errCh : errCh[i] \in reported /\ lpc[errCh[i]] # "send"
    /\ \A i, j \in DOMAIN errCh : errCh[i] = errCh[j] => i = j
    /\ result \in Modes => result \in reported
    /\ clean => ctx = "done" /\ reported = {}

\* Why the context was cancelled, and so why a listener has stopped.
CauseInv ==
    /\ ctx = "done" /\ ~Returned => signalled \/ reported # {}
    /\ \A m \in Modes : lpc[m] \in {"drain", "exit"} => signalled \/ reported # {}

\* MainInv is preserved by every step.
LEMMA MainInvStep ==
    TypeOK /\ TypeOK' /\ MainInv /\ [Next]_vars => MainInv'
<1> SUFFICES ASSUME TypeOK, TypeOK', MainInv, [Next]_vars PROVE MainInv'
  OBVIOUS
<1> USE DEF TypeOK, MainInv, Returned, Done
<1>1. CASE LoadConfig  BY <1>1 DEF LoadConfig
<1>2. CASE NewServer  BY <1>2 DEF NewServer
<1>3. CASE Select
  <2>1. errCh # <<>> => Head(errCh) \in Modes \ {"pending", "nil"}
    BY ModesAssumption
  <2> QED  BY <1>3, <2>1 DEF Select
<1>4. CASE WakeOnDone  BY <1>4 DEF WakeOnDone
<1>5. CASE Collect  BY <1>5 DEF Collect
<1>6. CASE AfterRun  BY <1>6 DEF AfterRun
<1>7. CASE CloseServer  BY <1>7 DEF CloseServer
<1>8. CASE Signal  BY <1>8 DEF Signal
<1>9. ASSUME NEW m \in Modes, ListenerStep(m) PROVE MainInv'
  <2>1. CASE Listen(m)  BY <2>1 DEF Listen
  <2>2. CASE AcceptFails(m)  BY <2>2 DEF AcceptFails
  <2>3. CASE HandleAcceptErr(m)  BY <2>3 DEF HandleAcceptErr
  <2>4. CASE Backoff(m)  BY <2>4 DEF Backoff
  <2>5. CASE Drain(m)  BY <2>5 DEF Drain
  <2>6. CASE Unwind(m)  BY <2>6 DEF Unwind
  <2>7. CASE CheckCtx(m)  BY <2>7 DEF CheckCtx
  <2>8. CASE SendErr(m)
    <3>1. m \notin {"pending", "nil"}  BY ModesAssumption
    <3>2. lpc[m] # "exit"  BY <2>8 DEF SendErr
    <3>3. mpc = "parked" \/ UNCHANGED <<mpc, result>>  BY <2>8 DEF SendErr
    <3> QED  BY <2>8, <3>1, <3>2, <3>3 DEF SendErr
  <2>9. CASE CancelCtx(m)  BY <2>9 DEF CancelCtx
  <2>10. CASE Closer(m)  BY <2>10 DEF Closer
  <2>11. ASSUME NEW c \in Conns, AcceptConn(m, c) PROVE MainInv'
    BY <2>11 DEF AcceptConn
  <2> QED  BY <1>9, <2>1, <2>2, <2>3, <2>4, <2>5, <2>6, <2>7, <2>8, <2>9, <2>10, <2>11 DEF ListenerStep
<1>10. ASSUME NEW c \in Conns, ConnStep(c) PROVE MainInv'
  <2>1. CASE Dial(c)  BY <2>1 DEF Dial
  <2>2. CASE Serve(c)  BY <2>2 DEF Serve
  <2>3. CASE Finish(c)  BY <2>3 DEF Finish
  <2> QED  BY <1>10, <2>1, <2>2, <2>3 DEF ConnStep
<1>11. CASE UNCHANGED vars  BY <1>11 DEF vars
<1> QED  BY <1>1, <1>2, <1>3, <1>4, <1>5, <1>6, <1>7, <1>8, <1>9, <1>10, <1>11
         DEF Next, MainStep, Terminated

\* ListenerInv is preserved by every step.
LEMMA ListenerInvStep ==
    TypeOK /\ TypeOK' /\ MainInv /\ ListenerInv /\ [Next]_vars => ListenerInv'
<1> SUFFICES ASSUME TypeOK, TypeOK', MainInv, ListenerInv, [Next]_vars PROVE ListenerInv'
  OBVIOUS
<1> USE DEF TypeOK, ListenerInv
<1>1. CASE LoadConfig  BY <1>1 DEF LoadConfig
<1>2. CASE NewServer  BY <1>2 DEF NewServer, MainInv
<1>3. CASE Select  BY <1>3 DEF Select
<1>4. CASE WakeOnDone  BY <1>4 DEF WakeOnDone
<1>5. CASE Collect  BY <1>5 DEF Collect
<1>6. CASE AfterRun  BY <1>6 DEF AfterRun
<1>7. CASE CloseServer  BY <1>7 DEF CloseServer
<1>8. CASE Signal  BY <1>8 DEF Signal
<1>9. ASSUME NEW m \in Modes, ListenerStep(m) PROVE ListenerInv'
  <2>1. CASE Listen(m)  BY <2>1 DEF Listen
  <2>2. CASE AcceptFails(m)  BY <2>2 DEF AcceptFails
  <2>3. CASE HandleAcceptErr(m)  BY <2>3 DEF HandleAcceptErr
  <2>4. CASE Backoff(m)  BY <2>4 DEF Backoff
  <2>5. CASE Drain(m)  BY <2>5 DEF Drain
  <2>6. CASE Unwind(m)  BY <2>6 DEF Unwind
  <2>7. CASE CheckCtx(m)  BY <2>7 DEF CheckCtx
  <2>8. CASE SendErr(m)  BY <2>8 DEF SendErr
  <2>9. CASE CancelCtx(m)  BY <2>9 DEF CancelCtx
  <2>10. CASE Closer(m)  BY <2>10 DEF Closer
  <2>11. ASSUME NEW c \in Conns, AcceptConn(m, c) PROVE ListenerInv'
    BY <2>11 DEF AcceptConn
  <2> QED  BY <1>9, <2>1, <2>2, <2>3, <2>4, <2>5, <2>6, <2>7, <2>8, <2>9, <2>10, <2>11 DEF ListenerStep
<1>10. ASSUME NEW c \in Conns, ConnStep(c) PROVE ListenerInv'
  <2>1. CASE Dial(c)  BY <2>1 DEF Dial
  <2>2. CASE Serve(c)  BY <2>2 DEF Serve
  <2>3. CASE Finish(c)  BY <2>3 DEF Finish
  <2> QED  BY <1>10, <2>1, <2>2, <2>3 DEF ConnStep
<1>11. CASE UNCHANGED vars  BY <1>11 DEF vars
<1> QED  BY <1>1, <1>2, <1>3, <1>4, <1>5, <1>6, <1>7, <1>8, <1>9, <1>10, <1>11
         DEF Next, MainStep, Terminated

\* ConnInv is preserved by every step.
LEMMA ConnInvStep ==
    TypeOK /\ TypeOK' /\ ConnInv /\ [Next]_vars => ConnInv'
<1> SUFFICES ASSUME TypeOK, TypeOK', ConnInv, [Next]_vars PROVE ConnInv'
  OBVIOUS
<1> USE DEF TypeOK, ConnInv
<1>1. CASE LoadConfig  BY <1>1 DEF LoadConfig
<1>2. CASE NewServer  BY <1>2 DEF NewServer
<1>3. CASE Select  BY <1>3 DEF Select
<1>4. CASE WakeOnDone  BY <1>4 DEF WakeOnDone
<1>5. CASE Collect  BY <1>5 DEF Collect
<1>6. CASE AfterRun  BY <1>6 DEF AfterRun
<1>7. CASE CloseServer  BY <1>7 DEF CloseServer
<1>8. CASE Signal  BY <1>8 DEF Signal
<1>9. ASSUME NEW m \in Modes, ListenerStep(m) PROVE ConnInv'
  <2>1. CASE Listen(m)  BY <2>1 DEF Listen
  <2>2. CASE AcceptFails(m)  BY <2>2 DEF AcceptFails
  <2>3. CASE HandleAcceptErr(m)  BY <2>3 DEF HandleAcceptErr
  <2>4. CASE Backoff(m)  BY <2>4 DEF Backoff
  <2>5. CASE Drain(m)  BY <2>5 DEF Drain
  <2>6. CASE Unwind(m)  BY <2>6 DEF Unwind
  <2>7. CASE CheckCtx(m)  BY <2>7 DEF CheckCtx
  <2>8. CASE SendErr(m)  BY <2>8 DEF SendErr
  <2>9. CASE CancelCtx(m)  BY <2>9 DEF CancelCtx
  <2>10. CASE Closer(m)  BY <2>10 DEF Closer
  <2>11. ASSUME NEW c \in Conns, AcceptConn(m, c) PROVE ConnInv'
    BY <2>11 DEF AcceptConn
  <2> QED  BY <1>9, <2>1, <2>2, <2>3, <2>4, <2>5, <2>6, <2>7, <2>8, <2>9, <2>10, <2>11 DEF ListenerStep
<1>10. ASSUME NEW c \in Conns, ConnStep(c) PROVE ConnInv'
  <2>1. CASE Dial(c)  BY <2>1 DEF Dial
  <2>2. CASE Serve(c)  BY <2>2 DEF Serve
  <2>3. CASE Finish(c)  BY <2>3 DEF Finish
  <2> QED  BY <1>10, <2>1, <2>2, <2>3 DEF ConnStep
<1>11. CASE UNCHANGED vars  BY <1>11 DEF vars
<1> QED  BY <1>1, <1>2, <1>3, <1>4, <1>5, <1>6, <1>7, <1>8, <1>9, <1>10, <1>11
         DEF Next, MainStep, Terminated

\* ErrInv is preserved by every step.
LEMMA ErrInvStep ==
    TypeOK /\ TypeOK' /\ MainInv /\ ListenerInv /\ ErrInv /\ [Next]_vars => ErrInv'
<1> SUFFICES ASSUME TypeOK, TypeOK', MainInv, ListenerInv, ErrInv, [Next]_vars PROVE ErrInv'
  OBVIOUS
<1> USE DEF TypeOK, ErrInv, MainInv, ListenerInv
<1>1. CASE LoadConfig  BY <1>1 DEF LoadConfig
<1>2. CASE NewServer  BY <1>2 DEF NewServer
<1>3. CASE Select
  <2>1. UNCHANGED <<reported, lpc, acceptErr, sock, clean, ctx>>
    BY <1>3 DEF Select
  <2>2. CASE errCh # <<>> /\ result' = Head(errCh) /\ errCh' = Tail(errCh)
    <3>1. \A i \in DOMAIN errCh' : i + 1 \in DOMAIN errCh /\ errCh'[i] = errCh[i + 1]
      BY <2>2
    <3>2. result' = errCh[1] /\ 1 \in DOMAIN errCh  BY <2>2
    <3>3. \A i, j \in DOMAIN errCh' : i + 1 = j + 1 => i = j  BY <2>2
    <3> HIDE DEF TypeOK, MainInv, ListenerInv
    <3> QED  BY <2>1, <3>1, <3>2, <3>3
  <2>3. CASE UNCHANGED errCh /\ result' \notin Modes  BY <2>1, <2>3
  <2>4. \/ errCh # <<>> /\ result' = Head(errCh) /\ errCh' = Tail(errCh)
        \/ UNCHANGED errCh /\ result' \notin Modes
    BY <1>3, ModesAssumption DEF Select
  <2> QED  BY <2>2, <2>3, <2>4
<1>4. CASE WakeOnDone  BY <1>4, ModesAssumption DEF WakeOnDone
<1>5. CASE Collect  BY <1>5 DEF Collect
<1>6. CASE AfterRun  BY <1>6 DEF AfterRun
<1>7. CASE CloseServer  BY <1>7 DEF CloseServer
<1>8. CASE Signal  BY <1>8 DEF Signal
<1>9. ASSUME NEW m \in Modes, ListenerStep(m) PROVE ErrInv'
  <2>1. CASE Listen(m)  BY <2>1 DEF Listen
  <2>2. CASE AcceptFails(m)  BY <2>2 DEF AcceptFails
  <2>3. CASE HandleAcceptErr(m)  BY <2>3 DEF HandleAcceptErr
  <2>4. CASE Backoff(m)  BY <2>4 DEF Backoff
  <2>5. CASE Drain(m)  BY <2>5 DEF Drain
  <2>6. CASE Unwind(m)  BY <2>6 DEF Unwind
  <2>7. CASE CheckCtx(m)  BY <2>7 DEF CheckCtx
  <2>8. CASE SendErr(m)
    <3>1. /\ UNCHANGED <<reported, acceptErr, sock, clean, ctx>>
          /\ m \in reported /\ lpc' = [lpc EXCEPT ![m] = "cancel"]
          /\ \A i \in DOMAIN errCh : errCh[i] # m
      BY <2>8 DEF SendErr
    <3>2. \/ UNCHANGED errCh /\ (result' = m \/ UNCHANGED result)
          \/ UNCHANGED result /\ errCh' = Append(errCh, m)
      BY <2>8 DEF SendErr
    <3>3. CASE UNCHANGED errCh /\ (result' = m \/ UNCHANGED result)
      BY <3>1, <3>3
    <3>4. CASE UNCHANGED result /\ errCh' = Append(errCh, m)
      <4>1. \A i \in DOMAIN errCh' : \/ i \in DOMAIN errCh /\ errCh'[i] = errCh[i]
                                     \/ i = Len(errCh) + 1 /\ errCh'[i] = m
        <5>1. errCh \in Seq(Modes)  OBVIOUS
        <5>2. DOMAIN errCh = 1..Len(errCh) /\ DOMAIN errCh' = 1..(Len(errCh) + 1)
          BY <3>4, <5>1, AppendProperties, LenProperties
        <5>3. /\ Len(errCh) \in Nat /\ errCh'[Len(errCh) + 1] = m
              /\ \A i \in 1..Len(errCh) : errCh'[i] = errCh[i]
          BY <3>4, <5>1, AppendProperties, LenProperties
        <5> HIDE DEF TypeOK, ErrInv, MainInv, ListenerInv
        <5> QED  BY <5>2, <5>3
      <4> QED  BY <3>1, <3>4, <4>1
    <3> QED  BY <3>2, <3>3, <3>4
  <2>9. CASE CancelCtx(m)  BY <2>9 DEF CancelCtx
  <2>10. CASE Closer(m)  BY <2>10 DEF Closer
  <2>11. ASSUME NEW c \in Conns, AcceptConn(m, c) PROVE ErrInv'
    BY <2>11 DEF AcceptConn
  <2> QED  BY <1>9, <2>1, <2>2, <2>3, <2>4, <2>5, <2>6, <2>7, <2>8, <2>9, <2>10, <2>11 DEF ListenerStep
<1>10. ASSUME NEW c \in Conns, ConnStep(c) PROVE ErrInv'
  <2>1. CASE Dial(c)  BY <2>1 DEF Dial
  <2>2. CASE Serve(c)  BY <2>2 DEF Serve
  <2>3. CASE Finish(c)  BY <2>3 DEF Finish
  <2> QED  BY <1>10, <2>1, <2>2, <2>3 DEF ConnStep
<1>11. CASE UNCHANGED vars  BY <1>11 DEF vars
<1> QED  BY <1>1, <1>2, <1>3, <1>4, <1>5, <1>6, <1>7, <1>8, <1>9, <1>10, <1>11
         DEF Next, MainStep, Terminated

\* CauseInv is preserved by every step.
LEMMA CauseInvStep ==
    TypeOK /\ TypeOK' /\ MainInv /\ ListenerInv /\ ErrInv /\ CauseInv /\ [Next]_vars => CauseInv'
<1> SUFFICES ASSUME TypeOK, TypeOK', MainInv, ListenerInv, ErrInv, CauseInv, [Next]_vars PROVE CauseInv'
  OBVIOUS
<1> USE DEF TypeOK, CauseInv, MainInv, Returned, Done, ListenerInv
<1>1. CASE LoadConfig  BY <1>1 DEF LoadConfig
<1>2. CASE NewServer  BY <1>2 DEF NewServer
<1>3. CASE Select  BY <1>3 DEF Select
<1>4. CASE WakeOnDone  BY <1>4 DEF WakeOnDone
<1>5. CASE Collect  BY <1>5 DEF Collect
<1>6. CASE AfterRun  BY <1>6 DEF AfterRun
<1>7. CASE CloseServer  BY <1>7 DEF CloseServer
<1>8. CASE Signal  BY <1>8, ModesAssumption DEF Signal
<1>9. ASSUME NEW m \in Modes, ListenerStep(m) PROVE CauseInv'
  <2>1. CASE Listen(m)  BY <2>1 DEF Listen
  <2>2. CASE AcceptFails(m)  BY <2>2 DEF AcceptFails
  <2>3. CASE HandleAcceptErr(m)  BY <2>3 DEF HandleAcceptErr
  <2>4. CASE Backoff(m)  BY <2>4 DEF Backoff
  <2>5. CASE Drain(m)  BY <2>5 DEF Drain
  <2>6. CASE Unwind(m)  BY <2>6 DEF Unwind
  <2>7. CASE CheckCtx(m)  BY <2>7 DEF CheckCtx
  <2>8. CASE SendErr(m)  BY <2>8 DEF SendErr
  <2>9. CASE CancelCtx(m)  BY <2>9 DEF CancelCtx, ErrInv
  <2>10. CASE Closer(m)  BY <2>10 DEF Closer
  <2>11. ASSUME NEW c \in Conns, AcceptConn(m, c) PROVE CauseInv'
    BY <2>11 DEF AcceptConn
  <2> QED  BY <1>9, <2>1, <2>2, <2>3, <2>4, <2>5, <2>6, <2>7, <2>8, <2>9, <2>10, <2>11 DEF ListenerStep
<1>10. ASSUME NEW c \in Conns, ConnStep(c) PROVE CauseInv'
  <2>1. CASE Dial(c)  BY <2>1 DEF Dial
  <2>2. CASE Serve(c)  BY <2>2 DEF Serve
  <2>3. CASE Finish(c)  BY <2>3 DEF Finish
  <2> QED  BY <1>10, <2>1, <2>2, <2>3 DEF ConnStep
<1>11. CASE UNCHANGED vars  BY <1>11 DEF vars
<1> QED  BY <1>1, <1>2, <1>3, <1>4, <1>5, <1>6, <1>7, <1>8, <1>9, <1>10, <1>11
         DEF Next, MainStep, Terminated

\* A channel with a slot for every listener has room for a listener that is
\* not in it yet, as long as no listener is in it twice.
LEMMA RoomForOneMore ==
    ASSUME NEW s \in Seq(Modes), NEW m \in Modes,
           \A i \in DOMAIN s : s[i] # m,
           \A i, j \in DOMAIN s : s[i] = s[j] => i = j
    PROVE  Len(s) < Cardinality(Modes)
<1> DEFINE Others == Modes \ {m}
<1>1. /\ Len(s) \in Nat /\ DOMAIN s = 1..Len(s) /\ s \in [1..Len(s) -> Modes]
  BY LenProperties
<1>2. /\ IsFiniteSet(Others) /\ Cardinality(Modes) \in Nat
      /\ Cardinality(Others) = Cardinality(Modes) - 1
  BY ModesAssumption, FS_RemoveElement, FS_CardinalityType
<1>3. s \in Injection(1..Len(s), Others)
  BY <1>1 DEF Injection, IsInjective
<1>4. Cardinality(1..Len(s)) <= Cardinality(Others)
  BY <1>2, <1>3, FS_Injection
<1>5. Cardinality(1..Len(s)) = Len(s)
  <2>1. Len(s) \in Int /\ 1 \in Int  BY <1>1
  <2>2. Cardinality(1..Len(s)) = IF 1 > Len(s) THEN 0 ELSE Len(s) - 1 + 1
    BY <2>1, FS_Interval
  <2> QED  BY <1>1, <2>2
<1> QED  BY <1>1, <1>2, <1>4, <1>5

\* ErrorsNotDropped is preserved by every step: the send never meets a full buffer.
LEMMA ErrorsNotDroppedStep ==
    TypeOK /\ TypeOK' /\ MainInv /\ ErrInv /\ ErrorsNotDropped /\ [Next]_vars => ErrorsNotDropped'
<1> SUFFICES ASSUME TypeOK, TypeOK', MainInv, ErrInv, ErrorsNotDropped, [Next]_vars PROVE ErrorsNotDropped'
  OBVIOUS
<1> USE DEF TypeOK, ErrorsNotDropped
<1>1. CASE LoadConfig  BY <1>1 DEF LoadConfig
<1>2. CASE NewServer  BY <1>2 DEF NewServer, MainInv, ErrInv
<1>3. CASE Select
  <2>1. result = "pending" /\ result \notin Modes
    BY <1>3, ModesAssumption DEF Select, MainInv
  <2>2. CASE UNCHANGED errCh  BY <1>3, <2>1, <2>2 DEF Select
  <2>3. CASE errCh # <<>> /\ result' = Head(errCh) /\ errCh' = Tail(errCh)
    <3>1. \A i \in DOMAIN errCh : \/ i = 1 /\ errCh[i] = result'
                                  \/ i - 1 \in DOMAIN errCh' /\ errCh'[i - 1] = errCh[i]
      BY <2>3
    <3>2. UNCHANGED <<reported, lpc>>  BY <1>3 DEF Select
    <3>3. ASSUME NEW n \in reported, NEW i \in DOMAIN errCh, errCh[i] = n
          PROVE  result' = n \/ \E j \in DOMAIN errCh' : errCh'[j] = n
      BY <3>1, <3>3
    <3>4. \A n \in reported : n # result  BY <2>1
    <3> QED  BY <3>2, <3>3, <3>4
  <2> QED  BY <1>3, <2>2, <2>3 DEF Select
<1>4. CASE WakeOnDone  BY <1>4, ModesAssumption DEF WakeOnDone, MainInv
<1>5. CASE Collect  BY <1>5 DEF Collect
<1>6. CASE AfterRun  BY <1>6 DEF AfterRun
<1>7. CASE CloseServer  BY <1>7 DEF CloseServer
<1>8. CASE Signal  BY <1>8 DEF Signal
<1>9. ASSUME NEW m \in Modes, ListenerStep(m) PROVE ErrorsNotDropped'
  <2>1. CASE Listen(m)  BY <2>1 DEF Listen
  <2>2. CASE AcceptFails(m)  BY <2>2 DEF AcceptFails
  <2>3. CASE HandleAcceptErr(m)  BY <2>3 DEF HandleAcceptErr
  <2>4. CASE Backoff(m)  BY <2>4 DEF Backoff
  <2>5. CASE Drain(m)  BY <2>5 DEF Drain
  <2>6. CASE Unwind(m)  BY <2>6 DEF Unwind
  <2>7. CASE CheckCtx(m)  BY <2>7 DEF CheckCtx
  <2>8. CASE SendErr(m)
    <3>1. CASE mpc = "parked"
      BY <2>8, <3>1, ModesAssumption DEF SendErr, MainInv
    <3>2. CASE mpc # "parked"
      <4>1. \A i \in DOMAIN errCh : errCh[i] # m  BY <2>8 DEF SendErr, ErrInv
      <4>2. Len(errCh) < Cardinality(Modes)
        BY <4>1, RoomForOneMore DEF ErrInv
      <4>3. errCh' = Append(errCh, m)  BY <2>8, <3>2, <4>2 DEF SendErr
      <4>4. /\ \A i \in DOMAIN errCh : i \in DOMAIN errCh' /\ errCh'[i] = errCh[i]
            /\ \E i \in DOMAIN errCh' : errCh'[i] = m
        BY <4>3, AppendProperties, LenProperties
      <4> QED  BY <2>8, <3>2, <4>4 DEF SendErr
    <3> QED  BY <3>1, <3>2
  <2>9. CASE CancelCtx(m)  BY <2>9 DEF CancelCtx
  <2>10. CASE Closer(m)  BY <2>10 DEF Closer
  <2>11. ASSUME NEW c \in Conns, AcceptConn(m, c) PROVE ErrorsNotDropped'
    BY <2>11 DEF AcceptConn
  <2> QED  BY <1>9, <2>1, <2>2, <2>3, <2>4, <2>5, <2>6, <2>7, <2>8, <2>9, <2>10, <2>11 DEF ListenerStep
<1>10. ASSUME NEW c \in Conns, ConnStep(c) PROVE ErrorsNotDropped'
  <2>1. CASE Dial(c)  BY <2>1 DEF Dial
  <2>2. CASE Serve(c)  BY <2>2 DEF Serve
  <2>3. CASE Finish(c)  BY <2>3 DEF Finish
  <2> QED  BY <1>10, <2>1, <2>2, <2>3 DEF ConnStep
<1>11. CASE UNCHANGED vars  BY <1>11 DEF vars
<1> QED  BY <1>1, <1>2, <1>3, <1>4, <1>5, <1>6, <1>7, <1>8, <1>9, <1>10, <1>11
         DEF Next, MainStep, Terminated
-----------------------------------------------------------------------------
IInv == /\ TypeOK /\ MainInv /\ ListenerInv /\ ConnInv /\ ErrInv /\ CauseInv
        /\ ErrorsNotDropped

\* IInv holds in every state: it is inductive.
THEOREM Inductive == Spec => []IInv
<1>1. Init => IInv
  <2> SUFFICES ASSUME Init PROVE IInv
    OBVIOUS
  <2>1. TypeOK  BY InitTypeOK
  <2>2. MainInv /\ ListenerInv  BY DEF Init, MainInv, ListenerInv, Returned
  <2>3. ConnInv  BY DEF Init, ConnInv
  <2>4. ErrInv /\ ErrorsNotDropped
    BY ModesAssumption DEF Init, ErrInv, ErrorsNotDropped
  <2>5. CauseInv  BY DEF Init, CauseInv
  <2> QED  BY <2>1, <2>2, <2>3, <2>4, <2>5 DEF IInv
<1>2. IInv /\ [Next]_vars => IInv'
  BY TypeStep, MainInvStep, ListenerInvStep, ConnInvStep, ErrInvStep,
     CauseInvStep, ErrorsNotDroppedStep DEF IInv
<1> QED  BY <1>1, <1>2, PTL DEF Spec

\* Run returns only when every accepted connection has been answered, but for
\* those of a listener whose Accept failed for good.
THEOREM Drained == Spec => []AbandonedOnlyByFatalAccept
<1>1. IInv => AbandonedOnlyByFatalAccept
  <2> SUFFICES ASSUME IInv, Returned, NEW c \in Conns,
                      conn[c] \in {"spawned", "serving"}
               PROVE  acceptErr[home[c]] = "fatal"
    BY DEF AbandonedOnlyByFatalAccept
  <2>1. home[c] \in Modes  BY DEF IInv, TypeOK
  <2>2. lpc[home[c]] = "exit"  BY <2>1 DEF IInv, MainInv, Done
  <2>3. pending[home[c]] # {}  BY <2>1 DEF IInv, ConnInv
  <2> QED  BY <2>1, <2>2, <2>3 DEF IInv, ListenerInv
<1> QED  BY <1>1, Inductive, PTL

\* A shutdown signal before any reported error makes Run return nil.
THEOREM CleanStopHolds == Spec => []CleanStop
<1>1. IInv => CleanStop
  BY DEF IInv, TypeOK, MainInv, ErrInv, CleanStop
<1> QED  BY <1>1, Inductive, PTL

\* No reported listener error is lost before it reaches Run's channel.
THEOREM NoErrorDropped == Spec => []ErrorsNotDropped
BY Inductive, PTL DEF IInv

\* Run leaves no listening socket open.
THEOREM SocketsClosed == Spec => []SocketsClosedOnReturn
<1>1. IInv => SocketsClosedOnReturn
  BY DEF IInv, MainInv, ListenerInv, Done, SocketsClosedOnReturn
<1> QED  BY <1>1, Inductive, PTL

\* Run stops for a signal, a failed bind or a fatal Accept error, nothing else.
THEOREM StopHasCause == Spec => []StopsOnlyForCause
<1>1. IInv => StopsOnlyForCause
  <2> SUFFICES ASSUME IInv, Returned, ~signalled
               PROVE  \E m \in Modes : acceptErr[m] = "fatal" \/ sock[m] = "none"
    BY DEF StopsOnlyForCause
  <2>1. reported # {}
    BY ModesAssumption DEF IInv, MainInv, Done, CauseInv
  <2> QED  BY <2>1 DEF IInv, TypeOK, ErrInv
<1> QED  BY <1>1, Inductive, PTL
-----------------------------------------------------------------------------
(* A shutdown ends: connections, listeners and main each do once what they *)
(* wait for has ended, and with at most two listeners, as the daemon has,  *)
(* all of it does.                                                         *)

\* The guards of the fair actions.
CanMain    == \/ mpc \in {"load", "new", "run", "returned", "stopped"}
              \/ mpc \in {"parked", "collect"} /\ Done
CanWork(m) == /\ Up
              /\ \/ lpc[m] \in {"listen", "acceptErr", "backoff", "unwind", "check", "send",
                                 "cancel"}
                 \/ lpc[m] = "drain" /\ pending[m] = {}
CanWake(m) == Up /\ lpc[m] = "accept" /\ sock[m] = "closed"
CanShut(m) == Up /\ closer[m] = "waiting" /\ ctx = "done"

\* Where such a guard holds its action can be taken.  The provers know nothing
\* of ENABLED, so this is a hypothesis of the theorems below; TLC finds it true,
\* and each guard but the closer's exact, in every state of LifecycleSafety.cfg.
GuardsSuffice ==
    /\ CanMain => ENABLED <<MainStep>>_vars
    /\ \A m \in Modes : /\ CanWork(m) => ENABLED <<Work(m)>>_vars
                        /\ CanWake(m) => ENABLED <<Wake(m)>>_vars
                        /\ CanShut(m) => ENABLED <<Closer(m)>>_vars
    /\ \A c \in Conns : /\ Up /\ conn[c] = "spawned" => ENABLED <<Serve(c)>>_vars
                        /\ Up /\ conn[c] = "serving" => ENABLED <<Finish(c)>>_vars

\* Main, once every listener goroutine has exited.
LEMMA MainGoesOn ==
    ASSUME IInv, Done, [Next]_vars
    PROVE  /\ Done'
           /\ Up => mpc \in {"run", "parked", "collect", "returned", "stopped"}
           /\ mpc \in {"run", "parked", "collect"}
                => mpc' \in {"run", "parked", "collect", "returned"}
           /\ mpc = "parked" => mpc' \in {"parked", "returned"}
           /\ mpc = "collect" => mpc' \in {"collect", "returned"}
           /\ mpc = "run" => mpc' \in {"run", "collect", "returned"}
           /\ mpc = "returned" => mpc' \in {"returned", "stopped", "exit1"}
           /\ mpc = "stopped" => mpc' \in {"stopped", "exit0", "killed"}
           /\ MainStep /\ mpc = "run" => mpc' \in {"collect", "returned"}
           /\ MainStep /\ mpc \in {"parked", "collect"} => mpc' = "returned"
           /\ MainStep /\ mpc = "returned" => mpc' \in {"stopped", "exit1"}
           /\ MainStep /\ mpc = "stopped" => mpc' = "exit0"
<1>1. \A m \in Modes : lpc[m] = "exit"  BY DEF Done
<1>2. PICK m0 \in Modes : TRUE  BY ModesAssumption
<1>3. mpc \notin {"load", "new"}  BY <1>1, <1>2 DEF IInv, MainInv
<1>4. mpc \in MainPC /\ lpc \in [Modes -> ListenerPC]  BY DEF IInv, TypeOK
<1>5. CASE MainStep
  <2>1. UNCHANGED lpc  BY <1>5, <1>3 DEF MainStep, LoadConfig, NewServer, Select, WakeOnDone,
                              Collect, AfterRun, CloseServer
  <2>2. /\ mpc = "run" => mpc' \in {"collect", "returned"}
        /\ mpc \in {"parked", "collect"} => mpc' = "returned"
        /\ mpc = "returned" => mpc' \in {"stopped", "exit1"}
        /\ mpc = "stopped" => mpc' = "exit0"
        /\ mpc \in {"run", "parked", "collect", "returned", "stopped"}
    BY <1>5, <1>3 DEF MainStep, LoadConfig, NewServer, Select, WakeOnDone, Collect, AfterRun,
                CloseServer
  <2> QED  BY <1>1, <2>1, <2>2 DEF Done
<1>6. CASE ~MainStep
  <2>1. UNCHANGED lpc /\ (mpc' = mpc \/ (mpc = "stopped" /\ mpc' = "killed"))
    <3>1. CASE Signal \/ Terminated \/ UNCHANGED vars
      BY <1>3, <3>1 DEF Signal, Terminated, vars
    <3>2. ASSUME NEW c \in Conns, ConnStep(c) PROVE UNCHANGED <<lpc, mpc>>
      BY <3>2 DEF ConnStep, Dial, Serve, Finish
    <3>3. ASSUME NEW m \in Modes, ListenerStep(m) PROVE UNCHANGED <<lpc, mpc>>
      <4>1. lpc[m] = "exit"  BY <1>1
      <4> QED  BY <3>3, <4>1 DEF ListenerStep, Listen, AcceptFails, HandleAcceptErr, Backoff,
                    Drain, Unwind, CheckCtx, SendErr, CancelCtx, Closer, AcceptConn
    <3> QED  BY <1>6, <3>1, <3>2, <3>3 DEF Next
  <2> QED  BY <1>1, <1>3, <1>4, <1>6, <2>1 DEF Done
<1> QED  BY <1>5, <1>6

\* Once every listener goroutine has exited, Run returns and the process ends:
\* main waits for nothing else, neither parked in its select nor on <-done.
THEOREM MainEnds == FairSpec /\ []GuardsSuffice => (Done ~> ~Up)
<1> DEFINE Fair == WF_vars(MainStep) /\ [](CanMain => ENABLED <<MainStep>>_vars)
           G == [][Next]_vars /\ []IInv /\ Fair /\ Done
           At(l) == mpc = l
<1>1. Spec => []IInv  BY Inductive
<1>2. GuardsSuffice => (CanMain => ENABLED <<MainStep>>_vars)
  BY DEF GuardsSuffice
<1>3. IInv /\ Done /\ [Next]_vars => Done'  BY MainGoesOn
<1>4. IInv /\ Done /\ [Next]_vars =>
           /\ At("run") => At("run")' \/ At("collect")' \/ At("returned")'
           /\ At("parked") => At("parked")' \/ At("returned")'
           /\ At("collect") => At("collect")' \/ At("returned")'
           /\ At("returned") => At("returned")' \/ At("stopped")' \/ (~Up)'
           /\ At("stopped") => At("stopped")' \/ (~Up)'
  BY MainGoesOn
<1>5. IInv /\ Done /\ [Next]_vars /\ MainStep =>
           /\ At("run") => At("collect")' \/ At("returned")'
           /\ At("parked") => At("returned")'
           /\ At("collect") => At("returned")'
           /\ At("returned") => At("stopped")' \/ (~Up)'
           /\ At("stopped") => (~Up)'
  BY MainGoesOn
<1>6. IInv /\ Done => At("run") \/ At("parked") \/ At("collect") \/ At("returned")
                     \/ At("stopped") \/ ~Up
  BY ModesAssumption DEF IInv, TypeOK, MainInv, Done
<1>7. At("run") \/ At("returned") \/ At("stopped") \/ (Done /\ (At("parked") \/ At("collect")))
        => CanMain
  BY DEF CanMain
<1> HIDE DEF At, Fair
<1>8. G => []Done /\ []IInv  BY <1>3, PTL
<1>9. G => [](At("stopped") => <>~Up)  BY <1>4, <1>5, <1>7, <1>8, PTL DEF Fair
<1>10. G => [](At("returned") => <>(At("stopped") \/ ~Up))
  BY <1>4, <1>5, <1>7, <1>8, PTL DEF Fair
<1>11. G => [](At("collect") => <>At("returned"))  BY <1>4, <1>5, <1>7, <1>8, PTL DEF Fair
<1>12. G => [](At("parked") => <>At("returned"))  BY <1>4, <1>5, <1>7, <1>8, PTL DEF Fair
<1>13. G => [](At("run") => <>(At("collect") \/ At("returned")))
  BY <1>4, <1>5, <1>7, <1>8, PTL DEF Fair
<1>14. G => <>~Up  BY <1>6, <1>8, <1>9, <1>10, <1>11, <1>12, <1>13, PTL
<1> QED  BY <1>1, <1>2, <1>14, PTL DEF FairSpec, Fairness, MainRuns, Spec, Fair

\* Where the listeners stand once the context is done: each has a socket to
\* listen on or a closer that shuts it.
StandInv ==
    /\ mpc \in {"load", "new"} => ctx = "live"
    /\ Up /\ mpc \notin {"load", "new"} => \A m \in Modes : lpc[m] # "idle"
    /\ \A m \in Modes : lpc[m] \in {"accept", "acceptErr", "backoff"} /\ sock[m] # "closed"
                            => closer[m] = "waiting"

\* StandInv is preserved by every step.
LEMMA StandInvStep == IInv /\ StandInv /\ [Next]_vars => StandInv'
<1> SUFFICES ASSUME IInv, StandInv, [Next]_vars PROVE StandInv'
  OBVIOUS
<1>1. TypeOK  BY DEF IInv
<1> USE DEF StandInv, TypeOK
<1>2. CASE MainStep
  BY <1>1, <1>2 DEF MainStep, LoadConfig, NewServer, Select, WakeOnDone, Collect, AfterRun,
       CloseServer
<1>3. CASE Signal \/ Terminated \/ UNCHANGED vars
  BY <1>1, <1>3 DEF Signal, Terminated, vars
<1>4. ASSUME NEW m \in Modes, ListenerStep(m) PROVE StandInv'
  <2>1. CASE Listen(m)  BY <1>1, <2>1 DEF Listen
  <2>2. CASE AcceptFails(m)  BY <1>1, <2>2 DEF AcceptFails
  <2>3. CASE HandleAcceptErr(m)  BY <1>1, <2>3 DEF HandleAcceptErr
  <2>4. CASE Backoff(m)  BY <1>1, <2>4 DEF Backoff
  <2>5. CASE Drain(m)  BY <1>1, <2>5 DEF Drain
  <2>6. CASE Unwind(m)  BY <1>1, <2>6 DEF Unwind
  <2>7. CASE CheckCtx(m)  BY <1>1, <2>7 DEF CheckCtx
  <2>8. CASE SendErr(m)  BY <1>1, <2>8 DEF SendErr
  <2>9. CASE CancelCtx(m)
    <3>1. mpc \notin {"load", "new"}
      BY <2>9 DEF IInv, MainInv, CancelCtx
    <3> QED  BY <1>1, <2>9, <3>1 DEF CancelCtx
  <2>10. CASE Closer(m)  BY <1>1, <2>10 DEF Closer
  <2>11. ASSUME NEW c \in Conns, AcceptConn(m, c) PROVE StandInv'
    BY <1>1, <2>11 DEF AcceptConn
  <2> QED  BY <1>4, <2>1, <2>2, <2>3, <2>4, <2>5, <2>6, <2>7, <2>8, <2>9, <2>10, <2>11
           DEF ListenerStep
<1>5. ASSUME NEW c \in Conns, ConnStep(c) PROVE StandInv'
  BY <1>1, <1>5 DEF ConnStep, Dial, Serve, Finish
<1> QED  BY <1>2, <1>3, <1>4, <1>5 DEF Next

\* A listener whose context is done takes the way out, place by place.
LEMMA ListenerGoesOn ==
    ASSUME NEW m \in Modes, IInv, StandInv, ctx = "done", [Next]_vars
    PROVE  /\ ctx' = "done"
           /\ lpc[m] = "listen" => lpc'[m] \in {"listen", "accept", "check"}
           /\ lpc[m] = "backoff" => lpc'[m] \in {"backoff", "accept"}
           /\ lpc[m] = "accept" => lpc'[m] \in {"accept", "acceptErr"}
           /\ sock[m] = "closed" /\ lpc[m] = "accept" => sock'[m] = "closed"
           /\ lpc[m] = "acceptErr" => lpc'[m] \in {"acceptErr", "drain"}
           /\ lpc[m] = "drain" => lpc'[m] \in {"drain", "exit"}
           /\ lpc[m] = "unwind" => lpc'[m] \in {"unwind", "check"}
           /\ lpc[m] = "check" => lpc'[m] \in {"check", "exit"}
           /\ lpc[m] = "send" => lpc'[m] \in {"send", "cancel"}
           /\ lpc[m] = "cancel" => lpc'[m] \in {"cancel", "exit"}
           /\ lpc[m] = "exit" => lpc'[m] = "exit"
           /\ lpc[m] = "drain" /\ pending[m] = {} => pending'[m] = {}
<1>1. TypeOK  BY DEF IInv
<1> USE <1>1 DEF TypeOK
<1>2. CASE MainStep \/ Signal \/ Terminated \/ UNCHANGED vars
  <2>1. mpc # "new" /\ mpc # "load"  BY DEF StandInv
  <2>2. ctx' = "done" /\ UNCHANGED <<lpc, sock, pending>>
    BY <1>2, <2>1 DEF MainStep, LoadConfig, NewServer, Select, WakeOnDone, Collect, AfterRun,
         CloseServer, Signal, Terminated, vars
  <2> QED  BY <2>2
<1>3. ASSUME NEW c \in Conns, ConnStep(c)
      PROVE  /\ UNCHANGED <<ctx, lpc, sock>>
             /\ pending[m] = {} => pending'[m] = {}
  BY <1>3 DEF ConnStep, Dial, Serve, Finish
<1>4. ASSUME NEW k \in Modes, k # m, ListenerStep(k)
      PROVE  /\ ctx' = "done"
             /\ UNCHANGED <<lpc[m], sock[m], pending[m]>>
  BY <1>4 DEF ListenerStep, Listen, AcceptFails, HandleAcceptErr, Backoff, Drain, Unwind,
       CheckCtx, SendErr, CancelCtx, Closer, AcceptConn
<1>5. CASE ListenerStep(m)
  BY <1>5 DEF ListenerStep, Listen, AcceptFails, HandleAcceptErr, Backoff, Drain, Unwind,
       CheckCtx, SendErr, CancelCtx, Closer, AcceptConn
<1> QED  BY <1>2, <1>3, <1>4, <1>5 DEF Next

\* The steps of the listener and of its closer that its way out depends on.
LEMMA ListenerMoves ==
    ASSUME NEW m \in Modes, IInv, StandInv, ctx = "done"
    PROVE  /\ Work(m) => lpc'[m] # lpc[m]
           /\ Wake(m) => lpc'[m] # lpc[m]
           /\ Closer(m) /\ lpc[m] = "accept" => lpc'[m] = "accept" /\ sock'[m] = "closed"
<1>1. TypeOK  BY DEF IInv
<1> QED  BY <1>1 DEF TypeOK, Work, Wake, Listen, AcceptFails, HandleAcceptErr, Backoff, Drain,
            Unwind, CheckCtx, SendErr, CancelCtx, Closer

\* The listener of m comes to its wg.Wait() or ends; the connections that it
\* waits for there end; and so does the wait.  A connection comes to its end.
Stops(m)   == ctx = "done" ~> lpc[m] \in {"drain", "exit"} \/ ~Up
Emptied(m) == lpc[m] = "drain" ~> pending[m] = {} \/ ~Up
Drains(m)  == lpc[m] = "drain" /\ pending[m] = {} ~> lpc[m] = "exit" \/ ~Up
Served(c)  == conn[c] \in {"spawned", "serving"} ~> conn[c] = "done" \/ ~Up

\* StandInv holds in every reachable state.
LEMMA StandInductive == Spec => []StandInv
<1>1. Spec => []IInv  BY Inductive
<1>2. Init => StandInv  BY DEF Init, StandInv
<1> QED  BY <1>1, <1>2, StandInvStep, PTL DEF Spec

\* A listener whose context is done comes to its wg.Wait() or ends: it is
\* neither left in Accept, whose socket the closer closes, nor kept in the
\* backoff of a temporary error or on the error channel.
THEOREM ListenerStops == FairSpec /\ []GuardsSuffice => \A m \in Modes : Stops(m)
<1> SUFFICES ASSUME NEW m \in Modes PROVE FairSpec /\ []GuardsSuffice => Stops(m)
  OBVIOUS
<1> DEFINE Fair == /\ WF_vars(Work(m)) /\ [](CanWork(m) => ENABLED <<Work(m)>>_vars)
                   /\ WF_vars(Wake(m)) /\ [](CanWake(m) => ENABLED <<Wake(m)>>_vars)
                   /\ WF_vars(Closer(m)) /\ [](CanShut(m) => ENABLED <<Closer(m)>>_vars)
           Inv == IInv /\ StandInv
           Cancelled == ctx = "done"
           Out == lpc[m] \in {"drain", "exit"}
           At(l) == lpc[m] = l
           Open == lpc[m] = "accept" /\ sock[m] # "closed"
           Shut == lpc[m] = "accept" /\ sock[m] = "closed"
           G == [][Next]_vars /\ []Inv /\ Fair /\ Cancelled
<1>1. Spec => []IInv  BY Inductive
<1>2. Spec => []StandInv  BY StandInductive
<1>3. GuardsSuffice => /\ CanWork(m) => ENABLED <<Work(m)>>_vars
                       /\ CanWake(m) => ENABLED <<Wake(m)>>_vars
                       /\ CanShut(m) => ENABLED <<Closer(m)>>_vars
  BY DEF GuardsSuffice
<1>4. Inv /\ Cancelled /\ [Next]_vars =>
           /\ Cancelled'
           /\ At("listen") => At("listen")' \/ Open' \/ Shut' \/ At("check")'
           /\ At("backoff") => At("backoff")' \/ Open' \/ Shut'
           /\ Open => Open' \/ Shut' \/ At("acceptErr")'
           /\ Shut => Shut' \/ At("acceptErr")'
           /\ At("acceptErr") => At("acceptErr")' \/ Out'
           /\ At("unwind") => At("unwind")' \/ At("check")'
           /\ At("check") => At("check")' \/ Out'
           /\ At("send") => At("send")' \/ At("cancel")'
           /\ At("cancel") => At("cancel")' \/ Out'
  BY ListenerGoesOn
<1>5. Inv /\ Cancelled =>
           /\ Work(m) => \A l \in ListenerPC : ~(At(l) /\ At(l)')
           /\ Wake(m) => ~(Shut /\ Shut')
           /\ Closer(m) => ~(Open /\ Open')
  BY ListenerMoves
<1>6. Inv /\ Cancelled => \/ ~Up \/ Out \/ Open \/ Shut
                          \/ At("listen") \/ At("backoff") \/ At("acceptErr") \/ At("unwind")
                          \/ At("check") \/ At("send") \/ At("cancel")
  BY DEF IInv, TypeOK, StandInv
<1>7. /\ Up /\ (At("listen") \/ At("backoff") \/ At("acceptErr") \/ At("unwind")
                \/ At("check") \/ At("send") \/ At("cancel")) => CanWork(m)
      /\ Up /\ Shut => CanWake(m)
      /\ Inv /\ Cancelled /\ Up /\ Open => CanShut(m)
  BY DEF CanWork, CanWake, CanShut, StandInv
<1>8. Inv /\ Cancelled /\ Work(m) => /\ ~(At("listen") /\ At("listen")')
                                     /\ ~(At("backoff") /\ At("backoff")')
                                     /\ ~(At("acceptErr") /\ At("acceptErr")')
                                     /\ ~(At("unwind") /\ At("unwind")')
                                     /\ ~(At("check") /\ At("check")')
                                     /\ ~(At("send") /\ At("send")')
                                     /\ ~(At("cancel") /\ At("cancel")')
  BY <1>5
<1>9. Inv /\ Cancelled => (Wake(m) => ~(Shut /\ Shut')) /\ (Closer(m) => ~(Open /\ Open'))
  BY <1>5
<1> HIDE DEF At, Fair, Inv, Cancelled, Out, Open, Shut
<1>10. G => []Cancelled /\ []Inv /\ Fair  BY <1>4, PTL
<1>11. G => [](At("acceptErr") => <>(Out \/ ~Up))  BY <1>4, <1>7, <1>8, <1>10, PTL DEF Fair
<1>12. G => [](Shut => <>(At("acceptErr") \/ ~Up))  BY <1>4, <1>7, <1>9, <1>10, PTL DEF Fair
<1>13. G => [](Open => <>(Shut \/ At("acceptErr") \/ ~Up))
  BY <1>4, <1>7, <1>9, <1>10, PTL DEF Fair
<1>14. G => [](At("backoff") => <>(Open \/ Shut \/ ~Up))
  BY <1>4, <1>7, <1>8, <1>10, PTL DEF Fair
<1>15. G => [](At("check") => <>(Out \/ ~Up))  BY <1>4, <1>7, <1>8, <1>10, PTL DEF Fair
<1>16. G => [](At("unwind") => <>(At("check") \/ ~Up))
  BY <1>4, <1>7, <1>8, <1>10, PTL DEF Fair
<1>17. G => [](At("cancel") => <>(Out \/ ~Up))  BY <1>4, <1>7, <1>8, <1>10, PTL DEF Fair
<1>18. G => [](At("send") => <>(At("cancel") \/ ~Up))
  BY <1>4, <1>7, <1>8, <1>10, PTL DEF Fair
<1>19. G => [](At("listen") => <>(Open \/ Shut \/ At("check") \/ ~Up))
  BY <1>4, <1>7, <1>8, <1>10, PTL DEF Fair
<1>20. G => <>(Out \/ ~Up)
  BY <1>6, <1>10, <1>11, <1>12, <1>13, <1>14, <1>15, <1>16, <1>17, <1>18, <1>19, PTL
<1>21. ListenersRun => ListenerRuns(m)  BY DEF ListenersRun
<1> QED  BY <1>1, <1>2, <1>3, <1>20, <1>21, PTL
         DEF FairSpec, Fairness, ListenerRuns, Spec, Stops, Fair, Cancelled, Out, Inv

\* A cancelled listener whose connections have all ended exits.
THEOREM ListenerDrains == FairSpec /\ []GuardsSuffice => \A m \in Modes : Drains(m)
<1> SUFFICES ASSUME NEW m \in Modes PROVE FairSpec /\ []GuardsSuffice => Drains(m)
  OBVIOUS
<1> DEFINE Waits == lpc[m] = "drain" /\ pending[m] = {}
           Gone == lpc[m] = "exit"
           Inv == IInv /\ StandInv
<1>1. Spec => []Inv  BY Inductive, StandInductive, PTL
<1>2. GuardsSuffice => (CanWork(m) => ENABLED <<Work(m)>>_vars)
  BY DEF GuardsSuffice
<1>3. Inv /\ Waits => ctx = "done"  BY DEF IInv, ListenerInv
<1>4. Inv /\ Waits /\ [Next]_vars => Waits' \/ Gone'
  BY <1>3, ListenerGoesOn
<1>5. Inv /\ Waits /\ Work(m) => ~Waits'
  BY <1>3, ListenerMoves
<1>6. Up /\ Waits => CanWork(m)
  BY DEF CanWork
<1> HIDE DEF Waits, Gone, Inv
<1>7. ListenersRun => ListenerRuns(m)  BY DEF ListenersRun
<1>8. FairSpec /\ []GuardsSuffice => (Waits ~> Gone \/ ~Up)
  BY <1>1, <1>2, <1>4, <1>5, <1>6, <1>7, PTL DEF FairSpec, Fairness, ListenerRuns, Spec
<1> QED  BY <1>8, PTL DEF Waits, Gone, Drains

\* A connection that was accepted is served and its goroutine ends, when
\* serveConn returns: no listener, no other connection and no shutdown stands
\* in its way.
THEOREM ConnEnds == FairSpec /\ []GuardsSuffice => \A c \in Conns : Served(c)
<1> SUFFICES ASSUME NEW c \in Conns PROVE FairSpec /\ []GuardsSuffice => Served(c)
  OBVIOUS
<1> DEFINE Spawned == conn[c] = "spawned"
           Serving == conn[c] = "serving"
           Ended == conn[c] = "done"
<1>1. Spec => []TypeOK  BY TypeCorrect
<1>2. GuardsSuffice => /\ Up /\ Spawned => ENABLED <<Serve(c)>>_vars
                       /\ Up /\ Serving => ENABLED <<Finish(c)>>_vars
  BY DEF GuardsSuffice
<1>3. TypeOK /\ [Next]_vars => /\ Spawned => Spawned' \/ Serving'
                               /\ Serving => Serving' \/ Ended'
  <2> SUFFICES ASSUME TypeOK, [Next]_vars
               PROVE  /\ Spawned => Spawned' \/ Serving'
                      /\ Serving => Serving' \/ Ended'
    OBVIOUS
  <2> USE DEF TypeOK
  <2>1. CASE MainStep \/ Signal \/ Terminated \/ UNCHANGED vars
    BY <2>1 DEF MainStep, LoadConfig, NewServer, Select, WakeOnDone, Collect, AfterRun,
         CloseServer, Signal, Terminated, vars
  <2>2. ASSUME NEW m \in Modes, ListenerStep(m)
        PROVE  conn[c] \in {"spawned", "serving"} => conn'[c] = conn[c]
    BY <2>2 DEF ListenerStep, Listen, AcceptFails, HandleAcceptErr, Backoff, Drain, Unwind,
         CheckCtx, SendErr, CancelCtx, Closer, AcceptConn
  <2>3. ASSUME NEW d \in Conns, ConnStep(d)
        PROVE  /\ Spawned => Spawned' \/ Serving'
               /\ Serving => Serving' \/ Ended'
    BY <2>3 DEF ConnStep, Dial, Serve, Finish
  <2> QED  BY <2>1, <2>2, <2>3 DEF Next
<1>4. TypeOK => /\ Serve(c) => Serving'
                /\ Finish(c) => Ended'
  BY DEF TypeOK, Serve, Finish
<1>5. ~(Spawned /\ Serving) /\ (Spawned => ~Ended) /\ (Serving => ~Ended)
  OBVIOUS
<1> DEFINE Accepted == conn[c] \in {"spawned", "serving"}
<1>6. Accepted <=> Spawned \/ Serving  OBVIOUS
<1> HIDE DEF Spawned, Serving, Ended, Accepted
<1>7. ConnsRun => ConnRuns(c)  BY DEF ConnsRun
<1>8. FairSpec /\ []GuardsSuffice => (Accepted ~> Ended \/ ~Up)
  BY <1>1, <1>2, <1>3, <1>4, <1>5, <1>6, <1>7, PTL DEF FairSpec, Fairness, ConnRuns, Spec
<1> QED  BY <1>8, PTL DEF Accepted, Ended, Served

\* With one listener or two, which is as many as the daemon has, a cancelled
\* daemon ends, if the connections that a listener waits for end.
THEOREM ShutdownEnds ==
    ASSUME NEW a, NEW b, Modes = {a, b}
    PROVE  FairSpec /\ []GuardsSuffice /\ (\A m \in Modes : Emptied(m)) => CancelLeadsToExit
<1> DEFINE Cancelled == ctx = "done"
           Waits(m) == lpc[m] = "drain"
           Free(m) == pending[m] = {}
           Gone(m) == lpc[m] = "exit"
           Inv == IInv /\ StandInv
           Hyp == FairSpec /\ []GuardsSuffice /\ (\A m \in Modes : Emptied(m))
<1>1. a \in Modes /\ b \in Modes  OBVIOUS
<1>2. FairSpec => []Inv /\ [][Next]_vars
  BY Inductive, StandInductive, PTL DEF FairSpec, Spec
<1>3. Hyp => Stops(a) /\ Drains(a) /\ Emptied(a)
  BY <1>1, ListenerStops, ListenerDrains
<1>4. Hyp => Stops(b) /\ Drains(b) /\ Emptied(b)
  BY <1>1, ListenerStops, ListenerDrains
<1>5. Hyp => FairSpec /\ (Done ~> ~Up)
  BY MainEnds
<1>6. ASSUME NEW m \in Modes
      PROVE  Inv /\ [Next]_vars => /\ Gone(m) => Gone(m)'
                                   /\ Waits(m) => Waits(m)' \/ Gone(m)'
                                   /\ Waits(m) /\ Free(m) => Free(m)'
  <2>1. Inv /\ (Gone(m) \/ Waits(m)) => ctx = "done"  BY DEF IInv, ListenerInv
  <2> QED  BY <2>1, ListenerGoesOn
<1>7. Inv /\ [Next]_vars => /\ Gone(a) => Gone(a)'
                            /\ Waits(a) => Waits(a)' \/ Gone(a)'
                            /\ Waits(a) /\ Free(a) => Free(a)'
                            /\ Gone(b) => Gone(b)'
                            /\ Waits(b) => Waits(b)' \/ Gone(b)'
                            /\ Waits(b) /\ Free(b) => Free(b)'
  BY <1>1, <1>6
<1>8. Gone(a) /\ Gone(b) => Done  BY DEF Done
<1> DEFINE Past(m) == lpc[m] \in {"drain", "exit"}
<1>9. (Past(a) <=> Waits(a) \/ Gone(a)) /\ (Past(b) <=> Waits(b) \/ Gone(b))
  OBVIOUS
<1>10. Stops(a) /\ Drains(a) /\ Emptied(a)
         => /\ Cancelled ~> Past(a) \/ ~Up
            /\ Waits(a) /\ Free(a) ~> Gone(a) \/ ~Up
            /\ Waits(a) ~> Free(a) \/ ~Up
  BY PTL DEF Stops, Drains, Emptied
<1>11. Stops(b) /\ Drains(b) /\ Emptied(b)
         => /\ Cancelled ~> Past(b) \/ ~Up
            /\ Waits(b) /\ Free(b) ~> Gone(b) \/ ~Up
            /\ Waits(b) ~> Free(b) \/ ~Up
  BY PTL DEF Stops, Drains, Emptied
<1> HIDE DEF Cancelled, Waits, Free, Gone, Inv, Past
<1>12. Hyp => (Cancelled ~> []Gone(a) \/ ~Up)
  BY <1>2, <1>3, <1>5, <1>7, <1>9, <1>10, PTL
<1>13. Hyp => (Cancelled ~> []Gone(b) \/ ~Up)
  BY <1>2, <1>4, <1>5, <1>7, <1>9, <1>11, PTL
<1>14. Hyp => (Cancelled ~> ~Up)
  BY <1>5, <1>8, <1>12, <1>13, PTL
<1> QED  BY <1>14, PTL DEF CancelLeadsToExit, Cancelled
==============================================================================
