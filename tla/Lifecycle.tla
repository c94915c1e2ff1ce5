------------------------------ MODULE Lifecycle ------------------------------
(***************************************************************************)
(* Start-up, listening and shutdown of the daemon: main, Server.Run, one   *)
(* runListener goroutine per configured mode with its closer goroutine,    *)
(* the shared cancellable context, the error channel, the two levels of    *)
(* WaitGroup, and the connections the listeners hand to serveConn.         *)
(*                                                                         *)
(* A connection is only "serving" here; what it does meanwhile is the      *)
(* subject of other modules.  A definition whose name ends in an underscore *)
(* is a faulty variant of the one after it: it is no part of Spec, and     *)
(* PROJECT.json names the property that notices the fault.                 *)
(***************************************************************************)
EXTENDS Naturals, Sequences, FiniteSets

CONSTANTS Modes,   \* the listeners of listenerModes(): plain finger, TLS fingers
          Conns    \* the connections that clients may open

ASSUME ModesAssumption == /\ IsFiniteSet(Modes)
                          /\ Modes # {}
                          /\ Modes \cap {"pending", "nil"} = {}

VARIABLES
    mpc,        \* where main is
    log,        \* the log files of Server.logger
    signalled,  \* SIGINT or SIGTERM was delivered to NotifyContext
    ctx,        \* the context Run derives: "live" or "done"
    lpc,        \* lpc[m]: where the runListener goroutine of m is
    acceptErr,  \* acceptErr[m]: the kind of the last error of ln.Accept
    sock,       \* sock[m]: the listening socket
    closer,     \* closer[m]: the goroutine that closes the socket on ctx.Done
    pending,    \* pending[m]: the connections counted by runListener's WaitGroup
    errCh,      \* the buffered error channel of Run
    result,     \* what Run returns: "pending", "nil" or the mode whose error it is
    conn,       \* conn[c]: how far connection c is
    home,       \* home[c]: the listener that client c dials
    reported,   \* history: listeners that saw ctx.Err() = nil after their error
    clean       \* history: the context was cancelled by a signal before any
                \* listener reported an error

vars == <<mpc, log, signalled, ctx, lpc, acceptErr, sock, closer, pending,
          errCh, result, conn, home, reported, clean>>
listenerVars == <<lpc, acceptErr, sock, closer, pending>>
mainVars     == <<mpc, log, result>>

MainPC     == {"load", "new", "run", "parked", "collect", "returned",
               "stopped", "exit0", "exit1", "killed"}
Exited     == {"exit0", "exit1", "killed"}
ListenerPC == {"idle", "listen", "accept", "acceptErr", "backoff", "drain",
               "unwind", "check", "send", "cancel", "exit"}
AcceptErrs == {"none", "closed", "temporary", "fatal"}
ConnStates == {"new", "backlog", "reset", "spawned", "serving", "done"}

Up       == mpc \notin Exited
Done     == \A m \in Modes : lpc[m] = "exit"     \* wg.Wait() is over
Returned == \/ mpc \in {"returned", "stopped", "exit0"}
            \/ mpc = "exit1" /\ result # "pending"

Init == /\ mpc = "load"
        /\ log = "none"
        /\ signalled = FALSE
        /\ ctx = "live"
        /\ lpc = [m \in Modes |-> "idle"]
        /\ acceptErr = [m \in Modes |-> "none"]
        /\ sock = [m \in Modes |-> "none"]
        /\ closer = [m \in Modes |-> "none"]
        /\ pending = [m \in Modes |-> {}]
        /\ errCh = <<>>
        /\ result = "pending"
        /\ conn = [c \in Conns |-> "new"]
        /\ home \in [Conns -> Modes]
        /\ reported = {}
        /\ clean = FALSE
-----------------------------------------------------------------------------
(* The main goroutine: main.go and Server.New, Run, Close.                 *)

\* config.Load: an unreadable or invalid file ends the process.
LoadConfig == /\ mpc = "load"
              /\ mpc' \in {"new", "exit1"}
              /\ UNCHANGED <<log, signalled, ctx, listenerVars, errCh, result,
                             conn, home, reported, clean>>

NewServer_ == /\ mpc = "new" /\ mpc' = "run" /\ log' = "open"
              /\ lpc' = [m \in {CHOOSE m \in Modes : TRUE} |-> "listen"]
              /\ UNCHANGED <<signalled, ctx, acceptErr, sock, closer, pending,
                             errCh, result, conn, home, reported, clean>>

\* server.New, then Run up to its select: the logger may fail to open, and a
\* key pair that does not load closes the logger again.  The listener
\* goroutines exist from here on; main has not reached the select yet.
NewServer == /\ mpc = "new"
             /\ \/ /\ mpc' = "run"
                   /\ log' = "open"
                   /\ lpc' = [m \in Modes |-> "listen"]
                \/ /\ mpc' = "exit1"
                   /\ log' \in {"none", "closed"}
                   /\ UNCHANGED lpc
             /\ UNCHANGED <<signalled, ctx, acceptErr, sock, closer, pending,
                            errCh, result, conn, home, reported, clean>>

\* Main reaches the select of Run.  Of the channels that are ready it takes
\* any; when none is, it parks.
Select == /\ mpc = "run"
          /\ \/ /\ errCh # <<>>
                /\ mpc' = "collect"
                /\ result' = Head(errCh)
                /\ errCh' = Tail(errCh)
             \/ /\ Done
                /\ mpc' = "returned"
                /\ result' = "nil"
                /\ UNCHANGED errCh
             \/ /\ errCh = <<>> /\ ~Done
                /\ mpc' = "parked"
                /\ UNCHANGED <<result, errCh>>
          /\ UNCHANGED <<log, signalled, ctx, listenerVars, conn, home,
                         reported, clean>>

\* The waiter goroutine closes done and so wakes a parked main.
WakeOnDone == /\ mpc = "parked"
              /\ Done
              /\ mpc' = "returned"
              /\ result' = "nil"
              /\ UNCHANGED <<log, signalled, ctx, listenerVars, errCh, conn,
                             home, reported, clean>>

\* <-done after an error was received.
Collect == /\ mpc = "collect"
           /\ Done
           /\ mpc' = "returned"
           /\ UNCHANGED <<log, signalled, ctx, listenerVars, errCh, result,
                          conn, home, reported, clean>>

\* Run has returned, its deferred cancel has run.  An error exits at once
\* (os.Exit skips the deferred calls); otherwise the deferred stop() runs.
AfterRun == /\ mpc = "returned"
            /\ ctx' = "done"
            /\ mpc' = IF result = "nil" THEN "stopped" ELSE "exit1"
            /\ UNCHANGED <<log, signalled, listenerVars, errCh, result, conn,
                           home, reported, clean>>

\* The deferred srv.Close(), then the process ends with status 0.
CloseServer == /\ mpc = "stopped"
               /\ log' = "closed"
               /\ mpc' = "exit0"
               /\ UNCHANGED <<signalled, ctx, listenerVars, errCh, result, conn,
                              home, reported, clean>>

\* SIGINT or SIGTERM.  While NotifyContext is installed this is the moment
\* its goroutine cancels the context; the delivery before it changes nothing
\* that anyone looks at.  Before NotifyContext and after stop(), the default
\* action kills the process.
Signal == /\ Up
          /\ IF mpc \in {"load", "new", "stopped"}
             THEN /\ mpc' = "killed"
                  /\ UNCHANGED <<signalled, ctx, clean>>
             ELSE /\ ~signalled
                  /\ signalled' = TRUE
                  /\ ctx' = "done"
                  /\ clean' = (reported = {})
                  /\ UNCHANGED mpc
          /\ UNCHANGED <<log, listenerVars, errCh, result, conn, home, reported>>
-----------------------------------------------------------------------------
(* The runListener goroutine of mode m and its closer goroutine.           *)

Goto(m, l) == lpc' = [lpc EXCEPT ![m] = l]

\* Closing a listening socket resets the connections that wait in its backlog.
CloseSocket(m) ==
    /\ sock' = [sock EXCEPT ![m] = "closed"]
    /\ conn' = [c \in Conns |-> IF home[c] = m /\ conn[c] = "backlog"
                                THEN "reset" ELSE conn[c]]

\* net.Listen succeeds and the closer goroutine is started, or it fails and
\* runListener returns the error at once.
Listen(m) == /\ Up /\ lpc[m] = "listen"
             /\ \/ /\ Goto(m, "accept")
                   /\ sock' = [sock EXCEPT ![m] = "open"]
                   /\ closer' = [closer EXCEPT ![m] = "waiting"]
                \/ /\ Goto(m, "check")
                   /\ UNCHANGED <<sock, closer>>
             /\ UNCHANGED <<mainVars, signalled, ctx, acceptErr, pending, errCh,
                            conn, home, reported, clean>>

AcceptConn_(m, c) ==      \* wg.Add(1) left to the goroutine
    /\ Up /\ lpc[m] = "accept" /\ sock[m] = "open"
    /\ home[c] = m /\ conn[c] = "backlog"
    /\ conn' = [conn EXCEPT ![c] = "spawned"]
    /\ UNCHANGED <<mainVars, signalled, ctx, listenerVars, errCh, home,
                   reported, clean>>

\* ln.Accept returns a connection: wg.Add(1), then the goroutine is spawned.
AcceptConn(m, c) ==
    /\ Up /\ lpc[m] = "accept" /\ sock[m] = "open"
    /\ home[c] = m /\ conn[c] = "backlog"
    /\ pending' = [pending EXCEPT ![m] = @ \cup {c}]
    /\ conn' = [conn EXCEPT ![c] = "spawned"]
    /\ UNCHANGED <<mainVars, signalled, ctx, lpc, acceptErr, sock, closer,
                   errCh, home, reported, clean>>

\* ln.Accept returns an error: of the closed socket, or one of the system's
\* own, temporary (too many open files) or not (no buffer space, no memory).
AcceptFails(m) ==
    /\ Up /\ lpc[m] = "accept"
    /\ Goto(m, "acceptErr")
    /\ \E e \in IF sock[m] = "open" THEN {"temporary", "fatal"} ELSE {"closed"} :
          acceptErr' = [acceptErr EXCEPT ![m] = e]
    /\ UNCHANGED <<mainVars, signalled, ctx, sock, closer, pending, errCh,
                   conn, home, reported, clean>>

HandleAcceptErr_(m) ==    \* no Temporary() test
    /\ Up /\ lpc[m] = "acceptErr"
    /\ Goto(m, IF ctx = "done" THEN "drain" ELSE "unwind")
    /\ UNCHANGED <<mainVars, signalled, ctx, acceptErr, sock, closer, pending,
                   errCh, conn, home, reported, clean>>

\* What the loop does with the error: cancellation comes first, a temporary
\* error is slept over, any other one is returned.
HandleAcceptErr(m) ==
    /\ Up /\ lpc[m] = "acceptErr"
    /\ Goto(m, IF ctx = "done" THEN "drain"
               ELSE IF acceptErr[m] = "temporary" THEN "backoff" ELSE "unwind")
    /\ UNCHANGED <<mainVars, signalled, ctx, acceptErr, sock, closer, pending,
                   errCh, conn, home, reported, clean>>

Backoff_(m) == /\ Up /\ lpc[m] = "backoff" /\ ctx = "done"   \* no timer
               /\ Goto(m, "accept")
               /\ UNCHANGED <<mainVars, signalled, ctx, acceptErr, sock, closer,
                              pending, errCh, conn, home, reported, clean>>

\* time.Sleep(50ms), then Accept again, cancelled or not.
Backoff(m) == /\ Up /\ lpc[m] = "backoff"
              /\ Goto(m, "accept")
              /\ UNCHANGED <<mainVars, signalled, ctx, acceptErr, sock, closer,
                             pending, errCh, conn, home, reported, clean>>

\* wg.Wait() for the connections of m; runListener returns nil, its deferred
\* calls close the socket and the closer's channel.
Drain(m) == /\ Up /\ lpc[m] = "drain"
            /\ pending[m] = {}
            /\ Goto(m, "exit")
            /\ CloseSocket(m)
            /\ UNCHANGED <<mainVars, signalled, ctx, acceptErr, closer, pending,
                           errCh, home, reported, clean>>

Unwind_(m) == /\ Up /\ lpc[m] = "unwind"     \* no deferred ln.Close()
              /\ Goto(m, "check")
              /\ UNCHANGED <<mainVars, signalled, ctx, acceptErr, sock, closer,
                             pending, errCh, conn, home, reported, clean>>

\* An Accept error is returned past wg.Wait(); the deferred calls still run.
Unwind(m) == /\ Up /\ lpc[m] = "unwind"
             /\ Goto(m, "check")
             /\ CloseSocket(m)
             /\ UNCHANGED <<mainVars, signalled, ctx, acceptErr, closer, pending,
                            errCh, home, reported, clean>>

CheckCtx_(m) ==           \* no ctx.Err() test
    /\ Up /\ lpc[m] = "check"
    /\ Goto(m, "send")
    /\ reported' = reported \cup {m}
    /\ UNCHANGED <<mainVars, signalled, ctx, acceptErr, sock, closer, pending,
                   errCh, conn, home, clean>>

\* Run's goroutine has an error of runListener: it counts only when the
\* context is still live.
CheckCtx(m) ==
    /\ Up /\ lpc[m] = "check"
    /\ IF ctx = "live"
       THEN Goto(m, "send") /\ reported' = reported \cup {m}
       ELSE Goto(m, "exit") /\ UNCHANGED reported
    /\ UNCHANGED <<mainVars, signalled, ctx, acceptErr, sock, closer, pending,
                   errCh, conn, home, clean>>

SendErr_(m) ==            \* make(chan error, 1)
    /\ Up /\ lpc[m] = "send"
    /\ Goto(m, "cancel")
    /\ IF mpc = "parked"
       THEN mpc' = "collect" /\ result' = m /\ UNCHANGED errCh
       ELSE /\ errCh' = IF errCh = <<>> THEN <<m>> ELSE errCh
            /\ UNCHANGED <<mpc, result>>
    /\ UNCHANGED <<log, signalled, ctx, acceptErr, sock, closer, pending,
                   conn, home, reported, clean>>

\* The non-blocking send: a parked main receives the error itself, a late
\* one finds it in the buffer, and a full buffer loses it.
SendErr(m) ==
    /\ Up /\ lpc[m] = "send"
    /\ Goto(m, "cancel")
    /\ IF mpc = "parked"
       THEN mpc' = "collect" /\ result' = m /\ UNCHANGED errCh
       ELSE /\ errCh' = IF Len(errCh) < Cardinality(Modes)
                        THEN Append(errCh, m) ELSE errCh
            /\ UNCHANGED <<mpc, result>>
    /\ UNCHANGED <<log, signalled, ctx, acceptErr, sock, closer, pending,
                   conn, home, reported, clean>>

\* cancel(), then the deferred wg.Done().
CancelCtx(m) == /\ Up /\ lpc[m] = "cancel"
                /\ ctx' = "done"
                /\ Goto(m, "exit")
                /\ UNCHANGED <<mainVars, signalled, acceptErr, sock, closer,
                               pending, errCh, conn, home, reported, clean>>

Closer_(m) ==             \* no ctx.Done() case
    /\ Up /\ closer[m] = "waiting"
    /\ lpc[m] \in {"check", "send", "cancel", "exit"}
    /\ closer' = [closer EXCEPT ![m] = "gone"]
    /\ UNCHANGED <<mainVars, signalled, ctx, lpc, acceptErr, sock, pending,
                   errCh, conn, home, reported, clean>>

\* The closer goroutine takes whichever of ctx.Done and done is ready.
Closer(m) ==
    /\ Up /\ closer[m] = "waiting"
    /\ closer' = [closer EXCEPT ![m] = "gone"]
    /\ \/ ctx = "done" /\ CloseSocket(m)
       \/ lpc[m] \in {"check", "send", "cancel", "exit"} /\ UNCHANGED <<sock, conn>>
    /\ UNCHANGED <<mainVars, signalled, ctx, lpc, acceptErr, pending, errCh,
                   home, reported, clean>>
-----------------------------------------------------------------------------
(* Connections: the client's side, and the goroutine around serveConn.     *)

Dial(c) == /\ Up /\ conn[c] = "new" /\ sock[home[c]] = "open"
           /\ conn' = [conn EXCEPT ![c] = "backlog"]
           /\ UNCHANGED <<mainVars, signalled, ctx, listenerVars, errCh, home,
                          reported, clean>>

Serve(c) == /\ Up /\ conn[c] = "spawned"
            /\ conn' = [conn EXCEPT ![c] = "serving"]
            /\ UNCHANGED <<mainVars, signalled, ctx, listenerVars, errCh, home,
                           reported, clean>>

\* serveConn returns, and with it the deferred wg.Done().
Finish(c) == /\ Up /\ conn[c] = "serving"
             /\ conn' = [conn EXCEPT ![c] = "done"]
             /\ pending' = [pending EXCEPT ![home[c]] = @ \ {c}]
             /\ UNCHANGED <<mainVars, signalled, ctx, lpc, acceptErr, sock,
                            closer, errCh, home, reported, clean>>

\* The process has ended; nothing of it runs any more.
Terminated == ~Up /\ UNCHANGED vars
-----------------------------------------------------------------------------
MainStep == \/ LoadConfig \/ NewServer \/ Select \/ WakeOnDone \/ Collect
            \/ AfterRun \/ CloseServer

ListenerStep(m) == \/ Listen(m) \/ AcceptFails(m) \/ HandleAcceptErr(m)
                   \/ Backoff(m) \/ Drain(m) \/ Unwind(m) \/ CheckCtx(m)
                   \/ SendErr(m) \/ CancelCtx(m) \/ Closer(m)
                   \/ \E c \in Conns : AcceptConn(m, c)

ConnStep(c) == Dial(c) \/ Serve(c) \/ Finish(c)

Next == \/ MainStep \/ Signal \/ Terminated
        \/ \E m \in Modes : ListenerStep(m)
        \/ \E c \in Conns : ConnStep(c)

\* What the goroutine of m does by itself, and its return from a blocked Accept.
Work(m) == \/ Listen(m) \/ HandleAcceptErr(m) \/ Backoff(m) \/ Drain(m)
           \/ Unwind(m) \/ CheckCtx(m) \/ SendErr(m) \/ CancelCtx(m)
Wake(m) == sock[m] = "closed" /\ AcceptFails(m)

\* Every goroutine that can run is scheduled, and serveConn returns: its reads
\* and writes carry deadlines, and it is assumed here that its CGI programs end
\* (module CGIRun says when the code does not see to that).  A blocked Accept
\* returns once the socket is closed, and it cannot miss waiting clients for
\* ever: a shortage the system calls temporary ends.  Clients, signals and
\* failures owe nothing.
MainRuns == WF_vars(MainStep)
ListenerRuns(m) == /\ WF_vars(Work(m)) /\ WF_vars(Wake(m)) /\ WF_vars(Closer(m))
                   /\ SF_vars(\E c \in Conns : AcceptConn(m, c))
ConnRuns(c) == WF_vars(Serve(c)) /\ WF_vars(Finish(c))
ListenersRun == \A m \in Modes : ListenerRuns(m)
ConnsRun == \A c \in Conns : ConnRuns(c)

Fairness == MainRuns /\ ListenersRun /\ ConnsRun

Spec == Init /\ [][Next]_vars
FairSpec == Spec /\ Fairness
-----------------------------------------------------------------------------
TypeOK == /\ mpc \in MainPC
          /\ log \in {"none", "open", "closed"}
          /\ signalled \in BOOLEAN
          /\ ctx \in {"live", "done"}
          /\ lpc \in [Modes -> ListenerPC]
          /\ acceptErr \in [Modes -> AcceptErrs]
          /\ sock \in [Modes -> {"none", "open", "closed"}]
          /\ closer \in [Modes -> {"none", "waiting", "gone"}]
          /\ pending \in [Modes -> SUBSET Conns]
          /\ errCh \in Seq(Modes)
          /\ result \in Modes \cup {"pending", "nil"}
          /\ conn \in [Conns -> ConnStates]
          /\ home \in [Conns -> Modes]
          /\ reported \in SUBSET Modes
          /\ clean \in BOOLEAN

\* Run returns only when every accepted connection has been answered, except
\* the connections of a listener whose Accept failed for good: runListener
\* returns that error past wg.Wait().
AbandonedOnlyByFatalAccept ==
    Returned => \A c \in Conns : conn[c] \in {"spawned", "serving"}
                                    => acceptErr[home[c]] = "fatal"

\* A shutdown signal that cancels the context before any listener has
\* reported an error makes Run return nil, whatever bind and accept errors race with it: the
\* service manager must not see a failure and restart what it just stopped.
CleanStop == clean => /\ result \in {"pending", "nil"}
                      /\ mpc # "exit1"

\* No reported listener error is lost between the listener and Run: it is
\* about to be sent, waits in errCh, or is the one Run received.  The
\* buffer of one slot per listener is what makes the non-blocking send safe.
ErrorsNotDropped ==
    \A m \in reported : \/ lpc[m] = "send"
                        \/ \E i \in DOMAIN errCh : errCh[i] = m
                        \/ result = m

\* Run returns only after a signal, a failed bind or an Accept error that is
\* not temporary: running out of descriptors for a while never stops the daemon.
StopsOnlyForCause ==
    Returned => \/ signalled
                \/ \E m \in Modes : acceptErr[m] = "fatal" \/ sock[m] = "none"

\* When Run has returned no listening socket of it is left open, on whichever
\* of the paths of runListener each listener ended.
SocketsClosedOnReturn == Returned => \A m \in Modes : sock[m] # "open"

\* A listener error that was reported while the context was live reaches
\* main: Run does not return nil after one.
ListenerErrorIsReturned == Returned /\ reported # {} => result \in Modes

\* Once the context is cancelled the process ends, provided that every
\* serveConn returns: no goroutine of the shutdown waits for ever for another.
CancelLeadsToExit == (ctx = "done") ~> ~Up

\* A client in the backlog is accepted, or it is reset by the listener's
\* close or by the end of the process; a burst of temporary errors only
\* delays it.
QueuedIsSettled == \A c \in Conns : (conn[c] = "backlog") ~> (conn[c] # "backlog" \/ ~Up)
=============================================================================
