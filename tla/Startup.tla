------------------------------ MODULE Startup ------------------------------
(***************************************************************************)
(* The process from its configuration file to its end, as far as files are *)
(* concerned: config.Load line by line, server.New with the two log files  *)
(* and the key pair, Run with goroutines that log, and Close.  What Run    *)
(* does meanwhile is the subject of module Lifecycle.                      *)
(*                                                                         *)
(* A definition that ends in "_" is a faulty variant of the one after it,  *)
(* kept to show that a property would notice the fault.                    *)
(***************************************************************************)
EXTENDS Config, Logger

CONSTANT ConfigFiles    \* the configuration files the daemon may be given

\* A line without a value is malformed, so no value is empty.
ASSUME StartupAssumption ==
    ConfigFiles \subseteq Seq([key : STRING, value : [word : STRING \ {""}, num : Int]])

VARIABLES stage,      \* where main is, or how the process ended
          source,     \* the lines of the configuration file
          lineNo,     \* how many of them have been read
          cfg,        \* the Config that Load builds
          seen,       \* the required keys that have occurred
          modes       \* what Run listens for

configVars == <<source, lineNo, cfg, seen>>
vars == <<stage, configVars, modes, loggerVars>>

Loading == {"open", "scan"}
Opening == {"errorLog", "accessLog", "keys"}
Started == {"serving", "stopping", "runFailed", "exit0"}
Ended   == {"unreadable", "loadFailed", "initFailed", "runFailed", "exit0"}

Init == /\ stage = "open"
        /\ source \in ConfigFiles
        /\ lineNo = 0 /\ cfg = Default /\ seen = {} /\ modes = {}
        /\ LoggerInit
-----------------------------------------------------------------------------
(* config.Load.                                                            *)

OpenConfig == /\ stage = "open"
              /\ stage' \in {"scan", "unreadable"}
              /\ UNCHANGED <<configVars, modes, loggerVars>>

\* One line: it is skipped, applied, or the end of the attempt.
ReadLine == /\ stage = "scan" /\ lineNo < Len(source)
            /\ LET l == source[lineNo + 1]
               IN  \/ /\ ApplyLine(cfg, l) = {}
                      /\ stage' = "loadFailed"
                      /\ UNCHANGED <<cfg, seen>>
                   \/ /\ cfg' \in ApplyLine(cfg, l)
                      /\ seen' = seen \cup ({l.key} \cap Required)
                      /\ UNCHANGED stage
            /\ lineNo' = lineNo + 1
            /\ UNCHANGED <<source, modes, loggerVars>>

FinishLoad_ == /\ stage = "scan" /\ lineNo = Len(source)     \* no Validate
               /\ stage' = IF Required \subseteq seen THEN "errorLog" ELSE "loadFailed"
               /\ UNCHANGED <<configVars, modes, loggerVars>>

\* The required keys occurred, and the Config as a whole makes sense.
FinishLoad == /\ stage = "scan" /\ lineNo = Len(source)
              /\ stage' = IF Required \subseteq seen /\ Validate(cfg)
                          THEN "errorLog" ELSE "loadFailed"
              /\ UNCHANGED <<configVars, modes, loggerVars>>
-----------------------------------------------------------------------------
(* server.New: OpenLogger, then the key pair.  Either may fail.            *)

OpenErrorLog ==
    /\ stage = "errorLog"
    /\ \/ ~cfg.log_errors /\ stage' = "accessLog" /\ UNCHANGED loggerVars
       \/ cfg.log_errors /\ stage' = "accessLog" /\ OpenLog("error.log")
       \/ cfg.log_errors /\ stage' = "initFailed" /\ UNCHANGED loggerVars
    /\ UNCHANGED <<configVars, modes>>

CloseLogs == handle' = CloseAll
             /\ UNCHANGED <<file, mutex, callVars, content>>

OpenAccessLog_ ==   \* the error log is left open
    /\ stage = "accessLog"
    /\ \/ ~cfg.log_requests /\ stage' = "keys" /\ UNCHANGED loggerVars
       \/ cfg.log_requests /\ stage' = "keys" /\ OpenLog("access.log")
       \/ cfg.log_requests /\ stage' = "initFailed" /\ UNCHANGED loggerVars
    /\ UNCHANGED <<configVars, modes>>

\* When the second file does not open the first is closed.
OpenAccessLog ==
    /\ stage = "accessLog"
    /\ \/ ~cfg.log_requests /\ stage' = "keys" /\ UNCHANGED loggerVars
       \/ cfg.log_requests /\ stage' = "keys" /\ OpenLog("access.log")
       \/ cfg.log_requests /\ stage' = "initFailed" /\ CloseLogs
    /\ UNCHANGED <<configVars, modes>>

\* The key pair, if TLS is enabled; without it the logger is closed again.
LoadKeyPair ==
    /\ stage = "keys"
    /\ \/ /\ stage' = "serving"
          /\ modes' = ListenerModes(cfg)
          /\ UNCHANGED loggerVars
       \/ /\ TLSEnabled(cfg)
          /\ stage' = "initFailed"
          /\ Close
          /\ UNCHANGED modes
    /\ UNCHANGED configVars
-----------------------------------------------------------------------------
(* Run and what follows it.                                                *)

\* An error of Run exits at once, past the deferred Close.
RunReturns == /\ stage = "serving"
              /\ stage' \in {"stopping", "runFailed"}
              /\ UNCHANGED <<configVars, modes, loggerVars>>

CloseServer == /\ stage = "stopping"
               /\ Close
               /\ stage' = "exit0"
               /\ UNCHANGED <<configVars, modes>>

\* Goroutines of Run log, those that Run did not wait for included.
Running == stage \in {"serving", "stopping"}
LogCall(w) == /\ Running
              /\ \E f \in Files, s \in Texts : Call(w, f, s)
              /\ UNCHANGED <<stage, configVars, modes>>
LogStep(w) == Running /\ WriterStep(w) /\ UNCHANGED <<stage, configVars, modes>>

Terminated == stage \in Ended /\ UNCHANGED vars
-----------------------------------------------------------------------------
MainStep == \/ OpenConfig \/ ReadLine \/ FinishLoad \/ OpenErrorLog
            \/ OpenAccessLog \/ LoadKeyPair

Next == \/ MainStep \/ RunReturns \/ CloseServer \/ Terminated
        \/ \E w \in Writers : LogCall(w) \/ LogStep(w)

Spec == Init /\ [][Next]_vars

\* Goroutines that can run do, system calls return, and sync.Mutex serves
\* whoever has waited long enough.
Fairness == /\ WF_vars(MainStep) /\ SF_vars(CloseServer)
            /\ \A w \in Writers : WF_vars(LogStep(w)) /\ SF_vars(LogStep(w) /\ at[w] = "lock")
FairSpec == Spec /\ Fairness
-----------------------------------------------------------------------------
TypeOK == /\ stage \in Loading \cup Opening \cup Started \cup Ended
          /\ source \in ConfigFiles /\ lineNo \in 0..Len(source)
          /\ DOMAIN cfg = DOMAIN Default /\ seen \subseteq Required
          /\ LoggerTypeOK

\* What a file means, said without reading it in order.
Setting(key)  == {i \in DOMAIN source : source[i].key = key}
LastOf(S, key) == IF S = {} THEN Default[key]
                  ELSE CHOOSE v \in Parsed(key, source[Max(S)].value) : TRUE
Final(key)    == LastOf(Setting(key), key)
Stated        == [key \in DOMAIN Default |->
                    IF key = "tls_cgi_enable_set" THEN Setting("tls_cgi_enable") # {}
                    ELSE Final(key)]
WellFormed(l) == \/ l.key = "skip"
                 \/ l.key \in Allowed /\ Parsed(l.key, l.value) # {}
Acceptable    == /\ \A i \in DOMAIN source : WellFormed(source[i])
                 /\ \A key \in Required : Setting(key) # {}
                 /\ Validate(Stated)

\* Load accepts exactly the files whose lines are all well formed, which name
\* the required keys and whose last values pass Validate; the Config holds
\* the last value of every key and the default of every other one, in
\* whatever order the lines come.
LoadMeansFile ==
    /\ stage \in Opening \cup Started \cup {"initFailed"} => Acceptable /\ cfg = Stated
    /\ stage = "loadFailed" => ~Acceptable

\* The daemon that comes to serve has something to listen for: ports that
\* can be bound together, absolute roots, files for the certificate, an
\* absolute place for its logs; and every deadline lies in the future and is
\* the one the file states, unless that one overflows.
StartedConfigIsSound ==
    stage \in Started =>
        /\ modes # {}
        /\ \A m \in modes : /\ m.port \in 1..MaxPort /\ m.docRoot \in AbsPaths
                            /\ m.tls => cfg.tls_cert \in AbsPaths /\ cfg.tls_key \in AbsPaths
        /\ \A m, n \in modes : m.port = n.port => m = n
        /\ (\E f \in Files : handle[f] # "none") => cfg.log_root \in AbsPaths
        /\ \A key \in Timeouts :
              /\ cfg[key] > 0
              /\ Setting(key) # {} =>
                   LET n == source[Max(Setting(key))].value.num
                   IN  n * Milli <= MaxInt => cfg[key] = n * Milli

\* fingers:// uses its own document root and CGI switch exactly when the file
\* sets them, and those of finger:// otherwise, wherever in the file they are.
FingersFallsBack ==
    \A m \in modes : m.tls =>
        /\ m.docRoot = Final(IF Setting("tls_doc_root") = {} THEN "doc_root"
                             ELSE "tls_doc_root")
        /\ m.cgi = Final(IF Setting("tls_cgi_enable") = {} THEN "cgi_enable"
                         ELSE "tls_cgi_enable")

\* An attempt to start that fails in server.New leaves no log file open,
\* nor does a clean end; a daemon that serves has opened what it is to write.
LogsMatchStage ==
    /\ stage \in {"initFailed", "exit0"} => \A f \in Files : handle[f] # "open"
    /\ stage \in Started => /\ handle["error.log"] = "none" <=> ~cfg.log_errors
                            /\ handle["access.log"] = "none" <=> ~cfg.log_requests

\* Entries of all goroutines, cut short by a full disk or not, reach the
\* files one after another, and none after the close.
ImplementsLogFile == Promise!Spec

\* Every call of the logger returns, and so does the final Close, unless the
\* process ends first.
LogCallsReturn ==
    /\ \A w \in Writers : (at[w] = "lock") ~> (at[w] = "idle" \/ stage \in Ended)
    /\ (stage = "stopping") ~> (stage = "exit0")
=============================================================================
