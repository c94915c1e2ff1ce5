------------------------------- MODULE CGIRun -------------------------------
(***************************************************************************)
(* One execution of a CGI program by Server.runCGI: the helper process,    *)
(* which becomes the program, the processes the program forks, the pipes   *)
(* exec.Cmd copies into the two buffers, the context's deadline and the    *)
(* kill of the process group.                                              *)
(*                                                                         *)
(* The parts of os/exec that runCGI relies on (Start, the watcher that     *)
(* kills on the deadline, Wait, the copying goroutines) and the program's  *)
(* processes are external.  Names ending in an underscore are faulty       *)
(* variants, no part of Spec.                                              *)
(***************************************************************************)
EXTENDS Naturals, CGIHelper

CONSTANTS Kids,      \* the processes the program may fork
          Cap,       \* cfg.CGIMaxStdoutBytes
          MaxOut     \* bound of the model: how much the processes write

ASSUME CGIAssumption == Cap \in Nat \ {0} /\ MaxOut \in Nat

VARIABLES
    pc,         \* where runCGI is
    leader,     \* the process exec.Cmd started, the leader of its group
    status,     \* its exit status: "none", "zero" or "other"
    kid,        \* kid[k]: "none", "group" (alive in the group), "left", "dead"
    holds,      \* the live kids that hold a write end of stdout or stderr
    deadline,   \* the context's deadline has passed
    piped,      \* bytes in the stdout pipe
    stored,     \* bytes in the stdout buffer
    exceeded,   \* its exceeded flag
    wrote,      \* history: bytes written to stdout
    result      \* what runCGI returns

vars == <<pc, leader, status, kid, holds, deadline, piped, stored, exceeded,
          wrote, result, helperVars>>
outputVars == <<piped, stored, exceeded, wrote>>
processVars == <<leader, status, kid, holds>>

Results == {"absent", "refused", "timeout", "exceeded", "failed", "rejected", "body"}
Alive   == {"helper", "program"}
Live    == {k \in Kids : kid[k] \in {"group", "left"}}

Init == /\ pc = "open" /\ leader = "none" /\ status = "none"
        /\ kid = [k \in Kids |-> "none"] /\ holds = {}
        /\ deadline = FALSE
        /\ piped = 0 /\ stored = 0 /\ exceeded = FALSE /\ wrote = 0
        /\ result = "none"
        /\ HelperInit
-----------------------------------------------------------------------------
(* runCGI and the exec.Cmd it runs.                                        *)

Return(r) == pc' = "returned" /\ result' = r

\* openRegularExecNoFollow finds nothing, refuses the file, or opens it.
Open == /\ pc = "open"
        /\ \/ \E r \in {"absent", "refused"} : Return(r)
           \/ pc' = "start" /\ UNCHANGED result
        /\ UNCHANGED <<processVars, deadline, outputVars, helperVars>>

\* cmd.Start: the helper runs in a new process group, or does not start.
Start == /\ pc = "start"
         /\ \/ leader' = "helper" /\ pc' = "wait" /\ Launch /\ UNCHANGED status
            \/ status' = "other" /\ pc' = "check" /\ UNCHANGED <<leader, helperVars>>
         /\ UNCHANGED <<kid, holds, deadline, outputVars, result>>

WatcherKill_ ==     \* a signal that the process may ignore
    /\ pc = "wait" /\ deadline /\ leader \in Alive
    /\ UNCHANGED vars

\* The deadline passes: exec.CommandContext kills the leader, and only it.
WatcherKill == /\ pc = "wait" /\ deadline /\ leader \in Alive
               /\ leader' = "zombie" /\ status' = "other" /\ Gone
               /\ UNCHANGED <<pc, kid, holds, deadline, outputVars, result>>

Reap_ ==            \* the wait is given up at the deadline
    /\ pc = "wait" /\ (leader = "zombie" \/ deadline)
    /\ leader' = IF leader = "zombie" THEN "reaped" ELSE leader
    /\ pc' = "copy"
    /\ UNCHANGED <<status, kid, holds, deadline, outputVars, result, helperVars>>

\* cmd.Wait collects the leader, then waits for the copying goroutines.
Reap == /\ pc = "wait" /\ leader = "zombie"
        /\ leader' = "reaped"
        /\ pc' = "copy"
        /\ UNCHANGED <<status, kid, holds, deadline, outputVars, result, helperVars>>

CopyOutput_ ==      \* the copied bytes stay in the pipe
    /\ pc \in {"wait", "copy"} /\ piped > 0 /\ stored <= MaxOut
    /\ stored' = stored + piped
    /\ UNCHANGED <<pc, processVars, deadline, piped, exceeded, wrote, result, helperVars>>

\* io.Copy into the stdout buffer.  cappedBuffer embeds bytes.Buffer and so
\* has its ReadFrom, which io.Copy prefers: cappedBuffer.Write, which alone
\* looks at max and sets exceeded, is not called.
CopyOutput == /\ pc \in {"wait", "copy"} /\ piped > 0
              /\ stored' = stored + piped
              /\ piped' = 0
              /\ UNCHANGED <<pc, processVars, deadline, exceeded, wrote, result, helperVars>>

CopyEnds_ ==        \* only the leader's end of the pipe counts
    /\ pc = "copy"
    /\ pc' = "check"
    /\ UNCHANGED <<processVars, deadline, outputVars, result, helperVars>>

\* End of file on both pipes: no process holds a write end any more.
CopyEnds == /\ pc = "copy" /\ piped = 0 /\ holds = {}
            /\ pc' = "check"
            /\ UNCHANGED <<processVars, deadline, outputVars, result, helperVars>>

Check_ ==           \* Kill(pid), not Kill(-pid)
    /\ pc = "check"
    /\ IF deadline THEN Return("timeout")
       ELSE IF exceeded THEN Return("exceeded")
       ELSE IF status # "zero" THEN Return("failed")
       ELSE \E r \in {"body", "rejected"} : Return(r)
    /\ UNCHANGED <<processVars, deadline, outputVars, helperVars>>

\* What Run's return leads to.  Past the deadline the whole group is killed;
\* sanitizeBody may reject the output of a program that succeeded.
Check == /\ pc = "check"
         /\ IF deadline
            THEN /\ Return("timeout")
                 /\ kid' = [k \in Kids |-> IF kid[k] = "group" THEN "dead" ELSE kid[k]]
                 /\ holds' = {k \in holds : kid[k] = "left"}
            ELSE /\ IF exceeded THEN Return("exceeded")
                    ELSE IF status # "zero" THEN Return("failed")
                    ELSE \E r \in {"body", "rejected"} : Return(r)
                 /\ UNCHANGED <<kid, holds>>
         /\ UNCHANGED <<leader, status, deadline, outputVars, helperVars>>
-----------------------------------------------------------------------------
(* The clock, and the processes.                                           *)

Expire == /\ pc \in {"start", "wait", "copy", "check"} /\ ~deadline
          /\ deadline' = TRUE
          /\ UNCHANGED <<pc, processVars, outputVars, result, helperVars>>

\* ExecCGIHelper goes on, becomes the program, or fails at one of its steps.
Helper == /\ leader = "helper"
          /\ \/ HelperStep /\ UNCHANGED <<leader, status>>
             \/ Exec /\ leader' = "program" /\ UNCHANGED status
             \/ Gone /\ leader' = "zombie" /\ status' = "other"
          /\ UNCHANGED <<pc, kid, holds, deadline, outputVars, result>>

Exit == /\ leader = "program"
        /\ leader' = "zombie" /\ Gone
        /\ status' \in {"zero", "other"}
        /\ UNCHANGED <<pc, kid, holds, deadline, outputVars, result>>

\* The program or one of its kids writes to the inherited stdout.
Output == /\ leader = "program" \/ holds # {}
          /\ wrote < MaxOut
          /\ wrote' = wrote + 1 /\ piped' = piped + 1
          /\ UNCHANGED <<pc, processVars, deadline, stored, exceeded, result, helperVars>>

\* Fork: a kid inherits its parent's group and descriptors.
Fork(k) == /\ kid[k] = "none"
           /\ \/ /\ leader = "program"
                 /\ kid' = [kid EXCEPT ![k] = "group"]
                 /\ holds' = holds \cup {k}
              \/ \E p \in Live :
                    /\ kid' = [kid EXCEPT ![k] = kid[p]]
                    /\ holds' = IF p \in holds THEN holds \cup {k} ELSE holds
           /\ UNCHANGED <<pc, leader, status, deadline, outputVars, result, helperVars>>

\* A kid closes its descriptors, leaves the group (setsid), or exits.
Detach(k) == /\ k \in holds
             /\ holds' = holds \ {k}
             /\ UNCHANGED <<pc, leader, status, kid, deadline, outputVars, result, helperVars>>

Leave(k) == /\ kid[k] = "group"
            /\ kid' = [kid EXCEPT ![k] = "left"]
            /\ UNCHANGED <<pc, leader, status, holds, deadline, outputVars, result, helperVars>>

KidExit(k) == /\ k \in Live
              /\ kid' = [kid EXCEPT ![k] = "dead"]
              /\ holds' = holds \ {k}
              /\ UNCHANGED <<pc, leader, status, deadline, outputVars, result, helperVars>>

Ended == pc = "returned" /\ UNCHANGED vars
-----------------------------------------------------------------------------
ServerStep == \/ Open \/ Start \/ WatcherKill \/ Reap \/ CopyEnds \/ Check
ProcessStep == \/ Helper \/ Exit \/ Output
               \/ \E k \in Kids : Fork(k) \/ Detach(k) \/ Leave(k) \/ KidExit(k)

Next == ServerStep \/ CopyOutput \/ Expire \/ ProcessStep \/ Ended

Spec == Init /\ [][Next]_vars

\* The server's goroutines and the clock run; the program's processes owe
\* nothing.
FairSpec == Spec /\ WF_vars(ServerStep) /\ WF_vars(CopyOutput) /\ WF_vars(Expire)
-----------------------------------------------------------------------------
TypeOK == /\ pc \in {"open", "start", "wait", "copy", "check", "returned"}
          /\ leader \in {"none", "helper", "program", "zombie", "reaped"}
          /\ status \in {"none", "zero", "other"}
          /\ kid \in [Kids -> {"none", "group", "left", "dead"}]
          /\ holds \in SUBSET Kids
          /\ deadline \in BOOLEAN
          /\ piped \in 0..MaxOut /\ stored \in 0..MaxOut /\ wrote \in 0..MaxOut
          /\ exceeded \in BOOLEAN
          /\ result \in Results \cup {"none"}
          /\ HelperTypeOK

\* A body is the whole output: the program ended with status zero before the
\* deadline, and nothing that it or a process it left behind wrote to stdout
\* is missing.
BodyIsComplete == result = "body" => /\ status = "zero" /\ stored = wrote
                                     /\ holds = {} /\ ~(leader \in Alive)

\* After a timeout no process of the group is alive, whatever the program
\* forked meanwhile.
TimeoutKillsGroup == result = "timeout" => \A k \in Kids : kid[k] # "group"

\* runCGI leaves neither its process running nor a zombie behind.
LeaderIsReaped == pc = "returned" => leader \in {"none", "reaped"}

\* Once the deadline has passed, runCGI returns, as long as no forked process
\* sits on the pipes.
DeadlineEndsRun == (deadline /\ [](holds = {})) ~> (pc = "returned")

\* The program of a request runs in the document root with none of the
\* daemon's groups, and with no capability nor a way to gain one, whatever the
\* daemon was started with and at whatever step the helper failed.  The two
\* last are a thread's: they hold if the goroutine never changed threads.
ProgramIsConfined == leader = "program" => Jailed /\ (Privileged => moved)

\* The promise of cgi_timeout: once the deadline has passed, runCGI returns.
TimeoutIsEnforced == deadline ~> (pc = "returned")

\* The promise of cgi_max_stdout_bytes: a larger output is not served.
OutputCapIsEnforced == result = "body" => stored <= Cap
=============================================================================
