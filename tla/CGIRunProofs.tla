---------------------------- MODULE CGIRunProofs ----------------------------
(***************************************************************************)
(* Proofs about CGIRun for any number of forked processes and any bound on *)
(* their output, and any credentials the helper is started with.           *)
(***************************************************************************)
EXTENDS CGIRun, TLAPS

\* Where the processes and the output are at each place of runCGI.
RunInv ==
    /\ holds \subseteq Live
    /\ stored + piped = wrote
    /\ pc \in {"open", "start"} => leader = "none"
    /\ pc = "wait" => leader \in {"helper", "program", "zombie"}
    /\ pc = "copy" => leader = "reaped"
    /\ pc \in {"check", "returned"} => /\ leader \in {"none", "reaped"}
                                       /\ holds = {} /\ piped = 0
    /\ leader = "none" => wrote = 0 /\ \A k \in Kids : kid[k] = "none"
    /\ status = "zero" => leader \in {"zombie", "reaped"}
    /\ result # "none" => pc = "returned"
    /\ result = "body" => status = "zero"

IInv == TypeOK /\ RunInv /\ TimeoutKillsGroup

\* What each step of a CGI execution may do to the credentials.
HelperChange == Launch \/ Gone \/ HelperStep \/ Exec \/ UNCHANGED helperVars

\* The steps of ExecCGIHelper keep credentials credentials.
LEMMA HelperTyped == HelperTypeOK /\ HelperChange => HelperTypeOK'
<1> SUFFICES ASSUME HelperTypeOK, HelperChange PROVE HelperTypeOK'
  OBVIOUS
<1> USE DEF HelperTypeOK, Processes, Threads, Capabilities, Then
<1>1. CASE Launch
  <2>1. PICK l \in Launches : process' = l.process /\ thread' = l.thread /\ others' = l.thread
    BY <1>1 DEF Launch
  <2>2. l \in [process : Processes, thread : Threads]
    BY HelperAssumption
  <2>3. process' \in Processes /\ thread' \in Threads /\ others' \in Threads
    BY <2>1, <2>2, Zenon
  <2> QED  BY <1>1, <2>3 DEF Launch
<1>2. CASE Gone           BY <1>2 DEF Gone, NoProcess, NoThread
<1>3. CASE Chdir          BY <1>3 DEF Chdir
<1>4. CASE Chroot         BY <1>4 DEF Chroot
<1>5. CASE ChdirJail      BY <1>5 DEF ChdirJail
<1>6. CASE SetNoNewPrivs  BY <1>6 DEF SetNoNewPrivs
<1>7. CASE ClearGroups    BY <1>7 DEF ClearGroups
<1>8. CASE ClearAmbient   BY <1>8 DEF ClearAmbient
<1>9. CASE DropCaps       BY <1>9 DEF DropCaps
<1>10. CASE Migrate       BY <1>10 DEF Migrate
<1>11. CASE Exec          BY <1>11 DEF Exec
<1>12. CASE UNCHANGED helperVars  BY <1>12 DEF helperVars
<1> QED  BY <1>1, <1>2, <1>3, <1>4, <1>5, <1>6, <1>7, <1>8, <1>9, <1>10, <1>11,
            <1>12 DEF HelperChange, HelperStep

\* Every step of a CGI execution changes the credentials in one of these ways.
LEMMA StepChange == [Next]_vars => HelperChange
<1> SUFFICES ASSUME [Next]_vars PROVE HelperChange
  OBVIOUS
<1> USE DEF HelperChange
<1>1. CASE Start        BY <1>1 DEF Start
<1>2. CASE WatcherKill  BY <1>2 DEF WatcherKill
<1>3. CASE Helper       BY <1>3 DEF Helper
<1>4. CASE Exit         BY <1>4 DEF Exit
<1>5. CASE UNCHANGED helperVars  BY <1>5
<1> QED  BY <1>1, <1>2, <1>3, <1>4, <1>5
         DEF Next, ServerStep, ProcessStep, vars, Open, Reap, CopyOutput, CopyEnds,
             Check, Expire, Output, Fork, Detach, Leave, KidExit, Ended

\* IInv is preserved by every step.
LEMMA InvStep == IInv /\ [Next]_vars => IInv'
<1> SUFFICES ASSUME IInv, [Next]_vars PROVE IInv'
  OBVIOUS
<1>0. HelperTypeOK'  BY HelperTyped, StepChange DEF IInv, TypeOK
<1> USE <1>0, CGIAssumption DEF IInv, TypeOK, RunInv, TimeoutKillsGroup, Live, Alive,
        Results, Return, processVars, outputVars
<1>1. CASE Open         BY <1>1 DEF Open
<1>2. CASE Start        BY <1>2 DEF Start
<1>3. CASE WatcherKill  BY <1>3 DEF WatcherKill
<1>4. CASE Reap         BY <1>4 DEF Reap
<1>5. CASE CopyEnds     BY <1>5 DEF CopyEnds
<1>6. CASE Check
  <2>1. CASE deadline   BY <1>6, <2>1 DEF Check
  <2>2. CASE ~deadline  BY <1>6, <2>2 DEF Check
  <2> QED  BY <2>1, <2>2
<1>7. CASE CopyOutput   BY <1>7 DEF CopyOutput
<1>8. CASE Expire       BY <1>8 DEF Expire
<1>9. CASE Helper       BY <1>9 DEF Helper
<1>10. CASE Exit        BY <1>10 DEF Exit
<1>11. CASE Output      BY <1>11 DEF Output
<1>12. ASSUME NEW k \in Kids, Fork(k) PROVE IInv'     BY <1>12 DEF Fork
<1>13. ASSUME NEW k \in Kids, Detach(k) PROVE IInv'   BY <1>13 DEF Detach
<1>14. ASSUME NEW k \in Kids, Leave(k) PROVE IInv'    BY <1>14 DEF Leave
<1>15. ASSUME NEW k \in Kids, KidExit(k) PROVE IInv'  BY <1>15 DEF KidExit
<1>16. CASE UNCHANGED vars  BY <1>16 DEF vars
<1> QED  BY <1>1, <1>2, <1>3, <1>4, <1>5, <1>6, <1>7, <1>8, <1>9, <1>10, <1>11,
            <1>12, <1>13, <1>14, <1>15, <1>16
         DEF Next, ServerStep, ProcessStep, Ended

\* IInv holds in every state.
THEOREM CGIInductive == Spec => []IInv
<1>1. Init => IInv
  <2> SUFFICES ASSUME Init PROVE IInv
    OBVIOUS
  <2>1. 0 \in 0..MaxOut  BY CGIAssumption
  <2>2. kid \in [Kids -> {"none", "group", "left", "dead"}]  BY DEF Init
  <2>3. HelperTypeOK
    BY DEF Init, HelperInit, HelperTypeOK, NoProcess, NoThread, Processes, Threads
  <2>4. TypeOK  BY <2>1, <2>2, <2>3 DEF Init, TypeOK, Results
  <2>5. RunInv /\ TimeoutKillsGroup
    BY DEF Init, RunInv, TimeoutKillsGroup, Live
  <2> QED  BY <2>4, <2>5 DEF IInv
<1> QED  BY <1>1, InvStep, PTL DEF Spec

\* Every reachable state of a CGI execution is correctly typed.
THEOREM CGITypeCorrect == Spec => []TypeOK
BY CGIInductive, PTL DEF IInv

\* A body that runCGI returns is the whole output of a successful program.
THEOREM WholeBody == Spec => []BodyIsComplete
<1>1. IInv => BodyIsComplete
  BY DEF IInv, TypeOK, RunInv, BodyIsComplete, Alive
<1> QED  BY <1>1, CGIInductive, PTL

\* After a timeout no process of the CGI program's group is alive.
THEOREM GroupKilled == Spec => []TimeoutKillsGroup
BY CGIInductive, PTL DEF IInv

\* runCGI never returns with its process running or unreaped.
THEOREM NoZombie == Spec => []LeaderIsReaped
<1>1. IInv => LeaderIsReaped
  BY DEF IInv, RunInv, LeaderIsReaped
<1> QED  BY <1>1, CGIInductive, PTL
-----------------------------------------------------------------------------
\* What the steps taken so far have done to the credentials.
AfterChdir  == {"chroot", "chdir_jail", "no_new_privs", "setgroups", "ambient", "capset", "exec"}
AfterChroot == AfterChdir \ {"chroot"}
AfterNNP    == {"setgroups", "ambient", "capset", "exec"}
HelperInv ==
    /\ leader = "helper" <=> step # "none"
    /\ step \in AfterChdir => process.cwd = "docroot"
    /\ step \in AfterChroot => process.root = "docroot"
    /\ step \in AfterNNP \ {"setgroups"} => process.groups = {}
    /\ ~moved => /\ step \in AfterNNP => thread.nnp
                 /\ step \in {"capset", "exec"} => thread.ambient = {}
                 /\ step = "exec" => thread.caps = {}
    /\ ProgramIsConfined

\* HelperInv is preserved by every step of the helper itself.
LEMMA ConfineHelper == IInv /\ HelperInv /\ Helper => HelperInv'
<1> SUFFICES ASSUME IInv, HelperInv, Helper PROVE HelperInv'
  OBVIOUS
<1> USE DEF IInv, TypeOK, HelperTypeOK, HelperInv, ProgramIsConfined, Jailed, Privileged,
        AfterChdir, AfterChroot, AfterNNP, Helper, Then, Processes, Threads
<1>2. CASE Gone /\ leader' = "zombie"      BY <1>2 DEF Gone
<1>3. CASE Chdir /\ leader' = leader          BY <1>3 DEF Chdir
<1>4. CASE Chroot /\ leader' = leader         BY <1>4 DEF Chroot
<1>5. CASE ChdirJail /\ leader' = leader      BY <1>5 DEF ChdirJail
<1>6. CASE SetNoNewPrivs /\ leader' = leader  BY <1>6 DEF SetNoNewPrivs
<1>7. CASE ClearGroups /\ leader' = leader    BY <1>7 DEF ClearGroups
<1>8. CASE ClearAmbient /\ leader' = leader   BY <1>8 DEF ClearAmbient
<1>9. CASE DropCaps /\ leader' = leader       BY <1>9 DEF DropCaps
<1>10. CASE Migrate /\ leader' = leader       BY <1>10 DEF Migrate
<1>11. CASE Exec /\ leader' = "program"    BY <1>11 DEF Exec
<1> QED  BY <1>2, <1>3, <1>4, <1>5, <1>6, <1>7, <1>8, <1>9, <1>10, <1>11 DEF HelperStep

\* The program starts jailed and without privileges, whatever the daemon was
\* started with and wherever the helper failed.
THEOREM Confined == Spec => []ProgramIsConfined
<1>1. Init => HelperInv
  BY DEF Init, HelperInit, HelperInv, AfterChdir, AfterChroot, AfterNNP, ProgramIsConfined
<1>2. IInv /\ HelperInv /\ [Next]_vars => HelperInv'
  <2> SUFFICES ASSUME IInv, HelperInv, [Next]_vars PROVE HelperInv'
    OBVIOUS
  <2> USE DEF HelperInv, ProgramIsConfined, Jailed, Privileged
  <2>1. CASE Start
    BY <2>1 DEF Start, Launch, AfterChdir, AfterChroot, AfterNNP, helperVars
  <2>2. CASE WatcherKill  BY <2>2 DEF WatcherKill, Gone, AfterChdir, AfterChroot, AfterNNP
  <2>3. CASE Exit         BY <2>3 DEF Exit, Gone, AfterChdir, AfterChroot, AfterNNP
  <2>4. CASE Reap         BY <2>4 DEF Reap, helperVars
  <2>5. CASE Helper       BY <2>5, ConfineHelper
  <2>6. CASE UNCHANGED <<leader, helperVars>>  BY <2>6 DEF helperVars
  <2> QED  BY <2>1, <2>2, <2>3, <2>4, <2>5, <2>6
           DEF Next, ServerStep, ProcessStep, vars, Open, CopyOutput, CopyEnds, Check,
               Expire, Output, Fork, Detach, Leave, KidExit, Ended, processVars
<1>3. HelperInv => ProgramIsConfined
  BY DEF HelperInv
<1> QED  BY <1>1, <1>2, <1>3, CGIInductive, PTL DEF Spec
-----------------------------------------------------------------------------
(* Past its deadline a run ends.  The provers know nothing of ENABLED: the *)
(* guards of the two fair actions are spelled out here, and that a guard   *)
(* which holds lets its action be taken is a hypothesis of the theorem.    *)

\* When the goroutine of runCGI, and one that copies, has a step to take.
CanServe == \/ pc \in {"open", "start", "check"}
            \/ pc = "wait" /\ leader = "zombie"
            \/ pc = "wait" /\ leader \in Alive /\ deadline
            \/ pc = "copy" /\ piped = 0 /\ holds = {}
CanCopy  == pc \in {"wait", "copy"} /\ piped > 0

\* TLC finds this true, and the guards exact, in every state of CGIRun.cfg.
GuardsSuffice == /\ CanServe => ENABLED <<ServerStep>>_vars
                 /\ CanCopy => ENABLED <<CopyOutput>>_vars

\* Weak fairness with such guards.
ServerRuns == []<>~CanServe \/ []<><<ServerStep>>_vars
CopierRuns == []<>~CanCopy \/ []<><<CopyOutput>>_vars

\* Where a run stands once its deadline has passed.
Starting == pc = "start"
Running  == pc = "wait" /\ leader \in Alive
Killed   == pc = "wait" /\ leader = "zombie"
Copying  == pc = "copy" /\ piped > 0
Copied   == pc = "copy" /\ piped = 0
Checking == pc = "check"
Over     == pc = "returned"

\* A run that has a deadline has begun, and stands at one of these places.
LateInv == deadline => pc # "open"

\* A run past its deadline stands at one of these places.
LEMMA LateStands ==
    ASSUME IInv, LateInv, deadline
    PROVE  Starting \/ Running \/ Killed \/ Copying \/ Copied \/ Checking \/ Over
BY CGIAssumption DEF IInv, TypeOK, RunInv, LateInv, Starting, Running, Killed, Copying, Copied,
       Checking, Over, Alive

\* Past the deadline and with nobody on the pipes a run stays where it is or
\* goes on, never back.
LEMMA LateGoesOn ==
    ASSUME IInv, deadline, holds = {}, [Next]_vars
    PROVE  /\ deadline'
           /\ Starting => Starting' \/ Running' \/ Checking'
           /\ Running  => Running' \/ Killed'
           /\ Killed   => Killed' \/ Copying' \/ Copied'
           /\ Copying  => Copying' \/ Copied'
           /\ Copied   => Copied' \/ Checking'
           /\ Checking => Checking' \/ Over'
<1> USE CGIAssumption DEF Starting, Running, Killed, Copying, Copied, Checking, Over, Alive,
        IInv, TypeOK, RunInv, Return
<1>1. CASE Open         BY <1>1 DEF Open
<1>2. CASE Start        BY <1>2 DEF Start
<1>3. CASE WatcherKill  BY <1>3 DEF WatcherKill
<1>4. CASE Reap         BY <1>4 DEF Reap, outputVars
<1>5. CASE CopyEnds     BY <1>5 DEF CopyEnds
<1>6. CASE Check        BY <1>6 DEF Check
<1>7. CASE CopyOutput   BY <1>7 DEF CopyOutput, processVars
<1>8. CASE Expire       BY <1>8 DEF Expire
<1>9. CASE Helper       BY <1>9 DEF Helper, outputVars
<1>10. CASE Exit        BY <1>10 DEF Exit, outputVars
<1>11. CASE Output      BY <1>11 DEF Output, processVars
<1>12. CASE \E k \in Kids : Fork(k) \/ Detach(k) \/ Leave(k) \/ KidExit(k)
  <2>1. UNCHANGED <<pc, leader, deadline, piped>>
    BY <1>12 DEF Fork, Detach, Leave, KidExit, outputVars
  <2> QED  BY <2>1
<1>13. CASE UNCHANGED vars  BY <1>13 DEF vars
<1> QED  BY <1>1, <1>2, <1>3, <1>4, <1>5, <1>6, <1>7, <1>8, <1>9, <1>10, <1>11, <1>12,
            <1>13 DEF Next, ServerStep, ProcessStep, Ended

\* Each step of the server, or of the copier where that is waited for, does
\* take the run on.
LEMMA LateAdvances ==
    ASSUME IInv, deadline, holds = {}
    PROVE  /\ ServerStep => /\ Starting => Running' \/ Checking'
                            /\ Running => Killed'
                            /\ Killed => Copying' \/ Copied'
                            /\ Copied => Checking'
                            /\ Checking => Over'
           /\ CopyOutput => (Copying => Copied')
<1> USE CGIAssumption DEF Starting, Running, Killed, Copying, Copied, Checking, Over, Alive,
        IInv, TypeOK, RunInv, Return
<1>1. ASSUME ServerStep
      PROVE  /\ Starting => Running' \/ Checking'
             /\ Running => Killed'
             /\ Killed => Copying' \/ Copied'
             /\ Copied => Checking'
             /\ Checking => Over'
  <2>1. CASE Open         BY <2>1 DEF Open
  <2>2. CASE Start        BY <2>2 DEF Start
  <2>3. CASE WatcherKill  BY <2>3 DEF WatcherKill
  <2>4. CASE Reap         BY <2>4 DEF Reap, outputVars
  <2>5. CASE CopyEnds     BY <2>5 DEF CopyEnds
  <2>6. CASE Check        BY <2>6 DEF Check
  <2> QED  BY <1>1, <2>1, <2>2, <2>3, <2>4, <2>5, <2>6 DEF ServerStep
<1>2. CopyOutput => (Copying => Copied')
  BY DEF CopyOutput
<1> QED  BY <1>1, <1>2

\* A run whose two goroutines go on whenever their guards hold ends.
LEMMA LateRunGoesOn == Spec /\ ServerRuns /\ CopierRuns => DeadlineEndsRun
<1> DEFINE Late == IInv /\ deadline /\ holds = {}
<1>1. Spec => []IInv  BY CGIInductive
<1>2. Spec => []LateInv
  <2>1. Init => LateInv  BY DEF Init, LateInv
  <2>2. LateInv /\ [Next]_vars => LateInv'
    BY DEF LateInv, Next, ServerStep, ProcessStep, Open, Start, WatcherKill, Reap, CopyEnds,
           Check, CopyOutput, Expire, Helper, Exit, Output, Fork, Detach, Leave, KidExit,
           Ended, vars, Return
  <2> QED  BY <2>1, <2>2, PTL DEF Spec
<1>3. /\ Starting => CanServe
      /\ Running /\ deadline => CanServe
      /\ Killed => CanServe
      /\ Copying => CanCopy
      /\ Copied /\ holds = {} => CanServe
      /\ Checking => CanServe
  <2>1. Starting => CanServe              BY DEF Starting, CanServe
  <2>2. Running /\ deadline => CanServe   BY DEF Running, CanServe
  <2>3. Killed => CanServe                BY DEF Killed, CanServe
  <2>4. Copying => CanCopy                BY DEF Copying, CanCopy
  <2>5. Copied /\ holds = {} => CanServe  BY DEF Copied, CanServe
  <2>6. Checking => CanServe              BY DEF Checking, CanServe
  <2> QED  BY <2>1, <2>2, <2>3, <2>4, <2>5, <2>6
<1>4. Late /\ [Next]_vars =>
           /\ deadline'
           /\ Starting => Starting' \/ Running' \/ Checking'
           /\ Running  => Running' \/ Killed'
           /\ Killed   => Killed' \/ Copying' \/ Copied'
           /\ Copying  => Copying' \/ Copied'
           /\ Copied   => Copied' \/ Checking'
           /\ Checking => Checking' \/ Over'
  BY LateGoesOn
<1>5. Late /\ ServerStep => /\ Starting => Running' \/ Checking'
                            /\ Running => Killed'
                            /\ Killed => Copying' \/ Copied'
                            /\ Copied => Checking'
                            /\ Checking => Over'
  BY LateAdvances
<1>6. Late /\ CopyOutput => (Copying => Copied')
  BY LateAdvances
<1>7. IInv /\ LateInv /\ deadline =>
           Starting \/ Running \/ Killed \/ Copying \/ Copied \/ Checking \/ Over
  BY LateStands
<1> DEFINE G == /\ [][Next]_vars /\ []IInv /\ []LateInv /\ ServerRuns /\ CopierRuns
                /\ deadline /\ [](holds = {})
<1>8. G => []Late /\ []LateInv
  BY <1>4, PTL DEF ServerRuns, CopierRuns
<1>9. G => [](Checking => <>Over)
  BY <1>3, <1>4, <1>5, <1>8, PTL DEF ServerRuns, CopierRuns
<1>10. G => [](Copied => <>Checking)
  BY <1>3, <1>4, <1>5, <1>8, PTL DEF ServerRuns, CopierRuns
<1>11. G => [](Copying => <>Copied)
  BY <1>3, <1>4, <1>6, <1>8, PTL DEF ServerRuns, CopierRuns
<1>12. G => [](Killed => <>(Copying \/ Copied))
  BY <1>3, <1>4, <1>5, <1>8, PTL DEF ServerRuns, CopierRuns
<1>13. G => [](Running => <>Killed)
  BY <1>3, <1>4, <1>5, <1>8, PTL DEF ServerRuns, CopierRuns
<1>14. G => [](Starting => <>(Running \/ Checking))
  BY <1>3, <1>4, <1>5, <1>8, PTL DEF ServerRuns, CopierRuns
<1>15. G => <>Over
  BY <1>7, <1>8, <1>9, <1>10, <1>11, <1>12, <1>13, <1>14, PTL
<1> QED  BY <1>1, <1>2, <1>15, PTL DEF Spec, ServerRuns, CopierRuns, DeadlineEndsRun, Over

\* runCGI returns once its deadline has passed and nobody holds its pipes any
\* more, if the goroutine of runCGI and the copying one are scheduled: the
\* kill, the wait and the copying goroutines cannot wait for one another.
THEOREM LateRunEnds == FairSpec /\ []GuardsSuffice => DeadlineEndsRun
<1>1. GuardsSuffice => /\ CanServe => ENABLED <<ServerStep>>_vars
                       /\ CanCopy => ENABLED <<CopyOutput>>_vars
  BY DEF GuardsSuffice
<1>2. WF_vars(ServerStep) /\ []GuardsSuffice => ServerRuns
  BY <1>1, PTL DEF ServerRuns
<1>3. WF_vars(CopyOutput) /\ []GuardsSuffice => CopierRuns
  BY <1>1, PTL DEF CopierRuns
<1> QED  BY <1>2, <1>3, LateRunGoesOn, PTL DEF FairSpec
=============================================================================
