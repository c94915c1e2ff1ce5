------------------------------ MODULE CGIHelper ------------------------------
(***************************************************************************)
(* ExecCGIHelper: the steps between the start of the helper process and    *)
(* the program it becomes.  Each of them is a system call that may fail,   *)
(* and the helper then exits.                                              *)
(*                                                                         *)
(* Root, working directory and groups belong to the process (Setgroups     *)
(* acts on every thread); no_new_privs and the capabilities belong to a    *)
(* thread, and the Go scheduler may continue the goroutine on another one. *)
(* What the calls and the exec do is the kernel's, and external.           *)
(*                                                                         *)
(* A definition that ends in "_" is a faulty variant of the one after it.  *)
(***************************************************************************)

CONSTANT Launches   \* the credentials the helper may be started with

Capabilities == {"sys_chroot", "setgid"}
Processes == [uid : {"root", "other"}, root : {"host", "docroot"},
              cwd : {"host", "docroot"}, groups : SUBSET {"finger"}]
Threads   == [nnp : BOOLEAN, caps : SUBSET Capabilities, ambient : SUBSET Capabilities]

ASSUME HelperAssumption == Launches \subseteq [process : Processes, thread : Threads]

VARIABLES step,      \* the next call of ExecCGIHelper, or "none"
          process,   \* the credentials of the process
          thread,    \* those of the thread its goroutine runs on
          others,    \* those of its other threads
          moved      \* history: the goroutine has changed threads

helperVars == <<step, process, thread, others, moved>>

NoProcess == [uid |-> "other", root |-> "host", cwd |-> "host", groups |-> {}]
NoThread  == [nnp |-> FALSE, caps |-> {}, ambient |-> {}]

HelperInit == /\ step = "none" /\ process = NoProcess
              /\ thread = NoThread /\ others = NoThread /\ moved = FALSE

\* exec.Cmd starts the daemon's binary anew, which calls ExecCGIHelper.
Launch == /\ \E l \in Launches : /\ process' = l.process
                               /\ thread' = l.thread /\ others' = l.thread
          /\ step' = "chdir" /\ moved' = FALSE

Gone == /\ step' = "none" /\ process' = NoProcess
        /\ thread' = NoThread /\ others' = NoThread /\ moved' = FALSE

Then(from, to) == step = from /\ step' = to /\ UNCHANGED <<others, moved>>

Chdir == /\ Then("chdir", "chroot")
         /\ process' = [process EXCEPT !.cwd = "docroot"]
         /\ UNCHANGED thread

\* Chroot("."): the root becomes the working directory.
Chroot == /\ Then("chroot", "chdir_jail")
          /\ "sys_chroot" \in thread.caps
          /\ process' = [process EXCEPT !.root = process.cwd]
          /\ UNCHANGED thread

ChdirJail == /\ Then("chdir_jail", "no_new_privs")
             /\ process' = [process EXCEPT !.cwd = process.root]
             /\ UNCHANGED thread

SetNoNewPrivs == /\ Then("no_new_privs", "setgroups")
                 /\ thread' = [thread EXCEPT !.nnp = TRUE]
                 /\ UNCHANGED process

ClearGroups_ == /\ Then("setgroups", "ambient")     \* its failure is ignored
                /\ process' = IF "setgid" \in thread.caps
                              THEN [process EXCEPT !.groups = {}] ELSE process
                /\ UNCHANGED thread

ClearGroups == /\ Then("setgroups", "ambient")
               /\ "setgid" \in thread.caps
               /\ process' = [process EXCEPT !.groups = {}]
               /\ UNCHANGED thread

\* A kernel without ambient capabilities has none to clear: EINVAL is success.
ClearAmbient == /\ Then("ambient", "capset")
                /\ thread' = [thread EXCEPT !.ambient = {}]
                /\ UNCHANGED process

DropCaps == /\ Then("capset", "exec")
            /\ thread' = [thread EXCEPT !.caps = {}, !.ambient = {}]
            /\ UNCHANGED process

\* The goroutine goes on in a thread that has kept what it was started with.
Migrate == /\ step # "none" /\ ~moved /\ moved' = TRUE
           /\ thread' = others /\ others' = thread
           /\ UNCHANGED <<step, process>>

HelperStep == \/ Chdir \/ Chroot \/ ChdirJail \/ SetNoNewPrivs \/ ClearGroups
              \/ ClearAmbient \/ DropCaps \/ Migrate

\* execveat.  The program of root, or one whose file carries capabilities, is
\* offered them; no_new_privs limits it to those its process holds already.
Exec == /\ step = "exec"
        /\ \E fileCaps \in SUBSET Capabilities :
             LET offered == IF process.uid = "root" THEN Capabilities
                            ELSE thread.ambient \cup fileCaps
             IN  thread' = [thread EXCEPT !.caps = IF thread.nnp THEN offered \cap thread.caps
                                                   ELSE offered]
        /\ others' = thread' /\ step' = "none"
        /\ UNCHANGED <<process, moved>>

\* The program sees nothing above the document root and holds no group and
\* no privilege of the daemon, nor a way to one.
Jailed     == process.root = "docroot" /\ process.cwd = "docroot" /\ process.groups = {}
Privileged == ~thread.nnp \/ thread.caps # {} \/ thread.ambient # {}

HelperTypeOK ==
    /\ step \in {"none", "chdir", "chroot", "chdir_jail", "no_new_privs",
                 "setgroups", "ambient", "capset", "exec"}
    /\ process \in Processes /\ thread \in Threads /\ others \in Threads
    /\ moved \in BOOLEAN
=============================================================================
