------------------------------- MODULE Daemon -------------------------------
(***************************************************************************)
(* The daemon process (polarsclaw/daemon, polarsclaw/cli/daemon.py): the   *)
(* commands start, stop and status over the PID file, the processes they   *)
(* fork and signal, and the life of a daemon: it writes the file, opens    *)
(* the database with the other processes, builds the application, binds    *)
(* the port of the gateway and serves until it is told to stop.            *)
(*                                                                         *)
(* Process ids are not reused in the model.                                *)
(***************************************************************************)
EXTENDS Storage

CONSTANTS
    Daemons,  \* daemon processes, each started at most once
    Command,  \* calls of the command line
    NoPid     \* no process id

ASSUME DaemonsAssumption == Daemons \subseteq Process /\ NoPid \notin Process

VARIABLES
    pidFile,  \* the process id in the PID file
    daemon,   \* how far each daemon is
    told,     \* the daemons whose handler has had SIGTERM
    command,  \* each call: where it is and the process id it has read
    hasty     \* history: a command began before the last one was settled

procVars == <<pidFile, daemon, told, command, hasty>>
vars == <<dbVars, procVars>>

TypeOK ==
    /\ DbTypeOK
    /\ pidFile \in Daemons \cup {NoPid}
    /\ daemon \in [Daemons -> {"none", "forked", "loading", "building", "built",
                               "serving", "ending", "dead"}]
    /\ told \in SUBSET Daemons
    /\ command \in [Command ->
         [pc : {"new", "fork", "term", "poll", "kill", "unlink", "done"},
          pid : Daemons \cup {NoPid}]]
    /\ hasty \in BOOLEAN

Init ==
    /\ DbInit
    /\ pidFile = NoPid
    /\ daemon = [d \in Daemons |-> "none"]
    /\ told = {}
    /\ command = [c \in Command |-> [pc |-> "new", pid |-> NoPid]]
    /\ hasty = FALSE

(* _pid_exists *)
Exists(pid) == pid # NoPid /\ daemon[pid] \notin {"none", "dead"}

Go(c, pc, pid) ==
    command' = [command EXCEPT ![c] =
        [pc |-> pc, pid |-> IF pc = "done" THEN NoPid ELSE pid]]

Underway == {c \in Command : command[c].pc \notin {"new", "done"}}

(* A call that starts while another is under way, or before the daemon of  *)
(* an earlier start has written its process id, is hasty.                  *)
Begin(c) ==
    /\ command[c].pc = "new"
    /\ hasty' = (hasty \/ Underway # {} \/ \E d \in Daemons : daemon[d] = "forked")

(* The process of d is gone, and its connection with it.                   *)
Gone(d) ==
    /\ daemon' = [daemon EXCEPT ![d] = "dead"]
    /\ IF conn[d] = Closed THEN UNCHANGED dbVars ELSE Close(d)

-----------------------------------------------------------------------------
(* daemon start *)

StartCheck(c) ==
    /\ Begin(c)
    /\ Go(c, IF Exists(pidFile) THEN "done" ELSE "fork", pidFile)
    /\ UNCHANGED <<dbVars, pidFile, daemon, told>>

(* Two forks; the command ends, while the grandchild has yet to write.     *)
Fork(c) ==
    /\ command[c].pc = "fork"
    /\ \E d \in Daemons :
         /\ daemon[d] = "none"
         /\ daemon' = [daemon EXCEPT ![d] = "forked"]
    /\ Go(c, "done", NoPid)
    /\ UNCHANGED <<dbVars, pidFile, told, hasty>>

(* daemon stop and daemon status *)

StopCheck(c) ==
    /\ Begin(c)
    /\ Go(c, IF Exists(pidFile) THEN "term" ELSE "unlink", pidFile)
    /\ UNCHANGED <<dbVars, pidFile, daemon, told>>

StatusCheck(c) ==
    /\ Begin(c)
    /\ Go(c, IF Exists(pidFile) \/ pidFile = NoPid THEN "done" ELSE "unlink", pidFile)
    /\ UNCHANGED <<dbVars, pidFile, daemon, told>>

(* SIGTERM: before run_daemon has set its handler it ends the process; if  *)
(* the process is gone the command ends with an exception.                 *)
Term(c) ==
    LET d == command[c].pid IN
    /\ command[c].pc = "term"
    /\ Go(c, IF Exists(d) THEN "poll" ELSE "done", d)
    /\ IF Exists(d) /\ daemon[d] \in {"forked", "loading"}
       THEN Gone(d) /\ UNCHANGED told
       ELSE /\ told' = IF Exists(d) THEN told \cup {d} ELSE told
            /\ UNCHANGED <<dbVars, daemon>>
    /\ UNCHANGED <<pidFile, hasty>>

(* The process is found gone within 50 polls ...                           *)
Polled(c) ==
    /\ command[c].pc = "poll"
    /\ ~Exists(command[c].pid)
    /\ Go(c, "unlink", command[c].pid)
    /\ UNCHANGED <<dbVars, pidFile, daemon, told, hasty>>

(* Mutant of PollsOver: the command gives up, as if the daemon had ended.  *)
GiveUp(c) ==
    /\ command[c].pc = "poll"
    /\ Go(c, "unlink", command[c].pid)
    /\ UNCHANGED <<dbVars, pidFile, daemon, told, hasty>>

(* ... or it is killed.                                                    *)
PollsOver(c) ==
    /\ command[c].pc = "poll"
    /\ Exists(command[c].pid)
    /\ Go(c, "kill", command[c].pid)
    /\ UNCHANGED <<dbVars, pidFile, daemon, told, hasty>>

Kill(c) ==
    LET d == command[c].pid IN
    /\ command[c].pc = "kill"
    /\ IF Exists(d) THEN Gone(d) ELSE UNCHANGED <<dbVars, daemon>>
    /\ Go(c, "unlink", d)
    /\ UNCHANGED <<pidFile, told, hasty>>

(* _cleanup_pid removes the file, whatever it holds by now.                *)
Unlink(c) ==
    /\ command[c].pc = "unlink"
    /\ pidFile' = NoPid
    /\ Go(c, "done", NoPid)
    /\ UNCHANGED <<dbVars, daemon, told, hasty>>

-----------------------------------------------------------------------------
(* The daemon *)

Step(d, from, to) == daemon[d] = from /\ daemon' = [daemon EXCEPT ![d] = to]

(* Mutant of WritePid: the process id start printed, the first child's.    *)
WriteChildPid(d) ==
    /\ Step(d, "forked", "loading")
    /\ pidFile' = "child"
    /\ UNCHANGED <<dbVars, told, command, hasty>>

(* Mutant of WritePid: only if there is no file.                           *)
WritePidOnce(d) ==
    /\ Step(d, "forked", "loading")
    /\ pidFile' = IF pidFile = NoPid THEN d ELSE pidFile
    /\ UNCHANGED <<dbVars, told, command, hasty>>

WritePid(d) ==
    /\ Step(d, "forked", "loading")
    /\ pidFile' = d
    /\ UNCHANGED <<dbVars, told, command, hasty>>

(* run_daemon sets its signal handlers, then builds the application.       *)
SetHandlers(d) ==
    /\ Step(d, "loading", "building")
    /\ UNCHANGED <<dbVars, pidFile, told, command, hasty>>

OpenDatabase(d) ==
    /\ daemon[d] = "building"
    /\ Initialize(d)
    /\ UNCHANGED procVars

(* The rest of build_app, which may also fail (Crash).                     *)
Build(d) ==
    /\ conn[d].pc = "open"
    /\ Step(d, "building", "built")
    /\ UNCHANGED <<dbVars, pidFile, told, command, hasty>>

(* The gateway binds its port; uvicorn ends the process if it is taken.    *)
Bind(d) ==
    /\ daemon[d] = "built"
    /\ IF \E e \in Daemons : daemon[e] = "serving"
       THEN Gone(d)
       ELSE Step(d, "built", "serving") /\ UNCHANGED dbVars
    /\ UNCHANGED <<pidFile, told, command, hasty>>

(* shutdown_event is set: the tasks are cancelled, the port is free ...    *)
ShutDown(d) ==
    /\ d \in told
    /\ \/ Step(d, "built", "ending")
       \/ Step(d, "serving", "ending")
    /\ UNCHANGED <<dbVars, pidFile, told, command, hasty>>

(* ... and cleanup_app closes the database; the file stays.                *)
CleanUp(d) ==
    /\ daemon[d] = "ending"
    /\ Gone(d)
    /\ UNCHANGED <<pidFile, told, command, hasty>>

(* The daemon fails or is killed from outside.                             *)
Crash(d) ==
    /\ Exists(d)
    /\ Gone(d)
    /\ UNCHANGED <<pidFile, told, command, hasty>>

(* Any other process that opens and closes the database.                   *)
Other(p) ==
    /\ Initialize(p) \/ Close(p)
    /\ UNCHANGED procVars

-----------------------------------------------------------------------------
Commands(c) ==
    \/ StartCheck(c) \/ Fork(c) \/ StopCheck(c) \/ StatusCheck(c)
    \/ Term(c) \/ Polled(c) \/ PollsOver(c) \/ Kill(c) \/ Unlink(c)

Lives(d) ==
    \/ WritePid(d) \/ SetHandlers(d) \/ OpenDatabase(d) \/ Build(d) \/ Bind(d)
    \/ ShutDown(d) \/ CleanUp(d) \/ Crash(d)

Next ==
    \/ \E c \in Command : Commands(c)
    \/ \E d \in Daemons : Lives(d)
    \/ \E p \in Process \ Daemons : Other(p)

(* A command that was called goes on: it is not waiting for anybody.       *)
Fairness ==
    \A c \in Command :
        WF_vars(Fork(c) \/ Term(c) \/ Polled(c) \/ PollsOver(c) \/ Kill(c) \/ Unlink(c))

Spec == Init /\ [][Next]_vars /\ Fairness

-----------------------------------------------------------------------------
(* Properties *)

(* Between commands that wait for each other, a daemon that runs is the    *)
(* one the PID file names, so status and stop find it, and no second one   *)
(* runs beside it, whatever dies when.                                     *)
RunningIsNamed ==
    ~hasty /\ Underway = {} =>
        \A d \in Daemons : Exists(d) => daemon[d] = "forked" \/ pidFile = d

(* A daemon that a stop waits for is gone in the end, also                 *)
(* when SIGTERM meets it while it starts, hangs or cleans up.              *)
StopEnds ==
    \A d \in Daemons : (\E c \in Command : command[c].pc = "poll" /\ command[c].pid = d)
                         ~> ~Exists(d)

(* The inductive invariant of StartupProofs: as long as commands wait for  *)
(* each other, at most one is under way, it acts on the process the file   *)
(* names, or on nobody, and at most one daemon lives.                      *)
ProcTypeOK ==
    /\ pidFile \in Daemons \cup {NoPid}
    /\ daemon \in [Daemons -> {"none", "forked", "loading", "building", "built",
                               "serving", "ending", "dead"}]
    /\ command \in [Command ->
         [pc : {"new", "fork", "term", "poll", "kill", "unlink", "done"},
          pid : Daemons \cup {NoPid}]]

OneLives ==
    /\ \A d, e \in Daemons : Exists(d) /\ Exists(e) => d = e
    /\ \A d \in Daemons : Exists(d) => daemon[d] = "forked" \/ pidFile = d

OneActs ==
    /\ \A c, b \in Underway : c = b
    /\ \A c \in Underway :
         /\ \A d \in Daemons : daemon[d] # "forked"
         /\ command[c].pc \in {"term", "poll", "kill"} => command[c].pid = pidFile
         /\ command[c].pc \in {"fork", "unlink"} => \A d \in Daemons : ~Exists(d)

PidInv == ProcTypeOK /\ (~hasty => OneLives /\ OneActs)
=============================================================================
