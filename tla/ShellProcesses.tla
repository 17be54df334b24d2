--------------------------- MODULE ShellProcesses ---------------------------
(***************************************************************************)
(* What the shell benchmark (bench/dash) shares with the system it runs    *)
(* on, part by part: its jobs, its descriptors, its signals, what it reads *)
(* and the commands it finds.  The models of the parts share no state, so  *)
(* a behaviour is about one of them: processpart says which, and the       *)
(* others rest.                                                            *)
(***************************************************************************)
EXTENDS Jobs, Redir, Trap, Input, Exec

VARIABLE processpart

processesVars == <<processpart, jobsVars, redirVars, trapVars, inputVars, execVars>>

ProcessesInit ==
  /\ processpart \in {"jobs", "redir", "trap", "input", "exec"}
  \* What rests begins in one way.
  /\ JobsInit
  /\ RedirInit /\ (processpart # "redir" => fds[0] = None)
  /\ TrapInit /\ (processpart # "trap" => shell.i /\ \A s \in Signals : found[s] = "dfl")
  /\ InputInit
  /\ ExecInit /\ (processpart # "exec" => builtincmd = "no" /\ files = {}
                                           /\ cwd = CHOOSE dir \in Dirs : TRUE)

InJobs(A) == /\ processpart = "jobs" /\ A
             /\ UNCHANGED <<processpart, redirVars, trapVars, inputVars, execVars>>

JobsStep == InJobs(JobsNext)

RedirStep == /\ processpart = "redir" /\ RedirNext
             /\ UNCHANGED <<processpart, jobsVars, trapVars, inputVars, execVars>>

TrapStep == /\ processpart = "trap" /\ TrapNext
            /\ UNCHANGED <<processpart, jobsVars, redirVars, inputVars, execVars>>

InputStep == /\ processpart = "input" /\ InputNext
             /\ UNCHANGED <<processpart, jobsVars, redirVars, trapVars, execVars>>

ExecStep == /\ processpart = "exec" /\ ExecNext
            /\ UNCHANGED <<processpart, jobsVars, redirVars, trapVars, inputVars>>

ProcessesNext == JobsStep \/ RedirStep \/ TrapStep \/ InputStep \/ ExecStep

(* The shell goes on with what it waits for, and every process ends.       *)
ProcessesFairness ==
  /\ WF_jobsVars(InJobs(Waiting))
  /\ \A p \in Pids : WF_jobsVars(InJobs(child_ends(p)))

ProcessesSpec == ProcessesInit /\ [][ProcessesNext]_processesVars /\ ProcessesFairness
=============================================================================
