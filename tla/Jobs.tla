-------------------------------- MODULE Jobs --------------------------------
(***************************************************************************)
(* Job control of the shell benchmark (bench/dash/src/jobs.c).  A table of *)
(* jobs, which moves when it grows, is threaded by a list from the current *)
(* job to the oldest.  The kernel knows the children; the shell learns of  *)
(* them from SIGCHLD, which may come at any time, and from wait3.  Waiting *)
(* is modelled step by step, everything else between two waits is one step *)
(* of the shell: the children take no part in it.                          *)
(***************************************************************************)
EXTENDS Integers, Sequences, FiniteSetsExt, SequencesExt

CONSTANTS
  Pids,      \* bound: process ids, 1..n, given out in order
  Processes, \* how many processes a job may have
  TabGrow    \* how many slots growjobtab adds

ASSUME JobsAssumption ==
  /\ IsFiniteSet(Pids) /\ Pids = 1..Cardinality(Pids)
  /\ Processes \subseteq Nat \ {0}
  /\ TabGrow \in Nat \ {0}

VARIABLES
  jobtab,      \* the slots: [used, state, ps, psat, waited, jobctl, adrift]
  joblist,     \* curjob and what prev_job leads to: slots
  kids,        \* the kernel's view: [st, news]
  orphans,     \* children whose job was given up when a fork failed
  gotsigchld,
  pending_other, \* a signal other than SIGCHLD was caught
  blocked,     \* signals that came while all are blocked
  jobctl,
  jobpc,
  wait         \* dowait's arguments and variables: [block, job, rpid, then]

jobsVars == <<jobtab, joblist, kids, orphans, gotsigchld, pending_other,
              blocked, jobctl, jobpc, wait>>

NoJob == 0
NoWait == [block |-> "no", job |-> NoJob, rpid |-> TRUE, then |-> "show"]

Unused == [used |-> FALSE, state |-> "done", ps |-> <<>>, psat |-> 0,
           waited |-> FALSE, jobctl |-> FALSE, adrift |-> FALSE]

Children == {p \in Pids : kids[p].st \notin {"none", "gone"}}

-----------------------------------------------------------------------------
(* The table and the list, as one value js. *)

Jobs == [tab |-> jobtab, list |-> joblist]

Become_jobs(js) == jobtab' = js.tab /\ joblist' = js.list

\* The first that is p goes.
Without(list, p) == RemoveAt(list, Min({k \in DOMAIN list : list[k] = p}))

\* set_curjob, CUR_RUNNING: behind the stopped jobs it begins with.
Behind(js, p) ==
  LET rest == Without(js.list, p)
      n    == Min({k \in 0..Len(rest) :
                   k = Len(rest) \/ js.tab[rest[k + 1]].state # "stopped"})
  IN SubSeq(rest, 1, n) \o <<p>> \o SubSeq(rest, n + 1, Len(rest))

freejob(js, p) ==
  [js EXCEPT !.tab[p] = Unused, !.list = Without(js.list, p)]

\* growjobtab: the table has moved, so what points to slot i points to no slot,
\* which is written -i, until the pointer is moved as well; and a mutant that
\* forgets curjob.
Moved(p) == -p

jmove(p) == -p

MovesAllButCurjob(list) ==
  [k \in DOMAIN list |-> IF k = 1 THEN Moved(list[k]) ELSE jmove(Moved(list[k]))]

Relocated(list) == [k \in DOMAIN list |-> jmove(Moved(list[k]))]

growjobtab(js) ==
  [js EXCEPT
     !.list = Relocated(js.list),
     !.tab = [i \in DOMAIN js.tab |->
                [js.tab[i] EXCEPT !.psat = IF js.tab[i].psat = i THEN jmove(Moved(@)) ELSE @]]
             \o [i \in 1..TabGrow |-> Unused]]

\* A slot that makejob may take, and a mutant that takes what was waited for
\* although it is only stopped.
ReusableStopped(j) == ~j.used \/ (j.waited /\ ~jobctl)

Reusable(j) == ~j.used \/ (j.state = "done" /\ j.waited /\ ~jobctl)

\* makejob: the new job is curjob.  With the slots all in use the table grows
\* and may move.
makejob(n) ==
  LET free == {i \in DOMAIN jobtab : Reusable(jobtab[i])}
      Made(js, i) ==
        [tab  |-> [js.tab EXCEPT ![i] = [Unused EXCEPT !.used = TRUE, !.state = "running",
                                                       !.jobctl = jobctl,
                                                       !.psat = IF n > 1 THEN 0 ELSE i]],
         list |-> <<i>> \o js.list]
  IN IF free = {} THEN Made(growjobtab(Jobs), Len(jobtab) + 1)
     ELSE IF jobtab[Min(free)].used THEN Made(freejob(Jobs, Min(free)), Min(free))
     ELSE Made(Jobs, Min(free))

-----------------------------------------------------------------------------
JobsInit ==
  /\ jobtab = <<>> /\ joblist = <<>>
  /\ kids = [p \in Pids |-> [st |-> "none", news |-> FALSE]] /\ orphans = {}
  /\ gotsigchld = FALSE /\ pending_other = FALSE /\ blocked = {}
  /\ jobctl = FALSE
  /\ jobpc = "idle" /\ wait = NoWait

(* The kernel.  Every change of a child's state sends SIGCHLD. *)

\* sigblockall until sigclearmask, and a mutant that blocks nothing.
NotBlocking == FALSE

Blocking == jobpc \in {"check", "suspend"}

Signalled(signal) ==
  IF Blocking
  THEN blocked' = blocked \cup {signal} /\ UNCHANGED <<gotsigchld, pending_other>>
  ELSE /\ gotsigchld' = (gotsigchld \/ signal = "SIGCHLD")
       /\ pending_other' = (pending_other \/ signal = "other")
       /\ UNCHANGED blocked

Changes(p, st, news) ==
  /\ kids' = [kids EXCEPT ![p] = [st |-> st, news |-> news]]
  /\ Signalled("SIGCHLD")
  /\ UNCHANGED <<jobtab, joblist, orphans, jobctl, jobpc, wait>>

child_ends(p) == kids[p].st \in {"run", "stop"} /\ Changes(p, "end", TRUE)

child_stops(p) == kids[p].st = "run" /\ Changes(p, "stop", TRUE)

child_continues(p) == kids[p].st = "stop" /\ Changes(p, "run", FALSE)

\* Between two commands dotrap runs at once.
signal ==
  /\ jobpc # "idle" /\ wait.block \in {"wait", "all"} /\ ~pending_other /\ Signalled("other")
  /\ UNCHANGED <<jobtab, joblist, kids, orphans, jobctl, jobpc, wait>>

-----------------------------------------------------------------------------
(* Waiting. *)

\* dowait: nothing to do when it need not block and no SIGCHLD came.
dowait(js, block, job, then) ==
  LET b == IF job # NoJob /\ js.tab[job].state # "running" THEN "no" ELSE block
  IN /\ wait' = [block |-> b, job |-> job, rpid |-> TRUE, then |-> then]
     /\ jobpc' = IF b = "no" /\ ~gotsigchld THEN "return" ELSE "waitproc"

\* waitproc forgets the signals so far before it asks for children.
Resets == jobpc = "waitproc" /\ jobpc' = "wait3" /\ gotsigchld' = FALSE

waitproc ==
  /\ Resets
  /\ UNCHANGED <<jobtab, joblist, kids, orphans, pending_other, blocked,
                 jobctl, wait>>

\* What wait3 may report: under job control, stopped children, too.
Reportable == {p \in Children : kids[p].news /\ (kids[p].st = "stop" => jobctl)}

\* The state of a job by its processes, and a mutant that lets the last one
\* decide.
StateOfLast(ps) ==
  CASE ps[Len(ps)].status = "run"  -> "running"
    [] ps[Len(ps)].status = "stop" -> "stopped"
    [] OTHER -> "done"

StateOf(ps) ==
  IF \E k \in DOMAIN ps : ps[k].status = "run" THEN "running"
  ELSE IF \E k \in DOMAIN ps : ps[k].status = "stop" THEN "stopped"
  ELSE "done"

\* waitone: the job of pid that is not done, its process and its state.
Noted(js, pid, status) ==
  LET mine == {k \in DOMAIN js.list :
                 LET j == js.tab[js.list[k]]
                 IN j.state # "done" /\ \E q \in DOMAIN j.ps : j.ps[q].pid = pid}
      p    == js.list[Min(mine)]
      j    == js.tab[p]
      ps   == [q \in DOMAIN j.ps |-> IF j.ps[q].pid = pid THEN [pid |-> pid, status |-> status]
                                     ELSE j.ps[q]]
      now  == StateOf(ps)
      note == IF now = "running" THEN [j EXCEPT !.ps = ps]
              ELSE [j EXCEPT !.ps = ps, !.state = now]
  IN IF mine = {} THEN js
     ELSE [js EXCEPT !.tab[p] = note,
                     !.list = IF now = "stopped" /\ j.state # "stopped"
                              THEN <<p>> \o Without(js.list, p) ELSE js.list]

\* dowait does not block again for any child, nor for a job that is no longer
\* running; and a mutant that does not block again at all.
NeverAgain(block, js) == "no"

BlocksAgain(block, js) ==
  IF block = "all" \/ (wait.job # NoJob /\ js.tab[wait.job].state # "running")
  THEN "no" ELSE block

wait3_reports(p) ==
  /\ jobpc = "wait3" /\ p \in Reportable
  /\ \E js \in {Noted(Jobs, p, kids[p].st)} :
       Become_jobs(js) /\ wait' = [wait EXCEPT !.block = BlocksAgain(wait.block, js)]
  /\ kids' = [kids EXCEPT ![p] = [st |-> IF kids[p].st = "stop" THEN "stop" ELSE "gone",
                                  news |-> FALSE]]
  /\ jobpc' = "waitproc"
  /\ UNCHANGED <<orphans, gotsigchld, pending_other, blocked, jobctl>>

\* There is nothing to report.  For a job in the foreground wait3 sleeps, and
\* is called again when a signal interrupts it.
wait3_reports_nothing ==
  /\ jobpc = "wait3" /\ Reportable = {}
  /\ Children = {} \/ wait.block # "block"
  /\ jobpc' = IF Children = {} \/ wait.block = "no" THEN "return" ELSE "check"
  /\ UNCHANGED <<jobtab, joblist, kids, orphans, gotsigchld, pending_other,
                 blocked, jobctl, wait>>

\* The signals that were blocked come as they are unblocked.
Unblocked ==
  /\ gotsigchld' = (gotsigchld \/ "SIGCHLD" \in blocked)
  /\ pending_other' = (pending_other \/ "other" \in blocked)
  /\ blocked' = {}

\* All signals are blocked: nothing comes between the test and sigsuspend.
check_signals ==
  /\ jobpc = "check"
  /\ IF gotsigchld \/ pending_other
     THEN jobpc' = "unblocked" /\ Unblocked
     ELSE jobpc' = "suspend" /\ UNCHANGED <<gotsigchld, pending_other, blocked>>
  /\ UNCHANGED <<jobtab, joblist, kids, orphans, jobctl, wait>>

sigsuspend ==
  /\ jobpc = "suspend" /\ blocked # {}
  /\ jobpc' = "check" /\ Unblocked
  /\ UNCHANGED <<jobtab, joblist, kids, orphans, jobctl, wait>>

\* Without SIGCHLD it was another signal: waitproc returns 0, and dowait only
\* collects what is there.
waitproc_again ==
  /\ jobpc = "unblocked" /\ jobpc' = "waitproc"
  /\ wait' = IF gotsigchld THEN wait ELSE [wait EXCEPT !.rpid = FALSE, !.block = "no"]
  /\ UNCHANGED <<jobtab, joblist, kids, orphans, gotsigchld, pending_other,
                 blocked, jobctl>>

-----------------------------------------------------------------------------
(* Commands. *)

NextPid == Cardinality({p \in Pids : kids[p].st # "none"}) + 1

Forked(k) == [p \in Pids |-> IF p \in NextPid..NextPid + k - 1
                             THEN [st |-> "run", news |-> FALSE] ELSE kids[p]]

\* A command of n processes.
run(n, background) ==
  /\ jobpc = "idle" /\ NextPid + n - 1 \in Pids
  /\ kids' = Forked(n)
  /\ \E made \in {makejob(n)} :
       LET p  == made.list[1]
           js == [made EXCEPT !.tab[p].ps =
                    [k \in 1..n |-> [pid |-> NextPid + k - 1, status |-> "run"]]]
       IN IF background
          THEN /\ Become_jobs([js EXCEPT !.list = Behind(js, p)])
               /\ UNCHANGED <<jobpc, wait>>
          ELSE Become_jobs(js) /\ dowait(js, "block", p, "foreground")
  /\ UNCHANGED <<orphans, gotsigchld, pending_other, blocked, jobctl>>

\* forkparent after a failure: the job goes, the processes before it stay.
fork_fails(n, k) ==
  /\ jobpc = "idle" /\ k < n /\ NextPid + k - 1 \in Pids \cup {0}
  /\ kids' = Forked(k) /\ orphans' = orphans \cup (NextPid..NextPid + k - 1)
  /\ \E made \in {makejob(n)} : Become_jobs(freejob(made, made.list[1]))
  /\ UNCHANGED <<gotsigchld, pending_other, blocked, jobctl, jobpc, wait>>

\* forkchild: from here on the model is about the child, which has none.
forkchild ==
  /\ jobpc = "idle" /\ NextPid = Max(Pids)
  /\ \E made \in {makejob(1)} :
       Become_jobs(FoldLeft(freejob, made, made.list))
  /\ kids' = [p \in Pids |-> IF p <= NextPid THEN [st |-> "gone", news |-> FALSE] ELSE kids[p]]
  /\ jobctl' = FALSE /\ orphans' = {}
  /\ UNCHANGED <<gotsigchld, pending_other, blocked, jobpc, wait>>

\* set -m, where there is no job (a bound), and set +m; not in a subshell,
\* which forks no more here.
setjobctl(on) ==
  /\ jobpc = "idle" /\ NextPid \in Pids /\ on # jobctl /\ (on => joblist = <<>>)
  /\ jobctl' = on
  /\ UNCHANGED <<jobtab, joblist, kids, orphans, gotsigchld, pending_other, blocked,
                 jobpc, wait>>

\* fg of a job from before set +m: xtcsetpgrp has no terminal and fails, the
\* job counts as running by then.
fgcmd_fails(i) ==
  /\ jobpc = "idle" /\ jobtab[i].used /\ jobtab[i].jobctl /\ ~jobctl
  /\ jobtab[i].state # "done"
  /\ jobtab' = [jobtab EXCEPT ![i].state = "running", ![i].adrift = TRUE]
  /\ UNCHANGED <<joblist, kids, orphans, gotsigchld, pending_other, blocked, jobctl,
                 jobpc, wait>>

\* fg and bg.
fgcmd(i, background) ==
  /\ jobpc = "idle" /\ jobtab[i].used /\ jobtab[i].jobctl
  /\ background \/ jobctl \/ jobtab[i].state = "done"
  /\ LET listed == IF background THEN [Jobs EXCEPT !.list = Behind(Jobs, i)] ELSE Jobs
         pids   == {jobtab[i].ps[k].pid : k \in DOMAIN jobtab[i].ps}
         js     == [listed EXCEPT
                      !.tab[i].state = "running",
                      !.tab[i].ps = [k \in DOMAIN @ |-> IF @[k].status = "stop"
                                                        THEN [@[k] EXCEPT !.status = "run"] ELSE @[k]]]
         now    == IF jobtab[i].state = "done" THEN listed ELSE js
     IN /\ Become_jobs(now)
        /\ kids' = [p \in Pids |->
             IF jobtab[i].state # "done" /\ p \in pids /\ kids[p].st = "stop"
             THEN [st |-> "run", news |-> FALSE] ELSE kids[p]]
        /\ IF background THEN UNCHANGED <<jobpc, wait>>
           ELSE dowait(now, "block", i, "foreground")
  /\ UNCHANGED <<orphans, gotsigchld, pending_other, blocked, jobctl>>

\* jobs and the prompt: what is done has changed since it was last shown.
showjobs ==
  /\ jobpc = "idle" /\ dowait(Jobs, "no", NoJob, "show")
  /\ UNCHANGED <<jobtab, joblist, kids, orphans, gotsigchld, pending_other,
                 blocked, jobctl>>

\* wait.
waitcmd(i) ==
  /\ jobpc = "idle" /\ jobtab[i].used /\ dowait(Jobs, "wait", i, "wait")
  /\ UNCHANGED <<jobtab, joblist, kids, orphans, gotsigchld, pending_other,
                 blocked, jobctl>>

\* wait for all jobs: those before the first that runs have been waited for.
waitcmd_all ==
  /\ \/ jobpc = "idle"
     \/ jobpc = "return" /\ wait.then = "wait all" /\ wait.rpid
  /\ LET runs(k) == jobtab[joblist[k]].state = "running"
         seen    == {joblist[k] : k \in {k \in DOMAIN joblist : \A l \in 1..k : ~runs(l)}}
     IN /\ jobtab' = [i \in DOMAIN jobtab |->
                        IF i \in seen THEN [jobtab[i] EXCEPT !.waited = TRUE] ELSE jobtab[i]]
        /\ IF \E k \in DOMAIN joblist : runs(k)
           THEN dowait(Jobs, "all", NoJob, "wait all")
           ELSE jobpc' = "idle" /\ wait' = NoWait
  /\ pending_other' = (pending_other /\ jobpc' # "idle")
  /\ UNCHANGED <<joblist, kids, orphans, gotsigchld, blocked,
                 jobctl>>

\* showjob: a job that is done is shown once.
showjob(js, p) == IF js.tab[p].state = "done" THEN freejob(js, p) ELSE js

\* What follows dowait: the rest of waitforjob, showjobs and waitcmd.
dowait_returns ==
  /\ jobpc = "return" /\ ~(wait.then = "wait all" /\ wait.rpid)
  /\ jobpc' = "idle" /\ wait' = NoWait
  /\ pending_other' = FALSE
  /\ Become_jobs(CASE wait.then = "foreground" ->
                        IF jobtab[wait.job].state = "done" THEN freejob(Jobs, wait.job) ELSE Jobs
                   [] wait.then = "show" -> FoldLeft(showjob, Jobs, joblist)
                   [] wait.then = "wait" /\ wait.rpid ->
                        [Jobs EXCEPT !.tab[wait.job].waited = TRUE]
                   [] OTHER -> Jobs)
  /\ UNCHANGED <<kids, orphans, gotsigchld, blocked, jobctl>>

Waiting ==
  \/ waitproc \/ wait3_reports_nothing \/ (\E p \in Pids : wait3_reports(p))
  \/ check_signals \/ sigsuspend \/ waitproc_again
  \/ dowait_returns \/ (jobpc = "return" /\ waitcmd_all)

JobsNext ==
  \/ \E p \in Pids : child_ends(p) \/ child_stops(p) \/ child_continues(p)
  \/ signal
  \/ Waiting
  \/ \E n \in Processes, bg \in BOOLEAN : run(n, bg)
  \/ \E n \in Processes : \E k \in 0..n - 1 : fork_fails(n, k)
  \/ forkchild
  \/ \E i \in DOMAIN jobtab, bg \in BOOLEAN : fgcmd(i, bg)
  \/ \E on \in BOOLEAN : setjobctl(on)
  \/ \E i \in DOMAIN jobtab : fgcmd_fails(i)
  \/ showjobs
  \/ \E i \in DOMAIN jobtab : waitcmd(i)
  \/ jobpc = "idle" /\ waitcmd_all

-----------------------------------------------------------------------------
(* Properties. *)

(* curjob and prev_job lead to every job in use once and to no other, and  *)
(* ps points into the table or to memory of its own, wherever the table    *)
(* went when it grew (growjobtab, jobs.c:800).                             *)
JobListExact ==
  /\ ToSet(joblist) = {i : i \in {i \in DOMAIN jobtab : jobtab[i].used}}
  /\ \A k, l \in DOMAIN joblist : joblist[k] = joblist[l] => k = l
  /\ \A i \in DOMAIN jobtab :
       jobtab[i].used => jobtab[i].psat = IF Len(jobtab[i].ps) = 1 THEN i ELSE 0

(* A job runs as long as a process of it does, counts as stopped if none   *)
(* does but one is stopped, and is done otherwise: after fg and bg as after *)
(* every report, in whatever order the reports come (waitone).  A fg that   *)
(* failed leaves a job adrift.                                              *)
JobStateAgrees ==
  \A i \in DOMAIN jobtab :
    LET statuses == {jobtab[i].ps[q].status : q \in DOMAIN jobtab[i].ps}
    IN jobtab[i].used /\ ~jobtab[i].adrift =>
         /\ jobtab[i].state = "running" <=> "run" \in statuses
         /\ jobtab[i].state = "done" <=> statuses \subseteq {"end"}

(* No child is forgotten: until it has been reaped it is in a job that is  *)
(* not done, and not as one that has ended.  A slot is never given away    *)
(* while its processes are there, not even that of a stopped job that was  *)
(* waited for (makejob).  The exception is a pipeline whose fork failed.   *)
NoChildForgotten ==
  \A p \in Children \ orphans :
    \E i \in DOMAIN jobtab :
      /\ jobtab[i].used /\ jobtab[i].state # "done"
      /\ \E q \in DOMAIN jobtab[i].ps :
           jobtab[i].ps[q].pid = p /\ jobtab[i].ps[q].status # "end"

(* When dowait returns, the job it was called for runs no longer, unless a *)
(* signal cut the wait short: getstatus finds a status (jobs.c:1017).      *)
WaitedForJob ==
  jobpc = "return" /\ wait.then \in {"foreground", "wait"} /\ wait.rpid =>
    jobtab[wait.job].state # "running"

(* Every wait comes to an end, if every process does: no SIGCHLD is lost   *)
(* between the test for it and the sleep (waitproc, jobs.c:1188).          *)
WaitEnds == jobpc # "idle" ~> jobpc = "idle"

(* The table, its list and the children agree at every step (jobs.c).      *)
JobsSound ==
  /\ JobListExact
  /\ JobStateAgrees
  /\ NoChildForgotten
  /\ WaitedForJob
=============================================================================
