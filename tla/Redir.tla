------------------------------- MODULE Redir --------------------------------
(***************************************************************************)
(* Redirections of the shell benchmark (bench/dash/src/redir.c) and the    *)
(* file descriptors they move.  Every group or builtin with redirections   *)
(* pushes a table that says where the descriptors it takes are saved, and  *)
(* pops it when it ends; exec makes them permanent; an error undoes them;  *)
(* a subshell forgets the tables it inherits, not the copies they made.    *)
(***************************************************************************)
EXTENDS Integers, Sequences, FiniteSetsExt, SequencesExt

CONSTANTS
  Low,       \* how many descriptors scripts can name (10)
  MaxFd,     \* bound: descriptors in all
  Files,     \* what scripts open
  MaxFrames  \* bound: nested redirections, one less in a subshell and around it

None == "none"

\* There are descriptors enough: whatever the tables of a subshell save, on
\* top of what its parent's saved, one is free.
ASSUME RedirAssumption ==
  /\ Low \in Nat \ {0} /\ MaxFrames \in Nat
  /\ MaxFd \in Nat /\ MaxFd > Low /\ MaxFd >= Low + Low * (2 * MaxFrames)
  /\ None \notin Files

VARIABLES
  fds,           \* the kernel's table: what is open at each descriptor
  redirlist,     \* the redirtabs, innermost last; .before is what .renamed stands for
  closed_redirs, \* the descriptors redirections have closed
  redirphase,    \* redirecting, running the body, or at the start of a subshell
  overlooked,    \* descriptors a subshell opened while they counted as closed
  inherited,     \* the copies a subshell has from the tables it has forgotten
  forked         \* bound: one subshell

redirVars == <<fds, redirlist, closed_redirs, redirphase, overlooked, inherited, forked>>

EMPTY == -2
CLOSED == -1
LowFds == 0..Low - 1

Lowest(tab, from) == Min({fd \in from..MaxFd : tab[fd] = None} \cup {MaxFd})

RedirTop == Last(redirlist)

\* The copies that the tables in force have made.
Saves == {sv.renamed[fd] : sv \in ToSet(redirlist), fd \in LowFds} \ {EMPTY, CLOSED}

-----------------------------------------------------------------------------
\* update_closed_redirs: what it leaves; and a mutant that never unmarks.
OnlyMarks(closed, fd, nfd) == IF nfd >= 0 THEN closed ELSE closed \cup {fd}

Marked(closed, fd, nfd) == IF nfd >= 0 THEN closed \ {fd} ELSE closed \cup {fd}

\* Whether the descriptor must be saved: only the first time it is taken, and
\* a mutant that saves it every time.
SavesAgain(sv, fd, newfd) == fd # newfd /\ fd \notin closed_redirs

SavesFd(sv, fd, newfd) ==
  sv.renamed[fd] = EMPTY /\ fd # newfd /\ fd \notin closed_redirs

\* redirect, one redirection of the list, with REDIR_PUSH: newfd (-1: close it)
\* is open in tab already; opened says that dupredirect closes it afterwards.
Redirected(tab, fd, newfd, opened) ==
  LET saved == Lowest(tab, Low)
      saves == SavesFd(RedirTop, fd, newfd) /\ tab[fd] # None
      moved == IF saves THEN [tab EXCEPT ![saved] = tab[fd], ![fd] = None] ELSE tab
      file  == IF newfd >= 0 THEN tab[newfd] ELSE None
  IN [fds     |-> IF fd = newfd THEN moved
                  ELSE [d \in DOMAIN tab |-> IF d = fd THEN file
                                             ELSE IF d = newfd /\ opened THEN None ELSE moved[d]],
      renamed |-> IF saves THEN saved
                  ELSE IF RedirTop.renamed[fd] = EMPTY THEN CLOSED ELSE RedirTop.renamed[fd],
      before  |-> IF RedirTop.renamed[fd] = EMPTY THEN fds[fd] ELSE RedirTop.before[fd]]

Redirect(fd, newfd, tab, opened) ==
  /\ \E r \in {Redirected(tab, fd, newfd, opened)} :
       /\ fds' = r.fds
       /\ redirlist' = [redirlist EXCEPT ![Len(redirlist)] =
                          [renamed |-> [@.renamed EXCEPT ![fd] = r.renamed],
                           before  |-> [@.before EXCEPT ![fd] = r.before]]]
  /\ closed_redirs' = Marked(closed_redirs, fd, newfd)
  /\ UNCHANGED <<redirphase, overlooked, inherited, forked>>

\* popredir of the innermost table: what remains open; and a mutant that for
\* exec leaves the copies open.
PoppedKeepsCopies(tab, closed, sv, drop) ==
  [d \in DOMAIN tab |->
     IF drop THEN tab[d]
     ELSE IF d \in LowFds
     THEN IF sv.renamed[d] = EMPTY THEN tab[d]
          ELSE IF sv.renamed[d] = CLOSED THEN IF d \in closed THEN tab[d] ELSE None
          ELSE tab[sv.renamed[d]]
     ELSE IF \E fd \in LowFds : sv.renamed[fd] = d THEN None ELSE tab[d]]

Popped(tab, closed, sv, drop) ==
  [d \in DOMAIN tab |->
     IF d \in LowFds
     THEN IF sv.renamed[d] = EMPTY \/ drop THEN tab[d]
          ELSE IF sv.renamed[d] = CLOSED THEN IF d \in closed THEN tab[d] ELSE None
          ELSE tab[sv.renamed[d]]
     ELSE IF \E fd \in LowFds : sv.renamed[fd] = d THEN None ELSE tab[d]]

ClosedAfter(closed, sv, drop) ==
  IF drop THEN closed
  ELSE {fd \in LowFds : IF sv.renamed[fd] = EMPTY THEN fd \in closed
                        ELSE fd \in Marked(closed, fd, sv.renamed[fd])}

Unwound(tabs) ==
  FoldLeft(LAMBDA s, sv : [fds    |-> Popped(s.fds, s.closed, sv, FALSE),
                           closed |-> ClosedAfter(s.closed, sv, FALSE)],
           [fds |-> fds, closed |-> closed_redirs], Reverse(tabs))

-----------------------------------------------------------------------------
RedirInit ==
  /\ \E first \in {None, "in"} :
       fds = [fd \in 0..MaxFd |-> IF fd = 0 THEN first ELSE IF fd < Low THEN "out" ELSE None]
  /\ redirlist = <<>> /\ closed_redirs = {} /\ redirphase = "body"
  /\ overlooked = {} /\ inherited = {} /\ forked = FALSE

pushredir ==
  /\ redirphase = "body" /\ Len(redirlist) < MaxFrames - (IF forked THEN 1 ELSE 0)
  /\ redirlist' = Append(redirlist, [renamed |-> [fd \in LowFds |-> EMPTY],
                                     before  |-> [fd \in LowFds |-> None]])
  /\ redirphase' = "redirecting"
  /\ UNCHANGED <<fds, closed_redirs, overlooked, inherited, forked>>

\* <file and >file: open takes the lowest descriptor that is free.
redirect_file(fd, file) ==
  /\ redirphase = "redirecting"
  /\ LET newfd == Lowest(fds, 0) IN Redirect(fd, newfd, [fds EXCEPT ![newfd] = file], TRUE)

\* >&n
redirect_dup(fd, dupfd) ==
  /\ redirphase = "redirecting" /\ dupfd # fd /\ fds[dupfd] # None
  /\ Redirect(fd, dupfd, fds, FALSE)

\* >&-
redirect_close(fd) ==
  /\ redirphase = "redirecting" /\ Redirect(fd, -1, fds, FALSE)

\* The redirections are made; the command runs and may use other commands.
run_body ==
  /\ redirphase # "body" /\ redirphase' = "body"
  /\ UNCHANGED <<fds, redirlist, closed_redirs, overlooked, inherited, forked>>

\* The body ends, or a redirection fails: >&n where n is closed, or a file
\* that cannot be opened.  drop is for exec.
popredir(drop) ==
  /\ redirlist # <<>> /\ (drop => redirphase = "body")
  /\ \E sv \in {RedirTop} :
       /\ fds' = Popped(fds, closed_redirs, sv, drop)
       /\ closed_redirs' = ClosedAfter(closed_redirs, sv, drop)
  /\ redirlist' = Front(redirlist)
  /\ redirphase' = "body"
  /\ UNCHANGED <<overlooked, inherited, forked>>

\* An error or interrupt that goes to the top: unwindredir.
unwindredir ==
  /\ redirlist # <<>>
  /\ \E s \in {Unwound(redirlist)} : fds' = s.fds /\ closed_redirs' = s.closed
  /\ redirlist' = <<>> /\ redirphase' = "body"
  /\ UNCHANGED <<overlooked, inherited, forked>>

\* A subshell, modelled from its start: FORKRESET forgets the tables.  The
\* copies they made stay open until it calls exec (FD_CLOEXEC).
fork_redir ==
  /\ redirphase = "body" /\ ~forked /\ forked' = TRUE
  /\ Len(redirlist) < MaxFrames
  /\ redirlist' = <<>> /\ redirphase' = "subshell"
  /\ inherited' = Saves
  /\ UNCHANGED <<fds, closed_redirs, overlooked>>

\* Its own redirections are for good: neither saved nor marked.
redirect_subshell(fd, file) ==
  /\ redirphase = "subshell"
  /\ fds' = [fds EXCEPT ![fd] = file]
  /\ overlooked' = overlooked \cup ({fd} \cap closed_redirs)
  /\ UNCHANGED <<redirlist, closed_redirs, redirphase, inherited, forked>>

RedirNext ==
  \/ pushredir \/ run_body \/ fork_redir \/ unwindredir
  \/ \E fd \in LowFds, f \in Files : redirect_file(fd, f) \/ redirect_subshell(fd, f)
  \/ \E fd, d \in LowFds : redirect_dup(fd, d)
  \/ \E fd \in LowFds : redirect_close(fd)
  \/ \E drop \in BOOLEAN : popredir(drop)

-----------------------------------------------------------------------------
(* Properties. *)

(* No descriptor leaks within a shell and none is saved in two tables:     *)
(* above those that scripts name exactly the saved copies are open, after  *)
(* errors and exec, too (popredir closes what redirect opened).  Only in a *)
(* subshell copies are open that no table knows: the ones its parent's     *)
(* tables had made when it forked, and none of them is ever taken again.   *)
NoDescriptorLeaks ==
  /\ {fd \in Low..MaxFd : fds[fd] # None} = Saves \cup inherited
  /\ Saves \cap inherited = {}
  /\ \A i, j \in DOMAIN redirlist : \A c, d \in LowFds :
       redirlist[i].renamed[c] = redirlist[j].renamed[d] /\ redirlist[i].renamed[c] >= 0 =>
         i = j /\ c = d

(* A descriptor that counts as closed is closed: otherwise a redirection   *)
(* would not save it (closed_redirs).  A subshell's own redirections leave *)
(* the mark: those descriptors are overlooked (redir.c:115).               *)
MarkedAreClosed == \A fd \in closed_redirs \ overlooked : fds[fd] = None

(* Popping a table brings every descriptor it took back to what it was     *)
(* before it was taken, and touches no other: in any nesting of groups,    *)
(* with exec in between, and after a redirection that failed half way.     *)
RedirectionsUndone ==
  [][popredir(FALSE) =>
       \A fd \in LowFds \ overlooked :
         fds'[fd] = IF RedirTop.renamed[fd] = EMPTY THEN fds[fd] ELSE RedirTop.before[fd]]_redirVars

(* The descriptors are those the redirections in force stand for (redir.c). *)
DescriptorsSound ==
  /\ NoDescriptorLeaks
  /\ MarkedAreClosed
=============================================================================
