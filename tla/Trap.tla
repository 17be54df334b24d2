-------------------------------- MODULE Trap --------------------------------
(***************************************************************************)
(* Signals, traps and interrupts of the shell benchmark                    *)
(* (bench/dash/src/trap.c, error.c).  What the kernel does with a signal   *)
(* follows from its trap, from the kind of shell and from what the shell   *)
(* found on entry; sigmode remembers it.  A signal that is caught is noted *)
(* at any time and its trap runs between two commands, where other traps,  *)
(* errors, interrupts and break may come in between.                       *)
(***************************************************************************)
EXTENDS Integers, Sequences, FiniteSetsExt, SequencesExt

CONSTANTS
  SigOrder, \* the signals, by number
  MaxDepth  \* bound: traps running inside traps

ASSUME TrapAssumption ==
  /\ SigOrder \in Seq({"INT", "TERM", "TSTP", "USR"})
  /\ MaxDepth \in Nat

VARIABLES
  trap,        \* the trap of each signal and of EXIT: null, ignore or run
  trapcnt,
  sigmode,     \* what setsignal last did: unknown, dfl, catch, ign, hard
  disposition, \* what the kernel does: dfl, catch, ign
  found,       \* what it did on entry, or for good since: dfl, ign
  shell,       \* interactive and a root shell: [i, root]
  gotsig, pending_sig,
  dotraps,     \* the calls of dotrap, the innermost last: [at, acting]
  cutshort,    \* an exception or a subshell has left a dotrap since the last signal
  skipping,    \* evalskip
  suppressint, intpending,
  executed     \* the dispositions a command began with, or none

trapVars == <<trap, trapcnt, sigmode, disposition, found, shell, gotsig, pending_sig,
              dotraps, cutshort, skipping, suppressint, intpending, executed>>

dispositionVars == <<trap, trapcnt, sigmode, disposition, found, shell>>
deliveryVars == <<gotsig, pending_sig, dotraps, cutshort, skipping, suppressint, intpending>>

Signals == ToSet(SigOrder)
Number(s) == CHOOSE k \in DOMAIN SigOrder : SigOrder[k] = s
NoTable == [s \in Signals |-> "none"]

-----------------------------------------------------------------------------
(* setsignal. *)

\* What is to become of a signal, and a mutant that forgets that a command of
\* its own must not inherit what an interactive shell ignores.
ActionAlways(traps, sh, vforked, s) ==
  CASE traps[s] = "run"    -> "catch"
    [] traps[s] = "ignore" -> "ign"
    [] OTHER -> IF sh.root /\ s = "INT" THEN "catch"
                ELSE IF sh.root /\ sh.i /\ s \in {"TERM", "TSTP"} THEN "ign" ELSE "dfl"

ActionOf(traps, sh, vforked, s) ==
  CASE traps[s] = "run"    -> "catch"
    [] traps[s] = "ignore" -> "ign"
    [] OTHER -> IF sh.root /\ ~vforked /\ s = "INT" THEN "catch"
                ELSE IF sh.root /\ ~vforked /\ sh.i /\ s \in {"TERM", "TSTP"} THEN "ign"
                ELSE "dfl"

\* What is known of a signal before it is set.
KnownMode(modes, disps, sh, s) ==
  IF modes[s] # "unknown" THEN modes[s]
  ELSE IF disps[s] # "ign" THEN "reset"
  ELSE IF sh.i /\ s = "TSTP" THEN "ign" ELSE "hard"

SetAgain(traps, modes, disps, sh, vforked, s) ==
  KnownMode(modes, disps, sh, s) \notin {"hard", ActionOf(traps, sh, vforked, s)}

\* sigmode after setsignal of the signals set, and a mutant that in a vforked
\* child writes to the parent's.
ModesShared(traps, modes, disps, sh, vforked, set) ==
  [s \in Signals |-> IF s \in set /\ SetAgain(traps, modes, disps, sh, vforked, s)
                     THEN ActionOf(traps, sh, vforked, s) ELSE modes[s]]

ModesAfter(traps, modes, disps, sh, vforked, set) ==
  [s \in Signals |-> IF s \in set /\ ~vforked /\ SetAgain(traps, modes, disps, sh, vforked, s)
                     THEN ActionOf(traps, sh, vforked, s) ELSE modes[s]]

DispositionsAfter(traps, modes, disps, sh, vforked, set) ==
  [s \in Signals |-> IF s \in set /\ SetAgain(traps, modes, disps, sh, vforked, s)
                     THEN ActionOf(traps, sh, vforked, s) ELSE disps[s]]

setsignal(traps, sh, set) ==
  /\ sigmode' = ModesAfter(traps, sigmode, disposition, sh, FALSE, set)
  /\ disposition' = DispositionsAfter(traps, sigmode, disposition, sh, FALSE, set)

\* The signals an interactive shell treats in its own way.
ShellsOwn == {"INT", "TERM", "TSTP"} \cap Signals

TrapInit ==
  /\ trap = [s \in Signals \cup {"EXIT"} |-> "null"] /\ trapcnt = 0
  /\ found \in [Signals -> {"dfl", "ign"}]
  /\ shell \in [i : BOOLEAN, root : {TRUE}]
  /\ LET unknown == [s \in Signals |-> "unknown"]
     IN /\ sigmode = ModesAfter(trap, unknown, found, shell, FALSE, ShellsOwn)
        /\ disposition = DispositionsAfter(trap, unknown, found, shell, FALSE, ShellsOwn)
  /\ gotsig = {} /\ pending_sig = FALSE /\ dotraps = <<>> /\ cutshort = FALSE
  /\ skipping = FALSE /\ suppressint = FALSE /\ intpending = FALSE
  /\ executed = NoTable

-----------------------------------------------------------------------------
(* Commands. *)

\* Commands run at the top and in the actions of traps.
CommandsRun == \A k \in DOMAIN dotraps : k = Len(dotraps) => dotraps[k].acting

Running == executed = NoTable /\ ~skipping /\ CommandsRun

\* The count of traps after one is replaced, and a mutant that counts the new
\* one only.
CountUp(old, new) == trapcnt + (IF new = "run" THEN 1 ELSE 0)

CountAfter(old, new) ==
  trapcnt + (IF new = "run" THEN 1 ELSE 0) - (IF old = "run" THEN 1 ELSE 0)

trapcmd(s, action) ==
  /\ Running
  /\ trap' = [trap EXCEPT ![s] = action]
  /\ trapcnt' = CountAfter(trap[s], action)
  /\ IF s = "EXIT" THEN UNCHANGED <<sigmode, disposition>> ELSE setsignal(trap', shell, {s})
  /\ UNCHANGED <<found, shell, executed, deliveryVars>>

\* vforkexec: the child sets what the shell ignores or catches for itself, and
\* executes; what is caught is then default.
vforkexec ==
  /\ Running
  /\ LET set   == IF shell.root /\ shell.i THEN ShellsOwn ELSE {}
         child == DispositionsAfter(trap, sigmode, disposition, shell, TRUE, set)
     IN /\ executed' = [s \in Signals |-> IF child[s] = "catch" THEN "dfl" ELSE child[s]]
        /\ sigmode' = ModesAfter(trap, sigmode, disposition, shell, TRUE, set)
  /\ UNCHANGED <<trap, trapcnt, disposition, found, shell, deliveryVars>>

command_done ==
  /\ executed # NoTable /\ executed' = NoTable
  /\ UNCHANGED <<dispositionVars, deliveryVars>>

\* The signals forkreset sets again, and a mutant that only clears the traps.
ResetsNone == {}

ResetSignals == {s \in Signals : trap[s] = "run"}

\* forkchild after forkreset: traps that run are cleared, ignored signals stay
\* ignored.  The model goes on with the child.
subshell(background) ==
  /\ Running
  /\ LET traps   == [s \in DOMAIN trap |-> IF trap[s] = "run" THEN "null" ELSE trap[s]]
         child   == [shell EXCEPT !.root = FALSE]
         modes   == ModesAfter(traps, sigmode, disposition, child, FALSE, ResetSignals)
         disps   == DispositionsAfter(traps, sigmode, disposition, child, FALSE, ResetSignals)
         ignored == IF background /\ ~(shell.root /\ shell.i) THEN {"INT"} \cap Signals ELSE {}
         hard    == [s \in Signals |-> IF s \in ignored THEN "hard" ELSE modes[s]]
         ign     == [s \in Signals |-> IF s \in ignored THEN "ign" ELSE disps[s]]
         own     == IF shell.root /\ shell.i THEN ShellsOwn ELSE {}
     IN /\ trap' = traps /\ trapcnt' = 0 /\ shell' = child
        /\ sigmode' = ModesAfter(traps, hard, ign, child, FALSE, own)
        /\ disposition' = DispositionsAfter(traps, hard, ign, child, FALSE, own)
        /\ found' = [s \in Signals |-> IF s \in ignored THEN "ign" ELSE found[s]]
  /\ dotraps' = <<>> /\ cutshort' = (cutshort \/ dotraps # <<>>)
  /\ UNCHANGED <<gotsig, pending_sig, skipping, suppressint, intpending,
                 executed>>

\* break, continue and return, until what they end has ended.
skip ==
  /\ skipping \/ Running
  /\ skipping' = ~skipping
  /\ UNCHANGED <<dispositionVars, gotsig, pending_sig, dotraps, cutshort, suppressint,
                 intpending, executed>>

-----------------------------------------------------------------------------
(* Exceptions and interrupts. *)

\* exraise to the top: an interactive root shell goes on.  Any other exits, and
\* is no longer part of the model.
GoesOn == shell.i /\ shell.root

Raised ==
  /\ GoesOn
  /\ dotraps' = <<>> /\ cutshort' = (cutshort \/ dotraps # <<>>)
  /\ skipping' = FALSE /\ suppressint' = FALSE /\ intpending' = FALSE
  /\ executed' = NoTable

error ==
  /\ Running /\ ~intpending
  /\ Raised
  /\ UNCHANGED <<dispositionVars, gotsig, pending_sig>>

INTOFF ==
  /\ ~suppressint /\ suppressint' = TRUE
  /\ UNCHANGED <<dispositionVars, gotsig, pending_sig, dotraps, cutshort, skipping, intpending,
                 executed>>

INTON ==
  /\ suppressint
  /\ IF intpending THEN Raised
     ELSE suppressint' = FALSE
          /\ UNCHANGED <<dotraps, cutshort, skipping, intpending, executed>>
  /\ UNCHANGED <<dispositionVars, gotsig, pending_sig>>

\* onsig: the signal is noted; an interrupt that is not trapped raises an
\* exception, now or when interrupts are on again.  In the vforked child, that
\* shares the shell's memory, nothing happens.
onsig(s) ==
  /\ disposition[s] = "catch"
  /\ gotsig' = gotsig \cup {s} /\ pending_sig' = TRUE
  /\ IF s = "INT" /\ trap["INT"] = "null"
     THEN IF suppressint
          THEN /\ intpending' = TRUE /\ cutshort' = FALSE
               /\ UNCHANGED <<dotraps, skipping, suppressint, executed>>
          ELSE Raised
     ELSE /\ cutshort' = FALSE
          /\ UNCHANGED <<dotraps, skipping, suppressint, intpending, executed>>
  /\ UNCHANGED dispositionVars

-----------------------------------------------------------------------------
(* dotrap. *)

dotrap ==
  /\ executed = NoTable /\ pending_sig /\ Len(dotraps) < MaxDepth
  /\ CommandsRun
  /\ pending_sig' = FALSE
  /\ dotraps' = Append(dotraps, [at |-> 1, acting |-> FALSE])
  /\ UNCHANGED <<dispositionVars, gotsig, cutshort, skipping, suppressint, intpending,
                 executed>>

\* dotrap leaves off where commands are skipped and says so, and a mutant that
\* does not.
LeavesOffSilently(pending) == pending

LeavesOff(pending) == TRUE

\* The next signal that came, or the end.
dotrap_next ==
  /\ dotraps # <<>> /\ ~Last(dotraps).acting
  /\ LET came == {k \in DOMAIN SigOrder : k >= Last(dotraps).at /\ SigOrder[k] \in gotsig}
         s    == SigOrder[Min(came)]
     IN IF came = {}
        THEN dotraps' = Front(dotraps) /\ UNCHANGED <<gotsig, pending_sig>>
        ELSE IF skipping
        THEN /\ dotraps' = Front(dotraps) /\ pending_sig' = LeavesOff(pending_sig)
             /\ UNCHANGED gotsig
        ELSE /\ gotsig' = gotsig \ {s}
             /\ dotraps' = Append(Front(dotraps),
                              [at |-> Min(came) + 1, acting |-> trap[s] = "run"])
             /\ UNCHANGED pending_sig
  /\ UNCHANGED <<dispositionVars, cutshort, skipping, suppressint, intpending, executed>>

action_ends ==
  /\ executed = NoTable /\ dotraps # <<>> /\ Last(dotraps).acting
  /\ dotraps' = [dotraps EXCEPT ![Len(dotraps)].acting = FALSE]
  /\ UNCHANGED <<dispositionVars, gotsig, pending_sig, cutshort, skipping, suppressint,
                 intpending, executed>>

TrapNext ==
  \/ \E s \in Signals, action \in {"null", "ignore", "run"} : trapcmd(s, action)
  \/ \E action \in {"null", "run"} : trapcmd("EXIT", action)
  \/ vforkexec \/ command_done \/ skip \/ error \/ INTOFF \/ INTON
  \/ \E background \in BOOLEAN : subshell(background)
  \/ \E s \in Signals : onsig(s)
  \/ dotrap \/ dotrap_next \/ action_ends

-----------------------------------------------------------------------------
(* Properties. *)

(* have_traps() decides whether the last command may replace the shell:    *)
(* trapcnt is the number of traps that run, however traps were replaced,   *)
(* and cleared by a subshell.                                              *)
TrapsCounted ==
  trapcnt = Cardinality({s \in DOMAIN trap : trap[s] = "run"})

(* sigmode says what the kernel does, although vforked children share it:  *)
(* otherwise the next setsignal leaves a signal as it must not be.         *)
ModesRight ==
  \A s \in Signals :
    disposition[s] = CASE sigmode[s] = "unknown" -> found[s]
                       [] sigmode[s] = "hard" -> "ign"
                       [] OTHER -> sigmode[s]

(* Whatever the shell was when a trap was set and is now: a signal that    *)
(* was not ignored on entry is caught when its trap runs, ignored when its *)
(* trap is empty, and without a trap left alone, but for the interrupt and *)
(* what an interactive shell ignores.                                      *)
TrapsInForce ==
  \A s \in Signals :
    found[s] = "dfl" =>
      disposition[s] \in CASE trap[s] = "run"    -> {"catch"}
                           [] trap[s] = "ignore" -> {"ign"}
                           [] trap[s] = "null"   -> {"dfl"} \cup (IF s = "INT" THEN {"catch"} ELSE {})
                                                      \cup (IF shell.i THEN {"ign"} ELSE {})

(* A command begins with a signal ignored when its trap is empty or when   *)
(* the shell found it ignored, and not because the shell ignores it: what  *)
(* stops a job an interactive shell lets its commands have, as found or    *)
(* not (trap.c:238, "don't hard ignore these").                            *)
CommandsInherit ==
  executed # NoTable =>
    \A s \in Signals :
      executed[s] = "ign" <=>
        trap[s] = "ignore" \/ (found[s] = "ign" /\ ~(shell.i /\ s = "TSTP"))

(* A signal that was caught is never forgotten: dotrap will be called for  *)
(* it or is still to come to it, also when signals come while traps run,   *)
(* traps run inside traps, and break ends them.  An exception out of a     *)
(* trap loses those behind it, until the next signal.                      *)
SignalsRemembered ==
  gotsig # {} /\ ~cutshort =>
    \/ pending_sig
    \/ \A s \in gotsig : \E k \in DOMAIN dotraps : dotraps[k].at <= Number(s)

(* Traps, what the kernel does with signals, what commands inherit and what *)
(* is still to be handled agree (trap.c).                                  *)
TrapsSound ==
  /\ TrapsCounted
  /\ ModesRight
  /\ TrapsInForce
  /\ CommandsInherit
  /\ SignalsRemembered
=============================================================================
