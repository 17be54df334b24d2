-------------------------------- MODULE Eval --------------------------------
(***************************************************************************)
(* The evaluation of commands in the shell benchmark                       *)
(* (bench/dash/src/eval.c, main.c).  evaltree calls itself along the parse *)
(* tree; break, continue and return set evalskip and every level returns   *)
(* as fast as it can; errors jump to the handler of a builtin or function, *)
(* which raises them again or goes on; with EV_EXIT a last command ends    *)
(* the shell, with -e one that fails untested does.  The program is not    *)
(* given: what it is is chosen as evaltree comes to it.                    *)
(***************************************************************************)
EXTENDS Integers, Sequences, FiniteSetsExt, SequencesExt

CONSTANTS
  Levels,  \* the arguments of break and continue
  Rare,    \* bound: the kinds of trees that are only outermost
  MaxNest  \* bound: calls of evaltree inside each other

ASSUME EvalAssumption == Levels \subseteq Nat \ {0} /\ MaxNest \in Nat

VARIABLES
  calls,      \* the calls of evaltree that wait for another, innermost last
  ctl,        \* evaltree begins (with flags) or returns, or cmdloop reads
  evalskip,   \* none, break, cont, func, funcdef
  skipcount,
  loopnest,
  params,     \* whose parameters shellparam holds: the place of a function in calls
  exitstatus, \* 0 or 1
  shellopts,  \* interactive, -e, -c
  target,     \* the loop that break or continue is about, by its place in calls
  retstatus,  \* what return returns
  swallowed   \* a builtin ended by an error and the shell went on

evalVars == <<calls, ctl, evalskip, skipcount, loopnest, params, exitstatus, shellopts,
              target, retstatus, swallowed>>

skipVars == <<evalskip, skipcount, loopnest, params, target, retstatus>>

TopCall == Last(calls)
LoopKinds == {"while", "until", "for"}

\* The loops being executed in the current function, by place.
InFunction == Max({0} \cup {k \in DOMAIN calls : calls[k].node = "func"})
Loops == {k \in DOMAIN calls : k > InFunction /\ calls[k].node \in LoopKinds}

Evaluate(flags) == ctl' = [at |-> "evaltree", flags |-> flags]
Exit == ctl' = [at |-> "exited", flags |-> {}]

\* The end of evaltree: status is what -e goes by, if it does.
Finish(status, flags, checkexit) ==
  IF "exit" \in flags \/ (shellopts.e /\ checkexit /\ status # 0 /\ "tested" \notin flags)
  THEN Exit ELSE ctl' = [at |-> "return", flags |-> {}]

Pop == calls' = Front(calls)

-----------------------------------------------------------------------------
EvalInit ==
  /\ calls = <<>> /\ ctl = [at |-> "cmdloop", flags |-> {}]
  /\ evalskip = "none" /\ skipcount = 0 /\ loopnest = 0 /\ params = 0 /\ exitstatus = 0
  /\ shellopts \in {[i |-> opt = "i", e |-> opt = "e", c |-> opt = "c"] : opt \in {"", "i", "e", "c"}}
  /\ target = 0 /\ retstatus = 0 /\ swallowed = FALSE

\* cmdloop, and evalstring for -c, where the last command may end the shell.
cmdloop(last) ==
  /\ ctl.at = "cmdloop" /\ (last => shellopts.c)
  /\ Evaluate(IF last THEN {"exit"} ELSE {})
  /\ UNCHANGED <<calls, skipVars, exitstatus, shellopts, swallowed>>

\* The end of the program, or return outside of functions.
cmdloop_return ==
  /\ ctl.at = "return" /\ calls = <<>>
  /\ IF evalskip # "none" THEN Exit ELSE ctl' = [at |-> "cmdloop", flags |-> {}]
  /\ UNCHANGED <<calls, skipVars, exitstatus, shellopts, swallowed>>

-----------------------------------------------------------------------------
(* Simple commands. *)

Evaltree == ctl.at = "evaltree"

\* Any command that just has a status, one that could not be found or
\* redirected, and, with no -e, what defines a function or matches no case.
evalcommand(status, checkexit) ==
  /\ Evaltree /\ exitstatus' = status /\ Finish(status, ctl.flags, checkexit)
  /\ UNCHANGED <<calls, skipVars, shellopts, swallowed>>

\* The loop that is n loops out, or the outermost.
LoopOut(n) ==
  Max({0} \cup {k \in Loops : Cardinality({l \in Loops : l >= k}) = Min({n, Cardinality(Loops)})})

breakcmd(n, kind) ==
  /\ Evaltree
  /\ IF loopnest = 0 THEN UNCHANGED <<evalskip, skipcount, target>>
     ELSE /\ evalskip' = kind /\ skipcount' = Min({n, loopnest})
          /\ target' = LoopOut(n)
  /\ exitstatus' = 0 /\ Finish(0, ctl.flags, TRUE)
  /\ UNCHANGED <<calls, loopnest, params, shellopts, retstatus, swallowed>>

returncmd(status, skip) ==
  /\ Evaltree /\ (skip = "funcdef" => status = exitstatus)
  /\ evalskip' = skip /\ retstatus' = status /\ exitstatus' = status
  /\ Finish(status, ctl.flags, TRUE)
  /\ UNCHANGED <<calls, skipcount, loopnest, params, shellopts, target, swallowed>>

exitcmd ==
  /\ Evaltree /\ Exit
  /\ UNCHANGED <<calls, skipVars, exitstatus, shellopts, swallowed>>

\* An error unwinds to the handler that goes on with it: a regular builtin's.
\* Functions on the way restore what they saved.
exraise ==
  /\ Evaltree /\ exitstatus' = 1
  /\ LET base     == Max({0} \cup {k \in DOMAIN calls : calls[k].node = "subshell"})
         handlers == {k \in DOMAIN calls : k > base /\ calls[k].node \in {"eval", "dot"}
                                           /\ calls[k].swallows}
         to       == Max({0} \cup handlers)
         left     == {k \in DOMAIN calls : k > to /\ calls[k].node = "func"}
     IN /\ handlers # {} => ~swallowed  \* bound: one such error
        /\ IF handlers # {}
           THEN /\ calls' = SubSeq(calls, 1, to - 1) /\ swallowed' = TRUE
                /\ loopnest' = IF left = {} THEN loopnest ELSE calls[Min(left)].loops
                /\ params' = IF left = {} THEN params ELSE calls[Min(left)].params
                /\ Finish(1, calls[to].flags, TRUE)
                /\ UNCHANGED evalskip
           ELSE IF shellopts.i /\ base = 0
           THEN /\ calls' = <<>> /\ ctl' = [at |-> "cmdloop", flags |-> {}]
                /\ evalskip' = "none" /\ loopnest' = 0 /\ params' = 0 /\ swallowed' = FALSE
           ELSE Exit /\ UNCHANGED <<calls, evalskip, loopnest, params, swallowed>>
  /\ UNCHANGED <<skipcount, shellopts, target, retstatus>>

-----------------------------------------------------------------------------
(* What waits for another command.                                         *)

\* The flags a part is evaluated with; and mutants that take the left of ; for
\* tested, and that let the body of a loop end the shell.
SemiIsTested(node, flags) ==
  CASE node \in {"not", "and", "or", "semi", "if", "while", "until"} -> {"tested"}
    [] node \in {"redir", "for", "func", "eval"} -> flags \cap {"tested"}
    [] node = "dot" -> {}
    [] node = "case" -> flags
    [] node = "subshell" -> flags \cup {"exit"}
    [] node = "background" -> {"exit"}

LoopMayExit(node, flags) ==
  CASE node \in {"not", "and", "or", "if", "while", "until"} -> {"tested"}
    [] node \in {"semi", "redir", "func", "eval"} -> flags \cap {"tested"}
    [] node = "dot" -> {}
    [] node \in {"case", "for"} -> flags
    [] node = "subshell" -> flags \cup {"exit"}
    [] node = "background" -> {"exit"}

FirstFlags(node, flags) ==
  CASE node \in {"not", "and", "or", "if", "while", "until"} -> {"tested"}
    [] node \in {"semi", "redir", "for", "func", "eval"} -> flags \cap {"tested"}
    [] node = "dot" -> {}
    [] node = "case" -> flags
    [] node = "subshell" -> flags \cup {"exit"}
    [] node = "background" -> {"exit"}

\* evaltree goes into a tree, evalcommand into a function or a builtin that
\* runs commands; swallows: it is regular, or behind command.  For a subshell
\* it is the child that is modelled from here on.
evaltree(node, swallows) ==
  /\ Evaltree /\ Len(calls) < MaxNest /\ (node \in Rare => calls = <<>>)
  /\ calls' = Append(calls, [node |-> node, part |-> 1, flags |-> ctl.flags, status |-> 0,
                             swallows |-> swallows,
                             loops  |-> IF node = "func" THEN loopnest ELSE 0,
                             params |-> IF node = "func" THEN params ELSE 0])
  /\ Evaluate(FirstFlags(node, ctl.flags))
  /\ loopnest' = IF node = "func" THEN 0
                 ELSE IF node \in LoopKinds THEN loopnest + 1 ELSE loopnest
  /\ params' = IF node = "func" THEN Len(calls) + 1 ELSE params
  /\ UNCHANGED <<evalskip, skipcount, exitstatus, shellopts, target, retstatus, swallowed>>

Returns(nodes, part) ==
  ctl.at = "return" /\ calls # <<>> /\ TopCall.node \in nodes /\ TopCall.part = part

Continue(part, flags) ==
  calls' = [calls EXCEPT ![Len(calls)].part = part] /\ Evaluate(flags)

\* setstatus and the end.
Leave(status, checkexit) ==
  Pop /\ exitstatus' = status /\ Finish(status, TopCall.flags, checkexit)

Inverted(status) == 1 - status

evalnot ==
  /\ Returns({"not"}, 1) /\ Leave(Inverted(exitstatus), FALSE)
  /\ retstatus' = IF evalskip = "none" THEN retstatus ELSE Inverted(retstatus)
  /\ UNCHANGED <<evalskip, skipcount, loopnest, params, shellopts, target, swallowed>>

evalbinary ==
  /\ Returns({"and", "or", "semi"}, 1)
  /\ IF \/ TopCall.node = "and" /\ exitstatus # 0
        \/ TopCall.node = "or" /\ exitstatus = 0
        \/ evalskip # "none"
     THEN Leave(exitstatus, FALSE)
     ELSE Continue(2, TopCall.flags) /\ UNCHANGED exitstatus
  /\ UNCHANGED <<skipVars, shellopts, swallowed>>

\* Nothing follows a test that ended in break or return, and a mutant for which
\* something does.
NeverSkips == FALSE

Skips == evalskip # "none"

evalif(else) ==
  /\ Returns({"if"}, 1)
  /\ IF Skips THEN Leave(exitstatus, FALSE)
     ELSE IF exitstatus = 0 \/ else
     THEN Continue(2, TopCall.flags) /\ UNCHANGED exitstatus
     ELSE Leave(0, FALSE)
  /\ UNCHANGED <<skipVars, shellopts, swallowed>>

\* A tree whose last part returns.
evallast ==
  /\ Returns({"and", "or", "semi", "if"}, 2) \/ Returns({"redir", "case"}, 1)
  /\ Leave(exitstatus, FALSE)
  /\ UNCHANGED <<skipVars, shellopts, swallowed>>

-----------------------------------------------------------------------------
(* Loops. *)

\* skiploop: the last of the loops to leave, and a mutant that leaves one more.
OneMore == evalskip \in {"break", "cont"} /\ skipcount < 1

LastSkipped == evalskip \in {"break", "cont"} /\ skipcount - 1 <= 0

Skipped == IF evalskip = "cont" /\ ~LastSkipped THEN "break" ELSE evalskip

skiploop ==
  /\ evalskip' = IF LastSkipped THEN "none" ELSE evalskip
  /\ skipcount' = IF evalskip \in {"break", "cont"} THEN skipcount - 1 ELSE skipcount
  /\ target' = IF LastSkipped THEN 0 ELSE target

LoopEnds(status) == Leave(status, FALSE) /\ loopnest' = loopnest - 1

\* The status of a loop whose condition ends in a return, and a mutant for which
\* it is that of the body.
StatusOfBody(skip) == TopCall.status

StatusAtCondition(skip) == IF skip = "func" THEN exitstatus ELSE TopCall.status

\* The condition of while and until.
evalloop_test ==
  /\ Returns({"while", "until"}, 1) /\ skiploop
  /\ LET skip == Skipped
         holds == (exitstatus = 0) = (TopCall.node = "while")
     IN IF skip = "cont" THEN Continue(1, {"tested"}) /\ UNCHANGED <<exitstatus, loopnest>>
        ELSE IF skip = "none" /\ holds
        THEN Continue(2, TopCall.flags \cap {"tested"}) /\ UNCHANGED <<exitstatus, loopnest>>
        ELSE LoopEnds(StatusAtCondition(skip))
  /\ UNCHANGED <<params, shellopts, retstatus, swallowed>>

\* The body.
evalloop_body ==
  /\ Returns({"while", "until"}, 2) /\ skiploop
  /\ IF Skipped \in {"none", "cont"}
     THEN /\ calls' = [calls EXCEPT ![Len(calls)].part = 1, ![Len(calls)].status = exitstatus]
          /\ Evaluate({"tested"}) /\ UNCHANGED <<exitstatus, loopnest>>
     ELSE LoopEnds(exitstatus)
  /\ UNCHANGED <<params, shellopts, retstatus, swallowed>>

evalfor(more) ==
  /\ Returns({"for"}, 1) /\ skiploop
  /\ IF more /\ Skipped \in {"none", "cont"}
     THEN Continue(1, TopCall.flags \cap {"tested"}) /\ UNCHANGED <<exitstatus, loopnest>>
     ELSE LoopEnds(exitstatus)
  /\ UNCHANGED <<params, shellopts, retstatus, swallowed>>

-----------------------------------------------------------------------------
(* Functions, eval and the dot command.                                    *)

EndReturn ==
  /\ evalskip' = IF evalskip \in {"func", "funcdef"} THEN "none" ELSE evalskip
  /\ retstatus' = 0

\* What evalfun restores of loopnest, and a mutant that leaves it at 0.
LoopsStay(call) == loopnest

LoopsSaved(call) == call.loops

evalfun ==
  /\ Returns({"func"}, 1) /\ Leave(exitstatus, TRUE)
  /\ loopnest' = LoopsSaved(TopCall) /\ params' = TopCall.params
  /\ EndReturn
  /\ UNCHANGED <<skipcount, shellopts, target, swallowed>>

evalstring(more) ==
  /\ Returns({"eval"}, 1)
  /\ IF more /\ evalskip = "none"
     THEN Continue(1, TopCall.flags \cap {"tested"}) /\ UNCHANGED exitstatus
     ELSE Leave(exitstatus, TRUE)
  /\ UNCHANGED <<skipVars, shellopts, swallowed>>

dotcmd(more) ==
  /\ Returns({"dot"}, 1)
  /\ IF more /\ evalskip = "none"
     THEN Continue(1, {}) /\ UNCHANGED exitstatus
     ELSE Leave(exitstatus, TRUE)
  /\ EndReturn
  /\ UNCHANGED <<skipcount, loopnest, params, shellopts, target, swallowed>>

EvalNext ==
  \/ \E last \in BOOLEAN : cmdloop(last)
  \/ cmdloop_return \/ exitcmd \/ exraise
  \/ \E status \in {0, 1}, checkexit \in BOOLEAN : evalcommand(status, checkexit)
  \/ \E n \in Levels, kind \in {"break", "cont"} : breakcmd(n, kind)
  \/ \E status \in {0, 1}, skip \in {"func", "funcdef"} : returncmd(status, skip)
  \/ \E node \in {"not", "and", "or", "semi", "if", "while", "until", "for", "redir", "case",
                  "func", "subshell", "background"} : evaltree(node, FALSE)
  \/ \E node \in {"eval", "dot"}, swallows \in BOOLEAN : evaltree(node, swallows)
  \/ evalnot \/ evalbinary \/ evallast \/ evalloop_test \/ evalloop_body \/ evalfun
  \/ \E more \in BOOLEAN : evalif(more) \/ evalfor(more) \/ evalstring(more) \/ dotcmd(more)

-----------------------------------------------------------------------------
(* Properties. *)

(* loopnest counts the loops of the current function that are being        *)
(* executed, and the parameters are those of the function, through nested  *)
(* functions, eval, break and errors that go to the top; loopnest until an *)
(* error ends a builtin and the shell goes on (eval.c:72, evalfun).        *)
FunctionContext ==
  (~swallowed => loopnest = Cardinality(Loops)) /\ params = InFunction

(* break and continue are about the loop they name, the outermost of the   *)
(* function if there are not so many: that loop is reached, through eval,  *)
(* redirections and conditions, before anything else goes on (skiploop).   *)
SkipsRightLoop ==
  [][ctl.at = "return" /\ evalskip \in {"break", "cont"} /\ evalskip' = "none" /\ ~swallowed =>
       Len(calls) = target]_evalVars

(* While break, continue or return is under way nothing is evaluated.      *)
NothingRunsSkipping == evalskip # "none" => ctl.at \in {"return", "exited"}

(* The status of a function or a file that ends by return with a number is *)
(* that number, from within loops and their conditions too; ! inverts it.  *)
ReturnStatus ==
  [][evalskip = "func" /\ evalskip' = "none" /\ ctl.at = "return" =>
       exitstatus' = retstatus]_evalVars

\* A part whose status is tested (dash.1:201).
Tests(call) ==
  \/ call.node = "not"
  \/ call.node \in {"and", "or", "if", "while", "until"} /\ call.part = 1

(* -e spares commands whose status is tested and no others, in functions,  *)
(* eval and subshells, too (EV_TESTED).  In a file that the dot command    *)
(* reads it spares none.                                                   *)
TestedExact ==
  ctl.at = "evaltree" =>
    ("tested" \in ctl.flags <=>
       \E k \in DOMAIN calls :
         Tests(calls[k]) /\ \A l \in k..Len(calls) : calls[l].node \notin {"dot", "background"})

(* A command that ends the shell is the last thing to do in it: no loop,   *)
(* list, text or negation waits for it (EV_EXIT).                          *)
ExitOnlyLast ==
  ctl.at = "evaltree" /\ "exit" \in ctl.flags =>
    \A k \in DOMAIN calls :
      \/ \E l \in k + 1..Len(calls) : calls[l].node \in {"subshell", "background"}
      \/ /\ calls[k].node \notin {"while", "until", "for", "not", "eval", "dot"}
         /\ calls[k].node \in {"and", "or", "semi", "if"} => calls[k].part = 2

(* Control is where the program's text says, with the flags and the        *)
(* context that belong there (eval.c).                                     *)
ControlSound ==
  /\ FunctionContext
  /\ NothingRunsSkipping
  /\ TestedExact
  /\ ExitOnlyLast

(* break, continue and return arrive, with their status (skiploop, evalfun). *)
SkipsArrive == SkipsRightLoop /\ ReturnStatus
=============================================================================
