------------------------------- MODULE Shell --------------------------------
(***************************************************************************)
(* What the shell benchmark (bench/dash) keeps for itself, part by part:   *)
(* its stack allocator, variables, parameters and options, working         *)
(* directory and the evaluation of commands.  The models of the parts      *)
(* share no state, so a behaviour is about one of them: shellpart says     *)
(* which, and the others rest.                                             *)
(***************************************************************************)
EXTENDS StackAlloc, Var, Options, Cd, Eval

VARIABLE shellpart

shellVars == <<shellpart, stackVars, varVars, optionsVars, cdVars, evalVars>>

ShellInit ==
  /\ shellpart \in {"stack", "var", "options", "cd", "eval"}
  \* What rests begins in one way.
  /\ StackInit
  /\ VarInit /\ (shellpart # "var" => \A n \in VarNames : ~vars[n].there)
  /\ OptionsInit /\ (shellpart # "options" => shellparam.p = <<>>)
  /\ CdInit /\ (shellpart # "cd" => curdirectory = <<>>)
  /\ EvalInit /\ (shellpart # "eval" => shellopts.i)

StackStep ==
  /\ shellpart = "stack" /\ StackNext
  /\ UNCHANGED <<shellpart, varVars, optionsVars, cdVars, evalVars>>

VarStep ==
  /\ shellpart = "var" /\ VarNext
  /\ UNCHANGED <<shellpart, stackVars, optionsVars, cdVars, evalVars>>

OptionsStep ==
  /\ shellpart = "options" /\ OptionsNext
  /\ UNCHANGED <<shellpart, stackVars, varVars, cdVars, evalVars>>

CdStep ==
  /\ shellpart = "cd" /\ CdNext
  /\ UNCHANGED <<shellpart, stackVars, varVars, optionsVars, evalVars>>

EvalStep ==
  /\ shellpart = "eval" /\ EvalNext
  /\ UNCHANGED <<shellpart, stackVars, varVars, optionsVars, cdVars>>

ShellNext ==
  \/ StackStep \/ VarStep \/ OptionsStep \/ CdStep \/ EvalStep

ShellSpec == ShellInit /\ [][ShellNext]_shellVars
=============================================================================
