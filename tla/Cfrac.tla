-------------------------------- MODULE Cfrac -------------------------------
(***************************************************************************)
(* The cfrac benchmark: the routines of its library (Calculator), their    *)
(* storage (PrecisionMemory) and the program built on them (Pcfrac).  The  *)
(* three share no state of the models, so a behaviour is about one of      *)
(* them: part says which, and the others rest.                             *)
(***************************************************************************)
EXTENDS Calculator, PrecisionMemory, Pcfrac

VARIABLE part

vars == <<part, calculatorVars, memoryVars, pcfracVars>>

Init ==
  /\ part \in {"calculator", "memory", "pcfrac"}
  /\ CalculatorInit /\ MemoryInit /\ PcfracInit

CalculatorStep ==
  part = "calculator" /\ CalculatorNext /\ UNCHANGED <<part, memoryVars, pcfracVars>>

MemoryStep ==
  part = "memory" /\ MemoryNext /\ UNCHANGED <<part, calculatorVars, pcfracVars>>

PcfracStep ==
  part = "pcfrac" /\ PcfracNext /\ UNCHANGED <<part, calculatorVars, memoryVars>>

Next == CalculatorStep \/ MemoryStep \/ PcfracStep

(* The program runs on: a step of pcfrac that can be taken is taken.        *)
Spec == Init /\ [][Next]_vars /\ WF_vars(PcfracStep)
=============================================================================
