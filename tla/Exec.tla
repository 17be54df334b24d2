-------------------------------- MODULE Exec --------------------------------
(***************************************************************************)
(* How the shell benchmark finds commands (bench/dash/src/exec.c): by a    *)
(* table of what was found before, which PATH, cd, functions and hash      *)
(* change.  One name is modelled: names have nothing to do with each other.*)
(* The files stay as they are; what is in the working directory depends on *)
(* which it is.  Functions are counted while they run.                     *)
(***************************************************************************)
EXTENDS Integers, Sequences, FiniteSetsExt, SequencesExt

CONSTANTS
  Paths,     \* the values of PATH: sequences of "abs", "rel" and "%builtin"
  defpath,   \* the one on entry and of command -p
  Dirs,      \* the working directories
  Functions, \* bound: the addresses of functions, 1..n
  MaxRunning \* bound: functions running inside each other

ASSUME ExecAssumption ==
  /\ \A path \in Paths \cup {defpath} : path \in Seq({"abs", "rel", "%builtin"})
  /\ "%builtin" \notin ToSet(defpath)
  /\ "abs" \notin Dirs /\ MaxRunning \in Nat
  /\ IsFiniteSet(Functions) /\ Functions = 1..Cardinality(Functions)

VARIABLES
  builtincmd, \* whether the name is a builtin: no, regular, or other
  files,      \* the directories that have the command
  path, builtinloc, cwd,
  cmdentry,   \* what the table has for the name: [type, param, rehash]
  fcount,     \* the count of each allocated function, or -1
  running     \* the functions that run

execVars == <<builtincmd, files, path, builtinloc, cwd, cmdentry, fcount, running>>

NoEntry == [type |-> "none", param |-> 0, rehash |-> FALSE]
Unknown == [type |-> "unknown", param |-> 0]
Normal(k) == [type |-> "normal", param |-> k]
Builtin == [type |-> "builtin", param |-> 0]
Entry(found) == [type |-> found.type, param |-> found.param, rehash |-> FALSE]

\* Places in PATH count from 0.
At(p, k) == p[k + 1]
Places(p) == 0..Len(p) - 1

-----------------------------------------------------------------------------
(* find_command, whose act is a set of flags. *)

\* The flags that forbid what the table has.
Forbids(type) ==
  CASE type = "normal"   -> {"ALTPATH", "REGBLTIN"}
    [] type = "function" -> {"NOFUNC"}
    [] type = "builtin"  -> IF builtincmd = "regular" THEN {} ELSE {"REGBLTIN"}
    [] OTHER -> {}

\* Whether place k of the path has the command; prev is where it was before cd.
\* A mutant trusts prev for relative places.
TrustsPrev(p, prev, k) ==
  CASE At(p, k) = "%builtin" -> builtincmd # "no"
    [] OTHER -> IF k <= prev THEN k = prev
                ELSE (IF At(p, k) = "abs" THEN "abs" ELSE cwd) \in files

IsAt(p, prev, k) ==
  CASE At(p, k) = "%builtin" -> builtincmd # "no"
    [] At(p, k) = "abs"      -> IF k <= prev THEN k = prev ELSE "abs" \in files
    [] OTHER                 -> cwd \in files

Searched(p, prev) ==
  LET hits == {k \in Places(p) : IsAt(p, prev, k)}
  IN IF hits = {} THEN Unknown
     ELSE IF At(p, Min(hits)) = "%builtin" THEN Builtin ELSE Normal(Min(hits))

BuiltinFirst(act) == builtincmd = "regular" \/ "ALTPATH" \in act \/ builtinloc <= 0

\* What find_command finds, and the entry it leaves.
Found(act) ==
  LET alt       == "ALTPATH" \in act
      forbidden == act \cap Forbids(cmdentry.type)
      usable    == cmdentry.type # "none" /\ forbidden = {}
      updatetbl == ~alt /\ forbidden = {}
      prev      == IF ~usable THEN -1
                   ELSE IF cmdentry.type = "builtin" THEN builtinloc ELSE cmdentry.param
      Result(found) ==
        [found |-> found,
         entry |-> IF ~updatetbl THEN cmdentry
                   ELSE IF found = Unknown THEN NoEntry ELSE Entry(found)]
  IN IF "REGBLTIN" \in forbidden THEN [found |-> Unknown, entry |-> cmdentry]
     ELSE IF usable /\ ~cmdentry.rehash
     THEN [found |-> [type |-> cmdentry.type, param |-> cmdentry.param], entry |-> cmdentry]
     ELSE IF builtincmd # "no" /\ BuiltinFirst(act) THEN Result(Builtin)
     ELSE IF "REGBLTIN" \in act THEN [found |-> Unknown, entry |-> cmdentry]
     ELSE Result(Searched(IF alt THEN defpath ELSE path, prev))

\* describe_command, for type and command -v, goes by the table as it is.
Described ==
  IF cmdentry.type # "none" THEN [type |-> cmdentry.type, param |-> cmdentry.param]
  ELSE Found({}).found

-----------------------------------------------------------------------------
ExecInit ==
  /\ builtincmd \in {"no", "regular", "other"} /\ files \in SUBSET ({"abs"} \cup Dirs)
  /\ path = defpath /\ builtinloc = -1 /\ cwd \in Dirs
  /\ cmdentry = NoEntry /\ fcount = [f \in Functions |-> -1] /\ running = <<>>

find_command(act) ==
  /\ cmdentry' = Found(act).entry
  /\ UNCHANGED <<builtincmd, files, path, builtinloc, cwd, fcount, running>>

\* What PATH or cd may make wrong.
Depends(loc) ==
  cmdentry.type = "normal" \/ (cmdentry.type = "builtin" /\ builtincmd = "other" /\ loc > 0)

\* clearcmdentry, and a mutant that keeps builtins.
ClearedCommands(loc) == IF cmdentry.type = "normal" THEN NoEntry ELSE cmdentry

Cleared(loc) == IF Depends(loc) THEN NoEntry ELSE cmdentry

\* hash -r.
hashcmd_r ==
  /\ cmdentry' = Cleared(builtinloc)
  /\ UNCHANGED <<builtincmd, files, path, builtinloc, cwd, fcount, running>>

\* hash of the name: what depends on PATH is deleted and found again.
hashcmd ==
  /\ Depends(builtinloc)
  /\ cmdentry' = IF builtincmd # "no" /\ BuiltinFirst({}) THEN Entry(Builtin)
                 ELSE LET found == Searched(path, -1)
                      IN IF found = Unknown THEN NoEntry ELSE Entry(found)
  /\ UNCHANGED <<builtincmd, files, path, builtinloc, cwd, fcount, running>>

\* The place of %builtin, or -1.
BuiltinPlace(p) == Min({k \in Places(p) : At(p, k) = "%builtin"} \cup {Len(p)})

changepath(p) ==
  /\ path' = p
  /\ builtinloc' = IF BuiltinPlace(p) = Len(p) THEN -1 ELSE BuiltinPlace(p)
  /\ cmdentry' = Cleared(builtinloc')
  /\ UNCHANGED <<builtincmd, files, cwd, fcount, running>>

\* cd, with hashcd.
docd(dir) ==
  /\ cwd' = dir
  /\ cmdentry' = IF Depends(builtinloc) THEN [cmdentry EXCEPT !.rehash = TRUE] ELSE cmdentry
  /\ UNCHANGED <<builtincmd, files, path, builtinloc, fcount, running>>

\* freefunc frees what is neither defined nor running; fcount is -1 then.
freefunc(counts, f) == [counts EXCEPT ![f] = @ - 1]

Defined == cmdentry.type = "function"

defun ==
  \E f \in Functions :
    /\ f = Min({g \in Functions : fcount[g] = -1} \cup {Max(Functions) + 1})
    /\ fcount' = [IF Defined THEN freefunc(fcount, cmdentry.param) ELSE fcount EXCEPT ![f] = 0]
    /\ cmdentry' = [type |-> "function", param |-> f, rehash |-> FALSE]
    /\ UNCHANGED <<builtincmd, files, path, builtinloc, cwd, running>>

unsetfunc ==
  /\ Defined /\ cmdentry' = NoEntry /\ fcount' = freefunc(fcount, cmdentry.param)
  /\ UNCHANGED <<builtincmd, files, path, builtinloc, cwd, running>>

\* evalfun counts the call, and a mutant that does not.
Uncounted(counts, f) == counts

Counted(counts, f) == [counts EXCEPT ![f] = @ + 1]

evalfun_begins ==
  /\ Defined /\ Len(running) < MaxRunning
  /\ running' = Append(running, cmdentry.param)
  /\ fcount' = Counted(fcount, cmdentry.param)
  /\ UNCHANGED <<builtincmd, files, path, builtinloc, cwd, cmdentry>>

evalfun_ends ==
  /\ running # <<>>
  /\ running' = Front(running) /\ fcount' = freefunc(fcount, Last(running))
  /\ UNCHANGED <<builtincmd, files, path, builtinloc, cwd, cmdentry>>

\* How find_command is called: first by evalcommand, then by it, by command and
\* by command -p.
Acts == {{"REGBLTIN"}, {}, {"NOFUNC"}, {"NOFUNC", "ALTPATH"}}

ExecNext ==
  \/ \E act \in Acts : find_command(act)
  \/ \E p \in Paths : changepath(p)
  \/ \E dir \in Dirs : docd(dir)
  \/ hashcmd_r \/ hashcmd \/ defun \/ unsetfunc \/ evalfun_begins \/ evalfun_ends

-----------------------------------------------------------------------------
(* Properties. *)

\* What a search from scratch finds: a function, a builtin that comes before
\* PATH, the first place of the path.
Proper(act) ==
  LET p == IF "ALTPATH" \in act THEN defpath ELSE path
  IN IF Defined /\ "NOFUNC" \notin act THEN [type |-> "function", param |-> cmdentry.param]
     ELSE IF builtincmd = "regular" \/ (builtincmd = "other" /\ BuiltinPlace(p) \in {0, Len(p)})
     THEN Builtin
     ELSE Searched(p, -1)

(* The command that runs is the one a search from scratch would find,      *)
(* after any changes of PATH and of the directory, with command and        *)
(* command -p: the table is never stale (find_command, clearcmdentry,      *)
(* hashcd).                                                                *)
LookupRight == \A act \in Acts \ {{"REGBLTIN"}} : Found(act).found = Proper(act)

(* type and command -v name the command that would run; between cd and the *)
(* next use of the command they may name the old one (describe_command     *)
(* does not look at rehash).                                               *)
DescribedRight == ~cmdentry.rehash => Described = Proper({})

(* The function that is defined and those that run are allocated, and no   *)
(* others: a function may redefine or unset itself (evalfun, freefunc).    *)
FunctionsCounted ==
  {f \in Functions : fcount[f] >= 0} =
    ToSet(running) \cup (IF Defined THEN {cmdentry.param} ELSE {})

(* The table of commands is as good as a search (exec.c).                  *)
CommandsSound ==
  /\ LookupRight
  /\ DescribedRight
  /\ FunctionsCounted
=============================================================================
