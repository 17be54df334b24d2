------------------------------ MODULE Options -------------------------------
(***************************************************************************)
(* The parameters and options of the shell benchmark                       *)
(* (bench/dash/src/options.c): set, shift, getopts, and functions, which   *)
(* have parameters of their own.  getopts gives one option with each call; *)
(* its place in the list is in shellparam and, for all to change, in       *)
(* OPTIND.  A word is a sequence of letters.                               *)
(***************************************************************************)
EXTENDS Integers, Sequences, FiniteSetsExt, SequencesExt

CONSTANTS
  Characters,   \* what words are made of
  CommandLines, \* what the shell is called with
  Lists,        \* bound: lists of words for set
  OwnLists,     \* bound: those getopts is given beside the parameters
  optstr,       \* letters of options: [none, argument]; that it may begin with : is
                \* the argument silent of what follows
  Addresses,    \* bound: where parameters are allocated
  MaxFunctions  \* bound: functions inside each other

NoLetter == ""

ASSUME OptionsAssumption ==
  /\ NoLetter \notin Characters /\ {"?", ":"} \subseteq Characters
  /\ ":" \notin optstr.none \cup optstr.argument
  /\ Lists \cup OwnLists \cup CommandLines \subseteq Seq(Seq(Characters))
  /\ Addresses \subseteq Nat \ {0} /\ IsFiniteSet(Addresses) /\ MaxFunctions \in Nat

VARIABLES
  shellparam, \* [p, optind, optoff]: of each parameter the word and the address, 0 if not allocated
  saveparam,  \* those of the callers of functions, innermost last
  optlist,    \* the options that are on: of them m, x
  controls_jobs, \* jobctl
  addresses,  \* the allocated parameters
  refused,    \* the last set was refused
  course,     \* how getopts was called since it began: [list, silent, calls, over],
              \* with -1 calls if they were not alike
  said        \* what getopts has just said: [c, optarg, done, OPTIND in the end]

optionsVars == <<shellparam, saveparam, optlist, controls_jobs, addresses, refused, course, said>>

NoArg == <<>>
Nothing == [c |-> NoLetter, optarg |-> NoArg, done |-> FALSE, OPTIND |-> 0]
NewCourse == [list |-> <<>>, silent |-> FALSE, calls |-> 0, over |-> FALSE]
OtherCourse == [NewCourse EXCEPT !.calls = -1]

Words(p) == [i \in DOMAIN p |-> p[i].word]
OnStack(list) == [i \in DOMAIN list |-> [word |-> list[i], at |-> 0]]
Param(p) == [p |-> p, optind |-> 1, optoff |-> -1]
AddressesOf(p) == {p[i].at : i \in DOMAIN p} \ {0}

-----------------------------------------------------------------------------
(* getopts. *)

\* The place to begin with, which may be past the end of another list; and a
\* mutant that compares as integers.
SignedClamp(optind, list) ==
  IF optind > Len(list) + 1 THEN [ind |-> 1, keeps |-> FALSE]
  ELSE [ind |-> optind, keeps |-> TRUE]

Clamped(optind, list) ==
  IF optind < 0 \/ optind > Len(list) + 1 THEN [ind |-> 1, keeps |-> FALSE]
  ELSE [ind |-> optind, keeps |-> TRUE]

IsOption(word) == Len(word) > 1 /\ word[1] = "-"

\* Whether the word before ind has letters left.
LettersLeft(list, ind, off) == ind > 1 /\ off >= 0 /\ Len(list[ind - 1]) > off

AtEnd(ind) == [c |-> "?", optarg |-> NoArg, done |-> TRUE, optind |-> ind, optoff |-> -1]

\* The letters that need no argument: if optstr begins with : that is one of
\* them, for the search begins there.
Listed(letter, silent) == letter \in optstr.none \/ (silent /\ letter = ":")

\* An option at place at of the word before ind.
Option(list, silent, ind, at) ==
  LET word == list[ind - 1]
      c    == word[at]
      rest == SubSeq(word, at + 1, Len(word))
      Said(letter, arg, next, off) ==
        [c |-> letter, optarg |-> arg, done |-> FALSE, optind |-> next, optoff |-> off]
  IN IF c \in optstr.argument
     THEN IF rest # <<>> THEN Said(c, rest, ind, -1)
          ELSE IF ind <= Len(list) THEN Said(c, list[ind], ind + 1, -1)
          ELSE IF silent THEN Said(":", <<c>>, ind, -1) ELSE Said("?", NoArg, ind, -1)
     ELSE IF Listed(c, silent) THEN Said(c, NoArg, ind, at)
     ELSE Said("?", IF silent THEN <<c>> ELSE NoArg, ind, at)

getopts(list, silent, optind, optoff) ==
  LET ind == Clamped(optind, list).ind
      off == IF Clamped(optind, list).keeps THEN optoff ELSE -1
  IN IF LettersLeft(list, ind, off) THEN Option(list, silent, ind, off + 1)
     ELSE IF ind > Len(list) \/ ~IsOption(list[ind]) THEN AtEnd(ind)
     ELSE IF list[ind] = <<"-", "-">> THEN AtEnd(ind + 1)
     ELSE Option(list, silent, ind + 1, 2)

-----------------------------------------------------------------------------
(* options: the options of a list, for set and for the command line.       *)

Letters(word) == ToSet(Tail(word))

Known == {"m", "x"}

\* The letters of a word that are set or unset: those before one that is unknown.
Taken(word) == {word[i] : i \in {i \in 2..Len(word) : ToSet(SubSeq(word, 2, i)) \subseteq Known}}

IsOptions(word) == word # <<>> /\ word[1] \in {"-", "+"}

\* How many words are options, with what ends them.
OptionWords(list) ==
  Min({i \in DOMAIN list : ~IsOptions(list[i])} \cup {Len(list) + 1}
      \cup {i + 1 : i \in {i \in DOMAIN list : list[i] \in {<<"-">>, <<"-", "-">>}}}) - 1

\* The options that are on after the first n words.
After(list, n, before) ==
  FoldLeft(LAMBDA on, word :
             IF word = <<"-">> THEN on \ {"x"}
             ELSE IF word = <<"-", "-">> THEN on
             ELSE IF word[1] = "-" THEN on \cup Taken(word)
             ELSE on \ Taken(word),
           before, SubSeq(list, 1, n))

\* The words with an unknown option.
Refused(list) ==
  {i \in 1..OptionWords(list) : list[i] # <<"-", "-">> /\ ~(Letters(list[i]) \subseteq Known)}

-----------------------------------------------------------------------------
\* procargs: -c takes the command, then $0; without it $0 is a script.
Invoked(args) ==
  LET n       == OptionWords(args)
      minusc  == \E i \in 1..n : "c" \in Letters(args[i])
      operands == SubSeq(args, n + 1, Len(args))
  IN SubSeq(operands, IF minusc THEN 3 ELSE 2, Len(operands))

OptionsInit ==
  /\ \E args \in CommandLines : shellparam = Param(OnStack(Invoked(args)))
  /\ saveparam = <<>> /\ optlist = {} /\ controls_jobs = FALSE /\ addresses = {}
  /\ refused = FALSE /\ course = NewCourse /\ said = Nothing

\* Only what is allocated is freed with a list.
freeparam(p) == AddressesOf(p)

RoomFor(list) == Cardinality(Addresses \ addresses) >= Len(list)

\* The words are copied before the old ones are freed.
setparam(list) ==
  LET free == SetToSeq(Addresses \ addresses)
      new  == [i \in DOMAIN list |-> [word |-> list[i], at |-> free[i]]]
  IN /\ shellparam' = Param(new)
     /\ addresses' = (addresses \cup AddressesOf(new)) \ freeparam(shellparam.p)
     /\ course' = NewCourse

\* What is on after optschanged, which turns m off where there is no terminal;
\* and a mutant that leaves it on.
StaysOn(on, controls) == on

SettledOn(on, controls) == IF controls THEN on ELSE on \ {"m"}

\* set.  An option that is refused ends it before optschanged; -- alone and
\* any operands give new parameters.
setcmd(list, tty) ==
  /\ list # <<>> /\ RoomFor(list)
  /\ LET n        == OptionWords(list)
         operands == SubSeq(list, n + 1, Len(list))
         on       == After(list, n, optlist)
     IN IF Refused(list) # {}
        THEN /\ optlist' = After(list, Min(Refused(list)), optlist) /\ refused' = TRUE
             /\ UNCHANGED <<shellparam, addresses, controls_jobs, course>>
        ELSE /\ optlist' = SettledOn(on, tty \/ controls_jobs) /\ refused' = FALSE
             /\ controls_jobs' = ("m" \in on /\ (tty \/ controls_jobs))
             /\ IF operands # <<>> \/ (n > 0 /\ list[n] = <<"-", "-">>) THEN setparam(operands)
                ELSE UNCHANGED <<shellparam, addresses, course>>
  /\ said' = Nothing
  /\ UNCHANGED saveparam

\* What shift frees, and a mutant that frees one less.
FreesOneLess(p, n) == freeparam(SubSeq(p, 1, n - 1))

ShiftFrees(p, n) == freeparam(SubSeq(p, 1, n))

shiftcmd(n) ==
  /\ n <= Len(shellparam.p)
  /\ addresses' = addresses \ ShiftFrees(shellparam.p, n)
  /\ shellparam' = Param(SubSeq(shellparam.p, n + 1, Len(shellparam.p)))
  /\ course' = NewCourse /\ said' = Nothing
  /\ UNCHANGED <<saveparam, optlist, controls_jobs, refused>>

\* OPTIND=value, with getoptsreset.
getoptsreset(value) ==
  /\ shellparam' = [shellparam EXCEPT !.optind = IF value = 0 THEN 1 ELSE value, !.optoff = -1]
  /\ course' = IF value <= 1 THEN NewCourse ELSE OtherCourse
  /\ said' = Nothing
  /\ UNCHANGED <<saveparam, optlist, controls_jobs, addresses, refused>>

Alike(list, silent) ==
  \/ course.calls = 0
  \/ course.calls > 0 /\ ~course.over /\ course.list = list /\ course.silent = silent

\* getopts of the parameters or of a list of its own.  OPTIND is assigned without
\* getoptsreset.
getoptscmd(list, silent) ==
  /\ \E result \in {getopts(list, silent, shellparam.optind, shellparam.optoff)} :
       /\ said' = [c |-> result.c, optarg |-> result.optarg, done |-> result.done,
                    OPTIND |-> IF result.done THEN result.optind ELSE 0]
       /\ shellparam' = [shellparam EXCEPT !.optind = result.optind, !.optoff = result.optoff]
       /\ course' = IF Alike(list, silent)
                    THEN [list |-> list, silent |-> silent, calls |-> course.calls + 1,
                          over |-> result.done]
                    ELSE OtherCourse
  /\ UNCHANGED <<saveparam, optlist, controls_jobs, addresses, refused>>

\* The variable for the letter is readonly: the error finds optind at -1.
getopts_fails(list, silent) ==
  /\ shellparam' = [shellparam EXCEPT !.optind = -1]
  /\ course' = NewCourse /\ said' = Nothing
  /\ UNCHANGED <<saveparam, optlist, controls_jobs, addresses, refused>>

\* evalfun: the arguments are on the stack.
function_begins(list) ==
  /\ Len(saveparam) < MaxFunctions
  /\ saveparam' = Append(saveparam, [param |-> shellparam, course |-> course])
  /\ shellparam' = Param(OnStack(list)) /\ course' = NewCourse /\ said' = Nothing
  /\ UNCHANGED <<optlist, controls_jobs, addresses, refused>>

\* The end of a function, and a mutant that leaves optind and optoff as they are.
KeepsOptind(saved, p) == [saved EXCEPT !.optind = p.optind, !.optoff = p.optoff]

Restored_param(saved, p) == saved

function_ends ==
  /\ saveparam # <<>>
  /\ shellparam' = Restored_param(Last(saveparam).param, shellparam)
  /\ course' = Last(saveparam).course
  /\ addresses' = addresses \ freeparam(shellparam.p)
  /\ saveparam' = Front(saveparam) /\ said' = Nothing
  /\ UNCHANGED <<optlist, controls_jobs, refused>>

Given == OwnLists \cup {Words(shellparam.p)}

\* bound: while an option is on or was refused nothing is called but set.
OptionsNext ==
  \/ \E list \in Lists, tty \in BOOLEAN : setcmd(list, tty)
  \/ /\ optlist = {} /\ ~refused
     /\ \/ \E n \in 0..2 : shiftcmd(n)
        \/ \E value \in 0..2 : getoptsreset(value)
        \/ \E list \in Given, silent \in BOOLEAN :
             getoptscmd(list, silent) \/ getopts_fails(list, silent)
        \/ \E list \in {<<>>, Words(shellparam.p)} : function_begins(list)
        \/ function_ends

-----------------------------------------------------------------------------
(* Properties. *)

\* A list as the guidelines for utilities read it, a word at a time: the options,
\* one that still wants an argument, and the number of words that are not operands.
\* They do not know the option -: that getopts takes as Listed says; to them it is
\* unknown in silent mode, too, and answered by ? with : in OPTARG.
ReadWord(silent, read, word) ==
  LET k    == Min({i \in 2..Len(word) : word[i] \in optstr.argument} \cup {Len(word) + 1})
      rest == SubSeq(word, k + 1, Len(word))
      One(i) == IF Listed(word[i], silent) THEN <<word[i], NoArg>>
                ELSE <<"?", IF silent THEN <<word[i]>> ELSE NoArg>>
  IN IF read.over THEN read
     ELSE IF read.wants # NoLetter
     THEN [read EXCEPT !.options = Append(@, <<read.wants, word>>), !.wants = NoLetter, !.words = @ + 1]
     ELSE IF word = <<"-", "-">> THEN [read EXCEPT !.over = TRUE, !.words = @ + 1]
     ELSE IF ~IsOption(word) THEN [read EXCEPT !.over = TRUE]
     ELSE   [read EXCEPT !.options = @ \o [i \in 1..k - 2 |-> One(i + 1)]
                                       \o (IF rest = <<>> THEN <<>> ELSE <<<<word[k], rest>>>>),
                         !.wants = IF k <= Len(word) /\ rest = <<>> THEN word[k] ELSE NoLetter,
                         !.words = @ + 1]

Read(list, silent) ==
  FoldLeft(LAMBDA read, word : ReadWord(silent, read, word),
           [options |-> <<>>, wants |-> NoLetter, words |-> 0, over |-> FALSE], list)

OptionsOf(list, silent) ==
  LET read == Read(list, silent)
  IN read.options \o (IF read.wants = NoLetter THEN <<>>
                      ELSE IF silent THEN <<<<":", <<read.wants>>>>>> ELSE <<<<"?", NoArg>>>>)

(* Call by call, getopts gives the options of the list, -: in silent mode  *)
(* among them, and then ends with OPTIND at the first operand, also if     *)
(* functions are called in between that use getopts for lists of their     *)
(* own (getopts, evalfun).                                                 *)
GetoptsRight ==
  said # Nothing /\ course.calls > 0 =>
    LET options == OptionsOf(course.list, course.silent)
    IN IF said.done
       THEN course.calls = Len(options) + 1 /\ said.OPTIND = Read(course.list, course.silent).words + 1
       ELSE course.calls <= Len(options) /\ <<said.c, said.optarg>> = options[course.calls]

(* Wherever OPTIND is moved to and whatever list was read before, getopts  *)
(* begins within the list it is called for (the test of getoptscmd).       *)
GetoptsInList ==
  \A list \in Given : Clamped(shellparam.optind, list).ind \in 1..Len(list) + 1

ParamLists == <<shellparam.p>> \o [i \in DOMAIN saveparam |-> saveparam[i].param.p]

(* Every allocated parameter belongs to one list: set, shift and the end   *)
(* of a function free what they drop, once, and nothing else (setparam,    *)
(* shiftcmd, freeparam).                                                   *)
ParamsOwned ==
  /\ addresses = UNION {AddressesOf(ParamLists[i]) : i \in DOMAIN ParamLists}
  /\ \A i, j \in DOMAIN ParamLists : \A k \in DOMAIN ParamLists[i], l \in DOMAIN ParamLists[j] :
       ParamLists[i][k].at = ParamLists[j][l].at =>
         ParamLists[i][k].at = 0 \/ (i = j /\ k = l)

(* Job control is on just if set -m says so, unless a set was refused half *)
(* way (optschanged, setjobctl).                                           *)
JobControlFollows == ~refused => (controls_jobs <=> "m" \in optlist)

(* Parameters, getopts and the options agree (options.c).                  *)
ParametersSound ==
  /\ GetoptsRight
  /\ GetoptsInList
  /\ ParamsOwned
  /\ JobControlFollows
=============================================================================
