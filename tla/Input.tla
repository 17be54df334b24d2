------------------------------- MODULE Input --------------------------------
(***************************************************************************)
(* Where the shell benchmark reads from (bench/dash/src/input.c) and its   *)
(* aliases (alias.c).  A stack of files and strings; on each of them texts *)
(* that are pushed back: the value of an alias, or a part of a here-       *)
(* document that looked like its end.  Characters can be ungot.  An alias  *)
(* is in use while its value is read and until the character behind it is: *)
(* then it is not expanded again and its value must not be freed.          *)
(***************************************************************************)
EXTENDS Integers, Sequences, FiniteSetsExt, SequencesExt

CONSTANTS
  Names,      \* of aliases
  Values,     \* bound: the addresses of values of aliases, 1..n
  LineLength, \* bound: the characters of a file
  MaxFiles,   \* bound: nested files and strings
  MaxTexts    \* bound: texts pushed back at a time

NoName == "no name"

ASSUME InputAssumption ==
  /\ Values \subseteq Nat \ {0}
  /\ {LineLength, MaxFiles, MaxTexts} \subseteq Nat
  /\ NoName \notin Names

VARIABLES
  parsefiles, \* the files, parsefile last: [ctx, strs, last]; ctx says how
              \* reading stands in the innermost text, strs which texts are
              \* pushed, last what the parser read last, newest first
  atab,       \* the aliases: [val, inuse, dead]
  allocated   \* the values that are allocated

inputVars == <<parsefiles, atab, allocated>>

NoAlias == [val |-> 0, inuse |-> FALSE, dead |-> FALSE]
PEOF == <<0, 0, 0>>

parsefile == Last(parsefiles)

ReplaceFile(f) == parsefiles' = [parsefiles EXCEPT ![Len(parsefiles)] = f]

\* len characters, pos of them read; unget of lastc are to be read again: back
\* is what the parser gave back.  spfree are texts done and not yet freed.
Context(len, lastc) ==
  [len |-> len, pos |-> 0, unget |-> 0, lastc |-> lastc, back |-> <<>>, spfree |-> <<>>]

NewFile == [ctx |-> Context(LineLength, <<PEOF, PEOF>>), strs |-> <<>>, last |-> <<>>]

\* Values of one character and of two.
ValueLength(v) == IF v % 2 = 1 THEN 1 ELSE 2

\* A character is named by its file, its text and its place.
CharAt(f, k) == <<Len(parsefiles), Len(f.strs), k>>

Users(sps) == {sp.ap : sp \in sps} \ {NoName}

-----------------------------------------------------------------------------
(* Freeing. *)

\* freestrings: the aliases of these texts are no longer in use; unalias frees
\* those that died meanwhile.
freestrings(sps) ==
  atab' = [n \in Names |->
    IF n \notin Users(sps) THEN atab[n]
    ELSE IF atab[n].dead THEN NoAlias ELSE [atab[n] EXCEPT !.inuse = FALSE]]

\* What popstring frees: a value that is no longer its alias's.
FreedByPop(sps) ==
  {sp.string : sp \in {sp \in sps : sp.ap # NoName /\ sp.string # atab[sp.ap].val}}

FreedByUnalias(sps) == {atab[n].val : n \in {n \in Users(sps) : atab[n].dead}}

\* popstring, and a mutant that keeps the last characters of the text.
ContextKeepsLast(f) ==
  [Last(f.strs).ctx EXCEPT !.spfree = <<Last(f.strs)>> \o @, !.lastc = f.ctx.lastc]

ContextBefore(f) == [Last(f.strs).ctx EXCEPT !.spfree = <<Last(f.strs)>> \o @]

popstring(f) == [f EXCEPT !.ctx = ContextBefore(f), !.strs = Front(@)]

-----------------------------------------------------------------------------
(* Reading. *)

Shifted(lastc, c) == <<c, lastc[1]>>

Ungot(f) ==
  [file |-> [f EXCEPT !.ctx = [f.ctx EXCEPT !.unget = @ - 1, !.back = Tail(@)]],
   c    |-> f.ctx.lastc[f.ctx.unget]]

Enters(f, c) == [file |-> [f EXCEPT !.ctx.lastc = Shifted(@, c)], c |-> c]

NextChar(f) == Enters([f EXCEPT !.ctx.pos = @ + 1], CharAt(f, f.ctx.pos + 1))

\* The innermost text is at its end, and there is one below.
TextDone(f) == f.ctx.unget = 0 /\ f.ctx.pos = f.ctx.len /\ f.strs # <<>>

\* What was ungot comes first, then the text; at its end the character is one
\* of the text below, and is entered in lastc twice.
Got(f) ==
  LET below == popstring(f)
      r == IF below.ctx.unget > 0 THEN Ungot(below) ELSE NextChar(below)
  IN CASE f.ctx.unget > 0 -> Ungot(f)
       [] f.ctx.unget = 0 /\ f.ctx.pos < f.ctx.len -> NextChar(f)
       [] TextDone(f) -> Enters(r.file, r.c)
       [] OTHER -> Enters(f, PEOF)

\* The parser remembers the last two characters.
Recent(c, last) == IF last = <<>> THEN <<c>> ELSE <<c, last[1]>>

Recorded(r) == [r.file EXCEPT !.last = Recent(r.c, @)]

\* The texts done are freed first.
DoneFreed(f) == [f EXCEPT !.ctx.spfree = <<>>]

pgetc ==
  LET f == parsefile
      done == ToSet(f.ctx.spfree)
      popped == IF TextDone(f) THEN {Last(f.strs)} ELSE {}
  IN /\ freestrings(done)
     /\ allocated' = allocated \ (FreedByUnalias(done) \cup FreedByPop(popped))
     /\ ReplaceFile(Recorded(Got(DoneFreed(f))))

\* The parser gives back the last character, or after a backslash two: both of
\* the same text, for no value ends in a backslash.
pungetc ==
  LET f == parsefile IN
  /\ f.last # <<>>
  /\ f.ctx.unget < 2
  /\ f.ctx.unget = 1 => Head(f.last)[2] = Len(f.strs) /\ f.ctx.back[1][2] = Len(f.strs)
  /\ ReplaceFile([f EXCEPT
                    !.ctx = [f.ctx EXCEPT !.unget = @ + 1, !.back = <<Head(f.last)>> \o @],
                    !.last = Tail(@)])
  /\ UNCHANGED <<atab, allocated>>

-----------------------------------------------------------------------------
(* Texts, aliases and files. *)

\* Commands run, and files are pushed, where the parser has given nothing back.
BetweenWords == parsefile.ctx.unget = 0

pushstring(len, ap, string) ==
  LET f == parsefile IN
  /\ FoldLeft(LAMBDA n, g : n + Len(g.strs), 0, parsefiles) < MaxTexts
  /\ ReplaceFile([ctx  |-> Context(len, f.ctx.lastc),
                  strs |-> Append(f.strs, [ap |-> ap, string |-> string, ctx |-> f.ctx]),
                  last |-> <<>>])

\* An alias that may be expanded, and a mutant that expands one in use.
ExpandableAlways(n) == atab[n].val # 0

Expandable(n) == atab[n].val # 0 /\ ~atab[n].inuse

\* The parser has read a word and given back what ended it.
expand_alias(n) ==
  /\ Expandable(n) /\ parsefile.ctx.unget = 1
  /\ pushstring(ValueLength(atab[n].val), n, atab[n].val)
  /\ atab' = [atab EXCEPT ![n].inuse = TRUE]
  /\ UNCHANGED allocated

\* A line of a here-document began like its end; there is more behind it.
more_heredoc ==
  /\ parsefile.ctx.unget = 0 /\ parsefile.ctx.pos < parsefile.ctx.len
  /\ parsefile.ctx.spfree = <<>>
  /\ pushstring(1, NoName, 0)
  /\ UNCHANGED <<atab, allocated>>

\* setalias leaves the value of an alias in use to popstring, and a mutant
\* that frees it.
FreedAtOnce(n) == {atab[n].val} \ {0}

FreedBySet(n) == IF atab[n].inuse THEN {} ELSE {atab[n].val} \ {0}

setalias(n) ==
  /\ BetweenWords /\ Values \ allocated # {}
  /\ LET v == Min(Values \ allocated)
     IN /\ atab' = [atab EXCEPT ![n].val = v, ![n].dead = FALSE]
        /\ allocated' = (allocated \cup {v}) \ FreedBySet(n)
  /\ UNCHANGED parsefiles

\* freealias: one in use dies later.
Freealias(ns) ==
  /\ BetweenWords
  /\ atab' = [n \in Names |->
                IF n \notin ns \/ atab[n].val = 0 THEN atab[n]
                ELSE IF atab[n].inuse THEN [atab[n] EXCEPT !.dead = TRUE] ELSE NoAlias]
  /\ allocated' = allocated \ {atab[n].val : n \in {n \in ns : ~atab[n].inuse}}
  /\ UNCHANGED parsefiles

unalias(n) == atab[n].val # 0 /\ Freealias({n})

rmaliases == Freealias(Names)

\* setinputfile and setinputstring: . and eval.
pushfile ==
  /\ BetweenWords /\ Len(parsefiles) < MaxFiles
  /\ parsefiles' = Append([parsefiles EXCEPT ![Len(parsefiles)].last = <<>>], NewFile)
  /\ UNCHANGED <<atab, allocated>>

\* The texts of a file when it is popped, each with those done before it.
AllTexts(f) ==
  ToSet(f.strs) \cup ToSet(f.ctx.spfree) \cup UNION {ToSet(sp.ctx.spfree) : sp \in ToSet(f.strs)}

FreesFiles(files) ==
  LET texts == UNION {AllTexts(f) : f \in files}
      read == UNION {ToSet(f.strs) : f \in files}
  IN /\ freestrings(texts)
     /\ allocated' = allocated \ (FreedByUnalias(texts) \cup FreedByPop(read))

popfile ==
  /\ Len(parsefiles) > 1
  /\ FreesFiles({parsefile})
  /\ parsefiles' = Front(parsefiles)

\* An error: the rest of the line is forgotten, the texts pushed in the lowest
\* file are not.
reset ==
  /\ FreesFiles(ToSet(Tail(parsefiles)))
  /\ LET f == Head(parsefiles)
     IN parsefiles' =
          <<[f EXCEPT !.ctx = [f.ctx EXCEPT !.pos = f.ctx.len, !.unget = 0, !.back = <<>>],
                      !.last = <<>>]>>

InputInit ==
  /\ parsefiles = <<NewFile>>
  /\ atab = [n \in Names |-> NoAlias]
  /\ allocated = {}

InputNext ==
  \/ pgetc \/ pungetc \/ more_heredoc
  \/ \E n \in Names : expand_alias(n) \/ setalias(n) \/ unalias(n)
  \/ rmaliases \/ pushfile \/ popfile \/ reset

-----------------------------------------------------------------------------
(* Properties. *)

(* An alias is in use exactly while a text of its value is being read or   *)
(* not yet freed, in whatever file, also when it is set again, removed, or *)
(* the reader goes back to the top after an error: otherwise it would      *)
(* expand itself without end, or never again (ALIASINUSE).                 *)
InUseExact ==
  {n \in Names : atab[n].inuse} = UNION {Users(AllTexts(f)) : f \in ToSet(parsefiles)}

(* The value of an alias and the text being read stay allocated, when an   *)
(* alias is set again or removed while it is in use, and until the reader  *)
(* is through (alias.c:62, input.c:383).  The other way round does not     *)
(* hold: of two values set while an alias is in use the first is lost.     *)
ValuesKept ==
  /\ {atab[n].val : n \in Names} \ {0} \subseteq allocated
  /\ \A k \in DOMAIN parsefiles : \A sp \in ToSet(parsefiles[k].strs) :
       sp.ap # NoName => sp.string \in allocated

\* What is read from next: the text below when the innermost is at its end.
ReadNext(f) ==
  IF TextDone(f) THEN Last(f.strs).ctx ELSE f.ctx

(* What was given back is read again, in the order it was read, although   *)
(* texts were pushed and popped in between: lastc holds it, in every text  *)
(* its own (pushstring and popstring; two characters may be ungot).        *)
UngotComesBack ==
  [][pgetc /\ ReadNext(parsefile).unget > 0 =>
       Head(parsefile'.last) = Head(ReadNext(parsefile).back)]_inputVars

(* Aliases and the texts the parser reads from agree (input.c, alias.c).   *)
AliasesSound ==
  /\ InUseExact
  /\ ValuesKept
=============================================================================
