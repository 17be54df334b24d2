-------------------------------- MODULE Var ---------------------------------
(***************************************************************************)
(* Variables of the shell benchmark (bench/dash/src/var.c).  A variable is *)
(* a struct with flags and a text "name=value" that may be allocated.  A   *)
(* function saves what it makes local, texts included, and the shell saves *)
(* what is assigned in front of a command; when either ends, or an error   *)
(* ends it, everything is put back.  Some variables tell a callback their  *)
(* new value (PATH).                                                       *)
(***************************************************************************)
EXTENDS Integers, Sequences, FiniteSetsExt, SequencesExt

CONSTANTS
  VarNames,  \* bound: the variables
  VarTexts,  \* bound: allocated texts, where a value is assigned
  MaxLocals, \* bound: calls of functions and commands with assignments
  MaxSaved   \* bound: what they make local

ASSUME VarAssumption ==
  /\ "-" \notin VarNames
  /\ {VarTexts, MaxLocals, MaxSaved} \subseteq Nat

VARIABLES
  vars,           \* the variables: those in vartab are there
  localvar_stack, \* what is saved, innermost last
  texts,          \* the allocated texts
  seen,           \* the text a callback was called with last
  aflag,          \* set -a
  failed          \* a readonly variable was made local

varVars == <<vars, localvar_stack, texts, seen, aflag, failed>>

\* The text of a variable that is unset is its name; in a variable of varinit
\* it is static.
Static == 0

NotThere == [there |-> FALSE, text |-> Static, unset |-> TRUE, export |-> FALSE,
             readonly |-> FALSE, strfixed |-> FALSE, textfixed |-> FALSE, func |-> FALSE]

\* A variable of varinit.
Initial == [NotThere EXCEPT !.there = TRUE, !.unset = FALSE, !.strfixed = TRUE,
                            !.textfixed = TRUE, !.func = TRUE]

\* The flags that callers of setvareq give.
Plain == [export |-> FALSE, readonly |-> FALSE, strfixed |-> FALSE]

\* The address of a text is any that no allocated text has.
FreshText(st) == Min((1..(Cardinality(st.texts) + 1)) \ st.texts)

-----------------------------------------------------------------------------
(* setvareq, on the variables, the texts and what callbacks saw.           *)

Vars == [vars |-> vars, texts |-> texts, seen |-> seen, aflag |-> aflag]

Become_vars(st) ==
  vars' = st.vars /\ texts' = st.texts /\ seen' = st.seen /\ aflag' = st.aflag

Called(st, n, t) == IF st.vars[n].func THEN [st.seen EXCEPT ![n] = t] ELSE st.seen

\* The text that is replaced is freed, unless it is static or saved; and a
\* mutant that overlooks the second.
FreesSaved(v) == {v.text} \ {Static}

FreesText(v) == IF v.textfixed THEN {} ELSE {v.text}

\* The struct goes with the value when nothing else is known of the variable.
GoesAway(v, unset, fl) ==
  unset /\ ~fl.export /\ ~fl.readonly /\ ~fl.strfixed /\ ~v.strfixed

\* Not for a readonly variable.
Setvareq(st, n, unset, flags) ==
  LET v    == st.vars[n]
      fl   == [flags EXCEPT !.export = @ \/ st.aflag]
      t    == FreshText(st)
      new  == [there |-> TRUE, text |-> t, unset |-> unset, textfixed |-> FALSE, func |-> v.func,
               export |-> fl.export \/ v.export, readonly |-> fl.readonly,
               strfixed |-> fl.strfixed \/ v.strfixed]
      freed == IF v.there THEN FreesText(v) ELSE {}
  IN IF GoesAway(v, unset, fl)
     THEN [st EXCEPT !.vars[n] = NotThere, !.texts = @ \ freed]
     ELSE [st EXCEPT !.vars[n] = new, !.texts = (@ \cup {t}) \ freed,
                     !.seen = Called(st, n, t)]

-----------------------------------------------------------------------------
VarInit ==
  /\ vars \in [VarNames -> {NotThere, Initial}]
  /\ localvar_stack = <<>> /\ texts = {} /\ aflag = FALSE /\ failed = FALSE
  /\ seen = [n \in VarNames |-> Static]

RoomForText == Cardinality(texts) < VarTexts

\* setvar: assignments, unset, and export and readonly with a value or of a
\* variable that is not there.
setvar(n, unset, flags) ==
  /\ ~vars[n].readonly /\ RoomForText
  /\ \E st \in {Setvareq(Vars, n, unset, flags)} : Become_vars(st)
  /\ UNCHANGED <<localvar_stack, failed>>

\* exportcmd of a variable that is there.
exportcmd(n, flag) ==
  /\ vars[n].there /\ vars' = [vars EXCEPT ![n][flag] = TRUE]
  /\ UNCHANGED <<localvar_stack, texts, seen, aflag, failed>>

setoption_a ==
  /\ aflag' = ~aflag
  /\ UNCHANGED <<vars, localvar_stack, texts, seen, failed>>

pushlocalvars ==
  /\ Len(localvar_stack) < MaxLocals
  /\ localvar_stack' = Append(localvar_stack, <<>>)
  /\ UNCHANGED <<vars, texts, seen, aflag, failed>>

Save(lv) ==
  /\ localvar_stack # <<>> /\ Len(FlattenSeq(localvar_stack)) < MaxSaved
  /\ localvar_stack' = [localvar_stack EXCEPT ![Len(localvar_stack)] = <<lv>> \o @]

Fixed(v) == [v EXCEPT !.strfixed = TRUE, !.textfixed = TRUE]

\* mklocal: eq says whether there is a value; with VEXPORT for what is assigned
\* in front of a command.  The struct must not go away meanwhile, nor its text.
mklocal(n, eq, export) ==
  /\ RoomForText /\ ~(eq /\ vars[n].readonly) /\ (export => eq)
  /\ LET v     == vars[n]
         flags == [Plain EXCEPT !.export = export, !.strfixed = ~v.there]
         saved == [Vars EXCEPT !.vars[n] = IF v.there THEN Fixed(v) ELSE v]
     IN /\ Save([vp |-> n, v |-> v])
        /\ Become_vars(IF ~v.there \/ eq THEN Setvareq(saved, n, ~eq, flags) ELSE saved)
  /\ UNCHANGED failed

\* A readonly variable is given no value; its flags have changed by then.
mklocal_fails(n) ==
  /\ localvar_stack # <<>> /\ vars[n].readonly
  /\ vars' = [vars EXCEPT ![n] = Fixed(@)] /\ failed' = TRUE
  /\ UNCHANGED <<localvar_stack, texts, seen, aflag>>

\* local - saves the options: of them set -a.
mklocal_options ==
  /\ Save([vp |-> "-", v |-> [NotThere EXCEPT !.export = aflag]])
  /\ UNCHANGED <<vars, texts, seen, aflag, failed>>

\* poplocalvars puts one back.  A variable that was not there is unset,
\* whatever became of it; a mutant forgets the callback.
PutBackSilently(st, lv) ==
  IF lv.vp = "-" THEN [st EXCEPT !.aflag = lv.v.export]
  ELSE IF ~lv.v.there
  THEN Setvareq([st EXCEPT !.vars[lv.vp].strfixed = FALSE], lv.vp, TRUE, Plain)
  ELSE [st EXCEPT !.vars[lv.vp] = lv.v, !.texts = @ \ FreesText(st.vars[lv.vp])]

PutBack(st, lv) ==
  IF lv.vp = "-" THEN [st EXCEPT !.aflag = lv.v.export]
  ELSE IF ~lv.v.there
  THEN Setvareq([st EXCEPT !.vars[lv.vp].strfixed = FALSE], lv.vp, TRUE, Plain)
  ELSE [st EXCEPT !.vars[lv.vp] = lv.v, !.texts = @ \ FreesText(st.vars[lv.vp]),
                  !.seen = Called(st, lv.vp, lv.v.text)]

\* All of a list, and a mutant that begins with the oldest.
OldestFirst(st, lvs) == FoldLeft(PutBack, st, Reverse(lvs))

Restored(st, lvs) == FoldLeft(PutBack, st, lvs)

\* A function or command ends, in order or by an error that is caught.
poplocalvars ==
  /\ localvar_stack # <<>>
  /\ \E st \in {Restored(Vars, Last(localvar_stack))} : Become_vars(st)
  /\ localvar_stack' = Front(localvar_stack)
  /\ UNCHANGED failed

\* All lists, the innermost first.
Unwound(st, lists) == FoldLeft(Restored, st, Reverse(lists))

\* An error that goes to the top.
unwindlocalvars ==
  /\ Len(localvar_stack) > 1
  /\ \E st \in {Unwound(Vars, localvar_stack)} : Become_vars(st)
  /\ localvar_stack' = <<>>
  /\ UNCHANGED failed

VarNext ==
  \/ \E n \in VarNames :
       \/ \E unset \in BOOLEAN : setvar(n, unset, Plain)
       \/ setvar(n, FALSE, [Plain EXCEPT !.readonly = TRUE])
       \/ \E unset \in BOOLEAN :
            (unset => ~vars[n].there) /\ setvar(n, unset, [Plain EXCEPT !.export = TRUE])
       \/ \E flag \in {"export", "readonly"} : exportcmd(n, flag)
       \/ \E eq, export \in BOOLEAN : mklocal(n, eq, export)
       \/ mklocal_fails(n)
  \/ setoption_a \/ pushlocalvars \/ mklocal_options \/ poplocalvars \/ unwindlocalvars

-----------------------------------------------------------------------------
(* Properties. *)

\* What can be seen of a variable.
View(v) == [text |-> IF v.unset THEN Static ELSE v.text, unset |-> v.unset,
            export |-> v.export, readonly |-> v.readonly]

\* What a list saved of a variable first: the oldest comes last.
FirstSaved(lvs, n) == lvs[Max({k \in DOMAIN lvs : lvs[k].vp = n})].v

(* When a function or a command with assignments is over, however it ends, *)
(* what it made local is as it was: also made local twice, unset, made     *)
(* readonly or exported in between.  A variable that was not there is      *)
(* unset again, but counts as exported under set -a (poplocalvars).        *)
LocalsRestored ==
  [][poplocalvars =>
       \A n \in VarNames : LET lvs == Last(localvar_stack) IN
         IF \E k \in DOMAIN lvs : lvs[k].vp = n
         THEN LET v == FirstSaved(lvs, n)
                IN View(vars[n])' =
                   [View(v) EXCEPT !.export = @ \/ (~v.there /\ vars[n].export')]
         ELSE vars[n]' = vars[n]]_varVars

Owners ==
  {<<0, n>> : n \in {n \in VarNames : vars[n].text # Static /\ ~vars[n].textfixed}}
  \cup UNION {{<<i, k>> : k \in {k \in DOMAIN localvar_stack[i] :
                 LET lv == localvar_stack[i][k] IN
                   lv.vp # "-" /\ lv.v.text # Static /\ ~lv.v.textfixed}} :
              i \in DOMAIN localvar_stack}

TextOf(o) == IF o[1] = 0 THEN vars[o[2]].text ELSE localvar_stack[o[1]][o[2]].v.text

(* Every allocated text has one owner, the variable or one that saved it:  *)
(* none is freed twice, used after it was freed, or lost, however often a  *)
(* variable is made local (VTEXTFIXED).  Only where a readonly variable    *)
(* was given a local value a text may be lost.                             *)
TextsOwned ==
  /\ \A o, p \in Owners : TextOf(o) = TextOf(p) => o = p
  /\ {TextOf(o) : o \in Owners} \subseteq texts
  /\ {vars[n].text : n \in VarNames} \subseteq texts \cup {Static}
  /\ ~failed => {TextOf(o) : o \in Owners} = texts

(* What depends on a variable goes by its value: a callback was told the   *)
(* text the variable has, also after a function that changed it is over    *)
(* (changepath forgets where commands were found).                         *)
CallbacksTold == \A n \in VarNames : vars[n].func /\ ~vars[n].unset => seen[n] = vars[n].text

(* Every text has one owner, and every callback its variable (var.c).      *)
VariablesSound ==
  /\ TextsOwned
  /\ CallbacksTold
=============================================================================
