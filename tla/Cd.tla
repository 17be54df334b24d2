--------------------------------- MODULE Cd ---------------------------------
(***************************************************************************)
(* The working directory of the shell benchmark (bench/dash/src/cd.c): cd  *)
(* keeps a name of it that may go through symbolic links, curdir, and      *)
(* pwd -P one that does not, physdir.  A path is a sequence of names,      *)
(* absolute or not; a directory is its absolute path without links.        *)
(* Directories may be removed while the shell runs.                        *)
(***************************************************************************)
EXTENDS Integers, Sequences, FiniteSetsExt, SequencesExt

CONSTANTS
  Tree,     \* directories by <<directory, name>>: subdirectories and links
  Dests,    \* bound: what cd is given: [abs, names]
  CDPATHs,  \* bound: values of CDPATH, sequences of such
  Leaf      \* a directory that may be removed

\* The directories, and none.
Directories == {<<>>} \cup {Tree[entry] : entry \in DOMAIN Tree}
Nowhere == <<"nowhere">>

\* Of files and directories, and the two that go to this and the one before.
FileNames == STRING \cup {".", ".."}
PathNames == [abs : BOOLEAN, names : Seq(FileNames)]

\* Every directory is the one of its own name in the directory before it, and
\* what may be removed has nothing in it.
ASSUME CdAssumption ==
  /\ \A entry \in DOMAIN Tree :
       entry \in Directories \X FileNames /\ entry[2] \notin {".", ".."}
  /\ \A dir \in Directories \ {<<>>} :
       /\ dir \in Seq(FileNames) /\ Front(dir) \in Directories \ {Leaf}
       /\ <<Front(dir), Last(dir)>> \in DOMAIN Tree /\ Tree[<<Front(dir), Last(dir)>>] = dir
  /\ Nowhere \notin Directories
  /\ Dests \subseteq PathNames /\ CDPATHs \subseteq Seq(PathNames)

VARIABLES
  curdirectory, \* the directory the kernel has for the shell
  gone,         \* the leaf was removed
  curdir,       \* [names, at]: its name and where that is allocated, 0 for nullstr
  physdir,
  OLDPWD,       \* the names, or nullstr
  wasin,        \* the directory before the last cd
  strings,      \* the allocated names
  freedtwice

cdVars == <<curdirectory, gone, curdir, physdir, OLDPWD, wasin, strings, freedtwice>>

nullname == [known |-> FALSE, names |-> <<>>]
nullstr == [names |-> nullname, at |-> 0]
Name(names) == [known |-> TRUE, names |-> names]

\* The directory the kernel finds from dir, or Nowhere.
Enter(dir, name) ==
  IF dir = Nowhere THEN Nowhere
  ELSE IF name = "." THEN dir
  ELSE IF name = ".." THEN IF dir = <<>> THEN dir ELSE Front(dir)
  ELSE IF <<dir, name>> \notin DOMAIN Tree \/ (gone /\ Tree[<<dir, name>>] = Leaf)
  THEN Nowhere
  ELSE Tree[<<dir, name>>]

Resolve(path) == FoldLeft(Enter, IF path.abs THEN <<>> ELSE curdirectory, path.names)

Absolute(names) == [abs |-> TRUE, names |-> names]

-----------------------------------------------------------------------------
(* setpwd, on the names, the allocated ones and what was freed.            *)

\* getpwd: the kernel has no name for a directory that was removed.
getpwd(dir) == IF gone /\ dir = Leaf THEN nullname ELSE Name(dir)

\* A place for a new name, none for nullstr.
Place(name, taken) == IF name.known THEN Min({a \in 1..4 : a \notin taken}) ELSE 0

\* The name the physical one is replaced by is freed with curdir if it is the
\* same.  A mutant keeps what pwd -P found.
KeepsPhysdir(new, keeps) == IF physdir = nullstr THEN new ELSE physdir

NewPhysdir(new, keeps) == IF keeps THEN new ELSE nullstr

\* What is freed, by address, in order; and a mutant that frees them apart.
FreedApart(dir) ==
  (IF physdir # nullstr THEN <<physdir.at>> ELSE <<>>)
  \o (IF curdir # dir /\ curdir # nullstr THEN <<curdir.at>> ELSE <<>>)

Freed(dir) ==
  (IF physdir # nullstr /\ physdir # curdir THEN <<physdir.at>> ELSE <<>>)
  \o (IF curdir # dir /\ curdir # nullstr THEN <<curdir.at>> ELSE <<>>)

\* With val the name of the directory; without it getpwd's, or with curdir itself
\* only the physical one is looked for.
setpwd(val, same, dir) ==
  LET s     == getpwd(dir)
      found == [names |-> s, at |-> Place(s, strings)]
      new   == IF same THEN curdir
               ELSE IF val = nullname THEN found
               ELSE [names |-> val, at |-> Place(val, strings)]
      looks == same \/ val = nullname
  IN /\ curdir' = new
     /\ physdir' = NewPhysdir(found, looks)
     /\ strings' = (strings \ ToSet(Freed(new))) \cup ({new.at, physdir'.at} \ {0})
     /\ freedtwice' = (freedtwice \/ ~IsInjective(Freed(new)) \/ ~(ToSet(Freed(new)) \subseteq strings))

-----------------------------------------------------------------------------
\* PWD of the environment is believed if it is a name of the directory.
Entered(dir, name) == IF <<dir, name>> \in DOMAIN Tree THEN Tree[<<dir, name>>] ELSE Nowhere

CdInit ==
  /\ \E dir \in Directories :
       \E name \in {nullname} \cup {Name(d.names) : d \in {d \in Dests : d.abs}} :
         /\ curdirectory = dir /\ wasin = dir
         /\ name.known => FoldLeft(Entered, <<>>, name.names) = dir
         /\ curdir = [names |-> IF name.known THEN name ELSE Name(dir), at |-> 1]
         /\ physdir = IF name.known THEN nullstr ELSE curdir
  /\ gone = FALSE /\ OLDPWD = nullname /\ strings = {1} /\ freedtwice = FALSE

\* updatepwd: the names of curdir and dest without . and what .. takes back; and
\* a mutant that takes . for .. as well.
DotTakesBack(dest) ==
  IF ~dest.abs /\ ~curdir.names.known THEN nullname
  ELSE Name(FoldLeft(LAMBDA names, n : IF n \notin {".", ".."} THEN Append(names, n)
                                       ELSE IF names = <<>> THEN names ELSE Front(names),
                     IF dest.abs THEN <<>> ELSE curdir.names.names, dest.names))

Walked(names, n) ==
  CASE n = "."  -> names
    [] n = ".." -> IF names = <<>> THEN names ELSE Front(names)
    [] OTHER    -> Append(names, n)

updatepwd(dest) ==
  IF ~dest.abs /\ ~curdir.names.known THEN nullname
  ELSE Name(FoldLeft(Walked, IF dest.abs THEN <<>> ELSE curdir.names.names, dest.names))

\* docd.
docd_to(dest, physical) ==
  LET name == IF physical THEN nullname ELSE updatepwd(dest)
      to   == Resolve(IF name.known THEN Absolute(name.names) ELSE dest)
  IN IF to = Nowhere THEN UNCHANGED cdVars
     ELSE /\ curdirectory' = to /\ wasin' = curdirectory /\ OLDPWD' = curdir.names
          /\ setpwd(name, FALSE, to)
          /\ UNCHANGED gone

\* Where cd looks for dest: in the places of CDPATH, unless it begins with / or .
Dotted(dest) == dest.names # <<>> /\ dest.names[1] \in {".", ".."}

Candidates(dest, cdpath, searched) ==
  LET In(place) == [abs |-> place.abs, names |-> place.names \o dest.names]
      hits == {i \in DOMAIN cdpath : Resolve(In(cdpath[i])) # Nowhere}
  IN IF searched /\ hits # {} THEN In(cdpath[Min(hits)]) ELSE dest

cdcmd(dest, cdpath, physical) ==
  docd_to(Candidates(dest, cdpath, ~dest.abs /\ ~Dotted(dest)), physical)

\* cd -, where OLDPWD may be unset or empty: then the directory is . in CDPATH.
cdcmd_back(cdpath, physical) ==
  IF OLDPWD.known THEN docd_to(Absolute(OLDPWD.names), physical)
  ELSE docd_to(Candidates([abs |-> FALSE, names |-> <<".">>], cdpath, TRUE), physical)

\* pwd -P.
pwdcmd ==
  /\ physdir = nullstr /\ setpwd(nullname, TRUE, curdirectory)
  /\ UNCHANGED <<curdirectory, gone, OLDPWD, wasin>>

\* Another process removes the leaf.
rmdir ==
  /\ ~gone /\ gone' = TRUE
  /\ UNCHANGED <<curdirectory, curdir, physdir, OLDPWD, wasin, strings, freedtwice>>

CdNext ==
  \/ \E cdpath \in CDPATHs, physical \in BOOLEAN :
       \/ \E dest \in Dests : cdcmd(dest, cdpath, physical)
       \/ cdcmd_back(cdpath, physical)
  \/ pwdcmd \/ rmdir

-----------------------------------------------------------------------------
(* Properties. *)

\* Where a name leads, which may be nowhere since the leaf is gone.
LeadsTo(name, dir) ==
  name.known => Resolve(Absolute(name.names)) \in {dir} \cup (IF gone THEN {Nowhere} ELSE {})

(* What pwd says is a name of the directory the shell is in, through links *)
(* or not, and what cd - goes to one of the directory it was in, whatever  *)
(* mixture of cd -L, cd -P, .. and links led there.                        *)
PwdNamesDirectory ==
  /\ LeadsTo(curdir.names, curdirectory) /\ LeadsTo(OLDPWD, wasin)
  /\ physdir.names.known => physdir.names.names = curdirectory

(* Unless dest has .. after a link, which cd -L takes back by name, cd by  *)
(* name comes to the directory the kernel would come to, however the shell *)
(* came to where it is (updatepwd, docd).                                  *)
LogicalIsPhysical ==
  [][curdir' # curdir =>
       \A dest \in Dests :
         ~gone /\ ".." \notin ToSet(dest.names) /\ cdcmd(dest, <<>>, FALSE) =>
           curdirectory' = Resolve(dest)]_cdVars

(* The names curdir and physdir have are allocated, one may be both, and   *)
(* no other: each is freed once (setpwd).                                  *)
NamesOwned == strings = {curdir.at, physdir.at} \ {0} /\ ~freedtwice

(* The names of the directory are right and have their own memory (cd.c).  *)
DirectorySound ==
  /\ PwdNamesDirectory
  /\ NamesOwned
=============================================================================
