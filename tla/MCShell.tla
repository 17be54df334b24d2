------------------------------ MODULE MCShell -------------------------------
EXTENDS Shell

a == <<"-", "a">>
ab == <<"-", "a", "b">>
bx == <<"-", "b", "x">>
q_colon_a == <<"-", "q", ":", "a">>
m == <<"-", "m">>
plus_m == <<"+", "m">>
end == <<"-", "-">>
x == <<"x">>

ListValues == {<<end, q_colon_a, bx>>, <<ab, x>>, <<end, ab, <<>>>>, <<end, a>>, <<m, end>>, <<m, a>>, <<plus_m>>}

OwnListValues == {<<a, a>>}

CommandLineValues == {<<>>, <<x, a, x>>, <<<<"-", "c">>, x, x, ab>>}

Letter == [none |-> {"a"}, argument |-> {"b"}]

\* /d/e, and /l is a link to it.
TreeValue ==
  (<<<<>>, "d">> :> <<"d">>) @@ (<<<<"d">>, "e">> :> <<"d", "e">>) @@ (<<<<>>, "l">> :> <<"d", "e">>)

LeafValue == <<"d", "e">>

To(abs, names) == [abs |-> abs, names |-> names]

DestValues ==
  {To(TRUE, <<"l">>), To(TRUE, <<"d">>), To(TRUE, <<"d", "e">>), To(FALSE, <<"e">>),
   To(FALSE, <<"l">>), To(FALSE, <<"..">>), To(FALSE, <<".">>), To(FALSE, <<"..", "d">>),
   To(FALSE, <<"l", "..">>), To(FALSE, <<"..", "l">>)}

CDPATHValues == {<<>>, <<To(TRUE, <<"d">>), To(FALSE, <<>>)>>}
=============================================================================
