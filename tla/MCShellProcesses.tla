-------------------------- MODULE MCShellProcesses --------------------------
EXTENDS ShellProcesses

Order == <<"INT", "TSTP">>

PathValues == {<<"abs">>, <<"rel", "abs">>, <<"abs", "rel">>, <<"%builtin", "abs">>,
               <<"abs", "%builtin", "rel">>, <<"rel", "%builtin", "abs">>}

AbsPath == <<"abs">>
=============================================================================
