------------------------------ MODULE ShellMC ------------------------------
(* Lines, names and programs for the runs of Shell.                         *)
EXTENDS Shell

Directories == <<"bin", "usr">>
Programs == {<<"bin", "p">>, <<"usr", "q">>}
Scripts == {"here"}
Names == {<<"f">>, <<"g">>}
Files == {<<"f">>}

TheLines ==
  {<<>>,
   <<"echo", "x", ">", "g">>,                \* a built-in
   <<"p", "<", "g">>,                        \* there only once made
   <<"q", "x", "x">>,
   <<"none", "<", "h">>,
   <<"here", "<", "f", ">", "g", "2>", "f">>,
   <<"p", ">", "g", "<", "f">>,              \* the name is "g < f"
   <<"<", "f">>,                             \* no command
   <<"p", "|", "q">>,
   <<"p", ";", ">", "g", ";", "q", "2>", "g">>,
   <<"here", "x", "x", "x">>}                \* too many words
=============================================================================
