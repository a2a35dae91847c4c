----------------------------- MODULE MCShellLine -----------------------------
(* Two commands: "a", which takes one parameter, and "aa" with none.       *)
EXTENDS ShellLine, StringUtil

MCArgs == [name \in {<<"a">>, <<"a", "a">>} |-> IF name = <<"a">> THEN 1 ELSE 0]
MCPipeable == {<<"a">>}

(* Whatever command runs, the conversions it prints and reads with agree   *)
(* with what the strings denote: numbers, addresses, hexadecimal output,   *)
(* equality and the time, over bounded inputs (string_util.c:8-102,        *)
(* inout.c:64-81, 196-217, commands.c:78-91).                              *)
ConversionsAgree == at = "run" => Conversions
=============================================================================
