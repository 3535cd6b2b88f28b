------------------------------- MODULE MCTools -------------------------------
(* AgentTools in a directory of three entries. *)
EXTENDS AgentTools

FewContents ==
    {<<>>, <<"short">>, <<"hit">>, <<"hit", "hit">>, <<"short", "hit", "short">>,
     <<"long", "short">>, <<"long", "long", "short">>}
===============================================================================
