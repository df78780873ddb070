------------------------------- MODULE MCPoll -------------------------------
(***************************************************************************)
(* The arguments of poll that TLC tries.                                   *)
(***************************************************************************)
EXTENDS Poll

MCArrays == {<<"source", "source">>, <<"source", "socket">>,
             <<"socket", "socket">>, <<"sink", "source">>,
             <<"socket", "file">>, <<"negative", "source">>,
             <<"invalid", "socket">>}
MCEventSets == {{}, {"IN"}, {"OUT", "PRI"}}
MCTimeouts == {-1, 0, 1}
=============================================================================
