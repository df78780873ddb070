----------------------------- MODULE MCMadvise -----------------------------
(***************************************************************************)
(* The memory and the ranges that TLC tries.                               *)
(***************************************************************************)
EXTENDS Madvise

Row(s) == [p \in Pages |-> s[p + 1]]
MCLayouts == {Row(<<"a", "a", "free", "b", "b", "free">>),
              Row(<<"a", "b", "a", "a", "free", "free">>),
              Row(<<"free", "free", "free", "a", "a", "b">>),
              Row(<<"a", "a", "a", "a", "free", "free">>)}
MCRanges == {<<0, 12>>, <<0, 7>>, <<1, 9>>, <<2, 0>>, <<3, 9>>, <<4, 8>>}
MCMultipliers == <<2, 1>>
=============================================================================
