------------------------------- MODULE MCTopK -------------------------------
(* ORDER BY a boolean, NULLS FIRST, over every column of four cells. *)
EXTENDS TopK

MCPleas ==
    [column : {"ranked"}, top : {1}, cells : [1 .. 4 -> {0, 1, Absent}], times : {<<>>},
     filtered : {FALSE}, desc : BOOLEAN, nullsFirst : {TRUE}, skip : {0}, limit : {1}]
=============================================================================
