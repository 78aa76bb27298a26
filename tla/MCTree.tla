------------------------------- MODULE MCTree -------------------------------
(***************************************************************************)
(* Five keys, four of which fill half of a leaf and a third of a branch,   *)
(* so that a table of five rows has three levels; key 3 is short, and its  *)
(* value comes in two lengths.                                             *)
(***************************************************************************)
EXTENDS BTreeCursors

MCKeys == 1..5
MCKeySize == <<90, 90, 10, 90, 90>>
MCValues == {1, 2}
MCValueSize == <<0, 40>>
MCPuts == {<<k, 1, "UPSERT">> : k \in {1, 2, 4}}
          \cup {<<3, 1, "NOOVERWRITE">>, <<3, 2, "CURRENT">>, <<5, 1, "APPEND">>}
MCCursorPuts == {<<3, 2, "UPSERT">>, <<3, 1, "CURRENT">>}
MCReplaces == {<<1, 0, "CURRENT">>, <<3, 2, "UPSERT">>, <<3, 1, "CURRENT">>, <<5, 1, "NOOVERWRITE">>}
MCGets == {<<"SET", 1>>, <<"SET", 3>>, <<"GREATER_THAN", 3>>, <<"LESSER_THAN", 1>>, <<"LESSER_THAN", 4>>}
          \cup {<<"SET_RANGE", k>> : k \in {2, 4, 5}}
MCAnyCursorPuts == {<<k, 1, "UPSERT">> : k \in Keys}
=============================================================================
