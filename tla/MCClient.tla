------------------------------ MODULE MCClient ------------------------------
(* A combination of two formats, audio that is extracted, or less to say; a    *)
(* limit that was saved or never was.                                         *)
EXTENDS Client

MCAppScripts == {<<"TITLE", "FINAL">>}
MCScripts ==
  {<<"TITLE", "SEASON", "DEST:final", "TITLE", "SEASON", "DEST:final", "PROGRESS", "FINAL">>,
   <<"TITLE", "DEST:source", "PROGRESS", "FINAL">>} \cup MCAppScripts
MCDefaults == [format |-> "a", limit |-> 2, rest |-> "a"]
MCStored ==
  {[format |-> "b", limit |-> 2, rest |-> "b"], [format |-> "a", limit |-> Never, rest |-> "a"]}
MCTyped ==
  {[format |-> "b", limit |-> 1, rest |-> "a"], [format |-> "a", limit |-> 2, rest |-> "b"],
   [format |-> "b", limit |-> 0, rest |-> "b"]}
=============================================================================
