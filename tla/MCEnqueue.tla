----------------------------- MODULE MCEnqueue -----------------------------
(* A short link, a playlist on a subdomain, its entry and a bare id. *)
EXTENDS Enqueue

CONSTANTS short, list, video, bare, go, sub, site, user, pass, code, mp4

Symmetry == Permutations(Visits)

MCUrls == {short, list, video, bare}
MCDomains == {go, sub, site}
MCChain == [u \in MCUrls |->
  IF u = short THEN <<go>> ELSE IF u = list THEN <<sub, site>>
  ELSE IF u = video THEN <<site>> ELSE <<>>]

Single(page) == [entries |-> <<>>, page |-> page]
Playlist(entries) == [entries |-> entries, page |-> None]
MCDumps == [u \in MCUrls |->
  IF u = short THEN {Single(video), Playlist(<<None>>)}
  ELSE IF u = list THEN {Playlist(<<bare, None, video>>)}
  ELSE {}]

MCFields == {user, pass, code}
MCSecrets == {[form |-> {pass}, extra |-> {pass}]}
MCLists == {<<short, list>>}
MCPairs == <<mp4>>

Row(u, p) == [f \in MCFields |-> IF f = pass THEN p ELSE u]
MCStored == {
  [binding |-> [d \in MCDomains |-> IF d = sub THEN None ELSE Row(1, 1)], jars |-> {go},
   done |-> {<<video, mp4>>}],
  [binding |-> [d \in MCDomains |-> IF d = sub THEN Row(0, 0) ELSE Row(0, 1)], jars |-> {sub, site},
   done |-> {}]}
=============================================================================
