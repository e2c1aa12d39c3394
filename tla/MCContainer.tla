----------------------------- MODULE MCContainer -----------------------------
(* Container on a small instance: bob2 is bob after the post-quantum upgrade. *)
EXTENDS Container

MCKemKey(id) == IF id = "bob2" THEN "bob" ELSE id
File(p, c) == [path |-> p, kind |-> "file", content |-> c]
Dir(p) == [path |-> p, kind |-> "dir", content |-> <<>>]
MCVaults ==
    {<<>>,
     <<Dir(<<"d">>), File(<<"d", "a">>, <<1, 2, 1>>), Dir(<<".trash">>), File(<<".trash", "a">>, <<2>>), File(<<"a">>, <<2, 1>>)>>,
     <<File(<<"a">>, <<1>>), File(<<"b">>, <<>>), File(<<"z">>, <<2>>)>>}
Added(p, h, s) == [path |-> p, hashed |-> h, streamed |-> s]
MCAdditions ==
    {[dirs |-> <<<<"d", "g">>>>, files |-> <<>>],
     [dirs |-> <<<<"e">>, <<"d", "f">>>>, files |-> <<Added(<<"e", "a">>, <<1, 1>>, <<1, 1>>)>>],
     [dirs |-> <<>>, files |-> <<Added(<<"a">>, <<2>>, <<1>>)>>],
     [dirs |-> <<>>, files |-> <<Added(<<"a", "b">>, <<>>, <<>>), Added(<<"c">>, <<1>>, <<1>>)>>],
     [dirs |-> <<>>, files |-> <<Added(<<"b">>, <<1>>, <<1, 2>>), Added(<<"c">>, <<2, 1>>, <<2>>)>>]}
MCOptions == {[suite |-> "classic", chunk |-> 2], [suite |-> "hybrid", chunk |-> 3], [suite |-> "aes", chunk |-> 1],
              [suite |-> "classic", chunk |-> 0]}
MCAudiences == {{}, {"alice", "bob"}, {"alice", "bob2"}, {"alice", "bob", "bob2"}}
==============================================================================
