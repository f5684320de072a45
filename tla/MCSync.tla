------------------------------- MODULE MCSync -------------------------------
(***************************************************************************)
(* Sync with three servers, that all list each other or stand in a row.    *)
(* MaxEvents leaves room for two records: where all list each other it     *)
(* loses nothing that only A's and B's nodes post, as any two servers are  *)
(* like any other two.                                                     *)
(* The nodes post a mail that fits into one payload, one that is cut in    *)
(* its unique_id, one in whose text a node wrote what a peer takes for a   *)
(* deletion, since it is cut there and a peer misses its unique_id, an     *)
(* Urgent bulletin with a '|' in its subject, of which a peer takes the    *)
(* end of the broadcast for a channel, and a channel.                      *)
(***************************************************************************)
EXTENDS Sync, TLC

CONSTANTS A, B, C

MCServers == {A, B, C}
Everyone == [s \in MCServers |-> MCServers \ {s}]
\* B and C list each other; A, which B lists as well, lists only C.
InARow == [s \in MCServers |-> CASE s = A -> {C} [] s = B -> {A, C} [] s = C -> {B}]
MCTopologies == {Everyone, InARow}
MCPosters == {A, B}

MCWords == {"n1", "N1", "n2", "re", "text", "Urgent", "a", "b", "ch", "CHANNEL", "DELETE_MAIL"}
Letter == [kind |-> "MAIL", sender |-> <<Word("n1")>>, name |-> <<Word("N1")>>,
           to |-> <<Word("n2")>>, subject |-> <<Word("re")>>, content |-> <<Word("text")>>,
           uid |-> Nothing]
\* Its second chunk is DELETE_MAIL with its own unique_id, its first has none.
Strange == [Letter EXCEPT !.content = <<Word("text"), Word("DELETE_MAIL")>>]
Notice == [kind |-> "BULLETIN", board |-> <<Word("Urgent")>>, name |-> <<Word("N1")>>,
           subject |-> <<Word("CHANNEL"), Word("a"), Word("b")>>, content |-> <<Word("text")>>,
           uid |-> Nothing]
Group  == [kind |-> "CHANNEL", name |-> <<Word("ch")>>, url |-> <<Nothing>>]

Uncut(rec) == [rec |-> rec, cuts |-> <<>>, aired |-> <<>>]
Cuts(rec, cuts) == [rec |-> rec, cuts |-> cuts, aired |-> <<>>]
MCTemplates == {Uncut(Letter), Cuts(Letter, 5 :> "some"), Cuts(Strange, 5 :> "empty"),
                [Uncut(Notice) EXCEPT !.aired = 0 :> "some"],
                Uncut(Group)}
=============================================================================
