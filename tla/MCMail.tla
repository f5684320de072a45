------------------------------- MODULE MCMail -------------------------------
(***************************************************************************)
(* Conversation with the mail commands only: two nodes that answer to one  *)
(* short name, one of which drops out of the roster and comes back, and a  *)
(* peer that sends and deletes mail.                                       *)
(***************************************************************************)
EXTENDS Conversation, TLC

CONSTANTS a, b

\* a goes through the menus; b only ever sends quick commands and answers them.
MCSays     == a :> {"b", "m", "r", "s", "d", "y", "end", "nn", "1", "2"}
              @@ b :> {"1", "d", "r", "end", "hi"}
MCNumeral  == "1" :> 1 @@ "2" :> 2
MCLetters  == <<>>
MCNames    == a :> "nn" @@ b :> "nn"
MCMaxRows  == "mail" :> 2 @@ "bulletins" :> 0 @@ "channels" :> 0
MCPeerMail == {[sender |-> b, to |-> a, uid |-> <<"peer", 1>>]}
=============================================================================
