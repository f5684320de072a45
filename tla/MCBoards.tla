------------------------------ MODULE MCBoards ------------------------------
(***************************************************************************)
(* Conversation with the boards only: node a may post to Urgent and node b *)
(* may not, both try it every way there is, a drops out of the roster and  *)
(* comes back, and a peer posts an Urgent bulletin of b.                   *)
(***************************************************************************)
EXTENDS Conversation, TLC

CONSTANTS a, b

MCSays     == a :> {"b", "g", "u", "r", "p", "end", "1"}
              @@ b :> {"b", "u", "p", "end", "1"}
MCNumeral  == "1" :> 1
MCLetters  == "g" :> "General" @@ "u" :> "Urgent"
MCNames    == a :> "nn" @@ b :> "mm"
MCMaxRows  == "mail" :> 0 @@ "bulletins" :> 2 @@ "channels" :> 0
MCPeerBulletins == {[board |-> "Urgent", by |-> b, uid |-> <<"peer", 1>>]}
=============================================================================
