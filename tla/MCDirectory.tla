---------------------------- MODULE MCDirectory ----------------------------
(***************************************************************************)
(* Conversation with the channel directory, the statistics and the JS8Call *)
(* menu: two nodes that add channels by the menu and by CHP while a peer   *)
(* sends one and the admin tool deletes.                                   *)
(***************************************************************************)
EXTENDS Conversation, TLC

CONSTANTS a, b

MCSays     == a :> {"b", "c", "v", "p", "1"}
              @@ b :> {"b", "c", "j", "u", "s", "f", "q", "g", "p", "1"}
MCNumeral  == "1" :> 1
MCLetters  == <<>>
MCNames    == a :> "nn" @@ b :> "mm"
MCMaxRows  == "mail" :> 0 @@ "bulletins" :> 0 @@ "channels" :> 2
MCPeerChannels == {[uid |-> <<"peer", 1>>]}
=============================================================================
