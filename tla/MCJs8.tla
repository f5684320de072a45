------------------------------- MODULE MCJs8 -------------------------------
(***************************************************************************)
(* Js8Client over three short streams: one with junk between messages, one *)
(* with JSON that is no object, one with an empty line.                    *)
(***************************************************************************)
EXTENDS Js8Client

MCStreams == {<<"urgent", "junk", "group">>, <<"station", "scalar", "urgent">>,
              <<"blank", "other", "urgent", "urgent">>}
=============================================================================
