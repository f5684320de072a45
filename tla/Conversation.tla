---------------------------- MODULE Conversation ----------------------------
(***************************************************************************)
(* One BBS server: session.Session over the flows and the store, driven by *)
(* the messages of the nodes (message_processing.on_receive), the idle     *)
(* loop of server.py, the records of the peers and the admin tool.         *)
(*                                                                         *)
(* A step is one whole call of advance, or one node's turn in one call of  *)
(* check_timeouts.  What the two threads do to each other inside those     *)
(* calls is the subject of SessionThreads.                                 *)
(***************************************************************************)
EXTENDS MailFlow, BulletinFlow, ChannelFlow, Menus

CONSTANTS PeerBulletins, \* bulletins a peer may send, [board, by, uid]
          PeerMail,      \* mail a peer may send, [sender, to, uid]
          PeerChannels,  \* channels a peer may send, [uid]
          Flaky          \* the nodes whose roster entry comes and goes

ASSUME PeerAssumption ==
    /\ PeerBulletins \subseteq [board : Boards, by : Nodes, uid : {"peer"} \X Nat]
    /\ PeerMail \subseteq [sender : Nodes, to : Nodes, uid : {"peer"} \X Nat]
    /\ PeerChannels \subseteq [uid : {"peer"} \X Nat]
    /\ Flaky \subseteq Nodes

Init == StoreInit /\ SessionInit

----------------------------------------------------------------------------
(* Session.advance: mark the node active, then route the message *)

\* An advance that marks a node only once it is composing.
HearLate(n) == activity' = IF Composing(n) THEN [activity EXCEPT ![n] = "recent"] ELSE activity

Hear(n) == activity' = [activity EXCEPT ![n] = "recent"]

\* Quick commands come first, from any state.
QuickCommand(n) ==
    \/ \E name \in Names : QuickSendMail(n, name)
    \/ QuickCheckMail(n)
    \/ \E board \in Boards : QuickPostBulletin(n, board) \/ QuickCheckBulletins(n, board)
    \/ QuickPostChannel(n)
    \/ QuickListChannels(n)

\* Then "x", before any flow sees it.
Exit(n) == Goto(n, "main") /\ UNCHANGED <<storeVars, opened>>

\* Then the flow that owns the node's topic.
TopicStep(n, m) == MailStep(n, m) \/ BulletinStep(n, m) \/ ChannelStep(n, m) \/ MenuStep(n, m)

Advance(n) ==
    /\ up
    /\ Hear(n)
    /\ UNCHANGED <<roster, groups, up>>
    /\ QuickCommand(n) \/ Exit(n) \/ \E m \in Says[n] : TopicStep(n, m)

----------------------------------------------------------------------------
(* Time, and Session.check_timeouts *)

\* COMPOSE_TIMEOUT_SECONDS pass without a message.  Only a composing node's
\* silence is ever looked at; the bound holds back the last drafts.
GoQuiet(n) == /\ up /\ Composing(n) /\ activity[n] = "recent" /\ Room(DraftTable(n))
              /\ activity' = [activity EXCEPT ![n] = "quiet"]
              /\ UNCHANGED <<storeVars, states, opened, roster, groups, up>>

Forget(n) == activity' = [activity EXCEPT ![n] = "none"]

\* A sweep that does not look at the draft.
DiscardAny(n) == /\ TimedOut(n)
                 /\ End(n) /\ Forget(n)
                 /\ UNCHANGED <<storeVars, opened, roster, groups, up>>

\* A sweep that only knows of bulletins, and one that only knows of mail.
DiscardBulletinOnly(n) == At(n, "BULLETIN_POST_CONTENT") /\ states[n].content = "empty" /\ DiscardAny(n)
DiscardMailOnly(n) == At(n, "MAIL") /\ states[n].content = "empty" /\ DiscardAny(n)

DiscardEmpty(n) == /\ TimedOut(n) /\ states[n].content = "empty"
                   /\ End(n) /\ Forget(n)
                   /\ UNCHANGED <<storeVars, opened, roster, groups, up>>

FinishDraft(n) == /\ TimedOut(n) /\ states[n].content # "empty"
                  /\ IF At(n, "MAIL") THEN FinishMail(n) ELSE FinishBulletin(n)
                  /\ Forget(n)
                  /\ UNCHANGED <<opened, roster, groups, up>>

\* An exception out of the END, before the draft is stored or, out of publish,
\* after it: nothing catches it between the flow and the main loop, so the process
\* ends, and every conversation with it.
SweepRaises(n) == /\ TimedOut(n) /\ states[n].content # "empty"
                  /\ \/ FinishRaises(n) /\ UNCHANGED storeVars
                     \/ PeersRaise /\ At(n, "MAIL") /\ StoreMail(n)
                     \/ PeersRaise /\ ~At(n, "MAIL") /\ StoreBulletin(n)
                  /\ up' = FALSE
                  /\ states' = [k \in Nodes |-> MainMenu]
                  /\ activity' = [k \in Nodes |-> "none"]
                  /\ UNCHANGED <<opened, roster, groups>>

Sweep(n) == DiscardEmpty(n) \/ FinishDraft(n) \/ SweepRaises(n)

\* mesh-bbs.service: Restart=always.  The database is still there.
Restart == /\ ~up /\ up' = TRUE
           /\ UNCHANGED <<storeVars, states, activity, opened, roster, groups>>

----------------------------------------------------------------------------
(* The rest of the world *)

\* process_message with a sync record: accepted, published, never echoed.
PeerRecord ==
    /\ up
    /\ \/ Room("bulletins") /\ \E b \in PeerBulletins : AcceptBulletin(b)
       \/ Room("mail") /\ \E p \in PeerMail : AcceptMail(p)
       \/ Room("channels") /\ \E c \in PeerChannels : AcceptChannel(c)
       \/ \E r \in mail : AcceptMailDeleted(r.uid)
       \/ \E b \in bulletins : AcceptBulletinDeleted(b.uid)
    /\ UNCHANGED <<sessionVars, opened, roster, groups, up>>

AdminDeletes ==
    /\ \/ \E r \in mail : AdminDeletesMail(r)
       \/ \E b \in bulletins : AdminDeletesBulletin(b)
       \/ \E c \in channels : AdminDeletesChannel(c)
    /\ UNCHANGED <<sessionVars, opened, roster, groups, up>>

RosterChanges(n) == /\ \E s \in {"unknown", "unnamed", "named"} : roster' = [roster EXCEPT ![n] = s]
                    /\ UNCHANGED <<storeVars, sessionVars, opened, groups, up>>

Js8Heard == /\ ~groups /\ groups' = TRUE
            /\ UNCHANGED <<storeVars, sessionVars, opened, roster, up>>

Next == \/ \E n \in Nodes : Advance(n) \/ GoQuiet(n) \/ Sweep(n)
        \/ Restart \/ PeerRecord \/ AdminDeletes \/ Js8Heard
        \/ \E n \in Flaky : RosterChanges(n)

Spec == Init /\ [][Next]_vars

\* The idle loop runs every second and systemd restarts what died.
FairSpec == Spec /\ WF_vars(Restart) /\ \A n \in Nodes : WF_vars(Sweep(n))

----------------------------------------------------------------------------
(* Properties *)

\* Every variable stays in its type.
TypeOK == StoreTypeOK /\ SessionTypeOK

\* A mail is shown to nobody but the node it is addressed to: mail is opened by
\* a row id taken from the message or from an old listing.
MailPrivacy == \A n \in Nodes : opened[n] # NoRow => opened[n].to = n

\* A reply goes to the author of the mail the node was shown.  The recipient is
\* looked up at END by a row id noted when the mail was opened, and peers and
\* the admin tool delete and add rows in between.
ReplyReachesAuthor ==
    [][\A n \in Nodes :
         AtStep(n, "MAIL", 7) /\ IsReply(n)
           => \A r \in mail' \ mail : r.sender = n /\ Local(r.uid) /\ states'[n] # states[n]
                                        => r.to = opened[n].sender]_vars

\* The peers are told to delete a mail only when the node it is addressed to
\* deletes the mail it has open.  The delete itself checks no recipient.
DeletionsAreOwned ==
    [][\A e \in outbox' \ outbox :
         e.kind = "DELETE_MAIL" =>
           \E n \in Nodes : /\ AtStep(n, "MAIL", 4) \/ AtStep(n, "CHECK_MAIL", 2)
                            /\ opened[n] # NoRow /\ opened[n].uid = e.uid
                            /\ opened[n].to = n]_vars

\* A local bulletin on Urgent is by an allowed node, whichever way it was
\* posted: the stepped way asks two messages before the post.
UrgentGate == \A b \in bulletins : Local(b.uid) /\ b.board = Urgent /\ Allowed # {}
                                     => b.by \in Allowed

\* Every record made here is for the peers, by whichever of the commands it was
\* made, and no record made elsewhere is: an echo would go round between two peers
\* for ever.
PeersHearOfLocal ==
    /\ \A r \in mail : Local(r.uid) => [kind |-> "MAIL", uid |-> r.uid] \in outbox
    /\ \A b \in bulletins : Local(b.uid) => [kind |-> "BULLETIN", uid |-> b.uid] \in outbox
    /\ \A c \in channels : Local(c.uid) => [kind |-> "CHANNEL", uid |-> c.uid] \in outbox
    /\ \A e \in outbox : e.kind # "DELETE_MAIL" => Local(e.uid)

\* Whoever is composing has an activity time, or the sweep would never end the
\* draft.
ComposingIsTimed == \A n \in Nodes : Composing(n) => activity[n] # "none"

HasText(n) == Composing(n) /\ states[n].content = "text"

\* A draft with text in it ends only by the hand of its author (a message of
\* the author marks the activity), by being posted, by its author having no
\* name to sign it with, or with the server.
DraftsAreNotDropped ==
    [][\A n \in Nodes :
         HasText(n) /\ ~Composing(n)'
           => \/ activity'[n] = "recent"
              \/ ~Named(n)
              \/ ~up'
              \/ \E r \in mail' \ mail : r.sender = n
              \/ \E b \in bulletins' \ bulletins : b.by = n]_vars

\* A draft its author has left alone is settled in the end, if only by the
\* author coming back to it.
DraftsSettle == \A n \in Nodes : Composing(n) /\ activity[n] = "quiet"
                                   ~> ~Composing(n) \/ activity[n] = "recent"

\* session.py:145 says of quick commands that they act from anywhere, without
\* moving the conversation: a node that is composing goes on composing.
QuickCommandsStay == [][\A n \in Nodes : Composing(n) /\ Advance(n) /\ QuickCommand(n)
                                           => UNCHANGED states]_vars

\* The sweep ends a draft exactly as if the node had sent END, which never
\* stops the server.
IdleLoopAlive == up

\* What BbsService sees: rows without their ids, and each node at a desk that
\* follows from its state and from the mail it was last shown.
Letter(r) == [sender |-> r.sender, to |-> r.to, uid |-> r.uid]
Notice(b) == [board |-> b.board, by |-> b.by, uid |-> b.uid]

Desk(s, row) ==
    CASE s.command \in {"MAIL", "CHECK_MAIL"} /\ "unique_id" \in DOMAIN s ->
            [at |-> "reading", mail |-> Letter(row)]
      [] s.command = "MAIL" /\ s.step = 7 ->
            [at |-> "writing",
             to |-> IF "recipient_id" \in DOMAIN s THEN s.recipient_id ELSE row.sender]
      [] s.command \in {"BULLETIN_POST", "BULLETIN_POST_CONTENT"} ->
            [at |-> "posting", board |-> s.board]
      [] OTHER -> [at |-> "free"]

Service == INSTANCE BbsService WITH
    mail      <- {Letter(r) : r \in mail},
    bulletins <- {Notice(b) : b \in bulletins},
    channels  <- {c.uid : c \in channels},
    told      <- outbox,
    desk      <- [n \in Nodes |-> Desk(states[n], opened[n])]

\* The conversations, the tables and the sweep do what BbsService promises: a
\* deletion is of the mail its addressee is reading, an answer goes to the author
\* of the mail that was read, a post is one its author may make.
ServesAsPromised == Service!Spec
=============================================================================
