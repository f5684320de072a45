--------------------------- MODULE Safety_proofs ---------------------------
(***************************************************************************)
(* The safety invariants of Conversation, for every set of nodes, boards,  *)
(* texts and peer records.  Each flow step is first reduced to what it may *)
(* do to the tables (Writes), to the node's state (Moves) and to what the  *)
(* node has been shown (Opens); the invariants follow from those alone.    *)
(***************************************************************************)
EXTENDS Conversation_proofs

PostCommands == {"BULLETIN_POST", "BULLETIN_POST_CONTENT"}

\* Whoever is in one of the two states that lead to a post may post there.
Gated(s, n) == s.command \in PostCommands /\ s.board = Urgent /\ Allowed # {} => n \in Allowed
PostersAreGated == \A n \in Nodes : Gated(states[n], n)

\* What a step of node n may write: mail and bulletins of its own, a deletion by
\* unique_id, a channel.
Writes(n) == \/ UNCHANGED storeVars
             \/ \E to \in Nodes : AddMail(n, to)
             \/ \E uid \in Uids : DeleteMail(uid)
             \/ AddChannel
             \/ \E board \in Boards : /\ AddBulletin(board, n)
                                      /\ board = Urgent /\ Allowed # {} => n \in Allowed
\* Where it may move: itself, and to no post it may not make.
Moves(n) == UNCHANGED states \/ \E s : Stay(n, s) /\ Gated(s, n)
\* What it may be shown: mail addressed to it.
Opens(n) == \/ UNCHANGED opened
            \/ \E r \in mail : r.to = n /\ opened' = [opened EXCEPT ![n] = r]

\* A move to a state that leads to no post is within Moves.
LEMMA StayMoves ==
  ASSUME NEW n, NEW s, Stay(n, s), s.command \notin PostCommands
  PROVE  Moves(n)
  BY DEF Moves, Gated

\* So is the end of a conversation,
LEMMA EndMoves == ASSUME NEW n, End(n) PROVE Moves(n)
  BY StayMoves DEF End, MainMenu, PostCommands

\* and the showing of a menu.
LEMMA GotoMoves ==
  ASSUME NEW n, NEW menu \in {"main", "bbs", "utilities"}, Goto(n, menu)
  PROVE  Moves(n)
  <1>1. \/ Stay(n, [command |-> "MENU", menu |-> "bbs"])
        \/ Stay(n, [command |-> "MENU", menu |-> "utilities"])
        \/ Stay(n, MainMenu)
    BY Zenon DEF Goto
  <1> QED BY <1>1, StayMoves DEF MainMenu, PostCommands

\* Opening a mail shows the node a mail that is addressed to it.
LEMMA ShowMoves ==
  ASSUME NEW n, NEW id, NEW r \in MailShown(n, id), NEW command \in {"MAIL", "CHECK_MAIL"},
         NEW step, Show(n, r, command, step)
  PROVE  Moves(n) /\ Opens(n)
  BY StayMoves DEF Show, MailShown, MailContent, Opens, PostCommands

\* Keeping, deleting or replying to a mail writes, moves and opens no more than that.
LEMMA DisposeSafe ==
  ASSUME TypeOK, NEW n \in Nodes, NEW m, Dispose(n, m),
         AtStep(n, "MAIL", 4) \/ AtStep(n, "CHECK_MAIL", 2)
  PROVE  Writes(n) /\ Moves(n) /\ Opens(n)
  <1>1. Opens(n) BY DEF Dispose, NothingShown, Opens
  <1>2. states[n].unique_id \in Uids
    BY StateFields DEF TypeOK, SessionTypeOK, AtStep, At
  <1>3. ASSUME FinishDisposition(n) PROVE Moves(n)
    <2>1. \/ End(n)
          \/ Stay(n, [command |-> "CHECK_MAIL", step |-> 1,
                      mail |-> Ids({r \in mail' : Known(n) /\ r.to = n})])
      BY <1>3 DEF FinishDisposition
    <2> QED BY <2>1, EndMoves, StayMoves DEF PostCommands
  <1>4. CASE m = "d"
    <2>1. Moves(n) BY <1>3, <1>4 DEF Dispose, FanOutRaises, Raise, Moves
    <2> QED BY <1>1, <1>2, <1>4, <2>1 DEF Dispose, Writes
  <1>5. CASE m = "r"
    <2>1. Stay(n, [command |-> "MAIL", step |-> 7,
                   reply_to_mail_id |-> states[n].mail_id, content |-> "empty"])
      BY <1>5 DEF Dispose
    <2>2. Moves(n) BY <2>1, StayMoves DEF PostCommands
    <2> QED BY <1>1, <1>5, <2>2 DEF Dispose, NothingStored, Writes
  <1>6. CASE m \notin {"d", "r"}
    BY <1>1, <1>3, <1>6 DEF Dispose, NothingStored, Writes
  <1> QED BY <1>4, <1>5, <1>6

\* The mail of a draft is a mail of the node itself.
LEMMA StoreMailSafe ==
  ASSUME TypeOK, NEW n \in Nodes, AtStep(n, "MAIL", 7), StoreMail(n)
  PROVE  Writes(n)
  BY RecipientsTyped DEF StoreMail, Writes

\* END of a mail stores a mail of the node itself.
LEMMA FinishMailSafe ==
  ASSUME TypeOK, NEW n \in Nodes, AtStep(n, "MAIL", 7), FinishMail(n)
  PROVE  Writes(n) /\ Moves(n)
  <1>1. CASE StoreMail(n) /\ Stay(n, [command |-> "MAIL", step |-> 8])
    BY <1>1, StoreMailSafe, StayMoves DEF PostCommands
  <1>2. CASE NothingStored /\ End(n)
    BY <1>2, EndMoves DEF NothingStored, Writes
  <1> QED BY <1>1, <1>2 DEF FinishMail

\* Every handler of flows/mail.py writes, moves and opens no more than that.
LEMMA MailSafe ==
  ASSUME TypeOK, NEW n \in Nodes, NEW m, MailStep(n, m)
  PROVE  Writes(n) /\ Moves(n) /\ Opens(n)
  <1>a. ASSUME NothingStored PROVE Writes(n) BY <1>a DEF NothingStored, Writes
  <1>b. ASSUME NothingShown PROVE Opens(n) BY <1>b DEF NothingShown, Opens
  <1>c. ASSUME UNCHANGED states PROVE Moves(n) BY <1>c DEF Moves
  <1>1. CASE MailMenu(n, m)
    <2>1. \/ End(n) \/ UNCHANGED states
          \/ Stay(n, [command |-> "MAIL", step |-> 2])
          \/ Stay(n, [command |-> "MAIL", step |-> 3])
      BY <1>1 DEF MailMenu, Keep
    <2>2. Moves(n) BY <2>1, <1>c, EndMoves, StayMoves DEF PostCommands
    <2> QED BY <1>1, <1>a, <1>b, <2>2 DEF MailMenu
  <1>2. CASE MailOpen(n, m)
    <2>1. CASE (Raise(n) \/ End(n)) /\ NothingShown
      BY <1>2, <1>a, <1>b, <1>c, <2>1, EndMoves DEF MailOpen, Raise
    <2>2. CASE \E r \in MailShown(n, Numeral[m]) : Show(n, r, "MAIL", 4)
      BY <1>2, <1>a, <2>2, ShowMoves DEF MailOpen
    <2> QED BY <1>2, <2>1, <2>2 DEF MailOpen
  <1>3. CASE MailRecipient(n, m)
    <2>1. \/ UNCHANGED states
          \/ Stay(n, [command |-> "MAIL", step |-> 1])
          \/ \E k \in Answering(m) : Stay(n, [command |-> "MAIL", step |-> 5, recipient_id |-> k])
          \/ Stay(n, [command |-> "MAIL", step |-> 6, nodes |-> Answering(m)])
      BY <1>3, Zenon DEF MailRecipient, Raise
    <2>2. Moves(n) BY <1>c, <2>1, StayMoves DEF PostCommands
    <2> QED BY <1>3, <1>a, <1>b, <2>2 DEF MailRecipient
  <1>4. CASE MailDisposition(n, m)
    BY <1>4, DisposeSafe DEF MailDisposition
  <1>5. CASE MailSubject(n, m)
    <2>1. Stay(n, [command |-> "MAIL", step |-> 7,
                   recipient_id |-> states[n].recipient_id, content |-> "empty"])
      BY <1>5 DEF MailSubject
    <2>2. Moves(n) BY <2>1, StayMoves DEF PostCommands
    <2> QED BY <1>5, <1>a, <1>b, <2>2 DEF MailSubject
  <1>6. CASE MailPickNode(n, m)
    <2>1. \/ UNCHANGED states
          \/ \E k : Stay(n, [command |-> "MAIL", step |-> 5, recipient_id |-> k])
      BY <1>6 DEF MailPickNode, Raise
    <2>2. Moves(n) BY <1>c, <2>1, StayMoves DEF PostCommands
    <2> QED BY <1>6, <1>a, <1>b, <2>2 DEF MailPickNode
  <1>7. CASE MailCompose(n, m)
    <2>1. CASE Stay(n, [states[n] EXCEPT !.content = "text"]) /\ NothingStored
      <3>1. states[n] \in NewMailDrafts \/ states[n] \in ReplyDrafts
        BY <1>7, DraftKinds DEF MailCompose, AtStep, At, TypeOK, SessionTypeOK
      <3>2. [states[n] EXCEPT !.content = "text"].command = "MAIL"
        BY <3>1 DEF NewMailDrafts, ReplyDrafts
      <3>3. Moves(n) BY <2>1, <3>2, StayMoves DEF PostCommands
      <3> QED BY <1>7, <1>a, <1>b, <2>1, <3>3 DEF MailCompose
    <2>2. CASE Raise(n) /\ NothingStored
      BY <1>7, <1>a, <1>b, <1>c, <2>2 DEF MailCompose, Raise
    <2>3. CASE FinishMail(n)
      BY <1>7, <1>b, <2>3, FinishMailSafe DEF MailCompose
    <2>4. CASE StoreMail(n) /\ FanOutRaises(n)
      BY <1>7, <1>b, <1>c, <2>4, StoreMailSafe DEF MailCompose, FanOutRaises, Raise
    <2> QED BY <1>7, <2>1, <2>2, <2>3, <2>4 DEF MailCompose
  <1>8. CASE MailAgain(n, m)
    <2>1. Moves(n) BY <1>8, EndMoves, StayMoves DEF MailAgain, PostCommands
    <2> QED BY <1>8, <1>a, <1>b, <2>1 DEF MailAgain
  <1>9. CASE CheckRead(n, m)
    <2>1. CASE Raise(n) /\ NothingShown
      BY <1>9, <1>a, <1>b, <1>c, <2>1 DEF CheckRead, Raise
    <2>2. CASE \E id : \E r \in MailShown(n, id) : Show(n, r, "CHECK_MAIL", 2)
      BY <1>9, <1>a, <2>2, ShowMoves DEF CheckRead
    <2> QED BY <1>9, <2>1, <2>2 DEF CheckRead
  <1>10. CASE MailConfirm(n, m)
    BY <1>10, DisposeSafe DEF MailConfirm
  <1> QED BY <1>1, <1>2, <1>3, <1>4, <1>5, <1>6, <1>7, <1>8, <1>9, <1>10 DEF MailStep

\* What _may_post lets through is an allowed node, when Urgent is restricted.
LEMMA MayPostGates ==
  ASSUME NEW board, NEW n, MayPost(board, n)
  PROVE  board = Urgent /\ Allowed # {} => n \in Allowed
  BY DEF MayPost

\* The bulletin of a draft is by the node itself, on a board it may post to.
LEMMA StoreBulletinSafe ==
  ASSUME TypeOK, PostersAreGated, NEW n \in Nodes, At(n, "BULLETIN_POST_CONTENT"), StoreBulletin(n)
  PROVE  Writes(n)
  <1>1. states[n].board \in Boards BY StateFields DEF TypeOK, SessionTypeOK, At
  <1>2. states[n].board = Urgent /\ Allowed # {} => n \in Allowed
    BY DEF PostersAreGated, Gated, PostCommands, At
  <1> QED BY <1>1, <1>2 DEF StoreBulletin, Writes

\* END of a bulletin posts for the node itself, to a board it may post to.
LEMMA FinishBulletinSafe ==
  ASSUME TypeOK, PostersAreGated, NEW n \in Nodes, At(n, "BULLETIN_POST_CONTENT"), FinishBulletin(n)
  PROVE  Writes(n) /\ Moves(n)
  <1>1. CASE StoreBulletin(n) /\ Stay(n, [command |-> "BULLETIN_MENU"])
    BY <1>1, StoreBulletinSafe, StayMoves DEF PostCommands
  <1>2. CASE UNCHANGED storeVars /\ End(n)
    BY <1>2, EndMoves DEF Writes
  <1> QED BY <1>1, <1>2 DEF FinishBulletin

\* Every handler of flows/bulletin.py writes, moves and opens no more than that.
LEMMA BulletinSafe ==
  ASSUME TypeOK, PostersAreGated, NEW n \in Nodes, NEW m, BulletinStep(n, m)
  PROVE  Writes(n) /\ Moves(n) /\ Opens(n)
  <1>a. ASSUME StoreUntouched PROVE Writes(n) /\ Opens(n)
    BY <1>a DEF StoreUntouched, storeVars, Writes, Opens
  <1>b. ASSUME UNCHANGED states PROVE Moves(n) BY <1>b DEF Moves
  <1>c. ASSUME NEW board, Stay(n, BoardMenu(board)) \/ Stay(n, BulletinList(board)) PROVE Moves(n)
    BY <1>c, StayMoves DEF BoardMenu, BulletinList, PostCommands
  <1>1. CASE ReadNumberedBulletin(n, m)
    BY <1>1, <1>a, <1>b, EndMoves DEF ReadNumberedBulletin, Raise
  <1>2. CASE SelectBoard(n, m)
    BY <1>2, <1>a, <1>c, GotoMoves DEF SelectBoard
  <1>3. CASE ReadOrPost(n, m)
    <2> DEFINE board == states[n].board
               post  == [command |-> "BULLETIN_POST", board |-> board]
    <2>1. \/ Stay(n, BulletinList(board)) \/ Stay(n, BoardMenu(board))
          \/ MayPost(board, n) /\ Stay(n, post)
      BY <1>3, Zenon DEF ReadOrPost
    <2>2. ASSUME MayPost(board, n), Stay(n, post) PROVE Moves(n)
      <3>1. Gated(post, n) BY <2>2, MayPostGates DEF Gated
      <3> HIDE DEF post
      <3> QED BY <2>2, <3>1 DEF Moves
    <2>3. Moves(n) BY <1>c, <2>1, <2>2
    <2> QED BY <1>3, <1>a, <2>3 DEF ReadOrPost
  <1>4. CASE ReadBulletin(n, m)
    BY <1>4, <1>a, <1>b, <1>c DEF ReadBulletin, Raise
  <1>5. CASE TakeSubject(n, m)
    <2> DEFINE draft == [command |-> "BULLETIN_POST_CONTENT", board |-> states[n].board,
                         content |-> "empty"]
    <2>1. Stay(n, draft) BY <1>5 DEF TakeSubject
    <2>2. Gated(draft, n)
      BY <1>5 DEF TakeSubject, At, PostersAreGated, Gated, PostCommands
    <2>3. Moves(n)
      <3> HIDE DEF draft
      <3> QED BY <2>1, <2>2 DEF Moves
    <2> QED BY <1>5, <1>a, <2>3 DEF TakeSubject
  <1>6. CASE TakeContent(n, m)
    <2>0. Opens(n) BY <1>6 DEF TakeContent, Opens
    <2>1. CASE m # "end"
      <3> DEFINE draft == [states[n] EXCEPT !.content = "text"]
      <3>1. Stay(n, draft) /\ UNCHANGED storeVars BY <1>6, <2>1 DEF TakeContent
      <3>2. draft.command = states[n].command /\ draft.board = states[n].board
        BY <1>6, PostKind DEF TakeContent, At, TypeOK, SessionTypeOK, PostDrafts
      <3>3. Gated(draft, n)
        <4> HIDE DEF draft
        <4> QED BY <3>2 DEF PostersAreGated, Gated
      <3>4. Moves(n)
        <4> HIDE DEF draft
        <4> QED BY <3>1, <3>3 DEF Moves
      <3> QED BY <2>0, <3>1, <3>4 DEF Writes
    <2>2. CASE FinishBulletin(n)
      BY <1>6, <2>0, <2>2, FinishBulletinSafe DEF TakeContent
    <2>3. CASE StoreBulletin(n) /\ FanOutRaises(n)
      BY <1>6, <1>b, <2>0, <2>3, StoreBulletinSafe DEF TakeContent, FanOutRaises, Raise
    <2> QED BY <1>6, <2>1, <2>2, <2>3 DEF TakeContent
  <1> QED BY <1>1, <1>2, <1>3, <1>4, <1>5, <1>6 DEF BulletinStep

\* Every handler of flows/channel.py writes, moves and opens no more than that.
LEMMA ChannelSafe ==
  ASSUME NEW n \in Nodes, NEW m, ChannelStep(n, m)
  PROVE  Writes(n) /\ Moves(n) /\ Opens(n)
  <1>a. ASSUME DirectoryOnly PROVE Writes(n) /\ Opens(n)
    BY <1>a DEF DirectoryOnly, storeVars, Writes, Opens
  <1>b. ASSUME NEW i, DirectoryAt(n, i) PROVE Moves(n)
    BY <1>b, StayMoves DEF DirectoryAt, PostCommands
  <1>c. ASSUME UNCHANGED states PROVE Moves(n) BY <1>c DEF Moves
  <1>1. CASE ChannelMenu(n, m) BY <1>1, <1>a, <1>b DEF ChannelMenu
  <1>2. CASE ChannelView(n, m) BY <1>2, <1>a, <1>b, <1>c DEF ChannelView, Raise
  <1>3. CASE ChannelName(n, m) BY <1>3, <1>a, <1>b DEF ChannelName
  <1>4. CASE ChannelUrl(n, m)
    BY <1>4, <1>b, <1>c DEF ChannelUrl, FanOutRaises, Raise, Writes, Opens
  <1>5. CASE ReadNumberedChannel(n, m)
    BY <1>5, <1>a, <1>c, EndMoves DEF ReadNumberedChannel, Keep
  <1> QED BY <1>1, <1>2, <1>3, <1>4, <1>5 DEF ChannelStep

\* Every handler of the menus writes, moves and opens no more than that.
LEMMA MenuSafe ==
  ASSUME NEW n \in Nodes, NEW m, MenuStep(n, m)
  PROVE  Writes(n) /\ Moves(n) /\ Opens(n)
  <1>1. Writes(n) /\ Opens(n)
    BY DEF MenuStep, MainChoice, BbsChoice, UtilitiesChoice, StatsChoice, Js8Choice,
           SelectGroup, NothingWritten, storeVars, Writes, Opens
  <1>2. ASSUME Keep(n) PROVE Moves(n) BY <1>2 DEF Keep, Moves
  <1>3. ASSUME NEW topic \in {"MAIL", "BULLETIN_MENU", "CHANNEL_DIRECTORY", "JS8CALL_MENU", "STATS"},
               Enter(n, topic)
        PROVE  Moves(n)
    BY <1>3, StayMoves DEF Enter, PostCommands
  <1>4. CASE MainChoice(n, m)
    <2>1. Keep(n) \/ Goto(n, "bbs") \/ Goto(n, "utilities") \/ Goto(n, "main")
      BY <1>4, Zenon DEF MainChoice
    <2> QED BY <1>1, <1>2, <2>1, GotoMoves
  <1>5. CASE BbsChoice(n, m)
    <2>1. \/ Enter(n, "MAIL") \/ Enter(n, "BULLETIN_MENU") \/ Enter(n, "CHANNEL_DIRECTORY")
          \/ Enter(n, "JS8CALL_MENU") \/ Goto(n, "main")
      BY <1>5, Zenon DEF BbsChoice
    <2> QED BY <1>1, <1>3, <2>1, GotoMoves
  <1>6. CASE UtilitiesChoice(n, m)
    <2>1. Enter(n, "STATS") \/ Keep(n) \/ Goto(n, "main")
      BY <1>6, Zenon DEF UtilitiesChoice
    <2> QED BY <1>1, <1>2, <1>3, <2>1, GotoMoves
  <1>7. CASE StatsChoice(n, m) BY <1>1, <1>2, <1>7 DEF StatsChoice
  <1>8. CASE Js8Choice(n, m) BY <1>1, <1>2, <1>8, StayMoves DEF Js8Choice, PostCommands
  <1>9. CASE SelectGroup(n, m) BY <1>1, <1>9, StayMoves DEF SelectGroup, PostCommands
  <1> QED BY <1>4, <1>5, <1>6, <1>7, <1>8, <1>9 DEF MenuStep

\* Every quick command writes, moves and opens no more than that.
LEMMA QuickCommandSafe ==
  ASSUME NEW n \in Nodes, QuickCommand(n)
  PROVE  Writes(n) /\ Moves(n) /\ Opens(n)
  <1>a. ASSUME Keep(n) PROVE Moves(n) BY <1>a DEF Keep, Moves
  <1>1. ASSUME NEW name \in Names, QuickSendMail(n, name) PROVE Writes(n) /\ Moves(n) /\ Opens(n)
    BY <1>1, <1>a DEF QuickSendMail, NothingShown, NothingStored, Answering, Writes, Opens
  <1>2. CASE QuickCheckMail(n)
    BY <1>2, <1>a, StayMoves DEF QuickCheckMail, NothingShown, NothingStored, Writes, Opens, PostCommands
  <1>3. ASSUME NEW board \in Boards, QuickPostBulletin(n, board) PROVE Writes(n) /\ Moves(n) /\ Opens(n)
    BY <1>3, <1>a, MayPostGates DEF QuickPostBulletin, Writes, Opens
  <1>4. ASSUME NEW board \in Boards, QuickCheckBulletins(n, board) PROVE Writes(n) /\ Moves(n) /\ Opens(n)
    BY <1>4, <1>a, StayMoves DEF QuickCheckBulletins, StoreUntouched, storeVars, Writes, Opens, PostCommands
  <1>5. CASE QuickPostChannel(n)
    BY <1>5, <1>a DEF QuickPostChannel, Writes, Opens
  <1>6. CASE QuickListChannels(n)
    BY <1>6, <1>a, StayMoves DEF QuickListChannels, DirectoryOnly, storeVars, Writes, Opens, PostCommands
  <1> QED BY <1>1, <1>2, <1>3, <1>4, <1>5, <1>6 DEF QuickCommand

\* And so does Session.advance,
LEMMA AdvanceSafe ==
  ASSUME TypeOK, PostersAreGated, NEW n \in Nodes, Advance(n)
  PROVE  Writes(n) /\ Moves(n) /\ Opens(n)
  <1>1. CASE QuickCommand(n) BY <1>1, QuickCommandSafe
  <1>2. CASE Exit(n) BY <1>2, GotoMoves DEF Exit, storeVars, Writes, Opens
  <1>3. ASSUME NEW m \in Says[n], TopicStep(n, m) PROVE Writes(n) /\ Moves(n) /\ Opens(n)
    BY <1>3, MailSafe, BulletinSafe, ChannelSafe, MenuSafe DEF TopicStep
  <1> QED BY <1>1, <1>2, <1>3 DEF Advance

\* and a node's turn in check_timeouts, which shows nothing and may end with the server.
LEMMA SweepSafe ==
  ASSUME TypeOK, PostersAreGated, NEW n \in Nodes, Sweep(n)
  PROVE  Writes(n) /\ (Moves(n) \/ states' = [k \in Nodes |-> MainMenu]) /\ UNCHANGED opened
  <1>1. CASE DiscardEmpty(n)
    BY <1>1, EndMoves DEF DiscardEmpty, Writes
  <1>2. CASE FinishDraft(n) /\ At(n, "MAIL")
    <2>1. AtStep(n, "MAIL", 7) /\ FinishMail(n)
      BY <1>2 DEF FinishDraft, TimedOut, Composing, AtStep, At
    <2> QED BY <1>2, <2>1, FinishMailSafe DEF FinishDraft
  <1>3. CASE FinishDraft(n) /\ ~At(n, "MAIL")
    <2>1. At(n, "BULLETIN_POST_CONTENT") /\ FinishBulletin(n)
      BY <1>3 DEF FinishDraft, TimedOut, Composing, AtStep
    <2> QED BY <1>3, <2>1, FinishBulletinSafe DEF FinishDraft
  <1>4. CASE SweepRaises(n)
    <2>1. ASSUME StoreMail(n), At(n, "MAIL") PROVE Writes(n)
      <3>1. AtStep(n, "MAIL", 7) BY <1>4, <2>1 DEF SweepRaises, TimedOut, Composing, AtStep, At
      <3> QED BY <2>1, <3>1, StoreMailSafe
    <2>2. ASSUME StoreBulletin(n), ~At(n, "MAIL") PROVE Writes(n)
      <3>1. At(n, "BULLETIN_POST_CONTENT") BY <1>4, <2>2 DEF SweepRaises, TimedOut, Composing, AtStep
      <3> QED BY <2>2, <3>1, StoreBulletinSafe
    <2> QED BY <1>4, <2>1, <2>2 DEF SweepRaises, Writes
  <1> QED BY <1>1, <1>2, <1>3, <1>4 DEF Sweep

----------------------------------------------------------------------------
(* What a step of the whole system may do to the tables *)

StoreStep == (\E n \in Nodes : Writes(n)) \/ PeerRecord \/ AdminDeletes

\* Every step of the system either is one of these or leaves the tables alone.
LEMMA NextStores ==
  ASSUME TypeOK, PostersAreGated, [Next]_vars
  PROVE  StoreStep \/ UNCHANGED storeVars
  <1>1. ASSUME NEW n \in Nodes, Advance(n) PROVE StoreStep
    BY <1>1, AdvanceSafe DEF StoreStep
  <1>2. ASSUME NEW n \in Nodes, Sweep(n) PROVE StoreStep
    BY <1>2, SweepSafe DEF StoreStep
  <1>3. ASSUME NEW n \in Nodes, GoQuiet(n) \/ RosterChanges(n) PROVE UNCHANGED storeVars
    BY <1>3 DEF GoQuiet, RosterChanges
  <1>4. CASE Restart \/ Js8Heard \/ UNCHANGED vars
    BY <1>4 DEF Restart, Js8Heard, vars
  <1>5. CASE PeerRecord \/ AdminDeletes
    BY <1>5 DEF StoreStep
  <1> QED BY <1>1, <1>2, <1>3, <1>4, <1>5, PeerAssumption DEF Next

\* No step brings a node that may not post to the point of posting.
LEMMA NextGates ==
  ASSUME TypeOK, PostersAreGated, [Next]_vars
  PROVE  PostersAreGated'
  <1>1. states \in [Nodes -> SessionStates] BY DEF TypeOK, SessionTypeOK
  <1>2. ASSUME NEW n \in Nodes, Moves(n) PROVE PostersAreGated'
    <2>1. CASE UNCHANGED states BY <2>1 DEF PostersAreGated
    <2>2. ASSUME NEW s, Stay(n, s), Gated(s, n) PROVE PostersAreGated'
      BY <1>1, <2>2 DEF PostersAreGated, Stay
    <2> QED BY <1>2, <2>1, <2>2 DEF Moves
  <1>3. ASSUME states' = [k \in Nodes |-> MainMenu] PROVE PostersAreGated'
    BY <1>3 DEF PostersAreGated, Gated, MainMenu, PostCommands
  <1>4. ASSUME UNCHANGED states PROVE PostersAreGated'
    BY <1>4 DEF PostersAreGated
  <1>5. ASSUME NEW n \in Nodes, Advance(n) PROVE PostersAreGated'
    BY <1>2, <1>5, AdvanceSafe
  <1>6. ASSUME NEW n \in Nodes, Sweep(n) PROVE PostersAreGated'
    BY <1>2, <1>3, <1>6, SweepSafe
  <1>7. ASSUME NEW n \in Nodes, GoQuiet(n) \/ RosterChanges(n) PROVE PostersAreGated'
    BY <1>4, <1>7 DEF GoQuiet, RosterChanges, sessionVars
  <1>8. CASE Restart \/ PeerRecord \/ AdminDeletes \/ Js8Heard \/ UNCHANGED vars
    BY <1>4, <1>8 DEF Restart, PeerRecord, AdminDeletes, Js8Heard, vars, sessionVars
  <1> QED BY <1>5, <1>6, <1>7, <1>8, PeerAssumption DEF Next

\* Nobody is posting to begin with.
LEMMA InitGates == Init => PostersAreGated
  BY DEF Init, SessionInit, PostersAreGated, Gated, MainMenu, PostCommands

(* Every conversation that is about to post to Urgent belongs to a node that
   may: the permission asked in ReadOrPost still holds at END, because the
   board of the state and the list of allowed nodes do not change. *)
THEOREM PostersGated == Spec => []PostersAreGated
  <1>1. TypeOK /\ PostersAreGated /\ [Next]_vars => PostersAreGated'
    BY NextGates
  <1> QED BY <1>1, InitGates, TypeCorrect, PTL DEF Spec

----------------------------------------------------------------------------
(* The bulletins and the Urgent board *)

\* An id minted by a peer is not one of ours.
LEMMA PeerUidsAreRemote == \A uid \in {"peer"} \X Nat : ~Local(uid)
  BY DEF Local

\* An id minted here is.
LEMMA NewUidIsLocal == Local(NewUid)
  BY DEF NewUid, Local

\* No step of the store puts a bulletin of an outsider on Urgent.
LEMMA StoreKeepsGate ==
  ASSUME UrgentGate, StoreStep
  PROVE  UrgentGate'
  <1>1. ASSUME bulletins' \subseteq bulletins PROVE UrgentGate'
    BY <1>1 DEF UrgentGate
  <1>2. ASSUME NEW n \in Nodes, Writes(n) PROVE UrgentGate'
    <2>1. ASSUME NEW board \in Boards, AddBulletin(board, n),
                 board = Urgent /\ Allowed # {} => n \in Allowed
          PROVE  UrgentGate'
      BY <2>1 DEF AddBulletin, InsertBulletin, UrgentGate
    <2>2. CASE UNCHANGED storeVars BY <1>1, <2>2 DEF storeVars
    <2>3. ASSUME NEW to \in Nodes, AddMail(n, to) PROVE UrgentGate'
      BY <1>1, <2>3 DEF AddMail
    <2>4. ASSUME NEW uid \in Uids, DeleteMail(uid) PROVE UrgentGate'
      BY <1>1, <2>4 DEF DeleteMail, storeVars
    <2>5. CASE AddChannel BY <1>1, <2>5 DEF AddChannel
    <2> QED BY <1>2, <2>1, <2>2, <2>3, <2>4, <2>5 DEF Writes
  <1>3. CASE PeerRecord
    <2>1. ASSUME NEW b \in PeerBulletins, AcceptBulletin(b) PROVE UrgentGate'
      <3>1. ~Local(b.uid) BY PeerAssumption, PeerUidsAreRemote
      <3>2. \A r \in bulletins' : r \in bulletins \/ ~Local(r.uid)
        BY <2>1, <3>1 DEF AcceptBulletin, InsertBulletin
      <3> QED BY <3>2 DEF UrgentGate
    <2>2. \/ \E b \in PeerBulletins : AcceptBulletin(b)
          \/ bulletins' \subseteq bulletins
      BY <1>3 DEF PeerRecord, AcceptMail, AcceptChannel, AcceptMailDeleted, AcceptBulletinDeleted
    <2> QED BY <1>1, <2>1, <2>2
  <1>4. CASE AdminDeletes
    BY <1>1, <1>4 DEF AdminDeletes, AdminDeletesMail, AdminDeletesBulletin, AdminDeletesChannel
  <1> QED BY <1>2, <1>3, <1>4 DEF StoreStep

(* On a server that names the nodes allowed to post to Urgent, no bulletin that
   was posted here on that board is by anyone else - by the menus, by PB, or by
   the idle sweep that finishes a draft. *)
THEOREM UrgentGateHolds == Spec => []UrgentGate
  <1>1. Init => UrgentGate BY DEF Init, StoreInit, UrgentGate
  <1>2. TypeOK /\ PostersAreGated /\ UrgentGate /\ [Next]_vars => UrgentGate'
    BY NextStores, StoreKeepsGate DEF UrgentGate, storeVars
  <1> QED BY <1>1, <1>2, TypeCorrect, PostersGated, PTL DEF Spec

----------------------------------------------------------------------------
(* What the peers hear *)

\* publish sends a record made here to the peers.
LEMMA LocalPublish ==
  ASSUME NEW kind, NEW uid, Publish(kind, uid, "LOCAL")
  PROVE  outbox' = outbox \cup {[kind |-> kind, uid |-> uid]}
  BY DEF Publish

\* publish sends no record of a peer to the peers.
LEMMA SyncedPublish ==
  ASSUME NEW kind, NEW uid, Publish(kind, uid, "SYNCED")
  PROVE  outbox' = outbox
  BY DEF Publish

\* The two halves of PeersHearOfLocal: nothing is kept from the peers, and
\* nothing of theirs is sent back.
Told(rows, kind, sent) == \A r \in rows : Local(r.uid) => [kind |-> kind, uid |-> r.uid] \in sent
NoEcho(sent) == \A e \in sent : e.kind # "DELETE_MAIL" => Local(e.uid)

\* PeersHearOfLocal is its four parts, now and in the next state.
LEMMA HearingParts ==
  /\ PeersHearOfLocal <=> /\ Told(mail, "MAIL", outbox) /\ Told(bulletins, "BULLETIN", outbox)
                          /\ Told(channels, "CHANNEL", outbox) /\ NoEcho(outbox)
  /\ PeersHearOfLocal' <=> /\ Told(mail', "MAIL", outbox') /\ Told(bulletins', "BULLETIN", outbox')
                           /\ Told(channels', "CHANNEL", outbox') /\ NoEcho(outbox')
  BY DEF PeersHearOfLocal, Told, NoEcho

\* Deleting rows and sending more leaves nothing untold.
LEMMA ToldFewer ==
  ASSUME NEW rows, NEW kind, NEW sent, Told(rows, kind, sent),
         NEW left, NEW more, left \subseteq rows, sent \subseteq more
  PROVE  Told(left, kind, more)
  BY DEF Told

\* Sending a deletion, or a record made here, is no echo.
LEMMA NoEchoNew ==
  ASSUME NEW sent, NoEcho(sent), NEW kind, NEW uid, kind # "DELETE_MAIL" => Local(uid)
  PROVE  NoEcho(sent \cup {[kind |-> kind, uid |-> uid]})
  BY DEF NoEcho

\* No step of the store leaves a local record untold or echoes a remote one.
LEMMA StoreKeepsHearing ==
  ASSUME PeersHearOfLocal, StoreStep
  PROVE  PeersHearOfLocal'
  <1>0. /\ Told(mail, "MAIL", outbox) /\ Told(bulletins, "BULLETIN", outbox)
        /\ Told(channels, "CHANNEL", outbox) /\ NoEcho(outbox)
    BY HearingParts
  <1>1. ASSUME mail' \subseteq mail, bulletins' \subseteq bulletins, channels' \subseteq channels,
               outbox' = outbox
        PROVE  PeersHearOfLocal'
    BY <1>0, <1>1, ToldFewer, HearingParts
  <1>2. ASSUME NEW n \in Nodes, Writes(n) PROVE PeersHearOfLocal'
    <2>1. ASSUME NEW board \in Boards, AddBulletin(board, n) PROVE PeersHearOfLocal'
      <3>1. /\ UNCHANGED <<mail, channels>>
            /\ outbox' = outbox \cup {[kind |-> "BULLETIN", uid |-> NewUid]}
            /\ bulletins' = bulletins \cup {[id |-> NextRowId("bulletins"), board |-> board,
                                             by |-> n, uid |-> NewUid]}
        BY <2>1, LocalPublish DEF AddBulletin, InsertBulletin
      <3>2. NoEcho(outbox') BY <1>0, <3>1, NoEchoNew, NewUidIsLocal
      <3>3. Told(mail', "MAIL", outbox') /\ Told(channels', "CHANNEL", outbox')
        BY <1>0, <3>1, ToldFewer
      <3>4. Told(bulletins', "BULLETIN", outbox')
        BY <1>0, <3>1 DEF Told
      <3> QED BY <3>2, <3>3, <3>4, HearingParts
    <2>2. ASSUME NEW to \in Nodes, AddMail(n, to) PROVE PeersHearOfLocal'
      <3>1. /\ UNCHANGED <<bulletins, channels>>
            /\ outbox' = outbox \cup {[kind |-> "MAIL", uid |-> NewUid]}
            /\ mail' = mail \cup {[id |-> NextRowId("mail"), sender |-> n, to |-> to, uid |-> NewUid]}
        BY <2>2, LocalPublish DEF AddMail, InsertMail
      <3>2. NoEcho(outbox') BY <1>0, <3>1, NoEchoNew, NewUidIsLocal
      <3>3. Told(bulletins', "BULLETIN", outbox') /\ Told(channels', "CHANNEL", outbox')
        BY <1>0, <3>1, ToldFewer
      <3>4. Told(mail', "MAIL", outbox')
        BY <1>0, <3>1 DEF Told
      <3> QED BY <3>2, <3>3, <3>4, HearingParts
    <2>3. CASE AddChannel
      <3>1. /\ UNCHANGED <<bulletins, mail>>
            /\ outbox' = outbox \cup {[kind |-> "CHANNEL", uid |-> NewUid]}
            /\ channels' = channels \cup {[id |-> NextRowId("channels"), uid |-> NewUid]}
        BY <2>3, LocalPublish DEF AddChannel, InsertChannel
      <3>2. NoEcho(outbox') BY <1>0, <3>1, NoEchoNew, NewUidIsLocal
      <3>3. Told(bulletins', "BULLETIN", outbox') /\ Told(mail', "MAIL", outbox')
        BY <1>0, <3>1, ToldFewer
      <3>4. Told(channels', "CHANNEL", outbox')
        BY <1>0, <3>1 DEF Told
      <3> QED BY <3>2, <3>3, <3>4, HearingParts
    <2>4. ASSUME NEW uid \in Uids, DeleteMail(uid) PROVE PeersHearOfLocal'
      <3>1. CASE UNCHANGED storeVars BY <1>1, <3>1 DEF storeVars
      <3>2. CASE \E r \in mail : r.uid = uid
        <4>1. /\ UNCHANGED <<bulletins, channels>> /\ mail' \subseteq mail
              /\ outbox' = outbox \cup {[kind |-> "DELETE_MAIL", uid |-> uid]}
          BY <2>4, <3>2, LocalPublish DEF DeleteMail
        <4>2. NoEcho(outbox') BY <1>0, <4>1, NoEchoNew
        <4> QED BY <1>0, <4>1, <4>2, ToldFewer, HearingParts
      <3> QED BY <2>4, <3>1, <3>2 DEF DeleteMail
    <2>5. CASE UNCHANGED storeVars BY <1>1, <2>5 DEF storeVars
    <2> QED BY <1>2, <2>1, <2>2, <2>3, <2>4, <2>5 DEF Writes
  <1>3. CASE PeerRecord
    <2>1. ASSUME NEW b \in PeerBulletins, AcceptBulletin(b) PROVE PeersHearOfLocal'
      <3>1. ~Local(b.uid) BY PeerAssumption, PeerUidsAreRemote
      <3>2. /\ UNCHANGED <<mail, channels, outbox>>
            /\ bulletins' = bulletins \cup {[id |-> NextRowId("bulletins"), board |-> b.board,
                                             by |-> b.by, uid |-> b.uid]}
        BY <2>1, SyncedPublish DEF AcceptBulletin, InsertBulletin
      <3>3. Told(bulletins', "BULLETIN", outbox')
        BY <1>0, <3>1, <3>2 DEF Told
      <3> QED BY <1>0, <3>2, <3>3, HearingParts
    <2>2. ASSUME NEW p \in PeerMail, AcceptMail(p) PROVE PeersHearOfLocal'
      <3>1. ~Local(p.uid) BY PeerAssumption, PeerUidsAreRemote
      <3>2. /\ UNCHANGED <<bulletins, channels, outbox>>
            /\ mail' = mail \cup {[id |-> NextRowId("mail"), sender |-> p.sender, to |-> p.to,
                                   uid |-> p.uid]}
        BY <2>2, SyncedPublish DEF AcceptMail, InsertMail
      <3>3. Told(mail', "MAIL", outbox')
        BY <1>0, <3>1, <3>2 DEF Told
      <3> QED BY <1>0, <3>2, <3>3, HearingParts
    <2>3. ASSUME NEW c \in PeerChannels, AcceptChannel(c) PROVE PeersHearOfLocal'
      <3>1. ~Local(c.uid) BY PeerAssumption, PeerUidsAreRemote
      <3>2. /\ UNCHANGED <<bulletins, mail, outbox>>
            /\ channels' = channels \cup {[id |-> NextRowId("channels"), uid |-> c.uid]}
        BY <2>3, SyncedPublish DEF AcceptChannel, InsertChannel
      <3>3. Told(channels', "CHANNEL", outbox')
        BY <1>0, <3>1, <3>2 DEF Told
      <3> QED BY <1>0, <3>2, <3>3, HearingParts
    <2>4. ASSUME NEW uid, AcceptMailDeleted(uid) PROVE PeersHearOfLocal'
      BY <1>1, <2>4, SyncedPublish DEF AcceptMailDeleted
    <2>5. ASSUME NEW uid, AcceptBulletinDeleted(uid) PROVE PeersHearOfLocal'
      BY <1>1, <2>5 DEF AcceptBulletinDeleted
    <2> QED BY <1>3, <2>1, <2>2, <2>3, <2>4, <2>5 DEF PeerRecord
  <1>4. CASE AdminDeletes
    BY <1>1, <1>4 DEF AdminDeletes, AdminDeletesMail, AdminDeletesBulletin, AdminDeletesChannel
  <1> QED BY <1>2, <1>3, <1>4 DEF StoreStep

(* Whatever is added here is handed to the peers, and nothing that came from a
   peer is handed on, so that records cannot go round between servers. *)
THEOREM PeersHear == Spec => []PeersHearOfLocal
  <1>1. Init => PeersHearOfLocal BY DEF Init, StoreInit, PeersHearOfLocal
  <1>2. TypeOK /\ PostersAreGated /\ PeersHearOfLocal /\ [Next]_vars => PeersHearOfLocal'
    BY NextStores, StoreKeepsHearing DEF PeersHearOfLocal, storeVars
  <1> QED BY <1>1, <1>2, TypeCorrect, PostersGated, PTL DEF Spec

----------------------------------------------------------------------------
(* Private mail *)

\* Every step shows nothing, or one node a mail addressed to it.
LEMMA NextOpens ==
  ASSUME TypeOK, PostersAreGated, [Next]_vars
  PROVE  UNCHANGED opened \/ \E n \in Nodes : Opens(n)
  <1>1. ASSUME NEW n \in Nodes, Advance(n) PROVE Opens(n)
    BY <1>1, AdvanceSafe
  <1>2. ASSUME NEW n \in Nodes, Sweep(n) PROVE UNCHANGED opened
    BY <1>2, SweepSafe
  <1>3. ASSUME NEW n \in Nodes, GoQuiet(n) \/ RosterChanges(n) PROVE UNCHANGED opened
    BY <1>3 DEF GoQuiet, RosterChanges
  <1>4. CASE Restart \/ PeerRecord \/ AdminDeletes \/ Js8Heard \/ UNCHANGED vars
    BY <1>4 DEF Restart, PeerRecord, AdminDeletes, Js8Heard, vars
  <1> QED BY <1>1, <1>2, <1>3, <1>4, PeerAssumption DEF Next

(* No node is ever shown a mail that is addressed to another, whichever row id
   it sends and however old the listing it answers to. *)
THEOREM MailIsPrivate == Spec => []MailPrivacy
  <1>1. Init => MailPrivacy BY DEF Init, SessionInit, MailPrivacy
  <1>2. TypeOK /\ PostersAreGated /\ MailPrivacy /\ [Next]_vars => MailPrivacy'
    <2>1. ASSUME TypeOK, MailPrivacy, NEW n \in Nodes, NEW r \in mail, r.to = n,
                 opened' = [opened EXCEPT ![n] = r]
          PROVE  MailPrivacy'
      BY <2>1 DEF TypeOK, SessionTypeOK, MailPrivacy
    <2>2. ASSUME MailPrivacy, UNCHANGED opened PROVE MailPrivacy'
      BY <2>2 DEF MailPrivacy
    <2> QED BY <2>1, <2>2, NextOpens DEF Opens
  <1> QED BY <1>1, <1>2, TypeCorrect, PostersGated, PTL DEF Spec

----------------------------------------------------------------------------
(* Drafts and activity times *)

\* A draft that was finished or discarded leaves its author out of the two
\* composing states, and nobody else's state moves.
Settled(n) == \E s : Stay(n, s) /\ s.command # "BULLETIN_POST_CONTENT"
                                /\ ~(s.command = "MAIL" /\ s.step = 7)

\* A sweep that acts on a node settles its draft and no other, or ends the server.
LEMMA SweepSettles ==
  ASSUME TypeOK, NEW n \in Nodes, Sweep(n)
  PROVE  \/ Settled(n) /\ \A k \in Nodes \ {n} : activity'[k] = activity[k]
         \/ states' = [k \in Nodes |-> MainMenu]
  <1>0. activity \in [Nodes -> {"none", "recent", "quiet"}] BY DEF TypeOK, SessionTypeOK
  <1>1. ASSUME Forget(n) PROVE \A k \in Nodes \ {n} : activity'[k] = activity[k]
    BY <1>0, <1>1 DEF Forget
  <1>2. ASSUME NEW s, Stay(n, s), s.command \in {"MAIN_MENU", "BULLETIN_MENU"} PROVE Settled(n)
    BY <1>2 DEF Settled
  <1>3. ASSUME End(n) PROVE Settled(n)
    BY <1>2, <1>3 DEF End, MainMenu
  <1>4. ASSUME FinishMail(n) PROVE Settled(n)
    <2>1. Stay(n, [command |-> "MAIL", step |-> 8]) \/ End(n)
      BY <1>4 DEF FinishMail
    <2> DEFINE s == [command |-> "MAIL", step |-> 8]
    <2>2. s.command # "BULLETIN_POST_CONTENT" /\ ~(s.command = "MAIL" /\ s.step = 7)
      OBVIOUS
    <2> HIDE DEF s
    <2> QED BY <1>3, <2>1, <2>2 DEF Settled
  <1>5. ASSUME FinishBulletin(n) PROVE Settled(n)
    BY <1>2, <1>3, <1>5 DEF FinishBulletin
  <1>6. CASE DiscardEmpty(n) BY <1>1, <1>3, <1>6 DEF DiscardEmpty
  <1>7. CASE FinishDraft(n) BY <1>1, <1>4, <1>5, <1>7 DEF FinishDraft
  <1>8. CASE SweepRaises(n) BY <1>8 DEF SweepRaises
  <1> QED BY <1>6, <1>7, <1>8 DEF Sweep

(* A node that is composing always has an activity time, so that the sweep can
   tell how long it has been quiet: every message marks the time before the
   flow is asked, and the sweep forgets it only with the draft. *)
THEOREM ComposersAreTimed == Spec => []ComposingIsTimed
  <1>1. Init => ComposingIsTimed
    BY DEF Init, SessionInit, MainMenu, ComposingIsTimed, Composing, AtStep, At
  <1>2. TypeOK /\ PostersAreGated /\ ComposingIsTimed /\ [Next]_vars => ComposingIsTimed'
    <2> SUFFICES ASSUME TypeOK, PostersAreGated, ComposingIsTimed, [Next]_vars
                 PROVE  ComposingIsTimed'
      OBVIOUS
    <2>0. /\ states \in [Nodes -> SessionStates]
          /\ activity \in [Nodes -> {"none", "recent", "quiet"}]
      BY DEF TypeOK, SessionTypeOK
    <2>1. ASSUME NEW n \in Nodes, Advance(n) PROVE ComposingIsTimed'
      <3>1. activity' = [activity EXCEPT ![n] = "recent"] BY <2>1 DEF Advance, Hear
      <3>2. \A k \in Nodes \ {n} : states'[k] = states[k]
        BY <2>0, <2>1, AdvanceSafe DEF Moves, Stay
      <3> QED BY <2>0, <3>1, <3>2 DEF ComposingIsTimed, Composing, AtStep, At
    <2>2. ASSUME NEW n \in Nodes, Sweep(n) PROVE ComposingIsTimed'
      <3>1. ASSUME Settled(n), \A k \in Nodes \ {n} : activity'[k] = activity[k]
            PROVE  ComposingIsTimed'
        <4>1. PICK s : /\ Stay(n, s) /\ s.command # "BULLETIN_POST_CONTENT"
                       /\ ~(s.command = "MAIL" /\ s.step = 7)
          BY <3>1 DEF Settled
        <4>2. states'[n] = s /\ \A k \in Nodes \ {n} : states'[k] = states[k]
          BY <2>0, <4>1 DEF Stay
        <4> QED BY <3>1, <4>1, <4>2 DEF ComposingIsTimed, Composing, AtStep, At
      <3>2. ASSUME states' = [k \in Nodes |-> MainMenu] PROVE ComposingIsTimed'
        BY <3>2 DEF ComposingIsTimed, Composing, AtStep, At, MainMenu
      <3> QED BY <2>2, <3>1, <3>2, SweepSettles
    <2>3. ASSUME NEW n \in Nodes, GoQuiet(n) PROVE ComposingIsTimed'
      BY <2>0, <2>3 DEF GoQuiet, ComposingIsTimed, Composing, AtStep, At
    <2>4. ASSUME UNCHANGED sessionVars PROVE ComposingIsTimed'
      BY <2>4 DEF sessionVars, ComposingIsTimed, Composing, AtStep, At
    <2>5. CASE \/ Restart \/ PeerRecord \/ AdminDeletes \/ Js8Heard \/ UNCHANGED vars
               \/ \E n \in Flaky : RosterChanges(n)
      BY <2>4, <2>5 DEF Restart, PeerRecord, AdminDeletes, Js8Heard, RosterChanges, vars, sessionVars
    <2> QED BY <2>1, <2>2, <2>3, <2>5 DEF Next
  <1> QED BY <1>1, <1>2, TypeCorrect, PostersGated, PTL DEF Spec
============================================================================
