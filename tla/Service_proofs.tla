--------------------------- MODULE Service_proofs ---------------------------
(***************************************************************************)
(* Conversation implements BbsService, for every set of nodes, boards,     *)
(* texts and peer records.  Each handler is first reduced to one of a few  *)
(* acts (Leaves, Shows, Begins, ...) that speak of what the node is at and *)
(* not of its topic; then each act is a step of the service.  In between   *)
(* stands the invariant that what a state noted of a mail is still true of *)
(* the mail the node was shown.                                            *)
(***************************************************************************)
EXTENDS Safety_proofs

----------------------------------------------------------------------------
(* What a state is about *)

IsReading(s) == s.command \in {"MAIL", "CHECK_MAIL"} /\ "unique_id" \in DOMAIN s
IsDraft(s)   == s.command = "MAIL" /\ s.step = 7
IsPost(s)    == s.command \in PostCommands
Idle(s)      == ~IsReading(s) /\ ~IsDraft(s) /\ ~IsPost(s)

\* A node reads at two steps, and writes mail at one.
LEMMA ReadingSteps ==
  ASSUME NEW s \in SessionStates
  PROVE  /\ s.command = "MAIL" /\ s.step = 4 => IsReading(s)
         /\ s.command = "CHECK_MAIL" /\ s.step = 2 => IsReading(s)
         /\ IsDraft(s) => ~IsReading(s)
         /\ IsReading(s) => \/ s.command = "MAIL" /\ s.step = 4
                            \/ s.command = "CHECK_MAIL" /\ s.step = 2
         /\ IsReading(s) => s.mail_id \in Nat /\ s.unique_id \in Uids
  BY SMT DEF IsReading, IsDraft, SessionStates, MailStates, BulletinStates, MenuStates, DirectoryStates,
             NewMailDrafts, ReplyDrafts, PostDrafts

\* At the other topics and steps a node is idle.
LEMMA IdleSteps ==
  ASSUME NEW s \in SessionStates
  PROVE  /\ s.command \notin {"MAIL", "CHECK_MAIL"} \cup PostCommands => Idle(s)
         /\ s.command = "MAIL" /\ s.step \in {1, 2, 3, 5, 6, 8} => Idle(s)
         /\ s.command = "CHECK_MAIL" /\ s.step = 1 => Idle(s)
  <1>1. s.command \notin {"MAIL", "CHECK_MAIL"} \cup PostCommands => Idle(s)
    BY DEF Idle, IsReading, IsDraft, IsPost
  <1>2. s.command = "MAIL" /\ s.step \in {1, 2, 3, 5, 6, 8} => Idle(s)
    BY ReadingSteps DEF Idle, IsDraft, IsPost, PostCommands
  <1>3. s.command = "CHECK_MAIL" /\ s.step = 1 => Idle(s)
    BY ReadingSteps DEF Idle, IsDraft, IsPost, PostCommands
  <1> QED BY <1>1, <1>2, <1>3

\* The desk of the service, in these terms.
LEMMA Desks ==
  ASSUME NEW s, NEW row
  PROVE  /\ IsReading(s) /\ ~IsDraft(s) => Desk(s, row) = [at |-> "reading", mail |-> Letter(row)]
         /\ IsDraft(s) /\ ~IsReading(s)
              => Desk(s, row) = [at |-> "writing",
                                 to |-> IF "recipient_id" \in DOMAIN s THEN s.recipient_id
                                                                       ELSE row.sender]
         /\ IsPost(s) => Desk(s, row) = [at |-> "posting", board |-> s.board]
         /\ Idle(s) => Desk(s, row) = [at |-> "free"]
  <1>1. IsReading(s) /\ ~IsDraft(s) => Desk(s, row) = [at |-> "reading", mail |-> Letter(row)]
    BY DEF Desk, IsReading, IsDraft, PostCommands
  <1>2. IsDraft(s) /\ ~IsReading(s)
          => Desk(s, row) = [at |-> "writing",
                             to |-> IF "recipient_id" \in DOMAIN s THEN s.recipient_id
                                                                   ELSE row.sender]
    BY DEF Desk, IsReading, IsDraft
  <1>3. IsPost(s) => Desk(s, row) = [at |-> "posting", board |-> s.board]
    BY DEF Desk, IsPost, PostCommands
  <1>4. Idle(s) => Desk(s, row) = [at |-> "free"]
    BY DEF Desk, Idle, IsReading, IsDraft, IsPost, PostCommands
  <1> QED BY <1>1, <1>2, <1>3, <1>4

----------------------------------------------------------------------------
(* What a node can do *)

Untold(n) == UNCHANGED <<storeVars, opened>>
Relaxes(n) == \E s \in SessionStates : Stay(n, s) /\ Idle(s)
Ends(n) == Relaxes(n) \/ UNCHANGED states

Rests(n)       == Untold(n) /\ UNCHANGED states
Leaves(n)      == Untold(n) /\ Relaxes(n)
Shows(n)       == /\ UNCHANGED storeVars
                  /\ \E r \in mail : /\ r.to = n
                                     /\ Show(n, r, "MAIL", 4) \/ Show(n, r, "CHECK_MAIL", 2)
Begins(n)      == /\ Untold(n) /\ Idle(states[n])
                  /\ \E k \in Nodes : Stay(n, [command |-> "MAIL", step |-> 7,
                                               recipient_id |-> k, content |-> "empty"])
Replies(n)     == /\ Untold(n) /\ IsReading(states[n])
                  /\ Stay(n, [command |-> "MAIL", step |-> 7,
                              reply_to_mail_id |-> states[n].mail_id, content |-> "empty"])
BeginsPost(n)  == /\ Untold(n) /\ Idle(states[n])
                  /\ \E board \in Boards :
                        MayPost(board, n) /\ Stay(n, [command |-> "BULLETIN_POST", board |-> board])
Subjects(n)    == /\ Untold(n) /\ IsPost(states[n])
                  /\ Stay(n, [command |-> "BULLETIN_POST_CONTENT", board |-> states[n].board,
                              content |-> "empty"])
Continues(n)   == /\ Untold(n)
                  /\ states[n] \in NewMailDrafts \cup ReplyDrafts \cup PostDrafts
                  /\ Stay(n, [states[n] EXCEPT !.content = "text"])
Sends(n)       == /\ UNCHANGED opened /\ AtStep(n, "MAIL", 7) /\ Ends(n)
                  /\ \E k \in Recipients(n) : AddMail(n, k)
SendsAtOnce(n) == UNCHANGED <<opened, states>> /\ \E k \in Nodes : AddMail(n, k)
Posts(n)       == /\ UNCHANGED opened /\ IsPost(states[n]) /\ Ends(n)
                  /\ AddBulletin(states[n].board, n)
PostsAtOnce(n) == /\ UNCHANGED <<opened, states>>
                  /\ \E board \in Boards : MayPost(board, n) /\ AddBulletin(board, n)
Lists(n)       == /\ UNCHANGED opened /\ AddChannel
                  /\ UNCHANGED states \/ (Idle(states[n]) /\ Relaxes(n))
Deletes(n)     == /\ UNCHANGED opened /\ IsReading(states[n]) /\ Ends(n)
                  /\ DeleteMail(states[n].unique_id)

Acts(n) == \/ Rests(n) \/ Leaves(n) \/ Shows(n) \/ Begins(n) \/ Replies(n) \/ BeginsPost(n)
           \/ Subjects(n) \/ Continues(n) \/ Sends(n) \/ SendsAtOnce(n) \/ Posts(n)
           \/ PostsAtOnce(n) \/ Lists(n) \/ Deletes(n)

\* The server may end with the sweep of n, the draft stored or not.
Stops(n) == /\ UNCHANGED opened /\ states' = [k \in Nodes |-> MainMenu]
            /\ \/ UNCHANGED storeVars
               \/ AtStep(n, "MAIL", 7) /\ \E k \in Recipients(n) : AddMail(n, k)
               \/ IsPost(states[n]) /\ AddBulletin(states[n].board, n)
----------------------------------------------------------------------------
(* Every handler is an act *)

\* A node that moves to an idle state has left, or has written from where it was.
LEMMA IdleMoves ==
  ASSUME NEW n, NEW s \in SessionStates, Stay(n, s),
         \/ s.command \notin {"MAIL", "CHECK_MAIL"} \cup PostCommands
         \/ s.command = "MAIL" /\ s.step \in {1, 2, 3, 5, 6, 8}
         \/ s.command = "CHECK_MAIL" /\ s.step = 1
  PROVE  Relaxes(n)
  BY IdleSteps DEF Relaxes

\* The end of a conversation is such a move,
LEMMA EndRelaxes == ASSUME NEW n, End(n) PROVE Relaxes(n)
  <1>1. MainMenu \in SessionStates /\ Stay(n, MainMenu)
    BY DEF SessionStates, MenuStates, DirectoryStates, MainMenu, End
  <1>2. MainMenu.command \notin {"MAIL", "CHECK_MAIL"} \cup PostCommands
    BY DEF MainMenu, PostCommands
  <1> QED BY <1>1, <1>2, IdleMoves

\* and so is another step of MAIL,
LEMMA StepRelaxes ==
  ASSUME NEW n, NEW step \in {1, 2, 3, 8}, Stay(n, [command |-> "MAIL", step |-> step])
  PROVE  Relaxes(n)
  <1> DEFINE s == [command |-> "MAIL", step |-> step]
  <1>1. s \in SessionStates BY DEF SessionStates, MailStates
  <1>2. s.command = "MAIL" /\ s.step \in {1, 2, 3, 5, 6, 8} OBVIOUS
  <1>3. Stay(n, s) OBVIOUS
  <1> HIDE DEF s
  <1> QED BY <1>1, <1>2, <1>3, IdleMoves

\* the choice of a recipient,
LEMMA ChoiceRelaxes ==
  ASSUME NEW n, NEW s, Stay(n, s),
         \/ \E k \in Nodes : s = [command |-> "MAIL", step |-> 5, recipient_id |-> k]
         \/ \E nodes \in SUBSET Nodes : s = [command |-> "MAIL", step |-> 6, nodes |-> nodes]
  PROVE  Relaxes(n)
  <1>1. s \in SessionStates BY DEF SessionStates, MailStates
  <1>2. s.command = "MAIL" /\ s.step \in {1, 2, 3, 5, 6, 8} OBVIOUS
  <1> QED BY <1>1, <1>2, IdleMoves

\* and a listing.
LEMMA ListingRelaxes ==
  ASSUME NEW n, NEW ids \in SUBSET Nat,
         \/ Stay(n, [command |-> "CHECK_MAIL", step |-> 1, mail |-> ids])
         \/ Stay(n, [command |-> "CHECK_BULLETIN", bulletins |-> ids])
         \/ Stay(n, [command |-> "LIST_CHANNELS", channels |-> ids])
  PROVE  Relaxes(n)
  <1>1. ASSUME NEW s \in SessionStates, Stay(n, s),
               s.command \in {"CHECK_BULLETIN", "LIST_CHANNELS"}
        PROVE  Relaxes(n)
    BY <1>1, IdleMoves DEF PostCommands
  <1>2. ASSUME NEW s \in SessionStates, Stay(n, s), s.command = "CHECK_MAIL", s.step = 1
        PROVE  Relaxes(n)
    BY <1>2, IdleMoves
  <1> QED BY <1>1, <1>2, ListingsAreStates

\* Keeping, deleting or replying to a mail is done by who reads it.
LEMMA DisposeActs ==
  ASSUME TypeOK, NEW n \in Nodes, NEW m, Dispose(n, m),
         AtStep(n, "MAIL", 4) \/ AtStep(n, "CHECK_MAIL", 2)
  PROVE  Acts(n)
  <1>1. UNCHANGED opened BY DEF Dispose, NothingShown
  <1>2. IsReading(states[n])
    BY ReadingSteps DEF TypeOK, SessionTypeOK, AtStep, At
  <1>3. ASSUME FinishDisposition(n), StoreTypeOK' PROVE Relaxes(n)
    <2> DEFINE left == Ids({r \in mail' : Known(n) /\ r.to = n})
    <2>1. left \in SUBSET Nat BY <1>3 DEF StoreTypeOK, MailRows, Ids
    <2>2. End(n) \/ Stay(n, [command |-> "CHECK_MAIL", step |-> 1, mail |-> left])
      BY <1>3 DEF FinishDisposition
    <2> HIDE DEF left
    <2> QED BY <2>1, <2>2, EndRelaxes, ListingRelaxes
  <1>4. StoreTypeOK'
    BY DisposeTyped DEF Handled
  <1>5. CASE m = "d"
    <2>1. DeleteMail(states[n].unique_id) /\ (FinishDisposition(n) \/ UNCHANGED states)
      BY <1>5 DEF Dispose, FanOutRaises, Raise
    <2> QED BY <1>1, <1>2, <1>3, <1>4, <2>1 DEF Deletes, Ends, Acts
  <1>6. CASE m = "r"
    <2>1. UNCHANGED storeVars BY <1>6 DEF Dispose, NothingStored
    <2> QED BY <1>1, <1>2, <1>6, <2>1 DEF Dispose, Replies, Untold, Acts
  <1>7. CASE m \notin {"d", "r"}
    <2>1. UNCHANGED storeVars /\ FinishDisposition(n) BY <1>7 DEF Dispose, NothingStored
    <2> QED BY <1>1, <1>3, <1>4, <2>1 DEF Leaves, Untold, Acts
  <1> QED BY <1>5, <1>6, <1>7

\* END of a mail sends the draft, or leaves it.
LEMMA FinishMailActs ==
  ASSUME TypeOK, NEW n \in Nodes, AtStep(n, "MAIL", 7), FinishMail(n), UNCHANGED opened
  PROVE  Sends(n) \/ Leaves(n)
  <1>1. CASE StoreMail(n) /\ Stay(n, [command |-> "MAIL", step |-> 8])
    BY <1>1, StepRelaxes DEF StoreMail, Sends, Ends
  <1>2. CASE NothingStored /\ End(n)
    BY <1>2, EndRelaxes DEF NothingStored, Leaves, Untold
  <1> QED BY <1>1, <1>2 DEF FinishMail

\* Every handler of flows/mail.py is an act.
LEMMA MailActs ==
  ASSUME TypeOK, NEW n \in Nodes, NEW m, MailStep(n, m)
  PROVE  Acts(n)
  <1>0. states[n] \in SessionStates BY DEF TypeOK, SessionTypeOK
  <1>a. ASSUME NothingStored, NothingShown, Relaxes(n) PROVE Acts(n)
    BY <1>a DEF NothingStored, NothingShown, Acts, Leaves, Untold
  <1>b. ASSUME NothingStored, NothingShown, UNCHANGED states PROVE Acts(n)
    BY <1>b DEF NothingStored, NothingShown, Acts, Rests, Untold
  <1>1. CASE MailMenu(n, m)
    <2>1. \/ End(n) \/ UNCHANGED states
          \/ Stay(n, [command |-> "MAIL", step |-> 2])
          \/ Stay(n, [command |-> "MAIL", step |-> 3])
      BY <1>1 DEF MailMenu, Keep
    <2>2. UNCHANGED states \/ Relaxes(n) BY <2>1, EndRelaxes, StepRelaxes
    <2> QED BY <1>1, <1>a, <1>b, <2>2 DEF MailMenu
  <1>2. CASE MailOpen(n, m)
    <2>1. CASE (Raise(n) \/ End(n)) /\ NothingShown
      BY <1>2, <1>a, <1>b, <2>1, EndRelaxes DEF MailOpen, Raise
    <2>2. CASE \E r \in MailShown(n, Numeral[m]) : Show(n, r, "MAIL", 4)
      BY <1>2, <2>2 DEF MailOpen, NothingStored, MailShown, MailContent, Shows, Acts
    <2> QED BY <1>2, <2>1, <2>2 DEF MailOpen
  <1>3. CASE MailRecipient(n, m)
    <2>1. \/ UNCHANGED states
          \/ Stay(n, [command |-> "MAIL", step |-> 1])
          \/ \E k \in Answering(m) : Stay(n, [command |-> "MAIL", step |-> 5, recipient_id |-> k])
          \/ Stay(n, [command |-> "MAIL", step |-> 6, nodes |-> Answering(m)])
      BY <1>3, Zenon DEF MailRecipient, Raise
    <2>2. Answering(m) \in SUBSET Nodes BY DEF Answering
    <2>3. UNCHANGED states \/ Relaxes(n) BY <2>1, <2>2, StepRelaxes, ChoiceRelaxes
    <2> QED BY <1>3, <1>a, <1>b, <2>3 DEF MailRecipient
  <1>4. CASE MailDisposition(n, m)
    BY <1>4, DisposeActs DEF MailDisposition
  <1>5. CASE MailSubject(n, m)
    <2>1. states[n].recipient_id \in Nodes
      BY <1>0, <1>5, StateFields DEF MailSubject, AtStep, At
    <2>2. Idle(states[n]) BY <1>0, <1>5, IdleSteps DEF MailSubject, AtStep, At
    <2> QED BY <1>5, <2>1, <2>2 DEF MailSubject, NothingStored, NothingShown, Begins, Untold, Acts
  <1>6. CASE MailPickNode(n, m)
    <2>1. states[n].nodes \in SUBSET Nodes
      BY <1>0, <1>6, StateFields DEF MailPickNode, AtStep, At
    <2>2. \/ UNCHANGED states
          \/ \E k \in Nodes : Stay(n, [command |-> "MAIL", step |-> 5, recipient_id |-> k])
      BY <1>6, <2>1 DEF MailPickNode, Raise
    <2>3. UNCHANGED states \/ Relaxes(n) BY <2>2, ChoiceRelaxes
    <2> QED BY <1>6, <1>a, <1>b, <2>3 DEF MailPickNode
  <1>7. CASE MailCompose(n, m)
    <2>1. CASE Stay(n, [states[n] EXCEPT !.content = "text"]) /\ NothingStored
      <3>1. states[n] \in NewMailDrafts \/ states[n] \in ReplyDrafts
        BY <1>0, <1>7, DraftKinds DEF MailCompose, AtStep, At
      <3> QED BY <1>7, <2>1, <3>1 DEF MailCompose, NothingStored, NothingShown, Continues, Untold, Acts
    <2>2. CASE Raise(n) /\ NothingStored
      BY <1>7, <1>b, <2>2 DEF MailCompose, Raise
    <2>3. CASE FinishMail(n)
      BY <1>7, <2>3, FinishMailActs DEF MailCompose, NothingShown, Acts
    <2>4. CASE StoreMail(n) /\ FanOutRaises(n)
      BY <1>7, <2>4 DEF MailCompose, NothingShown, StoreMail, FanOutRaises, Raise, Sends, Ends, Acts
    <2> QED BY <1>7, <2>1, <2>2, <2>3, <2>4 DEF MailCompose
  <1>8. CASE MailAgain(n, m)
    <2>1. Relaxes(n) BY <1>8, EndRelaxes, StepRelaxes DEF MailAgain
    <2> QED BY <1>8, <1>a, <2>1 DEF MailAgain
  <1>9. CASE CheckRead(n, m)
    <2>1. CASE Raise(n) /\ NothingShown
      BY <1>9, <1>b, <2>1 DEF CheckRead, Raise
    <2>2. CASE \E id : \E r \in MailShown(n, id) : Show(n, r, "CHECK_MAIL", 2)
      BY <1>9, <2>2 DEF CheckRead, NothingStored, MailShown, MailContent, Shows, Acts
    <2> QED BY <1>9, <2>1, <2>2 DEF CheckRead
  <1>10. CASE MailConfirm(n, m)
    BY <1>10, DisposeActs DEF MailConfirm
  <1> QED BY <1>1, <1>2, <1>3, <1>4, <1>5, <1>6, <1>7, <1>8, <1>9, <1>10 DEF MailStep

\* A menu, a topic entered and a board's menu are idle states too.
LEMMA MenuRelaxes ==
  ASSUME NEW n, NEW s \in SessionStates, Stay(n, s),
         s.command \in {"MAIN_MENU", "MENU", "STATS", "JS8CALL_MENU", "GROUP_MESSAGES",
                        "CHANNEL_DIRECTORY", "BULLETIN_MENU", "BULLETIN_ACTION", "BULLETIN_READ"}
  PROVE  Relaxes(n)
  BY IdleMoves DEF PostCommands

\* END of a bulletin posts the draft, or leaves it.
LEMMA FinishBulletinActs ==
  ASSUME TypeOK, NEW n \in Nodes, At(n, "BULLETIN_POST_CONTENT"), FinishBulletin(n),
         UNCHANGED opened
  PROVE  Posts(n) \/ Leaves(n)
  <1>1. CASE StoreBulletin(n) /\ Stay(n, [command |-> "BULLETIN_MENU"])
    <2>1. Relaxes(n) BY <1>1, MenuRelaxes, MenusAreStates
    <2>2. IsPost(states[n]) BY DEF IsPost, At, PostCommands
    <2> QED BY <1>1, <2>1, <2>2 DEF StoreBulletin, Posts, Ends
  <1>2. CASE UNCHANGED storeVars /\ End(n)
    BY <1>2, EndRelaxes DEF Leaves, Untold
  <1> QED BY <1>1, <1>2 DEF FinishBulletin

\* Every handler of flows/bulletin.py is an act.
LEMMA BulletinActs ==
  ASSUME TypeOK, NEW n \in Nodes, NEW m, BulletinStep(n, m)
  PROVE  Acts(n)
  <1>0. states[n] \in SessionStates BY DEF TypeOK, SessionTypeOK
  <1>a. ASSUME StoreUntouched, Relaxes(n) \/ UNCHANGED states PROVE Acts(n)
    BY <1>a DEF StoreUntouched, storeVars, Acts, Leaves, Rests, Untold
  <1>b. ASSUME NEW board \in Boards, Stay(n, BoardMenu(board)) \/ Stay(n, BulletinList(board))
        PROVE  Relaxes(n)
    <2>1. BoardMenu(board).command = "BULLETIN_ACTION"
      BY DEF BoardMenu
    <2>2. BulletinList(board).command \in {"BULLETIN_ACTION", "BULLETIN_READ"}
      BY <2>1 DEF BulletinList
    <2> QED BY <1>b, <2>1, <2>2, BoardStates, MenuRelaxes
  <1>1. CASE ReadNumberedBulletin(n, m)
    BY <1>1, <1>a, EndRelaxes DEF ReadNumberedBulletin, Raise
  <1>2. CASE SelectBoard(n, m)
    <2>1. CASE m \in DOMAIN LetterToBoard
      <3>1. LetterToBoard[m] \in Boards BY <2>1, BoardAssumption DEF BoardAssumption
      <3> QED BY <1>2, <1>a, <1>b, <2>1, <3>1 DEF SelectBoard
    <2>2. CASE m \notin DOMAIN LetterToBoard
      <3>1. Stay(n, MainMenu) BY <1>2, <2>2 DEF SelectBoard, Goto
      <3>2. Relaxes(n) BY <3>1, EndRelaxes DEF End
      <3> QED BY <1>2, <1>a, <3>2 DEF SelectBoard
    <2> QED BY <2>1, <2>2
  <1>3. CASE ReadOrPost(n, m)
    <2> DEFINE board == states[n].board
    <2>1. board \in Boards BY <1>0, <1>3, StateFields DEF ReadOrPost, At
    <2>2. \/ Stay(n, BulletinList(board)) \/ Stay(n, BoardMenu(board))
          \/ MayPost(board, n) /\ Stay(n, [command |-> "BULLETIN_POST", board |-> board])
      BY <1>3, Zenon DEF ReadOrPost
    <2>3. Idle(states[n]) BY <1>0, <1>3, IdleSteps DEF ReadOrPost, At, PostCommands
    <2>4. CASE Stay(n, BulletinList(board)) \/ Stay(n, BoardMenu(board))
      BY <1>3, <1>a, <1>b, <2>1, <2>4 DEF ReadOrPost
    <2>5. CASE MayPost(board, n) /\ Stay(n, [command |-> "BULLETIN_POST", board |-> board])
      BY <1>3, <2>1, <2>3, <2>5 DEF ReadOrPost, StoreUntouched, storeVars, BeginsPost, Untold, Acts
    <2> QED BY <2>2, <2>4, <2>5
  <1>4. CASE ReadBulletin(n, m)
    <2>1. states[n].board \in Boards BY <1>0, <1>4, StateFields DEF ReadBulletin, At
    <2> QED BY <1>4, <1>a, <1>b, <2>1 DEF ReadBulletin, Raise
  <1>5. CASE TakeSubject(n, m)
    <2>1. IsPost(states[n]) BY <1>5 DEF TakeSubject, At, IsPost, PostCommands
    <2> QED BY <1>5, <2>1 DEF TakeSubject, StoreUntouched, storeVars, Subjects, Untold, Acts
  <1>6. CASE TakeContent(n, m)
    <2>1. CASE m # "end"
      <3>1. states[n] \in PostDrafts BY <1>0, <1>6, PostKind DEF TakeContent, At
      <3> QED BY <1>6, <2>1, <3>1 DEF TakeContent, Continues, Untold, Acts
    <2>2. CASE FinishBulletin(n)
      BY <1>6, <2>2, FinishBulletinActs DEF TakeContent, Acts
    <2>3. CASE StoreBulletin(n) /\ FanOutRaises(n)
      <3>1. IsPost(states[n]) BY <1>6 DEF TakeContent, IsPost, At, PostCommands
      <3> QED BY <1>6, <2>3, <3>1 DEF TakeContent, StoreBulletin, FanOutRaises, Raise, Posts, Ends, Acts
    <2> QED BY <1>6, <2>1, <2>2, <2>3 DEF TakeContent
  <1> QED BY <1>1, <1>2, <1>3, <1>4, <1>5, <1>6 DEF BulletinStep

\* Every handler of flows/channel.py is an act.
LEMMA ChannelActs ==
  ASSUME TypeOK, NEW n \in Nodes, NEW m, ChannelStep(n, m)
  PROVE  Acts(n)
  <1>0. states[n] \in SessionStates BY DEF TypeOK, SessionTypeOK
  <1>a. ASSUME DirectoryOnly, Relaxes(n) \/ UNCHANGED states PROVE Acts(n)
    BY <1>a DEF DirectoryOnly, storeVars, Acts, Leaves, Rests, Untold
  <1>b. ASSUME NEW i \in 1..4, DirectoryAt(n, i) PROVE Relaxes(n)
    BY <1>b, MenuRelaxes, MenusAreStates DEF DirectoryAt
  <1>1. CASE ChannelMenu(n, m)
    <2>1. DirectoryAt(n, 1) \/ DirectoryAt(n, 2) \/ DirectoryAt(n, 3)
      BY <1>1, Zenon DEF ChannelMenu
    <2> QED BY <1>1, <1>a, <1>b, <2>1 DEF ChannelMenu
  <1>2. CASE ChannelView(n, m)
    BY <1>2, <1>a, <1>b DEF ChannelView, Raise
  <1>3. CASE ChannelName(n, m)
    BY <1>3, <1>a, <1>b DEF ChannelName
  <1>4. CASE ChannelUrl(n, m)
    <2>1. Idle(states[n]) BY <1>0, <1>4, IdleSteps DEF ChannelUrl, AtStep, At, PostCommands
    <2> QED BY <1>4, <1>b, <2>1 DEF ChannelUrl, FanOutRaises, Raise, Lists, Acts
  <1>5. CASE ReadNumberedChannel(n, m)
    BY <1>5, <1>a, EndRelaxes DEF ReadNumberedChannel, Keep
  <1> QED BY <1>1, <1>2, <1>3, <1>4, <1>5 DEF ChannelStep

\* Every handler of the menus is an act.
LEMMA MenuActs ==
  ASSUME NEW n \in Nodes, NEW m, MenuStep(n, m)
  PROVE  Acts(n)
  <1>a. Untold(n)
    BY DEF MenuStep, MainChoice, BbsChoice, UtilitiesChoice, StatsChoice, Js8Choice,
           SelectGroup, NothingWritten, storeVars, Untold
  <1>b. ASSUME Relaxes(n) \/ Keep(n) PROVE Acts(n)
    BY <1>a, <1>b DEF Keep, Acts, Leaves, Rests
  <1>c. ASSUME NEW menu \in {"main", "bbs", "utilities"}, Goto(n, menu) PROVE Relaxes(n)
    <2>1. \/ Stay(n, [command |-> "MENU", menu |-> "bbs"])
          \/ Stay(n, [command |-> "MENU", menu |-> "utilities"])
          \/ Stay(n, MainMenu)
      BY <1>c, Zenon DEF Goto
    <2>2. ASSUME NEW w \in {"bbs", "utilities"}, Stay(n, [command |-> "MENU", menu |-> w])
          PROVE  Relaxes(n)
      BY <2>2, MenuRelaxes, MenusAreStates
    <2> QED BY <2>1, <2>2, EndRelaxes DEF End
  <1>d. ASSUME NEW c \in {"STATS", "JS8CALL_MENU", "GROUP_MESSAGES", "BULLETIN_MENU"},
               Stay(n, [command |-> c])
        PROVE  Relaxes(n)
    BY <1>d, MenuRelaxes, MenusAreStates
  <1>e. ASSUME NEW topic \in {"MAIL", "BULLETIN_MENU", "CHANNEL_DIRECTORY", "JS8CALL_MENU", "STATS"},
               Enter(n, topic)
        PROVE  Relaxes(n)
    <2>1. CASE topic = "MAIL" BY <1>e, <2>1, StepRelaxes DEF Enter
    <2>2. CASE topic = "CHANNEL_DIRECTORY"
      <3>1. Stay(n, [command |-> "CHANNEL_DIRECTORY", step |-> 1]) BY <1>e, <2>2 DEF Enter
      <3> QED BY <3>1, MenuRelaxes, MenusAreStates
    <2>3. CASE topic \notin {"MAIL", "CHANNEL_DIRECTORY"}
      <3>1. Stay(n, [command |-> topic]) BY <1>e, <2>3 DEF Enter
      <3> QED BY <1>d, <2>3, <3>1
    <2> QED BY <2>1, <2>2, <2>3
  <1>1. CASE MainChoice(n, m)
    <2>1. Keep(n) \/ Goto(n, "bbs") \/ Goto(n, "utilities") \/ Goto(n, "main")
      BY <1>1, Zenon DEF MainChoice
    <2> QED BY <1>b, <1>c, <2>1
  <1>2. CASE BbsChoice(n, m)
    <2>1. \/ Enter(n, "MAIL") \/ Enter(n, "BULLETIN_MENU") \/ Enter(n, "CHANNEL_DIRECTORY")
          \/ Enter(n, "JS8CALL_MENU") \/ Goto(n, "main")
      BY <1>2, Zenon DEF BbsChoice
    <2> QED BY <1>b, <1>c, <1>e, <2>1
  <1>3. CASE UtilitiesChoice(n, m)
    <2>1. Enter(n, "STATS") \/ Keep(n) \/ Goto(n, "main")
      BY <1>3, Zenon DEF UtilitiesChoice
    <2> QED BY <1>b, <1>c, <1>e, <2>1
  <1>4. CASE StatsChoice(n, m) BY <1>4, <1>b DEF StatsChoice
  <1>5. CASE Js8Choice(n, m) BY <1>5, <1>b, <1>d DEF Js8Choice
  <1>6. CASE SelectGroup(n, m) BY <1>6, <1>b, <1>d DEF SelectGroup
  <1> QED BY <1>1, <1>2, <1>3, <1>4, <1>5, <1>6 DEF MenuStep

\* Every quick command is an act.
LEMMA QuickCommandActs ==
  ASSUME TypeOK, NEW n \in Nodes, QuickCommand(n)
  PROVE  Acts(n)
  <1>a. ASSUME Untold(n), Relaxes(n) \/ Keep(n) PROVE Acts(n)
    BY <1>a DEF Keep, Acts, Leaves, Rests
  <1>b. \A rows : /\ rows \subseteq mail => Ids(rows) \in SUBSET Nat
                  /\ rows \subseteq bulletins => Ids(rows) \in SUBSET Nat
                  /\ rows \subseteq channels => Ids(rows) \in SUBSET Nat
    BY IdsTyped DEF TypeOK
  <1>1. ASSUME NEW name \in Names, QuickSendMail(n, name) PROVE Acts(n)
    <2>1. CASE \E k \in Answering(name) : AddMail(n, k)
      BY <1>1, <2>1 DEF QuickSendMail, Keep, NothingShown, Answering, SendsAtOnce, Acts
    <2>2. CASE NothingStored
      BY <1>1, <1>a, <2>2 DEF QuickSendMail, NothingShown, NothingStored, Untold
    <2> QED BY <1>1, <2>1, <2>2 DEF QuickSendMail
  <1>2. CASE QuickCheckMail(n)
    <2>1. Untold(n) BY <1>2 DEF QuickCheckMail, NothingShown, NothingStored, Untold
    <2>2. Keep(n) \/ Stay(n, [command |-> "CHECK_MAIL", step |-> 1, mail |-> Ids(MailboxOf(n))])
      BY <1>2 DEF QuickCheckMail
    <2>3. Ids(MailboxOf(n)) \in SUBSET Nat BY <1>b DEF MailboxOf
    <2> QED BY <1>a, <2>1, <2>2, <2>3, ListingRelaxes
  <1>3. ASSUME NEW board \in Boards, QuickPostBulletin(n, board) PROVE Acts(n)
    <2>1. CASE MayPost(board, n) /\ AddBulletin(board, n)
      BY <1>3, <2>1 DEF QuickPostBulletin, Keep, PostsAtOnce, Acts
    <2>2. CASE UNCHANGED storeVars
      BY <1>3, <1>a, <2>2 DEF QuickPostBulletin, Untold
    <2> QED BY <1>3, <2>1, <2>2 DEF QuickPostBulletin
  <1>4. ASSUME NEW board \in Boards, QuickCheckBulletins(n, board) PROVE Acts(n)
    <2>1. Untold(n) BY <1>4 DEF QuickCheckBulletins, StoreUntouched, storeVars, Untold
    <2>2. Keep(n) \/ Stay(n, [command |-> "CHECK_BULLETIN", bulletins |-> Ids(BulletinsOn(board))])
      BY <1>4 DEF QuickCheckBulletins
    <2>3. Ids(BulletinsOn(board)) \in SUBSET Nat BY <1>b DEF BulletinsOn
    <2> QED BY <1>a, <2>1, <2>2, <2>3, ListingRelaxes
  <1>5. CASE QuickPostChannel(n)
    BY <1>5 DEF QuickPostChannel, Keep, Lists, Acts
  <1>6. CASE QuickListChannels(n)
    <2>1. Untold(n) BY <1>6 DEF QuickListChannels, DirectoryOnly, storeVars, Untold
    <2>2. Keep(n) \/ Stay(n, [command |-> "LIST_CHANNELS", channels |-> Ids(channels)])
      BY <1>6 DEF QuickListChannels
    <2>3. Ids(channels) \in SUBSET Nat BY <1>b
    <2> QED BY <1>a, <2>1, <2>2, <2>3, ListingRelaxes
  <1> QED BY <1>1, <1>2, <1>3, <1>4, <1>5, <1>6 DEF QuickCommand

\* So is Session.advance,
LEMMA AdvanceActs ==
  ASSUME TypeOK, NEW n \in Nodes, Advance(n)
  PROVE  Acts(n)
  <1>1. CASE QuickCommand(n) BY <1>1, QuickCommandActs
  <1>2. CASE Exit(n)
    <2>1. Relaxes(n) BY <1>2, EndRelaxes DEF Exit, Goto, End
    <2> QED BY <1>2, <2>1 DEF Exit, Acts, Leaves, Untold, storeVars
  <1>3. ASSUME NEW m \in Says[n], TopicStep(n, m) PROVE Acts(n)
    BY <1>3, MailActs, BulletinActs, ChannelActs, MenuActs DEF TopicStep
  <1> QED BY <1>1, <1>2, <1>3 DEF Advance

\* and a node's turn in check_timeouts, unless it ends the server.
LEMMA SweepActs ==
  ASSUME TypeOK, NEW n \in Nodes, Sweep(n)
  PROVE  Acts(n) \/ Stops(n)
  <1>1. CASE DiscardEmpty(n)
    BY <1>1, EndRelaxes DEF DiscardEmpty, Leaves, Untold, Acts
  <1>2. CASE FinishDraft(n) /\ At(n, "MAIL")
    <2>1. AtStep(n, "MAIL", 7) /\ FinishMail(n) /\ UNCHANGED opened
      BY <1>2 DEF FinishDraft, TimedOut, Composing, AtStep, At
    <2> QED BY <2>1, FinishMailActs DEF Acts
  <1>3. CASE FinishDraft(n) /\ ~At(n, "MAIL")
    <2>1. At(n, "BULLETIN_POST_CONTENT") /\ FinishBulletin(n) /\ UNCHANGED opened
      BY <1>3 DEF FinishDraft, TimedOut, Composing, AtStep
    <2> QED BY <2>1, FinishBulletinActs DEF Acts
  <1>4. CASE SweepRaises(n)
    <2>1. ASSUME StoreMail(n), At(n, "MAIL") PROVE Stops(n)
      <3>1. AtStep(n, "MAIL", 7) BY <1>4, <2>1 DEF SweepRaises, TimedOut, Composing, AtStep, At
      <3> QED BY <1>4, <2>1, <3>1 DEF SweepRaises, StoreMail, Stops
    <2>2. ASSUME StoreBulletin(n), ~At(n, "MAIL") PROVE Stops(n)
      <3>1. IsPost(states[n])
        BY <1>4, <2>2 DEF SweepRaises, TimedOut, Composing, AtStep, At, IsPost, PostCommands
      <3> QED BY <1>4, <2>2, <3>1 DEF SweepRaises, StoreBulletin, Stops
    <2>3. CASE UNCHANGED storeVars BY <1>4, <2>3 DEF SweepRaises, Stops
    <2> QED BY <1>4, <2>1, <2>2, <2>3 DEF SweepRaises
  <1> QED BY <1>1, <1>2, <1>3, <1>4 DEF Sweep
----------------------------------------------------------------------------
(* What a state noted of a mail holds of the mail that was shown *)

Noted(s, row) == /\ IsReading(s) => /\ row # NoRow
                                    /\ row.id = s.mail_id /\ row.uid = s.unique_id
                 /\ IsDraft(s) /\ "recipient_id" \notin DOMAIN s
                      => row # NoRow /\ row.id = s.reply_to_mail_id

NotesHold == \A n \in Nodes : Noted(states[n], opened[n])

RowsAreNumbered == /\ \A r \in mail : r.id <= rowid["mail"]
                   /\ \A q, r \in mail : q.id = r.id => q = r

\* A row that is shown is the only one that ever has its id.
ShownStays == \A n \in Nodes : opened[n] # NoRow
                => /\ opened[n].id <= rowid["mail"]
                   /\ \A r \in mail : r.id = opened[n].id => r = opened[n]

MailNotes == NotesHold /\ RowsAreNumbered /\ ShownStays

MailKept == mail' \subseteq mail /\ rowid'["mail"] = rowid["mail"]
MailAdded == \E sender, to, uid : InsertMail(sender, to, uid)

\* Rows that go or come leave the others their numbers.
LEMMA RowsStay ==
  ASSUME TypeOK, RowsAreNumbered, ShownStays, MailKept \/ MailAdded, UNCHANGED opened
  PROVE  RowsAreNumbered' /\ ShownStays'
  <1>0. /\ rowid \in [Tables -> Nat] /\ "mail" \in Tables
        /\ \A r \in mail : r.id \in Nat
        /\ \A n \in Nodes : opened[n] # NoRow => opened[n].id \in Nat
    BY DEF TypeOK, StoreTypeOK, SessionTypeOK, Tables, MailRows
  <1>1. CASE MailKept
    BY <1>0, <1>1 DEF MailKept, RowsAreNumbered, ShownStays
  <1>2. ASSUME NEW row, mail' = mail \cup {row}, row.id = rowid["mail"] + 1,
               rowid'["mail"] = rowid["mail"] + 1
        PROVE  RowsAreNumbered' /\ ShownStays'
    <2>0. rowid["mail"] \in Nat BY <1>0
    <2>1. \A r \in mail : r.id # row.id BY <1>0, <1>2, <2>0 DEF RowsAreNumbered
    <2>2. RowsAreNumbered' BY <1>0, <1>2, <2>0, <2>1 DEF RowsAreNumbered
    <2>3. ShownStays' BY <1>0, <1>2, <2>0 DEF ShownStays
    <2> QED BY <2>2, <2>3
  <1>3. CASE MailAdded
    <2>1. PICK sender, to, uid : InsertMail(sender, to, uid) BY <1>3 DEF MailAdded
    <2> DEFINE row == [id |-> NextRowId("mail"), sender |-> sender, to |-> to, uid |-> uid]
    <2>2. row.id = rowid["mail"] + 1 BY DEF NextRowId
    <2>3. mail' = mail \cup {row} BY <2>1 DEF InsertMail
    <2>4. rowid'["mail"] = rowid["mail"] + 1
      BY <1>0, <2>1 DEF InsertMail, TakeRowId, NextRowId
    <2> HIDE DEF row
    <2> QED BY <1>2, <2>2, <2>3, <2>4
  <1> QED BY <1>1, <1>3

\* A node whose new state is right about the mail it sees leaves the others right.
LEMMA NotesMove ==
  ASSUME TypeOK, NotesHold, NEW n \in Nodes, NEW s, Stay(n, s), Noted(s, opened'[n]),
         \A k \in Nodes \ {n} : opened'[k] = opened[k]
  PROVE  NotesHold'
  <1>1. states'[n] = s /\ \A k \in Nodes \ {n} : states'[k] = states[k]
    BY DEF Stay, TypeOK, SessionTypeOK
  <1> QED BY <1>1 DEF NotesHold

\* Idle and posting nodes need no notes.
LEMMA NoNotes ==
  ASSUME NEW s, NEW row, Idle(s) \/ IsPost(s)
  PROVE  Noted(s, row)
  BY DEF Noted, Idle, IsPost, IsReading, IsDraft, PostCommands

\* What an act does to the table of mails.
LEMMA ActsKeepRows ==
  ASSUME TypeOK, NEW n, Acts(n)
  PROVE  MailKept \/ MailAdded
  <1>0. rowid \in [Tables -> Nat] BY DEF TypeOK, StoreTypeOK
  <1>1. ASSUME UNCHANGED storeVars PROVE MailKept BY <1>1 DEF storeVars, MailKept
  <1>2. ASSUME NEW k, AddMail(n, k) PROVE MailAdded BY <1>2 DEF AddMail, MailAdded
  <1>3. ASSUME NEW board, AddBulletin(board, n) PROVE MailKept
    BY <1>0, <1>3 DEF AddBulletin, InsertBulletin, TakeRowId, MailKept, Tables
  <1>4. ASSUME AddChannel PROVE MailKept
    BY <1>0, <1>4 DEF AddChannel, InsertChannel, TakeRowId, MailKept, Tables
  <1>5. ASSUME NEW uid, DeleteMail(uid) PROVE MailKept
    BY <1>1, <1>5 DEF DeleteMail, MailKept
  <1> QED BY <1>1, <1>2, <1>3, <1>4, <1>5
          DEF Acts, Untold, Rests, Leaves, Shows, Begins, Replies, BeginsPost, Subjects,
              Continues, Sends, SendsAtOnce, Posts, PostsAtOnce, Lists, Deletes

\* So does the sweep that ends the server.
LEMMA StopsKeepsRows ==
  ASSUME TypeOK, NEW n, Stops(n)
  PROVE  MailKept \/ MailAdded
  <1>0. rowid \in [Tables -> Nat] BY DEF TypeOK, StoreTypeOK
  <1>1. ASSUME UNCHANGED storeVars PROVE MailKept BY <1>1 DEF storeVars, MailKept
  <1>2. ASSUME NEW k, AddMail(n, k) PROVE MailAdded BY <1>2 DEF AddMail, MailAdded
  <1>3. ASSUME NEW board, AddBulletin(board, n) PROVE MailKept
    BY <1>0, <1>3 DEF AddBulletin, InsertBulletin, TakeRowId, MailKept, Tables
  <1> QED BY <1>1, <1>2, <1>3 DEF Stops

\* The notes after an act are right.
LEMMA ActsKeepNotes ==
  ASSUME TypeOK, MailNotes, NEW n \in Nodes, Acts(n)
  PROVE  MailNotes'
  <1>0. /\ states \in [Nodes -> SessionStates] /\ opened \in [Nodes -> MailRows \cup {NoRow}]
        /\ mail \subseteq MailRows /\ NotesHold /\ RowsAreNumbered /\ ShownStays
    BY DEF TypeOK, SessionTypeOK, StoreTypeOK, MailNotes
  <1>1. CASE Shows(n)
    <2>1. PICK r \in mail : Show(n, r, "MAIL", 4) \/ Show(n, r, "CHECK_MAIL", 2)
      BY <1>1 DEF Shows
    <2>2. opened' = [opened EXCEPT ![n] = r] BY <2>1 DEF Show
    <2>3. opened'[n] = r /\ \A k \in Nodes \ {n} : opened'[k] = opened[k]
      BY <1>0, <2>2
    <2>4. r # NoRow BY <1>0, ConfigAssumption
    <2>5. NotesHold'
      <3>1. PICK command \in {"MAIL", "CHECK_MAIL"}, step \in {2, 4} :
               Stay(n, [command |-> command, step |-> step, mail_id |-> r.id, unique_id |-> r.uid])
        BY <2>1 DEF Show
      <3> DEFINE s == [command |-> command, step |-> step, mail_id |-> r.id, unique_id |-> r.uid]
      <3>2. s.step # 7 /\ s.mail_id = r.id /\ s.unique_id = r.uid OBVIOUS
      <3>3. Stay(n, s) BY <3>1
      <3> HIDE DEF s
      <3>4. Noted(s, opened'[n]) BY <2>3, <2>4, <3>2 DEF Noted, IsDraft
      <3> QED BY <1>0, <2>3, <3>3, <3>4, NotesMove
    <2>6. UNCHANGED <<mail, rowid>> BY <1>1 DEF Shows, storeVars
    <2>7. RowsAreNumbered' BY <1>0, <2>6 DEF RowsAreNumbered
    <2>8. ShownStays' BY <1>0, <2>3, <2>6 DEF ShownStays, RowsAreNumbered
    <2> QED BY <2>5, <2>7, <2>8 DEF MailNotes
  <1>2. CASE ~Shows(n)
    <2>1. UNCHANGED opened
      BY <1>2 DEF Acts, Untold, Rests, Leaves, Begins, Replies, BeginsPost, Subjects,
                  Continues, Sends, SendsAtOnce, Posts, PostsAtOnce, Lists, Deletes
    <2>2. RowsAreNumbered' /\ ShownStays'
      BY <1>0, <2>1, ActsKeepRows, RowsStay
    <2>3. ASSUME UNCHANGED states PROVE NotesHold'
      BY <1>0, <2>1, <2>3 DEF NotesHold
    <2>4. ASSUME NEW s, Stay(n, s), Noted(s, opened[n]) PROVE NotesHold'
      BY <1>0, <2>1, <2>4, NotesMove
    <2>5. ASSUME Relaxes(n) PROVE NotesHold'
      BY <2>4, <2>5, NoNotes DEF Relaxes
    <2>a. ASSUME Ends(n) PROVE NotesHold'
      BY <2>3, <2>5, <2>a DEF Ends
    <2>6. ASSUME Begins(n) PROVE NotesHold'
      <3>1. PICK k \in Nodes : Stay(n, [command |-> "MAIL", step |-> 7,
                                        recipient_id |-> k, content |-> "empty"])
        BY <2>6 DEF Begins
      <3> DEFINE s == [command |-> "MAIL", step |-> 7, recipient_id |-> k, content |-> "empty"]
      <3>2. "recipient_id" \in DOMAIN s /\ "unique_id" \notin DOMAIN s OBVIOUS
      <3>3. Stay(n, s) BY <3>1
      <3> HIDE DEF s
      <3>4. Noted(s, opened[n]) BY <3>2 DEF Noted, IsReading
      <3> QED BY <2>4, <3>3, <3>4
    <2>7. ASSUME Replies(n) PROVE NotesHold'
      <3> DEFINE s == [command |-> "MAIL", step |-> 7,
                       reply_to_mail_id |-> states[n].mail_id, content |-> "empty"]
      <3>1. Stay(n, s) /\ IsReading(states[n]) BY <2>7 DEF Replies
      <3>2. "unique_id" \notin DOMAIN s /\ s.reply_to_mail_id = states[n].mail_id OBVIOUS
      <3> HIDE DEF s
      <3>3. opened[n] # NoRow /\ opened[n].id = states[n].mail_id
        BY <1>0, <3>1 DEF NotesHold, Noted
      <3>4. Noted(s, opened[n]) BY <3>2, <3>3 DEF Noted, IsReading
      <3> QED BY <2>4, <3>1, <3>4
    <2>8. ASSUME BeginsPost(n) PROVE NotesHold'
      BY <2>4, <2>8, NoNotes DEF BeginsPost, IsPost, PostCommands
    <2>9. ASSUME Subjects(n) PROVE NotesHold'
      BY <2>4, <2>9, NoNotes DEF Subjects, IsPost, PostCommands
    <2>10. ASSUME Continues(n) PROVE NotesHold'
      <3> DEFINE s == [states[n] EXCEPT !.content = "text"]
      <3>1. states[n] \in NewMailDrafts \cup ReplyDrafts \cup PostDrafts /\ Stay(n, s)
        BY <2>10 DEF Continues
      <3>2. /\ DOMAIN s = DOMAIN states[n] /\ s.command = states[n].command
            /\ "recipient_id" \notin DOMAIN s /\ IsDraft(s)
                 => s.reply_to_mail_id = states[n].reply_to_mail_id /\ IsDraft(states[n])
            /\ "unique_id" \notin DOMAIN s
        BY <3>1 DEF IsDraft, NewMailDrafts, ReplyDrafts, PostDrafts
      <3> HIDE DEF s
      <3>3. Noted(states[n], opened[n]) BY <1>0 DEF NotesHold
      <3>4. Noted(s, opened[n]) BY <3>2, <3>3 DEF Noted, IsReading
      <3> QED BY <2>4, <3>1, <3>4
    <2>11. NotesHold'
      BY <1>2, <2>3, <2>5, <2>6, <2>7, <2>8, <2>9, <2>10, <2>a
      DEF Acts, Rests, Leaves, Sends, SendsAtOnce, Posts, PostsAtOnce, Lists, Deletes
    <2> QED BY <2>2, <2>11 DEF MailNotes
  <1> QED BY <1>1, <1>2

\* So are they after what no node does.
LEMMA NextKeepsNotes ==
  ASSUME TypeOK, MailNotes, [Next]_vars
  PROVE  MailNotes'
  <1>0. NotesHold /\ RowsAreNumbered /\ ShownStays BY DEF MailNotes
  <1>1. ASSUME MailKept \/ MailAdded, UNCHANGED <<states, opened>> PROVE MailNotes'
    <2>1. NotesHold' BY <1>0, <1>1 DEF NotesHold
    <2> QED BY <1>0, <1>1, <2>1, RowsStay DEF MailNotes
  <1>2. ASSUME UNCHANGED storeVars PROVE MailKept BY <1>2 DEF storeVars, MailKept
  <1>3. ASSUME NEW n \in Nodes, Advance(n) PROVE MailNotes'
    BY <1>3, AdvanceActs, ActsKeepNotes
  <1>4. ASSUME NEW n \in Nodes, Sweep(n) PROVE MailNotes'
    <2>1. CASE Stops(n)
      <3>1. Idle(MainMenu) BY DEF Idle, IsReading, IsDraft, IsPost, PostCommands, MainMenu
      <3>2. NotesHold' BY <2>1, <3>1, NoNotes DEF NotesHold, Stops
      <3>3. MailKept \/ MailAdded BY <2>1, StopsKeepsRows
      <3> QED BY <1>0, <2>1, <3>2, <3>3, RowsStay DEF MailNotes, Stops
    <2> QED BY <1>4, <2>1, SweepActs, ActsKeepNotes
  <1>5. CASE PeerRecord
    <2>0. rowid \in [Tables -> Nat] BY DEF TypeOK, StoreTypeOK
    <2>1. ASSUME NEW b, AcceptBulletin(b) PROVE MailKept
      BY <2>0, <2>1 DEF AcceptBulletin, InsertBulletin, TakeRowId, MailKept, Tables
    <2>2. ASSUME NEW p, AcceptMail(p) PROVE MailAdded BY <2>2 DEF AcceptMail, MailAdded
    <2>3. ASSUME NEW c, AcceptChannel(c) PROVE MailKept
      BY <2>0, <2>3 DEF AcceptChannel, InsertChannel, TakeRowId, MailKept, Tables
    <2>4. ASSUME NEW uid, AcceptMailDeleted(uid) \/ AcceptBulletinDeleted(uid) PROVE MailKept
      BY <2>4 DEF AcceptMailDeleted, AcceptBulletinDeleted, MailKept
    <2>5. MailKept \/ MailAdded BY <1>5, <2>1, <2>2, <2>3, <2>4 DEF PeerRecord
    <2> QED BY <1>1, <1>5, <2>5 DEF PeerRecord, sessionVars
  <1>6. CASE AdminDeletes
    <2>1. MailKept
      BY <1>6 DEF AdminDeletes, AdminDeletesMail, AdminDeletesBulletin, AdminDeletesChannel, MailKept
    <2> QED BY <1>1, <1>6, <2>1 DEF AdminDeletes, sessionVars
  <1>7. CASE \/ Restart \/ Js8Heard \/ UNCHANGED vars
             \/ \E n \in Nodes : GoQuiet(n)
             \/ \E n \in Flaky : RosterChanges(n)
    <2>1. UNCHANGED storeVars /\ UNCHANGED <<states, opened>>
      BY <1>7 DEF Restart, Js8Heard, GoQuiet, RosterChanges, vars, sessionVars
    <2> QED BY <1>1, <1>2, <2>1
  <1> QED BY <1>3, <1>4, <1>5, <1>6, <1>7 DEF Next

(* What a node is reading, and what it answers, is the mail it was last shown,
   by row id and by unique_id, for as long as it stays there: rows come and go in
   the meantime, and no row ever takes the id of another. *)
THEOREM NotesAreRight == Spec => []MailNotes
  <1>1. Init => MailNotes
    <2>1. Idle(MainMenu) BY DEF Idle, IsReading, IsDraft, IsPost, PostCommands, MainMenu
    <2> QED BY <2>1, NoNotes
            DEF Init, StoreInit, SessionInit, MailNotes, NotesHold, RowsAreNumbered, ShownStays
  <1>2. TypeOK /\ MailNotes /\ [Next]_vars => MailNotes' BY NextKeepsNotes
  <1> QED BY <1>1, <1>2, TypeCorrect, PTL DEF Spec
----------------------------------------------------------------------------
(* The tables and the desks as the service sees them *)

Letters == {Letter(r) : r \in mail}
Notices == {Notice(b) : b \in bulletins}
Listed  == {c.uid : c \in channels}
AtDesks == [n \in Nodes |-> Desk(states[n], opened[n])]

\* Rows that come,
LEMMA LetterComes ==
  ASSUME NEW sender, NEW to, NEW uid, InsertMail(sender, to, uid)
  PROVE  Letters' = Letters \cup {[sender |-> sender, to |-> to, uid |-> uid]}
  <1> DEFINE row == [id |-> NextRowId("mail"), sender |-> sender, to |-> to, uid |-> uid]
  <1>1. mail' = mail \cup {row} BY DEF InsertMail
  <1>2. Letter(row) = [sender |-> sender, to |-> to, uid |-> uid] BY DEF Letter
  <1> HIDE DEF row
  <1>3. Letters' = {Letter(r) : r \in mail \cup {row}} BY <1>1 DEF Letters
  <1> QED BY <1>2, <1>3 DEF Letters

LEMMA NoticeComes ==
  ASSUME NEW board, NEW by, NEW uid, InsertBulletin(board, by, uid)
  PROVE  Notices' = Notices \cup {[board |-> board, by |-> by, uid |-> uid]}
  <1> DEFINE row == [id |-> NextRowId("bulletins"), board |-> board, by |-> by, uid |-> uid]
  <1>1. bulletins' = bulletins \cup {row} BY DEF InsertBulletin
  <1>2. Notice(row) = [board |-> board, by |-> by, uid |-> uid] BY DEF Notice
  <1> HIDE DEF row
  <1>3. Notices' = {Notice(r) : r \in bulletins \cup {row}} BY <1>1 DEF Notices
  <1> QED BY <1>2, <1>3 DEF Notices

LEMMA ChannelComes ==
  ASSUME NEW uid, InsertChannel(uid)
  PROVE  Listed' = Listed \cup {uid}
  <1> DEFINE row == [id |-> NextRowId("channels"), uid |-> uid]
  <1>1. channels' = channels \cup {row} BY DEF InsertChannel
  <1>2. row.uid = uid OBVIOUS
  <1> HIDE DEF row
  <1>3. Listed' = {r.uid : r \in channels \cup {row}} BY <1>1 DEF Listed
  <1> QED BY <1>2, <1>3 DEF Listed

\* and rows that go.
LEMMA LetterGoes ==
  ASSUME NEW uid, mail' = {r \in mail : r.uid # uid}
  PROVE  Letters' = {m \in Letters : m.uid # uid}
  BY DEF Letters, Letter

LEMMA NoticeGoes ==
  ASSUME NEW uid, bulletins' = {b \in bulletins : b.uid # uid}
  PROVE  Notices' = {b \in Notices : b.uid # uid}
  BY DEF Notices, Notice

\* Tables and desks nobody touches.
LEMMA SightStays ==
  /\ UNCHANGED mail => UNCHANGED Letters
  /\ UNCHANGED bulletins => UNCHANGED Notices
  /\ UNCHANGED channels => UNCHANGED Listed
  /\ UNCHANGED <<states, opened>> => UNCHANGED AtDesks
  BY DEF Letters, Notices, Listed, AtDesks

\* A node that moves sits at the desk of its new state.
LEMMA DeskMoves ==
  ASSUME TypeOK, NEW n \in Nodes, NEW s, Stay(n, s),
         \A k \in Nodes \ {n} : opened'[k] = opened[k]
  PROVE  AtDesks' = [AtDesks EXCEPT ![n] = Desk(s, opened'[n])]
  <1>1. states'[n] = s /\ \A k \in Nodes \ {n} : states'[k] = states[k]
    BY DEF Stay, TypeOK, SessionTypeOK
  <1>2. AtDesks' = [k \in Nodes |-> Desk(states'[k], opened'[k])]
    BY DEF AtDesks
  <1> QED BY <1>1, <1>2 DEF AtDesks

\* What the operators of the service say, seen from here.
LEMMA ServiceSays ==
  /\ Service!Init <=> /\ Letters = {} /\ Notices = {} /\ Listed = {}
                      /\ minted = 0 /\ outbox = {}
                      /\ AtDesks = [n \in Nodes |-> [at |-> "free"]]
  /\ UNCHANGED Service!tables <=> UNCHANGED <<Letters, Notices, Listed, minted, outbox>>
  /\ UNCHANGED Service!vars
       <=> UNCHANGED <<Letters, Notices, Listed, minted, outbox, AtDesks>>
  BY DEF Service!Init, Service!tables, Service!vars, Service!Free,
         Letters, Notices, Listed, AtDesks
----------------------------------------------------------------------------
(* Acts are steps of the service *)

Serves == Service!Next \/ UNCHANGED Service!vars

InSight == <<Letters, Notices, Listed, minted, outbox>>

\* Steps that only move a node between desks.
LEMMA MovesServe ==
  ASSUME TypeOK, MailNotes, NEW n \in Nodes,
         \/ Rests(n) \/ Leaves(n) \/ Shows(n) \/ Begins(n) \/ Replies(n) \/ BeginsPost(n)
         \/ Subjects(n) \/ Continues(n)
  PROVE  Serves
  <1>0. /\ states \in [Nodes -> SessionStates] /\ opened \in [Nodes -> MailRows \cup {NoRow}]
        /\ mail \subseteq MailRows /\ NotesHold /\ states[n] \in SessionStates
    BY DEF TypeOK, SessionTypeOK, StoreTypeOK, MailNotes
  <1>1. UNCHANGED InSight
    BY SightStays DEF Rests, Leaves, Shows, Begins, Replies, BeginsPost, Subjects, Continues,
                      Untold, storeVars, InSight
  <1>2. AtDesks[n] = Desk(states[n], opened[n]) BY DEF AtDesks
  <1>3. ASSUME UNCHANGED opened, NEW s, Stay(n, s) PROVE AtDesks' = [AtDesks EXCEPT ![n] = Desk(s, opened[n])]
    BY <1>3, DeskMoves
  <1>4. CASE Rests(n)
    BY <1>1, <1>4, SightStays, ServiceSays DEF Rests, Untold, Serves, InSight
  <1>5. CASE Leaves(n)
    <2>1. AtDesks' = [AtDesks EXCEPT ![n] = [at |-> "free"]]
      BY <1>3, <1>5, Desks DEF Leaves, Untold, Relaxes
    <2>2. Service!Leave(n)
      BY <1>1, <2>1, ServiceSays
      DEF Service!Leave, Service!Sit, Service!Free, AtDesks, InSight
    <2> QED BY <2>2 DEF Serves, Service!Next
  <1>6. CASE Shows(n)
    <2>1. PICK r \in mail : r.to = n /\ (Show(n, r, "MAIL", 4) \/ Show(n, r, "CHECK_MAIL", 2))
      BY <1>6 DEF Shows
    <2>2. PICK command \in {"MAIL", "CHECK_MAIL"}, step \in {2, 4} :
             Stay(n, [command |-> command, step |-> step, mail_id |-> r.id, unique_id |-> r.uid])
      BY <2>1 DEF Show
    <2> DEFINE s == [command |-> command, step |-> step, mail_id |-> r.id, unique_id |-> r.uid]
    <2>3. IsReading(s) /\ ~IsDraft(s) BY DEF IsReading, IsDraft
    <2>4. Stay(n, s) BY <2>2
    <2> HIDE DEF s
    <2>5. opened'[n] = r /\ \A k \in Nodes \ {n} : opened'[k] = opened[k]
      BY <1>0, <2>1 DEF Show
    <2>6. AtDesks' = [AtDesks EXCEPT ![n] = [at |-> "reading", mail |-> Letter(r)]]
      BY <2>3, <2>4, <2>5, DeskMoves, Desks
    <2>7. Letter(r) \in Letters /\ Letter(r).to = n BY <2>1 DEF Letters, Letter
    <2>8. Service!Open(n)
      BY <1>1, <2>6, <2>7, ServiceSays
      DEF Service!Open, Service!Sit, Service!Reading, AtDesks, Letters, InSight
    <2> QED BY <2>8 DEF Serves, Service!Next
  <1>7. CASE Begins(n)
    <2>1. PICK k \in Nodes : Stay(n, [command |-> "MAIL", step |-> 7,
                                      recipient_id |-> k, content |-> "empty"])
      BY <1>7 DEF Begins
    <2> DEFINE s == [command |-> "MAIL", step |-> 7, recipient_id |-> k, content |-> "empty"]
    <2>2. /\ IsDraft(s) /\ ~IsReading(s)
          /\ "recipient_id" \in DOMAIN s /\ s.recipient_id = k
      BY DEF IsReading, IsDraft
    <2>3. Stay(n, s) BY <2>1
    <2> HIDE DEF s
    <2>4. AtDesks' = [AtDesks EXCEPT ![n] = [at |-> "writing", to |-> k]]
      BY <1>3, <1>7, <2>2, <2>3, Desks DEF Begins, Untold
    <2>5. AtDesks[n] = [at |-> "free"] BY <1>2, <1>7, Desks DEF Begins
    <2>6. Service!Write(n)
      BY <1>1, <2>4, <2>5, ServiceSays
      DEF Service!Write, Service!Sit, Service!Writing, Service!Free, AtDesks, InSight
    <2> QED BY <2>6 DEF Serves, Service!Next
  <1>8. CASE Replies(n)
    <2> DEFINE s == [command |-> "MAIL", step |-> 7,
                     reply_to_mail_id |-> states[n].mail_id, content |-> "empty"]
    <2>1. /\ IsDraft(s) /\ ~IsReading(s) /\ "recipient_id" \notin DOMAIN s
      BY DEF IsReading, IsDraft
    <2>2. Stay(n, s) BY <1>8 DEF Replies
    <2> HIDE DEF s
    <2>3. AtDesks' = [AtDesks EXCEPT ![n] = [at |-> "writing", to |-> opened[n].sender]]
      BY <1>3, <1>8, <2>1, <2>2, Desks DEF Replies, Untold
    <2>4. AtDesks[n] = [at |-> "reading", mail |-> Letter(opened[n])]
      BY <1>0, <1>2, <1>8, Desks, ReadingSteps DEF Replies
    <2>5. AtDesks[n].at = "reading" /\ AtDesks[n].mail.sender = opened[n].sender
      BY <2>4 DEF Letter
    <2>6. Service!Answer(n)
      BY <1>1, <2>3, <2>5, ServiceSays
      DEF Service!Answer, Service!Sit, Service!Writing, AtDesks, InSight
    <2> QED BY <2>6 DEF Serves, Service!Next
  <1>9. CASE BeginsPost(n)
    <2>1. PICK board \in Boards :
             MayPost(board, n) /\ Stay(n, [command |-> "BULLETIN_POST", board |-> board])
      BY <1>9 DEF BeginsPost
    <2> DEFINE s == [command |-> "BULLETIN_POST", board |-> board]
    <2>2. IsPost(s) /\ s.board = board BY DEF IsPost, PostCommands
    <2>3. Stay(n, s) BY <2>1
    <2> HIDE DEF s
    <2>4. AtDesks' = [AtDesks EXCEPT ![n] = [at |-> "posting", board |-> board]]
      BY <1>3, <1>9, <2>2, <2>3, Desks DEF BeginsPost, Untold
    <2>5. AtDesks[n] = [at |-> "free"] BY <1>2, <1>9, Desks DEF BeginsPost
    <2>6. Service!MayPost(n, board) BY <2>1, MayPostGates DEF Service!MayPost, Urgent
    <2>7. Service!BeginPost(n)
      BY <1>1, <2>4, <2>5, <2>6, ServiceSays
      DEF Service!BeginPost, Service!Sit, Service!Posting, Service!Free, AtDesks, InSight
    <2> QED BY <2>7 DEF Serves, Service!Next
  <1>10. CASE Subjects(n)
    <2> DEFINE s == [command |-> "BULLETIN_POST_CONTENT", board |-> states[n].board,
                     content |-> "empty"]
    <2>1. IsPost(s) /\ s.board = states[n].board BY DEF IsPost, PostCommands
    <2>2. Stay(n, s) BY <1>10 DEF Subjects
    <2> HIDE DEF s
    <2>3. Desk(s, opened[n]) = Desk(states[n], opened[n])
      BY <1>10, <2>1, Desks DEF Subjects
    <2>4. AtDesks' = AtDesks
      BY <1>2, <1>3, <1>10, <2>2, <2>3 DEF Subjects, Untold, AtDesks
    <2> QED BY <1>1, <2>4, ServiceSays DEF Serves, InSight
  <1>11. CASE Continues(n)
    <2> DEFINE s == [states[n] EXCEPT !.content = "text"]
    <2>1. states[n] \in NewMailDrafts \cup ReplyDrafts \cup PostDrafts /\ Stay(n, s)
      BY <1>11 DEF Continues
    <2>2. /\ DOMAIN s = DOMAIN states[n] /\ s.command = states[n].command
          /\ IsDraft(s) <=> IsDraft(states[n])
          /\ IsPost(s) => s.board = states[n].board
          /\ IsDraft(s) \/ IsPost(s)
          /\ "recipient_id" \in DOMAIN s => s.recipient_id = states[n].recipient_id
          /\ "unique_id" \notin DOMAIN s
      BY <2>1 DEF IsDraft, IsPost, PostCommands, NewMailDrafts, ReplyDrafts, PostDrafts
    <2> HIDE DEF s
    <2>3. Desk(s, opened[n]) = Desk(states[n], opened[n])
      <3>1. ~IsReading(s) /\ ~IsReading(states[n]) BY <2>2 DEF IsReading
      <3>2. IsPost(s) <=> IsPost(states[n]) BY <2>2 DEF IsPost
      <3> QED BY <2>2, <3>1, <3>2, Desks
    <2>4. AtDesks' = AtDesks
      BY <1>2, <1>3, <1>11, <2>1, <2>3 DEF Continues, Untold, AtDesks
    <2> QED BY <1>1, <2>4, ServiceSays DEF Serves, InSight
  <1> QED BY <1>4, <1>5, <1>6, <1>7, <1>8, <1>9, <1>10, <1>11

\* A mail, a bulletin and a channel more, as the service adds them.
LEMMA AdditionsServe ==
  ASSUME NEW n, NEW k, NEW board
  PROVE  /\ AddMail(n, k) => Service!AddMail(n, k)
         /\ AddBulletin(board, n) => Service!AddBulletin(n, board)
         /\ AddChannel /\ UNCHANGED AtDesks => Service!AddChannel
  <1>1. ASSUME AddMail(n, k) PROVE Service!AddMail(n, k)
    <2>1. Letters' = Letters \cup {[sender |-> n, to |-> k, uid |-> NewUid]}
      BY <1>1, LetterComes DEF AddMail
    <2>2. UNCHANGED <<Notices, Listed>> BY <1>1, SightStays DEF AddMail
    <2>3. outbox' = outbox \cup {[kind |-> "MAIL", uid |-> NewUid]}
      BY <1>1, LocalPublish DEF AddMail
    <2>4. minted' = minted + 1 BY <1>1 DEF AddMail, Mint
    <2> QED BY <2>1, <2>2, <2>3, <2>4
            DEF Service!AddMail, Service!Mint, Service!Tell, Service!NewUid, NewUid,
                Letters, Notices, Listed
  <1>2. ASSUME AddBulletin(board, n) PROVE Service!AddBulletin(n, board)
    <2>1. Notices' = Notices \cup {[board |-> board, by |-> n, uid |-> NewUid]}
      BY <1>2, NoticeComes DEF AddBulletin
    <2>2. UNCHANGED <<Letters, Listed>> BY <1>2, SightStays DEF AddBulletin
    <2>3. outbox' = outbox \cup {[kind |-> "BULLETIN", uid |-> NewUid]}
      BY <1>2, LocalPublish DEF AddBulletin
    <2>4. minted' = minted + 1 BY <1>2 DEF AddBulletin, Mint
    <2> QED BY <2>1, <2>2, <2>3, <2>4
            DEF Service!AddBulletin, Service!Mint, Service!Tell, Service!NewUid, NewUid,
                Letters, Notices, Listed
  <1>3. ASSUME AddChannel, UNCHANGED AtDesks PROVE Service!AddChannel
    <2>1. Listed' = Listed \cup {NewUid} BY <1>3, ChannelComes DEF AddChannel
    <2>2. UNCHANGED <<Letters, Notices>> BY <1>3, SightStays DEF AddChannel
    <2>3. outbox' = outbox \cup {[kind |-> "CHANNEL", uid |-> NewUid]}
      BY <1>3, LocalPublish DEF AddChannel
    <2>4. minted' = minted + 1 BY <1>3 DEF AddChannel, Mint
    <2> QED BY <1>3, <2>1, <2>2, <2>3, <2>4
            DEF Service!AddChannel, Service!Mint, Service!Tell, Service!NewUid, NewUid,
                Letters, Notices, Listed, AtDesks
  <1> QED BY <1>1, <1>2, <1>3

\* A reply goes to the author of the mail that was shown.
LEMMA RecipientIsNoted ==
  ASSUME TypeOK, MailNotes, NEW n \in Nodes, AtStep(n, "MAIL", 7), NEW k \in Recipients(n)
  PROVE  k = IF "recipient_id" \in DOMAIN states[n] THEN states[n].recipient_id
             ELSE opened[n].sender
  <1>1. states[n] \in NewMailDrafts \cup ReplyDrafts
    BY DraftKinds DEF AtStep, At, TypeOK, SessionTypeOK
  <1>2. CASE states[n] \in NewMailDrafts
    <2>1. "recipient_id" \in DOMAIN states[n] /\ "reply_to_mail_id" \notin DOMAIN states[n]
      BY <1>2 DEF NewMailDrafts
    <2> QED BY <2>1 DEF Recipients, IsReply
  <1>3. CASE states[n] \in ReplyDrafts
    <2>1. /\ "recipient_id" \notin DOMAIN states[n] /\ "reply_to_mail_id" \in DOMAIN states[n]
          /\ IsDraft(states[n])
      BY <1>3 DEF ReplyDrafts, IsDraft
    <2>2. PICK r \in mail : r.id = states[n].reply_to_mail_id /\ k = r.sender
      BY <2>1 DEF Recipients, IsReply
    <2>3. opened[n] # NoRow /\ opened[n].id = states[n].reply_to_mail_id
      BY <2>1 DEF MailNotes, NotesHold, Noted
    <2>4. r = opened[n] BY <2>2, <2>3 DEF MailNotes, ShownStays
    <2> QED BY <2>1, <2>2, <2>4
  <1> QED BY <1>1, <1>2, <1>3

\* Acts that write.
LEMMA WritesServe ==
  ASSUME TypeOK, MailNotes, NEW n \in Nodes,
         Sends(n) \/ SendsAtOnce(n) \/ Posts(n) \/ PostsAtOnce(n) \/ Lists(n) \/ Deletes(n)
  PROVE  Serves
  <1>0. /\ states \in [Nodes -> SessionStates] /\ NotesHold /\ states[n] \in SessionStates
    BY DEF TypeOK, SessionTypeOK, MailNotes
  <1>1. AtDesks[n] = Desk(states[n], opened[n]) BY DEF AtDesks
  <1>2. ASSUME UNCHANGED opened, Relaxes(n) PROVE AtDesks' = [AtDesks EXCEPT ![n] = [at |-> "free"]]
    BY <1>2, DeskMoves, Desks DEF Relaxes
  <1>3. ASSUME UNCHANGED <<opened, states>> PROVE UNCHANGED AtDesks BY <1>3, SightStays
  <1>a. ASSUME UNCHANGED opened, Ends(n) PROVE Service!Done(n)
    BY <1>2, <1>3, <1>a DEF Ends, Service!Done, Service!Sit, Service!Free, AtDesks
  <1>4. CASE Sends(n)
    <2>1. IsDraft(states[n]) BY <1>4 DEF Sends, AtStep, At, IsDraft
    <2>2. PICK k \in Recipients(n) : AddMail(n, k) BY <1>4 DEF Sends
    <2>3. AtDesks[n] = [at |-> "writing", to |-> k]
      BY <1>0, <1>1, <1>4, <2>1, <2>2, RecipientIsNoted, ReadingSteps, Desks DEF Sends
    <2>4. AtDesks[n].at = "writing" /\ AtDesks[n].to = k BY <2>3
    <2>5. Service!Done(n) BY <1>4, <1>a DEF Sends
    <2>6. Service!AddMail(n, AtDesks[n].to) BY <2>2, <2>4, AdditionsServe
    <2>7. Service!Send(n) BY <2>4, <2>5, <2>6 DEF Service!Send, AtDesks
    <2> QED BY <2>7 DEF Serves, Service!Next
  <1>5. CASE SendsAtOnce(n)
    <2>1. PICK k \in Nodes : AddMail(n, k) BY <1>5 DEF SendsAtOnce
    <2>2. Service!AddMail(n, k) /\ UNCHANGED AtDesks
      BY <1>3, <1>5, <2>1, AdditionsServe DEF SendsAtOnce
    <2>3. Service!SendAtOnce(n) BY <2>2 DEF Service!SendAtOnce, AtDesks
    <2> QED BY <2>3 DEF Serves, Service!Next
  <1>6. CASE Posts(n)
    <2>1. AtDesks[n] = [at |-> "posting", board |-> states[n].board]
      BY <1>1, <1>6, Desks DEF Posts
    <2>2. AtDesks[n].at = "posting" /\ AtDesks[n].board = states[n].board BY <2>1
    <2>3. Service!Done(n) BY <1>6, <1>a DEF Posts
    <2>4. Service!AddBulletin(n, AtDesks[n].board) BY <1>6, <2>2, AdditionsServe DEF Posts
    <2>5. Service!Post(n) BY <2>2, <2>3, <2>4 DEF Service!Post, AtDesks
    <2> QED BY <2>5 DEF Serves, Service!Next
  <1>7. CASE PostsAtOnce(n)
    <2>1. PICK board \in Boards : MayPost(board, n) /\ AddBulletin(board, n)
      BY <1>7 DEF PostsAtOnce
    <2>2. Service!AddBulletin(n, board) /\ UNCHANGED AtDesks
      BY <1>3, <1>7, <2>1, AdditionsServe DEF PostsAtOnce
    <2>3. Service!MayPost(n, board) BY <2>1, MayPostGates DEF Service!MayPost, Urgent
    <2>4. Service!PostAtOnce(n) BY <2>2, <2>3 DEF Service!PostAtOnce, AtDesks
    <2> QED BY <2>4 DEF Serves, Service!Next
  <1>8. CASE Lists(n)
    <2>1. UNCHANGED AtDesks
      <3>1. CASE UNCHANGED states BY <1>3, <1>8, <3>1 DEF Lists
      <3>2. CASE Idle(states[n]) /\ Relaxes(n)
        <4>1. AtDesks[n] = [at |-> "free"] BY <1>1, <3>2, Desks
        <4> QED BY <1>2, <1>8, <3>2, <4>1 DEF Lists, AtDesks
      <3> QED BY <1>8, <3>1, <3>2 DEF Lists
    <2>2. Service!AddChannel BY <1>8, <2>1, AdditionsServe DEF Lists
    <2> QED BY <2>2 DEF Serves, Service!Next
  <1>9. CASE Deletes(n)
    <2>1. Service!Done(n) BY <1>9, <1>a DEF Deletes
    <2>2. AtDesks[n] = [at |-> "reading", mail |-> Letter(opened[n])]
      BY <1>0, <1>1, <1>9, Desks, ReadingSteps DEF Deletes
    <2>3. opened[n].uid = states[n].unique_id BY <1>0, <1>9 DEF Deletes, NotesHold, Noted
    <2>4. AtDesks[n].at = "reading" /\ AtDesks[n].mail.uid = states[n].unique_id
      BY <2>2, <2>3 DEF Letter
    <2>5. CASE \E r \in mail : r.uid = states[n].unique_id
      <3>1. /\ mail' = {r \in mail : r.uid # states[n].unique_id}
            /\ Publish("DELETE_MAIL", states[n].unique_id, "LOCAL")
            /\ UNCHANGED <<bulletins, channels, minted>>
        BY <1>9, <2>5 DEF Deletes, DeleteMail
      <3>2. Letters' = {m \in Letters : m.uid # AtDesks[n].mail.uid} BY <2>4, <3>1, LetterGoes
      <3>3. outbox' = outbox \cup {[kind |-> "DELETE_MAIL", uid |-> AtDesks[n].mail.uid]}
        BY <2>4, <3>1, LocalPublish
      <3>4. UNCHANGED <<Notices, Listed, minted>> BY <3>1, SightStays
      <3>5. Service!Delete(n)
        BY <2>1, <2>4, <3>2, <3>3, <3>4
        DEF Service!Delete, Service!Tell, AtDesks, Letters, Notices, Listed
      <3> QED BY <3>5 DEF Serves, Service!Next
    <2>6. CASE ~\E r \in mail : r.uid = states[n].unique_id
      <3>1. UNCHANGED storeVars BY <1>9, <2>6 DEF Deletes, DeleteMail
      <3>2. Leaves(n) \/ Rests(n) BY <1>9, <3>1 DEF Deletes, Ends, Leaves, Rests, Untold
      <3> QED BY <3>2, MovesServe
    <2> QED BY <2>5, <2>6
  <1> QED BY <1>4, <1>5, <1>6, <1>7, <1>8, <1>9
----------------------------------------------------------------------------
(* What no node does is a step of the service too *)

\* A record from a peer.
LEMMA PeerServes == ASSUME PeerRecord PROVE Serves
  <1>0. UNCHANGED AtDesks BY SightStays DEF PeerRecord, sessionVars
  <1>1. ASSUME NEW b \in PeerBulletins, AcceptBulletin(b) PROVE Serves
    <2>1. b = [board |-> b.board, by |-> b.by, uid |-> b.uid]
      BY PeerAssumption
    <2>2. Notices' = Notices \cup {b} BY <1>1, <2>1, NoticeComes DEF AcceptBulletin
    <2>3. outbox' = outbox
      BY <1>1, SyncedPublish DEF AcceptBulletin
    <2>4. UNCHANGED <<Letters, Listed, minted>> BY <1>1, SightStays DEF AcceptBulletin
    <2>5. Service!FromPeer
      BY <1>0, <1>1, <2>2, <2>3, <2>4
      DEF Service!FromPeer, Letters, Notices, Listed, AtDesks
    <2> QED BY <2>5 DEF Serves, Service!Next
  <1>2. ASSUME NEW p \in PeerMail, AcceptMail(p) PROVE Serves
    <2>1. p = [sender |-> p.sender, to |-> p.to, uid |-> p.uid]
      BY PeerAssumption
    <2>2. Letters' = Letters \cup {p} BY <1>2, <2>1, LetterComes DEF AcceptMail
    <2>3. outbox' = outbox
      BY <1>2, SyncedPublish DEF AcceptMail
    <2>4. UNCHANGED <<Notices, Listed, minted>> BY <1>2, SightStays DEF AcceptMail
    <2>5. Service!FromPeer
      BY <1>0, <1>2, <2>2, <2>3, <2>4 DEF Service!FromPeer, Letters, Notices, Listed, AtDesks
    <2> QED BY <2>5 DEF Serves, Service!Next
  <1>3. ASSUME NEW c \in PeerChannels, AcceptChannel(c) PROVE Serves
    <2>1. Listed' = Listed \cup {c.uid} BY <1>3, ChannelComes DEF AcceptChannel
    <2>2. outbox' = outbox
      BY <1>3, SyncedPublish DEF AcceptChannel
    <2>3. UNCHANGED <<Letters, Notices, minted>> BY <1>3, SightStays DEF AcceptChannel
    <2>4. Service!FromPeer
      BY <1>0, <1>3, <2>1, <2>2, <2>3 DEF Service!FromPeer, Letters, Notices, Listed, AtDesks
    <2> QED BY <2>4 DEF Serves, Service!Next
  <1>4. ASSUME NEW r \in mail, AcceptMailDeleted(r.uid) PROVE Serves
    <2>1. Letters' = {m \in Letters : m.uid # Letter(r).uid}
      BY <1>4, LetterGoes DEF AcceptMailDeleted, Letter
    <2>2. Letter(r) \in Letters BY DEF Letters
    <2>3. outbox' = outbox
      BY <1>4, SyncedPublish DEF AcceptMailDeleted
    <2>4. UNCHANGED <<Notices, Listed, minted>> BY <1>4, SightStays DEF AcceptMailDeleted
    <2>5. Service!Remove
      BY <1>0, <2>1, <2>2, <2>3, <2>4
      DEF Service!Remove, Service!Removed, Letters, Notices, Listed, AtDesks
    <2> QED BY <2>5 DEF Serves, Service!Next
  <1>5. ASSUME NEW b \in bulletins, AcceptBulletinDeleted(b.uid) PROVE Serves
    <2>1. Notices' = {m \in Notices : m.uid # Notice(b).uid}
      BY <1>5, NoticeGoes DEF AcceptBulletinDeleted, Notice
    <2>2. Notice(b) \in Notices BY DEF Notices
    <2>3. UNCHANGED <<Letters, Listed, minted, outbox>>
      BY <1>5, SightStays DEF AcceptBulletinDeleted
    <2>4. Service!Remove
      BY <1>0, <2>1, <2>2, <2>3
      DEF Service!Remove, Service!Removed, Letters, Notices, Listed, AtDesks
    <2> QED BY <2>4 DEF Serves, Service!Next
  <1> QED BY <1>1, <1>2, <1>3, <1>4, <1>5 DEF PeerRecord

\* A deletion by the admin tool.
LEMMA AdminServes == ASSUME AdminDeletes PROVE Serves
  <1>0. UNCHANGED AtDesks BY SightStays DEF AdminDeletes, sessionVars
  <1>1. ASSUME NEW r \in mail, AdminDeletesMail(r) PROVE Serves
    <2>1. Letters' = {m \in Letters : m.uid # Letter(r).uid}
      BY <1>1, LetterGoes DEF AdminDeletesMail, Letter
    <2>2. Letter(r) \in Letters BY DEF Letters
    <2>3. UNCHANGED <<Notices, Listed, minted, outbox>>
      BY <1>1, SightStays DEF AdminDeletesMail
    <2>4. Service!Remove
      BY <1>0, <2>1, <2>2, <2>3
      DEF Service!Remove, Service!Removed, Letters, Notices, Listed, AtDesks
    <2> QED BY <2>4 DEF Serves, Service!Next
  <1>2. ASSUME NEW b \in bulletins, AdminDeletesBulletin(b) PROVE Serves
    <2>1. Notices' = {m \in Notices : m.uid # Notice(b).uid}
      BY <1>2, NoticeGoes DEF AdminDeletesBulletin, Notice
    <2>2. Notice(b) \in Notices BY DEF Notices
    <2>3. UNCHANGED <<Letters, Listed, minted, outbox>>
      BY <1>2, SightStays DEF AdminDeletesBulletin
    <2>4. Service!Remove
      BY <1>0, <2>1, <2>2, <2>3
      DEF Service!Remove, Service!Removed, Letters, Notices, Listed, AtDesks
    <2> QED BY <2>4 DEF Serves, Service!Next
  <1>3. ASSUME NEW c \in channels, AdminDeletesChannel(c) PROVE Serves
    <2>1. Listed' \subseteq Listed BY <1>3 DEF AdminDeletesChannel, Listed
    <2>2. UNCHANGED <<Letters, Notices, minted, outbox>>
      BY <1>3, SightStays DEF AdminDeletesChannel
    <2>3. Service!Remove
      BY <1>0, <2>1, <2>2
      DEF Service!Remove, Service!Removed, Letters, Notices, Listed, AtDesks
    <2> QED BY <2>3 DEF Serves, Service!Next
  <1> QED BY <1>1, <1>2, <1>3 DEF AdminDeletes

\* The end of the server with a sweep is a shutdown, or the last thing written.
LEMMA StopsServe ==
  ASSUME TypeOK, MailNotes, NEW n \in Nodes, Stops(n)
  PROVE  Serves
  <1>0. states[n] \in SessionStates BY DEF TypeOK, SessionTypeOK
  <1>1. AtDesks[n] = Desk(states[n], opened[n]) BY DEF AtDesks
  <1>2. Service!Close
    <2>1. Idle(MainMenu) BY DEF Idle, IsReading, IsDraft, IsPost, PostCommands, MainMenu
    <2>2. AtDesks' = [k \in Nodes |-> Desk(states'[k], opened'[k])] BY DEF AtDesks
    <2>3. \A k \in Nodes : Desk(states'[k], opened'[k]) = [at |-> "free"]
      BY <2>1, Desks DEF Stops
    <2> QED BY <2>2, <2>3 DEF Service!Close, Service!Free, AtDesks
  <1>3. CASE UNCHANGED storeVars
    <2>1. UNCHANGED InSight BY <1>3, SightStays DEF storeVars, InSight
    <2>2. Service!Shutdown BY <1>2, <2>1, ServiceSays DEF Service!Shutdown, InSight
    <2> QED BY <2>2 DEF Serves, Service!Next
  <1>4. ASSUME AtStep(n, "MAIL", 7), NEW k \in Recipients(n), AddMail(n, k) PROVE Serves
    <2>1. IsDraft(states[n]) BY <1>4 DEF AtStep, At, IsDraft
    <2>2. AtDesks[n] = [at |-> "writing", to |-> k]
      BY <1>0, <1>1, <1>4, <2>1, RecipientIsNoted, ReadingSteps, Desks
    <2>3. AtDesks[n].at = "writing" /\ AtDesks[n].to = k BY <2>2
    <2>4. Service!AddMail(n, AtDesks[n].to) BY <1>4, <2>3, AdditionsServe
    <2>5. Service!Send(n) BY <1>2, <2>3, <2>4 DEF Service!Send, AtDesks
    <2> QED BY <2>5 DEF Serves, Service!Next
  <1>5. ASSUME IsPost(states[n]), AddBulletin(states[n].board, n) PROVE Serves
    <2>1. AtDesks[n] = [at |-> "posting", board |-> states[n].board] BY <1>1, <1>5, Desks
    <2>2. AtDesks[n].at = "posting" /\ AtDesks[n].board = states[n].board BY <2>1
    <2>3. Service!AddBulletin(n, AtDesks[n].board) BY <1>5, <2>2, AdditionsServe
    <2>4. Service!Post(n) BY <1>2, <2>2, <2>3 DEF Service!Post, AtDesks
    <2> QED BY <2>4 DEF Serves, Service!Next
  <1> QED BY <1>3, <1>4, <1>5 DEF Stops

\* So every step of the server is one.
LEMMA NextServes ==
  ASSUME TypeOK, MailNotes, [Next]_vars
  PROVE  Serves
  <1>1. ASSUME NEW n \in Nodes, Acts(n) PROVE Serves
    BY <1>1, MovesServe, WritesServe DEF Acts
  <1>2. ASSUME NEW n \in Nodes, Stops(n) PROVE Serves
    BY <1>2, StopsServe
  <1>3. CASE \/ Restart \/ Js8Heard \/ UNCHANGED vars
             \/ \E n \in Nodes : GoQuiet(n)
             \/ \E n \in Flaky : RosterChanges(n)
    <2>1. UNCHANGED storeVars /\ UNCHANGED <<states, opened>>
      BY <1>3 DEF Restart, Js8Heard, GoQuiet, RosterChanges, vars, sessionVars
    <2> QED BY <2>1, SightStays, ServiceSays DEF Serves, storeVars
  <1>4. ASSUME NEW n \in Nodes, Advance(n) \/ Sweep(n) PROVE Serves
    BY <1>1, <1>2, <1>4, AdvanceActs, SweepActs
  <1> QED BY <1>3, <1>4, PeerServes, AdminServes DEF Next

(* The server, with its menus, listings, drafts, timeouts, rosters and row ids,
   does what BbsService promises: whatever it deletes for a node is the mail the
   node is reading, an answer goes to the author of that mail, a post is one its
   author may make, and the peers are told of what is done here. *)
THEOREM ConversationServes == Spec => ServesAsPromised
  <1>1. Init => Service!Init
    <2> SUFFICES ASSUME Init PROVE Service!Init OBVIOUS
    <2>1. Idle(MainMenu) BY DEF Idle, IsReading, IsDraft, IsPost, PostCommands, MainMenu
    <2>2. AtDesks = [n \in Nodes |-> [at |-> "free"]]
      BY <2>1, Desks DEF Init, SessionInit, AtDesks
    <2>3. /\ Letters = {} /\ Notices = {} /\ Listed = {}
          /\ minted = 0 /\ outbox = {}
      BY DEF Init, StoreInit, Letters, Notices, Listed
    <2> QED BY <2>2, <2>3, ServiceSays
  <1>2. TypeOK /\ MailNotes /\ [Next]_vars => [Service!Next]_Service!vars
    BY NextServes DEF Serves
  <1> QED BY <1>1, <1>2, TypeCorrect, NotesAreRight, PTL DEF Spec, ServesAsPromised, Service!Spec

----------------------------------------------------------------------------
(* Two promises in the words of the server *)

\* Nothing an act stores of its own besides what it sends.
LEMMA ActsWriteMail ==
  ASSUME NEW n, Acts(n), ~Sends(n), ~SendsAtOnce(n)
  PROVE  mail' \subseteq mail
  BY DEF Acts, Untold, storeVars, Rests, Leaves, Shows, Begins, Replies, BeginsPost, Subjects,
         Continues, Posts, PostsAtOnce, Lists, Deletes, AddBulletin, AddChannel, DeleteMail

(* A reply reaches the author of the mail the node was shown, whatever was
   deleted, added or received between the showing and the END. *)
THEOREM RepliesReachAuthors == Spec => ReplyReachesAuthor
  <1> DEFINE Reaches == \A n \in Nodes :
         AtStep(n, "MAIL", 7) /\ IsReply(n)
           => \A r \in mail' \ mail : r.sender = n /\ Local(r.uid) /\ states'[n] # states[n]
                                        => r.to = opened[n].sender
  <1>1. TypeOK /\ MailNotes /\ [Next]_vars => Reaches \/ UNCHANGED vars
    <2> SUFFICES ASSUME TypeOK, MailNotes, Next, NEW n \in Nodes,
                        AtStep(n, "MAIL", 7), IsReply(n),
                        NEW r \in mail' \ mail, r.sender = n, states'[n] # states[n]
                 PROVE  r.to = opened[n].sender
      OBVIOUS
    <2>0. states \in [Nodes -> SessionStates] /\ states[n] \in SessionStates
      BY DEF TypeOK, SessionTypeOK
    <2>1. ASSUME NEW k \in Nodes, Acts(k) PROVE r.to = opened[n].sender
      <3>1. k = n
        <4>1. ASSUME NEW s, Stay(k, s), k # n PROVE FALSE
          BY <2>0, <4>1 DEF Stay
        <4> QED BY <2>1, <4>1
            DEF Acts, Untold, Rests, Leaves, Shows, Show, Begins, Replies, BeginsPost, Subjects,
                Continues, Sends, SendsAtOnce, Posts, PostsAtOnce, Lists, Deletes, Ends, Relaxes
      <3>2. Sends(n) BY <2>1, <3>1, ActsWriteMail DEF SendsAtOnce
      <3>3. PICK to \in Recipients(n) : AddMail(n, to) BY <3>2 DEF Sends
      <3>4. r.to = to BY <3>3 DEF AddMail, InsertMail
      <3>5. "recipient_id" \notin DOMAIN states[n]
        BY <2>0, DraftKinds DEF AtStep, At, IsReply, NewMailDrafts, ReplyDrafts
      <3> QED BY <3>3, <3>4, <3>5, RecipientIsNoted
    <2>2. ASSUME NEW k \in Nodes, Stops(k) PROVE r.to = opened[n].sender
      <3>1. PICK to \in Recipients(k) : AddMail(k, to)
        BY <2>2 DEF Stops, storeVars, AddBulletin
      <3>2. k = n /\ r.to = to BY <3>1 DEF AddMail, InsertMail
      <3>3. "recipient_id" \notin DOMAIN states[n]
        BY <2>0, DraftKinds DEF AtStep, At, IsReply, NewMailDrafts, ReplyDrafts
      <3> QED BY <3>1, <3>2, <3>3, RecipientIsNoted
    <2>3. ASSUME NEW k \in Nodes, Advance(k) \/ Sweep(k) PROVE r.to = opened[n].sender
      BY <2>1, <2>3, <2>2, AdvanceActs, SweepActs
    <2>4. CASE \/ Restart \/ PeerRecord \/ AdminDeletes \/ Js8Heard
               \/ \E k \in Nodes : GoQuiet(k)
               \/ \E k \in Flaky : RosterChanges(k)
      BY <2>4 DEF Restart, PeerRecord, AdminDeletes, Js8Heard, GoQuiet, RosterChanges, sessionVars
    <2> QED BY <2>3, <2>4 DEF Next
  <1> QED BY <1>1, TypeCorrect, NotesAreRight, PTL DEF Spec, ReplyReachesAuthor

(* The peers are told to delete a mail only when the node it is addressed to
   deletes the one it has open. *)
THEOREM DeletionsOwned == Spec => DeletionsAreOwned
  <1> DEFINE Owned == \A e \in outbox' \ outbox :
         e.kind = "DELETE_MAIL" =>
           \E n \in Nodes : /\ AtStep(n, "MAIL", 4) \/ AtStep(n, "CHECK_MAIL", 2)
                            /\ opened[n] # NoRow /\ opened[n].uid = e.uid
                            /\ opened[n].to = n
  <1>1. TypeOK /\ MailNotes /\ MailPrivacy /\ [Next]_vars => Owned \/ UNCHANGED vars
    <2> SUFFICES ASSUME TypeOK, MailNotes, MailPrivacy, Next,
                        NEW e \in outbox' \ outbox, e.kind = "DELETE_MAIL"
                 PROVE  \E n \in Nodes : /\ AtStep(n, "MAIL", 4) \/ AtStep(n, "CHECK_MAIL", 2)
                                         /\ opened[n] # NoRow /\ opened[n].uid = e.uid
                                         /\ opened[n].to = n
      OBVIOUS
    <2>0. states \in [Nodes -> SessionStates] BY DEF TypeOK, SessionTypeOK
    <2>1. ASSUME NEW k \in Nodes, Acts(k) \/ Stops(k) PROVE Deletes(k)
      <3>1. ASSUME NEW kind, NEW uid, Publish(kind, uid, "LOCAL")
            PROVE  kind = "DELETE_MAIL"
        BY <3>1, LocalPublish
      <3>2. ~UNCHANGED storeVars BY DEF storeVars
      <3>3. ASSUME NEW to, AddMail(k, to) PROVE FALSE BY <3>1, <3>3 DEF AddMail
      <3>4. ASSUME NEW board, AddBulletin(board, k) PROVE FALSE BY <3>1, <3>4 DEF AddBulletin
      <3>5. ~AddChannel BY <3>1 DEF AddChannel
      <3> QED BY <2>1, <3>2, <3>3, <3>4, <3>5
          DEF Acts, Untold, Rests, Leaves, Shows, Begins, Replies, BeginsPost, Subjects,
              Continues, Sends, SendsAtOnce, Posts, PostsAtOnce, Lists, Stops
    <2>2. ASSUME NEW k \in Nodes, Deletes(k)
          PROVE  /\ AtStep(k, "MAIL", 4) \/ AtStep(k, "CHECK_MAIL", 2)
                 /\ opened[k] # NoRow /\ opened[k].uid = e.uid
                 /\ opened[k].to = k
      <3>1. AtStep(k, "MAIL", 4) \/ AtStep(k, "CHECK_MAIL", 2)
        BY <2>0, <2>2, ReadingSteps DEF Deletes, AtStep, At
      <3>2. opened[k] # NoRow /\ opened[k].uid = states[k].unique_id
        BY <2>2 DEF Deletes, MailNotes, NotesHold, Noted
      <3>3. Publish("DELETE_MAIL", states[k].unique_id, "LOCAL")
        BY <2>2 DEF Deletes, DeleteMail, storeVars
      <3>4. e.uid = states[k].unique_id BY <3>3, LocalPublish
      <3> QED BY <3>1, <3>2, <3>4 DEF MailPrivacy
    <2>3. ASSUME NEW k \in Nodes, Advance(k) \/ Sweep(k) PROVE Deletes(k)
      BY <2>1, <2>3, AdvanceActs, SweepActs
    <2>4. ~PeerRecord
      BY SyncedPublish DEF PeerRecord, AcceptBulletin, AcceptMail, AcceptChannel,
                           AcceptMailDeleted, AcceptBulletinDeleted
    <2>5. \/ \E k \in Nodes : Advance(k) \/ Sweep(k)
      BY <2>4 DEF Next, Restart, AdminDeletes, AdminDeletesMail, AdminDeletesBulletin,
                  AdminDeletesChannel, Js8Heard, GoQuiet, RosterChanges, storeVars
    <2> QED BY <2>2, <2>3, <2>5
  <1> QED BY <1>1, TypeCorrect, NotesAreRight, MailIsPrivate, PTL DEF Spec, DeletionsAreOwned


----------------------------------------------------------------------------
(* Drafts end as their authors would have them end *)

BulletinsAreNumbered == \A b \in bulletins : b.id <= rowid["bulletins"]

\* Every step takes bulletins away, leaves them, or adds one with a new id.
LEMMA StoreNumbersBulletins ==
  ASSUME TypeOK, BulletinsAreNumbered, StoreStep \/ UNCHANGED storeVars
  PROVE  BulletinsAreNumbered'
  <1>0. rowid \in [Tables -> Nat] /\ bulletins \subseteq BulletinRows
    BY DEF TypeOK, StoreTypeOK
  <1>1. ASSUME bulletins' \subseteq bulletins, rowid'["bulletins"] = rowid["bulletins"]
        PROVE  BulletinsAreNumbered'
    BY <1>1 DEF BulletinsAreNumbered
  <1>2. ASSUME NEW board, NEW by, NEW uid, InsertBulletin(board, by, uid)
        PROVE  BulletinsAreNumbered'
    <2> DEFINE b == [id |-> NextRowId("bulletins"), board |-> board, by |-> by, uid |-> uid]
    <2>1. b.id = rowid["bulletins"] + 1 BY DEF NextRowId
    <2>2. bulletins' = bulletins \cup {b} BY <1>2 DEF InsertBulletin
    <2>3. rowid'["bulletins"] = rowid["bulletins"] + 1
      BY <1>0, <1>2 DEF InsertBulletin, TakeRowId, NextRowId, Tables
    <2>4. rowid["bulletins"] \in Nat /\ \A c \in bulletins : c.id \in Nat
      BY <1>0 DEF Tables, BulletinRows
    <2> HIDE DEF b
    <2> QED BY <2>1, <2>2, <2>3, <2>4 DEF BulletinsAreNumbered
  <1>3. CASE UNCHANGED storeVars BY <1>1, <1>3 DEF storeVars
  <1>4. ASSUME NEW n \in Nodes, Writes(n) PROVE BulletinsAreNumbered'
    <2>1. ASSUME NEW board, AddBulletin(board, n) PROVE BulletinsAreNumbered'
      BY <1>2, <2>1 DEF AddBulletin
    <2>2. ASSUME NEW to, AddMail(n, to) PROVE BulletinsAreNumbered'
      BY <1>0, <1>1, <2>2 DEF AddMail, InsertMail, TakeRowId, Tables
    <2>3. ASSUME NEW uid, DeleteMail(uid) PROVE BulletinsAreNumbered'
      BY <1>1, <2>3 DEF DeleteMail, storeVars
    <2>4. CASE AddChannel
      BY <1>0, <1>1, <2>4 DEF AddChannel, InsertChannel, TakeRowId, Tables
    <2> QED BY <1>3, <1>4, <2>1, <2>2, <2>3, <2>4 DEF Writes
  <1>5. CASE PeerRecord
    <2>1. ASSUME NEW b, AcceptBulletin(b) PROVE BulletinsAreNumbered'
      BY <1>2, <2>1 DEF AcceptBulletin
    <2>2. ASSUME NEW p, AcceptMail(p) PROVE BulletinsAreNumbered'
      BY <1>0, <1>1, <2>2 DEF AcceptMail, InsertMail, TakeRowId, Tables
    <2>3. ASSUME NEW c, AcceptChannel(c) PROVE BulletinsAreNumbered'
      BY <1>0, <1>1, <2>3 DEF AcceptChannel, InsertChannel, TakeRowId, Tables
    <2>4. ASSUME NEW uid, AcceptMailDeleted(uid) \/ AcceptBulletinDeleted(uid)
          PROVE  BulletinsAreNumbered'
      BY <1>1, <2>4 DEF AcceptMailDeleted, AcceptBulletinDeleted
    <2> QED BY <1>5, <2>1, <2>2, <2>3, <2>4 DEF PeerRecord
  <1>6. CASE AdminDeletes
    BY <1>1, <1>6 DEF AdminDeletes, AdminDeletesMail, AdminDeletesBulletin, AdminDeletesChannel
  <1> QED BY <1>3, <1>4, <1>5, <1>6 DEF StoreStep

\* The sweep ends no other draft than the one it is at, and posts that one if
\* there is text in it and a name to sign it with, or takes the server down.
LEMMA SweepPosts ==
  ASSUME TypeOK, RowsAreNumbered, BulletinsAreNumbered, NEW k \in Nodes, Sweep(k),
         NEW n \in Nodes, HasText(n), ~Composing(n)'
  PROVE  \/ ~Named(n) \/ ~up'
         \/ \E r \in mail' \ mail : r.sender = n
         \/ \E b \in bulletins' \ bulletins : b.by = n
  <1>0. /\ rowid \in [Tables -> Nat] /\ mail \subseteq MailRows /\ bulletins \subseteq BulletinRows
        /\ states \in [Nodes -> SessionStates]
    BY DEF TypeOK, StoreTypeOK, SessionTypeOK
  <1>1. CASE SweepRaises(k) BY <1>1 DEF SweepRaises
  <1>2. CASE ~SweepRaises(k)
    <2>1. k = n
      <3>1. ASSUME NEW s, Stay(k, s), k # n PROVE FALSE
        <4>1. states'[n] = states[n] BY <1>0, <3>1 DEF Stay
        <4> QED BY <4>1 DEF HasText, Composing, AtStep, At
      <3>2. \E s : Stay(k, s)
        BY <1>2 DEF Sweep, DiscardEmpty, FinishDraft, FinishMail, FinishBulletin, End
      <3> QED BY <3>1, <3>2
    <2>2. FinishDraft(n)
      <3>1. ~DiscardEmpty(n) BY DEF DiscardEmpty, HasText
      <3> QED BY <1>2, <2>1, <3>1 DEF Sweep
    <2>3. ASSUME FinishMail(n), Named(n) PROVE \E r \in mail' \ mail : r.sender = n
      <3>1. PICK to : AddMail(n, to) BY <2>3 DEF FinishMail, StoreMail
      <3> DEFINE r == [id |-> NextRowId("mail"), sender |-> n, to |-> to, uid |-> NewUid]
      <3>2. r \in mail' /\ r.sender = n BY <3>1 DEF AddMail, InsertMail
      <3>3. r.id = rowid["mail"] + 1 /\ rowid["mail"] \in Nat BY <1>0 DEF NextRowId, Tables
      <3> HIDE DEF r
      <3>4. r \notin mail BY <3>3 DEF RowsAreNumbered
      <3> QED BY <3>2, <3>4
    <2>4. ASSUME FinishBulletin(n), Named(n) PROVE \E b \in bulletins' \ bulletins : b.by = n
      <3>1. AddBulletin(states[n].board, n) BY <2>4 DEF FinishBulletin, StoreBulletin
      <3> DEFINE b == [id |-> NextRowId("bulletins"), board |-> states[n].board, by |-> n,
                       uid |-> NewUid]
      <3>2. b \in bulletins' /\ b.by = n BY <3>1 DEF AddBulletin, InsertBulletin
      <3>3. b.id = rowid["bulletins"] + 1 /\ rowid["bulletins"] \in Nat
        BY <1>0 DEF NextRowId, Tables
      <3> HIDE DEF b
      <3>4. b \notin bulletins BY <3>3 DEF BulletinsAreNumbered
      <3> QED BY <3>2, <3>4
    <2> QED BY <2>2, <2>3, <2>4 DEF FinishDraft
  <1> QED BY <1>1, <1>2

(* A draft with text in it is never just dropped: whatever the peers, the admin
   tool and the other nodes do, it ends by its author's hand, posted, unsigned
   or with the server. *)
THEOREM DraftsAreKept == Spec => DraftsAreNotDropped
  <1> DEFINE Kept == \A n \in Nodes :
         HasText(n) /\ ~Composing(n)'
           => \/ activity'[n] = "recent"
              \/ ~Named(n)
              \/ ~up'
              \/ \E r \in mail' \ mail : r.sender = n
              \/ \E b \in bulletins' \ bulletins : b.by = n
  <1>1. TypeOK /\ MailNotes /\ BulletinsAreNumbered /\ [Next]_vars => Kept \/ UNCHANGED vars
    <2> SUFFICES ASSUME TypeOK, MailNotes, BulletinsAreNumbered, Next, NEW n \in Nodes,
                        HasText(n), ~Composing(n)'
                 PROVE  \/ activity'[n] = "recent"
                        \/ ~Named(n)
                        \/ ~up'
                        \/ \E r \in mail' \ mail : r.sender = n
                        \/ \E b \in bulletins' \ bulletins : b.by = n
      OBVIOUS
    <2>0. /\ states \in [Nodes -> SessionStates]
          /\ activity \in [Nodes -> {"none", "recent", "quiet"}]
      BY DEF TypeOK, SessionTypeOK
    <2>1. ASSUME NEW k \in Nodes, Advance(k) PROVE activity'[n] = "recent"
      <3>1. activity' = [activity EXCEPT ![k] = "recent"] BY <2>1 DEF Advance, Hear
      <3>2. k = n
        <4>1. PICK s : UNCHANGED states \/ Stay(k, s)
          BY <2>1, AdvanceActs
          DEF Acts, Untold, Rests, Leaves, Shows, Show, Begins, Replies, BeginsPost, Subjects,
              Continues, Sends, SendsAtOnce, Posts, PostsAtOnce, Lists, Deletes, Ends, Relaxes
        <4>2. ASSUME k # n PROVE states'[n] = states[n] BY <2>0, <4>1, <4>2 DEF Stay
        <4> QED BY <4>2 DEF HasText, Composing, AtStep, At
      <3> QED BY <2>0, <3>1, <3>2
    <2>2. ASSUME NEW k \in Nodes, Sweep(k)
          PROVE  \/ ~Named(n) \/ ~up'
                 \/ \E r \in mail' \ mail : r.sender = n
                 \/ \E b \in bulletins' \ bulletins : b.by = n
      BY <2>2, SweepPosts DEF MailNotes
    <2>3. ~UNCHANGED states BY DEF HasText, Composing, AtStep, At
    <2>4. \E k \in Nodes : Advance(k) \/ Sweep(k)
      BY <2>3 DEF Next, GoQuiet, Restart, PeerRecord, AdminDeletes, Js8Heard, RosterChanges,
                  sessionVars
    <2> QED BY <2>1, <2>2, <2>4
  <1>2. Init => BulletinsAreNumbered BY DEF Init, StoreInit, BulletinsAreNumbered
  <1>3. TypeOK /\ PostersAreGated /\ BulletinsAreNumbered /\ [Next]_vars => BulletinsAreNumbered'
    BY NextStores, StoreNumbersBulletins
  <1> QED BY <1>1, <1>2, <1>3, TypeCorrect, PostersGated, NotesAreRight, PTL
          DEF Spec, DraftsAreNotDropped
=============================================================================
