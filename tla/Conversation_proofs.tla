------------------------ MODULE Conversation_proofs ------------------------
(***************************************************************************)
(* Type correctness of Conversation, for every set of nodes, boards, texts *)
(* and peer records.  The tables come first, then the states; a flow step  *)
(* is Handled when it keeps the tables, the states and what was shown in   *)
(* their types, and there is one lemma for each flow.                      *)
(***************************************************************************)
EXTENDS Conversation, TLAPS

----------------------------------------------------------------------------
(* The records of the states *)

\* A state that a handler reads has the fields the handler reads, of their types.
LEMMA StateFields ==
  ASSUME NEW s \in SessionStates
  PROVE  /\ s.command = "MAIL" /\ s.step = 4 => s.mail_id \in Nat /\ s.unique_id \in Uids
         /\ s.command = "MAIL" /\ s.step = 5 => s.recipient_id \in Nodes
         /\ s.command = "MAIL" /\ s.step = 6 => s.nodes \in SUBSET Nodes
         /\ s.command = "CHECK_MAIL" /\ s.step = 2 => s.mail_id \in Nat /\ s.unique_id \in Uids
         /\ s.command \in {"BULLETIN_ACTION", "BULLETIN_READ", "BULLETIN_POST",
                           "BULLETIN_POST_CONTENT"} => s.board \in Boards
  BY SMT DEF SessionStates, MailStates, BulletinStates, MenuStates, DirectoryStates, NewMailDrafts, ReplyDrafts, PostDrafts

\* A node at step 7 of MAIL has a draft, of a new mail or of a reply.
LEMMA DraftKinds ==
  ASSUME NEW s \in SessionStates, s.command = "MAIL", s.step = 7
  PROVE  s \in NewMailDrafts \/ s \in ReplyDrafts
  BY DEF SessionStates, MailStates, BulletinStates, MenuStates, DirectoryStates, PostDrafts, NewMailDrafts, ReplyDrafts

\* A node writing a bulletin has a draft for a board.
LEMMA PostKind ==
  ASSUME NEW s \in SessionStates, s.command = "BULLETIN_POST_CONTENT"
  PROVE  s \in PostDrafts
  BY DEF SessionStates, MailStates, BulletinStates, MenuStates, DirectoryStates, PostDrafts, NewMailDrafts, ReplyDrafts

\* Drafts are states.
LEMMA DraftsAreStates == NewMailDrafts \cup ReplyDrafts \cup PostDrafts \subseteq SessionStates
  BY DEF SessionStates, MailStates, BulletinStates

\* A line added to a draft leaves it a draft.
LEMMA DraftText ==
  ASSUME NEW s \in NewMailDrafts \cup ReplyDrafts \cup PostDrafts
  PROVE  [s EXCEPT !.content = "text"] \in NewMailDrafts \cup ReplyDrafts \cup PostDrafts
  BY DEF NewMailDrafts, ReplyDrafts, PostDrafts, Contents

\* The draft of a reply names the mail it replies to.
LEMMA ReplyHasOriginal ==
  ASSUME NEW s \in ReplyDrafts
  PROVE  "reply_to_mail_id" \in DOMAIN s
  BY DEF ReplyDrafts

----------------------------------------------------------------------------
(* The tables *)

\* What publish hands to the peers are records.
LEMMA PublishTyped ==
  ASSUME StoreTypeOK, NEW kind \in {"BULLETIN", "MAIL", "DELETE_MAIL", "CHANNEL"},
         NEW uid \in Uids, NEW origin, Publish(kind, uid, origin)
  PROVE  outbox' \subseteq Records
  BY DEF StoreTypeOK, Publish, Records

\* A fresh unique_id is one.
LEMMA NewUidTyped == ASSUME StoreTypeOK PROVE NewUid \in Uids
  BY DEF StoreTypeOK, NewUid, Uids

\* Row ids are numbers, and so is the counter they leave behind.
LEMMA TakeRowIdTyped ==
  ASSUME StoreTypeOK, NEW t \in Tables, TakeRowId(t)
  PROVE  NextRowId(t) \in Nat /\ rowid' \in [Tables -> Nat]
  BY DEF StoreTypeOK, TakeRowId, NextRowId

\* Inserting a row keeps the bulletins in their type.
LEMMA InsertBulletinTyped ==
  ASSUME StoreTypeOK, NEW board \in Boards, NEW by \in Nodes, NEW uid \in Uids,
         InsertBulletin(board, by, uid)
  PROVE  bulletins' \subseteq BulletinRows /\ rowid' \in [Tables -> Nat]
  <1>1. NextRowId("bulletins") \in Nat /\ rowid' \in [Tables -> Nat]
    BY TakeRowIdTyped DEF InsertBulletin, Tables
  <1> QED BY <1>1 DEF InsertBulletin, StoreTypeOK, BulletinRows

\* Inserting a row keeps the mail in its type.
LEMMA InsertMailTyped ==
  ASSUME StoreTypeOK, NEW sender \in Nodes, NEW to \in Nodes, NEW uid \in Uids,
         InsertMail(sender, to, uid)
  PROVE  mail' \subseteq MailRows /\ rowid' \in [Tables -> Nat]
  <1>1. NextRowId("mail") \in Nat /\ rowid' \in [Tables -> Nat]
    BY TakeRowIdTyped DEF InsertMail, Tables
  <1> QED BY <1>1 DEF InsertMail, StoreTypeOK, MailRows

\* Inserting a row keeps the channels in their type.
LEMMA InsertChannelTyped ==
  ASSUME StoreTypeOK, NEW uid \in Uids, InsertChannel(uid)
  PROVE  channels' \subseteq ChannelRows /\ rowid' \in [Tables -> Nat]
  <1>1. NextRowId("channels") \in Nat /\ rowid' \in [Tables -> Nat]
    BY TakeRowIdTyped DEF InsertChannel, Tables
  <1> QED BY <1>1 DEF InsertChannel, StoreTypeOK, ChannelRows

\* add_bulletin keeps the store in its type.
LEMMA AddBulletinTyped ==
  ASSUME StoreTypeOK, NEW board \in Boards, NEW by \in Nodes, AddBulletin(board, by)
  PROVE  StoreTypeOK'
  <1>1. NewUid \in Uids BY NewUidTyped
  <1>2. bulletins' \subseteq BulletinRows /\ rowid' \in [Tables -> Nat]
    BY <1>1, InsertBulletinTyped DEF AddBulletin
  <1>3. outbox' \subseteq Records
    BY <1>1, PublishTyped DEF AddBulletin
  <1>4. minted' \in Nat BY DEF AddBulletin, Mint, StoreTypeOK
  <1> QED BY <1>2, <1>3, <1>4 DEF AddBulletin, StoreTypeOK

\* add_mail keeps the store in its type.
LEMMA AddMailTyped ==
  ASSUME StoreTypeOK, NEW sender \in Nodes, NEW to \in Nodes, AddMail(sender, to)
  PROVE  StoreTypeOK'
  <1>1. NewUid \in Uids BY NewUidTyped
  <1>2. mail' \subseteq MailRows /\ rowid' \in [Tables -> Nat]
    BY <1>1, InsertMailTyped DEF AddMail
  <1>3. outbox' \subseteq Records
    BY <1>1, PublishTyped DEF AddMail
  <1>4. minted' \in Nat BY DEF AddMail, Mint, StoreTypeOK
  <1> QED BY <1>2, <1>3, <1>4 DEF AddMail, StoreTypeOK

\* add_channel keeps the store in its type.
LEMMA AddChannelTyped ==
  ASSUME StoreTypeOK, AddChannel
  PROVE  StoreTypeOK'
  <1>1. NewUid \in Uids BY NewUidTyped
  <1>2. channels' \subseteq ChannelRows /\ rowid' \in [Tables -> Nat]
    BY <1>1, InsertChannelTyped DEF AddChannel
  <1>3. outbox' \subseteq Records
    BY <1>1, PublishTyped DEF AddChannel
  <1>4. minted' \in Nat BY DEF AddChannel, Mint, StoreTypeOK
  <1> QED BY <1>2, <1>3, <1>4 DEF AddChannel, StoreTypeOK

\* delete_mail keeps the store in its type.
LEMMA DeleteMailTyped ==
  ASSUME StoreTypeOK, NEW uid \in Uids, DeleteMail(uid)
  PROVE  StoreTypeOK'
  <1>1. CASE UNCHANGED storeVars BY <1>1 DEF storeVars, StoreTypeOK
  <1>2. CASE \E r \in mail : r.uid = uid
    <2>1. outbox' \subseteq Records
      BY <1>2, PublishTyped DEF DeleteMail
    <2> QED BY <1>2, <2>1 DEF DeleteMail, StoreTypeOK
  <1> QED BY <1>1, <1>2 DEF DeleteMail

\* Every record a peer may send keeps the store in its type.
LEMMA PeerTyped ==
  ASSUME StoreTypeOK, PeerRecord
  PROVE  StoreTypeOK'
  <1> USE PeerAssumption
  <1>1. ASSUME NEW b \in PeerBulletins, AcceptBulletin(b) PROVE StoreTypeOK'
    <2>1. b.board \in Boards /\ b.by \in Nodes /\ b.uid \in Uids
      BY DEF PeerAssumption, Uids
    <2>2. bulletins' \subseteq BulletinRows /\ rowid' \in [Tables -> Nat]
      BY <1>1, <2>1, InsertBulletinTyped DEF AcceptBulletin
    <2>3. outbox' \subseteq Records
      BY <1>1, <2>1, PublishTyped DEF AcceptBulletin
    <2> QED BY <1>1, <2>2, <2>3 DEF AcceptBulletin, StoreTypeOK
  <1>2. ASSUME NEW p \in PeerMail, AcceptMail(p) PROVE StoreTypeOK'
    <2>1. p.sender \in Nodes /\ p.to \in Nodes /\ p.uid \in Uids
      BY DEF PeerAssumption, Uids
    <2>2. mail' \subseteq MailRows /\ rowid' \in [Tables -> Nat]
      BY <1>2, <2>1, InsertMailTyped DEF AcceptMail
    <2>3. outbox' \subseteq Records
      BY <1>2, <2>1, PublishTyped DEF AcceptMail
    <2> QED BY <1>2, <2>2, <2>3 DEF AcceptMail, StoreTypeOK
  <1>3. ASSUME NEW c \in PeerChannels, AcceptChannel(c) PROVE StoreTypeOK'
    <2>1. c.uid \in Uids
      BY DEF PeerAssumption, Uids
    <2>2. channels' \subseteq ChannelRows /\ rowid' \in [Tables -> Nat]
      BY <1>3, <2>1, InsertChannelTyped DEF AcceptChannel
    <2>3. outbox' \subseteq Records
      BY <1>3, <2>1, PublishTyped DEF AcceptChannel
    <2> QED BY <1>3, <2>2, <2>3 DEF AcceptChannel, StoreTypeOK
  <1>4. ASSUME NEW r \in mail, AcceptMailDeleted(r.uid) PROVE StoreTypeOK'
    <2>1. r.uid \in Uids BY DEF StoreTypeOK, MailRows
    <2>2. outbox' \subseteq Records
      BY <1>4, <2>1, PublishTyped DEF AcceptMailDeleted
    <2> QED BY <1>4, <2>2 DEF AcceptMailDeleted, StoreTypeOK
  <1>5. ASSUME NEW b \in bulletins, AcceptBulletinDeleted(b.uid) PROVE StoreTypeOK'
    BY <1>5 DEF AcceptBulletinDeleted, StoreTypeOK
  <1> QED BY <1>1, <1>2, <1>3, <1>4, <1>5 DEF PeerRecord

----------------------------------------------------------------------------
(* The states, and the flows that move between them *)

\* The parts of TypeOK that a step of a flow has to keep.
StatesTyped == states \in [Nodes -> SessionStates]
OpenedTyped == opened \in [Nodes -> MailRows \cup {NoRow}]
Handled == StoreTypeOK' /\ StatesTyped' /\ OpenedTyped'

\* A step that leaves the tables alone keeps them in their types.
LEMMA Untouched == ASSUME TypeOK, UNCHANGED storeVars PROVE StoreTypeOK'
  BY DEF TypeOK, StoreTypeOK, storeVars

\* A step that shows no mail keeps what was shown in its type.
LEMMA NothingShownTyped == ASSUME TypeOK, UNCHANGED opened PROVE OpenedTyped'
  BY DEF TypeOK, SessionTypeOK, OpenedTyped

\* Moving a node to a state keeps the states in their type.
LEMMA StayTyped ==
  ASSUME TypeOK, NEW n \in Nodes, NEW s \in SessionStates, Stay(n, s)
  PROVE  StatesTyped'
  BY DEF TypeOK, SessionTypeOK, StatesTyped, Stay

\* A step that moves nobody keeps the states in their type.
LEMMA KeepTyped == ASSUME TypeOK, UNCHANGED states PROVE StatesTyped'
  BY DEF TypeOK, SessionTypeOK, StatesTyped

\* The states without data are states.
LEMMA MenusAreStates ==
  /\ MainMenu \in SessionStates
  /\ \A c \in {"MAIN_MENU", "STATS", "JS8CALL_MENU", "GROUP_MESSAGES", "BULLETIN_MENU"} :
        [command |-> c] \in SessionStates
  /\ \A w \in {"bbs", "utilities"} : [command |-> "MENU", menu |-> w] \in SessionStates
  /\ \A i \in 1..4 : [command |-> "CHANNEL_DIRECTORY", step |-> i] \in SessionStates
  /\ \A i \in {1, 2, 3, 8} : [command |-> "MAIL", step |-> i] \in SessionStates
  BY DEF SessionStates, MailStates, BulletinStates, MenuStates, DirectoryStates, MainMenu

\* Ending a conversation keeps the states in their type.
LEMMA EndTyped == ASSUME TypeOK, NEW n \in Nodes, End(n) PROVE StatesTyped'
  BY StayTyped, MenusAreStates DEF End

\* A listing is a set of numbers.
LEMMA IdsTyped ==
  ASSUME StoreTypeOK
  PROVE  /\ \A rows \in SUBSET bulletins : Ids(rows) \in SUBSET Nat
         /\ \A rows \in SUBSET mail : Ids(rows) \in SUBSET Nat
         /\ \A rows \in SUBSET channels : Ids(rows) \in SUBSET Nat
  BY DEF StoreTypeOK, BulletinRows, MailRows, ChannelRows, Ids

\* The states that keep a listing are states.
LEMMA ListingsAreStates ==
  ASSUME NEW ids \in SUBSET Nat
  PROVE  /\ [command |-> "CHECK_MAIL", step |-> 1, mail |-> ids] \in SessionStates
         /\ [command |-> "CHECK_BULLETIN", bulletins |-> ids] \in SessionStates
         /\ [command |-> "LIST_CHANNELS", channels |-> ids] \in SessionStates
  BY DEF SessionStates, MailStates, BulletinStates, MenuStates, DirectoryStates

\* Opening a mail keeps the states and what was shown in their types.
LEMMA ShowTyped ==
  ASSUME TypeOK, NEW n \in Nodes, NEW r \in mail,
         NEW command, NEW step, Show(n, r, command, step),
         <<command, step>> \in {<<"MAIL", 4>>, <<"CHECK_MAIL", 2>>}
  PROVE  StatesTyped' /\ OpenedTyped'
  <1>1. r \in MailRows /\ r.id \in Nat /\ r.uid \in Uids
    BY DEF TypeOK, StoreTypeOK, MailRows
  <1>2. [command |-> command, step |-> step, mail_id |-> r.id, unique_id |-> r.uid] \in SessionStates
    BY <1>1 DEF SessionStates, MailStates
  <1>3. StatesTyped' BY <1>2, StayTyped DEF Show
  <1>4. OpenedTyped' BY <1>1 DEF Show, OpenedTyped, TypeOK, SessionTypeOK
  <1> QED BY <1>3, <1>4

\* The listing that follows a disposal is a state.
LEMMA FinishDispositionTyped ==
  ASSUME TypeOK, StoreTypeOK', NEW n \in Nodes, FinishDisposition(n)
  PROVE  StatesTyped'
  <1> DEFINE left == Ids({r \in mail' : Known(n) /\ r.to = n})
  <1>1. left \in SUBSET Nat BY DEF StoreTypeOK, MailRows, Ids
  <1>2. CASE left = {} BY <1>2, EndTyped DEF FinishDisposition
  <1>3. CASE left # {}
    <2>1. Stay(n, [command |-> "CHECK_MAIL", step |-> 1, mail |-> left])
      BY <1>3 DEF FinishDisposition
    <2> QED BY <1>1, <2>1, StayTyped, ListingsAreStates
  <1> QED BY <1>2, <1>3

\* Keeping, deleting or replying to a mail keeps every type.
LEMMA DisposeTyped ==
  ASSUME TypeOK, NEW n \in Nodes, NEW m, Dispose(n, m),
         AtStep(n, "MAIL", 4) \/ AtStep(n, "CHECK_MAIL", 2)
  PROVE  Handled
  <1>1. states[n] \in SessionStates BY DEF TypeOK, SessionTypeOK
  <1>2. states[n].mail_id \in Nat /\ states[n].unique_id \in Uids
    BY <1>1, StateFields DEF AtStep, At
  <1>3. OpenedTyped' BY NothingShownTyped DEF Dispose, NothingShown
  <1>4. CASE m = "d"
    <2>1. StoreTypeOK' BY <1>2, <1>4, DeleteMailTyped DEF Dispose, TypeOK
    <2>2. StatesTyped'
      BY <1>4, <2>1, FinishDispositionTyped, KeepTyped DEF Dispose, FanOutRaises, Raise
    <2> QED BY <1>3, <2>1, <2>2 DEF Handled
  <1>5. CASE m = "r"
    <2> DEFINE draft == [command |-> "MAIL", step |-> 7,
                         reply_to_mail_id |-> states[n].mail_id, content |-> "empty"]
    <2>1. draft \in SessionStates BY <1>2, DraftsAreStates DEF ReplyDrafts, Contents
    <2>2. Stay(n, draft) BY <1>5 DEF Dispose
    <2>3. StatesTyped' BY <2>1, <2>2, StayTyped
    <2>4. StoreTypeOK' BY <1>5, Untouched DEF Dispose, NothingStored
    <2> QED BY <1>3, <2>3, <2>4 DEF Handled
  <1>6. CASE m \notin {"d", "r"}
    <2>1. UNCHANGED storeVars /\ FinishDisposition(n)
      BY <1>6 DEF Dispose, NothingStored
    <2>2. StoreTypeOK' BY <2>1, Untouched
    <2> QED BY <1>3, <2>1, <2>2, FinishDispositionTyped DEF Handled
  <1> QED BY <1>4, <1>5, <1>6

\* The recipient of a draft, if there is one, is a node.
LEMMA RecipientsTyped ==
  ASSUME TypeOK, NEW n \in Nodes, AtStep(n, "MAIL", 7)
  PROVE  Recipients(n) \subseteq Nodes
  <1>1. states[n] \in NewMailDrafts \/ states[n] \in ReplyDrafts
    BY DraftKinds DEF AtStep, At, TypeOK, SessionTypeOK
  <1>2. CASE states[n] \in NewMailDrafts
    BY <1>2 DEF Recipients, IsReply, NewMailDrafts
  <1>3. CASE states[n] \in ReplyDrafts
    BY <1>3, ReplyHasOriginal DEF Recipients, IsReply, TypeOK, StoreTypeOK, MailRows
  <1> QED BY <1>1, <1>2, <1>3

\* Storing the mail of a draft keeps the store in its type.
LEMMA StoreMailTyped ==
  ASSUME TypeOK, NEW n \in Nodes, AtStep(n, "MAIL", 7), StoreMail(n)
  PROVE  StoreTypeOK'
  <1>1. Recipients(n) \subseteq Nodes BY RecipientsTyped
  <1>2. PICK k \in Recipients(n) : AddMail(n, k) BY DEF StoreMail
  <1> QED BY <1>1, <1>2, AddMailTyped DEF TypeOK

\* Finishing a mail keeps every type.
LEMMA FinishMailTyped ==
  ASSUME TypeOK, NEW n \in Nodes, AtStep(n, "MAIL", 7), FinishMail(n)
  PROVE  StoreTypeOK' /\ StatesTyped'
  <1>1. CASE StoreMail(n) /\ Stay(n, [command |-> "MAIL", step |-> 8])
    BY <1>1, StoreMailTyped, StayTyped, MenusAreStates
  <1>2. CASE NothingStored /\ End(n)
    BY <1>2, EndTyped, Untouched DEF NothingStored
  <1> QED BY <1>1, <1>2 DEF FinishMail

\* Every handler of flows/mail.py keeps every type.
LEMMA MailTyped ==
  ASSUME TypeOK, NEW n \in Nodes, NEW m, MailStep(n, m)
  PROVE  Handled
  <1> USE DEF Handled
  <1>0. states[n] \in SessionStates BY DEF TypeOK, SessionTypeOK
  <1>1. CASE MailMenu(n, m)
    <2>1. StatesTyped'
      <3>1. \/ End(n) \/ UNCHANGED states
            \/ Stay(n, [command |-> "MAIL", step |-> 2])
            \/ Stay(n, [command |-> "MAIL", step |-> 3])
        BY <1>1 DEF MailMenu, Keep
      <3> QED BY <3>1, EndTyped, KeepTyped, StayTyped, MenusAreStates
    <2> QED BY <1>1, <2>1, Untouched, NothingShownTyped DEF MailMenu, NothingStored, NothingShown
  <1>2. CASE MailOpen(n, m)
    <2>1. StoreTypeOK' BY <1>2, Untouched DEF MailOpen, NothingStored
    <2>2. CASE (Raise(n) \/ End(n)) /\ NothingShown
      BY <2>1, <2>2, EndTyped, KeepTyped, NothingShownTyped DEF Raise, NothingShown
    <2>3. CASE \E r \in MailShown(n, Numeral[m]) : Show(n, r, "MAIL", 4)
      <3>1. PICK r \in mail : Show(n, r, "MAIL", 4)
        BY <2>3 DEF MailShown, MailContent
      <3> QED BY <2>1, <3>1, ShowTyped
    <2> QED BY <1>2, <2>2, <2>3 DEF MailOpen
  <1>3. CASE MailRecipient(n, m)
    <2>1. StatesTyped'
      <3>1. \/ UNCHANGED states
            \/ Stay(n, [command |-> "MAIL", step |-> 1])
            \/ \E k \in Answering(m) : Stay(n, [command |-> "MAIL", step |-> 5, recipient_id |-> k])
            \/ Stay(n, [command |-> "MAIL", step |-> 6, nodes |-> Answering(m)])
        BY <1>3, Zenon DEF MailRecipient, Raise
      <3>2. Answering(m) \subseteq Nodes BY DEF Answering
      <3>3. \A k \in Answering(m) : [command |-> "MAIL", step |-> 5, recipient_id |-> k] \in SessionStates
        BY <3>2 DEF SessionStates, MailStates
      <3>4. [command |-> "MAIL", step |-> 6, nodes |-> Answering(m)] \in SessionStates
        BY <3>2 DEF SessionStates, MailStates
      <3> QED BY <3>1, <3>3, <3>4, KeepTyped, StayTyped, MenusAreStates
    <2> QED BY <1>3, <2>1, Untouched, NothingShownTyped DEF MailRecipient, NothingStored, NothingShown
  <1>4. CASE MailDisposition(n, m)
    BY <1>4, DisposeTyped DEF MailDisposition
  <1>5. CASE MailSubject(n, m)
    <2> DEFINE draft == [command |-> "MAIL", step |-> 7,
                         recipient_id |-> states[n].recipient_id, content |-> "empty"]
    <2>1. states[n].recipient_id \in Nodes
      BY <1>0, <1>5, StateFields DEF MailSubject, AtStep, At
    <2>2. draft \in SessionStates BY <2>1, DraftsAreStates DEF NewMailDrafts, Contents
    <2>3. Stay(n, draft) BY <1>5 DEF MailSubject
    <2>4. StatesTyped' BY <2>2, <2>3, StayTyped
    <2> QED BY <1>5, <2>4, Untouched, NothingShownTyped DEF MailSubject, NothingStored, NothingShown
  <1>6. CASE MailPickNode(n, m)
    <2>1. StatesTyped'
      <3>1. states[n].nodes \in SUBSET Nodes
        BY <1>0, <1>6, StateFields DEF MailPickNode, AtStep, At
      <3>2. \/ UNCHANGED states
            \/ \E k \in Nodes : Stay(n, [command |-> "MAIL", step |-> 5, recipient_id |-> k])
        BY <1>6, <3>1 DEF MailPickNode, Raise
      <3>3. \A k \in Nodes : [command |-> "MAIL", step |-> 5, recipient_id |-> k] \in SessionStates
        BY DEF SessionStates, MailStates
      <3> QED BY <3>2, <3>3, KeepTyped, StayTyped
    <2> QED BY <1>6, <2>1, Untouched, NothingShownTyped DEF MailPickNode, NothingStored, NothingShown
  <1>7. CASE MailCompose(n, m)
    <2>0. OpenedTyped' BY <1>7, NothingShownTyped DEF MailCompose, NothingShown
    <2>1. CASE Stay(n, [states[n] EXCEPT !.content = "text"]) /\ NothingStored
      <3>1. states[n] \in NewMailDrafts \/ states[n] \in ReplyDrafts
        BY <1>0, <1>7, DraftKinds DEF MailCompose, AtStep, At
      <3>2. [states[n] EXCEPT !.content = "text"] \in SessionStates
        BY <3>1, DraftText, DraftsAreStates
      <3> QED BY <2>0, <2>1, <3>2, StayTyped, Untouched DEF NothingStored
    <2>2. CASE Raise(n) /\ NothingStored
      BY <2>0, <2>2, KeepTyped, Untouched DEF Raise, NothingStored
    <2>3. CASE FinishMail(n)
      BY <1>7, <2>0, <2>3, FinishMailTyped DEF MailCompose
    <2>4. CASE StoreMail(n) /\ FanOutRaises(n)
      BY <1>7, <2>0, <2>4, StoreMailTyped, KeepTyped DEF MailCompose, FanOutRaises, Raise
    <2> QED BY <1>7, <2>1, <2>2, <2>3, <2>4 DEF MailCompose
  <1>8. CASE MailAgain(n, m)
    <2>1. StatesTyped'
      BY <1>8, EndTyped, StayTyped, MenusAreStates DEF MailAgain
    <2> QED BY <1>8, <2>1, Untouched, NothingShownTyped DEF MailAgain, NothingStored, NothingShown
  <1>9. CASE CheckRead(n, m)
    <2>1. StoreTypeOK' BY <1>9, Untouched DEF CheckRead, NothingStored
    <2>2. CASE Raise(n) /\ NothingShown
      BY <2>1, <2>2, KeepTyped, NothingShownTyped DEF Raise, NothingShown
    <2>3. CASE \E r \in mail : Show(n, r, "CHECK_MAIL", 2)
      BY <2>1, <2>3, ShowTyped
    <2> QED BY <1>9, <2>2, <2>3 DEF CheckRead, MailShown, MailContent
  <1>10. CASE MailConfirm(n, m)
    BY <1>10, DisposeTyped DEF MailConfirm
  <1> QED BY <1>1, <1>2, <1>3, <1>4, <1>5, <1>6, <1>7, <1>8, <1>9, <1>10 DEF MailStep

\* Storing the bulletin of a draft keeps the store in its type.
LEMMA StoreBulletinTyped ==
  ASSUME TypeOK, NEW n \in Nodes, At(n, "BULLETIN_POST_CONTENT"), StoreBulletin(n)
  PROVE  StoreTypeOK'
  <1>1. states[n].board \in Boards BY StateFields DEF TypeOK, SessionTypeOK, At
  <1> QED BY <1>1, AddBulletinTyped DEF StoreBulletin, TypeOK

\* Finishing a bulletin keeps every type.
LEMMA FinishBulletinTyped ==
  ASSUME TypeOK, NEW n \in Nodes, At(n, "BULLETIN_POST_CONTENT"), FinishBulletin(n)
  PROVE  StoreTypeOK' /\ StatesTyped'
  <1>1. CASE StoreBulletin(n) /\ Stay(n, [command |-> "BULLETIN_MENU"])
    BY <1>1, StoreBulletinTyped, StayTyped, MenusAreStates
  <1>2. CASE UNCHANGED storeVars /\ End(n)
    BY <1>2, EndTyped, Untouched
  <1> QED BY <1>1, <1>2 DEF FinishBulletin

\* The states that carry a board are states.
LEMMA BoardStates ==
  ASSUME NEW board \in Boards
  PROVE  /\ BoardMenu(board) \in SessionStates
         /\ BulletinList(board) \in SessionStates
         /\ [command |-> "BULLETIN_POST", board |-> board] \in SessionStates
         /\ [command |-> "BULLETIN_POST_CONTENT", board |-> board, content |-> "empty"] \in SessionStates
  <1>1. \A c \in {"BULLETIN_ACTION", "BULLETIN_READ", "BULLETIN_POST"} :
           [command |-> c, board |-> board] \in SessionStates
    BY DEF SessionStates, BulletinStates
  <1>2. [command |-> "BULLETIN_POST_CONTENT", board |-> board, content |-> "empty"] \in PostDrafts
    BY DEF PostDrafts, Contents
  <1> QED BY <1>1, <1>2, DraftsAreStates DEF BoardMenu, BulletinList

\* Every handler of flows/bulletin.py keeps every type.
LEMMA BulletinTyped ==
  ASSUME TypeOK, NEW n \in Nodes, NEW m, BulletinStep(n, m)
  PROVE  Handled
  <1> USE DEF Handled
  <1>0. states[n] \in SessionStates BY DEF TypeOK, SessionTypeOK
  <1>a. ASSUME StoreUntouched PROVE StoreTypeOK' /\ OpenedTyped'
    BY <1>a, Untouched, NothingShownTyped DEF StoreUntouched
  <1>1. CASE ReadNumberedBulletin(n, m)
    BY <1>1, <1>a, EndTyped, KeepTyped DEF ReadNumberedBulletin, Raise
  <1>2. CASE SelectBoard(n, m)
    <2>1. CASE m \in DOMAIN LetterToBoard
      <3>1. LetterToBoard[m] \in Boards BY <2>1, BoardAssumption DEF BoardAssumption
      <3> QED BY <1>2, <1>a, <2>1, <3>1, BoardStates, StayTyped DEF SelectBoard
    <2>2. CASE m \notin DOMAIN LetterToBoard
      BY <1>2, <1>a, <2>2, StayTyped, MenusAreStates DEF SelectBoard, Goto
    <2> QED BY <2>1, <2>2
  <1>3. CASE ReadOrPost(n, m)
    <2> DEFINE board == states[n].board
    <2>1. board \in Boards BY <1>0, <1>3, StateFields DEF ReadOrPost, At
    <2>2. \/ Stay(n, BulletinList(board))
          \/ Stay(n, [command |-> "BULLETIN_POST", board |-> board])
          \/ Stay(n, BoardMenu(board))
      BY <1>3, Zenon DEF ReadOrPost
    <2>3. StatesTyped' BY <2>1, <2>2, BoardStates, StayTyped
    <2> QED BY <1>3, <1>a, <2>3 DEF ReadOrPost
  <1>4. CASE ReadBulletin(n, m)
    <2>1. states[n].board \in Boards BY <1>0, <1>4, StateFields DEF ReadBulletin, At
    <2>2. StatesTyped' BY <1>4, <2>1, BoardStates, StayTyped, KeepTyped DEF ReadBulletin, Raise
    <2> QED BY <1>4, <1>a, <2>2 DEF ReadBulletin
  <1>5. CASE TakeSubject(n, m)
    <2>1. states[n].board \in Boards BY <1>0, <1>5, StateFields DEF TakeSubject, At
    <2>2. StatesTyped' BY <1>5, <2>1, BoardStates, StayTyped DEF TakeSubject
    <2> QED BY <1>5, <1>a, <2>2 DEF TakeSubject
  <1>6. CASE TakeContent(n, m)
    <2>0. OpenedTyped' BY <1>6, NothingShownTyped DEF TakeContent
    <2>1. CASE m # "end"
      <3>1. [states[n] EXCEPT !.content = "text"] \in SessionStates
        BY <1>0, <1>6, PostKind, DraftText, DraftsAreStates DEF TakeContent, At
      <3>2. Stay(n, [states[n] EXCEPT !.content = "text"]) /\ UNCHANGED storeVars
        BY <1>6, <2>1 DEF TakeContent
      <3> QED BY <2>0, <3>1, <3>2, StayTyped, Untouched
    <2>2. CASE FinishBulletin(n)
      BY <1>6, <2>0, <2>2, FinishBulletinTyped DEF TakeContent
    <2>3. CASE StoreBulletin(n) /\ FanOutRaises(n)
      BY <1>6, <2>0, <2>3, StoreBulletinTyped, KeepTyped DEF TakeContent, FanOutRaises, Raise
    <2> QED BY <1>6, <2>1, <2>2, <2>3 DEF TakeContent
  <1> QED BY <1>1, <1>2, <1>3, <1>4, <1>5, <1>6 DEF BulletinStep

\* Every handler of flows/channel.py keeps every type.
LEMMA ChannelTyped ==
  ASSUME TypeOK, NEW n \in Nodes, NEW m, ChannelStep(n, m)
  PROVE  Handled
  <1> USE DEF Handled
  <1>a. ASSUME DirectoryOnly PROVE StoreTypeOK' /\ OpenedTyped'
    BY <1>a, Untouched, NothingShownTyped DEF DirectoryOnly
  <1>b. ASSUME NEW i \in 1..4, DirectoryAt(n, i) PROVE StatesTyped'
    BY <1>b, StayTyped, MenusAreStates DEF DirectoryAt
  <1>1. CASE ChannelMenu(n, m)
    <2>1. DirectoryAt(n, 1) \/ DirectoryAt(n, 2) \/ DirectoryAt(n, 3)
      BY <1>1, Zenon DEF ChannelMenu
    <2> QED BY <1>1, <1>a, <1>b, <2>1 DEF ChannelMenu
  <1>2. CASE ChannelView(n, m)
    BY <1>2, <1>a, <1>b, KeepTyped DEF ChannelView, Raise
  <1>3. CASE ChannelName(n, m)
    BY <1>3, <1>a, <1>b DEF ChannelName
  <1>4. CASE ChannelUrl(n, m)
    <2>1. StatesTyped'
      BY <1>4, <1>b, KeepTyped DEF ChannelUrl, FanOutRaises, Raise
    <2> QED BY <1>4, <2>1, AddChannelTyped, NothingShownTyped DEF ChannelUrl, TypeOK
  <1>5. CASE ReadNumberedChannel(n, m)
    BY <1>5, <1>a, EndTyped, KeepTyped DEF ReadNumberedChannel, Keep
  <1> QED BY <1>1, <1>2, <1>3, <1>4, <1>5 DEF ChannelStep

\* Showing a menu keeps the states in their type.
LEMMA GotoTyped ==
  ASSUME TypeOK, NEW n \in Nodes, NEW menu \in {"main", "bbs", "utilities"}, Goto(n, menu)
  PROVE  StatesTyped'
  <1>1. \/ Stay(n, [command |-> "MENU", menu |-> "bbs"])
        \/ Stay(n, [command |-> "MENU", menu |-> "utilities"])
        \/ Stay(n, MainMenu)
    BY Zenon DEF Goto
  <1> QED BY <1>1, StayTyped, MenusAreStates

\* Entering a topic keeps the states in their type.
LEMMA EnterTyped ==
  ASSUME TypeOK, NEW n \in Nodes,
         NEW topic \in {"MAIL", "BULLETIN_MENU", "CHANNEL_DIRECTORY", "JS8CALL_MENU", "STATS"},
         Enter(n, topic)
  PROVE  StatesTyped'
  <1>1. CASE topic \in {"MAIL", "CHANNEL_DIRECTORY"}
    <2>1. Stay(n, [command |-> topic, step |-> 1]) BY <1>1 DEF Enter
    <2> QED BY <1>1, <2>1, StayTyped, MenusAreStates
  <1>2. CASE topic \notin {"MAIL", "CHANNEL_DIRECTORY"}
    <2>1. Stay(n, [command |-> topic]) BY <1>2 DEF Enter
    <2> QED BY <1>2, <2>1, StayTyped, MenusAreStates
  <1> QED BY <1>1, <1>2

\* Every handler of the menus keeps every type.
LEMMA MenuTyped ==
  ASSUME TypeOK, NEW n \in Nodes, NEW m, MenuStep(n, m)
  PROVE  Handled
  <1>1. StoreTypeOK' /\ OpenedTyped'
    BY Untouched, NothingShownTyped
       DEF MenuStep, MainChoice, BbsChoice, UtilitiesChoice, StatsChoice, Js8Choice,
           SelectGroup, NothingWritten
  <1>2. CASE MainChoice(n, m)
    <2>1. Keep(n) \/ Goto(n, "bbs") \/ Goto(n, "utilities") \/ Goto(n, "main")
      BY <1>2, Zenon DEF MainChoice
    <2> QED BY <1>1, <2>1, KeepTyped, GotoTyped DEF Keep, Handled
  <1>3. CASE BbsChoice(n, m)
    <2>1. \/ Enter(n, "MAIL") \/ Enter(n, "BULLETIN_MENU") \/ Enter(n, "CHANNEL_DIRECTORY")
          \/ Enter(n, "JS8CALL_MENU") \/ Goto(n, "main")
      BY <1>3, Zenon DEF BbsChoice
    <2> QED BY <1>1, <2>1, EnterTyped, GotoTyped DEF Handled
  <1>4. CASE UtilitiesChoice(n, m)
    <2>1. Enter(n, "STATS") \/ Keep(n) \/ Goto(n, "main")
      BY <1>4, Zenon DEF UtilitiesChoice
    <2> QED BY <1>1, <2>1, EnterTyped, KeepTyped, GotoTyped DEF Keep, Handled
  <1>5. CASE StatsChoice(n, m) BY <1>1, <1>5, KeepTyped DEF StatsChoice, Keep, Handled
  <1>6. CASE Js8Choice(n, m)
    BY <1>1, <1>6, KeepTyped, StayTyped, MenusAreStates DEF Js8Choice, Keep, Handled
  <1>7. CASE SelectGroup(n, m)
    BY <1>1, <1>7, StayTyped, MenusAreStates DEF SelectGroup, Handled
  <1> QED BY <1>2, <1>3, <1>4, <1>5, <1>6, <1>7 DEF MenuStep

\* Every quick command keeps every type.
LEMMA QuickCommandTyped ==
  ASSUME TypeOK, NEW n \in Nodes, QuickCommand(n)
  PROVE  Handled
  <1> USE DEF Handled
  <1>0. \A rows \in SUBSET mail : Ids(rows) \in SUBSET Nat
    BY IdsTyped DEF TypeOK
  <1>1. ASSUME NEW name \in Names, QuickSendMail(n, name) PROVE Handled
    <2>1. StatesTyped' /\ OpenedTyped'
      BY <1>1, KeepTyped, NothingShownTyped DEF QuickSendMail, Keep, NothingShown
    <2>2. CASE UNCHANGED storeVars BY <2>1, <2>2, Untouched
    <2>3. CASE Named(n) /\ \E k \in Answering(name) : AddMail(n, k)
      <3>1. PICK k \in Nodes : AddMail(n, k) BY <2>3 DEF Answering
      <3> QED BY <2>1, <3>1, AddMailTyped DEF TypeOK
    <2> QED BY <1>1, <2>2, <2>3 DEF QuickSendMail, NothingStored
  <1>2. CASE QuickCheckMail(n)
    <2>1. StoreTypeOK' /\ OpenedTyped'
      BY <1>2, Untouched, NothingShownTyped DEF QuickCheckMail, NothingStored, NothingShown
    <2>2. CASE UNCHANGED states BY <2>1, <2>2, KeepTyped
    <2>3. CASE Stay(n, [command |-> "CHECK_MAIL", step |-> 1, mail |-> Ids(MailboxOf(n))])
      <3>1. Ids(MailboxOf(n)) \in SUBSET Nat BY <1>0 DEF MailboxOf
      <3> QED BY <2>1, <2>3, <3>1, StayTyped, ListingsAreStates
    <2> QED BY <1>2, <2>2, <2>3 DEF QuickCheckMail, Keep
  <1>3. ASSUME NEW board \in Boards, QuickPostBulletin(n, board) PROVE Handled
    BY <1>3, KeepTyped, NothingShownTyped, AddBulletinTyped, Untouched DEF QuickPostBulletin, Keep, TypeOK
  <1>4. ASSUME NEW board \in Boards, QuickCheckBulletins(n, board) PROVE Handled
    <2>1. StoreTypeOK' /\ OpenedTyped'
      BY <1>4, Untouched, NothingShownTyped DEF QuickCheckBulletins, StoreUntouched
    <2>2. Ids(BulletinsOn(board)) \in SUBSET Nat BY IdsTyped DEF TypeOK, BulletinsOn
    <2>3. StatesTyped'
      BY <1>4, <2>2, KeepTyped, StayTyped, ListingsAreStates DEF QuickCheckBulletins, Keep
    <2> QED BY <2>1, <2>3
  <1>5. CASE QuickPostChannel(n)
    BY <1>5, AddChannelTyped, KeepTyped, NothingShownTyped DEF QuickPostChannel, Keep, TypeOK
  <1>6. CASE QuickListChannels(n)
    <2>1. StoreTypeOK' /\ OpenedTyped'
      BY <1>6, Untouched, NothingShownTyped DEF QuickListChannels, DirectoryOnly
    <2>2. Ids(channels) \in SUBSET Nat BY IdsTyped DEF TypeOK
    <2>3. StatesTyped'
      BY <1>6, <2>2, KeepTyped, StayTyped, ListingsAreStates DEF QuickListChannels, Keep
    <2> QED BY <2>1, <2>3
  <1> QED BY <1>1, <1>2, <1>3, <1>4, <1>5, <1>6 DEF QuickCommand

----------------------------------------------------------------------------
(* The system *)

\* Session.advance keeps every type.
LEMMA AdvanceTyped ==
  ASSUME TypeOK, NEW n \in Nodes, Advance(n)
  PROVE  TypeOK'
  <1>1. Handled
    <2>1. CASE QuickCommand(n) BY <2>1, QuickCommandTyped
    <2>2. CASE Exit(n)
      BY <2>2, GotoTyped, Untouched, NothingShownTyped DEF Exit, Handled
    <2>3. ASSUME NEW m \in Says[n], TopicStep(n, m) PROVE Handled
      BY <2>3, MailTyped, BulletinTyped, ChannelTyped, MenuTyped DEF TopicStep
    <2> QED BY <2>1, <2>2, <2>3 DEF Advance
  <1>2. activity' \in [Nodes -> {"none", "recent", "quiet"}]
    BY DEF Advance, Hear, TypeOK, SessionTypeOK
  <1> QED BY <1>1, <1>2 DEF Advance, Handled, StatesTyped, OpenedTyped, TypeOK, SessionTypeOK

\* A node's turn in check_timeouts keeps every type.
LEMMA SweepTyped ==
  ASSUME TypeOK, NEW n \in Nodes, Sweep(n)
  PROVE  TypeOK'
  <1>1. CASE DiscardEmpty(n)
    <2>1. StoreTypeOK' /\ StatesTyped' BY <1>1, EndTyped, Untouched DEF DiscardEmpty
    <2> QED BY <1>1, <2>1 DEF DiscardEmpty, Forget, StatesTyped, TypeOK, SessionTypeOK
  <1>2. CASE FinishDraft(n)
    <2>1. StoreTypeOK' /\ StatesTyped'
      <3>1. CASE At(n, "MAIL")
        <4>1. AtStep(n, "MAIL", 7) /\ FinishMail(n)
          BY <1>2, <3>1 DEF FinishDraft, TimedOut, Composing, AtStep, At
        <4> QED BY <4>1, FinishMailTyped
      <3>2. CASE ~At(n, "MAIL")
        <4>1. At(n, "BULLETIN_POST_CONTENT") /\ FinishBulletin(n)
          BY <1>2, <3>2 DEF FinishDraft, TimedOut, Composing, AtStep
        <4> QED BY <4>1, FinishBulletinTyped
      <3> QED BY <3>1, <3>2
    <2> QED BY <1>2, <2>1 DEF FinishDraft, Forget, StatesTyped, TypeOK, SessionTypeOK
  <1>3. CASE SweepRaises(n)
    <2>1. ASSUME StoreMail(n), At(n, "MAIL") PROVE StoreTypeOK'
      <3>1. AtStep(n, "MAIL", 7) BY <1>3, <2>1 DEF SweepRaises, TimedOut, Composing, AtStep, At
      <3> QED BY <2>1, <3>1, StoreMailTyped
    <2>2. ASSUME StoreBulletin(n), ~At(n, "MAIL") PROVE StoreTypeOK'
      <3>1. At(n, "BULLETIN_POST_CONTENT") BY <1>3, <2>2 DEF SweepRaises, TimedOut, Composing, AtStep
      <3> QED BY <2>2, <3>1, StoreBulletinTyped
    <2>3. StoreTypeOK' BY <1>3, <2>1, <2>2, Untouched DEF SweepRaises
    <2> QED BY <1>3, <2>3, MenusAreStates DEF SweepRaises, TypeOK, SessionTypeOK
  <1> QED BY <1>1, <1>2, <1>3 DEF Sweep

\* The types hold of an empty database and of no conversation.
LEMMA InitTyped == Init => TypeOK
  <1> SUFFICES ASSUME Init PROVE TypeOK OBVIOUS
  <1>1. StoreTypeOK BY DEF Init, StoreInit, StoreTypeOK, Tables
  <1>2. SessionTypeOK BY MenusAreStates DEF Init, SessionInit, SessionTypeOK
  <1> QED BY <1>1, <1>2 DEF TypeOK

\* Every step of the system keeps every type.
LEMMA NextTyped == TypeOK /\ [Next]_vars => TypeOK'
  <1> SUFFICES ASSUME TypeOK, [Next]_vars PROVE TypeOK' OBVIOUS
  <1>1. ASSUME NEW n \in Nodes, Advance(n) PROVE TypeOK' BY <1>1, AdvanceTyped
  <1>2. ASSUME NEW n \in Nodes, GoQuiet(n) PROVE TypeOK'
    BY <1>2, Untouched DEF GoQuiet, TypeOK, SessionTypeOK
  <1>3. ASSUME NEW n \in Nodes, Sweep(n) PROVE TypeOK' BY <1>3, SweepTyped
  <1>4. CASE Restart BY <1>4, Untouched DEF Restart, TypeOK, SessionTypeOK
  <1>5. CASE PeerRecord
    <2>1. StoreTypeOK' BY <1>5, PeerTyped DEF TypeOK
    <2> QED BY <1>5, <2>1 DEF PeerRecord, sessionVars, TypeOK, SessionTypeOK
  <1>6. CASE AdminDeletes
    <2>1. StoreTypeOK'
      BY <1>6 DEF AdminDeletes, AdminDeletesMail, AdminDeletesBulletin, AdminDeletesChannel,
                  TypeOK, StoreTypeOK
    <2> QED BY <1>6, <2>1 DEF AdminDeletes, sessionVars, TypeOK, SessionTypeOK
  <1>7. CASE Js8Heard
    BY <1>7, Untouched DEF Js8Heard, sessionVars, TypeOK, SessionTypeOK
  <1>8. ASSUME NEW n \in Flaky, RosterChanges(n) PROVE TypeOK'
    BY <1>8, Untouched, PeerAssumption DEF RosterChanges, sessionVars, TypeOK, SessionTypeOK, PeerAssumption
  <1>9. CASE UNCHANGED vars
    BY <1>9, Untouched DEF vars, TypeOK, SessionTypeOK
  <1> QED BY <1>1, <1>2, <1>3, <1>4, <1>5, <1>6, <1>7, <1>8, <1>9 DEF Next

\* Every variable stays in its type, whatever the nodes, boards and peers are:
\* in particular every state a handler reads has the fields it reads.
THEOREM TypeCorrect == Spec => []TypeOK
  BY InitTyped, NextTyped, PTL DEF Spec
============================================================================
