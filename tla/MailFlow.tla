------------------------------ MODULE MailFlow ------------------------------
(***************************************************************************)
(* flows/mail.py: one action per handler.  Every action is a reply of the  *)
(* flow to one text m of the node n; Conversation adds what Session does   *)
(* around it.  MAIL is the stepped conversation, CHECK_MAIL the one the CM *)
(* quick command seeds; a reply drafted in either is the same state.       *)
(***************************************************************************)
EXTENDS SessionState

NothingStored == UNCHANGED storeVars
NothingShown  == UNCHANGED opened

\* What every way of opening a mail does: show it, and remember which it was.
Show(n, r, command, step) ==
    /\ Stay(n, [command |-> command, step |-> step, mail_id |-> r.id, unique_id |-> r.uid])
    /\ opened' = [opened EXCEPT ![n] = r]

\* _mailbox_listing and what quick_check makes of it.
QuickCheckMail(n) ==
    /\ IF MailboxOf(n) = {} THEN Keep(n)
       ELSE Stay(n, [command |-> "CHECK_MAIL", step |-> 1, mail |-> Ids(MailboxOf(n))])
    /\ NothingStored /\ NothingShown

\* _finish_disposition: loop back into the listing as the disposal left it.
FinishDisposition(n) ==
    LET left == Ids({r \in mail' : Known(n) /\ r.to = n})
    IN  IF left = {} THEN End(n)
        ELSE Stay(n, [command |-> "CHECK_MAIL", step |-> 1, mail |-> left])

\* quick_send: SM,,{short_name},,... - the conversation does not move.
QuickSendMail(n, name) ==
    /\ Keep(n) /\ NothingShown
    /\ \/ ~LookupRaises /\ Cardinality(Answering(name)) = 1 /\ Named(n) /\ Room("mail")
          /\ \E k \in Answering(name) : AddMail(n, k)
       \/ (LookupRaises \/ Cardinality(Answering(name)) # 1 \/ ~Named(n)) /\ NothingStored

----------------------------------------------------------------------------
(* MAIL *)

MailMenu(n, m) ==
    /\ AtStep(n, "MAIL", 1)
    /\ CASE m = "r" -> IF MailboxOf(n) = {} THEN End(n)
                       ELSE Stay(n, [command |-> "MAIL", step |-> 2])
         [] m = "s" -> Stay(n, [command |-> "MAIL", step |-> 3])
         [] OTHER   -> Keep(n)
    /\ NothingStored /\ NothingShown

MailOpen(n, m) ==
    /\ AtStep(n, "MAIL", 2)
    /\ \/ /\ m \notin DOMAIN Numeral
          /\ Raise(n) /\ NothingShown
       \/ /\ m \in DOMAIN Numeral /\ MailShown(n, Numeral[m]) = {}
          /\ End(n) /\ NothingShown
       \/ /\ m \in DOMAIN Numeral
          /\ \E r \in MailShown(n, Numeral[m]) : Show(n, r, "MAIL", 4)
    /\ NothingStored

MailRecipient(n, m) ==
    /\ AtStep(n, "MAIL", 3)
    /\ LET nodes == Answering(m)
       IN  IF LookupRaises THEN Raise(n)
           ELSE CASE Cardinality(nodes) = 0 -> Stay(n, [command |-> "MAIL", step |-> 1])
                  [] Cardinality(nodes) = 1 -> \E k \in nodes :
                        Stay(n, [command |-> "MAIL", step |-> 5, recipient_id |-> k])
                  [] OTHER -> Stay(n, [command |-> "MAIL", step |-> 6, nodes |-> nodes])
    /\ NothingStored /\ NothingShown

\* Keep, delete or reply: _disposition after MAIL's read, _confirm after CHECK_MAIL's.
Dispose(n, m) ==
    /\ NothingShown
    /\ CASE m = "d" -> /\ DeleteMail(states[n].unique_id)
                       /\ FinishDisposition(n) \/ (mail' # mail /\ FanOutRaises(n))
         [] m = "r" -> /\ Stay(n, [command |-> "MAIL", step |-> 7,
                                   reply_to_mail_id |-> states[n].mail_id, content |-> "empty"])
                       /\ NothingStored
         [] OTHER   -> NothingStored /\ FinishDisposition(n)

MailDisposition(n, m) == AtStep(n, "MAIL", 4) /\ Dispose(n, m)

\* A subject step that leaves the content to be added by the first line.
MailSubjectBare(n, m) ==
    /\ AtStep(n, "MAIL", 5)
    /\ Stay(n, [command |-> "MAIL", step |-> 7, recipient_id |-> states[n].recipient_id])
    /\ NothingStored /\ NothingShown

MailSubject(n, m) ==
    /\ AtStep(n, "MAIL", 5)
    /\ Stay(n, [command |-> "MAIL", step |-> 7,
                recipient_id |-> states[n].recipient_id, content |-> "empty"])
    /\ NothingStored /\ NothingShown

\* nodes[int(message)] in the order of the roster, which is any order; a text
\* that is no index into the list raises.
MailPickNode(n, m) ==
    /\ AtStep(n, "MAIL", 6)
    /\ IF m \in DOMAIN Numeral /\ Numeral[m] < Cardinality(states[n].nodes)
       THEN \E k \in states[n].nodes :
                IF roster[k] = "unnamed" THEN Raise(n)
                ELSE Stay(n, [command |-> "MAIL", step |-> 5, recipient_id |-> k])
       ELSE Raise(n)
    /\ NothingStored /\ NothingShown

----------------------------------------------------------------------------
(* MAIL step 7: END.  The recipient of a reply is looked up only now, by the
   row id of the mail answered; mail.recipient is NOT NULL, so a reply whose
   original has gone raises, and so does a recipient without a name. *)

IsReply(n) == "reply_to_mail_id" \in DOMAIN states[n]

Recipients(n) == IF IsReply(n) THEN {r.sender : r \in {q \in mail : q.id = states[n].reply_to_mail_id}}
                 ELSE {states[n].recipient_id}

FinishRaises(n) ==
    AtStep(n, "MAIL", 7) /\ Named(n) /\ \A k \in Recipients(n) : roster[k] = "unnamed"

StoreMail(n) == Named(n) /\ \E k \in Recipients(n) : roster[k] # "unnamed" /\ AddMail(n, k)

FinishMail(n) == \/ StoreMail(n) /\ Stay(n, [command |-> "MAIL", step |-> 8])
                 \/ ~Named(n) /\ NothingStored /\ End(n)

MailCompose(n, m) ==
    /\ AtStep(n, "MAIL", 7)
    /\ NothingShown
    /\ CASE m # "end" -> Stay(n, [states[n] EXCEPT !.content = "text"]) /\ NothingStored
         [] OTHER     -> \/ FinishRaises(n) /\ Raise(n) /\ NothingStored
                         \/ Room("mail") /\ FinishMail(n)
                         \/ Room("mail") /\ StoreMail(n) /\ FanOutRaises(n)

MailAgain(n, m) ==
    /\ AtStep(n, "MAIL", 8)
    /\ IF m = "y" THEN Stay(n, [command |-> "MAIL", step |-> 1]) ELSE End(n)
    /\ NothingStored /\ NothingShown

----------------------------------------------------------------------------
(* CHECK_MAIL *)

\* The number picks from the listing as it was; a row that has gone since raises.
CheckRead(n, m) ==
    /\ AtStep(n, "CHECK_MAIL", 1)
    /\ LET picked == IF m \in DOMAIN Numeral THEN NthId(Numeral[m], states[n].mail) ELSE {}
           shown  == UNION {MailShown(n, id) : id \in picked}
       IN  \/ shown = {} /\ Raise(n) /\ NothingShown
           \/ \E r \in shown : Show(n, r, "CHECK_MAIL", 2)
    /\ NothingStored

MailConfirm(n, m) == AtStep(n, "CHECK_MAIL", 2) /\ Dispose(n, m)

MailStep(n, m) ==
    \/ MailMenu(n, m)    \/ MailOpen(n, m)     \/ MailRecipient(n, m)
    \/ MailDisposition(n, m) \/ MailSubject(n, m)  \/ MailPickNode(n, m)
    \/ MailCompose(n, m) \/ MailAgain(n, m)    \/ CheckRead(n, m)  \/ MailConfirm(n, m)
=============================================================================
