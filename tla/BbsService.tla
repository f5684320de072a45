----------------------------- MODULE BbsService -----------------------------
(***************************************************************************)
(* What the server promises to those who use it, without menus, messages,  *)
(* listings, row ids, rosters, timeouts or threads.  A node sits at a desk *)
(* where it reads one of its own mails or writes one thing; from there it  *)
(* may delete what it reads, answer its author, or post where it may.      *)
(* Peers add and remove records, and are told of what is done here.        *)
(***************************************************************************)
EXTENDS Naturals

CONSTANTS Nodes, Boards,
          Allowed,       \* who may post to Urgent; {} is anyone
          PeerMail, PeerBulletins, PeerChannels

VARIABLES mail,          \* [sender, to, uid]
          bulletins,     \* [board, by, uid]
          channels,      \* their identities
          minted,        \* unique_ids made here
          told,          \* what is for the peers, [kind, uid]
          desk           \* what each node is at

vars == <<mail, bulletins, channels, minted, told, desk>>
tables == <<mail, bulletins, channels, minted, told>>

Free           == [at |-> "free"]
Reading(m)     == [at |-> "reading", mail |-> m]
Writing(to)    == [at |-> "writing", to |-> to]
Posting(board) == [at |-> "posting", board |-> board]

Init == /\ mail = {} /\ bulletins = {} /\ channels = {}
        /\ minted = 0 /\ told = {}
        /\ desk = [n \in Nodes |-> Free]

NewUid == <<"here", minted + 1>>
Mint == minted' = minted + 1
Tell(kind, uid) == told' = told \cup {[kind |-> kind, uid |-> uid]}

MayPost(n, board) == board = "Urgent" /\ Allowed # {} => n \in Allowed

----------------------------------------------------------------------------
(* Nodes *)

Sit(n, d) == desk' = [desk EXCEPT ![n] = d]
Close == desk' = [n \in Nodes |-> Free]

\* A node opens one of its own mails, wherever it comes from.
Open(n) == /\ \E m \in mail : m.to = n /\ Sit(n, Reading(m))
           /\ UNCHANGED tables

\* From reading a mail to writing to its author.
Answer(n) == /\ desk[n].at = "reading" /\ Sit(n, Writing(desk[n].mail.sender))
             /\ UNCHANGED tables

Write(n) == /\ desk[n] = Free
            /\ \E to \in Nodes : Sit(n, Writing(to))
            /\ UNCHANGED tables

\* Who begins a post may make it.
BeginPost(n) == /\ desk[n] = Free
                /\ \E board \in Boards : MayPost(n, board) /\ Sit(n, Posting(board))
                /\ UNCHANGED tables

Leave(n) == Sit(n, Free) /\ UNCHANGED tables

AddMail(n, to) == /\ mail' = mail \cup {[sender |-> n, to |-> to, uid |-> NewUid]}
                  /\ Mint /\ Tell("MAIL", NewUid)
                  /\ UNCHANGED <<bulletins, channels>>

\* The peers are told last.  Should that fail, all is done but the node sits on.
Done(n) == Sit(n, Free) \/ UNCHANGED desk

\* The mail goes to whom it was begun for, though the server may end with it.
Send(n) == /\ desk[n].at = "writing" /\ AddMail(n, desk[n].to)
           /\ Done(n) \/ Close
SendAtOnce(n) == \E to \in Nodes : AddMail(n, to) /\ UNCHANGED desk

AddBulletin(n, board) ==
    /\ bulletins' = bulletins \cup {[board |-> board, by |-> n, uid |-> NewUid]}
    /\ Mint /\ Tell("BULLETIN", NewUid)
    /\ UNCHANGED <<mail, channels>>

Post(n) == /\ desk[n].at = "posting" /\ AddBulletin(n, desk[n].board)
           /\ Done(n) \/ Close
PostAtOnce(n) == \E board \in Boards : MayPost(n, board) /\ AddBulletin(n, board) /\ UNCHANGED desk

AddChannel == /\ channels' = channels \cup {NewUid}
              /\ Mint /\ Tell("CHANNEL", NewUid)
              /\ UNCHANGED <<mail, bulletins, desk>>

\* A node deletes the mail it reads, and no other.
Delete(n) == /\ desk[n].at = "reading"
             /\ mail' = {m \in mail : m.uid # desk[n].mail.uid}
             /\ Tell("DELETE_MAIL", desk[n].mail.uid)
             /\ Done(n)
             /\ UNCHANGED <<bulletins, channels, minted>>

----------------------------------------------------------------------------
(* Peers, the admin, and the end of the server *)

\* What comes from a peer is told to no peer.
FromPeer == \/ /\ \E m \in PeerMail : mail' = mail \cup {m}
               /\ UNCHANGED <<bulletins, channels, minted, told, desk>>
            \/ /\ \E b \in PeerBulletins : bulletins' = bulletins \cup {b}
               /\ UNCHANGED <<mail, channels, minted, told, desk>>
            \/ /\ \E c \in PeerChannels : channels' = channels \cup {c.uid}
               /\ UNCHANGED <<mail, bulletins, minted, told, desk>>

Removed == \/ /\ \E r \in mail : mail' = {m \in mail : m.uid # r.uid}
              /\ UNCHANGED <<bulletins, channels>>
           \/ /\ \E r \in bulletins : bulletins' = {b \in bulletins : b.uid # r.uid}
              /\ UNCHANGED <<mail, channels>>
           \/ channels' \in SUBSET channels /\ UNCHANGED <<mail, bulletins>>
Remove == Removed /\ UNCHANGED <<minted, told, desk>>

Shutdown == Close /\ UNCHANGED tables

Next == \/ \E n \in Nodes : \/ Open(n) \/ Answer(n) \/ Write(n) \/ BeginPost(n) \/ Leave(n)
                            \/ Send(n) \/ SendAtOnce(n) \/ Post(n) \/ PostAtOnce(n) \/ Delete(n)
        \/ AddChannel \/ FromPeer \/ Remove \/ Shutdown

Spec == Init /\ [][Next]_vars
=============================================================================
