------------------------------- MODULE Store -------------------------------
(***************************************************************************)
(* What a flow stores, and what becomes of it: the three tables of         *)
(* database.py behind adapters.Store, and the decision of                  *)
(* replication.Replication whether the peer BBS nodes are told of a write. *)
(* A record is in the outbox once the sending to the peers has begun; how  *)
(* that goes peer by peer, where it breaks off, and the broadcast of an    *)
(* Urgent bulletin after it, are the subject of Sync.                      *)
(*                                                                         *)
(* A table is a set of rows with distinct ids.  Subjects, bodies, dates    *)
(* and URLs are left out; a bulletin row keeps its poster as a node where  *)
(* the code keeps that node's short name.  A unique_id is a pair: uuid4 is *)
(* modelled as a counter that never repeats, and "peer" ids are those      *)
(* minted elsewhere.  A channel has no unique_id in the code; here it has  *)
(* one as history, so that the records of one channel can be told apart.   *)
(***************************************************************************)
EXTENDS Naturals, FiniteSets

CONSTANTS Nodes,       \* mesh nodes that talk to this BBS, and their mailboxes
          Boards       \* names of the bulletin boards

VARIABLES bulletins,   \* rows [id, board, by, uid]
          mail,        \* rows [id, sender, to, uid]
          channels,    \* rows [id, uid]
          rowid,       \* the AUTOINCREMENT counter of each table
          minted,      \* how many unique_ids this server has made
          outbox       \* every record that is for the peers, [kind, uid]

storeVars == <<bulletins, mail, channels, rowid, minted, outbox>>

Tables == {"bulletins", "mail", "channels"}
Urgent == "Urgent"
Uids   == {"here", "peer"} \X Nat
Local(uid) == uid[1] = "here"

BulletinRows == [id : Nat, board : Boards, by : Nodes, uid : Uids]
MailRows     == [id : Nat, sender : Nodes, to : Nodes, uid : Uids]
ChannelRows  == [id : Nat, uid : Uids]
Records      == [kind : {"BULLETIN", "MAIL", "DELETE_MAIL", "CHANNEL"}, uid : Uids]

StoreTypeOK == /\ bulletins \subseteq BulletinRows
               /\ mail \subseteq MailRows
               /\ channels \subseteq ChannelRows
               /\ rowid \in [Tables -> Nat]
               /\ minted \in Nat
               /\ outbox \subseteq Records

StoreInit == /\ bulletins = {} /\ mail = {} /\ channels = {}
             /\ rowid = [t \in Tables |-> 0]
             /\ minted = 0
             /\ outbox = {}

----------------------------------------------------------------------------
(* database.py *)

Ids(rows) == {r.id : r \in rows}

\* Without AUTOINCREMENT sqlite gives a new row one more than the largest id present.
ReusedRowId(t) ==
    LET used == Ids(CASE t = "bulletins" -> bulletins
                      [] t = "mail"      -> mail
                      [] t = "channels"  -> channels)
    IN  1 + (IF used = {} THEN 0 ELSE CHOOSE i \in used : \A j \in used : j <= i)

NextRowId(t) == rowid[t] + 1

TakeRowId(t) == rowid' = [rowid EXCEPT ![t] = NextRowId(t)]

InsertBulletin(board, by, uid) ==
    /\ bulletins' = bulletins \cup
           {[id |-> NextRowId("bulletins"), board |-> board, by |-> by, uid |-> uid]}
    /\ TakeRowId("bulletins")

InsertMail(sender, to, uid) ==
    /\ mail' = mail \cup
           {[id |-> NextRowId("mail"), sender |-> sender, to |-> to, uid |-> uid]}
    /\ TakeRowId("mail")

InsertChannel(uid) ==
    /\ channels' = channels \cup {[id |-> NextRowId("channels"), uid |-> uid]}
    /\ TakeRowId("channels")

\* get_mail_content forgetting the recipient.
RowInAnyBox(id, to) == {r \in mail : r.id = id}
\* get_mail_content: the row a node may open, if it is there and addressed to it.
MailContent(id, to) == {r \in mail : r.id = id /\ r.to = to}

BulletinsOn(board) == {r \in bulletins : r.board = board}

\* The n-th row of a listing: sqlite returns a table in the order of its ids.
NthId(n, ids) == {i \in ids : Cardinality({j \in ids : j <= i}) = n}

----------------------------------------------------------------------------
(* replication.py *)

\* publish that echoes a synced record to the peers.
PublishedAlways(kind, uid, origin) == outbox' = outbox \cup {[kind |-> kind, uid |-> uid]}

\* publish: the peers are told of what was written here, and of nothing else.
Publish(kind, uid, origin) ==
    outbox' = IF origin = "LOCAL" THEN outbox \cup {[kind |-> kind, uid |-> uid]} ELSE outbox

----------------------------------------------------------------------------
(* adapters.Store: what a flow calls *)

Mint == minted' = minted + 1
NewUid == <<"here", minted + 1>>

AddBulletin(board, by) ==
    /\ InsertBulletin(board, by, NewUid)
    /\ Mint
    /\ Publish("BULLETIN", NewUid, "LOCAL")
    /\ UNCHANGED <<mail, channels>>

AddMail(sender, to) ==
    /\ InsertMail(sender, to, NewUid)
    /\ Mint
    /\ Publish("MAIL", NewUid, "LOCAL")
    /\ UNCHANGED <<bulletins, channels>>

\* add_channel before the menu's way of adding one was synced.
AddChannelUnsynced ==
    /\ InsertChannel(NewUid)
    /\ Mint
    /\ UNCHANGED <<bulletins, mail, outbox>>

AddChannel ==
    /\ InsertChannel(NewUid)
    /\ Mint
    /\ Publish("CHANNEL", NewUid, "LOCAL")
    /\ UNCHANGED <<bulletins, mail>>

DeleteMail(uid) ==
    IF \E r \in mail : r.uid = uid
    THEN /\ mail' = {r \in mail : r.uid # uid}
         /\ Publish("DELETE_MAIL", uid, "LOCAL")
         /\ UNCHANGED <<bulletins, channels, rowid, minted>>
    ELSE UNCHANGED storeVars

----------------------------------------------------------------------------
(* adapters.Store.accept and process_message: a record from a peer.  Any   *)
(* of them may arrive late, again, or never.                               *)

AcceptBulletin(b) ==
    /\ InsertBulletin(b.board, b.by, b.uid)
    /\ Publish("BULLETIN", b.uid, "SYNCED")
    /\ UNCHANGED <<mail, channels, minted>>

AcceptMail(m) ==
    /\ InsertMail(m.sender, m.to, m.uid)
    /\ Publish("MAIL", m.uid, "SYNCED")
    /\ UNCHANGED <<bulletins, channels, minted>>

AcceptChannel(c) ==
    /\ InsertChannel(c.uid)
    /\ Publish("CHANNEL", c.uid, "SYNCED")
    /\ UNCHANGED <<bulletins, mail, minted>>

AcceptMailDeleted(uid) ==
    /\ mail' = {r \in mail : r.uid # uid}
    /\ Publish("DELETE_MAIL", uid, "SYNCED")
    /\ UNCHANGED <<bulletins, channels, rowid, minted>>

AcceptBulletinDeleted(uid) ==
    /\ bulletins' = {r \in bulletins : r.uid # uid}
    /\ UNCHANGED <<mail, channels, rowid, minted, outbox>>

----------------------------------------------------------------------------
(* db_admin.py: another process on the same file, with no radio *)

AdminDeletesBulletin(r) == /\ bulletins' = {b \in bulletins : b.uid # r.uid}
                           /\ UNCHANGED <<mail, channels, rowid, minted, outbox>>
AdminDeletesMail(r)     == /\ mail' = {m \in mail : m.uid # r.uid}
                           /\ UNCHANGED <<bulletins, channels, rowid, minted, outbox>>
AdminDeletesChannel(r)  == /\ channels' = channels \ {r}
                           /\ UNCHANGED <<bulletins, mail, rowid, minted, outbox>>
============================================================================
