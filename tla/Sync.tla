-------------------------------- MODULE Sync --------------------------------
(***************************************************************************)
(* Several servers that replicate their records: adapters.Store writes a   *)
(* record and replication.publish sends it to each peer in turn, chunk by  *)
(* chunk and seconds apart, and then broadcasts it if its board says so;   *)
(* message_processing.on_receive accepts what a peer sends.  Between the   *)
(* servers is a mesh that loses, repeats and reorders texts; a server may  *)
(* end between the write and the last send, a publishing may break off,    *)
(* and the admin tool deletes on one server only.                          *)
(*                                                                         *)
(* A server's tables are one set of records, and those stored by more than *)
(* one row (nothing makes a unique_id unique).  A channel has no unique_id;*)
(* its url is as good as one.  Equal texts under way from one server to    *)
(* another count as one, and so do the chunks of one text that are no sync *)
(* texts: a peer ignores them, and they are left out.  So is what a node   *)
(* hears in answer.                                                        *)
(***************************************************************************)
EXTENDS Wire, FiniteSets

CONSTANTS Servers,
          Topologies,  \* config.bbs_nodes of every server: who lists whom
          Words,       \* what the nodes may write into a field
          Templates,   \* what the nodes may post: [rec, cuts, aired], without an identity
          Posters,     \* bound: the servers whose nodes post
          MaxEvents    \* bound: records posted, twice, and mails deleted and faults

ASSUME SyncAssumption ==
    /\ Topologies \subseteq [Servers -> SUBSET Servers]
    /\ Posters \subseteq Servers
    /\ \A t \in Templates : t.rec \in Posts(Words, {Nothing})
    /\ MaxEvents \in Nat

\* bbs_nodes holds the other servers.
ASSUME NoSelfAssumption == \A p \in Topologies : \A s \in Servers : s \notin p[s]

VARIABLES peers,      \* bbs_nodes
          rows,       \* the records each server stores
          doubled,    \* those of them that have more than one row
          minted,     \* unique_ids each server has made
          job,        \* what each thread is publishing: <<peer, text>> to send, the bulletin
                      \* to broadcast after that, and the sync texts in its broadcast
          net,        \* texts under way, [from, to, text]
          faults,     \* how much has gone wrong
          said,       \* history: the bulletins each server has broadcast
          unsaid,     \* history: those it would have, had it not broken off
          made,       \* history: [rec, cuts, aired, by] of every record posted
          gone,       \* history: <<server, unique_id>> of every mail deleted by its owner
          wiped,      \* history: <<server, record>> of every deletion by an admin
          overtaken   \* history: <<server, unique_id>>, deleted before it arrived

vars == <<peers, rows, doubled, minted, job, net, faults, said, unsaid, made, gone, wiped,
          overtaken>>
tables == <<rows, doubled, minted>>
spoken == <<said, unsaid>>
history == <<made, gone, wiped, overtaken>>

\* The radio library's thread, which hears messages, and the idle loop, which
\* finishes drafts.
Threads == {"mesh", "idle"}
NoJob == [sends |-> {}, news |-> {}, aired |-> {}]
Free(s, th) == job[s][th] = NoJob

Init == /\ peers \in Topologies
        /\ rows = [s \in Servers |-> {}] /\ doubled = [s \in Servers |-> {}]
        /\ minted = [s \in Servers |-> 0]
        /\ job = [s \in Servers |-> [th \in Threads |-> NoJob]]
        /\ net = {} /\ faults = 0
        /\ said = [s \in Servers |-> {}] /\ unsaid = [s \in Servers |-> {}]
        /\ made = {} /\ gone = {} /\ wiped = {} /\ overtaken = {}

----------------------------------------------------------------------------
(* database.py *)

NewUid(s) == <<s, minted[s] + 1>>
Mint(s) == minted' = [minted EXCEPT ![s] = @ + 1]

\* insert_*: another row, whatever is there already.
Insert(s, e) == /\ doubled' = [doubled EXCEPT ![s] = IF e \in rows[s] THEN @ \cup {e} ELSE @]
                /\ rows' = [rows EXCEPT ![s] = @ \cup {e}]

Without(s, kind, uid) == {e \in rows[s] : ~(e.kind = kind /\ Uid(e) = uid)}

\* A deletion as it was when it looked for a row id.
DeleteByRowId(s, kind, uid) == UNCHANGED <<rows, doubled>>

\* delete_mail, delete_bulletin: every row with that unique_id.
DeleteByUid(s, kind, uid) ==
    /\ rows' = [rows EXCEPT ![s] = Without(s, kind, uid)]
    /\ doubled' = [doubled EXCEPT ![s] = @ \cap Without(s, kind, uid)]

\* delete_channel: one row of perhaps several.
DeleteRow(s, e) ==
    \/ /\ e \notin doubled[s]
       /\ rows' = [rows EXCEPT ![s] = @ \ {e}] /\ UNCHANGED doubled
    \/ /\ e \in doubled[s] /\ UNCHANGED rows
       /\ doubled' \in {doubled, [doubled EXCEPT ![s] = @ \ {e}]}

----------------------------------------------------------------------------
(* Records made here: Store.add_*, Store.delete_mail and Replication.publish *)

Room(weight) == 2 * Cardinality(made) + Cardinality(gone) + faults + weight <= MaxEvents

\* publish: the texts for the peers, then the broadcast of a bulletin whose board
\* asks for it.
News(e) == IF BroadcastsOnPost(e) THEN {e} ELSE {}

Publish(s, th, sends, news, aired) ==
    job' = [job EXCEPT ![s][th] = [sends |-> sends, news |-> news, aired |-> aired]]

PublishRecord(s, th, r) ==
    Publish(s, th, peers[s] \X Texts(r.rec, r.cuts), News(r.rec), Aired(r.rec, r.aired))

\* A node posts: on the mesh thread, or by the sweep of its draft on the idle
\* loop.  The record is on disk before the first send.
Post(s, th) ==
    /\ s \in Posters /\ Room(2) /\ Free(s, th)
    /\ \E t \in Templates :
          LET r == [rec |-> Identified(t.rec, NewUid(s)), cuts |-> t.cuts, aired |-> t.aired,
                    by |-> s]
          IN  /\ Insert(s, r.rec)
              /\ PublishRecord(s, th, r)
              /\ made' = made \cup {r}
    /\ Mint(s)
    /\ UNCHANGED <<peers, net, faults, spoken, gone, wiped, overtaken>>

\* A node deletes a mail it has open on this server.
OwnerDeletes(s) ==
    /\ Room(1) /\ Free(s, "mesh")
    /\ \E e \in rows[s] :
          /\ IsMail(e)
          /\ DeleteByUid(s, "MAIL", e.uid)
          /\ Publish(s, "mesh", peers[s] \X {Encode(Deletion("DELETE_MAIL", e.uid))}, {}, {})
          /\ gone' = gone \cup {<<s, e.uid>>}
    /\ UNCHANGED <<peers, minted, net, faults, spoken, made, wiped, overtaken>>

\* Another send is done; with the last step the job is.
Done(s, th, send) ==
    job' = [job EXCEPT ![s][th] =
               [sends |-> @.sends \ {send}, news |-> @.news, aired |-> @.aired]]

\* One turn of the loops over the peers and over the chunks of a text, seconds
\* after the one before.
Send(s, th) == /\ \E send \in job[s][th].sends :
                     /\ net' = net \cup {[from |-> s, to |-> send[1], text |-> send[2]]}
                     /\ Done(s, th, send)
               /\ UNCHANGED <<peers, tables, faults, spoken, history>>

\* The broadcast, after the last peer.
Broadcast(s, th) ==
    /\ job[s][th].sends = {} /\ job[s][th].news # {}
    /\ said' = [said EXCEPT ![s] = @ \cup job[s][th].news]
    /\ net' = net \cup [from : {s}, to : Servers \ {s}, text : job[s][th].aired]
    /\ job' = [job EXCEPT ![s][th] = NoJob]
    /\ UNCHANGED <<peers, tables, faults, unsaid, history>>

----------------------------------------------------------------------------
(* Records from a peer: on_receive, process_message and Store.accept *)

AcceptDeletion(s, kind, uid) ==
    /\ DeleteByUid(s, kind, uid)
    /\ overtaken' = IF \E e \in rows[s] : e.kind = kind /\ Uid(e) = uid
                    THEN overtaken ELSE overtaken \cup {<<s, uid>>}
    /\ UNCHANGED minted

AcceptRecord(s, e) ==
    /\ Insert(s, Stored(e, NewUid(s)))
    /\ IF Unnamed(e) THEN Mint(s) ELSE UNCHANGED minted
    /\ UNCHANGED overtaken

Accept(s, e) == CASE e.kind = "DELETE_BULLETIN" -> AcceptDeletion(s, "BULLETIN", e.uid)
                  [] e.kind = "DELETE_MAIL"     -> AcceptDeletion(s, "MAIL", e.uid)
                  [] OTHER                      -> AcceptRecord(s, e)

\* A server that takes records from whoever sends them.
FromAnyone(m) == IsSyncMessage(m.text)

\* on_receive: a sync text of a node that bbs_nodes lists.  Other texts of such
\* a node are ignored, and a sync text of a node it does not list is taken for
\* conversation; neither touches the tables.
FromPeer(m) == m.from \in peers[m.to] /\ IsSyncMessage(m.text)

Read(m) == IF FromPeer(m) THEN Decode(m.text) ELSE {}

\* publish for what is synced: no echo, but the broadcast.  Its fields are single
\* parts, so that its broadcast holds no sync text.
PublishEchoing(m, e) == Publish(m.to, "mesh", peers[m.to] \X {m.text}, News(e), {})
PublishSynced(m, e) == Publish(m.to, "mesh", {}, News(Stored(e, NewUid(m.to))), {})

\* The mesh thread handles one text at a time, its own publishing included.
Handle(m) ==
    /\ Free(m.to, "mesh")
    /\ \/ \E e \in Read(m) : Accept(m.to, e) /\ PublishSynced(m, e)
       \/ Read(m) = {} /\ UNCHANGED <<tables, overtaken, job>>

Receive(m) == /\ m \in net /\ net' = net \ {m}
              /\ Handle(m)
              /\ UNCHANGED <<peers, faults, spoken, made, gone, wiped>>

Hear(s) == \E m \in net : m.to = s /\ Receive(m)

----------------------------------------------------------------------------
(* What goes wrong *)

Fault == Room(1) /\ faults' = faults + 1

\* The radio's retransmission arrives as well.
ReceiveTwice(m) == /\ m \in net /\ Fault
                   /\ Handle(m)
                   /\ UNCHANGED <<peers, net, spoken, made, gone, wiped>>

Lose(m) == /\ m \in net /\ Fault /\ net' = net \ {m}
           /\ UNCHANGED <<peers, tables, job, spoken, history>>

\* A failure that leaves transport.send, as its handler once did: the rest of the
\* publishing is not done.
SendFailureEscapes(s, th) == /\ Fault
                             /\ job[s][th].sends # {}
                             /\ job' = [job EXCEPT ![s][th] = NoJob]
                             /\ UNCHANGED <<peers, tables, net, spoken, history>>

\* sendText raises: logged, and the turn of the next chunk or peer comes.
SendFails(s, th) == /\ Fault
                    /\ \E send \in job[s][th].sends : Done(s, th, send)
                    /\ UNCHANGED <<peers, tables, net, spoken, history>>

Unsaid(s, threads) == unsaid' = [unsaid EXCEPT ![s] = @ \cup UNION {job[s][th].news : th \in threads}]

\* The same of the broadcast, which leaves nobody else to tell.
BroadcastFails(s, th) == /\ job[s][th].sends = {} /\ job[s][th].news # {}
                         /\ Fault
                         /\ Unsaid(s, {th})
                         /\ job' = [job EXCEPT ![s][th] = NoJob]
                         /\ UNCHANGED <<peers, tables, net, said, history>>

\* The logging of a send raises, out of the loop over the peers and of publish.
\* On the idle loop that ends the server.
FanOutStops(s) ==
    /\ Fault
    /\ \E send \in job[s]["mesh"].sends :
          net' = net \cup {[from |-> s, to |-> send[1], text |-> send[2]]}
    /\ Unsaid(s, {"mesh"})
    /\ job' = [job EXCEPT ![s]["mesh"] = NoJob]
    /\ UNCHANGED <<peers, tables, said, history>>

\* The process ends in the middle of a publishing; the tables are on disk.
Crash(s) == /\ \E th \in Threads : ~Free(s, th)
            /\ Fault
            /\ Unsaid(s, Threads)
            /\ job' = [job EXCEPT ![s] = [th \in Threads |-> NoJob]]
            /\ UNCHANGED <<peers, tables, net, said, history>>

\* db_admin.py, on this server's file and no other's: mail and bulletins by
\* their unique_id, a channel by its row.
AdminDeletes(s) ==
    /\ \E e \in rows[s] :
          /\ IF IsChannel(e) THEN DeleteRow(s, e) ELSE DeleteByUid(s, e.kind, e.uid)
          /\ wiped' = wiped \cup {<<s, e>>}
    /\ Fault
    /\ UNCHANGED <<peers, minted, job, net, spoken, made, gone, overtaken>>

Next == \/ \E s \in Servers :
              \/ \E th \in Threads : \/ Post(s, th) \/ Send(s, th) \/ Broadcast(s, th)
                                      \/ SendFails(s, th) \/ BroadcastFails(s, th)
              \/ OwnerDeletes(s) \/ FanOutStops(s) \/ Crash(s) \/ AdminDeletes(s)
        \/ \E m \in net : Receive(m) \/ ReceiveTwice(m) \/ Lose(m)

Spec == Init /\ [][Next]_vars

\* A publishing goes on while its thread runs, and the mesh delivers what it does
\* not lose.  It is enough that one of all these steps comes, as MaxEvents bounds
\* the work there is: none of it waits for ever on the rest.
GoesOn == \E s \in Servers : \/ \E th \in Threads : Send(s, th) \/ Broadcast(s, th)
                              \/ Hear(s)
FairSpec == Spec /\ WF_vars(GoesOn)

----------------------------------------------------------------------------
(* Properties *)

\* What s may send to d: a record posted on it or a deletion by one of its nodes,
\* to a peer, and what stands in the broadcast of such a record, to everybody.
OwnRecord(s, text) == \E r \in made : r.by = s /\ text \in Texts(r.rec, r.cuts)
OwnBroadcast(s, text) == \E r \in made : r.by = s /\ text \in Aired(r.rec, r.aired)
OwnDeletion(s, text) == \E g \in gone : g[1] = s /\ text = Encode(Deletion("DELETE_MAIL", g[2]))

Sendable(s, d, text) ==
    /\ d \in Servers
    /\ \/ d \in peers[s] /\ (OwnRecord(s, text) \/ OwnDeletion(s, text))
       \/ d # s /\ OwnBroadcast(s, text)

JobsAreOwn ==
    \A s \in Servers, th \in Threads :
        /\ \A send \in job[s][th].sends : Sendable(s, send[1], send[2])
        /\ \A text \in job[s][th].aired : OwnBroadcast(s, text)
NetIsOwn == \A m \in net : m.from \in Servers /\ Sendable(m.from, m.to, m.text)

\* Every variable stays in its type; a text in hand or under way is the sender's
\* own, however the record reached the sender's tables.
TypeOK == /\ peers \in [Servers -> SUBSET Servers]
          /\ minted \in [Servers -> Nat]
          /\ faults \in Nat
          /\ \A s \in Servers : doubled[s] \subseteq rows[s]
          /\ JobsAreOwn /\ NetIsOwn

\* Without faults no record is stored twice: it reaches a server by one path
\* only, although servers that list each other form cycles.
OneRowEach == faults = 0 => \A s \in Servers : \A r \in made : r.rec \notin doubled[s]

\* A record without '|' and short enough for one payload is the same record
\* wherever it is stored: encode and decode agree on every field.
RecordsArriveWhole ==
    \A s \in Servers : \A e \in rows[s] : \A r \in made :
        Clean(r.rec) /\ r.cuts = <<>> /\ Uid(e) = Uid(r.rec) => e = r.rec

Quiet == net = {} /\ \A s \in Servers, th \in Threads : Free(s, th)

\* What may be left of a unique_id on the wire, and whether a server made it; a
\* mail with a '|' may have a word of its text for one at a peer.
Marks(uid) == {uid, Cut(uid)}
OfAServer(uid) == \E s \in Servers : \E n \in 1..minted[s] : uid \in Marks(<<s, n>>)

\* When nothing is lost and all has been sent, a mail deleted on one server is
\* left on a server that lists it only if the deletion got there first.
GhostsWereOvertaken ==
    Quiet /\ faults = 0 =>
        \A g \in gone : \A s \in peers[g[1]] :
            (/\ OfAServer(g[2]) /\ g[1] \in peers[s]
             /\ \E e \in rows[s] : IsMail(e) /\ Uid(e) = g[2])
            => <<s, g[2]>> \in overtaken

Heard(r) == \A d \in peers[r.by] : r.by \in peers[d] => r.rec \in rows[d]

\* Every record that survives the wire reaches every server that its own server
\* lists and that lists it, unless something goes wrong or a mail is deleted.
EveryoneHears ==
    []<>(\/ \A r \in made : Clean(r.rec) /\ r.cuts = <<>> => Heard(r)
         \/ faults > 0 \/ gone # {})

\* A bulletin of the Urgent board in a server's table has been broadcast by that
\* server, or its publishing goes on there and comes to it, or the publishing was
\* broken off: neither a peer that cannot be reached nor an origin at a peer is a
\* reason not to tell the mesh.
UrgentIsAnnounced ==
    \A s \in Servers : \A e \in rows[s] :
        BroadcastsOnPost(e) =>
            e \in said[s] \cup unsaid[s] \cup UNION {job[s][th].news : th \in Threads}

Abstract == INSTANCE Replicas
\* The servers, their threads and the mesh between them do what Replicas
\* promises, whatever goes wrong.
KeepsItsPromise == Abstract!Spec
=============================================================================
