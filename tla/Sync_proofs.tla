---------------------------- MODULE Sync_proofs ----------------------------
(***************************************************************************)
(* Sync implements Replicas, for any servers, any lists of peers and any   *)
(* records.  The steps of Sync that change a table are Post, OwnerDeletes, *)
(* the admin's deletion and the reception of a text; only the last needs   *)
(* an invariant: that a text in hand or under way is one its sender may    *)
(* send, because a record posted there or a deletion made there says so.   *)
(* And no Urgent bulletin is kept from the mesh but by what breaks off the *)
(* publishing of it.                                                       *)
(***************************************************************************)
EXTENDS Sync, TLAPS

\* The tables, the jobs and the histories of the broadcasts have an entry for
\* every server, and the jobs for every thread.
Shape == /\ DOMAIN rows = Servers /\ DOMAIN doubled = Servers
         /\ DOMAIN job = Servers /\ \A s \in Servers : DOMAIN job[s] = Threads
         /\ DOMAIN said = Servers /\ DOMAIN unsaid = Servers

\* The inductive invariant.
Inv == TypeOK /\ Shape

\* Replicas has definitions of its own of what Wire defines; they are the same.
LEMMA SameDecode == \A text : Abstract!Decode(text) = Decode(text)
  BY DEF Abstract!Decode, Decode, Abstract!BulletinIn, BulletinIn, Abstract!MailIn, MailIn,
         Abstract!ChannelIn, ChannelIn, Abstract!Deletion, Deletion, Abstract!Field, Field

\* The same of encoding.
LEMMA SameEncode == \A e : Abstract!Encode(e) = Encode(e)
  BY DEF Abstract!Encode, Encode, Abstract!IsBulletin, IsBulletin, Abstract!IsMail, IsMail,
         Abstract!IsChannel, IsChannel

\* The same of the chunk that begins somewhere.
LEMMA SameChunkFrom == \A kind, parts, i, cuts :
                          Abstract!ChunkFrom(kind, parts, i, cuts) = ChunkFrom(kind, parts, i, cuts)
  BY DEF Abstract!ChunkFrom, ChunkFrom, Abstract!Remains, Remains, Abstract!Cut, Cut,
         Abstract!Nothing, Nothing

\* The same of the later chunks.
LEMMA SameLaterChunks == \A parts, cuts : Abstract!LaterChunks(parts, cuts) = LaterChunks(parts, cuts)
  BY SameChunkFrom DEF Abstract!LaterChunks, LaterChunks, Abstract!Opens, Opens, Abstract!Word, Word,
                       Abstract!SyncKinds, SyncKinds

\* The same of what a peer reads.
LEMMA SameReadings == \A r : Abstract!Readings(r) = Readings(r)
<1>1. \A e, cuts : Abstract!Texts(e, cuts) = Texts(e, cuts)
  BY SameEncode, SameChunkFrom, SameLaterChunks DEF Abstract!Texts, Texts
<1>2. \A e, cuts : Abstract!Aired(e, cuts) = Aired(e, cuts)
  BY SameLaterChunks DEF Abstract!Aired, Aired, Abstract!BroadcastsOnPost, BroadcastsOnPost,
                         Abstract!IsBulletin, IsBulletin, Abstract!Word, Word,
                         Abstract!BroadcastParts, BroadcastParts
<1> QED
  BY <1>1, <1>2, SameDecode DEF Abstract!Readings, Readings, Abstract!Sent, Sent

\* The same of identities.
LEMMA SameIdentities == \A e, uid : /\ Abstract!Identified(e, uid) = Identified(e, uid)
                                    /\ Abstract!Stored(e, uid) = Stored(e, uid)
                                    /\ Abstract!Uid(e) = Uid(e)
                                    /\ Abstract!IsMail(e) = IsMail(e)
  BY DEF Abstract!Identified, Identified, Abstract!Stored, Stored, Abstract!Unnamed, Unnamed,
         Abstract!Uid, Uid, Abstract!IsChannel, IsChannel, Abstract!Nothing, Nothing,
         Abstract!IsMail, IsMail

\* A deletion comes over the wire as what it is.
LEMMA DeletionIsRead == \A uid : Decode(Encode(Deletion("DELETE_MAIL", uid)))
                                   = {Deletion("DELETE_MAIL", uid)}
  BY DEF Decode, Encode, Deletion, IsBulletin, IsMail, IsChannel

\* Nothing is forgotten of what was posted and deleted, so what may be sent may
\* always be sent.
LEMMA SendableLasts ==
  ASSUME made \subseteq made', gone \subseteq gone', UNCHANGED peers,
         NEW s, NEW d, NEW text, Sendable(s, d, text)
  PROVE  Sendable(s, d, text)'
BY DEF Sendable, OwnRecord, OwnBroadcast, OwnDeletion

\* The initial states have the invariant.
LEMMA InitInv == Init => Inv
BY SyncAssumption DEF SyncAssumption, Init, Inv, TypeOK, Shape, JobsAreOwn, NetIsOwn, NoJob, Threads

JobsShaped == /\ JobsAreOwn
              /\ DOMAIN job = Servers /\ \A s \in Servers : DOMAIN job[s] = Threads

\* Texts that server s may send from now on, to those it may send them.
OwnSends(s, sends) == \A send \in sends : Sendable(s, send[1], send[2])
OwnAired(s, texts) == \A text \in texts : OwnBroadcast(s, text)

\* A thread takes a job that is its server's own, or drops one.
LEMMA JobSet ==
  ASSUME Inv, NEW s \in Servers, NEW th \in Threads, NEW j,
         job' = [job EXCEPT ![s][th] = j], OwnSends(s, j.sends)', OwnAired(s, j.aired)',
         made \subseteq made', gone \subseteq gone', UNCHANGED peers
  PROVE  JobsShaped'
<1>1. DOMAIN job' = Servers /\ \A x \in Servers : DOMAIN job'[x] = Threads
  BY DEF Inv, Shape
<1>2. JobsAreOwn'
  <2> SUFFICES ASSUME NEW x \in Servers, NEW u \in Threads
               PROVE  OwnSends(x, job[x][u].sends)' /\ OwnAired(x, job[x][u].aired)'
    BY DEF JobsAreOwn, OwnSends, OwnAired
  <2>1. CASE x = s /\ u = th
    <3>1. job'[x][u] = j
      BY <2>1 DEF Inv, Shape
    <3> QED
      BY <3>1, <2>1 DEF OwnSends, OwnAired
  <2>2. CASE ~(x = s /\ u = th)
    <3>1. job'[x][u] = job[x][u]
      BY <2>2 DEF Inv, Shape
    <3> QED
      BY <3>1, SendableLasts DEF Inv, TypeOK, JobsAreOwn, OwnSends, OwnAired, OwnBroadcast
  <2> QED
    BY <2>1, <2>2
<1> QED
  BY <1>1, <1>2 DEF JobsShaped

\* A thread that drops its job.
LEMMA JobDropped ==
  ASSUME Inv, NEW s \in Servers, NEW th \in Threads, job' = [job EXCEPT ![s][th] = NoJob],
         made \subseteq made', gone \subseteq gone', UNCHANGED peers
  PROVE  JobsShaped'
<1>1. OwnSends(s, NoJob.sends)' /\ OwnAired(s, NoJob.aired)'
  BY DEF NoJob, OwnSends, OwnAired
<1> QED
  BY <1>1, JobSet

\* A step that leaves the jobs alone.
LEMMA JobsKept ==
  ASSUME Inv, UNCHANGED <<job, peers>>, made \subseteq made', gone \subseteq gone'
  PROVE  JobsShaped'
BY SendableLasts DEF Inv, TypeOK, Shape, JobsAreOwn, JobsShaped, OwnBroadcast

\* A publish hands the thread texts the server may send.
LEMMA PublishKeeps ==
  ASSUME Inv, NEW s \in Servers, NEW th \in Threads, NEW sends, NEW news, NEW aired,
         Publish(s, th, sends, news, aired), OwnSends(s, sends)', OwnAired(s, aired)',
         made \subseteq made', gone \subseteq gone', UNCHANGED peers
  PROVE  JobsShaped'
<1>1. PICK j : j = [sends |-> sends, news |-> news, aired |-> aired]
  OBVIOUS
<1>2. job' = [job EXCEPT ![s][th] = j]
  BY <1>1 DEF Publish
<1>3. j.sends = sends /\ j.aired = aired
  BY <1>1
<1> QED
  BY <1>2, <1>3, JobSet

\* With another send done the rest of the job is still the server's own.
LEMMA DoneKeeps ==
  ASSUME Inv, NEW s \in Servers, NEW th \in Threads, NEW send, Done(s, th, send),
         UNCHANGED <<peers, made, gone>>
  PROVE  JobsShaped'
<1>1. PICK j : j = [sends |-> job[s][th].sends \ {send}, news |-> job[s][th].news,
                    aired |-> job[s][th].aired]
  OBVIOUS
<1>2. job' = [job EXCEPT ![s][th] = j]
  BY <1>1 DEF Done
<1>3. j.sends \subseteq job[s][th].sends /\ j.aired = job[s][th].aired
  BY <1>1
<1>4. OwnSends(s, j.sends)' /\ OwnAired(s, j.aired)'
  BY <1>3, SendableLasts DEF Inv, TypeOK, JobsAreOwn, OwnSends, OwnAired, OwnBroadcast
<1> QED
  BY <1>2, <1>4, JobSet

\* Texts under way stay their senders' own when some arrive or get lost.
LEMMA NetKept ==
  ASSUME Inv, net' \subseteq net, made \subseteq made', gone \subseteq gone', UNCHANGED peers
  PROVE  NetIsOwn'
BY SendableLasts DEF Inv, TypeOK, NetIsOwn

\* A text that leaves a server is the server's own.
LEMMA NetGrows ==
  ASSUME Inv, NEW s \in Servers, NEW th \in Threads, NEW send \in job[s][th].sends,
         net' = net \cup {[from |-> s, to |-> send[1], text |-> send[2]]},
         UNCHANGED <<peers, made, gone>>
  PROVE  NetIsOwn'
<1>1. PICK d, text : d = send[1] /\ text = send[2]
  OBVIOUS
<1>2. Sendable(s, d, text)
  BY <1>1 DEF Inv, TypeOK, JobsAreOwn
<1>3. Sendable(s, d, text)'
  BY <1>2, SendableLasts
<1>4. \A m \in net : m.from \in Servers /\ Sendable(m.from, m.to, m.text)'
  BY SendableLasts DEF Inv, TypeOK, NetIsOwn
<1> QED
  BY <1>1, <1>3, <1>4 DEF NetIsOwn

\* What is broadcast as well.
LEMMA NetHearsBroadcast ==
  ASSUME Inv, NEW s \in Servers, NEW th \in Threads,
         net' = net \cup [from : {s}, to : Servers \ {s}, text : job[s][th].aired],
         UNCHANGED <<peers, made, gone>>
  PROVE  NetIsOwn'
<1>1. \A d \in Servers \ {s} : \A text \in job[s][th].aired : Sendable(s, d, text)'
  BY DEF Inv, TypeOK, JobsAreOwn, Sendable, OwnBroadcast
<1>2. \A m \in net : m.from \in Servers /\ Sendable(m.from, m.to, m.text)'
  BY SendableLasts DEF Inv, TypeOK, NetIsOwn
<1> QED
  BY <1>1, <1>2 DEF NetIsOwn

TablesShaped == /\ minted \in [Servers -> Nat]
                /\ DOMAIN rows = Servers /\ DOMAIN doubled = Servers
                /\ \A s \in Servers : doubled[s] \subseteq rows[s]
                /\ DOMAIN said = Servers /\ DOMAIN unsaid = Servers

\* The parts a step has to keep.
LEMMA Parts == Inv <=> /\ peers \in [Servers -> SUBSET Servers] /\ faults \in Nat
                       /\ TablesShaped /\ JobsShaped /\ NetIsOwn
BY DEF Inv, TypeOK, Shape, TablesShaped, JobsShaped

\* The invariant after a step, part by part.
LEMMA Keeps ==
  ASSUME Inv, UNCHANGED peers, faults' \in {faults, faults + 1},
         TablesShaped', JobsShaped', NetIsOwn'
  PROVE  Inv'
BY DEF Inv, TypeOK, Shape, TablesShaped, JobsShaped

\* A broadcast is said, or not, and the server's history is written on.
Noted == /\ said' = said \/ \E s, x : said' = [said EXCEPT ![s] = x]
         /\ unsaid' = unsaid \/ \E s, x : unsaid' = [unsaid EXCEPT ![s] = x]

\* A row more, a deletion, a deleted row: more than one row is still a row.
LEMMA TablesKept ==
  ASSUME Inv, NEW s \in Servers, Noted
  PROVE  /\ \A e : Insert(s, e) /\ (UNCHANGED minted \/ Mint(s)) => TablesShaped'
         /\ \A kind, uid : DeleteByUid(s, kind, uid) /\ UNCHANGED minted => TablesShaped'
         /\ \A e : DeleteRow(s, e) /\ UNCHANGED minted => TablesShaped'
         /\ UNCHANGED tables => TablesShaped'
<1>0. TablesShaped
  BY Parts
<1>00. DOMAIN said' = Servers /\ DOMAIN unsaid' = Servers
  BY <1>0 DEF TablesShaped, Noted
<1> USE <1>0, <1>00 DEF TablesShaped
<1>1. ASSUME NEW e, Insert(s, e), UNCHANGED minted \/ Mint(s) PROVE TablesShaped'
  BY <1>1 DEF Insert, Mint
<1>2. ASSUME NEW kind, NEW uid, DeleteByUid(s, kind, uid), UNCHANGED minted PROVE TablesShaped'
  BY <1>2 DEF DeleteByUid, Without
<1>3. ASSUME NEW e, DeleteRow(s, e), UNCHANGED minted PROVE TablesShaped'
  BY <1>3 DEF DeleteRow
<1>4. ASSUME UNCHANGED tables PROVE TablesShaped'
  BY <1>4 DEF tables
<1> QED
  BY <1>1, <1>2, <1>3, <1>4, Zenon

\* What is posted may be sent from then on.
LEMMA PostedIsSendable ==
  ASSUME Inv, NEW r, r.by \in Servers, made' = made \cup {r}, UNCHANGED peers
  PROVE  /\ OwnSends(r.by, peers[r.by] \X Texts(r.rec, r.cuts))'
         /\ OwnAired(r.by, Aired(r.rec, r.aired))'
<1>1. peers[r.by] \subseteq Servers
  BY DEF Inv, TypeOK
<1> QED
  BY <1>1 DEF OwnSends, OwnAired, Sendable, OwnRecord, OwnBroadcast

\* What Post does keeps the invariant.
LEMMA PostKeeps == ASSUME Inv, NEW s \in Servers, NEW th \in Threads, Post(s, th)
                   PROVE  Inv'
<1>1. PICK t \in Templates :
         LET r == [rec |-> Identified(t.rec, NewUid(s)), cuts |-> t.cuts, aired |-> t.aired,
                   by |-> s]
         IN  Insert(s, r.rec) /\ PublishRecord(s, th, r) /\ made' = made \cup {r}
  BY DEF Post
<1>2. PICK r : r = [rec |-> Identified(t.rec, NewUid(s)), cuts |-> t.cuts, aired |-> t.aired,
                    by |-> s]
  OBVIOUS
<1>3. Insert(s, r.rec) /\ PublishRecord(s, th, r) /\ made' = made \cup {r} /\ r.by = s
  BY <1>1, <1>2
<1>4. Mint(s) /\ UNCHANGED <<peers, net, faults, spoken, gone, wiped, overtaken>>
  BY DEF Post
<1>5. OwnSends(s, peers[s] \X Texts(r.rec, r.cuts))' /\ OwnAired(s, Aired(r.rec, r.aired))'
  BY <1>3, <1>4, PostedIsSendable
<1>6. JobsShaped'
  BY <1>3, <1>4, <1>5, PublishKeeps DEF PublishRecord
<1>7. NetIsOwn'
  BY <1>3, <1>4, NetKept
<1>8. TablesShaped'
  BY <1>3, <1>4, TablesKept DEF Noted, spoken
<1> QED
  BY <1>4, <1>6, <1>7, <1>8, Keeps

\* An owner's deletion keeps the invariant: what it sends is a deletion made here.
LEMMA OwnerDeletesKeeps == ASSUME Inv, NEW s \in Servers, OwnerDeletes(s)
                           PROVE  Inv'
<1>1. PICK e \in rows[s] :
         /\ DeleteByUid(s, "MAIL", e.uid)
         /\ Publish(s, "mesh", peers[s] \X {Encode(Deletion("DELETE_MAIL", e.uid))}, {}, {})
         /\ gone' = gone \cup {<<s, e.uid>>}
  BY DEF OwnerDeletes
<1>2. UNCHANGED <<peers, minted, net, faults, spoken, made, wiped, overtaken>>
  BY DEF OwnerDeletes
<1>3. PICK text : text = Encode(Deletion("DELETE_MAIL", e.uid))
  OBVIOUS
<1>4. \A d \in peers[s] : Sendable(s, d, text)'
  <2>1. PICK g : g = <<s, e.uid>>
    OBVIOUS
  <2>2. g \in gone' /\ g[1] = s /\ text = Encode(Deletion("DELETE_MAIL", g[2]))
    BY <1>1, <1>3, <2>1
  <2>3. peers[s] \subseteq Servers
    BY DEF Inv, TypeOK
  <2> QED
    BY <1>2, <2>2, <2>3 DEF Sendable, OwnDeletion
<1>5. OwnSends(s, peers[s] \X {text})' /\ OwnAired(s, {})'
  BY <1>2, <1>4 DEF OwnSends, OwnAired
<1>6. JobsShaped'
  BY <1>1, <1>2, <1>3, <1>5, PublishKeeps DEF Threads
<1>7. NetIsOwn'
  BY <1>1, <1>2, NetKept
<1>8. TablesShaped'
  BY <1>1, <1>2, TablesKept DEF Noted, spoken
<1> QED
  BY <1>2, <1>6, <1>7, <1>8, Keeps

\* Another send of a publishing, done or failed; the broadcast, done or failed;
\* and what ends a publishing.
LEMMA PublishingKeeps ==
  ASSUME Inv, NEW s \in Servers, NEW th \in Threads,
         \/ Send(s, th) \/ SendFails(s, th) \/ Broadcast(s, th) \/ BroadcastFails(s, th)
         \/ FanOutStops(s) \/ Crash(s)
  PROVE  Inv'
<1>1. UNCHANGED <<peers, made, gone>> /\ faults' \in {faults, faults + 1}
  BY DEF Send, SendFails, Broadcast, BroadcastFails, FanOutStops, Crash, Fault, history
<1>2. UNCHANGED tables /\ Noted
  BY DEF Send, SendFails, Broadcast, BroadcastFails, FanOutStops, Crash, Unsaid, Noted, spoken
<1>3. TablesShaped'
  BY <1>2, TablesKept
<1>4. CASE Send(s, th)
  <2>1. JobsShaped'
    BY <1>4, <1>1, DoneKeeps DEF Send
  <2>2. NetIsOwn'
    BY <1>4, <1>1, NetGrows DEF Send
  <2> QED
    BY <2>1, <2>2, <1>1, <1>3, Keeps
<1>5. CASE SendFails(s, th)
  <2>1. JobsShaped'
    BY <1>5, <1>1, DoneKeeps DEF SendFails
  <2>2. NetIsOwn'
    BY <1>5, <1>1, NetKept DEF SendFails
  <2> QED
    BY <2>1, <2>2, <1>1, <1>3, Keeps
<1>6. CASE Broadcast(s, th)
  <2>1. JobsShaped'
    BY <1>6, <1>1, JobDropped DEF Broadcast
  <2>2. NetIsOwn'
    BY <1>6, <1>1, NetHearsBroadcast DEF Broadcast
  <2> QED
    BY <2>1, <2>2, <1>1, <1>3, Keeps
<1>7. CASE BroadcastFails(s, th)
  <2>1. JobsShaped'
    BY <1>7, <1>1, JobDropped DEF BroadcastFails
  <2>2. NetIsOwn'
    BY <1>7, <1>1, NetKept DEF BroadcastFails
  <2> QED
    BY <2>1, <2>2, <1>1, <1>3, Keeps
<1>8. CASE FanOutStops(s)
  <2>1. JobsShaped'
    BY <1>8, <1>1, JobDropped DEF FanOutStops, Threads
  <2>2. NetIsOwn'
    BY <1>8, <1>1, NetGrows DEF FanOutStops, Threads
  <2> QED
    BY <2>1, <2>2, <1>1, <1>3, Keeps
<1>9. CASE Crash(s)
  <2>1. job' = [job EXCEPT ![s] = [u \in Threads |-> NoJob]] /\ UNCHANGED net
    BY <1>9 DEF Crash
  <2>2. JobsShaped'
    <3>1. DOMAIN job' = Servers /\ \A x \in Servers : DOMAIN job'[x] = Threads
      BY <2>1 DEF Inv, Shape
    <3>2. \A x \in Servers, u \in Threads : job'[x][u] \in {job[x][u], NoJob}
      BY <2>1 DEF Inv, Shape
    <3>3. NoJob.sends = {} /\ NoJob.aired = {}
      BY DEF NoJob
    <3> HIDE DEF NoJob
    <3>4. JobsAreOwn'
      BY <3>2, <3>3, <1>1, SendableLasts DEF Inv, TypeOK, JobsAreOwn, OwnBroadcast
    <3> QED
      BY <3>1, <3>4 DEF JobsShaped
  <2>3. NetIsOwn'
    BY <2>1, <1>1, NetKept
  <2> QED
    BY <2>2, <2>3, <1>1, <1>3, Keeps
<1> QED
  BY <1>4, <1>5, <1>6, <1>7, <1>8, <1>9

\* What a server takes in is ignored, or stored, or obeyed as a deletion, and its
\* thread goes on to a broadcast at most.
LEMMA HandleKeeps ==
  ASSUME Inv, NEW m \in net, Handle(m), net' \subseteq net, UNCHANGED <<peers, made, gone, spoken>>,
         faults' \in {faults, faults + 1}
  PROVE  Inv'
<1>1. m.to \in Servers /\ Noted
  BY DEF Inv, TypeOK, NetIsOwn, Sendable, Noted, spoken
<1>2. TablesShaped'
  <2>1. CASE UNCHANGED tables
    BY <1>1, <2>1, TablesKept
  <2>2. ASSUME NEW e, AcceptRecord(m.to, e) PROVE TablesShaped'
    BY <1>1, <2>2, TablesKept DEF AcceptRecord
  <2>3. ASSUME NEW kind, NEW uid, AcceptDeletion(m.to, kind, uid) PROVE TablesShaped'
    BY <1>1, <2>3, TablesKept DEF AcceptDeletion
  <2> QED
    BY <2>1, <2>2, <2>3 DEF Handle, Accept
<1>3. JobsShaped'
  <2>1. CASE UNCHANGED job
    BY <2>1, JobsKept
  <2>2. ASSUME NEW news, Publish(m.to, "mesh", {}, news, {}) PROVE JobsShaped'
    <3>1. OwnSends(m.to, {})' /\ OwnAired(m.to, {})'
      BY DEF OwnSends, OwnAired
    <3> QED
      BY <1>1, <2>2, <3>1, PublishKeeps DEF Threads
  <2> QED
    BY <2>1, <2>2 DEF Handle, PublishSynced
<1> QED
  BY <1>2, <1>3, NetKept, Keeps

\* Every step of the servers and of the mesh keeps the invariant.
LEMMA NextInv == Inv /\ [Next]_vars => Inv'
<1> SUFFICES ASSUME Inv, [Next]_vars PROVE Inv'
  OBVIOUS
<1>1. ASSUME NEW s \in Servers, NEW th \in Threads, Post(s, th) PROVE Inv'
  BY <1>1, PostKeeps
<1>2. ASSUME NEW s \in Servers, OwnerDeletes(s) PROVE Inv'
  BY <1>2, OwnerDeletesKeeps
<1>3. ASSUME NEW s \in Servers, NEW th \in Threads,
             Send(s, th) \/ SendFails(s, th) \/ Broadcast(s, th) \/ BroadcastFails(s, th)
      PROVE  Inv'
  BY <1>3, PublishingKeeps
<1>4. ASSUME NEW s \in Servers, FanOutStops(s) \/ Crash(s) PROVE Inv'
  BY <1>4, PublishingKeeps DEF Threads
<1>5. ASSUME NEW s \in Servers, AdminDeletes(s) PROVE Inv'
  <2>1. /\ UNCHANGED <<peers, minted, job, net, spoken, made, gone, overtaken>>
        /\ faults' = faults + 1 /\ Noted
    BY <1>5 DEF AdminDeletes, Fault, Noted, spoken
  <2>2. TablesShaped'
    BY <1>5, <2>1, TablesKept DEF AdminDeletes
  <2>3. JobsShaped' /\ NetIsOwn'
    BY <2>1, JobsKept, NetKept
  <2> QED
    BY <2>1, <2>2, <2>3, Keeps
<1>6. ASSUME NEW m \in net, Receive(m) \/ ReceiveTwice(m) PROVE Inv'
  BY <1>6, HandleKeeps DEF Receive, ReceiveTwice, Fault
<1>7. ASSUME NEW m \in net, Lose(m) PROVE Inv'
  <2>1. /\ UNCHANGED <<peers, tables, job, spoken, history>> /\ net' \subseteq net
        /\ faults' = faults + 1
    BY <1>7 DEF Lose, Fault
  <2>2. TablesShaped'
    BY <2>1 DEF tables, spoken, TablesShaped, Inv, TypeOK, Shape
  <2>3. JobsShaped' /\ NetIsOwn'
    BY <2>1, JobsKept, NetKept DEF history
  <2> QED
    BY <2>1, <2>2, <2>3, Keeps DEF history
<1>8. ASSUME UNCHANGED vars PROVE Inv'
  <2>1. UNCHANGED <<peers, rows, doubled, minted, job, net, faults, said, unsaid, made, gone>>
    BY <1>8 DEF vars
  <2>2. TablesShaped'
    BY <2>1, Parts DEF TablesShaped
  <2>3. JobsShaped' /\ NetIsOwn'
    BY <2>1, JobsKept, NetKept
  <2> QED
    BY <2>1, <2>2, <2>3, Keeps
<1> QED
  BY <1>1, <1>2, <1>3, <1>4, <1>5, <1>6, <1>7, <1>8 DEF Next

\* Sync.TypeOK: every text a server sends tells of a record posted on it or of a
\* mail deleted on it, never of what it was told (replication.py never echoes).
THEOREM SyncTypeCorrect == Spec => []TypeOK
<1>1. Inv => TypeOK
  BY DEF Inv
<1> QED
  BY InitInv, NextInv, <1>1, PTL DEF Spec

----------------------------------------------------------------------------
(* The broadcasts *)

\* A bulletin the mesh has been told of by server s, or is about to be, or that
\* was broken off.
Covered(s, e) == e \in said[s] \cup unsaid[s] \cup UNION {job[s][th].news : th \in Threads}

NewsStay == \A s \in Servers : \A e : Covered(s, e) => Covered(s, e)'

\* A job set where there was none takes nothing away and brings its own news.
LEMMA NewsHanded ==
  ASSUME Inv, NEW s \in Servers, NEW th \in Threads, Free(s, th), NEW sends, NEW news, NEW aired,
         Publish(s, th, sends, news, aired), UNCHANGED spoken
  PROVE  NewsStay /\ \A e \in news : Covered(s, e)'
<1>1. PICK j : j = [sends |-> sends, news |-> news, aired |-> aired]
  OBVIOUS
<1>2. job' = [job EXCEPT ![s][th] = j] /\ j.news = news
  BY <1>1 DEF Publish
<1>3. job[s][th].news = {}
  BY DEF Free, NoJob
<1>4. job'[s][th] = j /\ \A x \in Servers, u \in Threads : ~(x = s /\ u = th) => job'[x][u] = job[x][u]
  BY <1>2 DEF Inv, Shape
<1>5. \A x \in Servers, u \in Threads : job[x][u].news \subseteq job'[x][u].news
  BY <1>3, <1>4
<1> QED
  BY <1>2, <1>4, <1>5 DEF NewsStay, Covered, spoken

\* With another send done the news are the same.
LEMMA NewsWait ==
  ASSUME Inv, NEW s \in Servers, NEW th \in Threads, NEW send, Done(s, th, send), UNCHANGED spoken
  PROVE  NewsStay
<1>1. PICK j : j = [sends |-> job[s][th].sends \ {send}, news |-> job[s][th].news,
                    aired |-> job[s][th].aired]
  OBVIOUS
<1>2. job' = [job EXCEPT ![s][th] = j] /\ j.news = job[s][th].news
  BY <1>1 DEF Done
<1>3. \A x \in Servers, u \in Threads : job'[x][u].news = job[x][u].news
  BY <1>2 DEF Inv, Shape
<1> QED
  BY <1>3 DEF NewsStay, Covered, spoken

\* A job that is dropped is written down, as said or as unsaid.
LEMMA NewsWritten ==
  ASSUME Inv, NEW s \in Servers, NEW threads \in SUBSET Threads,
         \A x \in Servers, u \in Threads :
            ~(x = s /\ u \in threads) => job'[x][u].news = job[x][u].news,
         \A x \in Servers : said[x] \subseteq said'[x] /\ unsaid[x] \subseteq unsaid'[x],
         \A u \in threads : job[s][u].news \subseteq said'[s] \cup unsaid'[s]
  PROVE  NewsStay
BY DEF NewsStay, Covered

\* The steps of a publishing keep its news until they are out or broken off.
LEMMA PublishingTells ==
  ASSUME Inv, NEW s \in Servers, NEW th \in Threads,
         \/ Send(s, th) \/ SendFails(s, th) \/ Broadcast(s, th) \/ BroadcastFails(s, th)
         \/ FanOutStops(s) \/ Crash(s)
  PROVE  NewsStay
<1> USE DEF Inv, Shape
<1>1. CASE Send(s, th) \/ SendFails(s, th)
  BY <1>1, NewsWait DEF Send, SendFails
<1>2. CASE Broadcast(s, th)
  <2>0. PICK threads \in SUBSET Threads : threads = {th}
    OBVIOUS
  <2>1. \A x \in Servers, u \in Threads : ~(x = s /\ u \in threads) => job'[x][u] = job[x][u]
    BY <1>2, <2>0 DEF Broadcast
  <2>2. /\ \A x \in Servers : said[x] \subseteq said'[x] /\ unsaid[x] \subseteq unsaid'[x]
        /\ \A u \in threads : job[s][u].news \subseteq said'[s]
    BY <1>2, <2>0 DEF Broadcast
  <2> QED
    BY <2>1, <2>2, NewsWritten
<1>3. CASE BroadcastFails(s, th)
  <2>0. PICK threads \in SUBSET Threads : threads = {th}
    OBVIOUS
  <2>1. \A x \in Servers, u \in Threads : ~(x = s /\ u \in threads) => job'[x][u] = job[x][u]
    BY <1>3, <2>0 DEF BroadcastFails
  <2>2. /\ \A x \in Servers : said[x] \subseteq said'[x] /\ unsaid[x] \subseteq unsaid'[x]
        /\ \A u \in threads : job[s][u].news \subseteq unsaid'[s]
    BY <1>3, <2>0 DEF BroadcastFails, Unsaid
  <2> QED
    BY <2>1, <2>2, NewsWritten
<1>4. CASE FanOutStops(s)
  <2>0. PICK threads \in SUBSET Threads : threads = {"mesh"}
    BY DEF Threads
  <2>1. \A x \in Servers, u \in Threads : ~(x = s /\ u \in threads) => job'[x][u] = job[x][u]
    BY <1>4, <2>0 DEF FanOutStops
  <2>2. /\ \A x \in Servers : said[x] \subseteq said'[x] /\ unsaid[x] \subseteq unsaid'[x]
        /\ \A u \in threads : job[s][u].news \subseteq unsaid'[s]
    BY <1>4, <2>0 DEF FanOutStops, Unsaid
  <2> QED
    BY <2>1, <2>2, NewsWritten
<1>5. CASE Crash(s)
  <2>1. \A x \in Servers, u \in Threads : ~(x = s /\ u \in Threads) => job'[x][u] = job[x][u]
    BY <1>5 DEF Crash
  <2>2. /\ \A x \in Servers : said[x] \subseteq said'[x] /\ unsaid[x] \subseteq unsaid'[x]
        /\ \A u \in Threads : job[s][u].news \subseteq unsaid'[s]
    BY <1>5 DEF Crash, Unsaid
  <2> QED
    BY <2>1, <2>2, NewsWritten
<1> QED
  BY <1>1, <1>2, <1>3, <1>4, <1>5

\* The news a step brings into a table.
NewsCome == \A s \in Servers : \A e \in rows'[s] :
               e \in rows[s] \/ (BroadcastsOnPost(e) => Covered(s, e)')

\* A row more, of a record whose news the thread has in hand.
LEMMA RowWithNews ==
  ASSUME Inv, NEW s \in Servers, NEW th \in Threads, Free(s, th), NEW e, Insert(s, e),
         NEW sends, NEW aired, Publish(s, th, sends, News(e), aired), UNCHANGED spoken
  PROVE  NewsStay /\ NewsCome
<1>1. NewsStay /\ \A x \in News(e) : Covered(s, x)'
  BY NewsHanded
<1>2. \A d \in Servers : \A x \in rows'[d] : x \in rows[d] \/ (x = e /\ d = s)
  BY DEF Insert, Inv, Shape
<1> QED
  BY <1>1, <1>2 DEF NewsCome, News

\* A text that is handled.
LEMMA HandleTells ==
  ASSUME Inv, NEW m \in net, Handle(m), UNCHANGED spoken
  PROVE  NewsStay /\ NewsCome
<1>1. m.to \in Servers /\ Free(m.to, "mesh") /\ "mesh" \in Threads
  BY DEF Inv, TypeOK, NetIsOwn, Sendable, Handle, Threads
<1>2. CASE UNCHANGED <<tables, job>>
  BY <1>2 DEF NewsStay, NewsCome, Covered, spoken, tables
<1>3. ASSUME NEW e, AcceptRecord(m.to, e), PublishSynced(m, e) PROVE NewsStay /\ NewsCome
  BY <1>1, <1>3, RowWithNews DEF AcceptRecord, PublishSynced
<1>4. ASSUME NEW e, NEW kind, NEW uid, AcceptDeletion(m.to, kind, uid), PublishSynced(m, e)
      PROVE  NewsStay /\ NewsCome
  <2>1. NewsStay
    BY <1>1, <1>4, NewsHanded DEF PublishSynced
  <2>2. \A d \in Servers : rows'[d] \subseteq rows[d]
    BY <1>1, <1>4 DEF AcceptDeletion, DeleteByUid, Without, Inv, Shape
  <2> QED
    BY <2>1, <2>2 DEF NewsCome
<1> QED
  BY <1>2, <1>3, <1>4 DEF Handle, Accept

\* Every step tells the mesh, or has told it, or is broken off.
LEMMA NextTells == Inv /\ UrgentIsAnnounced /\ [Next]_vars => UrgentIsAnnounced'
<1> SUFFICES ASSUME Inv, [Next]_vars PROVE NewsStay /\ NewsCome
  BY DEF UrgentIsAnnounced, NewsStay, NewsCome, Covered
<1>1. ASSUME NEW s \in Servers, NEW th \in Threads, Post(s, th) PROVE NewsStay /\ NewsCome
  <2>1. PICK r, sends, aired : Insert(s, r.rec) /\ Publish(s, th, sends, News(r.rec), aired)
    BY <1>1 DEF Post, PublishRecord
  <2> QED
    BY <1>1, <2>1, RowWithNews DEF Post
<1>2. ASSUME NEW s \in Servers, OwnerDeletes(s) PROVE NewsStay /\ NewsCome
  <2>1. PICK uid, sends : DeleteByUid(s, "MAIL", uid) /\ Publish(s, "mesh", sends, {}, {})
    BY <1>2 DEF OwnerDeletes
  <2>2. NewsStay
    BY <1>2, <2>1, NewsHanded DEF OwnerDeletes, Threads
  <2>3. \A d \in Servers : rows'[d] \subseteq rows[d]
    BY <2>1 DEF DeleteByUid, Without, Inv, Shape
  <2> QED
    BY <2>2, <2>3 DEF NewsCome
<1>3. ASSUME NEW s \in Servers, NEW th \in Threads,
             \/ Send(s, th) \/ SendFails(s, th) \/ Broadcast(s, th) \/ BroadcastFails(s, th)
             \/ FanOutStops(s) \/ Crash(s)
      PROVE  NewsStay /\ NewsCome
  <2>1. NewsStay
    BY <1>3, PublishingTells
  <2>2. UNCHANGED rows
    BY <1>3 DEF Send, SendFails, Broadcast, BroadcastFails, FanOutStops, Crash, tables
  <2> QED
    BY <2>1, <2>2 DEF NewsCome
<1>4. ASSUME NEW s \in Servers, AdminDeletes(s) PROVE NewsStay /\ NewsCome
  <2>1. UNCHANGED <<job, spoken>>
    BY <1>4 DEF AdminDeletes
  <2>2. \A d \in Servers : rows'[d] \subseteq rows[d]
    BY <1>4 DEF AdminDeletes, DeleteRow, DeleteByUid, Without, Inv, Shape
  <2> QED
    BY <2>1, <2>2 DEF NewsStay, NewsCome, Covered, spoken
<1>5. ASSUME NEW m \in net, Receive(m) \/ ReceiveTwice(m) PROVE NewsStay /\ NewsCome
  BY <1>5, HandleTells DEF Receive, ReceiveTwice
<1>6. ASSUME UNCHANGED <<rows, job, said, unsaid>> PROVE NewsStay /\ NewsCome
  BY <1>6 DEF NewsStay, NewsCome, Covered
<1>7. ASSUME NEW m \in net, Lose(m) PROVE UNCHANGED <<rows, job, said, unsaid>>
  BY <1>7 DEF Lose, tables, spoken
<1>8. "mesh" \in Threads
  BY DEF Threads
<1> QED
  BY <1>1, <1>2, <1>3, <1>4, <1>5, <1>6, <1>7, <1>8 DEF Next, vars

\* Sync.UrgentIsAnnounced: an Urgent bulletin that a server stores, its own or a
\* peer's, is broadcast there after the last peer has had its turn, whether that
\* peer was reached or not, unless the publishing was broken off
\* (Replication.publish, process_message).
THEOREM UrgentIsToldOrBrokenOff == Spec => []UrgentIsAnnounced
<1>1. Init => UrgentIsAnnounced
  BY DEF Init, UrgentIsAnnounced
<1> QED
  BY InitInv, NextInv, NextTells, <1>1, PTL DEF Spec

\* Records without a '|' in a field: every field is one part.
PlainBulletin(a, b, c, d, uid) ==
    [kind |-> "BULLETIN", board |-> <<a>>, name |-> <<b>>, subject |-> <<c>>, content |-> <<d>>,
     uid |-> uid]
PlainMail(a, b, c, d, f, uid) ==
    [kind |-> "MAIL", sender |-> <<a>>, name |-> <<b>>, to |-> <<c>>, subject |-> <<d>>,
     content |-> <<f>>, uid |-> uid]
PlainChannel(a, b) == [kind |-> "CHANNEL", name |-> <<a>>, url |-> <<b>>]

\* A sequence with one part more.
LEMMA PartAdded ==
  ASSUME NEW S, NEW s \in Seq(S), NEW x \in S
  PROVE  /\ s \o <<x>> \in Seq(S) /\ Len(s \o <<x>>) = Len(s) + 1
         /\ \A i \in 1..Len(s) : (s \o <<x>>)[i] = s[i]
         /\ (s \o <<x>>)[Len(s) + 1] = x
OBVIOUS

Are2(s, a, b) == Len(s) = 2 /\ s[1] = a /\ s[2] = b
Are5(s, a, b, c, d, f) == /\ Len(s) = 5 /\ s[1] = a /\ s[2] = b /\ s[3] = c /\ s[4] = d
                          /\ s[5] = f
Are6(s, a, b, c, d, f, g) == /\ Len(s) = 6 /\ s[1] = a /\ s[2] = b /\ s[3] = c /\ s[4] = d
                             /\ s[5] = f /\ s[6] = g

\* The parts of two, of five and of six fields of one part each.
LEMMA PartsInOrder ==
  \A a, b, c, d, f, g :
     /\ Are2(<<a>> \o <<b>>, a, b)
     /\ Are5(<<a>> \o <<b>> \o <<c>> \o <<d>> \o <<f>>, a, b, c, d, f)
     /\ Are6(<<a>> \o <<b>> \o <<c>> \o <<d>> \o <<f>> \o <<g>>, a, b, c, d, f, g)
<1> TAKE a, b, c, d, f, g
<1> DEFINE S == {a, b, c, d, f, g}
           s1 == <<a>>
           s2 == s1 \o <<b>>
           s3 == s2 \o <<c>>
           s4 == s3 \o <<d>>
           s5 == s4 \o <<f>>
           s6 == s5 \o <<g>>
<1>0. a \in S /\ b \in S /\ c \in S /\ d \in S /\ f \in S /\ g \in S
  OBVIOUS
<1> HIDE DEF S
<1>1. s1 \in Seq(S) /\ Len(s1) = 1 /\ s1[1] = a
  BY <1>0
<1> HIDE DEF s1
<1>2. /\ s2 \in Seq(S) /\ Len(s2) = 2
      /\ s2[1] = a /\ s2[2] = b
  <2>1. /\ s2 \in Seq(S) /\ Len(s2) = Len(s1) + 1
        /\ \A i \in 1..Len(s1) : s2[i] = s1[i]
        /\ s2[Len(s1) + 1] = b
    <3> s1 \in Seq(S) /\ b \in S
      BY <1>0, <1>1
    <3> QED
      BY PartAdded, Zenon
  <2> HIDE DEF s2
  <2> QED
    BY <1>1, <2>1
<1> HIDE DEF s2
<1>3. /\ s3 \in Seq(S) /\ Len(s3) = 3
      /\ s3[1] = a /\ s3[2] = b /\ s3[3] = c
  <2>1. /\ s3 \in Seq(S) /\ Len(s3) = Len(s2) + 1
        /\ \A i \in 1..Len(s2) : s3[i] = s2[i]
        /\ s3[Len(s2) + 1] = c
    <3> s2 \in Seq(S) /\ c \in S
      BY <1>0, <1>2
    <3> QED
      BY PartAdded, Zenon
  <2> HIDE DEF s3
  <2> QED
    BY <1>2, <2>1
<1> HIDE DEF s3
<1>4. /\ s4 \in Seq(S) /\ Len(s4) = 4
      /\ s4[1] = a /\ s4[2] = b /\ s4[3] = c /\ s4[4] = d
  <2>1. /\ s4 \in Seq(S) /\ Len(s4) = Len(s3) + 1
        /\ \A i \in 1..Len(s3) : s4[i] = s3[i]
        /\ s4[Len(s3) + 1] = d
    <3> s3 \in Seq(S) /\ d \in S
      BY <1>0, <1>3
    <3> QED
      BY PartAdded, Zenon
  <2> HIDE DEF s4
  <2> QED
    BY <1>3, <2>1
<1> HIDE DEF s4
<1>5. /\ s5 \in Seq(S) /\ Len(s5) = 5
      /\ s5[1] = a /\ s5[2] = b /\ s5[3] = c /\ s5[4] = d /\ s5[5] = f
  <2>1. /\ s5 \in Seq(S) /\ Len(s5) = Len(s4) + 1
        /\ \A i \in 1..Len(s4) : s5[i] = s4[i]
        /\ s5[Len(s4) + 1] = f
    <3> s4 \in Seq(S) /\ f \in S
      BY <1>0, <1>4
    <3> QED
      BY PartAdded, Zenon
  <2> HIDE DEF s5
  <2> QED
    BY <1>4, <2>1
<1> HIDE DEF s5
<1>6. /\ s6 \in Seq(S) /\ Len(s6) = 6
      /\ s6[1] = a /\ s6[2] = b /\ s6[3] = c /\ s6[4] = d /\ s6[5] = f /\ s6[6] = g
  <2>1. /\ s6 \in Seq(S) /\ Len(s6) = Len(s5) + 1
        /\ \A i \in 1..Len(s5) : s6[i] = s5[i]
        /\ s6[Len(s5) + 1] = g
    <3> s5 \in Seq(S) /\ g \in S
      BY <1>0, <1>5
    <3> QED
      BY PartAdded, Zenon
  <2> HIDE DEF s6
  <2> QED
    BY <1>5, <2>1
<1> HIDE DEF s6
<1>7. Are2(s2, a, b) /\ Are5(s5, a, b, c, d, f) /\ Are6(s6, a, b, c, d, f, g)
  BY <1>2, <1>5, <1>6 DEF Are2, Are5, Are6
<1> QED
  BY <1>7, Zenon DEF s1, s2, s3, s4, s5, s6

\* The branches of encode.
LEMMA EncodeCases ==
  \A e : /\ e.kind = "BULLETIN" => Encode(e) =
               [kind |-> e.kind,
                parts |-> e.board \o e.name \o e.subject \o e.content \o <<e.uid>>]
         /\ e.kind = "MAIL" => Encode(e) =
               [kind |-> e.kind,
                parts |-> e.sender \o e.name \o e.to \o e.subject \o e.content \o <<e.uid>>]
         /\ e.kind = "CHANNEL" => Encode(e) = [kind |-> e.kind, parts |-> e.name \o e.url]
BY DEF Encode, IsBulletin, IsMail, IsChannel

\* A record without a '|' in a field comes over the wire unchanged: encode and
\* decode of replication.py agree on the number of fields and on their order.
THEOREM CleanRecordsSurvive ==
  \A a, b, c, d, f, uid :
     /\ Decode(Encode(PlainBulletin(a, b, c, d, uid))) = {PlainBulletin(a, b, c, d, uid)}
     /\ Decode(Encode(PlainMail(a, b, c, d, f, uid))) = {PlainMail(a, b, c, d, f, uid)}
     /\ Decode(Encode(PlainChannel(a, b))) = {PlainChannel(a, b)}
<1> TAKE a, b, c, d, f, uid
<1> DEFINE two  == <<a>> \o <<b>>
           five == <<a>> \o <<b>> \o <<c>> \o <<d>> \o <<uid>>
           six  == <<a>> \o <<b>> \o <<c>> \o <<d>> \o <<f>> \o <<uid>>
<1>0. Are2(two, a, b) /\ Are5(five, a, b, c, d, uid) /\ Are6(six, a, b, c, d, f, uid)
  BY PartsInOrder, Zenon
<1>1. Decode(Encode(PlainBulletin(a, b, c, d, uid))) = {PlainBulletin(a, b, c, d, uid)}
  <2> DEFINE e == PlainBulletin(a, b, c, d, uid)
  <2>1. /\ e.kind = "BULLETIN" /\ e.board = <<a>> /\ e.name = <<b>> /\ e.subject = <<c>>
        /\ e.content = <<d>> /\ e.uid = uid
    BY DEF PlainBulletin
  <2>2. Encode(e) = [kind |-> "BULLETIN", parts |-> five]
    <3> HIDE DEF e
    <3> QED
      BY <2>1, EncodeCases, Zenon
  <2> HIDE DEF five
  <2>3. Decode([kind |-> "BULLETIN", parts |-> five]) = {e}
    BY <1>0 DEF Decode, BulletinIn, Field, PlainBulletin, Are5
  <2> QED
    BY <2>2, <2>3
<1>2. Decode(Encode(PlainMail(a, b, c, d, f, uid))) = {PlainMail(a, b, c, d, f, uid)}
  <2> DEFINE e == PlainMail(a, b, c, d, f, uid)
  <2>1. /\ e.kind = "MAIL" /\ e.sender = <<a>> /\ e.name = <<b>> /\ e.to = <<c>>
        /\ e.subject = <<d>> /\ e.content = <<f>> /\ e.uid = uid
    BY DEF PlainMail
  <2>2. Encode(e) = [kind |-> "MAIL", parts |-> six]
    <3> HIDE DEF e
    <3> QED
      BY <2>1, EncodeCases, Zenon
  <2> HIDE DEF six
  <2>3. Decode([kind |-> "MAIL", parts |-> six]) = {e}
    BY <1>0 DEF Decode, MailIn, Field, PlainMail, Are6
  <2> QED
    BY <2>2, <2>3
<1>3. Decode(Encode(PlainChannel(a, b))) = {PlainChannel(a, b)}
  <2> DEFINE e == PlainChannel(a, b)
  <2>1. e.kind = "CHANNEL" /\ e.name = <<a>> /\ e.url = <<b>>
    BY DEF PlainChannel
  <2>2. Encode(e) = [kind |-> "CHANNEL", parts |-> two]
    <3> HIDE DEF e
    <3> QED
      BY <2>1, EncodeCases, Zenon
  <2> HIDE DEF two
  <2>3. Decode([kind |-> "CHANNEL", parts |-> two]) = {e}
    <3>1. PICK text : text = [kind |-> "CHANNEL", parts |-> two]
      OBVIOUS
    <3>2. text.kind = "CHANNEL" /\ Are2(text.parts, a, b)
      BY <1>0, <3>1
    <3>3. ChannelIn(text) = e
      BY <3>2 DEF ChannelIn, Field, PlainChannel, Are2
    <3>4. Decode(text) = {ChannelIn(text)}
      BY <3>2 DEF Decode, Are2
    <3> QED
      BY <3>1, <3>3, <3>4
  <2> QED
    BY <2>2, <2>3
<1> QED
  BY <1>1, <1>2, <1>3

----------------------------------------------------------------------------
\* The initial states of Sync are initial states of Replicas.
LEMMA InitAbstract == Init => Abstract!Init
BY SyncAssumption DEF SyncAssumption, Init, Abstract!Init

\* The abstract steps in terms of Sync's own operators.
LEMMA SameWithout == \A s, kind, uid : Abstract!Without(s, kind, uid) = Without(s, kind, uid)
BY SameIdentities DEF Abstract!Without, Without

\* The same of the unique_ids a server makes.
LEMMA SameMint == \A s : Abstract!NewUid(s) = NewUid(s) /\ (Abstract!Mint(s) <=> Mint(s))
BY DEF Abstract!NewUid, NewUid, Abstract!Mint, Mint

\* Post makes a record.
LEMMA PostMakes == ASSUME NEW s \in Servers, NEW th \in Threads, Post(s, th)
                   PROVE  Abstract!Make(s)
<1>1. PICK t \in Templates :
         LET r == [rec |-> Identified(t.rec, NewUid(s)), cuts |-> t.cuts, aired |-> t.aired,
                   by |-> s]
         IN  made' = made \cup {r} /\ rows' = [rows EXCEPT ![s] = @ \cup {r.rec}]
  BY DEF Post, Insert
<1>2. Mint(s) /\ UNCHANGED <<peers, gone, wiped>>
  BY DEF Post
<1> QED
  BY <1>1, <1>2, SameMint, SameIdentities DEF Abstract!Make

\* An owner's deletion is one.
LEMMA OwnerDeletesDeletes == ASSUME NEW s \in Servers, OwnerDeletes(s)
                             PROVE  Abstract!Delete(s)
BY SameWithout, SameIdentities
   DEF OwnerDeletes, DeleteByUid, Abstract!Delete, Abstract!Remove

\* An admin's deletion takes the record it is of, and rows that share its identity.
LEMMA AdminDeletesWipes == ASSUME Inv, NEW s \in Servers, AdminDeletes(s)
                           PROVE  Abstract!Wipe(s)
<1>1. PICK e \in rows[s] : /\ IF IsChannel(e) THEN DeleteRow(s, e) ELSE DeleteByUid(s, e.kind, e.uid)
                           /\ wiped' = wiped \cup {<<s, e>>}
  BY DEF AdminDeletes
<1>2. UNCHANGED <<peers, minted, made, gone>>
  BY DEF AdminDeletes
<1>3. \/ \E kept \in SUBSET rows[s] : /\ \A x \in rows[s] \ kept : x.kind = e.kind /\ Uid(x) = Uid(e)
                                      /\ rows' = [rows EXCEPT ![s] = kept]
      \/ UNCHANGED rows
  <2>1. CASE IsChannel(e)
    BY <1>1, <2>1 DEF DeleteRow
  <2>2. CASE ~IsChannel(e)
    <3>1. rows' = [rows EXCEPT ![s] = Without(s, e.kind, e.uid)] /\ Uid(e) = e.uid
      BY <1>1, <2>2 DEF DeleteByUid, Uid
    <3>2. /\ Without(s, e.kind, e.uid) \in SUBSET rows[s]
          /\ \A x \in rows[s] \ Without(s, e.kind, e.uid) : x.kind = e.kind /\ Uid(x) = e.uid
      BY DEF Without
    <3> QED
      BY <3>1, <3>2
  <2> QED
    BY <2>1, <2>2
<1> QED
  BY <1>1, <1>2, <1>3, SameIdentities DEF Abstract!Wipe

\* What a server takes in is a part of a record posted, or a mail deleted, on a
\* listed peer.
LEMMA HandleLearns ==
  ASSUME Inv, NEW m \in net, Handle(m), UNCHANGED <<peers, made, gone, wiped>>
  PROVE  \/ Abstract!Learn(m.to) \/ Abstract!Obey(m.to)
         \/ UNCHANGED <<peers, rows, minted, made, gone, wiped>>
<1>1. CASE Read(m) = {}
  BY <1>1 DEF Handle, tables
<1>2. ASSUME NEW e \in Read(m), Accept(m.to, e)
      PROVE  Abstract!Learn(m.to) \/ Abstract!Obey(m.to)
  <2>1. m.from \in peers[m.to] /\ e \in Decode(m.text)
    BY <1>2 DEF Read, FromPeer
  <2>2. \/ OwnRecord(m.from, m.text) \/ OwnBroadcast(m.from, m.text)
        \/ OwnDeletion(m.from, m.text)
    BY DEF Inv, TypeOK, NetIsOwn, Sendable
  <2>3. CASE OwnRecord(m.from, m.text) \/ OwnBroadcast(m.from, m.text)
    <3>1. PICK r \in made : r.by = m.from /\ m.text \in Sent(r)
      BY <2>3 DEF OwnRecord, OwnBroadcast, Sent
    <3>2. e \in Abstract!Readings(r)
      BY <2>1, <3>1, SameReadings DEF Readings
    <3>3. Abstract!Take(m.to, e)
      BY <1>2, SameWithout, SameIdentities, SameMint
         DEF Accept, AcceptDeletion, AcceptRecord, DeleteByUid, Insert, Abstract!Take, Abstract!Remove
    <3> QED
      BY <2>1, <3>1, <3>2, <3>3 DEF Abstract!Learn
  <2>4. CASE OwnDeletion(m.from, m.text)
    <3>1. PICK g \in gone : g[1] = m.from /\ m.text = Encode(Deletion("DELETE_MAIL", g[2]))
      BY <2>4 DEF OwnDeletion
    <3>2. e = Deletion("DELETE_MAIL", g[2])
      BY <2>1, <3>1, DeletionIsRead
    <3>3. e.kind = "DELETE_MAIL" /\ e.uid = g[2]
      BY <3>2 DEF Deletion
    <3>4. AcceptDeletion(m.to, "MAIL", g[2])
      BY <1>2, <3>3 DEF Accept
    <3> QED
      BY <2>1, <3>1, <3>4, SameWithout
         DEF AcceptDeletion, DeleteByUid, Abstract!Obey, Abstract!Remove
  <2> QED
    BY <2>2, <2>3, <2>4
<1> QED
  BY <1>1, <1>2 DEF Handle

\* Every step of Sync is a step of Replicas or none at all.
LEMMA StepAbstract == Inv /\ [Next]_vars => [Abstract!Next]_(Abstract!vars)
<1> SUFFICES ASSUME Inv, [Next]_vars
             PROVE  Abstract!Next \/ UNCHANGED <<peers, rows, minted, made, gone, wiped>>
  BY DEF Abstract!vars
<1>1. ASSUME NEW s \in Servers, NEW th \in Threads, Post(s, th) PROVE Abstract!Next
  BY <1>1, PostMakes DEF Abstract!Next
<1>2. ASSUME NEW s \in Servers, OwnerDeletes(s) \/ AdminDeletes(s) PROVE Abstract!Next
  BY <1>2, OwnerDeletesDeletes, AdminDeletesWipes DEF Abstract!Next
<1>3. ASSUME NEW s \in Servers, NEW th \in Threads,
             \/ Send(s, th) \/ SendFails(s, th) \/ Broadcast(s, th) \/ BroadcastFails(s, th)
             \/ FanOutStops(s) \/ Crash(s)
      PROVE  UNCHANGED <<peers, rows, minted, made, gone, wiped>>
  BY <1>3 DEF Send, SendFails, Broadcast, BroadcastFails, FanOutStops, Crash, tables, history
<1>4. ASSUME NEW m \in net, Receive(m) \/ ReceiveTwice(m)
      PROVE  Abstract!Next \/ UNCHANGED <<peers, rows, minted, made, gone, wiped>>
  <2>1. m.to \in Servers
    BY DEF Inv, TypeOK, NetIsOwn, Sendable
  <2>2. Handle(m) /\ UNCHANGED <<peers, made, gone, wiped>>
    BY <1>4 DEF Receive, ReceiveTwice
  <2> QED
    BY <2>1, <2>2, HandleLearns DEF Abstract!Next
<1>5. ASSUME NEW m \in net, Lose(m) PROVE UNCHANGED <<peers, rows, minted, made, gone, wiped>>
  BY <1>5 DEF Lose, tables, history
<1>6. ASSUME UNCHANGED vars PROVE UNCHANGED <<peers, rows, minted, made, gone, wiped>>
  BY <1>6 DEF vars
<1>7. "mesh" \in Threads
  BY DEF Threads
<1> QED
  BY <1>1, <1>2, <1>3, <1>4, <1>5, <1>6, <1>7 DEF Next

\* Sync.KeepsItsPromise: whatever is lost, repeated, reordered or broken off, a
\* table changes only by its own nodes and admin, by what was deleted on a listed
\* peer, and by what a peer reads in the chunks of what was posted on one
\* (message_processing.on_receive, Store.accept, transport.chunks).
THEOREM SyncImplementsReplicas == Spec => KeepsItsPromise
  BY InitInv, NextInv, InitAbstract, StepAbstract, PTL DEF Spec, KeepsItsPromise, Abstract!Spec
=============================================================================
