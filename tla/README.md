# A TLA+ model of TC²-BBS

TC²-BBS is a bulletin board for Meshtastic radio nodes. Nodes send it short
texts; it keeps a conversation with each of them, stores mail, bulletins and
channels in sqlite, and exchanges those records with peer servers over the same
radio. This directory holds TLA+ modules of that program, the TLC runs that
check them on small instances, and theorems checked by TLAPS.

Paths below are relative to the repository root (`src/`).

## 1. The system

| Part | State it keeps | Operations | Talks to |
|---|---|---|---|
| `session.py` Session | per node: conversation state, time of last message | `advance` (one message), `check_timeouts` (idle sweep) | flows, through `Deps` |
| `flows/mail.py` | nothing of its own: `MAIL` steps 1-8, `CHECK_MAIL` 1-2 live in the session | one handler per step, `SM,,` and `CM` | Store, Lookup |
| `flows/bulletin.py`, `board.py` | likewise: menu, action, read, post, content, `CHECK_BULLETIN` | one handler per command, `PB,,` and `CB,,`, Urgent allow-list | Store, Lookup |
| `flows/channel.py` | likewise: `CHANNEL_DIRECTORY` 1-4, `LIST_CHANNELS` | handlers, `CHP,,` and `CHL` | Store |
| `flows/navigation.py`, `stats.py`, `js8.py` | likewise | menus, statistics, JS8Call browsing | Store (unread count), JS8Call database |
| `adapters.py` Store, `database.py` | three tables, AUTOINCREMENT row ids, unique_ids | insert, delete, list, open, accept a peer's record | Replication |
| `replication.py` | list of peers | `publish`: sync a local record, broadcast an Urgent one; wire format | Transport |
| `message_processing.py` | nothing | `on_receive`, `process_message`, `check_timeouts` | all of the above |
| `roster.py` | nothing: reads the radio library's live dictionary | id by number, short name, nodes by short name | - |
| `server.py`, `mesh-bbs.service` | - | idle loop once a second; systemd restarts what ends | Session, Supervisor |
| `db_admin.py` | - (a second process on the same file) | delete bulletins, mail, channels by row id | database |
| `transport.py` | the radio interface | chunk, send, pace; swap the interface | radio library |
| `reconnect.py` Supervisor | back-off, time of next attempt, a lock | `check` each second, `on_connection_lost` | Transport |
| `js8call_integration.py`, `js8_db.py` | a socket, a thread, a second sqlite file | start, listen, frame, store, close | Transport |
| `config_init.py`, `settings.py` | - | parse the configuration once | - |

Three threads run: the radio library's callback thread (`on_receive`), the main
thread (idle loop: `supervisor.check`, `check_timeouts`), and the JS8Call
listener. The Session has no lock; the database serialises single statements.

### What is hard about it

* **Two threads on one Session.** `check_timeouts` reads a node's state, and
  resets it or finishes its draft later; posting sleeps seconds between chunks.
  Messages of the same node arrive in between.
* **State noted early and used late.** Listings kept in a state, the row id of
  the mail that is answered, the permission for Urgent, the roster entry of the
  author: all may be stale when used, since peers, the admin tool and the radio
  library change what they refer to.
* **Failure paths.** An exception in a reply to a message is caught at the edge
  and costs only that reply. The same exception in the idle sweep is caught by
  nobody and ends the process.
* **Peers.** Records come late, twice or never; nothing that came from a peer
  may be sent on; a deletion can overtake the record it deletes; a server may end
  between a write and the last send, or break off there; a long text arrives in
  chunks, each of which is read as a text of its own: the first as the record, cut
  short, and a later one as another record or as a deletion, if somebody's words
  happen to stand where it begins; a `|` typed by a user moves the fields behind it.
* **Two threads on one radio.** The callback thread and the idle loop both try to
  replace a dead interface, with a back-off that one of them ignores.
* **A stream.** JS8Call's JSON lines come in reads that end anywhere, on a thread
  that another thread closes the socket under.

### What makes each part correct

* Session: a draft with text is never lost but by its author; a draft left alone
  is settled in the end; a composing node has an activity time.
* Mail: only the addressee is shown a mail; a reply reaches the author of the
  mail that was shown; only the addressee's deletion is sent to the peers.
* Bulletins: nobody outside the allow-list posts to Urgent, whichever way.
* Store and replication: every local record is for the peers and no other is;
  an Urgent bulletin is broadcast, unless its publishing breaks off.
* Threads: a post holds lines of its own draft, in order; drafts suffer only
  when a message meets a sweep.
* Exchange between servers: a table changes by its own nodes and admin and by
  what was done on a listed peer, and by nothing else, whatever goes wrong; if
  nothing does, every record arrives, once.
* Supervisor: one interface open, but for those whose close failed; a live one is
  never closed; a lost one is replaced in the end.
* JS8Call client: every complete line is processed once and in order; the socket
  is closed; a listener whose socket `close` took ends.

## 2. The modules

| Module | Models | Notes |
|---|---|---|
| `Store` | `database.py`, `adapters.Store`, the decisions of `replication.publish`, the deletions of `db_admin.py` | tables are sets of rows; `outbox` holds the records that are for the peers; how they are sent is in `Sync` |
| `SessionState` | the states a node can be in, the live roster, `Lookup`, the outcomes of `flows/base.py` | extends `Store` |
| `MailFlow`, `BulletinFlow`, `ChannelFlow`, `Menus` | the flows, one action per handler | extend `SessionState` |
| `Conversation` | one server: `Session.advance` and `check_timeouts` over the flows, peers, admin tool, roster changes, restart | extends the four flows; the specification and its properties |
| `BbsService` | what a server promises its nodes: an abstract specification | knows no ids of rows, no menus, no sweep; implemented by `Conversation` |
| `SessionThreads` | one node's draft under the two threads, one access at a time | stands alone |
| `Wire` | the wire format of `replication.py` in both directions, the chunks of `transport.py`, the broadcast text | pure operators, no state |
| `Replicas` | what replication promises of several servers' tables: an abstract specification | uses `Wire` |
| `Sync` | several servers that publish to and hear from each other over a mesh that fails | extends `Wire`; implements `Replicas` |
| `Reconnect` | `reconnect.py` and the swap in `transport.py`, one access at a time on two threads | stands alone |
| `Js8Client` | `js8call_integration.py` and the writes of `js8_db.py` | stands alone |
| `MCMail`, `MCBoards`, `MCDirectory` | values of the constants of `Conversation` for TLC | |
| `MCSync`, `MCJs8` | the same for `Sync` and `Js8Client` | `Reconnect` and `SessionThreads` take theirs from the cfg |
| `Conversation_proofs` | proof of type correctness | |
| `Safety_proofs` | proofs of the safety invariants | extends `Conversation_proofs` |
| `Service_proofs` | `Conversation` implements `BbsService`; the properties of mail and drafts | extends `Safety_proofs` |
| `SessionThreads_proofs` | what holds of a draft under the two threads | extends `SessionThreads` |
| `Sync_proofs` | what a server may send, the round trip of a record, the refinement | extends `Sync` |
| `Reconnect_proofs` | mutual exclusion of attempts, and what follows | extends `Reconnect` |
| `Records_proofs` | what becomes of a record: it arrives as it was, once, and a deletion follows it | extends `Sync_proofs` |
| `Js8_proofs` | who owns the socket; how a stream is framed, for every stream and split | extends `Js8Client` |

### How the model corresponds to the code

*States.* A state is the dictionary of the code as a record with the same field
names (`command`, `step`, `board`, `recipient_id`, `reply_to_mail_id`, ...).
`None`, no entry, and `MAIN_MENU` are one state, as `_route` makes them. A step
number that no handler reads is left out. The content of a draft is `"empty"` or
`"text"`, which is all that `check_timeouts` distinguishes. A listing kept in a
state is the set of row ids it lists.

*Inputs.* `Says[n]` is the set of texts node `n` may send to a topic; `Numeral`
says which of them `int()` accepts, `LetterToBoard` which pick a board. Quick
commands and `x` are actions of their own, taken from any state, as `_route`
tries them first. Which of them the runs explore follows from the set of texts
and from `MaxRows`.

*A step of `Conversation`* is one whole `advance`, or one node's turn in
`check_timeouts`, or one peer record, one admin deletion, one change of the
roster. `activity` is the age of `_last_activity` as the sweep sees it: no
entry, recent, or past the timeout. `GoQuiet` is the passing of five minutes.

*Exceptions.* `Raise` is an exception out of a flow that answers a message: the
activity has been marked, the state has not moved. `on_receive` catches `KeyError`;
any other exception goes to the radio library's callback thread, which logs it and
goes on (that part is outside the repository and assumed). `SweepRaises` is the same
exception out of the sweep: `up` becomes FALSE, all conversations are gone, and
`Restart` is what `Restart=always` does. An exception may also come out of `publish`,
after the row is stored: the log line of a send to a peer reads the peer's roster
entry and raises `KeyError` when it has no user (`FanOutRaises`, `PeersRaise`). The
conversation then has not moved, and an END sent again posts the draft a second time;
in the sweep the server ends with the row stored.

*The roster.* A node is `unknown`, `named`, or present but `unnamed` (a user
entry without names: `short_name` gives None, `find_by_short_name` and
`long_name` raise `KeyError`).

*Ids.* `uuid4` is a counter that never repeats, tagged by the server that
minted it. Row ids are AUTOINCREMENT and never reused. A channel has no
unique_id in the code; the model gives it one as history only.

*`BbsService`* puts each node at a desk: free, reading one mail, writing to one
node, or posting to one board. A mail is put into the table by who writes to its
addressee, deleted by who reads it, a notice is posted by who may. `Conversation`
implements it under the mapping at its end: a row without its id, `outbox` as what
is for the peers, and a desk computed from the node's state *and* from the
mail it was last shown (`opened`), which the code does not keep. The state holds a row
id and a unique_id instead, and looks the mail up again when it is answered or deleted;
that the two always agree is what the refinement shows. A menu, a listing, a
roster change or a quiet node is a stutter. Telling the peers is the last part of a
deed and may fail: all is done then but the node sits on (`Done`), or the server
ends (`Close`).

*`SessionThreads`* takes apart what `Conversation` takes as one step: `Receive`,
`Route`, `MeshPost`, `MeshApply` on the mesh thread; `SweepBegins`, `SweepReads`,
`SweepChecks`, `SweepDiscards`, `SweepPosts`, `SweepApplies`, `SweepPops` on the
idle thread, each one access to `_states`, `_last_activity` or the database. A draft
is begun by the text that comes after `Prelude` others (`step`): no way to a draft is
shorter than three messages, so `Prelude` is 2.

*`Wire`* represents a text by its kind and by the parts between the `|` after it,
which is what `decode` splits it into. A field of a record is a sequence of parts:
one, unless a user typed a `|`. A part is a tuple, so that a word and a unique_id can
be compared, as they can on the wire. A text longer than a payload is cut within or
after the parts that `cuts` names, and every chunk is a text of its own. The first
begins with the sync prefix and is read as a whole record (`ChunkFrom`). A later one
begins with what the cut took from a part; where that is the name of a kind, typed by
some node, the peer reads it as a record or as a deletion (`Opens`, `LaterChunks`);
otherwise it is no sync text and a peer ignores it. The same can happen within the
broadcast of an Urgent bulletin, whose text holds the poster's name and subject
(`Aired`). Where exactly the 200 characters end depends on the text, so each template
names the parts they may fall in.

*`Sync`* has a step for each write of a table and for each send of a fan-out. A
server's two threads (`"mesh"` hears, `"idle"` finishes drafts) each hold at most one
publishing (`job`): the texts still to be sent, to which peer each, then the bulletin
to be broadcast (`news`) and the sync texts in that broadcast (`aired`). `Post` is
`Store.add_*`, `OwnerDeletes` is `Store.delete_mail`, `Receive` is `on_receive` with
`Store.accept`; a text is believed only if `bbs_nodes` lists its sender. What goes
wrong: a text is lost (`Lose`), arrives twice (`ReceiveTwice`), or in any order (`net`
is a set); a send raises and is logged (`SendFails`, `BroadcastFails`), or its logging
raises out of the loop over the peers and of `publish` (`FanOutStops`); the process
ends in the middle of a publishing (`Crash`); an admin deletes on one server
(`AdminDeletes`). `said` holds the bulletins a server has broadcast, `unsaid` those it
never will, since their publishing broke off; these, `made`, `gone`, `wiped` and
`overtaken` are history and guard nothing but the bound. A channel's url stands for
its identity, so that two posts of one url count as two channels.

*`Replicas`* has none of that: `Make`, `Learn`, `Delete`, `Obey`, `Wipe` act on the
tables alone. What a server may learn of a record posted on a listed peer is what
`Readings` makes of its chunks and of its broadcast, hidden records and deletions
included: that is what the code does, not what one would wish of it. `Sync` implements
`Replicas` with the identity mapping of the shared variables; a send, a loss or a crash
is a stutter. It is the statement that replication is one hop deep and that nothing
arrives that does not stand in something a listed peer's node posted.

*`Reconnect`* keeps the clock as differences: `wait` to the next attempt, `age` of
a thread's `now`. `"connection.lost"` may come late, twice, or not at all
(the library's heartbeat does not publish it). `get_interface` is `Rebuilt` or
`RebuildFails`, and takes as long as `Second` steps come before it. `wait` may be
negative: after a rebuild that took longer than the back-off the next attempt is set in
the past. The doubling reads the back-off (`Double`) and then writes it
(`StoreDoubled`), since `check` resets it without the lock. `CloseOld` may fail, which
`transport.py:60-63` swallows: the old interface may then be open still (`stuck`).

*`Js8Client`* takes a line for its number and kind, two bytes and a newline, so
that a read can end inside it and before the newline. `RecvBytes` returns any
number of bytes of what is left. `Decode` goes over the bytes one by one (`Take`),
as `decode_messages` splits them; `Complete` computes the lines that are expected
from the stream itself, and `InOrder` compares. `sock, self.sock = self.sock, None` is a
read and then a write, in `close` (`TakeSocket`, `ClearSocket`) and in the listener's
end (`TakeOwn`, `ForgetOwn`). A socket that the listener stores between the two of
`close` is overwritten without being shut, and nothing but the garbage collector closes
it then (`lost`).

## 3. The runs

| Run | Question | States |
|---|---|---|
| `conv_mail` | Mail is private, replies reach their author, deletions are the owner's, drafts are neither dropped nor forgotten; the server does what `BbsService` promises | 78,954 |
| `conv_boards` | Urgent is gated, what is made here and nothing else is for the peers, drafts and promises as above | 34,926 |
| `conv_directory` | Channels made here are for the peers and theirs are not echoed; the other menus are exercised; promises as above | 5,028 |
| `threads` | What the two threads can and cannot do to a draft | 1,046,041 |
| `sync` | Records arrive whole and once, deletions miss only what they overtake, Urgent bulletins are broadcast unless their publishing broke off, and the tables do what `Replicas` promises under every fault | 263,566 |
| `reconnect` | Two threads replace a dead radio: no interface is left open unless its close failed, none is closed alive, every loss is repaired in the end | 562,050 |
| `js8` | Framing over all splits, nothing read is lost, no socket is left open but one that `close` overwrote unseen, the listener ends | 20,084 |
| `v_quick_moves` | Quick commands do move the conversation (violation) | - |
| `v_idle_loop_dies` | The sweep can end the server (violation) | - |
| `v_draft_discarded` | A non-empty draft can be discarded (violation) | - |
| `v_draft_untimed` | A draft can be left without a timeout (violation) | - |
| `v_js8_close` | `close` may return without the listener ever finishing (violation) | - |

**Bounds.** Two nodes and two rows per table (`MaxRows`, counted in row ids, so that a
deleted row's id is used up). Two nodes suffice for every relation the properties are
about: an author and another node, an addressee and another node, an allowed node and
one that is not, two nodes with one short name. Two rows are needed for a mail and the
reply to it, and for a row id to be reused were it reusable. `Room` keeps a place for
a draft the sweep is about to finish, so that the bound never holds back the sweep,
and `GoQuiet` waits for that room. `MCMail` closes the other tables, `MCBoards` mail
and channels, `MCDirectory` mail and bulletins: no property relates two tables, and
each run's other texts still reach the other menus. One node at a time is `Flaky`, so
that the roster changes under it in every state. `SessionThreads` runs with one node
(Session has no state that two nodes share), a timeout of 1 and a clock up to 3, so
that two sweeps can find a draft old, and 9 messages: two in the menus, a subject, a
line, END, and a second draft with a line (7 in the two violation runs, which need no
more). It stops when messages and clock are used up, hence `CHECK_DEADLOCK FALSE`; the
other runs check deadlock.

`sync` has three servers, in two topologies: all list each other (the cycles an echo
would go round), and a row in which A sends to C, which does not list A (a text that
must not be believed, and a record that must not be relayed by B). Five templates: a
mail that fits; a mail cut in its unique_id; a mail whose second chunk begins with a
word that makes it a deletion; an Urgent bulletin with `|` in its subject, the end of
whose broadcast is a channel to whoever hears it; a channel. `MaxEvents` is 4, where a
post weighs 2 and a deletion or a fault 1: two posts on any threads; or a post with
two deletions or faults, among them a post, its deletion and a fault. `Posters`
bounds the servers whose nodes post to A and B: where all list each other, any two
servers are like any other two, and in the row A has no server that believes it and B
has one that does. Deletions happen on every server. A fifth unit takes longer than
five minutes and adds no combination of kinds that the properties distinguish. Servers that have heard everything stop, hence `CHECK_DEADLOCK
FALSE`.

`reconnect` starts its back-off at 1 with a cap of 3, so that it doubles once to a
value and once into the cap; two deaths, so that a late event of the first loss
meets the connection that replaced it and the second loss; three interfaces:
two that may die, and may not close either, and the one that is live after them. Time goes on for ever, so there is
no deadlock. `js8` has three streams of three or four lines, with every kind of
line and two urgent ones in a row; all splits of each are tried. It stops
when the listener has ended (`CHECK_DEADLOCK FALSE`).

**Fairness.** `Conversation`: `FairSpec` asks for weak fairness of `Sweep(n)`: the
main loop runs `check_timeouts` every second over every node and nothing disables a
node's turn but its own message, or the end of the process; and of `Restart`: systemd
restarts the service. Nothing else is fair: nodes may fall silent, peers may never
send. `DraftsSettle` needs no more. The runs for violations use `Spec`; their
properties are safety properties.

`Sync`: weak fairness of `GoesOn`, any step of a publishing (a loop on a running
thread) or of the mesh's delivery of what it does not lose. As `MaxEvents` bounds the
work, that is enough, and less than fairness of every thread. A loss is a fault, and
`EveryoneHears` promises nothing after one.
`Reconnect`: weak fairness of time, of the idle loop (`CheckDue`, `StartOver`), of
the callback thread and of an attempt under way; strong fairness of
`Rebuilt`, which says that a radio asked again and again is there at last. Without it
the property could only say that attempts do not stop.
`Js8Client`: weak fairness of the listener's own steps and of those of `close` once
it is called. Nothing says that it is called, nor that the JS8Call server sends
anything. `v_js8_close` has the same fairness.

### Properties

Of one server, *invariants* `MailPrivacy`, `UrgentGate`, `PeersHearOfLocal`,
`ComposingIsTimed`, `PostsArePrefixes`, `OnlyOverlapHurts`; *action properties*
`ReplyReachesAuthor`, `DeletionsAreOwned`, `DraftsAreNotDropped`; *liveness*
`DraftsSettle`; *refinement* `ServesAsPromised`. Of several servers, *invariants*
`OneRowEach`, `RecordsArriveWhole`, `GhostsWereOvertaken`, `UrgentIsAnnounced`;
*liveness* `EveryoneHears`; *refinement* `KeepsItsPromise`. Of the supervisor,
*invariants* `NothingLeaks`, `DelayIsCapped`, `EarlyOnlyIfOvertaken`; *action
property* `LiveIsKept`; *liveness* `LossIsRepaired`. Of the JS8Call client,
*invariants* `FramingIsExact`, `NothingReadIsLost`, `SocketIsClosed`; *liveness*
`CloseStops`. Each is stated in words at its definition. Each has a mutant in
`PROJECT.json`: an operator beside the mapped one, changed as a plausible bug would
change it, under which TLC finds the property violated.

### Disagreements met

1. `session.py:145` says quick commands do not move the conversation. `CM`, `CB`
   and `CHL` do, and a draft in hand is gone (`v_quick_moves`).
2. `session.py:102-106` says the sweep finishes a draft exactly as END would. When
   the mail a reply answers has been deleted, END raises: from a message that is
   a failed reply, from the sweep it is the end of the server
   (`v_idle_loop_dies`).
3. The sweep may discard a draft that is no longer empty (`v_draft_discarded`).
4. The sweep resets a timed-out draft and then forgets the activity time. A line
   routed before the reset writes the draft back between the two, and that draft
   is never timed out (`v_draft_untimed`).
5. `js8call_integration.py:96` says `close` waits for the listener to finish. A
   `close` that comes before the listener has stored its socket shuts nothing
   down, gives up after the join timeout, and the listener connects and listens
   on (`v_js8_close`).

Met as well, and stated by the models rather than by a run of their own, since no
line of the repository says otherwise:

* A word that somebody typed may stand where a long text is cut. When it is the name of
  a record's kind, a peer takes the chunk for a record that nobody posted, or for a
  deletion that nobody asked for (`Readings`, in `Replicas`).
* A draft whose publishing raises is stored and still in hand, and a second END posts it
  again (`FanOutRaises`; `Done` in `BbsService`).
* An Urgent bulletin whose publishing breaks off is stored and never broadcast (`unsaid`).
* A deletion can reach a peer before the mail it deletes, whose fan-out is still
  on its way; the mail then stays there (`GhostsWereOvertaken` allows exactly that).
* The owner of a mail whose unique_id is a word of somebody's text (see below) can
  delete it, and the deletion finds mails at the peers that share no more than that
  word. `GhostsWereOvertaken` therefore speaks of unique_ids that a server made,
  whole or cut.
* A mail cut in its unique_id is stored at the peer under another one, and its
  deletion finds nothing there (`RecordsArriveWhole` asks for `cuts = <<>>`).
* A `|` in a field makes a piece of text the unique_id at the peer: two such
  records may share it, and a deletion of one deletes both (`Clean`).
* JSON that is no object ends the JS8Call listener for good (`"scalar"`).
* An urgent JS8Call message is announced although its insert failed.
* A `"connection.lost"` attempt ignores the back-off, and an attempt that failed
  after the gate was passed makes the polled one early (`EarlyOnlyIfOvertaken`).

One docstring is out of date: `database.py:109` says of channels that they are "never
replicated", while `replication.py:45` syncs each one that is added, as
`PeersHearOfLocal` asks.

## 4. The proofs

TLAPS checks these theorems for every value of the constants that satisfies the three
named assumptions: `ConfigAssumption` (numerals are natural numbers, allowed nodes are
nodes, `NoRow` is no mail, and `PeersRaise` is either), `BoardAssumption` (letters
pick boards) and `PeerAssumption` (a peer's records are records, with ids minted at
the peer).

| Theorem | States |
|---|---|
| `TypeCorrect` | `Spec => []TypeOK` |
| `PostersGated` | `Spec => []PostersAreGated` |
| `UrgentGateHolds` | `Spec => []UrgentGate` |
| `PeersHear` | `Spec => []PeersHearOfLocal` |
| `MailIsPrivate` | `Spec => []MailPrivacy` |
| `ComposersAreTimed` | `Spec => []ComposingIsTimed` |

`TypeOK` is inductive as it stands, and says more than types: a state found
under a command has the fields its handler reads (`StateFields`), so no handler
can meet a `KeyError` of its own. Its proof has one lemma per flow, each showing
that the flow's step is `Handled`.

`UrgentGate` is not inductive: whoever sits in front of a draft for Urgent must
already be known to be allowed. `PostersAreGated` adds that, and needs `TypeOK`.
Every step of every flow is first reduced to three small relations (`Writes`,
`Moves`, `Opens`: lemmas `MailSafe`, `BulletinSafe`, `ChannelSafe`, `MenuSafe`,
`QuickCommandSafe`, `AdvanceSafe`, `SweepSafe`), and the invariants are proved
from those relations, the peers' records and the admin tool alone, never from
the thirty handlers again. The inductive invariants are
`TypeOK /\ PostersAreGated /\ X` for each `X` of the table.

`ComposersAreTimed` is about whole calls. In `SessionThreads`, where the calls
overlap, the corresponding claim is false (`v_draft_untimed`).

### What the server promises

From the same assumptions:

| Theorem | States |
|---|---|
| `NotesAreRight` | `Spec => []MailNotes` |
| `ConversationServes` | `Spec => Service!Spec` (`ServesAsPromised`) |
| `RepliesReachAuthors` | `Spec => ReplyReachesAuthor` |
| `DeletionsOwned` | `Spec => DeletionsAreOwned` |
| `DraftsAreKept` | `Spec => DraftsAreNotDropped` |

Each handler is first shown to be one of a few acts that speak of what the node is at
(`Leaves`, `Shows`, `Begins`, `Replies`, `Continues`, `Sends`, `Posts`, `Deletes`,
...; lemmas `MailActs` to `SweepActs`); a sweep may also be the server's end, with the
draft stored or not (`Stops`). The refinement is then a lemma per act (`MovesServe`,
`WritesServe`) and one each for peers, admin and the server's end (`PeerServes`,
`AdminServes`, `StopsServe`), with `DeskMoves` for what an act does to the desks.

`MailNotes` is the invariant all of it stands on, and has three parts. `NotesHold`:
the row id and unique_id in a state are those of the mail last shown. That alone is
not inductive, since the mail may be deleted and its id be given to another:
`RowsAreNumbered` says no two rows share an id and none is beyond the counter, and
`ShownStays` that a row shown is the only one that ever has its id, there or gone.
With them an answer looked up by row id finds the mail that was shown or nothing, and a
deletion by unique_id is of the mail shown. `DraftsAreKept` needs the same of bulletins
(`BulletinsAreNumbered`): a row with a new id is a new row.

### The two threads

From `TimeAssumption` (the bounds are natural numbers, the timeout a positive one):
`ThreadsTypeCorrect`, `PostsPrefixed` and `OverlapsDoTheHarm` state `TypeOK`,
`PostsArePrefixes` and `OnlyOverlapHurts`. `Threads` is the invariant of every
interleaving: a thread's copy of a state, the state and each post are the lines that
followed one subject, from the first on (`Prefix`), and none is younger than the last
message. `Alone` is the one of an undisturbed server: at most one thread is at work,
what it read is still there, and its draft is not posted yet.

### Several servers

From `SyncAssumption` (topologies list servers, a template is a bulletin, a mail or a
channel made of what nodes may type, without a unique_id, and the bound is a
number), for any set of servers, lists, words, templates and `cuts`:

| Theorem | States |
|---|---|
| `SyncTypeCorrect` | `Spec => []TypeOK` |
| `UrgentIsToldOrBrokenOff` | `Spec => []UrgentIsAnnounced` |
| `SyncImplementsReplicas` | `Spec => Replicas!Spec` |
| `CleanRecordsSurvive` | a record without a `\|` is decoded to itself |

The inductive invariant is `TypeOK`, which says that every text in hand or under way
is one its sender may send (`Sendable`: a chunk of a record posted there or of its
broadcast, or a deletion made there), with `Shape`: what was made, and what is stored,
are records. Why it is needed: `Replicas` lets a server learn only of records made on
a listed peer, so the step lemma for `Receive` must know that the text heard from
`m.from` tells of a record of `m.from`. That is exactly what an echo would break.
`StepAbstract` has a case for each action: four map to a step of `Replicas` each
(`PostMakes`, `OwnerDeletesDeletes`, `AdminDeletesWipes`, `HandleLearns`, the last to
`Learn`, `Obey` or a stutter), the others leave its variables alone. Nothing is
assumed of `cuts`, `aired` or the words: what a chunk reads as is part of what `Learn`
allows (`SameReadings`). `UrgentIsToldOrBrokenOff` is inductive with `TypeOK`: a
bulletin enters a table with its publishing (`PublishingTells`, `HandleTells`), and
what takes it out of a job puts it into `said` or `unsaid` (`NewsHanded`).
`CleanRecordsSurvive` is about positions in sequences: `PartsInOrder` shows that the
fields' parts stand at the positions `Decode` reads.

From `NoSelfAssumption` too (`bbs_nodes` is "a list of other nodes",
`example_config.ini:27`), in `Records_proofs`:

| Theorem | States |
|---|---|
| `RecordsStayWhole` | `Spec => []RecordsArriveWhole` |
| `NoRecordTwice` | `Spec => []OneRowEach` |
| `OnlyOvertakenGhosts` | `Spec => []GhostsWereOvertaken` |

None of the three is inductive. They are about one record among many, and the table of
a peer holds what was cut, split at a `|`, or given a new unique_id. What tells the
records apart is where a unique_id on the wire can come from: `ReadIsOwn` says that
what is read of a text has the unique_id of the record the text was made of, whole or
cut (`Marks`), or none that a server made, since no node types one (`Typed`); that
goes for later chunks and for broadcasts too (`LaterIs`, `AiredParts`). Three
invariants follow, each used by the next.

* `Numbered`: unique_ids that were posted, stored or deleted have been made, so that a
  new one is new everywhere; two posts never share one. With it
  `RecordsArriveWhole` is inductive: a row with the unique_id of a clean record can
  only come from that record's own text.
* `Once`, while nothing goes wrong: of each unique_id, or what a cut left of it, a
  server d has at most one copy, in a thread that still owes it to d, in a text under
  way to d, or in the table, and never in two of them. So no reception finds its record
  already there.
* `Chased`, while nothing goes wrong: for each mail deleted on a server and each peer
  the two list, the deletion is still owed (`Pending`) or under way (`Underway`),
  came too early (`overtaken`), or the mail is `Settled`: not there, not under way
  and owed by nobody. `Once` is what makes the obeyed deletion final: the row it
  removed was the only copy. When all is quiet the first two are impossible.

### The supervisor

From `BackoffAssumption` (the first delay is positive and at most the cap):
`ReconnectTypeCorrect`, `NoInterfaceLeaks`, `DelaysAreCapped`, `LiveInterfacesStay`,
`EarlyAttemptsWereOvertaken` state `TypeOK`, `NothingLeaks`, `DelayIsCapped`,
`LiveIsKept` and `EarlyOnlyIfOvertaken`. The inductive invariant `Held` says what the
try-lock gives: at most one thread is within an attempt, and the lock is held exactly
then; past `Recheck` the current interface is dead; a built interface is in the hands
of the thread that is about to install it; any other open one failed to close
(`stuck`). `AttemptsAreOne` carries it through every step of the two threads, with
`StoredLater`: a doubled back-off that is not stored yet is no less than the first.

### The JS8Call client

From `StreamAssumption` (a stream is a sequence of lines of the seven kinds), for any
streams and any split into reads:

| Theorem | States |
|---|---|
| `SocketsAreClosed` | `Spec => []SocketIsClosed` |
| `Js8TypesHold` | `Spec => []TypeOK` |
| `FramingHolds` | `Spec => []FramingIsExact` |
| `NothingLost` | `Spec => []NothingReadIsLost` |

For the first the invariant is who owns the socket: one that is not shut is in
`self.sock`, or `close` or the listener's end has read it and is about to shut it, or
`close` overwrote it unread (`Owned`); the listener's end writes `None` over nothing
but what it read, and leaves nothing (`Dropped`).

The others rest on what `Decode` computes for every sequence of bytes. `Text` and
`Decode` are recursive functions. The library's induction theorems, which take an
operator, are of no use to the provers here; `NumbersByInduction` says
the same of a *set* of numbers, from the theorem that `<` is well-founded, and
`RecursiveFunction` derives from it that such a function exists, so that `TextIs` and
`DecodeIs` can unfold the definitions. Then:

* `LinesFollow`, `LaterEndsLater`, `LineInStream`: where each line lies in the stream,
  and that its only newline is its last byte.
* `DecodeStep`, `DecodeStream`: decoding from the end of line j on yields, after any
  number of bytes, the messages of the lines that end within them, in order, and
  leaves the bytes since the last of these (`Where` names that line).
* `ReadOn`: so it does when it starts from what an earlier read left over, wherever
  that read ended. `DecodeLast` adds the line whose newline never came.
* `CompleteIs`: the same lines, computed from the stream.

The inductive invariant is `TypeOK` with six parts. `Framed`: as long as the listener
reads, what it processed and queued (`Known`, the urgent message it is announcing
counted once) are the messages of the first k lines, and the buffer is what was
read beyond them. `Finished`: after its last look at the buffer they are the
complete messages with or without newline. `Drained`: it reads again, or ends for its
server, only with an empty queue; without this a read would overwrite messages.
`Silent`: nothing is read before it is connected. `Speaking` and `Told`: what is being
announced is what was processed last, and any other urgent message processed is
announced. Processing moves the head of the queue to the end of what was heard and
so keeps `Known` (`HeadFirst`).

### Only model-checked

Liveness (`DraftsSettle`, `EveryoneHears`, `LossIsRepaired`, `CloseStops`): fairness and
ENABLED are out of the prover's reach. Every other property of a passing run is
stated by a theorem.

## 5. Not modelled

* Text: wording, layout of listings (`_pack_lines`), fortunes, battery lists.
* `on_receive`'s filter on the destination: a conversation message is taken as
  addressed to the server. The filter on the sender of a sync text is in `Sync`.
* In `Conversation`, a write and the publishing of its record are one step, which may
  end in an exception after the write; `Sync` takes them apart, send by send, without
  the conversations.
* The answers a node waits for: a failed send costs an answer and moves nothing.
* Configuration files and the command line (`config_init.py`, `settings.py`): read
  once, before a thread runs; their outcome is the constants. `get_interface` is
  the rebuild of `Reconnect`, without its endless retry on a `PermissionError`.
* The sqlite engine: a statement is atomic and durable. Two processes on one
  file are the admin's deletions between any two steps.
* The tests.

## 6. Plan

The plan began with one server, its theorems and its two threads; went on to
the radio, the JS8Call client and several servers; then to what a server promises
its nodes; and then to proofs of every invariant and refinement that the runs
check. What is left, in this order.

1. The reasons behind the liveness properties, as safety: that a fan-out under way
   only shrinks, and that an attempt under way, a sweep and a `close` each have a
   step of their own to take, whatever the other threads do.
2. The reading side of the directory: which channel `V` shows when one before it was
   deleted (`flows/channel.py:95`), which needs the answers in the model.
