---------------------------- MODULE SessionState ----------------------------
(***************************************************************************)
(* Where every node stands: the two dictionaries of session.Session, the   *)
(* live roster that adapters.Lookup and _build_deps read, and the outcomes *)
(* (flows/base.py) by which a flow moves a node.  The flow modules extend  *)
(* this one; Conversation puts them together.                              *)
(*                                                                         *)
(* A state is the dict of the code as a record, with its field names.  No  *)
(* stored state and None are the main menu, which _route makes of them.    *)
(* A draft's content is "empty" or "text"; a listing kept in a state is    *)
(* the set of row ids listed.  The step of a topic that never reads it is  *)
(* left out, and so are subjects and names carried along for the replies.  *)
(***************************************************************************)
EXTENDS Store

CONSTANTS Says,        \* what each node may send that no quick command or "x" catches
          Numeral,     \* int() : the texts that are numbers, to their values
          ShortName,   \* the short name of each node, as a text
          Allowed,     \* config.allowed_nodes : who may post to Urgent; {} is anyone
          NoRow,       \* no mail has been shown to the node yet
          PeersRaise,  \* may a peer's roster entry lack the user that _log_sent reads
          MaxRows      \* bound: the ids each table may use up

ASSUME ConfigAssumption == /\ \A m \in DOMAIN Numeral : Numeral[m] \in Nat
                           /\ Allowed \subseteq Nodes
                           /\ NoRow \notin MailRows
                           /\ PeersRaise \in BOOLEAN

VARIABLES states,      \* Session._states
          activity,    \* Session._last_activity, as the sweep reads it
          roster,      \* interface.nodes: unknown, present but unnamed, or named
          opened,      \* history: the mail row last shown to each node
          groups,      \* js8_database: has any group message been heard
          up           \* is the server process running

sessionVars == <<states, activity>>
vars == <<storeVars, states, activity, roster, opened, groups, up>>

Contents == {"empty", "text"}

MainMenu == [command |-> "MAIN_MENU"]

NewMailDrafts == [command : {"MAIL"}, step : {7}, recipient_id : Nodes, content : Contents]
ReplyDrafts   == [command : {"MAIL"}, step : {7}, reply_to_mail_id : Nat, content : Contents]
PostDrafts    == [command : {"BULLETIN_POST_CONTENT"}, board : Boards, content : Contents]

MailStates ==
    [command : {"MAIL"}, step : {1, 2, 3, 8}]
    \cup [command : {"MAIL"}, step : {4}, mail_id : Nat, unique_id : Uids]
    \cup [command : {"MAIL"}, step : {5}, recipient_id : Nodes]
    \cup [command : {"MAIL"}, step : {6}, nodes : SUBSET Nodes]
    \cup NewMailDrafts \cup ReplyDrafts
    \cup [command : {"CHECK_MAIL"}, step : {1}, mail : SUBSET Nat]
    \cup [command : {"CHECK_MAIL"}, step : {2}, mail_id : Nat, unique_id : Uids]

BulletinStates ==
    [command : {"BULLETIN_MENU"}]
    \cup [command : {"BULLETIN_ACTION", "BULLETIN_READ", "BULLETIN_POST"}, board : Boards]
    \cup PostDrafts
    \cup [command : {"CHECK_BULLETIN"}, bulletins : SUBSET Nat]

MenuStates ==
    [command : {"MAIN_MENU", "STATS", "JS8CALL_MENU", "GROUP_MESSAGES"}]
    \cup [command : {"MENU"}, menu : {"bbs", "utilities"}]

DirectoryStates ==
    [command : {"CHANNEL_DIRECTORY"}, step : 1..4]
    \cup [command : {"LIST_CHANNELS"}, channels : SUBSET Nat]

SessionStates == MailStates \cup BulletinStates \cup MenuStates \cup DirectoryStates

SessionTypeOK == /\ states \in [Nodes -> SessionStates]
                 /\ activity \in [Nodes -> {"none", "recent", "quiet"}]
                 /\ roster \in [Nodes -> {"unknown", "unnamed", "named"}]
                 /\ opened \in [Nodes -> MailRows \cup {NoRow}]
                 /\ groups \in BOOLEAN
                 /\ up \in BOOLEAN

SessionInit == /\ states = [n \in Nodes |-> MainMenu]
               /\ activity = [n \in Nodes |-> "none"]
               /\ roster = [n \in Nodes |-> "named"]
               /\ opened = [n \in Nodes |-> NoRow]
               /\ groups = FALSE
               /\ up = TRUE

At(n, command) == states[n].command = command
AtStep(n, command, step) == At(n, command) /\ states[n].step = step

\* session._is_composing: the two states the idle sweep watches.
Composing(n) == At(n, "BULLETIN_POST_CONTENT") \/ AtStep(n, "MAIL", 7)

\* Whose silence the next sweep will end, and the table the draft is for.
TimedOut(n) == up /\ Composing(n) /\ activity[n] = "quiet"
DraftTable(n) == IF At(n, "MAIL") THEN "mail" ELSE "bulletins"

\* The bound: a writer waits for room, and a draft that the sweep will finish
\* has its place kept, so that the sweep itself never waits.
Room(t) == rowid[t] + Cardinality({n \in Nodes : TimedOut(n) /\ DraftTable(n) = t}) < MaxRows[t]

----------------------------------------------------------------------------
(* adapters.Lookup and roster.py over the live roster *)

Known(n) == roster[n] # "unknown"
Named(n) == roster[n] = "named"

\* find_by_short_name subscripts every node's shortName: one without raises.
LookupRaises == \E k \in Nodes : roster[k] = "unnamed"
Names == {ShortName[k] : k \in Nodes}
Answering(name) == {k \in Nodes : Named(k) /\ ShortName[k] = name}

\* get_mail(deps.node_id): a node that has left the roster has the id None.
MailboxOf(n) == {r \in mail : Known(n) /\ r.to = n}
MailShown(n, id) == {r \in MailContent(id, n) : Known(n)}

\* bulletin._may_post
MayPost(board, n) == board # Urgent \/ Allowed = {} \/ (Known(n) /\ n \in Allowed)

----------------------------------------------------------------------------
(* flows/base.py and Session._apply: what a flow decides *)

Stay(n, state) == states' = [states EXCEPT ![n] = state]
End(n)  == Stay(n, MainMenu)
Keep(n) == UNCHANGED states

\* An exception out of a flow that answers a message: advance stops after marking
\* the activity.  on_receive catches a KeyError; the radio library, which calls
\* it back, catches the rest.
Raise(n) == UNCHANGED states

\* So does one out of publish: the send to a peer has been logged against a roster
\* entry that has no user.  The row is stored, and nothing takes it back.
FanOutRaises(n) == PeersRaise /\ Raise(n)

\* NavigationFlow.show
Goto(n, menu) == Stay(n, CASE menu = "bbs"       -> [command |-> "MENU", menu |-> "bbs"]
                           [] menu = "utilities" -> [command |-> "MENU", menu |-> "utilities"]
                           [] menu = "main"      -> MainMenu)

\* entry() of the flow that owns the topic
Enter(n, topic) ==
    Stay(n, IF topic \in {"MAIL", "CHANNEL_DIRECTORY"}
            THEN [command |-> topic, step |-> 1] ELSE [command |-> topic])
=============================================================================
