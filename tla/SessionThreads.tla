--------------------------- MODULE SessionThreads ---------------------------
(***************************************************************************)
(* One node's conversation under the two threads that share a Session: the *)
(* mesh thread runs advance for each message, the idle thread of server.py *)
(* runs check_timeouts every second, and session.py has no lock.  Each     *)
(* step is one access to _states, _last_activity or the database, in the   *)
(* order of the code.  Publishing a post sends to the peers with seconds   *)
(* of sleep between chunks, so the steps around it are far apart.          *)
(*                                                                         *)
(* Only drafting is modelled: a text at the menu leads a step on, after    *)
(* Prelude such steps it begins a draft (its subject, or the R of a        *)
(* reply), in a draft it is a line, "end" finishes it and "x" leaves.  The *)
(* shortest way to a draft (CM, a number, R; or a board, P, a subject)     *)
(* takes three messages, so Prelude is 2 in the runs.                      *)
(* Messages are numbered, a line is the number of its message, and a draft *)
(* that of the message that begins it.                                     *)
(***************************************************************************)
EXTENDS Naturals, Sequences, FiniteSets

CONSTANTS Timeout,      \* COMPOSE_TIMEOUT_SECONDS
          Prelude,      \* menu messages on the way to a draft
          MaxMessages,  \* bound: messages the node sends
          MaxTime       \* bound: how far the clock runs

ASSUME TimeAssumption == /\ Timeout \in Nat \ {0} /\ Prelude \in Nat
                         /\ MaxMessages \in Nat /\ MaxTime \in Nat

VARIABLES state,        \* _states[node]: [step, draft, lines]; draft 0 is a menu
          last,         \* _last_activity[node]: {} or {time}
          clock,        \* time.time()
          sent,         \* messages the node has sent so far
          rows,         \* the posts in the database: [draft, lines, id]
          mesh,         \* the mesh thread: [pc, msg, state]
          idle,         \* the idle thread: [pc, now, state]
          overlapped    \* history: has a sweep of a draft met a message

vars == <<state, last, clock, sent, rows, mesh, idle, overlapped>>

Menu == [step |-> 0, draft |-> 0, lines |-> <<>>]
Drafts == [step : 0..Prelude, draft : 0..MaxMessages, lines : Seq(1..MaxMessages)]
IsComposing(s) == s.draft # 0

TypeOK ==
    /\ state \in Drafts
    /\ last \in SUBSET (0..MaxTime) /\ Cardinality(last) <= 1
    /\ clock \in 0..MaxTime /\ sent \in 0..MaxMessages
    /\ rows \subseteq [draft : 1..MaxMessages, lines : Seq(1..MaxMessages), id : Nat]
    /\ mesh \in [pc : {"idle", "route", "post", "apply"}, msg : {"text", "end", "x"}, state : Drafts]
    /\ idle \in [pc : {"sleep", "read", "check", "discard", "post", "apply", "pop"},
                 now : 0..MaxTime, state : Drafts]
    /\ overlapped \in BOOLEAN

Init == /\ state = Menu /\ last = {} /\ clock = 0 /\ sent = 0 /\ rows = {}
        /\ mesh = [pc |-> "idle", msg |-> "x", state |-> Menu]
        /\ idle = [pc |-> "sleep", now |-> 0, state |-> Menu]
        /\ overlapped = FALSE

Tick == /\ clock < MaxTime /\ clock' = clock + 1
        /\ UNCHANGED <<state, last, sent, rows, mesh, idle, overlapped>>

\* The database write inside add_bulletin or add_mail.
Insert(s) == rows' = rows \cup {[draft |-> s.draft, lines |-> s.lines, id |-> Cardinality(rows)]}

\* Is the sweep past its look at the draft, so that a message now comes too late for it?
Sweeping == idle.pc \in {"check", "discard", "post", "apply", "pop"}
Meets(meshBusy, sweeping) == overlapped' = (overlapped \/ (meshBusy /\ sweeping))

----------------------------------------------------------------------------
(* The mesh thread: Session.advance *)

\* advance begins: the node's activity is marked before anything is read.
Receive(msg) ==
    /\ mesh.pc = "idle" /\ sent < MaxMessages
    /\ sent' = sent + 1
    /\ last' = {clock}
    /\ mesh' = [mesh EXCEPT !.pc = "route", !.msg = msg]
    /\ Meets(TRUE, Sweeping)
    /\ UNCHANGED <<state, clock, rows, idle>>

\* What the flow makes of the message and of the state read, and whether it writes.
\* The forgetful one takes a line and drops the lines before it.
AnswerLast(msg, s) ==
    CASE msg = "text" /\ IsComposing(s) -> [s EXCEPT !.lines = <<sent>>]
      [] msg = "text" /\ ~IsComposing(s) /\ s.step < Prelude ->
            [s EXCEPT !.step = @ + 1]
      [] msg = "text" /\ ~IsComposing(s) /\ s.step = Prelude ->
            [step |-> Prelude, draft |-> sent, lines |-> <<>>]
      [] msg \in {"end", "x"} -> Menu
Answer(msg, s) ==
    CASE msg = "text" /\ IsComposing(s) -> [s EXCEPT !.lines = Append(@, sent)]
      [] msg = "text" /\ ~IsComposing(s) /\ s.step < Prelude ->
            [s EXCEPT !.step = @ + 1]
      [] msg = "text" /\ ~IsComposing(s) /\ s.step = Prelude ->
            [step |-> Prelude, draft |-> sent, lines |-> <<>>]
      [] msg \in {"end", "x"} -> Menu

\* END finishes a draft and nothing else; the careless one finishes what is no draft.
FinishesAnywhere(msg, s) == msg = "end"
Finishes(msg, s) == msg = "end" /\ IsComposing(s)

\* _route reads the stored state; the flow works on what was read.
Route == /\ mesh.pc = "route"
         /\ mesh' = [mesh EXCEPT !.state = state,
                                 !.pc = IF Finishes(mesh.msg, state) THEN "post" ELSE "apply"]
         /\ UNCHANGED <<state, last, clock, sent, rows, idle, overlapped>>

MeshPost == /\ mesh.pc = "post"
            /\ Insert(mesh.state)
            /\ mesh' = [mesh EXCEPT !.pc = "apply"]
            /\ UNCHANGED <<state, last, clock, sent, idle, overlapped>>

\* _apply stores the next state over whatever is there by now.
MeshApply == /\ mesh.pc = "apply"
             /\ state' = Answer(mesh.msg, mesh.state)
             /\ mesh' = [mesh EXCEPT !.pc = "idle"]
             /\ UNCHANGED <<last, clock, sent, rows, idle, overlapped>>

----------------------------------------------------------------------------
(* The idle thread: Session.check_timeouts *)

SweepBegins == /\ idle.pc = "sleep"
               /\ idle' = [idle EXCEPT !.pc = "read", !.now = clock]
               /\ UNCHANGED <<state, last, clock, sent, rows, mesh, overlapped>>

SweepReads == /\ idle.pc = "read"
              /\ idle' = [idle EXCEPT !.state = state,
                                      !.pc = IF IsComposing(state) THEN "check" ELSE "sleep"]
              /\ Meets(mesh.pc # "idle", IsComposing(state))
              /\ UNCHANGED <<state, last, clock, sent, rows, mesh>>

\* now - last < Timeout, where a node with no activity time was active just now.
Fresh(now) == \A t \in last : now < t + Timeout

SweepChecks ==
    /\ idle.pc = "check"
    /\ idle' = [idle EXCEPT !.pc = IF Fresh(idle.now) THEN "sleep"
                                   ELSE IF idle.state.lines = <<>> THEN "discard" ELSE "post"]
    /\ UNCHANGED <<state, last, clock, sent, rows, mesh, overlapped>>

SweepDiscards == /\ idle.pc = "discard"
                 /\ state' = Menu
                 /\ idle' = [idle EXCEPT !.pc = "pop"]
                 /\ UNCHANGED <<last, clock, sent, rows, mesh, overlapped>>

SweepPosts == /\ idle.pc = "post"
              /\ Insert(idle.state)
              /\ idle' = [idle EXCEPT !.pc = "apply"]
              /\ UNCHANGED <<state, last, clock, sent, mesh, overlapped>>

\* A sweep that posts the draft and does not take it away.
SweepKeepsDraft == /\ idle.pc = "apply"
                   /\ idle' = [idle EXCEPT !.pc = "pop"]
                   /\ UNCHANGED <<state, last, clock, sent, rows, mesh, overlapped>>

SweepApplies == /\ idle.pc = "apply"
                /\ state' = Menu
                /\ idle' = [idle EXCEPT !.pc = "pop"]
                /\ UNCHANGED <<last, clock, sent, rows, mesh, overlapped>>

SweepPops == /\ idle.pc = "pop"
             /\ last' = {}
             /\ idle' = [idle EXCEPT !.pc = "sleep"]
             /\ UNCHANGED <<state, clock, sent, rows, mesh, overlapped>>

Next == \/ Tick
        \/ \E msg \in {"text", "end", "x"} : Receive(msg)
        \/ Route \/ MeshPost \/ MeshApply
        \/ SweepBegins \/ SweepReads \/ SweepChecks
        \/ SweepDiscards \/ SweepPosts \/ SweepApplies \/ SweepPops

Spec == Init /\ [][Next]_vars

----------------------------------------------------------------------------
(* Properties *)

\* Whatever the threads do to each other, a post holds lines its author typed
\* into that very draft, in the order typed, from the first one on.
PostsArePrefixes == \A r \in rows : \A i \in 1..Len(r.lines) : r.lines[i] = r.draft + i

\* The races need a message inside a sweep of the draft: without one every
\* draft is posted at most once, a draft left behind is not one that was posted
\* already, and the draft in hand has all the lines typed since its subject.
OnlyOverlapHurts ==
    ~overlapped =>
      /\ \A r, q \in rows : r.draft = q.draft => r = q
      /\ mesh.pc = "idle" /\ ~Sweeping /\ IsComposing(state) =>
            /\ \A r \in rows : r.draft # state.draft
            /\ Len(state.lines) = sent - state.draft

\* session.py:102-105 - an empty draft is discarded, a non-empty one is finished.
DiscardedDraftsAreEmpty == [][SweepDiscards => state.lines = <<>>]_vars

\* session.py:99-104 - any compose the node has gone quiet on is finished, so
\* a draft nobody is touching has an activity time to be measured against.
DraftsAreTimed == mesh.pc = "idle" /\ idle.pc = "sleep" /\ IsComposing(state) => last # {}
=============================================================================
