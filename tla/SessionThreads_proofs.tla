------------------------ MODULE SessionThreads_proofs ------------------------
(***************************************************************************)
(* What holds of a draft under the two threads, for every timeout, clock   *)
(* and number of messages: the types, that a post is a prefix of what was  *)
(* typed, and that without an overlap nothing is posted twice or lost.     *)
(***************************************************************************)
EXTENDS SessionThreads, SequenceTheorems, FiniteSetTheorems, TLAPS

Types ==
    /\ state \in Drafts
    /\ last \in SUBSET (0..MaxTime) /\ Cardinality(last) <= 1
    /\ clock \in 0..MaxTime /\ sent \in 0..MaxMessages
    /\ rows \subseteq [draft : 1..MaxMessages, lines : Seq(1..MaxMessages), id : Nat]
    /\ IsFiniteSet(rows)
    /\ mesh \in [pc : {"idle", "route", "post", "apply"}, msg : {"text", "end", "x"}, state : Drafts]
    /\ idle \in [pc : {"sleep", "read", "check", "discard", "post", "apply", "pop"},
                 now : 0..MaxTime, state : Drafts]
    /\ overlapped \in BOOLEAN

\* Who is busy has something to be busy with.
Busy == /\ mesh.pc # "idle" => sent > 0
        /\ mesh.pc = "post" => mesh.msg = "end" /\ IsComposing(mesh.state)
        /\ idle.pc \in {"check", "discard", "post"} => IsComposing(idle.state)

\* A draft counts the messages that made it.
Prefix(s) == \A i \in 1..Len(s.lines) : s.lines[i] = s.draft + i

Counted == /\ Prefix(state) /\ Prefix(mesh.state) /\ Prefix(idle.state)
           /\ \A r \in rows : Prefix(r)
           /\ IsComposing(state)
                => state.draft + Len(state.lines) = IF mesh.pc = "idle" THEN sent ELSE sent - 1
           /\ mesh.pc \in {"post", "apply"} /\ IsComposing(mesh.state)
                => mesh.state.draft + Len(mesh.state.lines) = sent - 1

Threads == Types /\ Busy /\ Counted

\* The menu is a state without a draft.
LEMMA MenuIsDraft == Menu \in Drafts /\ Prefix(Menu) /\ ~IsComposing(Menu)
  BY TimeAssumption DEF Menu, Drafts, Prefix, IsComposing

\* The lines of a draft are a sequence, and one more leaves them one.
LEMMA LineAdded ==
  ASSUME NEW s \in Drafts, NEW k \in 1..MaxMessages
  PROVE  /\ [s EXCEPT !.lines = Append(@, k)] \in Drafts
         /\ Prefix(s) /\ s.draft + Len(s.lines) = k - 1
              => Prefix([s EXCEPT !.lines = Append(@, k)])
         /\ [s EXCEPT !.lines = Append(@, k)].draft = s.draft
         /\ Len([s EXCEPT !.lines = Append(@, k)].lines) = Len(s.lines) + 1
  <1> DEFINE t == Append(s.lines, k)
  <1>0. s.lines \in Seq(1..MaxMessages) /\ s.draft \in 0..MaxMessages /\ s.step \in 0..Prelude
    BY DEF Drafts
  <1>1. /\ t \in Seq(1..MaxMessages) /\ Len(t) = Len(s.lines) + 1
        /\ \A i \in 1..Len(s.lines) : t[i] = s.lines[i]
        /\ t[Len(s.lines) + 1] = k
    BY <1>0, AppendProperties
  <1>2. [s EXCEPT !.lines = Append(@, k)] = [s EXCEPT !.lines = t] OBVIOUS
  <1> HIDE DEF t
  <1>4. [s EXCEPT !.lines = t] = [step |-> s.step, draft |-> s.draft, lines |-> t] BY DEF Drafts
  <1>3. Len(s.lines) \in Nat BY <1>0, LenProperties
  <1> QED BY <1>0, <1>1, <1>2, <1>3, <1>4, TimeAssumption DEF Drafts, Prefix

\* A step on the way to a draft is no draft, and a draft begins with no line.
LEMMA StepTyped ==
  ASSUME NEW s \in Drafts, ~IsComposing(s), Prefix(s), s.step < Prelude
  PROVE  /\ [s EXCEPT !.step = @ + 1] \in Drafts
         /\ Prefix([s EXCEPT !.step = @ + 1])
         /\ ~IsComposing([s EXCEPT !.step = @ + 1])
  <1>0. s.lines \in Seq(1..MaxMessages) /\ s.draft \in 0..MaxMessages /\ s.step \in 0..Prelude
    BY DEF Drafts
  <1>1. [s EXCEPT !.step = @ + 1] = [step |-> s.step + 1, draft |-> s.draft, lines |-> s.lines]
    BY DEF Drafts
  <1>2. s.step + 1 \in 0..Prelude BY <1>0, TimeAssumption
  <1> QED BY <1>0, <1>1, <1>2 DEF Drafts, Prefix, IsComposing

\* What advance stores counts the message it answers.
LEMMA AnswerTyped ==
  ASSUME Threads, mesh.pc = "apply"
  PROVE  LET s == Answer(mesh.msg, mesh.state)
         IN  s \in Drafts /\ Prefix(s) /\ (IsComposing(s) => s.draft + Len(s.lines) = sent)
  <1>0. /\ mesh.state \in Drafts /\ mesh.msg \in {"text", "end", "x"} /\ sent \in 1..MaxMessages
        /\ Prefix(mesh.state)
        /\ IsComposing(mesh.state) => mesh.state.draft + Len(mesh.state.lines) = sent - 1
    BY TimeAssumption DEF Threads, Types, Busy, Counted
  <1>1. CASE mesh.msg = "text" /\ IsComposing(mesh.state)
    <2>1. Answer(mesh.msg, mesh.state) = [mesh.state EXCEPT !.lines = Append(@, sent)]
      BY <1>1 DEF Answer
    <2> DEFINE s == [mesh.state EXCEPT !.lines = Append(@, sent)]
    <2>2. Len(mesh.state.lines) \in Nat /\ mesh.state.draft \in Nat BY <1>0, LenProperties DEF Drafts
    <2>3. /\ s \in Drafts /\ Prefix(s)
          /\ s.draft = mesh.state.draft /\ Len(s.lines) = Len(mesh.state.lines) + 1
      BY <1>0, <1>1, LineAdded
    <2>4. Answer(mesh.msg, mesh.state) = s BY <2>1
    <2> HIDE DEF s
    <2>5. s.draft + Len(s.lines) = sent BY <1>0, <1>1, <2>2, <2>3
    <2> QED BY <2>3, <2>4, <2>5
  <1>2. CASE mesh.msg = "text" /\ ~IsComposing(mesh.state) /\ mesh.state.step = Prelude
    <2>1. Answer(mesh.msg, mesh.state) = [step |-> Prelude, draft |-> sent, lines |-> <<>>]
      BY <1>2 DEF Answer
    <2> QED BY <1>0, <2>1, TimeAssumption DEF Drafts, Prefix
  <1>4. CASE mesh.msg = "text" /\ ~IsComposing(mesh.state) /\ mesh.state.step < Prelude
    <2>0. mesh.state.step # Prelude BY <1>0, <1>4, TimeAssumption DEF Drafts
    <2>1. Answer(mesh.msg, mesh.state) = [mesh.state EXCEPT !.step = @ + 1]
      BY <1>4, <2>0 DEF Answer
    <2> QED BY <1>0, <1>4, <2>1, StepTyped
  <1>5. mesh.state.step < Prelude \/ mesh.state.step = Prelude
    BY <1>0, TimeAssumption DEF Drafts
  <1>3. CASE mesh.msg \in {"end", "x"}
    <2>1. Answer(mesh.msg, mesh.state) = Menu BY <1>3 DEF Answer
    <2> QED BY <2>1, MenuIsDraft
  <1> QED BY <1>0, <1>1, <1>2, <1>3, <1>4, <1>5

\* A row that is inserted is a row.
LEMMA InsertTyped ==
  ASSUME Types, NEW s \in Drafts, IsComposing(s), Prefix(s), \A r \in rows : Prefix(r), Insert(s)
  PROVE  /\ rows' \subseteq [draft : 1..MaxMessages, lines : Seq(1..MaxMessages), id : Nat]
         /\ IsFiniteSet(rows') /\ \A r \in rows' : Prefix(r)
  <1> DEFINE row == [draft |-> s.draft, lines |-> s.lines, id |-> Cardinality(rows)]
  <1>1. Cardinality(rows) \in Nat BY FS_CardinalityType DEF Types
  <1>2. row \in [draft : 1..MaxMessages, lines : Seq(1..MaxMessages), id : Nat]
    BY <1>1, TimeAssumption DEF Drafts, IsComposing
  <1>3. Prefix(row) BY DEF Prefix
  <1>4. rows' = rows \cup {row} BY DEF Insert
  <1> HIDE DEF row
  <1> QED BY <1>2, <1>3, <1>4, FS_AddElement DEF Types

\* Every access of the two threads keeps that.
LEMMA NextThreads == Threads /\ [Next]_vars => Threads'
  <1> SUFFICES ASSUME Threads, [Next]_vars PROVE Threads' OBVIOUS
  <1> USE TimeAssumption
  <1>0. Types /\ Busy /\ Counted BY DEF Threads
  <1>a. sent \in Nat /\ MaxMessages \in Nat BY DEF Threads, Types
  <1>1. CASE Tick
    BY <1>0, <1>1 DEF Tick, Threads, Types, Busy, Counted
  <1>2. ASSUME NEW msg \in {"text", "end", "x"}, Receive(msg) PROVE Threads'
    <2>0. last' = {clock} /\ clock \in 0..MaxTime BY <1>0, <1>2 DEF Receive, Types
    <2>a. Cardinality({clock}) = 1 BY FS_Singleton
    <2>b. Cardinality(last') = 1 BY <2>0, <2>a
    <2>1. last' \in SUBSET (0..MaxTime) /\ Cardinality(last') <= 1
      BY <2>0, <2>b
    <2>2. overlapped' \in BOOLEAN BY <1>2 DEF Receive, Meets
    <2>3. Types'
      <3>1. sent' \in 0..MaxMessages BY <1>a, <1>2 DEF Receive
      <3>2. mesh' \in [pc : {"idle", "route", "post", "apply"}, msg : {"text", "end", "x"},
                       state : Drafts]
        BY <1>0, <1>2 DEF Receive, Types
      <3>3. UNCHANGED <<state, clock, rows, idle>> BY <1>2 DEF Receive
      <3> QED BY <1>0, <2>1, <2>2, <3>1, <3>2, <3>3 DEF Types
    <2>4. Busy' /\ Counted' BY <1>0, <1>a, <1>2 DEF Receive, Types, Busy, Counted
    <2> QED BY <2>3, <2>4 DEF Threads
  <1>3. CASE Route
    <2>1. Types' BY <1>0, <1>3 DEF Route, Types
    <2>2. Busy' BY <1>0, <1>3 DEF Route, Types, Busy, Finishes
    <2>3. Counted' BY <1>0, <1>3 DEF Route, Types, Counted
    <2> QED BY <2>1, <2>2, <2>3 DEF Threads
  <1>4. CASE MeshPost
    <2>1. mesh.state \in Drafts /\ IsComposing(mesh.state) /\ Insert(mesh.state)
      BY <1>0, <1>4 DEF MeshPost, Types, Busy
    <2>2. /\ rows' \subseteq [draft : 1..MaxMessages, lines : Seq(1..MaxMessages), id : Nat]
          /\ IsFiniteSet(rows') /\ \A r \in rows' : Prefix(r)
      BY <1>0, <2>1, InsertTyped DEF Counted
    <2> QED BY <1>0, <1>4, <2>2 DEF MeshPost, Threads, Types, Busy, Counted
  <1>5. CASE MeshApply
    <2> DEFINE s == Answer(mesh.msg, mesh.state)
    <2>1. s \in Drafts /\ Prefix(s) /\ (IsComposing(s) => s.draft + Len(s.lines) = sent)
      BY <1>5, AnswerTyped DEF MeshApply
    <2>2. state' = s BY <1>5 DEF MeshApply
    <2> HIDE DEF s
    <2> QED BY <1>0, <1>5, <2>1, <2>2 DEF MeshApply, Threads, Types, Busy, Counted
  <1>6. CASE SweepBegins
    BY <1>0, <1>6 DEF SweepBegins, Threads, Types, Busy, Counted
  <1>7. CASE SweepReads
    <2>1. overlapped' \in BOOLEAN BY <1>7 DEF SweepReads, Meets
    <2> QED BY <1>0, <1>7, <2>1 DEF SweepReads, Threads, Types, Busy, Counted
  <1>8. CASE SweepChecks
    BY <1>0, <1>8 DEF SweepChecks, Threads, Types, Busy, Counted
  <1>9. CASE SweepDiscards
    BY <1>0, <1>9, MenuIsDraft DEF SweepDiscards, Threads, Types, Busy, Counted
  <1>10. CASE SweepPosts
    <2>1. idle.state \in Drafts /\ IsComposing(idle.state) /\ Insert(idle.state)
      BY <1>0, <1>10 DEF SweepPosts, Types, Busy
    <2>2. /\ rows' \subseteq [draft : 1..MaxMessages, lines : Seq(1..MaxMessages), id : Nat]
          /\ IsFiniteSet(rows') /\ \A r \in rows' : Prefix(r)
      BY <1>0, <2>1, InsertTyped DEF Counted
    <2> QED BY <1>0, <1>10, <2>2 DEF SweepPosts, Threads, Types, Busy, Counted
  <1>11. CASE SweepApplies
    BY <1>0, <1>11, MenuIsDraft DEF SweepApplies, Threads, Types, Busy, Counted
  <1>12. CASE SweepPops
    <2>1. last' \in SUBSET (0..MaxTime) /\ Cardinality(last') <= 1
      BY <1>12, FS_EmptySet DEF SweepPops
    <2> QED BY <1>0, <1>12, <2>1 DEF SweepPops, Threads, Types, Busy, Counted
  <1>13. CASE UNCHANGED vars
    BY <1>0, <1>13 DEF vars, Threads, Types, Busy, Counted
  <1> QED BY <1>1, <1>2, <1>3, <1>4, <1>5, <1>6, <1>7, <1>8, <1>9, <1>10, <1>11, <1>12, <1>13
          DEF Next

\* It holds before the first message.
LEMMA InitThreads == Init => Threads
  <1> SUFFICES ASSUME Init PROVE Threads OBVIOUS
  <1>1. IsFiniteSet(rows) /\ Cardinality(last) <= 1 BY FS_EmptySet DEF Init
  <1>2. Types
    <2>1. rows \subseteq [draft : 1..MaxMessages, lines : Seq(1..MaxMessages), id : Nat]
      BY DEF Init
    <2>2. /\ state \in Drafts /\ clock \in 0..MaxTime /\ sent \in 0..MaxMessages
          /\ last \in SUBSET (0..MaxTime) /\ overlapped \in BOOLEAN
      <3>1. state \in Drafts BY MenuIsDraft DEF Init
      <3>2. clock \in 0..MaxTime /\ sent \in 0..MaxMessages BY TimeAssumption DEF Init
      <3>3. last \in SUBSET (0..MaxTime) /\ overlapped \in BOOLEAN BY DEF Init
      <3> QED BY <3>1, <3>2, <3>3
    <2>3. mesh \in [pc : {"idle", "route", "post", "apply"}, msg : {"text", "end", "x"}, state : Drafts]
      BY MenuIsDraft DEF Init
    <2>4. idle \in [pc : {"sleep", "read", "check", "discard", "post", "apply", "pop"},
                    now : 0..MaxTime, state : Drafts]
      BY MenuIsDraft, TimeAssumption DEF Init
    <2> QED BY <1>1, <2>1, <2>2, <2>3, <2>4 DEF Types
  <1>3. Busy /\ Counted BY MenuIsDraft DEF Init, Busy, Counted
  <1> QED BY <1>2, <1>3 DEF Threads

(* What a state, a thread's copy of a state or a post holds is always the messages
   that followed its subject, one by one: a sweep in between only ever takes the
   whole draft away. *)
THEOREM ThreadsHold == Spec => []Threads
  BY InitThreads, NextThreads, PTL DEF Spec

\* Every variable of the two threads stays in its type.
THEOREM ThreadsTypeCorrect == Spec => []TypeOK
  <1>1. Threads => TypeOK BY DEF Threads, Types, TypeOK
  <1> QED BY <1>1, ThreadsHold, PTL

(* A post holds lines its author typed into that very draft, in order and from the
   first one on, however the accesses of the two threads interleave. *)
THEOREM PostsPrefixed == Spec => []PostsArePrefixes
  <1>1. Threads => PostsArePrefixes BY DEF Threads, Counted, Prefix, PostsArePrefixes
  <1> QED BY <1>1, ThreadsHold, PTL
----------------------------------------------------------------------------
(* Without an overlap *)

Unposted(draft) == \A r \in rows : r.draft # draft

\* As long as no message has met a sweep, whichever thread is at work has the
\* draft to itself: what it read is still there, and is not in the database.
Alone ==
    /\ mesh.pc = "idle" \/ ~Sweeping
    /\ \A r, q \in rows : r.draft = q.draft => r = q
    /\ \A r \in rows : r.draft <= sent /\ (mesh.pc # "idle" => r.draft < sent)
    /\ IsComposing(state) => \/ Unposted(state.draft)
                             \/ mesh.pc = "apply" /\ mesh.msg = "end"
                             \/ idle.pc = "apply"
    /\ mesh.pc \in {"post", "apply"} => mesh.state = state
    /\ idle.pc \in {"check", "discard", "post", "apply"} => idle.state = state

\* A draft that is inserted for the first time leaves one post of each draft.
LEMMA InsertOnce ==
  ASSUME Types, NEW s \in Drafts, Insert(s), Unposted(s.draft),
         \A r, q \in rows : r.draft = q.draft => r = q
  PROVE  /\ \A r, q \in rows' : r.draft = q.draft => r = q
         /\ \A r \in rows' : r \in rows \/ r.draft = s.draft
  <1> DEFINE row == [draft |-> s.draft, lines |-> s.lines, id |-> Cardinality(rows)]
  <1>1. row.draft = s.draft OBVIOUS
  <1>2. rows' = rows \cup {row} BY DEF Insert
  <1> HIDE DEF row
  <1> QED BY <1>1, <1>2 DEF Unposted

\* No access changes that, unless it is an overlap.
LEMMA NextAlone ==
  ASSUME Threads, ~overlapped => Alone, [Next]_vars, ~overlapped'
  PROVE  Alone'
  <1>0. Types /\ Busy /\ Counted BY DEF Threads
  <1>a. /\ sent \in Nat /\ \A r \in rows : r.draft \in Nat
        /\ state.draft \in Nat /\ Len(state.lines) \in Nat
        /\ overlapped \in BOOLEAN
    BY <1>0, LenProperties, TimeAssumption DEF Types, Drafts
  <1>1. CASE Tick
    BY <1>1 DEF Tick, Alone, Sweeping, Unposted
  <1>2. ASSUME NEW msg \in {"text", "end", "x"}, Receive(msg) PROVE Alone'
    <2>1. ~overlapped /\ ~Sweeping BY <1>2 DEF Receive, Meets
    <2>2. mesh'.pc = "route" /\ sent' = sent + 1 /\ UNCHANGED <<state, rows, idle>>
      BY <1>0, <1>2 DEF Receive, Types
    <2>3. mesh.pc = "idle" BY <1>2 DEF Receive
    <2>4. \A r \in rows : r.draft < sent'
      BY <1>a, <2>1, <2>2 DEF Alone
    <2>5. \A r \in rows : r.draft <= sent'
      BY <1>a, <2>1, <2>2 DEF Alone
    <2>6. IsComposing(state) => Unposted(state.draft)
      BY <2>1, <2>3 DEF Alone, Sweeping
    <2>7. idle.pc \notin {"check", "discard", "post", "apply", "pop"} BY <2>1 DEF Sweeping
    <2> QED BY <2>1, <2>2, <2>4, <2>5, <2>6, <2>7 DEF Alone, Sweeping, Unposted
  <1>3. CASE Route
    <2>1. /\ ~overlapped /\ UNCHANGED <<state, rows, idle, sent>> /\ mesh'.state = state
          /\ mesh'.pc \in {"post", "apply"} /\ mesh.pc = "route"
      BY <1>0, <1>3 DEF Route, Types
    <2> QED BY <1>a, <2>1 DEF Alone, Sweeping, Unposted
  <1>4. CASE MeshPost
    <2>1. /\ ~overlapped /\ UNCHANGED <<state, idle, sent>> /\ mesh.pc = "post"
          /\ mesh.msg = "end" /\ IsComposing(mesh.state) /\ Insert(mesh.state)
          /\ mesh' = [mesh EXCEPT !.pc = "apply"] /\ mesh.state \in Drafts
      BY <1>0, <1>4 DEF MeshPost, Types, Busy
    <2>2. mesh'.pc = "apply" /\ mesh'.msg = "end" /\ mesh'.state = mesh.state
      BY <1>0, <2>1 DEF Types
    <2>3. mesh.state = state /\ Unposted(state.draft) /\ ~Sweeping
      BY <2>1 DEF Alone, Sweeping
    <2>4. state.draft < sent
      BY <1>0, <1>a, <2>1, <2>3 DEF Counted
    <2>5. /\ \A r, q \in rows' : r.draft = q.draft => r = q
          /\ \A r \in rows' : r \in rows \/ r.draft = state.draft
      BY <1>0, <2>1, <2>3, InsertOnce DEF Alone
    <2>6. \A r \in rows' : r.draft < sent
      BY <2>1, <2>4, <2>5 DEF Alone
    <2>7. \A r \in rows' : r.draft <= sent' /\ r.draft < sent'
      BY <1>a, <2>1, <2>5, <2>6
    <2> QED BY <2>1, <2>2, <2>3, <2>5, <2>7 DEF Alone, Sweeping
  <1>5. CASE MeshApply
    <2> DEFINE s == Answer(mesh.msg, mesh.state)
    <2>1. /\ ~overlapped /\ UNCHANGED <<rows, idle, sent>> /\ mesh.pc = "apply"
          /\ mesh' = [mesh EXCEPT !.pc = "idle"] /\ mesh.msg \in {"text", "end", "x"}
          /\ mesh.state \in Drafts
      BY <1>0, <1>5 DEF MeshApply, Types
    <2>2. mesh'.pc = "idle" BY <1>0, <2>1 DEF Types
    <2>3. mesh.state = state /\ ~Sweeping BY <2>1 DEF Alone
    <2>4. IsComposing(s) => s.draft = sent \/ (mesh.msg = "text" /\ IsComposing(state) /\ s.draft = state.draft)
      <3>1. CASE mesh.msg = "text" /\ IsComposing(mesh.state)
        <4>1. s = [mesh.state EXCEPT !.lines = Append(@, sent)] BY <3>1 DEF Answer
        <4>2. [mesh.state EXCEPT !.lines = Append(@, sent)].draft = mesh.state.draft
          BY <2>1 DEF Drafts
        <4> QED BY <2>3, <3>1, <4>1, <4>2
      <3>2. CASE mesh.msg = "text" /\ ~IsComposing(mesh.state) /\ mesh.state.step = Prelude
        BY <3>2 DEF Answer
      <3>4. CASE mesh.msg = "text" /\ ~IsComposing(mesh.state) /\ mesh.state.step < Prelude
        <4>0. mesh.state.step # Prelude BY <2>1, <3>4, TimeAssumption DEF Drafts
        <4>1. s = [mesh.state EXCEPT !.step = @ + 1] BY <3>4, <4>0 DEF Answer
        <4>2. Prefix(mesh.state) BY <1>0 DEF Counted
        <4> QED BY <2>1, <3>4, <4>1, <4>2, StepTyped
      <3>5. mesh.state.step < Prelude \/ mesh.state.step = Prelude
        BY <2>1, TimeAssumption DEF Drafts
      <3>3. CASE mesh.msg \in {"end", "x"} BY <3>3, MenuIsDraft DEF Answer
      <3> QED BY <2>1, <3>1, <3>2, <3>3, <3>4, <3>5
    <2>5. state' = s BY <1>5 DEF MeshApply
    <2> HIDE DEF s
    <2>6. IsComposing(s) => Unposted(s.draft)
      BY <1>a, <2>1, <2>3, <2>4 DEF Alone, Unposted, Sweeping
    <2> QED BY <1>a, <2>1, <2>2, <2>3, <2>5, <2>6 DEF Alone, Sweeping, Unposted
  <1>6. CASE SweepBegins
    <2>1. ~overlapped /\ UNCHANGED <<rows, mesh, sent, state>> /\ idle'.pc = "read"
      BY <1>0, <1>6 DEF SweepBegins, Types
    <2>2. idle.pc = "sleep" BY <1>6 DEF SweepBegins
    <2> QED BY <2>1, <2>2 DEF Alone, Sweeping, Unposted
  <1>7. CASE SweepReads
    <2>1. /\ ~overlapped /\ UNCHANGED <<rows, mesh, sent, state>> /\ idle'.state = state
          /\ idle'.pc = IF IsComposing(state) THEN "check" ELSE "sleep"
          /\ mesh.pc # "idle" => ~IsComposing(state) /\ idle.pc = "read"
      BY <1>0, <1>7 DEF SweepReads, Types, Meets
    <2>2. idle.pc = "read" BY <1>7 DEF SweepReads
    <2> QED BY <2>1, <2>2 DEF Alone, Sweeping, Unposted
  <1>8. CASE SweepChecks
    <2>1. /\ ~overlapped /\ UNCHANGED <<rows, mesh, sent, state>> /\ idle'.state = idle.state
          /\ idle'.pc \in {"sleep", "discard", "post"} /\ idle.pc = "check"
      BY <1>0, <1>8 DEF SweepChecks, Types
    <2> QED BY <2>1 DEF Alone, Sweeping, Unposted
  <1>9. CASE SweepDiscards \/ SweepApplies
    <2>1. /\ ~overlapped /\ UNCHANGED <<rows, mesh, sent>> /\ state' = Menu
          /\ idle'.pc = "pop" /\ idle.pc \in {"discard", "apply"}
      BY <1>0, <1>9 DEF SweepDiscards, SweepApplies, Types
    <2> QED BY <2>1, MenuIsDraft DEF Alone, Sweeping, Unposted
  <1>10. CASE SweepPosts
    <2>1. /\ ~overlapped /\ UNCHANGED <<mesh, sent, state>> /\ idle.pc = "post"
          /\ IsComposing(idle.state) /\ Insert(idle.state)
          /\ idle'.pc = "apply" /\ idle'.state = idle.state /\ idle.state \in Drafts
      BY <1>0, <1>10 DEF SweepPosts, Types, Busy
    <2>2. idle.state = state /\ mesh.pc = "idle" /\ Unposted(state.draft)
      BY <2>1 DEF Alone, Sweeping
    <2>3. state.draft <= sent BY <1>0, <1>a, <2>1, <2>2 DEF Counted
    <2> QED BY <1>0, <1>a, <2>1, <2>2, <2>3, InsertOnce DEF Alone, Sweeping
  <1>11. CASE SweepPops
    <2>1. /\ ~overlapped /\ UNCHANGED <<rows, mesh, sent, state>>
          /\ idle'.pc = "sleep" /\ idle.pc = "pop"
      BY <1>0, <1>11 DEF SweepPops, Types
    <2> QED BY <2>1 DEF Alone, Sweeping, Unposted
  <1>12. CASE UNCHANGED vars
    BY <1>12 DEF vars, Alone, Sweeping, Unposted
  <1> QED BY <1>1, <1>2, <1>3, <1>4, <1>5, <1>6, <1>7, <1>8, <1>9, <1>10, <1>11, <1>12 DEF Next

(* Only a message that meets a sweep of the draft can make it be posted twice, be
   left behind when it has been posted, or lose a line. *)
THEOREM OverlapsDoTheHarm == Spec => []OnlyOverlapHurts
  <1>1. Init => Alone
    BY MenuIsDraft DEF Init, Alone, Sweeping, Unposted
  <1>2. Threads /\ (~overlapped => Alone) /\ [Next]_vars => (~overlapped' => Alone')
    BY NextAlone
  <1>3. Threads /\ (~overlapped => Alone) => OnlyOverlapHurts
    <2> SUFFICES ASSUME Threads, Alone PROVE
          /\ \A r, q \in rows : r.draft = q.draft => r = q
          /\ mesh.pc = "idle" /\ ~Sweeping /\ IsComposing(state) =>
                /\ \A r \in rows : r.draft # state.draft
                /\ Len(state.lines) = sent - state.draft
      BY DEF OnlyOverlapHurts
    <2>1. state.draft \in Nat /\ Len(state.lines) \in Nat /\ sent \in Nat
      BY LenProperties, TimeAssumption DEF Threads, Types, Drafts
    <2> QED BY <2>1 DEF Threads, Counted, Alone, Unposted, Sweeping
  <1> QED BY <1>1, <1>2, <1>3, ThreadsHold, PTL DEF Spec
=============================================================================
