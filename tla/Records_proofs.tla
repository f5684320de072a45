--------------------------- MODULE Records_proofs ---------------------------
(***************************************************************************)
(* What becomes of a record on its way through several servers, for any    *)
(* servers, lists of peers and records.  A unique_id tells where a record  *)
(* comes from: what is read of a text has the unique_id of the record the  *)
(* text was made of, or its beginning, or none that a server made.  From   *)
(* this follow that a record arrives as it was, that there is never more   *)
(* than one copy of it for a server - in a job, on the mesh or in the      *)
(* table - and where the deletion of a mail is while the mail is left.     *)
(***************************************************************************)
EXTENDS Sync_proofs

\* The kinds of records.
Kinds == {"BULLETIN", "MAIL", "CHANNEL"}

\* The unique_ids that servers make.
Uids == Servers \X (Nat \ {0})

\* The parts of a text made of what was typed, and of a record with that unique_id.
TypedParts == Typed(Words) \cup {Cut(part) : part \in Typed(Words)}
WireParts(uid) == TypedParts \cup Marks(uid)

----------------------------------------------------------------------------
(* Where a unique_id on the wire comes from *)

\* The fields of what is posted.
LEMMA PostFields ==
  ASSUME NEW uid, NEW e \in Posts(Words, {uid})
  PROVE  /\ e.kind \in Kinds /\ Uid(e) = uid
         /\ e.kind = "BULLETIN" => /\ e.board \in Seq(Typed(Words)) /\ e.name \in Seq(Typed(Words))
                                   /\ e.subject \in Seq(Typed(Words))
                                   /\ e.content \in Seq(Typed(Words)) /\ e.uid = uid
         /\ e.kind = "MAIL" => /\ e.sender \in Seq(Typed(Words)) /\ e.name \in Seq(Typed(Words))
                               /\ e.to \in Seq(Typed(Words)) /\ e.subject \in Seq(Typed(Words))
                               /\ e.content \in Seq(Typed(Words)) /\ e.uid = uid
         /\ e.kind = "CHANNEL" => e.name \in Seq(Typed(Words)) /\ e.url = <<uid>>
<1> DEFINE Text == Seq(Typed(Words)) \ {<<>>}
<1>1. \/ e \in [kind : {"BULLETIN"}, board : Text, name : Text, subject : Text, content : Text,
                uid : {uid}]
      \/ e \in [kind : {"MAIL"}, sender : Text, name : Text, to : Text, subject : Text,
                content : Text, uid : {uid}]
      \/ e \in [kind : {"CHANNEL"}, name : Text, url : {<<u>> : u \in {uid}}]
  BY DEF Posts
<1> QED
  BY <1>1 DEF Kinds, Uid, IsChannel

\* Fields strung together are a sequence of their parts.
LEMMA Strung ==
  ASSUME NEW S, NEW a \in Seq(S), NEW b \in Seq(S), NEW c \in Seq(S), NEW d \in Seq(S),
         NEW f \in Seq(S)
  PROVE  a \o b \o c \o d \in Seq(S) /\ a \o b \o c \o d \o f \in Seq(S)
OBVIOUS

\* Parts that end with a unique_id and have none before it.
EndsWith(parts, uid) == \E body \in Seq(Typed(Words)) : parts = body \o <<uid>>

\* A text is made of what was typed and, at its end, of the record's own unique_id.
LEMMA EncodedParts ==
  ASSUME NEW uid, NEW e \in Posts(Words, {uid})
  PROVE  EndsWith(Encode(e).parts, uid) /\ Encode(e).kind = e.kind
<1>1. CASE e.kind = "BULLETIN"
  <2>1. PICK body \in Seq(Typed(Words)) : body = e.board \o e.name \o e.subject \o e.content
    BY <1>1, PostFields, Strung
  <2>2. e.uid = uid
    BY <1>1, PostFields
  <2>3. Encode(e) = [kind |-> e.kind, parts |-> body \o <<uid>>]
    BY <1>1, <2>1, <2>2, EncodeCases
  <2>4. Encode(e).parts = body \o <<uid>> /\ Encode(e).kind = e.kind
    BY <2>3
  <2> QED
    BY <2>4 DEF EndsWith
<1>2. CASE e.kind = "MAIL"
  <2>1. PICK body \in Seq(Typed(Words)) : body = e.sender \o e.name \o e.to \o e.subject \o e.content
    BY <1>2, PostFields, Strung
  <2>2. e.uid = uid
    BY <1>2, PostFields
  <2>3. Encode(e) = [kind |-> e.kind, parts |-> body \o <<uid>>]
    BY <1>2, <2>1, <2>2, EncodeCases
  <2>4. Encode(e).parts = body \o <<uid>> /\ Encode(e).kind = e.kind
    BY <2>3
  <2> QED
    BY <2>4 DEF EndsWith
<1>3. CASE e.kind = "CHANNEL"
  <2>1. PICK body \in Seq(Typed(Words)) : body = e.name /\ e.url = <<uid>>
    BY <1>3, PostFields
  <2>2. Encode(e) = [kind |-> e.kind, parts |-> body \o <<uid>>]
    BY <1>3, <2>1, EncodeCases
  <2>3. Encode(e).parts = body \o <<uid>> /\ Encode(e).kind = e.kind
    BY <2>2
  <2> QED
    BY <2>3 DEF EndsWith
<1> QED
  BY <1>1, <1>2, <1>3, PostFields DEF Kinds

\* The parts of a text that ends with a unique_id.
LEMMA EndedParts ==
  ASSUME NEW uid, NEW parts, EndsWith(parts, uid)
  PROVE  /\ parts \in Seq(Typed(Words) \cup {uid}) /\ Len(parts) \in Nat \ {0}
         /\ \A j \in 1..(Len(parts) - 1) : parts[j] \in Typed(Words)
<1>1. PICK body \in Seq(Typed(Words)) : parts = body \o <<uid>>
  BY DEF EndsWith
<1> QED
  BY <1>1

\* No cut in the parts from i on that leaves a part to a later chunk.
ReachesEnd(parts, i, cuts) == \A k \in (i - 1)..(Len(parts) - 2) : k \notin DOMAIN cuts

\* A chunk that the cut after part k ends.
EndsAt(text, parts, i, cuts, k) ==
    /\ \A x \in (i - 1)..(Len(parts) - 1) : x \in DOMAIN cuts => k <= x
    /\ text.parts = SubSeq(parts, i, k) \o Remains(parts[k + 1], cuts[k])

\* A chunk is the rest of the parts, or ends with what the next cut leaves of one.
LEMMA ChunkIs ==
  ASSUME NEW kind, NEW parts, Len(parts) \in Nat, NEW i \in 1..Len(parts), NEW cuts,
         NEW text \in ChunkFrom(kind, parts, i, cuts)
  PROVE  /\ text.kind = kind
         /\ \/ ReachesEnd(parts, i, cuts) /\ text.parts = SubSeq(parts, i, Len(parts))
            \/ \E k \in (i - 1)..(Len(parts) - 1) : EndsAt(text, parts, i, cuts, k)
<1> DEFINE ahead == {k \in (i - 1)..(Len(parts) - 1) : k \in DOMAIN cuts}
<1>1. CASE ahead = {}
  <2>1. text = [kind |-> kind, parts |-> SubSeq(parts, i, Len(parts))]
    BY <1>1 DEF ChunkFrom
  <2>2. ReachesEnd(parts, i, cuts)
    BY <1>1 DEF ReachesEnd
  <2> QED
    BY <2>1, <2>2
<1>2. CASE ahead # {}
  <2>1. PICK k \in ahead :
           /\ \A x \in ahead : k <= x
           /\ text = [kind |-> kind, parts |-> SubSeq(parts, i, k) \o Remains(parts[k + 1], cuts[k])]
    BY <1>2 DEF ChunkFrom
  <2>2. EndsAt(text, parts, i, cuts, k)
    BY <2>1 DEF EndsAt
  <2> QED
    BY <2>1, <2>2
<1> QED
  BY <1>1, <1>2

\* There is one chunk from a part on.
LEMMA OneFrom ==
  ASSUME NEW kind, NEW parts, Len(parts) \in Nat, NEW i \in 1..Len(parts), NEW cuts,
         NEW a \in ChunkFrom(kind, parts, i, cuts), NEW b \in ChunkFrom(kind, parts, i, cuts)
  PROVE  a = b
<1> DEFINE ahead == {k \in (i - 1)..(Len(parts) - 1) : k \in DOMAIN cuts}
<1>1. CASE ahead = {}
  BY <1>1 DEF ChunkFrom
<1>2. CASE ahead # {}
  <2>1. PICK k \in ahead :
           /\ \A x \in ahead : k <= x
           /\ a = [kind |-> kind, parts |-> SubSeq(parts, i, k) \o Remains(parts[k + 1], cuts[k])]
    BY <1>2 DEF ChunkFrom
  <2>2. PICK n \in ahead :
           /\ \A x \in ahead : n <= x
           /\ b = [kind |-> kind, parts |-> SubSeq(parts, i, n) \o Remains(parts[n + 1], cuts[n])]
    BY <1>2 DEF ChunkFrom
  <2>3. k = n
    BY <2>1, <2>2
  <2> QED
    BY <2>1, <2>2, <2>3
<1> QED
  BY <1>1, <1>2

\* Parts, and what a cut leaves of the next.
LEMMA CutShort ==
  ASSUME NEW S, NEW T, NEW parts \in Seq(S), NEW i \in 1..Len(parts),
         NEW k \in (i - 1)..(Len(parts) - 1), NEW how, \A j \in i..k : parts[j] \in T,
         Cut(parts[k + 1]) \in T, Nothing \in T
  PROVE  SubSeq(parts, i, k) \o Remains(parts[k + 1], how) \in Seq(T)
<1>1. PICK rest : rest = Remains(parts[k + 1], how)
  OBVIOUS
<1>2. rest \in Seq(T)
  BY <1>1 DEF Remains
<1>3. SubSeq(parts, i, k) \in Seq(T)
  OBVIOUS
<1> QED
  BY <1>1, <1>2, <1>3

\* A chunk of typed parts is one.
LEMMA TypedChunk ==
  ASSUME NEW kind, NEW parts \in Seq(Typed(Words)), NEW i \in 1..Len(parts), NEW cuts,
         NEW text \in ChunkFrom(kind, parts, i, cuts)
  PROVE  text.parts \in Seq(TypedParts)
<1>1. PICK S : S = Typed(Words)
  OBVIOUS
<1>2. PICK T : T = TypedParts
  OBVIOUS
<1>3. parts \in Seq(S) /\ S \subseteq T /\ Nothing \in T /\ \A p \in S : Cut(p) \in T
  BY <1>1, <1>2 DEF TypedParts, Typed
<1>4. \A j \in 1..Len(parts) : parts[j] \in S
  BY <1>3
<1>5. CASE text.parts = SubSeq(parts, i, Len(parts))
  BY <1>2, <1>3, <1>5
<1>6. ASSUME NEW k \in (i - 1)..(Len(parts) - 1), EndsAt(text, parts, i, cuts, k)
      PROVE  text.parts \in Seq(T)
  <2>1. Cut(parts[k + 1]) \in T /\ \A j \in i..k : parts[j] \in T
    BY <1>3, <1>4
  <2>2. SubSeq(parts, i, k) \o Remains(parts[k + 1], cuts[k]) \in Seq(T)
    BY <1>3, <2>1, CutShort
  <2> QED
    BY <1>6, <2>2 DEF EndsAt
<1>7. Len(parts) \in Nat
  OBVIOUS
<1>8. \/ text.parts = SubSeq(parts, i, Len(parts))
      \/ \E k \in (i - 1)..(Len(parts) - 1) : EndsAt(text, parts, i, cuts, k)
  BY <1>7, ChunkIs
<1> QED
  BY <1>2, <1>5, <1>6, <1>8

\* A chunk of parts that end with a unique_id has nothing of it but at their end.
LEMMA EndedChunk ==
  ASSUME NEW uid, NEW kind, NEW parts, EndsWith(parts, uid), NEW i \in 1..Len(parts), NEW cuts,
         NEW text \in ChunkFrom(kind, parts, i, cuts)
  PROVE  /\ text.parts \in Seq(WireParts(uid))
         /\ ReachesEnd(parts, i, cuts) \/ text.parts \in Seq(TypedParts)
<1>1. PICK S : S = Typed(Words)
  OBVIOUS
<1>2. PICK T, U : T = TypedParts /\ U = WireParts(uid)
  OBVIOUS
<1>3. /\ S \subseteq T /\ T \subseteq U /\ Nothing \in T /\ \A p \in S : Cut(p) \in T
      /\ uid \in U /\ Cut(uid) \in U
  BY <1>1, <1>2 DEF TypedParts, WireParts, Typed, Marks
<1>4. /\ parts \in Seq(S \cup {uid}) /\ Len(parts) \in Nat
      /\ \A j \in 1..(Len(parts) - 1) : parts[j] \in S
      /\ \A j \in 1..Len(parts) : parts[j] \in S \cup {uid}
  <2>1. /\ parts \in Seq(S \cup {uid})
        /\ \A j \in 1..(Len(parts) - 1) : parts[j] \in S
    BY <1>1, EndedParts
  <2> QED
    BY <2>1
<1>5. CASE ReachesEnd(parts, i, cuts) /\ text.parts = SubSeq(parts, i, Len(parts))
  <2>1. text.parts \in Seq(U)
    BY <1>3, <1>4, <1>5
  <2> QED
    BY <1>2, <1>5, <2>1
<1>6. ASSUME NEW k \in (i - 1)..(Len(parts) - 1), EndsAt(text, parts, i, cuts, k)
      PROVE  text.parts \in Seq(U) /\ (ReachesEnd(parts, i, cuts) \/ text.parts \in Seq(T))
  <2>1. CASE k = Len(parts) - 1
    <3>1. ReachesEnd(parts, i, cuts)
      BY <1>4, <1>6, <2>1 DEF ReachesEnd, EndsAt
    <3>2. Cut(parts[k + 1]) \in U /\ \A j \in i..k : parts[j] \in U
      BY <1>3, <1>4
    <3>3. SubSeq(parts, i, k) \o Remains(parts[k + 1], cuts[k]) \in Seq(U)
      BY <1>3, <1>4, <3>2, CutShort
    <3>4. text.parts \in Seq(U)
      BY <1>6, <3>3 DEF EndsAt
    <3> QED
      BY <3>1, <3>4
  <2>2. CASE k # Len(parts) - 1
    <3>1. k + 1 \in 1..(Len(parts) - 1)
      BY <1>4, <2>2
    <3>2. Cut(parts[k + 1]) \in T /\ \A j \in i..k : parts[j] \in T
      BY <1>3, <1>4, <3>1
    <3>3. SubSeq(parts, i, k) \o Remains(parts[k + 1], cuts[k]) \in Seq(T)
      BY <1>3, <1>4, <3>2, CutShort
    <3>4. text.parts \in Seq(T)
      BY <1>6, <3>3 DEF EndsAt
    <3> QED
      BY <1>3, <3>4
  <2> QED
    BY <2>1, <2>2
<1>7. \/ ReachesEnd(parts, i, cuts) /\ text.parts = SubSeq(parts, i, Len(parts))
      \/ \E k \in (i - 1)..(Len(parts) - 1) : EndsAt(text, parts, i, cuts, k)
  BY <1>4, ChunkIs
<1> QED
  BY <1>2, <1>5, <1>6, <1>7

\* Where a later chunk that is a sync text begins.
LEMMA LaterIs ==
  ASSUME NEW parts, Len(parts) \in Nat, NEW cuts, NEW text \in LaterChunks(parts, cuts)
  PROVE  \E kind \in SyncKinds : \E k \in 0..(Len(parts) - 2) :
            /\ k \in DOMAIN cuts /\ parts[k + 1] = Word(kind)
            /\ k + 2 \in 1..Len(parts) /\ text \in ChunkFrom(kind, parts, k + 2, cuts)
<1>1. PICK kind \in SyncKinds, k \in 0..(Len(parts) - 2) :
         text \in IF Opens(kind, parts, cuts, k) THEN ChunkFrom(kind, parts, k + 2, cuts) ELSE {}
  BY DEF LaterChunks
<1>2. Opens(kind, parts, cuts, k) /\ text \in ChunkFrom(kind, parts, k + 2, cuts)
  BY <1>1
<1> QED
  BY <1>2 DEF Opens

\* Whatever is sent of a record to the peers consists of its wire parts.
LEMMA SentParts ==
  ASSUME NEW uid, NEW e \in Posts(Words, {uid}), NEW cuts, NEW text \in Texts(e, cuts)
  PROVE  text.parts \in Seq(WireParts(uid))
<1>1. PICK parts : parts = Encode(e).parts
  OBVIOUS
<1>2. EndsWith(parts, uid) /\ Len(parts) \in Nat \ {0}
  BY <1>1, EncodedParts, EndedParts
<1>3. CASE text \in ChunkFrom(e.kind, parts, 1, cuts)
  BY <1>2, <1>3, EndedChunk
<1>4. CASE text \in LaterChunks(parts, cuts)
  BY <1>2, <1>4, LaterIs, EndedChunk
<1> QED
  BY <1>1, <1>3, <1>4 DEF Texts

\* What a peer hears of its broadcast was typed.
LEMMA AiredParts ==
  ASSUME NEW uid, NEW e \in Posts(Words, {uid}), NEW cuts, NEW text \in Aired(e, cuts)
  PROVE  text.parts \in Seq(TypedParts)
<1>1. e.kind = "BULLETIN" /\ text \in LaterChunks(BroadcastParts(e), cuts)
  BY DEF Aired, BroadcastsOnPost, IsBulletin
<1>2. PICK name \in Seq(Typed(Words)), subject \in Seq(Typed(Words)) :
         name = e.name /\ subject = e.subject
  BY <1>1, PostFields
<1>3. PICK parts : parts = BroadcastParts(e)
  OBVIOUS
<1>4. parts \in Seq(Typed(Words))
  <2>1. SubSeq(name, 1, Len(name) - 1) \in Seq(Typed(Words))
    OBVIOUS
  <2> QED
    BY <1>2, <1>3, <2>1 DEF BroadcastParts
<1>5. Len(parts) \in Nat
  BY <1>4
<1> QED
  BY <1>1, <1>3, <1>4, <1>5, LaterIs, TypedChunk

\* The unique_id of what is read is one of the parts of the text.
LEMMA ReadFromParts ==
  ASSUME NEW S, NEW text, text.parts \in Seq(S), NEW e \in Decode(text), e.kind \in Kinds
  PROVE  Uid(e) \in S
<1>1. \/ text.kind = "BULLETIN" /\ Len(text.parts) >= 5 /\ e = BulletinIn(text)
      \/ text.kind = "MAIL" /\ Len(text.parts) >= 6 /\ e = MailIn(text)
      \/ text.kind = "CHANNEL" /\ Len(text.parts) >= 2 /\ e = ChannelIn(text)
      \/ e.kind \in {"DELETE_BULLETIN", "DELETE_MAIL"}
  BY DEF Decode, Deletion
<1>2. CASE text.kind = "BULLETIN" /\ Len(text.parts) >= 5 /\ e = BulletinIn(text)
  <2>1. Uid(e) = text.parts[5]
    BY <1>2 DEF BulletinIn, Uid, IsChannel
  <2> QED
    BY <1>2, <2>1
<1>3. CASE text.kind = "MAIL" /\ Len(text.parts) >= 6 /\ e = MailIn(text)
  <2>1. Uid(e) = text.parts[6]
    BY <1>3 DEF MailIn, Uid, IsChannel
  <2> QED
    BY <1>3, <2>1
<1>4. CASE text.kind = "CHANNEL" /\ Len(text.parts) >= 2 /\ e = ChannelIn(text)
  <2>1. Uid(e) = text.parts[2]
    BY <1>4 DEF ChannelIn, Uid, IsChannel, Field
  <2> QED
    BY <1>4, <2>1
<1> QED
  BY <1>1, <1>2, <1>3, <1>4 DEF Kinds

\* What was typed is never taken for what is left of a unique_id.
LEMMA TypedNoMark ==
  ASSUME NEW w \in Uids, NEW x \in TypedParts
  PROVE  x \notin Marks(w)
<1>1. PICK s, n : w = <<s, n>> /\ n # 0
  BY DEF Uids
<1>2. Marks(w) = {<<s, n>>, <<s, n, "cut">>}
  BY <1>1 DEF Marks, Cut, Nothing
<1>3. \A y : Word(y) \notin Marks(w) /\ Cut(Word(y)) \notin Marks(w)
  BY <1>1, <1>2 DEF Word, Cut, Nothing
<1>4. Nothing \notin Marks(w) /\ Cut(Nothing) \notin Marks(w)
  BY <1>2 DEF Nothing, Cut
<1> QED
  BY <1>3, <1>4 DEF TypedParts, Typed

\* What is left of one unique_id is never taken for another.
LEMMA MarksDiffer ==
  ASSUME NEW u \in Uids, NEW w \in Uids, NEW x \in WireParts(u), x \in Marks(w)
  PROVE  u = w
<1>1. \A v \in Uids : \E s, n : v = <<s, n>>
  BY DEF Uids
<1>2. PICK s, n, z, m : u = <<s, n>> /\ w = <<z, m>>
  BY <1>1
<1>3. Marks(u) = {<<s, n>>, <<s, n, "cut">>} /\ Marks(w) = {<<z, m>>, <<z, m, "cut">>}
  BY <1>2 DEF Marks, Cut, Nothing
<1>4. x \in Marks(u)
  BY TypedNoMark DEF WireParts
<1> QED
  BY <1>2, <1>3, <1>4

\* A unique_id that a server made, or its beginning, is read only of texts made
\* of the record that has it.
LEMMA ReadIsOwn ==
  ASSUME NEW u \in Uids, NEW r, r.rec \in Posts(Words, {u}), NEW text \in Sent(r),
         NEW x \in Decode(text), x.kind \in Kinds, NEW w \in Uids, Uid(x) \in Marks(w)
  PROVE  u = w /\ text \in Texts(r.rec, r.cuts)
<1>1. CASE text \in Texts(r.rec, r.cuts)
  BY <1>1, SentParts, ReadFromParts, MarksDiffer
<1>2. CASE text \in Aired(r.rec, r.aired)
  BY <1>2, AiredParts, ReadFromParts, TypedNoMark
<1> QED
  BY <1>1, <1>2 DEF Sent

\* A text that would store something under a unique_id.
Names(text, v) == \E e \in Decode(text) : e.kind \in Kinds /\ Uid(e) = v

\* Words are what they are called.
LEMMA WordsDiffer == \A a, b : Word(a) = Word(b) => a = b
BY DEF Word

\* One chunk of a record at most has what is left of its unique_id.
LEMMA OneChunk ==
  ASSUME NEW u, NEW e \in Posts(Words, {u}), NEW cuts,
         NEW a \in Texts(e, cuts), NEW b \in Texts(e, cuts),
         NEW w \in Uids, NEW v \in Marks(w), Names(a, v), Names(b, v)
  PROVE  a = b
<1>1. PICK parts : parts = Encode(e).parts
  OBVIOUS
<1>2. EndsWith(parts, u) /\ Len(parts) \in Nat /\ 1 \in 1..Len(parts)
  <2>1. EndsWith(parts, u) /\ Len(parts) \in Nat \ {0}
    BY <1>1, EncodedParts, EndedParts
  <2> QED
    BY <2>1
<1>3. ASSUME NEW text, Names(text, v), NEW kind, NEW i \in 1..Len(parts),
             text \in ChunkFrom(kind, parts, i, cuts)
      PROVE  ReachesEnd(parts, i, cuts)
  BY <1>2, <1>3, EndedChunk, ReadFromParts, TypedNoMark DEF Names
<1> DEFINE First(text) == text \in ChunkFrom(e.kind, parts, 1, cuts)
           Later(text, kind, k) == /\ k \in DOMAIN cuts /\ parts[k + 1] = Word(kind)
                                   /\ k + 2 \in 1..Len(parts)
                                   /\ text \in ChunkFrom(kind, parts, k + 2, cuts)
<1>4. \A text \in Texts(e, cuts) :
         First(text) \/ \E kind \in SyncKinds : \E k \in 0..(Len(parts) - 2) : Later(text, kind, k)
  BY <1>1, <1>2, LaterIs DEF Texts
<1>5. CASE First(a) /\ First(b)
  BY <1>2, <1>5, OneFrom
<1>6. ASSUME NEW x, NEW y, NEW kind, NEW k \in 0..(Len(parts) - 2), First(x), Later(y, kind, k),
             Names(x, v)
      PROVE  FALSE
  <2>1. ReachesEnd(parts, 1, cuts)
    BY <1>2, <1>3, <1>6
  <2> QED
    BY <1>6, <2>1 DEF ReachesEnd
<1>7. ASSUME NEW x, NEW y, NEW kind, NEW k \in 0..(Len(parts) - 2), NEW other,
             NEW n \in 0..(Len(parts) - 2), Later(x, kind, k), Later(y, other, n), Names(x, v)
      PROVE  n <= k
  <2>1. ReachesEnd(parts, k + 2, cuts)
    BY <1>3, <1>7
  <2>2. k + 2 - 1 = k + 1
    OBVIOUS
  <2> QED
    BY <1>2, <1>7, <2>1 DEF ReachesEnd
<1>8. ASSUME NEW kind, NEW k \in 0..(Len(parts) - 2), NEW other,
             NEW n \in 0..(Len(parts) - 2), Later(a, kind, k), Later(b, other, n)
      PROVE  a = b
  <2>1. k <= n /\ n <= k
    BY <1>7, <1>8
  <2>2. k = n
    BY <2>1
  <2>3. kind = other
    BY <1>8, <2>2, WordsDiffer
  <2> QED
    BY <1>2, <1>8, <2>2, <2>3, OneFrom
<1> HIDE DEF First, Later
<1> QED
  BY <1>4, <1>5, <1>6, <1>8

\* A record that is not cut is sent in one text.
LEMMA UncutIsWhole ==
  ASSUME NEW uid, NEW e \in Posts(Words, {uid})
  PROVE  Texts(e, <<>>) = {Encode(e)}
<1>1. PICK parts : parts = Encode(e).parts
  OBVIOUS
<1>2. parts \in Seq(Typed(Words) \cup {uid}) /\ Len(parts) \in Nat
  BY <1>1, EncodedParts, EndedParts
<1>3. \A k : k \notin DOMAIN <<>>
  OBVIOUS
<1>4. LaterChunks(parts, <<>>) = {}
  BY <1>3 DEF LaterChunks, Opens
<1>5. ChunkFrom(e.kind, parts, 1, <<>>) = {[kind |-> e.kind, parts |-> SubSeq(parts, 1, Len(parts))]}
  BY <1>3 DEF ChunkFrom
<1>6. SubSeq(parts, 1, Len(parts)) = parts
  BY <1>2
<1>7. Encode(e) = [kind |-> e.kind, parts |-> parts]
  BY <1>1 DEF Encode
<1> QED
  BY <1>1, <1>4, <1>5, <1>6, <1>7 DEF Texts

----------------------------------------------------------------------------
(* The steps in the terms the invariants need *)

\* What a node posts has the unique_id its server has just made.
LEMMA PostedNumbered ==
  ASSUME NEW t \in Templates, NEW uid
  PROVE  Identified(t.rec, uid) \in Posts(Words, {uid})
<1>1. t.rec \in Posts(Words, {Nothing})
  BY SyncAssumption DEF SyncAssumption
<1>2. PICK e : e = t.rec
  OBVIOUS
<1> DEFINE Text == Seq(Typed(Words)) \ {<<>>}
<1>3. \/ e \in [kind : {"BULLETIN"}, board : Text, name : Text, subject : Text, content : Text,
                uid : {Nothing}]
      \/ e \in [kind : {"MAIL"}, sender : Text, name : Text, to : Text, subject : Text,
                content : Text, uid : {Nothing}]
      \/ e \in [kind : {"CHANNEL"}, name : Text, url : {<<u>> : u \in {Nothing}}]
  BY <1>1, <1>2 DEF Posts
<1> HIDE DEF Text
<1>4. \/ Identified(e, uid) \in [kind : {"BULLETIN"}, board : Text, name : Text, subject : Text,
                                 content : Text, uid : {uid}]
      \/ Identified(e, uid) \in [kind : {"MAIL"}, sender : Text, name : Text, to : Text,
                                 subject : Text, content : Text, uid : {uid}]
      \/ Identified(e, uid) \in [kind : {"CHANNEL"}, name : Text, url : {<<u>> : u \in {uid}}]
  BY <1>3 DEF Identified, IsChannel
<1> QED
  BY <1>2, <1>4 DEF Posts, Text

\* A post, with the record it makes.
Posted(s, th, r) ==
    /\ r.by = s /\ r.rec \in Posts(Words, {NewUid(s)})
    /\ Insert(s, r.rec) /\ Mint(s) /\ Free(s, th)
    /\ PublishRecord(s, th, r)
    /\ made' = made \cup {r}
    /\ UNCHANGED <<peers, net, faults, gone, overtaken>>

\* A post is of a record with the next unique_id.
LEMMA PostIs ==
  ASSUME NEW s \in Servers, NEW th \in Threads, Post(s, th)
  PROVE  \E r : Posted(s, th, r)
<1>1. PICK t \in Templates :
         LET r == [rec |-> Identified(t.rec, NewUid(s)), cuts |-> t.cuts, aired |-> t.aired,
                   by |-> s]
         IN  /\ Insert(s, r.rec)
             /\ PublishRecord(s, th, r)
             /\ made' = made \cup {r}
  BY DEF Post
<1>2. PICK r : r = [rec |-> Identified(t.rec, NewUid(s)), cuts |-> t.cuts, aired |-> t.aired,
                    by |-> s]
  OBVIOUS
<1>3. Insert(s, r.rec) /\ PublishRecord(s, th, r) /\ made' = made \cup {r}
  BY <1>1, <1>2
<1>4. r.by = s /\ r.rec \in Posts(Words, {NewUid(s)})
  BY <1>2, PostedNumbered
<1>5. Posted(s, th, r)
  BY <1>3, <1>4 DEF Post, Posted
<1> QED
  BY <1>5

\* What the mesh thread does with a text: a record that is read of what its sender
\* sent is stored, or what is read as a deletion is done.
TakesRecord(m, r) ==
    /\ r.by = m.from /\ m.text \in Sent(r)
    /\ \E e \in Decode(m.text) : e.kind \in Kinds /\ AcceptRecord(m.to, e)
TakesDeletion(m) == \E kind, uid : AcceptDeletion(m.to, kind, uid)

\* What is read is a record or a deletion.
LEMMA DecodedKind == \A text : \A e \in Decode(text) :
                        e.kind \in Kinds \cup {"DELETE_BULLETIN", "DELETE_MAIL"}
BY DEF Decode, BulletinIn, MailIn, ChannelIn, Deletion, Kinds

\* What is heard is ignored, or stored if it tells of a record, or obeyed if it
\* tells of a deletion; it is not sent on.
LEMMA HandleIs ==
  ASSUME Inv, NEW m \in net, Handle(m)
  PROVE  /\ m.to \in Servers
         /\ \A s \in Servers, th \in Threads : job'[s][th].sends = job[s][th].sends
         /\ \/ UNCHANGED <<rows, doubled, minted, overtaken>>
            \/ \E r \in made : TakesRecord(m, r)
            \/ TakesDeletion(m)
<1>0. m.to \in Servers /\ Sendable(m.from, m.to, m.text)
  BY DEF Inv, TypeOK, NetIsOwn, Sendable
<1>1. \A s \in Servers, th \in Threads : job'[s][th].sends = job[s][th].sends
  <2>1. ASSUME NEW news, Publish(m.to, "mesh", {}, news, {}), NEW s \in Servers, NEW th \in Threads
        PROVE  job'[s][th].sends = job[s][th].sends
    <3>1. PICK j : j = [sends |-> {}, news |-> news, aired |-> {}]
      OBVIOUS
    <3>2. job' = [job EXCEPT ![m.to]["mesh"] = j] /\ j.sends = {}
      BY <2>1, <3>1 DEF Publish
    <3>3. job[m.to]["mesh"].sends = {}
      BY DEF Handle, Free, NoJob
    <3> QED
      BY <3>2, <3>3, <1>0 DEF Inv, Shape
  <2> QED
    BY <2>1 DEF Handle, PublishSynced
<1>2. CASE Read(m) = {}
  <2>1. UNCHANGED <<rows, doubled, minted, overtaken>>
    BY <1>2 DEF Handle, tables
  <2> QED
    BY <1>0, <1>1, <2>1
<1>3. ASSUME NEW e \in Read(m), Accept(m.to, e)
      PROVE  (\E r \in made : TakesRecord(m, r)) \/ TakesDeletion(m)
  <2>1. e \in Decode(m.text)
    BY <1>3 DEF Read
  <2>2. CASE e.kind \in {"DELETE_BULLETIN", "DELETE_MAIL"}
    BY <1>3, <2>2 DEF Accept, TakesDeletion
  <2>3. CASE e.kind \in Kinds
    <3>1. AcceptRecord(m.to, e)
      BY <1>3, <2>3 DEF Accept, Kinds
    <3>2. ~OwnDeletion(m.from, m.text)
      <4> SUFFICES ASSUME NEW g \in gone, m.text = Encode(Deletion("DELETE_MAIL", g[2]))
                   PROVE  FALSE
        BY DEF OwnDeletion
      <4>1. e = Deletion("DELETE_MAIL", g[2])
        BY <2>1, DeletionIsRead
      <4>2. e.kind = "DELETE_MAIL"
        BY <4>1 DEF Deletion
      <4> QED
        BY <2>3, <4>2 DEF Kinds
    <3>3. PICK r \in made : r.by = m.from /\ m.text \in Sent(r)
      BY <1>0, <3>2 DEF Sendable, OwnRecord, OwnBroadcast, Sent
    <3> QED
      BY <2>1, <2>3, <3>1, <3>3 DEF TakesRecord
  <2> QED
    BY <2>1, <2>2, <2>3, DecodedKind
<1> QED
  BY <1>0, <1>1, <1>2, <1>3 DEF Handle

\* A step that brings no record: rows may go, and nothing else that counts here.
OnlyLoses == /\ UNCHANGED <<minted, made, gone>>
             /\ \A s \in Servers : rows'[s] \subseteq rows[s]

\* Deletions take rows away, and no more rows are doubled.
LEMMA DeletionsLose ==
  ASSUME Inv, NEW s \in Servers
  PROVE  /\ \A kind, uid : DeleteByUid(s, kind, uid) =>
               \A d \in Servers : rows'[d] \subseteq rows[d] /\ doubled'[d] \subseteq doubled[d]
         /\ \A e : DeleteRow(s, e) => \A d \in Servers : rows'[d] \subseteq rows[d]
<1> USE DEF Inv, Shape
<1>1. ASSUME NEW kind, NEW uid, DeleteByUid(s, kind, uid), NEW d \in Servers
      PROVE  rows'[d] \subseteq rows[d] /\ doubled'[d] \subseteq doubled[d]
  BY <1>1 DEF DeleteByUid, Without
<1>2. ASSUME NEW e, DeleteRow(s, e), NEW d \in Servers PROVE rows'[d] \subseteq rows[d]
  BY <1>2 DEF DeleteRow
<1> QED
  BY <1>1, <1>2

\* A step posts, or its owner deletes a mail, or a text is handled, or no record
\* comes into a table.
LEMMA StepIs ==
  ASSUME Inv, [Next]_vars
  PROVE  /\ UNCHANGED peers
         /\ \/ \E s \in Servers, th \in Threads : Post(s, th)
            \/ \E s \in Servers : OwnerDeletes(s)
            \/ \E m \in net : Handle(m) /\ UNCHANGED <<made, gone>>
            \/ OnlyLoses
<1>1. ASSUME NEW s \in Servers, AdminDeletes(s) PROVE OnlyLoses /\ UNCHANGED peers
  <2>1. UNCHANGED <<minted, made, gone, peers>>
    BY <1>1 DEF AdminDeletes
  <2>2. \A d \in Servers : rows'[d] \subseteq rows[d]
    BY <1>1, DeletionsLose DEF AdminDeletes
  <2> QED
    BY <2>1, <2>2 DEF OnlyLoses
<1>2. ASSUME NEW s \in Servers, NEW th \in Threads,
             \/ Send(s, th) \/ SendFails(s, th) \/ Broadcast(s, th) \/ BroadcastFails(s, th)
             \/ FanOutStops(s) \/ Crash(s)
      PROVE  OnlyLoses /\ UNCHANGED peers
  BY <1>2 DEF Send, SendFails, Broadcast, BroadcastFails, FanOutStops, Crash, tables, history,
              OnlyLoses
<1>3. ASSUME NEW m \in net, Lose(m) PROVE OnlyLoses /\ UNCHANGED peers
  BY <1>3 DEF Lose, tables, history, OnlyLoses
<1>4. ASSUME UNCHANGED vars PROVE OnlyLoses /\ UNCHANGED peers
  BY <1>4 DEF vars, OnlyLoses
<1>5. ASSUME NEW m \in net, Receive(m) \/ ReceiveTwice(m)
      PROVE  Handle(m) /\ UNCHANGED <<made, gone, peers>>
  BY <1>5 DEF Receive, ReceiveTwice
<1>6. ASSUME NEW s \in Servers, NEW th \in Threads, Post(s, th) PROVE UNCHANGED peers
  BY <1>6 DEF Post
<1>7. ASSUME NEW s \in Servers, OwnerDeletes(s) PROVE UNCHANGED peers
  BY <1>7 DEF OwnerDeletes
<1>8. "mesh" \in Threads
  BY DEF Threads
<1> QED
  BY <1>1, <1>2, <1>3, <1>4, <1>5, <1>6, <1>7, <1>8 DEF Next

----------------------------------------------------------------------------
(* The numbers of the unique_ids *)

\* A unique_id that has been made, if a server makes such: never the next one.
Dated(v) == \A w \in Uids : v \in Marks(w) => w[2] <= minted[w[1]]

\* What was posted, stored and deleted has the unique_ids that were made.
PostsNumbered == \A r \in made : /\ r.by \in Servers
                                 /\ \E n \in 1..minted[r.by] : r.rec \in Posts(Words, {<<r.by, n>>})
PostsApart == \A q, r \in made : Uid(q.rec) = Uid(r.rec) => q = r
RowsDated == \A s \in Servers : \A e \in rows[s] : Dated(Uid(e))
GoneDated == \A g \in gone : g[1] \in Servers /\ Dated(g[2])
NoSelf == \A s \in Servers : s \notin peers[s]

Numbered == PostsNumbered /\ PostsApart /\ RowsDated /\ GoneDated /\ NoSelf

\* A unique_id's number is one of its own marks, and no other's.
LEMMA OwnMark == ASSUME NEW u \in Uids
                 PROVE  u \in Marks(u) /\ \A w \in Uids : u \in Marks(w) => u = w
<1>1. u \in WireParts(u)
  BY DEF WireParts, Marks
<1> QED
  BY <1>1, MarksDiffer DEF Marks

\* The next unique_id is one, and none that has been made.
LEMMA NewIsFresh ==
  ASSUME Inv, NEW s \in Servers
  PROVE  /\ NewUid(s) \in Uids
         /\ \A v \in Marks(NewUid(s)) : ~Dated(v)
<1>1. NewUid(s) \in Uids /\ NewUid(s)[1] = s /\ NewUid(s)[2] = minted[s] + 1 /\ minted[s] \in Nat
  BY DEF Inv, TypeOK, Uids, NewUid
<1>2. ~(minted[s] + 1 <= minted[s])
  BY <1>1
<1> QED
  BY <1>1, <1>2 DEF Dated

\* Unique_ids that are made stay made, also the one a step makes.
LEMMA DatedLasts ==
  ASSUME Inv, NEW s \in Servers, Mint(s) \/ UNCHANGED minted
  PROVE  /\ \A v : Dated(v) => Dated(v)'
         /\ \A u : u = NewUid(s) /\ Mint(s) => Dated(u)'
<1>1. \A x \in Servers : minted[x] \in Nat /\ minted'[x] \in Nat /\ minted[x] <= minted'[x]
  BY DEF Inv, TypeOK, Mint
<1>2. \A w \in Uids : w[1] \in Servers /\ w[2] \in Nat
  BY DEF Uids
<1>3. ASSUME NEW v, Dated(v) PROVE Dated(v)'
  BY <1>1, <1>2, <1>3 DEF Dated, Marks, Cut, Nothing
<1>4. ASSUME NEW u, u = NewUid(s), Mint(s) PROVE Dated(u)'
  <2>1. u \in Uids /\ u[1] = s /\ u[2] = minted'[s]
    BY <1>1, <1>4 DEF Uids, Mint, NewUid, Inv, TypeOK
  <2>2. \A w \in Uids : u \in Marks(w) => w = u
    BY <2>1, OwnMark
  <2>3. \A w \in Uids : u \in Marks(w) => w[2] <= minted'[w[1]]
    BY <2>1, <2>2, <1>1
  <2> QED
    BY <2>3 DEF Dated, Marks, Cut, Nothing
<1> QED
  BY <1>3, <1>4

\* The unique_id of a posted record is one of its server's, and has been made.
LEMMA PostIsDated ==
  ASSUME PostsNumbered, NEW r \in made
  PROVE  /\ r.by \in Servers /\ r.rec \in Posts(Words, {Uid(r.rec)})
         /\ Uid(r.rec) \in Uids /\ Dated(Uid(r.rec)) /\ Uid(r.rec)[1] = r.by
<1>1. PICK n \in 1..minted[r.by] : r.by \in Servers /\ r.rec \in Posts(Words, {<<r.by, n>>})
  BY DEF PostsNumbered
<1>2. PICK u : u = <<r.by, n>>
  OBVIOUS
<1>3. u \in Uids /\ u[1] = r.by /\ u[2] <= minted[u[1]]
  BY <1>1, <1>2 DEF Uids
<1>4. Uid(r.rec) = u
  BY <1>1, <1>2, PostFields
<1>5. \A w \in Uids : u \in Marks(w) => w = u
  BY <1>3, OwnMark
<1> QED
  BY <1>1, <1>2, <1>3, <1>4, <1>5 DEF Dated

\* What is read of a posted record has a unique_id that has been made, if it is
\* one of a server, and then the record's own.
LEMMA ReadIsDated ==
  ASSUME PostsNumbered, NEW r \in made, NEW text \in Sent(r), NEW e \in Decode(text),
         e.kind \in Kinds
  PROVE  /\ Dated(Uid(e))
         /\ \A w \in Uids : Uid(e) \in Marks(w) => w = Uid(r.rec) /\ text \in Texts(r.rec, r.cuts)
<1>1. PICK u : u = Uid(r.rec)
  OBVIOUS
<1>2. u \in Uids /\ Dated(u) /\ u \in Marks(u) /\ r.rec \in Posts(Words, {u})
  BY <1>1, PostIsDated DEF Marks
<1>3. \A w \in Uids : Uid(e) \in Marks(w) => u = w /\ text \in Texts(r.rec, r.cuts)
  BY <1>2, ReadIsOwn
<1> QED
  BY <1>1, <1>2, <1>3 DEF Dated

\* What a server stores of a text: what it read, or the same with a new unique_id.
LEMMA TakenIs ==
  ASSUME NEW m, NEW r, TakesRecord(m, r)
  PROVE  \E e, x :
            /\ e \in Decode(m.text) /\ e.kind \in Kinds /\ Insert(m.to, x)
            /\ \/ x = e /\ UNCHANGED minted
               \/ Uid(x) = NewUid(m.to) /\ Mint(m.to)
<1>1. PICK e \in Decode(m.text) : e.kind \in Kinds /\ AcceptRecord(m.to, e)
  BY DEF TakesRecord
<1>2. PICK x : x = Stored(e, NewUid(m.to))
  OBVIOUS
<1>3. Insert(m.to, x)
  BY <1>1, <1>2 DEF AcceptRecord
<1>4. CASE Unnamed(e)
  <2>1. Mint(m.to)
    BY <1>1, <1>4 DEF AcceptRecord
  <2>2. "uid" \in DOMAIN e /\ e.kind # "CHANNEL"
    BY <1>4 DEF Unnamed, IsChannel, Decode, BulletinIn, MailIn, ChannelIn, Deletion
  <2>3. Uid(x) = NewUid(m.to)
    BY <1>2, <1>4, <2>2 DEF Stored, Unnamed, Identified, IsChannel, Uid
  <2> QED
    BY <1>1, <1>3, <2>1, <2>3
<1>5. CASE ~Unnamed(e)
  BY <1>1, <1>2, <1>3, <1>5 DEF AcceptRecord, Stored
<1> QED
  BY <1>4, <1>5

\* A row more: its unique_id has been made.
LEMMA InsertDated ==
  ASSUME Inv, RowsDated, NEW s \in Servers, NEW e, Insert(s, e), Dated(Uid(e))',
         Mint(s) \/ UNCHANGED minted
  PROVE  RowsDated'
<1>1. \A d \in Servers : \A x \in rows'[d] : x \in rows[d] \/ x = e
  BY DEF Insert, Inv, Shape
<1>2. \A v : Dated(v) => Dated(v)'
  BY DatedLasts
<1> SUFFICES ASSUME NEW d \in Servers, NEW x \in rows'[d] PROVE Dated(Uid(x))'
  BY DEF RowsDated
<1>3. CASE x \in rows[d]
  BY <1>2, <1>3 DEF RowsDated
<1>4. CASE x = e
  BY <1>4
<1> QED
  BY <1>1, <1>3, <1>4

\* The posts, while unique_ids are made.
LEMMA PostsKept ==
  ASSUME Inv, PostsNumbered, PostsApart, NEW s \in Servers, Mint(s) \/ UNCHANGED minted,
         UNCHANGED made
  PROVE  PostsNumbered' /\ PostsApart'
<1>1. \A x \in Servers : minted[x] \in Nat /\ minted'[x] \in Nat /\ minted[x] <= minted'[x]
  BY DEF Inv, TypeOK, Mint
<1>2. ASSUME NEW r \in made
      PROVE  r.by \in Servers /\ \E n \in 1..minted'[r.by] : r.rec \in Posts(Words, {<<r.by, n>>})
  <2>1. PICK n \in 1..minted[r.by] : r.by \in Servers /\ r.rec \in Posts(Words, {<<r.by, n>>})
    BY DEF PostsNumbered
  <2>2. n \in 1..minted'[r.by]
    BY <2>1, <1>1
  <2> QED
    BY <2>1, <2>2
<1>3. PostsNumbered'
  BY <1>2 DEF PostsNumbered
<1> QED
  BY <1>3 DEF PostsApart

\* A post numbers its record with the next unique_id.
LEMMA PostNumbers ==
  ASSUME Inv, Numbered, NEW s \in Servers, NEW th \in Threads, NEW r, Posted(s, th, r)
  PROVE  Numbered'
<1>1. PICK e : e = r.rec
  OBVIOUS
<1>2. /\ r.rec = e /\ e \in Posts(Words, {NewUid(s)}) /\ r.by = s /\ made' = made \cup {r}
      /\ Insert(s, e) /\ Mint(s) /\ UNCHANGED <<gone, peers>>
  BY <1>1 DEF Posted
<1>3. PICK u : u = NewUid(s)
  OBVIOUS
<1>4. Uid(e) = u /\ u = <<s, minted[s] + 1>> /\ minted'[s] = minted[s] + 1 /\ minted[s] \in Nat
  BY <1>2, <1>3, PostFields DEF NewUid, Mint, Inv, TypeOK
<1>5. u \in Uids /\ ~Dated(u)
  BY <1>3, NewIsFresh, OwnMark
<1>6. Dated(u)'
  BY <1>2, <1>3, DatedLasts
<1>7. RowsDated'
  BY <1>2, <1>4, <1>6, InsertDated DEF Numbered
<1>8. GoneDated'
  BY <1>2, DatedLasts DEF GoneDated, Numbered
<1>9. PostsNumbered'
  <2>1. \A x \in Servers : minted[x] \in Nat /\ minted'[x] \in Nat /\ minted[x] <= minted'[x]
    BY <1>2 DEF Inv, TypeOK, Mint
  <2> SUFFICES ASSUME NEW q \in made'
               PROVE  /\ q.by \in Servers
                      /\ \E n \in 1..minted'[q.by] : q.rec \in Posts(Words, {<<q.by, n>>})
    BY DEF PostsNumbered
  <2>2. CASE q \in made
    <3>1. PICK n \in 1..minted[q.by] : q.by \in Servers /\ q.rec \in Posts(Words, {<<q.by, n>>})
      BY <2>2 DEF Numbered, PostsNumbered
    <3>2. n \in 1..minted'[q.by]
      BY <3>1, <2>1
    <3> QED
      BY <3>1, <3>2
  <2>3. CASE q = r
    <3>1. minted'[s] \in 1..minted'[s] /\ e \in Posts(Words, {<<s, minted'[s]>>})
      BY <1>2, <1>3, <1>4
    <3> QED
      BY <2>3, <3>1, <1>2
  <2> QED
    BY <2>2, <2>3, <1>2
<1>10. PostsApart'
  <2>1. \A q \in made : Uid(q.rec) # u
    BY <1>5, PostIsDated DEF Numbered
  <2> QED
    BY <2>1, <1>2, <1>4 DEF Numbered, PostsApart
<1> QED
  BY <1>2, <1>7, <1>8, <1>9, <1>10 DEF Numbered, NoSelf

\* A deletion by an owner is of a unique_id some row has.
LEMMA OwnerDeletesNumbers == ASSUME Inv, Numbered, NEW s \in Servers, OwnerDeletes(s)
                             PROVE  Numbered'
<1>1. PICK e \in rows[s] : /\ IsMail(e) /\ DeleteByUid(s, "MAIL", e.uid)
                           /\ gone' = gone \cup {<<s, e.uid>>}
  BY DEF OwnerDeletes
<1>2. UNCHANGED <<minted, made, peers>>
  BY DEF OwnerDeletes
<1>3. PICK g : g = <<s, e.uid>>
  OBVIOUS
<1>4. Uid(e) = e.uid
  BY <1>1 DEF Uid, IsMail, IsChannel
<1>5. Dated(g[2]) /\ g[1] = s
  BY <1>3, <1>4 DEF Numbered, RowsDated
<1>6. \A v : Dated(v) => Dated(v)'
  BY <1>2, DatedLasts
<1>7. GoneDated'
  BY <1>1, <1>3, <1>5, <1>6 DEF Numbered, GoneDated
<1>8. RowsDated'
  <2>1. \A d \in Servers : rows'[d] \subseteq rows[d]
    BY <1>1, DeletionsLose
  <2> QED
    BY <2>1, <1>6 DEF Numbered, RowsDated
<1>9. PostsNumbered' /\ PostsApart'
  BY <1>2, PostsKept DEF Numbered
<1> QED
  BY <1>2, <1>7, <1>8, <1>9 DEF Numbered, NoSelf

\* What the mesh thread takes in is dated.
LEMMA HandleNumbers ==
  ASSUME Inv, Numbered, NEW m \in net, Handle(m), UNCHANGED <<made, gone, peers>>
  PROVE  Numbered'
<1>1. m.to \in Servers
  BY HandleIs
<1>2. (Mint(m.to) \/ UNCHANGED minted) /\ RowsDated'
  <2>1. CASE UNCHANGED <<rows, doubled, minted, overtaken>>
    BY <2>1, <1>1, DatedLasts DEF Numbered, RowsDated
  <2>2. ASSUME NEW r \in made, TakesRecord(m, r)
        PROVE  (Mint(m.to) \/ UNCHANGED minted) /\ RowsDated'
    <3>1. PICK e, x :
             /\ e \in Decode(m.text) /\ e.kind \in Kinds /\ Insert(m.to, x)
             /\ (x = e /\ UNCHANGED minted) \/ (Uid(x) = NewUid(m.to) /\ Mint(m.to))
      BY <2>2, TakenIs
    <3>2. Dated(Uid(e))
      BY <3>1, <2>2, ReadIsDated DEF TakesRecord, Numbered
    <3>3. PICK v : v = Uid(x)
      OBVIOUS
    <3>4. Dated(v)'
      BY <3>1, <3>2, <3>3, <1>1, DatedLasts
    <3> QED
      BY <3>1, <3>3, <3>4, <1>1, InsertDated DEF Numbered
  <2>3. ASSUME TakesDeletion(m)
        PROVE  (Mint(m.to) \/ UNCHANGED minted) /\ RowsDated'
    <3>1. UNCHANGED minted /\ \E kind, uid : DeleteByUid(m.to, kind, uid)
      BY <2>3 DEF TakesDeletion, AcceptDeletion
    <3>2. \A d \in Servers : rows'[d] \subseteq rows[d]
      BY <3>1, <1>1, DeletionsLose
    <3>3. \A v : Dated(v) => Dated(v)'
      BY <3>1, <1>1, DatedLasts
    <3> QED
      BY <3>1, <3>2, <3>3 DEF Numbered, RowsDated
  <2> QED
    BY <2>1, <2>2, <2>3, HandleIs
<1>3. GoneDated'
  BY <1>1, <1>2, DatedLasts DEF Numbered, GoneDated
<1>4. PostsNumbered' /\ PostsApart'
  BY <1>1, <1>2, PostsKept DEF Numbered
<1> QED
  BY <1>2, <1>3, <1>4 DEF Numbered, NoSelf

\* Where nothing comes into a table, the numbers stay as they are.
LEMMA LosesNumbers == ASSUME Inv, Numbered, OnlyLoses, UNCHANGED peers
                      PROVE  Numbered'
<1>1. UNCHANGED <<minted, made, gone>> /\ \A s \in Servers : rows'[s] \subseteq rows[s]
  BY DEF OnlyLoses
<1>2. \A v : Dated(v) => Dated(v)'
  BY <1>1 DEF Dated, Marks, Cut, Nothing
<1>3. PostsNumbered' /\ PostsApart'
  BY <1>1 DEF Numbered, PostsNumbered, PostsApart
<1>4. RowsDated' /\ GoneDated'
  BY <1>1, <1>2 DEF Numbered, RowsDated, GoneDated
<1> QED
  BY <1>3, <1>4 DEF Numbered, NoSelf

\* At first nothing has a unique_id.
LEMMA InitNumbered == Init => Numbered
BY NoSelfAssumption DEF Init, Numbered, PostsNumbered, PostsApart, RowsDated, GoneDated, NoSelf

\* Every step keeps the numbers in order.
LEMMA NextNumbered == Inv /\ Numbered /\ [Next]_vars => Numbered'
BY StepIs, PostIs, PostNumbers, OwnerDeletesNumbers, HandleNumbers, LosesNumbers

----------------------------------------------------------------------------
(* Records arrive whole *)

\* The fields of each kind.
LEMMA FieldsCases ==
  \A e : /\ e.kind = "BULLETIN" => Fields(e) = {e.board, e.name, e.subject, e.content}
         /\ e.kind = "MAIL" => Fields(e) = {e.sender, e.name, e.to, e.subject, e.content}
         /\ e.kind = "CHANNEL" => Fields(e) = {e.name, e.url}
BY DEF Fields, IsBulletin, IsMail, IsChannel

\* A clean record that is sent in one text is read as it is.
LEMMA CleanIsRead ==
  ASSUME NEW uid, NEW e \in Posts(Words, {uid}), Clean(e)
  PROVE  Decode(Encode(e)) = {e}
<1> DEFINE Text == Seq(Typed(Words)) \ {<<>>}
<1>1. \A f \in Text : Len(f) = 1 => \E a : f = <<a>>
  OBVIOUS
<1>2. \/ e \in [kind : {"BULLETIN"}, board : Text, name : Text, subject : Text, content : Text,
                uid : {uid}]
      \/ e \in [kind : {"MAIL"}, sender : Text, name : Text, to : Text, subject : Text,
                content : Text, uid : {uid}]
      \/ e \in [kind : {"CHANNEL"}, name : Text, url : {<<u>> : u \in {uid}}]
  BY DEF Posts
<1> HIDE DEF Text
<1>3. CASE e \in [kind : {"BULLETIN"}, board : Text, name : Text, subject : Text,
                  content : Text, uid : {uid}]
  <2>0. Fields(e) = {e.board, e.name, e.subject, e.content}
    BY <1>3, FieldsCases
  <2>1. PICK a, b, c, d : e.board = <<a>> /\ e.name = <<b>> /\ e.subject = <<c>> /\ e.content = <<d>>
    <3>1. \A f \in Fields(e) : \E a : f = <<a>>
      BY <1>1, <1>3, <2>0 DEF Clean
    <3>2. /\ \E a : e.board = <<a>>
          /\ \E a : e.name = <<a>>
          /\ \E a : e.subject = <<a>>
          /\ \E a : e.content = <<a>>
      BY <3>1, <2>0
    <3> QED
      BY <3>2
  <2>2. e = PlainBulletin(a, b, c, d, uid)
    BY <2>1, <1>3 DEF PlainBulletin
  <2> QED
    BY <2>2, CleanRecordsSurvive
<1>4. CASE e \in [kind : {"MAIL"}, sender : Text, name : Text, to : Text, subject : Text,
                  content : Text, uid : {uid}]
  <2>0. Fields(e) = {e.sender, e.name, e.to, e.subject, e.content}
    BY <1>4, FieldsCases
  <2>1. PICK a, b, c, d, f : /\ e.sender = <<a>> /\ e.name = <<b>> /\ e.to = <<c>>
                             /\ e.subject = <<d>> /\ e.content = <<f>>
    <3>1. \A x \in Fields(e) : \E a : x = <<a>>
      BY <1>1, <1>4, <2>0 DEF Clean
    <3>2. /\ \E a : e.sender = <<a>>
          /\ \E a : e.name = <<a>>
          /\ \E a : e.to = <<a>>
          /\ \E a : e.subject = <<a>>
          /\ \E a : e.content = <<a>>
      BY <3>1, <2>0
    <3> QED
      BY <3>2
  <2>2. e = PlainMail(a, b, c, d, f, uid)
    BY <2>1, <1>4 DEF PlainMail
  <2> QED
    BY <2>2, CleanRecordsSurvive
<1>5. CASE e \in [kind : {"CHANNEL"}, name : Text, url : {<<u>> : u \in {uid}}]
  <2>1. PICK a : e.name = <<a>>
    BY <1>1, <1>5 DEF Clean, Fields, IsBulletin, IsMail, IsChannel
  <2>2. e = PlainChannel(a, uid)
    BY <2>1, <1>5 DEF PlainChannel
  <2> QED
    BY <2>2, CleanRecordsSurvive
<1> QED
  BY <1>2, <1>3, <1>4, <1>5

\* A row more is whole, when it is of the record it was read of.
LEMMA WholeAdded ==
  ASSUME Inv, RecordsArriveWhole, NEW s \in Servers, NEW e, Insert(s, e), UNCHANGED made,
         \A r \in made : Clean(r.rec) /\ r.cuts = <<>> /\ Uid(e) = Uid(r.rec) => e = r.rec
  PROVE  RecordsArriveWhole'
<1>1. \A d \in Servers : \A x \in rows'[d] : x \in rows[d] \/ x = e
  BY DEF Insert, Inv, Shape
<1> QED
  BY <1>1 DEF RecordsArriveWhole

\* A post's unique_id is new: no row of another record has it.
LEMMA WholePosted ==
  ASSUME Inv, Numbered, RecordsArriveWhole, NEW s \in Servers, NEW th \in Threads,
         NEW r, Posted(s, th, r)
  PROVE  RecordsArriveWhole'
<1>1. PICK e : e = r.rec
  OBVIOUS
<1>2. r.rec = e /\ e \in Posts(Words, {NewUid(s)}) /\ made' = made \cup {r} /\ Insert(s, e)
  BY <1>1 DEF Posted
<1>3. Uid(e) \in Uids /\ ~Dated(Uid(e))
  <2>1. PICK u : u = NewUid(s)
    OBVIOUS
  <2>2. u \in Uids /\ ~Dated(u) /\ Uid(e) = u
    BY <1>2, <2>1, NewIsFresh, OwnMark, PostFields
  <2> QED
    BY <2>2
<1>4. \A d \in Servers : \A x \in rows'[d] : x \in rows[d] \/ x = e
  BY <1>2 DEF Insert, Inv, Shape
<1>5. \A d \in Servers : \A x \in rows[d] : Uid(x) # Uid(e)
  BY <1>3 DEF Numbered, RowsDated
<1>6. \A q \in made : Uid(q.rec) # Uid(e)
  BY <1>3, PostIsDated DEF Numbered
<1> SUFFICES ASSUME NEW d \in Servers, NEW x \in rows'[d], NEW q \in made',
                    Clean(q.rec), q.cuts = <<>>, Uid(x) = Uid(q.rec)
             PROVE  x = q.rec
  BY DEF RecordsArriveWhole
<1>7. CASE x \in rows[d] /\ q \in made
  BY <1>7 DEF RecordsArriveWhole
<1>8. CASE x = e
  BY <1>2, <1>6, <1>8
<1>9. CASE q = r
  BY <1>2, <1>4, <1>5, <1>9
<1> QED
  BY <1>2, <1>4, <1>7, <1>8, <1>9

\* What the mesh thread takes of a clean record is that record.
LEMMA WholeHandled ==
  ASSUME Inv, Numbered, RecordsArriveWhole, NEW m \in net, Handle(m), UNCHANGED made
  PROVE  RecordsArriveWhole'
<1>0. m.to \in Servers
  BY HandleIs
<1>1. CASE UNCHANGED <<rows, doubled, minted, overtaken>>
  BY <1>1 DEF RecordsArriveWhole
<1>2. ASSUME TakesDeletion(m) PROVE RecordsArriveWhole'
  <2>1. \A d \in Servers : rows'[d] \subseteq rows[d]
    BY <1>0, <1>2, DeletionsLose DEF TakesDeletion, AcceptDeletion
  <2> QED
    BY <2>1 DEF RecordsArriveWhole
<1>3. ASSUME NEW q \in made, TakesRecord(m, q) PROVE RecordsArriveWhole'
  <2>1. PICK e, x :
           /\ e \in Decode(m.text) /\ e.kind \in Kinds /\ Insert(m.to, x)
           /\ (x = e /\ UNCHANGED minted) \/ (Uid(x) = NewUid(m.to) /\ Mint(m.to))
    BY <1>3, TakenIs
  <2>2. ASSUME NEW r \in made, Clean(r.rec), r.cuts = <<>>, Uid(x) = Uid(r.rec)
        PROVE  x = r.rec
    <3>1. Uid(r.rec) \in Uids /\ Dated(Uid(r.rec)) /\ r.rec \in Posts(Words, {Uid(r.rec)})
      BY PostIsDated DEF Numbered
    <3>2. x = e
      BY <2>1, <2>2, <3>1, <1>0, NewIsFresh, OwnMark
    <3>3. Uid(r.rec) = Uid(q.rec) /\ m.text \in Texts(q.rec, q.cuts)
      BY <2>1, <1>3, <2>2, <3>1, <3>2, ReadIsDated, OwnMark DEF TakesRecord, Numbered
    <3>4. q = r
      BY <3>3 DEF Numbered, PostsApart
    <3>5. m.text = Encode(r.rec)
      BY <2>2, <3>1, <3>3, <3>4, UncutIsWhole
    <3>6. Decode(m.text) = {r.rec}
      BY <2>2, <3>1, <3>5, CleanIsRead
    <3> QED
      BY <2>1, <3>2, <3>6
  <2> QED
    BY <1>0, <2>1, <2>2, WholeAdded
<1> QED
  BY <1>1, <1>2, <1>3, HandleIs

\* Every step leaves the records whole.
LEMMA NextWhole == Inv /\ Numbered /\ RecordsArriveWhole /\ [Next]_vars => RecordsArriveWhole'
<1> SUFFICES ASSUME Inv, Numbered, RecordsArriveWhole, [Next]_vars PROVE RecordsArriveWhole'
  OBVIOUS
<1>1. ASSUME NEW s \in Servers, NEW th \in Threads, Post(s, th) PROVE RecordsArriveWhole'
  BY <1>1, PostIs, WholePosted
<1>2. ASSUME NEW s \in Servers, OwnerDeletes(s) PROVE RecordsArriveWhole'
  <2>1. UNCHANGED made /\ \A d \in Servers : rows'[d] \subseteq rows[d]
    BY <1>2, DeletionsLose DEF OwnerDeletes
  <2> QED
    BY <2>1 DEF RecordsArriveWhole
<1>3. ASSUME OnlyLoses PROVE RecordsArriveWhole'
  BY <1>3 DEF OnlyLoses, RecordsArriveWhole
<1> QED
  BY <1>1, <1>2, <1>3, StepIs, WholeHandled

\* Sync.RecordsArriveWhole: whatever is lost, repeated or deleted, the row that
\* has the unique_id of a record without '|' that fits into one payload is that
\* record: encode and decode of replication.py agree, and no other text is ever
\* read as one with that unique_id.
THEOREM RecordsStayWhole == Spec => []RecordsArriveWhole
<1>1. Init => RecordsArriveWhole
  BY DEF Init, RecordsArriveWhole
<1> QED
  BY InitInv, NextInv, InitNumbered, NextNumbered, NextWhole, <1>1, PTL DEF Spec

----------------------------------------------------------------------------
(* Never more than one copy for a server *)

\* Where a copy for server d may be: with a thread that has yet to send it, on
\* the mesh, or in the table.
Owes(s, th, send, v, d) == /\ send \in job[s][th].sends /\ send[1] = d
                           /\ Names(send[2], v)
Travels(m, v, d)  == m.to = d /\ Names(m.text, v)
Here(v, d)        == \E e \in rows[d] : Uid(e) = v

\* One thread that owes it by one send, one text that carries it, and no two of a
\* thread, a text and a row.
OneJob(v, d) == \A s, x \in Servers : \A th, y \in Threads : \A a, b :
                   Owes(s, th, a, v, d) /\ Owes(x, y, b, v, d) => s = x /\ th = y /\ a = b
OneText(v, d) == \A m, n \in net : Travels(m, v, d) /\ Travels(n, v, d) => m = n
OneCopy(v, d) ==
    /\ OneJob(v, d) /\ OneText(v, d)
    /\ \A s \in Servers, th \in Threads : \A send :
          Owes(s, th, send, v, d) => ~Here(v, d) /\ \A m \in net : ~Travels(m, v, d)
    /\ \A m \in net : Travels(m, v, d) => ~Here(v, d)

Once == faults = 0 => \A w \in Uids : \A v \in Marks(w) : \A d \in Servers : OneCopy(v, d)

\* Nothing goes wrong in a post, a deletion, a send, a broadcast and a reception.
LEMMA FaultlessStep ==
  ASSUME Inv, [Next]_vars, faults' = 0
  PROVE  /\ faults = 0
         /\ \/ \E s \in Servers, th \in Threads : Post(s, th) \/ Send(s, th) \/ Broadcast(s, th)
            \/ \E s \in Servers : OwnerDeletes(s)
            \/ \E m \in net : Receive(m)
            \/ UNCHANGED vars
<1>1. faults \in Nat
  BY DEF Inv, TypeOK
<1>2. ~Fault
  BY <1>1 DEF Fault
<1>3. \/ \E s \in Servers, th \in Threads : Post(s, th) \/ Send(s, th) \/ Broadcast(s, th)
      \/ \E s \in Servers : OwnerDeletes(s)
      \/ \E m \in net : Receive(m)
      \/ UNCHANGED vars
  BY <1>2 DEF Next, SendFails, BroadcastFails, FanOutStops, Crash, AdminDeletes, ReceiveTwice, Lose
<1>4. UNCHANGED faults
  BY <1>3 DEF Post, Send, Broadcast, OwnerDeletes, Receive, vars
<1> QED
  BY <1>3, <1>4

\* A broadcast names nothing that a server made.
LEMMA AiredNamesNone ==
  ASSUME Numbered, NEW s, NEW text, OwnBroadcast(s, text), NEW w \in Uids, NEW v \in Marks(w)
  PROVE  ~Names(text, v)
<1>1. PICK r \in made : r.by = s /\ text \in Aired(r.rec, r.aired)
  BY DEF OwnBroadcast
<1>2. r.rec \in Posts(Words, {Uid(r.rec)})
  BY PostIsDated DEF Numbered
<1>3. text.parts \in Seq(TypedParts)
  BY <1>1, <1>2, AiredParts
<1> QED
  BY <1>3, ReadFromParts, TypedNoMark DEF Names

\* Who sends a text with a server's unique_id is that server, after making it, and
\* to a peer.
LEMMA NamedIsOwn ==
  ASSUME Inv, Numbered, NEW s, NEW d, NEW text, Sendable(s, d, text),
         NEW w \in Uids, NEW v \in Marks(w), Names(text, v)
  PROVE  s = w[1] /\ w[2] <= minted[w[1]] /\ d \in peers[s]
<1>1. PICK e \in Decode(text) : e.kind \in Kinds /\ Uid(e) = v
  BY DEF Names
<1>2. ASSUME NEW g \in gone, text = Encode(Deletion("DELETE_MAIL", g[2])) PROVE FALSE
  <2>1. e = Deletion("DELETE_MAIL", g[2])
    BY <1>1, <1>2, DeletionIsRead
  <2> QED
    BY <1>1, <2>1 DEF Deletion, Kinds
<1>3. ASSUME NEW r \in made, r.by = s, text \in Texts(r.rec, r.cuts)
      PROVE  s = w[1] /\ w[2] <= minted[w[1]]
  <2>1. w = Uid(r.rec) /\ Dated(v)
    BY <1>1, <1>3, ReadIsDated DEF Numbered, Sent
  <2> QED
    BY <2>1, <1>3, PostIsDated DEF Dated, Numbered
<1>4. ~OwnBroadcast(s, text) /\ ~OwnDeletion(s, text)
  BY <1>2, AiredNamesNone DEF OwnDeletion
<1> QED
  BY <1>3, <1>4 DEF Sendable, OwnRecord

\* A thread that owes something has a job of its server's own.
LEMMA OwedIsOwn ==
  ASSUME Inv, Numbered, NEW s \in Servers, NEW th \in Threads, NEW send, NEW d,
         NEW w \in Uids, NEW v \in Marks(w), Owes(s, th, send, v, d)
  PROVE  s = w[1] /\ w[2] <= minted[w[1]] /\ d \in peers[s] /\ d # s
<1>1. Sendable(s, d, send[2])
  BY DEF Inv, TypeOK, JobsAreOwn, Owes
<1> QED
  BY <1>1, NamedIsOwn DEF Owes, Numbered, NoSelf

\* What travels comes from the server that made its unique_id.
LEMMA TravelsFromOwn ==
  ASSUME Inv, Numbered, NEW m \in net, NEW d, NEW w \in Uids, NEW v \in Marks(w), Travels(m, v, d)
  PROVE  m.from = w[1] /\ w[2] <= minted[w[1]]
BY NamedIsOwn DEF Inv, TypeOK, NetIsOwn, Travels

\* Nobody has, sends or owes what has not been made.
LEMMA NothingAhead ==
  ASSUME Inv, Numbered, NEW x \in Servers, NEW v \in Marks(NewUid(x)), NEW d \in Servers
  PROVE  /\ \A s \in Servers, th \in Threads : \A send : ~Owes(s, th, send, v, d)
         /\ \A m \in net : ~Travels(m, v, d)
         /\ ~Here(v, d)
<1>1. PICK w : w = NewUid(x)
  OBVIOUS
<1>2. w \in Uids /\ ~Dated(v)
  BY <1>1, NewIsFresh
<1>3. ~(w[2] <= minted[w[1]])
  BY <1>1 DEF NewUid, Inv, TypeOK
<1>4. \A s \in Servers, th \in Threads : \A send : ~Owes(s, th, send, v, d)
  BY <1>1, <1>2, <1>3, OwedIsOwn
<1>5. \A m \in net : ~Travels(m, v, d)
  BY <1>1, <1>2, <1>3, TravelsFromOwn
<1>6. ~Here(v, d)
  BY <1>2 DEF Here, Numbered, RowsDated
<1> QED
  BY <1>4, <1>5, <1>6

\* No thread owes more than before.
NoMoreOwed(v, d) == \A s \in Servers, th \in Threads : \A send :
                       Owes(s, th, send, v, d)' => Owes(s, th, send, v, d)

\* No copy comes to be by losing some.
LEMMA CopiesLost ==
  ASSUME NEW v, NEW d, OneCopy(v, d), NoMoreOwed(v, d),
         \A m \in net' : Travels(m, v, d) => m \in net,
         Here(v, d)' => Here(v, d)
  PROVE  OneCopy(v, d)'
<1>1. OneJob(v, d)'
  BY DEF OneCopy, OneJob, NoMoreOwed
<1>2. OneText(v, d)'
  BY DEF OneCopy, OneText, Travels
<1> QED
  BY <1>1, <1>2 DEF OneCopy, Travels, NoMoreOwed

\* The copy in the table is the only one when none is on its way.
LEMMA CopyArrived ==
  ASSUME NEW v, NEW d,
         \A s \in Servers, th \in Threads : \A send : ~Owes(s, th, send, v, d)',
         \A m \in net' : ~Travels(m, v, d)
  PROVE  OneCopy(v, d)'
BY DEF OneCopy, OneJob, OneText, Travels

\* Where the sends are the same, so is what is owed.
LEMMA SameOwed ==
  ASSUME \A s \in Servers, th \in Threads : job'[s][th].sends = job[s][th].sends, NEW v, NEW d
  PROVE  \A s \in Servers, th \in Threads : \A send :
            Owes(s, th, send, v, d)' <=> Owes(s, th, send, v, d)
BY DEF Owes

\* What a publish makes its thread owe.
LEMMA PublishOwes ==
  ASSUME Inv, NEW s \in Servers, NEW th \in Threads, NEW sends, NEW news, NEW aired,
         Publish(s, th, sends, news, aired),
         NEW x \in Servers, NEW y \in Threads, NEW send, NEW v, NEW d, Owes(x, y, send, v, d)'
  PROVE  \/ Owes(x, y, send, v, d)
         \/ x = s /\ y = th /\ send \in sends /\ send[1] = d /\ Names(send[2], v)
<1>1. PICK j : j = [sends |-> sends, news |-> news, aired |-> aired]
  OBVIOUS
<1>2. job' = [job EXCEPT ![s][th] = j] /\ j.sends = sends
  BY <1>1 DEF Publish
<1>3. CASE x = s /\ y = th
  <2>1. job'[x][y] = j
    BY <1>2, <1>3 DEF Inv, Shape
  <2> QED
    BY <1>2, <1>3, <2>1 DEF Owes
<1>4. CASE ~(x = s /\ y = th)
  <2>1. job'[x][y] = job[x][y]
    BY <1>2, <1>4 DEF Inv, Shape
  <2> QED
    BY <2>1 DEF Owes
<1> QED
  BY <1>3, <1>4

\* A send that is done is owed no more.
LEMMA DoneOwes ==
  ASSUME Inv, NEW s \in Servers, NEW th \in Threads, NEW done, Done(s, th, done),
         NEW x \in Servers, NEW y \in Threads, NEW send, NEW v, NEW d, Owes(x, y, send, v, d)'
  PROVE  Owes(x, y, send, v, d) /\ ~(x = s /\ y = th /\ send = done)
<1>1. PICK j : j = [sends |-> job[s][th].sends \ {done}, news |-> job[s][th].news,
                    aired |-> job[s][th].aired]
  OBVIOUS
<1>2. job' = [job EXCEPT ![s][th] = j] /\ j.sends = job[s][th].sends \ {done}
  BY <1>1 DEF Done
<1>3. CASE x = s /\ y = th
  <2>1. job'[x][y] = j
    BY <1>2, <1>3 DEF Inv, Shape
  <2> QED
    BY <1>2, <1>3, <2>1 DEF Owes
<1>4. CASE ~(x = s /\ y = th)
  <2>1. job'[x][y] = job[x][y]
    BY <1>2, <1>4 DEF Inv, Shape
  <2> QED
    BY <2>1, <1>4 DEF Owes
<1> QED
  BY <1>3, <1>4

\* What a text of a record names: a mark of the record's unique_id, if it is one
\* of a server at all.
LEMMA PostNames ==
  ASSUME NEW u \in Uids, NEW r, r.rec \in Posts(Words, {u}), NEW text \in Texts(r.rec, r.cuts),
         NEW w \in Uids, NEW v \in Marks(w), Names(text, v)
  PROVE  w = u
BY ReadIsOwn DEF Names, Sent

\* A post makes the copies of its own record and of no other.
LEMMA OncePosted ==
  ASSUME Inv, Numbered, NEW s \in Servers, NEW th \in Threads, NEW r, Posted(s, th, r),
         NEW w \in Uids, NEW v \in Marks(w), NEW d \in Servers, OneCopy(v, d)
  PROVE  OneCopy(v, d)'
<1>1. PICK u, e : u = NewUid(s) /\ e = r.rec
  OBVIOUS
<1>2. u \in Uids /\ e \in Posts(Words, {u}) /\ Uid(e) = u
  BY <1>1, NewIsFresh, PostFields DEF Posted
<1>3. PICK sends, texts : texts = Texts(e, r.cuts) /\ sends = peers[s] \X texts
  OBVIOUS
<1>4. /\ Insert(s, e) /\ UNCHANGED net
      /\ Publish(s, th, sends, News(e), Aired(e, r.aired))
  BY <1>1, <1>3 DEF Posted, PublishRecord
<1>5. \A x \in rows'[d] : x \in rows[d] \/ (x = e /\ d = s)
  BY <1>4 DEF Insert, Inv, Shape
<1>6. CASE w # u
  <2>1. \A send \in sends : ~Names(send[2], v)
    BY <1>1, <1>2, <1>3, <1>6, PostNames
  <2>2. NoMoreOwed(v, d)
    BY <1>4, <2>1, PublishOwes DEF NoMoreOwed
  <2>3. Here(v, d)' => Here(v, d)
    BY <1>2, <1>5, <1>6, OwnMark DEF Here
  <2> QED
    BY <1>4, <2>2, <2>3, CopiesLost
<1>7. CASE w = u
  <2>1. v \in Marks(NewUid(s))
    BY <1>1, <1>7
  <2>2. /\ \A x \in Servers, y \in Threads : \A send : ~Owes(x, y, send, v, d)
        /\ \A m \in net : ~Travels(m, v, d)
        /\ ~Here(v, d)
    BY <2>1, NothingAhead
  <2>3. \A x \in Servers, y \in Threads : \A send :
           Owes(x, y, send, v, d)' =>
              x = s /\ y = th /\ send \in sends /\ send[1] = d /\ Names(send[2], v)
    BY <1>4, <2>2, PublishOwes
  <2>4. \A a, b \in sends : a[1] = d /\ b[1] = d /\ Names(a[2], v) /\ Names(b[2], v) => a = b
    <3>1. \A a, b \in texts : Names(a, v) /\ Names(b, v) => a = b
      BY <1>2, <1>3, OneChunk
    <3>2. \A send \in sends : send[2] \in texts /\ send = <<send[1], send[2]>>
      BY <1>3
    <3> QED
      BY <3>1, <3>2
  <2>5. \A send \in sends : send[1] \in peers[s]
    BY <1>3
  <2>6. Here(v, d)' => d = s
    BY <1>5, <2>2 DEF Here
  <2>7. s \notin peers[s]
    BY DEF Numbered, NoSelf
  <2>8. OneJob(v, d)'
    BY <2>3, <2>4 DEF OneJob
  <2>9. \A m \in net' : ~Travels(m, v, d)
    BY <1>4, <2>2
  <2> QED
    BY <2>3, <2>5, <2>6, <2>7, <2>8, <2>9 DEF OneCopy, OneText, Travels
<1> QED
  BY <1>6, <1>7

\* A deletion makes no copies.
LEMMA DeletionNames == \A v, x : ~Names(Encode(Deletion("DELETE_MAIL", x)), v)
BY DeletionIsRead DEF Names, Deletion, Kinds

\* The owner's deletion makes no copy.
LEMMA OnceDeleted ==
  ASSUME Inv, NEW s \in Servers, OwnerDeletes(s), NEW v, NEW d \in Servers, OneCopy(v, d)
  PROVE  OneCopy(v, d)'
<1>1. PICK e \in rows[s] :
         /\ DeleteByUid(s, "MAIL", e.uid)
         /\ Publish(s, "mesh", peers[s] \X {Encode(Deletion("DELETE_MAIL", e.uid))}, {}, {})
  BY DEF OwnerDeletes
<1>2. NoMoreOwed(v, d)
  <2>1. \A send \in peers[s] \X {Encode(Deletion("DELETE_MAIL", e.uid))} : ~Names(send[2], v)
    BY DeletionNames
  <2> QED
    BY <1>1, <2>1, PublishOwes DEF Threads, NoMoreOwed
<1>3. Here(v, d)' => Here(v, d)
  BY <1>1, DeletionsLose DEF Here
<1> QED
  BY <1>2, <1>3, CopiesLost DEF OwnerDeletes

\* A turn of the loops moves a copy from the job onto the mesh.
LEMMA OnceSent ==
  ASSUME Inv, NEW s \in Servers, NEW th \in Threads, Send(s, th),
         NEW v, NEW d \in Servers, OneCopy(v, d)
  PROVE  OneCopy(v, d)'
<1>1. PICK done \in job[s][th].sends :
         /\ net' = net \cup {[from |-> s, to |-> done[1], text |-> done[2]]}
         /\ Done(s, th, done)
  BY DEF Send
<1>2. PICK m : m = [from |-> s, to |-> done[1], text |-> done[2]]
  OBVIOUS
<1>3. net' = net \cup {m} /\ m.to = done[1] /\ m.text = done[2]
  BY <1>1, <1>2
<1>4. \A x \in Servers, y \in Threads : \A send :
         Owes(x, y, send, v, d)' => Owes(x, y, send, v, d) /\ ~(x = s /\ y = th /\ send = done)
  BY <1>1, DoneOwes
<1>5. Here(v, d)' <=> Here(v, d)
  BY DEF Send, tables, Here
<1>6. CASE ~Travels(m, v, d)
  BY <1>3, <1>4, <1>5, <1>6, CopiesLost DEF NoMoreOwed
<1>7. CASE Travels(m, v, d)
  <2>1. Owes(s, th, done, v, d)
    BY <1>1, <1>3, <1>7 DEF Travels, Owes
  <2>2. ~Here(v, d) /\ (\A n \in net : ~Travels(n, v, d)) /\ OneJob(v, d)
    BY <2>1 DEF OneCopy
  <2>3. \A x \in Servers, y \in Threads : \A send : ~Owes(x, y, send, v, d)'
    BY <1>4, <2>1, <2>2 DEF OneJob
  <2> QED
    BY <1>3, <1>5, <2>2, <2>3 DEF OneCopy, OneJob, OneText, Travels
<1> QED
  BY <1>6, <1>7

\* The broadcast, after the last send, brings no copy of anything a server made.
LEMMA OnceBroadcast ==
  ASSUME Inv, Numbered, NEW s \in Servers, NEW th \in Threads, Broadcast(s, th),
         NEW w \in Uids, NEW v \in Marks(w), NEW d \in Servers
  PROVE  /\ \A m \in net' : Travels(m, v, d) => m \in net
         /\ \A x \in Servers, y \in Threads : job'[x][y].sends = job[x][y].sends
<1>1. /\ net' = net \cup [from : {s}, to : Servers \ {s}, text : job[s][th].aired]
      /\ job[s][th].sends = {} /\ job' = [job EXCEPT ![s][th] = NoJob]
  BY DEF Broadcast
<1>2. \A text \in job[s][th].aired : ~Names(text, v)
  BY AiredNamesNone DEF Inv, TypeOK, JobsAreOwn
<1>3. NoJob.sends = {}
  BY DEF NoJob
<1> HIDE DEF NoJob
<1> QED
  BY <1>1, <1>2, <1>3 DEF Travels, Inv, Shape

\* A text that is handled no longer travels, and only then may its copy be in
\* the table.
LEMMA OnceReceived ==
  ASSUME Inv, Numbered, NEW m \in net, Receive(m),
         NEW w \in Uids, NEW v \in Marks(w), NEW d \in Servers, OneCopy(v, d)
  PROVE  OneCopy(v, d)'
<1>1. /\ Handle(m) /\ net' = net \ {m} /\ m.to \in Servers
      /\ \A s \in Servers, th \in Threads : job'[s][th].sends = job[s][th].sends
  BY HandleIs DEF Receive
<1>2. \A s \in Servers, th \in Threads : \A send :
         Owes(s, th, send, v, d)' <=> Owes(s, th, send, v, d)
  BY <1>1, SameOwed
<1>3. CASE Travels(m, v, d)
  <2>1. \A s \in Servers, th \in Threads : \A send : ~Owes(s, th, send, v, d)'
    BY <1>2, <1>3 DEF OneCopy
  <2>2. \A n \in net' : ~Travels(n, v, d)
    BY <1>1, <1>3 DEF OneCopy, OneText
  <2> QED
    BY <2>1, <2>2, CopyArrived
<1>4. CASE ~Travels(m, v, d) /\ (Here(v, d)' => Here(v, d))
  BY <1>1, <1>2, <1>4, CopiesLost DEF NoMoreOwed
<1>5. ASSUME ~Travels(m, v, d), Here(v, d)', ~Here(v, d) PROVE OneCopy(v, d)'
  <2>1. PICK x \in rows'[d] : Uid(x) = v /\ x \notin rows[d]
    BY <1>5 DEF Here
  <2>2. PICK r \in made : TakesRecord(m, r)
    <3>1. ASSUME UNCHANGED rows PROVE FALSE
      BY <2>1, <3>1
    <3>2. ASSUME TakesDeletion(m) PROVE FALSE
      BY <1>1, <2>1, <3>2, DeletionsLose DEF TakesDeletion, AcceptDeletion
    <3> QED
      BY <1>1, <3>1, <3>2, HandleIs
  <2>3. PICK e, y :
           /\ e \in Decode(m.text) /\ e.kind \in Kinds /\ Insert(m.to, y)
           /\ (y = e /\ UNCHANGED minted) \/ (Uid(y) = NewUid(m.to) /\ Mint(m.to))
    BY <2>2, TakenIs
  <2>4. x = y /\ d = m.to
    BY <1>1, <2>1, <2>3 DEF Insert, Inv, Shape
  <2>5. x # e
    BY <2>3, <1>5, <2>1, <2>4 DEF Travels, Names
  <2>6. v = NewUid(m.to)
    BY <2>1, <2>3, <2>4, <2>5
  <2>7. v \in Marks(NewUid(m.to))
    BY <2>6 DEF Marks
  <2>8. /\ \A s \in Servers, th \in Threads : \A send : ~Owes(s, th, send, v, d)
        /\ \A n \in net : ~Travels(n, v, d)
    BY <1>1, <2>7, NothingAhead
  <2> QED
    BY <1>1, <1>2, <2>8, CopyArrived
<1> QED
  BY <1>3, <1>4, <1>5

\* Every step leaves one copy at most.
LEMMA NextOnce == Inv /\ Numbered /\ Once /\ [Next]_vars => Once'
<1> SUFFICES ASSUME Inv, Numbered, Once, [Next]_vars, faults' = 0,
                    NEW w \in Uids, NEW v \in Marks(w), NEW d \in Servers
             PROVE  OneCopy(v, d)'
  BY DEF Once, Marks, Cut, Nothing
<1>1. OneCopy(v, d)
  BY FaultlessStep DEF Once
<1>2. ASSUME NEW s \in Servers, NEW th \in Threads, Post(s, th) PROVE OneCopy(v, d)'
  BY <1>1, <1>2, PostIs, OncePosted
<1>3. ASSUME NEW s \in Servers, NEW th \in Threads, Send(s, th) PROVE OneCopy(v, d)'
  BY <1>1, <1>3, OnceSent
<1>4. ASSUME NEW s \in Servers, NEW th \in Threads, Broadcast(s, th) PROVE OneCopy(v, d)'
  <2>1. NoMoreOwed(v, d) /\ \A m \in net' : Travels(m, v, d) => m \in net
    BY <1>4, OnceBroadcast, SameOwed DEF NoMoreOwed
  <2>2. Here(v, d)' <=> Here(v, d)
    BY <1>4 DEF Broadcast, tables, Here
  <2> QED
    BY <1>1, <2>1, <2>2, CopiesLost
<1>5. ASSUME NEW s \in Servers, OwnerDeletes(s) PROVE OneCopy(v, d)'
  BY <1>1, <1>5, OnceDeleted
<1>6. ASSUME NEW m \in net, Receive(m) PROVE OneCopy(v, d)'
  BY <1>1, <1>6, OnceReceived
<1>7. ASSUME UNCHANGED vars PROVE OneCopy(v, d)'
  <2>1. UNCHANGED <<rows, job, net>>
    BY <1>7 DEF vars
  <2>2. NoMoreOwed(v, d)
    BY <2>1 DEF Owes, NoMoreOwed
  <2>3. Here(v, d)' <=> Here(v, d)
    BY <2>1 DEF Here
  <2> QED
    BY <1>1, <2>1, <2>2, <2>3, CopiesLost
<1> QED
  BY <1>2, <1>3, <1>4, <1>5, <1>6, <1>7, FaultlessStep

\* At first there is none.
LEMMA InitOnce == Init => Once
BY DEF Init, Once, OneCopy, OneJob, OneText, Owes, Here, NoJob

\* A record that is not there yet is not doubled by its row.
LEMMA DoubledByInsert ==
  ASSUME Inv, NEW s \in Servers, NEW e, Insert(s, e), NEW d \in Servers, NEW x \in doubled'[d]
  PROVE  x \in doubled[d] \/ (x = e /\ d = s /\ e \in rows[s])
BY DEF Insert, Inv, Shape

\* A record that has one copy gets no second row.
LEMMA NextOneRow == Inv /\ Numbered /\ Once /\ OneRowEach /\ [Next]_vars => OneRowEach'
<1> SUFFICES ASSUME Inv, Numbered, Once, OneRowEach, [Next]_vars, faults' = 0,
                    NEW d \in Servers, NEW q \in made', q.rec \in doubled'[d]
             PROVE  FALSE
  BY DEF OneRowEach
<1>0. faults = 0 /\ \A r \in made : r.rec \notin doubled[d]
  BY FaultlessStep DEF OneRowEach
<1>1. ASSUME NEW s \in Servers, NEW th \in Threads, Post(s, th) PROVE FALSE
  <2>0. PICK post : Posted(s, th, post)
    BY <1>1, PostIs
  <2>1. PICK e, u : e = post.rec /\ u = NewUid(s)
    OBVIOUS
  <2>2. Insert(s, e) /\ \A r \in made' : r \in made \/ r.rec = e
    BY <2>0, <2>1 DEF Posted
  <2>3. ~Dated(Uid(e))
    <3>1. e \in Posts(Words, {u}) /\ u \in Uids /\ ~Dated(u)
      BY <2>0, <2>1, NewIsFresh, OwnMark DEF Posted
    <3> QED
      BY <3>1, PostFields
  <2>4. \A x \in Servers : e \notin rows[x]
    BY <2>3 DEF Numbered, RowsDated
  <2>5. q.rec \in doubled[d]
    BY <2>2, <2>4, DoubledByInsert
  <2>6. q.rec # e
    BY <2>4, <2>5 DEF Inv, TypeOK
  <2> QED
    BY <1>0, <2>2, <2>5, <2>6
<1>2. ASSUME NEW s \in Servers, NEW th \in Threads, Send(s, th) \/ Broadcast(s, th) PROVE FALSE
  BY <1>0, <1>2 DEF Send, Broadcast, tables, history
<1>3. ASSUME NEW s \in Servers, OwnerDeletes(s) PROVE FALSE
  BY <1>0, <1>3, DeletionsLose DEF OwnerDeletes
<1>4. ASSUME NEW m \in net, Receive(m) PROVE FALSE
  <2>1. Handle(m) /\ UNCHANGED made /\ m.to \in Servers
    BY <1>4, HandleIs DEF Receive
  <2>2. CASE UNCHANGED doubled
    BY <1>0, <2>1, <2>2
  <2>3. ASSUME TakesDeletion(m) PROVE FALSE
    BY <1>0, <2>1, <2>3, DeletionsLose DEF TakesDeletion, AcceptDeletion
  <2>4. ASSUME NEW r \in made, TakesRecord(m, r) PROVE FALSE
    <3>1. PICK e, y :
             /\ e \in Decode(m.text) /\ e.kind \in Kinds /\ Insert(m.to, y)
             /\ (y = e /\ UNCHANGED minted) \/ (Uid(y) = NewUid(m.to) /\ Mint(m.to))
      BY <2>4, TakenIs
    <3>2. q.rec = y /\ d = m.to /\ q.rec \in rows[d]
      BY <1>0, <2>1, <3>1, DoubledByInsert
    <3>3. PICK w : w = Uid(q.rec)
      OBVIOUS
    <3>4. w \in Uids /\ Dated(w)
      BY <2>1, <3>3, PostIsDated DEF Numbered
    <3>5. y = e
      BY <2>1, <3>1, <3>2, <3>3, <3>4, NewIsFresh, OwnMark
    <3>7. Travels(m, w, d) /\ Here(w, d)
      BY <3>1, <3>2, <3>3, <3>5 DEF Travels, Names, Here
    <3>8. w \in Marks(w)
      BY DEF Marks
    <3> QED
      BY <1>0, <3>4, <3>7, <3>8 DEF Once, OneCopy
  <2> QED
    BY <2>1, <2>2, <2>3, <2>4, HandleIs
<1>5. ASSUME UNCHANGED vars PROVE FALSE
  BY <1>0, <1>5 DEF vars
<1> QED
  BY <1>1, <1>2, <1>3, <1>4, <1>5, FaultlessStep

\* Sync.OneRowEach: while nothing goes wrong no posted record gets a second row,
\* although unique_id is not UNIQUE and the lists of peers form cycles: a record
\* is sent once to each peer, by its own server only, and never sent on.
THEOREM NoRecordTwice == Spec => []OneRowEach
<1>1. Init => OneRowEach
  BY DEF Init, OneRowEach
<1> QED
  BY InitInv, NextInv, InitNumbered, NextNumbered, InitOnce, NextOnce, NextOneRow, <1>1,
     PTL DEF Spec

----------------------------------------------------------------------------
(* Where the deletion of a mail is *)

\* The text of a deletion.
Del(v) == Encode(Deletion("DELETE_MAIL", v))

\* No mail d has, or is to get, is the one with that unique_id.
Settled(v, d) == /\ \A e \in rows[d] : ~(IsMail(e) /\ Uid(e) = v)
                 /\ \A m \in net : ~Travels(m, v, d)
                 /\ \A s \in Servers, th \in Threads : \A send : ~Owes(s, th, send, v, d)

\* A deletion on its way to d, come too early, or done.
Pending(g, d) == \E th \in Threads : <<d, Del(g[2])>> \in job[g[1]][th].sends
Underway(g, d) == [from |-> g[1], to |-> d, text |-> Del(g[2])] \in net
Pursued(g, d) == \/ Pending(g, d) \/ Underway(g, d)
                 \/ <<d, g[2]>> \in overtaken
                 \/ Settled(g[2], d)

Chased == faults = 0 =>
             \A g \in gone : \A d \in peers[g[1]] : \A w \in Uids :
                g[1] \in peers[d] /\ g[2] \in Marks(w) => Pursued(g, d)

\* A publish takes a free thread and leaves the others their jobs.
LEMMA PublishOthers ==
  ASSUME Inv, NEW s \in Servers, NEW th \in Threads, NEW sends, NEW news, NEW aired, Free(s, th),
         Publish(s, th, sends, news, aired), NEW g, NEW d, g[1] \in Servers, Pending(g, d)
  PROVE  Pending(g, d)'
<1>1. PICK y \in Threads : <<d, Del(g[2])>> \in job[g[1]][y].sends
  BY DEF Pending
<1>2. ~(g[1] = s /\ y = th)
  BY <1>1 DEF Free, NoJob
<1>3. job'[g[1]][y] = job[g[1]][y]
  <2>1. PICK j : j = [sends |-> sends, news |-> news, aired |-> aired]
    OBVIOUS
  <2>2. job' = [job EXCEPT ![s][th] = j]
    BY <2>1 DEF Publish
  <2> QED
    BY <2>2, <1>2 DEF Inv, Shape
<1> QED
  BY <1>1, <1>3 DEF Pending, Del

\* A post brings no mail back: its unique_id has not been deleted before.
LEMMA ChasedPosted ==
  ASSUME Inv, Numbered, NEW s \in Servers, NEW th \in Threads, Post(s, th),
         NEW g \in gone, NEW d \in Servers, NEW w \in Uids, g[2] \in Marks(w), Pursued(g, d)
  PROVE  Pursued(g, d)'
<1>1. PICK r : Posted(s, th, r)
  BY PostIs
<1>2. PICK e, u : e = r.rec /\ u = NewUid(s)
  OBVIOUS
<1>3. PICK sends, texts : texts = Texts(e, r.cuts) /\ sends = peers[s] \X texts
  OBVIOUS
<1>4. /\ Insert(s, e) /\ UNCHANGED <<net, overtaken>> /\ Free(s, th)
      /\ Publish(s, th, sends, News(e), Aired(e, r.aired))
  BY <1>1, <1>2, <1>3 DEF Posted, PublishRecord
<1>5. CASE Pending(g, d)
  <2>1. Pending(g, d)'
    BY <1>4, <1>5, PublishOthers DEF Numbered, GoneDated
  <2> QED
    BY <2>1 DEF Pursued
<1>6. CASE Underway(g, d) \/ <<d, g[2]>> \in overtaken
  BY <1>4, <1>6 DEF Pursued, Underway, Del
<1>7. CASE Settled(g[2], d)
  <2>1. PICK v : v = g[2]
    OBVIOUS
  <2>2. u \in Uids /\ e \in Posts(Words, {u}) /\ Uid(e) = u
    BY <1>1, <1>2, NewIsFresh, PostFields DEF Posted
  <2>3. w # u /\ v \in Marks(w)
    BY <1>2, <2>1, NewIsFresh DEF Numbered, GoneDated
  <2>4. Uid(e) # v
    BY <2>2, <2>3, OwnMark
  <2>5. \A x \in rows'[d] : x \in rows[d] \/ x = e
    BY <1>4 DEF Insert, Inv, Shape
  <2>6. \A send \in sends : ~Names(send[2], v)
    BY <1>2, <1>3, <2>2, <2>3, PostNames
  <2>7. Settled(v, d)
    BY <1>7, <2>1
  <2>8. \A x \in Servers, y \in Threads : \A send : ~Owes(x, y, send, v, d)'
    BY <1>4, <2>6, <2>7, PublishOwes DEF Settled
  <2>9. Settled(v, d)'
    BY <1>4, <2>4, <2>5, <2>7, <2>8 DEF Settled, Travels
  <2> QED
    BY <2>1, <2>9 DEF Pursued
<1> QED
  BY <1>5, <1>6, <1>7 DEF Pursued

\* The owner's deletion is pending for every peer, and the earlier ones go on.
LEMMA ChasedDeleted ==
  ASSUME Inv, Numbered, NEW s \in Servers, OwnerDeletes(s), NEW g \in gone', NEW d \in peers[g[1]],
         d \in Servers, g \in gone => Pursued(g, d)
  PROVE  Pursued(g, d)'
<1>1. PICK e \in rows[s] :
         /\ DeleteByUid(s, "MAIL", e.uid)
         /\ Publish(s, "mesh", peers[s] \X {Del(e.uid)}, {}, {})
         /\ gone' = gone \cup {<<s, e.uid>>}
  BY DEF OwnerDeletes, Del
<1>2. Free(s, "mesh") /\ UNCHANGED <<net, overtaken>> /\ "mesh" \in Threads
  BY DEF OwnerDeletes, Threads
<1>3. CASE g \in gone /\ Pending(g, d)
  <2>1. Pending(g, d)'
    BY <1>1, <1>2, <1>3, PublishOthers DEF Numbered, GoneDated
  <2> QED
    BY <2>1 DEF Pursued
<1>4. CASE Underway(g, d) \/ <<d, g[2]>> \in overtaken
  BY <1>2, <1>4 DEF Pursued, Underway, Del
<1>5. CASE Settled(g[2], d)
  <2>1. PICK v : v = g[2]
    OBVIOUS
  <2>2. \A send \in peers[s] \X {Del(e.uid)} : ~Names(send[2], v)
    BY DeletionNames DEF Del
  <2>3. NoMoreOwed(v, d)
    BY <1>1, <1>2, <2>2, PublishOwes DEF NoMoreOwed
  <2>4. rows'[d] \subseteq rows[d]
    BY <1>1, DeletionsLose
  <2>5. Settled(v, d)'
    BY <1>2, <1>5, <2>1, <2>3, <2>4 DEF Settled, NoMoreOwed
  <2> QED
    BY <2>1, <2>5 DEF Pursued
<1>6. CASE g \notin gone
  <2>1. g[1] = s /\ g[2] = e.uid
    BY <1>1, <1>6
  <2>2. PICK j : j = [sends |-> peers[s] \X {Del(e.uid)}, news |-> {}, aired |-> {}]
    OBVIOUS
  <2>3. job' = [job EXCEPT ![s]["mesh"] = j]
    BY <1>1, <2>2 DEF Publish
  <2>4. job'[s]["mesh"] = j /\ j.sends = peers[s] \X {Del(e.uid)}
    BY <1>2, <2>2, <2>3 DEF Inv, Shape
  <2>5. <<d, Del(e.uid)>> \in job'[s]["mesh"].sends
    BY <2>1, <2>4
  <2>6. Pending(g, d)'
    BY <1>2, <2>1, <2>5 DEF Pending, Del
  <2> QED
    BY <2>6 DEF Pursued
<1> QED
  BY <1>3, <1>4, <1>5, <1>6 DEF Pursued

\* A turn of a fan-out puts a deletion on the mesh, and the text of a mail that
\* is settled is in no fan-out.
LEMMA ChasedSent ==
  ASSUME Inv, Numbered, NEW s \in Servers, NEW th \in Threads, Send(s, th),
         NEW g \in gone, NEW d \in Servers, Pursued(g, d)
  PROVE  Pursued(g, d)'
<1>1. PICK done \in job[s][th].sends :
         /\ net' = net \cup {[from |-> s, to |-> done[1], text |-> done[2]]}
         /\ Done(s, th, done)
  BY DEF Send
<1>2. UNCHANGED <<rows, overtaken, gone>> /\ g[1] \in Servers
  BY DEF Send, tables, history, Numbered, GoneDated
<1>3. CASE Pending(g, d)
  <2>1. PICK y \in Threads : <<d, Del(g[2])>> \in job[g[1]][y].sends
    BY <1>3 DEF Pending
  <2>2. CASE g[1] = s /\ y = th /\ done = <<d, Del(g[2])>>
    <3>1. Underway(g, d)'
      BY <1>1, <2>2 DEF Underway, Del
    <3> QED
      BY <3>1 DEF Pursued
  <2>3. CASE g[1] = s /\ y = th /\ done # <<d, Del(g[2])>>
    <3>1. PICK j : j = [sends |-> job[s][th].sends \ {done}, news |-> job[s][th].news,
                        aired |-> job[s][th].aired]
      OBVIOUS
    <3>2. job' = [job EXCEPT ![s][th] = j] /\ j.sends = job[s][th].sends \ {done}
      BY <1>1, <3>1 DEF Done
    <3>3. job'[s][th] = j
      BY <3>2 DEF Inv, Shape
    <3>4. <<d, Del(g[2])>> \in job'[g[1]][th].sends
      BY <2>1, <2>3, <3>2, <3>3
    <3>5. Pending(g, d)'
      BY <3>4 DEF Pending, Del
    <3> QED
      BY <3>5 DEF Pursued
  <2>4. CASE ~(g[1] = s /\ y = th)
    <3>1. job'[g[1]][y] = job[g[1]][y]
      BY <1>1, <2>4 DEF Done, Inv, Shape
    <3>2. Pending(g, d)'
      BY <2>1, <3>1 DEF Pending, Del
    <3> QED
      BY <3>2 DEF Pursued
  <2> QED
    BY <2>2, <2>3, <2>4
<1>4. CASE Underway(g, d) \/ <<d, g[2]>> \in overtaken
  BY <1>1, <1>2, <1>4 DEF Pursued, Underway, Del
<1>5. CASE Settled(g[2], d)
  <2>1. PICK v : v = g[2]
    OBVIOUS
  <2>2. Settled(v, d)
    BY <1>5, <2>1
  <2>3. \A x \in Servers, y \in Threads : \A send : ~Owes(x, y, send, v, d)'
    BY <1>1, <2>2, DoneOwes DEF Settled
  <2>4. PICK m : m = [from |-> s, to |-> done[1], text |-> done[2]]
    OBVIOUS
  <2>5. ~Travels(m, v, d)
    BY <1>1, <2>2, <2>4 DEF Settled, Travels, Owes
  <2>6. Settled(v, d)'
    BY <1>1, <1>2, <2>2, <2>3, <2>4, <2>5 DEF Settled
  <2> QED
    BY <2>1, <2>6 DEF Pursued
<1> QED
  BY <1>3, <1>4, <1>5 DEF Pursued

\* The jobs have the same sends, so what was pending is.
LEMMA PendingStays ==
  ASSUME NEW g, NEW d, g[1] \in Servers, Pending(g, d),
         \A s \in Servers, th \in Threads : job'[s][th].sends = job[s][th].sends
  PROVE  Pending(g, d)'
BY DEF Pending, Del

\* A broadcast takes no deletion off the mesh and brings no mail.
LEMMA ChasedBroadcast ==
  ASSUME Inv, Numbered, NEW s \in Servers, NEW th \in Threads, Broadcast(s, th),
         NEW g \in gone, NEW d \in Servers, NEW w \in Uids, g[2] \in Marks(w), Pursued(g, d)
  PROVE  Pursued(g, d)'
<1>1. PICK v : v = g[2]
  OBVIOUS
<1>2. /\ \A m \in net' : Travels(m, v, d) => m \in net
      /\ \A x \in Servers, y \in Threads : job'[x][y].sends = job[x][y].sends
  BY <1>1, OnceBroadcast
<1>3. UNCHANGED <<rows, overtaken>> /\ net \subseteq net' /\ g[1] \in Servers
  BY DEF Broadcast, tables, history, Numbered, GoneDated
<1>4. CASE Pending(g, d)
  BY <1>2, <1>3, <1>4, PendingStays DEF Pursued
<1>5. CASE Underway(g, d) \/ <<d, g[2]>> \in overtaken
  BY <1>3, <1>5 DEF Pursued, Underway, Del
<1>6. CASE Settled(g[2], d)
  <2>1. \A x \in Servers, y \in Threads : \A send : ~Owes(x, y, send, v, d)'
    BY <1>1, <1>2, <1>6, SameOwed DEF Settled
  <2>2. Settled(v, d)'
    BY <1>1, <1>2, <1>3, <1>6, <2>1 DEF Settled, Travels
  <2> QED
    BY <1>1, <2>2 DEF Pursued
<1> QED
  BY <1>4, <1>5, <1>6 DEF Pursued

\* A deletion that arrives leaves no mail and, since there is one copy at most,
\* none on its way; or there was none yet and it has been overtaken.
LEMMA DeletionArrives ==
  ASSUME Inv, Numbered, Once, faults = 0, NEW g \in gone, NEW d \in peers[g[1]],
         g[1] \in peers[d], NEW w \in Uids, g[2] \in Marks(w),
         NEW m \in net, m = [from |-> g[1], to |-> d, text |-> Del(g[2])], Receive(m)
  PROVE  Pursued(g, d)'
<1>1. Handle(m) /\ net' = net \ {m} /\ m.to = d /\ m.from = g[1] /\ m.text = Del(g[2])
  BY DEF Receive
<1>2. /\ d \in Servers
      /\ \A s \in Servers, th \in Threads : job'[s][th].sends = job[s][th].sends
  BY <1>1, HandleIs
<1>3. m.text.kind = "DELETE_MAIL"
  <2>1. Del(g[2]) = [kind |-> "DELETE_MAIL", parts |-> <<g[2]>>]
    BY DEF Del, Encode, Deletion, IsBulletin, IsMail, IsChannel
  <2> QED
    BY <1>1, <2>1
<1>4. Read(m) = {Deletion("DELETE_MAIL", g[2])}
  <2>1. FromPeer(m)
    BY <1>1, <1>3 DEF FromPeer, IsSyncMessage, SyncKinds
  <2>2. Decode(m.text) = {Deletion("DELETE_MAIL", g[2])}
    BY <1>1, DeletionIsRead DEF Del
  <2> QED
    BY <2>1, <2>2 DEF Read
<1>5. PICK v : v = g[2]
  OBVIOUS
<1>6. AcceptDeletion(d, "MAIL", v)
  <2>1. PICK e : e \in Read(m) /\ Accept(m.to, e)
    BY <1>1, <1>4 DEF Handle
  <2>2. e.kind = "DELETE_MAIL" /\ e.uid = v
    BY <1>4, <1>5, <2>1 DEF Deletion
  <2> QED
    BY <1>1, <2>1, <2>2 DEF Accept
<1>7. CASE \E e \in rows[d] : e.kind = "MAIL" /\ Uid(e) = v
  <2>1. Here(v, d) /\ OneCopy(v, d)
    BY <1>2, <1>5, <1>7 DEF Here, Once
  <2>2. /\ \A s \in Servers, th \in Threads : \A send : ~Owes(s, th, send, v, d)
        /\ \A n \in net : ~Travels(n, v, d)
    BY <2>1 DEF OneCopy
  <2>3. rows'[d] = Without(d, "MAIL", v)
    BY <1>2, <1>6 DEF AcceptDeletion, DeleteByUid, Inv, Shape
  <2>4. \A e \in rows'[d] : ~(IsMail(e) /\ Uid(e) = v)
    BY <2>3 DEF Without, IsMail
  <2>5. \A s \in Servers, th \in Threads : \A send : ~Owes(s, th, send, v, d)'
    BY <1>2, <2>2, SameOwed
  <2>6. Settled(v, d)'
    BY <1>1, <2>2, <2>4, <2>5 DEF Settled, Travels
  <2> QED
    BY <1>5, <2>6 DEF Pursued
<1>8. CASE ~ \E e \in rows[d] : e.kind = "MAIL" /\ Uid(e) = v
  BY <1>5, <1>6, <1>8 DEF AcceptDeletion, Pursued
<1> QED
  BY <1>7, <1>8

\* Another text that is handled brings no mail back that is settled.
LEMMA ChasedReceived ==
  ASSUME Inv, Numbered, Once, faults = 0, NEW g \in gone, NEW d \in peers[g[1]],
         g[1] \in peers[d], NEW w \in Uids, g[2] \in Marks(w),
         NEW m \in net, Receive(m), Pursued(g, d)
  PROVE  Pursued(g, d)'
<1>1. /\ Handle(m) /\ net' = net \ {m} /\ m.to \in Servers
      /\ \A s \in Servers, th \in Threads : job'[s][th].sends = job[s][th].sends
  BY HandleIs DEF Receive
<1>2. d \in Servers /\ g[1] \in Servers
  BY DEF Inv, TypeOK, Numbered, GoneDated
<1>3. CASE Pending(g, d)
  BY <1>1, <1>2, <1>3, PendingStays DEF Pursued
<1>4. CASE Underway(g, d)
  <2>1. CASE m = [from |-> g[1], to |-> d, text |-> Del(g[2])]
    BY <2>1, DeletionArrives
  <2>2. CASE m # [from |-> g[1], to |-> d, text |-> Del(g[2])]
    BY <1>1, <1>4, <2>2 DEF Underway, Pursued, Del
  <2> QED
    BY <2>1, <2>2
<1>5. CASE <<d, g[2]>> \in overtaken
  <2>1. overtaken \subseteq overtaken'
    BY <1>1, HandleIs DEF TakesRecord, TakesDeletion, AcceptRecord, AcceptDeletion
  <2> QED
    BY <1>5, <2>1 DEF Pursued
<1>6. CASE Settled(g[2], d)
  <2>1. PICK v : v = g[2]
    OBVIOUS
  <2>2. Settled(v, d) /\ v \in Marks(w) /\ Dated(v)
    BY <1>6, <2>1 DEF Numbered, GoneDated
  <2>3. ASSUME NEW x \in rows'[d], IsMail(x), Uid(x) = v PROVE FALSE
    <3>1. x \notin rows[d]
      BY <2>2, <2>3 DEF Settled
    <3>2. PICK r \in made : TakesRecord(m, r)
      <4>1. ASSUME UNCHANGED rows PROVE FALSE
        BY <3>1, <4>1
      <4>2. ASSUME TakesDeletion(m) PROVE FALSE
        BY <1>1, <1>2, <3>1, <4>2, DeletionsLose DEF TakesDeletion, AcceptDeletion
      <4> QED
        BY <1>1, <4>1, <4>2, HandleIs
    <3>3. PICK e, y :
             /\ e \in Decode(m.text) /\ e.kind \in Kinds /\ Insert(m.to, y)
             /\ (y = e /\ UNCHANGED minted) \/ (Uid(y) = NewUid(m.to) /\ Mint(m.to))
      BY <3>2, TakenIs
    <3>4. x = y /\ d = m.to
      BY <1>1, <1>2, <3>1, <3>3 DEF Insert, Inv, Shape
    <3>5. x = e
      BY <1>1, <2>2, <2>3, <3>3, <3>4, NewIsFresh, OwnMark
    <3>6. Travels(m, v, d)
      BY <3>3, <2>3, <3>4, <3>5 DEF Travels, Names
    <3> QED
      BY <2>2, <3>6 DEF Settled
  <2>4. \A s \in Servers, th \in Threads : \A send : ~Owes(s, th, send, v, d)'
    BY <1>1, <2>2, SameOwed DEF Settled
  <2>5. Settled(v, d)'
    BY <1>1, <2>2, <2>3, <2>4 DEF Settled
  <2> QED
    BY <2>1, <2>5 DEF Pursued
<1> QED
  BY <1>3, <1>4, <1>5, <1>6 DEF Pursued

\* Every step keeps the deletion of a mail after it.
LEMMA NextChased == Inv /\ Numbered /\ Once /\ Chased /\ [Next]_vars => Chased'
<1> SUFFICES ASSUME Inv, Numbered, Once, Chased, [Next]_vars, faults' = 0,
                    NEW g \in gone', NEW d \in peers'[g[1]], NEW w \in Uids,
                    g[1] \in peers'[d], g[2] \in Marks(w)
             PROVE  Pursued(g, d)'
  BY DEF Chased, Marks, Cut, Nothing
<1>1. faults = 0 /\ UNCHANGED peers
  BY FaultlessStep, StepIs
<1>2. g \in gone => Pursued(g, d) /\ d \in Servers /\ g[1] \in Servers
  BY <1>1 DEF Chased, Inv, TypeOK, Numbered, GoneDated
<1>3. ASSUME NEW s \in Servers, NEW th \in Threads, Post(s, th) PROVE Pursued(g, d)'
  <2>1. g \in gone
    BY <1>3 DEF Post
  <2> QED
    BY <1>2, <1>3, <2>1, ChasedPosted
<1>4. ASSUME NEW s \in Servers, NEW th \in Threads, Send(s, th) PROVE Pursued(g, d)'
  <2>1. g \in gone
    BY <1>4 DEF Send, history
  <2> QED
    BY <1>2, <1>4, <2>1, ChasedSent
<1>5. ASSUME NEW s \in Servers, NEW th \in Threads, Broadcast(s, th) PROVE Pursued(g, d)'
  <2>1. g \in gone
    BY <1>5 DEF Broadcast, history
  <2> QED
    BY <1>2, <1>5, <2>1, ChasedBroadcast
<1>6. ASSUME NEW s \in Servers, OwnerDeletes(s) PROVE Pursued(g, d)'
  <2>1. g[1] \in Servers
    <3>1. Numbered'
      BY NextNumbered
    <3> QED
      BY <3>1 DEF Numbered, GoneDated
  <2>2. d \in peers[g[1]] /\ d \in Servers
    BY <1>1, <2>1 DEF Inv, TypeOK
  <2> QED
    BY <1>2, <1>6, <2>2, ChasedDeleted
<1>7. ASSUME NEW m \in net, Receive(m) PROVE Pursued(g, d)'
  <2>1. g \in gone
    BY <1>7 DEF Receive
  <2> QED
    BY <1>1, <1>2, <1>7, <2>1, ChasedReceived
<1>8. ASSUME UNCHANGED vars PROVE Pursued(g, d)'
  <2>1. UNCHANGED <<rows, job, net, overtaken, gone>>
    BY <1>8 DEF vars
  <2> QED
    BY <1>2, <2>1 DEF Pursued, Pending, Underway, Settled, Owes, Del
<1> QED
  BY <1>3, <1>4, <1>5, <1>6, <1>7, <1>8, FaultlessStep

\* When nothing is on its way, a deletion has been done or was overtaken.
LEMMA ChasedQuiet == Inv /\ Numbered /\ Chased => GhostsWereOvertaken
<1> SUFFICES ASSUME Inv, Numbered, Chased, Quiet, faults = 0,
                    NEW g \in gone, NEW d \in peers[g[1]], OfAServer(g[2]), g[1] \in peers[d],
                    NEW e \in rows[d], IsMail(e), Uid(e) = g[2]
             PROVE  <<d, g[2]>> \in overtaken
  BY DEF GhostsWereOvertaken
<1>0. PICK s \in Servers : \E n \in 1..minted[s] : g[2] \in Marks(<<s, n>>)
  BY DEF OfAServer
<1>1. PICK n \in 1..minted[s] : g[2] \in Marks(<<s, n>>)
  BY <1>0
<1>2. minted[s] \in Nat
  BY DEF Inv, TypeOK
<1>3. PICK w : w = <<s, n>>
  OBVIOUS
<1>4. w \in Uids /\ g[2] \in Marks(w)
  BY <1>1, <1>2, <1>3 DEF Uids
<1>5. Pursued(g, d)
  BY <1>4 DEF Chased
<1>6. ~Settled(g[2], d)
  BY DEF Settled
<1>7. ~Underway(g, d)
  BY DEF Quiet, Underway
<1>8. ~Pending(g, d)
  <2>1. g[1] \in Servers
    BY DEF Numbered, GoneDated
  <2> QED
    BY <2>1 DEF Quiet, Pending, Free, NoJob
<1> QED
  BY <1>5, <1>6, <1>7, <1>8 DEF Pursued

\* Sync.GhostsWereOvertaken: when nothing is lost and all has been sent, a mail
\* deleted on one server is left on a server that lists it only if the deletion
\* got there before the mail (Store.delete_mail, Replication.publish).
THEOREM OnlyOvertakenGhosts == Spec => []GhostsWereOvertaken
<1>1. Init => Chased
  BY DEF Init, Chased
<1> QED
  BY InitInv, NextInv, InitNumbered, NextNumbered, InitOnce, NextOnce, NextChased, ChasedQuiet,
     <1>1, PTL DEF Spec
=============================================================================
