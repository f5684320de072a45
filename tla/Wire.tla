-------------------------------- MODULE Wire --------------------------------
(***************************************************************************)
(* The sync wire format of replication.py, and what transport.py makes of  *)
(* a text that is too long for one payload.                                *)
(*                                                                         *)
(* A text is a kind and the parts between the '|' after it, which is what  *)
(* decode splits it into.  A field of a record is a sequence of parts too: *)
(* one part, unless somebody typed a '|' into it.  A part is a tuple, so   *)
(* that words and unique_ids <<server, number>> can be compared.           *)
(***************************************************************************)
EXTENDS Naturals, Sequences

Word(w) == <<w, 0>>
Nothing == <<>>                          \* a part that is the empty string

\* A part that has lost its end; the empty string has none to lose.
Cut(part) == IF part = Nothing THEN Nothing ELSE <<part[1], part[2], "cut">>

\* What a node types between two '|'.  No unique_id, which has a number from 1 on.
Typed(words) == {Word(w) : w \in words} \cup {Nothing}

\* Records, as the events of events.py; a field is a sequence of parts.
Posts(words, uids) ==
    LET Text == Seq(Typed(words)) \ {<<>>}
    IN       [kind : {"BULLETIN"}, board : Text, name : Text, subject : Text, content : Text,
              uid : uids]
        \cup [kind : {"MAIL"}, sender : Text, name : Text, to : Text, subject : Text,
              content : Text, uid : uids]
        \cup [kind : {"CHANNEL"}, name : Text, url : {<<uid>> : uid \in uids}]

IsBulletin(e) == e.kind = "BULLETIN"
IsMail(e)     == e.kind = "MAIL"
IsChannel(e)  == e.kind = "CHANNEL"

Encode(e) ==
    [kind  |-> e.kind,
     parts |-> CASE IsBulletin(e) -> e.board \o e.name \o e.subject \o e.content \o <<e.uid>>
                 [] IsMail(e)     -> e.sender \o e.name \o e.to \o e.subject \o e.content
                                       \o <<e.uid>>
                 [] IsChannel(e)  -> e.name \o e.url
                 [] OTHER         -> <<e.uid>>]

Deletion(kind, uid) == [kind |-> kind, uid |-> uid]

\* The prefixes without the one of a channel, which came last.
IsSyncMessageNoChannel(text) == text.kind \in {"BULLETIN", "MAIL", "DELETE_BULLETIN", "DELETE_MAIL"}

SyncKinds == {"BULLETIN", "MAIL", "DELETE_BULLETIN", "DELETE_MAIL", "CHANNEL"}
IsSyncMessage(text) == text.kind \in SyncKinds

Field(text, i) == <<text.parts[i]>>

BulletinIn(text) ==
    [kind |-> "BULLETIN", board |-> Field(text, 1), name |-> Field(text, 2),
     subject |-> Field(text, 3), content |-> Field(text, 4), uid |-> text.parts[5]]

\* The fields of a mail in the order of a bulletin's: the short name first.
MailInNameFirst(text) ==
    [kind |-> "MAIL", sender |-> Field(text, 2), name |-> Field(text, 1), to |-> Field(text, 3),
     subject |-> Field(text, 4), content |-> Field(text, 5), uid |-> text.parts[6]]

MailIn(text) ==
    [kind |-> "MAIL", sender |-> Field(text, 1), name |-> Field(text, 2), to |-> Field(text, 3),
     subject |-> Field(text, 4), content |-> Field(text, 5), uid |-> text.parts[6]]

ChannelIn(text) == [kind |-> "CHANNEL", name |-> Field(text, 1), url |-> Field(text, 2)]

\* The fields by their position: too few of them make no record, and those
\* after the last position are ignored.
Decode(text) ==
    LET Has(kind, n) == text.kind = kind /\ Len(text.parts) >= n
    IN  CASE Has("BULLETIN", 5)        -> {BulletinIn(text)}
          [] Has("MAIL", 6)            -> {MailIn(text)}
          [] Has("CHANNEL", 2)         -> {ChannelIn(text)}
          [] Has("DELETE_BULLETIN", 1) -> {Deletion("DELETE_BULLETIN", text.parts[1])}
          [] Has("DELETE_MAIL", 1)     -> {Deletion("DELETE_MAIL", text.parts[1])}
          [] OTHER                     -> {}

\* The text of a bulletin's broadcast, of which a peer hears the first part as
\* conversation.  The words around the fields belong to its first and last part.
BroadcastParts(e) == SubSeq(e.name, 1, Len(e.name) - 1) \o e.subject
BroadcastsOnPost(e) == IsBulletin(e) /\ e.board = <<Word("Urgent")>>

\* chunks: a text longer than a payload.  `cuts` tells where it is cut: the part
\* after the first k, for every k in its domain, and what is left of that part in
\* the chunk that ends there: "some" of it, the "empty" string, or "none", if
\* the '|' before it is lost too.
Remains(part, how) == CASE how = "some"  -> <<Cut(part)>>
                        [] how = "empty" -> <<Nothing>>
                        [] OTHER         -> <<>>

\* The chunk from part i on: up to the next cut, if there is one.
ChunkFrom(kind, parts, i, cuts) ==
    LET ahead == {k \in (i - 1)..(Len(parts) - 1) : k \in DOMAIN cuts}
    IN  IF ahead = {} THEN {[kind |-> kind, parts |-> SubSeq(parts, i, Len(parts))]}
        ELSE {[kind |-> kind, parts |-> SubSeq(parts, i, k) \o Remains(parts[k + 1], cuts[k])] :
                 k \in {j \in ahead : \A x \in ahead : j <= x}}

\* A later chunk begins with what the cut took from a part.  It is a sync text if
\* that is the name of a kind, typed by somebody: the word of a kind stands for a
\* part that ends in it and, where it is cut, is cut just before it.
Opens(kind, parts, cuts, k) ==
    k \in DOMAIN cuts /\ cuts[k] # "none" /\ parts[k + 1] = Word(kind)

LaterChunks(parts, cuts) ==
    UNION {IF Opens(kind, parts, cuts, k) THEN ChunkFrom(kind, parts, k + 2, cuts) ELSE {} :
              kind \in SyncKinds, k \in 0..(Len(parts) - 2)}

\* The sync texts among the chunks of a record and of its broadcast, and what a
\* peer makes of them.
Texts(e, cuts) == ChunkFrom(e.kind, Encode(e).parts, 1, cuts) \cup LaterChunks(Encode(e).parts, cuts)
Aired(e, cuts) == IF BroadcastsOnPost(e) THEN LaterChunks(BroadcastParts(e), cuts) ELSE {}
Sent(r) == Texts(r.rec, r.cuts) \cup Aired(r.rec, r.aired)
Readings(r) == UNION {Decode(text) : text \in Sent(r)}

\* A record that survives the wire as it is: no '|' in a field.
Fields(e) == CASE IsBulletin(e) -> {e.board, e.name, e.subject, e.content}
               [] IsMail(e)     -> {e.sender, e.name, e.to, e.subject, e.content}
               [] IsChannel(e)  -> {e.name, e.url}
Clean(e) == \A f \in Fields(e) : Len(f) = 1

\* The identity of a stored record: a channel has none but its url.
Identified(e, uid) == IF IsChannel(e) THEN [e EXCEPT !.url = <<uid>>] ELSE [e EXCEPT !.uid = uid]
Uid(e) == IF IsChannel(e) THEN e.url[1] ELSE e.uid

\* insert_*: an empty unique_id is no unique_id, and a new one takes its place.
Unnamed(e) == ~IsChannel(e) /\ e.uid = Nothing
Stored(e, newUid) == IF Unnamed(e) THEN Identified(e, newUid) ELSE e
=============================================================================
