----------------------------- MODULE Js8Client -----------------------------
(***************************************************************************)
(* js8call_integration.JS8CallClient and the writes of js8_db.py: a        *)
(* listener thread reads newline-delimited JSON from a JS8Call server,     *)
(* stores what it hears and announces the urgent, while the main thread    *)
(* starts and closes it.  A step is one access to what the threads share   *)
(* (self.sock, self.connected, the socket), or one message processed.      *)
(*                                                                         *)
(* A line of the server is known by its number and its kind: "urgent",     *)
(* "group" and "station" are RX.DIRECTED messages to such a receiver,      *)
(* "other" any other message, "junk" no JSON, "scalar" JSON that is no     *)
(* object, "blank" an empty line.  A line that is not blank is two bytes,  *)
(* so that a read can end within it, and a newline.                        *)
(***************************************************************************)
EXTENDS Integers, Sequences

CONSTANTS Streams,        \* what the server may send: sequences of kinds
          StoreMessages   \* config.js8.store_messages

VARIABLES lines,      \* the stream the server sends
          read,       \* how many bytes of it recv() has returned
          sock,       \* self.sock: is a socket stored
          connected,  \* self.connected
          conn,       \* the socket itself: "none", "fresh", "open", "shut"
          buffer,     \* bytes read and not decoded
          queue,      \* messages decoded and not processed
          pc, main,   \* where the listener and the main thread are
          mine, held, \* close(), finally: did its read of self.sock find the socket
          lost,       \* history: close() wrote None over a socket it had not read
          heard,      \* history: messages processed, in order
          stored,     \* rows of the JS8Call database, [table, line]
          announced,  \* urgent messages broadcast to the mesh
          why         \* history: how listening ended

vars == <<lines, read, sock, connected, conn, buffer, queue, pc, main, mine, held, lost,
          heard, stored, announced, why>>
socketVars == <<sock, connected, conn, held, lost>>
inbox == <<read, buffer, queue>>
records == <<heard, stored, announced>>

Kinds == {"urgent", "group", "station", "other", "junk", "scalar", "blank"}
ASSUME StreamAssumption == Streams \subseteq Seq(Kinds) /\ StoreMessages \in BOOLEAN

\* A byte is known by its line, the kind of that line, and its place there.
Newline == <<0, "blank", 0>>
Bytes(ls, k) == IF ls[k] = "blank" THEN <<Newline>>
                ELSE <<<<k, ls[k], 1>>, <<k, ls[k], 2>>, Newline>>

\* The first n lines as the server sends them.
Text(ls, n) == LET text[k \in 0..Len(ls)] ==
                       IF k = 0 THEN <<>> ELSE text[k - 1] \o Bytes(ls, k)
               IN  text[n]
Stream == Text(lines, Len(lines))

Listening == {"socket", "connect", "connecting", "mark", "status", "send", "look", "recv", "parked",
              "process", "announce", "tail", "last", "lastannounce"}
Ending == {"finally", "drop", "forget", "release", "ended"}

TypeOK == /\ lines \in Streams /\ read \in 0..Len(Stream)
          /\ sock \in BOOLEAN /\ connected \in BOOLEAN
          /\ mine \in BOOLEAN /\ held \in BOOLEAN /\ lost \in BOOLEAN
          /\ conn \in {"none", "fresh", "open", "shut"}
          /\ buffer \in Seq((1..Len(lines)) \X Kinds \X {1, 2})
          /\ queue \in Seq(1..Len(lines)) /\ heard \in Seq(1..Len(lines))
          /\ pc \in {"none"} \cup Listening \cup Ending
          /\ main \in {"setup", "running", "take", "clear", "shut", "join", "closed"}
          /\ stored \subseteq {"urgent", "groups", "messages"} \X (1..Len(lines))
          /\ announced \subseteq 1..Len(lines)
          /\ why \in {"", "refused", "closed", "ended", "raised"}

Init == /\ lines \in Streams /\ read = 0 /\ buffer = <<>> /\ queue = <<>>
        /\ sock = FALSE /\ connected = FALSE /\ conn = "none"
        /\ pc = "none" /\ main = "setup" 
        /\ mine = FALSE /\ held = FALSE /\ lost = FALSE
        /\ heard = <<>> /\ stored = {} /\ announced = {} /\ why = ""

----------------------------------------------------------------------------
(* decode_messages *)

\* What json.loads makes of one line: a message, or nothing.
Message(part) == IF Len(part) = 2 /\ part[1][1] = part[2][1] /\ part[1][2] # "junk"
                 THEN <<part[1][1]>> ELSE <<>>

\* The previous implementation: one read is one message.
DecodePerRead(bytes) == [messages |-> Message(SelectSeq(bytes, LAMBDA x : x # Newline)),
                         rest |-> <<>>]

\* A newline ends the line before it; the bytes after the last one are left
\* for the next read.
Take(acc, byte) == IF byte = Newline
                   THEN [messages |-> acc.messages \o Message(acc.rest), rest |-> <<>>]
                   ELSE [messages |-> acc.messages, rest |-> Append(acc.rest, byte)]

Decode(bytes) == LET scan[n \in 0..Len(bytes)] ==
                         IF n = 0 THEN [messages |-> <<>>, rest |-> <<>>]
                         ELSE Take(scan[n - 1], bytes[n])
                 IN  scan[Len(bytes)]

----------------------------------------------------------------------------
(* The main thread *)

StartListener == /\ main = "setup" /\ main' = "running" /\ pc' = "socket"
                 /\ UNCHANGED <<lines, socketVars, inbox, records, mine, why>>

\* No database path, host or port: start does nothing.
StartNothing == /\ main = "setup" /\ main' = "running"
                /\ UNCHANGED <<lines, socketVars, inbox, records, pc, mine, why>>

Close == /\ main = "running" /\ main' = "take"
         /\ connected' = FALSE
         /\ UNCHANGED <<lines, sock, conn, held, lost, inbox, records, pc, mine, why>>

\* sock, self.sock = self.sock, None reads what is there ...
TakeSocket == /\ main = "take" /\ main' = "clear"
              /\ mine' = sock
              /\ UNCHANGED <<lines, socketVars, inbox, records, pc, why>>

\* ... and writes None, over a socket the listener has stored since, if it has.
ClearSocket == /\ main = "clear" /\ main' = "shut"
               /\ sock' = FALSE /\ lost' = IF sock /\ ~mine THEN TRUE ELSE lost
               /\ UNCHANGED <<lines, connected, conn, held, inbox, records, pc, mine, why>>

\* A close() that only closes the descriptor: a parked recv() never hears of it.
CloseOnly == /\ main = "shut" /\ main' = "join"
             /\ conn' = IF mine /\ pc # "parked" THEN "shut" ELSE conn
             /\ UNCHANGED <<lines, sock, connected, held, lost, inbox, records, pc, mine, why>>

\* shutdown wakes a listener parked in recv(), close releases the descriptor.
Shutdown == /\ main = "shut" /\ main' = "join"
            /\ conn' = IF mine THEN "shut" ELSE conn
            /\ UNCHANGED <<lines, sock, connected, held, lost, inbox, records, pc, mine, why>>

\* join gives up after _JOIN_TIMEOUT.
Join == /\ main = "join" /\ main' = "closed"
        /\ UNCHANGED <<lines, socketVars, inbox, records, pc, mine, why>>

----------------------------------------------------------------------------
(* The listener: _run and _listen *)

GoTo(place) == pc' = place
End(reason) == pc' = "finally" /\ why' = reason

OpenSocket == /\ pc = "socket" /\ sock' = TRUE /\ conn' = "fresh" /\ GoTo("connect")
              /\ UNCHANGED <<lines, connected, held, lost, inbox, records, main, mine, why>>

\* Reading self.sock after close() has taken it raises AttributeError, which
\* _run does not catch.
Connect == /\ pc = "connect"
           /\ IF sock THEN GoTo("connecting") /\ UNCHANGED why ELSE End("raised")
           /\ UNCHANGED <<lines, socketVars, inbox, records, main, mine>>

Connected == /\ pc = "connecting" /\ GoTo("mark")
             /\ conn' = IF conn = "fresh" THEN "open" ELSE conn
             /\ UNCHANGED <<lines, sock, connected, held, lost, inbox, records, main, mine, why>>

Refused == /\ pc = "connecting" /\ End("refused")
           /\ UNCHANGED <<lines, socketVars, inbox, records, main, mine>>

MarkConnected == /\ pc = "mark" /\ connected' = TRUE /\ GoTo("status")
                 /\ UNCHANGED <<lines, sock, conn, held, lost, inbox, records, main, mine, why>>

AskStatus == /\ pc = "status"
             /\ IF sock THEN GoTo("send") /\ UNCHANGED why ELSE End("raised")
             /\ UNCHANGED <<lines, socketVars, inbox, records, main, mine>>

StatusSent == /\ pc = "send" /\ conn = "open" /\ GoTo("look")
              /\ UNCHANGED <<lines, socketVars, inbox, records, main, mine, why>>

\* send raises OSError, as for a refusal: close() shut the socket, or the server
\* is gone.
SendFails == /\ pc = "send" /\ End("refused")
             /\ UNCHANGED <<lines, socketVars, inbox, records, main, mine>>

Look == /\ pc = "look"
        /\ GoTo(IF connected THEN "recv" ELSE "tail")
        /\ UNCHANGED <<lines, socketVars, inbox, records, main, mine, why>>

Recv == /\ pc = "recv"
        /\ IF sock THEN GoTo("parked") /\ UNCHANGED why ELSE End("raised")
        /\ UNCHANGED <<lines, socketVars, inbox, records, main, mine>>

\* recv() returns some bytes, split wherever TCP split them.
RecvBytes == /\ pc = "parked"
             /\ \E n \in (read + 1)..Len(Stream) :
                   LET decoded == Decode(buffer \o SubSeq(Stream, read + 1, n))
                   IN  read' = n /\ queue' = decoded.messages /\ buffer' = decoded.rest
             /\ GoTo("process")
             /\ UNCHANGED <<lines, socketVars, records, main, mine, why>>

\* recv() returns nothing, or raises OSError: the server hung up or reset us.
ServerEnds == /\ pc = "parked" /\ conn = "open" /\ GoTo("tail") /\ why' = "ended"
              /\ UNCHANGED <<lines, socketVars, inbox, records, main, mine>>

\* The same, because close() shut the socket down.
WokenByShutdown == /\ pc = "parked" /\ conn = "shut" /\ GoTo("tail") /\ why' = "closed"
                   /\ UNCHANGED <<lines, socketVars, inbox, records, main, mine>>

----------------------------------------------------------------------------
(* process *)

\* Tables named by what is in them, which js8_db does not know.
TableByKind(kind) == CASE kind = "station" -> IF StoreMessages THEN {"station"} ELSE {}
                       [] kind \in {"urgent", "group"} -> {kind}
                       [] OTHER -> {}

Table(kind) == CASE kind = "urgent"  -> {"urgent"}
                 [] kind = "group"   -> {"groups"}
                 [] kind = "station" -> IF StoreMessages THEN {"messages"} ELSE {}
                 [] OTHER            -> {}

\* An insert that fails is logged and forgotten.
Insert(k) == stored' \in {stored, stored \cup (Table(lines[k]) \X {k})}

\* One message of the queue: stored, and announced if urgent; a value that is
\* no object has no get() and raises.
Process(at, announcing) ==
    /\ pc = at /\ queue # <<>>
    /\ LET k == Head(queue)
       IN  IF lines[k] = "scalar"
           THEN End("raised") /\ UNCHANGED <<queue, records>>
           ELSE /\ Insert(k)
                /\ heard' = Append(heard, k)
                /\ GoTo(IF lines[k] = "urgent" THEN announcing ELSE at)
                /\ queue' = IF lines[k] = "urgent" THEN queue ELSE Tail(queue)
                /\ UNCHANGED <<announced, why>>
    /\ UNCHANGED <<lines, socketVars, read, buffer, main, mine>>

\* transport.send to the whole mesh, which takes seconds ...
Announce(at, back) ==
    /\ pc = at
    /\ announced' = announced \cup {Head(queue)} /\ queue' = Tail(queue)
    /\ GoTo(back)
    /\ UNCHANGED <<lines, socketVars, read, buffer, main, mine, heard, stored, why>>

\* ... and may raise out of its logging.
AnnounceRaises(at) ==
    /\ pc = at /\ End("raised")
    /\ UNCHANGED <<lines, socketVars, inbox, records, main, mine>>

Processed == /\ pc = "process" /\ queue = <<>> /\ GoTo("look")
             /\ UNCHANGED <<lines, socketVars, inbox, records, main, mine, why>>

\* A listener that ends with what the last newline left over.
DropTail == /\ pc = "tail"
            /\ queue' = <<>> /\ buffer' = <<>> /\ GoTo("last")
            /\ UNCHANGED <<lines, socketVars, read, records, main, mine, why>>

\* A final message may have no newline.
FinalMessage == /\ pc = "tail"
                /\ queue' = Decode(Append(buffer, Newline)).messages
                /\ buffer' = <<>> /\ GoTo("last")
                /\ UNCHANGED <<lines, socketVars, read, records, main, mine, why>>

AllProcessed == /\ pc = "last" /\ queue = <<>> /\ End(IF why = "" THEN "closed" ELSE why)
                /\ UNCHANGED <<lines, socketVars, inbox, records, main, mine>>

Disconnect == /\ pc = "finally" /\ connected' = FALSE /\ GoTo("drop")
              /\ UNCHANGED <<lines, sock, conn, held, lost, inbox, records, main, mine, why>>

\* finally reads self.sock, writes None, and closes what it read.
TakeOwn == /\ pc = "drop" /\ GoTo("forget")
           /\ held' = sock
           /\ UNCHANGED <<lines, sock, connected, conn, lost, inbox, records, main, mine, why>>

ForgetOwn == /\ pc = "forget" /\ GoTo("release")
             /\ sock' = FALSE
             /\ UNCHANGED <<lines, connected, conn, held, lost, inbox, records, main, mine, why>>

\* A listener that leaves its socket to close().
KeepSocket == /\ pc = "release" /\ GoTo("ended")
              /\ UNCHANGED <<lines, socketVars, inbox, records, main, mine, why>>

DropSocket == /\ pc = "release" /\ GoTo("ended")
              /\ conn' = IF held THEN "shut" ELSE conn
              /\ UNCHANGED <<lines, sock, connected, held, lost, inbox, records, main, mine, why>>

Processing == \/ Process("process", "announce") \/ Announce("announce", "process") \/ Processed
              \/ Process("last", "lastannounce") \/ Announce("lastannounce", "last")
              \/ AnnounceRaises("announce") \/ AnnounceRaises("lastannounce")

\* What the listener does without waiting for the server to say more.
ListenerStep == \/ OpenSocket \/ Connect \/ Connected \/ Refused \/ MarkConnected
                \/ AskStatus \/ StatusSent \/ SendFails \/ Look \/ Recv \/ WokenByShutdown \/ Processing \/ FinalMessage \/ AllProcessed
                \/ Disconnect \/ TakeOwn \/ ForgetOwn \/ DropSocket

Next == \/ StartListener \/ StartNothing \/ Close \/ TakeSocket \/ ClearSocket
        \/ Shutdown \/ Join \/ ListenerStep \/ RecvBytes \/ ServerEnds

Spec == Init /\ [][Next]_vars

\* Threads run; when close() is called and what the server sends is open.
FairSpec == /\ Spec /\ WF_vars(ListenerStep)
            /\ WF_vars(TakeSocket \/ ClearSocket \/ Shutdown \/ Join)

----------------------------------------------------------------------------
(* Properties *)

WellFormed(k) == lines[k] \notin {"junk", "blank"}

\* The messages whose line, with its newline if `newline` asks for it, lies
\* within the first n bytes: computed from the stream, not from the reads.
Complete(n, newline) == {k \in 1..Len(lines) : /\ WellFormed(k)
                             /\ Len(Text(lines, k)) - (IF newline THEN 0 ELSE 1) <= n}

\* The members of a set of lines, each once and in the order they were sent.
InOrder(seq, set) == /\ {seq[i] : i \in 1..Len(seq)} = set
                     /\ \A i, j \in 1..Len(seq) : i < j => seq[i] < seq[j]

\* However the reads split the stream, the listener has decoded exactly the
\* messages whose line is complete, each once and in order: what is processed
\* and what is queued, less the urgent one that is both.
FramingIsExact ==
    pc \in {"look", "recv", "parked", "process", "announce"} =>
        InOrder(heard \o (IF pc = "announce" THEN Tail(queue) ELSE queue),
                Complete(read, TRUE))

\* A listener whose server hung up has processed everything it read, a last
\* message without newline included, and announced what was urgent, unless an
\* exception took it down.
NothingReadIsLost ==
    pc = "ended" /\ why = "ended" =>
        /\ InOrder(heard, Complete(read, FALSE))
        /\ \A i \in 1..Len(heard) : lines[heard[i]] = "urgent" => heard[i] \in announced

\* When both threads are done the socket is closed, whoever of the two took it.
\* Only one the listener stored just between close()'s read of self.sock and its
\* write is left to the garbage collector.
SocketIsClosed == pc = "ended" /\ main = "closed" =>
                      ~sock /\ (conn \in {"none", "shut"} \/ lost)

\* Once close() has taken the socket the listener ends, wherever it was: parked
\* in recv(), connecting, or in the middle of its messages.
CloseStops == main = "closed" /\ mine ~> pc = "ended"

\* js8call_integration.py:96 says of close: "Stop listening and wait for the
\* listener to finish."  Whenever it is called, the listener finishes.
CloseFinishes == main = "closed" ~> pc \in {"none", "ended"}
=============================================================================
