----------------------------- MODULE Js8_proofs -----------------------------
(***************************************************************************)
(* Proofs about Js8Client, for every stream, split into reads, failure of  *)
(* the radio side and moment of close().  The listener and close() both    *)
(* take and close the one socket, and between them it is closed, but for   *)
(* one stored just between close()'s read of self.sock and its write.      *)
(* However the reads fall, the listener decodes the complete lines, each   *)
(* once and in order, and one whose server hung up has processed all it    *)
(* read.                                                                   *)
(***************************************************************************)
EXTENDS Js8Client, SequenceTheorems, WellFoundedInduction, TLAPS

\* A socket that has not been shut is somebody's to shut: it is in self.sock,
\* close() or the listener has taken it and is about to, or close() lost it.
Owned == \/ conn \in {"none", "shut"} \/ sock \/ lost
         \/ mine /\ main \in {"clear", "shut"}
         \/ held /\ pc \in {"forget", "release"}

\* What the listener still finds in self.sock when it writes None it has read
\* there, and then it leaves nothing; it runs only once start() has been called.
Dropped == /\ pc = "forget" /\ sock => held
           /\ pc \in {"release", "ended"} => ~sock
           /\ main = "setup" => pc = "none"

\* Where the listener takes its socket down.
Leaving == {"forget", "release", "ended"}

\* Before the listener starts there is no socket.
LEMMA InitOwned == Init => Owned /\ Dropped
BY DEF Init, Owned, Dropped

\* What the main thread does keeps the socket owned: close() shuts what it
\* took, and what it writes None over it took or lost.
LEMMA MainOwns ==
    ASSUME Owned, Dropped,
           \/ StartListener \/ StartNothing \/ Close \/ TakeSocket \/ ClearSocket
           \/ Shutdown \/ Join
    PROVE  Owned' /\ Dropped'
<1> USE DEF Owned, Dropped, socketVars
<1>1. CASE StartListener \/ StartNothing
  BY <1>1 DEF StartListener, StartNothing
<1>2. CASE Close \/ Join
  BY <1>2 DEF Close, Join
<1>3. CASE TakeSocket
  BY <1>3 DEF TakeSocket
<1>4. CASE Shutdown
  BY <1>4 DEF Shutdown
<1>5. CASE ClearSocket
  BY <1>5 DEF ClearSocket
<1> QED
  BY <1>1, <1>2, <1>3, <1>4, <1>5

\* Processing and framing messages touches no socket, and is not near the end.
LEMMA MessagesLeaveTheSocket ==
    ASSUME Processing \/ RecvBytes \/ FinalMessage
    PROVE  UNCHANGED <<socketVars, main, mine>> /\ pc \notin Leaving \cup {"none"} /\ pc' \notin Leaving
<1> USE DEF GoTo, End, Leaving
<1>1. ASSUME NEW at, NEW next, next \notin Leaving, at \notin Leaving \cup {"none"},
             Process(at, next)
      PROVE  UNCHANGED <<socketVars, main, mine>> /\ pc \notin Leaving \cup {"none"} /\ pc' \notin Leaving
  BY <1>1 DEF Process
<1>2. ASSUME NEW at, NEW next, next \notin Leaving, at \notin Leaving \cup {"none"},
             Announce(at, next)
      PROVE  UNCHANGED <<socketVars, main, mine>> /\ pc \notin Leaving \cup {"none"} /\ pc' \notin Leaving
  BY <1>2 DEF Announce
<1>4. ASSUME NEW at, at \notin Leaving \cup {"none"}, AnnounceRaises(at)
      PROVE  UNCHANGED <<socketVars, main, mine>> /\ pc \notin Leaving \cup {"none"} /\ pc' \notin Leaving
  BY <1>4 DEF AnnounceRaises
<1>3. CASE Processed \/ RecvBytes \/ FinalMessage
  BY <1>3 DEF Processed, RecvBytes, FinalMessage
<1> QED
  BY <1>1, <1>2, <1>3, <1>4 DEF Processing

\* What the listener does keeps the socket owned: it puts a new one into
\* self.sock, and at its end shuts what it finds there.
LEMMA ListenerOwns ==
    ASSUME Owned, Dropped, ListenerStep \/ RecvBytes \/ ServerEnds
    PROVE  Owned' /\ Dropped'
<1> USE DEF Owned, Dropped, socketVars, GoTo, End
<1>1. CASE OpenSocket
  BY <1>1 DEF OpenSocket
<1>2. CASE Connected
  BY <1>2 DEF Connected
<1>3. CASE DropSocket
  BY <1>3 DEF DropSocket
<1>4. CASE Processing \/ RecvBytes \/ FinalMessage
  BY <1>4, MessagesLeaveTheSocket DEF Leaving
<1>5. CASE Connect \/ Refused \/ AskStatus \/ Look \/ Recv
  BY <1>5 DEF Connect, Refused, AskStatus, Look, Recv
<1>8. CASE StatusSent \/ SendFails
  BY <1>8 DEF StatusSent, SendFails
<1>9. CASE TakeOwn
  BY <1>9 DEF TakeOwn
<1>10. CASE ForgetOwn
  BY <1>10 DEF ForgetOwn
<1>6. CASE WokenByShutdown \/ ServerEnds \/ AllProcessed
  BY <1>6 DEF WokenByShutdown, ServerEnds, AllProcessed
<1>7. CASE MarkConnected \/ Disconnect
  BY <1>7 DEF MarkConnected, Disconnect
<1> QED
  BY <1>1, <1>2, <1>3, <1>4, <1>5, <1>6, <1>7, <1>8, <1>9, <1>10 DEF ListenerStep

\* When both threads are done the socket is closed, whoever of the two took it
\* and however their accesses to self.sock fall: only one that was stored just
\* between close()'s read and its write of None is not.
THEOREM SocketsAreClosed == Spec => []SocketIsClosed
<1>1. Init => Owned /\ Dropped
  BY InitOwned
<1>2. Owned /\ Dropped /\ [Next]_vars => (Owned /\ Dropped)'
  <2> SUFFICES ASSUME Owned, Dropped, [Next]_vars PROVE Owned' /\ Dropped'
    OBVIOUS
  <2>1. CASE UNCHANGED vars
    BY <2>1 DEF vars, socketVars, Owned, Dropped
  <2> QED
    BY <2>1, MainOwns, ListenerOwns DEF Next
<1>3. Owned /\ Dropped => SocketIsClosed
  BY DEF Owned, Dropped, SocketIsClosed
<1> QED
  BY <1>1, <1>2, <1>3, PTL DEF Spec

----------------------------------------------------------------------------
(* Recursion over the numbers *)

\* A set with zero in it that is closed under adding one holds every number.
LEMMA NumbersByInduction ==
    ASSUME NEW T, 0 \in T, \A n \in Nat : n \in T => n + 1 \in T
    PROVE  Nat \subseteq T
<1> SUFFICES ASSUME Nat \ T # {} PROVE FALSE
  OBVIOUS
<1> DEFINE R == OpToRel(<, Nat)
<1>1. IsWellFoundedOn(R, Nat)
  BY NatLessThanWellFounded
<1>2. R = {ss \in Nat \X Nat : ss[1] < ss[2]}
  BY DEF OpToRel
<1> HIDE DEF R
<1>3. PICK n \in Nat \ T : \A m \in Nat \ T : ~(<<m, n>> \in R)
  BY <1>1, WFMin
<1>4. n # 0 /\ n - 1 \in Nat /\ n - 1 < n
  OBVIOUS
<1>5. n - 1 \notin T
  BY <1>4
<1>6. <<n - 1, n>> \in R
  BY <1>4, <1>2
<1> QED
  BY <1>3, <1>4, <1>5, <1>6

\* The values that start at base, each a step on from the one before.
Iterates(f, N, A, base, step) ==
    f \in [0..N -> A] /\ f[0] = base /\ \A n \in 1..N : f[n] = step[n][f[n - 1]]

\* What a step makes of the value before it defines a function.
LEMMA RecursiveFunction ==
    ASSUME NEW N \in Nat, NEW A, NEW base \in A, NEW step \in [1..N -> [A -> A]]
    PROVE  \E f : Iterates(f, N, A, base, step)
<1> DEFINE Defines(f, m) == f[0] = base /\ \A n \in 1..m : f[n] = step[n][f[n - 1]]
           T == {m \in Nat : m <= N => \E f \in [0..m -> A] : Defines(f, m)}
<1>1. 0 \in T
  <2> DEFINE g == [n \in 0..0 |-> base]
  <2>1. g \in [0..0 -> A] /\ Defines(g, 0)
    OBVIOUS
  <2> QED
    BY <2>1
<1>2. ASSUME NEW m \in Nat, m \in T PROVE m + 1 \in T
  <2> SUFFICES ASSUME m + 1 <= N PROVE \E f \in [0..(m + 1) -> A] : Defines(f, m + 1)
    OBVIOUS
  <2>1. PICK f \in [0..m -> A] : Defines(f, m)
    BY <1>2
  <2>2. f[m] \in A /\ m + 1 \in 1..N
    OBVIOUS
  <2> DEFINE g == [n \in 0..(m + 1) |-> IF n = m + 1 THEN step[m + 1][f[m]] ELSE f[n]]
  <2>3. g \in [0..(m + 1) -> A]
    BY <2>2
  <2>4. g[0] = base
    BY <2>1
  <2>5. ASSUME NEW n \in 1..(m + 1) PROVE g[n] = step[n][g[n - 1]]
    <3>1. CASE n = m + 1
      BY <3>1
    <3>2. CASE n # m + 1
      <4>1. n \in 1..m /\ n \in 0..(m + 1) /\ n - 1 \in 0..(m + 1) /\ n - 1 # m + 1
        BY <3>2
      <4>2. g[n] = f[n] /\ g[n - 1] = f[n - 1]
        BY <4>1, <3>2
      <4>3. f[n] = step[n][f[n - 1]]
        BY <4>1, <2>1
      <4> QED
        BY <4>2, <4>3
    <3> QED
      BY <3>1, <3>2
  <2>6. Defines(g, m + 1)
    BY <2>4, <2>5
  <2> QED
    BY <2>3, <2>6
<1> HIDE DEF T
<1>3. N \in T
  BY <1>1, <1>2, NumbersByInduction
<1> QED
  BY <1>3 DEF T, Iterates

----------------------------------------------------------------------------
(* The stream, line by line *)

\* What a byte may be: two of each line, and the newline.
Byte == Nat \X Kinds \X (0..2)

\* A line is one byte or three, and its only newline is the last.
LEMMA BytesAre ==
    ASSUME NEW ls \in Seq(Kinds), NEW k \in 1..Len(ls)
    PROVE  /\ Bytes(ls, k) \in Seq(Byte)
           /\ ls[k] = "blank" => Len(Bytes(ls, k)) = 1 /\ Bytes(ls, k)[1] = Newline
           /\ ls[k] # "blank" => /\ Len(Bytes(ls, k)) = 3
                                 /\ Bytes(ls, k)[1] = <<k, ls[k], 1>>
                                 /\ Bytes(ls, k)[2] = <<k, ls[k], 2>>
                                 /\ Bytes(ls, k)[3] = Newline
<1>1. ls[k] \in Kinds /\ k \in Nat
  OBVIOUS
<1>2. Newline \in Byte /\ <<k, ls[k], 1>> \in Byte /\ <<k, ls[k], 2>> \in Byte
  BY <1>1 DEF Newline, Byte, Kinds
<1> QED
  BY <1>2 DEF Bytes

\* The text of the first lines, as its definition says.
LEMMA TextIs ==
    ASSUME NEW ls \in Seq(Kinds)
    PROVE  /\ Text(ls, 0) = <<>>
           /\ \A k \in 1..Len(ls) : Text(ls, k) = Text(ls, k - 1) \o Bytes(ls, k)
           /\ \A k \in 0..Len(ls) : Text(ls, k) \in Seq(Byte)
<1> DEFINE step == [k \in 1..Len(ls) |-> [a \in Seq(Byte) |-> a \o Bytes(ls, k)]]
           Defines(f) == f = [k \in 0..Len(ls) |->
                                 IF k = 0 THEN <<>> ELSE f[k - 1] \o Bytes(ls, k)]
           text == CHOOSE f : Defines(f)
<1>1. Len(ls) \in Nat
  OBVIOUS
<1>2. step \in [1..Len(ls) -> [Seq(Byte) -> Seq(Byte)]]
  BY BytesAre
<1>3. ASSUME NEW a \in Seq(Byte), NEW k \in 1..Len(ls)
      PROVE  step[k][a] = a \o Bytes(ls, k)
  OBVIOUS
<1> HIDE DEF step
<1>4. \E f : Defines(f)
  <2>1. <<>> \in Seq(Byte)
    OBVIOUS
  <2>2. PICK f : Iterates(f, Len(ls), Seq(Byte), <<>>, step)
    BY <1>1, <1>2, <2>1, RecursiveFunction
  <2>3. ASSUME NEW k \in 1..Len(ls) PROVE f[k] = f[k - 1] \o Bytes(ls, k)
    <3>1. f[k - 1] \in Seq(Byte)
      BY <1>1, <2>2 DEF Iterates
    <3> QED
      BY <2>2, <3>1, <1>3 DEF Iterates
  <2>4. f \in [0..Len(ls) -> Seq(Byte)] /\ f[0] = <<>>
    BY <2>2 DEF Iterates
  <2>5. ASSUME NEW k \in 0..Len(ls) PROVE f[k] = IF k = 0 THEN <<>> ELSE f[k - 1] \o Bytes(ls, k)
    <3>1. CASE k = 0
      BY <2>4, <3>1, Zenon
    <3>2. CASE k # 0
      <4>1. k \in 1..Len(ls)
        BY <3>2, <1>1
      <4> QED
        BY <2>3, <3>2, <4>1, Zenon
    <3> QED
      BY <3>1, <3>2
  <2>6. Defines(f)
    BY <2>4, <2>5
  <2> QED
    BY <2>6
<1>5. Defines(text)
  BY <1>4
<1>6. ASSUME NEW k PROVE Text(ls, k) = text[k]
  BY DEF Text
<1> HIDE DEF text
<1>7. text[0] = <<>> /\ \A k \in 1..Len(ls) : text[k] = text[k - 1] \o Bytes(ls, k)
  <2>1. \A k \in 0..Len(ls) : text[k] = IF k = 0 THEN <<>> ELSE text[k - 1] \o Bytes(ls, k)
    BY <1>5
  <2>2. 0 \in 0..Len(ls) /\ \A k \in 1..Len(ls) : k \in 0..Len(ls) /\ k # 0
    BY <1>1
  <2>3. text[0] = <<>>
    BY <2>1, <2>2
  <2>4. ASSUME NEW k \in 1..Len(ls) PROVE text[k] = text[k - 1] \o Bytes(ls, k)
    BY <2>1, <2>2
  <2> QED
    BY <2>3, <2>4
<1>8. \A k \in 0..Len(ls) : text[k] \in Seq(Byte)
  <2> DEFINE T == {k \in Nat : k <= Len(ls) => text[k] \in Seq(Byte)}
  <2>1. 0 \in T
    <3>1. text[0] \in Seq(Byte)
      BY <1>7
    <3> QED
      BY <3>1
  <2>2. ASSUME NEW k \in Nat, k \in T PROVE k + 1 \in T
    <3>1. CASE k + 1 <= Len(ls)
      <4>1. k + 1 \in 1..Len(ls) /\ (k + 1) - 1 = k /\ k <= Len(ls)
        BY <3>1
      <4>2. text[k + 1] = text[k] \o Bytes(ls, k + 1)
        BY <4>1, <1>7
      <4>3. text[k] \in Seq(Byte) /\ Bytes(ls, k + 1) \in Seq(Byte)
        BY <4>1, <2>2, BytesAre
      <4>4. text[k + 1] \in Seq(Byte)
        BY <4>2, <4>3
      <4> QED
        BY <4>4
    <3> QED
      BY <3>1, <1>1
  <2> HIDE DEF T
  <2>3. Nat \subseteq T
    BY <2>1, <2>2, NumbersByInduction
  <2> QED
    BY <2>3 DEF T
<1> QED
  BY <1>6, <1>7, <1>8

\* Where line k ends in the stream.
EndOf(ls, k) == Len(Text(ls, k))

\* Each line ends later than the one before, by its length.
LEMMA LinesFollow ==
    ASSUME NEW ls \in Seq(Kinds)
    PROVE  /\ EndOf(ls, 0) = 0
           /\ \A k \in 0..Len(ls) : EndOf(ls, k) \in Nat
           /\ \A k \in 1..Len(ls) : EndOf(ls, k) = EndOf(ls, k - 1) + Len(Bytes(ls, k))
<1>1. EndOf(ls, 0) = 0
  BY TextIs DEF EndOf
<1>2. ASSUME NEW k \in 0..Len(ls) PROVE EndOf(ls, k) \in Nat
  BY TextIs DEF EndOf
<1>3. ASSUME NEW k \in 1..Len(ls) PROVE EndOf(ls, k) = EndOf(ls, k - 1) + Len(Bytes(ls, k))
  <2>1. Text(ls, k) = Text(ls, k - 1) \o Bytes(ls, k)
    BY TextIs
  <2>2. Text(ls, k - 1) \in Seq(Byte) /\ Bytes(ls, k) \in Seq(Byte)
    <3>1. k - 1 \in 0..Len(ls)
      OBVIOUS
    <3>2. Text(ls, k - 1) \in Seq(Byte)
      BY <3>1, TextIs
    <3> QED
      BY <3>2, BytesAre
  <2> QED
    BY <2>1, <2>2 DEF EndOf
<1> QED
  BY <1>1, <1>2, <1>3

\* Of two lines the later one ends later.
LEMMA LaterEndsLater ==
    ASSUME NEW ls \in Seq(Kinds), NEW j \in 0..Len(ls), NEW k \in 0..Len(ls), j < k
    PROVE  EndOf(ls, j) < EndOf(ls, k)
<1> DEFINE T == {n \in Nat : n <= Len(ls) => \A i \in 0..(n - 1) : EndOf(ls, i) < EndOf(ls, n)}
<1>1. 0 \in T
  OBVIOUS
<1>2. ASSUME NEW n \in Nat, n \in T PROVE n + 1 \in T
  <2> SUFFICES ASSUME n + 1 <= Len(ls), NEW i \in 0..n PROVE EndOf(ls, i) < EndOf(ls, n + 1)
    OBVIOUS
  <2>1. n + 1 \in 1..Len(ls) /\ n \in 0..Len(ls) /\ i \in 0..Len(ls) /\ (n + 1) - 1 = n
    OBVIOUS
  <2>2. EndOf(ls, n + 1) = EndOf(ls, n) + Len(Bytes(ls, n + 1))
    BY <2>1, LinesFollow
  <2>3. EndOf(ls, n) \in Nat /\ EndOf(ls, i) \in Nat
    BY <2>1, LinesFollow
  <2>4. Len(Bytes(ls, n + 1)) \in {1, 3}
    BY <2>1, BytesAre
  <2>5. EndOf(ls, n) < EndOf(ls, n + 1)
    <3> DEFINE more == Len(Bytes(ls, n + 1))
    <3>1. EndOf(ls, n + 1) = EndOf(ls, n) + more /\ more \in {1, 3} /\ EndOf(ls, n) \in Nat
      BY <2>2, <2>3, <2>4
    <3> HIDE DEF more
    <3> QED
      BY <3>1
  <2>6. CASE i = n
    BY <2>5, <2>6
  <2>7. CASE i # n
    <3>1. n <= Len(ls) /\ i \in 0..(n - 1)
      BY <2>1, <2>7
    <3>2. EndOf(ls, i) < EndOf(ls, n)
      BY <3>1, <1>2
    <3>3. EndOf(ls, n + 1) \in Nat
      BY <2>2, <2>3, <2>4
    <3> QED
      BY <3>2, <2>5, <2>3, <3>3
  <2> QED
    BY <2>6, <2>7
<1> HIDE DEF T
<1>3. k \in T
  BY <1>1, <1>2, NumbersByInduction
<1> QED
  BY <1>3 DEF T

\* What the first lines begin with does not change as more lines follow.
LEMMA TextBegins ==
    ASSUME NEW ls \in Seq(Kinds), NEW k \in 0..Len(ls), NEW m \in k..Len(ls),
           NEW i \in 1..EndOf(ls, k)
    PROVE  Text(ls, m)[i] = Text(ls, k)[i]
<1> DEFINE T == {n \in Nat : n \in k..Len(ls) => Text(ls, n)[i] = Text(ls, k)[i]}
<1>1. 0 \in T
  OBVIOUS
<1>2. ASSUME NEW n \in Nat, n \in T PROVE n + 1 \in T
  <2> SUFFICES ASSUME n + 1 \in k..Len(ls), n + 1 # k
               PROVE  Text(ls, n + 1)[i] = Text(ls, k)[i]
    OBVIOUS
  <2>1. n \in k..Len(ls) /\ n + 1 \in 1..Len(ls) /\ n \in 0..Len(ls) /\ (n + 1) - 1 = n
    OBVIOUS
  <2>2. Text(ls, n + 1) = Text(ls, n) \o Bytes(ls, n + 1)
    BY <2>1, TextIs
  <2>3. Text(ls, n) \in Seq(Byte) /\ Bytes(ls, n + 1) \in Seq(Byte)
    BY <2>1, TextIs, BytesAre
  <2>4. EndOf(ls, k) \in Nat /\ EndOf(ls, n) \in Nat /\ EndOf(ls, k) <= EndOf(ls, n)
    <3>1. EndOf(ls, k) \in Nat /\ EndOf(ls, n) \in Nat
      BY <2>1, LinesFollow
    <3>2. k = n \/ k < n
      BY <2>1
    <3> QED
      BY <2>1, <3>1, <3>2, LaterEndsLater
  <2>5. i \in 1..Len(Text(ls, n))
    BY <2>4 DEF EndOf
  <2>6. Text(ls, n + 1)[i] = Text(ls, n)[i]
    BY <2>2, <2>3, <2>5
  <2>7. Text(ls, n)[i] = Text(ls, k)[i]
    BY <1>2, <2>1
  <2> QED
    BY <2>6, <2>7
<1> HIDE DEF T
<1>3. m \in T
  BY <1>1, <1>2, NumbersByInduction
<1> QED
  BY <1>3 DEF T

\* A line lies in the stream where the lines before it end.
LEMMA LineInStream ==
    ASSUME NEW ls \in Seq(Kinds), NEW k \in 1..Len(ls), NEW i \in 1..Len(Bytes(ls, k))
    PROVE  Text(ls, Len(ls))[EndOf(ls, k - 1) + i] = Bytes(ls, k)[i]
<1>1. k \in 0..Len(ls) /\ k - 1 \in 0..Len(ls) /\ Len(ls) \in k..Len(ls)
  OBVIOUS
<1>2. EndOf(ls, k - 1) \in Nat /\ EndOf(ls, k) = EndOf(ls, k - 1) + Len(Bytes(ls, k))
  BY <1>1, LinesFollow
<1>3. Len(Bytes(ls, k)) \in {1, 3}
  BY BytesAre
<1>4. EndOf(ls, k - 1) + i \in 1..EndOf(ls, k)
  BY <1>2, <1>3
<1>5. Text(ls, Len(ls))[EndOf(ls, k - 1) + i] = Text(ls, k)[EndOf(ls, k - 1) + i]
  BY <1>1, <1>4, TextBegins
<1>6. Text(ls, k) = Text(ls, k - 1) \o Bytes(ls, k)
  BY TextIs
<1>7. Text(ls, k - 1) \in Seq(Byte) /\ Bytes(ls, k) \in Seq(Byte)
  BY <1>1, TextIs, BytesAre
<1>8. Text(ls, k)[Len(Text(ls, k - 1)) + i] = Bytes(ls, k)[i]
  BY <1>6, <1>7
<1> QED
  BY <1>5, <1>8 DEF EndOf

\* Where in the stream byte n is: after k whole lines, in the next.
Where(ls, n, k) == /\ k \in 0..Len(ls) /\ EndOf(ls, k) <= n
                   /\ k < Len(ls) => n < EndOf(ls, k + 1)

\* The lines after j, up to k, that carry a message.
Messages(ls, j, k) == {l \in (j + 1)..k : ls[l] \notin {"junk", "blank"}}

\* A later line, added at the end of lines in order, leaves them in order.
LEMMA InOrderAppend ==
    ASSUME NEW seq \in Seq(Nat), NEW set, InOrder(seq, set), NEW k \in Nat,
           \A l \in set : l < k
    PROVE  InOrder(Append(seq, k), set \cup {k})
<1> DEFINE longer == Append(seq, k)
<1>1. /\ longer \in Seq(Nat) /\ Len(longer) = Len(seq) + 1 /\ longer[Len(seq) + 1] = k
      /\ \A i \in 1..Len(seq) : longer[i] = seq[i]
  OBVIOUS
<1> HIDE DEF longer
<1>2. \A i \in 1..Len(seq) : seq[i] \in set /\ seq[i] < k
  BY DEF InOrder
<1>3. \A l \in set : \E i \in 1..Len(seq) : l = seq[i]
  BY DEF InOrder
<1>4. {longer[i] : i \in 1..Len(longer)} = set \cup {k}
  <2>1. ASSUME NEW i \in 1..Len(longer) PROVE longer[i] \in set \cup {k}
    <3>1. i \in 1..Len(seq) \/ i = Len(seq) + 1
      BY <1>1
    <3> QED
      BY <3>1, <1>1, <1>2
  <2>2. ASSUME NEW l \in set \cup {k} PROVE \E i \in 1..Len(longer) : longer[i] = l
    <3>1. CASE l = k
      BY <3>1, <1>1
    <3>2. CASE l \in set
      BY <3>2, <1>1, <1>3
    <3> QED
      BY <3>1, <3>2
  <2> QED
    BY <2>1, <2>2
<1>5. ASSUME NEW i \in 1..Len(longer), NEW j \in 1..Len(longer), i < j
      PROVE  longer[i] < longer[j]
  <2>1. i \in 1..Len(seq)
    BY <1>1, <1>5
  <2>2. CASE j \in 1..Len(seq)
    <3>1. seq[i] < seq[j]
      BY <1>5, <2>1, <2>2 DEF InOrder
    <3> QED
      BY <3>1, <2>1, <2>2, <1>1
  <2>3. CASE j = Len(seq) + 1
    BY <2>3, <2>1, <1>1, <1>2
  <2> QED
    BY <2>2, <2>3, <1>1
<1>6. InOrder(longer, set \cup {k})
  BY <1>4, <1>5 DEF InOrder
<1> QED
  BY <1>6 DEF longer

\* Lines in order, followed by later lines in order, are in order.
LEMMA InOrderConcat ==
    ASSUME NEW s \in Seq(Nat), NEW S, InOrder(s, S), NEW t \in Seq(Nat), NEW T, InOrder(t, T),
           \A l \in S, k \in T : l < k
    PROVE  InOrder(s \o t, S \cup T)
<1> DEFINE both == s \o t
<1>1. /\ both \in Seq(Nat) /\ Len(both) = Len(s) + Len(t)
      /\ \A i \in 1..Len(s) : both[i] = s[i]
      /\ \A i \in 1..Len(t) : both[Len(s) + i] = t[i]
  OBVIOUS
<1>2. Len(s) \in Nat /\ Len(t) \in Nat
  OBVIOUS
<1> HIDE DEF both
<1>3. ASSUME NEW i \in 1..Len(both)
      PROVE  \/ i \in 1..Len(s) /\ both[i] = s[i]
             \/ i - Len(s) \in 1..Len(t) /\ i > Len(s) /\ both[i] = t[i - Len(s)]
  <2>1. CASE i <= Len(s)
    BY <2>1, <1>1
  <2>2. CASE i > Len(s)
    <3>1. i - Len(s) \in 1..Len(t) /\ i = Len(s) + (i - Len(s))
      BY <2>2, <1>1, <1>2
    <3> QED
      BY <2>2, <3>1, <1>1
  <2> QED
    BY <2>1, <2>2, <1>2
<1>4. {both[i] : i \in 1..Len(both)} = S \cup T
  <2>1. ASSUME NEW i \in 1..Len(both) PROVE both[i] \in S \cup T
    BY <1>3 DEF InOrder
  <2>2. ASSUME NEW l \in S PROVE \E i \in 1..Len(both) : both[i] = l
    <3>1. PICK i \in 1..Len(s) : s[i] = l
      BY DEF InOrder
    <3>2. i \in 1..Len(both) /\ both[i] = l
      BY <3>1, <1>1, <1>2
    <3> QED
      BY <3>2
  <2>3. ASSUME NEW l \in T PROVE \E i \in 1..Len(both) : both[i] = l
    <3>1. PICK i \in 1..Len(t) : t[i] = l
      BY DEF InOrder
    <3>2. Len(s) + i \in 1..Len(both) /\ both[Len(s) + i] = l
      BY <3>1, <1>1, <1>2
    <3> QED
      BY <3>2
  <2> QED
    BY <2>1, <2>2, <2>3
<1>5. ASSUME NEW i \in 1..Len(both), NEW j \in 1..Len(both), i < j
      PROVE  both[i] < both[j]
  <2>1. CASE j \in 1..Len(s) /\ both[j] = s[j]
    <3>1. i \in 1..Len(s) /\ both[i] = s[i]
      BY <2>1, <1>5, <1>1, <1>2
    <3> QED
      BY <2>1, <3>1, <1>5 DEF InOrder
  <2>2. CASE j - Len(s) \in 1..Len(t) /\ j > Len(s) /\ both[j] = t[j - Len(s)]
    <3>1. CASE i \in 1..Len(s) /\ both[i] = s[i]
      <4>1. s[i] \in S /\ t[j - Len(s)] \in T
        BY <2>2, <3>1 DEF InOrder
      <4> QED
        BY <2>2, <3>1, <4>1
    <3>2. CASE i - Len(s) \in 1..Len(t) /\ both[i] = t[i - Len(s)]
      <4>1. i - Len(s) < j - Len(s)
        BY <1>5, <1>2
      <4>2. t[i - Len(s)] < t[j - Len(s)]
        BY <2>2, <3>2, <4>1 DEF InOrder
      <4> QED
        BY <2>2, <3>2, <4>2
    <3> QED
      BY <3>1, <3>2, <1>3
  <2> QED
    BY <2>1, <2>2, <1>3
<1>6. InOrder(both, S \cup T)
  BY <1>4, <1>5 DEF InOrder
<1> QED
  BY <1>6 DEF both

----------------------------------------------------------------------------
(* decode_messages *)

\* What the decoder has made of some bytes.
Decoded == [messages : Seq(Nat), rest : Seq(Byte)]

\* One byte more leaves messages, each known by its line, and bytes.
LEMMA TakeType ==
    ASSUME NEW acc \in Decoded, NEW byte \in Byte
    PROVE  Take(acc, byte) \in Decoded
<1>1. acc.messages \in Seq(Nat) /\ acc.rest \in Seq(Byte)
  BY DEF Decoded
<1>2. Message(acc.rest) \in Seq(Nat)
  <2>1. CASE Len(acc.rest) = 2
    <3>1. acc.rest[1] \in Byte
      BY <1>1, <2>1
    <3>2. acc.rest[1][1] \in Nat
      BY <3>1 DEF Byte
    <3> QED
      BY <3>2 DEF Message
  <2>2. CASE Len(acc.rest) # 2
    BY <2>2 DEF Message
  <2> QED
    BY <2>1, <2>2
<1>3. acc.messages \o Message(acc.rest) \in Seq(Nat) /\ Append(acc.rest, byte) \in Seq(Byte)
  BY <1>1, <1>2
<1>4. CASE byte = Newline
  <2>1. Take(acc, byte) = [messages |-> acc.messages \o Message(acc.rest), rest |-> <<>>]
    BY <1>4 DEF Take
  <2> QED
    BY <1>3, <2>1 DEF Decoded
<1>5. CASE byte # Newline
  <2>1. Take(acc, byte) = [messages |-> acc.messages, rest |-> Append(acc.rest, byte)]
    BY <1>5 DEF Take
  <2> QED
    BY <1>1, <1>3, <2>1 DEF Decoded
<1> QED
  BY <1>4, <1>5

\* What the next byte makes of messages and bytes, field by field.
Taken(next, acc, byte) ==
    /\ byte = Newline => next.messages = acc.messages \o Message(acc.rest) /\ next.rest = <<>>
    /\ byte # Newline => next.messages = acc.messages /\ next.rest = Append(acc.rest, byte)

\* Take does that.
LEMMA TakeIs == ASSUME NEW acc, NEW byte PROVE Taken(Take(acc, byte), acc, byte)
<1>1. CASE byte = Newline
  BY <1>1 DEF Take, Taken
<1>2. CASE byte # Newline
  BY <1>2 DEF Take, Taken
<1> QED
  BY <1>1, <1>2

\* Decode takes the bytes one by one.
LEMMA DecodeIs ==
    ASSUME NEW bytes \in Seq(Byte)
    PROVE  \E scan : /\ scan[0] = [messages |-> <<>>, rest |-> <<>>]
                     /\ \A n \in 1..Len(bytes) : scan[n] = Take(scan[n - 1], bytes[n])
                     /\ \A n \in 0..Len(bytes) : scan[n] \in Decoded
                     /\ Decode(bytes) = scan[Len(bytes)]
<1> DEFINE none == [messages |-> <<>>, rest |-> <<>>]
           step == [n \in 1..Len(bytes) |-> [acc \in Decoded |-> Take(acc, bytes[n])]]
           Defines(f) == f = [n \in 0..Len(bytes) |->
                                 IF n = 0 THEN none ELSE Take(f[n - 1], bytes[n])]
           scan == CHOOSE f : Defines(f)
<1>1. Len(bytes) \in Nat
  OBVIOUS
<1>2. step \in [1..Len(bytes) -> [Decoded -> Decoded]]
  BY TakeType
<1>3. ASSUME NEW acc \in Decoded, NEW n \in 1..Len(bytes)
      PROVE  step[n][acc] = Take(acc, bytes[n])
  OBVIOUS
<1>4. none \in Decoded
  BY DEF Decoded
<1>5. Decode(bytes) = scan[Len(bytes)]
  BY DEF Decode
<1> HIDE DEF step, none
<1>6. PICK f : Iterates(f, Len(bytes), Decoded, none, step)
  BY <1>1, <1>2, <1>4, RecursiveFunction
<1>7. ASSUME NEW n \in 1..Len(bytes) PROVE f[n] = Take(f[n - 1], bytes[n])
  <2>1. f[n - 1] \in Decoded
    BY <1>1, <1>6 DEF Iterates
  <2> QED
    BY <1>6, <2>1, <1>3 DEF Iterates
<1>8. Defines(f)
  <2>1. f \in [0..Len(bytes) -> Decoded] /\ f[0] = none
    BY <1>6 DEF Iterates
  <2>2. ASSUME NEW n \in 0..Len(bytes) PROVE f[n] = IF n = 0 THEN none ELSE Take(f[n - 1], bytes[n])
    <3>1. CASE n = 0
      BY <2>1, <3>1, Zenon
    <3>2. CASE n # 0
      <4>1. n \in 1..Len(bytes)
        BY <3>2, <1>1
      <4> QED
        BY <1>7, <3>2, <4>1, Zenon
    <3> QED
      BY <3>1, <3>2
  <2> QED
    BY <2>1, <2>2
<1>9. Defines(scan)
  BY <1>8
<1> HIDE DEF scan
<1>10. \A n \in 0..Len(bytes) : scan[n] = IF n = 0 THEN none ELSE Take(scan[n - 1], bytes[n])
  BY <1>9
<1>11. 0 \in 0..Len(bytes) /\ \A n \in 1..Len(bytes) : n \in 0..Len(bytes) /\ n # 0
  BY <1>1
<1>12. scan[0] = none
  BY <1>10, <1>11
<1>13. ASSUME NEW n \in 1..Len(bytes) PROVE scan[n] = Take(scan[n - 1], bytes[n])
  BY <1>10, <1>11
<1>14. \A n \in 0..Len(bytes) : scan[n] \in Decoded
  <2> DEFINE T == {n \in Nat : n <= Len(bytes) => scan[n] \in Decoded}
  <2>1. 0 \in T
    BY <1>12, <1>4
  <2>2. ASSUME NEW n \in Nat, n \in T PROVE n + 1 \in T
    <3>1. CASE n + 1 <= Len(bytes)
      <4>1. n + 1 \in 1..Len(bytes) /\ (n + 1) - 1 = n /\ n <= Len(bytes)
        BY <3>1
      <4>2. scan[n + 1] = Take(scan[n], bytes[n + 1])
        BY <4>1, <1>13
      <4>3. scan[n] \in Decoded /\ bytes[n + 1] \in Byte
        BY <4>1, <2>2
      <4>4. scan[n + 1] \in Decoded
        BY <4>2, <4>3, TakeType
      <4> QED
        BY <4>4
    <3> QED
      BY <3>1, <1>1
  <2> HIDE DEF T
  <2>3. Nat \subseteq T
    BY <2>1, <2>2, NumbersByInduction
  <2> QED
    BY <2>3 DEF T
<1> QED
  BY <1>5, <1>12, <1>13, <1>14 DEF none

\* What is between the end of the last whole line and byte n, and the next byte.
LEMMA InALine ==
    ASSUME NEW ls \in Seq(Kinds), NEW n \in Nat, NEW k, Where(ls, n, k), n < EndOf(ls, Len(ls))
    PROVE  LET p == n - EndOf(ls, k)
               line == Bytes(ls, k + 1)
               S == Text(ls, Len(ls))
               rest == SubSeq(S, EndOf(ls, k) + 1, n)
           IN  /\ k + 1 \in 1..Len(ls) /\ p \in Nat /\ p < Len(line)
               /\ EndOf(ls, k + 1) = EndOf(ls, k) + Len(line)
               /\ rest \in Seq(Byte) /\ Len(rest) = p
               /\ \A i \in 1..p : rest[i] = line[i]
               /\ S[n + 1] = line[p + 1]
<1> DEFINE p == n - EndOf(ls, k)
           line == Bytes(ls, k + 1)
           S == Text(ls, Len(ls))
           rest == SubSeq(S, EndOf(ls, k) + 1, n)
<1>1. k \in 0..Len(ls) /\ EndOf(ls, k) \in Nat /\ EndOf(ls, Len(ls)) \in Nat
  BY LinesFollow DEF Where
<1>2. k # Len(ls)
  BY <1>1 DEF Where
<1>3. k + 1 \in 1..Len(ls) /\ (k + 1) - 1 = k /\ Len(ls) \in 0..Len(ls)
  BY <1>1, <1>2
<1>4. EndOf(ls, k + 1) = EndOf(ls, k) + Len(line) /\ n < EndOf(ls, k + 1) /\ EndOf(ls, k) <= n
  BY <1>1, <1>3, LinesFollow DEF Where
<1>5. Len(line) \in {1, 3}
  BY <1>3, BytesAre
<1>6. p \in Nat /\ p < Len(line)
  <2> DEFINE e == EndOf(ls, k)
             size == Len(line)
  <2>1. e \in Nat /\ size \in {1, 3} /\ e <= n /\ n < e + size /\ p = n - e
    BY <1>1, <1>4, <1>5
  <2> HIDE DEF e, size, p
  <2>2. p \in Nat /\ p < size
    BY <2>1
  <2> QED
    BY <2>2 DEF size
<1>7. \A i \in 1..Len(line) : S[EndOf(ls, k) + i] = line[i]
  BY <1>3, LineInStream
<1>8. S \in Seq(Byte) /\ Len(S) = EndOf(ls, Len(ls))
  BY <1>3, TextIs DEF EndOf
<1>9. rest \in Seq(Byte) /\ Len(rest) = p /\ \A i \in 1..p : rest[i] = S[EndOf(ls, k) + i]
  <2> DEFINE e == EndOf(ls, k)
  <2>1. e \in Nat /\ e <= n /\ n < Len(S) /\ p = n - e /\ rest = SubSeq(S, e + 1, n)
    BY <1>1, <1>4, <1>8
  <2> HIDE DEF e, S, p, rest
  <2>2. rest \in Seq(Byte) /\ Len(rest) = p /\ \A i \in 1..p : rest[i] = S[e + i]
    BY <2>1, <1>8
  <2> QED
    BY <2>2 DEF e
<1>10. \A i \in 1..p : rest[i] = line[i]
  BY <1>6, <1>7, <1>9, <1>5
<1>11. S[n + 1] = line[p + 1]
  <2>1. p + 1 \in 1..Len(line) /\ EndOf(ls, k) + (p + 1) = n + 1
    BY <1>1, <1>5, <1>6
  <2> QED
    BY <2>1, <1>7
<1> QED
  BY <1>3, <1>4, <1>6, <1>9, <1>10, <1>11

\* What begins a line and does not end it is a message if both its bytes are there.
LEMMA MessageOfLine ==
    ASSUME NEW ls \in Seq(Kinds), NEW k \in 1..Len(ls), NEW part \in Seq(Byte),
           Len(part) < Len(Bytes(ls, k)), \A i \in 1..Len(part) : part[i] = Bytes(ls, k)[i]
    PROVE  /\ Len(part) = 2 => ls[k] # "blank"
           /\ Message(part) = IF Len(part) = 2 /\ ls[k] # "junk" THEN <<k>> ELSE <<>>
<1>1. CASE Len(part) # 2
  BY <1>1 DEF Message
<1>2. CASE Len(part) = 2
  <2>1. ls[k] # "blank" /\ Bytes(ls, k)[1] = <<k, ls[k], 1>> /\ Bytes(ls, k)[2] = <<k, ls[k], 2>>
    BY <1>2, BytesAre
  <2>2. part[1] = <<k, ls[k], 1>> /\ part[2] = <<k, ls[k], 2>>
    BY <1>2, <2>1
  <2>3. part[1][1] = k /\ part[2][1] = k /\ part[1][2] = ls[k]
    BY <2>2
  <2> QED
    BY <1>2, <2>1, <2>3 DEF Message
<1> QED
  BY <1>1, <1>2

\* The next byte of the stream keeps the decoder in step with its lines.
LEMMA DecodeStep ==
    ASSUME NEW ls \in Seq(Kinds), NEW j \in Nat, NEW n \in Nat, n < EndOf(ls, Len(ls)),
           NEW k \in Nat, j <= k, Where(ls, n, k),
           NEW acc \in Decoded, InOrder(acc.messages, Messages(ls, j, k)),
           acc.rest = SubSeq(Text(ls, Len(ls)), EndOf(ls, k) + 1, n),
           NEW next, Taken(next, acc, Text(ls, Len(ls))[n + 1])
    PROVE  \E m \in Nat : /\ j <= m /\ Where(ls, n + 1, m)
                          /\ InOrder(next.messages, Messages(ls, j, m))
                          /\ next.rest = SubSeq(Text(ls, Len(ls)), EndOf(ls, m) + 1, n + 1)
<1> DEFINE S == Text(ls, Len(ls))
           e == EndOf(ls, k)
           byte == S[n + 1]
           Kept(m) == /\ j <= m /\ Where(ls, n + 1, m)
                      /\ InOrder(next.messages, Messages(ls, j, m))
                      /\ next.rest = SubSeq(S, EndOf(ls, m) + 1, n + 1)
<1> SUFFICES \E m \in Nat : Kept(m)
  OBVIOUS
<1>1. /\ k + 1 \in 1..Len(ls) /\ n - e \in Nat /\ n - e < Len(Bytes(ls, k + 1))
      /\ EndOf(ls, k + 1) = e + Len(Bytes(ls, k + 1))
      /\ acc.rest \in Seq(Byte) /\ Len(acc.rest) = n - e
      /\ \A i \in 1..(n - e) : acc.rest[i] = Bytes(ls, k + 1)[i]
      /\ byte = Bytes(ls, k + 1)[(n - e) + 1]
  BY InALine
<1>2. PICK l \in 1..Len(ls) : l - k = 1
  BY <1>1
<1>3. PICK p \in Nat : p + e = n
  <2>1. e \in Nat
    BY LinesFollow DEF Where
  <2>2. (n - e) + e = n
    BY <2>1
  <2> QED
    BY <1>1, <2>2
<1>4. PICK line \in Seq(Byte) : line = Bytes(ls, l)
  BY BytesAre
<1>5. /\ p < Len(line) /\ EndOf(ls, l) = e + Len(line)
      /\ acc.rest \in Seq(Byte) /\ Len(acc.rest) = p
      /\ \A i \in 1..p : acc.rest[i] = line[i]
      /\ byte = line[p + 1]
  <2>1. e \in Nat
    BY LinesFollow DEF Where
  <2>2. l = k + 1 /\ p = n - e
    BY <1>2, <1>3, <2>1
  <2> QED
    BY <1>1, <1>4, <2>2
<1>6. /\ ls[l] = "blank" => Len(line) = 1 /\ line[1] = Newline
      /\ ls[l] # "blank" => /\ Len(line) = 3 /\ line[3] = Newline
                            /\ line[1] = <<l, ls[l], 1>> /\ line[2] = <<l, ls[l], 2>>
  BY <1>4, BytesAre
<1>7. /\ p = 2 => ls[l] # "blank"
      /\ Message(acc.rest) = IF p = 2 /\ ls[l] # "junk" THEN <<l>> ELSE <<>>
  BY <1>4, <1>5, MessageOfLine
<1>8. S \in Seq(Byte) /\ Len(S) = EndOf(ls, Len(ls)) /\ k \in 0..Len(ls)
  BY TextIs DEF EndOf, Where
<1>9. e \in Nat /\ EndOf(ls, l) \in Nat /\ e <= n
  BY <1>3, <1>8, LinesFollow DEF Where
<1>10. acc.messages \in Seq(Nat)
  BY DEF Decoded
<1>11. Taken(next, acc, byte)
  OBVIOUS
<1>0. l \in Nat /\ Len(line) \in Nat
  <2>1. l \in Nat
    BY <1>2
  <2>2. Len(line) \in Nat
    BY <1>4
  <2> QED
    BY <2>1, <2>2
<1> HIDE DEF byte
<1>12. CASE p + 1 = Len(line)
  <2>1. byte = Newline
    BY <1>3, <1>5, <1>6, <1>12
  <2>2. next.messages = acc.messages \o Message(acc.rest) /\ next.rest = <<>>
    BY <2>1, <1>11 DEF Taken
  <2>3. EndOf(ls, l) = n + 1
    <3>1. EndOf(ls, l) = e + (p + 1) /\ p + e = n
      BY <1>3, <1>5, <1>12
    <3> HIDE DEF e
    <3> QED
      BY <3>1, <1>3, <1>9
  <2>4. Where(ls, n + 1, l)
    <3>1. ASSUME l < Len(ls) PROVE n + 1 < EndOf(ls, l + 1)
      <4>1. l \in 0..Len(ls) /\ l + 1 \in 0..Len(ls)
        BY <3>1
      <4> QED
        BY <4>1, <2>3, LaterEndsLater
    <3> QED
      BY <3>1, <2>3 DEF Where
  <2>5. next.rest = SubSeq(S, EndOf(ls, l) + 1, n + 1)
    BY <2>2, <2>3, SubSeqEmpty
  <2>6. p = 2 <=> ls[l] # "blank"
    <3>1. ASSUME ls[l] # "blank" PROVE p = 2
      <4>1. Len(line) = 3
        BY <3>1, <1>6
      <4>2. p + 1 = 3 /\ p \in Nat
        BY <4>1, <1>3, <1>12
      <4> QED
        BY <4>2
    <3> QED
      BY <3>1, <1>7
  <2>7. CASE ls[l] \in {"junk", "blank"}
    <3>1. Message(acc.rest) = <<>>
      BY <1>7, <2>6, <2>7
    <3>2. next.messages = acc.messages
      BY <2>2, <3>1, <1>10, ConcatEmptySeq
    <3>3. Messages(ls, j, l) = Messages(ls, j, k)
      BY <2>7, <1>2 DEF Messages
    <3>4. Kept(l)
      BY <2>4, <2>5, <3>2, <3>3, <1>2
    <3> QED
      BY <3>4, <1>0
  <2>8. CASE ls[l] \notin {"junk", "blank"}
    <3>1. Message(acc.rest) = <<l>>
      BY <1>7, <2>6, <2>8
    <3>2. next.messages = Append(acc.messages, l)
      BY <2>2, <3>1, <1>0, <1>10, AppendIsConcat
    <3>3. Messages(ls, j, l) = Messages(ls, j, k) \cup {l}
      BY <2>8, <1>2 DEF Messages
    <3>4. \A i \in Messages(ls, j, k) : i < l
      BY <1>2 DEF Messages
    <3>5. InOrder(next.messages, Messages(ls, j, l))
      <4>1. InOrder(Append(acc.messages, l), Messages(ls, j, k) \cup {l})
        BY <3>4, <1>0, <1>10, InOrderAppend
      <4> QED
        BY <3>2, <3>3, <4>1
    <3>6. Kept(l)
      BY <2>4, <2>5, <3>5, <1>2
    <3> QED
      BY <3>6, <1>0
  <2> QED
    BY <2>7, <2>8
<1>13. CASE p + 1 # Len(line)
  <2>1. byte # Newline
    <3>1. ls[l] # "blank" /\ p + 1 \in {1, 2}
      <4>1. CASE ls[l] = "blank"
        <5>1. Len(line) = 1
          BY <4>1, <1>6
        <5>2. p < 1 /\ p + 1 # 1
          BY <5>1, <1>5, <1>13
        <5> QED
          BY <5>2, <1>3
      <4>2. CASE ls[l] # "blank"
        <5>1. Len(line) = 3
          BY <4>2, <1>6
        <5>2. p < 3 /\ p + 1 # 3
          BY <5>1, <1>5, <1>13
        <5>3. p + 1 \in {1, 2}
          BY <5>2, <1>3
        <5> QED
          BY <4>2, <5>3
      <4> QED
        BY <4>1, <4>2
    <3>2. byte = <<l, ls[l], 1>> \/ byte = <<l, ls[l], 2>>
      BY <3>1, <1>5, <1>6
    <3> QED
      BY <3>2 DEF Newline
  <2>2. next.messages = acc.messages /\ next.rest = Append(acc.rest, byte)
    BY <2>1, <1>11 DEF Taken
  <2>3. n + 1 < EndOf(ls, k + 1)
    BY <1>2, <1>3, <1>5, <1>9, <1>13
  <2>4. Where(ls, n + 1, k)
    BY <2>3, <1>8, <1>9 DEF Where
  <2>5. Append(SubSeq(S, e + 1, n), S[n + 1]) = SubSeq(S, e + 1, n + 1)
    <3>1. e + 1 \in 1..Len(S) /\ n + 1 \in (e + 1)..Len(S) /\ (n + 1) - 1 = n
      <4>1. Len(S) \in Nat /\ n < Len(S)
        BY <1>8
      <4> HIDE DEF e, S
      <4> QED
        BY <4>1, <1>9
    <3> HIDE DEF e, S
    <3>2. SubSeq(S, e + 1, n + 1) = SubSeq(S, e + 1, n) \o <<S[n + 1]>>
      BY <3>1, <1>8, SubSeqRecursiveSecond
    <3>3. SubSeq(S, e + 1, n) \in Seq(Byte) /\ S[n + 1] \in Byte
      BY <3>1, <1>8
    <3> QED
      BY <3>2, <3>3, AppendIsConcat
  <2>6. Kept(k)
    BY <2>2, <2>4, <2>5 DEF byte
  <2> QED
    BY <2>6
<1> QED
  BY <1>12, <1>13

\* Decoding the stream from the end of a line on yields the messages of the lines
\* that end within it, once each and in order, and leaves what follows the last.
LEMMA DecodeStream ==
    ASSUME NEW ls \in Seq(Kinds), NEW j \in 0..Len(ls), NEW n \in Nat,
           EndOf(ls, j) <= n, n <= EndOf(ls, Len(ls))
    PROVE  LET S == Text(ls, Len(ls))
               decoded == Decode(SubSeq(S, EndOf(ls, j) + 1, n))
           IN  /\ decoded \in Decoded
               /\ \E k \in Nat : /\ j <= k /\ Where(ls, n, k)
                                 /\ InOrder(decoded.messages, Messages(ls, j, k))
                                 /\ decoded.rest = SubSeq(S, EndOf(ls, k) + 1, n)
<1> DEFINE S == Text(ls, Len(ls))
           e == EndOf(ls, j)
           bytes == SubSeq(S, e + 1, n)
           Kept(acc, i) == \E k \in Nat : /\ j <= k /\ Where(ls, i, k)
                                          /\ InOrder(acc.messages, Messages(ls, j, k))
                                          /\ acc.rest = SubSeq(S, EndOf(ls, k) + 1, i)
<1>1. e \in Nat /\ j \in Nat /\ S \in Seq(Byte) /\ Len(S) = EndOf(ls, Len(ls))
  BY TextIs, LinesFollow DEF EndOf
<1>2. bytes \in Seq(Byte) /\ Len(bytes) = n - e /\ \A i \in 1..(n - e) : bytes[i] = S[e + i]
  <2>1. e <= n /\ n <= Len(S)
    BY <1>1
  <2> HIDE DEF e, S
  <2> QED
    BY <1>1, <2>1
<1> HIDE DEF bytes
<1>3. PICK scan : /\ scan[0] = [messages |-> <<>>, rest |-> <<>>]
                  /\ \A i \in 1..Len(bytes) : scan[i] = Take(scan[i - 1], bytes[i])
                  /\ \A i \in 0..Len(bytes) : scan[i] \in Decoded
                  /\ Decode(bytes) = scan[Len(bytes)]
  BY <1>2, DecodeIs
<1> DEFINE T == {i \in Nat : i <= n - e => Kept(scan[i], e + i)}
<1>4. 0 \in T
  <2>1. scan[0].messages = <<>> /\ scan[0].rest = <<>>
    BY <1>3
  <2>2. Where(ls, e, j)
    <3>1. ASSUME j < Len(ls) PROVE e < EndOf(ls, j + 1)
      <4>1. j + 1 \in 0..Len(ls)
        BY <3>1
      <4> QED
        BY <4>1, LaterEndsLater
    <3> QED
      BY <3>1, <1>1 DEF Where
  <2>3. InOrder(<<>>, Messages(ls, j, j))
    BY <1>1 DEF InOrder, Messages
  <2>4. <<>> = SubSeq(S, e + 1, e)
    BY <1>1, SubSeqEmpty
  <2>5. Kept(scan[0], e)
    BY <2>1, <2>2, <2>3, <2>4, <1>1
  <2>6. e + 0 = e
    BY <1>1
  <2> HIDE DEF Kept, e
  <2> QED
    BY <2>5, <2>6
<1>5. ASSUME NEW i \in Nat, i \in T PROVE i + 1 \in T
  <2> SUFFICES ASSUME i + 1 <= n - e PROVE Kept(scan[i + 1], e + (i + 1))
    OBVIOUS
  <2>1. i + 1 \in 1..Len(bytes) /\ (i + 1) - 1 = i /\ i \in 0..Len(bytes) /\ i <= n - e
    BY <1>1, <1>2
  <2>2. Kept(scan[i], e + i)
    BY <2>1, <1>5
  <2>3. e + (i + 1) = (e + i) + 1 /\ e + i \in Nat /\ e + i < EndOf(ls, Len(ls))
    <3>1. e + i < n
      <4> HIDE DEF e
      <4> QED
        BY <1>1
    <3> QED
      BY <3>1, <1>1
  <2>4. Taken(scan[i + 1], scan[i], S[(e + i) + 1])
    <3>1. scan[i + 1] = Take(scan[i], bytes[i + 1])
      BY <2>1, <1>3
    <3>2. bytes[i + 1] = S[e + (i + 1)]
      BY <2>1, <1>2
    <3> QED
      BY <3>1, <3>2, <2>3, TakeIs
  <2>5. scan[i] \in Decoded
    BY <2>1, <1>3
  <2>6. PICK k \in Nat : /\ j <= k /\ Where(ls, e + i, k)
                         /\ InOrder(scan[i].messages, Messages(ls, j, k))
                         /\ scan[i].rest = SubSeq(S, EndOf(ls, k) + 1, e + i)
    BY <2>2
  <2>7. Kept(scan[i + 1], (e + i) + 1)
    <3> DEFINE at == e + i
               acc == scan[i]
               next == scan[i + 1]
    <3>1. /\ at \in Nat /\ at < EndOf(ls, Len(ls)) /\ acc \in Decoded /\ Taken(next, acc, S[at + 1])
          /\ j <= k /\ Where(ls, at, k) /\ InOrder(acc.messages, Messages(ls, j, k))
          /\ acc.rest = SubSeq(S, EndOf(ls, k) + 1, at)
      BY <2>3, <2>4, <2>5, <2>6
    <3> HIDE DEF at, acc, next
    <3>2. j \in Nat
      OBVIOUS
    <3>3. Kept(next, at + 1)
      BY <3>1, <3>2, DecodeStep
    <3> QED
      BY <3>3 DEF at, next
  <2>8. ASSUME NEW at, at = (e + i) + 1 PROVE Kept(scan[i + 1], at)
    BY <2>7, <2>8
  <2> HIDE DEF Kept
  <2> QED
    BY <2>8, <2>3
<1> HIDE DEF T
<1>6. n - e \in Nat
  BY <1>1
<1>7. n - e \in T
  BY <1>4, <1>5, <1>6, NumbersByInduction
<1>8. Kept(scan[n - e], n)
  <2>1. e + (n - e) = n /\ n - e <= n - e
    <3> HIDE DEF e
    <3> QED
      BY <1>1
  <2> HIDE DEF Kept, e
  <2> QED
    BY <1>7, <2>1 DEF T
<1>9. Kept(Decode(bytes), n) /\ Decode(bytes) \in Decoded
  <2>1. Decode(bytes) = scan[n - e] /\ scan[n - e] \in Decoded
    BY <1>2, <1>3, <1>6
  <2> HIDE DEF Kept
  <2> QED
    BY <2>1, <1>8
<1> QED
  BY <1>9 DEF bytes

\* The bytes after the last whole line begin the next one, and are no newlines.
LEMMA RestOfLine ==
    ASSUME NEW ls \in Seq(Kinds), NEW n \in Nat, n <= EndOf(ls, Len(ls)),
           NEW k \in Nat, Where(ls, n, k)
    PROVE  LET rest == SubSeq(Text(ls, Len(ls)), EndOf(ls, k) + 1, n)
           IN  /\ rest \in Seq((1..Len(ls)) \X Kinds \X {1, 2})
               /\ rest \in Seq(Byte) /\ Len(rest) \in {0, 1, 2}
               /\ \A i \in 1..Len(rest) : rest[i] # Newline
               /\ rest # <<>> => k < Len(ls)
               /\ Message(rest) = IF Len(rest) = 2 /\ ls[k + 1] # "junk" THEN <<k + 1>> ELSE <<>>
               /\ k < Len(ls) => /\ Len(rest) < Len(Bytes(ls, k + 1))
                                 /\ EndOf(ls, k) + Len(rest) = n
                                 /\ EndOf(ls, k + 1) = EndOf(ls, k) + Len(Bytes(ls, k + 1))
<1> DEFINE rest == SubSeq(Text(ls, Len(ls)), EndOf(ls, k) + 1, n)
           e == EndOf(ls, k)
<1>1. e \in Nat /\ k \in 0..Len(ls) /\ Len(ls) \in Nat /\ e <= n
  BY LinesFollow DEF Where
<1>2. CASE k < Len(ls)
  <2>1. n < EndOf(ls, Len(ls))
    <3>1. n < EndOf(ls, k + 1) /\ k + 1 \in 0..Len(ls) /\ Len(ls) \in 0..Len(ls)
      BY <1>1, <1>2 DEF Where
    <3>2. EndOf(ls, k + 1) \in Nat /\ EndOf(ls, Len(ls)) \in Nat
      BY <3>1, LinesFollow
    <3>3. k + 1 = Len(ls) \/ k + 1 < Len(ls)
      BY <3>1
    <3>4. EndOf(ls, k + 1) <= EndOf(ls, Len(ls))
      BY <3>1, <3>2, <3>3, LaterEndsLater
    <3> QED
      BY <3>1, <3>2, <3>4
  <2>2. /\ k + 1 \in 1..Len(ls) /\ n - e \in Nat /\ n - e < Len(Bytes(ls, k + 1))
        /\ EndOf(ls, k + 1) = e + Len(Bytes(ls, k + 1))
        /\ rest \in Seq(Byte) /\ Len(rest) = n - e
        /\ \A i \in 1..(n - e) : rest[i] = Bytes(ls, k + 1)[i]
    BY <2>1, InALine
  <2>3. PICK l \in 1..Len(ls) : l - k = 1
    BY <2>2
  <2>4. l = k + 1 /\ l \in Nat /\ l # 0 /\ ls[l] \in Kinds
    BY <2>3
  <2>5. PICK line \in Seq(Byte) : line = Bytes(ls, l)
    BY BytesAre
  <2>6. Len(line) \in {1, 3} /\ Len(rest) \in Nat /\ Len(rest) < Len(line)
        /\ \A i \in 1..Len(rest) : rest[i] = line[i]
    BY <2>2, <2>4, <2>5, BytesAre
  <2>7. Len(rest) \in {0, 1, 2}
    <3> DEFINE size == Len(rest)
               whole == Len(line)
    <3>1. size \in Nat /\ whole \in {1, 3} /\ size < whole
      BY <2>6
    <3> HIDE DEF size, whole
    <3>2. size \in {0, 1, 2}
      BY <3>1
    <3> QED
      BY <3>2 DEF size
  <2>8. ASSUME NEW i \in 1..Len(rest)
        PROVE  rest[i] = <<l, ls[l], i>> /\ i \in {1, 2}
    <3>1. i \in {1, 2} /\ Len(line) = 3
      <4> DEFINE size == Len(rest)
                 whole == Len(line)
      <4>1. size \in Nat /\ whole \in {1, 3} /\ size < whole /\ i \in 1..size
        BY <2>6
      <4> HIDE DEF size, whole
      <4>2. i \in {1, 2} /\ whole = 3
        BY <4>1
      <4> QED
        BY <4>2 DEF whole
    <3>2. line[i] = <<l, ls[l], i>>
      BY <3>1, <2>5, BytesAre
    <3> QED
      BY <3>1, <3>2, <2>6
  <2> HIDE DEF rest, e
  <2>9. \A i \in 1..Len(rest) : rest[i] # Newline
    BY <2>8, <2>4 DEF Newline
  <2>10. rest \in Seq((1..Len(ls)) \X Kinds \X {1, 2})
    <3>1. ASSUME NEW i \in 1..Len(rest)
          PROVE  rest[i] \in (1..Len(ls)) \X Kinds \X {1, 2}
      <4>1. rest[i] = <<l, ls[l], i>> /\ i \in {1, 2}
        BY <2>8
      <4>2. l \in 1..Len(ls) /\ ls[l] \in Kinds
        BY <2>3, <2>4
      <4> QED
        BY <4>1, <4>2
    <3> QED
      BY <3>1, <2>2
  <2>11. Message(rest) = IF Len(rest) = 2 /\ ls[l] # "junk" THEN <<l>> ELSE <<>>
    BY <2>2, <2>5, <2>6, MessageOfLine
  <2>12. e + Len(rest) = n
    BY <2>2, <1>1
  <2>13. Message(rest) = IF Len(rest) = 2 /\ ls[k + 1] # "junk" THEN <<k + 1>> ELSE <<>>
    BY <2>4, <2>11
  <2>14. Len(rest) < Len(Bytes(ls, k + 1))
    BY <2>4, <2>5, <2>6
  <2> QED
    BY <1>2, <2>2, <2>7, <2>9, <2>10, <2>12, <2>13, <2>14 DEF rest, e
<1>3. CASE k >= Len(ls)
  <2>1. k = Len(ls)
    BY <1>1, <1>3
  <2>2. n = e
    BY <1>1, <2>1
  <2>3. rest = <<>>
    <3>1. n < e + 1 /\ e + 1 \in Int
      BY <1>1, <2>2
    <3> QED
      BY <3>1, SubSeqEmpty
  <2> HIDE DEF rest, e
  <2>4. Message(rest) = <<>>
    BY <2>3 DEF Message
  <2>5. ~(k < Len(ls)) /\ Len(rest) = 0
    BY <2>1, <2>3, <1>1
  <2>6. rest \in Seq((1..Len(ls)) \X Kinds \X {1, 2}) /\ rest \in Seq(Byte)
    BY <2>3
  <2> QED
    BY <2>3, <2>4, <2>5, <2>6 DEF rest
<1> QED
  BY <1>1, <1>2, <1>3

\* A newline after what is left makes a message of it, if all of it is there.
LEMMA DecodeLast ==
    ASSUME NEW rest \in Seq(Byte), Len(rest) \in {0, 1, 2},
           \A i \in 1..Len(rest) : rest[i] # Newline
    PROVE  Decode(Append(rest, Newline)).messages = Message(rest)
<1> DEFINE bytes == Append(rest, Newline)
<1>1. Newline \in Byte
  BY DEF Newline, Byte, Kinds
<1>2. bytes \in Seq(Byte) /\ Len(bytes) = Len(rest) + 1 /\ bytes[Len(rest) + 1] = Newline
      /\ \A i \in 1..Len(rest) : bytes[i] = rest[i]
  BY <1>1
<1> HIDE DEF bytes
<1>3. PICK scan : /\ scan[0] = [messages |-> <<>>, rest |-> <<>>]
                  /\ \A i \in 1..Len(bytes) : scan[i] = Take(scan[i - 1], bytes[i])
                  /\ \A i \in 0..Len(bytes) : scan[i] \in Decoded
                  /\ Decode(bytes) = scan[Len(bytes)]
  BY <1>2, DecodeIs
<1>4. scan[0].messages = <<>> /\ scan[0].rest = <<>>
  BY <1>3
<1>5. ASSUME NEW i \in 1..Len(bytes) PROVE Taken(scan[i], scan[i - 1], bytes[i])
  BY <1>3, TakeIs
<1>6. ASSUME NEW p \in {0, 1, 2}, p = Len(rest),
             scan[p].messages = <<>>, scan[p].rest = rest
      PROVE  Decode(bytes).messages = Message(rest)
  <2>1. p + 1 \in 1..Len(bytes) /\ (p + 1) - 1 = p /\ Len(bytes) = p + 1 /\ bytes[p + 1] = Newline
    BY <1>2, <1>6
  <2>2. Taken(scan[p + 1], scan[p], Newline)
    BY <2>1, <1>5
  <2>3. scan[p + 1].messages = <<>> \o Message(rest)
    BY <2>2, <1>6 DEF Taken
  <2>4. <<>> \o Message(rest) = Message(rest)
    BY DEF Message
  <2> QED
    BY <2>1, <2>3, <2>4, <1>3
<1>7. ASSUME Len(rest) >= 1 PROVE scan[1].messages = <<>> /\ scan[1].rest = <<rest[1]>>
  <2>1. 1 \in 1..Len(bytes) /\ 1 - 1 = 0 /\ bytes[1] = rest[1] /\ rest[1] # Newline
    BY <1>2, <1>7
  <2>2. Taken(scan[1], scan[0], rest[1])
    BY <2>1, <1>5
  <2>3. Append(<<>>, rest[1]) = <<rest[1]>>
    OBVIOUS
  <2> QED
    BY <2>1, <2>2, <2>3, <1>4 DEF Taken
<1>8. CASE Len(rest) = 0
  <2>1. rest = <<>>
    BY <1>8
  <2>2. scan[0].messages = <<>> /\ scan[0].rest = rest /\ 0 = Len(rest) /\ 0 \in {0, 1, 2}
    BY <2>1, <1>4, <1>8
  <2>3. Decode(bytes).messages = Message(rest)
    BY <2>2, <1>6, Zenon
  <2> QED
    BY <2>3 DEF bytes
<1>9. CASE Len(rest) = 1
  <2>1. rest = <<rest[1]>>
    BY <1>9
  <2>2. scan[1].messages = <<>> /\ scan[1].rest = rest /\ 1 = Len(rest) /\ 1 \in {0, 1, 2}
    BY <2>1, <1>7, <1>9
  <2>3. Decode(bytes).messages = Message(rest)
    BY <2>2, <1>6, Zenon
  <2> QED
    BY <2>3 DEF bytes
<1>10. CASE Len(rest) = 2
  <2>1. 2 \in 1..Len(bytes) /\ 2 - 1 = 1 /\ bytes[2] = rest[2] /\ rest[2] # Newline
    BY <1>2, <1>10
  <2>2. Taken(scan[2], scan[1], rest[2])
    BY <2>1, <1>5
  <2>3. Append(<<rest[1]>>, rest[2]) = rest
    BY <1>10
  <2>4. scan[2].messages = <<>> /\ scan[2].rest = rest
    BY SMTT(40), <2>1, <2>2, <2>3, <1>7, <1>10 DEF Taken
  <2>5. 2 = Len(rest) /\ 2 \in {0, 1, 2}
    BY <1>10
  <2>6. Decode(bytes).messages = Message(rest)
    BY <2>4, <2>5, <1>6, Zenon
  <2> QED
    BY <2>6 DEF bytes
<1> QED
  BY <1>8, <1>9, <1>10

----------------------------------------------------------------------------
(* What the listener makes of what it read *)

\* The messages whose line ends within what was read are those of the whole
\* lines; without its newline the line that follows counts if it is all there.
LEMMA CompleteIs ==
    ASSUME lines \in Seq(Kinds), NEW n \in Nat, n <= Len(Stream),
           NEW k \in Nat, Where(lines, n, k)
    PROVE  /\ Complete(n, TRUE) = Messages(lines, 0, k)
           /\ LET rest == SubSeq(Stream, EndOf(lines, k) + 1, n)
              IN  Complete(n, FALSE) =
                      Messages(lines, 0, k) \cup
                          {l \in {k + 1} : Len(rest) = 2 /\ lines[l] # "junk"}
<1> DEFINE rest == SubSeq(Stream, EndOf(lines, k) + 1, n)
           size == Len(rest)
           e == EndOf(lines, k)
<1>1. k \in 0..Len(lines) /\ e \in Nat /\ e <= n /\ Len(lines) \in Nat
  BY LinesFollow DEF Where
<1>2. /\ size \in {0, 1, 2}
      /\ size = 2 => k < Len(lines)
      /\ k < Len(lines) => /\ size < Len(Bytes(lines, k + 1)) /\ e + size = n
                           /\ EndOf(lines, k + 1) = e + Len(Bytes(lines, k + 1))
  <2>1. n <= EndOf(lines, Len(lines))
    BY DEF Stream, EndOf
  <2>2. size = 2 => rest # <<>>
    <3> HIDE DEF rest
    <3>1. rest = <<>> => size = 0
      OBVIOUS
    <3> HIDE DEF size
    <3> QED
      BY <3>1
  <2> QED
    BY <2>1, <2>2, RestOfLine DEF Stream
<1>3. ASSUME NEW l \in 1..Len(lines), l <= k PROVE EndOf(lines, l) <= n
  <2>1. l \in 0..Len(lines) /\ (l = k \/ l < k)
    BY <1>1, <1>3
  <2>2. EndOf(lines, l) \in Nat /\ EndOf(lines, l) <= e
    BY <2>1, <1>1, LinesFollow, LaterEndsLater
  <2> QED
    BY <2>2, <1>1
<1>4. ASSUME NEW l \in 1..Len(lines), l > k
      PROVE  /\ EndOf(lines, l) \in Nat /\ EndOf(lines, l) > n
             /\ l # k + 1 => EndOf(lines, l) - 1 > n
  <2>1. l \in 0..Len(lines) /\ k + 1 \in 0..Len(lines) /\ k < Len(lines) /\ (l = k + 1 \/ k + 1 < l)
    BY <1>1, <1>4
  <2>2. n < EndOf(lines, k + 1) /\ EndOf(lines, k + 1) \in Nat /\ EndOf(lines, l) \in Nat
    BY <2>1, LinesFollow DEF Where
  <2>3. k + 1 < l => EndOf(lines, k + 1) < EndOf(lines, l)
    BY <2>1, LaterEndsLater
  <2> QED
    BY <2>1, <2>2, <2>3
<1> HIDE DEF size, rest, e
<1>5. ASSUME k + 1 \in 1..Len(lines), WellFormed(k + 1)
      PROVE  EndOf(lines, k + 1) - 1 <= n <=> size = 2
  <2>1. Len(Bytes(lines, k + 1)) = 3
    BY <1>5, BytesAre DEF WellFormed
  <2>2. k < Len(lines)
    BY <1>1, <1>5
  <2>3. EndOf(lines, k + 1) = e + 3 /\ e + size = n
    BY <2>1, <2>2, <1>2
  <2>4. ASSUME NEW end \in Nat, end = e + 3 PROVE end - 1 <= n <=> size = 2
    <3>1. size = 0 \/ size = 1 \/ size = 2
      BY <1>2
    <3>2. e + size = n
      BY <2>3
    <3>3. e \in Nat
      BY <1>1
    <3> QED
      BY <3>1, <3>2, <3>3, <2>4
  <2>5. e + 3 \in Nat
    BY <1>1
  <2> QED
    BY <2>3, <2>4, <2>5
<1>6. Complete(n, TRUE) = Messages(lines, 0, k)
  <2>1. ASSUME NEW l \in 1..Len(lines)
        PROVE  Len(Text(lines, l)) - 0 <= n <=> l <= k
    <3>1. EndOf(lines, l) \in Nat
      BY LinesFollow
    <3>2. EndOf(lines, l) <= n <=> l <= k
      BY <1>1, <1>3, <1>4
    <3> QED
      BY <3>1, <3>2 DEF EndOf
  <2> QED
    BY <2>1, <1>1 DEF Complete, Messages, WellFormed
<1>7. Complete(n, FALSE) =
          Messages(lines, 0, k) \cup {l \in {k + 1} : size = 2 /\ lines[l] # "junk"}
  <2>1. ASSUME NEW l \in 1..Len(lines)
        PROVE  Len(Text(lines, l)) - 1 <= n <=> l <= k \/ (l = k + 1 /\ EndOf(lines, l) - 1 <= n)
    <3>1. EndOf(lines, l) \in Nat
      BY LinesFollow
    <3>2. EndOf(lines, l) - 1 <= n <=> l <= k \/ (l = k + 1 /\ EndOf(lines, l) - 1 <= n)
      BY <1>1, <1>3, <1>4, <3>1
    <3> QED
      BY <3>2 DEF EndOf
  <2>2. size = 2 => k + 1 \in 1..Len(lines) /\ lines[k + 1] # "blank"
    <3>1. ASSUME size = 2 PROVE k + 1 \in 1..Len(lines) /\ lines[k + 1] # "blank"
      <4>1. k < Len(lines) /\ 2 < Len(Bytes(lines, k + 1))
        BY <3>1, <1>2
      <4>2. k + 1 \in 1..Len(lines)
        BY <4>1, <1>1
      <4>3. ASSUME lines[k + 1] = "blank" PROVE FALSE
        <5>1. Len(Bytes(lines, k + 1)) = 1
          BY <4>2, <4>3, BytesAre
        <5> DEFINE whole == Len(Bytes(lines, k + 1))
        <5>2. 2 < whole /\ whole = 1
          BY <4>1, <5>1
        <5> HIDE DEF whole
        <5> QED
          BY <5>2
      <4> QED
        BY <4>2, <4>3
    <3> QED
      BY <3>1
  <2>3. ASSUME NEW l PROVE l \in Complete(n, FALSE) <=>
            \/ l \in Messages(lines, 0, k)
            \/ l = k + 1 /\ size = 2 /\ lines[l] # "junk"
    <3>1. l \in Complete(n, FALSE) <=>
              l \in 1..Len(lines) /\ WellFormed(l) /\ (l <= k \/ (l = k + 1 /\ EndOf(lines, l) - 1 <= n))
      BY <2>1 DEF Complete
    <3>2. l \in 1..Len(lines) /\ WellFormed(l) /\ l <= k <=> l \in Messages(lines, 0, k)
      BY <1>1 DEF Messages, WellFormed
    <3>3. l \in 1..Len(lines) /\ WellFormed(l) /\ l = k + 1 /\ EndOf(lines, l) - 1 <= n
              <=> l = k + 1 /\ size = 2 /\ lines[l] # "junk"
      BY <1>5, <2>2 DEF WellFormed
    <3> QED
      BY <3>1, <3>2, <3>3
  <2> DEFINE C == Complete(n, FALSE)
             M == Messages(lines, 0, k)
  <2> HIDE DEF C, M
  <2>4. \A l : l \in C <=> l \in M \/ (l = k + 1 /\ size = 2 /\ lines[l] # "junk")
    BY <2>3 DEF C, M
  <2>5. C = M \cup {l \in {k + 1} : size = 2 /\ lines[l] # "junk"}
    BY <2>4
  <2> QED
    BY <2>5 DEF C, M
<1> QED
  BY <1>6, <1>7 DEF rest, size

\* What was decoded is the messages of the lines after k that end by byte n.
Reaches(decoded, k, n) ==
    /\ decoded.messages \in Seq(Nat)
    /\ \E m \in Nat : /\ k <= m /\ Where(lines, n, m)
                      /\ InOrder(decoded.messages, Messages(lines, k, m))
                      /\ decoded.rest = SubSeq(Stream, EndOf(lines, m) + 1, n)

\* Reading on from anywhere decodes the lines that end in between.
LEMMA ReadOn ==
    ASSUME lines \in Seq(Kinds), NEW k \in Nat, NEW r \in Nat, NEW n \in Nat, r <= n,
           n <= Len(Stream), Where(lines, r, k),
           NEW rest, rest = SubSeq(Stream, EndOf(lines, k) + 1, r)
    PROVE  Reaches(Decode(rest \o SubSeq(Stream, r + 1, n)), k, n)
<1> DEFINE e == EndOf(lines, k)
<1>1. e \in Nat /\ e <= r /\ k \in 0..Len(lines) /\ Stream \in Seq(Byte)
      /\ Len(Stream) = EndOf(lines, Len(lines))
  BY TextIs, LinesFollow DEF Where, Stream, EndOf
<1>2. rest \o SubSeq(Stream, r + 1, n) = SubSeq(Stream, e + 1, n)
  <2>1. e + 1 \in 1..(Len(Stream) + 1) /\ r \in ((e + 1) - 1)..Len(Stream) /\ n \in r..Len(Stream)
    <3>1. Len(Stream) \in Nat
      BY <1>1
    <3> HIDE DEF e
    <3> QED
      BY <1>1, <3>1
  <2> HIDE DEF e
  <2>2. SubSeq(Stream, e + 1, r) \o SubSeq(Stream, r + 1, n) = SubSeq(Stream, e + 1, n)
    BY <1>1, <2>1, ConcatAdjacentSubSeq
  <2> QED
    BY <2>2 DEF e
<1>3. e <= n /\ n <= EndOf(lines, Len(lines))
  <2> HIDE DEF e
  <2> QED
    BY <1>1
<1>4. /\ Decode(SubSeq(Stream, e + 1, n)) \in Decoded
      /\ \E m \in Nat : /\ k <= m /\ Where(lines, n, m)
             /\ InOrder(Decode(SubSeq(Stream, e + 1, n)).messages, Messages(lines, k, m))
             /\ Decode(SubSeq(Stream, e + 1, n)).rest = SubSeq(Stream, EndOf(lines, m) + 1, n)
  BY <1>1, <1>3, DecodeStream DEF Stream
<1>5. Decode(SubSeq(Stream, e + 1, n)).messages \in Seq(Nat)
  BY <1>4 DEF Decoded
<1>6. Reaches(Decode(SubSeq(Stream, e + 1, n)), k, n)
  BY <1>4, <1>5 DEF Reaches
<1> QED
  BY <1>2, <1>6

\* A sequence of lines in order is a sequence of lines.
LEMMA InOrderType ==
    ASSUME NEW seq \in Seq(Nat), NEW set, InOrder(seq, set), NEW S, set \subseteq S
    PROVE  seq \in Seq(S)
<1>1. \A i \in 1..Len(seq) : seq[i] \in S
  BY DEF InOrder
<1> QED
  BY <1>1

----------------------------------------------------------------------------
(* The invariant *)

\* Where the listener has read nothing, where it may read on, and where it is
\* sending an urgent message to the mesh.
Early == {"none", "socket", "connect", "connecting", "mark", "status", "send"}
Reading == {"look", "recv", "parked", "process", "announce", "tail"}
Announcing == {"announce", "lastannounce"}

\* What the listener knows: what it processed and what is queued, less the
\* urgent message it is announcing, which is both.
Known == heard \o (IF pc \in Announcing THEN Tail(queue) ELSE queue)

\* Nothing is read before the listener is connected.
Silent == /\ main = "setup" => pc = "none"
          /\ pc \in Early => read = 0 /\ buffer = <<>> /\ queue = <<>> /\ heard = <<>>

\* It reads on, or ends for its server, only when it has processed all it decoded.
Drained == pc \in {"look", "recv", "parked", "tail"} \/ (pc \in Ending /\ why = "ended") =>
               queue = <<>>

\* What is announced is the message processed last.
Speaking == pc \in Announcing => queue # <<>> /\ heard # <<>> /\ heard[Len(heard)] = Head(queue)

\* It knows the messages of the whole lines read, and the buffer is the rest.
Framed == pc \in Reading =>
    \E k \in Nat : /\ Where(lines, read, k)
                   /\ buffer = SubSeq(Stream, EndOf(lines, k) + 1, read)
                   /\ InOrder(Known, Messages(lines, 0, k))

\* At the end it knows the last line too, with a newline or without.
Finished == pc \in {"last", "lastannounce"} \/ (pc \in Ending /\ why = "ended") =>
                InOrder(Known, Complete(read, FALSE))

\* What is urgent and processed is announced, or is being announced.
Told == /\ pc \notin Ending => why # "raised"
        /\ why # "raised" => \A i \in 1..Len(heard) : lines[heard[i]] = "urgent" =>
               heard[i] \in announced \/ (pc \in Announcing /\ i = Len(heard))

\* The inductive invariant.
Inv == TypeOK /\ Silent /\ Drained /\ Speaking /\ Framed /\ Finished /\ Told

\* The stream is a sequence of bytes and ends with its last line.
LEMMA StreamIs ==
    ASSUME lines \in Seq(Kinds)
    PROVE  Stream \in Seq(Byte) /\ Len(Stream) \in Nat /\ Len(Stream) = EndOf(lines, Len(lines))
<1>1. Len(lines) \in 0..Len(lines)
  OBVIOUS
<1>2. Stream \in Seq(Byte)
  BY <1>1, TextIs DEF Stream
<1>3. Len(Stream) \in Nat
  BY <1>2
<1> QED
  BY <1>2, <1>3 DEF Stream, EndOf

\* The lines, and what was read of them, as the lemmas on streams need them.
LEMMA TypeFacts ==
    ASSUME TypeOK
    PROVE  /\ lines \in Seq(Kinds) /\ read \in Nat /\ read <= Len(Stream)
           /\ Len(Stream) = EndOf(lines, Len(lines))
           /\ heard \in Seq(Nat) /\ queue \in Seq(Nat)
<1>1. lines \in Seq(Kinds)
  BY StreamAssumption DEF TypeOK
<1>2. read \in 0..Len(Stream) /\ Len(Stream) \in Nat
  BY <1>1, StreamIs DEF TypeOK
<1>3. ASSUME NEW s \in Seq(1..Len(lines)) PROVE s \in Seq(Nat)
  <2>1. \A i \in 1..Len(s) : s[i] \in Nat
    OBVIOUS
  <2> QED
    BY <2>1
<1>4. heard \in Seq(Nat) /\ queue \in Seq(Nat)
  BY <1>3 DEF TypeOK
<1> QED
  BY <1>1, <1>2, <1>4, StreamIs

\* The listener starts with nothing.
LEMMA InitInv == ASSUME Init PROVE Inv
<1>1. TypeOK
  <2>1. lines \in Seq(Kinds)
    BY StreamAssumption DEF Init
  <2>2. 0 \in 0..Len(Stream)
    BY <2>1, StreamIs
  <2>3. /\ <<>> \in Seq((1..Len(lines)) \X Kinds \X {1, 2}) /\ <<>> \in Seq(1..Len(lines))
        /\ {} \subseteq {"urgent", "groups", "messages"} \X (1..Len(lines)) /\ {} \subseteq 1..Len(lines)
    OBVIOUS
  <2> QED
    BY <2>2, <2>3 DEF Init, TypeOK
<1>2. pc = "none" /\ why = "" /\ heard = <<>> /\ queue = <<>> /\ buffer = <<>> /\ read = 0
  BY DEF Init
<1>3. Silent /\ Drained /\ Speaking
  BY <1>2 DEF Silent, Drained, Speaking, Announcing, Ending
<1>4. Framed /\ Finished
  BY <1>2 DEF Framed, Finished, Reading, Ending
<1>5. Told
  <2>1. Len(heard) = 0
    BY <1>2
  <2>2. 1..Len(heard) = {}
    BY <2>1
  <2> QED
    BY <1>2, <2>2 DEF Told, Ending
<1> QED
  BY <1>1, <1>3, <1>4, <1>5 DEF Inv

\* Where the listener may go without touching what it read, decoded or processed.
Quiet == /\ UNCHANGED <<lines, inbox, records>>
         /\ main' = "setup" => main = "setup" /\ pc' = pc
         /\ \/ pc' = pc /\ why' = why
            \/ pc \in Early /\ pc' \in Early \cup {"look"} /\ why' = why
            \/ /\ pc \in {"look", "recv", "parked"} \/ (pc = "process" /\ queue = <<>>)
               /\ pc' \in {"look", "recv", "parked", "tail"} /\ why' \in {why, "closed", "ended"}
            \/ pc \notin Announcing \cup Ending /\ pc' = "finally" /\ why' = "refused"
            \/ pc' = "finally" /\ why' = "raised"
            \/ pc = "last" /\ queue = <<>> /\ pc' = "finally" /\ why' \in {why, "closed"}
            \/ pc \in Ending /\ pc' \in Ending /\ why' = why

\* The start of a stream is before its first line.
LEMMA NothingRead ==
    ASSUME lines \in Seq(Kinds), read = 0, buffer = <<>>, Known = <<>>
    PROVE  \E k \in Nat : /\ Where(lines, read, k)
                          /\ buffer = SubSeq(Stream, EndOf(lines, k) + 1, read)
                          /\ InOrder(Known, Messages(lines, 0, k))
<1>1. EndOf(lines, 0) = 0 /\ Len(lines) \in Nat
  BY LinesFollow
<1>2. Where(lines, 0, 0)
  <2>1. ASSUME 0 < Len(lines) PROVE 0 < EndOf(lines, 0 + 1)
    <3>1. 0 \in 0..Len(lines) /\ 1 \in 0..Len(lines) /\ 0 + 1 = 1
      BY <2>1, <1>1
    <3>2. EndOf(lines, 0) < EndOf(lines, 1)
      BY <3>1, LaterEndsLater
    <3> QED
      BY <3>1, <3>2, <1>1
  <2> QED
    BY <2>1, <1>1 DEF Where
<1>3. <<>> = SubSeq(Stream, 0 + 1, 0)
  BY SubSeqEmpty
<1>4. InOrder(<<>>, Messages(lines, 0, 0))
  BY DEF InOrder, Messages
<1> QED
  BY <1>1, <1>2, <1>3, <1>4

\* Such a step keeps what the listener knows framed.
LEMMA QuietKeeps ==
    ASSUME Inv, Quiet
    PROVE  Silent' /\ Drained' /\ Speaking' /\ Framed' /\ Finished' /\ Told'
<1> USE DEF Quiet, inbox, records
<1>1. lines' = lines /\ read' = read /\ buffer' = buffer /\ queue' = queue /\ heard' = heard
      /\ announced' = announced /\ Stream' = Stream
  BY DEF Stream
<1>2. Silent'
  BY <1>1 DEF Inv, Silent, Early, Announcing, Ending
<1>3. Drained'
  BY <1>1 DEF Inv, Silent, Drained, Early, Announcing, Ending
<1>4. Speaking'
  BY <1>1 DEF Inv, Speaking, Early, Announcing, Ending
<1>5. Complete(read, FALSE)' = Complete(read, FALSE)
  BY <1>1 DEF Complete, WellFormed
<1>6. pc' \in Announcing \cup Reading => Known' = Known
  <2>1. CASE pc' = pc
    BY <1>1, <2>1 DEF Known
  <2>2. CASE pc \notin Announcing /\ pc' \notin Announcing
    BY <1>1, <2>2 DEF Known
  <2>3. CASE pc \in Announcing /\ pc' # pc
    BY <2>3 DEF Announcing, Reading, Early, Ending
  <2>4. CASE pc \notin Announcing /\ pc' \in Announcing
    BY <2>4 DEF Announcing, Reading, Early, Ending
  <2> QED
    BY <2>1, <2>2, <2>3, <2>4
<1>7. Framed'
  <2>1. CASE pc \in Reading
    BY <2>1, <1>1, <1>6 DEF Inv, Framed
  <2>2. CASE pc \in Early /\ pc' = "look"
    <3>1. read = 0 /\ buffer = <<>> /\ queue = <<>> /\ heard = <<>> /\ pc \notin Announcing
      BY <2>2 DEF Inv, Silent, Early, Announcing
    <3>2. Known = <<>>
      BY <3>1 DEF Known
    <3>3. lines \in Seq(Kinds)
      BY TypeFacts DEF Inv
    <3> QED
      BY <3>1, <3>2, <3>3, <2>2, <1>1, <1>6, NothingRead DEF Framed, Reading
  <2>3. CASE pc \notin Reading /\ pc' \notin Reading
    BY <2>3 DEF Framed
  <2> QED
    BY <2>1, <2>2, <2>3 DEF Reading, Early, Ending, Announcing
<1>8. Finished'
  <2>1. CASE pc' = pc /\ why' = why
    BY <2>1, <1>1, <1>5 DEF Inv, Finished, Known
  <2>2. CASE pc = "last" /\ queue = <<>> /\ pc' = "finally"
    <3>1. Known' = Known
      BY <2>2, <1>1 DEF Known, Announcing
    <3> QED
      BY <2>2, <3>1, <1>5 DEF Inv, Finished
  <2>3. CASE pc \in Ending /\ pc' \in Ending /\ why' = why
    <3>1. Known' = Known
      BY <2>3, <1>1 DEF Known, Announcing, Ending
    <3> QED
      BY <2>3, <3>1, <1>5 DEF Inv, Finished, Ending
  <2> QED
    BY <2>1, <2>2, <2>3 DEF Finished, Early, Announcing, Ending
<1>9. Told'
  <2>1. pc' \notin Ending => why' # "raised"
    BY DEF Inv, Told, Early, Announcing, Ending
  <2>2. why' # "raised" => why # "raised"
    BY DEF Inv, Told, Early, Announcing, Ending
  <2>3. why' # "raised" /\ pc \in Announcing => pc' \in Announcing
    BY DEF Early, Announcing, Ending
  <2> QED
    BY <1>1, <2>1, <2>2, <2>3 DEF Inv, Told
<1> QED
  BY <1>2, <1>3, <1>4, <1>7, <1>8, <1>9

\* TypeOK in two halves: what was read, decoded and processed, and who is where.
DataOK == /\ lines \in Streams /\ read \in 0..Len(Stream)
          /\ buffer \in Seq((1..Len(lines)) \X Kinds \X {1, 2})
          /\ queue \in Seq(1..Len(lines)) /\ heard \in Seq(1..Len(lines))
          /\ stored \subseteq {"urgent", "groups", "messages"} \X (1..Len(lines))
          /\ announced \subseteq 1..Len(lines)
ControlOK == /\ sock \in BOOLEAN /\ connected \in BOOLEAN
             /\ mine \in BOOLEAN /\ held \in BOOLEAN /\ lost \in BOOLEAN
             /\ conn \in {"none", "fresh", "open", "shut"}
             /\ pc \in {"none"} \cup Listening \cup Ending
             /\ main \in {"setup", "running", "take", "clear", "shut", "join", "closed"}
             /\ why \in {"", "refused", "closed", "ended", "raised"}

FlagsOK == /\ sock \in BOOLEAN /\ connected \in BOOLEAN
           /\ mine \in BOOLEAN /\ held \in BOOLEAN /\ lost \in BOOLEAN
PlacesOK == /\ conn \in {"none", "fresh", "open", "shut"}
            /\ pc \in {"none"} \cup Listening \cup Ending
            /\ main \in {"setup", "running", "take", "clear", "shut", "join", "closed"}
            /\ why \in {"", "refused", "closed", "ended", "raised"}

\* The second half is the flags and the places of the two threads.
LEMMA ControlParts == /\ ControlOK <=> FlagsOK /\ PlacesOK
                      /\ ControlOK' <=> FlagsOK' /\ PlacesOK'
BY DEF ControlOK, FlagsOK, PlacesOK

\* The halves are the whole.
LEMMA TypeHalves == /\ TypeOK <=> DataOK /\ ControlOK
                    /\ TypeOK' <=> DataOK' /\ ControlOK'
BY DEF TypeOK, DataOK, ControlOK

\* Most steps are such steps, and change no type.
LEMMA QuietSteps ==
    ASSUME Inv,
           \/ StartListener \/ StartNothing \/ Close \/ TakeSocket \/ ClearSocket \/ Shutdown
           \/ Join \/ TakeOwn \/ ForgetOwn \/ StatusSent \/ SendFails \/ OpenSocket \/ Connect \/ Connected \/ Refused \/ MarkConnected \/ AskStatus \/ Look
           \/ Recv \/ WokenByShutdown \/ ServerEnds \/ Processed \/ AllProcessed \/ Disconnect
           \/ DropSocket \/ AnnounceRaises("announce") \/ AnnounceRaises("lastannounce")
           \/ UNCHANGED vars
    PROVE  Quiet /\ TypeOK'
<1> USE DEF GoTo, End, socketVars, inbox, records
<1>1. DataOK /\ ControlOK /\ Silent
  BY TypeHalves DEF Inv
<1>2. Quiet => DataOK'
  BY <1>1 DEF Quiet, DataOK, Stream
<1>3. ControlOK /\ (main = "setup" => pc = "none")
  BY <1>1 DEF Silent
<1>4. ASSUME StartListener PROVE Quiet /\ ControlOK'
  <2>1. Quiet
    BY <1>4, <1>3 DEF StartListener, Quiet, Early, Listening, Ending
  <2>2. ControlOK'
    BY <1>4, <1>3 DEF StartListener, ControlOK, Early, Listening, Ending
  <2> QED
    BY <2>1, <2>2
<1>5. ASSUME StartNothing PROVE Quiet /\ ControlOK'
  <2>1. Quiet
    BY <1>5, <1>3 DEF StartNothing, Quiet
  <2>2. ControlOK'
    BY <1>5, <1>3 DEF StartNothing, ControlOK
  <2> QED
    BY <2>1, <2>2
<1>6. ASSUME Close PROVE Quiet /\ ControlOK'
  <2>1. Quiet
    BY <1>6, <1>3 DEF Close, Quiet
  <2>2. ControlOK'
    BY <1>6, <1>3 DEF Close, ControlOK
  <2> QED
    BY <2>1, <2>2
<1>7. ASSUME Join PROVE Quiet /\ ControlOK'
  <2>1. Quiet
    BY <1>7, <1>3 DEF Join, Quiet
  <2>2. ControlOK'
    BY <1>7, <1>3 DEF Join, ControlOK
  <2> QED
    BY <2>1, <2>2
<1>8. ASSUME TakeSocket PROVE Quiet /\ ControlOK'
  <2>1. Quiet
    BY <1>8, <1>3 DEF TakeSocket, Quiet
  <2>2. ControlOK'
    BY <1>8, <1>3 DEF TakeSocket, ControlOK
  <2> QED
    BY <2>1, <2>2
<1>9. ASSUME Shutdown PROVE Quiet /\ ControlOK'
  <2>1. Quiet
    BY <1>9, <1>3 DEF Shutdown, Quiet
  <2>2. ControlOK'
    BY <1>9, <1>3 DEF Shutdown, ControlOK
  <2> QED
    BY <2>1, <2>2
<1>10. ASSUME OpenSocket PROVE Quiet /\ ControlOK'
  <2>1. Quiet
    BY <1>10, <1>3 DEF OpenSocket, Quiet, Early, Listening
  <2>2. ControlOK'
    BY <1>10, <1>3 DEF OpenSocket, ControlOK, Early, Listening
  <2> QED
    BY <2>1, <2>2
<1>11. ASSUME Connected PROVE Quiet /\ ControlOK'
  <2>1. Quiet
    BY <1>11, <1>3 DEF Connected, Quiet, Early, Listening
  <2>2. ControlOK'
    BY <1>11, <1>3 DEF Connected, ControlOK, Early, Listening
  <2> QED
    BY <2>1, <2>2
<1>12. ASSUME MarkConnected PROVE Quiet /\ ControlOK'
  <2>1. Quiet
    BY <1>12, <1>3 DEF MarkConnected, Quiet, Early, Listening
  <2>2. ControlOK'
    BY <1>12, <1>3 DEF MarkConnected, ControlOK, Early, Listening
  <2> QED
    BY <2>1, <2>2
<1>13. ASSUME Connect PROVE Quiet /\ ControlOK'
  <2>1. Quiet
    BY <1>13, <1>3 DEF Connect, Quiet, Early, Listening, Ending, Announcing
  <2>2. ControlOK'
    <3>1. FlagsOK'
      BY <1>13, <1>3, ControlParts DEF Connect, FlagsOK
    <3>2. PlacesOK'
      BY <1>13, <1>3, ControlParts DEF Connect, Early, Listening, Ending, Announcing, PlacesOK
    <3> QED
      BY <3>1, <3>2, ControlParts
  <2> QED
    BY <2>1, <2>2
<1>14. ASSUME AskStatus PROVE Quiet /\ ControlOK'
  <2>1. Quiet
    BY <1>14, <1>3 DEF AskStatus, Quiet, Early, Listening, Ending, Announcing
  <2>2. ControlOK'
    <3>1. FlagsOK'
      BY <1>14, <1>3, ControlParts DEF AskStatus, FlagsOK
    <3>2. PlacesOK'
      BY <1>14, <1>3, ControlParts DEF AskStatus, Early, Listening, Ending, Announcing, PlacesOK
    <3> QED
      BY <3>1, <3>2, ControlParts
  <2> QED
    BY <2>1, <2>2
<1>15. ASSUME Refused PROVE Quiet /\ ControlOK'
  <2>1. Quiet
    BY <1>15, <1>3 DEF Refused, Quiet, Early, Listening, Ending, Announcing
  <2>2. ControlOK'
    BY <1>15, <1>3 DEF Refused, ControlOK, Early, Listening, Ending, Announcing
  <2> QED
    BY <2>1, <2>2
<1>16. ASSUME Look PROVE Quiet /\ ControlOK'
  <2>1. Quiet
    BY <1>16, <1>3 DEF Look, Quiet, Listening
  <2>2. ControlOK'
    BY <1>16, <1>3 DEF Look, ControlOK, Listening
  <2> QED
    BY <2>1, <2>2
<1>17. ASSUME Recv PROVE Quiet /\ ControlOK'
  <2>1. Quiet
    BY <1>17, <1>3 DEF Recv, Quiet, Listening, Ending
  <2>2. ControlOK'
    <3>1. FlagsOK'
      BY <1>17, <1>3, ControlParts DEF Recv, FlagsOK
    <3>2. PlacesOK'
      BY <1>17, <1>3, ControlParts DEF Recv, Listening, Ending, PlacesOK
    <3> QED
      BY <3>1, <3>2, ControlParts
  <2> QED
    BY <2>1, <2>2
<1>18. ASSUME WokenByShutdown PROVE Quiet /\ ControlOK'
  <2>1. Quiet
    BY <1>18, <1>3 DEF WokenByShutdown, Quiet, Listening
  <2>2. ControlOK'
    BY <1>18, <1>3 DEF WokenByShutdown, ControlOK, Listening
  <2> QED
    BY <2>1, <2>2
<1>19. ASSUME ServerEnds PROVE Quiet /\ ControlOK'
  <2>1. Quiet
    BY <1>19, <1>3 DEF ServerEnds, Quiet, Listening
  <2>2. ControlOK'
    BY <1>19, <1>3 DEF ServerEnds, ControlOK, Listening
  <2> QED
    BY <2>1, <2>2
<1>20. ASSUME Processed PROVE Quiet /\ ControlOK'
  <2>1. Quiet
    BY <1>20, <1>3 DEF Processed, Quiet, Listening
  <2>2. ControlOK'
    BY <1>20, <1>3 DEF Processed, ControlOK, Listening
  <2> QED
    BY <2>1, <2>2
<1>21. ASSUME AllProcessed PROVE Quiet /\ ControlOK'
  <2>1. Quiet
    BY <1>21, <1>3 DEF AllProcessed, Quiet, Ending
  <2>2. ControlOK'
    BY <1>21, <1>3 DEF AllProcessed, ControlOK, Ending
  <2> QED
    BY <2>1, <2>2
<1>22. ASSUME Disconnect PROVE Quiet /\ ControlOK'
  <2>1. Quiet
    BY <1>22, <1>3 DEF Disconnect, Quiet, Ending
  <2>2. ControlOK'
    BY <1>22, <1>3 DEF Disconnect, ControlOK, Ending
  <2> QED
    BY <2>1, <2>2
<1>23. ASSUME DropSocket PROVE Quiet /\ ControlOK'
  <2>1. Quiet
    BY <1>23, <1>3 DEF DropSocket, Quiet, Ending
  <2>2. ControlOK'
    BY <1>23, <1>3 DEF DropSocket, ControlOK, Ending
  <2> QED
    BY <2>1, <2>2
<1>24. ASSUME NEW at \in Announcing, AnnounceRaises(at) PROVE Quiet /\ ControlOK'
  <2>1. Quiet
    BY <1>24, <1>3 DEF AnnounceRaises, Quiet, Announcing
  <2>2. ControlOK'
    BY <1>24, <1>3 DEF AnnounceRaises, ControlOK, Ending
  <2> QED
    BY <2>1, <2>2
<1>25. ASSUME UNCHANGED vars PROVE Quiet /\ ControlOK'
  <2>1. Quiet
    BY <1>25, <1>3 DEF vars, Quiet
  <2>2. ControlOK'
    <3>1. FlagsOK'
      BY <1>25, <1>3, ControlParts DEF vars, FlagsOK
    <3>2. PlacesOK'
      BY <1>25, <1>3, ControlParts DEF vars, PlacesOK
    <3> QED
      BY <3>1, <3>2, ControlParts
  <2> QED
    BY <2>1, <2>2
<1>26. ASSUME ClearSocket PROVE Quiet /\ ControlOK'
  <2>1. Quiet
    BY <1>26, <1>3 DEF ClearSocket, Quiet, Ending
  <2>2. ControlOK'
    BY <1>26, <1>3 DEF ClearSocket, ControlOK, Ending
  <2> QED
    BY <2>1, <2>2
<1>27. ASSUME TakeOwn PROVE Quiet /\ ControlOK'
  <2>1. Quiet
    BY <1>27, <1>3 DEF TakeOwn, Quiet, Ending
  <2>2. ControlOK'
    BY <1>27, <1>3 DEF TakeOwn, ControlOK, Ending
  <2> QED
    BY <2>1, <2>2
<1>28. ASSUME ForgetOwn PROVE Quiet /\ ControlOK'
  <2>1. Quiet
    BY <1>28, <1>3 DEF ForgetOwn, Quiet, Ending
  <2>2. ControlOK'
    BY <1>28, <1>3 DEF ForgetOwn, ControlOK, Ending
  <2> QED
    BY <2>1, <2>2
<1>29. ASSUME StatusSent PROVE Quiet /\ ControlOK'
  <2>1. Quiet
    BY <1>29, <1>3 DEF StatusSent, Quiet, Early, Listening
  <2>2. ControlOK'
    BY <1>29, <1>3 DEF StatusSent, ControlOK, Early, Listening
  <2> QED
    BY <2>1, <2>2
<1>30. ASSUME SendFails PROVE Quiet /\ ControlOK'
  <2>1. Quiet
    BY <1>30, <1>3 DEF SendFails, Quiet, Early, Listening, Ending, Announcing
  <2>2. ControlOK'
    BY <1>30, <1>3 DEF SendFails, ControlOK, Early, Listening, Ending, Announcing
  <2> QED
    BY <2>1, <2>2
<1> QED
  BY <1>2, TypeHalves, <1>4, <1>5, <1>6, <1>7, <1>8, <1>9, <1>10, <1>11, <1>12, <1>13, <1>14, <1>15, <1>16, <1>17, <1>18, <1>19, <1>20, <1>21, <1>22, <1>23, <1>24, <1>25, <1>26, <1>27, <1>28, <1>29, <1>30 DEF Announcing

\* A read adds the messages of the lines it completes.
LEMMA RecvKeeps == ASSUME Inv, RecvBytes PROVE Inv'
<1>1. TypeOK /\ Drained /\ Told /\ Silent
  BY DEF Inv
<1>2. /\ lines \in Seq(Kinds) /\ read \in Nat /\ read <= Len(Stream)
      /\ Len(Stream) = EndOf(lines, Len(lines))
      /\ heard \in Seq(Nat) /\ queue \in Seq(Nat)
  BY <1>1, TypeFacts
<1>3. pc = "parked" /\ pc' = "process" /\ queue = <<>>
  BY <1>1 DEF RecvBytes, GoTo, Drained
<1>4. UNCHANGED <<lines, socketVars, records, main, mine, why>> /\ Stream' = Stream
  BY DEF RecvBytes, Stream
<1>5. PICK n \in (read + 1)..Len(Stream) :
          LET decoded == Decode(buffer \o SubSeq(Stream, read + 1, n))
          IN  read' = n /\ queue' = decoded.messages /\ buffer' = decoded.rest
  BY DEF RecvBytes
<1>6. PICK k \in Nat : /\ Where(lines, read, k)
                       /\ buffer = SubSeq(Stream, EndOf(lines, k) + 1, read)
                       /\ InOrder(Known, Messages(lines, 0, k))
  BY <1>3 DEF Inv, Framed, Reading
<1>7. n \in Nat /\ read <= n /\ n <= Len(Stream)
  BY <1>2
<1>8. queue' \in Seq(Nat) /\ \E m \in Nat : /\ k <= m /\ Where(lines, n, m)
                                /\ InOrder(queue', Messages(lines, k, m))
                                /\ buffer' = SubSeq(Stream, EndOf(lines, m) + 1, n)
  <2> DEFINE decoded == Decode(buffer \o SubSeq(Stream, read + 1, n))
  <2>1. Where(lines, read, k) /\ buffer = SubSeq(Stream, EndOf(lines, k) + 1, read)
    BY <1>6
  <2>2. Reaches(decoded, k, n)
    BY <1>2, <1>7, <2>1, ReadOn
  <2>3. queue' = decoded.messages /\ buffer' = decoded.rest
    BY <1>5
  <2> HIDE DEF decoded
  <2> QED
    BY <2>2, <2>3 DEF Reaches
<1>9. PICK m \in Nat : /\ k <= m /\ Where(lines, n, m)
                       /\ InOrder(queue', Messages(lines, k, m))
                       /\ buffer' = SubSeq(Stream, EndOf(lines, m) + 1, n)
  BY <1>8
<1>10. m \in 0..Len(lines) /\ Messages(lines, k, m) \subseteq 1..Len(lines)
  BY <1>9 DEF Where, Messages
<1>11. queue' \in Seq(1..Len(lines))
  BY <1>8, <1>9, <1>10, InOrderType
<1>12. buffer' \in Seq((1..Len(lines)) \X Kinds \X {1, 2})
  <2>1. n <= EndOf(lines, Len(lines))
    BY <1>2, <1>7
  <2> QED
    BY <1>2, <1>7, <1>9, <2>1, RestOfLine DEF Stream
<1>13. TypeOK'
  <2>1. read' \in 0..Len(Stream)
    BY <1>2, <1>5, <1>7
  <2>2. DataOK'
    BY <2>1, <1>1, <1>3, <1>4, <1>11, <1>12 DEF TypeOK, DataOK, records
  <2>3. ControlOK'
    BY <1>1, <1>3, <1>4 DEF TypeOK, ControlOK, socketVars, Listening
  <2> QED
    BY <2>2, <2>3, TypeHalves
<1>14. Silent' /\ Drained' /\ Speaking' /\ Finished'
  BY <1>1, <1>3, <1>4 DEF Silent, Drained, Speaking, Finished, Early, Announcing, Ending
<1>15. Told'
  BY <1>1, <1>3, <1>4 DEF Told, records, Announcing, Ending
<1>16. Framed'
  <2>1. Known = heard
    BY <1>2, <1>3 DEF Known, Announcing
  <2>2. Known' = heard \o queue'
    BY <1>3, <1>4 DEF Known, records, Announcing
  <2>3. \A l \in Messages(lines, 0, k), i \in Messages(lines, k, m) : l < i
    BY DEF Messages
  <2>4. InOrder(heard \o queue', Messages(lines, 0, k) \cup Messages(lines, k, m))
    BY <1>2, <1>6, <1>8, <1>9, <2>1, <2>3, InOrderConcat
  <2>5. Messages(lines, 0, k) \cup Messages(lines, k, m) = Messages(lines, 0, m)
    BY <1>9 DEF Messages
  <2>6. Where(lines, n, m) /\ buffer' = SubSeq(Stream, EndOf(lines, m) + 1, n)
        /\ InOrder(Known', Messages(lines, 0, m))
    BY <1>9, <2>2, <2>4, <2>5
  <2> QED
    BY <2>6, <1>4, <1>5 DEF Framed
<1> QED
  BY <1>13, <1>14, <1>15, <1>16 DEF Inv

\* The listener's last look at the buffer adds the line that has no newline.
LEMMA FinalKeeps == ASSUME Inv, FinalMessage PROVE Inv'
<1>1. TypeOK /\ Drained /\ Told /\ Silent
  BY DEF Inv
<1>2. /\ lines \in Seq(Kinds) /\ read \in Nat /\ read <= Len(Stream)
      /\ Len(Stream) = EndOf(lines, Len(lines)) /\ heard \in Seq(Nat)
  BY <1>1, TypeFacts
<1>3. pc = "tail" /\ pc' = "last" /\ queue = <<>> /\ buffer' = <<>>
      /\ queue' = Decode(Append(buffer, Newline)).messages
  BY <1>1 DEF FinalMessage, GoTo, Drained
<1>4. UNCHANGED <<lines, socketVars, read, records, main, mine, why>> /\ Stream' = Stream
  BY DEF FinalMessage, Stream
<1>5. PICK k \in Nat : /\ Where(lines, read, k)
                       /\ buffer = SubSeq(Stream, EndOf(lines, k) + 1, read)
                       /\ InOrder(Known, Messages(lines, 0, k))
  BY <1>3 DEF Inv, Framed, Reading
<1>6. /\ buffer \in Seq(Byte) /\ Len(buffer) \in {0, 1, 2}
      /\ \A i \in 1..Len(buffer) : buffer[i] # Newline
      /\ buffer # <<>> => k < Len(lines)
      /\ Message(buffer) = IF Len(buffer) = 2 /\ lines[k + 1] # "junk" THEN <<k + 1>> ELSE <<>>
  <2>1. read <= EndOf(lines, Len(lines))
    BY <1>2
  <2> QED
    BY <1>2, <1>5, <2>1, RestOfLine DEF Stream
<1>7. queue' = Message(buffer)
  BY <1>3, <1>6, DecodeLast
<1>8. Complete(read, FALSE) = Messages(lines, 0, k) \cup
                                  {l \in {k + 1} : Len(buffer) = 2 /\ lines[l] # "junk"}
  BY <1>2, <1>5, CompleteIs
<1>9. Known = heard /\ Known' = heard \o queue'
  BY <1>2, <1>3, <1>4 DEF Known, Announcing, records
<1>10. queue' \in Seq(1..Len(lines)) /\ InOrder(heard \o queue', Complete(read, FALSE))
  <2>1. CASE Len(buffer) = 2 /\ lines[k + 1] # "junk"
    <3>1. queue' = <<k + 1>> /\ Complete(read, FALSE) = Messages(lines, 0, k) \cup {k + 1}
      BY <2>1, <1>6, <1>7, <1>8
    <3>2. buffer # <<>>
      <4>1. buffer = <<>> => Len(buffer) = 0
        OBVIOUS
      <4> QED
        BY <4>1, <2>1
    <3>3. k + 1 \in 1..Len(lines)
      BY <3>2, <1>6, <1>2
    <3>4. \A l \in Messages(lines, 0, k) : l < k + 1
      BY DEF Messages
    <3>5. heard \o <<k + 1>> = Append(heard, k + 1)
      BY <1>2, <3>3
    <3>6. InOrder(heard, Messages(lines, 0, k)) /\ k + 1 \in Nat
      BY <1>5, <1>9
    <3>7. InOrder(Append(heard, k + 1), Messages(lines, 0, k) \cup {k + 1})
      BY <1>2, <3>4, <3>6, InOrderAppend
    <3>8. queue' \in Seq(1..Len(lines))
      <4>1. \A l \in 1..Len(lines) : <<l>> \in Seq(1..Len(lines))
        OBVIOUS
      <4> QED
        BY <3>1, <3>3, <4>1
    <3> QED
      BY <3>1, <3>5, <3>7, <3>8
  <2>2. CASE ~(Len(buffer) = 2 /\ lines[k + 1] # "junk")
    <3>1. queue' = <<>>
      BY <2>2, <1>6, <1>7
    <3>2. Complete(read, FALSE) = Messages(lines, 0, k)
      BY <2>2, <1>8
    <3>3. heard \o <<>> = heard /\ <<>> \in Seq(1..Len(lines))
      BY <1>2
    <3> QED
      BY <3>1, <3>2, <3>3, <1>5, <1>9
  <2> QED
    BY <2>1, <2>2
<1>11. TypeOK'
  <2>1. <<>> \in Seq((1..Len(lines)) \X Kinds \X {1, 2})
    OBVIOUS
  <2>2. DataOK'
    BY <2>1, <1>1, <1>3, <1>4, <1>10, TypeHalves DEF DataOK, records
  <2>3. ControlOK'
    BY <1>1, <1>3, <1>4, TypeHalves DEF ControlOK, socketVars, Listening
  <2> QED
    BY <2>2, <2>3, TypeHalves
<1>12. Silent' /\ Drained' /\ Speaking' /\ Framed'
  BY <1>1, <1>3, <1>4 DEF Silent, Drained, Speaking, Framed, Early, Announcing, Reading, Ending
<1>13. Told'
  BY <1>1, <1>3, <1>4 DEF Told, records, Announcing, Ending
<1>14. Complete(read, FALSE)' = Complete(read, FALSE)
  BY <1>4 DEF Complete, WellFormed
<1>15. Finished'
  BY <1>9, <1>10, <1>14 DEF Finished
<1> QED
  BY <1>11, <1>12, <1>13, <1>15 DEF Inv

\* What is known does not change as it is processed and announced.
LEMMA KnownKept ==
    ASSUME Inv, UNCHANGED <<lines, read, buffer, why>>, Known' = Known,
           \/ {pc, pc'} \subseteq {"process", "announce"}
           \/ {pc, pc'} \subseteq {"last", "lastannounce"}
    PROVE  Framed' /\ Finished'
<1>1. Complete(read, FALSE)' = Complete(read, FALSE)
  BY DEF Complete, WellFormed
<1>2. Stream' = Stream
  BY DEF Stream
<1>3. CASE {pc, pc'} \subseteq {"process", "announce"}
  <2>1. Framed'
    BY <1>2, <1>3 DEF Inv, Framed, Reading
  <2>2. Finished'
    BY <1>3 DEF Finished, Ending
  <2> QED
    BY <2>1, <2>2
<1>4. CASE {pc, pc'} \subseteq {"last", "lastannounce"}
  <2>1. Framed'
    BY <1>4 DEF Framed, Reading
  <2>2. Finished'
    BY <1>1, <1>4 DEF Inv, Finished, Ending
  <2> QED
    BY <2>1, <2>2
<1> QED
  BY <1>3, <1>4

\* Processing the head of the queue, and then its tail, is processing the queue.
LEMMA HeadFirst ==
    ASSUME NEW S, NEW s \in Seq(S), NEW q \in Seq(S), q # <<>>
    PROVE  /\ Head(q) \in S /\ Tail(q) \in Seq(S) /\ <<Head(q)>> \in Seq(S)
           /\ Append(s, Head(q)) \o Tail(q) = s \o q
<1>1. Head(q) \in S /\ Tail(q) \in Seq(S)
  BY HeadTailProperties
<1>2. <<Head(q)>> \in Seq(S)
  BY <1>1
<1>3. Len(q) \in Nat /\ 1 \in 1..Len(q) /\ Len(q) \in 1..Len(q) /\ Head(q) = q[1]
  OBVIOUS
<1>4. SubSeq(q, 1, Len(q)) = <<q[1]>> \o SubSeq(q, 1 + 1, Len(q))
  BY <1>3, SubSeqRecursiveFirst
<1>5. q = <<Head(q)>> \o Tail(q)
  <2>1. SubSeq(q, 1, Len(q)) = q
    BY SubSeqFull
  <2>2. Tail(q) = SubSeq(q, 1 + 1, Len(q))
    <3>1. 1 + 1 = 2
      OBVIOUS
    <3> QED
      BY <3>1, TailIsSubSeq
  <2> QED
    BY <1>3, <1>4, <2>1, <2>2
<1>6. Append(s, Head(q)) = s \o <<Head(q)>>
  BY <1>1, AppendIsConcat
<1>7. (s \o <<Head(q)>>) \o Tail(q) = s \o (<<Head(q)>> \o Tail(q))
  BY <1>1, <1>2, ConcatAssociative
<1> QED
  BY <1>1, <1>2, <1>5, <1>6, <1>7

\* Where the listener takes its messages, where it then announces, and how it
\* goes on: while it listens, and once more at the end.
Rounds == {<<"process", "announce">>, <<"last", "lastannounce">>}

\* Processing one message keeps what is known and stores it in a table there is.
LEMMA ProcessKeeps ==
    ASSUME Inv, NEW at, NEW next, <<at, next>> \in Rounds, Process(at, next)
    PROVE  Inv'
<1> USE DEF GoTo, End, socketVars, inbox, records
<1>1. /\ TypeOK /\ DataOK /\ ControlOK /\ Silent /\ Told
      /\ heard \in Seq(1..Len(lines)) /\ queue \in Seq(1..Len(lines))
  BY TypeHalves DEF Inv, DataOK
<1>2. \/ at = "process" /\ next = "announce"
      \/ at = "last" /\ next = "lastannounce"
  BY DEF Rounds
<1>3. /\ pc = at /\ queue # <<>> /\ main # "setup" /\ Stream' = Stream
      /\ UNCHANGED <<lines, socketVars, read, buffer, main, mine>>
  BY <1>1, <1>2 DEF Process, Silent, Stream
<1>4. CASE lines[Head(queue)] = "scalar"
  <2>1. pc' = "finally" /\ why' = "raised" /\ UNCHANGED <<queue, heard, stored, announced>>
    BY <1>4 DEF Process
  <2>2. Quiet
    BY <1>3, <2>1 DEF Quiet
  <2>3. DataOK' /\ ControlOK'
    BY <1>1, <1>3, <2>1 DEF DataOK, ControlOK, Ending
  <2> QED
    BY <2>2, <2>3, QuietKeeps, TypeHalves DEF Inv
<1>5. CASE lines[Head(queue)] # "scalar"
  <2> DEFINE k == Head(queue)
             urgent == lines[k] = "urgent"
  <2>1. /\ Insert(k) /\ heard' = Append(heard, k)
        /\ pc' = IF urgent THEN next ELSE at
        /\ queue' = IF urgent THEN queue ELSE Tail(queue)
        /\ announced' = announced /\ why' = why
    BY <1>5 DEF Process
  <2>2. /\ k \in 1..Len(lines) /\ Tail(queue) \in Seq(1..Len(lines))
        /\ Append(heard, k) \o Tail(queue) = heard \o queue
    BY <1>1, <1>3, HeadFirst
  <2>3. heard' \in Seq(1..Len(lines)) /\ Len(heard') = Len(heard) + 1 /\ heard'[Len(heard')] = k
        /\ heard' # <<>> /\ \A i \in 1..Len(heard) : heard'[i] = heard[i]
    BY <1>1, <2>1, <2>2, AppendProperties
  <2>4. Insert(k)
    BY <2>1
  <2> HIDE DEF k, urgent
  <2>5. DataOK'
    <3>1. Table(lines[k]) \subseteq {"urgent", "groups", "messages"}
      BY DEF Table
    <3>2. stored' \subseteq {"urgent", "groups", "messages"} \X (1..Len(lines))
      BY <1>1, <2>2, <2>4, <3>1 DEF Insert, DataOK
    <3>3. queue' \in Seq(1..Len(lines))
      BY <1>1, <2>1, <2>2
    <3> QED
      BY <1>1, <1>3, <2>1, <2>3, <3>2, <3>3 DEF DataOK
  <2>6. ControlOK'
    <3>1. FlagsOK'
      BY <1>1, <1>2, <1>3, <2>1, ControlParts DEF FlagsOK
    <3>2. PlacesOK'
      BY <1>1, <1>2, <1>3, <2>1, ControlParts DEF Listening, PlacesOK
    <3> QED
      BY <3>1, <3>2, ControlParts
  <2>7. Known' = Known
    <3>1. Known = heard \o queue
      BY <1>2, <1>3 DEF Known, Announcing
    <3>2. Known' = heard' \o Tail(queue)
      BY <1>2, <2>1 DEF Known, Announcing
    <3> QED
      BY <2>1, <2>2, <3>1, <3>2
  <2>8. Framed' /\ Finished'
    BY <1>2, <1>3, <2>1, <2>7, KnownKept
  <2>9. Silent' /\ Drained'
    BY <1>2, <1>3, <2>1 DEF Silent, Drained, Early, Ending
  <2>10. Speaking'
    <3>1. pc' \in Announcing => queue' = queue
      BY <1>2, <2>1 DEF Announcing
    <3>2. k = Head(queue)
      BY DEF k
    <3>3. queue' = queue => Head(queue') = k /\ queue' # <<>>
      BY <1>3, <3>2
    <3> QED
      BY <2>3, <3>1, <3>3 DEF Speaking
  <2>11. Told'
    <3>1. pc \notin Ending /\ pc' \notin Ending /\ pc \notin Announcing /\ why # "raised"
      BY <1>1, <1>2, <1>3, <2>1 DEF Told, Ending, Announcing
    <3>2. ASSUME NEW i \in 1..Len(heard'), lines[heard'[i]] = "urgent"
          PROVE  heard'[i] \in announced \/ (pc' \in Announcing /\ i = Len(heard'))
      <4>1. CASE i = Len(heard')
        BY <4>1, <3>2, <1>2, <2>1, <2>3 DEF urgent, Announcing
      <4>2. CASE i # Len(heard')
        <5>1. i \in 1..Len(heard)
          BY <4>2, <1>1, <2>3
        <5> QED
          BY <5>1, <3>1, <3>2, <1>1, <2>3 DEF Told
      <4> QED
        BY <4>1, <4>2
    <3> QED
      BY <1>3, <2>1, <3>1, <3>2 DEF Told
  <2> QED
    BY <2>5, <2>6, <2>8, <2>9, <2>10, <2>11, TypeHalves DEF Inv
<1> QED
  BY <1>4, <1>5

\* Announcing the message processed last takes it off the queue.
LEMMA AnnounceKeeps ==
    ASSUME Inv, NEW at, NEW back, <<back, at>> \in Rounds, Announce(at, back)
    PROVE  Inv'
<1> USE DEF GoTo, End, socketVars, inbox, records
<1>1. /\ TypeOK /\ DataOK /\ ControlOK /\ Silent /\ Told /\ Speaking
      /\ heard \in Seq(1..Len(lines)) /\ queue \in Seq(1..Len(lines))
  BY TypeHalves DEF Inv, DataOK
<1>2. \/ at = "announce" /\ back = "process"
      \/ at = "lastannounce" /\ back = "last"
  BY DEF Rounds
<1>3. /\ pc = at /\ pc' = back /\ main # "setup" /\ Stream' = Stream
      /\ announced' = announced \cup {Head(queue)} /\ queue' = Tail(queue)
      /\ UNCHANGED <<lines, socketVars, read, buffer, main, mine, heard, stored, why>>
  BY <1>1, <1>2 DEF Announce, Silent, Stream
<1>4. queue # <<>> /\ heard # <<>> /\ heard[Len(heard)] = Head(queue)
  BY <1>1, <1>2, <1>3 DEF Speaking, Announcing
<1>5. Head(queue) \in 1..Len(lines) /\ Tail(queue) \in Seq(1..Len(lines))
  BY <1>1, <1>4, HeadFirst
<1>6. DataOK' /\ ControlOK'
  <2>1. DataOK'
    BY <1>1, <1>3, <1>5 DEF DataOK
  <2>2. ControlOK'
    <3>1. FlagsOK'
      BY <1>1, <1>2, <1>3, ControlParts DEF FlagsOK
    <3>2. PlacesOK'
      BY <1>1, <1>2, <1>3, ControlParts DEF Listening, PlacesOK
    <3> QED
      BY <3>1, <3>2, ControlParts
  <2> QED
    BY <2>1, <2>2
<1>7. Known' = Known
  BY <1>2, <1>3 DEF Known, Announcing
<1>8. Framed' /\ Finished'
  BY <1>2, <1>3, <1>7, KnownKept
<1>9. Silent' /\ Drained' /\ Speaking'
  BY <1>2, <1>3 DEF Silent, Drained, Speaking, Early, Ending, Announcing
<1>10. Told'
  <2>1. pc' \notin Ending /\ why' # "raised"
    BY <1>1, <1>2, <1>3 DEF Told, Ending
  <2>2. ASSUME NEW i \in 1..Len(heard), lines[heard[i]] = "urgent" PROVE heard[i] \in announced'
    BY <2>1, <2>2, <1>1, <1>3, <1>4 DEF Told
  <2> QED
    BY <1>3, <2>1, <2>2 DEF Told
<1> QED
  BY <1>6, <1>8, <1>9, <1>10, TypeHalves DEF Inv

\* Every step keeps the invariant.
LEMMA NextInv == ASSUME Inv, [Next]_vars PROVE Inv'
<1>1. CASE RecvBytes
  BY <1>1, RecvKeeps
<1>2. CASE FinalMessage
  BY <1>2, FinalKeeps
<1>3. CASE Process("process", "announce") \/ Process("last", "lastannounce")
  BY <1>3, ProcessKeeps DEF Rounds
<1>4. CASE Announce("announce", "process") \/ Announce("lastannounce", "last")
  BY <1>4, AnnounceKeeps DEF Rounds
<1>5. CASE \/ StartListener \/ StartNothing \/ Close \/ TakeSocket \/ ClearSocket \/ Shutdown
           \/ Join \/ TakeOwn \/ ForgetOwn \/ StatusSent \/ SendFails \/ OpenSocket
           \/ Connect \/ Connected \/ Refused \/ MarkConnected \/ AskStatus \/ Look
           \/ Recv \/ WokenByShutdown \/ ServerEnds \/ Processed \/ AllProcessed \/ Disconnect
           \/ DropSocket \/ AnnounceRaises("announce") \/ AnnounceRaises("lastannounce")
           \/ UNCHANGED vars
  BY <1>5, QuietSteps, QuietKeeps DEF Inv
<1> QED
  BY <1>1, <1>2, <1>3, <1>4, <1>5 DEF Next, ListenerStep, Processing

----------------------------------------------------------------------------
(* What holds of every run *)

\* The invariant always holds.
LEMMA AlwaysInv == Spec => []Inv
<1> QED
  BY InitInv, NextInv, PTL DEF Spec

\* Whatever the server sends and however it arrives, the variables keep their
\* types: in particular what is queued and processed are lines of the stream,
\* and what is stored goes into one of the three tables js8_db.py creates.
THEOREM Js8TypesHold == Spec => []TypeOK
<1>1. Inv => TypeOK
  BY DEF Inv
<1> QED
  BY <1>1, AlwaysInv, PTL

\* decode_messages frames exactly: however recv() splits whatever the server
\* sends, what the listener has processed and queued are the well-formed messages
\* of the lines that are complete, each once and in order.
THEOREM FramingHolds == Spec => []FramingIsExact
<1>1. ASSUME Inv PROVE FramingIsExact
  <2>1. TypeOK /\ Framed
    BY <1>1 DEF Inv
  <2>2. ASSUME pc \in {"look", "recv", "parked", "process", "announce"}
        PROVE  InOrder(heard \o (IF pc = "announce" THEN Tail(queue) ELSE queue),
                       Complete(read, TRUE))
    <3>1. PICK k \in Nat : Where(lines, read, k) /\ InOrder(Known, Messages(lines, 0, k))
      BY <2>1, <2>2 DEF Framed, Reading
    <3>2. Complete(read, TRUE) = Messages(lines, 0, k)
      BY <2>1, <3>1, TypeFacts, CompleteIs
    <3>3. Known = heard \o (IF pc = "announce" THEN Tail(queue) ELSE queue)
      BY <2>2 DEF Known, Announcing
    <3> QED
      BY <3>1, <3>2, <3>3
  <2> QED
    BY <2>2 DEF FramingIsExact
<1> QED
  BY <1>1, AlwaysInv, PTL

\* When the server hangs up, at whatever byte, and no exception takes the
\* listener down, it ends only after it has processed every message it received,
\* one without its newline included, and announced every urgent one.
THEOREM NothingLost == Spec => []NothingReadIsLost
<1>1. ASSUME Inv PROVE NothingReadIsLost
  <2>1. ASSUME pc = "ended", why = "ended"
        PROVE  /\ InOrder(heard, Complete(read, FALSE))
               /\ \A i \in 1..Len(heard) : lines[heard[i]] = "urgent" => heard[i] \in announced
    <3>1. queue = <<>> /\ pc \notin Announcing
      BY <1>1, <2>1 DEF Inv, Drained, Ending, Announcing
    <3>2. Known = heard
      BY <1>1, <3>1, TypeFacts, ConcatEmptySeq DEF Known, Inv
    <3>3. InOrder(heard, Complete(read, FALSE))
      BY <1>1, <2>1, <3>2 DEF Inv, Finished, Ending
    <3> QED
      BY <1>1, <2>1, <3>1, <3>3 DEF Inv, Told
  <2> QED
    BY <2>1 DEF NothingReadIsLost
<1> QED
  BY <1>1, AlwaysInv, PTL
=============================================================================
