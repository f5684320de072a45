------------------------------ MODULE Replicas ------------------------------
(***************************************************************************)
(* What replication promises of the tables of several servers, without     *)
(* sends, texts under way, threads or faults.  A table changes by the      *)
(* hands of its own nodes and of its own admin, and by what the nodes of   *)
(* a listed peer did on that peer: a mail deleted there, and a record      *)
(* posted there, as the wire leaves it.  That is not always one record:    *)
(* in a long text somebody may have written what a peer reads as another,  *)
(* or as a deletion.  But nothing comes from further away, and nothing     *)
(* arrives that is not in what somebody posted.                            *)
(***************************************************************************)
EXTENDS Wire

CONSTANTS Servers,
          Templates  \* what the nodes may post: [rec, cuts, aired], without an identity

VARIABLES peers,     \* bbs_nodes: who each server lists
          rows,      \* the records each server stores
          minted,    \* unique_ids each server has made
          made,      \* [rec, cuts, aired, by] of every record posted
          gone,      \* <<server, unique_id>> of every mail deleted by its owner
          wiped      \* <<server, record>> of every deletion by an admin

vars == <<peers, rows, minted, made, gone, wiped>>

Init == /\ peers \in [Servers -> SUBSET Servers]
        /\ rows = [s \in Servers |-> {}]
        /\ minted = [s \in Servers |-> 0]
        /\ made = {} /\ gone = {} /\ wiped = {}

NewUid(s) == <<s, minted[s] + 1>>
Mint(s) == minted' = [minted EXCEPT ![s] = @ + 1]

Without(s, kind, uid) == {e \in rows[s] : ~(e.kind = kind /\ Uid(e) = uid)}

\* A node posts a record on its server.
Make(s) == /\ Mint(s) /\ UNCHANGED <<peers, gone, wiped>>
           /\ \E t \in Templates :
                 LET r == [rec |-> Identified(t.rec, NewUid(s)), cuts |-> t.cuts,
                           aired |-> t.aired, by |-> s]
                 IN  /\ made' = made \cup {r}
                     /\ rows' = [rows EXCEPT ![s] = @ \cup {r.rec}]

Remove(s, kind, uid) == rows' = [rows EXCEPT ![s] = Without(s, kind, uid)]

Take(s, e) ==
    CASE e.kind = "DELETE_BULLETIN" -> Remove(s, "BULLETIN", e.uid) /\ UNCHANGED minted
      [] e.kind = "DELETE_MAIL"     -> Remove(s, "MAIL", e.uid) /\ UNCHANGED minted
      [] OTHER -> /\ rows' = [rows EXCEPT ![s] = @ \cup {Stored(e, NewUid(s))}]
                  /\ UNCHANGED minted \/ Mint(s)

\* A server takes in what it reads of a record that was posted on a listed peer.
Learn(s) == /\ UNCHANGED <<peers, made, gone, wiped>>
            /\ \E r \in made : r.by \in peers[s] /\ \E e \in Readings(r) : Take(s, e)

\* The owner of a mail deletes it on its server.
Delete(s) == /\ UNCHANGED <<peers, minted, made, wiped>>
             /\ \E e \in rows[s] : /\ IsMail(e)
                                   /\ gone' = gone \cup {<<s, e.uid>>}
                                   /\ Remove(s, "MAIL", e.uid)

\* A server deletes what was deleted on a listed peer.
Obey(s) == /\ UNCHANGED <<peers, minted, made, gone, wiped>>
           /\ \E g \in gone : g[1] \in peers[s] /\ Remove(s, "MAIL", g[2])

\* The admin of a server deletes a record, with the rows that share its identity
\* or some of them; another row of the same record may stay.
Wipe(s) == /\ UNCHANGED <<peers, minted, made, gone>>
           /\ \E e \in rows[s] :
                 /\ wiped' = wiped \cup {<<s, e>>}
                 /\ \/ UNCHANGED rows
                    \/ \E kept \in SUBSET rows[s] :
                          /\ rows' = [rows EXCEPT ![s] = kept]
                          /\ \A x \in rows[s] \ kept : x.kind = e.kind /\ Uid(x) = Uid(e)

Next == \E s \in Servers : Make(s) \/ Learn(s) \/ Delete(s) \/ Obey(s) \/ Wipe(s)

Spec == Init /\ [][Next]_vars
=============================================================================
