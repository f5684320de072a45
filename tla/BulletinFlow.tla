---------------------------- MODULE BulletinFlow ----------------------------
(***************************************************************************)
(* flows/bulletin.py: one action per handler.  The board menu, the post    *)
(* permission of the Urgent board, and the CB quick command with its       *)
(* listing kept in the state.                                              *)
(***************************************************************************)
EXTENDS SessionState

CONSTANT LetterToBoard   \* _LETTER_TO_BOARD: the text that picks each board

ASSUME BoardAssumption == LetterToBoard \in [DOMAIN LetterToBoard -> Boards]

StoreUntouched == UNCHANGED <<storeVars, opened>>

BoardMenu(board) == [command |-> "BULLETIN_ACTION", board |-> board]

\* _bulletin_list, or the board's menu again when there is nothing to list.
BulletinList(board) == IF BulletinsOn(board) = {} THEN BoardMenu(board)
                       ELSE [command |-> "BULLETIN_READ", board |-> board]

QuickPostBulletin(n, board) ==
    /\ Keep(n)
    /\ UNCHANGED opened
    /\ IF MayPost(board, n) /\ Named(n)
       THEN Room("bulletins") /\ AddBulletin(board, n)
       ELSE UNCHANGED storeVars

\* quick_check: CB,,{board} lists a board and waits for a number.
QuickCheckBulletins(n, board) ==
    /\ IF BulletinsOn(board) = {} THEN Keep(n)
       ELSE Stay(n, [command |-> "CHECK_BULLETIN", bulletins |-> Ids(BulletinsOn(board))])
    /\ StoreUntouched

----------------------------------------------------------------------------

\* An id the listing held and the table no longer does raises; the node waits on.
ReadNumberedBulletin(n, m) ==
    /\ At(n, "CHECK_BULLETIN")
    /\ LET picked == IF m \in DOMAIN Numeral THEN NthId(Numeral[m], states[n].bulletins) ELSE {}
       IN  IF picked \cap Ids(bulletins) # {} THEN End(n) ELSE Raise(n)
    /\ StoreUntouched

SelectBoard(n, m) ==
    /\ At(n, "BULLETIN_MENU")
    /\ IF m \in DOMAIN LetterToBoard THEN Stay(n, BoardMenu(LetterToBoard[m])) ELSE Goto(n, "main")
    /\ StoreUntouched

\* _read_or_post letting everybody through.
ReadOrPostUngated(n, m) ==
    /\ At(n, "BULLETIN_ACTION")
    /\ LET board == states[n].board
       IN  Stay(n, CASE m = "r" -> BulletinList(board)
                     [] m = "p" -> [command |-> "BULLETIN_POST", board |-> board]
                     [] OTHER   -> BoardMenu(board))
    /\ StoreUntouched

\* The permission is asked here, two messages before the post.
ReadOrPost(n, m) ==
    /\ At(n, "BULLETIN_ACTION")
    /\ LET board == states[n].board
       IN  Stay(n, CASE m = "r" -> BulletinList(board)
                     [] m = "p" /\ MayPost(board, n) -> [command |-> "BULLETIN_POST", board |-> board]
                     [] OTHER -> BoardMenu(board))
    /\ StoreUntouched

\* The number may be the id of any bulletin, whatever the board.
ReadBulletin(n, m) ==
    /\ At(n, "BULLETIN_READ")
    /\ IF m \in DOMAIN Numeral /\ Numeral[m] \in Ids(bulletins)
       THEN Stay(n, BulletinList(states[n].board)) ELSE Raise(n)
    /\ StoreUntouched

\* A subject step that leaves the content to be added by the first line.
TakeSubjectBare(n, m) ==
    /\ At(n, "BULLETIN_POST")
    /\ Stay(n, [command |-> "BULLETIN_POST_CONTENT", board |-> states[n].board])
    /\ StoreUntouched

TakeSubject(n, m) ==
    /\ At(n, "BULLETIN_POST")
    /\ Stay(n, [command |-> "BULLETIN_POST_CONTENT", board |-> states[n].board, content |-> "empty"])
    /\ StoreUntouched

\* The END branch of _take_content, which the idle sweep takes too.
StoreBulletin(n) == Named(n) /\ AddBulletin(states[n].board, n)

FinishBulletin(n) == \/ StoreBulletin(n) /\ Stay(n, [command |-> "BULLETIN_MENU"])
                     \/ ~Named(n) /\ UNCHANGED storeVars /\ End(n)

TakeContent(n, m) ==
    /\ At(n, "BULLETIN_POST_CONTENT")
    /\ IF m # "end" THEN Stay(n, [states[n] EXCEPT !.content = "text"]) /\ UNCHANGED storeVars
       ELSE Room("bulletins") /\ (FinishBulletin(n) \/ (StoreBulletin(n) /\ FanOutRaises(n)))
    /\ UNCHANGED opened

BulletinStep(n, m) ==
    \/ ReadNumberedBulletin(n, m) \/ SelectBoard(n, m) \/ ReadOrPost(n, m)
    \/ ReadBulletin(n, m) \/ TakeSubject(n, m) \/ TakeContent(n, m)
=============================================================================
