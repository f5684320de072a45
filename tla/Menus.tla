------------------------------- MODULE Menus -------------------------------
(***************************************************************************)
(* The flows that only move the node about and write nothing: the menus    *)
(* of flows/navigation.py, flows/stats.py and flows/js8.py.                *)
(***************************************************************************)
EXTENDS SessionState

NothingWritten == UNCHANGED <<storeVars, opened>>

MainChoice(n, m) ==
    /\ At(n, "MAIN_MENU")
    /\ CASE m = "q" -> Keep(n)
         [] m = "b" -> Goto(n, "bbs")
         [] m = "u" -> Goto(n, "utilities")
         [] OTHER   -> Goto(n, "main")
    /\ NothingWritten

BbsChoice(n, m) ==
    /\ At(n, "MENU") /\ states[n].menu = "bbs"
    /\ CASE m = "m" -> Enter(n, "MAIL")
         [] m = "b" -> Enter(n, "BULLETIN_MENU")
         [] m = "c" -> Enter(n, "CHANNEL_DIRECTORY")
         [] m = "j" -> Enter(n, "JS8CALL_MENU")
         [] OTHER   -> Goto(n, "main")
    /\ NothingWritten

UtilitiesChoice(n, m) ==
    /\ At(n, "MENU") /\ states[n].menu = "utilities"
    /\ CASE m = "s" -> Enter(n, "STATS")
         [] m \in {"f", "w"} -> Keep(n)
         [] OTHER   -> Goto(n, "main")
    /\ NothingWritten

\* Every answer of the stats menu leaves the node at it; "x" is taken before.
StatsChoice(n, m) == At(n, "STATS") /\ Keep(n) /\ NothingWritten

\* Stations and urgent messages are shown at the menu; groups only if any were heard.
Js8Choice(n, m) ==
    /\ At(n, "JS8CALL_MENU")
    /\ IF m = "g" /\ groups THEN Stay(n, [command |-> "GROUP_MESSAGES"]) ELSE Keep(n)
    /\ NothingWritten

\* A group or a mistake: both end at the JS8Call menu.
SelectGroup(n, m) == /\ At(n, "GROUP_MESSAGES")
                     /\ Stay(n, [command |-> "JS8CALL_MENU"])
                     /\ NothingWritten

MenuStep(n, m) ==
    \/ MainChoice(n, m) \/ BbsChoice(n, m) \/ UtilitiesChoice(n, m)
    \/ StatsChoice(n, m) \/ Js8Choice(n, m) \/ SelectGroup(n, m)
=============================================================================
