---------------------------- MODULE ChannelFlow ----------------------------
(***************************************************************************)
(* flows/channel.py: the channel directory.  CHL's numbered read answers   *)
(* from the listing kept in the state, the menu's from the table.          *)
(***************************************************************************)
EXTENDS SessionState

DirectoryAt(n, step) == Stay(n, [command |-> "CHANNEL_DIRECTORY", step |-> step])
DirectoryOnly == UNCHANGED <<storeVars, opened>>

QuickPostChannel(n) == /\ Room("channels") /\ AddChannel
                       /\ Keep(n) /\ UNCHANGED opened

QuickListChannels(n) ==
    /\ IF channels = {} THEN Keep(n)
       ELSE Stay(n, [command |-> "LIST_CHANNELS", channels |-> Ids(channels)])
    /\ DirectoryOnly

ChannelMenu(n, m) ==
    /\ AtStep(n, "CHANNEL_DIRECTORY", 1)
    /\ DirectoryAt(n, CASE m = "v" /\ channels # {} -> 2
                        [] m = "p" -> 3
                        [] OTHER   -> 1)
    /\ DirectoryOnly

\* Any number leads back to the menu, with the channel now at that place if there is one.
ChannelView(n, m) ==
    /\ AtStep(n, "CHANNEL_DIRECTORY", 2)
    /\ IF m \in DOMAIN Numeral THEN DirectoryAt(n, 1) ELSE Raise(n)
    /\ DirectoryOnly

ChannelName(n, m) == /\ AtStep(n, "CHANNEL_DIRECTORY", 3)
                     /\ DirectoryAt(n, 4) /\ DirectoryOnly

ChannelUrl(n, m) == /\ AtStep(n, "CHANNEL_DIRECTORY", 4)
                    /\ Room("channels") /\ AddChannel
                    /\ DirectoryAt(n, 1) \/ FanOutRaises(n)
                    /\ UNCHANGED opened

ReadNumberedChannel(n, m) ==
    /\ At(n, "LIST_CHANNELS")
    /\ IF m \in DOMAIN Numeral /\ NthId(Numeral[m], states[n].channels) # {} THEN End(n) ELSE Keep(n)
    /\ DirectoryOnly

ChannelStep(n, m) ==
    \/ ChannelMenu(n, m) \/ ChannelView(n, m) \/ ChannelName(n, m)
    \/ ChannelUrl(n, m)  \/ ReadNumberedChannel(n, m)
=============================================================================
