--------------------------------- MODULE Chat ---------------------------------
(***************************************************************************)
(* Party and private chat channels (newsrc/chat.cpp, the channel requests  *)
(* of newsrc/game.cpp) over the parties of module Party.  A channel holds  *)
(* pointers to its users and to those it invites.                          *)
(*                                                                         *)
(* leaveParty and disband close the party channel of those who leave with  *)
(* Player::sendClosePrivate, which asks getChannel for the channel of the  *)
(* player's party: the party is unset by then, and nothing is removed.     *)
(***************************************************************************)
EXTENDS Party

CONSTANT PrivateId  \* bound: private channels, numbered upwards from 100

VARIABLES
  partyChannels,   \* the parties with an entry in Chat::partyChannels
  partyUsers,      \* ChatChannel::users of the entry
  privateChannels  \* the owner, users and invited of each private channel

chatVars == <<partyChannels, partyUsers, privateChannels>>
partyChatVars == <<partyVars, chatVars>>

NoChannel == [owner |-> Nobody, users |-> {}, invites |-> {}]

ChatInit ==
  /\ PartyInit
  /\ partyChannels = {}
  /\ partyUsers = [pt \in PartyId |-> {}]
  /\ privateChannels = [c \in PrivateId |-> NoChannel]

Owns(p, c) == privateChannels[c].owner = p

(* getChannel of CHANNEL_PARTY.                                            *)
HasPartyChannel(p) == party[p] \in partyChannels

(* Faulty variant: an invitation outlives the player's session.            *)
ForgottenInvited(p, c) ==
  IF Owns(p, c) THEN NoChannel
  ELSE [privateChannels[c] EXCEPT !.users = @ \ {p}]

(* What removeUserFromAllChannels leaves of a private channel.             *)
Forgotten(p, c) ==
  IF Owns(p, c) THEN NoChannel
  ELSE [privateChannels[c] EXCEPT !.users = @ \ {p}, !.invites = @ \ {p}]

removeUserFromAllChannels(p) ==
  /\ partyUsers' = [pt \in PartyId |-> partyUsers[pt] \ {p}]
  /\ privateChannels' = [c \in PrivateId |-> Forgotten(p, c)]
  /\ UNCHANGED partyChannels

(* Players who leave are forgotten; a client that takes over a player who  *)
(* is online starts without channels (ProtocolGame::connect).              *)
LogOutOfChat(p) == LogOut(p) /\ removeUserFromAllChannels(p)

Reconnect(p) ==
  /\ p \in online
  /\ removeUserFromAllChannels(p)
  /\ UNCHANGED partyVars

(* getChannelList creates the channel of the player's party.               *)
playerRequestChannels(p) ==
  /\ p \in online
  /\ party[p] # Nobody
  /\ partyChannels' = partyChannels \cup {party[p]}
  /\ UNCHANGED <<partyVars, partyUsers, privateChannels>>

OpenPartyChannel(p) ==
  /\ p \in online
  /\ HasPartyChannel(p)
  /\ partyUsers' = [partyUsers EXCEPT ![party[p]] = @ \cup {p}]
  /\ UNCHANGED <<partyVars, partyChannels, privateChannels>>

ClosePartyChannel(p) ==
  /\ p \in online
  /\ HasPartyChannel(p)
  /\ partyUsers' = [partyUsers EXCEPT ![party[p]] = @ \ {p}]
  /\ UNCHANGED <<partyVars, partyChannels, privateChannels>>

(* createChannel takes the first free number, and the owner joins.         *)
playerCreatePrivateChannel(p) ==
  /\ p \in online
  /\ \A c \in PrivateId : ~Owns(p, c)
  /\ \E c \in PrivateId :
       /\ privateChannels[c] = NoChannel
       /\ \A d \in PrivateId : d < c => privateChannels[d] # NoChannel
       /\ privateChannels' =
            [privateChannels EXCEPT ![c].owner = p, ![c].users = {p}]
  /\ UNCHANGED <<partyVars, partyChannels, partyUsers>>

playerChannelInvite(p, q) ==
  /\ {p, q} \subseteq online /\ p # q
  /\ \E c \in PrivateId :
       /\ Owns(p, c)
       /\ privateChannels' = [privateChannels EXCEPT ![c].invites = @ \cup {q}]
  /\ UNCHANGED <<partyVars, partyChannels, partyUsers>>

playerChannelExclude(p, q) ==
  /\ {p, q} \subseteq online /\ p # q
  /\ \E c \in PrivateId :
       /\ Owns(p, c) /\ q \in privateChannels[c].invites
       /\ privateChannels' = [privateChannels EXCEPT ![c].invites = @ \ {q},
                                                     ![c].users = @ \ {q}]
  /\ UNCHANGED <<partyVars, partyChannels, partyUsers>>

isInvited(p, c) == Owns(p, c) \/ p \in privateChannels[c].invites

OpenPrivateChannel(p, c) ==
  /\ p \in online
  /\ isInvited(p, c)
  /\ privateChannels' = [privateChannels EXCEPT ![c].users = @ \cup {p}]
  /\ UNCHANGED <<partyVars, partyChannels, partyUsers>>

(* removeUserFromChannel: with its owner the channel goes.                 *)
ClosePrivateChannel(p, c) ==
  /\ p \in online
  /\ isInvited(p, c) /\ p \in privateChannels[c].users
  /\ privateChannels' =
       [privateChannels EXCEPT
          ![c] = IF Owns(p, c) THEN NoChannel
                 ELSE [privateChannels[c] EXCEPT !.users = @ \ {p}]]
  /\ UNCHANGED <<partyVars, partyChannels, partyUsers>>

PartyChatNext ==
  \/ PartyNext /\ UNCHANGED chatVars
  \/ \E p \in Person : \/ LogOutOfChat(p) \/ Reconnect(p)
                      \/ playerRequestChannels(p)
                      \/ OpenPartyChannel(p) \/ ClosePartyChannel(p)

PrivateChatNext ==
  \E p \in Person :
    \/ LogIn(p) /\ UNCHANGED chatVars
    \/ LogOutOfChat(p) \/ Reconnect(p)
    \/ playerCreatePrivateChannel(p)
    \/ \E q \in Person : playerChannelInvite(p, q)
                         \/ playerChannelExclude(p, q)
    \/ \E c \in PrivateId : OpenPrivateChannel(p, c)
                            \/ ClosePrivateChannel(p, c)

ChatNext == PartyChatNext \/ PrivateChatNext

ChatSpec == ChatInit /\ [][ChatNext]_partyChatVars

-----------------------------------------------------------------------------
(* Properties *)

ChatTypeOK ==
  /\ PartyTypeOK
  /\ partyChannels \subseteq PartyId
  /\ partyUsers \in [PartyId -> SUBSET Person]
  /\ privateChannels \in [PrivateId -> [owner : Person \cup {Nobody},
                                        users : SUBSET Person,
                                        invites : SUBSET Person]]

(* Channels point only to players who are in the game, whatever became of  *)
(* their party in the meantime, and a private channel is heard only by its *)
(* owner, who has no other, and by those invited (removeUserFromAll-       *)
(* Channels, excludePlayer, createChannel).                                *)
ChannelsHoldPlayers ==
  /\ \A pt \in PartyId : partyUsers[pt] \subseteq online
  /\ \A c \in PrivateId :
       LET channel == privateChannels[c]
       IN  IF channel.owner = Nobody THEN channel = NoChannel
           ELSE /\ {channel.owner} \cup channel.invites \subseteq online
                /\ channel.users \subseteq channel.invites \cup {channel.owner}
                /\ \A d \in PrivateId : Owns(channel.owner, d) => d = c

(* A party and its members and invited know each other, and so do channels *)
(* and their users (party.cpp, chat.cpp).                                  *)
ChannelsAreSound == ChatTypeOK /\ PartiesAgree /\ ChannelsHoldPlayers

(* Only the members of a party hear what is said in its channel (party.cpp,*)
(* "Open the party channel to communicate with your companions.").         *)
PartyChannelIsTheParty ==
  \A pt \in PartyId : partyUsers[pt] \subseteq Members(pt)
=============================================================================
