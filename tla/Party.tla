-------------------------------- MODULE Party ---------------------------------
(***************************************************************************)
(* Parties of players (newsrc/party.cpp, the party requests of             *)
(* newsrc/game.cpp).  A party is an object that its leader, its members    *)
(* and the players it invites all point to; it lives until it is empty,    *)
(* and its address may then be that of a later one.  Nobody counts         *)
(* references: each request must leave all three in agreement.             *)
(*                                                                         *)
(* Every request is one task of the dispatcher thread.                     *)
(***************************************************************************)
EXTENDS Integers, Sequences, FiniteSets, FiniteSetsExt, Functions

CONSTANTS
  Person,
  PartyId,   \* bound: addresses of parties
  MayRefuse, \* the hooks of Events that may refuse, of "join", "leave" and
             \* "disband": scripts are not part of the repository
  Nobody

ASSUME PartyAssumption ==
  /\ IsFiniteSet(PartyId)
  /\ Nobody \notin Person \cup PartyId

VARIABLES
  online,          \* Game::players
  parties,         \* what is at each address: the leader, the members in
                   \* order, the invited; no leader when nothing is there
  party,           \* Player::party
  invitePartyList  \* Player::invitePartyList

partyVars == <<online, parties, party, invitePartyList>>

NoParty == [leader |-> Nobody, members |-> <<>>, invites |-> {}]

PartyInit ==
  /\ online = {}
  /\ parties = [pt \in PartyId |-> NoParty]
  /\ party = [p \in Person |-> Nobody]
  /\ invitePartyList = [p \in Person |-> {}]

-----------------------------------------------------------------------------
(* What a call does to the three, as functions of a state of them, since   *)
(* a request makes several calls.                                          *)

PartiesNow == [at |-> parties, of |-> party, by |-> invitePartyList]

BecomeParties(s) ==
  /\ parties' = s.at
  /\ party' = s.of
  /\ invitePartyList' = s.by

IsEmpty(pt) == pt.members = <<>> /\ pt.invites = {}

Refused(hook) == hook \in MayRefuse

(* Faulty variant: the invited are not told.                               *)
disbandUntold(s, pt) ==
  LET gone == s.at[pt]
  IN  [at |-> [s.at EXCEPT ![pt] = NoParty],
       of |-> [p \in Person |->
                 IF p = gone.leader \/ p \in Range(gone.members)
                 THEN Nobody ELSE s.of[p]],
       by |-> s.by]

(* disband                                                                 *)
disband(s, pt) ==
  LET gone == s.at[pt]
  IN  [at |-> [s.at EXCEPT ![pt] = NoParty],
       of |-> [p \in Person |->
                 IF p = gone.leader \/ p \in Range(gone.members)
                 THEN Nobody ELSE s.of[p]],
       by |-> [p \in Person |->
                 IF p \in gone.invites THEN s.by[p] \ {pt} ELSE s.by[p]]]

disbandIfEmpty(s, pt) ==
  IF IsEmpty(s.at[pt]) /\ ~Refused("disband") THEN disband(s, pt) ELSE s

(* removeInvite                                                            *)
removeInvite(s, pt, p) ==
  disbandIfEmpty([s EXCEPT !.at[pt].invites = @ \ {p},
                           !.by[p] = @ \ {pt}], pt)

(* clearPartyInvitations: one party after the other.                       *)
clearPartyInvitations(s, p) ==
  FoldSet(LAMBDA pt, t : removeInvite(t, pt, p), s, s.by[p])

(* std::find and erase of a list.                                          *)
Erase(s, p) ==
  IF p \in Range(s)
  THEN LET i == CHOOSE j \in DOMAIN s :
                  s[j] = p /\ \A k \in 1 .. j - 1 : s[k] # p
       IN  SubSeq(s, 1, i - 1) \o SubSeq(s, i + 1, Len(s))
  ELSE s

(* passPartyLeadership: the old leader becomes the first member.           *)
passPartyLeadership(pt, p) ==
  [pt EXCEPT !.leader = p,
             !.members = <<pt.leader>> \o Erase(@, p)]

(* Faulty variant: the leader's place is not taken.                        *)
leavePartyLeaderless(s, p) ==
  LET pt == s.of[p]
      out == [s EXCEPT !.of[p] = Nobody,
                       !.at[pt].members = Erase(@, p)]
  IN  disbandIfEmpty(out, pt)

(* leaveParty: a leader that leaves passes the party on, unless a single   *)
(* member and nobody invited is left.                                      *)
leaveParty(s, p) ==
  LET pt == s.of[p]
      old == s.at[pt]
      missingLeader ==
        /\ old.leader = p
        /\ \/ old.members = <<>>
           \/ Len(old.members) = 1 /\ old.invites = {}
      passed == IF old.leader = p /\ ~missingLeader
                THEN passPartyLeadership(old, Head(old.members)) ELSE old
      out == [s EXCEPT !.of[p] = Nobody,
                       !.at[pt] = [passed EXCEPT !.members = Erase(@, p)]]
  IN  IF missingLeader /\ ~Refused("disband") THEN disband(out, pt)
      ELSE disbandIfEmpty(out, pt)

-----------------------------------------------------------------------------
(* Requests *)

isInviting(p, q) ==
  /\ party[p] # Nobody
  /\ parties[party[p]].leader = p
  /\ q \in parties[party[p]].invites

Leads(p) == party[p] # Nobody /\ parties[party[p]].leader = p

LogIn(p) ==
  /\ p \notin online
  /\ online' = online \cup {p}
  /\ UNCHANGED <<parties, party, invitePartyList>>

(* onRemoveCreature of the player itself.                                  *)
LogOut(p) ==
  LET s == clearPartyInvitations(PartiesNow, p)
  IN  /\ p \in online
      /\ online' = online \ {p}
      /\ BecomeParties(IF s.of[p] = Nobody \/ Refused("leave") THEN s
                       ELSE leaveParty(s, p))

(* Who invites without a party founds one; nothing keeps a player from     *)
(* inviting itself while it has none.                                      *)
playerInviteToParty(p, q) ==
  /\ {p, q} \subseteq online
  /\ ~isInviting(q, p)
  /\ party[q] = Nobody
  /\ \E pt \in PartyId :
       /\ IF party[p] = Nobody THEN parties[pt] = NoParty
          ELSE pt = party[p] /\ parties[pt].leader = p
       /\ BecomeParties([at |-> [parties EXCEPT ![pt].leader = p,
                                         ![pt].invites = @ \cup {q}],
                  of |-> [party EXCEPT ![p] = pt],
                  by |-> [invitePartyList EXCEPT ![q] = @ \cup {pt}]])
  /\ UNCHANGED online

(* Faulty variant: an invitation is as good as membership.                 *)
playerJoinPartyTwice(p, leader) ==
  /\ {p, leader} \subseteq online
  /\ isInviting(leader, p)
  /\ LET pt == party[leader]
     IN  BecomeParties([at |-> [parties EXCEPT ![pt].invites = @ \ {p},
                                        ![pt].members = Append(@, p)],
                 of |-> [party EXCEPT ![p] = pt],
                 by |-> [invitePartyList EXCEPT ![p] = @ \ {pt}]])
  /\ UNCHANGED online

(* A refused request changes nothing.                                      *)
playerJoinParty(p, leader) ==
  /\ {p, leader} \subseteq online
  /\ isInviting(leader, p)
  /\ party[p] = Nobody
  /\ LET pt == party[leader]
     IN  BecomeParties([at |-> [parties EXCEPT ![pt].invites = @ \ {p},
                                        ![pt].members = Append(@, p)],
                 of |-> [party EXCEPT ![p] = pt],
                 by |-> [invitePartyList EXCEPT ![p] = @ \ {pt}]])
  /\ UNCHANGED online

playerRevokePartyInvitation(p, q) ==
  /\ {p, q} \subseteq online
  /\ isInviting(p, q)
  /\ BecomeParties(removeInvite(PartiesNow, party[p], q))
  /\ UNCHANGED online

playerPassPartyLeadership(p, q) ==
  /\ {p, q} \subseteq online
  /\ Leads(p) /\ party[q] = party[p] /\ p # q
  /\ parties' = [parties EXCEPT ![party[p]] = passPartyLeadership(@, q)]
  /\ UNCHANGED <<online, party, invitePartyList>>

(* Refused while in a fight; then nothing happens.                         *)
playerLeaveParty(p) ==
  /\ p \in online
  /\ party[p] # Nobody
  /\ ~Refused("leave")
  /\ BecomeParties(leaveParty(PartiesNow, p))
  /\ UNCHANGED online

PartyNext ==
  \E p, q \in Person :
    \/ LogIn(p) \/ playerLeaveParty(p)
    \/ playerInviteToParty(p, q) \/ playerJoinParty(p, q)
    \/ playerRevokePartyInvitation(p, q) \/ playerPassPartyLeadership(p, q)

-----------------------------------------------------------------------------
(* Properties *)

PartyTypeOK ==
  /\ online \subseteq Person
  /\ parties \in [PartyId -> [leader : Person \cup {Nobody},
                              members : Seq(Person), invites : SUBSET Person]]
  /\ party \in [Person -> PartyId \cup {Nobody}]
  /\ invitePartyList \in [Person -> SUBSET PartyId]

Members(pt) == {parties[pt].leader} \cup Range(parties[pt].members)

(* What a party says of its players and what they say of it agree, so that *)
(* nobody is left pointing to a party that was deleted, or a party to a    *)
(* player who is gone: the members point to it, each is in it once, the    *)
(* invited have its invitation, all of them are online, and it is deleted  *)
(* when only its leader is left (party.cpp, empty).                        *)
PartiesAgree ==
  /\ \A pt \in PartyId :
       IF parties[pt].leader = Nobody
       THEN parties[pt] = NoParty
       ELSE /\ ~IsEmpty(parties[pt])
            /\ IsInjective(<<parties[pt].leader>> \o parties[pt].members)
            /\ parties[pt].invites \cup Members(pt) \subseteq online
  /\ \A p \in Person :
       \A pt \in PartyId :
         /\ party[p] = pt <=> p \in Members(pt)
         /\ pt \in invitePartyList[p] <=> p \in parties[pt].invites
=============================================================================
