--------------------------- MODULE ConnectThrottle ----------------------------
(***************************************************************************)
(* The throttle of connection attempts (Ban::acceptConnection of           *)
(* newsrc/ban.cpp), which the service port asks about every connection it  *)
(* accepts.  An address that connects again within Forget counts up; the   *)
(* attempt that passes Limit starts the count anew and, if it came within  *)
(* Fast, is refused and blocks the address.                                *)
(*                                                                         *)
(* lastAttempt and blockTime are kept as distances from the clock, so that *)
(* the clock itself is not needed; the table is never cleaned.             *)
(***************************************************************************)
EXTENDS Naturals

CONSTANTS
  Ip,
  Limit,    \* attempts that are counted, 5
  Fast,     \* 500 ms, in units of the clock
  Forget,   \* 5000 ms
  Block,    \* 3000 ms
  Extra,    \* 250 ms: each attempt while blocked prolongs it
  MaxBlock  \* bound: no more attempts are made when blocked for longer

(* What the numbers of ban.cpp have in common.                             *)
ASSUME ThrottleAssumption ==
  /\ Limit \in Nat \ {0}
  /\ {Fast, Forget, Block, Extra, MaxBlock} \subseteq Nat
  /\ Fast <= Forget

VARIABLES
  known,       \* the addresses in ipConnectMap
  sinceLast,   \* currentTime - lastAttempt, up to Forget + 1
  blockedFor,  \* blockTime - currentTime, 0 when it has passed
  count,       \* ConnectBlock::count
  burst        \* history: how many attempts in a row were accepted, each
               \* within Fast of the one before

throttleVars == <<known, sinceLast, blockedFor, count, burst>>

ThrottleInit ==
  /\ known = {}
  /\ sinceLast = [ip \in Ip |-> 0]
  /\ blockedFor = [ip \in Ip |-> 0]
  /\ count = [ip \in Ip |-> 0]
  /\ burst = [ip \in Ip |-> 0]

Blocked(ip) == ip \in known /\ blockedFor[ip] > 0

(* The attempt that passes the limit, and the one that is refused for it.  *)
OverLimit(ip) ==
  ip \in known /\ sinceLast[ip] <= Forget /\ count[ip] + 1 > Limit
TooFast(ip) == OverLimit(ip) /\ sinceLast[ip] <= Fast

MayConnect(ip) == ~Blocked(ip) /\ ~TooFast(ip)

(* Faulty variant: only attempts within Fast are counted.                  *)
CountAttemptFast(ip) ==
  count' = [count EXCEPT
              ![ip] = IF ip \in known /\ sinceLast[ip] < Fast /\ ~OverLimit(ip)
                      THEN @ + 1
                      ELSE IF OverLimit(ip) THEN 0 ELSE 1]

CountAttempt(ip) ==
  count' = [count EXCEPT
              ![ip] = IF OverLimit(ip) THEN 0
                      ELSE IF ip \in known /\ sinceLast[ip] <= Forget
                           THEN @ + 1
                      ELSE 1]

(* acceptConnection says yes.                                              *)
AcceptAttempt(ip) ==
  /\ MayConnect(ip)
  /\ known' = known \cup {ip}
  /\ CountAttempt(ip)
  /\ sinceLast' = [sinceLast EXCEPT ![ip] = 0]
  /\ burst' = [burst EXCEPT
                 ![ip] = IF ip \in known /\ sinceLast[ip] <= Fast THEN @ + 1
                         ELSE 1]
  /\ UNCHANGED blockedFor

(* It says no, to an attempt of an address that is blocked already, which  *)
(* leaves the last attempt as it was, or to the one that goes too far.     *)
RefuseAttempt(ip) ==
  /\ \/ /\ Blocked(ip)
        /\ blockedFor[ip] <= MaxBlock
        /\ blockedFor' = [blockedFor EXCEPT ![ip] = @ + Extra]
        /\ UNCHANGED <<sinceLast, count>>
     \/ /\ ~Blocked(ip) /\ TooFast(ip)
        /\ blockedFor' = [blockedFor EXCEPT ![ip] = Block]
        /\ sinceLast' = [sinceLast EXCEPT ![ip] = 0]
        /\ CountAttempt(ip)
  /\ burst' = [burst EXCEPT ![ip] = 0]
  /\ UNCHANGED known

Tick ==
  /\ sinceLast' = [ip \in Ip |-> IF sinceLast[ip] > Forget THEN sinceLast[ip]
                                 ELSE sinceLast[ip] + 1]
  /\ blockedFor' = [ip \in Ip |-> IF blockedFor[ip] > 0 THEN blockedFor[ip] - 1
                                  ELSE 0]
  /\ UNCHANGED <<known, count, burst>>

ThrottleNext ==
  \/ \E ip \in Ip : AcceptAttempt(ip) \/ RefuseAttempt(ip)
  \/ Tick

ThrottleSpec == ThrottleInit /\ [][ThrottleNext]_throttleVars

-----------------------------------------------------------------------------
(* Properties *)

ThrottleTypeOK ==
  /\ known \subseteq Ip
  /\ sinceLast \in [Ip -> Nat]
  /\ blockedFor \in [Ip -> Nat]
  /\ count \in [Ip -> Nat]
  /\ burst \in [Ip -> Nat]

(* No address gets more than Limit + 1 connections in a row with less than *)
(* Fast between them, whatever it did before: slower attempts in between   *)
(* may start the count anew, but not often enough (ban.cpp,                *)
(* acceptConnection).                                                      *)
BurstsAreCut == \A ip \in Ip : burst[ip] <= Limit + 1

(* The count follows the burst, so that neither can get away.              *)
CountFollowsBurst ==
  \A ip \in Ip : count[ip] <= Limit /\ burst[ip] <= count[ip] + 1
=============================================================================
