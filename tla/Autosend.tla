------------------------------- MODULE Autosend -------------------------------
(***************************************************************************)
(* Output buffers (newsrc/outputmessage.cpp, getOutputBuffer of            *)
(* newsrc/protocol.cpp).  What a game client is told is collected in the   *)
(* buffer of its protocol; an event of the scheduler that renews itself    *)
(* sends the buffers of all protocols in bufferedProtocols.                *)
(*                                                                         *)
(* All of it runs on the dispatcher thread.  Adding the first protocol     *)
(* starts a chain of events, which ends when it finds no protocol: a       *)
(* protocol added before that starts another one.                          *)
(***************************************************************************)
EXTENDS Naturals, FiniteSets

CONSTANTS
  Protocol,
  Capacity,   \* MAX_PROTOCOL_BODY_LENGTH, in pieces of equal size
  MaxChains   \* bound: sendAll events that are scheduled

VARIABLES
  session,           \* each protocol "new", "connected" or "released"
  bufferedProtocols, \* OutputMessagePool::bufferedProtocols
  outputBuffer,      \* the length of Protocol::outputBuffer, 0 for no buffer
  chains             \* sendAll events that have yet to run

vars == <<session, bufferedProtocols, outputBuffer, chains>>

Init ==
  /\ session = [p \in Protocol |-> "new"]
  /\ bufferedProtocols = {}
  /\ outputBuffer = [p \in Protocol |-> 0]
  /\ chains = 0

(* Faulty variant: only the very first protocol starts the chain.          *)
addProtocolToAutosendOnce(p) ==
  /\ session[p] = "new"
  /\ chains < MaxChains
  /\ session' = [session EXCEPT ![p] = "connected"]
  /\ chains' = IF \A q \in Protocol : session[q] = "new" THEN chains + 1
               ELSE chains
  /\ bufferedProtocols' = bufferedProtocols \cup {p}
  /\ UNCHANGED outputBuffer

(* ProtocolGame::login and spectate end with this.                         *)
addProtocolToAutosend(p) ==
  /\ session[p] = "new"
  /\ chains < MaxChains
  /\ session' = [session EXCEPT ![p] = "connected"]
  /\ chains' = IF bufferedProtocols = {} THEN chains + 1 ELSE chains
  /\ bufferedProtocols' = bufferedProtocols \cup {p}
  /\ UNCHANGED outputBuffer

(* writeToOutputBuffer: a piece that does not fit replaces the buffer,     *)
(* which is not sent.                                                      *)
getOutputBuffer(p) ==
  /\ session[p] = "connected"
  /\ outputBuffer' = [outputBuffer EXCEPT
                        ![p] = IF @ + 1 <= Capacity THEN @ + 1 ELSE 1]
  /\ UNCHANGED <<session, bufferedProtocols, chains>>

(* Faulty variant: the chain ends when there was nothing to send.          *)
sendAllIfAny ==
  /\ chains > 0
  /\ outputBuffer' = [p \in Protocol |->
                        IF p \in bufferedProtocols THEN 0 ELSE outputBuffer[p]]
  /\ chains' = IF \E p \in bufferedProtocols : outputBuffer[p] > 0
               THEN chains ELSE chains - 1
  /\ UNCHANGED <<session, bufferedProtocols>>

(* sendAll: the buffers are moved into Protocol::send.                     *)
sendAll ==
  /\ chains > 0
  /\ outputBuffer' = [p \in Protocol |->
                        IF p \in bufferedProtocols THEN 0 ELSE outputBuffer[p]]
  /\ chains' = IF bufferedProtocols = {} THEN chains - 1 ELSE chains
  /\ UNCHANGED <<session, bufferedProtocols>>

(* removeProtocolFromAutosend, as the protocol is released.                *)
removeProtocolFromAutosend(p) ==
  /\ session[p] = "connected"
  /\ session' = [session EXCEPT ![p] = "released"]
  /\ bufferedProtocols' = bufferedProtocols \ {p}
  /\ outputBuffer' = [outputBuffer EXCEPT ![p] = 0]
  /\ UNCHANGED chains

Next ==
  \/ \E p \in Protocol : \/ addProtocolToAutosend(p) \/ getOutputBuffer(p)
                         \/ removeProtocolFromAutosend(p)
  \/ sendAll

(* The scheduler runs its events.                                          *)
Fairness == WF_vars(sendAll)

Spec == Init /\ [][Next]_vars /\ Fairness

-----------------------------------------------------------------------------
(* Properties *)

TypeOK ==
  /\ session \in [Protocol -> {"new", "connected", "released"}]
  /\ bufferedProtocols \subseteq Protocol
  /\ outputBuffer \in [Protocol -> 0 .. Capacity]
  /\ chains \in Nat

(* What was written for a client is sent, unless the client goes, however  *)
(* the first and the last protocol come and go between two events (send-   *)
(* All, addProtocolToAutosend).  A full buffer is given up for a new one,  *)
(* which is then sent.                                                     *)
BufferIsSent ==
  \A p \in Protocol :
    outputBuffer[p] > 0 ~> outputBuffer[p] = 0 \/ session[p] = "released"
=============================================================================
