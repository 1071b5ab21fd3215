---------------------------- MODULE ClientCommands ----------------------------
(***************************************************************************)
(* The reliable commands of one client to the server: the ring             *)
(* clientConnection_t.reliableCommands they are added to and sent again    *)
(* from (client_mp), the server's execution of them in order               *)
(* (SV_ClientCommand), and the acknowledgements and keys that come back.   *)
(*                                                                         *)
(* The net channel below loses messages, and hands over the others intact  *)
(* and in order (module SequencedChannel).                                 *)
(***************************************************************************)
EXTENDS Integers, Sequences, FiniteSets

CONSTANTS
  WindowSize,   \* MAX_RELIABLE_COMMANDS (128 in the code)
  Commands,     \* the commands the player's console issues
  NoCommand,    \* the empty string in a slot never written
  Backlog,      \* bound: the client issues no command with more outstanding
  MaxCommands,  \* bound: the greatest number a command gets
  MaxInFlight   \* bound: messages under way in one direction

ASSUME ClientCommandsAssumption ==
  /\ WindowSize \in Nat /\ WindowSize > 1
  /\ NoCommand \notin Commands
  /\ Backlog \in Nat /\ MaxCommands \in Nat /\ MaxInFlight \in Nat

VARIABLES
  \* the client's clientConnection_t
  reliableSequence,
  reliableAcknowledge,
  reliableCommands,
  overflowed,              \* CL_AddReliableCommand raised ERR_DROP
  \* the server's client_t
  lastClientCommand,
  lastClientCommandString,
  lost,                    \* dropped with EXE_LOSTRELIABLECOMMANDS
  \* the two directions of the channel
  toServer,
  toClient,
  \* history
  issued,                  \* the commands added, in order
  executed                 \* the commands executed, in order

clientVars == <<reliableSequence, reliableAcknowledge, reliableCommands,
                overflowed, issued>>
serverVars == <<lastClientCommand, lastClientCommandString, lost, executed>>
vars == <<clientVars, serverVars, toServer, toClient>>

-----------------------------------------------------------------------------

Slots == 0..WindowSize - 1
Slot(n) == n % WindowSize
Texts == Commands \cup {NoCommand}

Init ==
  /\ reliableSequence = 0
  /\ reliableAcknowledge = 0
  /\ reliableCommands = [s \in Slots |-> NoCommand]
  /\ overflowed = FALSE
  /\ lastClientCommand = 0
  /\ lastClientCommandString = NoCommand
  /\ lost = FALSE
  /\ toServer = << >>
  /\ toClient = << >>
  /\ issued = << >>
  /\ executed = << >>

-----------------------------------------------------------------------------
(* The client. *)

\* CL_AddReliableCommand
AddReliableCommand(c) ==
  /\ ~overflowed
  /\ reliableSequence < MaxCommands
  /\ reliableSequence - reliableAcknowledge < Backlog
  /\ IF reliableSequence - reliableAcknowledge > WindowSize
     THEN /\ overflowed' = TRUE
          /\ UNCHANGED <<reliableSequence, reliableCommands, issued>>
     ELSE /\ reliableSequence' = reliableSequence + 1
          /\ reliableCommands' =
               [reliableCommands EXCEPT ![Slot(reliableSequence + 1)] = c]
          /\ issued' = Append(issued, c)
          /\ UNCHANGED overflowed
  /\ UNCHANGED <<reliableAcknowledge, serverVars, toServer, toClient>>

\* A faulty packet that repeats what was acknowledged last instead of the
\* first command that was not.
OneLate ==
  [n \in reliableAcknowledge + 1..reliableSequence |->
     reliableCommands[Slot(n - 1)]]

\* A faulty packet that leaves out the newest command.
AllButNewest ==
  [n \in reliableAcknowledge + 1..reliableSequence - 1 |->
     reliableCommands[Slot(n)]]

\* The commands a packet repeats: all that are not acknowledged.
Outstanding ==
  [n \in reliableAcknowledge + 1..reliableSequence |->
     reliableCommands[Slot(n)]]

\* CL_WritePacket
SendPacket ==
  /\ ~overflowed
  /\ Len(toServer) < MaxInFlight
  /\ toServer' = Append(toServer, Outstanding)
  /\ UNCHANGED <<clientVars, serverVars, toClient>>

\* A faulty window that rejects one acknowledgement too many.
PlausibleNarrow(m) == m.acknowledge >= reliableSequence - WindowSize + 1

\* The acknowledgements the client believes.
Plausible(m) == m.acknowledge >= reliableSequence - WindowSize

\* The key CL_Netchan_Decode uses.
DecodeKey(m) == reliableCommands[Slot(m.acknowledge)]

\* CL_PacketEvent.  A message decoded with the wrong key is noise; when the
\* parser runs past its end the old acknowledgement is restored.
ReceiveMessage ==
  \E i \in 1..Len(toClient) :
    LET m == toClient[i]
    IN  /\ toClient' = SubSeq(toClient, i + 1, Len(toClient))
        /\ \/ /\ Plausible(m)
              /\ reliableAcknowledge' \in {m.acknowledge} \cup
                   (IF DecodeKey(m) = m.key THEN {} ELSE {reliableAcknowledge})
           \/ /\ ~Plausible(m)
              /\ reliableAcknowledge' = reliableSequence
        /\ UNCHANGED <<reliableSequence, reliableCommands, overflowed, issued,
                       serverVars, toServer>>

-----------------------------------------------------------------------------
(* The server. *)

\* SV_ClientCommand ignores what it has executed.
NewCommands(m) == {n \in DOMAIN m : n > lastClientCommand}

\* SV_ProcessClientCommands: the commands of a packet in order, as long as
\* their numbers continue the last one; a gap drops the client.
ReceivePacket ==
  \E i \in 1..Len(toServer) :
    LET m == toServer[i]
        new == NewCommands(m)
        last == lastClientCommand + Cardinality(new)
    IN  /\ toServer' = SubSeq(toServer, i + 1, Len(toServer))
        /\ \/ lost /\ UNCHANGED serverVars
           \/ ~lost /\ new = {} /\ UNCHANGED serverVars
           \/ /\ ~lost
              /\ new # {}
              /\ lastClientCommand + 1 \notin new
              /\ lost' = TRUE
              /\ UNCHANGED <<lastClientCommand, lastClientCommandString,
                             executed>>
           \/ /\ ~lost
              /\ lastClientCommand + 1 \in new
              /\ lastClientCommand' = last
              /\ lastClientCommandString' = m[last]
              /\ executed' = executed \o
                   [j \in 1..Cardinality(new) |-> m[lastClientCommand + j]]
              /\ UNCHANGED lost
        /\ UNCHANGED <<clientVars, toClient>>

\* A faulty header that acknowledges the command executed before.
LateAcknowledgement == IF lastClientCommand > 0 THEN lastClientCommand - 1 ELSE 0

Acknowledgement == lastClientCommand

\* Every message of the server, keyed by SV_Netchan_Encode.
SendMessage ==
  /\ Len(toClient) < MaxInFlight
  /\ toClient' = Append(toClient, [acknowledge |-> Acknowledgement,
                                   key |-> lastClientCommandString])
  /\ UNCHANGED <<clientVars, serverVars, toServer>>

-----------------------------------------------------------------------------

\* The channel loses the oldest message under way.
LosePacket ==
  /\ toServer # << >>
  /\ toServer' = Tail(toServer)
  /\ UNCHANGED <<clientVars, serverVars, toClient>>

LoseMessage ==
  /\ toClient # << >>
  /\ toClient' = Tail(toClient)
  /\ UNCHANGED <<clientVars, serverVars, toServer>>

Next ==
  \/ \E c \in Commands : AddReliableCommand(c)
  \/ SendPacket
  \/ ReceiveMessage
  \/ ReceivePacket
  \/ SendMessage
  \/ LosePacket
  \/ LoseMessage

Spec == Init /\ [][Next]_vars

\* Server and client run their frames; nothing stays under way for ever; and
\* the channel, whose losses do not depend on what a message says, does not
\* lose all that bring news.
Fairness ==
  /\ WF_vars(LosePacket)
  /\ WF_vars(LoseMessage)
  /\ SF_vars(SendPacket)
  /\ SF_vars(SendMessage)
  /\ SF_vars(ReceivePacket /\ lastClientCommand' > lastClientCommand)
  /\ SF_vars(ReceiveMessage /\ reliableAcknowledge' # reliableAcknowledge)

FairSpec == Spec /\ Fairness

-----------------------------------------------------------------------------
(* Properties. *)

\* The values of the ring, the counters and the messages: a packet repeats
\* consecutive commands, and nothing is acknowledged that was not issued.
TypeOK ==
  /\ reliableSequence \in Nat
  /\ reliableAcknowledge \in 0..reliableSequence
  /\ reliableCommands \in [Slots -> Texts]
  /\ overflowed \in BOOLEAN
  /\ lastClientCommand \in 0..reliableSequence
  /\ lastClientCommandString \in Texts
  /\ lost \in BOOLEAN
  /\ toServer \in Seq(UNION {[a + 1..b -> Commands] :
                              a \in 0..reliableSequence, b \in 0..reliableSequence})
  /\ toClient \in Seq([acknowledge : 0..reliableSequence, key : Texts])
  /\ issued \in Seq(Commands)
  /\ executed \in Seq(Commands)

\* The server executes exactly what the player issued, in that order, each
\* command once: whatever was lost and sent again.
ExecutesIssued ==
  /\ Len(executed) = lastClientCommand
  /\ Len(executed) <= Len(issued)
  /\ \A n \in 1..Len(executed) : executed[n] = issued[n]

\* Every message under way whose acknowledgement is less than a full window
\* old can be decoded: the ring still holds the command it was keyed with.
KeysAgree ==
  \A i \in 1..Len(toClient) :
    reliableSequence - toClient[i].acknowledge < WindowSize =>
      DecodeKey(toClient[i]) = toClient[i].key

\* The client discards no command before the server has executed it, and so it
\* is not dropped for lost commands.
KeptUntilExecuted == ~lost /\ reliableAcknowledge <= lastClientCommand

\* What the player issues is executed in the end.
IssuedIsExecuted ==
  \A n \in 1..MaxCommands :
    reliableSequence >= n ~> lastClientCommand >= n

-----------------------------------------------------------------------------
(* Why it works, as long as no more commands are outstanding than the ring   *)
(* has slots: both sides and everything under way agree with the history.    *)

\* What was issued under number n; nothing was under number 0.
Issued(n) == IF n = 0 THEN NoCommand ELSE issued[n]

CountersInv ==
  /\ KeptUntilExecuted
  /\ reliableSequence - reliableAcknowledge <= WindowSize
  /\ reliableSequence = Len(issued)
  /\ ExecutesIssued
  /\ lastClientCommandString = Issued(lastClientCommand)

\* The slots hold the last commands issued.
RingInv ==
  \A n \in 0..reliableSequence :
    reliableSequence - n < WindowSize => reliableCommands[Slot(n)] = Issued(n)

\* A packet starts no later than with the first command not executed.
Repeats(a, b) == [n \in a + 1..b |-> issued[n]]

PacketInv ==
  \A i \in 1..Len(toServer) :
    \E a \in 0..lastClientCommand, b \in 0..reliableSequence :
      toServer[i] = Repeats(a, b)

\* The messages acknowledge more and more, and never too much.
MessageInv ==
  /\ \A i \in 1..Len(toClient) :
       /\ toClient[i].acknowledge \in reliableAcknowledge..lastClientCommand
       /\ toClient[i].key = Issued(toClient[i].acknowledge)
  /\ \A i, j \in 1..Len(toClient) :
       i < j => toClient[i].acknowledge <= toClient[j].acknowledge

\* Client, server and the messages between them agree with what was issued.
ClientInv == TypeOK /\ CountersInv /\ RingInv /\ PacketInv /\ MessageInv

=============================================================================
