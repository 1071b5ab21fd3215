---------------------------- MODULE ServerCommands ----------------------------
(***************************************************************************)
(* The reliable commands of the server to one client: the ring client_t.   *)
(* reliableCommandInfo (server_mp/sv_main_mp.cpp), the messages that carry *)
(* the unacknowledged ones (sv_snapshot_mp.cpp), the ring clientConnection_t.*)
(* serverCommands they are stored in, the acknowledgements that come back  *)
(* and the command that keys them.                                         *)
(*                                                                         *)
(* The net channel below loses messages, and hands over the others intact  *)
(* and in order (module SequencedChannel).                                 *)
(***************************************************************************)
EXTENDS Integers, Sequences, FiniteSets, SequencesExt

CONSTANTS
  WindowSize,   \* MAX_RELIABLE_COMMANDS (128 in the code)
  Commands,     \* the commands the game issues
  Letter,       \* [Commands and DropText -> STRING]: their first character
  FirstToken,   \* [Commands -> Tokens]: its first word after that character
  NoCommand,    \* the empty string in a slot never written
  DropText,     \* the command that tells a client why it is dropped
  IgnorableOf,  \* the commands issued as SV_CMD_CAN_IGNORE
  ReliableOf,   \* the commands issued as SV_CMD_RELIABLE
  Backlog,      \* bound: the game issues no command with more outstanding
  MaxCommands,  \* bound: the greatest number a command gets
  MaxInFlight,  \* bound: messages under way in one direction
  MaxLevels     \* bound: maps the server runs

ASSUME ServerCommandsAssumption ==
  /\ WindowSize \in Nat /\ WindowSize > 1
  /\ Letter \in [Commands \cup {DropText} -> STRING]
  /\ Commands = DOMAIN FirstToken
  /\ IgnorableOf \subseteq Commands
  /\ ReliableOf \subseteq Commands
  /\ DropText \notin Commands
  /\ Backlog \in Nat /\ MaxCommands \in Nat /\ MaxInFlight \in Nat \ {0}
  /\ MaxLevels \in Nat

VARIABLES
  \* the server
  sv_serverId_value,   \* the map it runs
  \* its client_t
  state,               \* header.state: see States
  reliableSequence,
  reliableAcknowledge,
  reliableSent,
  reliableCommandInfo,
  dropReason,          \* SV_DelayDropClient was called
  \* the client's clientConnection_t
  serverCommandSequence,
  serverCommands,
  serverId,            \* clientActive_t: the map of its last gamestate
  \* the client's cgame
  executedSequence,    \* cgs_t.serverCommandSequence
  cycledOut,           \* CL_CGameNeedsServerCommand raised ERR_DROP
  \* the two directions of the channel
  toClient,
  toServer,
  \* history
  log                  \* the entry last given each number

serverVars == <<sv_serverId_value, state, reliableSequence, reliableAcknowledge, reliableSent,
                reliableCommandInfo, dropReason, log>>
clientVars == <<serverCommandSequence, serverCommands, serverId>>
cgameVars == <<executedSequence, cycledOut>>
vars == <<serverVars, clientVars, cgameVars, toClient, toServer>>

-----------------------------------------------------------------------------

Slots == 0..WindowSize - 1
Slot(n) == n % WindowSize

\* CS_CONNECTED, CS_CLIENTLOADING, CS_ACTIVE, CS_ZOMBIE.
States == {"connected", "loading", "active", "zombie"}

Texts == Commands \cup {NoCommand, DropText}
Entry == [cmd : Texts, type : {"ignorable", "reliable"}]
Command(c, t) == [cmd |-> c, type |-> t]

Init ==
  /\ sv_serverId_value = 1
  /\ state = "connected"
  /\ reliableSequence = 0
  /\ reliableAcknowledge = 0
  /\ reliableSent = 0
  /\ reliableCommandInfo = [s \in Slots |-> Command(NoCommand, "ignorable")]
  /\ dropReason = FALSE
  /\ serverCommandSequence = 0
  /\ serverCommands = [s \in Slots |-> NoCommand]
  /\ serverId = 0
  /\ executedSequence = 0
  /\ cycledOut = FALSE
  /\ toClient = << >>
  /\ toServer = << >>
  /\ log = << >>

\* The channel loses what is oldest when more than MaxInFlight are under way.
Send(channel, message) ==
  Append(IF Len(channel) < MaxInFlight THEN channel ELSE Tail(channel), message)

-----------------------------------------------------------------------------
(* The server's ring.  Operators on a ring and its last number, because one  *)
(* call both culls and adds.                                                 *)

\* Commands with these first characters are never replaced, always replaced
\* by one with the same character, or replaced if the next word agrees too.
NeverReplaced == {"x", "y", "z"}
LatestOnly == {"C", "D", "a", "b", "o", "p", "q", "r", "t"}
LatestPerToken == {"d", "v"}

\* c makes the queued command d obsolete (SV_CanReplaceServerCommand).
Supersedes(c, d) ==
  /\ Letter[c] = Letter[d]
  /\ Letter[c] \notin NeverReplaced
  /\ \/ c = d
     \/ Letter[c] \in LatestOnly
     \/ Letter[c] \in LatestPerToken /\ FirstToken[c] = FirstToken[d]

\* A faulty server that looks through the commands already sent as well.
ReplaceableSent(ring, last, c) ==
  {n \in reliableAcknowledge + 1..last :
     /\ ring[Slot(n)].type = "reliable"
     /\ Supersedes(c, ring[Slot(n)].cmd)}

\* The numbers of the queued commands c replaces one of: not sent yet.
Replaceable(ring, last, c) ==
  {n \in reliableSent + 1..last :
     /\ ring[Slot(n)].type = "reliable"
     /\ Supersedes(c, ring[Slot(n)].cmd)}

\* SV_CullIgnorableServerCommands: the unsent entries it keeps, in order.
Kept(ring, last) ==
  LET kept == {n \in reliableSent + 1..last : ring[Slot(n)].type = "reliable"}
      nth(j) == CHOOSE n \in kept : Cardinality(kept \cap 0..n) = j
  IN  [j \in 1..Cardinality(kept) |-> ring[Slot(nth(j))]]

CulledRing(ring, kept) ==
  [s \in Slots |->
     IF \E j \in 1..Len(kept) : s = Slot(reliableSent + j)
     THEN kept[CHOOSE j \in 1..Len(kept) : s = Slot(reliableSent + j)]
     ELSE ring[s]]

\* A faulty shift that skips the replaced entry.
ShiftedPast(ring, n, last) ==
  [s \in Slots |-> IF \E k \in n + 1..last - 1 : s = Slot(k)
                   THEN ring[Slot(s + 1)] ELSE ring[s]]

\* The entries after number n move one number down.
ShiftedRing(ring, n, last) ==
  [s \in Slots |-> IF \E k \in n..last - 1 : s = Slot(k)
                   THEN ring[Slot(s + 1)] ELSE ring[s]]

\* A faulty check that lets one more command pass.
OverflowsLate(seq) == seq - reliableAcknowledge = WindowSize + 2

\* Command number seq overwrites one that is not acknowledged.
Overflows(seq) == seq - reliableAcknowledge = WindowSize + 1

\* The newest entry is the last number's, which is new unless an older entry
\* was replaced; the one that fits no more is replaced by a notice.
Enqueue(ring, entries, last, c, t) ==
  LET old == Replaceable(ring, last, c)
      n == CHOOSE n \in old : \A k \in old : n <= k
      seq == IF old = {} THEN last + 1 ELSE last
      entry == IF Overflows(seq) THEN Command(DropText, "reliable")
                                 ELSE Command(c, t)
  IN  /\ reliableSequence' = seq
      /\ reliableCommandInfo' =
           [(IF old = {} THEN ring ELSE ShiftedRing(ring, n, last))
              EXCEPT ![Slot(seq)] = entry]
      /\ log' = Append(IF old = {} THEN entries ELSE RemoveAt(entries, n),
                       entry)

\* SV_AddServerCommand: with room in the window the command is queued; without
\* it the ignorable ones are culled, and only a reliable one is queued.
HasRoom ==
  /\ reliableSequence - reliableAcknowledge < WindowSize \div 2
  /\ state = "active"

AddCulling(c, t) ==
  LET kept == Kept(reliableCommandInfo, reliableSequence)
      last == reliableSent + Len(kept)
      ring == CulledRing(reliableCommandInfo, kept)
      entries == SubSeq(log, 1, reliableSent) \o kept
  IN  IF t = "reliable"
      THEN Enqueue(ring, entries, last, c, t)
      ELSE /\ reliableSequence' = last
           /\ reliableCommandInfo' = ring
           /\ log' = entries

Add(c, t) ==
  /\ IF HasRoom
     THEN Enqueue(reliableCommandInfo, log, reliableSequence, c, t)
     ELSE AddCulling(c, t)
  /\ dropReason' = (dropReason \/ Overflows(reliableSequence'))

AddServerCommand(c, t) ==
  /\ state # "zombie"
  /\ reliableSequence < MaxCommands
  /\ reliableSequence - reliableAcknowledge < Backlog
  /\ reliableSequence - reliableSent <= WindowSize
  /\ Add(c, t)
  /\ UNCHANGED <<sv_serverId_value, state, reliableAcknowledge, reliableSent,
                 clientVars, cgameVars, toClient, toServer>>

-----------------------------------------------------------------------------
(* Messages of the server. *)

\* Faulty messages that start one command early, or one late.
FromAcknowledged(acknowledged, last) ==
  [n \in acknowledged..last |-> reliableCommandInfo[Slot(n)].cmd]
SkippingFirst(acknowledged, last) ==
  [n \in acknowledged + 2..last |-> reliableCommandInfo[Slot(n)].cmd]

\* The unacknowledged commands up to number last, as a message carries them.
Unacknowledged(acknowledged, last) ==
  [n \in acknowledged + 1..last |-> reliableCommandInfo[Slot(n)].cmd]

\* SV_SendMessageToClient carries out a delayed drop.  SV_DropClient adds the
\* reason to the commands of a client that is in the game, all of which have
\* just been sent.
CarryOutDrop(from) ==
  /\ state' = IF dropReason THEN "zombie" ELSE from
  /\ dropReason' = FALSE
  /\ IF dropReason /\ from = "active"
     THEN LET entry == Command(DropText, "reliable")
          IN  /\ reliableSequence' = reliableSequence + 1
              /\ reliableCommandInfo' =
                   [reliableCommandInfo EXCEPT
                      ![Slot(reliableSequence + 1)] = entry]
              /\ log' = Append(log, entry)
     ELSE UNCHANGED <<reliableSequence, reliableCommandInfo, log>>

\* A message; gameState holds the map and the number a gamestate tells the
\* client to go on from.
SendMessage(commands, gameState, from) ==
  /\ toClient' = Send(toClient,
                      [commands |-> commands, gameState |-> gameState])
  /\ CarryOutDrop(from)

\* SV_SendClientGameState, after acknowledged was acknowledged.
SendGameState(acknowledged) ==
  /\ SendMessage(Unacknowledged(acknowledged, reliableSequence),
                 {[serverId |-> sv_serverId_value,
                   sequence |-> reliableSequence]},
                 "loading")
  /\ reliableSent' = reliableSequence

\* What a client gets while it loads: no commands, and no snapshot either.
SendKeepAlive ==
  /\ state \in {"connected", "loading"}
  /\ SendMessage(<< >>, {}, state)
  /\ UNCHANGED <<sv_serverId_value, reliableAcknowledge, reliableSent,
                 clientVars, cgameVars, toServer>>

\* A snapshot carries the unacknowledged commands: all of them, or, when the
\* message overflowed and was built again, as many as fit.  All are taken for
\* sent.
SendSnapshotUpTo(last) ==
  /\ state \in {"active", "zombie"}
  /\ SendMessage(Unacknowledged(reliableAcknowledge, last), {}, state)
  /\ reliableSent' = reliableSequence
  /\ UNCHANGED <<sv_serverId_value, reliableAcknowledge, clientVars, cgameVars,
                 toServer>>

SendSnapshot == SendSnapshotUpTo(reliableSequence)

SendOverflowedSnapshot ==
  \E last \in reliableAcknowledge..reliableSequence - 1 :
    SendSnapshotUpTo(last)

\* SV_DropClient, from wherever the server calls it at once; a client in the
\* game may be told the reason.
DropClient ==
  /\ state # "zombie"
  /\ reliableSequence - reliableSent <= WindowSize
  /\ state' = "zombie"
  /\ dropReason' = FALSE
  /\ IF state = "active"
     THEN \/ AddCulling(DropText, "reliable")
          \/ UNCHANGED <<reliableSequence, reliableCommandInfo, log>>
     ELSE UNCHANGED <<reliableSequence, reliableCommandInfo, log>>
  /\ UNCHANGED <<sv_serverId_value, reliableAcknowledge, reliableSent,
                 clientVars, cgameVars, toClient, toServer>>

\* SV_SpawnServer: the next map, for which every client starts to load again.
SpawnServer ==
  /\ state # "zombie"
  /\ sv_serverId_value < MaxLevels
  /\ sv_serverId_value' = sv_serverId_value + 1
  /\ state' = "connected"
  /\ UNCHANGED <<reliableSequence, reliableAcknowledge, reliableSent,
                 reliableCommandInfo, dropReason, log, clientVars, cgameVars,
                 toClient, toServer>>

\* A faulty window that is one command too narrow.
WithinNarrowWindow(p) ==
  reliableSequence - p.acknowledge \in 0..WindowSize - 2

\* The acknowledgements the server believes.
WithinWindow(p) == reliableSequence - p.acknowledge \in 0..WindowSize - 1

\* SV_ExecuteClientMessage, of a packet that was decoded with the right key:
\* it shows a loading client ready to play, or one whose last gamestate was of
\* another map to have missed the new one.
ExecuteClientMessage(p) ==
  \/ /\ p.serverId = sv_serverId_value
     /\ state' = IF state = "loading" THEN "active" ELSE state
     /\ UNCHANGED <<reliableSequence, reliableSent, reliableCommandInfo,
                    dropReason, log, toClient>>
  \/ /\ p.serverId # sv_serverId_value
     /\ SendGameState(p.acknowledge)

\* SV_PacketEvent.  What a packet says is not always carried out: it may be
\* garbled, carry no moves, or be older than the gamestate just sent.
ReceivePacket ==
  \E i \in 1..Len(toServer) :
    LET p == toServer[i]
        key == reliableCommandInfo[Slot(p.acknowledge)].cmd
    IN  /\ toServer' = SubSeq(toServer, i + 1, Len(toServer))
        /\ reliableAcknowledge' =
             IF WithinWindow(p) THEN p.acknowledge ELSE reliableSequence
        /\ \/ /\ WithinWindow(p)
              /\ state # "zombie"
              /\ p.key = key
              /\ ExecuteClientMessage(p)
           \/ UNCHANGED <<state, reliableSequence, reliableSent,
                          reliableCommandInfo, dropReason, log, toClient>>
        /\ UNCHANGED <<sv_serverId_value, clientVars, cgameVars>>

-----------------------------------------------------------------------------
(* The client. *)

\* CL_PacketEvent, CL_ParseCommandString: the commands of a message that are
\* newer than the last one stored; CL_ParseGamestate, the number to continue
\* from.
ReceiveMessage ==
  \E i \in 1..Len(toClient) :
    LET m == toClient[i]
        new == {n \in DOMAIN m.commands : n > serverCommandSequence}
    IN  /\ toClient' = SubSeq(toClient, i + 1, Len(toClient))
        /\ serverCommandSequence' =
             IF m.gameState = {} THEN Max(new \cup {serverCommandSequence})
                                 ELSE Max({g.sequence : g \in m.gameState})
        /\ serverId' = Max({serverId} \cup {g.serverId : g \in m.gameState})
        /\ serverCommands' =
             [s \in Slots |-> LET here == {n \in new : Slot(n) = s}
                              IN  IF here = {} THEN serverCommands[s]
                                               ELSE m.commands[Max(here)]]
        /\ UNCHANGED <<serverVars, cgameVars, toServer>>

\* A faulty key: the slot the next command will be stored in.
NextSlotKey == serverCommands[Slot(serverCommandSequence + 1)]

\* CL_Netchan_Encode: the last command stored.
PacketKey == serverCommands[Slot(serverCommandSequence)]

\* CL_WritePacket
SendPacket ==
  /\ toServer' = Send(toServer,
       [serverId |-> serverId,
        acknowledge |-> serverCommandSequence,
        key |-> PacketKey])
  /\ UNCHANGED <<serverVars, clientVars, cgameVars, toClient>>

\* A faulty test that misses the command overwritten last.
LongOverwritten(n) == n < serverCommandSequence - WindowSize

\* Command n was overwritten before the cgame asked for it.
Overwritten(n) == n <= serverCommandSequence - WindowSize

\* CG_ExecuteNewServerCommands, one command; CL_CGameNeedsServerCommand.
ExecuteServerCommand ==
  /\ ~cycledOut
  /\ executedSequence < serverCommandSequence
  /\ executedSequence' = executedSequence + 1
  /\ cycledOut' = Overwritten(executedSequence + 1)
  /\ UNCHANGED <<serverVars, clientVars, toClient, toServer>>

-----------------------------------------------------------------------------

\* The channel loses the oldest message under way.
LoseMessage ==
  /\ toClient # << >>
  /\ toClient' = Tail(toClient)
  /\ UNCHANGED <<serverVars, clientVars, cgameVars, toServer>>

LosePacket ==
  /\ toServer # << >>
  /\ toServer' = Tail(toServer)
  /\ UNCHANGED <<serverVars, clientVars, cgameVars, toClient>>

Next ==
  \/ \E c \in IgnorableOf : AddServerCommand(c, "ignorable")
  \/ \E c \in ReliableOf : AddServerCommand(c, "reliable")
  \/ DropClient
  \/ SpawnServer
  \/ SendKeepAlive
  \/ SendSnapshot
  \/ SendOverflowedSnapshot
  \/ ReceivePacket
  \/ ReceiveMessage
  \/ SendPacket
  \/ ExecuteServerCommand
  \/ LoseMessage
  \/ LosePacket

Spec == Init /\ [][Next]_vars

\* Server and client run their frames; nothing stays under way for ever; and
\* the channel, whose losses do not depend on what a message says, does not
\* lose all that bring news: commands and gamestates to the client, packets
\* that acknowledge commands or make the server send a gamestate or let the
\* client in.
Fairness ==
  /\ WF_vars(LoseMessage)
  /\ WF_vars(LosePacket)
  /\ WF_vars(SendKeepAlive)
  /\ SF_vars(SendSnapshot)
  /\ SF_vars(SendPacket)
  /\ SF_vars(ReceiveMessage /\ clientVars' # clientVars)
  /\ SF_vars(ReceivePacket /\ reliableAcknowledge' # reliableAcknowledge)
  /\ SF_vars(ReceivePacket /\ (state' # state \/ toClient' # toClient))

FairSpec == Spec /\ Fairness

-----------------------------------------------------------------------------
(* Properties. *)

\* A message carries commands that were sent, and may carry a gamestate.
IsMessage(m) ==
  /\ DOMAIN m.commands \subseteq 1..reliableSent
  /\ \A n \in DOMAIN m.commands : m.commands[n] \in Texts
  /\ m.gameState \subseteq [serverId : 1..sv_serverId_value,
                            sequence : 0..reliableSent]

Packet == [serverId : 0..sv_serverId_value, acknowledge : Nat, key : Texts]

\* The values of the rings, the counters and the messages.
TypeOK ==
  /\ sv_serverId_value \in 1..MaxLevels \cup {1}
  /\ state \in States
  /\ reliableSequence \in Nat
  /\ reliableAcknowledge \in Nat
  /\ reliableSent \in Nat
  /\ reliableCommandInfo \in [Slots -> Entry]
  /\ dropReason \in BOOLEAN
  /\ serverCommandSequence \in Nat
  /\ serverCommands \in [Slots -> Texts]
  /\ serverId \in 0..sv_serverId_value
  /\ executedSequence \in Nat
  /\ cycledOut \in BOOLEAN
  /\ toClient \in Seq(Range(toClient))
  /\ \A i \in 1..Len(toClient) : IsMessage(toClient[i])
  /\ toServer \in Seq(Packet)
  /\ log \in Seq(Entry)

\* The ring still holds every command that may have to be sent again, under
\* its number, whatever replacing and culling moved in it.
RingHoldsWindow ==
  /\ Len(log) = reliableSequence
  /\ \A n \in reliableAcknowledge + 1..reliableSequence :
       reliableCommandInfo[Slot(n)] = log[n]

\* A command that was taken for sent is never changed or renumbered.
SentIsFinal ==
  [][/\ reliableSent' >= reliableSent
     /\ \A n \in 1..reliableSent : n \in DOMAIN log' /\ log'[n] = log[n]]_vars

\* Every message under way carries, under each number, the one command that
\* was ever sent under it.
MessagesAgree ==
  \A i \in 1..Len(toClient) : \A n \in DOMAIN toClient[i].commands :
    n <= reliableSent /\ toClient[i].commands[n] = log[n].cmd

\* The server takes no command for acknowledged that the client has not
\* stored: a reliable command is kept until it has arrived, or the client is
\* dropped.
NothingForgotten ==
  state # "zombie" => reliableAcknowledge <= serverCommandSequence

\* A packet the window check lets through is decoded with the command it was
\* encoded with.
KeysAgree ==
  \A i \in 1..Len(toServer) :
    WithinWindow(toServer[i]) =>
      reliableCommandInfo[Slot(toServer[i].acknowledge)].cmd = toServer[i].key

\* The client executes under each number the command that was sent under it.
ExecutesWhatWasSent ==
  [][executedSequence' # executedSequence /\ ~cycledOut' =>
       serverCommands[Slot(executedSequence')] = log[executedSequence'].cmd]_vars

\* Commands are overwritten before they were acknowledged only when the client
\* is being dropped for it.
OverrunIsFatal ==
  reliableSequence - reliableAcknowledge > WindowSize =>
    dropReason \/ state = "zombie"

\* What was sent to a client arrives in the end, across lost gamestates and
\* changes of the map, unless the client is dropped, or the server gave up on
\* commands: it takes all of them for acknowledged when a packet's
\* acknowledgement is outside the window.
SentArrives ==
  \A n \in 1..MaxCommands :
    reliableSent >= n ~> \/ serverCommandSequence >= n
                         \/ state = "zombie"
                         \/ reliableAcknowledge > serverCommandSequence

-----------------------------------------------------------------------------
(* Why it works, as long as the game leaves one slot of the window free:     *)
(* both rings and everything under way agree with the history.               *)

\* A gamestate goes on from a number that nothing before it exceeds.
MessagesOrdered ==
  \A i \in 1..Len(toClient) : \A g \in toClient[i].gameState :
    /\ serverCommandSequence <= g.sequence
    /\ \A j \in 1..i : /\ \A n \in DOMAIN toClient[j].commands : n <= g.sequence
                      /\ \A h \in toClient[j].gameState : h.sequence <= g.sequence

\* The acknowledgements under way are of commands stored, and only grow.
PacketsOrdered ==
  \A i \in 1..Len(toServer) :
    /\ toServer[i].acknowledge <= serverCommandSequence
    /\ \A j \in 1..i : toServer[j].acknowledge <= toServer[i].acknowledge

\* The numbers only grow on their way to the client and back, but for a culling
\* of what was not sent.
NumbersInv ==
  /\ Len(log) = reliableSequence
  /\ reliableSent <= reliableSequence
  /\ serverCommandSequence <= reliableSent
  /\ executedSequence <= serverCommandSequence
  /\ MessagesOrdered
  /\ PacketsOrdered

\* What was queued under number n; nothing was under number 0.
Queued(n) == IF n = 0 THEN Command(NoCommand, "ignorable") ELSE log[n]

\* The ring holds the commands from number low on that are not a window old.
HeldFrom(low) ==
  \A n \in 0..reliableSequence :
    low <= n /\ reliableSequence - n < WindowSize =>
      reliableCommandInfo[Slot(n)] = Queued(n)

\* The server believes what the client told it; or it has given the commands
\* of a dropped client up, to which no new ones come.
RingInv ==
  /\ ~dropReason
  /\ \/ /\ reliableAcknowledge <= serverCommandSequence
        /\ \A i \in 1..Len(toServer) : reliableAcknowledge <= toServer[i].acknowledge
        /\ reliableSequence - reliableAcknowledge <= WindowSize
        /\ state = "zombie" \/ reliableSequence - reliableAcknowledge < WindowSize
        /\ HeldFrom(reliableAcknowledge)
     \/ /\ state = "zombie"
        /\ reliableAcknowledge = reliableSequence
        /\ HeldFrom(0)

\* A message leaves out none of the commands that the client lacks, up to its
\* last; a gamestate goes on from its last.
MessagesInv ==
  \A i \in 1..Len(toClient) :
    /\ \A m \in DOMAIN toClient[i].commands :
         /\ toClient[i].commands[m] = log[m].cmd
         /\ serverCommandSequence + 1..m \subseteq DOMAIN toClient[i].commands
    /\ \A g \in toClient[i].gameState :
         serverCommandSequence + 1..g.sequence \subseteq DOMAIN toClient[i].commands

\* The client stores the last commands sent, and keys its packets with them.
ClientInv ==
  /\ \A n \in 0..serverCommandSequence :
       serverCommandSequence - n < WindowSize =>
         serverCommands[Slot(n)] = Queued(n).cmd
  /\ \A i \in 1..Len(toServer) :
       toServer[i].key = Queued(toServer[i].acknowledge).cmd

\* Server, client and the messages between them agree with what was sent.
ServerInv ==
  TypeOK /\ NumbersInv /\ RingInv /\ MessagesInv /\ ClientInv

=============================================================================
