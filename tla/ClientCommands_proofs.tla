------------------------- MODULE ClientCommands_proofs -------------------------
(***************************************************************************)
(* Proofs about ClientCommands.  That the variables keep their types holds *)
(* for every bound; the rest as long as no more commands are outstanding   *)
(* than the ring has slots, for every size of the ring, set of commands    *)
(* and number of messages under way.                                       *)
(***************************************************************************)
EXTENDS ClientCommands, RingFacts, FiniteSetTheorems, SequenceTheorems

LEMMA RingSize == WindowSize \in Nat \ {0} /\ WindowSize > 1
BY ClientCommandsAssumption

LEMMA SlotFacts ==
  /\ \A n \in Int : Slot(n) \in Slots
  /\ \A m, n \in Int : m < n /\ n - m < WindowSize => Slot(m) # Slot(n)
BY RingSize, SlotInRing, SlotsApart DEF Slot, Slots

\* What is left of a channel when its first messages are gone.
LEMMA Remainder ==
  ASSUME NEW S, NEW s \in Seq(S), NEW i \in 1..Len(s)
  PROVE  /\ SubSeq(s, i + 1, Len(s)) \in Seq(S)
         /\ Len(SubSeq(s, i + 1, Len(s))) = Len(s) - i
         /\ \A j \in 1..Len(s) - i : SubSeq(s, i + 1, Len(s))[j] = s[i + j]
<1>1. Len(s) \in Nat /\ \A j \in 1..Len(s) : s[j] \in S
  BY LenProperties, ElementOfSeq
<1>2. \A j \in i + 1..Len(s) : s[j] \in S
  BY <1>1
<1>3. i + 1 \in Int /\ Len(s) \in Int
  BY <1>1
<1>4. /\ SubSeq(s, i + 1, Len(s)) \in Seq(S)
      /\ Len(SubSeq(s, i + 1, Len(s))) =
           IF i + 1 <= Len(s) THEN Len(s) - (i + 1) + 1 ELSE 0
      /\ \A j \in 1..Len(s) - (i + 1) + 1 :
           SubSeq(s, i + 1, Len(s))[j] = s[(i + 1) + j - 1]
  BY <1>2, <1>3, SubSeqProperties
<1>5. \A j \in 1..Len(s) - i : (i + 1) + j - 1 = i + j
  BY <1>1
<1>. QED BY <1>1, <1>4, <1>5

LEMMA TailIsRemainder ==
  ASSUME NEW S, NEW s \in Seq(S), s # << >>
  PROVE  1 \in 1..Len(s) /\ Tail(s) = SubSeq(s, 1 + 1, Len(s))
<1>1. Len(s) \in Nat \ {0}
  BY EmptySeq, LenProperties
<1>2. 1 + 1 = 2
  OBVIOUS
<1>. QED BY <1>1, <1>2, TailIsSubSeq

LEMMA SeqOfElements ==
  ASSUME NEW S, NEW T, NEW s \in Seq(S), \A i \in 1..Len(s) : s[i] \in T
  PROVE  s \in Seq(T)
<1>1. Len(s) \in Nat /\ s = [i \in 1..Len(s) |-> s[i]]
  BY LenProperties
<1>2. [i \in 1..Len(s) |-> s[i]] \in Seq(T)
  BY <1>1, IsASeq
<1>. QED BY <1>1, <1>2

-----------------------------------------------------------------------------
(* Types.                                                                    *)

\* Packets repeat consecutive commands up to the last one issued.
PacketsUpTo(last) ==
  UNION {[a + 1..b -> Commands] : a \in 0..last, b \in 0..last}

MessagesUpTo(last) == [acknowledge : 0..last, key : Texts]

\* Every slot of a number issued was written.
Written ==
  \A n \in 1..reliableSequence : reliableCommands[Slot(n)] \in Commands

TypeInv == TypeOK /\ Written

LEMMA PacketIn ==
  ASSUME NEW last, NEW a \in 0..last, NEW b \in 0..last,
         NEW p \in [a + 1..b -> Commands]
  PROVE  p \in PacketsUpTo(last)
<1> DEFINE Functions ==
      {[x + 1..y -> Commands] : x \in 0..last, y \in 0..last}
<1>1. [a + 1..b -> Commands] \in Functions
  OBVIOUS
<1> HIDE DEF Functions
<1>2. p \in UNION Functions
  BY <1>1
<1>. QED BY <1>2 DEF PacketsUpTo, Functions

LEMMA TypeFacts ==
  TypeOK <=>
    /\ reliableSequence \in Nat
    /\ reliableAcknowledge \in 0..reliableSequence
    /\ reliableCommands \in [Slots -> Texts]
    /\ overflowed \in BOOLEAN
    /\ lastClientCommand \in 0..reliableSequence
    /\ lastClientCommandString \in Texts
    /\ lost \in BOOLEAN
    /\ toServer \in Seq(PacketsUpTo(reliableSequence))
    /\ toClient \in Seq(MessagesUpTo(reliableSequence))
    /\ issued \in Seq(Commands)
    /\ executed \in Seq(Commands)
BY DEF TypeOK, PacketsUpTo, MessagesUpTo

LEMMA TypeFactsPrime ==
  TypeOK' <=>
    /\ reliableSequence' \in Nat
    /\ reliableAcknowledge' \in 0..reliableSequence'
    /\ reliableCommands' \in [Slots -> Texts]
    /\ overflowed' \in BOOLEAN
    /\ lastClientCommand' \in 0..reliableSequence'
    /\ lastClientCommandString' \in Texts
    /\ lost' \in BOOLEAN
    /\ toServer' \in Seq(PacketsUpTo(reliableSequence'))
    /\ toClient' \in Seq(MessagesUpTo(reliableSequence'))
    /\ issued' \in Seq(Commands)
    /\ executed' \in Seq(Commands)
BY DEF TypeOK, PacketsUpTo, MessagesUpTo

LEMMA InitType == Init => TypeInv
<1> SUFFICES ASSUME Init PROVE TypeInv
  OBVIOUS
<1>1. \A S : << >> \in Seq(S)
  BY EmptySeq
<1>2. toServer \in Seq(PacketsUpTo(reliableSequence))
  BY <1>1 DEF Init
<1>3. toClient \in Seq(MessagesUpTo(reliableSequence))
  BY <1>1 DEF Init
<1>4. issued \in Seq(Commands) /\ executed \in Seq(Commands)
  BY <1>1 DEF Init
<1>5. TypeOK
  <2>1. /\ reliableSequence \in Nat
        /\ reliableAcknowledge \in 0..reliableSequence
        /\ lastClientCommand \in 0..reliableSequence
    BY DEF Init
  <2>2. overflowed \in BOOLEAN /\ lost \in BOOLEAN
    BY DEF Init
  <2>3. reliableCommands \in [Slots -> Texts] /\ lastClientCommandString \in Texts
    BY DEF Init, Texts
  <2>. QED BY <1>2, <1>3, <1>4, <2>1, <2>2, <2>3, TypeFacts
<1>6. Written
  BY DEF Init, Written
<1>. QED BY <1>5, <1>6 DEF TypeInv

LEMMA PacketsGrow ==
  ASSUME NEW m \in Nat, NEW n \in Nat, m <= n
  PROVE  /\ Seq(PacketsUpTo(m)) \subseteq Seq(PacketsUpTo(n))
         /\ Seq(MessagesUpTo(m)) \subseteq Seq(MessagesUpTo(n))
<1>1. PacketsUpTo(m) \subseteq PacketsUpTo(n)
  <2>1. 0..m \subseteq 0..n
    OBVIOUS
  <2>. QED BY <2>1 DEF PacketsUpTo
<1>2. MessagesUpTo(m) \subseteq MessagesUpTo(n)
  BY DEF MessagesUpTo
<1>. QED BY <1>1, <1>2, SeqMonotonic

LEMMA AddType ==
  ASSUME TypeInv, NEW c \in Commands, AddReliableCommand(c)
  PROVE  TypeInv'
<1> USE DEF TypeInv
<1>1. CASE UNCHANGED <<reliableSequence, reliableCommands, issued>>
  <2>1. /\ UNCHANGED <<reliableAcknowledge, serverVars, toServer, toClient>>
        /\ overflowed' \in BOOLEAN
    BY <1>1, TypeFacts DEF AddReliableCommand
  <2>. QED
    BY <1>1, <2>1, TypeFacts, TypeFactsPrime DEF Written, serverVars
<1>2. CASE /\ reliableSequence' = reliableSequence + 1
           /\ reliableCommands' =
                [reliableCommands EXCEPT ![Slot(reliableSequence + 1)] = c]
           /\ issued' = Append(issued, c)
  <2>1. /\ reliableSequence \in Nat
        /\ UNCHANGED <<reliableAcknowledge, serverVars, toServer, toClient>>
        /\ overflowed' \in BOOLEAN
    BY <1>2 DEF AddReliableCommand, TypeOK
  <2>2. /\ Seq(PacketsUpTo(reliableSequence))
             \subseteq Seq(PacketsUpTo(reliableSequence + 1))
        /\ Seq(MessagesUpTo(reliableSequence))
             \subseteq Seq(MessagesUpTo(reliableSequence + 1))
    <3>1. reliableSequence + 1 \in Nat /\ reliableSequence <= reliableSequence + 1
      BY <2>1
    <3>. QED BY <2>1, <3>1, PacketsGrow
  <2>3. toServer' \in Seq(PacketsUpTo(reliableSequence'))
        /\ toClient' \in Seq(MessagesUpTo(reliableSequence'))
    BY <1>2, <2>1, <2>2, TypeFacts
  <2>4. issued' \in Seq(Commands)
    BY <1>2, TypeFacts, AppendProperties
  <2>5. reliableCommands' \in [Slots -> Texts]
    BY <1>2, TypeFacts DEF Texts
  <2>6. TypeOK'
    <3>1. /\ reliableSequence' \in Nat
          /\ reliableAcknowledge' \in 0..reliableSequence'
          /\ lastClientCommand' \in 0..reliableSequence'
          /\ lastClientCommandString' \in Texts
          /\ lost' \in BOOLEAN
          /\ executed' \in Seq(Commands)
      BY <1>2, <2>1 DEF TypeOK, serverVars
    <3>. QED BY <2>1, <2>3, <2>4, <2>5, <3>1, TypeFactsPrime
  <2>7. Written'
    BY <1>2, <2>1, SlotFacts DEF Written, TypeOK
  <2>. QED BY <2>6, <2>7
<1>. QED BY <1>1, <1>2 DEF AddReliableCommand

LEMMA SendPacketType ==
  ASSUME TypeInv, SendPacket
  PROVE  TypeInv'
<1>1. Outstanding \in PacketsUpTo(reliableSequence)
  <2>1. Outstanding \in [reliableAcknowledge + 1..reliableSequence -> Commands]
    BY DEF Outstanding, TypeInv, TypeOK, Written
  <2>2. reliableSequence \in 0..reliableSequence
    BY DEF TypeInv, TypeOK
  <2>3. reliableAcknowledge \in 0..reliableSequence
    BY DEF TypeInv, TypeOK
  <2>. QED BY <2>1, <2>2, <2>3, PacketIn
<1>2. toServer' \in Seq(PacketsUpTo(reliableSequence))
  BY <1>1, TypeFacts, AppendProperties DEF SendPacket, TypeInv
<1>3. UNCHANGED <<clientVars, serverVars, toClient>>
  BY DEF SendPacket
<1>. QED
  BY <1>2, <1>3, TypeFacts, TypeFactsPrime
  DEF TypeInv, Written, clientVars, serverVars

LEMMA ReceiveMessageType ==
  ASSUME TypeInv, ReceiveMessage
  PROVE  TypeInv'
<1>1. PICK i \in 1..Len(toClient) :
        /\ toClient' = SubSeq(toClient, i + 1, Len(toClient))
        /\ reliableAcknowledge' \in
             {toClient[i].acknowledge, reliableAcknowledge, reliableSequence}
        /\ UNCHANGED <<reliableSequence, reliableCommands, overflowed, issued,
                       serverVars, toServer>>
  BY DEF ReceiveMessage
<1>2. toClient \in Seq(MessagesUpTo(reliableSequence))
  BY TypeFacts DEF TypeInv
<1>3. toClient' \in Seq(MessagesUpTo(reliableSequence))
  BY <1>1, <1>2, Remainder
<1>4. toClient[i].acknowledge \in 0..reliableSequence
  <2>1. toClient[i] \in MessagesUpTo(reliableSequence)
    BY <1>2, ElementOfSeq
  <2>. QED BY <2>1 DEF MessagesUpTo
<1>5. reliableSequence \in Nat /\ reliableAcknowledge \in 0..reliableSequence
  BY DEF TypeInv, TypeOK
<1>. QED
  BY <1>1, <1>3, <1>4, <1>5, TypeFacts, TypeFactsPrime
  DEF TypeInv, Written, serverVars

\* The commands of a packet that the server has not executed.
LEMMA NewCommandsOf ==
  ASSUME TypeOK, NEW i \in 1..Len(toServer),
         lastClientCommand + 1 \in NewCommands(toServer[i])
  PROVE  \E a \in 0..lastClientCommand, b \in 0..reliableSequence :
           /\ toServer[i] \in [a + 1..b -> Commands]
           /\ b > lastClientCommand
           /\ NewCommands(toServer[i]) = lastClientCommand + 1..b
           /\ Cardinality(NewCommands(toServer[i])) = b - lastClientCommand
<1>1. toServer[i] \in PacketsUpTo(reliableSequence)
  BY TypeFacts, ElementOfSeq
<1>2. PICK a \in 0..reliableSequence, b \in 0..reliableSequence :
        toServer[i] \in [a + 1..b -> Commands]
  BY <1>1 DEF PacketsUpTo
<1>3. reliableSequence \in Nat /\ lastClientCommand \in 0..reliableSequence
  BY DEF TypeOK
<1>4. a <= lastClientCommand /\ b > lastClientCommand
  BY <1>2, <1>3 DEF NewCommands
<1>5. NewCommands(toServer[i]) = lastClientCommand + 1..b
  BY <1>2, <1>3, <1>4 DEF NewCommands
<1>6. Cardinality(lastClientCommand + 1..b) = b - lastClientCommand
  BY <1>3, <1>4, FS_Interval
<1>. QED BY <1>2, <1>3, <1>4, <1>5, <1>6

LEMMA ReceivePacketType ==
  ASSUME TypeInv, ReceivePacket
  PROVE  TypeInv'
<1> DEFINE new(i) == NewCommands(toServer[i])
<1>1. PICK i \in 1..Len(toServer) :
        /\ toServer' = SubSeq(toServer, i + 1, Len(toServer))
        /\ \/ UNCHANGED <<lastClientCommand, lastClientCommandString, executed>>
              /\ lost' \in {lost, TRUE}
           \/ /\ lastClientCommand + 1 \in new(i)
              /\ lastClientCommand' = lastClientCommand + Cardinality(new(i))
              /\ lastClientCommandString' =
                   toServer[i][lastClientCommand + Cardinality(new(i))]
              /\ executed' = executed \o
                   [j \in 1..Cardinality(new(i)) |->
                      toServer[i][lastClientCommand + j]]
              /\ UNCHANGED lost
        /\ UNCHANGED <<clientVars, toClient>>
  BY DEF ReceivePacket, serverVars
<1>2. toServer' \in Seq(PacketsUpTo(reliableSequence))
  BY <1>1, TypeFacts, Remainder DEF TypeInv
<1>3. lost' \in BOOLEAN
  BY <1>1, TypeFacts DEF TypeInv
<1>4. /\ lastClientCommand' \in 0..reliableSequence
      /\ lastClientCommandString' \in Texts
      /\ executed' \in Seq(Commands)
  <2>1. CASE UNCHANGED <<lastClientCommand, lastClientCommandString, executed>>
    BY <2>1, TypeFacts DEF TypeInv
  <2>2. CASE /\ lastClientCommand + 1 \in new(i)
             /\ lastClientCommand' = lastClientCommand + Cardinality(new(i))
             /\ lastClientCommandString' =
                  toServer[i][lastClientCommand + Cardinality(new(i))]
             /\ executed' = executed \o
                  [j \in 1..Cardinality(new(i)) |->
                     toServer[i][lastClientCommand + j]]
    <3>1. PICK a \in 0..lastClientCommand, b \in 0..reliableSequence :
            /\ toServer[i] \in [a + 1..b -> Commands]
            /\ b > lastClientCommand
            /\ Cardinality(new(i)) = b - lastClientCommand
      BY <2>2, NewCommandsOf DEF TypeInv
    <3>2. reliableSequence \in Nat /\ lastClientCommand \in 0..reliableSequence
      BY TypeFacts DEF TypeInv
    <3>3. lastClientCommand' = b /\ lastClientCommandString' = toServer[i][b]
      BY <2>2, <3>1, <3>2
    <3>4. lastClientCommandString' \in Texts
      BY <3>1, <3>2, <3>3 DEF Texts
    <3>5. \A j \in 1..b - lastClientCommand :
            toServer[i][lastClientCommand + j] \in Commands
      BY <3>1, <3>2
    <3>6. [j \in 1..b - lastClientCommand |->
             toServer[i][lastClientCommand + j]] \in Seq(Commands)
      <4>1. b - lastClientCommand \in Nat
        BY <3>1, <3>2
      <4>. QED BY <3>5, <4>1, IsASeq
    <3>7. executed' \in Seq(Commands)
      BY <2>2, <3>1, <3>6, TypeFacts, ConcatProperties DEF TypeInv
    <3>. QED BY <3>1, <3>3, <3>4, <3>7
  <2>. QED BY <1>1, <2>1, <2>2
<1>. QED
  BY <1>1, <1>2, <1>3, <1>4, TypeFacts, TypeFactsPrime
  DEF TypeInv, Written, clientVars

LEMMA SendMessageType ==
  ASSUME TypeInv, SendMessage
  PROVE  TypeInv'
<1>1. [acknowledge |-> Acknowledgement, key |-> lastClientCommandString]
        \in MessagesUpTo(reliableSequence)
  BY TypeFacts DEF TypeInv, MessagesUpTo, Acknowledgement
<1>2. toClient' \in Seq(MessagesUpTo(reliableSequence))
  BY <1>1, TypeFacts, AppendProperties DEF SendMessage, TypeInv
<1>3. UNCHANGED <<clientVars, serverVars, toServer>>
  BY DEF SendMessage
<1>. QED
  BY <1>2, <1>3, TypeFacts, TypeFactsPrime
  DEF TypeInv, Written, clientVars, serverVars

LEMMA LosePacketType ==
  ASSUME TypeInv, LosePacket
  PROVE  TypeInv'
<1>1. toServer' \in Seq(PacketsUpTo(reliableSequence))
  BY TypeFacts, HeadTailProperties DEF TypeInv, LosePacket
<1>2. UNCHANGED <<clientVars, serverVars, toClient>>
  BY DEF LosePacket
<1>. QED
  BY <1>1, <1>2, TypeFacts, TypeFactsPrime
  DEF TypeInv, Written, clientVars, serverVars

LEMMA LoseMessageType ==
  ASSUME TypeInv, LoseMessage
  PROVE  TypeInv'
<1>1. toClient' \in Seq(MessagesUpTo(reliableSequence))
  BY TypeFacts, HeadTailProperties DEF TypeInv, LoseMessage
<1>2. UNCHANGED <<clientVars, serverVars, toServer>>
  BY DEF LoseMessage
<1>. QED
  BY <1>1, <1>2, TypeFacts, TypeFactsPrime
  DEF TypeInv, Written, clientVars, serverVars

LEMMA StepType == TypeInv /\ [Next]_vars => TypeInv'
<1> SUFFICES ASSUME TypeInv, [Next]_vars PROVE TypeInv'
  OBVIOUS
<1>1. CASE UNCHANGED vars
  BY <1>1, TypeFacts, TypeFactsPrime
  DEF vars, TypeInv, Written, clientVars, serverVars
<1>. QED
  BY <1>1, AddType, SendPacketType, ReceiveMessageType, ReceivePacketType,
     SendMessageType, LosePacketType, LoseMessageType DEF Next

\* The ring, the counters and the messages keep their types, for any number of
\* outstanding commands: nothing is acknowledged that was not issued, and a
\* packet repeats consecutive commands.
THEOREM TypeCorrect == Spec => []TypeOK
<1>1. TypeInv => TypeOK
  BY DEF TypeInv
<1>. QED BY <1>1, InitType, StepType, PTL DEF Spec

-----------------------------------------------------------------------------
(* Agreement with the history.                                               *)

LEMMA InvFacts ==
  ASSUME ClientInv
  PROVE  /\ reliableSequence \in Nat
         /\ reliableAcknowledge \in Nat
         /\ lastClientCommand \in Nat
         /\ reliableAcknowledge <= lastClientCommand
         /\ lastClientCommand <= reliableSequence
         /\ reliableSequence - reliableAcknowledge <= WindowSize
         /\ Len(issued) = reliableSequence
         /\ Len(executed) = lastClientCommand
BY TypeFacts
DEF ClientInv, CountersInv, KeptUntilExecuted, ExecutesIssued

LEMMA InitInv == Init => ClientInv
<1> SUFFICES ASSUME Init PROVE ClientInv
  OBVIOUS
<1>1. TypeOK
  BY InitType DEF TypeInv
<1>2. Len(<< >>) = 0 /\ \A S : << >> \in Seq(S)
  BY EmptySeq
<1>3. CountersInv
  BY <1>2, RingSize
  DEF Init, CountersInv, KeptUntilExecuted, ExecutesIssued, Issued
<1>4. RingInv
  BY SlotFacts DEF Init, RingInv, Issued
<1>5. PacketInv
  BY <1>2 DEF Init, PacketInv
<1>6. MessageInv
  BY <1>2 DEF Init, MessageInv
<1>. QED BY <1>1, <1>3, <1>4, <1>5, <1>6 DEF ClientInv

LEMMA AddInv ==
  ASSUME Backlog <= WindowSize, ClientInv, TypeOK',
         NEW c \in Commands, AddReliableCommand(c)
  PROVE  ClientInv'
<1>a. TypeOK /\ KeptUntilExecuted /\ ExecutesIssued /\ RingInv /\ PacketInv
      /\ MessageInv /\ lastClientCommandString = Issued(lastClientCommand)
  BY DEF ClientInv, CountersInv
<1>b. /\ issued \in Seq(Commands)
      /\ reliableCommands \in [Slots -> Texts]
  BY <1>a, TypeFacts
<1>1. /\ reliableSequence - reliableAcknowledge < WindowSize
      /\ reliableSequence' = reliableSequence + 1
      /\ reliableCommands' =
           [reliableCommands EXCEPT ![Slot(reliableSequence + 1)] = c]
      /\ issued' = Append(issued, c)
      /\ UNCHANGED <<reliableAcknowledge, serverVars, toServer, toClient>>
  BY InvFacts, ClientCommandsAssumption DEF AddReliableCommand
<1>2. /\ Len(issued') = reliableSequence + 1
      /\ \A n \in 1..reliableSequence : issued'[n] = issued[n]
      /\ issued'[reliableSequence + 1] = c
  BY <1>1, <1>b, InvFacts, AppendProperties
<1>3. \A n \in 0..reliableSequence + 1 :
        Issued(n)' = IF n = reliableSequence + 1 THEN c ELSE Issued(n)
  BY <1>2, InvFacts DEF Issued
<1>4. CountersInv'
  <2>1. lastClientCommandString' = Issued(lastClientCommand)'
    <3>1. lastClientCommand \in 0..reliableSequence
      BY InvFacts
    <3>2. lastClientCommand' = lastClientCommand
          /\ lastClientCommandString' = lastClientCommandString
      BY <1>1 DEF serverVars
    <3>. QED BY <1>a, <1>2, <3>1, <3>2, InvFacts DEF Issued
  <2>2. KeptUntilExecuted'
    BY <1>a, <1>1 DEF KeptUntilExecuted, serverVars
  <2>3. ExecutesIssued'
    BY <1>a, <1>1, <1>2, InvFacts DEF ExecutesIssued, serverVars
  <2>4. /\ reliableSequence' - reliableAcknowledge' <= WindowSize
        /\ reliableSequence' = Len(issued')
    BY <1>1, <1>2, RingSize, InvFacts
  <2>. QED BY <2>1, <2>2, <2>3, <2>4 DEF CountersInv
<1>5. RingInv'
  <2> SUFFICES ASSUME NEW n \in 0..reliableSequence',
                      reliableSequence' - n < WindowSize
               PROVE  reliableCommands'[Slot(n)] = Issued(n)'
    BY DEF RingInv
  <2>0. /\ n \in 0..reliableSequence + 1 /\ reliableSequence + 1 - n < WindowSize
        /\ n \in Int /\ reliableSequence + 1 \in Int /\ reliableSequence \in Nat
    BY <1>1, InvFacts
  <2>1. CASE n = reliableSequence + 1
    <3>1. reliableCommands'[Slot(n)] = c
      BY <1>b, <1>1, <2>0, <2>1, SlotFacts
    <3>. QED BY <1>3, <2>0, <2>1, <3>1
  <2>2. CASE n # reliableSequence + 1
    <3>1. n \in 0..reliableSequence /\ reliableSequence - n < WindowSize
          /\ n < reliableSequence + 1
      BY <2>0, <2>2, RingSize
    <3>2. Slot(n) # Slot(reliableSequence + 1)
      BY <2>0, <3>1, SlotFacts
    <3>3. reliableCommands'[Slot(n)] = reliableCommands[Slot(n)]
      BY <1>b, <1>1, <2>0, <3>2, SlotFacts
    <3>. QED BY <1>a, <1>3, <2>0, <2>2, <3>1, <3>3 DEF RingInv
  <2>. QED BY <2>1, <2>2
<1>6. PacketInv'
  <2> SUFFICES ASSUME NEW i \in 1..Len(toServer)
               PROVE  \E a \in 0..lastClientCommand, b \in 0..reliableSequence + 1 :
                        toServer[i] = [n \in a + 1..b |-> issued'[n]]
    BY <1>1 DEF PacketInv, Repeats, serverVars
  <2>1. PICK a \in 0..lastClientCommand, b \in 0..reliableSequence :
          toServer[i] = [n \in a + 1..b |-> issued[n]]
    BY <1>a DEF PacketInv, Repeats
  <2>2. toServer[i] = [n \in a + 1..b |-> issued'[n]]
    BY <1>2, <2>1, InvFacts
  <2>3. b \in 0..reliableSequence + 1
    BY InvFacts
  <2>. QED BY <2>2, <2>3
<1>7. MessageInv'
  <2>1. \A i \in 1..Len(toClient) : toClient[i].acknowledge \in 0..reliableSequence
    BY <1>a, InvFacts DEF MessageInv
  <2>2. \A i \in 1..Len(toClient) :
          toClient[i].key = IF toClient[i].acknowledge = 0 THEN NoCommand
                            ELSE issued'[toClient[i].acknowledge]
    BY <1>a, <1>2, <2>1, InvFacts DEF MessageInv, Issued
  <2>3. UNCHANGED <<reliableAcknowledge, lastClientCommand, toClient>>
    BY <1>1 DEF serverVars
  <2>. QED BY <1>a, <2>2, <2>3 DEF MessageInv, Issued
<1>. QED BY <1>4, <1>5, <1>6, <1>7 DEF ClientInv

LEMMA SendPacketInv ==
  ASSUME ClientInv, TypeOK', SendPacket
  PROVE  ClientInv'
<1>1. /\ toServer' = Append(toServer, Outstanding)
      /\ UNCHANGED <<clientVars, serverVars, toClient>>
  BY DEF SendPacket
<1>2. CountersInv' /\ RingInv' /\ MessageInv'
  BY <1>1
  DEF ClientInv, CountersInv, KeptUntilExecuted, ExecutesIssued, RingInv,
      MessageInv, Issued, clientVars, serverVars
<1>3. Outstanding = Repeats(reliableAcknowledge, reliableSequence)
  <2>1. RingInv
    BY DEF ClientInv
  <2>2. ASSUME NEW n \in reliableAcknowledge + 1..reliableSequence
        PROVE  reliableCommands[Slot(n)] = issued[n]
    <3>1. n \in 1..reliableSequence /\ reliableSequence - n < WindowSize
      BY InvFacts, RingSize
    <3>. QED BY <2>1, <3>1 DEF RingInv, Issued
  <2>. QED BY <2>2 DEF Outstanding, Repeats
<1>4. PacketInv'
  <2> SUFFICES ASSUME NEW i \in 1..Len(toServer) + 1
               PROVE  \E a \in 0..lastClientCommand, b \in 0..reliableSequence :
                        toServer'[i] = Repeats(a, b)
    <3>1. Len(toServer') = Len(toServer) + 1
      BY <1>1, TypeFacts, AppendProperties DEF ClientInv
    <3>2. UNCHANGED <<lastClientCommand, reliableSequence, issued>>
      BY <1>1 DEF clientVars, serverVars
    <3>3. \A a, b : Repeats(a, b)' = Repeats(a, b)
      BY <3>2 DEF Repeats
    <3>. QED BY <3>1, <3>2, <3>3 DEF PacketInv
  <2>1. CASE i \in 1..Len(toServer)
    <3>1. toServer'[i] = toServer[i]
      BY <1>1, <2>1, TypeFacts, AppendProperties DEF ClientInv
    <3>. QED BY <2>1, <3>1 DEF ClientInv, PacketInv
  <2>2. CASE i = Len(toServer) + 1
    <3>1. toServer'[i] = Repeats(reliableAcknowledge, reliableSequence)
      BY <1>1, <1>3, <2>2, TypeFacts, AppendProperties DEF ClientInv
    <3>2. reliableAcknowledge \in 0..lastClientCommand
          /\ reliableSequence \in 0..reliableSequence
      BY InvFacts
    <3>. QED BY <3>1, <3>2
  <2>3. Len(toServer) \in Nat
    BY TypeFacts, LenProperties DEF ClientInv
  <2>. QED BY <2>1, <2>2, <2>3
<1>. QED BY <1>2, <1>4 DEF ClientInv

LEMMA ReceiveMessageInv ==
  ASSUME ClientInv, TypeOK', ReceiveMessage
  PROVE  ClientInv'
<1>a. MessageInv /\ PacketInv /\ RingInv
  BY DEF ClientInv
<1>1. PICK i \in 1..Len(toClient) :
        /\ toClient' = SubSeq(toClient, i + 1, Len(toClient))
        /\ \/ /\ Plausible(toClient[i])
              /\ reliableAcknowledge' \in
                   {toClient[i].acknowledge, reliableAcknowledge}
           \/ ~Plausible(toClient[i])
        /\ UNCHANGED <<reliableSequence, reliableCommands, overflowed, issued,
                       serverVars, toServer>>
  BY DEF ReceiveMessage
<1>2. toClient[i].acknowledge \in reliableAcknowledge..lastClientCommand
  BY <1>a DEF MessageInv
<1>3. Plausible(toClient[i])
  BY <1>2, InvFacts, RingSize DEF Plausible
<1>4. reliableAcknowledge' \in reliableAcknowledge..toClient[i].acknowledge
      /\ reliableAcknowledge' \in Nat
  BY <1>1, <1>2, <1>3, InvFacts
<1>5. CountersInv'
  <2>1. KeptUntilExecuted'
    BY <1>1, <1>2, <1>4, InvFacts DEF ClientInv, CountersInv, KeptUntilExecuted, serverVars
  <2>2. ExecutesIssued' /\ reliableSequence' = Len(issued')
        /\ lastClientCommandString' = Issued(lastClientCommand)'
    BY <1>1 DEF ClientInv, CountersInv, ExecutesIssued, Issued, serverVars
  <2>3. reliableSequence' - reliableAcknowledge' <= WindowSize
    BY <1>1, <1>2, <1>4, InvFacts, RingSize
  <2>. QED BY <2>1, <2>2, <2>3 DEF CountersInv
<1>6. RingInv' /\ PacketInv'
  <2>1. UNCHANGED <<lastClientCommand, reliableSequence, reliableCommands,
                    toServer, issued>>
    BY <1>1 DEF serverVars
  <2>2. RingInv'
    BY <1>a, <2>1 DEF RingInv, Issued
  <2>3. \A x, y : Repeats(x, y)' = Repeats(x, y)
    BY <2>1 DEF Repeats
  <2>4. PacketInv'
    BY <1>a, <2>1, <2>3 DEF PacketInv
  <2>. QED BY <2>2, <2>4
<1>7. MessageInv'
  <2>1. /\ Len(toClient) \in Nat
        /\ Len(toClient') = Len(toClient) - i
        /\ \A j \in 1..Len(toClient) - i : toClient'[j] = toClient[i + j]
    BY <1>1, TypeFacts, Remainder, LenProperties DEF ClientInv
  <2>2. \A j \in 1..Len(toClient') :
          i + j \in 1..Len(toClient) /\ i < i + j /\ toClient'[j] = toClient[i + j]
    BY <2>1
  <2>3. \A j \in 1..Len(toClient') :
          /\ toClient'[j].acknowledge \in reliableAcknowledge..lastClientCommand
          /\ toClient'[j].key = Issued(toClient'[j].acknowledge)
          /\ toClient[i].acknowledge <= toClient'[j].acknowledge
    BY <1>a, <2>2 DEF MessageInv
  <2>4. \A j \in 1..Len(toClient') :
          toClient'[j].acknowledge \in reliableAcknowledge'..lastClientCommand
    BY <1>2, <1>4, <2>3, InvFacts
  <2>5. \A j, k \in 1..Len(toClient') :
          j < k => toClient'[j].acknowledge <= toClient'[k].acknowledge
    <3>1. \A j, k \in 1..Len(toClient') : j < k => i + j < i + k
      BY <2>1
    <3>. QED BY <1>a, <2>2, <3>1 DEF MessageInv
  <2>6. UNCHANGED <<issued, lastClientCommand>>
    BY <1>1 DEF serverVars
  <2>. QED BY <2>3, <2>4, <2>5, <2>6 DEF MessageInv, Issued
<1>. QED BY <1>5, <1>6, <1>7 DEF ClientInv

LEMMA ReceivePacketInv ==
  ASSUME ClientInv, TypeOK', ReceivePacket
  PROVE  ClientInv'
<1>a. /\ TypeOK /\ MessageInv /\ PacketInv /\ RingInv /\ ~lost
      /\ ExecutesIssued /\ lastClientCommandString = Issued(lastClientCommand)
  BY DEF ClientInv, CountersInv, KeptUntilExecuted
<1> DEFINE new(i) == NewCommands(toServer[i])
<1>1. PICK i \in 1..Len(toServer) :
        /\ toServer' = SubSeq(toServer, i + 1, Len(toServer))
        /\ \/ UNCHANGED serverVars
           \/ /\ new(i) # {}
              /\ lastClientCommand + 1 \notin new(i)
           \/ /\ lastClientCommand + 1 \in new(i)
              /\ lastClientCommand' = lastClientCommand + Cardinality(new(i))
              /\ lastClientCommandString' =
                   toServer[i][lastClientCommand + Cardinality(new(i))]
              /\ executed' = executed \o
                   [j \in 1..Cardinality(new(i)) |->
                      toServer[i][lastClientCommand + j]]
              /\ UNCHANGED lost
        /\ UNCHANGED <<clientVars, toClient>>
  BY DEF ReceivePacket
<1>2. PICK a \in 0..lastClientCommand, b \in 0..reliableSequence :
        toServer[i] = Repeats(a, b)
  BY <1>a DEF PacketInv
<1>3. ~ (new(i) # {} /\ lastClientCommand + 1 \notin new(i))
  BY <1>2, InvFacts DEF NewCommands, Repeats
<1>4. /\ lastClientCommand' \in Nat
      /\ lastClientCommand <= lastClientCommand'
      /\ lastClientCommand' <= reliableSequence
      /\ lastClientCommandString' = Issued(lastClientCommand)'
      /\ ~lost'
      /\ ExecutesIssued'
  <2>1. CASE UNCHANGED serverVars
    BY <1>a, <1>1, <2>1, InvFacts
    DEF serverVars, clientVars, Issued, ExecutesIssued
  <2>2. CASE /\ lastClientCommand + 1 \in new(i)
             /\ lastClientCommand' = lastClientCommand + Cardinality(new(i))
             /\ lastClientCommandString' =
                  toServer[i][lastClientCommand + Cardinality(new(i))]
             /\ executed' = executed \o
                  [j \in 1..Cardinality(new(i)) |->
                     toServer[i][lastClientCommand + j]]
             /\ UNCHANGED lost
    <3>1. b > lastClientCommand /\ new(i) = lastClientCommand + 1..b
      BY <1>2, <2>2, InvFacts DEF NewCommands, Repeats
    <3>2. Cardinality(new(i)) = b - lastClientCommand
      BY <3>1, FS_Interval, InvFacts
    <3>3. lastClientCommand' = b /\ b \in 1..reliableSequence
      BY <2>2, <3>1, <3>2, InvFacts
    <3>4. \A n \in lastClientCommand + 1..b : toServer[i][n] = issued[n]
      BY <1>2, InvFacts DEF Repeats
    <3>5. lastClientCommandString' = issued[b]
      BY <2>2, <3>1, <3>2, <3>4, InvFacts
    <3> DEFINE more == [j \in 1..b - lastClientCommand |->
                          toServer[i][lastClientCommand + j]]
    <3>6. /\ more \in Seq(Commands)
          /\ Len(more) = b - lastClientCommand
          /\ \A j \in 1..b - lastClientCommand :
               more[j] = issued[lastClientCommand + j]
      <4>1. b - lastClientCommand \in Nat
        BY <3>1, InvFacts
      <4>2. \A j \in 1..b - lastClientCommand :
              lastClientCommand + j \in lastClientCommand + 1..b
        BY <3>1, InvFacts
      <4>3. \A j \in 1..b - lastClientCommand :
              /\ toServer[i][lastClientCommand + j] = issued[lastClientCommand + j]
              /\ issued[lastClientCommand + j] \in Commands
        <5>1. issued \in Seq(Commands) /\ Len(issued) = reliableSequence
          BY <1>a, TypeFacts, InvFacts
        <5>. QED BY <3>3, <3>4, <4>2, <5>1, ElementOfSeq, InvFacts
      <4>. QED BY <4>1, <4>3, IsASeq
    <3>7. executed' = executed \o more
      BY <2>2, <3>2
    <3> HIDE DEF more
    <3>8. /\ Len(executed') = b
          /\ \A n \in 1..lastClientCommand : executed'[n] = executed[n]
          /\ \A n \in lastClientCommand + 1..b :
               executed'[n] = more[n - lastClientCommand]
      <4>1. executed \in Seq(Commands) /\ Len(executed) = lastClientCommand
        BY <1>a, TypeFacts, InvFacts
      <4>2. /\ Len(executed') = lastClientCommand + (b - lastClientCommand)
            /\ \A n \in 1..lastClientCommand + (b - lastClientCommand) :
                 executed'[n] = IF n <= lastClientCommand THEN executed[n]
                                ELSE more[n - lastClientCommand]
        BY <3>6, <3>7, <4>1, ConcatProperties
      <4>3. lastClientCommand + (b - lastClientCommand) = b
        BY InvFacts
      <4>. QED BY <3>1, <4>2, <4>3, InvFacts
    <3>9. \A n \in 1..b : executed'[n] = issued[n]
      <4>1. ASSUME NEW n \in 1..lastClientCommand PROVE executed'[n] = issued[n]
        BY <1>a, <3>8, InvFacts DEF ExecutesIssued
      <4>2. ASSUME NEW n \in lastClientCommand + 1..b
            PROVE  executed'[n] = issued[n]
        <5>1. /\ n - lastClientCommand \in 1..b - lastClientCommand
              /\ lastClientCommand + (n - lastClientCommand) = n
          BY InvFacts
        <5>. QED BY <3>6, <3>8, <5>1
      <4>. QED BY <4>1, <4>2, InvFacts
    <3>10. issued' = issued
      BY <1>1 DEF clientVars
    <3>11. ExecutesIssued'
      BY <3>3, <3>8, <3>9, <3>10, InvFacts DEF ExecutesIssued
    <3>12. lastClientCommandString' = Issued(lastClientCommand)'
      BY <3>3, <3>5, <3>10 DEF Issued
    <3>13. ~lost'
      BY <1>a, <2>2
    <3>14. lastClientCommand' \in Nat /\ lastClientCommand <= lastClientCommand'
           /\ lastClientCommand' <= reliableSequence
      BY <3>1, <3>3, InvFacts
    <3>. QED BY <3>11, <3>12, <3>13, <3>14
  <2>. QED BY <1>1, <1>3, <2>1, <2>2
<1>5. UNCHANGED <<reliableSequence, reliableAcknowledge, reliableCommands,
                  issued, toClient>>
  BY <1>1 DEF clientVars
<1>6. CountersInv'
  <2>1. KeptUntilExecuted'
    BY <1>4, <1>5, InvFacts DEF KeptUntilExecuted
  <2>2. /\ reliableSequence' - reliableAcknowledge' <= WindowSize
        /\ reliableSequence' = Len(issued')
    BY <1>5, InvFacts
  <2>. QED BY <1>4, <2>1, <2>2 DEF CountersInv
<1>7. RingInv'
  BY <1>a, <1>5 DEF RingInv, Issued
<1>8. PacketInv'
  <2>1. /\ Len(toServer) \in Nat
        /\ Len(toServer') = Len(toServer) - i
        /\ \A j \in 1..Len(toServer) - i : toServer'[j] = toServer[i + j]
    BY <1>a, <1>1, TypeFacts, Remainder, LenProperties
  <2>2. \A j \in 1..Len(toServer') :
          i + j \in 1..Len(toServer) /\ toServer'[j] = toServer[i + j]
    BY <2>1
  <2>3. 0..lastClientCommand \subseteq 0..lastClientCommand'
    BY <1>4, InvFacts
  <2>4. \A x, y : Repeats(x, y)' = Repeats(x, y)
    BY <1>5 DEF Repeats
  <2>. QED BY <1>a, <1>5, <2>2, <2>3, <2>4 DEF PacketInv
<1>9. MessageInv'
  <2>1. reliableAcknowledge..lastClientCommand
          \subseteq reliableAcknowledge..lastClientCommand'
    BY <1>4, InvFacts
  <2>. QED BY <1>a, <1>5, <2>1 DEF MessageInv, Issued
<1>. QED BY <1>6, <1>7, <1>8, <1>9 DEF ClientInv

LEMMA SendMessageInv ==
  ASSUME ClientInv, TypeOK', SendMessage
  PROVE  ClientInv'
<1>a. MessageInv /\ TypeOK /\ lastClientCommandString = Issued(lastClientCommand)
  BY DEF ClientInv, CountersInv
<1>1. /\ toClient' = Append(toClient, [acknowledge |-> lastClientCommand,
                                       key |-> lastClientCommandString])
      /\ UNCHANGED <<clientVars, serverVars, toServer>>
  BY DEF SendMessage, Acknowledgement
<1>2. CountersInv' /\ RingInv'
  BY <1>1
  DEF ClientInv, CountersInv, KeptUntilExecuted, ExecutesIssued, RingInv,
      Issued, clientVars, serverVars
<1>3. PacketInv'
  <2>1. UNCHANGED <<lastClientCommand, reliableSequence, toServer, issued>>
    BY <1>1 DEF clientVars, serverVars
  <2>2. \A x, y : Repeats(x, y)' = Repeats(x, y)
    BY <2>1 DEF Repeats
  <2>. QED BY <2>1, <2>2 DEF ClientInv, PacketInv
<1>4. MessageInv'
  <2>1. /\ Len(toClient) \in Nat
        /\ Len(toClient') = Len(toClient) + 1
        /\ \A i \in 1..Len(toClient) : toClient'[i] = toClient[i]
        /\ toClient'[Len(toClient) + 1].acknowledge = lastClientCommand
        /\ toClient'[Len(toClient) + 1].key = lastClientCommandString
    BY <1>a, <1>1, TypeFacts, AppendProperties, LenProperties
  <2>2. UNCHANGED <<issued, reliableAcknowledge, lastClientCommand>>
    BY <1>1 DEF clientVars, serverVars
  <2>3. \A i \in 1..Len(toClient) + 1 :
          /\ toClient'[i].acknowledge \in reliableAcknowledge..lastClientCommand
          /\ toClient'[i].key = Issued(toClient'[i].acknowledge)
    <3>1. \A i \in 1..Len(toClient) :
            /\ toClient'[i].acknowledge \in reliableAcknowledge..lastClientCommand
            /\ toClient'[i].key = Issued(toClient'[i].acknowledge)
      BY <1>a, <2>1 DEF MessageInv
    <3>2. lastClientCommand \in reliableAcknowledge..lastClientCommand
      BY InvFacts
    <3>3. toClient'[Len(toClient) + 1].key =
            Issued(toClient'[Len(toClient) + 1].acknowledge)
      BY <1>a, <2>1
    <3>. QED BY <2>1, <3>1, <3>2, <3>3
  <2>4. \A i, j \in 1..Len(toClient) + 1 :
          i < j => toClient'[i].acknowledge <= toClient'[j].acknowledge
    <3> SUFFICES ASSUME NEW i \in 1..Len(toClient) + 1,
                        NEW j \in 1..Len(toClient) + 1, i < j
                 PROVE  toClient'[i].acknowledge <= toClient'[j].acknowledge
      OBVIOUS
    <3>1. i \in 1..Len(toClient)
      BY <2>1
    <3>2. CASE j \in 1..Len(toClient)
      BY <1>a, <2>1, <3>1, <3>2 DEF MessageInv
    <3>3. CASE j = Len(toClient) + 1
      BY <2>1, <2>3, <3>3, InvFacts
    <3>. QED BY <2>1, <3>2, <3>3
  <2>. QED BY <2>1, <2>2, <2>3, <2>4 DEF MessageInv, Issued
<1>. QED BY <1>2, <1>3, <1>4 DEF ClientInv

LEMMA LosePacketInv ==
  ASSUME ClientInv, TypeOK', LosePacket
  PROVE  ClientInv'
<1>1. UNCHANGED <<clientVars, serverVars, toClient>>
  BY DEF LosePacket
<1>2. CountersInv' /\ RingInv' /\ MessageInv'
  BY <1>1
  DEF ClientInv, CountersInv, KeptUntilExecuted, ExecutesIssued, RingInv,
      MessageInv, Issued, clientVars, serverVars
<1>3. PacketInv'
  <2>1. toServer \in Seq(PacketsUpTo(reliableSequence)) /\ toServer # << >>
    BY TypeFacts DEF LosePacket, ClientInv
  <2>2. 1 \in 1..Len(toServer) /\ toServer' = SubSeq(toServer, 1 + 1, Len(toServer))
    BY <2>1, TailIsRemainder DEF LosePacket
  <2>3. /\ Len(toServer) \in Nat
        /\ Len(toServer') = Len(toServer) - 1
        /\ \A j \in 1..Len(toServer) - 1 : toServer'[j] = toServer[1 + j]
    BY <2>1, <2>2, Remainder, LenProperties
  <2>4. \A j \in 1..Len(toServer') :
          1 + j \in 1..Len(toServer) /\ toServer'[j] = toServer[1 + j]
    BY <2>3
  <2>5. UNCHANGED <<lastClientCommand, reliableSequence, issued>>
    BY <1>1 DEF clientVars, serverVars
  <2>6. \A x, y : Repeats(x, y)' = Repeats(x, y)
    BY <2>5 DEF Repeats
  <2>. QED BY <2>4, <2>5, <2>6 DEF ClientInv, PacketInv
<1>. QED BY <1>2, <1>3 DEF ClientInv

LEMMA LoseMessageInv ==
  ASSUME ClientInv, TypeOK', LoseMessage
  PROVE  ClientInv'
<1>1. UNCHANGED <<clientVars, serverVars, toServer>>
  BY DEF LoseMessage
<1>2. CountersInv' /\ RingInv'
  BY <1>1
  DEF ClientInv, CountersInv, KeptUntilExecuted, ExecutesIssued, RingInv,
      Issued, clientVars, serverVars
<1>3. PacketInv'
  <2>1. UNCHANGED <<lastClientCommand, reliableSequence, toServer, issued>>
    BY <1>1 DEF clientVars, serverVars
  <2>2. \A x, y : Repeats(x, y)' = Repeats(x, y)
    BY <2>1 DEF Repeats
  <2>. QED BY <2>1, <2>2 DEF ClientInv, PacketInv
<1>4. MessageInv'
  <2>1. toClient \in Seq(MessagesUpTo(reliableSequence)) /\ toClient # << >>
    BY TypeFacts DEF LoseMessage, ClientInv
  <2>2. 1 \in 1..Len(toClient) /\ toClient' = SubSeq(toClient, 1 + 1, Len(toClient))
    BY <2>1, TailIsRemainder DEF LoseMessage
  <2>3. /\ Len(toClient) \in Nat
        /\ Len(toClient') = Len(toClient) - 1
        /\ \A j \in 1..Len(toClient) - 1 : toClient'[j] = toClient[1 + j]
    BY <2>1, <2>2, Remainder, LenProperties
  <2>4. \A j \in 1..Len(toClient') :
          1 + j \in 1..Len(toClient) /\ toClient'[j] = toClient[1 + j]
    BY <2>3
  <2>5. \A j, k \in 1..Len(toClient') : j < k => 1 + j < 1 + k
    BY <2>3
  <2>6. UNCHANGED <<reliableAcknowledge, lastClientCommand, issued>>
    BY <1>1 DEF clientVars, serverVars
  <2>. QED BY <2>4, <2>5, <2>6 DEF ClientInv, MessageInv, Issued
<1>. QED BY <1>2, <1>3, <1>4 DEF ClientInv

LEMMA StutterInv ==
  ASSUME ClientInv, TypeOK', UNCHANGED vars
  PROVE  ClientInv'
<1>1. UNCHANGED <<clientVars, serverVars, toServer, toClient>>
  BY DEF vars
<1>2. CountersInv' /\ RingInv' /\ MessageInv'
  BY <1>1
  DEF ClientInv, CountersInv, KeptUntilExecuted, ExecutesIssued, RingInv,
      MessageInv, Issued, clientVars, serverVars
<1>3. PacketInv'
  <2>1. UNCHANGED <<lastClientCommand, reliableSequence, toServer, issued>>
    BY <1>1 DEF clientVars, serverVars
  <2>2. \A x, y : Repeats(x, y)' = Repeats(x, y)
    BY <2>1 DEF Repeats
  <2>. QED BY <2>1, <2>2 DEF ClientInv, PacketInv
<1>. QED BY <1>2, <1>3 DEF ClientInv

LEMMA StepInv ==
  ASSUME Backlog <= WindowSize
  PROVE  ClientInv /\ TypeOK' /\ [Next]_vars => ClientInv'
<1> SUFFICES ASSUME ClientInv, TypeOK', [Next]_vars PROVE ClientInv'
  OBVIOUS
<1>1. CASE UNCHANGED vars
  BY <1>1, StutterInv
<1>. QED
  BY <1>1, AddInv, SendPacketInv, ReceiveMessageInv, ReceivePacketInv,
     SendMessageInv, LosePacketInv, LoseMessageInv DEF Next

\* As long as no more commands are outstanding than the ring has slots, both
\* sides and everything under way agree with what the player issued.  (The
\* code lets one more command be outstanding: there the invariant is lost.)
THEOREM Invariance ==
  ASSUME Backlog <= WindowSize
  PROVE  Spec => []ClientInv
<1>1. ClientInv /\ TypeOK' /\ [Next]_vars => ClientInv'
  BY StepInv
<1>. QED BY <1>1, InitInv, TypeCorrect, PTL DEF Spec

\* SV_ProcessClientCommands executes exactly what the player issued, in that
\* order, each command once, whatever the channel lost and CL_WritePacket
\* repeated.
THEOREM Execution ==
  ASSUME Backlog <= WindowSize
  PROVE  Spec => []ExecutesIssued
<1>1. ClientInv => ExecutesIssued
  BY DEF ClientInv, CountersInv
<1>. QED BY <1>1, Invariance, PTL

\* No command is discarded by an acknowledgement before the server executed
\* it, so no client is dropped with EXE_LOSTRELIABLECOMMANDS.
THEOREM NoneLost ==
  ASSUME Backlog <= WindowSize
  PROVE  Spec => []KeptUntilExecuted
<1>1. ClientInv => KeptUntilExecuted
  BY DEF ClientInv, CountersInv
<1>. QED BY <1>1, Invariance, PTL

\* CL_Netchan_Decode finds the key SV_Netchan_Encode used in the ring, for
\* every message whose acknowledgement is less than a full window old.
THEOREM KeysFound ==
  ASSUME Backlog <= WindowSize
  PROVE  Spec => []KeysAgree
<1>1. ClientInv => KeysAgree
  <2> SUFFICES ASSUME ClientInv, NEW i \in 1..Len(toClient),
                      reliableSequence - toClient[i].acknowledge < WindowSize
               PROVE  DecodeKey(toClient[i]) = toClient[i].key
    BY DEF KeysAgree
  <2>1. toClient[i].acknowledge \in 0..reliableSequence
    BY InvFacts DEF ClientInv, MessageInv
  <2>2. reliableCommands[Slot(toClient[i].acknowledge)] =
          Issued(toClient[i].acknowledge)
    BY <2>1 DEF ClientInv, RingInv
  <2>. QED BY <2>2 DEF DecodeKey, ClientInv, MessageInv
<1>. QED BY <1>1, Invariance, PTL

=============================================================================
