--------------------------- MODULE Netchan_proofs ---------------------------
(***************************************************************************)
(* Proofs about Netchan: unless a kick comes while fragments are pending,   *)
(* every message handed over is intact, also while the server shuts down;  *)
(* and the channel implements SequencedChannel in any case.                *)
(***************************************************************************)
EXTENDS Netchan, TLAPS

\* Appending keeps what a sequence already holds.
LEMMA AppendFacts ==
  ASSUME NEW S, NEW s \in Seq(S), NEW e \in S
  PROVE  /\ Append(s, e) \in Seq(S)
         /\ Len(Append(s, e)) = Len(s) + 1
         /\ \A i \in 1..Len(s) : Append(s, e)[i] = s[i]
         /\ Append(s, e)[Len(s) + 1] = e
  OBVIOUS

\* What logging a message does to the log.
LEMMA LoggedFacts ==
  ASSUME NEW m \in Messages, sent \in Seq(Messages),
         outgoingSequence \in Nat \ {0},
         Len(sent) \in {outgoingSequence - 1, outgoingSequence}
  PROVE  /\ Logged(m) \in Seq(Messages)
         /\ Len(Logged(m)) = outgoingSequence
         /\ Logged(m)[outgoingSequence] = m
         /\ \A i \in 1..outgoingSequence - 1 : Logged(m)[i] = sent[i]
  <1>1. CASE Len(sent) = outgoingSequence
    <2>1. Logged(m) = [sent EXCEPT ![outgoingSequence] = m]
      BY <1>1 DEF Logged
    <2> QED
      BY <1>1, <2>1
  <1>2. CASE Len(sent) = outgoingSequence - 1
    <2>1. Logged(m) = Append(sent, m)
      BY <1>2 DEF Logged
    <2>2. outgoingSequence = Len(sent) + 1
      BY <1>2
    <2> QED
      BY <1>2, <2>1, <2>2, AppendFacts
  <1> QED
    BY <1>1, <1>2

\* A packet that was sound stays sound when a message is logged under number:
\* it carries another number, or is a full fragment of one that is given up.
LEMMA SoundPacketLogged ==
  ASSUME NEW log \in Seq(Messages), NEW newLog \in Seq(Messages),
         NEW number \in Nat \ {0}, NEW p \in Packet,
         NEW final \in Nat, NEW newFinal \in Nat,
         Len(log) \in {number - 1, number}, Len(newLog) = number,
         \A i \in 1..number - 1 : newLog[i] = log[i],
         newFinal = final \/ (final = 0 /\ newFinal = number),
         p.sequence = number =>
           /\ p.fragmented /\ p.length = FragmentSize
           /\ GivenUp(number, newFinal),
         SoundPacket(p, log, final)
  PROVE  SoundPacket(p, newLog, newFinal)
  <1>1. p.sequence \in 1..Len(log) /\ p.sequence \in 1..Len(newLog)
    BY DEF SoundPacket
  <1>2. CASE p.sequence = number
    BY <1>1, <1>2 DEF SoundPacket
  <1>3. CASE p.sequence # number
    <2>1. p.sequence \in 1..number - 1
      BY <1>1, <1>3
    <2>2. newLog[p.sequence] = log[p.sequence]
      BY <2>1
    <2>3. GivenUp(p.sequence, newFinal) <=> GivenUp(p.sequence, final)
      BY <2>1 DEF GivenUp
    <2> QED
      BY <1>1, <2>2, <2>3 DEF SoundPacket
  <1> QED
    BY <1>2, <1>3

\* Appending a sound packet keeps a wire sound.
LEMMA WireAppend ==
  ASSUME NEW wire \in Seq(Packet), NEW p \in Packet, NEW log, NEW final,
         SoundPacket(p, log, final),
         \A i \in 1..Len(wire) : SoundPacket(wire[i], log, final)
  PROVE  /\ Append(wire, p) \in Seq(Packet)
         /\ \A i \in 1..Len(Append(wire, p)) :
              SoundPacket(Append(wire, p)[i], log, final)
  <1>1. /\ Append(wire, p) \in Seq(Packet)
        /\ Len(Append(wire, p)) = Len(wire) + 1
        /\ \A i \in 1..Len(wire) : Append(wire, p)[i] = wire[i]
        /\ Append(wire, p)[Len(wire) + 1] = p
    BY AppendFacts
  <1>2. ASSUME NEW i \in 1..Len(Append(wire, p))
        PROVE  SoundPacket(Append(wire, p)[i], log, final)
    <2>1. CASE i \in 1..Len(wire)
      BY <1>1, <2>1
    <2>2. CASE i = Len(wire) + 1
      BY <1>1, <2>2
    <2> QED
      BY <1>1, <2>1, <2>2
  <1> QED
    BY <1>1, <1>2

LEMMA InitInv == Init => IntactInv
  <1> SUFFICES ASSUME Init PROVE IntactInv
    OBVIOUS
  <1>1. << >> \in Seq(Packet) /\ << >> \in Seq(Messages) /\ Len(<< >>) = 0
    OBVIOUS
  <1>2. TypeOK
    <2>1. fragmentBuffer
            \in [0..FragmentBufferSize - 1 -> (Messages \X Nat) \cup {NoByte}]
      BY DEF Init
    <2>2. net \in Seq(Packet) /\ sent \in Seq(Messages)
      BY <1>1 DEF Init
    <2>3. /\ unsentFragments \in BOOLEAN /\ sendingGameState \in BOOLEAN
          /\ {kicked, interrupted} \subseteq BOOLEAN /\ stable \in BOOLEAN
      BY DEF Init
    <2>4. unsentBuffer \in Messages \cup {NoByte} /\ sentStable \subseteq Nat
      BY DEF Init
    <2>5. /\ outgoingSequence \in Nat \ {0} /\ unsentFragmentStart \in Nat
          /\ unsentLength \in Nat /\ incomingSequence \in Nat
          /\ fragmentSequence \in Nat /\ fragmentLength \in Nat
          /\ {finalMessages, finalSequence} \subseteq Nat
      BY DEF Init
    <2> QED
      BY <2>1, <2>2, <2>3, <2>4, <2>5 DEF TypeOK
  <1>3. SenderInv /\ WireInv
    BY <1>1 DEF Init, SenderInv, OpenInv, CursorInv, WireInv
  <1>4. ReceiverInv /\ Intact
    BY NetchanAssumption DEF Init, ReceiverInv, Intact
  <1> QED
    BY <1>2, <1>3, <1>4 DEF IntactInv

\* Sending one fragment of the message logged under the current number, a full
\* one if that number is given up.
LEMMA SendFragmentStep ==
  ASSUME NEW m \in Messages, NEW start \in Nat, NetchanAssumption,
         outgoingSequence \in Nat \ {0}, net \in Seq(Packet), OpenInv,
         sent' \in Seq(Messages), finalSequence' \in Nat,
         \A i \in 1..Len(net) : SoundPacket(net[i], sent', finalSequence'),
         Len(sent') = outgoingSequence, sent'[outgoingSequence] = m,
         start <= MessageLength[m],
         GivenUp(outgoingSequence, finalSequence')
           => start + FragmentSize <= MessageLength[m],
         SendFragment(m, MessageLength[m], start)
  PROVE  /\ unsentFragments' => outgoingSequence' = outgoingSequence
         /\ ~unsentFragments' => outgoingSequence' = outgoingSequence + 1
         /\ unsentFragments' \in BOOLEAN
         /\ unsentFragmentStart' \in Nat
         /\ unsentFragmentStart' <= MessageLength[m]
         /\ net' \in Seq(Packet)
         /\ OpenInv'
         /\ WireInv'
  <1>0. PICK length \in Nat : length = MessageLength[m]
    BY DEF NetchanAssumption
  <1>1. PICK n \in Nat : n = IF start + FragmentSize > length
                            THEN length - start ELSE FragmentSize
    <2>1. FragmentSize \in Nat /\ start <= length
      BY <1>0 DEF NetchanAssumption
    <2>2. (IF start + FragmentSize > length THEN length - start
                                            ELSE FragmentSize) \in Nat
      BY <2>1
    <2> QED
      BY <2>2
  <1>2. /\ start + n <= length
        /\ n # FragmentSize => start + n = length
        /\ GivenUp(outgoingSequence, finalSequence') => n = FragmentSize
    BY <1>0, <1>1 DEF NetchanAssumption
  <1>3. PICK p \in Packet : p = [sequence |-> outgoingSequence,
                                fragmented |-> TRUE, start |-> start,
                                length |-> n, message |-> m]
    BY DEF Packet
  <1>4. SoundPacket(p, sent', finalSequence')
    BY <1>0, <1>2, <1>3 DEF SoundPacket
  <1>5. /\ net' = Append(net, p)
        /\ unsentFragmentStart' = start + n
        /\ unsentFragments' = ~(start + n = length /\ n # FragmentSize)
        /\ outgoingSequence' = IF start + n = length /\ n # FragmentSize
                               THEN outgoingSequence + 1
                               ELSE outgoingSequence
    BY <1>0, <1>1, <1>3 DEF SendFragment
  <1>6. net' \in Seq(Packet) /\ WireInv'
    BY <1>4, <1>5, WireAppend DEF WireInv
  <1>7. OpenInv'
    <2>1. CASE start + n = length /\ n # FragmentSize
      <3>1. outgoingSequence' = Len(sent') + 1 /\ Len(sent') \in Nat
        BY <1>5, <2>1
      <3>2. \A i \in 1..Len(net') : net'[i].sequence \in 1..Len(sent')
        BY <1>6 DEF WireInv, SoundPacket
      <3> QED
        BY <3>1, <3>2 DEF OpenInv
    <2>2. CASE ~(start + n = length /\ n # FragmentSize)
      <3>1. outgoingSequence' = outgoingSequence /\ n = FragmentSize
        BY <1>2, <1>5, <2>2
      <3>2. /\ Len(net') = Len(net) + 1
            /\ \A i \in 1..Len(net) : net'[i] = net[i]
            /\ net'[Len(net) + 1] = p
        BY <1>5, AppendFacts
      <3>3. ASSUME NEW i \in 1..Len(net'),
                   net'[i].sequence = outgoingSequence'
            PROVE  net'[i].fragmented /\ net'[i].length = FragmentSize
        <4>1. CASE i \in 1..Len(net)
          BY <3>1, <3>2, <3>3, <4>1 DEF OpenInv
        <4>2. CASE i = Len(net) + 1
          BY <1>3, <3>1, <3>2, <4>2
        <4> QED
          BY <3>2, <4>1, <4>2
      <3> QED
        BY <3>3 DEF OpenInv
    <2> QED
      BY <2>1, <2>2
  <1>8. /\ unsentFragments' => outgoingSequence' = outgoingSequence
        /\ ~unsentFragments' => outgoingSequence' = outgoingSequence + 1
        /\ unsentFragments' \in BOOLEAN
    <2>1. CASE start + n = length /\ n # FragmentSize
      <3>1. unsentFragments' = FALSE /\ outgoingSequence' = outgoingSequence + 1
        BY <1>5, <2>1
      <3> QED
        BY <3>1
    <2>2. CASE ~(start + n = length /\ n # FragmentSize)
      <3>1. unsentFragments' = TRUE /\ outgoingSequence' = outgoingSequence
        BY <1>5, <2>2
      <3> QED
        BY <3>1
    <2> QED
      BY <2>1, <2>2
  <1>9. unsentFragmentStart' \in Nat /\ unsentFragmentStart' <= MessageLength[m]
    BY <1>0, <1>2, <1>5
  <1> QED
    BY <1>6, <1>7, <1>8, <1>9

\* One more fragment of a message being fragmented.
LEMMA TransmitNextFragmentStep ==
  ASSUME IntactInv, unsentFragments, TransmitNextFragment, NetchanAssumption,
         finalMessages = 0,
         UNCHANGED <<finalMessages, finalSequence, sendingGameState,
                     incomingSequence>>
  PROVE  /\ outgoingSequence' \in Nat \ {0}
         /\ unsentFragments' \in BOOLEAN
         /\ unsentFragmentStart' \in Nat
         /\ net' \in Seq(Packet)
         /\ SenderInv'
         /\ WireInv'
  <1>0. /\ outgoingSequence \in Nat \ {0} /\ net \in Seq(Packet)
        /\ sent \in Seq(Messages) /\ unsentFragmentStart \in Nat
        /\ incomingSequence \in Nat /\ WireInv /\ SenderInv
    BY DEF IntactInv, TypeOK
  <1>1. /\ Len(sent) = outgoingSequence
        /\ unsentBuffer = sent[outgoingSequence]
        /\ unsentLength = MessageLength[unsentBuffer]
        /\ unsentFragmentStart <= unsentLength
        /\ finalSequence = 0
        /\ OpenInv
        /\ incomingSequence < outgoingSequence
    BY <1>0 DEF SenderInv, CursorInv
  <1>2. unsentBuffer \in Messages
    BY <1>0, <1>1
  <1>3. /\ SendFragment(unsentBuffer, MessageLength[unsentBuffer],
                        unsentFragmentStart)
        /\ unsentLength' = unsentLength
        /\ unsentBuffer' = unsentBuffer
        /\ sent' = sent
    BY <1>1 DEF TransmitNextFragment
  <1>4. \A i \in 1..Len(net) : SoundPacket(net[i], sent', finalSequence')
    BY <1>0, <1>3 DEF WireInv
  <1>5. finalSequence' = 0 /\ ~GivenUp(outgoingSequence, finalSequence')
    BY <1>0, <1>1 DEF GivenUp
  <1>6. /\ unsentFragments' => outgoingSequence' = outgoingSequence
        /\ ~unsentFragments' => outgoingSequence' = outgoingSequence + 1
        /\ unsentFragments' \in BOOLEAN
        /\ unsentFragmentStart' \in Nat
        /\ unsentFragmentStart' <= MessageLength[unsentBuffer]
        /\ net' \in Seq(Packet)
        /\ OpenInv'
        /\ WireInv'
    BY <1>0, <1>1, <1>2, <1>3, <1>4, <1>5, SendFragmentStep
  <1>7. CursorInv'
    BY <1>0, <1>1, <1>3, <1>6 DEF CursorInv
  <1>8. outgoingSequence' \in {outgoingSequence, outgoingSequence + 1}
    BY <1>6
  <1>9. /\ outgoingSequence' \in Nat \ {0}
        /\ Len(sent') \in {outgoingSequence' - 1, outgoingSequence'}
        /\ incomingSequence' < outgoingSequence'
        /\ finalSequence' <= outgoingSequence'
    <2>1. /\ Len(sent') = outgoingSequence
          /\ incomingSequence' \in Nat
          /\ incomingSequence' < outgoingSequence
      BY <1>0, <1>1, <1>3
    <2>2. outgoingSequence \in Nat \ {0} /\ finalSequence' = 0
      BY <1>0, <1>5
    <2>3. CASE outgoingSequence' = outgoingSequence
      BY <2>1, <2>2, <2>3
    <2>4. CASE outgoingSequence' = outgoingSequence + 1
      BY <2>1, <2>2, <2>4
    <2> QED
      BY <1>8, <2>3, <2>4
  <1>10. finalMessages' = 0 /\ finalSequence' = 0
    BY <1>1
  <1>11. SenderInv'
    BY <1>6, <1>7, <1>9, <1>10 DEF SenderInv
  <1> QED
    BY <1>6, <1>9, <1>11

\* What a message is sent for: by the running server, which sends none while
\* another is being fragmented, or as a final one.
Running ==
  /\ ~unsentFragments
  /\ finalMessages = 0
  /\ UNCHANGED <<finalMessages, finalSequence>>

Closing ==
  /\ finalMessages' = finalMessages + 1
  /\ finalSequence' = IF finalMessages = 0 THEN outgoingSequence
                                           ELSE finalSequence

\* How the numbers stand when a message is logged: the number it gets was not
\* used, or is given up.
LEMMA LogStep ==
  ASSUME NEW m \in Messages, IntactInv, Transmit(m), Running \/ Closing
  PROVE  /\ sent' = Logged(m)
         /\ sent' \in Seq(Messages)
         /\ Len(sent') = outgoingSequence
         /\ sent'[outgoingSequence] = m
         /\ \A i \in 1..outgoingSequence - 1 : sent'[i] = sent[i]
         /\ finalSequence' \in Nat
         /\ finalSequence' <= outgoingSequence
         /\ \/ finalSequence' = finalSequence
            \/ finalSequence = 0 /\ finalSequence' = outgoingSequence
         /\ \/ Len(sent) = outgoingSequence - 1
            \/ GivenUp(outgoingSequence, finalSequence')
  <1>1. /\ outgoingSequence \in Nat \ {0} /\ sent \in Seq(Messages)
        /\ finalMessages \in Nat /\ finalSequence \in Nat
        /\ Len(sent) \in {outgoingSequence - 1, outgoingSequence}
        /\ finalSequence <= outgoingSequence
        /\ finalMessages = 0 <=> finalSequence = 0
        /\ finalMessages = 0 => CursorInv
    BY DEF IntactInv, TypeOK, SenderInv
  <1>2. sent' = Logged(m)
    BY DEF Transmit
  <1>3. CASE Running
    BY <1>1, <1>2, <1>3, LoggedFacts DEF Running, CursorInv
  <1>4. CASE Closing
    <2>1. finalSequence' \in 1..outgoingSequence
      BY <1>1, <1>4 DEF Closing
    <2>2. \/ finalSequence' = finalSequence
          \/ finalSequence = 0 /\ finalSequence' = outgoingSequence
      BY <1>1, <1>4 DEF Closing
    <2>3. GivenUp(outgoingSequence, finalSequence')
      BY <2>1 DEF GivenUp
    <2> QED
      BY <1>1, <1>2, <2>1, <2>2, <2>3, LoggedFacts
  <1> QED
    BY <1>3, <1>4

\* Handing a message to the channel.
LEMMA TransmitStep ==
  ASSUME NEW m \in Messages, IntactInv, Transmit(m), Running \/ Closing,
         sendingGameState' => finalMessages' = 0,
         incomingSequence' = incomingSequence, NetchanAssumption
  PROVE  /\ outgoingSequence' \in Nat \ {0}
         /\ unsentFragments' \in BOOLEAN
         /\ unsentFragmentStart' \in Nat
         /\ unsentLength' \in Nat
         /\ unsentBuffer' \in Messages \cup {NoByte}
         /\ net' \in Seq(Packet)
         /\ sentStable' \subseteq Nat
         /\ SenderInv'
         /\ WireInv'
  <1>1. /\ outgoingSequence \in Nat \ {0} /\ net \in Seq(Packet)
        /\ sent \in Seq(Messages) /\ WireInv /\ OpenInv
        /\ unsentFragments \in BOOLEAN
        /\ unsentLength \in Nat /\ unsentBuffer \in Messages \cup {NoByte}
        /\ Len(sent) \in {outgoingSequence - 1, outgoingSequence}
        /\ incomingSequence \in Nat /\ incomingSequence < outgoingSequence
        /\ finalMessages \in Nat /\ finalSequence \in Nat
        /\ finalMessages = 0 <=> finalSequence = 0
        /\ sentStable \subseteq Nat
    BY DEF IntactInv, TypeOK, SenderInv
  <1>2. MessageLength[m] \in Nat /\ FragmentSize \in Nat
    BY DEF NetchanAssumption
  <1>3. /\ sent' \in Seq(Messages)
        /\ Len(sent') = outgoingSequence
        /\ sent'[outgoingSequence] = m
        /\ \A i \in 1..outgoingSequence - 1 : sent'[i] = sent[i]
        /\ finalSequence' \in Nat
        /\ finalSequence' <= outgoingSequence
        /\ \/ finalSequence' = finalSequence
           \/ finalSequence = 0 /\ finalSequence' = outgoingSequence
        /\ \/ Len(sent) = outgoingSequence - 1
           \/ GivenUp(outgoingSequence, finalSequence')
    BY LogStep
  <1>4. sentStable' \subseteq Nat
    BY <1>1 DEF Transmit
  <1>5. ASSUME NEW i \in 1..Len(net)
        PROVE  SoundPacket(net[i], sent', finalSequence')
    <2>1. net[i] \in Packet /\ SoundPacket(net[i], sent, finalSequence)
      BY <1>1 DEF WireInv
    <2>2. net[i].sequence = outgoingSequence =>
            /\ net[i].fragmented /\ net[i].length = FragmentSize
            /\ GivenUp(outgoingSequence, finalSequence')
      <3>1. net[i].sequence \in 1..Len(sent)
        BY <2>1 DEF SoundPacket
      <3>2. net[i].sequence = outgoingSequence => Len(sent) = outgoingSequence
        BY <1>1, <3>1
      <3>3. Len(sent) = outgoingSequence
              => GivenUp(outgoingSequence, finalSequence')
        BY <1>1, <1>3
      <3> QED
        BY <1>1, <3>2, <3>3 DEF OpenInv
    <2> QED
      BY <1>1, <1>3, <2>1, <2>2, SoundPacketLogged
  <1>6. /\ finalMessages' = 0 <=> finalSequence' = 0
        /\ finalMessages' = 0 => ~unsentFragments
        /\ finalMessages' = 0 => finalSequence' = 0
    BY <1>1 DEF Running, Closing
  <1>7. CASE MessageLength[m] < FragmentSize
    <2>1. PICK p \in Packet : p = [sequence |-> outgoingSequence,
                                  fragmented |-> FALSE, start |-> 0,
                                  length |-> MessageLength[m],
                                  message |-> m]
      BY <1>1, <1>2 DEF Packet
    <2>2. SoundPacket(p, sent', finalSequence')
      <3>1. /\ p.sequence = outgoingSequence /\ p.message = m
            /\ p.length = MessageLength[m] /\ p.fragmented = FALSE
        BY <2>1
      <3>2. p.sequence \in 1..Len(sent') /\ sent'[p.sequence] = p.message
        <4>1. outgoingSequence \in 1..Len(sent')
          <5>1. outgoingSequence \in Nat \ {0}
            BY <1>1
          <5>2. Len(sent') = outgoingSequence
            BY <1>3
          <5> QED
            BY <5>1, <5>2
        <4>2. sent'[outgoingSequence] = m
          BY <1>3
        <4> QED
          BY <3>1, <4>1, <4>2
      <3> QED
        BY <3>1, <3>2 DEF SoundPacket
    <2>3. /\ net' = Append(net, p)
          /\ unsentFragmentStart' = 0
          /\ outgoingSequence' = outgoingSequence + 1
          /\ unsentFragments' = unsentFragments
          /\ unsentLength' = unsentLength
          /\ unsentBuffer' = unsentBuffer
      BY <1>7, <2>1 DEF Transmit
    <2>10. /\ outgoingSequence' = outgoingSequence + 1
           /\ outgoingSequence \in Nat \ {0}
           /\ Len(sent') = outgoingSequence
      BY <1>1, <1>3, <2>3
    <2>4. net' \in Seq(Packet) /\ WireInv'
      BY <1>1, <1>5, <2>2, <2>3, WireAppend DEF WireInv
    <2>5. OpenInv'
      <3>1. \A i \in 1..Len(net') : net'[i].sequence \in 1..Len(sent')
        BY <2>4 DEF WireInv, SoundPacket
      <3>2. \A i \in 1..Len(net') : net'[i].sequence # outgoingSequence'
        BY <2>10, <3>1
      <3> QED
        BY <3>2 DEF OpenInv
    <2>6. finalMessages' = 0 => CursorInv'
      BY <1>1, <1>3, <1>6, <2>3 DEF CursorInv
    <2>7. SenderInv'
      <3>1. /\ Len(sent') \in {outgoingSequence' - 1, outgoingSequence'}
            /\ incomingSequence' < outgoingSequence'
            /\ finalSequence' <= outgoingSequence'
        <4>1. incomingSequence \in Nat /\ incomingSequence < outgoingSequence
          BY <1>1
        <4>2. finalSequence' \in Nat /\ finalSequence' <= outgoingSequence
          BY <1>3
        <4> QED
          BY <2>10, <4>1, <4>2
      <3> QED
        BY <1>6, <2>5, <2>6, <3>1 DEF SenderInv
    <2>8. /\ outgoingSequence' \in Nat \ {0} /\ unsentFragmentStart' \in Nat
          /\ unsentFragments' \in BOOLEAN
      <3>1. outgoingSequence' \in Nat \ {0}
        BY <2>10
      <3>2. unsentFragmentStart' \in Nat
        BY <2>3
      <3>3. unsentFragments' \in BOOLEAN
        BY <1>1, <2>3
      <3> QED
        BY <3>1, <3>2, <3>3
    <2>9. unsentLength' \in Nat /\ unsentBuffer' \in Messages \cup {NoByte}
      BY <1>1, <2>3
    <2> QED
      BY <1>4, <2>4, <2>7, <2>8, <2>9
  <1>8. CASE ~(MessageLength[m] < FragmentSize)
    <2>1. /\ unsentLength' = MessageLength[m]
          /\ unsentBuffer' = m
          /\ SendFragment(m, MessageLength[m], 0)
      BY <1>8 DEF Transmit
    <2>2. 0 \in Nat /\ 0 <= MessageLength[m] /\ 0 + FragmentSize <= MessageLength[m]
      BY <1>2, <1>8
    <2>3. /\ unsentFragments' => outgoingSequence' = outgoingSequence
          /\ ~unsentFragments' => outgoingSequence' = outgoingSequence + 1
          /\ unsentFragments' \in BOOLEAN
          /\ unsentFragmentStart' \in Nat
          /\ unsentFragmentStart' <= MessageLength[m]
          /\ net' \in Seq(Packet)
          /\ OpenInv'
          /\ WireInv'
      BY <1>1, <1>3, <1>5, <2>1, <2>2, SendFragmentStep
    <2>4. CursorInv'
      <3>1. /\ outgoingSequence \in Nat \ {0}
            /\ Len(sent') = outgoingSequence
            /\ sent'[outgoingSequence] = m
        BY <1>1, <1>3
      <3>2. unsentFragments' <=> Len(sent') = outgoingSequence'
        BY <2>3, <3>1
      <3>3. unsentFragments' =>
              /\ unsentBuffer' = sent'[outgoingSequence']
              /\ unsentLength' = MessageLength[unsentBuffer']
              /\ unsentFragmentStart' <= unsentLength'
        <4>1. unsentFragments' => unsentBuffer' = sent'[outgoingSequence']
          BY <2>1, <2>3, <3>1
        <4>2. /\ unsentLength' = MessageLength[unsentBuffer']
              /\ unsentFragmentStart' <= unsentLength'
          BY <2>1, <2>3
        <4> QED
          BY <4>1, <4>2
      <3> QED
        BY <3>2, <3>3 DEF CursorInv
    <2>7. outgoingSequence' \in {outgoingSequence, outgoingSequence + 1}
      BY <2>3
    <2>8. outgoingSequence' \in Nat \ {0}
      BY <1>1, <2>7
    <2>5. SenderInv'
      <3>1. /\ Len(sent') \in {outgoingSequence' - 1, outgoingSequence'}
            /\ incomingSequence' < outgoingSequence'
            /\ finalSequence' <= outgoingSequence'
        BY <1>1, <1>3, <2>7
      <3> QED
        BY <1>6, <2>3, <2>4, <3>1 DEF SenderInv
    <2>6. unsentLength' \in Nat /\ unsentBuffer' \in Messages \cup {NoByte}
      BY <1>2, <2>1
    <2> QED
      BY <1>4, <2>3, <2>5, <2>6, <2>8
  <1> QED
    BY <1>7, <1>8

\* The receiver's part of the invariant survives a change of the log that
\* leaves the numbers handed over and those not given up as they are.
LEMMA ReceiverUntouched ==
  ASSUME IntactInv, UNCHANGED receiveVars,
         sent' \in Seq(Messages), Len(sent) <= Len(sent'),
         finalSequence' \in Nat,
         finalSequence' = finalSequence \/ finalSequence = 0,
         \A i \in 1..Len(sent) :
           \/ sent'[i] = sent[i]
           \/ i = outgoingSequence /\ GivenUp(i, finalSequence')
  PROVE  ReceiverInv' /\ Intact'
  <1>1. /\ sent \in Seq(Messages) /\ ReceiverInv /\ Intact
        /\ fragmentSequence \in Nat /\ incomingSequence \in Nat
        /\ fragmentLength \in Nat /\ finalSequence \in Nat
        /\ outgoingSequence \in Nat /\ incomingSequence < outgoingSequence
    BY DEF IntactInv, TypeOK, SenderInv
  <1>2. /\ incomingSequence' = incomingSequence
        /\ fragmentSequence' = fragmentSequence
        /\ fragmentLength' = fragmentLength
        /\ fragmentBuffer' = fragmentBuffer
        /\ delivered' = delivered
    BY DEF receiveVars
  <1>3. Len(sent) \in Nat /\ Len(sent') \in Nat
    BY <1>1
  <1>4. ReceiverInv'
    <2>1. CASE fragmentLength = 0
      BY <1>1, <1>2, <2>1 DEF ReceiverInv
    <2>2. CASE fragmentLength > 0 /\ GivenUp(fragmentSequence, finalSequence')
      <3>1. fragmentSequence \in 1..Len(sent')
        BY <1>1, <1>3, <2>2 DEF ReceiverInv
      <3> QED
        BY <1>1, <1>2, <2>2, <3>1 DEF ReceiverInv
    <2>3. CASE fragmentLength > 0 /\ ~GivenUp(fragmentSequence, finalSequence')
      <3>1. /\ fragmentSequence \in 1..Len(sent)
            /\ fragmentSequence \in 1..Len(sent')
            /\ ~GivenUp(fragmentSequence, finalSequence)
        BY <1>1, <1>3, <2>3 DEF ReceiverInv, GivenUp
      <3>2. sent'[fragmentSequence] = sent[fragmentSequence]
        BY <2>3, <3>1
      <3> QED
        BY <1>1, <1>2, <2>3, <3>1, <3>2 DEF ReceiverInv
    <2> QED
      BY <1>1, <2>1, <2>2, <2>3
  <1>5. Intact'
    <2>1. CASE incomingSequence = 0
      BY <1>2, <2>1 DEF Intact
    <2>2. CASE incomingSequence > 0
      <3>1. /\ incomingSequence \in 1..Len(sent)
            /\ incomingSequence # outgoingSequence
            /\ delivered = Payload(sent[incomingSequence])
        BY <1>1, <1>3, <2>2 DEF Intact
      <3>2. sent'[incomingSequence] = sent[incomingSequence]
        BY <3>1
      <3> QED
        BY <1>2, <1>3, <3>1, <3>2 DEF Intact, Payload
    <2> QED
      BY <1>1, <2>1, <2>2
  <1> QED
    BY <1>4, <1>5

\* The receiver's part of the type invariant.
ReceiverTypes ==
  /\ incomingSequence \in Nat
  /\ fragmentSequence \in Nat
  /\ fragmentLength \in Nat
  /\ fragmentBuffer
       \in [0..FragmentBufferSize - 1 -> (Messages \X Nat) \cup {NoByte}]

\* Bytes copied into the reassembly memory leave it a memory of bytes.
LEMMA CopiedBytes ==
  ASSUME NEW buffer \in [0..FragmentBufferSize - 1 ->
                           (Messages \X Nat) \cup {NoByte}],
         NEW at \in Nat, NEW m \in Messages, NEW start \in Nat, NEW n \in Nat
  PROVE  CopyBytes(buffer, at, m, start, n)
           \in [0..FragmentBufferSize - 1 -> (Messages \X Nat) \cup {NoByte}]
  <1>1. ASSUME NEW i \in 0..FragmentBufferSize - 1, i \in at..at + n - 1
        PROVE  ByteOf(m, start + i - at) \in Messages \X Nat
    <2>1. start + i - at \in Nat
      BY <1>1
    <2> QED
      BY <2>1 DEF ByteOf
  <1>2. DOMAIN buffer = 0..FragmentBufferSize - 1
    OBVIOUS
  <1>3. \A i \in 0..FragmentBufferSize - 1 :
          (IF i \in at..at + n - 1 THEN ByteOf(m, start + i - at) ELSE buffer[i])
            \in (Messages \X Nat) \cup {NoByte}
    BY <1>1
  <1> QED
    BY <1>2, <1>3 DEF CopyBytes

\* A sound packet that is not a fragment is the message it was sent as.
LEMMA ProcessWholeStep ==
  ASSUME IntactInv, NEW p \in Packet, SoundPacket(p, sent, finalSequence),
         ProcessWhole(p), UNCHANGED <<sent, finalSequence>>
  PROVE  ReceiverTypes' /\ ReceiverInv' /\ Intact'
  <1>1. /\ p.sequence \in 1..Len(sent)
        /\ p.message = sent[p.sequence]
        /\ p.length = MessageLength[p.message]
    BY DEF ProcessWhole, SoundPacket
  <1>2. /\ incomingSequence' = p.sequence
        /\ delivered' = [i \in 0..p.length - 1 |-> ByteOf(p.message, i)]
        /\ fragmentSequence' = fragmentSequence
        /\ fragmentLength' = fragmentLength
        /\ fragmentBuffer' = fragmentBuffer
    BY DEF ProcessWhole, HandOver
  <1>3. delivered' = Payload(sent[p.sequence])
    BY <1>1, <1>2 DEF Payload
  <1>4. Intact'
    BY <1>1, <1>2, <1>3 DEF Intact, Payload
  <1>5. ReceiverInv'
    BY <1>2 DEF IntactInv, ReceiverInv
  <1>6. ReceiverTypes'
    BY <1>1, <1>2 DEF ReceiverTypes, IntactInv, TypeOK, Packet
  <1> QED
    BY <1>4, <1>5, <1>6

\* A fragment of a message that may be completed is appended to the bytes
\* collected only where it belongs.
LEMMA ProcessFragmentStep ==
  ASSUME IntactInv, NEW p \in Packet, SoundPacket(p, sent, finalSequence),
         ~GivenUp(p.sequence, finalSequence),
         ProcessFragment(p), UNCHANGED <<sent, finalSequence>>,
         NetchanAssumption
  PROVE  ReceiverTypes' /\ ReceiverInv' /\ Intact'
  <1>1. PICK m \in Messages : m = p.message
    BY DEF Packet
  <1>2. /\ p.sequence \in 1..Len(sent)
        /\ m = sent[p.sequence]
        /\ p.start + p.length <= MessageLength[m]
        /\ p.length # FragmentSize => p.start + p.length = MessageLength[m]
    BY <1>1 DEF ProcessFragment, SoundPacket
  <1>3. /\ p.sequence \in Nat /\ p.start \in Nat /\ p.length \in Nat
        /\ MessageLength[m] \in Nat /\ FragmentBufferSize \in Nat
        /\ Len(sent) \in Nat
    BY DEF Packet, NetchanAssumption, IntactInv, TypeOK
  <1>4. /\ ReceiverInv /\ Intact /\ ReceiverTypes
    BY DEF IntactInv, TypeOK, ReceiverTypes
  <1>5. PICK at \in Nat : at = Collected(p)
    BY <1>4 DEF Collected, ReceiverTypes
  <1>6. /\ at <= FragmentBufferSize
        /\ at <= MessageLength[m]
        /\ \A i \in 0..at - 1 : fragmentBuffer[i] = ByteOf(m, i)
    BY <1>2, <1>3, <1>4, <1>5 DEF Collected, ReceiverInv, ReceiverTypes
  <1>7. fragmentSequence' = p.sequence
    BY DEF ProcessFragment
  <1>8. CASE DropFragment(p)
    <2>1. /\ fragmentLength' = at
          /\ incomingSequence' = incomingSequence
          /\ fragmentBuffer' = fragmentBuffer
          /\ delivered' = delivered
      BY <1>5, <1>8 DEF DropFragment
    <2>2. ReceiverTypes'
      BY <1>3, <1>4, <1>7, <2>1 DEF ReceiverTypes
    <2>3. ReceiverInv'
      BY <1>2, <1>3, <1>6, <1>7, <2>1 DEF ReceiverInv
    <2>4. Intact'
      BY <1>4, <2>1 DEF Intact
    <2> QED
      BY <2>2, <2>3, <2>4
  <1>9. ASSUME Fits(p), fragmentBuffer' = Joined(p)
        PROVE  /\ p.start = at
               /\ Total(p) <= FragmentBufferSize
               /\ fragmentBuffer' \in [0..FragmentBufferSize - 1 ->
                                       (Messages \X Nat) \cup {NoByte}]
               /\ \A i \in 0..Total(p) - 1 : fragmentBuffer'[i] = ByteOf(m, i)
    <2>1. p.start = at /\ Total(p) <= FragmentBufferSize
      BY <1>5, <1>9 DEF Fits
    <2>2. fragmentBuffer' = CopyBytes(fragmentBuffer, at, m, at, p.length)
      BY <1>1, <1>5, <1>9, <2>1 DEF Joined
    <2>3. fragmentBuffer'
            \in [0..FragmentBufferSize - 1 -> (Messages \X Nat) \cup {NoByte}]
      BY <1>3, <1>4, <2>2, CopiedBytes DEF ReceiverTypes
    <2>4. ASSUME NEW i \in 0..Total(p) - 1
          PROVE  fragmentBuffer'[i] = ByteOf(m, i)
      <3>1. Total(p) = at + p.length
        BY <1>5 DEF Total
      <3>2. i \in 0..FragmentBufferSize - 1 /\ i \in 0..at + p.length - 1
        BY <1>3, <2>1, <3>1
      <3>3. fragmentBuffer'[i] = IF i \in at..at + p.length - 1
                                 THEN ByteOf(m, at + i - at)
                                 ELSE fragmentBuffer[i]
        BY <1>4, <2>2, <3>2 DEF CopyBytes, ReceiverTypes
      <3>4. CASE i \in 0..at - 1
        BY <1>3, <1>6, <3>3, <3>4
      <3>5. CASE i \in at..at + p.length - 1
        <4>1. at + i - at = i
          BY <3>5
        <4> QED
          BY <3>3, <3>5, <4>1
      <3> QED
        BY <1>3, <3>2, <3>4, <3>5
    <2> QED
      BY <2>1, <2>3, <2>4
  <1>10. PICK total \in Nat : total = Total(p) /\ total = at + p.length
    BY <1>3, <1>5 DEF Total
  <1>11. CASE CollectFragment(p)
    <2>1. /\ fragmentLength' = total
          /\ incomingSequence' = incomingSequence
          /\ delivered' = delivered
          /\ Fits(p)
          /\ fragmentBuffer' = Joined(p)
      BY <1>10, <1>11 DEF CollectFragment
    <2>2. ReceiverTypes'
      BY <1>3, <1>4, <1>7, <1>9, <2>1 DEF ReceiverTypes
    <2>3. ReceiverInv'
      BY <1>2, <1>3, <1>7, <1>9, <1>10, <2>1 DEF ReceiverInv
    <2>4. Intact'
      BY <1>4, <2>1 DEF Intact
    <2> QED
      BY <2>2, <2>3, <2>4
  <1>12. CASE CompleteMessage(p)
    <2>1. /\ Fits(p)
          /\ fragmentBuffer' = Joined(p)
          /\ fragmentLength' = 0
          /\ incomingSequence' = p.sequence
          /\ delivered' = [i \in 0..total - 1 |-> fragmentBuffer'[i]]
      BY <1>10, <1>12 DEF CompleteMessage, HandOver
    <2>2. total = MessageLength[m]
      BY <1>2, <1>9, <1>10, <1>12, <2>1 DEF CompleteMessage, Completes
    <2>3. \A i \in 0..MessageLength[m] - 1 : fragmentBuffer'[i] = ByteOf(m, i)
      BY <1>9, <1>10, <2>1, <2>2
    <2>4. delivered' = Payload(m)
      BY <2>1, <2>2, <2>3, Zenon DEF Payload
    <2>5. ReceiverTypes'
      BY <1>3, <1>7, <1>9, <2>1 DEF ReceiverTypes
    <2>6. ReceiverInv'
      BY <1>3, <2>1 DEF ReceiverInv
    <2>7. Intact'
      BY <1>2, <1>3, <2>1, <2>4 DEF Intact, Payload
    <2> QED
      BY <2>5, <2>6, <2>7
  <1> QED
    BY <1>8, <1>11, <1>12 DEF ProcessFragment

\* A fragment of a message that is given up ends nothing.
LEMMA ProcessGivenUpStep ==
  ASSUME IntactInv, NEW p \in Packet, SoundPacket(p, sent, finalSequence),
         GivenUp(p.sequence, finalSequence),
         ProcessFragment(p), UNCHANGED <<sent, finalSequence>>,
         NetchanAssumption
  PROVE  ReceiverTypes' /\ ReceiverInv' /\ Intact'
  <1>1. /\ p.sequence \in 1..Len(sent)
        /\ p.length = FragmentSize
        /\ fragmentSequence' = p.sequence
    BY DEF ProcessFragment, SoundPacket
  <1>2. /\ p.sequence \in Nat /\ p.start \in Nat /\ p.length \in Nat
        /\ p.message \in Messages /\ FragmentBufferSize \in Nat
        /\ Len(sent) \in Nat
    BY DEF Packet, NetchanAssumption, IntactInv, TypeOK
  <1>3. ReceiverInv /\ Intact /\ ReceiverTypes
    BY DEF IntactInv, TypeOK, ReceiverTypes
  <1>4. Collected(p) \in Nat /\ Collected(p) <= FragmentBufferSize
    BY <1>2, <1>3 DEF Collected, ReceiverInv, ReceiverTypes
  <1>5. ~CompleteMessage(p)
    BY <1>1 DEF CompleteMessage, Completes
  <1>6. CASE DropFragment(p)
    <2>1. /\ fragmentLength' = Collected(p)
          /\ UNCHANGED <<incomingSequence, fragmentBuffer, delivered>>
      BY <1>6 DEF DropFragment
    <2> QED
      BY <1>1, <1>2, <1>3, <1>4, <2>1 DEF ReceiverTypes, ReceiverInv, Intact
  <1>7. CASE CollectFragment(p)
    <2>1. /\ Total(p) \in Nat
          /\ Total(p) <= FragmentBufferSize
          /\ fragmentLength' = Total(p)
          /\ fragmentBuffer' = Joined(p)
          /\ UNCHANGED <<incomingSequence, delivered>>
      BY <1>2, <1>4, <1>7 DEF CollectFragment, Fits, Total
    <2>2. fragmentBuffer'
            \in [0..FragmentBufferSize - 1 -> (Messages \X Nat) \cup {NoByte}]
      BY <1>2, <1>3, <1>4, <2>1, CopiedBytes DEF Joined, ReceiverTypes
    <2> QED
      BY <1>1, <1>2, <1>3, <2>1, <2>2 DEF ReceiverTypes, ReceiverInv, Intact
  <1> QED
    BY <1>5, <1>6, <1>7 DEF ProcessFragment

\* What is handed over carries a number that is used up.
LEMMA HandedOverIsUsedUp ==
  ASSUME IntactInv, NEW i \in 1..Len(net), Process(net[i])
  PROVE  incomingSequence' < outgoingSequence
  <1>1. PICK p \in Packet : p = net[i]
    BY DEF IntactInv, TypeOK
  <1>2. /\ SoundPacket(p, sent, finalSequence) /\ OpenInv /\ Process(p)
        /\ Len(sent) \in {outgoingSequence - 1, outgoingSequence}
        /\ outgoingSequence \in Nat /\ sent \in Seq(Messages)
        /\ incomingSequence < outgoingSequence
    BY <1>1 DEF IntactInv, TypeOK, SenderInv, WireInv
  <1>3. p.sequence \in Nat /\ p.sequence <= outgoingSequence
    BY <1>2 DEF SoundPacket
  <1>4. p.sequence = outgoingSequence => p.fragmented /\ p.length = FragmentSize
    BY <1>1, <1>2 DEF OpenInv
  <1>5. CASE ProcessWhole(p)
    <2>1. incomingSequence' = p.sequence /\ ~p.fragmented
      BY <1>5 DEF ProcessWhole, HandOver
    <2> QED
      BY <1>2, <1>3, <1>4, <2>1
  <1>6. CASE ProcessFragment(p)
    <2>1. CASE DropFragment(p) \/ CollectFragment(p)
      BY <1>2, <2>1 DEF DropFragment, CollectFragment
    <2>2. CASE CompleteMessage(p)
      <3>1. incomingSequence' = p.sequence /\ p.length # FragmentSize
        BY <2>2 DEF CompleteMessage, HandOver, Completes
      <3> QED
        BY <1>2, <1>3, <1>4, <3>1
    <2> QED
      BY <1>6, <2>1, <2>2 DEF ProcessFragment
  <1>7. CASE ProcessOutOfOrder(p)
    BY <1>2, <1>7 DEF ProcessOutOfOrder, receiveVars
  <1> QED
    BY <1>2, <1>5, <1>6, <1>7 DEF Process

-----------------------------------------------------------------------------

\* Whatever packet the wire hands over, the invariant is kept.
LEMMA ReceiveStep ==
  ASSUME IntactInv, Receive, NetchanAssumption
  PROVE  IntactInv'
  <1>1. PICK i \in 1..Len(net) :
          /\ Process(net[i])
          /\ IF stable THEN i = 1 /\ net' = Tail(net) ELSE net' = net
          /\ UNCHANGED <<sendVars, sendingGameState, fateVars, stable, sent,
                         sentStable>>
    BY DEF Receive
  <1>2. /\ net \in Seq(Packet) /\ WireInv /\ OpenInv
        /\ ReceiverTypes /\ ReceiverInv /\ Intact
    BY DEF IntactInv, TypeOK, SenderInv, ReceiverTypes
  <1>3. PICK p \in Packet : p = net[i]
    BY <1>2
  <1>4. /\ SoundPacket(p, sent, finalSequence) /\ Process(p)
        /\ sent' = sent /\ finalSequence' = finalSequence
        /\ outgoingSequence' = outgoingSequence
    BY <1>1, <1>2, <1>3 DEF WireInv, fateVars, sendVars
  <1>5. ReceiverTypes' /\ ReceiverInv' /\ Intact'
    <2>1. CASE ProcessWhole(p)
      BY <1>4, <2>1, ProcessWholeStep
    <2>2. CASE ProcessFragment(p)
      BY <1>4, <2>2, ProcessFragmentStep, ProcessGivenUpStep
    <2>3. CASE ProcessOutOfOrder(p)
      BY <1>2, <1>4, <2>3
      DEF ProcessOutOfOrder, receiveVars, ReceiverTypes, ReceiverInv,
          Intact
    <2> QED
      BY <1>4, <2>1, <2>2, <2>3 DEF Process
  <1>6. net' \in Seq(Packet) /\ WireInv' /\ OpenInv'
    <2>1. CASE net' = net
      BY <1>2, <1>4, <2>1 DEF WireInv, OpenInv
    <2>2. CASE net' = Tail(net) /\ net # << >>
      <3>1. /\ net' \in Seq(Packet)
            /\ Len(net') = Len(net) - 1
            /\ \A j \in 1..Len(net') : net'[j] = net[j + 1]
            /\ \A j \in 1..Len(net') : j + 1 \in 1..Len(net)
        BY <1>2, <2>2
      <3>2. \A j \in 1..Len(net') : SoundPacket(net'[j], sent, finalSequence)
        BY <1>2, <3>1 DEF WireInv
      <3>3. WireInv'
        BY <1>4, <3>2 DEF WireInv
      <3>4. OpenInv'
        BY <1>2, <1>4, <3>1 DEF OpenInv
      <3> QED
        BY <3>1, <3>3, <3>4
    <2>3. net # << >>
      BY <1>1
    <2> QED
      BY <1>1, <2>1, <2>2, <2>3
  <1>7. /\ unsentFragments' \in BOOLEAN /\ sendingGameState' \in BOOLEAN
        /\ {kicked', interrupted'} \subseteq BOOLEAN /\ stable' \in BOOLEAN
        /\ {finalMessages', finalSequence'} \subseteq Nat
    BY <1>1 DEF sendVars, fateVars, IntactInv, TypeOK
  <1>8. SenderInv'
    <2>1. incomingSequence' < outgoingSequence'
      BY <1>1, <1>4, HandedOverIsUsedUp
    <2>2. /\ UNCHANGED <<sent, sendVars, fateVars, sendingGameState>>
          /\ SenderInv
      BY <1>1 DEF IntactInv
    <2> QED
      BY <1>6, <2>1, <2>2 DEF sendVars, fateVars, SenderInv, CursorInv
  <1>9. /\ outgoingSequence' \in Nat \ {0} /\ unsentFragmentStart' \in Nat
        /\ unsentLength' \in Nat /\ unsentBuffer' \in Messages \cup {NoByte}
        /\ sent' \in Seq(Messages) /\ sentStable' \subseteq Nat
    BY <1>1 DEF sendVars, IntactInv, TypeOK
  <1> QED
    BY <1>5, <1>6, <1>7, <1>8, <1>9 DEF IntactInv, TypeOK, ReceiverTypes

\* A message handed to a channel that is not fragmenting, or in closing, keeps
\* the invariant.
LEMMA SendStep ==
  ASSUME NEW m \in Messages, IntactInv, Transmit(m), Running \/ Closing,
         sendingGameState' => finalMessages' = 0,
         UNCHANGED <<receiveVars, stable>>,
         sendingGameState' \in BOOLEAN,
         {kicked', interrupted'} \subseteq BOOLEAN, NetchanAssumption
  PROVE  IntactInv'
  <1>1. incomingSequence' = incomingSequence
    BY DEF receiveVars
  <1>2. /\ outgoingSequence' \in Nat \ {0}
        /\ unsentFragments' \in BOOLEAN
        /\ unsentFragmentStart' \in Nat
        /\ unsentLength' \in Nat
        /\ unsentBuffer' \in Messages \cup {NoByte}
        /\ net' \in Seq(Packet)
        /\ sentStable' \subseteq Nat
        /\ SenderInv'
        /\ WireInv'
    BY <1>1, TransmitStep
  <1>3. /\ sent' \in Seq(Messages)
        /\ Len(sent') = outgoingSequence
        /\ \A i \in 1..outgoingSequence - 1 : sent'[i] = sent[i]
        /\ finalSequence' \in Nat
        /\ finalSequence' = finalSequence \/ finalSequence = 0
        /\ \/ Len(sent) = outgoingSequence - 1
           \/ GivenUp(outgoingSequence, finalSequence')
    BY LogStep
  <1>4. /\ Len(sent) \in {outgoingSequence - 1, outgoingSequence}
        /\ outgoingSequence \in Nat \ {0} /\ finalMessages \in Nat
    BY DEF IntactInv, TypeOK, SenderInv
  <1>5. /\ Len(sent) <= Len(sent')
        /\ \A i \in 1..Len(sent) :
             \/ sent'[i] = sent[i]
             \/ i = outgoingSequence /\ GivenUp(i, finalSequence')
    BY <1>3, <1>4
  <1>6. ReceiverInv' /\ Intact'
    BY <1>3, <1>5, ReceiverUntouched
  <1>7. ReceiverTypes'
    BY DEF IntactInv, TypeOK, ReceiverTypes, receiveVars
  <1>8. stable' \in BOOLEAN /\ finalMessages' \in Nat
    BY <1>4 DEF IntactInv, TypeOK, Running, Closing
  <1> QED
    BY <1>2, <1>3, <1>6, <1>7, <1>8 DEF IntactInv, TypeOK, ReceiverTypes

\* So does one more fragment.
LEMMA FragmentStep ==
  ASSUME IntactInv, unsentFragments, TransmitNextFragment, finalMessages = 0,
         UNCHANGED <<sendingGameState, fateVars, receiveVars, stable>>,
         NetchanAssumption
  PROVE  IntactInv'
  <1>1. UNCHANGED <<finalMessages, finalSequence, sendingGameState,
                    incomingSequence>>
    BY DEF fateVars, receiveVars
  <1>2. /\ outgoingSequence' \in Nat \ {0}
        /\ unsentFragments' \in BOOLEAN
        /\ unsentFragmentStart' \in Nat
        /\ net' \in Seq(Packet)
        /\ SenderInv'
        /\ WireInv'
    BY <1>1, TransmitNextFragmentStep
  <1>3. /\ unsentLength' = unsentLength /\ unsentBuffer' = unsentBuffer
        /\ sent' = sent /\ sentStable' = sentStable
    BY DEF TransmitNextFragment
  <1>4. ReceiverInv' /\ Intact'
    <2>1. sent \in Seq(Messages) /\ finalSequence \in Nat
      BY DEF IntactInv, TypeOK
    <2>2. Len(sent) <= Len(sent')
      BY <1>3, <2>1
    <2> QED
      BY <1>1, <1>3, <2>1, <2>2, ReceiverUntouched
  <1>5. ReceiverTypes'
    BY DEF IntactInv, TypeOK, ReceiverTypes, receiveVars
  <1>6. sendingGameState' \in BOOLEAN /\ stable' \in BOOLEAN
        /\ {kicked', interrupted'} \subseteq BOOLEAN
        /\ {finalMessages', finalSequence'} \subseteq Nat
    BY DEF IntactInv, TypeOK, fateVars
  <1>7. /\ unsentLength' \in Nat /\ unsentBuffer' \in Messages \cup {NoByte}
        /\ sent' \in Seq(Messages) /\ sentStable' \subseteq Nat
    BY <1>3 DEF IntactInv, TypeOK
  <1> QED
    BY <1>2, <1>4, <1>5, <1>6, <1>7 DEF IntactInv, TypeOK, ReceiverTypes

\* The steps that touch neither the sender nor the receiver.
LEMMA IdleStep ==
  ASSUME IntactInv,
         UNCHANGED <<sendVars, fateVars, receiveVars, sent, sentStable>>,
         sendingGameState' \in BOOLEAN, stable' \in BOOLEAN,
         sendingGameState' => finalMessages = 0,
         net' = net \/ net' = << >>
  PROVE  IntactInv'
  <1>1. /\ UNCHANGED <<finalSequence, finalMessages, incomingSequence,
                       outgoingSequence>>
        /\ net \in Seq(Packet) /\ WireInv /\ OpenInv
        /\ sent' = sent /\ sent \in Seq(Messages) /\ finalSequence \in Nat
    BY DEF sendVars, fateVars, receiveVars, IntactInv, TypeOK, SenderInv
  <1>2. ReceiverInv' /\ Intact'
    <2>1. Len(sent) <= Len(sent')
      BY <1>1
    <2> QED
      BY <1>1, <2>1, ReceiverUntouched
  <1>3. ReceiverTypes'
    BY DEF IntactInv, TypeOK, ReceiverTypes, receiveVars
  <1>4. net' \in Seq(Packet) /\ WireInv' /\ OpenInv'
    <2>1. CASE net' = net
      BY <1>1, <2>1 DEF WireInv, OpenInv
    <2>2. CASE net' = << >>
      BY <2>2 DEF WireInv, OpenInv
    <2> QED
      BY <2>1, <2>2
  <1>5. SenderInv'
    BY <1>1, <1>4 DEF IntactInv, SenderInv, CursorInv, sendVars
  <1>6. unsentFragments' \in BOOLEAN
        /\ {kicked', interrupted'} \subseteq BOOLEAN
        /\ {finalMessages', finalSequence'} \subseteq Nat
    BY DEF IntactInv, TypeOK, sendVars, fateVars
  <1>7. /\ outgoingSequence' \in Nat \ {0} /\ unsentFragmentStart' \in Nat
        /\ unsentLength' \in Nat /\ unsentBuffer' \in Messages \cup {NoByte}
        /\ sent' \in Seq(Messages) /\ sentStable' \subseteq Nat
    BY DEF IntactInv, TypeOK, sendVars
  <1> QED
    BY <1>2, <1>3, <1>4, <1>5, <1>6, <1>7 DEF IntactInv, TypeOK, ReceiverTypes

\* Every step keeps the invariant, but the kick of a client while fragments
\* are pending.
LEMMA NextInv ==
  ASSUME IntactInv, [Next]_vars, ~interrupted', NetchanAssumption
  PROVE  IntactInv'
  <1>0. /\ sendingGameState \in BOOLEAN /\ stable \in BOOLEAN
        /\ unsentFragments \in BOOLEAN
        /\ {kicked, interrupted} \subseteq BOOLEAN
        /\ sendingGameState => finalMessages = 0
    BY DEF IntactInv, TypeOK, SenderInv
  <1>1. ASSUME NEW m \in Messages, SendClientMessage(m)
        PROVE  IntactInv'
    <2>1. Transmit(m) /\ Running /\ UNCHANGED <<receiveVars, stable>>
      BY <1>1 DEF SendClientMessage, Running, fateVars
    <2>2. /\ sendingGameState' \in BOOLEAN
          /\ sendingGameState' => finalMessages' = 0
          /\ {kicked', interrupted'} \subseteq BOOLEAN
      BY <1>0, <1>1 DEF SendClientMessage, fateVars
    <2> QED
      BY <2>1, <2>2, SendStep
  <1>2. ASSUME NEW m \in Messages, SendGameState(m)
        PROVE  IntactInv'
    <2>1. Transmit(m) /\ Running /\ UNCHANGED <<receiveVars, stable>>
      BY <1>0, <1>2 DEF SendGameState, Running, fateVars
    <2>2. /\ sendingGameState' \in BOOLEAN
          /\ sendingGameState' => finalMessages' = 0
          /\ {kicked', interrupted'} \subseteq BOOLEAN
      BY <1>0, <1>2 DEF SendGameState, fateVars
    <2> QED
      BY <2>1, <2>2, SendStep
  <1>3. ASSUME NEW m \in Messages, KickUnpureClient(m)
        PROVE  IntactInv'
    <2>1. Transmit(m) /\ Running /\ UNCHANGED <<receiveVars, stable>>
      BY <1>3 DEF KickUnpureClient, Running
    <2>2. /\ sendingGameState' \in BOOLEAN
          /\ sendingGameState' => finalMessages' = 0
          /\ {kicked', interrupted'} \subseteq BOOLEAN
      BY <1>0, <1>3 DEF KickUnpureClient
    <2> QED
      BY <2>1, <2>2, SendStep
  <1>4. ASSUME NEW m \in Messages, FinalMessage(m)
        PROVE  IntactInv'
    <2>1. Transmit(m) /\ Closing /\ UNCHANGED <<receiveVars, stable>>
      BY <1>4 DEF FinalMessage, Closing
    <2>2. /\ sendingGameState' \in BOOLEAN
          /\ sendingGameState' => finalMessages' = 0
          /\ {kicked', interrupted'} \subseteq BOOLEAN
      BY <1>0, <1>4 DEF FinalMessage
    <2> QED
      BY <2>1, <2>2, SendStep
  <1>5. CASE SendClientFragment
    BY <1>5, FragmentStep DEF SendClientFragment
  <1>6. CASE BeginGameState
    BY <1>0, <1>6, IdleStep DEF BeginGameState
  <1>7. CASE WithholdGameState
    BY <1>0, <1>7, IdleStep DEF WithholdGameState
  <1>8. CASE DrainFragment
    BY <1>0, <1>8, FragmentStep DEF DrainFragment
  <1>9. CASE Receive
    BY <1>9, ReceiveStep
  <1>10. CASE Stabilize
    BY <1>0, <1>10, IdleStep DEF Stabilize
  <1>11. CASE UNCHANGED vars
    BY <1>0, <1>11, IdleStep DEF vars
  <1> QED
    BY <1>1, <1>2, <1>3, <1>4, <1>5, <1>6, <1>7, <1>8, <1>9, <1>10, <1>11
    DEF Next

\* Only a kick interrupts, and for good.
LEMMA Interrupted ==
  ASSUME [Next]_vars, interrupted => kicked
  PROVE  /\ interrupted => interrupted'
         /\ interrupted' => kicked'
  <1>1. CASE \E m \in Messages : KickUnpureClient(m)
    BY <1>1 DEF KickUnpureClient
  <1>2. CASE UNCHANGED <<kicked, interrupted>>
    BY <1>2
  <1> QED
    BY <1>1, <1>2
    DEF Next, SendClientMessage, SendGameState, FinalMessage,
        SendClientFragment, BeginGameState, WithholdGameState, DrainFragment,
        Receive, Stabilize, vars, fateVars

LEMMA InvarianceSteps ==
  /\ Init => NetchanInv
  /\ NetchanInv /\ [Next]_vars => NetchanInv'
  <1>1. Init => NetchanInv
    BY InitInv DEF NetchanInv, Init
  <1>2. ASSUME NetchanInv, [Next]_vars
        PROVE  NetchanInv'
    <2>1. /\ interrupted => interrupted'
          /\ interrupted' => kicked'
      BY <1>2, Interrupted DEF NetchanInv
    <2>2. CASE interrupted'
      BY <2>1, <2>2 DEF NetchanInv
    <2>3. CASE ~interrupted'
      <3>1. IntactInv'
        BY <1>2, <2>1, <2>3, NextInv, NetchanAssumption DEF NetchanInv
      <3> QED
        BY <2>1, <3>1 DEF NetchanInv
    <2> QED
      BY <2>2, <2>3
  <1> QED
    BY <1>1, <1>2

\* Unless the pure check kicks the client while fragments are pending, the
\* sender's fragment cursor, every packet on the wire and the bytes collected
\* by the receiver all agree with the log of messages sent, in which a final
\* message of the server's shutdown takes the number of a pending one.
THEOREM Invariance == Spec => []NetchanInv
  BY InvarianceSteps, PTL DEF Spec

\* And a message handed to the client's parser is, byte for byte, the message
\* the server numbered so, and under a number that a final message took over,
\* that one: whatever the wire loses, repeats or reorders, and whatever the
\* sizes.
THEOREM HandedOverIntact == Spec => []IntactDelivery
  <1>1. NetchanInv => IntactDelivery
    BY DEF NetchanInv, IntactInv, IntactDelivery
  <1> QED
    BY <1>1, Invariance, PTL

\* A handled packet is handed over under a newer number, or not at all.
LEMMA ReceiveOrder ==
  ASSUME IntactInv, Receive
  PROVE  /\ UNCHANGED <<sent, finalSequence, interrupted>>
         /\ \/ incomingSequence' > incomingSequence
            \/ UNCHANGED <<incomingSequence, delivered>>
  <1>1. PICK i \in 1..Len(net) :
          Process(net[i]) /\ UNCHANGED <<sent, finalSequence, interrupted>>
    BY DEF Receive, fateVars
  <1>2. PICK p \in Packet : p = net[i]
    BY <1>1 DEF IntactInv, TypeOK
  <1>3. CASE ProcessWhole(p)
    BY <1>1, <1>3 DEF ProcessWhole, HandOver
  <1>4. CASE ProcessFragment(p)
    <2>1. CASE DropFragment(p)
      BY <1>1, <2>1 DEF DropFragment
    <2>2. CASE CollectFragment(p)
      BY <1>1, <2>2 DEF CollectFragment
    <2>3. CASE CompleteMessage(p)
      BY <1>1, <1>4, <2>3 DEF ProcessFragment, CompleteMessage, HandOver
    <2> QED
      BY <1>4, <2>1, <2>2, <2>3 DEF ProcessFragment
  <1>5. CASE ProcessOutOfOrder(p)
    BY <1>1, <1>5 DEF ProcessOutOfOrder, receiveVars
  <1> QED
    BY <1>1, <1>2, <1>3, <1>4, <1>5 DEF Process

\* A message sent is accepted by the abstract channel, or in closing takes the
\* place of the last one.
LEMMA SendImplements ==
  ASSUME NEW m \in Messages, IntactInv, Transmit(m), Running \/ Closing,
         UNCHANGED <<incomingSequence, delivered, interrupted>>
  PROVE  Channel!Next
  <1>1. /\ sent \in Seq(Messages) /\ outgoingSequence \in Nat \ {0}
        /\ Len(sent) \in {outgoingSequence - 1, outgoingSequence}
        /\ incomingSequence < outgoingSequence
        /\ finalMessages \in Nat /\ finalSequence \in Nat
        /\ finalMessages = 0 <=> finalSequence = 0
        /\ finalMessages = 0 => CursorInv
    BY DEF IntactInv, TypeOK, SenderInv
  <1>2. /\ sent' = Logged(m)
        /\ finalSequence' \in Nat
        /\ finalSequence' = finalSequence \/ finalSequence = 0
    BY LogStep
  <1>3. finalSequence > 0 => finalSequence' > 0
    BY <1>1, <1>2
  <1>4. CASE Len(sent) = outgoingSequence - 1
    <2>1. sent' = Append(sent, m)
      <3>1. Len(sent) # outgoingSequence
        BY <1>1, <1>4
      <3> QED
        BY <1>2, <3>1 DEF Logged
    <2>2. (finalSequence' > 0) \in BOOLEAN
      BY <1>2
    <2>3. Channel!Accept(m)
      BY <1>3, <2>1, <2>2 DEF Channel!Accept
    <2> QED
      BY <2>3 DEF Channel!Next
  <1>5. CASE Len(sent) = outgoingSequence
    <2>1. sent' = [sent EXCEPT ![Len(sent)] = m]
      BY <1>2, <1>5 DEF Logged
    <2>2. finalSequence' > 0
      <3>1. ~Running
        BY <1>1, <1>5 DEF Running, CursorInv
      <3> QED
        BY <1>1, <3>1 DEF Closing
    <2>3. Channel!Supersede(m)
      BY <1>1, <1>5, <2>1, <2>2 DEF Channel!Supersede
    <2> QED
      BY <2>3 DEF Channel!Next
  <1> QED
    BY <1>1, <1>4, <1>5

\* Every step is a step of the abstract channel or leaves it as it is.
LEMMA StepImplements ==
  ASSUME NetchanInv, NetchanInv', [Next]_vars
  PROVE  [Channel!Next]_(Channel!channelVars)
  <1>1. CASE interrupted'
    BY <1>1 DEF Channel!Next, Channel!Break
  <1>2. CASE UNCHANGED <<sent, incomingSequence, delivered, finalSequence,
                         interrupted>>
    BY <1>2 DEF Channel!channelVars
  <1>3. CASE ~interrupted'
    <2>0. IntactInv /\ IntactInv' /\ unsentFragments \in BOOLEAN
          /\ (sendingGameState => finalMessages = 0)
      <3>1. ~interrupted
        BY <1>3, Interrupted DEF NetchanInv
      <3> QED
        BY <1>3, <3>1 DEF NetchanInv, IntactInv, TypeOK, SenderInv
    <2>1. CASE \E m \in Messages : SendClientMessage(m)
      BY <2>0, <2>1, SendImplements
      DEF SendClientMessage, Running, fateVars, receiveVars
    <2>2. CASE \E m \in Messages : SendGameState(m)
      BY <2>0, <2>2, SendImplements
      DEF SendGameState, Running, fateVars, receiveVars
    <2>3. CASE \E m \in Messages : KickUnpureClient(m)
      <3>1. PICK m \in Messages : KickUnpureClient(m)
        BY <2>3
      <3>2. ~interrupted /\ UNCHANGED interrupted
        BY <1>3, <2>0, <3>1, Interrupted DEF NetchanInv, KickUnpureClient, IntactInv, TypeOK
      <3> QED
        BY <1>3, <2>0, <3>1, <3>2, SendImplements
        DEF KickUnpureClient, Running, receiveVars
    <2>4. CASE \E m \in Messages : FinalMessage(m)
      BY <2>0, <2>4, SendImplements DEF FinalMessage, Closing, receiveVars
    <2>5. CASE SendClientFragment
      BY <1>2, <2>5
      DEF SendClientFragment, TransmitNextFragment, receiveVars, fateVars
    <2>6. CASE BeginGameState \/ WithholdGameState \/ Stabilize
      BY <1>2, <2>6
      DEF BeginGameState, WithholdGameState, Stabilize, receiveVars, fateVars
    <2>7. CASE DrainFragment
      BY <1>2, <2>7
      DEF DrainFragment, TransmitNextFragment, receiveVars, fateVars
    <2>8. CASE Receive /\ incomingSequence' > incomingSequence
      <3>1. UNCHANGED <<sent, finalSequence, interrupted>>
        BY <2>0, <2>8, ReceiveOrder
      <3>2. /\ incomingSequence \in Nat /\ incomingSequence' \in Nat
            /\ Intact'
        BY <2>0 DEF IntactInv, TypeOK
      <3>3. incomingSequence' > 0
        BY <2>8, <3>2
      <3>4. /\ incomingSequence' \in 1..Len(sent)
            /\ delivered' = Payload(sent[incomingSequence'])
        BY <3>1, <3>2, <3>3 DEF Intact, Payload
      <3>5. Channel!Deliver
        BY <2>8, <3>1, <3>4 DEF Channel!Deliver
      <3> QED
        BY <3>5 DEF Channel!Next
    <2>9. CASE Receive /\ ~(incomingSequence' > incomingSequence)
      BY <1>2, <2>0, <2>9, ReceiveOrder
    <2>10. CASE UNCHANGED vars
      BY <1>2, <2>10 DEF vars, receiveVars, fateVars
    <2> QED
      BY <2>1, <2>2, <2>3, <2>4, <2>5, <2>6, <2>7, <2>8, <2>9, <2>10 DEF Next
  <1> QED
    BY <1>1, <1>3

\* The channel implements the abstract sequenced channel: what reaches the
\* parser are the messages the server sent, each at most once and in the order
\* they were sent.  A shutdown may replace the last one, which the client was
\* not handed; a kick while fragments are pending breaks the channel.
THEOREM Implements == Spec => ImplementsChannel
  <1>1. Init => Channel!Init
    BY DEF Init, Channel!Init
  <1>2. NetchanInv /\ NetchanInv' /\ [Next]_vars
          => [Channel!Next]_(Channel!channelVars)
    BY StepImplements
  <1> QED
    BY <1>1, <1>2, InvarianceSteps, PTL DEF Spec, ImplementsChannel,
                                           Channel!Spec

-----------------------------------------------------------------------------
(* What holds whether or not the client is kicked.                          *)

\* Appending a short packet to a wire keeps it so.
LEMMA ShortAppend ==
  ASSUME NEW wire \in Seq(Packet), NEW p \in Packet, WholeIsShort(p),
         \A i \in 1..Len(wire) : WholeIsShort(wire[i])
  PROVE  /\ Append(wire, p) \in Seq(Packet)
         /\ \A i \in 1..Len(Append(wire, p)) : WholeIsShort(Append(wire, p)[i])
  <1>1. /\ Append(wire, p) \in Seq(Packet)
        /\ Len(Append(wire, p)) = Len(wire) + 1
        /\ \A i \in 1..Len(wire) : Append(wire, p)[i] = wire[i]
        /\ Append(wire, p)[Len(wire) + 1] = p
    BY AppendFacts
  <1>2. ASSUME NEW i \in 1..Len(Append(wire, p))
        PROVE  WholeIsShort(Append(wire, p)[i])
    <2>1. CASE i \in 1..Len(wire)
      BY <1>1, <2>1
    <2>2. CASE i = Len(wire) + 1
      BY <1>1, <2>2
    <2> QED
      BY <1>1, <2>1, <2>2
  <1> QED
    BY <1>1, <1>2

\* The variables of the sender after a step.
SenderBounds ==
  /\ outgoingSequence \in Nat \ {0}
  /\ unsentFragments \in BOOLEAN
  /\ unsentFragmentStart \in Nat
  /\ unsentLength \in Nat
  /\ unsentBuffer \in Messages \cup {NoByte}
  /\ UnsentInv
  /\ net \in Seq(Packet)
  /\ \A i \in 1..Len(net) : WholeIsShort(net[i])

LEMMA FragmentBounds ==
  ASSUME NEW m \in Messages, NEW start \in Nat, SenderBounds,
         start <= MessageLength[m],
         unsentBuffer' = m, unsentLength' = MessageLength[m],
         SendFragment(m, MessageLength[m], start)
  PROVE  SenderBounds'
  <1>0. PICK length \in Nat : length = MessageLength[m]
    BY NetchanAssumption
  <1>1. PICK n \in Nat : n = IF start + FragmentSize > length
                            THEN length - start ELSE FragmentSize
    <2>1. FragmentSize \in Nat /\ start <= length
      BY <1>0, NetchanAssumption
    <2>2. (IF start + FragmentSize > length THEN length - start
                                            ELSE FragmentSize) \in Nat
      BY <2>1
    <2> QED
      BY <2>2
  <1>2. start + n <= length
    BY <1>0, <1>1, NetchanAssumption
  <1>3. PICK p \in Packet : p = [sequence |-> outgoingSequence,
                                fragmented |-> TRUE, start |-> start,
                                length |-> n, message |-> m]
    <2>1. outgoingSequence \in Nat \ {0}
      BY DEF SenderBounds
    <2> QED
      BY <2>1 DEF Packet
  <1>4. WholeIsShort(p)
    BY <1>3 DEF WholeIsShort
  <1>5. /\ net' = Append(net, p)
        /\ unsentFragmentStart' = start + n
        /\ unsentFragments' = ~(start + n = length /\ n # FragmentSize)
        /\ outgoingSequence' = IF start + n = length /\ n # FragmentSize
                               THEN outgoingSequence + 1
                               ELSE outgoingSequence
    BY <1>0, <1>1, <1>3 DEF SendFragment
  <1>6. /\ net' \in Seq(Packet)
        /\ \A i \in 1..Len(net') : WholeIsShort(net'[i])
    BY <1>4, <1>5, ShortAppend DEF SenderBounds
  <1>7. outgoingSequence' \in Nat \ {0} /\ unsentFragments' \in BOOLEAN
    BY <1>5 DEF SenderBounds
  <1>8. UnsentInv' /\ unsentFragmentStart' \in Nat /\ unsentLength' \in Nat
    BY <1>0, <1>2, <1>5 DEF UnsentInv
  <1> QED
    BY <1>6, <1>7, <1>8 DEF SenderBounds

LEMMA TransmitBounds ==
  ASSUME NEW m \in Messages, SenderBounds, Transmit(m)
  PROVE  SenderBounds'
  <1>1. MessageLength[m] \in Nat
    BY NetchanAssumption
  <1>2. CASE MessageLength[m] < FragmentSize
    <2>0. outgoingSequence \in Nat \ {0}
      BY DEF SenderBounds
    <2>1. PICK p \in Packet : p = [sequence |-> outgoingSequence,
                                  fragmented |-> FALSE, start |-> 0,
                                  length |-> MessageLength[m],
                                  message |-> m]
      BY <1>1, <2>0 DEF Packet
    <2>7. WholeIsShort(p)
      BY <1>2, <2>1 DEF WholeIsShort
    <2>2. /\ net' = Append(net, p)
          /\ unsentFragmentStart' = 0
          /\ outgoingSequence' = outgoingSequence + 1
          /\ unsentFragments' = unsentFragments
          /\ unsentLength' = unsentLength
          /\ unsentBuffer' = unsentBuffer
      BY <1>2, <2>1 DEF Transmit
    <2>3. /\ net' \in Seq(Packet)
          /\ \A i \in 1..Len(net') : WholeIsShort(net'[i])
      BY <2>2, <2>7, ShortAppend DEF SenderBounds
    <2>4. UnsentInv'
      BY <2>2, NetchanAssumption DEF SenderBounds, UnsentInv
    <2>5. unsentFragments' \in BOOLEAN
      BY <2>2 DEF SenderBounds
    <2>6. /\ outgoingSequence' \in Nat \ {0} /\ unsentFragmentStart' \in Nat
          /\ unsentLength' \in Nat
          /\ unsentBuffer' \in Messages \cup {NoByte}
      BY <2>2 DEF SenderBounds
    <2> QED
      BY <2>3, <2>4, <2>5, <2>6 DEF SenderBounds
  <1>3. CASE ~(MessageLength[m] < FragmentSize)
    <2>1. 0 \in Nat /\ 0 <= MessageLength[m]
      BY <1>1
    <2> QED
      BY <1>3, <2>1, FragmentBounds DEF Transmit
  <1> QED
    BY <1>2, <1>3

LEMMA NextFragmentBounds ==
  ASSUME SenderBounds, unsentFragments, TransmitNextFragment
  PROVE  SenderBounds'
  <1>1. /\ unsentBuffer \in Messages
        /\ unsentLength = MessageLength[unsentBuffer]
        /\ unsentFragmentStart <= MessageLength[unsentBuffer]
        /\ unsentFragmentStart \in Nat
    BY DEF SenderBounds, UnsentInv
  <1> QED
    BY <1>1, FragmentBounds DEF TransmitNextFragment

\* The receiver's side: it collects what fits, and rebuilds what fits.
LEMMA ProcessBounds ==
  ASSUME ReceiverTypes, ReassemblyInBounds, NEW p \in Packet,
         WholeIsShort(p), Process(p)
  PROVE  ReceiverTypes' /\ ReassemblyInBounds'
  <1>1. /\ p.sequence \in Nat /\ p.length \in Nat /\ p.start \in Nat
        /\ p.message \in Messages
        /\ FragmentSize \in Nat /\ FragmentBufferSize \in Nat
        /\ PrefixSize \in Nat /\ MsgMaxSize \in Nat
    BY NetchanAssumption DEF Packet
  <1>2. Collected(p) \in Nat /\ Collected(p) <= FragmentBufferSize
    BY <1>1 DEF Collected, ReceiverTypes, ReassemblyInBounds
  <1>3. Total(p) \in Nat
    BY <1>1, <1>2 DEF Total
  <1>4. CASE ProcessWhole(p)
    <2>1. /\ incomingSequence' = p.sequence
          /\ delivered' = [i \in 0..p.length - 1 |-> ByteOf(p.message, i)]
          /\ fragmentSequence' = fragmentSequence
          /\ fragmentLength' = fragmentLength
          /\ fragmentBuffer' = fragmentBuffer
          /\ p.length < FragmentSize
      BY <1>4 DEF ProcessWhole, HandOver, WholeIsShort
    <2>2. DOMAIN delivered' = 0..p.length - 1
      BY <2>1
    <2>3. ReassemblyInBounds'
      BY <1>1, <2>1, <2>2 DEF ReassemblyInBounds
    <2> QED
      BY <1>1, <2>1, <2>3 DEF ReceiverTypes
  <1>5. ASSUME fragmentBuffer' = Joined(p)
        PROVE  fragmentBuffer' \in [0..FragmentBufferSize - 1 ->
                                     (Messages \X Nat) \cup {NoByte}]
    BY <1>1, <1>2, <1>5, CopiedBytes DEF Joined, ReceiverTypes
  <1>6. CASE ProcessFragment(p) /\ DropFragment(p)
    BY <1>1, <1>2, <1>6
    DEF ProcessFragment, DropFragment, ReceiverTypes, ReassemblyInBounds
  <1>7. CASE ProcessFragment(p) /\ CollectFragment(p)
    <2>1. /\ Total(p) <= FragmentBufferSize
          /\ fragmentBuffer' = Joined(p)
          /\ fragmentLength' = Total(p)
          /\ fragmentSequence' = p.sequence
          /\ incomingSequence' = incomingSequence
          /\ delivered' = delivered
      BY <1>7 DEF ProcessFragment, CollectFragment, Fits
    <2> QED
      BY <1>1, <1>3, <1>5, <2>1 DEF ReceiverTypes, ReassemblyInBounds
  <1>8. CASE ProcessFragment(p) /\ CompleteMessage(p)
    <2>1. /\ MsgMaxSize >= PrefixSize
          /\ Total(p) <= MsgMaxSize - PrefixSize
          /\ fragmentBuffer' = Joined(p)
          /\ fragmentLength' = 0
          /\ fragmentSequence' = p.sequence
          /\ incomingSequence' = p.sequence
          /\ delivered' = [i \in 0..Total(p) - 1 |-> Joined(p)[i]]
      BY <1>8 DEF ProcessFragment, CompleteMessage, Completes, HandOver,
                  ReassembledSpanFits
    <2>2. DOMAIN delivered' = 0..Total(p) - 1
      BY <2>1
    <2>3. ReassemblyInBounds'
      BY <1>1, <1>3, <2>1, <2>2 DEF ReassemblyInBounds
    <2> QED
      BY <1>1, <1>5, <2>1, <2>3 DEF ReceiverTypes
  <1>9. CASE ProcessOutOfOrder(p)
    BY <1>9 DEF ProcessOutOfOrder, receiveVars, ReceiverTypes,
                ReassemblyInBounds
  <1> QED
    BY <1>4, <1>6, <1>7, <1>8, <1>9 DEF Process, ProcessFragment

LEMMA BoundsSteps ==
  ASSUME BoundsInv, [Next]_vars
  PROVE  BoundsInv'
  <1>1. SenderBounds /\ ReceiverTypes /\ ReassemblyInBounds
    BY DEF BoundsInv, TypeOK, SenderBounds, ReceiverTypes
  <1>2. /\ sendingGameState \in BOOLEAN /\ {kicked, interrupted} \subseteq BOOLEAN
        /\ stable \in BOOLEAN /\ unsentFragments \in BOOLEAN
        /\ {finalMessages, finalSequence} \subseteq Nat
    BY DEF BoundsInv, TypeOK
  <1>3. sent \in Seq(Messages) /\ sentStable \subseteq Nat
        /\ outgoingSequence \in Nat \ {0}
    BY DEF BoundsInv, TypeOK
  <1>4. /\ sendingGameState' \in BOOLEAN /\ {kicked', interrupted'} \subseteq BOOLEAN
        /\ stable' \in BOOLEAN /\ {finalMessages', finalSequence'} \subseteq Nat
    <2>1. CASE \E m \in Messages : KickUnpureClient(m)
      BY <1>2, <2>1 DEF KickUnpureClient
    <2>2. CASE \E m \in Messages : FinalMessage(m)
      <3>1. finalMessages' = finalMessages + 1
            /\ finalSequence' \in {outgoingSequence, finalSequence}
        BY <2>2 DEF FinalMessage
      <3>2. {finalMessages', finalSequence'} \subseteq Nat
        BY <1>2, <1>3, <3>1
      <3> QED
        BY <1>2, <2>2, <3>2 DEF FinalMessage
    <2>3. CASE /\ UNCHANGED fateVars
               /\ sendingGameState' \in BOOLEAN /\ stable' \in BOOLEAN
      BY <1>2, <2>3 DEF fateVars
    <2> QED
      BY <1>2, <2>1, <2>2, <2>3
      DEF Next, SendClientMessage, SendGameState, SendClientFragment,
          BeginGameState, WithholdGameState, DrainFragment, Receive, Stabilize,
          vars
  <1>5. CASE \E m \in Messages :
               Transmit(m) /\ UNCHANGED receiveVars
    <2>1. PICK m \in Messages : Transmit(m) /\ UNCHANGED receiveVars
      BY <1>5
    <2>2. SenderBounds'
      BY <1>1, <2>1, TransmitBounds
    <2>3. sent' \in Seq(Messages) /\ sentStable' \subseteq Nat
      <3>1. sent' = Logged(m)
        BY <2>1 DEF Transmit
      <3>2. sent' \in Seq(Messages)
        <4>1. CASE Len(sent) = outgoingSequence
          BY <1>3, <3>1, <4>1 DEF Logged
        <4>2. CASE Len(sent) # outgoingSequence
          BY <1>3, <3>1, <4>2, AppendFacts DEF Logged
        <4> QED
          BY <4>1, <4>2
      <3> QED
        BY <1>3, <2>1, <3>2 DEF Transmit
    <2>4. ReceiverTypes' /\ ReassemblyInBounds'
      BY <1>1, <2>1 DEF receiveVars, ReceiverTypes, ReassemblyInBounds
    <2> QED
      BY <1>4, <2>2, <2>3, <2>4
      DEF BoundsInv, TypeOK, SenderBounds, ReceiverTypes
  <1>6. CASE unsentFragments /\ TransmitNextFragment /\ UNCHANGED receiveVars
    <2>1. SenderBounds'
      BY <1>1, <1>6, NextFragmentBounds
    <2>2. sent' \in Seq(Messages) /\ sentStable' \subseteq Nat
      BY <1>3, <1>6 DEF TransmitNextFragment
    <2>3. ReceiverTypes' /\ ReassemblyInBounds'
      BY <1>1, <1>6 DEF receiveVars, ReceiverTypes, ReassemblyInBounds
    <2> QED
      BY <1>4, <2>1, <2>2, <2>3
      DEF BoundsInv, TypeOK, SenderBounds, ReceiverTypes
  <1>7. CASE /\ UNCHANGED <<sendVars, receiveVars, sent, sentStable>>
             /\ net' = net \/ net' = << >>
    <2>1. /\ net' \in Seq(Packet)
          /\ \A i \in 1..Len(net') : WholeIsShort(net'[i])
      <3>1. CASE net' = net
        BY <1>1, <3>1 DEF SenderBounds
      <3>2. CASE net' = << >>
        BY <3>2
      <3> QED
        BY <1>7, <3>1, <3>2
    <2>2. SenderBounds'
      BY <1>1, <1>7, <2>1 DEF sendVars, SenderBounds, UnsentInv
    <2>3. ReceiverTypes' /\ ReassemblyInBounds'
      BY <1>1, <1>7 DEF receiveVars, ReceiverTypes, ReassemblyInBounds
    <2>4. sent' \in Seq(Messages) /\ sentStable' \subseteq Nat
      BY <1>3, <1>7
    <2> QED
      BY <1>4, <2>2, <2>3, <2>4
      DEF BoundsInv, TypeOK, SenderBounds, ReceiverTypes
  <1>8. CASE Receive
    <2>1. PICK i \in 1..Len(net) :
            /\ IF stable THEN i = 1 /\ net' = Tail(net) ELSE net' = net
            /\ Process(net[i])
            /\ UNCHANGED <<sendVars, sent, sentStable>>
      BY <1>8 DEF Receive
    <2>2. net[i] \in Packet /\ WholeIsShort(net[i])
      BY <1>1 DEF SenderBounds
    <2>3. ReceiverTypes' /\ ReassemblyInBounds'
      BY <1>1, <2>1, <2>2, ProcessBounds
    <2>4. /\ net' \in Seq(Packet)
          /\ \A j \in 1..Len(net') : WholeIsShort(net'[j])
      <3>1. CASE net' = net
        BY <1>1, <3>1 DEF SenderBounds
      <3>2. CASE net' = Tail(net) /\ net # << >>
        <4>1. /\ net' \in Seq(Packet)
              /\ Len(net') = Len(net) - 1
              /\ \A j \in 1..Len(net') : net'[j] = net[j + 1]
          BY <1>1, <3>2 DEF SenderBounds
        <4> QED
          BY <1>1, <4>1 DEF SenderBounds
      <3>3. net # << >>
        BY <2>1
      <3> QED
        BY <2>1, <3>1, <3>2, <3>3
    <2>5. SenderBounds'
      BY <1>1, <2>1, <2>4 DEF sendVars, SenderBounds, UnsentInv
    <2>6. sent' \in Seq(Messages) /\ sentStable' \subseteq Nat
      BY <1>3, <2>1
    <2> QED
      BY <1>4, <2>3, <2>5, <2>6
      DEF BoundsInv, TypeOK, SenderBounds, ReceiverTypes
  <1> QED
    BY <1>5, <1>6, <1>7, <1>8
    DEF Next, SendClientMessage, SendGameState, KickUnpureClient,
        FinalMessage, SendClientFragment, BeginGameState, WithholdGameState,
        DrainFragment, Stabilize, vars

LEMMA InitBounds == Init => BoundsInv
  <1> SUFFICES ASSUME Init PROVE BoundsInv
    OBVIOUS
  <1>1. TypeOK
    BY InitInv DEF IntactInv
  <1>2. UnsentInv /\ \A i \in 1..Len(net) : WholeIsShort(net[i])
    BY DEF Init, UnsentInv
  <1>3. ReassemblyInBounds
    BY NetchanAssumption DEF Init, ReassemblyInBounds
  <1> QED
    BY <1>1, <1>2, <1>3 DEF BoundsInv

\* Every variable keeps its type, whether or not a client is kicked: lengths
\* and offsets are never negative.
THEOREM TypeCorrect == Spec => []TypeOK
  <1>1. BoundsInv => TypeOK
    BY DEF BoundsInv
  <1> QED
    BY <1>1, InitBounds, BoundsSteps, PTL DEF Spec

\* The reassembly memory and the buffer a message is rebuilt in are never
\* overrun, whatever the sizes, the messages and the wire, kick or no kick.
THEOREM InBounds == Spec => []ReassemblyInBounds
  <1>1. BoundsInv => ReassemblyInBounds
    BY DEF BoundsInv
  <1> QED
    BY <1>1, InitBounds, BoundsSteps, PTL DEF Spec

=============================================================================
