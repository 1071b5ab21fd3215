------------------------------- MODULE Netchan -------------------------------
(***************************************************************************)
(* One direction of a net channel (qcommon/net_chan_mp.cpp) between the    *)
(* server, which sends, and one client, which receives.  A message of at   *)
(* least FragmentSize bytes travels as fragments that all carry the same   *)
(* sequence number; the one that is shorter than FragmentSize, possibly    *)
(* empty, ends the message.  The wire loses, duplicates and reorders       *)
(* packets.                                                                *)
(*                                                                         *)
(* The server sends from four places, and each treats a message that is    *)
(* still being fragmented in its own way: the frame loop sends one more    *)
(* fragment, a gamestate first drains the fragments, and neither the kick  *)
(* of a client that fails the pure check nor the final messages of a       *)
(* server that shuts down do either.                                       *)
(***************************************************************************)
EXTENDS Integers, Sequences

CONSTANTS
  Messages,            \* the messages the server may send
  MessageLength,       \* [Messages -> Nat]: their lengths in bytes
  FragmentSize,        \* payload bytes of a full fragment (1300 in the code)
  FragmentBufferSize,  \* netchan_t.fragmentBufferSize of the receiver
  MsgMaxSize,          \* msg_t.maxsize of the buffer a message is rebuilt in
  PrefixSize,          \* NETCHAN_REASSEMBLY_PREFIX_SIZE (4 in the code)
  NoByte,              \* content of reassembly memory not written yet
  SvPure,              \* the dvar sv_pure
  FinalMessages,       \* final messages to a client at shutdown (2 in the
                       \* code), or 0 for a server that never shuts down
  MaxSequence          \* bound of the model: messages the server sends

ASSUME NetchanAssumption ==
  /\ MessageLength \in [Messages -> Nat]
  /\ FragmentSize \in Nat \ {0}
  /\ FragmentBufferSize \in Nat
  /\ MsgMaxSize \in Nat
  /\ PrefixSize \in Nat
  /\ MaxSequence \in Nat
  /\ SvPure \in BOOLEAN
  /\ FinalMessages \in Nat
  /\ NoByte \notin Messages \X Nat

VARIABLES
  \* the server's netchan_t
  outgoingSequence,
  unsentFragments,
  unsentFragmentStart,
  unsentLength,
  unsentBuffer,        \* the message copied into the unsent buffer, or NoByte
  sendingGameState,    \* SV_SendClientGameState is draining fragments
  kicked,              \* the client was dropped by the pure check
  finalMessages,       \* rounds of SV_FinalMessage done
  \* the client's netchan_t
  incomingSequence,
  fragmentSequence,
  fragmentLength,
  fragmentBuffer,
  \* the wire
  net,                 \* packets under way, in the order they were sent
  stable,              \* from now on the wire is reliable and ordered
  \* history
  sent,                \* the message last transmitted under each number
  interrupted,         \* the kick came while fragments were pending
  finalSequence,       \* the number of the first final message, or 0
  sentStable,          \* the numbers of those sent over the stable wire
  delivered            \* the bytes of the message last handed over

sendVars == <<outgoingSequence, unsentFragments, unsentFragmentStart,
              unsentLength, unsentBuffer>>
receiveVars == <<incomingSequence, fragmentSequence, fragmentLength,
                 fragmentBuffer, delivered>>
fateVars == <<kicked, interrupted, finalMessages, finalSequence>>
vars == <<sendVars, sendingGameState, fateVars, receiveVars, net, stable, sent,
          sentStable>>

-----------------------------------------------------------------------------

\* Byte i of message m; Payload(m) is what an intact delivery hands over.
ByteOf(m, i) == <<m, i>>
Payload(m) == [i \in 0..MessageLength[m] - 1 |-> ByteOf(m, i)]

Packet ==
  [sequence : Nat, fragmented : BOOLEAN, start : Nat, length : Nat,
   message : Messages]

Init ==
  /\ outgoingSequence = 1
  /\ unsentFragments = FALSE
  /\ unsentFragmentStart = 0
  /\ unsentLength = 0
  /\ unsentBuffer = NoByte
  /\ sendingGameState = FALSE
  /\ kicked = FALSE
  /\ interrupted = FALSE
  /\ finalMessages = 0
  /\ finalSequence = 0
  /\ incomingSequence = 0
  /\ fragmentSequence = 0
  /\ fragmentLength = 0
  /\ fragmentBuffer = [i \in 0..FragmentBufferSize - 1 |-> NoByte]
  /\ net = << >>
  /\ stable = FALSE
  /\ sent = << >>
  /\ sentStable = {}
  /\ delivered = << >>

-----------------------------------------------------------------------------
(* The sender. *)

\* One fragment of the length bytes of m, from offset start on.  The message
\* ends with the first fragment that is not full, so a multiple of
\* FragmentSize is followed by an empty one.
SendFragment(m, length, start) ==
  LET n == IF start + FragmentSize > length THEN length - start
                                            ELSE FragmentSize
      last == start + n = length /\ n # FragmentSize
  IN  /\ net' = Append(net, [sequence |-> outgoingSequence,
                             fragmented |-> TRUE, start |-> start,
                             length |-> n, message |-> m])
      /\ unsentFragmentStart' = start + n
      /\ unsentFragments' = ~last
      /\ outgoingSequence' = IF last THEN outgoingSequence + 1
                                     ELSE outgoingSequence

TransmitNextFragment ==
  /\ SendFragment(unsentBuffer, unsentLength, unsentFragmentStart)
  /\ UNCHANGED <<unsentLength, unsentBuffer, sent, sentStable>>

\* The log with m under the current number.  A message that is still being
\* fragmented has not used its number up, and gives it to m.
Logged(m) ==
  IF Len(sent) = outgoingSequence
  THEN [sent EXCEPT ![outgoingSequence] = m]
  ELSE Append(sent, m)

Transmit(m) ==
  /\ outgoingSequence <= MaxSequence
  /\ sent' = Logged(m)
  /\ sentStable' = IF stable THEN sentStable \cup {outgoingSequence}
                             ELSE sentStable
  /\ IF MessageLength[m] < FragmentSize
     THEN /\ net' = Append(net, [sequence |-> outgoingSequence,
                                 fragmented |-> FALSE, start |-> 0,
                                 length |-> MessageLength[m],
                                 message |-> m])
          /\ unsentFragmentStart' = 0
          /\ outgoingSequence' = outgoingSequence + 1
          /\ UNCHANGED <<unsentFragments, unsentLength, unsentBuffer>>
     ELSE /\ unsentLength' = MessageLength[m]
          /\ unsentBuffer' = m
          /\ SendFragment(m, MessageLength[m], 0)

\* The frame loop: SV_SendClientMessages sends a snapshot unless a message is
\* still being fragmented, in which case it sends its next fragment.
SendClientMessage(m) ==
  /\ finalMessages = 0
  /\ ~sendingGameState
  /\ ~unsentFragments
  /\ Transmit(m)
  /\ UNCHANGED <<sendingGameState, fateVars, receiveVars, stable>>

SendClientFragment ==
  /\ finalMessages = 0
  /\ ~sendingGameState
  /\ unsentFragments
  /\ TransmitNextFragment
  /\ UNCHANGED <<sendingGameState, fateVars, receiveVars, stable>>

\* SV_SendClientGameState drains the fragments, then sends, unless the client's
\* stats are not complete.  The server does nothing else for this client in
\* between; the wire and the client do.
BeginGameState ==
  /\ finalMessages = 0
  /\ ~sendingGameState
  /\ ~kicked
  /\ outgoingSequence < MaxSequence
  /\ sendingGameState' = TRUE
  /\ UNCHANGED <<sendVars, fateVars, receiveVars, net, stable, sent,
                 sentStable>>

DrainFragment ==
  /\ sendingGameState
  /\ unsentFragments
  /\ TransmitNextFragment
  /\ UNCHANGED <<sendingGameState, fateVars, receiveVars, stable>>

SendGameState(m) ==
  /\ sendingGameState
  /\ ~unsentFragments
  /\ Transmit(m)
  /\ sendingGameState' = FALSE
  /\ UNCHANGED <<fateVars, receiveVars, stable>>

WithholdGameState ==
  /\ sendingGameState
  /\ ~unsentFragments
  /\ sendingGameState' = FALSE
  /\ UNCHANGED <<sendVars, fateVars, receiveVars, net, stable, sent,
                 sentStable>>

\* SV_ExecuteClientMessage kicks a client that failed the pure check and
\* sends it a last snapshot at once, whether or not fragments are pending.
KickUnpureClient(m) ==
  /\ SvPure
  /\ finalMessages = 0
  /\ ~sendingGameState
  /\ ~kicked
  /\ Transmit(m)
  /\ kicked' = TRUE
  /\ interrupted' = unsentFragments
  /\ UNCHANGED <<sendingGameState, finalMessages, finalSequence, receiveVars,
                 stable>>

\* SV_FinalMessage, one round for a client that was not dropped: whether or not
\* fragments are pending, and nothing is sent after the last round.  An error
\* while a gamestate is built, its fragments drained, shuts the server down too.
FinalMessage(m) ==
  /\ finalMessages < FinalMessages
  /\ ~kicked
  /\ sendingGameState => ~unsentFragments
  /\ Transmit(m)
  /\ finalMessages' = finalMessages + 1
  /\ finalSequence' = IF finalMessages = 0 THEN outgoingSequence
                                           ELSE finalSequence
  /\ sendingGameState' = FALSE
  /\ UNCHANGED <<kicked, interrupted, receiveVars, stable>>

-----------------------------------------------------------------------------
(* The receiver: Netchan_Process. *)

\* The check before it counted the prefix.
PayloadFits(length) == length <= MsgMaxSize

\* Netchan_ReassembledSpanFits
ReassembledSpanFits(length) ==
  /\ MsgMaxSize >= PrefixSize
  /\ length <= MsgMaxSize - PrefixSize

\* The memory after n bytes of m from offset start were copied to offset at.
CopyBytes(buffer, at, m, start, n) ==
  [i \in DOMAIN buffer |->
     IF i \in at..at + n - 1 THEN ByteOf(m, start + i - at) ELSE buffer[i]]

HandOver(sequence, bytes) ==
  /\ incomingSequence' = sequence
  /\ delivered' = bytes

ProcessWhole(p) ==
  /\ ~p.fragmented
  /\ p.sequence > incomingSequence
  /\ HandOver(p.sequence, [i \in 0..p.length - 1 |-> ByteOf(p.message, i)])
  /\ UNCHANGED <<fragmentSequence, fragmentLength, fragmentBuffer>>

\* A faulty receiver that keeps what it collected for another number.
KeptAcrossSequences(p) == fragmentLength

\* The bytes already collected for the sequence number of p.
Collected(p) == IF p.sequence = fragmentSequence THEN fragmentLength ELSE 0

\* The bytes collected once p is added, and the memory that holds them.
Total(p) == Collected(p) + p.length
Joined(p) == CopyBytes(fragmentBuffer, Collected(p), p.message, p.start, p.length)

\* A faulty receiver that appends fragments wherever they start.
FitsAnywhere(p) == Total(p) <= FragmentBufferSize

\* p continues the bytes collected and does not overrun the buffer.
Fits(p) ==
  /\ p.start = Collected(p)
  /\ Total(p) <= FragmentBufferSize

\* A faulty receiver that takes an empty fragment for no end.
CompletesNonEmpty(p) ==
  p.length \in 1..FragmentSize - 1 /\ ReassembledSpanFits(Total(p))

\* p ends a message that can be rebuilt in the message buffer.
Completes(p) == p.length # FragmentSize /\ ReassembledSpanFits(Total(p))

DropFragment(p) ==
  /\ ~Fits(p)
  /\ fragmentLength' = Collected(p)
  /\ UNCHANGED <<incomingSequence, fragmentBuffer, delivered>>

CollectFragment(p) ==
  /\ Fits(p)
  /\ ~Completes(p)
  /\ fragmentBuffer' = Joined(p)
  /\ fragmentLength' = Total(p)
  /\ UNCHANGED <<incomingSequence, delivered>>

CompleteMessage(p) ==
  /\ Fits(p)
  /\ Completes(p)
  /\ fragmentBuffer' = Joined(p)
  /\ fragmentLength' = 0
  /\ HandOver(p.sequence, [i \in 0..Total(p) - 1 |-> Joined(p)[i]])

\* A faulty receiver that collects fragments of numbers already passed.
ProcessLateFragment(p) ==
  /\ p.fragmented
  /\ fragmentSequence' = p.sequence
  /\ DropFragment(p) \/ CollectFragment(p) \/ CompleteMessage(p)

ProcessFragment(p) ==
  /\ p.fragmented
  /\ p.sequence > incomingSequence
  /\ fragmentSequence' = p.sequence
  /\ DropFragment(p) \/ CollectFragment(p) \/ CompleteMessage(p)

ProcessOutOfOrder(p) ==
  /\ p.sequence <= incomingSequence
  /\ UNCHANGED receiveVars

Process(p) == ProcessWhole(p) \/ ProcessFragment(p) \/ ProcessOutOfOrder(p)

-----------------------------------------------------------------------------
(* The wire. *)

\* An unstable wire hands over any packet, in any order and again and again;
\* a packet it never hands over is lost.  A stable one hands over the oldest.
Receive ==
  \E i \in 1..Len(net) :
    /\ IF stable THEN i = 1 /\ net' = Tail(net) ELSE net' = net
    /\ Process(net[i])
    /\ UNCHANGED <<sendVars, sendingGameState, fateVars, stable, sent,
                   sentStable>>

\* The wire loses whatever is under way and is reliable from then on.
Stabilize ==
  /\ ~stable
  /\ stable' = TRUE
  /\ net' = << >>
  /\ UNCHANGED <<sendVars, sendingGameState, fateVars, receiveVars, sent,
                 sentStable>>

Next ==
  \/ \E m \in Messages :
       \/ SendClientMessage(m) \/ SendGameState(m)
       \/ KickUnpureClient(m) \/ FinalMessage(m)
  \/ SendClientFragment
  \/ BeginGameState
  \/ WithholdGameState
  \/ DrainFragment
  \/ Receive
  \/ Stabilize

Spec == Init /\ [][Next]_vars

\* The server runs a frame again and again, its loops terminate, and a stable
\* wire hands its packets over; no message need ever be sent.
Fairness ==
  /\ WF_vars(SendClientFragment)
  /\ WF_vars(DrainFragment)
  /\ WF_vars(stable /\ Receive)

FairSpec == Spec /\ Fairness

-----------------------------------------------------------------------------
(* Properties. *)

\* The values of the two netchan_t, of the wire and of the history.
TypeOK ==
  /\ outgoingSequence \in Nat \ {0}
  /\ unsentFragments \in BOOLEAN
  /\ unsentFragmentStart \in Nat
  /\ unsentLength \in Nat
  /\ unsentBuffer \in Messages \cup {NoByte}
  /\ sendingGameState \in BOOLEAN
  /\ {kicked, interrupted} \subseteq BOOLEAN
  /\ {finalMessages, finalSequence} \subseteq Nat
  /\ incomingSequence \in Nat
  /\ fragmentSequence \in Nat
  /\ fragmentLength \in Nat
  /\ fragmentBuffer
       \in [0..FragmentBufferSize - 1 -> (Messages \X Nat) \cup {NoByte}]
  /\ net \in Seq(Packet)
  /\ stable \in BOOLEAN
  /\ sent \in Seq(Messages)
  /\ sentStable \subseteq Nat

\* The message handed to the client's parser under a number is, byte for
\* byte, the one the server transmitted under that number, the last one if the
\* final message took it over: Netchan_Process never joins fragments of two
\* messages or leaves a hole.
Intact ==
  incomingSequence > 0 =>
    /\ incomingSequence <= Len(sent)
    /\ delivered = Payload(sent[incomingSequence])

\* Only the kick of an unpure client while fragments are pending breaks the
\* channel of that client; the final messages of a shutdown do not.
IntactDelivery == interrupted \/ Intact

\* Whatever is handed to the parser is some one message the server built:
\* fragments of two messages are never joined into a third.
OneMessageRebuilt ==
  incomingSequence > 0 => \E m \in Messages : delivered = Payload(m)

\* The reassembly memory is never overrun: neither by the fragments collected
\* so far, nor, when a fragmented message is rebuilt in the message buffer, by
\* its bytes and the sequence prefix written ahead of them.
ReassemblyInBounds ==
  /\ fragmentLength <= FragmentBufferSize
  /\ \A i \in DOMAIN delivered :
       i + 1 >= FragmentSize => i + 1 + PrefixSize <= MsgMaxSize

-----------------------------------------------------------------------------
(* The strengthening that makes IntactDelivery inductive.                   *)

\* From the first final message on no fragmented message is sent to its end:
\* what was pending then, and the final messages themselves.
GivenUp(sequence, final) == final \in 1..sequence

\* Of the number that is not used up yet only full fragments are under way.
OpenInv ==
  \A i \in 1..Len(net) :
    net[i].sequence = outgoingSequence =>
      net[i].fragmented /\ net[i].length = FragmentSize

\* The cursor of the message being fragmented.
CursorInv ==
  /\ unsentFragments <=> Len(sent) = outgoingSequence
  /\ unsentFragments =>
       /\ unsentBuffer = sent[outgoingSequence]
       /\ unsentLength = MessageLength[unsentBuffer]
       /\ unsentFragmentStart <= unsentLength

\* A number is held by the message being fragmented until it is used up, and
\* nothing of it is handed over before.
SenderInv ==
  /\ Len(sent) \in {outgoingSequence - 1, outgoingSequence}
  /\ incomingSequence < outgoingSequence
  /\ OpenInv
  /\ finalSequence <= outgoingSequence
  /\ finalMessages = 0 <=> finalSequence = 0
  /\ sendingGameState => finalMessages = 0
  /\ finalMessages = 0 => CursorInv

\* A packet carries a part of the message logged under its number, and a
\* fragment that is not full carries its end; or it is a full fragment of a
\* message that is never completed.
SoundPacket(p, log, final) ==
  /\ p.sequence \in 1..Len(log)
  /\ IF p.fragmented /\ GivenUp(p.sequence, final)
     THEN p.length = FragmentSize
     ELSE /\ p.message = log[p.sequence]
          /\ IF p.fragmented
             THEN /\ p.start + p.length <= MessageLength[p.message]
                  /\ p.length # FragmentSize =>
                       p.start + p.length = MessageLength[p.message]
             ELSE p.length = MessageLength[p.message]

WireInv == \A i \in 1..Len(net) : SoundPacket(net[i], sent, finalSequence)

\* The bytes collected are the first ones of the message being collected, if
\* it may be completed.
ReceiverInv ==
  /\ fragmentLength <= FragmentBufferSize
  /\ fragmentLength > 0 =>
       /\ fragmentSequence \in 1..Len(sent)
       /\ ~GivenUp(fragmentSequence, finalSequence) =>
            /\ fragmentLength <= MessageLength[sent[fragmentSequence]]
            /\ \A i \in 0..fragmentLength - 1 :
                 fragmentBuffer[i] = ByteOf(sent[fragmentSequence], i)

IntactInv ==
  /\ TypeOK
  /\ SenderInv
  /\ WireInv
  /\ ReceiverInv
  /\ Intact

\* Unless a kick came while fragments were pending, the sender's fragment
\* cursor, every packet on the wire and the bytes collected by the receiver
\* agree with the log of the messages sent.
NetchanInv == (interrupted => kicked) /\ (interrupted \/ IntactInv)

\* What a kick does not break either: a message being fragmented is one of the
\* server's, the cursor is inside it, and what travels whole is short.
UnsentInv ==
  unsentFragments =>
    /\ unsentBuffer \in Messages
    /\ unsentLength = MessageLength[unsentBuffer]
    /\ unsentFragmentStart <= unsentLength

WholeIsShort(p) == p.fragmented \/ p.length < FragmentSize

BoundsInv ==
  /\ TypeOK
  /\ UnsentInv
  /\ \A i \in 1..Len(net) : WholeIsShort(net[i])
  /\ ReassemblyInBounds

-----------------------------------------------------------------------------

\* The abstract channel this one implements, until a kick breaks it or the
\* server closes it.
Channel ==
  INSTANCE SequencedChannel WITH
    Messages <- Messages,
    Payload <- Payload,
    sent <- sent,
    incomingSequence <- incomingSequence,
    delivered <- delivered,
    closing <- finalSequence > 0,
    broken <- interrupted

\* Seen from the code above it, Netchan_Transmit and Netchan_Process are the
\* abstract sequenced channel.
ImplementsChannel == Channel!Spec

\* A message the client can rebuild: whole, or within the two buffers.
Rebuildable(m) ==
  \/ MessageLength[m] < FragmentSize
  \/ /\ MessageLength[m] <= FragmentBufferSize
     /\ ReassembledSpanFits(MessageLength[m])

Expected(s) == s <= Len(sent) /\ s \in sentStable /\ Rebuildable(sent[s])

\* However the wire behaved before, a message sent once it is reliable and
\* that the client can rebuild is handed over: leftovers of a message that
\* never completed do not wedge the channel.  Unless the client is kicked or
\* the server shuts down.
DeliveryOnceStable ==
  \A s \in 1..MaxSequence :
    Expected(s) ~> incomingSequence >= s \/ kicked \/ finalMessages > 0

=============================================================================
