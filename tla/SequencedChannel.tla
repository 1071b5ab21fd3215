-------------------------- MODULE SequencedChannel --------------------------
(***************************************************************************)
(* What the sequenced channel of net_chan_mp.cpp promises to the code      *)
(* above it.  Messages are numbered in the order they are accepted; the    *)
(* receiver is handed complete messages only, each the very message        *)
(* accepted under the number it carries, in increasing order of that       *)
(* number and hence at most once.  Messages may be lost: this is a         *)
(* datagram service.  A sender that closes its channel may give up its     *)
(* last message for another one.  A sender may also break its channel, for *)
(* good.                                                                   *)
(***************************************************************************)
EXTENDS Integers, Sequences

CONSTANTS
  Messages,       \* the messages the sender may hand over
  Payload(_)      \* the bytes of a message, as the receiver sees them

VARIABLES
  sent,             \* the messages accepted so far, in order of number
  closing,          \* the sender is closing the channel
  incomingSequence, \* the number of the last message handed to the receiver
  delivered,        \* the bytes of that message, or << >> before the first
  broken            \* the sender has broken the channel

channelVars == <<sent, closing, incomingSequence, delivered, broken>>

Init ==
  /\ sent = << >>
  /\ closing = FALSE
  /\ incomingSequence = 0
  /\ delivered = << >>
  /\ broken = FALSE

\* The sender hands over message m, perhaps as its first one in closing.
Accept(m) ==
  /\ sent' = Append(sent, m)
  /\ closing' \in BOOLEAN
  /\ closing => closing'
  /\ UNCHANGED <<incomingSequence, delivered, broken>>

\* In closing, m takes the place of the last message, which the receiver was
\* not handed and will not be.
Supersede(m) ==
  /\ incomingSequence < Len(sent)
  /\ sent' = [sent EXCEPT ![Len(sent)] = m]
  /\ closing' = TRUE
  /\ UNCHANGED <<incomingSequence, delivered, broken>>

\* The receiver is handed a message newer than every one it has seen.
Deliver ==
  \E s \in 1..Len(sent) :
    /\ s > incomingSequence
    /\ incomingSequence' = s
    /\ delivered' = Payload(sent[s])
    /\ UNCHANGED <<sent, closing, broken>>

\* Nothing is promised from here on.
Break == broken' = TRUE

Next == Deliver \/ Break \/ \E m \in Messages : Accept(m) \/ Supersede(m)

Spec == Init /\ [][Next]_channelVars

=============================================================================
