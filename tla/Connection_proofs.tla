--------------------------- MODULE Connection_proofs ---------------------------
(***************************************************************************)
(* Proofs about Connection, for every number of slots and all times that   *)
(* satisfy TimeAssumption.                                                 *)
(***************************************************************************)
EXTENDS Connection, TLAPS

Packets == [kind : Kinds, age : 0..MaxDelay, current : BOOLEAN]

SlotRecords ==
  [state : SlotStates, mine : BOOLEAN,
   connectAge : 0..ReconnectLimit, packetAge : 0..Oldest,
   stats : BOOLEAN, notice : BOOLEAN, timeoutCount : 0..TimeoutFrames]

LEMMA Times ==
  /\ MaxSlots \in Nat \ {0} /\ MaxDelay \in Nat \ {0} /\ MaxAttempts \in Nat
  /\ ReconnectLimit \in Nat /\ ZombieTime \in Nat /\ Timeout \in Nat
  /\ ConnectTimeout \in Nat /\ TimeoutFrames \in Nat /\ QuietTime \in Nat
  /\ ClientTimeout \in Nat
  /\ 2 * MaxDelay < ReconnectLimit /\ 2 * MaxDelay <= ZombieTime
  /\ Oldest \in Nat /\ Oldest > ConnectTimeout /\ Oldest > ZombieTime
  /\ Gone \in Nat /\ Gone = MaxDelay + Oldest + TimeoutFrames + 1
BY TimeAssumption DEF Oldest, Gone

-----------------------------------------------------------------------------
(* The wire.                                                                 *)

LEMMA PutFacts ==
  ASSUME NEW wire, NEW p, NEW q \in Put(wire, p)
  PROVE  q \in wire \/ q = p
BY DEF Put

LEMMA TakenFacts ==
  ASSUME NEW wire, NEW p, NEW rest \in Taken(wire, p)
  PROVE  rest \subseteq wire
BY DEF Taken

LEMMA PacketFacts ==
  ASSUME NEW kind \in Kinds, NEW session \in BOOLEAN
  PROVE  /\ Packet(kind, session) \in Packets
         /\ Packet(kind, session).kind = kind
         /\ Packet(kind, session).age = 0
<1>1. (kind \in OfSession => session) \in BOOLEAN
  OBVIOUS
<1>2. 0 \in 0..MaxDelay
  BY Times
<1>. QED BY <1>1, <1>2 DEF Packet, Packets

LEMMA AgedFacts ==
  ASSUME NEW wire \in SUBSET Packets, NEW q \in Aged(wire)
  PROVE  /\ q \in Packets
         /\ \E p \in wire : /\ q.kind = p.kind
                            /\ q.current = p.current
                            /\ q.age = p.age + 1
<1>1. PICK p \in wire : p.age < MaxDelay /\ q = [p EXCEPT !.age = p.age + 1]
  BY DEF Aged
<1>2. p \in Packets /\ p.age + 1 \in 0..MaxDelay
  BY <1>1, Times DEF Packets
<1>3. q \in Packets /\ q.kind = p.kind /\ q.current = p.current /\ q.age = p.age + 1
  BY <1>1, <1>2 DEF Packets
<1>. QED BY <1>3

LEMMA OldSessionFacts ==
  ASSUME NEW wire \in SUBSET Packets, NEW q \in OfOldSession(wire)
  PROVE  /\ q \in Packets
         /\ \E p \in wire : q.kind = p.kind /\ q.age = p.age
         /\ q.kind \in OfSession => ~q.current
<1>1. PICK p \in wire :
        q = IF p.kind \in OfSession THEN [p EXCEPT !.current = FALSE] ELSE p
  BY DEF OfOldSession
<1>2. p \in Packets
  BY <1>1
<1>3. CASE p.kind \in OfSession
  BY <1>1, <1>2, <1>3 DEF Packets
<1>4. CASE p.kind \notin OfSession
  BY <1>1, <1>2, <1>4 DEF Packets
<1>. QED BY <1>3, <1>4

-----------------------------------------------------------------------------
(* What the invariant gives.                                                 *)

LEMMA TypeFacts ==
  ASSUME ConnectionInv
  PROVE  /\ state \in ClientStates
         /\ quiet \in Nat
         /\ linked \in {"none", "current", "old"}
         /\ loaded \in BOOLEAN /\ known \in BOOLEAN /\ misled \in BOOLEAN
         /\ attempts \in 0..MaxAttempts
         /\ slots \in [Slots -> SlotRecords]
         /\ toServer \in SUBSET Packets /\ toClient \in SUBSET Packets
BY Times DEF ConnectionInv, ConnectionOK, TypeOK, WiresInv, SlotRecords, Packets

LEMMA OneSlotFromFirst == SlotsInv => OneSlot
<1> SUFFICES ASSUME SlotsInv, NEW r \in Slots, NEW s \in Slots,
                    Mine(r), Mine(s), r # s
             PROVE  FALSE
  BY DEF OneSlot
<1>1. r \in 0..s - 1 \/ s \in 0..r - 1
  BY Times DEF Slots
<1>. QED BY <1>1 DEF SlotsInv, Mine

-----------------------------------------------------------------------------
(* A step of the server that leaves every session as it is.                  *)

Continues(old, new) ==
  /\ new \in SlotRecords
  /\ new.mine = old.mine
  /\ new.connectAge = old.connectAge
  /\ new.timeoutCount = old.timeoutCount
  /\ new.packetAge \in {old.packetAge, 0}
  /\ \/ new.state = old.state
     \/ Live(old) /\ new.state \in {"zombie", "loading", "active"}

ServerGoesOn ==
  /\ UNCHANGED client
  /\ misled' \in BOOLEAN /\ (misled => misled')
  /\ slots' \in [Slots -> SlotRecords]
  /\ \A s \in Slots : Continues(slots[s], slots'[s])
  /\ toServer' \subseteq toServer
  /\ \/ toServer # {}
     \/ \A s \in Slots : slots'[s].packetAge = slots[s].packetAge
  /\ \A q \in toClient' :
       \/ q \in toClient
       \/ /\ q \in Packets
          /\ q.kind # "connectResponse"
          /\ q.kind = "gamestate" => NoneWaits'

LEMMA ServerGoesOnInv ==
  ASSUME ConnectionInv, ServerGoesOn
  PROVE  ConnectionInv'
<1>1. UNCHANGED <<state, quiet, linked, loaded, known, attempts>>
  BY DEF ServerGoesOn, client
<1>2. TypeOK'
  BY <1>1 DEF ServerGoesOn, ConnectionInv, ConnectionOK, TypeOK, SlotRecords
<1>3. WiresInv'
  <2>1. toServer' \subseteq Packets /\ toClient' \subseteq Packets
    BY TypeFacts DEF ServerGoesOn
  <2>. QED BY <2>1 DEF WiresInv, Packets
<1>4. \A s \in Slots : Mine(s)' <=> Mine(s)
  BY DEF Mine, ServerGoesOn, Continues, Live
<1>5. SlotsInv'
  <2> SUFFICES ASSUME NEW s \in Slots
               PROVE  /\ slots'[s].mine => slots'[s].state # "other"
                      /\ Mine(s)' => \A r \in 0..s - 1 : ~slots'[r].mine
                      /\ Mine(s)' /\ slots'[s].connectAge < ReconnectLimit =>
                           slots'[s].packetAge <= slots'[s].connectAge
    BY DEF SlotsInv
  <2>1. Continues(slots[s], slots'[s])
    BY DEF ServerGoesOn
  <2>2. slots'[s].mine => slots'[s].state # "other"
    BY <2>1 DEF Continues, ConnectionInv, SlotsInv
  <2>3. Mine(s)' => \A r \in 0..s - 1 : ~slots'[r].mine
    <3>1. \A r \in 0..s - 1 : r \in Slots
      BY Times DEF Slots
    <3>. QED BY <1>4, <3>1 DEF ServerGoesOn, Continues, ConnectionInv, SlotsInv
  <2>4. Mine(s)' /\ slots'[s].connectAge < ReconnectLimit =>
          slots'[s].packetAge <= slots'[s].connectAge
    BY <1>4, <2>1, TypeFacts DEF Continues, ConnectionInv, SlotsInv, SlotRecords
  <2>. QED BY <2>2, <2>3, <2>4
<1>6. SessionInv'
  <2>1. \A s \in Slots : \A n : ConnectedWithin(s, n) => ConnectedWithin(s, n)'
    BY <1>4 DEF ConnectedWithin, ServerGoesOn, Continues
  <2>2. linked' # "none" => Connected'
    BY <1>1 DEF ConnectionInv, SessionInv, Connected
  <2>3. ASSUME NEW p \in toClient', p.kind = "connectResponse", p.current
        PROVE  \E s \in Slots : ConnectedWithin(s, p.age)'
    BY <2>1, <2>3 DEF ServerGoesOn, ConnectionInv, SessionInv
  <2>4. ASSUME linked' = "current", NEW p \in toServer', p.kind = "connect"
        PROVE  \E s \in Slots : ConnectedWithin(s, MaxDelay + p.age)'
    BY <1>1, <2>1, <2>4 DEF ServerGoesOn, ConnectionInv, SessionInv
  <2>. QED BY <2>2, <2>3, <2>4 DEF SessionInv, ConnectedWithin
<1>7. GameInv'
  <2>1. NoneWaits => NoneWaits'
    BY <1>4 DEF NoneWaits, ServerGoesOn, Continues
  <2>2. \A p \in toClient' : p.kind = "gamestate" /\ p.current => NoneWaits'
    BY <2>1 DEF ServerGoesOn, ConnectionInv, GameInv
  <2>3. InTheGameTogether <=>
          (state = "active" /\ linked = "current" /\ ~misled => NoneWaits)
    BY DEF InTheGameTogether, NoneWaits
  <2>4. InTheGameTogether' <=>
          (state' = "active" /\ linked' = "current" /\ ~misled' => NoneWaits')
    BY DEF InTheGameTogether, NoneWaits
  <2>5. InTheGameTogether'
    BY <1>1, <2>1, <2>3, <2>4 DEF ServerGoesOn, ConnectionInv, GameInv
  <2>. QED BY <2>2, <2>5 DEF GameInv
<1>8. GoneInv'
  <2> SUFFICES ASSUME state = "disconnected"
               PROVE  /\ \A p \in toServer' : quiet <= p.age
                      /\ \A s \in Slots :
                           Mine(s)' =>
                             /\ \/ slots'[s].packetAge = Oldest
                                \/ quiet <= MaxDelay + slots'[s].packetAge
                             /\ Live(slots'[s]) =>
                                  quiet <= MaxDelay + ConnectTimeout
                                             + slots'[s].timeoutCount
                             /\ slots'[s].state = "zombie" =>
                                  \/ quiet <= MaxDelay + ConnectTimeout
                                                + TimeoutFrames + 1
                                  \/ slots'[s].packetAge <= ZombieTime
    BY <1>1 DEF GoneInv
  <2>1. \A p \in toServer : quiet <= p.age
    BY DEF ConnectionInv, GoneInv
  <2>2. toServer # {} => quiet <= MaxDelay
    BY <2>1, TypeFacts, Times DEF Packets
  <2>3. ASSUME NEW s \in Slots, Mine(s)'
        PROVE  /\ \/ slots'[s].packetAge = Oldest
                  \/ quiet <= MaxDelay + slots'[s].packetAge
               /\ Live(slots'[s]) =>
                    quiet <= MaxDelay + ConnectTimeout + slots'[s].timeoutCount
               /\ slots'[s].state = "zombie" =>
                    \/ quiet <= MaxDelay + ConnectTimeout + TimeoutFrames + 1
                    \/ slots'[s].packetAge <= ZombieTime
    <3>1. /\ \/ slots[s].packetAge = Oldest
             \/ quiet <= MaxDelay + slots[s].packetAge
          /\ Live(slots[s]) =>
               quiet <= MaxDelay + ConnectTimeout + slots[s].timeoutCount
          /\ slots[s].state = "zombie" =>
               \/ quiet <= MaxDelay + ConnectTimeout + TimeoutFrames + 1
               \/ slots[s].packetAge <= ZombieTime
      BY <1>4, <2>3 DEF ConnectionInv, GoneInv
    <3>2. /\ slots'[s].timeoutCount = slots[s].timeoutCount
          /\ slots[s].timeoutCount \in 0..TimeoutFrames
          /\ slots[s].packetAge \in 0..Oldest
      BY TypeFacts DEF ServerGoesOn, Continues, SlotRecords
    <3>3. CASE slots'[s].packetAge = slots[s].packetAge
      BY <3>1, <3>2, <3>3, TypeFacts, Times DEF ServerGoesOn, Continues, Live
    <3>4. CASE slots'[s].packetAge # slots[s].packetAge
      <4>1. quiet <= MaxDelay /\ slots'[s].packetAge = 0
        BY <2>2, <3>4 DEF ServerGoesOn, Continues
      <4>. QED BY <3>2, <4>1, TypeFacts, Times
    <3>. QED BY <3>3, <3>4
  <2>4. \A p \in toServer' : quiet <= p.age
    BY <2>1 DEF ServerGoesOn
  <2>. QED BY <2>3, <2>4
<1>. QED
  BY <1>2, <1>3, <1>5, <1>6, <1>7, <1>8, OneSlotFromFirst, PTL
  DEF ConnectionInv, ConnectionOK

LEMMA Unchanged ==
  ASSUME ConnectionInv, UNCHANGED slots
  PROVE  /\ slots' \in [Slots -> SlotRecords]
         /\ \A s \in Slots : /\ Continues(slots[s], slots'[s])
                             /\ slots'[s].packetAge = slots[s].packetAge
BY TypeFacts DEF Continues

LEMMA PutNews ==
  ASSUME NEW kind \in Kinds \ {"connectResponse"}, NEW wire \in SUBSET toClient,
         kind = "gamestate" => NoneWaits',
         NEW q \in Put(wire, Packet(kind, TRUE))
  PROVE  \/ q \in toClient
         \/ /\ q \in Packets
            /\ q.kind # "connectResponse"
            /\ q.kind = "gamestate" => NoneWaits'
<1>1. q \in wire \/ q = Packet(kind, TRUE)
  BY PutFacts
<1>2. /\ Packet(kind, TRUE) \in Packets
      /\ Packet(kind, TRUE).kind = kind
  <2>1. kind \in Kinds /\ TRUE \in BOOLEAN
    OBVIOUS
  <2>. QED BY <2>1, PacketFacts
<1>. QED BY <1>1, <1>2

LEMMA GetChallengeGoesOn ==
  ASSUME ConnectionInv, UNCHANGED <<state, quiet, loaded, known, attempts>>,
         NEW p \in toServer, ReceiveGetChallenge(p)
  PROVE  ServerGoesOn
<1>1. "challengeResponse" \in Kinds \ {"connectResponse"}
  BY DEF Kinds, OfSession
<1>2. \A q \in toClient' :
        \/ q \in toClient
        \/ /\ q \in Packets
           /\ q.kind # "connectResponse"
           /\ q.kind = "gamestate" => NoneWaits'
  BY <1>1, PutNews DEF ReceiveGetChallenge, ToClient
<1>3. toServer' \subseteq toServer /\ toServer # {}
  BY TakenFacts DEF ReceiveGetChallenge, FromClient
<1>. QED
  BY <1>2, <1>3, Unchanged, TypeFacts DEF ReceiveGetChallenge, ServerGoesOn, client

\* A connect packet that is turned away.
LEMMA TurnedAwayGoesOn ==
  ASSUME ConnectionInv, UNCHANGED <<client, slots, misled>>,
         NEW p \in toServer, toServer' \in Taken(toServer, p),
         toClient' = toClient \/ ToClient("error")
  PROVE  ServerGoesOn
<1>1. "error" \in Kinds \ {"connectResponse"}
  BY DEF Kinds, OfSession
<1>2. \A q \in toClient' :
        \/ q \in toClient
        \/ /\ q \in Packets
           /\ q.kind # "connectResponse"
           /\ q.kind = "gamestate" => NoneWaits'
  BY <1>1, PutNews DEF ToClient
<1>3. toServer' \subseteq toServer /\ toServer # {}
  BY TakenFacts
<1>. QED
  BY <1>2, <1>3, Unchanged, TypeFacts DEF ServerGoesOn

LEMMA StatsGoesOn ==
  ASSUME ConnectionInv, UNCHANGED <<state, quiet, loaded, known, attempts>>,
         NEW p \in toServer, ReceiveStats(p)
  PROVE  ServerGoesOn
<1>1. "statResponse" \in Kinds \ {"connectResponse"}
  BY DEF Kinds, OfSession
<1>2. \A q \in toClient' :
        \/ q \in toClient
        \/ /\ q \in Packets
           /\ q.kind # "connectResponse"
           /\ q.kind = "gamestate" => NoneWaits'
  BY <1>1, PutNews DEF ReceiveStats, ToClient
<1>3. toServer' \subseteq toServer /\ toServer # {}
  BY TakenFacts DEF ReceiveStats, FromClient
<1>4. /\ slots' \in [Slots -> SlotRecords]
      /\ \A s \in Slots : Continues(slots[s], slots'[s])
  <2>1. CASE UNCHANGED slots
    BY <2>1, Unchanged
  <2>2. CASE \E s \in Slots :
               slots' = [slots EXCEPT ![s].stats = TRUE, ![s].packetAge = 0]
    <3>1. PICK s \in Slots :
            slots' = [slots EXCEPT ![s].stats = TRUE, ![s].packetAge = 0]
      BY <2>2
    <3> DEFINE Heard == [slots[s] EXCEPT !.stats = TRUE, !.packetAge = 0]
    <3>2. slots \in [Slots -> SlotRecords]
      BY TypeFacts
    <3>3. slots' = [slots EXCEPT ![s] = Heard]
      BY <3>1, <3>2
    <3>4. Heard \in SlotRecords /\ Continues(slots[s], Heard)
      <4>1. slots[s] \in SlotRecords /\ 0 \in 0..Oldest
        BY <3>2, Times
      <4>2. Heard \in SlotRecords
        BY <4>1 DEF SlotRecords
      <4>3. /\ Heard.mine = slots[s].mine /\ Heard.state = slots[s].state
            /\ Heard.connectAge = slots[s].connectAge
            /\ Heard.timeoutCount = slots[s].timeoutCount
            /\ Heard.packetAge = 0
        BY <4>1 DEF SlotRecords
      <4>. QED BY <4>2, <4>3 DEF Continues
    <3>5. \A r \in Slots : Continues(slots[r], slots[r])
      BY <3>2 DEF Continues
    <3> HIDE DEF Heard
    <3>. QED BY <3>2, <3>3, <3>4, <3>5
  <2>. QED BY <2>1, <2>2 DEF ReceiveStats
<1>. QED BY <1>2, <1>3, <1>4, TypeFacts DEF ReceiveStats, ServerGoesOn, client

LEMMA DroppedFacts ==
  ASSUME NEW slot \in SlotRecords, Live(slot)
  PROVE  Continues(slot, Dropped(slot)) /\ Dropped(slot).packetAge = slot.packetAge
<1>1. (slot.state = "active") \in BOOLEAN
  OBVIOUS
<1>. QED BY <1>1 DEF Continues, Dropped, SlotRecords, SlotStates

LEMMA ToldFacts ==
  ASSUME NEW slot, NEW q \in Told(toClient, slot)
  PROVE  \/ q \in toClient
         \/ /\ q \in Packets
            /\ q.kind # "connectResponse"
            /\ q.kind = "gamestate" => NoneWaits'
<1>1. "disconnect" \in Kinds \ {"connectResponse"}
  BY DEF Kinds, OfSession
<1>. QED BY <1>1, PutNews DEF Told

LEMMA ExecuteGoesOn ==
  ASSUME ConnectionInv, NEW s \in Slots, Mine(s), Live(slots[s]), NEW p,
         ExecuteClientMessage(s, p)
  PROVE  /\ slots' \in [Slots -> SlotRecords]
         /\ \A r \in Slots : Continues(slots[r], slots'[r])
         /\ \A q \in toClient' :
              \/ q \in toClient
              \/ /\ q \in Packets
                 /\ q.kind # "connectResponse"
                 /\ q.kind = "gamestate" => NoneWaits'
<1> DEFINE Heard == [slots[s] EXCEPT !.packetAge = 0]
<1>1. /\ slots \in [Slots -> SlotRecords]
      /\ slots[s] \in SlotRecords
      /\ Heard \in SlotRecords /\ Live(Heard)
      /\ Continues(slots[s], Heard)
      /\ \A r \in Slots : Continues(slots[r], slots[r])
  BY TypeFacts, Times DEF SlotRecords, Continues, Live
<1>2. [slots EXCEPT ![s].packetAge = 0] = [slots EXCEPT ![s] = Heard]
  BY <1>1
<1>3. {"gamestate", "requeststats"} \subseteq Kinds \ {"connectResponse"}
  BY DEF Kinds, OfSession
<1>4. CASE slots' = [slots EXCEPT ![s] = Heard] /\ UNCHANGED toClient
  BY <1>1, <1>4
<1>5. CASE slots' = [slots EXCEPT ![s] = Heard] /\ ToClient("requeststats")
  BY <1>1, <1>3, <1>5, PutNews DEF ToClient
<1>6. CASE /\ slots' = [slots EXCEPT ![s] = Heard, ![s].state = "loading"]
           /\ ToClient("gamestate")
  <2>1. slots' = [slots EXCEPT ![s] = [Heard EXCEPT !.state = "loading"]]
    BY <1>1, <1>6
  <2>2. /\ [Heard EXCEPT !.state = "loading"] \in SlotRecords
        /\ Continues(slots[s], [Heard EXCEPT !.state = "loading"])
        /\ [Heard EXCEPT !.state = "loading"].state = "loading"
    BY <1>1 DEF SlotRecords, SlotStates, Continues, Live
  <2>3. /\ slots' \in [Slots -> SlotRecords]
        /\ \A r \in Slots : Continues(slots[r], slots'[r])
    BY <1>1, <2>1, <2>2
  <2>4. NoneWaits'
    <3>1. OneSlot
      BY DEF ConnectionInv, ConnectionOK
    <3>2. \A r \in Slots : r # s => ~Mine(r)
      BY <3>1 DEF OneSlot
    <3>3. \A r \in Slots : r # s => slots'[r] = slots[r]
      BY <1>1, <2>1
    <3>4. slots'[s].state = "loading"
      BY <1>1, <2>1, <2>2
    <3>. QED BY <3>2, <3>3, <3>4 DEF NoneWaits, Mine
  <2>. QED BY <1>3, <1>6, <2>3, <2>4, PutNews DEF ToClient
<1>7. CASE /\ slots' = [slots EXCEPT ![s] = Heard, ![s].state = "active"]
           /\ UNCHANGED toClient
  <2>1. slots' = [slots EXCEPT ![s] = [Heard EXCEPT !.state = "active"]]
    BY <1>1, <1>7
  <2>2. /\ [Heard EXCEPT !.state = "active"] \in SlotRecords
        /\ Continues(slots[s], [Heard EXCEPT !.state = "active"])
    BY <1>1 DEF SlotRecords, SlotStates, Continues, Live
  <2>. QED BY <1>1, <1>7, <2>1, <2>2
<1>8. CASE /\ slots' = [slots EXCEPT ![s] = Dropped(Heard)]
           /\ toClient' = Told(toClient, slots[s])
  <2>1. Continues(Heard, Dropped(Heard)) /\ Dropped(Heard) \in SlotRecords
    BY <1>1, DroppedFacts DEF Continues
  <2>2. Continues(slots[s], Dropped(Heard))
    BY <1>1, <2>1 DEF Continues, Live
  <2>. QED BY <1>1, <1>8, <2>1, <2>2, ToldFacts
<1>9. [slots EXCEPT ![s].packetAge = 0][s] = Heard
  BY <1>1
<1>. QED
  BY <1>2, <1>4, <1>5, <1>6, <1>7, <1>8, <1>9
  DEF ExecuteClientMessage, SendClientGameState

LEMMA PacketGoesOn ==
  ASSUME ConnectionInv, UNCHANGED <<state, quiet, loaded, known, attempts>>,
         NEW p \in toServer, ReceivePacket(p)
  PROVE  ServerGoesOn
<1>1. p \in Packets
  BY TypeFacts
<1>2. UNCHANGED client
  BY DEF ReceivePacket, client
<1>3. toServer' \subseteq toServer /\ toServer # {}
  BY TakenFacts DEF ReceivePacket
<1>4. misled' \in BOOLEAN /\ (misled => misled')
  <2>1. (misled \/ ~p.current) \in BOOLEAN
    OBVIOUS
  <2>2. misled' = misled \/ misled' = (misled \/ ~p.current)
    BY DEF ReceivePacket
  <2>3. misled \in BOOLEAN
    BY TypeFacts
  <2>4. CASE misled' = misled
    BY <2>3, <2>4
  <2>5. CASE misled' = (misled \/ ~p.current)
    BY <2>1, <2>5
  <2>. QED BY <2>2, <2>4, <2>5
<1>5. /\ slots' \in [Slots -> SlotRecords]
      /\ \A s \in Slots : Continues(slots[s], slots'[s])
      /\ \A q \in toClient' :
           \/ q \in toClient
           \/ /\ q \in Packets
              /\ q.kind # "connectResponse"
              /\ q.kind = "gamestate" => NoneWaits'
  <2>1. CASE UNCHANGED <<slots, toClient>>
    BY <2>1, Unchanged
  <2>2. CASE UNCHANGED slots /\ ToClient("disconnect")
    <3>1. "disconnect" \in Kinds \ {"connectResponse"}
      BY DEF Kinds, OfSession
    <3>. QED BY <2>2, <3>1, PutNews, Unchanged DEF ToClient
  <2>3. CASE \E s \in Slots :
               Mine(s) /\ Live(slots[s]) /\ ExecuteClientMessage(s, p)
    BY <2>3, ExecuteGoesOn
  <2>. QED BY <2>1, <2>2, <2>3 DEF ReceivePacket
<1>. QED BY <1>2, <1>3, <1>4, <1>5 DEF ServerGoesOn

LEMMA SendMessageGoesOn ==
  ASSUME ConnectionInv, NEW s \in Slots, SendMessage(s)
  PROVE  ServerGoesOn
<1>1. {"dropped", "message"} \subseteq Kinds \ {"connectResponse"}
  BY DEF Kinds, OfSession
<1>2. \A q \in toClient' :
        \/ q \in toClient
        \/ /\ q \in Packets
           /\ q.kind # "connectResponse"
           /\ q.kind = "gamestate" => NoneWaits'
  <2>1. CASE toClient' = Put(toClient, Packet("dropped", TRUE))
    BY <1>1, <2>1, PutNews
  <2>2. CASE toClient' = Put(toClient, Packet("message", TRUE))
    BY <1>1, <2>2, PutNews
  <2>. QED BY <2>1, <2>2 DEF SendMessage, ToClient
<1>. QED BY <1>2, Unchanged, TypeFacts DEF SendMessage, ServerGoesOn

LEMMA KickGoesOn ==
  ASSUME ConnectionInv, NEW s \in Slots, Kick(s)
  PROVE  ServerGoesOn
<1>1. /\ slots \in [Slots -> SlotRecords]
      /\ slots' = [slots EXCEPT ![s] = Dropped(slots[s])]
      /\ Live(slots[s])
      /\ toClient' = Told(toClient, slots[s])
      /\ UNCHANGED <<client, toServer, misled>>
  BY TypeFacts DEF Kick
<1>2. /\ Dropped(slots[s]) \in SlotRecords
      /\ Continues(slots[s], Dropped(slots[s]))
      /\ Dropped(slots[s]).packetAge = slots[s].packetAge
  BY <1>1, DroppedFacts DEF Continues
<1>3. \A r \in Slots : Continues(slots[r], slots[r])
  BY <1>1 DEF Continues
<1>. QED BY <1>1, <1>2, <1>3, ToldFacts, TypeFacts DEF ServerGoesOn

-----------------------------------------------------------------------------
(* Sessions that begin.                                                      *)

LEMMA SlotTypes == EmptySlot \in SlotRecords /\ NewSlot \in SlotRecords
<1>1. /\ 0 \in 0..ReconnectLimit /\ ReconnectLimit \in 0..ReconnectLimit
      /\ 0 \in 0..Oldest /\ Oldest \in 0..Oldest
      /\ 0 \in 0..TimeoutFrames
  BY Times
<1>. QED BY <1>1 DEF EmptySlot, NewSlot, SlotRecords, SlotStates

\* A connect packet that arrives in a session arrives too soon.
LEMMA InSessionTooSoon ==
  ASSUME ConnectionInv, linked = "current",
         NEW p \in toServer, p.kind = "connect"
  PROVE  TooSoon
<1>1. PICK s \in Slots : Mine(s) /\ slots[s].connectAge <= MaxDelay + p.age
  BY DEF ConnectionInv, SessionInv, ConnectedWithin
<1>2. First(s)
  BY <1>1 DEF First, Mine, ConnectionInv, SlotsInv
<1>3. p.age \in 0..MaxDelay /\ slots[s].connectAge \in Nat
  BY TypeFacts, Times DEF Packets, SlotRecords
<1>4. slots[s].connectAge < ReconnectLimit
  BY <1>1, <1>3, Times
<1>. QED BY <1>2, <1>4 DEF TooSoon

LEMMA ChosenFacts ==
  ASSUME ConnectionInv, NEW s \in Slots, Chosen(s)
  PROVE  /\ \A r \in Slots : r # s => ~Mine(r)
         /\ \A r \in 0..s - 1 : ~slots[r].mine
<1>1. \A r \in 0..s - 1 : r \in Slots
  BY Times DEF Slots
<1>2. OneSlot /\ SlotsInv
  BY DEF ConnectionInv, ConnectionOK
<1>. QED BY <1>1, <1>2 DEF Chosen, OneSlot, SlotsInv, Mine

LEMMA NewSessionInv ==
  ASSUME ConnectionInv,
         UNCHANGED <<state, quiet, loaded, known, attempts, misled>>,
         NEW p \in toServer, p.kind = "connect", ~TooSoon,
         toServer' \in {OfOldSession(w) : w \in Taken(toServer, p)},
         NEW s \in Slots, Chosen(s), Accept(s) \/ Deny(s)
  PROVE  ConnectionInv'
<1>1. linked # "current" /\ linked' = linked
  BY InSessionTooSoon DEF Accept, Deny
<1>2. PICK new \in SlotRecords, kind \in {"connectResponse", "error"} :
        /\ slots' = [slots EXCEPT ![s] = new]
        /\ toClient' = Put(OfOldSession(toClient), Packet(kind, TRUE))
        /\ new.mine
        /\ new.packetAge <= new.connectAge \/ new.state = "free"
        /\ \/ new.state = "free" /\ kind = "error"
           \/ /\ new.state = "connected" /\ kind = "connectResponse"
              /\ new.connectAge = 0 /\ new.packetAge = 0
  <2>1. CASE Accept(s)
    <3>1. NewSlot \in SlotRecords /\ "connectResponse" \in {"connectResponse", "error"}
      BY SlotTypes
    <3>2. /\ NewSlot.mine /\ NewSlot.state = "connected"
          /\ NewSlot.connectAge = 0 /\ NewSlot.packetAge = 0
      BY DEF NewSlot
    <3>3. NewSlot.packetAge <= NewSlot.connectAge
      BY <3>2
    <3>. QED BY <2>1, <3>1, <3>2, <3>3 DEF Accept
  <2>2. CASE Deny(s)
    <3> DEFINE Cleared == [EmptySlot EXCEPT !.mine = TRUE]
    <3>1. Cleared \in SlotRecords /\ "error" \in {"connectResponse", "error"}
      BY SlotTypes DEF SlotRecords
    <3>2. Cleared.mine /\ Cleared.state = "free"
      BY DEF EmptySlot
    <3>3. slots' = [slots EXCEPT ![s] = Cleared]
          /\ toClient' = Put(OfOldSession(toClient), Packet("error", TRUE))
      BY <2>2 DEF Deny
    <3> HIDE DEF Cleared
    <3>. QED BY <3>1, <3>2, <3>3
  <2>. QED BY <2>1, <2>2
<1>3. slots \in [Slots -> SlotRecords]
  BY TypeFacts
<1>4. slots' \in [Slots -> SlotRecords] /\ slots'[s] = new
      /\ \A r \in Slots : r # s => slots'[r] = slots[r]
  BY <1>2, <1>3
<1>5. /\ \A r \in Slots : r # s => ~Mine(r)'
      /\ \A r \in 0..s - 1 : ~slots'[r].mine
  <2>1. \A r \in 0..s - 1 : r \in Slots /\ r # s
    BY Times DEF Slots
  <2>. QED BY <1>4, <2>1, ChosenFacts DEF Mine
<1>6. TypeOK'
  BY <1>1, <1>4 DEF ConnectionInv, ConnectionOK, TypeOK, SlotRecords
<1>7. \A q \in toServer' : q \in Packets /\ \E r \in toServer : q.age = r.age
  <2>1. PICK w \in SUBSET toServer : toServer' = OfOldSession(w)
    BY TakenFacts
  <2>2. w \in SUBSET Packets
    BY TypeFacts
  <2>. QED BY <2>1, <2>2, OldSessionFacts
<1>8. \A q \in toClient' :
        /\ q \in Packets
        /\ \/ q = Packet(kind, TRUE) /\ q.kind = kind /\ q.age = 0
           \/ q.kind \in OfSession => ~q.current
  <2>1. /\ Packet(kind, TRUE) \in Packets
        /\ Packet(kind, TRUE).kind = kind
        /\ Packet(kind, TRUE).age = 0
    <3>1. kind \in Kinds /\ TRUE \in BOOLEAN
      BY DEF Kinds, OfSession
    <3>. QED BY <3>1, PacketFacts
  <2>. QED BY <1>2, <2>1, PutFacts, OldSessionFacts, TypeFacts
<1>9. WiresInv'
  <2>1. toServer' \subseteq Packets /\ toClient' \subseteq Packets
    BY <1>7, <1>8
  <2>. QED BY <2>1 DEF WiresInv, Packets
<1>10. SlotsInv'
  <2>1. \A r \in Slots : slots'[r].mine => slots'[r].state # "other"
    BY <1>2, <1>4 DEF ConnectionInv, SlotsInv
  <2>2. Mine(s)' => slots'[s].packetAge <= slots'[s].connectAge
    BY <1>2, <1>4 DEF Mine
  <2>. QED BY <1>5, <2>1, <2>2 DEF SlotsInv
<1>11. SessionInv'
  <2>1. linked' # "none" => Connected'
    BY <1>1 DEF ConnectionInv, SessionInv, Connected
  <2>2. ASSUME NEW q \in toClient', q.kind = "connectResponse", q.current
        PROVE  ConnectedWithin(s, q.age)'
    <3>1. q.kind = kind /\ q.age = 0
      BY <1>8, <2>2 DEF OfSession
    <3>2. slots'[s].mine /\ slots'[s].state = "connected"
          /\ slots'[s].connectAge = 0
      BY <1>2, <1>4, <2>2, <3>1
    <3>. QED BY <3>1, <3>2 DEF ConnectedWithin, Mine
  <2>. QED BY <1>1, <2>1, <2>2 DEF SessionInv
<1>12. GameInv'
  <2>1. \A q \in toClient' : ~(q.kind = "gamestate" /\ q.current)
    BY <1>8 DEF OfSession
  <2>2. InTheGameTogether'
    BY <1>1 DEF InTheGameTogether
  <2>. QED BY <2>1, <2>2 DEF GameInv
<1>13. GoneInv'
  <2> SUFFICES ASSUME state = "disconnected"
               PROVE  GoneInv'
    BY DEF GoneInv
  <2>1. \A q \in toServer : quiet <= q.age
    BY DEF ConnectionInv, GoneInv
  <2>2. quiet \in Nat /\ quiet <= MaxDelay
    BY <2>1, TypeFacts, Times DEF Packets
  <2>3. \A q \in toServer' : quiet <= q.age
    BY <1>7, <2>1
  <2>4. ASSUME Mine(s)'
        PROVE  /\ quiet <= MaxDelay + slots'[s].packetAge
               /\ quiet <= MaxDelay + ConnectTimeout + slots'[s].timeoutCount
               /\ slots'[s].state # "zombie"
    BY <1>2, <1>4, <2>2, <2>4, Times DEF Mine, SlotRecords
  <2>. QED BY <1>5, <2>3, <2>4 DEF GoneInv
<1>. QED
  BY <1>6, <1>9, <1>10, <1>11, <1>12, <1>13, OneSlotFromFirst, PTL
  DEF ConnectionInv, ConnectionOK

-----------------------------------------------------------------------------
(* The others.                                                               *)

LEMMA OthersInv ==
  ASSUME ConnectionInv, UNCHANGED <<client, toServer, toClient, misled>>,
         NEW s \in Slots, NEW new \in SlotRecords,
         slots' = [slots EXCEPT ![s] = new],
         ~new.mine, ~Mine(s)
  PROVE  ConnectionInv'
<1>1. UNCHANGED <<state, quiet, linked, loaded, known, attempts,
                  toServer, toClient, misled>>
  BY DEF client
<1>2. slots \in [Slots -> SlotRecords]
  BY TypeFacts
<1>3. slots' \in [Slots -> SlotRecords] /\ slots'[s] = new
      /\ \A r \in Slots : r # s => slots'[r] = slots[r]
  BY <1>2
<1>4. /\ \A r \in Slots : Mine(r)' <=> Mine(r)
      /\ \A r \in Slots : Mine(r) => slots'[r] = slots[r]
      /\ \A r \in Slots : slots'[r].mine => slots[r].mine /\ slots'[r] = slots[r]
  BY <1>3 DEF Mine
<1>5. TypeOK' /\ WiresInv'
  BY <1>1, <1>3 DEF ConnectionInv, ConnectionOK, TypeOK, WiresInv, SlotRecords
<1>6. SlotsInv'
  <2>1. \A r, t \in Slots : t \in 0..r - 1 /\ ~slots[t].mine => ~slots'[t].mine
    BY <1>4
  <2>2. \A r \in Slots : \A t \in 0..r - 1 : t \in Slots
    BY Times DEF Slots
  <2>. QED BY <1>4, <2>1, <2>2 DEF ConnectionInv, SlotsInv
<1>7. SessionInv'
  <2>1. \A r \in Slots : \A n : ConnectedWithin(r, n) => ConnectedWithin(r, n)'
    BY <1>4 DEF ConnectedWithin
  <2>2. linked' # "none" => Connected'
    BY <1>1 DEF ConnectionInv, SessionInv, Connected
  <2>3. ASSUME NEW p \in toClient', p.kind = "connectResponse", p.current
        PROVE  \E r \in Slots : ConnectedWithin(r, p.age)'
    BY <1>1, <2>1, <2>3 DEF ConnectionInv, SessionInv
  <2>4. ASSUME linked' = "current", NEW p \in toServer', p.kind = "connect"
        PROVE  \E r \in Slots : ConnectedWithin(r, MaxDelay + p.age)'
    BY <1>1, <2>1, <2>4 DEF ConnectionInv, SessionInv
  <2>. QED BY <2>2, <2>3, <2>4 DEF SessionInv, ConnectedWithin
<1>8. GameInv'
  BY <1>1, <1>4
  DEF ConnectionInv, GameInv, NoneWaits, InTheGameTogether
<1>9. GoneInv'
  BY <1>1, <1>4 DEF ConnectionInv, GoneInv
<1>. QED
  BY <1>5, <1>6, <1>7, <1>8, <1>9, OneSlotFromFirst, PTL
  DEF ConnectionInv, ConnectionOK

LEMMA OtherConnectsInv ==
  ASSUME ConnectionInv, NEW s \in Slots, OtherConnects(s)
  PROVE  ConnectionInv'
<1>1. [EmptySlot EXCEPT !.state = "other"] \in SlotRecords
      /\ ~[EmptySlot EXCEPT !.state = "other"].mine
  <2>1. EmptySlot \in SlotRecords /\ EmptySlot.mine = FALSE
    BY SlotTypes DEF EmptySlot
  <2>. QED BY <2>1 DEF SlotRecords, SlotStates
<1>2. ~Mine(s)
  BY DEF OtherConnects, Mine
<1>. QED BY <1>1, <1>2, OthersInv DEF OtherConnects

LEMMA OtherLeavesInv ==
  ASSUME ConnectionInv, NEW s \in Slots, OtherLeaves(s)
  PROVE  ConnectionInv'
<1>1. ~slots[s].mine
  BY DEF OtherLeaves, ConnectionInv, SlotsInv
<1>2. slots[s] \in SlotRecords
  BY TypeFacts
<1>3. [slots[s] EXCEPT !.state = "free"] \in SlotRecords
      /\ ~[slots[s] EXCEPT !.state = "free"].mine
  BY <1>1, <1>2 DEF SlotRecords, SlotStates
<1>4. slots' = [slots EXCEPT ![s] = [slots[s] EXCEPT !.state = "free"]]
  BY DEF OtherLeaves
<1>. QED BY <1>1, <1>3, <1>4, OthersInv DEF OtherLeaves, Mine

-----------------------------------------------------------------------------
(* Time.                                                                     *)

\* What a tick makes of a slot.
TickedTo(old, new) ==
  /\ new \in SlotRecords
  /\ new.mine = old.mine
  /\ new.connectAge = Older(old.connectAge, ReconnectLimit)
  /\ \/ /\ old.state = "zombie" /\ new.state = "free"
        /\ Older(old.packetAge, Oldest) > ZombieTime
     \/ /\ Live(old) /\ new.state = "zombie"
        /\ new.packetAge = Older(old.packetAge, Oldest)
     \/ /\ new.state = old.state
        /\ new.packetAge = Older(old.packetAge, Oldest)
        /\ old.state = "zombie" => new.packetAge <= ZombieTime
        /\ Live(old) =>
             \/ new.timeoutCount = old.timeoutCount + 1
             \/ new.packetAge <= ConnectTimeout

LEMMA CheckedFacts ==
  ASSUME NEW old \in SlotRecords
  PROVE  TickedTo(old, Checked(OlderSlot(old)))
<1> DEFINE o == OlderSlot(old)
<1>1. /\ o \in SlotRecords
      /\ o.state = old.state /\ o.mine = old.mine
      /\ o.connectAge = Older(old.connectAge, ReconnectLimit)
      /\ o.packetAge = Older(old.packetAge, Oldest)
      /\ o.timeoutCount = old.timeoutCount
      /\ Live(o) <=> Live(old)
  <2>1. /\ Older(old.connectAge, ReconnectLimit) \in 0..ReconnectLimit
        /\ Older(old.packetAge, Oldest) \in 0..Oldest
    BY Times DEF Older, SlotRecords
  <2>. QED BY <2>1 DEF OlderSlot, SlotRecords, Live
<1> HIDE DEF o
<1>2. /\ o.packetAge \in Nat /\ o.timeoutCount \in 0..TimeoutFrames
      /\ ConnectTimeout \in Nat /\ ZombieTime \in Nat /\ TimeoutFrames \in Nat
  BY <1>1, Times DEF SlotRecords
<1>3. CASE o.state = "zombie" /\ o.packetAge > ZombieTime
  <2>1. Checked(o) =
          [o EXCEPT !.state = "free", !.packetAge = Oldest, !.notice = FALSE]
    BY <1>3 DEF Checked
  <2>2. Oldest \in 0..Oldest
    BY Times
  <2>3. /\ Checked(o) \in SlotRecords
        /\ Checked(o).mine = o.mine /\ Checked(o).connectAge = o.connectAge
        /\ Checked(o).state = "free"
    BY <1>1, <2>1, <2>2 DEF SlotRecords, SlotStates
  <2>. QED BY <1>1, <1>3, <2>3 DEF TickedTo, o
<1>4. CASE ~(o.state = "zombie" /\ o.packetAge > ZombieTime) /\ TimedOut(o)
  <2>1. Checked(o) = Dropped(o)
    BY <1>4 DEF Checked
  <2>2. Live(o)
    BY <1>4 DEF TimedOut, Silent, Live
  <2>3. (o.state = "active") \in BOOLEAN
    OBVIOUS
  <2>4. /\ Dropped(o) \in SlotRecords
        /\ Dropped(o).mine = o.mine /\ Dropped(o).connectAge = o.connectAge
        /\ Dropped(o).packetAge = o.packetAge
        /\ Dropped(o).state = "zombie"
    BY <1>1, <2>3 DEF Dropped, SlotRecords, SlotStates
  <2>. QED BY <1>1, <2>1, <2>2, <2>4 DEF TickedTo, o
<1>5. CASE ~(o.state = "zombie" /\ o.packetAge > ZombieTime) /\ ~TimedOut(o)
  <2> DEFINE n == IF Silent(o) THEN o.timeoutCount + 1 ELSE 0
  <2>1. Checked(o) = [o EXCEPT !.timeoutCount = n]
    BY <1>1, <1>5 DEF Checked, SlotRecords
  <2>2. n \in 0..TimeoutFrames
    BY <1>2, <1>5 DEF TimedOut
  <2>3. Live(o) => n = o.timeoutCount + 1 \/ o.packetAge <= ConnectTimeout
    BY <1>2 DEF Silent
  <2>4. o.state = "zombie" => o.packetAge <= ZombieTime
    BY <1>2, <1>5
  <2> HIDE DEF n
  <2>5. /\ Checked(o) \in SlotRecords
        /\ Checked(o).mine = o.mine /\ Checked(o).connectAge = o.connectAge
        /\ Checked(o).packetAge = o.packetAge
        /\ Checked(o).state = o.state
        /\ Checked(o).timeoutCount = n
    BY <1>1, <2>1, <2>2 DEF SlotRecords
  <2>. QED BY <1>1, <2>3, <2>4, <2>5 DEF TickedTo, o
<1>. QED BY <1>3, <1>4, <1>5 DEF o

LEMMA TickInv ==
  ASSUME ConnectionInv, Tick
  PROVE  ConnectionInv'
<1>1. UNCHANGED <<state, linked, loaded, known, attempts, misled>>
  BY DEF Tick
<1>2. slots \in [Slots -> SlotRecords]
  BY TypeFacts
<1>3. /\ slots' \in [Slots -> SlotRecords]
      /\ \A s \in Slots : TickedTo(slots[s], slots'[s])
  <2>1. slots' = [s \in Slots |-> Checked(OlderSlot(slots[s]))]
    BY DEF Tick
  <2>2. \A s \in Slots : TickedTo(slots[s], Checked(OlderSlot(slots[s])))
    BY <1>2, CheckedFacts
  <2>3. \A s \in Slots : Checked(OlderSlot(slots[s])) \in SlotRecords
    BY <2>2 DEF TickedTo
  <2>. QED BY <2>1, <2>2, <2>3
<1>4. \A s \in Slots :
        /\ slots[s].connectAge \in 0..ReconnectLimit
        /\ slots[s].packetAge \in 0..Oldest
        /\ slots[s].timeoutCount \in 0..TimeoutFrames
        /\ slots'[s].connectAge \in 0..ReconnectLimit
        /\ slots'[s].packetAge \in 0..Oldest
        /\ slots'[s].timeoutCount \in 0..TimeoutFrames
  BY <1>2, <1>3 DEF SlotRecords
<1>5. \A q \in toServer' :
        /\ q \in Packets
        /\ \E p \in toServer : /\ q.kind = p.kind
                               /\ q.current = p.current
                               /\ q.age = p.age + 1
  BY AgedFacts, TypeFacts DEF Tick
<1>6. \A q \in toClient' :
        /\ q \in Packets
        /\ \/ q.kind = "disconnect"
           \/ \E p \in toClient : /\ q.kind = p.kind
                                  /\ q.current = p.current
                                  /\ q.age = p.age + 1
  <2>1. /\ Packet("disconnect", TRUE) \in Packets
        /\ Packet("disconnect", TRUE).kind = "disconnect"
    <3>1. "disconnect" \in Kinds /\ TRUE \in BOOLEAN
      BY DEF Kinds
    <3>. QED BY <3>1, PacketFacts
  <2>2. ASSUME NEW q \in toClient'
        PROVE  q \in Aged(toClient) \/ q = Packet("disconnect", TRUE)
    BY PutFacts DEF Tick
  <2>. QED BY <2>1, <2>2, AgedFacts, TypeFacts
<1>7. /\ quiet \in Nat /\ quiet' \in Nat
      /\ quiet' <= IF state = "disconnected" THEN Gone ELSE ClientTimeout
      /\ state = "disconnected" => quiet' <= quiet + 1
  <2>1. /\ quiet \in Nat
        /\ quiet <= IF state = "disconnected" THEN Gone ELSE ClientTimeout
    BY TypeFacts, Times DEF ConnectionInv, ConnectionOK, TypeOK
  <2>2. CASE Connected
    <3>1. quiet' = Older(quiet, ClientTimeout) /\ state # "disconnected"
      BY <2>2 DEF Tick, Connected
    <3>. QED BY <2>1, <3>1, Times DEF Older
  <2>3. CASE ~Connected /\ state = "disconnected"
    <3>1. quiet' = Older(quiet, Gone)
      BY <2>3 DEF Tick
    <3>. QED BY <2>1, <2>3, <3>1, Times DEF Older
  <2>4. CASE ~Connected /\ state # "disconnected"
    <3>1. quiet' = quiet
      BY <2>4 DEF Tick
    <3>. QED BY <2>1, <2>4, <3>1
  <2>. QED BY <2>2, <2>3, <2>4
<1>8. TypeOK'
  <2>1. quiet' \in 0..IF state' = "disconnected" THEN Gone ELSE ClientTimeout
    BY <1>1, <1>7, Times
  <2>2. /\ state' \in ClientStates
        /\ linked' \in {"none", "current", "old"}
        /\ {loaded', known', misled'} \subseteq BOOLEAN
        /\ attempts' \in 0..MaxAttempts
    BY <1>1, TypeFacts
  <2>. QED BY <1>3, <2>1, <2>2 DEF TypeOK, SlotRecords
<1>9. WiresInv'
  <2>1. toServer' \subseteq Packets /\ toClient' \subseteq Packets
    BY <1>5, <1>6
  <2>. QED BY <2>1 DEF WiresInv, Packets
<1>10. \A s \in Slots : Mine(s)' => Mine(s)
  BY <1>3 DEF Mine, TickedTo, Live
<1>11. SlotsInv'
  <2> SUFFICES ASSUME NEW s \in Slots
               PROVE  /\ slots'[s].mine => slots'[s].state # "other"
                      /\ Mine(s)' => \A r \in 0..s - 1 : ~slots'[r].mine
                      /\ Mine(s)' /\ slots'[s].connectAge < ReconnectLimit =>
                           slots'[s].packetAge <= slots'[s].connectAge
    BY DEF SlotsInv
  <2>1. TickedTo(slots[s], slots'[s])
    BY <1>3
  <2>2. slots'[s].mine => slots'[s].state # "other"
    BY <2>1 DEF TickedTo, ConnectionInv, SlotsInv
  <2>3. Mine(s)' => \A r \in 0..s - 1 : ~slots'[r].mine
    <3>1. \A r \in 0..s - 1 : r \in Slots
      BY Times DEF Slots
    <3>2. \A r \in Slots : slots'[r].mine = slots[r].mine
      BY <1>3 DEF TickedTo
    <3>. QED BY <1>10, <3>1, <3>2 DEF ConnectionInv, SlotsInv
  <2>4. ASSUME Mine(s)', slots'[s].connectAge < ReconnectLimit
        PROVE  slots'[s].packetAge <= slots'[s].connectAge
    <3>1. /\ slots[s].connectAge < ReconnectLimit
          /\ slots'[s].connectAge = slots[s].connectAge + 1
      BY <1>4, <2>1, <2>4, Times DEF TickedTo, Older
    <3>2. slots[s].packetAge <= slots[s].connectAge
      BY <1>10, <2>4, <3>1 DEF ConnectionInv, SlotsInv
    <3>3. slots'[s].packetAge <= slots[s].packetAge + 1
      <4>1. slots'[s].state # "free"
        BY <2>4 DEF Mine
      <4>. QED BY <1>4, <2>1, <4>1, Times DEF TickedTo, Older
    <3>. QED BY <1>4, <3>1, <3>2, <3>3, Times
  <2>. QED BY <2>2, <2>3, <2>4
<1>12. ASSUME NEW s \in Slots, NEW n \in Nat, n + 1 <= 2 * MaxDelay,
              ConnectedWithin(s, n)
       PROVE  ConnectedWithin(s, n + 1)'
  <2>1. TickedTo(slots[s], slots'[s]) /\ Mine(s) /\ slots[s].connectAge <= n
    BY <1>3, <1>12 DEF ConnectedWithin
  <2>2. slots[s].connectAge < ReconnectLimit
    BY <1>4, <1>12, <2>1, Times
  <2>3. slots[s].packetAge <= slots[s].connectAge
    BY <2>1, <2>2 DEF ConnectionInv, SlotsInv
  <2>4. Older(slots[s].packetAge, Oldest) <= ZombieTime
    BY <1>4, <1>12, <2>1, <2>3, Times DEF Older
  <2>5. slots'[s].mine /\ slots'[s].state # "free"
    BY <1>4, <2>1, <2>4, Times DEF TickedTo, Mine, Older
  <2>6. slots'[s].connectAge <= n + 1
    BY <1>4, <1>12, <2>1, Times DEF TickedTo, Older
  <2>. QED BY <2>5, <2>6 DEF ConnectedWithin, Mine
<1>13. SessionInv'
  <2>1. linked' # "none" => Connected'
    BY <1>1 DEF ConnectionInv, SessionInv, Connected
  <2>2. ASSUME NEW q \in toClient', q.kind = "connectResponse", q.current
        PROVE  \E s \in Slots : ConnectedWithin(s, q.age)'
    <3>1. PICK p \in toClient : /\ q.kind = p.kind
                                /\ q.current = p.current
                                /\ q.age = p.age + 1
      BY <1>6, <2>2
    <3>2. PICK s \in Slots : ConnectedWithin(s, p.age)
      BY <2>2, <3>1 DEF ConnectionInv, SessionInv
    <3>3. p.age \in Nat /\ p.age + 1 <= 2 * MaxDelay
      BY <1>6, <3>1, TypeFacts, Times DEF Packets
    <3>4. ConnectedWithin(s, p.age + 1)'
      BY <1>12, <3>2, <3>3
    <3>. QED BY <3>1, <3>4 DEF ConnectedWithin
  <2>3. ASSUME linked' = "current", NEW q \in toServer', q.kind = "connect"
        PROVE  \E s \in Slots : ConnectedWithin(s, MaxDelay + q.age)'
    <3>1. PICK p \in toServer : q.kind = p.kind /\ q.age = p.age + 1
      BY <1>5
    <3>2. PICK s \in Slots : ConnectedWithin(s, MaxDelay + p.age)
      BY <1>1, <2>3, <3>1 DEF ConnectionInv, SessionInv
    <3>3. /\ MaxDelay + p.age \in Nat /\ p.age \in Nat
          /\ (MaxDelay + p.age) + 1 <= 2 * MaxDelay
      BY <1>5, <3>1, TypeFacts, Times DEF Packets
    <3>4. ConnectedWithin(s, (MaxDelay + p.age) + 1)'
      BY <1>12, <3>2, <3>3
    <3>5. (MaxDelay + p.age) + 1 = MaxDelay + q.age
      BY <3>1, <3>3, Times
    <3>. QED BY <3>4, <3>5 DEF ConnectedWithin
  <2>. QED BY <2>1, <2>2, <2>3 DEF SessionInv, ConnectedWithin
<1>14. GameInv'
  <2>1. NoneWaits => NoneWaits'
    BY <1>3, <1>10 DEF NoneWaits, TickedTo
  <2>2. \A q \in toClient' : q.kind = "gamestate" /\ q.current => NoneWaits'
    BY <1>6, <2>1 DEF ConnectionInv, GameInv
  <2>3. InTheGameTogether'
    BY <1>1, <2>1 DEF ConnectionInv, GameInv, InTheGameTogether, NoneWaits
  <2>. QED BY <2>2, <2>3 DEF GameInv
<1>15. GoneInv'
  <2> SUFFICES ASSUME state = "disconnected"
               PROVE  GoneInv'
    BY <1>1 DEF GoneInv
  <2>1. quiet \in Nat /\ quiet' \in Nat /\ quiet' <= quiet + 1
    BY <1>7
  <2>2. \A q \in toServer' : quiet' <= q.age
    <3> SUFFICES ASSUME NEW q \in toServer' PROVE quiet' <= q.age
      OBVIOUS
    <3>1. PICK p \in toServer : q.age = p.age + 1
      BY <1>5
    <3>2. quiet <= p.age /\ p.age \in Nat
      BY TypeFacts, Times DEF ConnectionInv, GoneInv, Packets
    <3>. QED BY <2>1, <3>1, <3>2
  <2>3. ASSUME NEW s \in Slots, Mine(s)'
        PROVE  /\ \/ slots'[s].packetAge = Oldest
                  \/ quiet' <= MaxDelay + slots'[s].packetAge
               /\ Live(slots'[s]) =>
                    quiet' <= MaxDelay + ConnectTimeout + slots'[s].timeoutCount
               /\ slots'[s].state = "zombie" =>
                    \/ quiet' <= MaxDelay + ConnectTimeout + TimeoutFrames + 1
                    \/ slots'[s].packetAge <= ZombieTime
    <3>1. TickedTo(slots[s], slots'[s]) /\ Mine(s) /\ slots'[s].state # "free"
      BY <1>3, <1>10, <2>3 DEF Mine
    <3>2. /\ \/ slots[s].packetAge = Oldest
             \/ quiet <= MaxDelay + slots[s].packetAge
          /\ Live(slots[s]) =>
               quiet <= MaxDelay + ConnectTimeout + slots[s].timeoutCount
      BY <3>1 DEF ConnectionInv, GoneInv
    <3>3. slots'[s].packetAge = Older(slots[s].packetAge, Oldest)
      BY <3>1 DEF TickedTo
    <3>4. \/ slots'[s].packetAge = Oldest
          \/ quiet' <= MaxDelay + slots'[s].packetAge
      BY <1>4, <2>1, <3>2, <3>3, Times DEF Older
    <3>5. Live(slots'[s]) =>
            quiet' <= MaxDelay + ConnectTimeout + slots'[s].timeoutCount
      <4> SUFFICES ASSUME Live(slots'[s])
                   PROVE  quiet' <= MaxDelay + ConnectTimeout
                                      + slots'[s].timeoutCount
        OBVIOUS
      <4>1. Live(slots[s])
        BY <3>1 DEF TickedTo, Live
      <4>2. \/ slots'[s].timeoutCount = slots[s].timeoutCount + 1
            \/ slots'[s].packetAge <= ConnectTimeout
        BY <3>1, <4>1 DEF TickedTo, Live
      <4>. QED BY <1>4, <2>1, <3>2, <3>4, <4>1, <4>2, Times
    <3>6. slots'[s].state = "zombie" =>
            \/ quiet' <= MaxDelay + ConnectTimeout + TimeoutFrames + 1
            \/ slots'[s].packetAge <= ZombieTime
      <4> SUFFICES ASSUME slots'[s].state = "zombie",
                          ~(slots'[s].packetAge <= ZombieTime)
                   PROVE  quiet' <= MaxDelay + ConnectTimeout + TimeoutFrames + 1
        OBVIOUS
      <4>1. Live(slots[s])
        BY <3>1 DEF TickedTo, Live
      <4>. QED BY <1>4, <2>1, <3>2, <4>1, Times
    <3>. QED BY <3>4, <3>5, <3>6
  <2>. QED BY <1>1, <2>2, <2>3 DEF GoneInv
<1>. QED
  BY <1>8, <1>9, <1>11, <1>13, <1>14, <1>15, OneSlotFromFirst, PTL
  DEF ConnectionInv, ConnectionOK

-----------------------------------------------------------------------------
(* The client.                                                               *)

ClientGoesOn ==
  /\ UNCHANGED slots
  /\ state' \in ClientStates
  /\ quiet' \in 0..IF state' = "disconnected" THEN Gone ELSE ClientTimeout
  /\ linked' \in {"none", "current", "old"}
  /\ loaded' \in BOOLEAN /\ known' \in BOOLEAN /\ misled' \in BOOLEAN
  /\ attempts' \in 0..MaxAttempts
  /\ linked' # "none" => Connected'
  /\ linked' = "current" =>
       \/ linked = "current"
       \/ \E p \in toClient : p.kind = "connectResponse" /\ p.current
  /\ InTheGameTogether'
  /\ toClient' \subseteq toClient
  /\ \A p \in toServer' :
       \/ p \in toServer
       \/ p \in Packets /\ (p.kind = "connect" => linked' # "current")
  /\ state' = "disconnected" =>
       \/ quiet' = 0
       \/ /\ state = "disconnected" /\ quiet' = quiet
          /\ toServer' \subseteq toServer

LEMMA ClientGoesOnInv ==
  ASSUME ConnectionInv, ClientGoesOn
  PROVE  ConnectionInv'
<1>1. TypeOK'
  <2>1. {loaded', known', misled'} \subseteq BOOLEAN
    BY DEF ClientGoesOn
  <2>. QED BY <2>1 DEF ClientGoesOn, ConnectionInv, ConnectionOK, TypeOK
<1>2. WiresInv'
  <2>1. toServer' \subseteq Packets /\ toClient' \subseteq Packets
    BY TypeFacts DEF ClientGoesOn
  <2>. QED BY <2>1 DEF WiresInv, Packets
<1>3. /\ slots' = slots
      /\ \A s \in Slots : Mine(s)' <=> Mine(s)
      /\ \A s \in Slots : \A n : ConnectedWithin(s, n)' <=> ConnectedWithin(s, n)
      /\ NoneWaits' <=> NoneWaits
  BY DEF ClientGoesOn, Mine, ConnectedWithin, NoneWaits
<1>4. SlotsInv'
  BY <1>3 DEF ConnectionInv, SlotsInv
<1>5. SessionInv'
  <2>1. linked' # "none" => Connected'
    BY DEF ClientGoesOn
  <2>2. ASSUME NEW p \in toClient', p.kind = "connectResponse", p.current
        PROVE  \E s \in Slots : ConnectedWithin(s, p.age)'
    BY <1>3, <2>2 DEF ClientGoesOn, ConnectionInv, SessionInv
  <2>3. ASSUME linked' = "current", NEW p \in toServer', p.kind = "connect"
        PROVE  \E s \in Slots : ConnectedWithin(s, MaxDelay + p.age)
    <3>1. p \in toServer
      BY <2>3 DEF ClientGoesOn
    <3>2. CASE linked = "current"
      BY <2>3, <3>1, <3>2 DEF ConnectionInv, SessionInv
    <3>3. CASE \E q \in toClient : q.kind = "connectResponse" /\ q.current
      <4>1. PICK q \in toClient : q.kind = "connectResponse" /\ q.current
        BY <3>3
      <4>2. PICK s \in Slots : ConnectedWithin(s, q.age)
        BY <4>1 DEF ConnectionInv, SessionInv
      <4>3. q.age \in 0..MaxDelay /\ p.age \in 0..MaxDelay
        BY <3>1, TypeFacts DEF Packets
      <4>4. slots[s].connectAge \in Nat
        BY TypeFacts, Times DEF SlotRecords
      <4>5. ConnectedWithin(s, MaxDelay + p.age)
        BY <4>2, <4>3, <4>4, Times DEF ConnectedWithin
      <4>. QED BY <4>5
    <3>. QED BY <2>3, <3>2, <3>3 DEF ClientGoesOn
  <2>4. ASSUME linked' = "current", NEW p \in toServer', p.kind = "connect"
        PROVE  \E s \in Slots : ConnectedWithin(s, MaxDelay + p.age)'
    BY <1>3, <2>3, <2>4
  <2>. QED BY <2>1, <2>2, <2>4 DEF SessionInv, ConnectedWithin
<1>6. GameInv'
  <2>1. \A p \in toClient' : p.kind = "gamestate" /\ p.current => NoneWaits'
    BY <1>3 DEF ClientGoesOn, ConnectionInv, GameInv
  <2>. QED BY <2>1 DEF ClientGoesOn, GameInv
<1>7. GoneInv'
  <2> SUFFICES ASSUME state' = "disconnected"
               PROVE  GoneInv'
    BY DEF GoneInv
  <2>1. CASE quiet' = 0
    <3>1. \A p \in toServer' : p.age \in Nat
      BY TypeFacts, Times DEF ClientGoesOn, Packets
    <3>2. \A s \in Slots : /\ slots'[s].packetAge \in Nat
                           /\ slots'[s].timeoutCount \in Nat
      BY <1>3, TypeFacts, Times DEF SlotRecords
    <3>. QED BY <2>1, <3>1, <3>2, Times DEF GoneInv
  <2>2. CASE /\ state = "disconnected" /\ quiet' = quiet
             /\ toServer' \subseteq toServer
    BY <1>3, <2>2 DEF ConnectionInv, GoneInv
  <2>. QED BY <2>1, <2>2 DEF ClientGoesOn
<1>. QED
  BY <1>1, <1>2, <1>4, <1>5, <1>6, <1>7, OneSlotFromFirst, PTL
  DEF ConnectionInv, ConnectionOK

LEMMA ClientFacts ==
  ASSUME ConnectionInv
  PROVE  /\ state \in ClientStates
         /\ quiet \in 0..IF state = "disconnected" THEN Gone ELSE ClientTimeout
         /\ linked \in {"none", "current", "old"}
         /\ loaded \in BOOLEAN /\ known \in BOOLEAN /\ misled \in BOOLEAN
         /\ attempts \in 0..MaxAttempts
         /\ linked # "none" => Connected
         /\ InTheGameTogether
         /\ 0 \in 0..Gone /\ 0 \in 0..ClientTimeout
BY TypeFacts, Times
DEF ConnectionInv, ConnectionOK, TypeOK, SessionInv, GameInv

LEMMA SentFacts ==
  ASSUME NEW kind \in Kinds, ToServer(kind), NEW p \in toServer'
  PROVE  \/ p \in toServer
         \/ p \in Packets /\ p.kind = kind
<1>1. (linked = "current") \in BOOLEAN
  OBVIOUS
<1>2. p \in toServer \/ p = Packet(kind, linked = "current")
  BY PutFacts DEF ToServer
<1>. QED BY <1>1, <1>2, PacketFacts

LEMMA ConnectGoesOn ==
  ASSUME ConnectionInv, Connect
  PROVE  ClientGoesOn
<1>1. /\ linked = "none" /\ state' = "connecting" /\ quiet' = 0 /\ known' = TRUE
      /\ UNCHANGED <<linked, loaded, slots, toServer, toClient, misled>>
  BY ClientFacts DEF Connect, Connected
<1>2. attempts' \in 0..MaxAttempts
  BY ClientFacts, Times DEF Connect
<1>3. InTheGameTogether'
  BY <1>1 DEF InTheGameTogether
<1>. QED
  BY <1>1, <1>2, <1>3, ClientFacts DEF ClientGoesOn, ClientStates, Connected

LEMMA SendsGoesOn ==
  ASSUME ConnectionInv, ClientSends
  PROVE  ClientGoesOn
<1>1. UNCHANGED <<state, quiet, linked, loaded, known, attempts, slots, toClient, misled>>
  BY DEF ClientSends, client
<1>2. \E kind \in {"getchallenge", "connect", "stats", "packet", "idle", "move"} :
        /\ ToServer(kind)
        /\ kind = "connect" => state = "challenging"
        /\ state # "disconnected"
  <2>1. linked # "none" => state # "disconnected"
    BY ClientFacts DEF Connected
  <2>. QED BY <2>1 DEF ClientSends, CheckForResend, WritePacket
<1>3. state # "disconnected"
  BY <1>2
<1>4. \A p \in toServer' :
        \/ p \in toServer
        \/ p \in Packets /\ (p.kind = "connect" => linked' # "current")
  <2>1. state = "challenging" => linked # "current"
    BY ClientFacts DEF Connected
  <2>2. {"getchallenge", "connect", "stats", "packet", "idle", "move"}
          \subseteq Kinds
    BY DEF Kinds, OfSession
  <2>. QED BY <1>1, <1>2, <2>1, <2>2, SentFacts
<1>5. InTheGameTogether' /\ (linked' # "none" => Connected')
  BY <1>1, ClientFacts DEF InTheGameTogether, Mine, Connected
<1>. QED
  BY <1>1, <1>3, <1>4, <1>5, ClientFacts DEF ClientGoesOn

\* All that ends in a disconnected client.
LEMMA DisconnectGoesOn ==
  ASSUME ConnectionInv, Disconnect, UNCHANGED <<attempts, slots>>,
         misled' \in BOOLEAN, toClient' \subseteq toClient
  PROVE  ClientGoesOn
<1>1. /\ state' = "disconnected" /\ quiet' = 0 /\ linked' = "none"
      /\ loaded' = FALSE /\ known' = (known /\ ~Connected)
  BY DEF Disconnect
<1>2. known' \in BOOLEAN
  <2>1. (known /\ ~Connected) \in BOOLEAN
    OBVIOUS
  <2>. QED BY <1>1, <2>1
<1>3. \A p \in toServer' : p \in toServer \/ p \in Packets
  <2>1. CASE UNCHANGED toServer
    BY <2>1
  <2>2. CASE ToServer("leave")
    <3>1. "leave" \in Kinds
      BY DEF Kinds, OfSession
    <3>. QED BY <2>2, <3>1, SentFacts
  <2>. QED BY <2>1, <2>2 DEF Disconnect
<1>4. InTheGameTogether'
  BY <1>1 DEF InTheGameTogether
<1>. QED
  BY <1>1, <1>2, <1>3, <1>4, ClientFacts DEF ClientGoesOn, ClientStates

\* A packet that the client reads or drops: what the handlers have in common.
LEMMA ReceivesGoesOn ==
  ASSUME ConnectionInv, ClientReceives
  PROVE  ClientGoesOn
<1>1. /\ UNCHANGED <<attempts, slots>>
      /\ toClient' \subseteq toClient
  BY TakenFacts
  DEF ClientReceives, FromServer, ReceiveChallengeResponse,
      ReceiveConnectResponse, ReceiveStatResponse, ReceiveRequestStats,
      ReceiveMessage, ReceiveDisconnect, ReceiveError
<1>2. CASE UNCHANGED <<state, quiet, linked, loaded, known, toServer, misled>>
  <2>1. InTheGameTogether' /\ (linked' # "none" => Connected')
    BY <1>1, <1>2, ClientFacts DEF InTheGameTogether, Mine, Connected
  <2>. QED BY <1>1, <1>2, <2>1, ClientFacts DEF ClientGoesOn
<1>3. CASE Disconnect /\ misled' \in BOOLEAN
  BY <1>1, <1>3, DisconnectGoesOn
<1>4. ASSUME /\ state' \in ClientStates \ {"disconnected", "active"}
             /\ quiet' \in {quiet, 0} /\ (quiet' = quiet => state # "disconnected")
             /\ UNCHANGED <<linked, loaded, known, toServer, misled>>
             /\ linked' # "none" => Connected'
      PROVE  ClientGoesOn
  <2>1. InTheGameTogether'
    BY <1>4 DEF InTheGameTogether
  <2>2. quiet' \in 0..ClientTimeout
    BY <1>4, ClientFacts
  <2>. QED BY <1>1, <1>4, <2>1, <2>2, ClientFacts DEF ClientGoesOn
<1>5. ASSUME NEW p \in toClient, ReceiveChallengeResponse(p)
      PROVE  ClientGoesOn
  <2>1. CASE state = "connecting"
    <3>1. linked' = "none"
      BY <1>5, <2>1, ClientFacts DEF ReceiveChallengeResponse, Connected
    <3>. QED
      BY <1>4, <1>5, <2>1, <3>1 DEF ReceiveChallengeResponse, ClientStates
  <2>2. CASE state # "connecting"
    BY <1>2, <1>5, <2>2 DEF ReceiveChallengeResponse, Ignored
  <2>. QED BY <2>1, <2>2
<1>6. ASSUME NEW p \in toClient, ReceiveConnectResponse(p)
      PROVE  ClientGoesOn
  <2>1. CASE state = "challenging"
    <3>1. /\ p.kind = "connectResponse"
          /\ state' = "sendingStats"
          /\ linked' = IF p.current THEN "current" ELSE "old"
          /\ quiet' = 0
          /\ misled' = (misled \/ ~p.current)
          /\ UNCHANGED <<loaded, known, toServer>>
      BY <1>6, <2>1 DEF ReceiveConnectResponse, FromServer
    <3>2. misled' \in BOOLEAN
      <4>1. (misled \/ ~p.current) \in BOOLEAN
        OBVIOUS
      <4>. QED BY <3>1, <4>1
    <3>3. InTheGameTogether' /\ Connected'
      BY <3>1 DEF InTheGameTogether, Connected
    <3>. QED
      BY <1>1, <3>1, <3>2, <3>3, ClientFacts DEF ClientGoesOn, ClientStates
  <2>2. CASE state # "challenging"
    BY <1>2, <1>6, <2>2 DEF ReceiveConnectResponse, Ignored
  <2>. QED BY <2>1, <2>2
<1>7. ASSUME NEW p \in toClient, ReceiveStatResponse(p)
      PROVE  ClientGoesOn
  <2>1. CASE state = "sendingStats"
    BY <1>4, <1>7, <2>1 DEF ReceiveStatResponse, ClientStates, Connected
  <2>2. CASE state # "sendingStats"
    BY <1>2, <1>7, <2>2 DEF ReceiveStatResponse, Ignored
  <2>. QED BY <2>1, <2>2
<1>8. ASSUME NEW p \in toClient, ReceiveRequestStats(p)
      PROVE  ClientGoesOn
  <2>1. CASE state # "sendingStats"
    <3>1. /\ state' = "sendingStats" /\ quiet' = 0
          /\ UNCHANGED <<linked, loaded, known, toServer, misled>>
      BY <1>8, <2>1 DEF ReceiveRequestStats
    <3>2. InTheGameTogether' /\ Connected'
      BY <3>1 DEF InTheGameTogether, Connected
    <3>. QED BY <1>1, <3>1, <3>2, ClientFacts DEF ClientGoesOn, ClientStates
  <2>2. CASE state = "sendingStats"
    BY <1>2, <1>8, <2>2 DEF ReceiveRequestStats, Ignored
  <2>. QED BY <2>1, <2>2
<1>9. ASSUME NEW p \in toClient, ReceiveMessage(p)
      PROVE  ClientGoesOn
  <2>1. CASE Connected /\ linked # "none"
    <3>1. misled' = (misled \/ ~p.current \/ linked = "old")
      BY <1>9, <2>1 DEF ReceiveMessage
    <3>2. misled' \in BOOLEAN
      <4>1. (misled \/ ~p.current \/ linked = "old") \in BOOLEAN
        OBVIOUS
      <4>. QED BY <3>1, <4>1
    <3>3. CASE Disconnect
      BY <1>3, <3>2, <3>3
    <3>4. CASE /\ p.kind # "dropped"
               /\ state' = IF p.kind = "gamestate" THEN "active" ELSE state
               /\ loaded' = (loaded \/ p.kind = "gamestate")
               /\ quiet' = 0
               /\ UNCHANGED <<linked, known, toServer>>
      <4>1. state' \in ClientStates /\ state' # "disconnected" /\ Connected'
        BY <2>1, <3>4, ClientFacts DEF ClientStates, Connected
      <4>2. loaded' \in BOOLEAN
        <5>1. (loaded \/ p.kind = "gamestate") \in BOOLEAN
          OBVIOUS
        <5>. QED BY <3>4, <5>1
      <4>3. ASSUME state' = "active", linked' = "current", ~misled'
            PROVE  NoneWaits
        <5>1. linked = "current" /\ ~misled /\ p.current
          BY <3>1, <3>4, <4>3
        <5>2. CASE p.kind = "gamestate"
          BY <5>1, <5>2 DEF ConnectionInv, GameInv
        <5>3. CASE p.kind # "gamestate"
          <6>1. state = "active"
            BY <3>4, <4>3, <5>3
          <6>. QED BY <5>1, <6>1, ClientFacts DEF InTheGameTogether, NoneWaits
        <5>. QED BY <5>2, <5>3
      <4>4. InTheGameTogether'
        BY <1>1, <4>3 DEF InTheGameTogether, NoneWaits, Mine
      <4>. QED
        BY <1>1, <3>2, <3>4, <4>1, <4>2, <4>4, ClientFacts DEF ClientGoesOn
    <3>. QED BY <1>9, <2>1, <3>3, <3>4 DEF ReceiveMessage
  <2>2. CASE ~(Connected /\ linked # "none")
    BY <1>2, <1>9, <2>2 DEF ReceiveMessage, Ignored
  <2>. QED BY <2>1, <2>2
<1>10. ASSUME NEW p \in toClient, ReceiveDisconnect(p) \/ ReceiveError(p)
       PROVE  ClientGoesOn
  <2>1. \/ Disconnect /\ UNCHANGED misled
        \/ UNCHANGED <<state, quiet, linked, loaded, known, toServer, misled>>
    BY <1>10 DEF ReceiveDisconnect, ReceiveError, Ignored
  <2>. QED BY <1>2, <1>3, <2>1, ClientFacts
<1>. QED
  BY <1>5, <1>6, <1>7, <1>8, <1>9, <1>10 DEF ClientReceives

-----------------------------------------------------------------------------
(* The theorems.                                                             *)

LEMMA InitInv == Init => ConnectionInv
<1> SUFFICES ASSUME Init PROVE ConnectionInv
  OBVIOUS
<1>1. \A s \in Slots : slots[s] = EmptySlot /\ ~Mine(s)
  BY DEF Init, Mine, EmptySlot
<1>2. TypeOK
  <2>1. slots \in [Slots -> SlotRecords]
    BY SlotTypes DEF Init
  <2>2. {loaded, known, misled} \subseteq BOOLEAN
    BY DEF Init
  <2>3. 0 \in 0..Gone /\ 0 \in 0..MaxAttempts
    BY Times
  <2>. QED BY <2>1, <2>2, <2>3 DEF Init, TypeOK, SlotRecords, ClientStates
<1>3. WiresInv /\ SessionInv /\ GameInv
  BY DEF Init, WiresInv, SessionInv, GameInv, InTheGameTogether
<1>4. SlotsInv
  BY <1>1 DEF SlotsInv, EmptySlot
<1>5. GoneInv
  BY <1>1 DEF Init, GoneInv
<1>. QED BY <1>2, <1>3, <1>4, <1>5, OneSlotFromFirst DEF ConnectionInv, ConnectionOK

LEMMA ServerReceivesInv ==
  ASSUME ConnectionInv, ServerReceives
  PROVE  ConnectionInv'
<1>1. PICK p \in toServer :
        ReceiveGetChallenge(p) \/ ReceiveConnect(p) \/ ReceiveStats(p)
          \/ ReceivePacket(p)
  BY DEF ServerReceives
<1>2. UNCHANGED <<state, quiet, loaded, known, attempts>>
  BY DEF ServerReceives
<1>3. CASE ReceiveConnect(p)
  <2>1. CASE /\ ~TooSoon
             /\ \E s \in Slots : Chosen(s) /\ (Accept(s) \/ Deny(s))
             /\ toServer' \in {OfOldSession(w) : w \in Taken(toServer, p)}
    BY <1>2, <1>3, <2>1, NewSessionInv DEF ReceiveConnect
  <2>2. CASE /\ toServer' \in Taken(toServer, p)
             /\ toClient' = toClient \/ ToClient("error")
             /\ UNCHANGED <<linked, slots>>
    <3>1. UNCHANGED <<client, slots, misled>>
      BY <1>2, <1>3, <2>2 DEF ReceiveConnect, client
    <3>. QED BY <2>2, <3>1, TurnedAwayGoesOn, ServerGoesOnInv
  <2>. QED BY <1>3, <2>1, <2>2 DEF ReceiveConnect
<1>. QED
  BY <1>1, <1>2, <1>3, GetChallengeGoesOn, StatsGoesOn, PacketGoesOn,
     ServerGoesOnInv

LEMMA StepInv == ConnectionInv /\ [Next]_vars => ConnectionInv'
<1> SUFFICES ASSUME ConnectionInv, [Next]_vars PROVE ConnectionInv'
  OBVIOUS
<1>1. CASE UNCHANGED vars
  <2>1. ServerGoesOn
    BY <1>1, Unchanged, TypeFacts DEF vars, ServerGoesOn
  <2>. QED BY <2>1, ServerGoesOnInv
<1>2. CASE Connect
  BY <1>2, ConnectGoesOn, ClientGoesOnInv
<1>3. CASE ClientSends
  BY <1>3, SendsGoesOn, ClientGoesOnInv
<1>4. CASE Leave \/ CheckTimeout
  <2>1. ClientGoesOn
    BY <1>4, DisconnectGoesOn, ClientFacts DEF Leave, CheckTimeout
  <2>. QED BY <2>1, ClientGoesOnInv
<1>5. CASE ClientReceives
  BY <1>5, ReceivesGoesOn, ClientGoesOnInv
<1>6. CASE ServerReceives
  BY <1>6, ServerReceivesInv
<1>7. ASSUME NEW s \in Slots,
             SendMessage(s) \/ Kick(s) \/ OtherConnects(s) \/ OtherLeaves(s)
      PROVE  ConnectionInv'
  BY <1>7, SendMessageGoesOn, KickGoesOn, ServerGoesOnInv, OtherConnectsInv,
     OtherLeavesInv
<1>8. CASE Tick
  BY <1>8, TickInv
<1>. QED
  BY <1>1, <1>2, <1>3, <1>4, <1>5, <1>6, <1>7, <1>8 DEF Next

\* The client, the server's slots, the packets under way and the clocks agree,
\* however packets are lost, repeated and reordered within their lifetime.
THEOREM Invariance == Spec => []ConnectionInv
BY InitInv, StepInv, PTL DEF Spec

\* SV_DirectConnect never gives a client a second slot, and every variable has
\* its type.
THEOREM NoSecondSlot == Spec => [](TypeOK /\ OneSlot)
<1>1. ConnectionInv => TypeOK /\ OneSlot
  BY DEF ConnectionInv, ConnectionOK
<1>. QED BY <1>1, Invariance, PTL

\* A client in the game is never one that the server waits to send a gamestate,
\* unless it took a packet of an earlier session for one of this.
THEOREM Together == Spec => []InTheGameTogether
<1>1. ConnectionInv => InTheGameTogether
  BY DEF ConnectionInv, GameInv
<1>. QED BY <1>1, Invariance, PTL

\* SV_CheckTimeouts frees the slot of a client that is gone after the longest
\* silence it allows, and the last packets of that client do not prolong it.
THEOREM Freed == Spec => []SlotFreed
<1>1. ConnectionInv => SlotFreed
  <2> SUFFICES ASSUME ConnectionInv, state = "disconnected", quiet = Gone,
                      NEW s \in Slots, Mine(s)
               PROVE  FALSE
    BY DEF SlotFreed
  <2>1. /\ slots[s].packetAge \in 0..Oldest
        /\ slots[s].timeoutCount \in 0..TimeoutFrames
        /\ slots[s].state \in SlotStates
    BY TypeFacts DEF SlotRecords
  <2>2. slots[s].state = "zombie" \/ Live(slots[s])
    BY <2>1 DEF Mine, Live, SlotStates, ConnectionInv, SlotsInv
  <2>3. /\ slots[s].packetAge = Oldest \/ Gone <= MaxDelay + slots[s].packetAge
        /\ Live(slots[s]) =>
             Gone <= MaxDelay + ConnectTimeout + slots[s].timeoutCount
        /\ slots[s].state = "zombie" =>
             \/ Gone <= MaxDelay + ConnectTimeout + TimeoutFrames + 1
             \/ slots[s].packetAge <= ZombieTime
    BY DEF ConnectionInv, GoneInv
  <2>. QED BY <2>1, <2>2, <2>3, Times
<1>. QED BY <1>1, Invariance, PTL

\* No connect packet that arrives late, or again, resets the session that a
\* client has with the server: sv_reconnectlimit outlives the packets.
THEOREM Kept == Spec => SessionKept
<1>1. ConnectionInv /\ [Next]_vars =>
        [linked = "current" /\ linked' # linked => state' = "disconnected"]_vars
  <2> SUFFICES ASSUME ConnectionInv, Next, linked = "current", linked' # linked
               PROVE  state' = "disconnected"
    OBVIOUS
  <2>1. state # "challenging"
    BY ClientFacts DEF Connected
  <2>2. CASE Leave \/ CheckTimeout
    BY <2>2 DEF Leave, CheckTimeout, Disconnect
  <2>3. CASE ClientReceives
    BY <2>1, <2>3
    DEF ClientReceives, ReceiveChallengeResponse, ReceiveConnectResponse,
        ReceiveStatResponse, ReceiveRequestStats, ReceiveMessage,
        ReceiveDisconnect, ReceiveError, Ignored, Disconnect
  <2>4. CASE ServerReceives
    BY <2>4, InSessionTooSoon
    DEF ServerReceives, ReceiveGetChallenge, ReceiveConnect, ReceiveStats,
        ReceivePacket
  <2>. QED
    BY <2>2, <2>3, <2>4
    DEF Next, Connect, ClientSends, SendMessage, Kick, OtherConnects,
        OtherLeaves, Tick, client
<1>. QED BY <1>1, Invariance, PTL DEF Spec, SessionKept

=============================================================================
