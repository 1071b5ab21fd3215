------------------------------ MODULE Connection ------------------------------
(* How a client gets a slot of the server and loses it: challenge, connect,  *)
(* stats, gamestate, leaving, dropping, timing out, reconnecting.  The wire  *)
(* loses, repeats and reorders packets, but no packet lives longer than      *)
(* MaxDelay.  One client is modelled; of the others only that they take and  *)
(* leave slots.                                                              *)
EXTENDS Integers

CONSTANTS
  MaxSlots,         \* sv_maxclients
  MaxDelay,         \* bound: how many ticks a packet may be under way
  ReconnectLimit,   \* sv_reconnectlimit, in ticks
  ZombieTime,       \* sv_zombietime
  Timeout,          \* sv_timeout
  ConnectTimeout,   \* sv_connectTimeout
  TimeoutFrames,    \* 5 in SV_CheckTimeouts
  QuietTime,        \* 3000 ms in CL_DisconnectPacket
  ClientTimeout,    \* cl_timeout, cl_connectTimeout
  MaxAttempts       \* bound: how often the player connects

\* A packet that answers another one comes before the time limits of the
\* server have passed since the first was sent.
ASSUME TimeAssumption ==
  /\ {MaxSlots, MaxDelay, MaxAttempts} \subseteq Nat \ {0}
  /\ {ReconnectLimit, ZombieTime, Timeout, ConnectTimeout, TimeoutFrames,
      QuietTime, ClientTimeout} \subseteq Nat
  /\ 2 * MaxDelay < ReconnectLimit
  /\ 2 * MaxDelay <= ZombieTime

VARIABLES
  state,      \* the client's connectionState
  quiet,      \* cls.realtime - clc->lastPacketTime; disconnected: for how long
  linked,     \* clc->netchan: none, or set up for the server's session or an old one
  loaded,     \* the client knows the server id, from a gamestate
  known,      \* clc->serverAddress is the server's
  attempts,   \* connect commands of the player
  slots,      \* svs.clients
  toServer,   \* packets under way
  toClient,
  misled      \* history: a packet of an earlier session was taken for one of this

client == <<state, quiet, linked, loaded, known, attempts>>
vars == <<client, slots, toServer, toClient, misled>>

Slots == 0..MaxSlots - 1

ClientStates ==
  {"disconnected", "connecting", "challenging", "sendingStats", "connected",
   "active"}

\* connectionState >= CA_CONNECTED.
Connected == state \in {"sendingStats", "connected", "active"}

\* A slot that somebody else has is "other".
SlotStates == {"free", "zombie", "connected", "loading", "active", "other"}

Oldest == 1 + IF ConnectTimeout > ZombieTime THEN ConnectTimeout ELSE ZombieTime

\* The time that a slot may be taken without its client: a last packet is on its
\* way, the slot grows old and is counted silent, and a zombie has another frame.
Gone == MaxDelay + Oldest + TimeoutFrames + 1

EmptySlot ==
  [state |-> "free", mine |-> FALSE, connectAge |-> ReconnectLimit,
   packetAge |-> Oldest, stats |-> FALSE, notice |-> FALSE,
   timeoutCount |-> 0]

NewSlot ==
  [state |-> "connected", mine |-> TRUE, connectAge |-> 0, packetAge |-> 0,
   stats |-> FALSE, notice |-> FALSE, timeoutCount |-> 0]

\* header.state # CS_FREE, and the address and qport are the client's.
Mine(s) == slots[s].mine /\ slots[s].state # "free"

Live(slot) == slot.state \in {"connected", "loading", "active"}

-----------------------------------------------------------------------------
(* The wire.  A packet of a net channel, and the response that sets one up,  *)
(* belong to a session: current says that it is still the server's last one. *)

OfSession ==
  {"connectResponse", "packet", "idle", "move", "leave", "message",
   "gamestate", "dropped"}

Packet(kind, current) ==
  [kind |-> kind, age |-> 0, current |-> kind \in OfSession => current]

\* The wire has a place for each of the packets that do harm when they are late,
\* and one for the others; a new packet pushes out the one in its place.
Place(kind) ==
  IF kind \in {"connect", "leave", "statResponse", "requeststats"} THEN kind
  ELSE "other"

Put(wire, p) == {q \in wire : Place(q.kind) # Place(p.kind)} \cup {p}

\* The packet taken is gone, or comes again.
Taken(wire, p) == {wire, wire \ {p}}

Aged(wire) ==
  {[p EXCEPT !.age = @ + 1] : p \in {q \in wire : q.age < MaxDelay}}

OfOldSession(wire) ==
  {IF p.kind \in OfSession THEN [p EXCEPT !.current = FALSE] ELSE p : p \in wire}

ToServer(kind) == toServer' = Put(toServer, Packet(kind, linked = "current"))

-----------------------------------------------------------------------------
Init ==
  /\ state = "disconnected"
  /\ quiet = 0
  /\ linked = "none"
  /\ loaded = FALSE
  /\ known = FALSE
  /\ attempts = 0
  /\ slots = [s \in Slots |-> EmptySlot]
  /\ toServer = {}
  /\ toClient = {}
  /\ misled = FALSE

-----------------------------------------------------------------------------
(* The client sends.                                                         *)

\* CL_Connect_f, for a server on another machine.
Connect ==
  /\ state = "disconnected"
  /\ attempts < MaxAttempts
  /\ attempts' = attempts + 1
  /\ state' = "connecting"
  /\ quiet' = 0
  /\ known' = TRUE
  /\ UNCHANGED <<linked, loaded, slots, toServer, toClient, misled>>

\* CL_CheckForResend; how often it sends is left open.
CheckForResend ==
  \/ state = "connecting" /\ ToServer("getchallenge")
  \/ state = "challenging" /\ ToServer("connect")
  \/ state = "sendingStats" /\ known /\ ToServer("stats")

\* CL_WritePacket: with the server id of the last gamestate, and with moves
\* when the map is loaded.
WritePacket ==
  /\ linked # "none"
  /\ \/ state = "connected" /\ ~loaded /\ ToServer("packet")
     \/ state = "connected" /\ loaded /\ ToServer("idle")
     \/ state = "active" /\ ToServer("move")

ClientSends ==
  /\ UNCHANGED <<client, slots, toClient, misled>>
  /\ CheckForResend \/ WritePacket

\* CL_Disconnect: a client with a net channel says so, and forgets its clc.
Disconnect ==
  /\ state' = "disconnected"
  /\ quiet' = 0
  /\ linked' = "none"
  /\ loaded' = FALSE
  /\ known' = (known /\ ~Connected)
  /\ IF state \in {"connected", "active"} /\ linked # "none"
     THEN ToServer("leave")
     ELSE UNCHANGED toServer

\* The player leaves, an error of his own makes him, or he gives up connecting.
Leave ==
  /\ state # "disconnected"
  /\ Disconnect
  /\ UNCHANGED <<attempts, slots, toClient, misled>>

CheckTimeout ==
  /\ Connected
  /\ quiet = ClientTimeout
  /\ Disconnect
  /\ UNCHANGED <<attempts, slots, toClient, misled>>

-----------------------------------------------------------------------------
(* The client receives.                                                      *)

FromServer(kind, p) ==
  /\ p \in toClient
  /\ p.kind = kind
  /\ toClient' \in Taken(toClient, p)

Ignored == UNCHANGED <<state, quiet, linked, loaded, known, toServer, misled>>

ReceiveChallengeResponse(p) ==
  /\ FromServer("challengeResponse", p)
  /\ IF state = "connecting"
     THEN /\ state' = "challenging"
          /\ UNCHANGED <<quiet, linked, loaded, known, toServer, misled>>
     ELSE Ignored

ReceiveConnectResponse(p) ==
  /\ FromServer("connectResponse", p)
  /\ IF state = "challenging"
     THEN /\ state' = "sendingStats"
          /\ linked' = IF p.current THEN "current" ELSE "old"
          /\ quiet' = 0
          /\ misled' = (misled \/ ~p.current)
          /\ UNCHANGED <<loaded, known, toServer>>
     ELSE Ignored

\* The server has all the stats.
ReceiveStatResponse(p) ==
  /\ FromServer("statResponse", p)
  /\ IF state = "sendingStats"
     THEN /\ state' = "connected"
          /\ quiet' = 0
          /\ UNCHANGED <<linked, loaded, known, toServer, misled>>
     ELSE Ignored

\* Taken in every state, and from any address.
ReceiveRequestStats(p) ==
  /\ FromServer("requeststats", p)
  /\ IF state # "sendingStats"
     THEN /\ state' = "sendingStats"
          /\ quiet' = 0
          /\ UNCHANGED <<linked, loaded, known, toServer, misled>>
     ELSE Ignored

\* CL_PacketEvent.  Loading the map is part of reading the gamestate.
ReceiveMessage(p) ==
  /\ p \in toClient
  /\ p.kind \in {"message", "gamestate", "dropped"}
  /\ toClient' \in Taken(toClient, p)
  /\ IF Connected /\ linked # "none"
     THEN /\ misled' = (misled \/ ~p.current \/ linked = "old")
          /\ \/ p.kind = "dropped" /\ Disconnect
             \/ /\ p.kind # "dropped"
                /\ state' = IF p.kind = "gamestate" THEN "active" ELSE state
                /\ loaded' = (loaded \/ p.kind = "gamestate")
                /\ quiet' = 0
                /\ UNCHANGED <<linked, known, toServer>>
     ELSE Ignored

\* A client that still hears from the server does not believe it.
ReceiveDisconnect(p) ==
  /\ FromServer("disconnect", p)
  /\ IF Connected /\ linked # "none" /\ quiet >= QuietTime
     THEN Disconnect /\ UNCHANGED misled
     ELSE Ignored

ReceiveError(p) ==
  /\ FromServer("error", p)
  /\ IF state # "disconnected" /\ known THEN Disconnect /\ UNCHANGED misled
     ELSE Ignored

ClientReceives ==
  /\ UNCHANGED <<attempts, slots>>
  /\ \E p \in toClient :
       \/ ReceiveChallengeResponse(p)
       \/ ReceiveConnectResponse(p)
       \/ ReceiveStatResponse(p)
       \/ ReceiveRequestStats(p)
       \/ ReceiveMessage(p)
       \/ ReceiveDisconnect(p)
       \/ ReceiveError(p)

-----------------------------------------------------------------------------
(* The server receives.                                                      *)

FromClient(kind, p) ==
  /\ p \in toServer
  /\ p.kind = kind
  /\ toServer' \in Taken(toServer, p)

ToClient(kind) == toClient' = Put(toClient, Packet(kind, TRUE))

\* SV_GetChallenge.  A number that was given out stays in the table until 1024
\* others were, so that a connect packet always finds its own.
ReceiveGetChallenge(p) ==
  /\ FromClient("getchallenge", p)
  /\ ToClient("challengeResponse")
  /\ UNCHANGED <<linked, slots, misled>>

\* The first slot with the client's address and qport, even a free one, tells
\* when it connected last.
First(s) == slots[s].mine /\ \A r \in 0..s - 1 : ~slots[r].mine

\* A faulty TooSoon, of clients in the server only.
TooSoonUnlessDropped ==
  \E s \in Slots :
    First(s) /\ Live(slots[s]) /\ slots[s].connectAge < ReconnectLimit

TooSoon == \E s \in Slots : First(s) /\ slots[s].connectAge < ReconnectLimit

\* A faulty Chosen, which does not find the slot of a dropped client.
ChosenUnlessDropped(s) ==
  \/ Mine(s) /\ Live(slots[s])
  \/ /\ \A r \in Slots : ~Mine(r) \/ ~Live(slots[r])
     /\ slots[s].state = "free"
     /\ \A r \in 0..s - 1 : slots[r].state # "free"

\* The slot that the client has, or else the first free one.
Chosen(s) ==
  \/ Mine(s) /\ \A r \in 0..s - 1 : ~Mine(r)
  \/ /\ \A r \in Slots : ~Mine(r)
     /\ slots[s].state = "free"
     /\ \A r \in 0..s - 1 : slots[r].state # "free"

\* A new session: whatever is under way belongs to an old one.
Accept(s) ==
  /\ slots' = [slots EXCEPT ![s] = NewSlot]
  /\ linked' = IF linked = "current" THEN "old" ELSE linked
  /\ toClient' = Put(OfOldSession(toClient), Packet("connectResponse", TRUE))

\* ClientConnect refuses; the slot was cleared already.
Deny(s) ==
  /\ slots' = [slots EXCEPT ![s] = [EmptySlot EXCEPT !.mine = TRUE]]
  /\ linked' = IF linked = "current" THEN "old" ELSE linked
  /\ toClient' = Put(OfOldSession(toClient), Packet("error", TRUE))

\* SV_DirectConnect.
ReceiveConnect(p) ==
  /\ p \in toServer
  /\ p.kind = "connect"
  /\ \/ TooSoon /\ toServer' \in Taken(toServer, p)
        /\ UNCHANGED <<linked, slots, toClient>>
     \/ /\ ~TooSoon
        /\ \E s \in Slots : Chosen(s) /\ (Accept(s) \/ Deny(s))
        /\ toServer' \in {OfOldSession(w) : w \in Taken(toServer, p)}
     \/ /\ ~TooSoon
        /\ \A s \in Slots : ~Chosen(s)
        /\ ToClient("error")
        /\ toServer' \in Taken(toServer, p)
        /\ UNCHANGED <<linked, slots>>
  /\ UNCHANGED misled

\* SV_ReceiveStats, for a zombie too.  The seven packets are one here.
ReceiveStats(p) ==
  /\ FromClient("stats", p)
  /\ \/ \E s \in Slots :
          /\ Mine(s)
          /\ slots' = [slots EXCEPT ![s].stats = TRUE, ![s].packetAge = 0]
          /\ ToClient("statResponse")
     \/ ~(\E s \in Slots : Mine(s)) /\ UNCHANGED <<slots, toClient>>
  /\ UNCHANGED <<linked, misled>>

\* SV_DropClient.  A client in the game is told by a reliable command, which is
\* in every message to the zombie, another by a packet.
Dropped(slot) ==
  [slot EXCEPT !.state = "zombie", !.notice = slot.state = "active"]

Told(wire, slot) ==
  IF slot.state = "active" THEN wire ELSE Put(wire, Packet("disconnect", TRUE))

\* A faulty SendClientGameState: the slot stays connected.
SendClientGameStateEarly(s) ==
  /\ slots' = [slots EXCEPT ![s].packetAge = 0]
  /\ ToClient(IF slots[s].stats THEN "gamestate" ELSE "requeststats")

\* SV_SendClientGameState, once its fragments are sent.
SendClientGameState(s) ==
  LET heard == [slots EXCEPT ![s].packetAge = 0] IN
  IF slots[s].stats
  THEN /\ slots' = [heard EXCEPT ![s].state = "loading"]
       /\ ToClient("gamestate")
  ELSE /\ slots' = heard
       /\ ToClient("requeststats")

\* SV_ExecuteClientMessage.  A packet with another server id gets the gamestate
\* again; that the client may first have to acknowledge a later message than
\* the gamestate it missed is left out.
ExecuteClientMessage(s, p) ==
  LET heard == [slots EXCEPT ![s].packetAge = 0] IN
  \/ p.kind = "packet" /\ SendClientGameState(s)
  \/ p.kind = "idle" /\ slots' = heard /\ UNCHANGED toClient
  \/ /\ p.kind = "move"
     /\ slots' = IF slots[s].state = "loading"
                 THEN [heard EXCEPT ![s].state = "active"] ELSE heard
     /\ UNCHANGED toClient
  \/ /\ p.kind = "leave"
     /\ slots' = [slots EXCEPT ![s] = Dropped(heard[s])]
     /\ toClient' = Told(toClient, slots[s])

\* SV_PacketEvent: a zombie's packets are passed to its net channel only.
ReceivePacket(p) ==
  /\ p \in toServer
  /\ p.kind \in {"packet", "idle", "move", "leave"}
  /\ toServer' \in Taken(toServer, p)
  /\ \/ \E s \in Slots :
          /\ Mine(s)
          /\ IF Live(slots[s])
             THEN /\ ExecuteClientMessage(s, p)
                  /\ misled' = (misled \/ ~p.current)
             ELSE UNCHANGED <<slots, toClient, misled>>
     \/ /\ \A s \in Slots : ~Mine(s)
        /\ ToClient("disconnect")
        /\ UNCHANGED <<slots, misled>>
  /\ UNCHANGED linked

ServerReceives ==
  /\ UNCHANGED <<state, quiet, loaded, known, attempts>>
  /\ \E p \in toServer :
       \/ ReceiveGetChallenge(p)
       \/ ReceiveConnect(p)
       \/ ReceiveStats(p)
       \/ ReceivePacket(p)

-----------------------------------------------------------------------------
(* The server on its own, and time.                                          *)

\* SV_SendClientMessages.
SendMessage(s) ==
  /\ Mine(s)
  /\ ToClient(IF slots[s].notice THEN "dropped" ELSE "message")
  /\ UNCHANGED <<client, slots, toServer, misled>>

\* A kick, or a drop by the game.
Kick(s) ==
  /\ Mine(s)
  /\ Live(slots[s])
  /\ slots' = [slots EXCEPT ![s] = Dropped(slots[s])]
  /\ toClient' = Told(toClient, slots[s])
  /\ UNCHANGED <<client, toServer, misled>>

\* Another player takes the first free slot, and leaves it.
OtherConnects(s) ==
  /\ slots[s].state = "free"
  /\ \A r \in 0..s - 1 : slots[r].state # "free"
  /\ slots' = [slots EXCEPT ![s] = [EmptySlot EXCEPT !.state = "other"]]
  /\ UNCHANGED <<client, toServer, toClient, misled>>

OtherLeaves(s) ==
  /\ slots[s].state = "other"
  /\ slots' = [slots EXCEPT ![s].state = "free"]
  /\ UNCHANGED <<client, toServer, toClient, misled>>

Older(age, limit) == IF age < limit THEN age + 1 ELSE limit

OlderSlot(slot) ==
  [slot EXCEPT !.connectAge = Older(@, ReconnectLimit),
               !.packetAge = Older(@, Oldest)]

\* A faulty Silent: who never got into the game is not looked at.
SilentInGame(slot) ==
  slot.state = "active" /\ slot.packetAge > ConnectTimeout

\* An active client that is silent for less than Timeout falls through to the
\* shorter limit of the other states.
Silent(slot) ==
  \/ slot.state = "active" /\ slot.packetAge > Timeout
  \/ Live(slot) /\ slot.packetAge > ConnectTimeout

TimedOut(slot) == Silent(slot) /\ slot.timeoutCount >= TimeoutFrames

\* SV_CheckTimeouts for one slot.
Checked(slot) ==
  IF slot.state = "zombie" /\ slot.packetAge > ZombieTime
  THEN [slot EXCEPT !.state = "free", !.packetAge = Oldest, !.notice = FALSE]
  ELSE IF TimedOut(slot) THEN Dropped(slot)
  ELSE [slot EXCEPT !.timeoutCount = IF Silent(slot) THEN @ + 1 ELSE 0]

\* Time passes, packets get lost of old age, and a frame of the server checks
\* for timeouts.
Tick ==
  LET older == [s \in Slots |-> OlderSlot(slots[s])] IN
  /\ UNCHANGED <<state, linked, loaded, known, attempts, misled>>
  /\ toServer' = Aged(toServer)
  /\ quiet' = CASE Connected -> Older(quiet, ClientTimeout)
               [] state = "disconnected" -> Older(quiet, Gone)
               [] OTHER -> quiet
  /\ slots' = [s \in Slots |-> Checked(older[s])]
  /\ toClient' = IF \E s \in Slots : TimedOut(older[s]) /\ older[s].state # "active"
                   THEN Put(Aged(toClient), Packet("disconnect", TRUE))
                   ELSE Aged(toClient)

Next ==
  \/ Connect \/ ClientSends \/ Leave \/ CheckTimeout
  \/ ClientReceives \/ ServerReceives
  \/ \E s \in Slots :
       SendMessage(s) \/ Kick(s) \/ OtherConnects(s) \/ OtherLeaves(s)
  \/ Tick

Spec == Init /\ [][Next]_vars

-----------------------------------------------------------------------------
(* Properties.                                                               *)

TypeOK ==
  /\ state \in ClientStates
  /\ quiet \in 0..IF state = "disconnected" THEN Gone ELSE ClientTimeout
  /\ linked \in {"none", "current", "old"}
  /\ {loaded, known, misled} \subseteq BOOLEAN
  /\ attempts \in 0..MaxAttempts
  /\ slots \in
       [Slots -> [state : SlotStates, mine : BOOLEAN,
                  connectAge : 0..ReconnectLimit, packetAge : 0..Oldest,
                  stats : BOOLEAN, notice : BOOLEAN,
                  timeoutCount : 0..TimeoutFrames]]

OneSlot == \A r, s \in Slots : Mine(r) /\ Mine(s) => r = s

\* Every variable has its type, and a client that reconnects, however late its
\* packets are and whatever became of its slot, never has two slots: the reuse
\* and the search for a free slot of SV_DirectConnect.
ConnectionOK == TypeOK /\ OneSlot

\* A client in the game whose session is the server's is not waiting for a
\* gamestate there, unless a packet of an earlier session came between.
InTheGameTogether ==
  state = "active" /\ linked = "current" /\ ~misled =>
    \A s \in Slots : Mine(s) => slots[s].state # "connected"

\* A repeated or late connect packet never resets the session that a client has
\* with the server: the reconnect limit outlives the packets.
SessionKept ==
  [][linked = "current" /\ linked' # linked => state' = "disconnected"]_vars

\* The slot of a client that is gone becomes free in time, although its packets
\* go on arriving for a while and may even take another slot.
SlotFreed == state = "disconnected" /\ quiet = Gone => \A s \in Slots : ~Mine(s)

-----------------------------------------------------------------------------
(* Why it works: how old what is under way and what the slots remember are.  *)

Kinds ==
  OfSession \cup {"getchallenge", "connect", "stats", "challengeResponse",
                  "statResponse", "requeststats", "disconnect", "error"}

WiresInv ==
  \A wire \in {toServer, toClient} :
    wire \subseteq [kind : Kinds, age : 0..MaxDelay, current : BOOLEAN]

\* The client's slot is the first that remembers it; who connected lately was
\* heard lately.
SlotsInv ==
  \A s \in Slots :
    /\ slots[s].mine => slots[s].state # "other"
    /\ Mine(s) => \A r \in 0..s - 1 : ~slots[r].mine
    /\ Mine(s) /\ slots[s].connectAge < ReconnectLimit =>
         slots[s].packetAge <= slots[s].connectAge

ConnectedWithin(s, time) == Mine(s) /\ slots[s].connectAge <= time

\* A response of the current session is as old as that session, and a connect
\* packet, sent before its response came, is almost as old.
SessionInv ==
  /\ linked # "none" => Connected
  /\ \A p \in toClient :
       p.kind = "connectResponse" /\ p.current =>
         \E s \in Slots : ConnectedWithin(s, p.age)
  /\ linked = "current" =>
       \A p \in toServer :
         p.kind = "connect" =>
           \E s \in Slots : ConnectedWithin(s, MaxDelay + p.age)

NoneWaits == \A s \in Slots : Mine(s) => slots[s].state # "connected"

GameInv ==
  /\ \A p \in toClient : p.kind = "gamestate" /\ p.current => NoneWaits
  /\ InTheGameTogether

\* How long a client can be gone that still has a slot.
GoneInv ==
  state = "disconnected" =>
    /\ \A p \in toServer : quiet <= p.age
    /\ \A s \in Slots :
         Mine(s) =>
           /\ \/ slots[s].packetAge = Oldest
              \/ quiet <= MaxDelay + slots[s].packetAge
           /\ Live(slots[s]) =>
                quiet <= MaxDelay + ConnectTimeout + slots[s].timeoutCount
           /\ slots[s].state = "zombie" =>
                \/ quiet <= MaxDelay + ConnectTimeout + TimeoutFrames + 1
                \/ slots[s].packetAge <= ZombieTime

\* The two ends, the wire and the clocks agree.
ConnectionInv ==
  ConnectionOK /\ WiresInv /\ SlotsInv /\ SessionInv /\ GameInv /\ GoneInv

=============================================================================
