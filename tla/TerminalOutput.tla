--------------------------- MODULE TerminalOutput ---------------------------
(***************************************************************************)
(* The way of a game server's packets to the gates (terminal).             *)
(*                                                                         *)
(* It has two stages of the same kind.  Several threads empty a vector of  *)
(* packets; with the vector's mutex held, each also draws the next index   *)
(* (getRouteIndex, getMessageIndex).  They work on what they have taken in *)
(* parallel, and put the result into a map under their index.  One thread  *)
(* takes the results out of the map in the order of the indices.  In the   *)
(* first stage the players' routes are looked up, in the second, which     *)
(* every gate has of its own, packets are copied to message blocks.        *)
(*                                                                         *)
(* Each thread of the first stage has a copy of all routes.  A route is    *)
(* made by the thread that reads CMSG_PLAYER_ENTER_MAP from a gate, and    *)
(* removed by the dispatching thread when it meets SMSG_PLAYER_LEAVE_MAP.  *)
(*                                                                         *)
(* Packets are numbered in the order in which the scene puts them out.     *)
(***************************************************************************)
EXTENDS Naturals, Sequences, Functions

CONSTANTS
  Player,
  Gate,            \* the GateTerminals
  NoGate,
  RouteThread,     \* threads of PlayerRoute
  SerializeThread, \* threads of each gate's PacketSerializeAssistant
  IndexLimit,      \* 0xFFFFFFFF, the modulus of increaseNumber
  EntersEarly,     \* a player may enter before it is told to have left
  GatesFail,       \* connections with gates are lost
  MaxPackets       \* bound of the model: packets in all

ASSUME NoGateAssumption == NoGate \notin Gate
ASSUME IndexLimitAssumption == IndexLimit \in Nat \ {0, 1}
ASSUME EntersEarlyAssumption == EntersEarly \in BOOLEAN
ASSUME GatesFailAssumption == GatesFail \in BOOLEAN
ASSUME MaxPacketsAssumption == MaxPackets \in Nat

VARIABLES
  (* the scene and its players *)
  sent,            \* Seq of [guid, opcode, gate]: packets put out so far
  place,           \* [Player -> ...]: where the player is
  gate,            \* [Player -> Gate]: the gate by which it entered
  lost,            \* gates whose connection is lost
  lost_gate_connection,
  dropped,         \* packets without a route
  (* PlayerRoute *)
  packet_vec,
  route_index,     \* m_packet_route_index
  router,          \* [RouteThread -> [index, packets, info]]
  terminal_route,  \* [RouteThread -> [Player -> Gate \cup {NoGate}]]
  route_change,    \* the call of addRoute or removeRoute that holds
                   \* m_terminal_route_que_mutex
  (* PlayerRouteDispatch *)
  route_info_map,  \* set of [index, info]
  route_pos,
  dispatching,     \* what is left of the info it has taken
  (* GateTerminal, for each gate *)
  gate_vec,        \* the PacketSerializeAssistant's packets
  msg_index,
  serializer,      \* [Gate -> [SerializeThread -> [index, packets]]]
  msg_block_map,   \* set of [index, blocks]
  msg_pos,
  msg_block,       \* m_current_msg_block: <<>>, or the block
  written          \* packets written to the socket

sceneVars == <<sent, place, gate, lost, lost_gate_connection, dropped>>
routeVars == <<packet_vec, route_index, router>>
dispatchVars == <<route_info_map, route_pos, dispatching>>
changeVars == <<terminal_route, route_change>>
serializeVars == <<gate_vec, msg_index, serializer>>
writeVars == <<msg_block_map, msg_pos, msg_block, written>>
vars == <<sceneVars, routeVars, dispatchVars, changeVars, serializeVars,
          writeVars>>

Index == 0 .. IndexLimit - 1
Number == 1 .. MaxPackets
Opcode == {"LEAVE_MAP", "OTHER"}
RouteInfo == [packet : Number, terminal : Gate]
NoChange == [by |-> "none"]
Change == [by : {"enter", "dispatch"}, guid : Player,
           terminal : Gate \cup {NoGate}, todo : SUBSET RouteThread]

TerminalOutputTypeOK ==
  /\ sent \in Seq([guid : Player, opcode : Opcode, gate : Gate \cup {NoGate}])
  /\ Len(sent) <= MaxPackets
  /\ place \in [Player -> {"out", "entering", "in", "leaving"}]
  /\ gate \in [Player -> Gate \cup {NoGate}]
  /\ lost \subseteq Gate
  /\ lost_gate_connection \in BOOLEAN
  /\ dropped \subseteq Number
  /\ packet_vec \in Seq(Number)
  /\ route_index \in Index
  /\ router \in [RouteThread -> [index : Index, packets : Seq(Number),
                                 info : Seq(RouteInfo), busy : BOOLEAN]]
  /\ terminal_route \in [RouteThread -> [Player -> Gate \cup {NoGate}]]
  /\ route_change \in Change \cup {NoChange}
  /\ route_info_map \subseteq [index : Index, info : Seq(RouteInfo)]
  /\ route_pos \in Index
  /\ dispatching \in Seq(RouteInfo)
  /\ gate_vec \in [Gate -> Seq(Number)]
  /\ msg_index \in [Gate -> Index]
  /\ serializer \in [Gate -> [SerializeThread ->
                               [index : Index, packets : Seq(Number)]]]
  /\ msg_block_map \in [Gate -> SUBSET [index : Index, blocks : Seq(Number)]]
  /\ msg_pos \in [Gate -> Index]
  /\ msg_block \in [Gate -> Seq(Number)]
  /\ written \in [Gate -> Seq(Number)]

Init ==
  /\ sent = <<>>
  /\ place = [p \in Player |-> "out"]
  /\ gate = [p \in Player |-> NoGate]
  /\ lost = {}
  /\ lost_gate_connection = FALSE
  /\ dropped = {}
  /\ packet_vec = <<>>
  /\ route_index = 0
  /\ router = [r \in RouteThread |->
                [index |-> 0, packets |-> <<>>, info |-> <<>>, busy |-> FALSE]]
  /\ terminal_route = [r \in RouteThread |-> [p \in Player |-> NoGate]]
  /\ route_change = NoChange
  /\ route_info_map = {}
  /\ route_pos = 0
  /\ dispatching = <<>>
  /\ gate_vec = [t \in Gate |-> <<>>]
  /\ msg_index = [t \in Gate |-> 0]
  /\ serializer = [t \in Gate |-> [s \in SerializeThread |->
                                    [index |-> 0, packets |-> <<>>]]]
  /\ msg_block_map = [t \in Gate |-> {}]
  /\ msg_pos = [t \in Gate |-> 0]
  /\ msg_block = [t \in Gate |-> <<>>]
  /\ written = [t \in Gate |-> <<>>]

(* A mutant: without the modulus. *)
increaseNumberOnly(n) == n + 1

increaseNumber(n) == (n + 1) % IndexLimit

(* A bound of the model: the index after the next is not the one that is   *)
(* waited for, as fewer than IndexLimit results are on their way.          *)
IndexIsLeft(next, pos) == increaseNumber(next) # pos

(* insert of a hash map: an index that is there already stays. *)
Insert(map, e) ==
  IF \E f \in map : f.index = e.index THEN map ELSE map \cup {e}

-----------------------------------------------------------------------------
(* The scene and its players *)

OutputPacket(p, opcode) ==
  /\ place[p] = "in"
  /\ Len(sent) < MaxPackets
  /\ sent' = Append(sent, [guid |-> p, opcode |-> opcode, gate |-> gate[p]])
  /\ packet_vec' = Append(packet_vec, Len(sent) + 1)
  /\ place' = [place EXCEPT ![p] = IF opcode = "LEAVE_MAP" THEN "leaving" ELSE @]
  /\ UNCHANGED <<gate, lost, lost_gate_connection, dropped, route_index, router,
                 dispatchVars, changeVars, serializeVars, writeVars>>

(* CMSG_PLAYER_ENTER_MAP is read from a gate: addRoute, ... *)
EnterMap(p, t) ==
  /\ t \notin lost /\ ~lost_gate_connection
  /\ place[p] \in {"out"} \cup (IF EntersEarly THEN {"leaving"} ELSE {})
  /\ route_change = NoChange
  /\ place' = [place EXCEPT ![p] = "entering"]
  /\ gate' = [gate EXCEPT ![p] = t]
  /\ route_change' = [by |-> "enter", guid |-> p, terminal |-> t,
                      todo |-> RouteThread]
  /\ UNCHANGED <<sent, lost, lost_gate_connection, dropped, routeVars,
                 dispatchVars, terminal_route, serializeVars, writeVars>>

(* ... which sets the route of one thread after the other, and then the    *)
(* scene gets the packet.                                                  *)
EnterMapFinished ==
  /\ route_change # NoChange
  /\ route_change.by = "enter" /\ route_change.todo = {}
  /\ place' = [place EXCEPT ![route_change.guid] = "in"]
  /\ route_change' = NoChange
  /\ UNCHANGED <<sent, gate, lost, lost_gate_connection, dropped, routeVars,
                 dispatchVars, terminal_route, serializeVars, writeVars>>

(* A read or write fails: the thread that writes to the gate ends, and no  *)
(* packet of any gate is read any more.                                    *)
GateLost(t) ==
  /\ GatesFail
  /\ t \notin lost
  /\ lost' = lost \cup {t}
  /\ lost_gate_connection' = TRUE
  /\ UNCHANGED <<sent, place, gate, dropped, routeVars, dispatchVars, changeVars,
                 serializeVars, writeVars>>

-----------------------------------------------------------------------------
(* PlayerRoute *)

(* A mutant: the loop over the threads ends after the first. *)
ChangeRouteOfOne(r) ==
  /\ route_change # NoChange
  /\ r \in route_change.todo
  /\ terminal_route' = [terminal_route EXCEPT ![r][route_change.guid] =
                          route_change.terminal]
  /\ route_change' = [route_change EXCEPT !.todo = {}]
  /\ UNCHANGED <<sceneVars, routeVars, dispatchVars, serializeVars, writeVars>>

(* A thread's own map of routes is changed, in addRoute or removeRoute. *)
ChangeRoute(r) ==
  /\ route_change # NoChange
  /\ r \in route_change.todo
  /\ terminal_route' = [terminal_route EXCEPT ![r][route_change.guid] =
                          route_change.terminal]
  /\ route_change' = [route_change EXCEPT !.todo = @ \ {r}]
  /\ UNCHANGED <<sceneVars, routeVars, dispatchVars, serializeVars, writeVars>>

TakePackets(r) ==
  /\ ~router[r].busy
  /\ packet_vec # <<>>
  /\ IndexIsLeft(route_index, route_pos)
  /\ router' = [router EXCEPT ![r] = [index |-> route_index, info |-> <<>>,
                                      packets |-> packet_vec, busy |-> TRUE]]
  /\ route_index' = increaseNumber(route_index)
  /\ packet_vec' = <<>>
  /\ UNCHANGED <<sceneVars, dispatchVars, changeVars, serializeVars, writeVars>>

(* A mutant: the route goes when the packet is routed, not dispatched. *)
RoutePacketRemoves(r) ==
  LET n == Head(router[r].packets)
      terminal == terminal_route[r][sent[n].guid]
  IN  /\ router[r].packets # <<>>
      /\ IF terminal = NoGate
         THEN /\ dropped' = dropped \cup {n}
              /\ router' = [router EXCEPT ![r].packets = Tail(@)]
         ELSE /\ router' = [router EXCEPT ![r].packets = Tail(@),
                     ![r].info = Append(@, [packet |-> n, terminal |-> terminal])]
              /\ UNCHANGED dropped
      /\ terminal_route' = IF sent[n].opcode = "LEAVE_MAP"
                           THEN [q \in RouteThread |->
                             [terminal_route[q] EXCEPT ![sent[n].guid] = NoGate]]
                           ELSE terminal_route
      /\ UNCHANGED <<sent, place, gate, lost, lost_gate_connection, packet_vec,
                     route_index, dispatchVars, route_change, serializeVars,
                     writeVars>>

(* The route of a packet is looked up; without one the packet is dropped. *)
RoutePacket(r) ==
  LET n == Head(router[r].packets)
      terminal == terminal_route[r][sent[n].guid]
  IN  /\ router[r].packets # <<>>
      /\ IF terminal = NoGate
         THEN /\ dropped' = dropped \cup {n}
              /\ router' = [router EXCEPT ![r].packets = Tail(@)]
         ELSE /\ router' = [router EXCEPT ![r].packets = Tail(@),
                     ![r].info = Append(@, [packet |-> n, terminal |-> terminal])]
              /\ UNCHANGED dropped
      /\ UNCHANGED <<sent, place, gate, lost, lost_gate_connection, packet_vec,
                     route_index, dispatchVars, changeVars, serializeVars,
                     writeVars>>

FinishRouting(r) ==
  /\ router[r].busy /\ router[r].packets = <<>>
  /\ route_info_map' = Insert(route_info_map, [index |-> router[r].index,
                                               info |-> router[r].info])
  /\ router' = [router EXCEPT ![r] = [index |-> 0, packets |-> <<>>,
                                      info |-> <<>>, busy |-> FALSE]]
  /\ UNCHANGED <<sceneVars, packet_vec, route_index, route_pos, dispatching,
                 changeVars, serializeVars, writeVars>>

-----------------------------------------------------------------------------
(* PlayerRouteDispatch *)

(* A mutant: whatever is first in the map is taken. *)
TakeFirstInfo ==
  /\ dispatching = <<>>
  /\ \E e \in route_info_map :
       /\ route_info_map' = route_info_map \ {e}
       /\ dispatching' = e.info
  /\ route_pos' = increaseNumber(route_pos)
  /\ UNCHANGED <<sceneVars, routeVars, changeVars, serializeVars, writeVars>>

TakeInfo ==
  /\ dispatching = <<>>
  /\ \E e \in route_info_map :
       /\ e.index = route_pos
       /\ route_info_map' = route_info_map \ {e}
       /\ dispatching' = e.info
  /\ route_pos' = increaseNumber(route_pos)
  /\ UNCHANGED <<sceneVars, routeVars, changeVars, serializeVars, writeVars>>

HeadIs(opcode) ==
  dispatching # <<>> /\ sent[Head(dispatching).packet].opcode = opcode

outputPacket ==
  /\ gate_vec' = [gate_vec EXCEPT ![Head(dispatching).terminal] =
                    Append(@, Head(dispatching).packet)]
  /\ dispatching' = Tail(dispatching)
  /\ UNCHANGED <<sceneVars, routeVars, route_info_map, route_pos,
                 terminal_route, msg_index, serializer, writeVars>>

DispatchOther == HeadIs("OTHER") /\ outputPacket /\ UNCHANGED route_change

(* SMSG_PLAYER_LEAVE_MAP: removeRoute, whatever the route is by now, and   *)
(* then the packet goes on.                                                *)
RemoveRoute ==
  /\ HeadIs("LEAVE_MAP")
  /\ route_change = NoChange
  /\ route_change' = [by |-> "dispatch", terminal |-> NoGate, todo |-> RouteThread,
                      guid |-> sent[Head(dispatching).packet].guid]
  /\ UNCHANGED <<sceneVars, routeVars, dispatchVars, terminal_route,
                 serializeVars, writeVars>>

DispatchLeave ==
  /\ route_change # NoChange
  /\ route_change.by = "dispatch" /\ route_change.todo = {}
  /\ outputPacket
  /\ route_change' = NoChange

-----------------------------------------------------------------------------
(* PacketSerializeAssistant of a gate *)

(* A mutant: the index grows by the number of packets. *)
TakeGatePacketsBySize(t, s) ==
  /\ serializer[t][s].packets = <<>>
  /\ gate_vec[t] # <<>>
  /\ IndexIsLeft(msg_index[t], msg_pos[t])
  /\ serializer' = [serializer EXCEPT ![t][s] =
                      [index |-> msg_index[t], packets |-> gate_vec[t]]]
  /\ msg_index' = [msg_index EXCEPT ![t] = (@ + Len(gate_vec[t])) % IndexLimit]
  /\ gate_vec' = [gate_vec EXCEPT ![t] = <<>>]
  /\ UNCHANGED <<sceneVars, routeVars, dispatchVars, changeVars, writeVars>>

TakeGatePackets(t, s) ==
  /\ serializer[t][s].packets = <<>>
  /\ gate_vec[t] # <<>>
  /\ IndexIsLeft(msg_index[t], msg_pos[t])
  /\ serializer' = [serializer EXCEPT ![t][s] =
                      [index |-> msg_index[t], packets |-> gate_vec[t]]]
  /\ msg_index' = [msg_index EXCEPT ![t] = increaseNumber(@)]
  /\ gate_vec' = [gate_vec EXCEPT ![t] = <<>>]
  /\ UNCHANGED <<sceneVars, routeVars, dispatchVars, changeVars, writeVars>>

(* serializePacket: each packet fills a message block. *)
SerializePackets(t, s) ==
  /\ serializer[t][s].packets # <<>>
  /\ msg_block_map' = [msg_block_map EXCEPT ![t] =
       Insert(@, [index |-> serializer[t][s].index,
                  blocks |-> serializer[t][s].packets])]
  /\ serializer' = [serializer EXCEPT ![t][s] = [index |-> 0, packets |-> <<>>]]
  /\ UNCHANGED <<sceneVars, routeVars, dispatchVars, changeVars, gate_vec,
                 msg_index, msg_pos, msg_block, written>>

(* syncWrite takes the first block of the index that is next, ... *)
TakeBlock(t) ==
  /\ t \notin lost
  /\ msg_block[t] = <<>>
  /\ \E e \in msg_block_map[t] :
       /\ e.index = msg_pos[t]
       /\ msg_block' = [msg_block EXCEPT ![t] = <<Head(e.blocks)>>]
       /\ IF Len(e.blocks) = 1
          THEN /\ msg_block_map' = [msg_block_map EXCEPT ![t] = @ \ {e}]
               /\ msg_pos' = [msg_pos EXCEPT ![t] = increaseNumber(@)]
          ELSE /\ msg_block_map' = [msg_block_map EXCEPT ![t] =
                    (@ \ {e}) \cup {[e EXCEPT !.blocks = Tail(@)]}]
               /\ UNCHANGED msg_pos
  /\ UNCHANGED <<sceneVars, routeVars, dispatchVars, changeVars, serializeVars,
                 written>>

(* ... and sends it.  A player that is told to have left may enter again.  *)
WriteBlock(t) ==
  LET packet == sent[msg_block[t][1]]
  IN  /\ t \notin lost
      /\ msg_block[t] # <<>>
      /\ written' = [written EXCEPT ![t] = @ \o msg_block[t]]
      /\ msg_block' = [msg_block EXCEPT ![t] = <<>>]
      /\ place' = IF packet.opcode = "LEAVE_MAP" /\ place[packet.guid] = "leaving"
                  THEN [place EXCEPT ![packet.guid] = "out"] ELSE place
      /\ UNCHANGED <<sent, gate, lost, lost_gate_connection, dropped, routeVars,
                     dispatchVars, changeVars, serializeVars, msg_block_map,
                     msg_pos>>

-----------------------------------------------------------------------------
RouteStep(r) == TakePackets(r) \/ RoutePacket(r) \/ FinishRouting(r)

DispatchStep == TakeInfo \/ DispatchOther \/ RemoveRoute \/ DispatchLeave

SerializeStep(t, s) == TakeGatePackets(t, s) \/ SerializePackets(t, s)

WriteStep(t) == TakeBlock(t) \/ WriteBlock(t)

Next ==
  \/ \E p \in Player, opcode \in Opcode : OutputPacket(p, opcode)
  \/ \E p \in Player, t \in Gate : EnterMap(p, t)
  \/ EnterMapFinished
  \/ \E t \in Gate : GateLost(t) \/ WriteStep(t)
  \/ \E r \in RouteThread : ChangeRoute(r) \/ RouteStep(r)
  \/ DispatchStep
  \/ \E t \in Gate, s \in SerializeThread : SerializeStep(t, s)

Spec == Init /\ [][Next]_vars

(* Each thread goes on.  RemoveRoute waits for a mutex that is taken for    *)
(* a short while when a player enters.                                      *)
Fairness ==
  /\ \A r \in RouteThread : WF_vars(ChangeRoute(r)) /\ WF_vars(RouteStep(r))
  /\ WF_vars(EnterMapFinished)
  /\ WF_vars(DispatchStep)
  /\ \A t \in Gate : WF_vars(WriteStep(t))
  /\ \A t \in Gate, s \in SerializeThread : WF_vars(SerializeStep(t, s))

FairSpec == Spec /\ Fairness

-----------------------------------------------------------------------------
(* Properties.  Those of routes hold as long as a player enters again only *)
(* when it has been told to have left.                                     *)

(* Every gate gets the packets of a game server in the order in which the  *)
(* scene has put them out, whichever threads have worked on them and how   *)
(* fast: "should make sure the scene's packet order", says                 *)
(* ManageGateTerminal.cpp.                                                 *)
InOrder ==
  \A t \in Gate : \A i, j \in DOMAIN written[t] :
    i < j => written[t][i] < written[t][j]

(* A packet goes to the gate by which its player had entered when the      *)
(* packet was put out, although the route is looked up later.              *)
RightGate ==
  EntersEarly \/ \A t \in Gate : \A i \in DOMAIN written[t] :
                  sent[written[t][i]].gate = t

(* Each packet of a player finds a route, though routes are kept for each  *)
(* thread, and are removed while packets put out before are on their way.  *)
NothingDropped == EntersEarly \/ dropped = {}

(* Put out, and neither dropped nor written. *)
InFlight ==
  1 .. Len(sent) \ (dropped \cup UNION {Range(written[t]) : t \in Gate})

(* A packet is written some time, unless its gate is lost: no index is     *)
(* drawn for which no result ever comes, which would stop all that follow. *)
PacketsArrive ==
  \A n \in Number : n <= Len(sent) ~> n \notin InFlight \/ sent[n].gate \in lost

=============================================================================
