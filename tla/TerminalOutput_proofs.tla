------------------------ MODULE TerminalOutput_proofs ------------------------
(***************************************************************************)
(* Proofs about the way of packets to the gates (TerminalOutput), for any  *)
(* players, gates and threads, any IndexLimit, and whichever gates are     *)
(* lost.                                                                   *)
(*                                                                         *)
(* The argument: what has been taken and not yet put on is a line of       *)
(* batches, one for each index from the position of the thread that takes  *)
(* them up to the index to draw next, and each batch holds packets before  *)
(* those of the next.  The line is as long as the ring at most, so that an *)
(* index that has wrapped is that of no other batch.  Nothing of this      *)
(* depends on the routes: a batch whose packets have all been dropped      *)
(* still has its place in the line.                                        *)
(*                                                                         *)
(* A packet finds the route by which its player had entered because        *)
(* LEAVE_MAP is the last packet of its player: when it is dispatched the   *)
(* others have been routed, and when it is written none of them is left.   *)
(* Only this needs that no player enters early.                            *)
(***************************************************************************)
EXTENDS TerminalOutput, TLAPS, SequenceTheorems

-----------------------------------------------------------------------------
(* Order *)

(* Every number of S is below every number of T. *)
Below(S, T) == \A m \in S, n \in T : m < n

Increasing(s) == \A j, k \in DOMAIN s : j < k => s[j] < s[k]

(* The packets of a sequence of RouteInfo. *)
PacketsOf(info) == {info[k].packet : k \in DOMAIN info}

IncreasingInfo(info) ==
  \A j, k \in DOMAIN info : j < k => info[j].packet < info[k].packet

(* How far an index is from a position, around the ring. *)
Ahead(i, pos) == IF i >= pos THEN i - pos ELSE i - pos + IndexLimit

(* A line of batches from pos up to end, whose indices are held; the       *)
(* numbers grow along it.                                                  *)
Line(held, batch, pos, end) ==
  /\ \A i \in Index : i \in held <=> Ahead(i, pos) < Ahead(end, pos)
  /\ \A i \in Index : i \notin held => batch[i] = {}
  /\ \A i, j \in Index : Ahead(i, pos) < Ahead(j, pos) => Below(batch[i], batch[j])

-----------------------------------------------------------------------------
(* The invariant *)

(* The packets which PlayerRoute's threads, and its map, have by index. *)
InRouter(r) == PacketsOf(router[r].info) \cup Range(router[r].packets)

Holds(i, n) ==
  \/ \E r \in RouteThread :
       router[r].busy /\ router[r].index = i /\ n \in InRouter(r)
  \/ \E e \in route_info_map : e.index = i /\ n \in PacketsOf(e.info)

RouteBatch == [i \in Index |-> {n \in Number : Holds(i, n)}]

(* The indices they have, also those of batches whose packets have all     *)
(* been dropped.                                                           *)
RouteHeld ==
  {i \in Index :
     \/ \E r \in RouteThread : router[r].busy /\ router[r].index = i
     \/ \E e \in route_info_map : e.index = i}

(* The packets of a gate which its serializing threads and its map have. *)
GateHolds(t, i, n) ==
  \/ \E s \in SerializeThread :
       serializer[t][s].index = i /\ n \in Range(serializer[t][s].packets)
  \/ \E e \in msg_block_map[t] : e.index = i /\ n \in Range(e.blocks)

BlockBatch(t) == [i \in Index |-> {n \in Number : GateHolds(t, i, n)}]

GateHeld(t) == {i \in Index : BlockBatch(t)[i] # {}}

(* A thread that has nothing in hand holds no packets. *)
RouteHolders ==
  \A r \in RouteThread :
    ~router[r].busy => router[r].packets = <<>> /\ router[r].info = <<>>

(* An index belongs to one thread or to one entry of the map. *)
RouteOwners ==
  /\ \A r, q \in RouteThread :
       router[r].busy /\ router[q].busy /\ router[r].index = router[q].index
         => r = q
  /\ \A r \in RouteThread, e \in route_info_map :
       router[r].busy => e.index # router[r].index
  /\ \A e, f \in route_info_map : e.index = f.index => e = f

GateOwners(t) ==
  /\ \A s, u \in SerializeThread :
       /\ serializer[t][s].packets # <<>>
       /\ serializer[t][u].packets # <<>>
       /\ serializer[t][s].index = serializer[t][u].index
       => s = u
  /\ \A s \in SerializeThread, e \in msg_block_map[t] :
       serializer[t][s].packets # <<>> => e.index # serializer[t][s].index
  /\ \A e, f \in msg_block_map[t] : e.index = f.index => e = f
  /\ \A e \in msg_block_map[t] : e.blocks # <<>>
  /\ Len(msg_block[t]) <= 1

(* The first stage is in order: what is dispatched, the batches, and what  *)
(* waits to be taken. *)
RouteSequences ==
  /\ IncreasingInfo(dispatching)
  /\ \A e \in route_info_map : IncreasingInfo(e.info)
  /\ \A r \in RouteThread :
       /\ IncreasingInfo(router[r].info)
       /\ Increasing(router[r].packets)
       /\ Below(PacketsOf(router[r].info), Range(router[r].packets))
  /\ Increasing(packet_vec)

RouteLine ==
  /\ Line(RouteHeld, RouteBatch, route_pos, route_index)
  /\ \A i \in Index : /\ Below(PacketsOf(dispatching), RouteBatch[i])
                      /\ Below(RouteBatch[i], Range(packet_vec))
  /\ Below(PacketsOf(dispatching), Range(packet_vec))

(* The same of the second stage of each gate. *)
GateSequences(t) ==
  /\ Increasing(written[t])
  /\ \A e \in msg_block_map[t] : Increasing(e.blocks)
  /\ \A s \in SerializeThread : Increasing(serializer[t][s].packets)
  /\ Increasing(gate_vec[t])

GateLine(t) ==
  /\ Line(GateHeld(t), BlockBatch(t), msg_pos[t], msg_index[t])
  /\ \A i \in Index :
       /\ Below(Range(written[t]), BlockBatch(t)[i])
       /\ Below(Range(msg_block[t]), BlockBatch(t)[i])
       /\ Below(BlockBatch(t)[i], Range(gate_vec[t]))
  /\ Below(Range(written[t]), Range(msg_block[t]))
  /\ Below(Range(written[t]), Range(gate_vec[t]))
  /\ Below(Range(msg_block[t]), Range(gate_vec[t]))

(* All packets of the first stage, and of a gate. *)
InRouteStage ==
  PacketsOf(dispatching) \cup Range(packet_vec)
    \cup {n \in Number : \E i \in Index : n \in RouteBatch[i]}

AtGate(t) ==
  Range(written[t]) \cup Range(msg_block[t]) \cup Range(gate_vec[t])
    \cup {n \in Number : \E i \in Index : n \in BlockBatch(t)[i]}

(* The gates have what the first stage has put on before; each packet is   *)
(* put on once.                                                            *)
StagesInOrder ==
  /\ \A t \in Gate : Below(AtGate(t), InRouteStage)
  /\ \A t, u \in Gate : t # u => AtGate(t) \cap AtGate(u) = {}

(* Only what the scene has put out is on its way. *)
OnlySent ==
  /\ \A n \in InRouteStage : n <= Len(sent)
  /\ \A t \in Gate : \A n \in AtGate(t) : n <= Len(sent)

(* Packets whose route is not yet looked up. *)
Unrouted ==
  {n \in Number : \E r \in RouteThread : n \in Range(router[r].packets)}
    \cup Range(packet_vec)

(* The routes of a player who may put out packets are those of its gate. *)
Routed(p) ==
  /\ gate[p] \in Gate
  /\ \A r \in RouteThread : terminal_route[r][p] = gate[p]
  /\ route_change # NoChange => route_change.guid # p

PlayersRouted == \A p \in Player : place[p] = "in" => Routed(p)

UnroutedFindRoute ==
  \A n \in Unrouted :
    LET p == sent[n].guid
    IN  place[p] \in {"in", "leaving"} /\ Routed(p) /\ sent[n].gate = gate[p]

EnteringChange ==
  route_change # NoChange /\ route_change.by = "enter" =>
    /\ place[route_change.guid] = "entering"
    /\ route_change.terminal = gate[route_change.guid]
    /\ gate[route_change.guid] \in Gate
    /\ \A r \in RouteThread \ route_change.todo :
         terminal_route[r][route_change.guid] = route_change.terminal

LeavingChange ==
  route_change # NoChange /\ route_change.by = "dispatch" =>
    /\ HeadIs("LEAVE_MAP")
    /\ sent[Head(dispatching).packet].guid = route_change.guid

(* A LEAVE_MAP that is not yet written is the last packet of its player. *)
NotWritten(n) == \A t \in Gate : n \notin Range(written[t])

LeaveIsLast ==
  \A n \in 1 .. Len(sent) :
    sent[n].opcode = "LEAVE_MAP" /\ NotWritten(n) =>
      /\ place[sent[n].guid] = "leaving"
      /\ \A m \in 1 .. Len(sent) : sent[m].guid = sent[n].guid => m <= n

(* What has been routed goes to the gate it was put out for. *)
InfoRight(info) ==
  \A k \in DOMAIN info : info[k].terminal = sent[info[k].packet].gate

RoutedRight ==
  /\ \A r \in RouteThread : InfoRight(router[r].info)
  /\ \A e \in route_info_map : InfoRight(e.info)
  /\ InfoRight(dispatching)
  /\ \A t \in Gate : \A n \in AtGate(t) : sent[n].gate = t

OrderInv ==
  /\ TerminalOutputTypeOK
  /\ RouteHolders
  /\ RouteOwners
  /\ RouteSequences
  /\ RouteLine
  /\ \A t \in Gate : GateOwners(t) /\ GateSequences(t) /\ GateLine(t)
  /\ StagesInOrder
  /\ OnlySent
  /\ LeavingChange

RouteInv ==
  /\ PlayersRouted
  /\ UnroutedFindRoute
  /\ EnteringChange
  /\ LeaveIsLast
  /\ RoutedRight
  /\ dropped = {}

-----------------------------------------------------------------------------
(* Sequences *)

(* What is left when the first element is taken. *)
LEMMA TailOf ==
  ASSUME NEW S, NEW s \in Seq(S), s # <<>>
  PROVE  /\ Head(s) \in S /\ Tail(s) \in Seq(S)
         /\ Head(s) = s[1] /\ 1 \in DOMAIN s
         /\ Range(s) = {Head(s)} \cup Range(Tail(s))
         /\ PacketsOf(s) = {Head(s).packet} \cup PacketsOf(Tail(s))
<1>1. /\ Head(s) \in S /\ Tail(s) \in Seq(S)
      /\ Head(s) = s[1] /\ 1 \in DOMAIN s
      /\ Len(Tail(s)) = Len(s) - 1
      /\ \A k \in DOMAIN Tail(s) : Tail(s)[k] = s[k + 1] /\ k + 1 \in DOMAIN s
      /\ \A k \in DOMAIN s : k # 1 => k - 1 \in DOMAIN Tail(s) /\ Tail(s)[k - 1] = s[k]
  OBVIOUS
<1>2. Range(s) = {Head(s)} \cup Range(Tail(s))
  BY <1>1 DEF Range
<1>3. \A k \in DOMAIN s :
        s[k].packet \in {Head(s).packet} \cup PacketsOf(Tail(s))
  <2>1. ASSUME NEW k \in DOMAIN s, k # 1
        PROVE  s[k].packet \in PacketsOf(Tail(s))
    BY <1>1, <2>1 DEF PacketsOf
  <2> QED BY <1>1, <2>1
<1>4. \A k \in DOMAIN Tail(s) : Tail(s)[k].packet \in PacketsOf(s)
  BY <1>1 DEF PacketsOf
<1>5. PacketsOf(s) = {Head(s).packet} \cup PacketsOf(Tail(s))
  BY <1>1, <1>3, <1>4 DEF PacketsOf
<1> QED BY <1>1, <1>2, <1>5

LEMMA AppendOf ==
  ASSUME NEW S, NEW s \in Seq(S), NEW x \in S
  PROVE  /\ Append(s, x) \in Seq(S)
         /\ Range(Append(s, x)) = Range(s) \cup {x}
         /\ PacketsOf(Append(s, x)) = PacketsOf(s) \cup {x.packet}
<1>1. /\ Append(s, x) \in Seq(S)
      /\ DOMAIN Append(s, x) = DOMAIN s \cup {Len(s) + 1}
      /\ \A k \in DOMAIN s : Append(s, x)[k] = s[k]
      /\ Append(s, x)[Len(s) + 1] = x
  OBVIOUS
<1> QED BY <1>1 DEF Range, PacketsOf

LEMMA RangeType ==
  ASSUME NEW S, NEW s \in Seq(S)
  PROVE  Range(s) \subseteq S
BY DEF Range

LEMMA PacketsOfType ==
  ASSUME NEW s \in Seq(RouteInfo)
  PROVE  PacketsOf(s) \subseteq Number
<1>1. \A k \in DOMAIN s : s[k] \in RouteInfo
  OBVIOUS
<1> QED BY <1>1 DEF PacketsOf, RouteInfo

LEMMA NumbersAreNat == Number \subseteq Nat
BY DEF Number

(* Increasing sequences stay so. *)
LEMMA IncreasingTail ==
  ASSUME NEW s \in Seq(Nat), s # <<>>, Increasing(s)
  PROVE  Increasing(Tail(s)) /\ Below({Head(s)}, Range(Tail(s)))
<1>1. /\ Head(s) = s[1] /\ 1 \in DOMAIN s
      /\ \A k \in DOMAIN Tail(s) : Tail(s)[k] = s[k + 1] /\ k + 1 \in DOMAIN s
                                   /\ k \in Nat /\ k >= 1
  OBVIOUS
<1> QED BY <1>1 DEF Increasing, Below, Range

LEMMA IncreasingAppend ==
  ASSUME NEW s \in Seq(Nat), Increasing(s), NEW n \in Nat, Below(Range(s), {n})
  PROVE  Increasing(Append(s, n))
<1>1. /\ DOMAIN s = 1 .. Len(s) /\ Len(s) \in Nat
      /\ DOMAIN Append(s, n) = 1 .. Len(s) + 1
      /\ \A k \in DOMAIN s : Append(s, n)[k] = s[k] /\ s[k] \in Range(s)
      /\ Append(s, n)[Len(s) + 1] = n
  BY DEF Range
<1> QED BY <1>1 DEF Increasing, Below

LEMMA IncreasingInfoTail ==
  ASSUME NEW s \in Seq(RouteInfo), s # <<>>, IncreasingInfo(s)
  PROVE  /\ IncreasingInfo(Tail(s))
         /\ Below({Head(s).packet}, PacketsOf(Tail(s)))
<1>1. /\ Head(s) = s[1] /\ 1 \in DOMAIN s
      /\ \A k \in DOMAIN Tail(s) : Tail(s)[k] = s[k + 1] /\ k + 1 \in DOMAIN s
                                   /\ k \in Nat /\ k >= 1
  OBVIOUS
<1> QED BY <1>1 DEF IncreasingInfo, Below, PacketsOf

LEMMA IncreasingInfoAppend ==
  ASSUME NEW s \in Seq(RouteInfo), IncreasingInfo(s), NEW x \in RouteInfo,
         Below(PacketsOf(s), {x.packet})
  PROVE  IncreasingInfo(Append(s, x))
<1>1. /\ DOMAIN s = 1 .. Len(s) /\ Len(s) \in Nat
      /\ DOMAIN Append(s, x) = 1 .. Len(s) + 1
      /\ \A k \in DOMAIN s : /\ Append(s, x)[k] = s[k]
                             /\ s[k].packet \in PacketsOf(s)
      /\ Append(s, x)[Len(s) + 1] = x
  BY DEF PacketsOf
<1> QED BY <1>1 DEF IncreasingInfo, Below

-----------------------------------------------------------------------------
(* The line of batches *)

LEMMA IncreaseNumber ==
  ASSUME NEW n \in Index
  PROVE  /\ increaseNumber(n) = IF n = IndexLimit - 1 THEN 0 ELSE n + 1
         /\ increaseNumber(n) \in Index
<1> USE IndexLimitAssumption DEF Index, increaseNumber
<1>1. CASE n = IndexLimit - 1
  <2>1. (n + 1) % IndexLimit = 0
    BY <1>1
  <2> QED BY <1>1, <2>1
<1>2. CASE n # IndexLimit - 1
  <2>1. (n + 1) % IndexLimit = n + 1
    BY <1>2
  <2> QED BY <1>2, <2>1
<1> QED BY <1>1, <1>2

(* A batch is put at the end, if the ring has room for it. *)
LEMMA LineDraw ==
  ASSUME NEW held, NEW batch \in [Index -> SUBSET Number],
         NEW pos \in Index, NEW end \in Index, Line(held, batch, pos, end),
         IndexIsLeft(end, pos),
         NEW B \in SUBSET Number, \A i \in Index : Below(batch[i], B)
  PROVE  Line(held \cup {end}, [batch EXCEPT ![end] = B], pos, increaseNumber(end))
<1> DEFINE next == increaseNumber(end)
           with == [batch EXCEPT ![end] = B]
<1>0. /\ next \in Index /\ next # pos
      /\ next = IF end = IndexLimit - 1 THEN 0 ELSE end + 1
  BY IncreaseNumber DEF IndexIsLeft
<1>1. Ahead(next, pos) = Ahead(end, pos) + 1
  <2> HIDE DEF next
  <2> QED BY <1>0, IndexLimitAssumption DEF Ahead, Index
<1>2. \A i \in Index : /\ Ahead(i, pos) \in Nat
                       /\ Ahead(i, pos) = Ahead(end, pos) <=> i = end
  BY IndexLimitAssumption DEF Ahead, Index
<1>3. end \notin held
  BY <1>2 DEF Line
<1>4. ASSUME NEW i \in Index
      PROVE  i \in held \cup {end} <=> Ahead(i, pos) < Ahead(next, pos)
  <2>1. i \in held <=> Ahead(i, pos) < Ahead(end, pos)
    BY DEF Line
  <2> QED BY <2>1, <1>1, <1>2
<1>5. ASSUME NEW i \in Index, NEW j \in Index, Ahead(i, pos) < Ahead(j, pos)
      PROVE  Below(with[i], with[j])
  <2>1. Below(batch[i], batch[j])
    BY <1>5 DEF Line
  <2>2. CASE i = end
    <3>1. batch[j] = {} /\ j # end
      BY <2>2, <1>2, <1>5 DEF Line
    <3> QED BY <3>1 DEF Below
  <2>3. CASE i # end
    BY <2>1, <2>3, <1>2
  <2> QED BY <2>2, <2>3
<1>6. \A i \in Index : i \notin held \cup {end} => with[i] = {}
  BY DEF Line
<1> QED BY <1>4, <1>5, <1>6 DEF Line

(* The batch at the position is taken. *)
LEMMA LineTake ==
  ASSUME NEW held, NEW batch \in [Index -> SUBSET Number],
         NEW pos \in Index, NEW end \in Index, Line(held, batch, pos, end),
         pos \in held
  PROVE  Line(held \ {pos}, [batch EXCEPT ![pos] = {}], increaseNumber(pos), end)
<1> DEFINE next == increaseNumber(pos)
           without == [batch EXCEPT ![pos] = {}]
<1>0. next = (IF pos = IndexLimit - 1 THEN 0 ELSE pos + 1) /\ next \in Index
  BY IncreaseNumber
<1>1. /\ \A i \in Index : Ahead(i, pos) \in Nat
      /\ Ahead(pos, pos) = 0
      /\ \A i \in Index : i # pos => Ahead(i, next) = Ahead(i, pos) - 1
      /\ Ahead(pos, next) = IndexLimit - 1
      /\ \A i \in Index : i # pos => Ahead(i, next) < IndexLimit - 1
      /\ \A i \in Index : i # pos => Ahead(i, pos) > 0
  <2> HIDE DEF next
  <2> QED BY <1>0, IndexLimitAssumption DEF Ahead, Index
<1>2. end # pos
  BY <1>1 DEF Line
<1>3. ASSUME NEW i \in Index
      PROVE  i \in held \ {pos} <=> Ahead(i, next) < Ahead(end, next)
  <2>1. CASE i = pos
    <3> HIDE DEF next
    <3> QED BY <2>1, <1>1, <1>2, IndexLimitAssumption DEF Ahead, Index
  <2>2. CASE i # pos
    <3>1. i \in held <=> Ahead(i, pos) < Ahead(end, pos)
      BY DEF Line
    <3> HIDE DEF next
    <3> QED BY <2>2, <3>1, <1>1, <1>2
  <2> QED BY <2>1, <2>2
<1>4. ASSUME NEW i \in Index, NEW j \in Index, Ahead(i, next) < Ahead(j, next)
      PROVE  Below(without[i], without[j])
  <2>1. CASE i = pos \/ j = pos
    BY <2>1 DEF Below
  <2>2. CASE i # pos /\ j # pos
    BY <2>2, <1>4, <1>1 DEF Line
  <2> QED BY <2>1, <2>2
<1>5. \A i \in Index : i \notin held \ {pos} => without[i] = {}
  BY DEF Line
<1> QED BY <1>3, <1>4, <1>5 DEF Line

(* Batches lose numbers. *)
LEMMA LineShrink ==
  ASSUME NEW held, NEW batch, NEW pos, NEW end, Line(held, batch, pos, end),
         NEW less, \A i \in Index : less[i] \subseteq batch[i]
  PROVE  Line(held, less, pos, end)
BY DEF Line, Below

-----------------------------------------------------------------------------
(* Types *)

IInv == OrderInv /\ RouteInv

LEMMA InvInitial == Init => IInv
<1> SUFFICES ASSUME Init
             PROVE  IInv
  OBVIOUS
<1> USE IndexLimitAssumption, MaxPacketsAssumption
<1>1. TerminalOutputTypeOK
  <2>1. 0 \in Index
    BY DEF Index
  <2>2. /\ sent = <<>> /\ Len(sent) <= MaxPackets
        /\ route_change \in Change \cup {NoChange}
    BY DEF Init
  <2>3. /\ packet_vec \in Seq(Number) /\ dispatching \in Seq(RouteInfo)
        /\ router \in [RouteThread -> [index : Index, packets : Seq(Number),
                                       info : Seq(RouteInfo), busy : BOOLEAN]]
        /\ route_info_map \subseteq [index : Index, info : Seq(RouteInfo)]
    BY <2>1 DEF Init
  <2>4. /\ gate_vec \in [Gate -> Seq(Number)]
        /\ serializer \in [Gate -> [SerializeThread ->
                               [index : Index, packets : Seq(Number)]]]
        /\ msg_block_map \in [Gate -> SUBSET [index : Index, blocks : Seq(Number)]]
        /\ msg_block \in [Gate -> Seq(Number)]
        /\ written \in [Gate -> Seq(Number)]
    BY <2>1 DEF Init
  <2>5. /\ place \in [Player -> {"out", "entering", "in", "leaving"}]
        /\ gate \in [Player -> Gate \cup {NoGate}]
        /\ lost \subseteq Gate /\ lost_gate_connection \in BOOLEAN
        /\ dropped \subseteq Number
        /\ terminal_route \in [RouteThread -> [Player -> Gate \cup {NoGate}]]
        /\ route_index \in Index /\ route_pos \in Index
        /\ msg_index \in [Gate -> Index] /\ msg_pos \in [Gate -> Index]
    BY <2>1 DEF Init
  <2>6. sent \in Seq([guid : Player, opcode : Opcode, gate : Gate \cup {NoGate}])
    BY <2>2
  <2> QED BY <2>2, <2>3, <2>4, <2>5, <2>6 DEF TerminalOutputTypeOK
<1>2. /\ \A i \in Index : RouteBatch[i] = {}
      /\ \A t \in Gate, i \in Index : BlockBatch(t)[i] = {}
      /\ RouteHeld = {} /\ \A t \in Gate : GateHeld(t) = {}
  <2>1. /\ \A i \in Index : RouteBatch[i] = {}
        /\ \A t \in Gate, i \in Index : BlockBatch(t)[i] = {}
    BY DEF Init, RouteBatch, BlockBatch, Holds, GateHolds, Range
  <2>2. RouteHeld = {}
    BY DEF Init, RouteHeld
  <2> QED BY <2>1, <2>2 DEF GateHeld
<1>3. RouteHolders /\ RouteOwners
  BY DEF Init, RouteHolders, RouteOwners
<1>4. RouteSequences /\ RouteLine
  BY <1>2 DEF Init, RouteSequences, RouteLine, Line, Below, Increasing,
              IncreasingInfo, PacketsOf, Range, Ahead, Index
<1>5. ASSUME NEW t \in Gate
      PROVE  GateOwners(t) /\ GateSequences(t) /\ GateLine(t) /\ AtGate(t) = {}
  BY <1>2 DEF Init, GateOwners, GateSequences, GateLine, Line, Below, Increasing, Range,
              Ahead, Index, AtGate
<1>6. InRouteStage = {}
  BY <1>2 DEF Init, InRouteStage, PacketsOf, Range
<1>7. StagesInOrder /\ OnlySent
  BY <1>5, <1>6 DEF StagesInOrder, OnlySent, Below
<1>9. RouteInv
  <2>1. Unrouted = {}
    BY DEF Init, Unrouted, Range
  <2> QED BY <2>1, <1>5 DEF Init, RouteInv, PlayersRouted, UnroutedFindRoute,
             EnteringChange, LeaveIsLast, RoutedRight, InfoRight, NoChange
<1>8. LeavingChange
  BY DEF Init, LeavingChange, NoChange
<1> QED
  BY <1>1, <1>3, <1>4, <1>5, <1>7, <1>8, <1>9 DEF IInv, OrderInv

(* What is on its way is of the types that the tables need. *)
LEMMA SentTypes ==
  ASSUME OrderInv
  PROVE  /\ \A n \in Unrouted \cup InRouteStage :
              n \in 1 .. Len(sent) /\ n \in Number /\ sent[n].guid \in Player
              /\ sent[n].opcode \in Opcode /\ sent[n] \in
                 [guid : Player, opcode : Opcode, gate : Gate \cup {NoGate}]
         /\ \A t \in Gate : \A n \in AtGate(t) :
              n \in 1 .. Len(sent) /\ n \in Number /\ sent[n].guid \in Player
         /\ Unrouted \subseteq InRouteStage
<1>0. TerminalOutputTypeOK /\ RouteHolders /\ OnlySent
  BY DEF OrderInv
<1>1. Range(packet_vec) \subseteq Number /\ PacketsOf(dispatching) \subseteq Number
  <2>1. packet_vec \in Seq(Number) /\ dispatching \in Seq(RouteInfo)
    BY <1>0 DEF TerminalOutputTypeOK
  <2> QED BY <2>1, RangeType, PacketsOfType
<1>2. \A i \in Index : RouteBatch[i] \subseteq Number
  <2> SUFFICES ASSUME NEW i \in Index PROVE RouteBatch[i] \subseteq Number
    OBVIOUS
  <2> QED BY DEF RouteBatch
<1>3. InRouteStage \subseteq Number
  BY <1>1, <1>2 DEF InRouteStage
<1>4. ASSUME NEW r \in RouteThread, NEW n \in Range(router[r].packets)
      PROVE  n \in InRouteStage
  <2>1. router[r].packets \in Seq(Number) /\ router[r].index \in Index
        /\ router[r].busy \in BOOLEAN
    BY <1>0 DEF TerminalOutputTypeOK
  <2>2. n \in Number /\ router[r].busy
    BY <2>1, <1>0, <1>4 DEF Range, RouteHolders
  <2>3. Holds(router[r].index, n)
    BY <2>2, <1>4 DEF Holds, InRouter
  <2>4. n \in RouteBatch[router[r].index]
    BY <2>1, <2>2, <2>3 DEF RouteBatch
  <2> QED BY <2>1, <2>2, <2>4 DEF InRouteStage
<1>5. Unrouted \subseteq InRouteStage
  BY <1>4 DEF Unrouted, InRouteStage
<1>6. ASSUME NEW t \in Gate
      PROVE  AtGate(t) \subseteq Number
  <2>1. \A i \in Index : BlockBatch(t)[i] \subseteq Number
    BY DEF BlockBatch
  <2>2. /\ written[t] \in Seq(Number) /\ msg_block[t] \in Seq(Number)
        /\ gate_vec[t] \in Seq(Number)
    BY <1>0 DEF TerminalOutputTypeOK
  <2>3. /\ Range(written[t]) \subseteq Number
        /\ Range(msg_block[t]) \subseteq Number
        /\ Range(gate_vec[t]) \subseteq Number
    BY <2>2, RangeType
  <2> QED BY <2>1, <2>3 DEF AtGate
<1>7. /\ Len(sent) \in Nat
      /\ sent \in Seq([guid : Player, opcode : Opcode,
                        gate : Gate \cup {NoGate}])
  BY <1>0 DEF TerminalOutputTypeOK
<1>8. \A n \in 1 .. Len(sent) :
        sent[n] \in [guid : Player, opcode : Opcode, gate : Gate \cup {NoGate}]
  BY <1>7, ElementOfSeq
<1>9. ASSUME NEW n \in Number, n <= Len(sent)
      PROVE  n \in 1 .. Len(sent)
  BY <1>9, <1>7, MaxPacketsAssumption DEF Number
<1> QED
  BY <1>0, <1>3, <1>5, <1>6, <1>8, <1>9 DEF OnlySent

LEMMA TypesInductive ==
  ASSUME OrderInv, [Next]_vars
  PROVE  TerminalOutputTypeOK'
<1> USE DEF sceneVars, routeVars, dispatchVars, changeVars, serializeVars,
            writeVars
<1>0. TerminalOutputTypeOK
  BY DEF OrderInv
<1>1. ASSUME NEW p \in Player, NEW opcode \in Opcode, OutputPacket(p, opcode)
      PROVE  TerminalOutputTypeOK'
  <2>1. Len(sent) + 1 \in Number /\ Len(sent) \in Nat
    BY <1>0, <1>1, MaxPacketsAssumption DEF OutputPacket, Number, TerminalOutputTypeOK
  <2>2. packet_vec' \in Seq(Number)
    BY <1>0, <1>1, <2>1 DEF OutputPacket, TerminalOutputTypeOK
  <2>3. /\ sent' \in Seq([guid : Player, opcode : Opcode, gate : Gate \cup {NoGate}])
        /\ Len(sent') = Len(sent) + 1
    BY <1>0, <1>1 DEF OutputPacket, TerminalOutputTypeOK
  <2>4. Len(sent') <= MaxPackets
    BY <2>1, <2>3, <1>1, MaxPacketsAssumption DEF OutputPacket
  <2>5. place' \in [Player -> {"out", "entering", "in", "leaving"}]
    BY <1>0, <1>1 DEF OutputPacket, TerminalOutputTypeOK
  <2> QED BY <1>0, <1>1, <2>2, <2>3, <2>4, <2>5 DEF OutputPacket, TerminalOutputTypeOK
<1>2. ASSUME NEW p \in Player, NEW t \in Gate, EnterMap(p, t)
      PROVE  TerminalOutputTypeOK'
  <2>1. route_change' \in Change
    BY <1>2 DEF EnterMap, Change
  <2> QED BY <1>0, <1>2, <2>1 DEF EnterMap, TerminalOutputTypeOK
<1>3. CASE EnterMapFinished
  <2>1. route_change \in Change
    BY <1>0, <1>3 DEF EnterMapFinished, TerminalOutputTypeOK
  <2>2. route_change.guid \in Player
    BY <2>1 DEF Change
  <2> QED BY <1>0, <1>3, <2>2 DEF EnterMapFinished, TerminalOutputTypeOK
<1>4. ASSUME NEW t \in Gate, GateLost(t)
      PROVE  TerminalOutputTypeOK'
  BY <1>0, <1>4 DEF GateLost, TerminalOutputTypeOK
<1>5. ASSUME NEW r \in RouteThread, ChangeRoute(r)
      PROVE  TerminalOutputTypeOK'
  <2>1. route_change \in Change
    BY <1>0, <1>5 DEF ChangeRoute, TerminalOutputTypeOK
  <2>2. /\ route_change.guid \in Player
        /\ route_change.terminal \in Gate \cup {NoGate}
        /\ route_change' \in Change
    BY <1>5, <2>1 DEF Change, ChangeRoute
  <2>3. terminal_route' \in [RouteThread -> [Player -> Gate \cup {NoGate}]]
    BY <1>0, <1>5, <2>2 DEF ChangeRoute, TerminalOutputTypeOK
  <2> QED BY <1>0, <1>5, <2>2, <2>3 DEF ChangeRoute, TerminalOutputTypeOK
<1>6. ASSUME NEW r \in RouteThread, TakePackets(r)
      PROVE  TerminalOutputTypeOK'
  <2>1. route_index' \in Index
    BY <1>0, <1>6, IncreaseNumber DEF TakePackets, TerminalOutputTypeOK
  <2>2. router' \in [RouteThread -> [index : Index, packets : Seq(Number),
                                     info : Seq(RouteInfo), busy : BOOLEAN]]
    BY <1>0, <1>6 DEF TakePackets, TerminalOutputTypeOK
  <2> QED BY <1>0, <1>6, <2>1, <2>2 DEF TakePackets, TerminalOutputTypeOK
<1>7. ASSUME NEW r \in RouteThread, RoutePacket(r)
      PROVE  TerminalOutputTypeOK'
  <2> DEFINE n == Head(router[r].packets)
             terminal == terminal_route[r][sent[n].guid]
  <2>1. router[r].packets \in Seq(Number) /\ router[r].packets # <<>>
    BY <1>0, <1>7 DEF RoutePacket, TerminalOutputTypeOK
  <2>2. n \in Range(router[r].packets) /\ n \in Number
        /\ Tail(router[r].packets) \in Seq(Number)
    BY <2>1, TailOf
  <2>3. sent[n].guid \in Player
    BY <2>2, SentTypes DEF Unrouted
  <2>4. terminal \in Gate \cup {NoGate}
    BY <1>0, <2>3 DEF TerminalOutputTypeOK
  <2>5. dropped' \subseteq Number
    BY <1>0, <1>7, <2>2 DEF RoutePacket, TerminalOutputTypeOK
  <2>6. router[r].info \in Seq(RouteInfo)
    BY <1>0 DEF TerminalOutputTypeOK
  <2>7. terminal # NoGate => [packet |-> n, terminal |-> terminal] \in RouteInfo
    BY <2>2, <2>4 DEF RouteInfo
  <2>8. terminal # NoGate =>
          Append(router[r].info, [packet |-> n, terminal |-> terminal]) \in Seq(RouteInfo)
    BY <2>6, <2>7
  <2>9. router' \in [RouteThread -> [index : Index, packets : Seq(Number),
                                     info : Seq(RouteInfo), busy : BOOLEAN]]
    <3>1. /\ router \in [RouteThread -> [index : Index, packets : Seq(Number),
                                         info : Seq(RouteInfo), busy : BOOLEAN]]
      BY <1>0 DEF TerminalOutputTypeOK
    <3>2. CASE terminal = NoGate
      BY <3>1, <3>2, <1>7, <2>2 DEF RoutePacket
    <3>3. CASE terminal # NoGate
      <4>1. router' = [router EXCEPT ![r].packets = Tail(@),
                         ![r].info = Append(@, [packet |-> n, terminal |-> terminal])]
        BY <1>7, <3>3 DEF RoutePacket
      <4> HIDE DEF terminal, n
      <4> QED BY <3>1, <3>3, <4>1, <2>2, <2>8
    <3> QED BY <3>2, <3>3
  <2> QED BY <1>0, <1>7, <2>5, <2>9 DEF RoutePacket, TerminalOutputTypeOK
<1>8. ASSUME NEW r \in RouteThread, FinishRouting(r)
      PROVE  TerminalOutputTypeOK'
  <2>1. router' \in [RouteThread -> [index : Index, packets : Seq(Number),
                                     info : Seq(RouteInfo), busy : BOOLEAN]]
    <3>1. 0 \in Index
      BY IndexLimitAssumption DEF Index
    <3> QED BY <1>0, <1>8, <3>1 DEF FinishRouting, TerminalOutputTypeOK
  <2>2. route_info_map' \subseteq [index : Index, info : Seq(RouteInfo)]
    <3>1. router[r].index \in Index /\ router[r].info \in Seq(RouteInfo)
      BY <1>0 DEF TerminalOutputTypeOK
    <3> QED BY <1>0, <1>8, <3>1 DEF FinishRouting, TerminalOutputTypeOK, Insert
  <2> QED BY <1>0, <1>8, <2>1, <2>2 DEF FinishRouting, TerminalOutputTypeOK
<1>9. CASE TakeInfo
  <2>1. route_pos' \in Index
    BY <1>0, <1>9, IncreaseNumber DEF TakeInfo, TerminalOutputTypeOK
  <2>2. dispatching' \in Seq(RouteInfo) /\ route_info_map' \subseteq route_info_map
    BY <1>0, <1>9 DEF TakeInfo, TerminalOutputTypeOK
  <2> QED BY <1>0, <1>9, <2>1, <2>2 DEF TakeInfo, TerminalOutputTypeOK
<1>10. ASSUME dispatching # <<>>, outputPacket, route_change' \in Change \cup {NoChange}
       PROVE  TerminalOutputTypeOK'
  <2>1. /\ Head(dispatching) \in RouteInfo /\ Tail(dispatching) \in Seq(RouteInfo)
    BY <1>0, <1>10 DEF TerminalOutputTypeOK
  <2>2. Head(dispatching).terminal \in Gate /\ Head(dispatching).packet \in Number
    BY <2>1 DEF RouteInfo
  <2>3. gate_vec' \in [Gate -> Seq(Number)]
    BY <1>0, <1>10, <2>2 DEF outputPacket, TerminalOutputTypeOK
  <2> QED BY <1>0, <1>10, <2>1, <2>3 DEF outputPacket, TerminalOutputTypeOK
<1>11. CASE DispatchOther
  BY <1>0, <1>10, <1>11 DEF DispatchOther, HeadIs, TerminalOutputTypeOK
<1>12. CASE RemoveRoute
  <2>1. Head(dispatching) \in RouteInfo
    BY <1>0, <1>12 DEF RemoveRoute, HeadIs, TerminalOutputTypeOK
  <2>2. Head(dispatching).packet \in InRouteStage
    <3>1. dispatching \in Seq(RouteInfo) /\ dispatching # <<>>
      BY <1>0, <1>12 DEF RemoveRoute, HeadIs, TerminalOutputTypeOK
    <3> QED BY <3>1, TailOf DEF InRouteStage
  <2>3. sent[Head(dispatching).packet].guid \in Player
    BY <2>2, SentTypes
  <2>4. route_change' \in Change
    BY <1>12, <2>3 DEF RemoveRoute, Change
  <2> QED BY <1>0, <1>12, <2>4 DEF RemoveRoute, TerminalOutputTypeOK
<1>13. CASE DispatchLeave
  <2>1. dispatching # <<>>
    BY <1>13 DEF DispatchLeave, OrderInv, LeavingChange, HeadIs
  <2> QED BY <1>10, <1>13, <2>1 DEF DispatchLeave
<1>14. ASSUME NEW t \in Gate, NEW s \in SerializeThread, TakeGatePackets(t, s)
       PROVE  TerminalOutputTypeOK'
  <2>1. msg_index' \in [Gate -> Index]
    BY <1>0, <1>14, IncreaseNumber DEF TakeGatePackets, TerminalOutputTypeOK
  <2>2. serializer' \in [Gate -> [SerializeThread ->
                               [index : Index, packets : Seq(Number)]]]
    BY <1>0, <1>14 DEF TakeGatePackets, TerminalOutputTypeOK
  <2>3. gate_vec' \in [Gate -> Seq(Number)]
    BY <1>0, <1>14 DEF TakeGatePackets, TerminalOutputTypeOK
  <2> QED BY <1>0, <1>14, <2>1, <2>2, <2>3 DEF TakeGatePackets, TerminalOutputTypeOK
<1>15. ASSUME NEW t \in Gate, NEW s \in SerializeThread, SerializePackets(t, s)
       PROVE  TerminalOutputTypeOK'
  <2>1. 0 \in Index
    BY IndexLimitAssumption DEF Index
  <2>2. serializer' \in [Gate -> [SerializeThread ->
                               [index : Index, packets : Seq(Number)]]]
    BY <1>0, <1>15, <2>1 DEF SerializePackets, TerminalOutputTypeOK
  <2>3. msg_block_map' \in [Gate -> SUBSET [index : Index, blocks : Seq(Number)]]
    <3>1. [index |-> serializer[t][s].index, blocks |-> serializer[t][s].packets]
            \in [index : Index, blocks : Seq(Number)]
      BY <1>0 DEF TerminalOutputTypeOK
    <3> QED BY <1>0, <1>15, <3>1 DEF SerializePackets, TerminalOutputTypeOK, Insert
  <2> QED BY <1>0, <1>15, <2>2, <2>3 DEF SerializePackets, TerminalOutputTypeOK
<1>16. ASSUME NEW t \in Gate, TakeBlock(t)
       PROVE  TerminalOutputTypeOK'
  <2>1. PICK e \in msg_block_map[t] :
          /\ msg_block' = [msg_block EXCEPT ![t] = <<Head(e.blocks)>>]
          /\ \/ /\ msg_block_map' = [msg_block_map EXCEPT ![t] = @ \ {e}]
                /\ msg_pos' = [msg_pos EXCEPT ![t] = increaseNumber(@)]
             \/ /\ msg_block_map' = [msg_block_map EXCEPT ![t] =
                      (@ \ {e}) \cup {[e EXCEPT !.blocks = Tail(@)]}]
                /\ UNCHANGED msg_pos
    BY <1>16 DEF TakeBlock
  <2>2. e \in [index : Index, blocks : Seq(Number)] /\ e.blocks # <<>>
    BY <1>0, <2>1 DEF TerminalOutputTypeOK, OrderInv, GateOwners
  <2>3. Head(e.blocks) \in Number
        /\ [e EXCEPT !.blocks = Tail(@)] \in [index : Index, blocks : Seq(Number)]
    BY <2>2
  <2>4. msg_block' \in [Gate -> Seq(Number)]
    <3>1. <<Head(e.blocks)>> \in Seq(Number) /\ msg_block \in [Gate -> Seq(Number)]
      BY <1>0, <2>3 DEF TerminalOutputTypeOK
    <3> QED BY <2>1, <3>1
  <2>5. msg_block_map' \in [Gate -> SUBSET [index : Index, blocks : Seq(Number)]]
    <3> DEFINE F == SUBSET [index : Index, blocks : Seq(Number)]
               f == [e EXCEPT !.blocks = Tail(@)]
    <3>1. msg_block_map \in [Gate -> F]
      BY <1>0 DEF TerminalOutputTypeOK
    <3>2. msg_block_map[t] \in F
      BY <3>1
    <3>3. msg_block_map[t] \ {e} \in F /\ (msg_block_map[t] \ {e}) \cup {f} \in F
      BY <2>3, <3>2
    <3>4. \/ msg_block_map' = [msg_block_map EXCEPT ![t] = msg_block_map[t] \ {e}]
          \/ msg_block_map' = [msg_block_map EXCEPT ![t] =
                                 (msg_block_map[t] \ {e}) \cup {f}]
      BY <2>1
    <3> HIDE DEF F, f
    <3> SUFFICES msg_block_map' \in [Gate -> F]
      BY DEF F
    <3> QED BY <3>1, <3>3, <3>4
  <2>6. msg_pos' \in [Gate -> Index]
    <3>1. msg_pos \in [Gate -> Index] /\ increaseNumber(msg_pos[t]) \in Index
      BY <1>0, IncreaseNumber DEF TerminalOutputTypeOK
    <3> QED BY <2>1, <3>1
  <2> QED BY <1>0, <1>16, <2>4, <2>5, <2>6 DEF TakeBlock, TerminalOutputTypeOK
<1>17. ASSUME NEW t \in Gate, WriteBlock(t)
       PROVE  TerminalOutputTypeOK'
  <2>1. written' \in [Gate -> Seq(Number)] /\ msg_block' \in [Gate -> Seq(Number)]
    BY <1>0, <1>17 DEF WriteBlock, TerminalOutputTypeOK
  <2>2. place' \in [Player -> {"out", "entering", "in", "leaving"}]
    BY <1>0, <1>17 DEF WriteBlock, TerminalOutputTypeOK
  <2> QED BY <1>0, <1>17, <2>1, <2>2 DEF WriteBlock, TerminalOutputTypeOK
<1>18. CASE UNCHANGED vars
  BY <1>0, <1>18 DEF vars, TerminalOutputTypeOK
<1> QED
  BY <1>1, <1>2, <1>3, <1>4, <1>5, <1>6, <1>7, <1>8, <1>9, <1>11, <1>12, <1>13,
     <1>14, <1>15, <1>16, <1>17, <1>18
  DEF Next, WriteStep, RouteStep, DispatchStep, SerializeStep

-----------------------------------------------------------------------------
(* The first stage *)

StageOne == RouteHolders /\ RouteOwners /\ RouteSequences /\ RouteLine

(* The types of what the batches are made of. *)
LEMMA RouteTypes ==
  ASSUME TerminalOutputTypeOK
  PROVE  /\ packet_vec \in Seq(Number) /\ dispatching \in Seq(RouteInfo)
         /\ route_index \in Index /\ route_pos \in Index
         /\ \A r \in RouteThread :
              /\ router[r].packets \in Seq(Number)
              /\ router[r].info \in Seq(RouteInfo)
              /\ router[r].index \in Index /\ router[r].busy \in BOOLEAN
              /\ InRouter(r) \subseteq Number
         /\ \A e \in route_info_map :
              /\ e \in [index : Index, info : Seq(RouteInfo)]
              /\ e.index \in Index /\ e.info \in Seq(RouteInfo)
              /\ PacketsOf(e.info) \subseteq Number
         /\ RouteBatch \in [Index -> SUBSET Number]
<1>1. /\ packet_vec \in Seq(Number) /\ dispatching \in Seq(RouteInfo)
      /\ route_index \in Index /\ route_pos \in Index
  BY DEF TerminalOutputTypeOK
<1>2. ASSUME NEW r \in RouteThread
      PROVE  /\ router[r].packets \in Seq(Number)
             /\ router[r].info \in Seq(RouteInfo)
             /\ router[r].index \in Index /\ router[r].busy \in BOOLEAN
             /\ InRouter(r) \subseteq Number
  <2>1. /\ router[r].packets \in Seq(Number)
        /\ router[r].info \in Seq(RouteInfo)
        /\ router[r].index \in Index /\ router[r].busy \in BOOLEAN
    BY DEF TerminalOutputTypeOK
  <2>2. InRouter(r) \subseteq Number
    BY <2>1, RangeType, PacketsOfType DEF InRouter
  <2> QED BY <2>1, <2>2
<1>3. ASSUME NEW e \in route_info_map
      PROVE  /\ e \in [index : Index, info : Seq(RouteInfo)]
             /\ e.index \in Index /\ e.info \in Seq(RouteInfo)
             /\ PacketsOf(e.info) \subseteq Number
  <2>1. /\ e \in [index : Index, info : Seq(RouteInfo)]
        /\ e.index \in Index /\ e.info \in Seq(RouteInfo)
    BY DEF TerminalOutputTypeOK
  <2> QED BY <2>1, PacketsOfType
<1>4. RouteBatch \in [Index -> SUBSET Number]
  BY DEF RouteBatch
<1> QED BY <1>1, <1>2, <1>3, <1>4

LEMMA RouteBatchHas ==
  ASSUME NEW i \in Index
  PROVE  \A n : n \in RouteBatch[i] <=> n \in Number /\ Holds(i, n)
BY DEF RouteBatch

(* What the holder of an index has is of its batch. *)
LEMMA HolderHasPackets ==
  ASSUME TerminalOutputTypeOK
  PROVE  /\ \A r \in RouteThread :
              router[r].busy => /\ router[r].index \in RouteHeld
                                /\ InRouter(r) \subseteq RouteBatch[router[r].index]
         /\ \A e \in route_info_map :
              /\ e.index \in RouteHeld
              /\ PacketsOf(e.info) \subseteq RouteBatch[e.index]
<1>1. ASSUME NEW r \in RouteThread, router[r].busy
      PROVE  InRouter(r) \subseteq RouteBatch[router[r].index]
  <2> SUFFICES ASSUME NEW n \in InRouter(r)
               PROVE  n \in RouteBatch[router[r].index]
    OBVIOUS
  <2>1. Holds(router[r].index, n)
    BY <1>1 DEF Holds
  <2> QED BY <2>1, RouteTypes, RouteBatchHas
<1>2. ASSUME NEW e \in route_info_map
      PROVE  PacketsOf(e.info) \subseteq RouteBatch[e.index]
  <2> SUFFICES ASSUME NEW n \in PacketsOf(e.info)
               PROVE  n \in RouteBatch[e.index]
    OBVIOUS
  <2>1. Holds(e.index, n)
    BY DEF Holds
  <2> QED BY <2>1, RouteTypes, RouteBatchHas
<1>3. /\ \A r \in RouteThread : router[r].busy => router[r].index \in RouteHeld
      /\ \A e \in route_info_map : e.index \in RouteHeld
  BY RouteTypes DEF RouteHeld
<1> QED BY <1>1, <1>2, <1>3

(* The index to draw next is nobody's. *)
LEMMA NextIndexIsFree ==
  ASSUME OrderInv
  PROVE  /\ RouteBatch[route_index] = {}
         /\ \A r \in RouteThread : router[r].busy => router[r].index # route_index
         /\ \A e \in route_info_map : e.index # route_index
<1>1. TerminalOutputTypeOK /\ RouteLine
  BY DEF OrderInv
<1>2. route_index \notin RouteHeld /\ RouteBatch[route_index] = {}
  <2>1. route_index \in Index /\ route_pos \in Index
    BY <1>1, RouteTypes
  <2>2. ~(Ahead(route_index, route_pos) < Ahead(route_index, route_pos))
    BY <2>1, IndexLimitAssumption DEF Ahead, Index
  <2> QED BY <1>1, <2>1, <2>2 DEF RouteLine, Line
<1> QED BY <1>1, <1>2, HolderHasPackets

LEMMA TakePacketsBatch ==
  ASSUME OrderInv, NEW r \in RouteThread, TakePackets(r)
  PROVE  /\ RouteBatch' = [RouteBatch EXCEPT ![route_index] = Range(packet_vec)]
         /\ RouteHeld' = RouteHeld \cup {route_index}
<1>1. TerminalOutputTypeOK /\ RouteHolders
  BY DEF OrderInv
<1>2. router' = [router EXCEPT ![r] = [index |-> route_index, info |-> <<>>,
                                       packets |-> packet_vec, busy |-> TRUE]]
      /\ route_info_map' = route_info_map /\ ~router[r].busy
  BY DEF TakePackets, dispatchVars
<1>3. /\ router'[r].index = route_index /\ router'[r].busy
      /\ InRouter(r)' = Range(packet_vec)
      /\ \A q \in RouteThread : q # r => router'[q] = router[q]
                                         /\ InRouter(q)' = InRouter(q)
  <2>1. /\ router'[r] = [index |-> route_index, info |-> <<>>,
                         packets |-> packet_vec, busy |-> TRUE]
        /\ \A q \in RouteThread : q # r => router'[q] = router[q]
    BY <1>1, <1>2 DEF TerminalOutputTypeOK
  <2> QED BY <2>1 DEF InRouter, PacketsOf, Range
<1>4. ASSUME NEW i \in Index, NEW n \in Number
      PROVE  Holds(i, n)' <=> IF i = route_index THEN n \in Range(packet_vec)
                              ELSE Holds(i, n)
  <2>1. CASE i = route_index
    BY <2>1, <1>2, <1>3, NextIndexIsFree DEF Holds
  <2>2. CASE i # route_index
    BY <2>2, <1>2, <1>3 DEF Holds
  <2> QED BY <2>1, <2>2
<1>5. Range(packet_vec) \subseteq Number /\ route_index \in Index
  BY <1>1, RouteTypes, RangeType
<1>6. ASSUME NEW i \in Index
      PROVE  {n \in Number : Holds(i, n)'} =
               IF i = route_index THEN Range(packet_vec)
               ELSE {n \in Number : Holds(i, n)}
  BY <1>4, <1>5
<1>7. RouteHeld' = RouteHeld \cup {route_index}
  BY <1>2, <1>3, <1>5 DEF RouteHeld
<1>8. RouteBatch' = [RouteBatch EXCEPT ![route_index] = Range(packet_vec)]
  BY <1>5, <1>6 DEF RouteBatch
<1> QED BY <1>7, <1>8

LEMMA TakePacketsStageOne ==
  ASSUME OrderInv, NEW r \in RouteThread, TakePackets(r)
  PROVE  StageOne' /\ InRouteStage' = InRouteStage
<1>1. /\ TerminalOutputTypeOK /\ RouteHolders /\ RouteOwners
      /\ RouteSequences /\ RouteLine
  BY DEF OrderInv
<1>2. router' = [router EXCEPT ![r] = [index |-> route_index, info |-> <<>>,
                                       packets |-> packet_vec, busy |-> TRUE]]
      /\ route_info_map' = route_info_map /\ ~router[r].busy
      /\ packet_vec' = <<>> /\ packet_vec # <<>>
      /\ route_index' = increaseNumber(route_index)
      /\ dispatching' = dispatching /\ route_pos' = route_pos
  BY DEF TakePackets, dispatchVars
<1>3. /\ router'[r] = [index |-> route_index, info |-> <<>>,
                       packets |-> packet_vec, busy |-> TRUE]
      /\ \A q \in RouteThread : q # r => router'[q] = router[q]
  BY <1>1, <1>2 DEF TerminalOutputTypeOK
<1>4. RouteHolders'
  BY <1>1, <1>2, <1>3 DEF RouteHolders
<1>5. RouteOwners'
  BY <1>1, <1>2, <1>3, NextIndexIsFree DEF RouteOwners
<1>6. RouteSequences'
  BY <1>1, <1>2, <1>3 DEF RouteSequences, Increasing, IncreasingInfo, Below,
                          PacketsOf
<1>7. /\ RouteBatch' = [RouteBatch EXCEPT ![route_index] = Range(packet_vec)]
      /\ RouteHeld' = RouteHeld \cup {route_index}
  BY TakePacketsBatch
<1>8. /\ packet_vec \in Seq(Number) /\ route_index \in Index /\ route_pos \in Index
      /\ RouteBatch \in [Index -> SUBSET Number]
      /\ Range(packet_vec) \in SUBSET Number /\ Head(packet_vec) \in Range(packet_vec)
  BY <1>1, <1>2, RouteTypes, RangeType, TailOf
<1>9. IndexIsLeft(route_index, route_pos)
  BY DEF TakePackets
<1>10. Line(RouteHeld', RouteBatch', route_pos', route_index')
  <2>1. /\ \A i \in Index : Below(RouteBatch[i], Range(packet_vec))
        /\ Line(RouteHeld, RouteBatch, route_pos, route_index)
    BY <1>1 DEF RouteLine
  <2>2. Line(RouteHeld \cup {route_index},
             [RouteBatch EXCEPT ![route_index] = Range(packet_vec)],
             route_pos, increaseNumber(route_index))
    BY <1>8, <1>9, <2>1, LineDraw
  <2> QED BY <1>2, <1>7, <2>2
<1>11. Range(packet_vec') = {}
  BY <1>2 DEF Range
<1>12. \A i \in Index : RouteBatch'[i] = IF i = route_index THEN Range(packet_vec)
                                         ELSE RouteBatch[i]
  BY <1>7, <1>8
<1>13. RouteLine'
  BY <1>1, <1>2, <1>10, <1>11, <1>12 DEF RouteLine, Below
<1>14. InRouteStage' = InRouteStage
  <2>1. \A n \in Number : (\E i \in Index : n \in RouteBatch'[i]) <=>
             n \in Range(packet_vec) \/ \E i \in Index : n \in RouteBatch[i]
    BY <1>8, <1>12, NextIndexIsFree
  <2> QED BY <1>2, <1>8, <1>11, <2>1 DEF InRouteStage
<1> QED BY <1>4, <1>5, <1>6, <1>13, <1>14 DEF StageOne

(* A packet that is routed stays in its thread; one that has no route goes. *)
LEMMA RoutePacketStageOne ==
  ASSUME OrderInv, NEW r \in RouteThread, RoutePacket(r)
  PROVE  StageOne' /\ InRouteStage' \subseteq InRouteStage
<1> DEFINE n == Head(router[r].packets)
           terminal == terminal_route[r][sent[n].guid]
           x == [packet |-> n, terminal |-> terminal]
<1>1. /\ TerminalOutputTypeOK /\ RouteHolders /\ RouteOwners
      /\ RouteSequences /\ RouteLine
  BY DEF OrderInv
<1>2. /\ router[r].packets # <<>>
      /\ route_info_map' = route_info_map /\ packet_vec' = packet_vec
      /\ route_index' = route_index
      /\ dispatching' = dispatching /\ route_pos' = route_pos
  BY DEF RoutePacket, dispatchVars
<1>3. router[r].packets \in Seq(Number) /\ router[r].info \in Seq(RouteInfo)
      /\ router[r].busy
  BY <1>1, <1>2, RouteTypes DEF RouteHolders
<1>4. n \in Number /\ n \in Range(router[r].packets)
  BY <1>2, <1>3, TailOf
<1>5. terminal # NoGate => x \in RouteInfo
  <2>1. sent[n].guid \in Player
    BY <1>4, SentTypes DEF Unrouted
  <2>2. terminal \in Gate \cup {NoGate}
    BY <1>1, <2>1 DEF TerminalOutputTypeOK
  <2> QED BY <1>4, <2>2 DEF RouteInfo
<1>6. x.packet = n
  OBVIOUS
<1>7. /\ terminal = NoGate =>
           router' = [router EXCEPT ![r].packets = Tail(@)]
      /\ terminal # NoGate =>
           router' = [router EXCEPT ![r].packets = Tail(@), ![r].info = Append(@, x)]
  BY DEF RoutePacket
<1> HIDE DEF x, terminal
<1>8. /\ router'[r].packets = Tail(router[r].packets)
      /\ terminal = NoGate => router'[r].info = router[r].info
      /\ terminal # NoGate => router'[r].info = Append(router[r].info, x)
      /\ router'[r].index = router[r].index /\ router'[r].busy = router[r].busy
      /\ \A q \in RouteThread : q # r => router'[q] = router[q]
  <2>0. router \in [RouteThread -> [index : Index, packets : Seq(Number),
                                    info : Seq(RouteInfo), busy : BOOLEAN]]
    BY <1>1 DEF TerminalOutputTypeOK
  <2>1. CASE terminal = NoGate
    <3>1. router' = [router EXCEPT ![r].packets = Tail(@)]
      BY <1>7, <2>1
    <3>2. router'[r] = [router[r] EXCEPT !.packets = Tail(@)]
      BY <2>0, <3>1
    <3> QED BY <2>0, <2>1, <3>1, <3>2
  <2>2. CASE terminal # NoGate
    BY <1>7, <2>0, <2>2
  <2> QED BY <2>1, <2>2
<1>9. /\ Range(router[r].packets) = {n} \cup Range(router'[r].packets)
      /\ PacketsOf(router'[r].info) \subseteq PacketsOf(router[r].info) \cup {n}
  <2>1. Range(router[r].packets) = {n} \cup Range(router'[r].packets)
    BY <1>2, <1>3, <1>8, TailOf
  <2>2. CASE terminal = NoGate
    BY <1>8, <2>1, <2>2
  <2>3. CASE terminal # NoGate
    <3>1. router[r].info \in Seq(RouteInfo) /\ x \in RouteInfo
      BY <1>3, <1>5, <2>3
    <3>2. PacketsOf(Append(router[r].info, x)) = PacketsOf(router[r].info) \cup {x.packet}
      BY <3>1, AppendOf
    <3>3. router'[r].info = Append(router[r].info, x)
      BY <1>8, <2>3
    <3> QED BY <1>6, <2>1, <3>2, <3>3
  <2> QED BY <2>2, <2>3
<1> HIDE DEF n
<1>10. \A q \in RouteThread : /\ InRouter(q)' \subseteq InRouter(q)
                              /\ router'[q].index = router[q].index
                              /\ router'[q].busy = router[q].busy
  BY <1>8, <1>9 DEF InRouter
<1>11. RouteHeld' = RouteHeld
  BY <1>2, <1>10 DEF RouteHeld
<1>12. \A i \in Index : RouteBatch'[i] \subseteq RouteBatch[i]
  <2>1. \A i \in Index, m \in Number : Holds(i, m)' => Holds(i, m)
    BY <1>2, <1>10 DEF Holds
  <2>2. \A i \in Index : {m \in Number : Holds(i, m)'} \subseteq {m \in Number : Holds(i, m)}
    BY <2>1
  <2> QED BY <2>2 DEF RouteBatch
<1>13. RouteLine'
  <2>1. Line(RouteHeld, RouteBatch', route_pos, route_index)
    BY <1>1, <1>12, LineShrink DEF RouteLine
  <2> QED BY <1>1, <1>2, <1>11, <1>12, <2>1 DEF RouteLine, Below
<1>14. InRouteStage' \subseteq InRouteStage
  BY <1>2, <1>12 DEF InRouteStage
<1>15. RouteOwners'
  BY <1>1, <1>2, <1>10 DEF RouteOwners
<1>16. RouteHolders'
  BY <1>1, <1>3, <1>8 DEF RouteHolders
<1>17. RouteSequences'
  <2>1. /\ Increasing(router[r].packets) /\ IncreasingInfo(router[r].info)
        /\ Below(PacketsOf(router[r].info), Range(router[r].packets))
    BY <1>1 DEF RouteSequences
  <2>2. router[r].packets \in Seq(Nat)
    BY <1>3, NumbersAreNat, SeqMonotonic
  <2>3. /\ Increasing(router'[r].packets)
        /\ Below({n}, Range(router'[r].packets))
    BY <1>2, <1>8, <2>1, <2>2, IncreasingTail DEF n
  <2>4. IncreasingInfo(router'[r].info)
    <3>1. Below(PacketsOf(router[r].info), {x.packet})
      BY <1>4, <1>6, <2>1 DEF Below
    <3>2. terminal # NoGate => IncreasingInfo(router'[r].info)
      BY <1>3, <1>5, <1>8, <2>1, <3>1, IncreasingInfoAppend
    <3> QED BY <1>8, <2>1, <3>2
  <2>5. Below(PacketsOf(router'[r].info), Range(router'[r].packets))
    BY <1>9, <2>1, <2>3 DEF Below
  <2> QED BY <1>1, <1>2, <1>8, <2>3, <2>4, <2>5 DEF RouteSequences
<1> QED BY <1>13, <1>14, <1>15, <1>16, <1>17 DEF StageOne

LEMMA FinishRoutingStageOne ==
  ASSUME OrderInv, NEW r \in RouteThread, FinishRouting(r)
  PROVE  StageOne' /\ InRouteStage' = InRouteStage
<1> DEFINE e == [index |-> router[r].index, info |-> router[r].info]
<1>1. /\ TerminalOutputTypeOK /\ RouteHolders /\ RouteOwners
      /\ RouteSequences /\ RouteLine
  BY DEF OrderInv
<1>2. /\ router[r].busy /\ router[r].packets = <<>>
      /\ packet_vec' = packet_vec /\ route_index' = route_index
      /\ dispatching' = dispatching /\ route_pos' = route_pos
  BY DEF FinishRouting
<1>3. route_info_map' = route_info_map \cup {e}
  BY <1>1, <1>2 DEF FinishRouting, Insert, RouteOwners
<1>4. /\ ~router'[r].busy /\ router'[r].packets = <<>> /\ router'[r].info = <<>>
      /\ \A q \in RouteThread : q # r => router'[q] = router[q]
  BY <1>1 DEF FinishRouting, TerminalOutputTypeOK
<1>5. e.index = router[r].index /\ e.info = router[r].info
  OBVIOUS
<1> HIDE DEF e
<1>6. InRouter(r) = PacketsOf(e.info)
  BY <1>2, <1>5 DEF InRouter, Range
<1>7. \A q \in RouteThread : q # r => InRouter(q)' = InRouter(q)
  BY <1>4 DEF InRouter
<1>8. ASSUME NEW i \in Index, NEW m \in Number
      PROVE  Holds(i, m)' <=> Holds(i, m)
  BY <1>2, <1>3, <1>4, <1>5, <1>6, <1>7 DEF Holds
<1>9. RouteBatch' = RouteBatch
  <2>1. \A i \in Index : {m \in Number : Holds(i, m)'} = {m \in Number : Holds(i, m)}
    BY <1>8
  <2> QED BY <2>1 DEF RouteBatch
<1>10. RouteLine' /\ InRouteStage' = InRouteStage
  <2>1. RouteHeld' = RouteHeld
    BY <1>2, <1>3, <1>4, <1>5 DEF RouteHeld
  <2> QED BY <1>1, <1>2, <1>9, <2>1 DEF RouteLine, InRouteStage
<1>11. RouteOwners'
  BY <1>1, <1>2, <1>3, <1>4, <1>5 DEF RouteOwners
<1>12. RouteHolders'
  BY <1>1, <1>2, <1>3, <1>4, <1>5 DEF RouteHolders
<1>13. RouteSequences'
  <2>1. IncreasingInfo(router'[r].info) /\ Increasing(router'[r].packets)
        /\ Below(PacketsOf(router'[r].info), Range(router'[r].packets))
    BY <1>4 DEF IncreasingInfo, Increasing, Below, PacketsOf
  <2>2. IncreasingInfo(e.info)
    BY <1>1, <1>5 DEF RouteSequences
  <2> QED BY <1>1, <1>2, <1>3, <1>4, <2>1, <2>2 DEF RouteSequences
<1> QED BY <1>10, <1>11, <1>12, <1>13 DEF StageOne

(* The batch at the position becomes what is dispatched. *)
LEMMA TakeInfoStageOne ==
  ASSUME OrderInv, TakeInfo
  PROVE  StageOne' /\ InRouteStage' = InRouteStage
<1>1. /\ TerminalOutputTypeOK /\ RouteHolders /\ RouteOwners
      /\ RouteSequences /\ RouteLine
  BY DEF OrderInv
<1>2. PICK e \in route_info_map :
        /\ e.index = route_pos
        /\ route_info_map' = route_info_map \ {e}
        /\ dispatching' = e.info
  BY DEF TakeInfo
<1>3. /\ router' = router /\ packet_vec' = packet_vec /\ route_index' = route_index
      /\ dispatching = <<>> /\ route_pos' = increaseNumber(route_pos)
  BY DEF TakeInfo, routeVars
<1>4. \A q \in RouteThread : InRouter(q)' = InRouter(q)
  BY <1>3 DEF InRouter
<1>5. /\ route_pos \in Index /\ route_index \in Index
      /\ RouteBatch \in [Index -> SUBSET Number]
      /\ PacketsOf(e.info) \subseteq Number
  BY <1>1, RouteTypes
<1>6. \A m \in Number : Holds(route_pos, m) <=> m \in PacketsOf(e.info)
  BY <1>1, <1>2 DEF Holds, RouteOwners
<1>7. RouteBatch[route_pos] = PacketsOf(e.info)
  BY <1>5, <1>6, RouteBatchHas
<1>8. ASSUME NEW i \in Index, NEW m \in Number
      PROVE  Holds(i, m)' <=> (i # route_pos /\ Holds(i, m))
  <2>1. CASE i = route_pos
    BY <2>1, <1>1, <1>2, <1>3 DEF Holds, RouteOwners
  <2>2. CASE i # route_pos
    BY <2>2, <1>2, <1>3, <1>4 DEF Holds
  <2> QED BY <2>1, <2>2
<1>9. RouteBatch' = [RouteBatch EXCEPT ![route_pos] = {}]
  <2>1. \A i \in Index : {m \in Number : Holds(i, m)'} =
                           IF i = route_pos THEN {} ELSE {m \in Number : Holds(i, m)}
    BY <1>8
  <2> QED BY <2>1 DEF RouteBatch
<1>10. \A i \in Index : RouteBatch'[i] = IF i = route_pos THEN {} ELSE RouteBatch[i]
  BY <1>5, <1>9
<1>11. /\ RouteHeld' = RouteHeld \ {route_pos}
       /\ route_pos \in RouteHeld
  BY <1>1, <1>2, <1>3, <1>5 DEF RouteHeld, RouteOwners
<1>12. Line(RouteHeld', RouteBatch', route_pos', route_index')
  <2>1. Line(RouteHeld, RouteBatch, route_pos, route_index)
    BY <1>1 DEF RouteLine
  <2>2. Line(RouteHeld \ {route_pos}, [RouteBatch EXCEPT ![route_pos] = {}],
             increaseNumber(route_pos), route_index)
    BY <1>5, <1>11, <2>1, LineTake
  <2> QED BY <1>3, <1>9, <1>11, <2>2
<1>13. RouteLine'
  <2>1. \A i \in Index : i # route_pos => Below(RouteBatch[route_pos], RouteBatch[i])
    <3>1. \A i \in Index : i # route_pos => Ahead(route_pos, route_pos) < Ahead(i, route_pos)
      BY <1>5, IndexLimitAssumption DEF Ahead, Index
    <3> QED BY <1>1, <1>5, <3>1 DEF RouteLine, Line
  <2>2. \A i \in Index : Below(PacketsOf(dispatching'), RouteBatch'[i])
    BY <1>2, <1>7, <1>10, <2>1 DEF Below
  <2>3. Below(PacketsOf(dispatching'), Range(packet_vec'))
    BY <1>1, <1>2, <1>3, <1>5, <1>7 DEF RouteLine
  <2>4. \A i \in Index : Below(RouteBatch'[i], Range(packet_vec'))
    BY <1>1, <1>3, <1>10 DEF RouteLine, Below
  <2> QED BY <1>12, <2>2, <2>3, <2>4 DEF RouteLine
<1>14. InRouteStage' = InRouteStage
  <2>1. PacketsOf(dispatching) = {}
    BY <1>3 DEF PacketsOf
  <2>2. \A m \in Number : (\E i \in Index : m \in RouteBatch[i]) <=>
           m \in PacketsOf(e.info) \/ \E i \in Index : m \in RouteBatch'[i]
    BY <1>5, <1>7, <1>10
  <2> QED BY <1>2, <1>3, <1>5, <2>1, <2>2 DEF InRouteStage
<1>15. RouteOwners' /\ RouteHolders' /\ RouteSequences'
  BY <1>1, <1>2, <1>3 DEF RouteOwners, RouteHolders, RouteSequences
<1> QED BY <1>13, <1>14, <1>15 DEF StageOne

LEMMA OutputPacketStageOne ==
  ASSUME OrderInv, NEW p \in Player, NEW opcode \in Opcode, OutputPacket(p, opcode)
  PROVE  StageOne' /\ InRouteStage' = InRouteStage \cup {Len(sent) + 1}
<1> DEFINE n == Len(sent) + 1
<1>1. /\ TerminalOutputTypeOK /\ RouteHolders /\ RouteOwners
      /\ RouteSequences /\ RouteLine
  BY DEF OrderInv
<1>2. /\ router' = router /\ packet_vec' = Append(packet_vec, n)
      /\ route_index' = route_index /\ route_info_map' = route_info_map
      /\ dispatching' = dispatching /\ route_pos' = route_pos
      /\ Len(sent) < MaxPackets
  BY DEF OutputPacket, dispatchVars
<1>3. n \in Number /\ Len(sent) \in Nat
  BY <1>1, <1>2, MaxPacketsAssumption DEF Number, TerminalOutputTypeOK
<1>4. /\ packet_vec \in Seq(Number)
      /\ Range(packet_vec') = Range(packet_vec) \cup {n}
  BY <1>1, <1>2, <1>3, RouteTypes, AppendOf
<1>5. RouteBatch' = RouteBatch
  <2>1. \A q \in RouteThread : InRouter(q)' = InRouter(q)
    BY <1>2 DEF InRouter
  <2>2. \A i \in Index, m \in Number : Holds(i, m)' <=> Holds(i, m)
    BY <1>2, <2>1 DEF Holds
  <2>3. \A i \in Index : {m \in Number : Holds(i, m)'} = {m \in Number : Holds(i, m)}
    BY <2>2
  <2> QED BY <2>3 DEF RouteBatch
<1>6. \A m \in InRouteStage : m <= Len(sent) /\ m < n
  BY SentTypes, <1>3
<1> HIDE DEF n
<1>7. RouteLine'
  <2>1. Below(PacketsOf(dispatching), {n})
    BY <1>6 DEF InRouteStage, Below
  <2>2. \A i \in Index : Below(RouteBatch[i], {n})
    <3> SUFFICES ASSUME NEW i \in Index, NEW m \in RouteBatch[i]
                 PROVE  m < n
      BY DEF Below
    <3>1. m \in InRouteStage
      BY <1>1, RouteTypes DEF InRouteStage
    <3> QED BY <3>1, <1>6
  <2>3. RouteHeld' = RouteHeld
    BY <1>2 DEF RouteHeld
  <2> QED BY <1>1, <1>2, <1>4, <1>5, <2>1, <2>2, <2>3 DEF RouteLine, Below
<1>8. Increasing(packet_vec')
  <2>1. packet_vec \in Seq(Nat) /\ n \in Nat
    BY <1>3, <1>4, NumbersAreNat, SeqMonotonic
  <2>2. Below(Range(packet_vec), {n})
    BY <1>6 DEF InRouteStage, Below
  <2> QED BY <1>1, <1>2, <2>1, <2>2, IncreasingAppend DEF RouteSequences
<1>9. RouteOwners' /\ RouteHolders' /\ RouteSequences'
  BY <1>1, <1>2, <1>8 DEF RouteOwners, RouteHolders, RouteSequences
<1>10. InRouteStage' = InRouteStage \cup {n}
  BY <1>2, <1>4, <1>5 DEF InRouteStage
<1> QED BY <1>7, <1>9, <1>10 DEF StageOne, n

LEMMA outputPacketStageOne ==
  ASSUME OrderInv, dispatching # <<>>, outputPacket
  PROVE  /\ StageOne'
         /\ Head(dispatching).packet \in InRouteStage
         /\ InRouteStage' \subseteq InRouteStage
         /\ Below({Head(dispatching).packet}, InRouteStage')
<1> DEFINE n == Head(dispatching).packet
<1>1. /\ TerminalOutputTypeOK /\ RouteHolders /\ RouteOwners
      /\ RouteSequences /\ RouteLine
  BY DEF OrderInv
<1>2. /\ router' = router /\ packet_vec' = packet_vec
      /\ route_index' = route_index /\ route_info_map' = route_info_map
      /\ dispatching' = Tail(dispatching) /\ route_pos' = route_pos
  BY DEF outputPacket, routeVars
<1>3. dispatching \in Seq(RouteInfo)
  BY <1>1, RouteTypes
<1>4. /\ PacketsOf(dispatching) = {n} \cup PacketsOf(dispatching')
      /\ IncreasingInfo(dispatching') /\ Below({n}, PacketsOf(dispatching'))
  BY <1>1, <1>2, <1>3, TailOf, IncreasingInfoTail DEF RouteSequences
<1> HIDE DEF n
<1>5. RouteBatch' = RouteBatch
  <2>1. \A q \in RouteThread : InRouter(q)' = InRouter(q)
    BY <1>2 DEF InRouter
  <2>2. \A i \in Index, m \in Number : Holds(i, m)' <=> Holds(i, m)
    BY <1>2, <2>1 DEF Holds
  <2>3. \A i \in Index : {m \in Number : Holds(i, m)'} = {m \in Number : Holds(i, m)}
    BY <2>2
  <2> QED BY <2>3 DEF RouteBatch
<1>6. RouteLine'
  <2>1. RouteHeld' = RouteHeld
    BY <1>2 DEF RouteHeld
  <2> QED BY <1>1, <1>2, <1>4, <1>5, <2>1 DEF RouteLine, Below
<1>7. RouteOwners' /\ RouteHolders' /\ RouteSequences'
  BY <1>1, <1>2, <1>4 DEF RouteOwners, RouteHolders, RouteSequences
<1>8. n \in InRouteStage /\ InRouteStage' \subseteq InRouteStage
  BY <1>2, <1>4, <1>5 DEF InRouteStage
<1>9. Below({n}, InRouteStage')
  BY <1>1, <1>2, <1>4, <1>5 DEF InRouteStage, RouteLine, Below
<1> QED BY <1>6, <1>7, <1>8, <1>9 DEF StageOne, n

(* Steps of the second stage, of players and of routes leave the first one *)
(* alone. *)
LEMMA StageOneUnchanged ==
  ASSUME OrderInv, UNCHANGED <<router, packet_vec, route_index, dispatchVars>>
  PROVE  StageOne' /\ InRouteStage' = InRouteStage
<1> USE DEF dispatchVars
<1>1. /\ RouteHolders /\ RouteOwners /\ RouteSequences /\ RouteLine
  BY DEF OrderInv
<1>2. RouteBatch' = RouteBatch
  <2>1. \A q \in RouteThread : InRouter(q)' = InRouter(q)
    BY DEF InRouter
  <2>2. \A i \in Index, m \in Number : Holds(i, m)' <=> Holds(i, m)
    BY <2>1 DEF Holds
  <2>3. \A i \in Index : {m \in Number : Holds(i, m)'} = {m \in Number : Holds(i, m)}
    BY <2>2
  <2> QED BY <2>3 DEF RouteBatch
<1>3. RouteLine' /\ InRouteStage' = InRouteStage
  <2>1. RouteHeld' = RouteHeld
    BY DEF RouteHeld
  <2> QED BY <1>1, <1>2, <2>1 DEF RouteLine, InRouteStage
<1>4. RouteOwners' /\ RouteHolders' /\ RouteSequences'
  BY <1>1 DEF RouteOwners, RouteHolders, RouteSequences
<1> QED BY <1>3, <1>4 DEF StageOne

-----------------------------------------------------------------------------
(* The second stage, of a gate *)

StageTwo(t) == GateOwners(t) /\ GateSequences(t) /\ GateLine(t)

LEMMA GateTypes ==
  ASSUME TerminalOutputTypeOK, NEW t \in Gate
  PROVE  /\ gate_vec[t] \in Seq(Number) /\ msg_block[t] \in Seq(Number)
         /\ written[t] \in Seq(Number)
         /\ msg_index[t] \in Index /\ msg_pos[t] \in Index
         /\ \A s \in SerializeThread :
              /\ serializer[t][s].packets \in Seq(Number)
              /\ serializer[t][s].index \in Index
              /\ Range(serializer[t][s].packets) \subseteq Number
         /\ \A e \in msg_block_map[t] :
              /\ e \in [index : Index, blocks : Seq(Number)]
              /\ e.index \in Index /\ e.blocks \in Seq(Number)
              /\ Range(e.blocks) \subseteq Number
         /\ BlockBatch(t) \in [Index -> SUBSET Number]
         /\ Range(gate_vec[t]) \subseteq Number
         /\ Range(msg_block[t]) \subseteq Number
         /\ Range(written[t]) \subseteq Number
<1>1. /\ gate_vec[t] \in Seq(Number) /\ msg_block[t] \in Seq(Number)
      /\ written[t] \in Seq(Number)
      /\ msg_index[t] \in Index /\ msg_pos[t] \in Index
  BY DEF TerminalOutputTypeOK
<1>2. ASSUME NEW s \in SerializeThread
      PROVE  /\ serializer[t][s].packets \in Seq(Number)
             /\ serializer[t][s].index \in Index
  BY DEF TerminalOutputTypeOK
<1>3. ASSUME NEW e \in msg_block_map[t]
      PROVE  /\ e \in [index : Index, blocks : Seq(Number)]
             /\ e.index \in Index /\ e.blocks \in Seq(Number)
  BY DEF TerminalOutputTypeOK
<1>4. BlockBatch(t) \in [Index -> SUBSET Number]
  BY DEF BlockBatch
<1> QED BY <1>1, <1>2, <1>3, <1>4, RangeType

LEMMA BlockBatchHas ==
  ASSUME NEW t \in Gate, NEW i \in Index
  PROVE  \A n : n \in BlockBatch(t)[i] <=> n \in Number /\ GateHolds(t, i, n)
BY DEF BlockBatch

(* Who holds an index holds packets of its batch. *)
LEMMA GateHolderHasPackets ==
  ASSUME TerminalOutputTypeOK, NEW t \in Gate, GateOwners(t)
  PROVE  /\ \A s \in SerializeThread :
              serializer[t][s].packets # <<>> =>
                /\ BlockBatch(t)[serializer[t][s].index] # {}
                /\ Range(serializer[t][s].packets)
                     \subseteq BlockBatch(t)[serializer[t][s].index]
         /\ \A e \in msg_block_map[t] :
              /\ BlockBatch(t)[e.index] # {}
              /\ Range(e.blocks) \subseteq BlockBatch(t)[e.index]
<1>1. ASSUME NEW s \in SerializeThread, serializer[t][s].packets # <<>>
      PROVE  /\ BlockBatch(t)[serializer[t][s].index] # {}
             /\ Range(serializer[t][s].packets)
                  \subseteq BlockBatch(t)[serializer[t][s].index]
  <2>1. Range(serializer[t][s].packets) \subseteq BlockBatch(t)[serializer[t][s].index]
    <3> SUFFICES ASSUME NEW n \in Range(serializer[t][s].packets)
                 PROVE  n \in BlockBatch(t)[serializer[t][s].index]
      OBVIOUS
    <3>1. GateHolds(t, serializer[t][s].index, n)
      BY DEF GateHolds
    <3> QED BY <3>1, GateTypes, BlockBatchHas
  <2>2. Head(serializer[t][s].packets) \in Range(serializer[t][s].packets)
    BY <1>1, GateTypes, TailOf
  <2> QED BY <2>1, <2>2
<1>2. ASSUME NEW e \in msg_block_map[t]
      PROVE  /\ BlockBatch(t)[e.index] # {}
             /\ Range(e.blocks) \subseteq BlockBatch(t)[e.index]
  <2>1. Range(e.blocks) \subseteq BlockBatch(t)[e.index]
    <3> SUFFICES ASSUME NEW n \in Range(e.blocks)
                 PROVE  n \in BlockBatch(t)[e.index]
      OBVIOUS
    <3>1. GateHolds(t, e.index, n)
      BY DEF GateHolds
    <3> QED BY <3>1, GateTypes, BlockBatchHas
  <2>2. Head(e.blocks) \in Range(e.blocks)
    <3>1. e.blocks \in Seq(Number) /\ e.blocks # <<>>
      BY GateTypes DEF GateOwners
    <3> QED BY <3>1, TailOf
  <2> QED BY <2>1, <2>2
<1> QED BY <1>1, <1>2

LEMMA NextBlockIndexIsFree ==
  ASSUME OrderInv, NEW t \in Gate
  PROVE  /\ BlockBatch(t)[msg_index[t]] = {}
         /\ \A s \in SerializeThread :
              serializer[t][s].packets # <<>> => serializer[t][s].index # msg_index[t]
         /\ \A e \in msg_block_map[t] : e.index # msg_index[t]
<1>1. TerminalOutputTypeOK /\ GateOwners(t) /\ GateLine(t)
  BY DEF OrderInv
<1>2. BlockBatch(t)[msg_index[t]] = {}
  <2>1. /\ msg_index[t] \in Index
        /\ Line(GateHeld(t), BlockBatch(t), msg_pos[t], msg_index[t])
    BY <1>1, GateTypes DEF GateLine
  <2>2. ~(Ahead(msg_index[t], msg_pos[t]) < Ahead(msg_index[t], msg_pos[t]))
    BY <1>1, GateTypes, IndexLimitAssumption DEF Ahead, Index
  <2> QED BY <2>1, <2>2 DEF Line
<1> QED BY <1>1, <1>2, GateHolderHasPackets

(* The indices that a gate holds are those of the batches with packets. *)
LEMMA GateHeldIs ==
  ASSUME NEW t \in Gate, NEW i \in Index
  PROVE  /\ i \in GateHeld(t) <=> BlockBatch(t)[i] # {}
         /\ i \in GateHeld(t)' <=> BlockBatch(t)'[i] # {}
BY DEF GateHeld

(* A step that leaves a gate alone. *)
LEMMA StageTwoUnchanged ==
  ASSUME OrderInv, NEW t \in Gate,
         /\ serializer'[t] = serializer[t] /\ msg_block_map'[t] = msg_block_map[t]
         /\ msg_block'[t] = msg_block[t] /\ gate_vec'[t] = gate_vec[t]
         /\ msg_index'[t] = msg_index[t] /\ msg_pos'[t] = msg_pos[t]
         /\ written'[t] = written[t]
  PROVE  StageTwo(t)' /\ AtGate(t)' = AtGate(t)
<1>1. GateOwners(t) /\ GateSequences(t) /\ GateLine(t)
  BY DEF OrderInv
<1>2. BlockBatch(t)' = BlockBatch(t)
  <2>1. \A i \in Index, n \in Number : GateHolds(t, i, n)' <=> GateHolds(t, i, n)
    BY DEF GateHolds
  <2>2. \A i \in Index : {n \in Number : GateHolds(t, i, n)'}
                           = {n \in Number : GateHolds(t, i, n)}
    BY <2>1
  <2> QED BY <2>2 DEF BlockBatch
<1>3. GateLine(t)' /\ AtGate(t)' = AtGate(t)
  BY <1>1, <1>2 DEF GateHeld, GateLine, AtGate
<1>4. GateOwners(t)' /\ GateSequences(t)'
  BY <1>1 DEF GateOwners, GateSequences
<1> QED BY <1>3, <1>4 DEF StageTwo

LEMMA TakeGatePacketsStageTwo ==
  ASSUME OrderInv, NEW t \in Gate, NEW s \in SerializeThread, TakeGatePackets(t, s)
  PROVE  StageTwo(t)' /\ AtGate(t)' = AtGate(t)
<1>1. TerminalOutputTypeOK /\ GateOwners(t) /\ GateSequences(t) /\ GateLine(t)
  BY DEF OrderInv
<1>2. /\ serializer[t][s].packets = <<>> /\ gate_vec[t] # <<>>
      /\ serializer'[t][s] = [index |-> msg_index[t], packets |-> gate_vec[t]]
      /\ \A u \in SerializeThread : u # s => serializer'[t][u] = serializer[t][u]
      /\ msg_index'[t] = increaseNumber(msg_index[t])
      /\ gate_vec'[t] = <<>>
      /\ msg_block_map' = msg_block_map /\ msg_block' = msg_block
      /\ msg_pos' = msg_pos /\ written' = written
  BY <1>1 DEF TakeGatePackets, TerminalOutputTypeOK, writeVars
<1>3. GateOwners(t)'
  BY <1>1, <1>2, NextBlockIndexIsFree DEF GateOwners
<1>4. GateSequences(t)'
  BY <1>1, <1>2 DEF GateSequences, Increasing
<1>5. ASSUME NEW i \in Index, NEW n \in Number
      PROVE  GateHolds(t, i, n)' <=> IF i = msg_index[t] THEN n \in Range(gate_vec[t])
                                     ELSE GateHolds(t, i, n)
  <2>1. CASE i = msg_index[t]
    <3>1. \A u \in SerializeThread : serializer[t][u].index = i =>
            n \notin Range(serializer[t][u].packets)
      BY <2>1, NextBlockIndexIsFree DEF Range
    <3> QED BY <2>1, <3>1, <1>2, NextBlockIndexIsFree DEF GateHolds
  <2>2. CASE i # msg_index[t]
    <3>1. n \notin Range(serializer[t][s].packets)
      BY <1>2 DEF Range
    <3> QED BY <2>2, <3>1, <1>2 DEF GateHolds
  <2> QED BY <2>1, <2>2
<1>6. /\ gate_vec[t] \in Seq(Number) /\ msg_index[t] \in Index /\ msg_pos[t] \in Index
      /\ BlockBatch(t) \in [Index -> SUBSET Number]
      /\ Range(gate_vec[t]) \in SUBSET Number /\ Head(gate_vec[t]) \in Range(gate_vec[t])
  BY <1>1, <1>2, GateTypes, TailOf
<1>7. BlockBatch(t)' = [BlockBatch(t) EXCEPT ![msg_index[t]] = Range(gate_vec[t])]
  <2>1. \A i \in Index : {n \in Number : GateHolds(t, i, n)'} =
                           IF i = msg_index[t] THEN Range(gate_vec[t])
                           ELSE {n \in Number : GateHolds(t, i, n)}
    BY <1>5, <1>6
  <2> QED BY <1>6, <2>1 DEF BlockBatch
<1>8. \A i \in Index : BlockBatch(t)'[i] = IF i = msg_index[t] THEN Range(gate_vec[t])
                                           ELSE BlockBatch(t)[i]
  BY <1>6, <1>7
<1>9. IndexIsLeft(msg_index[t], msg_pos[t])
  BY DEF TakeGatePackets
<1>10. Line(GateHeld(t)', BlockBatch(t)', msg_pos'[t], msg_index'[t])
  <2>1. /\ \A i \in Index : Below(BlockBatch(t)[i], Range(gate_vec[t]))
        /\ Range(gate_vec[t]) # {}
        /\ Line(GateHeld(t), BlockBatch(t), msg_pos[t], msg_index[t])
    BY <1>1, <1>6 DEF GateLine
  <2>2. Line(GateHeld(t) \cup {msg_index[t]},
             [BlockBatch(t) EXCEPT ![msg_index[t]] = Range(gate_vec[t])],
             msg_pos[t], increaseNumber(msg_index[t]))
    BY <1>6, <1>9, <2>1, LineDraw
  <2>3. msg_pos'[t] = msg_pos[t] /\ msg_index'[t] = increaseNumber(msg_index[t])
    BY <1>2
  <2>4. GateHeld(t)' = GateHeld(t) \cup {msg_index[t]}
    BY <1>6, <1>8, <2>1, GateHeldIs DEF GateHeld
  <2> QED BY <1>7, <2>2, <2>3, <2>4
<1>11. Range(gate_vec'[t]) = {}
  BY <1>2 DEF Range
<1>12. GateLine(t)'
  BY <1>1, <1>2, <1>8, <1>10, <1>11 DEF GateLine, Below
<1>13. AtGate(t)' = AtGate(t)
  <2>1. \A n \in Number : (\E i \in Index : n \in BlockBatch(t)'[i]) <=>
             n \in Range(gate_vec[t]) \/ \E i \in Index : n \in BlockBatch(t)[i]
    BY <1>6, <1>8, NextBlockIndexIsFree
  <2> QED BY <1>2, <1>6, <1>11, <2>1 DEF AtGate
<1> QED BY <1>3, <1>4, <1>12, <1>13 DEF StageTwo

LEMMA SerializePacketsStageTwo ==
  ASSUME OrderInv, NEW t \in Gate, NEW s \in SerializeThread, SerializePackets(t, s)
  PROVE  StageTwo(t)' /\ AtGate(t)' = AtGate(t)
<1> DEFINE e == [index |-> serializer[t][s].index, blocks |-> serializer[t][s].packets]
<1>1. TerminalOutputTypeOK /\ GateOwners(t) /\ GateSequences(t) /\ GateLine(t)
  BY DEF OrderInv
<1>2. /\ serializer[t][s].packets # <<>>
      /\ serializer'[t][s] = [index |-> 0, packets |-> <<>>]
      /\ \A u \in SerializeThread : u # s => serializer'[t][u] = serializer[t][u]
      /\ msg_index' = msg_index /\ gate_vec' = gate_vec
      /\ msg_block' = msg_block /\ msg_pos' = msg_pos /\ written' = written
  BY <1>1 DEF SerializePackets, TerminalOutputTypeOK
<1>3. msg_block_map'[t] = msg_block_map[t] \cup {e}
  <2>1. msg_block_map'[t] = Insert(msg_block_map[t], e)
    BY <1>1 DEF SerializePackets, TerminalOutputTypeOK
  <2>2. \A f \in msg_block_map[t] : f.index # e.index
    BY <1>1, <1>2 DEF GateOwners
  <2> QED BY <2>1, <2>2 DEF Insert
<1>4. e.index = serializer[t][s].index /\ e.blocks = serializer[t][s].packets
  OBVIOUS
<1> HIDE DEF e
<1>5. Range(serializer'[t][s].packets) = {}
  BY <1>2 DEF Range
<1>6. ASSUME NEW i \in Index, NEW n \in Number
      PROVE  GateHolds(t, i, n)' <=> GateHolds(t, i, n)
  BY <1>2, <1>3, <1>4, <1>5 DEF GateHolds
<1>7. BlockBatch(t)' = BlockBatch(t)
  <2>1. \A i \in Index : {n \in Number : GateHolds(t, i, n)'}
                           = {n \in Number : GateHolds(t, i, n)}
    BY <1>6
  <2> QED BY <2>1 DEF BlockBatch
<1>8. GateLine(t)' /\ AtGate(t)' = AtGate(t)
  BY <1>1, <1>2, <1>7 DEF GateHeld, GateLine, AtGate
<1>9. GateOwners(t)'
  BY <1>1, <1>2, <1>3, <1>4 DEF GateOwners
<1>10. GateSequences(t)'
  <2>1. Increasing(serializer'[t][s].packets)
    BY <1>2 DEF Increasing
  <2>2. Increasing(e.blocks)
    BY <1>1, <1>4 DEF GateSequences
  <2> QED BY <1>1, <1>2, <1>3, <2>1, <2>2 DEF GateSequences
<1> QED BY <1>8, <1>9, <1>10 DEF StageTwo

(* The first block of the index that is next becomes the current one.  The *)
(* batch of that index gets smaller, or is gone.                           *)
LEMMA TakeBlockStageTwo ==
  ASSUME OrderInv, NEW t \in Gate, TakeBlock(t)
  PROVE  StageTwo(t)' /\ AtGate(t)' = AtGate(t)
<1>1. TerminalOutputTypeOK /\ GateOwners(t) /\ GateSequences(t) /\ GateLine(t)
  BY DEF OrderInv
<1>2. PICK e \in msg_block_map[t] :
        /\ e.index = msg_pos[t]
        /\ msg_block' = [msg_block EXCEPT ![t] = <<Head(e.blocks)>>]
        /\ IF Len(e.blocks) = 1
           THEN /\ msg_block_map' = [msg_block_map EXCEPT ![t] = @ \ {e}]
                /\ msg_pos' = [msg_pos EXCEPT ![t] = increaseNumber(@)]
           ELSE /\ msg_block_map' = [msg_block_map EXCEPT ![t] =
                     (@ \ {e}) \cup {[e EXCEPT !.blocks = Tail(@)]}]
                /\ UNCHANGED msg_pos
  BY DEF TakeBlock
<1> DEFINE f == [e EXCEPT !.blocks = Tail(@)]
           n == Head(e.blocks)
           rest == Tail(e.blocks)
           pos == msg_pos[t]
<1>3. /\ serializer' = serializer /\ msg_index' = msg_index /\ gate_vec' = gate_vec
      /\ written' = written /\ msg_block[t] = <<>>
  BY DEF TakeBlock, serializeVars
<1>4. /\ e \in [index : Index, blocks : Seq(Number)] /\ e.blocks \in Seq(Number)
      /\ pos \in Index /\ msg_index[t] \in Index
      /\ BlockBatch(t) \in [Index -> SUBSET Number]
      /\ e.blocks # <<>>
  BY <1>1, <1>2, GateTypes DEF GateOwners
<1>5. /\ n \in Number /\ rest \in Seq(Number)
      /\ Range(e.blocks) = {n} \cup Range(rest)
      /\ Range(rest) \subseteq Number
  BY <1>4, TailOf, RangeType
<1>6. Increasing(rest) /\ Below({n}, Range(rest))
  <2>1. e.blocks \in Seq(Nat) /\ Increasing(e.blocks)
    BY <1>1, <1>4, NumbersAreNat, SeqMonotonic DEF GateSequences
  <2> QED BY <1>4, <2>1, IncreasingTail
<1>7. Len(e.blocks) = 1 <=> rest = <<>>
  <2>1. Len(rest) = Len(e.blocks) - 1 /\ Len(e.blocks) \in Nat
    BY <1>4
  <2>2. rest = <<>> <=> Len(rest) = 0
    BY <1>5, EmptySeq
  <2> QED BY <2>1, <2>2
<1>8. /\ msg_block'[t] = <<n>>
      /\ rest = <<>> => /\ msg_block_map'[t] = msg_block_map[t] \ {e}
                        /\ msg_pos'[t] = increaseNumber(pos)
      /\ rest # <<>> => /\ msg_block_map'[t] = (msg_block_map[t] \ {e}) \cup {f}
                        /\ msg_pos'[t] = pos
  BY <1>1, <1>2, <1>7 DEF TerminalOutputTypeOK
<1>9. f.index = pos /\ f.blocks = rest
  BY <1>2, <1>4
<1>10. /\ Range(msg_block'[t]) = {n} /\ Len(msg_block'[t]) = 1
       /\ Range(msg_block[t]) = {}
  BY <1>3, <1>8 DEF Range
<1> HIDE DEF f, n, rest
<1>11. Range(<<>>) = {}
  BY DEF Range
<1>12. \A s \in SerializeThread :
         serializer[t][s].index = pos => Range(serializer[t][s].packets) = {}
  BY <1>1, <1>2, <1>11 DEF GateOwners
<1>13. \A m \in Number : GateHolds(t, pos, m) <=> m \in Range(e.blocks)
  BY <1>1, <1>2, <1>12 DEF GateHolds, GateOwners
<1>14. BlockBatch(t)[pos] = {n} \cup Range(rest)
  <2>1. \A m : m \in BlockBatch(t)[pos] <=> m \in Number /\ m \in Range(e.blocks)
    BY <1>4, <1>13, BlockBatchHas
  <2> QED BY <1>5, <2>1
<1>15. ASSUME NEW i \in Index, NEW m \in Number
       PROVE  GateHolds(t, i, m)' <=> IF i = pos THEN m \in Range(rest)
                                      ELSE GateHolds(t, i, m)
  <2>1. CASE i = pos
    <3>1. \A s \in SerializeThread :
            serializer'[t][s].index = i => m \notin Range(serializer'[t][s].packets)
      BY <1>3, <1>12, <2>1
    <3>2. \A g \in msg_block_map[t] \ {e} : g.index # pos
      BY <1>1, <1>2 DEF GateOwners
    <3>3. CASE rest = <<>>
      <4>1. ~GateHolds(t, i, m)'
        BY <1>8, <2>1, <3>1, <3>2, <3>3 DEF GateHolds
      <4> QED BY <2>1, <3>3, <4>1, <1>11
    <3>4. CASE rest # <<>>
      <4>1. (\E g \in msg_block_map'[t] : g.index = i /\ m \in Range(g.blocks))
              <=> m \in Range(rest)
        BY <1>8, <1>9, <2>1, <3>2, <3>4
      <4> QED BY <2>1, <3>1, <4>1 DEF GateHolds
    <3> QED BY <3>3, <3>4
  <2>2. CASE i # pos
    BY <2>2, <1>2, <1>3, <1>8, <1>9 DEF GateHolds
  <2> QED BY <2>1, <2>2
<1>16. BlockBatch(t)' = [BlockBatch(t) EXCEPT ![pos] = Range(rest)]
  <2>1. \A i \in Index : {m \in Number : GateHolds(t, i, m)'} =
                           IF i = pos THEN Range(rest)
                           ELSE {m \in Number : GateHolds(t, i, m)}
    BY <1>5, <1>15
  <2> QED BY <1>4, <2>1 DEF BlockBatch
<1>17. \A i \in Index : BlockBatch(t)'[i] = IF i = pos THEN Range(rest)
                                            ELSE BlockBatch(t)[i]
  BY <1>4, <1>16
<1>18. Line(GateHeld(t)', BlockBatch(t)', msg_pos'[t], msg_index'[t])
  <2>1. /\ Line(GateHeld(t), BlockBatch(t), pos, msg_index[t])
        /\ pos \in GateHeld(t)
    BY <1>1, <1>4, <1>14, GateHeldIs DEF GateLine
  <2>2. CASE rest = <<>>
    <3>1. Line(GateHeld(t) \ {pos}, [BlockBatch(t) EXCEPT ![pos] = {}],
               increaseNumber(pos), msg_index[t])
      BY <1>4, <2>1, LineTake
    <3>2. GateHeld(t)' = GateHeld(t) \ {pos}
      BY <1>4, <1>11, <1>17, <2>2, GateHeldIs DEF GateHeld
    <3> QED BY <1>3, <1>8, <1>11, <1>16, <2>2, <3>1, <3>2
  <2>3. CASE rest # <<>>
    <3>1. Range(rest) # {}
      BY <1>5, <2>3, TailOf
    <3>2. Line(GateHeld(t), BlockBatch(t)', pos, msg_index[t])
      BY <1>14, <1>17, <2>1, LineShrink
    <3>3. GateHeld(t)' = GateHeld(t)
      BY <1>4, <1>17, <2>1, <3>1, GateHeldIs DEF GateHeld
    <3> QED BY <1>3, <1>8, <2>3, <3>2, <3>3
  <2> QED BY <2>2, <2>3
<1>19. GateLine(t)'
  <2>1. \A i \in Index : Below({n}, BlockBatch(t)'[i])
    <3> SUFFICES ASSUME NEW i \in Index
                 PROVE  Below({n}, BlockBatch(t)'[i])
      OBVIOUS
    <3>1. CASE i = pos
      BY <3>1, <1>6, <1>17 DEF n, rest
    <3>2. CASE i # pos
      <4>1. Ahead(pos, pos) < Ahead(i, pos)
        BY <1>4, <3>2, IndexLimitAssumption DEF Ahead, Index
      <4>2. Below(BlockBatch(t)[pos], BlockBatch(t)[i])
        BY <1>1, <1>4, <4>1 DEF GateLine, Line
      <4> QED BY <1>14, <1>17, <3>2, <4>2 DEF Below
    <3> QED BY <3>1, <3>2
  <2>2. \A i \in Index : Below(Range(written[t]), BlockBatch(t)'[i])
    BY <1>1, <1>14, <1>17 DEF GateLine, Below
  <2>3. \A i \in Index : Below(BlockBatch(t)'[i], Range(gate_vec[t]))
    BY <1>1, <1>14, <1>17 DEF GateLine, Below
  <2>4. Below(Range(written[t]), {n}) /\ Below({n}, Range(gate_vec[t]))
    BY <1>1, <1>4, <1>14 DEF GateLine, Below
  <2>5. Below(Range(written[t]), Range(gate_vec[t]))
    BY <1>1 DEF GateLine
  <2> QED BY <1>3, <1>10, <1>18, <2>1, <2>2, <2>3, <2>4, <2>5 DEF GateLine
<1>20. AtGate(t)' = AtGate(t)
  <2>1. \A m \in Number : (\E i \in Index : m \in BlockBatch(t)[i]) <=>
             m = n \/ \E i \in Index : m \in BlockBatch(t)'[i]
    BY <1>4, <1>14, <1>17
  <2> QED BY <1>3, <1>5, <1>10, <2>1 DEF AtGate
<1>21. GateOwners(t)'
  <2>1. \A g \in msg_block_map[t] : g.index = pos => g = e
    BY <1>1, <1>2 DEF GateOwners
  <2>2. CASE rest = <<>>
    BY <1>1, <1>3, <1>8, <1>10, <2>2 DEF GateOwners
  <2>3. CASE rest # <<>>
    BY <1>1, <1>2, <1>3, <1>8, <1>9, <1>10, <2>1, <2>3 DEF GateOwners
  <2> QED BY <2>2, <2>3
<1>22. GateSequences(t)'
  BY <1>1, <1>3, <1>6, <1>8, <1>9 DEF GateSequences, rest
<1> QED BY <1>19, <1>20, <1>21, <1>22 DEF StageTwo

LEMMA OnlyElement ==
  ASSUME NEW S, NEW s \in Seq(S), s # <<>>, Len(s) <= 1
  PROVE  \E x \in S : s = <<x>>
<1>1. Len(s) \in Nat \ {0}
  BY EmptySeq
<1>2. Len(s) = 1
  BY <1>1
<1>3. s[1] \in S /\ s = <<s[1]>>
  BY <1>2
<1> QED BY <1>3

(* The current block is the one that the gate gets. *)
LEMMA CurrentBlock ==
  ASSUME TerminalOutputTypeOK, NEW t \in Gate, GateOwners(t), WriteBlock(t)
  PROVE  \E n \in Number :
           /\ msg_block[t] = <<n>> /\ Range(msg_block[t]) = {n}
           /\ written'[t] = Append(written[t], n)
           /\ Range(written'[t]) = Range(written[t]) \cup {n}
<1>1. /\ msg_block[t] \in Seq(Number) /\ written[t] \in Seq(Number)
      /\ written'[t] = written[t] \o msg_block[t]
      /\ msg_block[t] # <<>> /\ Len(msg_block[t]) <= 1
  BY DEF TerminalOutputTypeOK, WriteBlock, GateOwners
<1>2. PICK n \in Number : msg_block[t] = <<n>>
  BY <1>1, OnlyElement
<1>3. Range(msg_block[t]) = {n}
  BY <1>2 DEF Range
<1>4. written'[t] = Append(written[t], n)
  BY <1>1, <1>2
<1>5. Range(written'[t]) = Range(written[t]) \cup {n}
  BY <1>1, <1>4, AppendOf
<1> QED BY <1>2, <1>3, <1>4, <1>5

LEMMA WriteBlockStageTwo ==
  ASSUME OrderInv, NEW t \in Gate, WriteBlock(t)
  PROVE  StageTwo(t)' /\ AtGate(t)' = AtGate(t)
<1>1. TerminalOutputTypeOK /\ GateOwners(t) /\ GateSequences(t) /\ GateLine(t)
  BY DEF OrderInv
<1>2. /\ serializer' = serializer /\ msg_index' = msg_index /\ gate_vec' = gate_vec
      /\ msg_block_map' = msg_block_map /\ msg_pos' = msg_pos
      /\ msg_block'[t] = <<>>
  BY <1>1 DEF WriteBlock, serializeVars, TerminalOutputTypeOK
<1>3. PICK n \in Number : /\ Range(msg_block[t]) = {n}
                           /\ written'[t] = Append(written[t], n)
                           /\ Range(written'[t]) = Range(written[t]) \cup {n}
  BY <1>1, CurrentBlock
<1>4. Range(msg_block'[t]) = {} /\ Len(msg_block'[t]) <= 1
  BY <1>2 DEF Range
<1>5. BlockBatch(t)' = BlockBatch(t)
  <2>1. \A i \in Index, m \in Number : GateHolds(t, i, m)' <=> GateHolds(t, i, m)
    BY <1>2 DEF GateHolds
  <2>2. \A i \in Index : {m \in Number : GateHolds(t, i, m)'}
                           = {m \in Number : GateHolds(t, i, m)}
    BY <2>1
  <2> QED BY <2>2 DEF BlockBatch
<1>6. AtGate(t)' = AtGate(t)
  BY <1>2, <1>3, <1>4, <1>5 DEF AtGate
<1>7. GateOwners(t)'
  BY <1>1, <1>2, <1>4 DEF GateOwners
<1>8. GateLine(t)'
  BY <1>1, <1>2, <1>3, <1>4, <1>5 DEF GateHeld, GateLine, Below
<1>9. GateSequences(t)'
  <2>1. written[t] \in Seq(Nat) /\ n \in Nat
    BY <1>1, <1>3, GateTypes, NumbersAreNat, SeqMonotonic
  <2>2. Increasing(written'[t])
    BY <1>1, <1>3, <2>1, IncreasingAppend DEF GateSequences, GateLine
  <2> QED BY <1>1, <1>2, <2>2 DEF GateSequences
<1> QED BY <1>6, <1>7, <1>8, <1>9 DEF StageTwo

(* A packet that is dispatched waits behind all that its gate has. *)
LEMMA outputPacketStageTwo ==
  ASSUME OrderInv, dispatching # <<>>, outputPacket,
         NEW n, n = Head(dispatching).packet,
         NEW t, t = Head(dispatching).terminal
  PROVE  /\ t \in Gate
         /\ StageTwo(t)' /\ AtGate(t)' = AtGate(t) \cup {n}
         /\ \A u \in Gate \ {t} : StageTwo(u)' /\ AtGate(u)' = AtGate(u)
<1>1. TerminalOutputTypeOK
  BY DEF OrderInv
<1>2. n \in Number /\ t \in Gate
  <2>1. Head(dispatching) \in RouteInfo
    BY <1>1, RouteTypes, TailOf
  <2> QED BY <2>1 DEF RouteInfo
<1>3. /\ serializer' = serializer /\ msg_index' = msg_index
      /\ msg_block_map' = msg_block_map /\ msg_pos' = msg_pos
      /\ msg_block' = msg_block /\ written' = written
      /\ gate_vec' = [gate_vec EXCEPT ![t] = Append(@, n)]
  BY DEF outputPacket, writeVars
<1>4. n \in InRouteStage
  BY outputPacketStageOne
<1>5. /\ gate_vec'[t] = Append(gate_vec[t], n)
      /\ \A u \in Gate \ {t} : gate_vec'[u] = gate_vec[u]
  BY <1>1, <1>2, <1>3 DEF TerminalOutputTypeOK
<1>6. \A u \in Gate \ {t} : StageTwo(u)' /\ AtGate(u)' = AtGate(u)
  BY <1>3, <1>5, StageTwoUnchanged
<1>7. GateOwners(t) /\ GateSequences(t) /\ GateLine(t)
  BY <1>2 DEF OrderInv
<1>8. Below(AtGate(t), {n})
  BY <1>2, <1>4 DEF OrderInv, StagesInOrder, Below
<1>9. Range(gate_vec'[t]) = Range(gate_vec[t]) \cup {n}
  BY <1>1, <1>2, <1>5, GateTypes, AppendOf
<1>10. BlockBatch(t)' = BlockBatch(t)
  <2>1. \A i \in Index, m \in Number : GateHolds(t, i, m)' <=> GateHolds(t, i, m)
    BY <1>3 DEF GateHolds
  <2>2. \A i \in Index : {m \in Number : GateHolds(t, i, m)'}
                           = {m \in Number : GateHolds(t, i, m)}
    BY <2>1
  <2> QED BY <2>2 DEF BlockBatch
<1>11. AtGate(t)' = AtGate(t) \cup {n}
  BY <1>3, <1>9, <1>10 DEF AtGate
<1>12. GateOwners(t)'
  BY <1>3, <1>7 DEF GateOwners
<1>13. GateLine(t)'
  <2>1. \A i \in Index : Below(BlockBatch(t)[i], {n})
    <3> SUFFICES ASSUME NEW i \in Index, NEW m \in BlockBatch(t)[i]
                 PROVE  m < n
      BY DEF Below
    <3>1. m \in AtGate(t)
      BY <1>1, <1>2, GateTypes DEF AtGate
    <3> QED BY <1>8, <3>1 DEF Below
  <2>2. Below(Range(written[t]), {n}) /\ Below(Range(msg_block[t]), {n})
    BY <1>8 DEF AtGate, Below
  <2> QED BY <1>3, <1>7, <1>9, <1>10, <2>1, <2>2 DEF GateHeld, GateLine, Below
<1>14. GateSequences(t)'
  <2>1. gate_vec[t] \in Seq(Nat) /\ n \in Nat
    BY <1>1, <1>2, GateTypes, NumbersAreNat, SeqMonotonic
  <2>2. Below(Range(gate_vec[t]), {n})
    BY <1>8 DEF AtGate, Below
  <2>3. Increasing(gate_vec'[t])
    BY <1>5, <1>7, <2>1, <2>2, IncreasingAppend DEF GateSequences
  <2> QED BY <1>3, <1>7, <2>3 DEF GateSequences
<1>15. t \in Gate /\ StageTwo(t)' /\ AtGate(t)' = AtGate(t) \cup {n}
  BY <1>2, <1>11, <1>12, <1>13, <1>14 DEF StageTwo
<1> QED BY <1>6, <1>15

-----------------------------------------------------------------------------
(* Both stages, step by step *)

(* Steps within the stages. *)
LEMMA StagesKept ==
  ASSUME OrderInv, sent' = sent, InRouteStage' \subseteq InRouteStage,
         \A t \in Gate : AtGate(t)' = AtGate(t)
  PROVE  StagesInOrder' /\ OnlySent'
<1>1. StagesInOrder /\ OnlySent
  BY DEF OrderInv
<1> QED BY <1>1 DEF StagesInOrder, OnlySent, Below

LEMMA OutputPacketStages ==
  ASSUME OrderInv, NEW p \in Player, NEW opcode \in Opcode, OutputPacket(p, opcode)
  PROVE  /\ StageOne' /\ \A t \in Gate : StageTwo(t)'
         /\ StagesInOrder' /\ OnlySent'
<1>1. TerminalOutputTypeOK /\ StagesInOrder /\ OnlySent
  BY DEF OrderInv
<1>2. /\ StageOne' /\ InRouteStage' = InRouteStage \cup {Len(sent) + 1}
  BY OutputPacketStageOne
<1>3. \A t \in Gate : StageTwo(t)' /\ AtGate(t)' = AtGate(t)
  BY StageTwoUnchanged DEF OutputPacket, serializeVars, writeVars
<1>4. Len(sent') = Len(sent) + 1 /\ Len(sent) \in Nat
  BY <1>1 DEF OutputPacket, TerminalOutputTypeOK
<1>5. /\ \A n \in InRouteStage : n \in Nat /\ n <= Len(sent)
      /\ \A t \in Gate : \A n \in AtGate(t) : n \in Nat /\ n <= Len(sent)
  BY SentTypes, NumbersAreNat, <1>1 DEF OnlySent
<1>6. OnlySent'
  BY <1>2, <1>3, <1>4, <1>5 DEF OnlySent
<1>7. StagesInOrder'
  BY <1>1, <1>2, <1>3, <1>4, <1>5 DEF StagesInOrder, Below
<1> QED BY <1>2, <1>3, <1>6, <1>7

LEMMA outputPacketStages ==
  ASSUME OrderInv, dispatching # <<>>, outputPacket
  PROVE  /\ StageOne' /\ \A t \in Gate : StageTwo(t)'
         /\ StagesInOrder' /\ OnlySent'
<1>1. TerminalOutputTypeOK /\ StagesInOrder /\ OnlySent
  BY DEF OrderInv
<1>2. PICK n, t : n = Head(dispatching).packet /\ t = Head(dispatching).terminal
  OBVIOUS
<1>3. /\ StageOne' /\ n \in InRouteStage
      /\ InRouteStage' \subseteq InRouteStage /\ Below({n}, InRouteStage')
  BY <1>2, outputPacketStageOne
<1>4. /\ t \in Gate /\ StageTwo(t)' /\ AtGate(t)' = AtGate(t) \cup {n}
      /\ \A u \in Gate \ {t} : StageTwo(u)' /\ AtGate(u)' = AtGate(u)
  BY <1>2, outputPacketStageTwo
<1>5. sent' = sent
  BY DEF outputPacket, sceneVars
<1>6. OnlySent'
  BY <1>1, <1>3, <1>4, <1>5 DEF OnlySent
<1>7. \A u \in Gate : n \notin AtGate(u)
  <2>1. n \in Nat
    BY <1>3, SentTypes, NumbersAreNat
  <2> QED BY <1>1, <1>3, <2>1 DEF StagesInOrder, Below
<1>8. StagesInOrder'
  <2>1. \A u \in Gate : Below(AtGate(u)', InRouteStage')
    BY <1>1, <1>3, <1>4 DEF StagesInOrder, Below
  <2>2. \A u, v \in Gate : u # v => (AtGate(u) \cap AtGate(v))' = {}
    BY <1>1, <1>4, <1>7 DEF StagesInOrder
  <2> QED BY <2>1, <2>2 DEF StagesInOrder
<1> QED BY <1>3, <1>4, <1>6, <1>8

(* The packet that is dispatched next is not written, and is before all    *)
(* whose route is not yet looked up.                                       *)
LEMMA DispatchedNext ==
  ASSUME OrderInv, dispatching # <<>>,
         NEW n, n = Head(dispatching).packet
  PROVE  /\ n \in InRouteStage /\ n \in 1 .. Len(sent) /\ NotWritten(n)
         /\ \A m \in Unrouted : n < m
<1>1. TerminalOutputTypeOK /\ RouteHolders /\ RouteLine /\ StagesInOrder
  BY DEF OrderInv
<1>2. n \in PacketsOf(dispatching)
  BY <1>1, RouteTypes, TailOf
<1>3. n \in InRouteStage /\ n \in 1 .. Len(sent) /\ n \in Nat
  BY <1>2, SentTypes DEF InRouteStage
<1>4. NotWritten(n)
  <2> SUFFICES ASSUME NEW t \in Gate, n \in Range(written[t])
               PROVE  FALSE
    BY DEF NotWritten
  <2>1. n \in AtGate(t)
    BY DEF AtGate
  <2>2. n < n
    BY <1>1, <1>3, <2>1 DEF StagesInOrder, Below
  <2> QED BY <1>3, <2>2
<1>5. ASSUME NEW m \in Unrouted
      PROVE  n < m
  <2>1. CASE m \in Range(packet_vec)
    BY <1>1, <1>2, <2>1 DEF RouteLine, Below
  <2>2. ASSUME NEW r \in RouteThread, m \in Range(router[r].packets)
        PROVE  n < m
    <3>1. router[r].busy /\ router[r].index \in Index
      BY <1>1, <2>2, RouteTypes DEF RouteHolders, Range
    <3>2. m \in RouteBatch[router[r].index]
      BY <1>1, <2>2, <3>1, HolderHasPackets DEF InRouter
    <3> QED BY <1>1, <1>2, <3>1, <3>2 DEF RouteLine, Below
  <2> QED BY <2>1, <2>2 DEF Unrouted
<1> QED BY <1>3, <1>4, <1>5

(* A packet that is sent stays what it is. *)
LEMMA SentKept ==
  ASSUME OrderInv, [Next]_vars
  PROVE  /\ \A n \in 1 .. Len(sent) : n \in 1 .. Len(sent') /\ sent'[n] = sent[n]
         /\ (\A p \in Player, opcode \in Opcode : ~OutputPacket(p, opcode))
              => sent' = sent
<1> USE DEF sceneVars, routeVars, dispatchVars, changeVars, serializeVars,
            writeVars
<1>1. sent \in Seq([guid : Player, opcode : Opcode, gate : Gate \cup {NoGate}])
  BY DEF OrderInv, TerminalOutputTypeOK
<1>2. ASSUME NEW p \in Player, NEW opcode \in Opcode, OutputPacket(p, opcode)
      PROVE  \A n \in 1 .. Len(sent) : n \in 1 .. Len(sent') /\ sent'[n] = sent[n]
  BY <1>1, <1>2 DEF OutputPacket
<1>3. \/ sent' = sent
      \/ \E p \in Player, opcode \in Opcode : OutputPacket(p, opcode)
  BY DEF Next, vars, WriteStep, RouteStep, DispatchStep, SerializeStep,
         EnterMap, EnterMapFinished, GateLost, TakeBlock, WriteBlock, ChangeRoute,
         TakePackets, RoutePacket, FinishRouting, TakeInfo, DispatchOther,
         outputPacket, RemoveRoute, DispatchLeave, TakeGatePackets,
         SerializePackets
<1> QED BY <1>2, <1>3
(* The thread that dispatches stays at the packet while it removes routes. *)
LEMMA LeavingChangeInductive ==
  ASSUME OrderInv, [Next]_vars
  PROVE  LeavingChange'
<1> USE DEF sceneVars, routeVars, dispatchVars, changeVars, serializeVars,
            writeVars
<1>0. TerminalOutputTypeOK /\ LeavingChange
  BY DEF OrderInv
<1> SUFFICES ASSUME route_change' # NoChange, route_change'.by = "dispatch"
             PROVE  HeadIs("LEAVE_MAP")'
                    /\ sent'[Head(dispatching').packet].guid = route_change'.guid
  BY DEF LeavingChange
<1>1. ASSUME dispatching' = dispatching, route_change # NoChange,
             route_change.by = "dispatch", route_change.guid = route_change'.guid
      PROVE  HeadIs("LEAVE_MAP")'
             /\ sent'[Head(dispatching').packet].guid = route_change'.guid
  <2>1. PICK n : n = Head(dispatching).packet
    OBVIOUS
  <2>2. dispatching # <<>> /\ sent[n].opcode = "LEAVE_MAP"
        /\ sent[n].guid = route_change.guid
    BY <1>0, <1>1, <2>1 DEF LeavingChange, HeadIs
  <2>3. sent'[n] = sent[n]
    BY <2>1, <2>2, DispatchedNext, SentKept
  <2> QED BY <1>1, <2>1, <2>2, <2>3 DEF HeadIs
<1>2. CASE RemoveRoute
  BY <1>2 DEF RemoveRoute, HeadIs
<1>3. ASSUME NEW r \in RouteThread, ChangeRoute(r)
      PROVE  HeadIs("LEAVE_MAP")'
             /\ sent'[Head(dispatching').packet].guid = route_change'.guid
  <2>1. route_change \in Change /\ dispatching' = dispatching
        /\ route_change # NoChange
    BY <1>0, <1>3 DEF ChangeRoute, TerminalOutputTypeOK
  <2>2. route_change'.by = route_change.by /\ route_change'.guid = route_change.guid
    BY <1>3, <2>1 DEF ChangeRoute, Change
  <2> QED BY <1>1, <2>1, <2>2
<1>4. ASSUME TakeInfo
      PROVE  FALSE
  BY <1>0, <1>4 DEF TakeInfo, LeavingChange, HeadIs
<1>5. ASSUME DispatchOther
      PROVE  FALSE
  BY <1>0, <1>5 DEF DispatchOther, LeavingChange, HeadIs
<1>6. ASSUME \/ DispatchLeave \/ EnterMapFinished
             \/ \E p \in Player, t \in Gate : EnterMap(p, t)
      PROVE  FALSE
  BY <1>6 DEF DispatchLeave, EnterMapFinished, EnterMap, NoChange
<1>7. ASSUME dispatching' = dispatching, route_change' = route_change
      PROVE  HeadIs("LEAVE_MAP")'
             /\ sent'[Head(dispatching').packet].guid = route_change'.guid
  BY <1>1, <1>7
<1>8. \/ RemoveRoute \/ TakeInfo \/ DispatchOther \/ DispatchLeave \/ EnterMapFinished
      \/ \E r \in RouteThread : ChangeRoute(r)
      \/ \E p \in Player, t \in Gate : EnterMap(p, t)
      \/ dispatching' = dispatching /\ route_change' = route_change
  BY DEF Next, vars, WriteStep, RouteStep, DispatchStep, SerializeStep,
         OutputPacket, GateLost, TakeBlock, WriteBlock, TakePackets, RoutePacket,
         FinishRouting, TakeGatePackets, SerializePackets
<1> QED BY <1>2, <1>3, <1>4, <1>5, <1>6, <1>7, <1>8

LEMMA OrderInductive ==
  ASSUME OrderInv, [Next]_vars
  PROVE  OrderInv'
<1> USE DEF sceneVars, routeVars, dispatchVars, changeVars, serializeVars,
            writeVars
<1>0. TerminalOutputTypeOK
  BY DEF OrderInv
<1> DEFINE Stages == /\ StageOne /\ \A t \in Gate : StageTwo(t)
                     /\ StagesInOrder /\ OnlySent
<1>1. ASSUME NEW p \in Player, NEW opcode \in Opcode, OutputPacket(p, opcode)
      PROVE  Stages'
  BY <1>1, OutputPacketStages
<1>2. ASSUME dispatching # <<>>, outputPacket
      PROVE  Stages'
  BY <1>2, outputPacketStages
<1>3. ASSUME UNCHANGED <<sent, serializeVars, writeVars>>,
             StageOne', InRouteStage' \subseteq InRouteStage
      PROVE  Stages'
  <2>1. \A t \in Gate : StageTwo(t)' /\ AtGate(t)' = AtGate(t)
    BY <1>3, StageTwoUnchanged
  <2> QED BY <1>3, <2>1, StagesKept
<1>4. ASSUME NEW r \in RouteThread, RouteStep(r)
      PROVE  Stages'
  <2>1. UNCHANGED <<sent, serializeVars, writeVars>>
    BY <1>4 DEF RouteStep, TakePackets, RoutePacket, FinishRouting
  <2>2. StageOne' /\ InRouteStage' \subseteq InRouteStage
    BY <1>4, TakePacketsStageOne, RoutePacketStageOne, FinishRoutingStageOne
    DEF RouteStep
  <2> QED BY <1>3, <2>1, <2>2
<1>5. ASSUME TakeInfo
      PROVE  Stages'
  <2>1. UNCHANGED <<sent, serializeVars, writeVars>>
    BY <1>5 DEF TakeInfo
  <2>2. StageOne' /\ InRouteStage' = InRouteStage
    BY <1>5, TakeInfoStageOne
  <2> QED BY <1>3, <2>1, <2>2
<1>6. ASSUME UNCHANGED <<sent, routeVars, dispatchVars, serializeVars, writeVars>>
      PROVE  Stages'
  BY <1>3, <1>6, StageOneUnchanged
<1>7. ASSUME DispatchOther \/ DispatchLeave
      PROVE  Stages'
  <2>1. LeavingChange
    BY DEF OrderInv
  <2>2. dispatching # <<>> /\ outputPacket
    BY <1>7, <2>1 DEF DispatchOther, DispatchLeave, HeadIs, LeavingChange
  <2> QED BY <1>2, <2>2
<1>8. ASSUME NEW t \in Gate, StageTwo(t)', AtGate(t)' = AtGate(t),
             UNCHANGED <<sent, routeVars, dispatchVars>>,
             \A u \in Gate \ {t} :
               /\ serializer'[u] = serializer[u] /\ msg_block_map'[u] = msg_block_map[u]
               /\ msg_block'[u] = msg_block[u] /\ gate_vec'[u] = gate_vec[u]
               /\ msg_index'[u] = msg_index[u] /\ msg_pos'[u] = msg_pos[u]
               /\ written'[u] = written[u]
      PROVE  Stages'
  <2>1. \A u \in Gate \ {t} : StageTwo(u)' /\ AtGate(u)' = AtGate(u)
    BY <1>8, StageTwoUnchanged
  <2>2. StageOne' /\ InRouteStage' = InRouteStage
    BY <1>8, StageOneUnchanged
  <2> QED BY <1>8, <2>1, <2>2, StagesKept
<1>9. ASSUME NEW t \in Gate, NEW s \in SerializeThread, TakeGatePackets(t, s)
      PROVE  Stages'
  <2>1. StageTwo(t)' /\ AtGate(t)' = AtGate(t)
    BY <1>9, TakeGatePacketsStageTwo
  <2>2. \A u \in Gate \ {t} :
          /\ serializer'[u] = serializer[u] /\ msg_block_map'[u] = msg_block_map[u]
          /\ msg_block'[u] = msg_block[u] /\ gate_vec'[u] = gate_vec[u]
          /\ msg_index'[u] = msg_index[u] /\ msg_pos'[u] = msg_pos[u]
          /\ written'[u] = written[u]
    BY <1>0, <1>9 DEF TakeGatePackets, TerminalOutputTypeOK
  <2>3. UNCHANGED <<sent, routeVars, dispatchVars>>
    BY <1>9 DEF TakeGatePackets
  <2> QED BY <1>8, <2>1, <2>2, <2>3
<1>10. ASSUME NEW t \in Gate, NEW s \in SerializeThread, SerializePackets(t, s)
       PROVE  Stages'
  <2>1. StageTwo(t)' /\ AtGate(t)' = AtGate(t)
    BY <1>10, SerializePacketsStageTwo
  <2>2. \A u \in Gate \ {t} :
          /\ serializer'[u] = serializer[u] /\ msg_block_map'[u] = msg_block_map[u]
          /\ msg_block'[u] = msg_block[u] /\ gate_vec'[u] = gate_vec[u]
          /\ msg_index'[u] = msg_index[u] /\ msg_pos'[u] = msg_pos[u]
          /\ written'[u] = written[u]
    BY <1>0, <1>10 DEF SerializePackets, TerminalOutputTypeOK
  <2>3. UNCHANGED <<sent, routeVars, dispatchVars>>
    BY <1>10 DEF SerializePackets
  <2> QED BY <1>8, <2>1, <2>2, <2>3
<1>11. ASSUME NEW t \in Gate, TakeBlock(t)
       PROVE  Stages'
  <2>1. StageTwo(t)' /\ AtGate(t)' = AtGate(t)
    BY <1>11, TakeBlockStageTwo
  <2>2. \A u \in Gate \ {t} :
          /\ serializer'[u] = serializer[u] /\ msg_block_map'[u] = msg_block_map[u]
          /\ msg_block'[u] = msg_block[u] /\ gate_vec'[u] = gate_vec[u]
          /\ msg_index'[u] = msg_index[u] /\ msg_pos'[u] = msg_pos[u]
          /\ written'[u] = written[u]
    BY <1>0, <1>11 DEF TakeBlock, TerminalOutputTypeOK
  <2>3. UNCHANGED <<sent, routeVars, dispatchVars>>
    BY <1>11 DEF TakeBlock
  <2> QED BY <1>8, <2>1, <2>2, <2>3
<1>12. ASSUME NEW t \in Gate, WriteBlock(t)
       PROVE  Stages'
  <2>1. StageTwo(t)' /\ AtGate(t)' = AtGate(t)
    BY <1>12, WriteBlockStageTwo
  <2>2. \A u \in Gate \ {t} :
          /\ serializer'[u] = serializer[u] /\ msg_block_map'[u] = msg_block_map[u]
          /\ msg_block'[u] = msg_block[u] /\ gate_vec'[u] = gate_vec[u]
          /\ msg_index'[u] = msg_index[u] /\ msg_pos'[u] = msg_pos[u]
          /\ written'[u] = written[u]
    BY <1>0, <1>12 DEF WriteBlock, TerminalOutputTypeOK
  <2>3. UNCHANGED <<sent, routeVars, dispatchVars>>
    BY <1>12 DEF WriteBlock
  <2> QED BY <1>8, <2>1, <2>2, <2>3
<1>13. ASSUME \/ \E p \in Player, t \in Gate : EnterMap(p, t)
              \/ EnterMapFinished
              \/ \E t \in Gate : GateLost(t)
              \/ \E r \in RouteThread : ChangeRoute(r)
              \/ RemoveRoute
              \/ UNCHANGED vars
       PROVE  Stages'
  <2>1. UNCHANGED <<sent, routeVars, dispatchVars, serializeVars, writeVars>>
    BY <1>13 DEF EnterMap, EnterMapFinished, GateLost, ChangeRoute, RemoveRoute, vars
  <2> QED BY <1>6, <2>1
<1>14. Stages'
  <2> HIDE DEF Stages
  <2>1. CASE Next
    BY <2>1, <1>1, <1>4, <1>5, <1>7, <1>9, <1>10, <1>11, <1>12, <1>13
    DEF Next, WriteStep, DispatchStep, SerializeStep
  <2>2. CASE UNCHANGED vars
    BY <2>2, <1>13
  <2> QED BY <2>1, <2>2
<1> QED
  BY <1>14, TypesInductive, LeavingChangeInductive DEF OrderInv, StageOne, StageTwo

-----------------------------------------------------------------------------
(* Routes *)

(* The packet that is written was not, and is before all of the first      *)
(* stage.                                                                  *)
LEMMA WrittenNext ==
  ASSUME OrderInv, NEW t \in Gate, WriteBlock(t)
  PROVE  \E n \in 1 .. Len(sent) :
           /\ msg_block[t] = <<n>> /\ NotWritten(n)
           /\ Range(written'[t]) = Range(written[t]) \cup {n}
           /\ \A u \in Gate \ {t} : written'[u] = written[u]
           /\ \A m \in InRouteStage : n < m
<1>1. TerminalOutputTypeOK /\ GateOwners(t) /\ GateLine(t) /\ StagesInOrder
  BY DEF OrderInv
<1>2. PICK n \in Number : /\ msg_block[t] = <<n>> /\ Range(msg_block[t]) = {n}
                          /\ Range(written'[t]) = Range(written[t]) \cup {n}
  BY <1>1, CurrentBlock
<1>3. n \in AtGate(t) /\ n \in 1 .. Len(sent)
  BY <1>2, SentTypes DEF AtGate
<1>4. NotWritten(n)
  <2> SUFFICES ASSUME NEW u \in Gate, n \in Range(written[u])
               PROVE  FALSE
    BY DEF NotWritten
  <2>1. u = t
    BY <1>1, <1>3 DEF StagesInOrder, AtGate
  <2>2. n < n
    BY <1>1, <1>2, <2>1 DEF GateLine, Below
  <2> QED BY <2>2 DEF Number
<1>5. \A m \in InRouteStage : n < m
  BY <1>1, <1>3 DEF StagesInOrder, Below
<1>6. \A u \in Gate \ {t} : written'[u] = written[u]
  BY <1>1 DEF WriteBlock, TerminalOutputTypeOK
<1> QED BY <1>2, <1>3, <1>4, <1>5, <1>6

(* The route of a packet is that of its player, so that none is dropped. *)
LEMMA RouteFound ==
  ASSUME OrderInv, RouteInv, NEW r \in RouteThread, RoutePacket(r),
         NEW n, n = Head(router[r].packets)
  PROVE  /\ n \in Unrouted
         /\ terminal_route[r][sent[n].guid] = sent[n].gate
         /\ sent[n].gate \in Gate
         /\ dropped' = dropped
<1>1. TerminalOutputTypeOK /\ UnroutedFindRoute
  BY DEF OrderInv, RouteInv
<1>2. n \in Range(router[r].packets) /\ n \in Number
  BY <1>1, RouteTypes, TailOf DEF RoutePacket
<1>3. n \in Unrouted
  BY <1>2 DEF Unrouted
<1>4. /\ Routed(sent[n].guid)
      /\ sent[n].gate = gate[sent[n].guid]
  BY <1>1, <1>3 DEF UnroutedFindRoute
<1>5. terminal_route[r][sent[n].guid] = sent[n].gate /\ sent[n].gate \in Gate
  BY <1>4 DEF Routed
<1>6. terminal_route[r][sent[n].guid] # NoGate
  BY <1>5, NoGateAssumption
<1> QED BY <1>3, <1>5, <1>6 DEF RoutePacket

LEMMA NoneDropped ==
  ASSUME OrderInv, RouteInv, [Next]_vars
  PROVE  dropped' = dropped
<1> USE DEF sceneVars, routeVars, dispatchVars, changeVars, serializeVars,
            writeVars
<1>1. ASSUME NEW r \in RouteThread, RoutePacket(r)
      PROVE  dropped' = dropped
  BY <1>1, RouteFound
<1> QED BY <1>1
    DEF Next, vars, WriteStep, RouteStep, DispatchStep, SerializeStep,
        OutputPacket, EnterMap, EnterMapFinished, GateLost, TakeBlock, WriteBlock,
        ChangeRoute, TakePackets, FinishRouting, TakeInfo, DispatchOther,
        outputPacket, RemoveRoute, DispatchLeave, TakeGatePackets,
        SerializePackets

(* Packets whose route is to be looked up come from the scene only. *)
LEMMA UnroutedKept ==
  ASSUME OrderInv, RouteInv, [Next]_vars,
         \A p \in Player, opcode \in Opcode : ~OutputPacket(p, opcode)
  PROVE  Unrouted' \subseteq Unrouted
<1> USE DEF sceneVars, routeVars, dispatchVars, changeVars, serializeVars,
            writeVars
<1>1. TerminalOutputTypeOK
  BY DEF OrderInv
<1>2. ASSUME NEW r \in RouteThread,
             \A q \in RouteThread : q # r => router'[q] = router[q],
             Range(router'[r].packets) \subseteq Unrouted,
             Range(packet_vec') \subseteq Range(packet_vec)
      PROVE  Unrouted' \subseteq Unrouted
  BY <1>2 DEF Unrouted
<1>3. ASSUME NEW r \in RouteThread, TakePackets(r)
      PROVE  Unrouted' \subseteq Unrouted
  <2>1. /\ \A q \in RouteThread : q # r => router'[q] = router[q]
        /\ router'[r].packets = packet_vec /\ packet_vec' = <<>>
    BY <1>1, <1>3 DEF TakePackets, TerminalOutputTypeOK
  <2>2. Range(packet_vec') \subseteq Range(packet_vec)
    BY <2>1 DEF Range
  <2>3. Range(router'[r].packets) \subseteq Unrouted
    BY <2>1 DEF Unrouted
  <2> QED BY <1>2, <2>1, <2>2, <2>3
<1>4. ASSUME NEW r \in RouteThread, RoutePacket(r)
      PROVE  Unrouted' \subseteq Unrouted
  <2>1. /\ \A q \in RouteThread : q # r => router'[q] = router[q]
        /\ router'[r].packets = Tail(router[r].packets)
        /\ packet_vec' = packet_vec /\ router[r].packets # <<>>
    <3> DEFINE n == Head(router[r].packets)
               x == [packet |-> n, terminal |-> terminal_route[r][sent[n].guid]]
    <3>1. /\ router[r].packets # <<>> /\ packet_vec' = packet_vec
          /\ \/ router' = [router EXCEPT ![r].packets = Tail(@)]
             \/ router' = [router EXCEPT ![r].packets = Tail(@),
                                         ![r].info = Append(@, x)]
      BY <1>4 DEF RoutePacket
    <3> HIDE DEF x, n
    <3>2. CASE router' = [router EXCEPT ![r].packets = Tail(@)]
      BY <1>1, <3>1, <3>2 DEF TerminalOutputTypeOK
    <3>3. CASE router' = [router EXCEPT ![r].packets = Tail(@), ![r].info = Append(@, x)]
      BY <1>1, <3>1, <3>3 DEF TerminalOutputTypeOK
    <3> QED BY <3>1, <3>2, <3>3
  <2>2. Range(router'[r].packets) \subseteq Range(router[r].packets)
    <3>1. router[r].packets \in Seq(Number)
      BY <1>1, RouteTypes
    <3> QED BY <2>1, <3>1, TailOf
  <2>3. Range(router'[r].packets) \subseteq Unrouted
    <3>1. Range(router[r].packets) \subseteq Number
      BY <1>1, RouteTypes, RangeType
    <3> QED BY <2>2, <3>1 DEF Unrouted
  <2> QED BY <1>2, <2>1, <2>3
<1>5. ASSUME NEW r \in RouteThread, FinishRouting(r)
      PROVE  Unrouted' \subseteq Unrouted
  <2>1. /\ \A q \in RouteThread : q # r => router'[q] = router[q]
        /\ router'[r].packets = <<>> /\ packet_vec' = packet_vec
    BY <1>1, <1>5 DEF FinishRouting, TerminalOutputTypeOK
  <2>2. Range(router'[r].packets) = {}
    BY <2>1 DEF Range
  <2> QED BY <1>2, <2>1, <2>2
<1>6. ASSUME router' = router, packet_vec' = packet_vec
      PROVE  Unrouted' \subseteq Unrouted
  BY <1>6 DEF Unrouted
<1>7. \/ \E r \in RouteThread : RouteStep(r)
      \/ router' = router /\ packet_vec' = packet_vec
  BY DEF Next, vars, WriteStep, DispatchStep, SerializeStep,
         EnterMap, EnterMapFinished, GateLost, TakeBlock, WriteBlock,
         ChangeRoute, TakeInfo, DispatchOther, outputPacket, RemoveRoute,
         DispatchLeave, TakeGatePackets, SerializePackets
<1> QED BY <1>3, <1>4, <1>5, <1>6, <1>7 DEF RouteStep

(* Steps that leave players, and their routes, as they are. *)
Quiet == UNCHANGED <<sent, place, gate, changeVars>>

LEMMA StepKinds ==
  ASSUME [Next]_vars
  PROVE  \/ \E p \in Player, opcode \in Opcode : OutputPacket(p, opcode)
         \/ \E p \in Player, t \in Gate : EnterMap(p, t)
         \/ EnterMapFinished
         \/ \E r \in RouteThread : ChangeRoute(r)
         \/ RemoveRoute
         \/ DispatchLeave
         \/ \E t \in Gate : WriteBlock(t)
         \/ Quiet
BY DEF Next, vars, Quiet, sceneVars, routeVars, dispatchVars, changeVars,
       serializeVars, writeVars, WriteStep, RouteStep, DispatchStep,
       SerializeStep, GateLost, TakeBlock, TakePackets, RoutePacket,
       FinishRouting, TakeInfo, DispatchOther, outputPacket, TakeGatePackets,
       SerializePackets

(* The player that has left, as RemoveRoute finds out, puts out nothing.   *)
LEMMA RemovedHasLeft ==
  ASSUME OrderInv, RouteInv, RemoveRoute
  PROVE  /\ place[route_change'.guid] = "leaving"
         /\ \A m \in Unrouted : sent[m].guid # route_change'.guid
<1>1. PICK n : n = Head(dispatching).packet
  OBVIOUS
<1>2. /\ dispatching # <<>> /\ sent[n].opcode = "LEAVE_MAP"
      /\ route_change'.guid = sent[n].guid
  BY <1>1 DEF RemoveRoute, HeadIs
<1>3. /\ n \in 1 .. Len(sent) /\ NotWritten(n)
      /\ \A m \in Unrouted : n < m
  BY <1>1, <1>2, DispatchedNext
<1>4. /\ place[sent[n].guid] = "leaving"
      /\ \A m \in 1 .. Len(sent) : sent[m].guid = sent[n].guid => m <= n
  BY <1>2, <1>3 DEF RouteInv, LeaveIsLast
<1>5. \A m \in Unrouted : sent[m].guid # sent[n].guid
  <2>1. \A m \in Unrouted : m \in 1 .. Len(sent) /\ m \in Nat
    BY SentTypes, NumbersAreNat
  <2> QED BY <1>3, <1>4, <2>1
<1> QED BY <1>2, <1>4, <1>5

LEMMA PlayersRoutedInductive ==
  ASSUME OrderInv, RouteInv, [Next]_vars
  PROVE  PlayersRouted'
<1> USE DEF changeVars
<1>0. TerminalOutputTypeOK /\ PlayersRouted /\ EnteringChange
  BY DEF OrderInv, RouteInv
<1> SUFFICES ASSUME NEW p \in Player, place'[p] = "in"
             PROVE  Routed(p)'
  BY DEF PlayersRouted
<1>1. ASSUME NEW q \in Player, NEW opcode \in Opcode, OutputPacket(q, opcode)
      PROVE  Routed(p)'
  BY <1>0, <1>1 DEF OutputPacket, TerminalOutputTypeOK, PlayersRouted, Routed
<1>2. ASSUME NEW q \in Player, NEW t \in Gate, EnterMap(q, t)
      PROVE  Routed(p)'
  <2>1. p # q /\ place[p] = "in" /\ gate'[p] = gate[p]
    BY <1>0, <1>2 DEF EnterMap, TerminalOutputTypeOK
  <2>2. terminal_route' = terminal_route /\ route_change'.guid = q
    BY <1>2 DEF EnterMap
  <2> QED BY <1>0, <2>1, <2>2 DEF PlayersRouted, Routed
<1>3. ASSUME EnterMapFinished
      PROVE  Routed(p)'
  <2>1. /\ route_change' = NoChange /\ gate' = gate
        /\ terminal_route' = terminal_route
        /\ route_change # NoChange /\ route_change.by = "enter"
        /\ route_change.todo = {}
        /\ place' = [place EXCEPT ![route_change.guid] = "in"]
    BY <1>3 DEF EnterMapFinished
  <2>2. CASE p = route_change.guid
    BY <1>0, <2>1, <2>2 DEF EnteringChange, Routed
  <2>3. CASE p # route_change.guid
    <3>1. place[p] = "in"
      BY <1>0, <2>1, <2>3 DEF TerminalOutputTypeOK
    <3> QED BY <1>0, <2>1, <3>1 DEF PlayersRouted, Routed
  <2> QED BY <2>2, <2>3
<1>4. ASSUME NEW r \in RouteThread, ChangeRoute(r)
      PROVE  Routed(p)'
  <2>1. place' = place /\ gate' = gate /\ route_change # NoChange
    BY <1>4 DEF ChangeRoute, sceneVars
  <2>2. Routed(p)
    BY <1>0, <2>1 DEF PlayersRouted
  <2>3. route_change'.guid = route_change.guid /\ route_change.guid # p
    <3>1. route_change \in Change
      BY <1>0, <2>1 DEF TerminalOutputTypeOK
    <3> QED BY <1>4, <2>1, <2>2, <3>1 DEF ChangeRoute, Routed, Change
  <2>4. \A q \in RouteThread : terminal_route'[q][p] = terminal_route[q][p]
    BY <1>0, <1>4, <2>3 DEF ChangeRoute, TerminalOutputTypeOK
  <2> QED BY <2>1, <2>2, <2>3, <2>4 DEF Routed
<1>5. ASSUME RemoveRoute
      PROVE  Routed(p)'
  <2>1. place' = place /\ gate' = gate /\ terminal_route' = terminal_route
    BY <1>5 DEF RemoveRoute, sceneVars
  <2>2. route_change'.guid # p
    BY <1>5, <2>1, RemovedHasLeft
  <2> QED BY <1>0, <2>1, <2>2 DEF PlayersRouted, Routed
<1>6. ASSUME DispatchLeave
      PROVE  Routed(p)'
  BY <1>0, <1>6 DEF DispatchLeave, outputPacket, sceneVars, PlayersRouted, Routed
<1>7. ASSUME NEW t \in Gate, WriteBlock(t)
      PROVE  Routed(p)'
  <2>1. place[p] = "in"
    BY <1>0, <1>7 DEF WriteBlock, TerminalOutputTypeOK
  <2> QED BY <1>0, <1>7, <2>1 DEF WriteBlock, PlayersRouted, Routed
<1>8. ASSUME Quiet
      PROVE  Routed(p)'
  BY <1>0, <1>8 DEF Quiet, PlayersRouted, Routed
<1> QED BY <1>1, <1>2, <1>3, <1>4, <1>5, <1>6, <1>7, <1>8, StepKinds

(* A packet whose route is to be looked up finds that of its player: the   *)
(* player does not enter again, nor is its route removed, before.          *)
LEMMA UnroutedFindRouteInductive ==
  ASSUME ~EntersEarly, OrderInv, RouteInv, [Next]_vars
  PROVE  UnroutedFindRoute'
<1> USE DEF changeVars
<1>0. /\ TerminalOutputTypeOK /\ PlayersRouted /\ EnteringChange
      /\ UnroutedFindRoute /\ LeaveIsLast
  BY DEF OrderInv, RouteInv
<1> DEFINE Finds(n) == LET p == sent[n].guid
                       IN  place[p] \in {"in", "leaving"} /\ Routed(p)
                           /\ sent[n].gate = gate[p]
<1>1. ASSUME NEW q \in Player, NEW opcode \in Opcode, OutputPacket(q, opcode)
      PROVE  UnroutedFindRoute'
  <2>0. PICK last : last = Len(sent) + 1
    OBVIOUS
  <2>1. /\ sent \in Seq([guid : Player, opcode : Opcode, gate : Gate \cup {NoGate}])
        /\ packet_vec \in Seq(Number) /\ last \in Number
    BY <1>0, <1>1, <2>0, MaxPacketsAssumption DEF OutputPacket, Number, TerminalOutputTypeOK
  <2>2. /\ place[q] = "in" /\ gate' = gate /\ changeVars' = changeVars
        /\ place'[q] \in {"in", "leaving"}
        /\ \A p \in Player : p # q => place'[p] = place[p]
    BY <1>0, <1>1 DEF OutputPacket, TerminalOutputTypeOK
  <2>3. sent'[last].guid = q /\ sent'[last].gate = gate[q]
    BY <1>1, <2>0, <2>1 DEF OutputPacket
  <2>4. Range(packet_vec') = Range(packet_vec) \cup {last}
    BY <1>1, <2>0, <2>1, AppendOf DEF OutputPacket
  <2>5. router' = router
    BY <1>1 DEF OutputPacket
  <2>6. Unrouted' = Unrouted \cup {last}
    BY <2>4, <2>5 DEF Unrouted
  <2>7. \A p \in Player : Routed(p) => Routed(p)'
    BY <2>2 DEF Routed
  <2>8. Finds(last)'
    <3>1. Routed(q)'
      BY <1>0, <2>2, <2>7 DEF PlayersRouted
    <3> QED BY <2>2, <2>3, <3>1 DEF Routed
  <2>9. ASSUME NEW n \in Unrouted
        PROVE  Finds(n)'
    <3>1. n \in 1 .. Len(sent) /\ sent[n].guid \in Player
      BY SentTypes
    <3>2. sent'[n] = sent[n]
      BY <3>1, SentKept
    <3>3. Finds(n)
      BY <1>0 DEF UnroutedFindRoute
    <3> QED BY <2>2, <3>1, <3>2, <3>3 DEF Routed
  <2> QED BY <2>6, <2>8, <2>9 DEF UnroutedFindRoute
<1>2. ASSUME \A q \in Player, opcode \in Opcode : ~OutputPacket(q, opcode),
             \A n \in Unrouted : LET p == sent[n].guid
                                 IN  /\ place'[p] = place[p] /\ gate'[p] = gate[p]
                                     /\ Routed(p) => Routed(p)'
      PROVE  UnroutedFindRoute'
  <2>1. Unrouted' \subseteq Unrouted /\ sent' = sent
    BY <1>2, UnroutedKept, SentKept
  <2> QED BY <1>0, <1>2, <2>1 DEF UnroutedFindRoute
<1>3. ASSUME \A q \in Player, opcode \in Opcode : ~OutputPacket(q, opcode),
             NEW n \in Unrouted
      PROVE  LET p == sent[n].guid
             IN  /\ place'[p] = place[p] /\ gate'[p] = gate[p]
                 /\ Routed(p) => Routed(p)'
  <2> DEFINE p == sent[n].guid
  <2>1. /\ p \in Player /\ place[p] \in {"in", "leaving"} /\ Routed(p)
        /\ n \in 1 .. Len(sent) /\ n \in InRouteStage
    BY <1>0, <1>3, SentTypes DEF UnroutedFindRoute
  <2> SUFFICES ASSUME NEW guid \in Player, guid = p
               PROVE  /\ place'[guid] = place[guid] /\ gate'[guid] = gate[guid]
                      /\ Routed(guid) => Routed(guid)'
    <3>1. sent' = sent
      BY <1>3, SentKept
    <3> QED BY <2>1, <3>1
  <2> HIDE DEF p
  <2>2. ASSUME NEW q \in Player, NEW t \in Gate, EnterMap(q, t)
        PROVE  /\ place'[guid] = place[guid] /\ gate'[guid] = gate[guid]
               /\ Routed(guid) => Routed(guid)'
    <3>1. guid # q
      BY <2>1, <2>2 DEF EnterMap
    <3> QED BY <1>0, <2>2, <3>1 DEF EnterMap, TerminalOutputTypeOK, Routed
  <2>3. ASSUME EnterMapFinished
        PROVE  /\ place'[guid] = place[guid] /\ gate'[guid] = gate[guid]
               /\ Routed(guid) => Routed(guid)'
    <3>1. guid # route_change.guid
      BY <1>0, <2>1, <2>3 DEF EnterMapFinished, EnteringChange
    <3> QED BY <1>0, <2>3, <3>1 DEF EnterMapFinished, TerminalOutputTypeOK, Routed
  <2>4. ASSUME NEW r \in RouteThread, ChangeRoute(r)
        PROVE  /\ place'[guid] = place[guid] /\ gate'[guid] = gate[guid]
               /\ Routed(guid) => Routed(guid)'
    <3>1. place' = place /\ gate' = gate /\ route_change # NoChange
      BY <2>4 DEF ChangeRoute, sceneVars
    <3>2. route_change'.guid = route_change.guid /\ route_change.guid # guid
      <4>1. route_change \in Change
        BY <1>0, <3>1 DEF TerminalOutputTypeOK
      <4> QED BY <2>1, <2>4, <3>1, <4>1 DEF ChangeRoute, Routed, Change
    <3>3. \A q \in RouteThread : terminal_route'[q][guid] = terminal_route[q][guid]
      BY <1>0, <2>4, <3>2 DEF ChangeRoute, TerminalOutputTypeOK
    <3> QED BY <3>1, <3>2, <3>3 DEF Routed
  <2>5. ASSUME RemoveRoute
        PROVE  /\ place'[guid] = place[guid] /\ gate'[guid] = gate[guid]
               /\ Routed(guid) => Routed(guid)'
    <3>1. route_change'.guid # guid
      BY <2>1, <2>5, RemovedHasLeft DEF p
    <3> QED BY <2>5, <3>1 DEF RemoveRoute, sceneVars, Routed
  <2>6. ASSUME DispatchLeave
        PROVE  /\ place'[guid] = place[guid] /\ gate'[guid] = gate[guid]
               /\ Routed(guid) => Routed(guid)'
    BY <2>6 DEF DispatchLeave, outputPacket, sceneVars, Routed
  <2>7. ASSUME NEW t \in Gate, WriteBlock(t)
        PROVE  /\ place'[guid] = place[guid] /\ gate'[guid] = gate[guid]
               /\ Routed(guid) => Routed(guid)'
    <3>1. PICK m \in 1 .. Len(sent) :
            /\ msg_block[t] = <<m>> /\ NotWritten(m)
            /\ \A k \in InRouteStage : m < k
      BY <2>7, WrittenNext
    <3>2. gate' = gate /\ changeVars' = changeVars
          /\ place' = IF sent[m].opcode = "LEAVE_MAP"
                           /\ place[sent[m].guid] = "leaving"
                      THEN [place EXCEPT ![sent[m].guid] = "out"] ELSE place
      BY <2>7, <3>1 DEF WriteBlock
    <3>3. sent[m].opcode = "LEAVE_MAP" => sent[m].guid # guid
      <4>1. m < n /\ m \in Nat /\ n \in Nat
        BY <2>1, <3>1
      <4>2. sent[m].opcode = "LEAVE_MAP" /\ sent[n].guid = sent[m].guid => n <= m
        BY <1>0, <2>1, <3>1 DEF LeaveIsLast
      <4> QED BY <4>1, <4>2 DEF p
    <3>4. place'[guid] = place[guid]
      BY <1>0, <3>2, <3>3 DEF TerminalOutputTypeOK
    <3> QED BY <3>2, <3>4 DEF Routed
  <2>8. ASSUME Quiet
        PROVE  /\ place'[guid] = place[guid] /\ gate'[guid] = gate[guid]
               /\ Routed(guid) => Routed(guid)'
    BY <2>8 DEF Quiet, Routed
  <2> QED BY <1>3, <2>2, <2>3, <2>4, <2>5, <2>6, <2>7, <2>8, StepKinds
<1> QED BY <1>1, <1>2, <1>3

LEMMA EnteringChangeInductive ==
  ASSUME OrderInv, RouteInv, [Next]_vars
  PROVE  EnteringChange'
<1> USE DEF changeVars
<1>0. TerminalOutputTypeOK /\ EnteringChange
  BY DEF OrderInv, RouteInv
<1> SUFFICES ASSUME route_change' # NoChange, route_change'.by = "enter"
             PROVE  EnteringChange'
  BY DEF EnteringChange
<1>1. ASSUME NEW q \in Player, NEW opcode \in Opcode, OutputPacket(q, opcode)
      PROVE  EnteringChange'
  <2>1. /\ route_change' = route_change /\ terminal_route' = terminal_route
        /\ gate' = gate /\ place[q] = "in"
        /\ \A p \in Player : p # q => place'[p] = place[p]
    BY <1>0, <1>1 DEF OutputPacket, TerminalOutputTypeOK
  <2>2. route_change.guid \in Player
    BY <1>0, <2>1 DEF TerminalOutputTypeOK, Change
  <2>3. place[route_change.guid] = "entering"
    BY <1>0, <2>1 DEF EnteringChange
  <2>4. place'[route_change.guid] = place[route_change.guid]
    BY <2>1, <2>2, <2>3
  <2> QED BY <1>0, <2>1, <2>3, <2>4 DEF EnteringChange
<1>2. ASSUME NEW q \in Player, NEW t \in Gate, EnterMap(q, t)
      PROVE  EnteringChange'
  BY <1>0, <1>2 DEF EnterMap, TerminalOutputTypeOK, EnteringChange
<1>3. ASSUME NEW r \in RouteThread, ChangeRoute(r)
      PROVE  EnteringChange'
  <2>1. /\ place' = place /\ gate' = gate /\ route_change # NoChange
        /\ route_change' = [route_change EXCEPT !.todo = @ \ {r}]
        /\ terminal_route' = [terminal_route EXCEPT ![r][route_change.guid] =
                                route_change.terminal]
    BY <1>3 DEF ChangeRoute, sceneVars
  <2>2. route_change \in Change
    BY <1>0, <2>1 DEF TerminalOutputTypeOK
  <2>3. /\ route_change'.by = route_change.by /\ route_change'.guid = route_change.guid
        /\ route_change'.terminal = route_change.terminal
        /\ route_change'.todo = route_change.todo \ {r}
    BY <2>1, <2>2 DEF Change
  <2>4. /\ terminal_route'[r][route_change.guid] = route_change.terminal
        /\ \A q \in RouteThread : q # r => terminal_route'[q] = terminal_route[q]
    <3>1. route_change.guid \in Player
      BY <2>2 DEF Change
    <3> QED BY <1>0, <2>1, <3>1 DEF TerminalOutputTypeOK
  <2> QED BY <1>0, <2>1, <2>3, <2>4 DEF EnteringChange
<1>4. ASSUME EnterMapFinished \/ DispatchLeave
      PROVE  FALSE
  BY <1>4 DEF EnterMapFinished, DispatchLeave
<1>5. ASSUME RemoveRoute
      PROVE  FALSE
  BY <1>5 DEF RemoveRoute
<1>6. ASSUME NEW t \in Gate, WriteBlock(t)
      PROVE  EnteringChange'
  <2>1. /\ route_change' = route_change /\ terminal_route' = terminal_route
        /\ gate' = gate
        /\ \A p \in Player : place[p] # "leaving" => place'[p] = place[p]
    BY <1>0, <1>6 DEF WriteBlock, TerminalOutputTypeOK
  <2>2. route_change.guid \in Player
    BY <1>0, <2>1 DEF TerminalOutputTypeOK, Change
  <2> QED BY <1>0, <2>1, <2>2 DEF EnteringChange
<1>7. ASSUME Quiet
      PROVE  EnteringChange'
  BY <1>0, <1>7 DEF Quiet, EnteringChange
<1> QED BY <1>1, <1>2, <1>3, <1>4, <1>5, <1>6, <1>7, StepKinds

(* A player puts out nothing after LEAVE_MAP until it is written.          *)
LEMMA LeaveIsLastInductive ==
  ASSUME ~EntersEarly, OrderInv, RouteInv, [Next]_vars
  PROVE  LeaveIsLast'
<1> USE DEF changeVars
<1>0. TerminalOutputTypeOK /\ LeaveIsLast /\ EnteringChange
  BY DEF OrderInv, RouteInv
<1>a. sent \in Seq([guid : Player, opcode : Opcode, gate : Gate \cup {NoGate}])
      /\ Len(sent) \in Nat
  BY <1>0 DEF TerminalOutputTypeOK
<1>b. \A n \in 1 .. Len(sent) : sent[n].guid \in Player
  <2> SUFFICES ASSUME NEW n \in 1 .. Len(sent) PROVE sent[n].guid \in Player
    OBVIOUS
  <2>1. sent[n] \in [guid : Player, opcode : Opcode, gate : Gate \cup {NoGate}]
    BY <1>a, ElementOfSeq
  <2> QED BY <2>1
<1>1. ASSUME NEW q \in Player, NEW opcode \in Opcode, OutputPacket(q, opcode)
      PROVE  LeaveIsLast'
  <2>0. PICK last : last = Len(sent) + 1
    OBVIOUS
  <2>1. /\ Len(sent') = last /\ last \in Nat
        /\ sent'[last].guid = q /\ sent'[last].opcode = opcode
        /\ \A n \in 1 .. Len(sent) : sent'[n] = sent[n]
        /\ 1 .. last = (1 .. Len(sent)) \cup {last}
        /\ \A n \in 1 .. Len(sent) : n \in Nat /\ n < last
    BY <1>1, <1>a, <2>0 DEF OutputPacket
  <2>2. /\ place[q] = "in" /\ written' = written
        /\ opcode = "LEAVE_MAP" => place'[q] = "leaving"
        /\ \A p \in Player : p # q => place'[p] = place[p]
    BY <1>0, <1>1 DEF OutputPacket, writeVars, TerminalOutputTypeOK
  <2>3. \A n : NotWritten(n)' <=> NotWritten(n)
    BY <2>2 DEF NotWritten
  <2>4. ASSUME NEW n \in 1 .. Len(sent), sent'[n].opcode = "LEAVE_MAP", NotWritten(n)'
        PROVE  /\ place'[sent'[n].guid] = "leaving"
               /\ \A m \in 1 .. last : sent'[m].guid = sent'[n].guid => m <= n
    <3>1. /\ place[sent[n].guid] = "leaving"
          /\ \A m \in 1 .. Len(sent) : sent[m].guid = sent[n].guid => m <= n
      BY <1>0, <2>1, <2>3, <2>4 DEF LeaveIsLast
    <3>2. sent[n].guid \in Player /\ sent[n].guid # q
      BY <1>b, <2>2, <3>1
    <3> QED BY <2>1, <2>2, <3>1, <3>2
  <2>5. ASSUME opcode = "LEAVE_MAP"
        PROVE  /\ place'[sent'[last].guid] = "leaving"
               /\ \A m \in 1 .. last : sent'[m].guid = sent'[last].guid => m <= last
    BY <2>1, <2>2, <2>5
  <2> QED BY <2>1, <2>4, <2>5 DEF LeaveIsLast
<1>2. ASSUME sent' = sent,
             \A n \in 1 .. Len(sent) : NotWritten(n)' => NotWritten(n),
             \A n \in 1 .. Len(sent) :
               sent[n].opcode = "LEAVE_MAP" /\ NotWritten(n)'
                 /\ place[sent[n].guid] = "leaving" => place'[sent[n].guid] = "leaving"
      PROVE  LeaveIsLast'
  BY <1>0, <1>2 DEF LeaveIsLast
<1>3. ASSUME sent' = sent, written' = written,
             \A p \in Player : place[p] = "leaving" => place'[p] = "leaving"
      PROVE  LeaveIsLast'
  <2>1. \A n : NotWritten(n)' <=> NotWritten(n)
    BY <1>3 DEF NotWritten
  <2> QED BY <1>2, <1>3, <1>b, <2>1
<1>4. ASSUME NEW q \in Player, NEW t \in Gate, EnterMap(q, t)
      PROVE  LeaveIsLast'
  BY <1>0, <1>3, <1>4 DEF EnterMap, writeVars, TerminalOutputTypeOK
<1>5. ASSUME EnterMapFinished
      PROVE  LeaveIsLast'
  <2>1. place[route_change.guid] # "leaving"
    BY <1>0, <1>5 DEF EnterMapFinished, EnteringChange
  <2> QED BY <1>0, <1>3, <1>5, <2>1 DEF EnterMapFinished, writeVars, TerminalOutputTypeOK
<1>6. ASSUME NEW t \in Gate, WriteBlock(t)
      PROVE  LeaveIsLast'
  <2>1. PICK m \in 1 .. Len(sent) :
          /\ msg_block[t] = <<m>> /\ NotWritten(m)
          /\ Range(written'[t]) = Range(written[t]) \cup {m}
          /\ \A u \in Gate \ {t} : written'[u] = written[u]
    BY <1>6, WrittenNext
  <2>2. sent' = sent
        /\ place' = IF sent[m].opcode = "LEAVE_MAP"
                         /\ place[sent[m].guid] = "leaving"
                    THEN [place EXCEPT ![sent[m].guid] = "out"] ELSE place
    BY <1>6, <2>1 DEF WriteBlock
  <2>3. \A n : NotWritten(n)' => NotWritten(n) /\ n # m
    BY <2>1 DEF NotWritten
  <2>4. ASSUME NEW n \in 1 .. Len(sent), sent[n].opcode = "LEAVE_MAP", NotWritten(n)',
               place[sent[n].guid] = "leaving"
        PROVE  place'[sent[n].guid] = "leaving"
    <3>1. NotWritten(n) /\ n # m
      BY <2>3, <2>4
    <3>2. sent[n].guid = sent[m].guid => sent[m].opcode # "LEAVE_MAP"
      <4>1. \A k \in 1 .. Len(sent) : sent[k].guid = sent[n].guid => k <= n
        BY <1>0, <2>4, <3>1 DEF LeaveIsLast
      <4>2. sent[m].opcode = "LEAVE_MAP" =>
              \A k \in 1 .. Len(sent) : sent[k].guid = sent[m].guid => k <= m
        BY <1>0, <2>1 DEF LeaveIsLast
      <4> QED BY <2>1, <3>1, <4>1, <4>2
    <3> QED BY <1>0, <1>b, <2>2, <2>4, <3>2 DEF TerminalOutputTypeOK
  <2> QED BY <1>2, <2>2, <2>3, <2>4
<1>7. ASSUME \/ \E r \in RouteThread : ChangeRoute(r)
             \/ RemoveRoute
             \/ DispatchLeave
      PROVE  LeaveIsLast'
  <2>1. sent' = sent /\ written' = written /\ place' = place
    BY <1>7 DEF ChangeRoute, RemoveRoute, DispatchLeave, outputPacket, sceneVars, writeVars
  <2> QED BY <1>3, <2>1
<1>8. ASSUME Quiet, \A t \in Gate : ~WriteBlock(t)
      PROVE  LeaveIsLast'
  <2>1. written' = written
    BY <1>8 DEF Next, vars, sceneVars, routeVars, dispatchVars,
       serializeVars, writeVars, WriteStep, RouteStep, DispatchStep,
       SerializeStep, GateLost, TakeBlock, TakePackets, RoutePacket, OutputPacket,
       FinishRouting, TakeInfo, DispatchOther, outputPacket, TakeGatePackets,
       SerializePackets, EnterMap, EnterMapFinished, ChangeRoute, RemoveRoute,
       DispatchLeave
  <2> QED BY <1>3, <1>8, <2>1 DEF Quiet
<1> QED BY <1>1, <1>4, <1>5, <1>6, <1>7, <1>8, StepKinds

(* What a gate has changes only when a packet is dispatched.               *)
LEMMA AtGateKept ==
  ASSUME OrderInv, RouteInv, [Next]_vars
  PROVE  \/ dispatching # <<>> /\ outputPacket
         \/ \A t \in Gate : AtGate(t)' = AtGate(t)
<1> USE DEF sceneVars, routeVars, dispatchVars, changeVars, serializeVars,
            writeVars
<1>0. TerminalOutputTypeOK /\ LeavingChange
  BY DEF OrderInv, RouteInv
<1>1. ASSUME NEW t \in Gate, AtGate(t)' = AtGate(t),
             \A u \in Gate \ {t} :
               /\ serializer'[u] = serializer[u] /\ msg_block_map'[u] = msg_block_map[u]
               /\ msg_block'[u] = msg_block[u] /\ gate_vec'[u] = gate_vec[u]
               /\ msg_index'[u] = msg_index[u] /\ msg_pos'[u] = msg_pos[u]
               /\ written'[u] = written[u]
      PROVE  \A u \in Gate : AtGate(u)' = AtGate(u)
  <2>1. \A u \in Gate \ {t} : AtGate(u)' = AtGate(u)
    BY <1>1, StageTwoUnchanged
  <2> QED BY <1>1, <2>1
<1>2. ASSUME NEW t \in Gate, NEW s \in SerializeThread, SerializeStep(t, s)
      PROVE  \A u \in Gate : AtGate(u)' = AtGate(u)
  <2>1. AtGate(t)' = AtGate(t)
    BY <1>2, TakeGatePacketsStageTwo, SerializePacketsStageTwo DEF SerializeStep
  <2>2. \A u \in Gate \ {t} :
          /\ serializer'[u] = serializer[u] /\ msg_block_map'[u] = msg_block_map[u]
          /\ msg_block'[u] = msg_block[u] /\ gate_vec'[u] = gate_vec[u]
          /\ msg_index'[u] = msg_index[u] /\ msg_pos'[u] = msg_pos[u]
          /\ written'[u] = written[u]
    BY <1>0, <1>2 DEF SerializeStep, TakeGatePackets, SerializePackets,
                      TerminalOutputTypeOK
  <2> QED BY <1>1, <2>1, <2>2
<1>3. ASSUME NEW t \in Gate, WriteStep(t)
      PROVE  \A u \in Gate : AtGate(u)' = AtGate(u)
  <2>1. AtGate(t)' = AtGate(t)
    BY <1>3, TakeBlockStageTwo, WriteBlockStageTwo DEF WriteStep
  <2>2. \A u \in Gate \ {t} :
          /\ serializer'[u] = serializer[u] /\ msg_block_map'[u] = msg_block_map[u]
          /\ msg_block'[u] = msg_block[u] /\ gate_vec'[u] = gate_vec[u]
          /\ msg_index'[u] = msg_index[u] /\ msg_pos'[u] = msg_pos[u]
          /\ written'[u] = written[u]
    BY <1>0, <1>3 DEF WriteStep, TakeBlock, WriteBlock, TerminalOutputTypeOK
  <2> QED BY <1>1, <2>1, <2>2
<1>4. ASSUME DispatchOther \/ DispatchLeave
      PROVE  dispatching # <<>> /\ outputPacket
  BY <1>0, <1>4 DEF DispatchOther, DispatchLeave, HeadIs, LeavingChange
<1>5. ASSUME UNCHANGED <<serializeVars, writeVars>>
      PROVE  \A u \in Gate : AtGate(u)' = AtGate(u)
  BY <1>5, StageTwoUnchanged
<1>6. \/ \E t \in Gate, s \in SerializeThread : SerializeStep(t, s)
      \/ \E t \in Gate : WriteStep(t)
      \/ DispatchOther \/ DispatchLeave
      \/ UNCHANGED <<serializeVars, writeVars>>
  BY DEF Next, vars, RouteStep, DispatchStep, OutputPacket, GateLost,
         TakePackets, RoutePacket, FinishRouting, TakeInfo, EnterMap,
         EnterMapFinished, ChangeRoute, RemoveRoute
<1> QED BY <1>2, <1>3, <1>4, <1>5, <1>6

(* The packets of a sequence of the first stage are sent.                  *)
LEMMA InfoSent ==
  ASSUME OrderInv, RouteInv
  PROVE  /\ \A r \in RouteThread : PacketsOf(router[r].info) \subseteq 1 .. Len(sent)
         /\ \A e \in route_info_map : PacketsOf(e.info) \subseteq 1 .. Len(sent)
         /\ PacketsOf(dispatching) \subseteq 1 .. Len(sent)
<1>1. TerminalOutputTypeOK /\ RouteHolders
  BY DEF OrderInv
<1>2. ASSUME NEW r \in RouteThread
      PROVE  PacketsOf(router[r].info) \subseteq 1 .. Len(sent)
  <2>1. CASE ~router[r].busy
    BY <1>1, <2>1 DEF RouteHolders, PacketsOf
  <2>2. CASE router[r].busy
    <3>1. /\ PacketsOf(router[r].info) \subseteq RouteBatch[router[r].index]
          /\ router[r].index \in Index /\ PacketsOf(router[r].info) \subseteq Number
      BY <1>1, <2>2, HolderHasPackets, RouteTypes DEF InRouter
    <3>2. PacketsOf(router[r].info) \subseteq InRouteStage
      BY <3>1 DEF InRouteStage
    <3> QED BY <3>2, SentTypes
  <2> QED BY <2>1, <2>2
<1>3. ASSUME NEW e \in route_info_map
      PROVE  PacketsOf(e.info) \subseteq 1 .. Len(sent)
  <2>1. /\ PacketsOf(e.info) \subseteq RouteBatch[e.index]
        /\ e.index \in Index /\ PacketsOf(e.info) \subseteq Number
    BY <1>1, HolderHasPackets, RouteTypes
  <2>2. PacketsOf(e.info) \subseteq InRouteStage
    BY <2>1 DEF InRouteStage
  <2> QED BY <2>2, SentTypes
<1>4. PacketsOf(dispatching) \subseteq 1 .. Len(sent)
  BY SentTypes DEF InRouteStage
<1> QED BY <1>2, <1>3, <1>4

LEMMA RoutedRightInductive ==
  ASSUME OrderInv, RouteInv, [Next]_vars
  PROVE  RoutedRight'
<1> USE DEF sceneVars, routeVars, dispatchVars, changeVars, serializeVars,
            writeVars
<1>0. TerminalOutputTypeOK /\ RoutedRight
  BY DEF OrderInv, RouteInv
<1>1. \A t \in Gate : \A n \in AtGate(t)' : sent'[n].gate = t
  <2>1. CASE dispatching # <<>> /\ outputPacket
    <3>1. PICK n, t : n = Head(dispatching).packet /\ t = Head(dispatching).terminal
      OBVIOUS
    <3>2. /\ t \in Gate /\ AtGate(t)' = AtGate(t) \cup {n}
          /\ \A u \in Gate \ {t} : AtGate(u)' = AtGate(u)
      BY <2>1, <3>1, outputPacketStageTwo
    <3>3. sent[n].gate = t
      <4>1. Head(dispatching) = dispatching[1] /\ 1 \in DOMAIN dispatching
        BY <1>0, <2>1, RouteTypes, TailOf
      <4> QED BY <1>0, <3>1, <4>1 DEF RoutedRight, InfoRight
    <3>4. sent' = sent
      BY <2>1 DEF outputPacket
    <3> QED BY <1>0, <3>2, <3>3, <3>4 DEF RoutedRight
  <2>2. CASE \A t \in Gate : AtGate(t)' = AtGate(t)
    <3>1. \A t \in Gate : \A n \in AtGate(t) : sent'[n] = sent[n]
      BY SentTypes, SentKept
    <3> QED BY <1>0, <2>2, <3>1 DEF RoutedRight
  <2> QED BY <2>1, <2>2, AtGateKept
<1> DEFINE Right(info) ==
             \A k \in DOMAIN info : info[k].terminal = sent'[info[k].packet].gate
           InfosRight == /\ \A r \in RouteThread : Right(router'[r].info)
                         /\ \A e \in route_info_map' : Right(e.info)
                         /\ Right(dispatching')
<1>2. /\ \A r \in RouteThread : Right(router[r].info)
      /\ \A e \in route_info_map : Right(e.info)
      /\ Right(dispatching)
  <2>1. ASSUME NEW info, PacketsOf(info) \subseteq 1 .. Len(sent), InfoRight(info)
        PROVE  Right(info)
    <3>1. \A k \in DOMAIN info : sent'[info[k].packet] = sent[info[k].packet]
      BY <2>1, SentKept DEF PacketsOf
    <3> QED BY <2>1, <3>1 DEF InfoRight
  <2> HIDE DEF Right
  <2> QED BY <1>0, <2>1, InfoSent DEF RoutedRight
<1>3. Right(<<>>)
  OBVIOUS
<1>4. ASSUME NEW r \in RouteThread, TakePackets(r)
      PROVE  InfosRight
  <2>1. /\ \A q \in RouteThread : q # r => router'[q] = router[q]
        /\ router'[r].info = <<>>
        /\ route_info_map' = route_info_map /\ dispatching' = dispatching
    BY <1>0, <1>4 DEF TakePackets, TerminalOutputTypeOK
  <2> HIDE DEF Right
  <2> QED BY <1>2, <1>3, <2>1
<1>5. ASSUME NEW r \in RouteThread, RoutePacket(r)
      PROVE  InfosRight
  <2>1. PICK n : n = Head(router[r].packets)
    OBVIOUS
  <2>2. PICK x : x = [packet |-> n, terminal |-> terminal_route[r][sent[n].guid]]
    OBVIOUS
  <2>3. n \in Unrouted /\ x.packet = n /\ x.terminal = sent[n].gate /\ x \in RouteInfo
        /\ sent' = sent
        /\ router' = [router EXCEPT ![r].packets = Tail(@), ![r].info = Append(@, x)]
        /\ route_info_map' = route_info_map /\ dispatching' = dispatching
    <3>1. n \in Unrouted /\ terminal_route[r][sent[n].guid] = sent[n].gate
          /\ sent[n].gate \in Gate
      BY <1>5, <2>1, RouteFound
    <3>2. n \in Number
      BY <3>1, SentTypes
    <3>3. sent[n].gate # NoGate
      BY <3>1, NoGateAssumption
    <3> QED BY <1>5, <2>1, <2>2, <3>1, <3>2, <3>3 DEF RoutePacket, RouteInfo
  <2>4. /\ \A q \in RouteThread : q # r => router'[q] = router[q]
        /\ router'[r].info = Append(router[r].info, x)
    BY <1>0, <2>3 DEF TerminalOutputTypeOK
  <2>5. Right(router'[r].info)
    <3>1. router[r].info \in Seq(RouteInfo) /\ InfoRight(router[r].info)
      BY <1>0, RouteTypes DEF RoutedRight
    <3>2. \A k \in DOMAIN Append(router[r].info, x) :
            \/ Append(router[r].info, x)[k] = x
            \/ /\ k \in DOMAIN router[r].info
               /\ Append(router[r].info, x)[k] = router[r].info[k]
      <4> DEFINE info == router[r].info
      <4>1. info \in Seq(RouteInfo) /\ x \in RouteInfo
        BY <2>3, <3>1
      <4> HIDE DEF info
      <4>2. /\ DOMAIN Append(info, x) = DOMAIN info \cup {Len(info) + 1}
            /\ Append(info, x)[Len(info) + 1] = x
            /\ \A k \in DOMAIN info : Append(info, x)[k] = info[k]
        BY <4>1
      <4> QED BY <4>2 DEF info
    <3>3. x.terminal = sent'[x.packet].gate
      BY <2>3
    <3>4. Right(Append(router[r].info, x))
      <4> SUFFICES ASSUME NEW k \in DOMAIN Append(router[r].info, x)
                   PROVE  Append(router[r].info, x)[k].terminal
                            = sent'[Append(router[r].info, x)[k].packet].gate
        OBVIOUS
      <4>1. CASE Append(router[r].info, x)[k] = x
        BY <3>3, <4>1
      <4>2. CASE /\ k \in DOMAIN router[r].info
                 /\ Append(router[r].info, x)[k] = router[r].info[k]
        BY <2>3, <3>1, <4>2 DEF InfoRight
      <4> QED BY <3>2, <4>1, <4>2
    <3> QED BY <2>4, <3>4
  <2> HIDE DEF Right
  <2> QED BY <1>2, <2>3, <2>4, <2>5
<1>6. ASSUME NEW r \in RouteThread, FinishRouting(r)
      PROVE  InfosRight
  <2>1. /\ \A q \in RouteThread : q # r => router'[q] = router[q]
        /\ router'[r].info = <<>> /\ dispatching' = dispatching
        /\ \A e \in route_info_map' : e \in route_info_map \/ e.info = router[r].info
    BY <1>0, <1>6 DEF FinishRouting, Insert, TerminalOutputTypeOK
  <2> HIDE DEF Right
  <2> QED BY <1>2, <1>3, <2>1
<1>7. ASSUME TakeInfo
      PROVE  InfosRight
  <2>1. /\ router' = router /\ route_info_map' \subseteq route_info_map
        /\ \E e \in route_info_map : dispatching' = e.info
    BY <1>7 DEF TakeInfo
  <2> HIDE DEF Right
  <2> QED BY <1>2, <2>1
<1>8. ASSUME dispatching # <<>>, outputPacket
      PROVE  InfosRight
  <2>1. /\ router' = router /\ route_info_map' = route_info_map
        /\ dispatching' = Tail(dispatching) /\ sent' = sent
    BY <1>8 DEF outputPacket
  <2>2. dispatching \in Seq(RouteInfo) /\ InfoRight(dispatching)
    BY <1>0, RouteTypes DEF RoutedRight
  <2>3. \A k \in DOMAIN Tail(dispatching) :
          k + 1 \in DOMAIN dispatching /\ Tail(dispatching)[k] = dispatching[k + 1]
    BY <1>8, <2>2
  <2>4. Right(dispatching')
    BY <2>1, <2>2, <2>3 DEF InfoRight
  <2> HIDE DEF Right
  <2> QED BY <1>2, <2>1, <2>4
<1>9. ASSUME UNCHANGED <<router, route_info_map, dispatching>>
      PROVE  InfosRight
  BY <1>2, <1>9
<1>10. InfosRight
  <2> HIDE DEF InfosRight
  <2>1. DispatchOther \/ DispatchLeave => dispatching # <<>> /\ outputPacket
    BY DEF DispatchOther, DispatchLeave, HeadIs, OrderInv, LeavingChange
  <2>2. \/ \E r \in RouteThread : RouteStep(r)
        \/ TakeInfo \/ DispatchOther \/ DispatchLeave
        \/ UNCHANGED <<router, route_info_map, dispatching>>
    BY DEF Next, vars, WriteStep, DispatchStep, SerializeStep, EnterMap,
           EnterMapFinished, GateLost, TakeBlock, WriteBlock, ChangeRoute,
           OutputPacket, RemoveRoute, TakeGatePackets, SerializePackets
  <2> QED BY <1>4, <1>5, <1>6, <1>7, <1>8, <1>9, <2>1, <2>2 DEF RouteStep
<1> QED BY <1>1, <1>10 DEF RoutedRight, InfoRight

-----------------------------------------------------------------------------
(* Theorems.  The order of the packets does not depend on their routes; a  *)
(* packet finds its route only if no player enters before it is told to    *)
(* have left.                                                              *)

(* The stages stay in order, also when packets are dropped in between. *)
THEOREM StagesStayInOrder == Spec => []OrderInv
<1>1. Init => OrderInv
  BY InvInitial DEF IInv
<1>2. OrderInv /\ [Next]_vars => OrderInv'
  BY OrderInductive
<1> QED BY <1>1, <1>2, PTL DEF Spec

(* Every variable stays of its type: no index leaves its ring, and no      *)
(* route information names a gate that is none.                            *)
THEOREM Types == Spec => []TerminalOutputTypeOK
<1>1. OrderInv => TerminalOutputTypeOK
  BY DEF OrderInv
<1> QED BY <1>1, StagesStayInOrder, PTL

(* Each gate gets the packets in the order in which the scene has put them *)
(* out, whatever the threads, though their indices wrap, and though a      *)
(* player that enters early may lose packets in between.                   *)
THEOREM PacketOrder == Spec => []InOrder
<1>1. OrderInv => InOrder
  BY DEF OrderInv, GateSequences, Increasing, InOrder
<1> QED BY <1>1, StagesStayInOrder, PTL

LEMMA InvInductive ==
  ASSUME ~EntersEarly, IInv, [Next]_vars
  PROVE  IInv'
<1>1. OrderInv /\ RouteInv
  BY DEF IInv
<1>2. dropped' = {}
  BY <1>1, NoneDropped DEF RouteInv
<1>3. OrderInv'
  BY <1>1, OrderInductive
<1>4. RouteInv'
  BY <1>1, <1>2, PlayersRoutedInductive, UnroutedFindRouteInductive,
     EnteringChangeInductive, LeaveIsLastInductive, RoutedRightInductive
  DEF RouteInv
<1> QED BY <1>3, <1>4 DEF IInv

(* The routes are right, for any number of players, gates and threads, if  *)
(* no player enters early.                                                 *)
THEOREM Invariant ==
  ASSUME ~EntersEarly
  PROVE  Spec => []IInv
<1>1. IInv /\ [Next]_vars => IInv'
  BY InvInductive
<1> QED BY <1>1, InvInitial, PTL DEF Spec

(* A packet is written to the gate by which its player had entered, though *)
(* its route is looked up later, in one thread's copy of the routes.       *)
THEOREM GateOfPlayer == Spec => []RightGate
<1>1. CASE EntersEarly
  <2>1. RightGate
    BY <1>1 DEF RightGate
  <2> QED BY <2>1, PTL
<1>2. CASE ~EntersEarly
  <2>1. ASSUME IInv
        PROVE  RightGate
    <3>1. RoutedRight
      BY <2>1 DEF IInv, RouteInv
    <3>2. \A t \in Gate : \A i \in DOMAIN written[t] : written[t][i] \in AtGate(t)
      BY DEF AtGate, Range
    <3> QED BY <3>1, <3>2 DEF RoutedRight, RightGate
  <2> QED BY <1>2, <2>1, Invariant, PTL
<1> QED BY <1>1, <1>2

(* No packet is dropped for want of a route, though routes are added and   *)
(* removed one copy after the other while packets are on their way.        *)
THEOREM RoutesFound == Spec => []NothingDropped
<1>1. CASE EntersEarly
  <2>1. NothingDropped
    BY <1>1 DEF NothingDropped
  <2> QED BY <2>1, PTL
<1>2. CASE ~EntersEarly
  <2>1. IInv => NothingDropped
    BY DEF IInv, RouteInv, NothingDropped
  <2> QED BY <1>2, <2>1, Invariant, PTL
<1> QED BY <1>1, <1>2

=============================================================================
