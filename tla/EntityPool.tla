----------------------------- MODULE EntityPool -----------------------------
(***************************************************************************)
(* The entities a scene of the game server keeps in memory, and how their  *)
(* changes reach cachesys: Pool (PoolImp), the lists of requests it sends, *)
(* ManageRemoteCache, which knows by GUID what an answer belongs to, and   *)
(* the flush of a player that leaves the map (manage_player).              *)
(*                                                                         *)
(* Handlers of a scene run on its one thread; "pool" is the state they     *)
(* change, and a handler is an operator from one value of it to the next.  *)
(* A timer calls updatePool: players that leave are flushed when all that  *)
(* was sent is answered, then what has changed is sent, one list of        *)
(* requests for each owner.                                                *)
(*                                                                         *)
(* The connection to the cachesys of an owner (owner_guid modulo their     *)
(* number) keeps its order both ways.  A packet on it is split in two: the *)
(* line of the owner has its GUID, in the order of the connection, and the *)
(* queue of the GUID, output or input, what the packet says.               *)
(*                                                                         *)
(* A version stands for what an entity holds.                              *)
(***************************************************************************)
EXTENDS Integers, Sequences, FiniteSets, SequencesExt

CONSTANTS
  Player,       \* the owners
  Entity,       \* GUIDs
  Owner,        \* the player an entity belongs to
  Kind,         \* what an entity is to getPlayerEntityMap
  New,          \* the entities that are made while the player is there
  NoEntity,     \* no entity in the pool
  NoVersion,    \* cachesys holds nothing
  MaxVersion,   \* bound of the model: changes of an entity
  MaxBatches    \* bound of the model: lists of updates that wait in vain

ASSUME EntityAssumption == IsFiniteSet(Entity)
ASSUME OwnerAssumption == Owner \in [Entity -> Player]

(* The player itself, which a flush updates; a part, which the player      *)
(* names and a flush writes; a coin, which is in the pool of its own and   *)
(* not visited.                                                            *)
ASSUME KindAssumption ==
  /\ Kind \in [Entity -> {"player", "part", "coin"}]
  /\ \A o \in Player : \E e \in Entity :
       {p \in Entity : Owner[p] = o /\ Kind[p] = "player"} = {e}
ASSUME NewAssumption == New \subseteq Entity
ASSUME BoundsAssumption == MaxVersion \in [Entity -> Nat] /\ MaxBatches \in Nat

Version == UNION {0 .. MaxVersion[e] : e \in Entity}
ASSUME NoVersionAssumption == NoVersion \notin Version

(* EntityOpType *)
Op == {"none", "add", "remove", "update"}

RequestType == {"add", "add_with_flush", "update", "flush", "remove"}

(* m_request_id counts up from 0. *)
Id == Nat \ {0}

EntityInfo ==
  [version : Version, is_flushing : BOOLEAN, is_remove_from_memory : BOOLEAN]

ASSUME NoEntityAssumption == NoEntity \notin EntityInfo

VARIABLES
  pool,         \* PoolImp, with ManageRemoteCache's list and its output
  input,        \* answers on their way to the scene, by their GUID
  input_line,   \* the GUIDs of these answers, in order
  player_state, \* m_player_state
  need_flush,   \* m_need_flush_player_map
  stored,       \* cachesys: the version it has recorded last
  client,       \* cachesys: what CacheServer calls client
  made,         \* the GUIDs of New that are in use (environment)
  content       \* the last version the game announced (history)

playerVars == <<player_state, need_flush>>
cacheVars == <<stored, client>>
inputVars == <<input, input_line>>
vars == <<pool, inputVars, playerVars, cacheVars, made, content>>

(* Online, about to leave the world or the map, and gone. *)
PlayerState == {"online", "leaving", "jumping", "gone"}

Coins(o) == {e \in Entity : Owner[e] = o /\ Kind[e] = "coin"}
PlayerOf(o) == CHOOSE e \in Entity : Owner[e] = o /\ Kind[e] = "player"
OwnedBy(o) == {e \in Entity : Owner[e] = o}

Init ==
  /\ pool =
       [entity_map |->
          [e \in Entity |->
             IF e \in New THEN NoEntity
             ELSE [version |-> 0, is_flushing |-> FALSE,
                   is_remove_from_memory |-> FALSE]],
        db_entity_map |-> [e \in Entity |-> "none"],
        updating_db_entity_map |-> [e \in Entity |-> "none"],
        update_to_db_num |-> 0,
        request_info_vec |-> {},
        guid_vec |-> [e \in Entity |-> <<>>],
        output |-> [e \in Entity |-> <<>>],
        output_line |-> [o \in Player |-> <<>>]]
  /\ input = [e \in Entity |-> <<>>]
  /\ input_line = [o \in Player |-> <<>>]
  /\ player_state = [o \in Player |-> "online"]
  /\ need_flush = {}
  /\ stored = [e \in Entity |-> IF e \in New THEN NoVersion ELSE 0]
  /\ client = [e \in Entity |-> IF e \in New THEN "none" ELSE "held"]
  /\ made = {}
  /\ content = stored

-----------------------------------------------------------------------------
(* PoolImp: entities *)

(* get: an entity that is being flushed is not given out. *)
Gettable(s, e) ==
  s.entity_map[e] # NoEntity /\ ~s.entity_map[e].is_flushing

(* updateToDb: what an owner's changes come to.  A new entity stays new    *)
(* until it is sent, and is forgotten if it is removed before.             *)
UpdateToDb(s, e, op) ==
  LET old == s.db_entity_map[e]
  IN  [s EXCEPT !.db_entity_map[e] =
         IF old # "add" THEN op ELSE IF op = "remove" THEN "none" ELSE "add"]

(* isUpdating *)
IsUpdating(s, e) == s.db_entity_map[e] = "add"

(* m_guid_ownerguid_map names the owner of what is in the pool to stay. *)
Owned(s, e) ==
  s.entity_map[e] # NoEntity /\ ~s.entity_map[e].is_remove_from_memory

(* remove, with remove_from_db. *)
RemoveFromDb(s, e) ==
  IF Owned(s, e)
  THEN UpdateToDb([s EXCEPT !.entity_map[e] = NoEntity], e, "remove")
  ELSE s

(* remove, of these GUIDs from memory only: an entity whose row is not yet *)
(* asked for stays until it is.                                            *)
RemoveFromMemory(s, guids) ==
  [s EXCEPT !.entity_map =
     [e \in Entity |->
        IF e \notin guids \/ ~Owned(s, e) THEN @[e]
        ELSE IF IsUpdating(s, e)
        THEN [@[e] EXCEPT !.is_remove_from_memory = TRUE]
        ELSE NoEntity]]

(* checkShouldRemovedEntity, of these GUIDs. *)
CheckShouldRemovedEntity(s, guids) ==
  [s EXCEPT !.entity_map =
     [e \in Entity |->
        IF e \in guids /\ @[e] # NoEntity /\ @[e].is_remove_from_memory
        THEN NoEntity ELSE @[e]]]

-----------------------------------------------------------------------------
(* Requests.  m_guid_vec is searched for the first entry with a GUID, so   *)
(* it is a queue for each of them; a list is told by its request id.       *)

UsedIds(s) ==
  {l.id : l \in s.request_info_vec}
    \cup UNION {Range(s.guid_vec[e]) : e \in Entity}

(* createRequestList, once for each owner: ids that nothing bears (the     *)
(* code counts up).                                                        *)
RequestIds(s, owners) ==
  LET used == UsedIds(s)
      free == (1 .. Cardinality(used) + Cardinality(owners)) \ used
  IN  CHOOSE ids \in [owners -> free] : IsInjective(ids)

Owners(guids) == {Owner[e] : e \in guids}

Request(s, type, e, id) ==
  [type |-> type, id |-> id,
   version |-> IF type = "remove" THEN NoVersion ELSE s.entity_map[e].version]

(* Mutant: the newest request of a GUID is answered first. *)
CacheOutputInFront(s, types, ids) ==
  [s EXCEPT
     !.guid_vec = [e \in Entity |->
                     IF e \in DOMAIN types THEN <<ids[Owner[e]]>> \o @[e]
                     ELSE @[e]],
     !.output = [e \in Entity |->
                   IF e \in DOMAIN types
                   THEN Append(@[e], Request(s, types[e], e, ids[Owner[e]]))
                   ELSE @[e]],
     !.output_line = [o \in Player |->
                        @[o] \o SetToSeq(DOMAIN types \cap OwnedBy(o))]]

(* ManageRemoteCache::cacheOutput, of requests of these types; the         *)
(* entities are serialised here.  "id" in a request is a history: a packet *)
(* does not bear it.                                                       *)
CacheOutput(s, types, ids) ==
  [s EXCEPT
     !.guid_vec = [e \in Entity |->
                     IF e \in DOMAIN types THEN Append(@[e], ids[Owner[e]])
                     ELSE @[e]],
     !.output = [e \in Entity |->
                   IF e \in DOMAIN types
                   THEN Append(@[e], Request(s, types[e], e, ids[Owner[e]]))
                   ELSE @[e]],
     !.output_line = [o \in Player |->
                        @[o] \o SetToSeq(DOMAIN types \cap OwnedBy(o))]]

RequestInfo(kind, o, guids, id) ==
  [id |-> id, kind |-> kind, owner |-> o, guids |-> guids \cap OwnedBy(o),
   complated |-> 0, success |-> {}]

(* commit, of a list for each owner. *)
Commit(s, kind, types) ==
  LET owners == Owners(DOMAIN types)
      ids == RequestIds(s, owners)
  IN  CacheOutput([s EXCEPT !.request_info_vec = @ \cup
                     {RequestInfo(kind, o, DOMAIN types, ids[o]) :
                        o \in owners}],
                  types, ids)

-----------------------------------------------------------------------------
(* PoolImp::update, called by the timer *)

(* What updateDbEntity asks for: an entity that has left the pool, or is   *)
(* being flushed, is passed over.                                          *)
ToRequest(s) ==
  {e \in Entity :
     \/ s.db_entity_map[e] = "remove"
     \/ s.db_entity_map[e] \in {"add", "update"} /\ Gettable(s, e)}

(* updateDbEntity, of every owner: what waited is now being updated, and   *)
(* an owner whose changes have come to nothing is left out.                *)
UpdateDbEntity(s) ==
  LET types == [e \in ToRequest(s) |-> s.db_entity_map[e]]
  IN  Commit([s EXCEPT
                !.updating_db_entity_map =
                  [e \in Entity |-> IF e \in DOMAIN types THEN types[e]
                                    ELSE "none"],
                !.db_entity_map = [e \in Entity |-> "none"],
                !.update_to_db_num = Cardinality(Owners(DOMAIN types))],
             "update", types)

UpdateLists(s) == {l \in s.request_info_vec : l.kind = "update"}

(* update: nothing is sent while answers are due, unless they have been    *)
(* waited for too long (2000 calls); then the next call sends.             *)
UpdatePool(s) ==
  IF \A e \in Entity : s.db_entity_map[e] = "none" THEN {s}
  ELSE IF s.update_to_db_num = 0 THEN {UpdateDbEntity(s)}
  ELSE {s} \cup {t \in {[s EXCEPT !.update_to_db_num = 0]} :
                   Cardinality(UpdateLists(s)) <= MaxBatches}

-----------------------------------------------------------------------------
(* manage_player: the flush of players *)

(* getPlayerEntityMap; those it visits are flushing from then on. *)
Visited(s, owners) ==
  {e \in Entity : Owner[e] \in owners /\ Kind[e] = "part" /\ Gettable(s, e)}

(* What waits to be sent of an owner, as clearUpdateEntity gives it back. *)
Waiting(s, owners, op) ==
  {e \in Entity : Owner[e] \in owners /\ s.db_entity_map[e] = op}

Players(owners) == {PlayerOf(o) : o \in owners}

(* Mutant: new entities that were not yet sent are forgotten. *)
FlushRequestsWithoutNew(s, owners) ==
  [e \in (Visited(s, owners) \ Waiting(s, owners, "add"))
           \cup Waiting(s, owners, "remove") \cup Players(owners) |->
     CASE e \in Players(owners) -> "update"
       [] e \in Waiting(s, owners, "remove") -> "remove"
       [] OTHER -> IF player_state[Owner[e]] = "jumping" THEN "update"
                   ELSE "flush"]

(* Mutant: new entities are flushed as those that have a row. *)
FlushRequestsOfAll(s, owners) ==
  [e \in Visited(s, owners) \cup Waiting(s, owners, "remove")
           \cup Players(owners) |->
     CASE e \in Players(owners) -> "update"
       [] e \in Waiting(s, owners, "remove") -> "remove"
       [] OTHER -> IF player_state[Owner[e]] = "jumping" THEN "update"
                   ELSE "flush"]

(* The types of the requests of a flush: every entity that is visited is   *)
(* written as it is now.  When the player only changes the map, cachesys   *)
(* keeps them.                                                             *)
FlushRequests(s, owners) ==
  LET Jumps(e) == player_state[Owner[e]] = "jumping"
  IN  [e \in Visited(s, owners) \cup Waiting(s, owners, "remove")
               \cup Players(owners) |->
         CASE e \in Players(owners) -> "update"
           [] e \in Waiting(s, owners, "remove") -> "remove"
           [] e \in Waiting(s, owners, "add") ->
                IF Jumps(e) THEN "add" ELSE "add_with_flush"
           [] OTHER -> IF Jumps(e) THEN "update" ELSE "flush"]

(* request_flush_player, of each of these players. *)
RequestFlushPlayer(s, players) ==
  LET owners == {o \in players : Gettable(s, PlayerOf(o))}
  IN  Commit(
        [s EXCEPT
           !.db_entity_map = [e \in Entity |->
                                IF Owner[e] \in owners THEN "none" ELSE @[e]],
           !.entity_map = [e \in Entity |->
                             IF e \in Visited(s, owners) \cup Players(owners)
                             THEN [@[e] EXCEPT !.is_flushing = TRUE]
                             ELSE @[e]]],
        "flush", FlushRequests(s, owners))

(* processNeedFlushPlayer: not while updates wait for answers. *)
ToFlush(s) ==
  IF s.update_to_db_num = 0 THEN need_flush ELSE {}

(* Mutant: what has changed is sent first. *)
UpdatePoolFirst ==
  /\ \E s \in UpdatePool(pool) :
       /\ pool' = RequestFlushPlayer(s, ToFlush(s))
       /\ need_flush' = need_flush \ ToFlush(s)
  /\ UNCHANGED <<inputVars, player_state, cacheVars, made, content>>

(* ManagePlayer::updatePool, the timer's handler. *)
UpdatePoolTimer ==
  /\ \E s \in {RequestFlushPlayer(pool, ToFlush(pool))} :
       pool' \in UpdatePool(s)
  /\ need_flush' = need_flush \ ToFlush(pool)
  /\ UNCHANGED <<inputVars, player_state, cacheVars, made, content>>

(* playerFlushDataFinish, whether or not all was written: what was asked   *)
(* for leaves the pool, and the coin goes to the line scene.  On a jump    *)
(* the coin has left already.                                              *)
PlayerFlushDataFinish(s, l) ==
  LET gone == l.guids \cup (IF player_state[l.owner] = "jumping"
                            THEN {} ELSE Coins(l.owner))
      start == IF s.entity_map[PlayerOf(l.owner)] = NoEntity THEN s
               ELSE [s EXCEPT
                       !.entity_map[PlayerOf(l.owner)].is_flushing = FALSE]
  IN  RemoveFromMemory(start, gone)

-----------------------------------------------------------------------------
(* The answers *)

(* removeDbInfo, for all requests of a list: those that failed stay until  *)
(* the next batch clears them, and are not sent again.                     *)
RemoveDbInfo(s, l) ==
  LET confirmed == {e \in l.guids \cap l.success :
                      s.updating_db_entity_map[e] # "none"}
  IN  CheckShouldRemovedEntity(
        [s EXCEPT !.updating_db_entity_map =
           [e \in Entity |-> IF e \in confirmed THEN "none" ELSE @[e]]],
        confirmed)

(* Mutant: answers that come too late are taken from what is waited for.   *)
UpdateToDbCallbackBelowZero(s, l) ==
  RemoveDbInfo([s EXCEPT !.update_to_db_num = @ - 1], l)

(* updateToDbCallback *)
UpdateToDbCallback(s, l) ==
  RemoveDbInfo([s EXCEPT !.update_to_db_num = IF @ > 0 THEN @ - 1 ELSE 0], l)

(* Mutant: a list is complete with its first answer. *)
HandlePacketFirst(s, id, guid, success) ==
  LET l == CHOOSE l \in s.request_info_vec : l.id = id
      answered == [l EXCEPT !.complated = 1,
                            !.success = IF success THEN {guid} ELSE {}]
      done == [s EXCEPT !.request_info_vec = @ \ {l}]
  IN  IF \A i \in s.request_info_vec : i.id # id THEN s
      ELSE IF l.kind = "update" THEN UpdateToDbCallback(done, answered)
      ELSE PlayerFlushDataFinish(done, answered)

(* PoolImp::handlePacket, and the request list's. *)
HandlePacket(s, id, guid, success) ==
  LET l == CHOOSE l \in s.request_info_vec : l.id = id
      answered == [l EXCEPT !.complated = @ + 1,
                            !.success = IF success THEN @ \cup {guid}
                                        ELSE @]
      others == s.request_info_vec \ {l}
      done == [s EXCEPT !.request_info_vec = others]
  IN  IF \A i \in s.request_info_vec : i.id # id THEN s
      ELSE IF answered.complated # Cardinality(l.guids)
      THEN [s EXCEPT !.request_info_vec = others \cup {answered}]
      ELSE IF l.kind = "update" THEN UpdateToDbCallback(done, answered)
      ELSE PlayerFlushDataFinish(done, answered)

(* getMapID: the entry found is erased. *)
GetMapID(s, guid) ==
  [s EXCEPT !.guid_vec[guid] = IF @ = <<>> THEN @ ELSE Tail(@)]

(* An answer arrives: ManageRemoteCache finds the request it belongs to by *)
(* its GUID, and the scene's thread hands it to the pool.                  *)
CacheInput(o) ==
  /\ input_line[o] # <<>>
  /\ LET e == Head(input_line[o])
     IN  /\ input[e] # <<>>
         /\ pool' = IF pool.guid_vec[e] = <<>> THEN pool
                    ELSE HandlePacket(GetMapID(pool, e),
                                      Head(pool.guid_vec[e]), e,
                                      Head(input[e]).success)
         /\ input' = [input EXCEPT ![e] = Tail(@)]
         /\ input_line' = [input_line EXCEPT ![o] = Tail(@)]
  /\ player_state' =
       [p \in Player |->
          IF /\ \E l \in pool.request_info_vec : l.kind = "flush" /\ l.owner = p
             /\ \A l \in pool'.request_info_vec :
                  ~(l.kind = "flush" /\ l.owner = p)
          THEN "gone" ELSE player_state[p]]
  /\ UNCHANGED <<need_flush, cacheVars, made, content>>

-----------------------------------------------------------------------------
(* The handlers of a scene.  While a player's entities are flushing no     *)
(* handler finds them.                                                     *)

(* A handler changes an entity, or does not, and calls update(guid). *)
Update(e) ==
  /\ Gettable(pool, e) /\ Owned(pool, e)
  /\ \E version \in {content[e], content[e] + 1} \cap 0 .. MaxVersion[e] :
       /\ content' = [content EXCEPT ![e] = version]
       /\ pool' = UpdateToDb([pool EXCEPT !.entity_map[e].version = version],
                             e, "update")
  /\ UNCHANGED <<inputVars, playerVars, cacheVars, made>>

(* add, with add_to_db: a new entity.  A coin is sent at once              *)
(* (directUpdateToDb), with a request id that no list has.                 *)
Add(e) ==
  /\ e \in New \ made
  /\ Gettable(pool, PlayerOf(Owner[e]))
  /\ content' = [content EXCEPT ![e] = 0]
  /\ LET added == [pool EXCEPT !.entity_map[e] =
                     [version |-> 0, is_flushing |-> FALSE,
                      is_remove_from_memory |-> FALSE]]
     IN  pool' = IF Kind[e] = "coin"
                 THEN CacheOutput(added, [f \in {e} |-> "add"],
                                  RequestIds(added, {Owner[e]}))
                 ELSE UpdateToDb(added, e, "add")
  /\ made' = made \cup {e}
  /\ UNCHANGED <<inputVars, playerVars, cacheVars>>

(* remove, with remove_from_db: a part is used up. *)
RemovePart(e) ==
  /\ Kind[e] = "part"
  /\ Gettable(pool, e) /\ Owned(pool, e)
  /\ pool' = RemoveFromDb(pool, e)
  /\ content' = [content EXCEPT ![e] = NoVersion]
  /\ UNCHANGED <<inputVars, playerVars, cacheVars, made>>

(* The player leaves the world (cmsg_player_leave_world). *)
LeaveMap(o) ==
  /\ player_state[o] = "online"
  /\ player_state' = [player_state EXCEPT ![o] = "leaving"]
  /\ need_flush' = need_flush \cup {o}
  /\ UNCHANGED <<pool, inputVars, cacheVars, made, content>>

(* playerJumpMap: the coin leaves the pool at once                         *)
(* (collectTransferPlayerInfo).                                            *)
JumpMap(o) ==
  /\ player_state[o] = "online"
  /\ \A e \in Coins(o) : Gettable(pool, e)
  /\ pool' = RemoveFromMemory(pool, Coins(o))
  /\ player_state' = [player_state EXCEPT ![o] = "jumping"]
  /\ need_flush' = need_flush \cup {o}
  /\ UNCHANGED <<inputVars, cacheVars, made, content>>

-----------------------------------------------------------------------------
(* cachesys, as CacheServer has it: what its handlers record and answer. *)

(* EntityHander::handlePacket, for the next request about an entity.  A    *)
(* flush of an entity that is not in the map is an error; the entity map   *)
(* does not gain one by an update.                                         *)
HandleRequest(o) ==
  /\ pool.output_line[o] # <<>>
  /\ LET e == Head(pool.output_line[o])
         r == Head(pool.output[e])
         known == r.type = "flush" => client[e] = "held"
     IN  /\ pool.output[e] # <<>>
         /\ pool' = [pool EXCEPT !.output[e] = Tail(@),
                                 !.output_line[o] = Tail(@)]
         /\ input' = [input EXCEPT ![e] =
                        Append(@, [success |-> known, id |-> r.id])]
         /\ input_line' = [input_line EXCEPT ![o] = Append(@, e)]
         /\ stored' = IF known THEN [stored EXCEPT ![e] = r.version]
                      ELSE stored
         /\ client' =
              [client EXCEPT ![e] =
                 CASE r.type = "add" -> "held"
                   [] r.type \in {"add_with_flush", "flush"} -> "free"
                   [] r.type = "remove" -> "removed"
                   [] OTHER -> @]
  /\ UNCHANGED <<playerVars, made, content>>

-----------------------------------------------------------------------------
Next ==
  \/ \E e \in Entity :
       Update(e) \/ Add(e) \/ RemovePart(e)
  \/ \E o \in Player :
       LeaveMap(o) \/ JumpMap(o) \/ CacheInput(o) \/ HandleRequest(o)
  \/ UpdatePoolTimer

Spec == Init /\ [][Next]_vars

(* The timer runs, and connections and cachesys go on. *)
Fairness ==
  /\ WF_vars(UpdatePoolTimer)
  /\ \A o \in Player : WF_vars(CacheInput(o)) /\ WF_vars(HandleRequest(o))

FairSpec == Spec /\ Fairness

-----------------------------------------------------------------------------
(* Properties *)

PoolType ==
  [entity_map : [Entity -> EntityInfo \cup {NoEntity}],
   db_entity_map : [Entity -> Op],
   updating_db_entity_map : [Entity -> Op],
   update_to_db_num : Nat,
   request_info_vec :
     SUBSET [id : Id, kind : {"update", "flush"}, owner : Player,
             guids : SUBSET Entity, complated : Nat, success : SUBSET Entity],
   guid_vec : [Entity -> Seq(Id)],
   output : [Entity -> Seq([type : RequestType, id : Id,
                            version : Version \cup {NoVersion}])],
   output_line : [Player -> Seq(Entity)]]

(* The values the variables take; a list of requests never counts more     *)
(* answers than it has requests.                                           *)
EntityPoolTypeOK ==
  /\ pool \in PoolType
  /\ \A l \in pool.request_info_vec :
       /\ l.guids \subseteq OwnedBy(l.owner)
       /\ l.complated < Cardinality(l.guids)
  /\ input \in [Entity -> Seq([success : BOOLEAN, id : Id])]
  /\ input_line \in [Player -> Seq(Entity)]
  /\ player_state \in [Player -> PlayerState]
  /\ need_flush \subseteq Player
  /\ stored \in [Entity -> Version \cup {NoVersion}]
  /\ client \in [Entity -> {"none", "held", "free", "removed"}]
  /\ made \subseteq New
  /\ content \in [Entity -> Version \cup {NoVersion}]

(* A coin's change that waits when its player leaves is forgotten: see the *)
(* README.                                                                 *)
Kept == {e \in Entity : Kind[e] # "coin"}

(* What cachesys will have recorded when it has all that is on its way. *)
WillBeStored(e) ==
  IF pool.output[e] = <<>> THEN stored[e] ELSE Last(pool.output[e]).version

(* A change that the game has announced to the pool (update, add, remove)  *)
(* is never forgotten: it is with cachesys, or on its way there in the     *)
(* last request about the entity, or it waits for the next update with an  *)
(* entity that will still be found then; batches that are waited for in    *)
(* vain, flushes and jumps included.                                       *)
UpdatesAreKept ==
  \A e \in Kept :
    \/ WillBeStored(e) = content[e]
    \/ pool.db_entity_map[e] = "remove" /\ content[e] = NoVersion
    \/ pool.db_entity_map[e] \in {"add", "update"} /\ Gettable(pool, e)

(* What has left the memory of the scene with its player                   *)
(* (playerFlushDataFinish) is recorded as it was last: the player can be   *)
(* loaded by another scene, or after a jump be used there.                 *)
GoneIsStored ==
  \A e \in Kept :
    content[e] # NoVersion /\ pool.entity_map[e] = NoEntity
      => stored[e] = content[e]

(* Every request finds the entity in cachesys as it must be there: nothing *)
(* is added twice, nothing updated or flushed that cachesys has released,  *)
(* or does not have yet.  It is what CacheServer assumes of its clients,   *)
(* and a flush that does not find its entity is lost with its version.     *)
RequestsFitCache ==
  \A e \in Entity :
    pool.output[e] # <<>> =>
      LET type == Head(pool.output[e]).type
      IN  CASE type \in {"add", "add_with_flush"} -> client[e] = "none"
            [] type \in {"update", "flush"} -> client[e] = "held"
            [] OTHER -> client[e] \in {"held", "free"}

(* An answer bears no request id; ManageRemoteCache::getMapID takes the    *)
(* first entry with its GUID, and that is the request it answers, also     *)
(* when an entity is asked for again before the first answer came.         *)
AnswersMatch ==
  \A e \in Entity :
    input[e] # <<>> =>
      pool.guid_vec[e] # <<>> /\ Head(pool.guid_vec[e]) = Head(input[e]).id

(* A player that has left, or jumps to another map, is flushed and gone,   *)
(* however often others change: processNeedFlushPlayer must get its turn   *)
(* between two batches of updates.                                         *)
LeaveIsFinished ==
  \A o \in Player :
    player_state[o] \in {"leaving", "jumping"} ~> player_state[o] = "gone"

=============================================================================
