----------------------------- MODULE CacheServer -----------------------------
(***************************************************************************)
(* cachesys, the cache in front of the database: the entity map and the    *)
(* expired-item map of EntityHander, the loads DbLoader has in flight, and *)
(* the records ManageSerialize puts into binary files.                     *)
(*                                                                         *)
(* EntityHander::svc is one thread, and a handler touches the expired-item *)
(* map and the record vector in one critical section each, so a handler is *)
(* one action.  The packets a handler answers at once have no state of     *)
(* their own; the answers of loads are kept in "answer" and "once_answer". *)
(*                                                                         *)
(* "client" is the game servers' side of an entity: pool and cache give an *)
(* entity to one game server at a time, which loads it, updates it, and    *)
(* gives it up with a flush or a remove.                                   *)
(***************************************************************************)
EXTENDS RecordMerge, Sequences

CONSTANTS NoVersion,     \* no entity, no row
          NoItem,        \* no expired item
          LoadsGivenUp,  \* whether game servers give up loads
                         \* (playerLoadFailed)
          LoadsRepeated, \* whether game servers ask again for an entity
                         \* whose load is under way (one that restarts)
          ReadOnce,      \* bound of the model: entities that are also read
                         \* with LOAD_ONCE
          MaxRecords     \* bound of the model: records ever written

ASSUME NoVersionAssumption == NoVersion \notin Nat
ASSUME LoadsGivenUpAssumption == LoadsGivenUp \in BOOLEAN
ASSUME LoadsRepeatedAssumption == LoadsRepeated \in BOOLEAN
ASSUME ReadOnceAssumption == ReadOnce \subseteq Guid
ASSUME MaxRecordsAssumption == MaxRecords \in Nat

Version == Nat \cup {NoVersion}

(* ManageExpiredItem.h ExpiredItem: a deleted item has no entity. *)
ExpiredItem ==
  {i \in [last_motify_time : Nat, in_use : BOOLEAN, is_delete : BOOLEAN,
          item : Version] :
     i.is_delete <=> i.item = NoVersion}

ASSUME NoItemAssumption == NoItem \notin ExpiredItem

(* A load in DbLoader's queue.  "floor" is a history: the version last     *)
(* acknowledged when the load was asked for; "again" tells a repeated load *)
(* from the first.                                                         *)
LoadRequest ==
  [opcode : {"LOAD", "LOAD_ONCE"}, guid : Guid, floor : Version,
   again : BOOLEAN]

(* A load with its result, in m_db_load_reqplay_vec. *)
LoadReply ==
  [opcode : {"LOAD", "LOAD_ONCE"}, guid : Guid, floor : Version,
   again : BOOLEAN, stream : Version]

VARIABLES
  entity_map,        \* EntityHander::m_entity_map
  lru_map,           \* ManageExpiredItem::m_lru_map
  guid_index,        \* ManageSerialize::m_guid_index, and the clock
  record_set,        \* ManageSerialize::m_record_set
  batch,             \* svc's local record_set
  file,              \* the binary file being written
  file_path_vec,     \* full files not yet handed to convertsys
  data_req_info,     \* DbLoader::m_data_req_info_vec, read by six threads
  db_load_reqplay,   \* EntityHander::m_db_load_reqplay_vec
  client,            \* who holds the entity (environment)
  acked,             \* version of the last acknowledged write (history)
  answer,            \* the last answer to LOAD (history)
  once_answer        \* the last answer to LOAD_ONCE (history)

handlerVars == <<entity_map, lru_map, data_req_info, db_load_reqplay,
                 client, acked, answer, once_answer>>
fileVars == <<batch, file, file_path_vec>>
cacheVars == <<handlerVars, guid_index, record_set, fileVars>>

(* What the game servers know of an entity: it does not exist yet, it was  *)
(* loaded by one of them, it was written by the one that holds it, nobody  *)
(* holds it, it is being loaded, or it was removed.                        *)
ClientState == {"none", "loaded", "held", "free", "loading", "removed"}
Holding == {"loaded", "held"}

NoAnswer == [guid |-> NoVersion, stream |-> NoVersion, floor |-> NoVersion]

CacheTypeOK ==
  /\ entity_map \in [Guid -> Version]
  /\ lru_map \in [Guid -> ExpiredItem \cup {NoItem}]
  /\ guid_index \in Nat
  /\ record_set \in SUBSET Record
  /\ batch \in SUBSET Record
  /\ file \in SUBSET Record
  /\ file_path_vec \in Seq(SUBSET Record)
  /\ data_req_info \in SUBSET LoadRequest
  /\ db_load_reqplay \in SUBSET LoadReply
  /\ client \in [Guid -> ClientState]
  /\ acked \in [Guid -> Version]

(* An entity either does not exist yet or is an old row of the database. *)
CacheInit ==
  /\ entity_map = [g \in Guid |-> NoVersion]
  /\ lru_map = [g \in Guid |-> NoItem]
  /\ guid_index = 0
  /\ record_set = {}
  /\ batch = {}
  /\ file = {}
  /\ file_path_vec = <<>>
  /\ data_req_info = {}
  /\ db_load_reqplay = {}
  /\ client \in [Guid -> {"none", "free"}]
  /\ acked = [g \in Guid |-> IF client[g] = "free" THEN 0 ELSE NoVersion]
  /\ answer = NoAnswer
  /\ once_answer = NoAnswer

-----------------------------------------------------------------------------
(* ManageExpiredItem *)

(* ManageExpiredItem::query: an item that is there and not deleted. *)
Expired(g) == lru_map[g] # NoItem /\ ~lru_map[g].is_delete

(* Mutant: the item that is there stays. *)
UpdateExpiredKeepsItem(g, version) ==
  lru_map' = [lru_map EXCEPT ![g] =
                [last_motify_time |-> version, in_use |-> FALSE,
                 is_delete |-> FALSE,
                 item |-> IF Expired(g) THEN lru_map[g].item ELSE version]]

(* The entity an expired item points to.  An item in use points to the     *)
(* object in the entity map; when that has left the map, the memory is     *)
(* freed and may hold any version.                                         *)
ExpiredEntity(g) ==
  IF lru_map[g].in_use /\ entity_map[g] = NoVersion THEN 0 .. guid_index
  ELSE {lru_map[g].item}

(* ManageExpiredItem::update *)
UpdateExpired(g, version) ==
  lru_map' = [lru_map EXCEPT ![g] =
                [last_motify_time |-> version, in_use |-> FALSE,
                 is_delete |-> FALSE, item |-> version]]

(* Mutant: the item is marked, its entity stays. *)
UpdateExpiredToDeleteKeepsItem(g) ==
  lru_map' = IF lru_map[g] = NoItem THEN lru_map
             ELSE [lru_map EXCEPT ![g] =
                     [@ EXCEPT !.in_use = FALSE, !.is_delete = TRUE]]

(* Mutant: an item in use stays in use. *)
UpdateExpiredToDeleteKeepsInUse(g) ==
  lru_map' = IF lru_map[g] = NoItem THEN lru_map
             ELSE [lru_map EXCEPT ![g] =
                     [@ EXCEPT !.is_delete = TRUE, !.item = NoVersion]]

(* ManageExpiredItem::updateToDelete *)
UpdateExpiredToDelete(g) ==
  lru_map' = IF lru_map[g] = NoItem THEN lru_map
             ELSE [lru_map EXCEPT ![g] =
                     [@ EXCEPT !.in_use = FALSE, !.is_delete = TRUE,
                               !.item = NoVersion]]

(* Mutant: any confirmation removes the item. *)
RemoveExpiredAnyTime(g, last_modify_time) ==
  lru_map' = [lru_map EXCEPT ![g] = NoItem]

(* ManageExpiredItem::remove, on the confirmation of a flush: an item that *)
(* is in use, or is the version confirmed, goes; a later flush stays.      *)
RemoveExpired(g, last_modify_time) ==
  lru_map' = IF /\ lru_map[g] # NoItem
                /\ \/ lru_map[g].in_use
                   \/ lru_map[g].last_motify_time = last_modify_time
             THEN [lru_map EXCEPT ![g] = NoItem]
             ELSE lru_map

-----------------------------------------------------------------------------
(* ManageSerialize *)

NextVersion == guid_index + 1

(* ManageSerialize::writeRecord *)
WriteRecord(g, type) ==
  /\ guid_index < MaxRecords
  /\ guid_index' = NextVersion
  /\ record_set' = record_set \cup
       {[guid |-> NextVersion, object_guid |-> g, optype |-> type]}

(* svc: take what the handlers have written. *)
TakeRecords ==
  /\ batch = {}
  /\ record_set # {}
  /\ batch' = record_set
  /\ record_set' = {}
  /\ UNCHANGED <<handlerVars, guid_index, file, file_path_vec>>

(* Mutant: the newest file goes first. *)
RotateFileToFront ==
  /\ file # {}
  /\ file_path_vec' = <<file>> \o file_path_vec
  /\ file' = {}
  /\ UNCHANGED <<handlerVars, guid_index, record_set, batch>>

(* svc: the file's time is up; it goes to ManageConvertSession::handleFile *)
(* and a new one is opened.  A batch already taken is written to the new   *)
(* file.  (A file without records is handed over too; nothing comes of it.)*)
RotateFile ==
  /\ file # {}
  /\ file_path_vec' = Append(file_path_vec, file)
  /\ file' = {}
  /\ UNCHANGED <<handlerVars, guid_index, record_set, batch>>

(* svc: one SQLite transaction writes the batch. *)
WriteBatch ==
  /\ batch # {}
  /\ file' = file \cup batch
  /\ batch' = {}
  /\ UNCHANGED <<handlerVars, guid_index, record_set, file_path_vec>>

-----------------------------------------------------------------------------
(* EntityHander.  Requests carry the entity, as every sender in pool does. *)

LoadAnswer(g, version) == [guid |-> g, stream |-> version, floor |-> NoVersion]

(* addEntity: an entity that is there already stays. *)
AddEntity(g, version) ==
  entity_map' = IF entity_map[g] # NoVersion THEN entity_map
                ELSE [entity_map EXCEPT ![g] = version]

(* removeEntity *)
RemoveEntity(g) == entity_map' = [entity_map EXCEPT ![g] = NoVersion]

(* updateEntity: an entity that is not there is not added. *)
UpdateEntity(g, version) ==
  entity_map' = IF entity_map[g] = NoVersion THEN entity_map
                ELSE [entity_map EXCEPT ![g] = version]

(* handleNewEntity: GUIDs are not used twice, so the entity is not there. *)
HandleNewEntity(g) ==
  /\ client[g] = "none"
  /\ IF entity_map[g] = NoVersion
     THEN /\ AddEntity(g, NextVersion)
          /\ WriteRecord(g, "INSERT")
     ELSE UNCHANGED <<entity_map, guid_index, record_set>>
  /\ client' = [client EXCEPT ![g] = "held"]
  /\ acked' = [acked EXCEPT ![g] = NextVersion]
  /\ UNCHANGED <<lru_map, data_req_info, db_load_reqplay, answer,
                 once_answer, fileVars>>

(* handleNewEntityWithFlush *)
HandleNewEntityWithFlush(g) ==
  /\ client[g] = "none"
  /\ UpdateExpired(g, NextVersion)
  /\ WriteRecord(g, "INSERT_WITH_FLUSH")
  /\ client' = [client EXCEPT ![g] = "free"]
  /\ acked' = [acked EXCEPT ![g] = NextVersion]
  /\ UNCHANGED <<entity_map, data_req_info, db_load_reqplay, answer,
                 once_answer, fileVars>>

(* handleLoadEntity, answered from the entity map. *)
LoadFromMap(g) ==
  /\ entity_map[g] # NoVersion
  /\ answer' = LoadAnswer(g, entity_map[g])
  /\ client' = [client EXCEPT ![g] = "loaded"]
  /\ UNCHANGED <<entity_map, lru_map, data_req_info>>

(* Mutant: the item is answered and marked, but not added to the map. *)
LoadFromExpiredNotAdded(g) ==
  /\ entity_map[g] = NoVersion
  /\ Expired(g)
  /\ lru_map' = [lru_map EXCEPT ![g] = [@ EXCEPT !.in_use = TRUE]]
  /\ answer' = LoadAnswer(g, lru_map[g].item)
  /\ client' = [client EXCEPT ![g] = "loaded"]
  /\ UNCHANGED <<entity_map, data_req_info>>

(* handleLoadEntity, answered from the expired items: the item moves back  *)
(* to the entity map and stays among the expired items, in use.            *)
LoadFromExpired(g) ==
  /\ entity_map[g] = NoVersion
  /\ Expired(g)
  /\ \E version \in ExpiredEntity(g) :
       /\ AddEntity(g, version)
       /\ answer' = LoadAnswer(g, version)
  /\ lru_map' = [lru_map EXCEPT ![g] = [@ EXCEPT !.in_use = TRUE]]
  /\ client' = [client EXCEPT ![g] = "loaded"]
  /\ UNCHANGED data_req_info

(* Loads that DbLoader has, or has answered. *)
UnderWay(opcode, g) ==
  {r \in data_req_info \cup db_load_reqplay : r.opcode = opcode /\ r.guid = g}

(* handleLoadEntity, passed to DbLoader, which may have loads of the       *)
(* entity already.  Bound of the model: one first load of an entity and one*)
(* repeated load are under way at once.                                    *)
LoadFromDb(g) ==
  LET again == client[g] = "loading"
  IN  /\ entity_map[g] = NoVersion
      /\ ~Expired(g)
      /\ \A r \in UnderWay("LOAD", g) : r.again # again
      /\ data_req_info' = data_req_info \cup
           {[opcode |-> "LOAD", guid |-> g, floor |-> acked[g],
             again |-> again]}
      /\ client' = [client EXCEPT ![g] = "loading"]
      /\ UNCHANGED <<entity_map, lru_map, answer>>

(* handleLoadEntity: asked for by a game server that does not hold the     *)
(* entity, or by one that held it or was loading it, went down and starts  *)
(* again.                                                                  *)
HandleLoadEntity(g) ==
  /\ \/ client[g] \in Holding \cup {"free"}
     \/ client[g] = "loading" /\ LoadsRepeated
  /\ LoadFromMap(g) \/ LoadFromExpired(g) \/ LoadFromDb(g)
  /\ UNCHANGED <<guid_index, record_set, db_load_reqplay, acked,
                 once_answer, fileVars>>

(* handleFlushEntity *)
HandleFlushEntity(g) ==
  /\ client[g] \in Holding
  /\ client' = [client EXCEPT ![g] = "free"]
  /\ IF entity_map[g] = NoVersion
     THEN UNCHANGED <<lru_map, guid_index, record_set, entity_map, acked>>
     ELSE /\ UpdateExpired(g, NextVersion)
          /\ WriteRecord(g, "FLUSH")
          /\ RemoveEntity(g)
          /\ acked' = [acked EXCEPT ![g] = NextVersion]
  /\ UNCHANGED <<data_req_info, db_load_reqplay, answer, once_answer,
                 fileVars>>

(* handleUpdateEntity: acknowledged and recorded whether or not the entity *)
(* is in the map.                                                          *)
HandleUpdateEntity(g) ==
  /\ client[g] \in Holding
  /\ WriteRecord(g, "UPDATE")
  /\ client' = [client EXCEPT ![g] = "held"]
  /\ UpdateEntity(g, NextVersion)
  /\ acked' = [acked EXCEPT ![g] = NextVersion]
  /\ UNCHANGED <<lru_map, data_req_info, db_load_reqplay, answer, once_answer,
                 fileVars>>

(* handleRemoveEntity *)
HandleRemoveEntity(g) ==
  /\ client[g] \in Holding \cup {"free"}
  /\ UpdateExpiredToDelete(g)
  /\ WriteRecord(g, "REMOVE")
  /\ RemoveEntity(g)
  /\ client' = [client EXCEPT ![g] = "removed"]
  /\ acked' = [acked EXCEPT ![g] = NoVersion]
  /\ UNCHANGED <<data_req_info, db_load_reqplay, answer, once_answer,
                 fileVars>>

(* handleOnlyRemoveEntity: some other load of a player failed, and the     *)
(* game server gives up this one.  The expired item is not looked at.      *)
HandleOnlyRemoveEntity(g) ==
  /\ LoadsGivenUp
  /\ client[g] = "loaded"
  /\ RemoveEntity(g)
  /\ client' = [client EXCEPT ![g] = "free"]
  /\ UNCHANGED <<lru_map, guid_index, record_set, data_req_info,
                 db_load_reqplay, acked, answer, once_answer, fileVars>>

(* Mutant: the expired items are asked before the map. *)
LoadOnceFromMapAfterExpired(g) ==
  /\ entity_map[g] # NoVersion
  /\ once_answer' =
       [guid |-> g, floor |-> acked[g],
        stream |-> IF Expired(g) THEN lru_map[g].item ELSE entity_map[g]]
  /\ UNCHANGED data_req_info

(* handleLoadEntityOnce, answered from the entity map, ... *)
LoadOnceFromMap(g) ==
  /\ entity_map[g] # NoVersion
  /\ once_answer' = [guid |-> g, stream |-> entity_map[g], floor |-> acked[g]]
  /\ UNCHANGED data_req_info

(* ... from the expired items, ... *)
LoadOnceFromExpired(g) ==
  /\ entity_map[g] = NoVersion
  /\ Expired(g)
  /\ \E version \in ExpiredEntity(g) :
       once_answer' = [guid |-> g, stream |-> version, floor |-> acked[g]]
  /\ UNCHANGED data_req_info

(* ... or passed to DbLoader.  The model lets one such read wait. *)
LoadOnceFromDb(g) ==
  /\ entity_map[g] = NoVersion
  /\ ~Expired(g)
  /\ UnderWay("LOAD_ONCE", g) = {}
  /\ data_req_info' = data_req_info \cup
       {[opcode |-> "LOAD_ONCE", guid |-> g, floor |-> acked[g],
         again |-> FALSE]}
  /\ UNCHANGED once_answer

(* handleLoadEntityOnce: any game server may read an entity that exists,   *)
(* whoever holds it.                                                       *)
HandleLoadEntityOnce(g) ==
  /\ g \in ReadOnce
  /\ client[g] \in Holding \cup {"free", "loading"}
  /\ LoadOnceFromMap(g) \/ LoadOnceFromExpired(g) \/ LoadOnceFromDb(g)
  /\ UNCHANGED <<entity_map, lru_map, guid_index, record_set,
                 db_load_reqplay, client, acked, answer, fileVars>>

(* What replayLoadEntity answers with a row: addEntity deletes the row if  *)
(* the entity is there already, and freed memory may hold any version.     *)
LoadedEntity(g, stream) ==
  IF stream # NoVersion /\ entity_map[g] # NoVersion THEN 0 .. guid_index
  ELSE {stream}

(* Mutant: a row that was not read is not answered. *)
HandleDbLoadOnlyFound(r) ==
  /\ r \in db_load_reqplay
  /\ db_load_reqplay' = db_load_reqplay \ {r}
  /\ \/ /\ r.opcode = "LOAD"
        /\ AddEntity(r.guid, r.stream)
        /\ client' = IF client[r.guid] # "loading" \/ r.stream = NoVersion
                     THEN client
                     ELSE [client EXCEPT ![r.guid] = "loaded"]
        /\ \E version \in LoadedEntity(r.guid, r.stream) :
             answer' = LoadAnswer(r.guid, version)
        /\ UNCHANGED once_answer
     \/ /\ r.opcode = "LOAD_ONCE"
        /\ once_answer' = [guid |-> r.guid, stream |-> r.stream,
                           floor |-> r.floor]
        /\ UNCHANGED <<entity_map, client, answer>>
  /\ UNCHANGED <<lru_map, guid_index, record_set, data_req_info, acked,
                 fileVars>>

(* handleDbLoad, one of the replies it takes in a batch: a row that was    *)
(* read enters the entity map and is the answer; one that was not is an    *)
(* error answer.  A game server that repeats a load takes up the first     *)
(* answer; a later one finds the entity held, given back or removed.       *)
HandleDbLoad(r) ==
  /\ r \in db_load_reqplay
  /\ db_load_reqplay' = db_load_reqplay \ {r}
  /\ \/ /\ r.opcode = "LOAD"
        /\ AddEntity(r.guid, r.stream)
        /\ client' = IF client[r.guid] # "loading" THEN client
                     ELSE [client EXCEPT ![r.guid] =
                             IF r.stream = NoVersion THEN "free" ELSE "loaded"]
        /\ \E version \in LoadedEntity(r.guid, r.stream) :
             answer' = LoadAnswer(r.guid, version)
        /\ UNCHANGED once_answer
     \/ /\ r.opcode = "LOAD_ONCE"
        /\ once_answer' = [guid |-> r.guid, stream |-> r.stream,
                           floor |-> r.floor]
        /\ UNCHANGED <<entity_map, client, answer>>
  /\ UNCHANGED <<lru_map, guid_index, record_set, data_req_info, acked,
                 fileVars>>

(* The requests of the game servers. *)
HandlePacket ==
  \E g \in Guid :
    \/ HandleNewEntity(g)
    \/ HandleNewEntityWithFlush(g)
    \/ HandleLoadEntity(g)
    \/ HandleFlushEntity(g)
    \/ HandleUpdateEntity(g)
    \/ HandleRemoveEntity(g)
    \/ HandleOnlyRemoveEntity(g)
    \/ HandleLoadEntityOnce(g)

=============================================================================
