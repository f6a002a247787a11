---------------------- MODULE WriteBehindStore_proofs ----------------------
(***************************************************************************)
(* Proofs that cachesys answers loads as one store of entities would       *)
(* (EntityStore), whatever convertsys writes, fails to write or loses, and *)
(* with the rows left as dynamicparse leaves them: for any entities, any   *)
(* number of records and restarts, and any size of files and merges.       *)
(*                                                                         *)
(* The argument: what cachesys forgets is reported written (KeepInv of     *)
(* WriteBehind_proofs), and nothing is written of an entity once its last  *)
(* version is.  So while that version is not reported, the entity map or   *)
(* the expired item holds it, and no load of the entity is in DbLoader;    *)
(* and once it is, the store may answer anything.                          *)
(***************************************************************************)
EXTENDS WriteBehind_proofs

(* Game servers neither give up a load (playerLoadFailed) nor ask again for*)
(* an entity that is being loaded.                                         *)
LoadsComeOnce == ~LoadsGivenUp /\ ~LoadsRepeated

-----------------------------------------------------------------------------
(* The inductive invariant *)

(* The entity map has only entities that are held, in versions acknowledged*)
(* by then.                                                                *)
MapIsHeld ==
  \A g \in Guid :
    entity_map[g] # NoVersion =>
      client[g] \in Holding /\ entity_map[g] \in 0 .. guid_index

(* One LOAD of an entity is under way at most, and only while it is being  *)
(* loaded.                                                                 *)
IsLoad(r) == r.opcode = "LOAD"

OneLoad ==
  /\ \A r \in data_req_info \cup db_load_reqplay :
       IsLoad(r) => client[r.guid] = "loading"
  /\ \A r, s \in data_req_info :
       IsLoad(r) /\ IsLoad(s) /\ r.guid = s.guid => r = s
  /\ \A r, s \in db_load_reqplay :
       IsLoad(r) /\ IsLoad(s) /\ r.guid = s.guid => r = s
  /\ \A r \in data_req_info, s \in db_load_reqplay :
       ~(IsLoad(r) /\ IsLoad(s) /\ r.guid = s.guid)

(* Rows are as they were at first, or removed. *)
RowsAreOld ==
  /\ \A g \in Guid : db[g] \in {0, NoVersion}
  /\ \A r \in db_load_reqplay : r.stream \in {0, NoVersion}

(* An expired item that is not deleted is the version of its time.         *)
ItemIsItsVersion ==
  \A g \in Guid : Expired(g) => lru_map[g].item = lru_map[g].last_motify_time

(* The entity map has the last version, until that is reported written.    *)
MapIsAcked ==
  \A g \in Guid :
    entity_map[g] # NoVersion =>
      entity_map[g] = acked[g] \/ written[g] = acked[g]

(* A read in DbLoader was passed there when what it is to find had been    *)
(* reported written.                                                       *)
ReadsAreReported ==
  \A r \in data_req_info \cup db_load_reqplay :
    r.floor \in Nat =>
      Reported(r.guid, r.floor) \/ client[r.guid] = "removed"

OnceAnswered ==
  once_answer.floor \in Nat =>
    /\ once_answer.guid \in Guid
    /\ OnceNotOlder

MapInv == MapIsHeld /\ OneLoad /\ RowsAreOld
LoadsInv == ItemIsItsVersion /\ MapIsAcked /\ ReadsAreReported /\ OnceAnswered

StoreInv ==
  /\ KeepInv
  /\ guid_index <= MaxRecords
  /\ MapInv
  /\ LoadsInv

LEMMA StoreInvInitial == Init => StoreInv
<1> SUFFICES ASSUME Init PROVE StoreInv
  OBVIOUS
<1>1. /\ \A g \in Guid : /\ entity_map[g] = NoVersion /\ lru_map[g] = NoItem
                         /\ db[g] \in {0, NoVersion}
      /\ data_req_info = {} /\ db_load_reqplay = {}
      /\ once_answer.floor = NoVersion
  BY DEF Init, CacheInit, NoAnswer
<1>2. MapInv
  BY <1>1 DEF MapInv, MapIsHeld, OneLoad, RowsAreOld
<1>3. LoadsInv
  BY <1>1, NoVersionAssumption
  DEF LoadsInv, ItemIsItsVersion, MapIsAcked, ReadsAreReported, OnceAnswered,
      Expired
<1>4. guid_index <= MaxRecords
  BY MaxRecordsAssumption DEF Init, CacheInit
<1> QED BY <1>2, <1>3, <1>4, KeepInvInitial DEF StoreInv

-----------------------------------------------------------------------------
(* MapInv: what is in the entity map and in DbLoader *)

(* What the expired items have of an entity nobody holds is what was last  *)
(* acknowledged.                                                           *)
LEMMA ExpiredIsAcked ==
  ASSUME KeepInv, ItemIsItsVersion, NEW g \in Guid, Exists(g),
         entity_map[g] = NoVersion, Expired(g)
  PROVE  /\ client[g] = "free"
         /\ ExpiredEntity(g) = {acked[g]}
         /\ lru_map[g].item = acked[g]
<1>1. client[g] \in ClientState /\ client[g] \notin Holding
  BY DEF KeepInv, CacheInv, HeldIsCached, WriteBehindTypeOK, CacheTypeOK
<1>2. client[g] = "free" /\ lru_map[g].last_motify_time = acked[g]
  BY <1>1 DEF KeepInv, FreeIsKept, ClientState, Holding, Exists
<1>3. lru_map[g].item = acked[g]
  BY <1>2 DEF ItemIsItsVersion
<1>4. ~lru_map[g].in_use
  BY <1>1 DEF KeepInv, InUseIsHolding, Expired
<1> QED BY <1>2, <1>3, <1>4 DEF ExpiredEntity

(* A request adds to the entity map only what it makes a game server hold. *)
LEMMA HandlePacketHeld ==
  ASSUME ~LoadsGivenUp, KeepInv, MapIsHeld, ItemIsItsVersion, HandlePacket
  PROVE  MapIsHeld'
<1> PICK g \in Guid :
      \/ HandleNewEntity(g)
      \/ HandleNewEntityWithFlush(g)
      \/ HandleLoadEntity(g)
      \/ HandleFlushEntity(g)
      \/ HandleUpdateEntity(g)
      \/ HandleRemoveEntity(g)
      \/ HandleLoadEntityOnce(g)
  BY DEF HandlePacket, HandleOnlyRemoveEntity
<1>1. /\ client \in [Guid -> ClientState]
      /\ entity_map \in [Guid -> Version]
      /\ guid_index \in Nat
      /\ NextVersion = guid_index + 1
  BY DEF KeepInv, CacheInv, WriteBehindTypeOK, CacheTypeOK, NextVersion
<1>2. CASE HandleNewEntity(g)
  BY <1>1, <1>2 DEF HandleNewEntity, AddEntity, WriteRecord, MapIsHeld, Holding
<1>3. CASE HandleNewEntityWithFlush(g)
  BY <1>1, <1>3 DEF HandleNewEntityWithFlush, WriteRecord, MapIsHeld, Holding
<1>4. CASE HandleFlushEntity(g)
  BY <1>1, <1>4 DEF HandleFlushEntity, RemoveEntity, WriteRecord, MapIsHeld
<1>5. CASE HandleUpdateEntity(g)
  BY <1>1, <1>5
  DEF HandleUpdateEntity, UpdateEntity, WriteRecord, MapIsHeld, Holding
<1>6. CASE HandleRemoveEntity(g)
  BY <1>1, <1>6 DEF HandleRemoveEntity, RemoveEntity, WriteRecord, MapIsHeld
<1>7. CASE HandleLoadEntity(g)
  <2>0. guid_index' = guid_index
    BY <1>7 DEF HandleLoadEntity
  <2>1. CASE LoadFromMap(g)
    BY <1>1, <2>0, <2>1 DEF LoadFromMap, MapIsHeld, Holding
  <2>2. CASE LoadFromExpired(g)
    <3>1. Exists(g) /\ entity_map[g] = NoVersion
      BY <1>7, <2>2 DEF HandleLoadEntity, LoadFromExpired, Exists, Holding
    <3>2. ExpiredEntity(g) = {acked[g]}
      BY <2>2, <3>1, ExpiredIsAcked DEF LoadFromExpired
    <3>3. acked[g] \in 0 .. guid_index
      BY <1>1, <3>1 DEF KeepInv, OrderInv, WrittenIsEarlier
    <3>4. /\ entity_map' = [entity_map EXCEPT ![g] = acked[g]]
          /\ client' = [client EXCEPT ![g] = "loaded"]
      BY <2>2, <3>2 DEF LoadFromExpired, AddEntity
    <3> QED BY <1>1, <2>0, <3>3, <3>4 DEF MapIsHeld, Holding
  <2>3. CASE LoadFromDb(g)
    BY <1>1, <2>0, <2>3 DEF LoadFromDb, MapIsHeld
  <2> QED BY <1>7, <2>1, <2>2, <2>3 DEF HandleLoadEntity
<1>8. CASE HandleLoadEntityOnce(g)
  BY <1>8 DEF HandleLoadEntityOnce, MapIsHeld
<1> QED BY <1>2, <1>3, <1>4, <1>5, <1>6, <1>7, <1>8

(* A request passes to DbLoader only what nobody holds or loads. *)
LEMMA HandlePacketOneLoad ==
  ASSUME LoadsComeOnce, CacheInv, OneLoad, HandlePacket
  PROVE  OneLoad' /\ db_load_reqplay' = db_load_reqplay
<1> PICK g \in Guid :
      \/ HandleNewEntity(g)
      \/ HandleNewEntityWithFlush(g)
      \/ HandleLoadEntity(g)
      \/ HandleFlushEntity(g)
      \/ HandleUpdateEntity(g)
      \/ HandleRemoveEntity(g)
      \/ HandleLoadEntityOnce(g)
  BY DEF HandlePacket, HandleOnlyRemoveEntity, LoadsComeOnce
<1>1. /\ client \in [Guid -> ClientState]
      /\ \A r \in data_req_info \cup db_load_reqplay : r.guid \in Guid
      /\ client[g] \in Holding => entity_map[g] # NoVersion
  BY DEF CacheInv, HeldIsCached, WriteBehindTypeOK, CacheTypeOK, LoadRequest,
         LoadReply
<1>2. CASE HandleLoadEntity(g) /\ LoadFromDb(g)
  <2>1. client[g] = "free"
    BY <1>1, <1>2 DEF HandleLoadEntity, LoadFromDb, LoadsComeOnce
  <2> DEFINE q == [opcode |-> "LOAD", guid |-> g, floor |-> acked[g],
                   again |-> FALSE]
  <2>2. /\ data_req_info' = data_req_info \cup {q}
        /\ client' = [client EXCEPT ![g] = "loading"]
        /\ UNCHANGED db_load_reqplay
    BY <1>2, <2>1 DEF HandleLoadEntity, LoadFromDb
  <2>3. q.guid = g
    OBVIOUS
  <2> HIDE DEF q
  <2>4. \A r \in data_req_info \cup db_load_reqplay :
          IsLoad(r) => r.guid # g
    BY <2>1 DEF OneLoad
  <2> QED BY <1>1, <2>2, <2>3, <2>4 DEF OneLoad
<1>3. CASE ~(HandleLoadEntity(g) /\ LoadFromDb(g))
  <2>1. \A h \in Guid : client[h] = "loading" => client'[h] = "loading"
    BY <1>1, <1>3
    DEF HandleNewEntity, HandleNewEntityWithFlush, HandleLoadEntity,
        LoadFromMap, LoadFromExpired, HandleFlushEntity, HandleUpdateEntity,
        HandleRemoveEntity, HandleLoadEntityOnce, Holding, LoadsComeOnce
  <2>2. /\ db_load_reqplay' = db_load_reqplay
        /\ data_req_info \subseteq data_req_info'
        /\ \A r \in data_req_info' : r \in data_req_info \/ ~IsLoad(r)
    BY <1>3
    DEF HandleNewEntity, HandleNewEntityWithFlush, HandleLoadEntity,
        LoadFromMap, LoadFromExpired, HandleFlushEntity, HandleUpdateEntity,
        HandleRemoveEntity, HandleLoadEntityOnce, LoadOnceFromMap,
        LoadOnceFromExpired, LoadOnceFromDb, IsLoad
  <2> QED BY <1>1, <2>1, <2>2 DEF OneLoad
<1> QED BY <1>2, <1>3

(* The reply to a load finds its entity being loaded and not in the entity *)
(* map, and its last version reported written.                             *)
LEMMA LoadIsAwaited ==
  ASSUME KeepInv, MapInv, NEW r \in db_load_reqplay, IsLoad(r)
  PROVE  /\ r.guid \in Guid /\ client[r.guid] = "loading"
         /\ entity_map[r.guid] = NoVersion
         /\ acked[r.guid] \in Nat /\ written[r.guid] = acked[r.guid]
         /\ r.stream \in {0, NoVersion}
<1>1. r.guid \in Guid
  BY DEF KeepInv, CacheInv, WriteBehindTypeOK, CacheTypeOK, LoadReply
<1>2. client[r.guid] = "loading"
  BY DEF MapInv, OneLoad
<1>3. entity_map[r.guid] = NoVersion
  BY <1>1, <1>2 DEF MapInv, MapIsHeld, Holding
<1>4. acked[r.guid] \in Nat /\ written[r.guid] = acked[r.guid]
  BY <1>1, <1>2 DEF KeepInv, OrderInv, WrittenIsEarlier, FreeIsKept, Exists
<1>5. r.stream \in {0, NoVersion}
  BY DEF MapInv, RowsAreOld
<1> QED BY <1>1, <1>2, <1>3, <1>4, <1>5

(* A load that comes back makes its entity held, or free again. *)
LEMMA HandleDbLoadMapInv ==
  ASSUME KeepInv, MapInv, NEW r \in db_load_reqplay, HandleDbLoad(r),
         UNCHANGED convertsysVars
  PROVE  MapInv'
<1>1. /\ client \in [Guid -> ClientState]
      /\ entity_map \in [Guid -> Version]
      /\ guid_index \in Nat /\ guid_index' = guid_index
      /\ \A s \in data_req_info \cup db_load_reqplay : s.guid \in Guid
      /\ db_load_reqplay' = db_load_reqplay \ {r}
      /\ UNCHANGED <<data_req_info, db>>
  BY DEF KeepInv, CacheInv, WriteBehindTypeOK, CacheTypeOK, LoadRequest,
         LoadReply, HandleDbLoad, convertsysVars, dbVars
<1>2. RowsAreOld'
  BY <1>1 DEF MapInv, RowsAreOld
<1>3. CASE IsLoad(r)
  <2>1. /\ entity_map' = [entity_map EXCEPT ![r.guid] = r.stream]
        /\ client' = [client EXCEPT ![r.guid] =
                        IF r.stream = NoVersion THEN "free" ELSE "loaded"]
        /\ r.stream \in {0, NoVersion}
    BY <1>3, LoadIsAwaited DEF HandleDbLoad, IsLoad, AddEntity
  <2>2. MapIsHeld'
    BY <1>1, <2>1, NoVersionAssumption DEF MapInv, MapIsHeld, Holding
  <2>3. OneLoad'
    BY <1>1, <1>3, <2>1 DEF MapInv, OneLoad
  <2> QED BY <1>2, <2>2, <2>3 DEF MapInv
<1>4. CASE ~IsLoad(r)
  BY <1>1, <1>2, <1>4
  DEF HandleDbLoad, IsLoad, MapInv, MapIsHeld, OneLoad
<1> QED BY <1>3, <1>4

(* A load that has read its row, or has failed to, passes from the queue to*)
(* the replies.                                                            *)
LEMMA LoadRowMapInv ==
  ASSUME MapInv, NEW r \in data_req_info, LoadRow(r), r.guid \in Guid
  PROVE  MapInv'
<1> PICK stream \in {db[r.guid], NoVersion} :
      db_load_reqplay' = db_load_reqplay \cup
        {[opcode |-> r.opcode, guid |-> r.guid, floor |-> r.floor,
          again |-> r.again, stream |-> stream]}
  BY DEF LoadRow
<1> DEFINE q == [opcode |-> r.opcode, guid |-> r.guid, floor |-> r.floor,
                 again |-> r.again, stream |-> stream]
<1>1. /\ data_req_info' = data_req_info \ {r}
      /\ db_load_reqplay' = db_load_reqplay \cup {q}
      /\ UNCHANGED <<client, entity_map, guid_index, db>>
  BY DEF LoadRow, dbVars
<1>2. /\ q.guid = r.guid /\ (IsLoad(q) <=> IsLoad(r))
      /\ q.stream \in {0, NoVersion}
  BY DEF IsLoad, MapInv, RowsAreOld
<1> HIDE DEF q
<1>3. OneLoad'
  BY <1>1, <1>2 DEF MapInv, OneLoad
<1> QED BY <1>1, <1>2, <1>3 DEF MapInv, MapIsHeld, RowsAreOld

(* No statement but a remove changes a row. *)
LEMMA WriteMergedRecordRows ==
  ASSUME WriteBehindTypeOK, RowsAreOld, WriteMergedRecord
  PROVE  RowsAreOld'
<1> PICK g \in Guid, success \in BOOLEAN :
      /\ m_merge_record_map[g] # NoRecord
      /\ db' = IF success
               THEN [db EXCEPT ![g] = RowAfter(g, m_merge_record_map[g].optype)]
               ELSE db
  BY DEF WriteMergedRecord
<1>1. m_merge_record_map[g].optype \in RecordType
  BY DEF WriteBehindTypeOK, MergedRecord
<1>2. RowAfter(g, m_merge_record_map[g].optype) \in {db[g], NoVersion}
  BY <1>1 DEF RowAfter, InsertRow, UpdateRow, RemoveRow, RecordType
<1>3. db \in [Guid -> Version] /\ db_load_reqplay' = db_load_reqplay
  BY DEF WriteBehindTypeOK, WriteMergedRecord, cacheVars, handlerVars
<1> QED BY <1>2, <1>3 DEF RowsAreOld

LEMMA MapInvInductive ==
  ASSUME LoadsComeOnce, KeepInv, MapInv, ItemIsItsVersion, [Next]_vars
  PROVE  MapInv'
<1>1. CacheInv /\ WriteBehindTypeOK
  BY DEF KeepInv, CacheInv
<1>2. ASSUME UNCHANGED <<entity_map, client, guid_index, data_req_info,
                         db_load_reqplay, db>>
      PROVE  MapInv'
  BY <1>2 DEF MapInv, MapIsHeld, OneLoad, RowsAreOld
<1>3. CASE CacheStep
  <2>1. UNCHANGED convertsysVars /\ db' = db
    BY <1>3 DEF CacheStep, convertsysVars, dbVars
  <2>2. CASE HandlePacket
    <3>1. MapIsHeld' /\ OneLoad' /\ db_load_reqplay' = db_load_reqplay
      BY <1>1, <2>2, HandlePacketHeld, HandlePacketOneLoad
      DEF LoadsComeOnce, MapInv
    <3> QED BY <2>1, <3>1 DEF MapInv, RowsAreOld
  <2>3. ASSUME NEW r \in db_load_reqplay, HandleDbLoad(r)
        PROVE  MapInv'
    BY <2>1, <2>3, HandleDbLoadMapInv
  <2>4. CASE TakeRecords \/ RotateFile \/ WriteBatch
    BY <1>2, <2>1, <2>4 DEF TakeRecords, RotateFile, WriteBatch, handlerVars
  <2> QED BY <1>3, <2>2, <2>3, <2>4 DEF CacheStep
<1>4. CASE SessionStep
  BY <1>2, <1>4
  DEF SessionStep, StartTransfer, SendFile, ConvertSessionClosed,
      HandleBinaryRecord, cacheVars, handlerVars, dbVars
<1>5. CASE WriteMergedRecord
  <2>1. UNCHANGED <<entity_map, client, guid_index, data_req_info,
                    db_load_reqplay>>
    BY <1>5 DEF WriteMergedRecord, cacheVars, handlerVars
  <2>2. RowsAreOld'
    BY <1>1, <1>5, WriteMergedRecordRows DEF MapInv
  <2> QED BY <2>1, <2>2 DEF MapInv, MapIsHeld, OneLoad
<1>6. CASE \/ OpenFile \/ ProcessRecord \/ EndOfFile \/ EndOfWriting
           \/ ConvertStops \/ ConvertStarts \/ UNCHANGED vars
  BY <1>2, <1>6
  DEF OpenFile, ProcessRecord, EndOfFile, EndOfWriting, ConvertStops,
      ConvertStarts, cacheVars, handlerVars, convertsysVars, dbVars, vars
<1>7. ASSUME NEW r \in data_req_info, LoadRow(r)
      PROVE  MapInv'
  <2>1. r.guid \in Guid
    BY <1>1 DEF WriteBehindTypeOK, CacheTypeOK, LoadRequest
  <2> QED BY <1>7, <2>1, LoadRowMapInv
<1> QED BY <1>3, <1>4, <1>5, <1>6, <1>7 DEF Next, ConvertStep

-----------------------------------------------------------------------------
(* LoadsInv: what loads find *)

(* A request that is recorded, or answered from what cachesys has, changes *)
(* what it has of one entity.                                              *)
LEMMA HandlePacketItems ==
  ASSUME WriteBehindTypeOK, ItemIsItsVersion, HandlePacket
  PROVE  ItemIsItsVersion'
<1> PICK g \in Guid :
      \/ HandleNewEntity(g)
      \/ HandleNewEntityWithFlush(g)
      \/ HandleLoadEntity(g)
      \/ HandleFlushEntity(g)
      \/ HandleUpdateEntity(g)
      \/ HandleRemoveEntity(g)
      \/ HandleOnlyRemoveEntity(g)
      \/ HandleLoadEntityOnce(g)
  BY DEF HandlePacket
<1>1. lru_map \in [Guid -> ExpiredItem \cup {NoItem}]
  BY DEF WriteBehindTypeOK, CacheTypeOK
<1>2. CASE lru_map' = lru_map
  BY <1>2 DEF ItemIsItsVersion, Expired
<1>3. CASE UpdateExpired(g, NextVersion)
  BY <1>1, <1>3 DEF UpdateExpired, ItemIsItsVersion, Expired
<1>4. CASE UpdateExpiredToDelete(g)
  <2>1. \A h \in Guid : h # g => lru_map'[h] = lru_map[h]
    BY <1>1, <1>4 DEF UpdateExpiredToDelete
  <2>2. lru_map'[g] = NoItem \/ lru_map'[g].is_delete
    BY <1>1, <1>4 DEF UpdateExpiredToDelete, ExpiredItem
  <2> QED BY <2>1, <2>2 DEF ItemIsItsVersion, Expired
<1>5. CASE /\ lru_map' = [lru_map EXCEPT ![g] = [@ EXCEPT !.in_use = TRUE]]
           /\ Expired(g)
  <2>1. \A h \in Guid : h # g => lru_map'[h] = lru_map[h]
    BY <1>1, <1>5
  <2>2. /\ lru_map'[g].item = lru_map[g].item
        /\ lru_map'[g].last_motify_time = lru_map[g].last_motify_time
    BY <1>1, <1>5 DEF Expired, ExpiredItem
  <2> QED BY <1>5, <2>1, <2>2 DEF ItemIsItsVersion, Expired
<1>6. \/ lru_map' = lru_map
      \/ UpdateExpired(g, NextVersion)
      \/ UpdateExpiredToDelete(g)
      \/ /\ lru_map' = [lru_map EXCEPT ![g] = [@ EXCEPT !.in_use = TRUE]]
         /\ Expired(g)
  BY DEF HandleNewEntity, HandleNewEntityWithFlush, HandleLoadEntity,
         LoadFromMap, LoadFromExpired, LoadFromDb, HandleFlushEntity,
         HandleUpdateEntity, HandleRemoveEntity, HandleOnlyRemoveEntity,
         HandleLoadEntityOnce
<1> QED BY <1>2, <1>3, <1>4, <1>5, <1>6

(* What a request puts into the entity map is the version it acknowledges, *)
(* or the last one acknowledged.                                           *)
LEMMA HandlePacketMapAcked ==
  ASSUME ~LoadsGivenUp, KeepInv, MapIsHeld, ItemIsItsVersion, MapIsAcked,
         HandlePacket, UNCHANGED convertsysVars
  PROVE  MapIsAcked'
<1> PICK g \in Guid :
      \/ HandleNewEntity(g)
      \/ HandleNewEntityWithFlush(g)
      \/ HandleLoadEntity(g)
      \/ HandleFlushEntity(g)
      \/ HandleUpdateEntity(g)
      \/ HandleRemoveEntity(g)
      \/ HandleLoadEntityOnce(g)
  BY DEF HandlePacket, HandleOnlyRemoveEntity
<1>1. /\ entity_map \in [Guid -> Version]
      /\ acked \in [Guid -> Version]
      /\ entity_map[g] # NoVersion => client[g] \in Holding
      /\ written' = written
  BY DEF KeepInv, CacheInv, WriteBehindTypeOK, CacheTypeOK, MapIsHeld,
         convertsysVars, dbVars
<1>2. CASE HandleNewEntity(g)
  BY <1>1, <1>2 DEF HandleNewEntity, AddEntity, MapIsAcked, Holding
<1>3. CASE HandleNewEntityWithFlush(g)
  BY <1>1, <1>3 DEF HandleNewEntityWithFlush, MapIsAcked, Holding
<1>4. CASE HandleFlushEntity(g)
  BY <1>1, <1>4 DEF HandleFlushEntity, RemoveEntity, MapIsAcked
<1>5. CASE HandleUpdateEntity(g)
  BY <1>1, <1>5 DEF HandleUpdateEntity, UpdateEntity, MapIsAcked
<1>6. CASE HandleRemoveEntity(g)
  BY <1>1, <1>6 DEF HandleRemoveEntity, RemoveEntity, MapIsAcked
<1>7. CASE HandleLoadEntity(g)
  <2>1. Exists(g) /\ acked' = acked
    BY <1>7 DEF HandleLoadEntity, Exists, Holding
  <2>2. CASE entity_map' = entity_map
    BY <1>1, <2>1, <2>2 DEF MapIsAcked
  <2>3. CASE LoadFromExpired(g)
    <3>1. entity_map[g] = NoVersion /\ ExpiredEntity(g) = {acked[g]}
      BY <2>1, <2>3, ExpiredIsAcked DEF LoadFromExpired
    <3>2. entity_map' = [entity_map EXCEPT ![g] = acked[g]]
      BY <2>3, <3>1 DEF LoadFromExpired, AddEntity
    <3> QED BY <1>1, <2>1, <3>2 DEF MapIsAcked
  <2> QED BY <1>7, <2>2, <2>3 DEF HandleLoadEntity, LoadFromMap, LoadFromDb
<1>8. CASE HandleLoadEntityOnce(g)
  BY <1>1, <1>8 DEF HandleLoadEntityOnce, MapIsAcked
<1> QED BY <1>2, <1>3, <1>4, <1>5, <1>6, <1>7, <1>8

(* A removed entity stays removed. *)
LEMMA RemovedForEver ==
  ASSUME CacheInv, [Next]_vars, NEW g \in Guid, client[g] = "removed"
  PROVE  client'[g] = "removed"
<1>1. client \in [Guid -> ClientState] /\ CacheTypeOK
  BY DEF CacheInv, WriteBehindTypeOK, CacheTypeOK
<1>2. CASE HandlePacket
  <2> PICK h \in Guid :
        \/ HandleNewEntity(h)
        \/ HandleNewEntityWithFlush(h)
        \/ HandleLoadEntity(h)
        \/ HandleFlushEntity(h)
        \/ HandleUpdateEntity(h)
        \/ HandleRemoveEntity(h)
        \/ HandleOnlyRemoveEntity(h)
        \/ HandleLoadEntityOnce(h)
    BY <1>2 DEF HandlePacket
  <2> QED BY <1>1
      DEF HandleNewEntity, HandleNewEntityWithFlush, HandleLoadEntity,
          LoadFromMap, LoadFromExpired, LoadFromDb, HandleFlushEntity,
          HandleUpdateEntity, HandleRemoveEntity, HandleOnlyRemoveEntity,
          HandleLoadEntityOnce, Holding
<1>3. ASSUME NEW r \in db_load_reqplay, HandleDbLoad(r)
      PROVE  client'[g] = "removed"
  BY <1>1, <1>3, HandleDbLoadClient
<1>4. CASE client' = client
  BY <1>4
<1> QED BY <1>2, <1>3, <1>4
    DEF Next, CacheStep, TakeRecords, RotateFile, WriteBatch, SessionStep,
        StartTransfer, SendFile, ConvertSessionClosed, HandleBinaryRecord,
        ConvertStep, OpenFile, ProcessRecord, EndOfFile, WriteMergedRecord,
        EndOfWriting, ConvertStops, ConvertStarts, LoadRow, cacheVars,
        handlerVars, vars

(* What has been reported written, or is removed, stays so. *)
LEMMA ReportedForEver ==
  ASSUME KeepInv, [Next]_vars, NEW g \in Guid, NEW v \in Nat,
         Reported(g, v) \/ client[g] = "removed"
  PROVE  Reported(g, v)' \/ client'[g] = "removed"
<1>1. CASE client[g] = "removed"
  BY <1>1, RemovedForEver DEF KeepInv
<1>2. CASE Reported(g, v)
  BY <1>2, OnlyWritesLater DEF KeepInv, Reported
<1> QED BY <1>1, <1>2

(* Once the last version of an entity that exists is written, nothing of   *)
(* the entity is left to write.                                            *)
LEMMA WrittenStays ==
  ASSUME KeepInv, WriteMergedRecord, NEW g \in Guid, Exists(g),
         written[g] = acked[g]
  PROVE  written'[g] = acked'[g]
<1>1. acked[g] \in Nat
  BY DEF KeepInv, OrderInv, WrittenIsEarlier
<1>2. m_merge_record_map[g] = NoRecord
  <2> SUFFICES ASSUME m_merge_record_map[g] # NoRecord PROVE FALSE
    OBVIOUS
  <2>1. Later(m_merge_record_map[g].stream, g)
    BY DEF KeepInv, OrderInv, MergedIsLater
  <2>2. m_merge_record_map[g].stream \in Nat
    BY DEF KeepInv, CacheInv, WriteBehindTypeOK, MergedRecord
  <2> QED BY <1>1, <2>1, <2>2 DEF Later
<1>3. written \in [Guid -> Version] /\ acked' = acked
  BY DEF KeepInv, CacheInv, WriteBehindTypeOK, WriteMergedRecord, cacheVars,
         handlerVars
<1> QED BY <1>2, <1>3 DEF WriteMergedRecord

(* The entity map keeps the last version, or one that is reported written. *)
LEMMA MapAckedInductive ==
  ASSUME ~LoadsGivenUp, KeepInv, MapInv, ItemIsItsVersion, MapIsAcked,
         [Next]_vars
  PROVE  MapIsAcked'
<1>1. CASE UNCHANGED <<entity_map, acked, written>>
  BY <1>1 DEF MapIsAcked
<1>2. CASE CacheStep
  <2>1. UNCHANGED convertsysVars /\ written' = written
    BY <1>2 DEF CacheStep, convertsysVars, dbVars
  <2>2. CASE HandlePacket
    BY <2>1, <2>2, HandlePacketMapAcked DEF MapInv
  <2>3. ASSUME NEW r \in db_load_reqplay, HandleDbLoad(r)
        PROVE  MapIsAcked'
    <3>1. acked' = acked /\ entity_map \in [Guid -> Version]
      BY <2>3 DEF HandleDbLoad, KeepInv, CacheInv, WriteBehindTypeOK,
                  CacheTypeOK
    <3>2. CASE IsLoad(r)
      <4>1. \A h \in Guid : h # r.guid => entity_map'[h] = entity_map[h]
        BY <2>3, <3>1 DEF HandleDbLoad, AddEntity
      <4>2. written[r.guid] = acked[r.guid]
        BY <3>2, LoadIsAwaited
      <4> QED BY <2>1, <3>1, <4>1, <4>2 DEF MapIsAcked
    <3>3. CASE ~IsLoad(r)
      BY <2>1, <2>3, <3>1, <3>3 DEF HandleDbLoad, IsLoad, MapIsAcked
    <3> QED BY <3>2, <3>3
  <2>4. CASE TakeRecords \/ RotateFile \/ WriteBatch
    BY <1>1, <2>1, <2>4 DEF TakeRecords, RotateFile, WriteBatch, handlerVars
  <2> QED BY <1>2, <2>2, <2>3, <2>4 DEF CacheStep
<1>3. CASE SessionStep
  BY <1>1, <1>3
  DEF SessionStep, StartTransfer, SendFile, ConvertSessionClosed,
      HandleBinaryRecord, cacheVars, handlerVars, dbVars
<1>4. CASE WriteMergedRecord
  <2>1. UNCHANGED <<entity_map, acked>>
    BY <1>4 DEF WriteMergedRecord, cacheVars, handlerVars
  <2> SUFFICES ASSUME NEW g \in Guid, entity_map[g] # NoVersion
               PROVE  entity_map[g] = acked[g] \/ written'[g] = acked[g]
    BY <2>1 DEF MapIsAcked
  <2>2. Exists(g)
    BY DEF MapInv, MapIsHeld, Exists, Holding
  <2> QED BY <1>4, <2>1, <2>2, WrittenStays DEF MapIsAcked
<1>5. CASE \/ OpenFile \/ ProcessRecord \/ EndOfFile \/ EndOfWriting
           \/ ConvertStops \/ ConvertStarts \/ UNCHANGED vars
  BY <1>1, <1>5
  DEF OpenFile, ProcessRecord, EndOfFile, EndOfWriting, ConvertStops,
      ConvertStarts, cacheVars, handlerVars, convertsysVars, dbVars, vars
<1>6. ASSUME NEW r \in data_req_info, LoadRow(r)
      PROVE  MapIsAcked'
  BY <1>1, <1>6 DEF LoadRow, dbVars
<1> QED BY <1>2, <1>3, <1>4, <1>5, <1>6 DEF Next, ConvertStep

(* A confirmation drops an item, a request replaces it. *)
LEMMA ItemsInductive ==
  ASSUME WriteBehindTypeOK, ItemIsItsVersion, [Next]_vars
  PROVE  ItemIsItsVersion'
<1>1. CASE \A h \in Guid : lru_map'[h] = lru_map[h] \/ lru_map'[h] = NoItem
  BY <1>1 DEF ItemIsItsVersion, Expired
<1>2. CASE HandlePacket
  BY <1>2, HandlePacketItems
<1>3. CASE HandleBinaryRecord
  <2>1. lru_map \in [Guid -> ExpiredItem \cup {NoItem}]
    BY DEF WriteBehindTypeOK, CacheTypeOK
  <2> QED BY <1>1, <1>3, <2>1 DEF HandleBinaryRecord, RemoveExpired
<1>4. CASE lru_map' = lru_map
  BY <1>1, <1>4
<1> QED BY <1>2, <1>3, <1>4
    DEF Next, CacheStep, HandleDbLoad, TakeRecords, RotateFile, WriteBatch,
        SessionStep, StartTransfer, SendFile, ConvertSessionClosed,
        ConvertStep, OpenFile, ProcessRecord, EndOfFile, WriteMergedRecord,
        EndOfWriting, ConvertStops, ConvertStarts, LoadRow, cacheVars,
        handlerVars, vars

(* What a request passes to DbLoader is forgotten, so it is reported.      *)
LEMMA NewReadIsReported ==
  ASSUME KeepInv, HandlePacket, NEW r \in data_req_info', r \notin data_req_info,
         r.floor \in Nat
  PROVE  Reported(r.guid, r.floor)
<1> PICK g \in Guid :
      /\ entity_map[g] = NoVersion /\ ~Expired(g)
      /\ client[g] \in Holding \cup {"free", "loading"}
      /\ r.guid = g /\ r.floor = acked[g]
  <2> PICK g \in Guid :
        /\ client[g] \in Holding \cup {"free", "loading"}
        /\ LoadFromDb(g) \/ LoadOnceFromDb(g)
    BY DEF HandlePacket, HandleNewEntity, HandleNewEntityWithFlush,
           HandleLoadEntity, LoadFromMap, LoadFromExpired, HandleFlushEntity,
           HandleUpdateEntity, HandleRemoveEntity, HandleOnlyRemoveEntity,
           HandleLoadEntityOnce, LoadOnceFromMap, LoadOnceFromExpired
  <2> QED BY DEF LoadFromDb, LoadOnceFromDb
<1>1. client[g] \in {"free", "loading"}
  BY DEF KeepInv, CacheInv, HeldIsCached
<1>2. written[g] = acked[g]
  BY <1>1 DEF KeepInv, FreeIsKept
<1> QED BY <1>2 DEF Reported

LEMMA ReadsInductive ==
  ASSUME KeepInv, ReadsAreReported, [Next]_vars
  PROVE  ReadsAreReported'
<1>1. /\ \A r \in data_req_info \cup db_load_reqplay : r.guid \in Guid
      /\ data_req_info \subseteq LoadRequest
  BY DEF KeepInv, CacheInv, WriteBehindTypeOK, CacheTypeOK, LoadRequest,
         LoadReply
<1>2. ASSUME NEW r \in data_req_info \cup db_load_reqplay, r.floor \in Nat
      PROVE  Reported(r.guid, r.floor)' \/ client'[r.guid] = "removed"
  BY <1>1, <1>2, ReportedForEver DEF ReadsAreReported
<1>3. CASE HandlePacket /\ UNCHANGED convertsysVars
  <2>1. db_load_reqplay' = db_load_reqplay /\ written' = written
    BY <1>3
    DEF HandlePacket, HandleNewEntity, HandleNewEntityWithFlush,
        HandleLoadEntity, HandleFlushEntity, HandleUpdateEntity,
        HandleRemoveEntity, HandleOnlyRemoveEntity, HandleLoadEntityOnce,
        convertsysVars, dbVars
  <2>2. ASSUME NEW r \in data_req_info', r \notin data_req_info,
               r.floor \in Nat
        PROVE  Reported(r.guid, r.floor)'
    BY <1>3, <2>1, <2>2, NewReadIsReported DEF Reported
  <2> QED BY <1>2, <2>1, <2>2 DEF ReadsAreReported
<1>4. ASSUME NEW r \in data_req_info, LoadRow(r)
      PROVE  ReadsAreReported'
  <2>1. \A q \in data_req_info' \cup db_load_reqplay' :
          \/ q \in data_req_info \cup db_load_reqplay
          \/ q.guid = r.guid /\ q.floor = r.floor
    BY <1>4 DEF LoadRow
  <2> QED BY <1>2, <2>1 DEF ReadsAreReported, Reported
<1>5. CASE /\ data_req_info' \subseteq data_req_info
           /\ db_load_reqplay' \subseteq db_load_reqplay
  BY <1>2, <1>5 DEF ReadsAreReported, Reported
<1> QED BY <1>3, <1>4, <1>5
    DEF Next, CacheStep, HandleDbLoad, TakeRecords, RotateFile, WriteBatch,
        SessionStep, StartTransfer, SendFile, ConvertSessionClosed,
        HandleBinaryRecord, ConvertStep, OpenFile, ProcessRecord, EndOfFile,
        WriteMergedRecord, EndOfWriting, ConvertStops, ConvertStarts,
        cacheVars, handlerVars, vars

(* LOAD_ONCE is answered from the entity map or the expired items with the *)
(* last version, or with whatever the map has when that is reported.       *)
LEMMA HandlePacketOnce ==
  ASSUME KeepInv, ItemIsItsVersion, MapIsAcked, HandlePacket,
         UNCHANGED convertsysVars, once_answer' # once_answer
  PROVE  OnceAnswered'
<1> PICK g \in Guid : HandleLoadEntityOnce(g)
  BY DEF HandlePacket, HandleNewEntity, HandleNewEntityWithFlush,
         HandleLoadEntity, HandleFlushEntity, HandleUpdateEntity,
         HandleRemoveEntity, HandleOnlyRemoveEntity
<1>1. Exists(g) /\ written' = written
  BY DEF HandleLoadEntityOnce, Holding, Exists, convertsysVars, dbVars
<1> PICK v : /\ once_answer' = [guid |-> g, stream |-> v, floor |-> acked[g]]
             /\ v = acked[g] \/ written[g] = acked[g]
  <2>1. CASE LoadOnceFromMap(g)
    BY <2>1 DEF LoadOnceFromMap, MapIsAcked
  <2>2. CASE LoadOnceFromExpired(g)
    <3>1. ExpiredEntity(g) = {acked[g]}
      BY <1>1, <2>2, ExpiredIsAcked DEF LoadOnceFromExpired
    <3> QED BY <2>2, <3>1 DEF LoadOnceFromExpired
  <2> QED BY <2>1, <2>2 DEF HandleLoadEntityOnce, LoadOnceFromDb
<1>2. /\ once_answer'.guid = g /\ once_answer'.stream = v
      /\ once_answer'.floor = acked[g]
  OBVIOUS
<1> QED BY <1>1, <1>2 DEF OnceAnswered, OnceNotOlder, Reported

LEMMA OnceInductive ==
  ASSUME KeepInv, ItemIsItsVersion, MapIsAcked, ReadsAreReported,
         OnceAnswered, [Next]_vars
  PROVE  OnceAnswered'
<1>1. CASE once_answer' = once_answer
  BY <1>1, ReportedForEver DEF OnceAnswered, OnceNotOlder
<1>2. CASE CacheStep /\ HandlePacket /\ once_answer' # once_answer
  BY <1>2, HandlePacketOnce DEF CacheStep
<1>3. ASSUME NEW r \in db_load_reqplay, HandleDbLoad(r),
             once_answer' # once_answer
      PROVE  OnceAnswered'
  <2>1. /\ once_answer'.guid = r.guid /\ once_answer'.floor = r.floor
        /\ r.guid \in Guid
    BY <1>3 DEF HandleDbLoad, KeepInv, CacheInv, WriteBehindTypeOK,
                CacheTypeOK, LoadReply
  <2>2. r.floor \in Nat =>
          Reported(r.guid, r.floor)' \/ client'[r.guid] = "removed"
    BY <2>1, ReportedForEver DEF ReadsAreReported
  <2>3. /\ once_answer.guid' = r.guid /\ once_answer.floor' = r.floor
    BY <2>1
  <2> QED BY <2>1, <2>2, <2>3 DEF OnceAnswered, OnceNotOlder, Reported
<1> QED BY <1>1, <1>2, <1>3
    DEF Next, CacheStep, TakeRecords, RotateFile, WriteBatch, SessionStep,
        StartTransfer, SendFile, ConvertSessionClosed, HandleBinaryRecord,
        ConvertStep, OpenFile, ProcessRecord, EndOfFile, WriteMergedRecord,
        EndOfWriting, ConvertStops, ConvertStarts, LoadRow, cacheVars,
        handlerVars, vars

-----------------------------------------------------------------------------
(* StoreInv *)

(* Records are numbered up to the bound of the model. *)
LEMMA NumbersAreBounded ==
  ASSUME WriteBehindTypeOK, guid_index <= MaxRecords, [Next]_vars
  PROVE  guid_index' <= MaxRecords
<1>1. guid_index \in Nat
  BY DEF WriteBehindTypeOK, CacheTypeOK
<1>2. CASE HandlePacket
  <2>1. \/ guid_index' = guid_index
        \/ guid_index < MaxRecords /\ guid_index' = guid_index + 1
    BY <1>2
    DEF HandlePacket, HandleNewEntity, HandleNewEntityWithFlush,
        HandleLoadEntity, HandleFlushEntity, HandleUpdateEntity,
        HandleRemoveEntity, HandleOnlyRemoveEntity, HandleLoadEntityOnce,
        WriteRecord, NextVersion
  <2> QED BY <1>1, <2>1, MaxRecordsAssumption
<1>3. CASE ~HandlePacket
  <2>1. guid_index' = guid_index
    BY <1>3
    DEF Next, CacheStep, HandleDbLoad, TakeRecords, RotateFile, WriteBatch,
        SessionStep, StartTransfer, SendFile, ConvertSessionClosed,
        HandleBinaryRecord, ConvertStep, OpenFile, ProcessRecord, EndOfFile,
        WriteMergedRecord, EndOfWriting, ConvertStops, ConvertStarts, LoadRow,
        cacheVars, vars
  <2> QED BY <2>1
<1> QED BY <1>2, <1>3

LEMMA StoreInvInductive ==
  ASSUME LoadsComeOnce, StoreInv, [Next]_vars
  PROVE  StoreInv'
<1>1. /\ KeepInv /\ MapInv /\ ItemIsItsVersion /\ MapIsAcked
      /\ ReadsAreReported /\ OnceAnswered /\ WriteBehindTypeOK
      /\ ~LoadsGivenUp /\ guid_index <= MaxRecords
  BY DEF StoreInv, LoadsInv, LoadsComeOnce, KeepInv, CacheInv
<1>2. KeepInv' /\ MapInv'
  BY <1>1, KeepInvInductive, MapInvInductive
<1>3. ItemIsItsVersion' /\ MapIsAcked'
  BY <1>1, ItemsInductive, MapAckedInductive
<1>4. ReadsAreReported' /\ OnceAnswered'
  BY <1>1, ReadsInductive, OnceInductive
<1>5. (guid_index <= MaxRecords)'
  BY <1>1, NumbersAreBounded
<1> QED BY <1>2, <1>3, <1>4, <1>5 DEF StoreInv, LoadsInv

(* If no load is given up or repeated, what handleLoadEntityOnce answers is*)
(* no older than the entity was when the request was taken up, unless      *)
(* convertsys has reported that version written (or the entity is removed):*)
(* although others write and flush the entity while DbLoader reads it.     *)
THEOREM OnceIsNotOlder ==
  ASSUME LoadsComeOnce
  PROVE  Spec => []OnceNotOlder
<1>1. StoreInv => OnceNotOlder
  BY DEF StoreInv, LoadsInv, OnceAnswered, OnceNotOlder
<1>2. StoreInv /\ [Next]_vars => StoreInv'
  BY StoreInvInductive
<1> QED BY <1>1, <1>2, StoreInvInitial, PTL DEF Spec

-----------------------------------------------------------------------------
(* The path implements the store *)

(* What a request does to the store: it writes one entity, removes one, or *)
(* loads one that is there.                                                *)
LEMMA HandlePacketStore ==
  ASSUME LoadsComeOnce, StoreInv, HandlePacket, UNCHANGED convertsysVars
  PROVE  [Store!Next]_Store!vars
<1> PICK g \in Guid :
      \/ HandleNewEntity(g)
      \/ HandleNewEntityWithFlush(g)
      \/ HandleLoadEntity(g)
      \/ HandleFlushEntity(g)
      \/ HandleUpdateEntity(g)
      \/ HandleRemoveEntity(g)
      \/ HandleLoadEntityOnce(g)
  BY DEF HandlePacket, HandleOnlyRemoveEntity, LoadsComeOnce
<1>1. /\ guid_index \in Nat /\ guid_index <= MaxRecords
      /\ client[g] \in Holding <=> entity_map[g] # NoVersion
      /\ entity_map[g] # NoVersion => entity_map[g] \in 0 .. guid_index
      /\ MapIsAcked /\ ItemIsItsVersion /\ KeepInv
      /\ written' = written
  BY DEF StoreInv, KeepInv, CacheInv, WriteBehindTypeOK, CacheTypeOK, MapInv,
         MapIsHeld, HeldIsCached, LoadsInv, convertsysVars, dbVars
<1>2. ASSUME guid_index < MaxRecords,
             acked' = [acked EXCEPT ![g] = NextVersion],
             answer' = answer
      PROVE  Store!Next
  <2>1. NextVersion \in 0 .. MaxRecords
    BY <1>1, <1>2, MaxRecordsAssumption DEF NextVersion
  <2>2. Store!Write(g, NextVersion)
    BY <1>1, <1>2 DEF Store!Write
  <2> QED BY <2>1, <2>2 DEF Store!Next
<1>3. CASE HandleNewEntity(g)
  BY <1>1, <1>2, <1>3 DEF HandleNewEntity, WriteRecord, Holding
<1>4. CASE HandleNewEntityWithFlush(g)
  BY <1>2, <1>4 DEF HandleNewEntityWithFlush, WriteRecord
<1>5. CASE HandleFlushEntity(g)
  BY <1>1, <1>2, <1>5 DEF HandleFlushEntity, WriteRecord
<1>6. CASE HandleUpdateEntity(g)
  BY <1>2, <1>6 DEF HandleUpdateEntity, WriteRecord
<1>7. CASE HandleRemoveEntity(g)
  <2>1. Store!Remove(g)
    BY <1>1, <1>7 DEF HandleRemoveEntity, Store!Remove
  <2> QED BY <2>1 DEF Store!Next
<1>8. CASE HandleLoadEntity(g)
  <2>1. Exists(g) /\ acked' = acked
    BY <1>8 DEF HandleLoadEntity, Exists, Holding
  <2>2. acked[g] \in Nat /\ acked[g] <= guid_index
    BY <1>1, <2>1 DEF KeepInv, OrderInv, WrittenIsEarlier
  <2>3. CASE answer' = answer
    BY <1>1, <2>1, <2>3 DEF Store!vars
  <2>4. ASSUME NEW v \in 0 .. MaxRecords, answer' = LoadAnswer(g, v),
               v = acked[g] \/ written[g] = acked[g]
        PROVE  Store!Next
    <3>1. answer'.guid = g /\ answer'.stream = v
      BY <2>4 DEF LoadAnswer
    <3>2. Store!Load(g, v)
      BY <1>1, <2>1, <2>2, <2>4, <3>1, NoVersionAssumption DEF Store!Load
    <3> QED BY <3>2 DEF Store!Next
  <2>5. CASE LoadFromMap(g)
    <3>1. entity_map[g] \in 0 .. MaxRecords
      BY <1>1, <2>5, MaxRecordsAssumption DEF LoadFromMap
    <3>2. entity_map[g] = acked[g] \/ written[g] = acked[g]
      BY <1>1, <2>5 DEF LoadFromMap, MapIsAcked
    <3> QED BY <2>4, <2>5, <3>1, <3>2 DEF LoadFromMap
  <2>6. CASE LoadFromExpired(g)
    <3>1. ExpiredEntity(g) = {acked[g]}
      BY <1>1, <2>1, <2>6, ExpiredIsAcked DEF LoadFromExpired
    <3>2. acked[g] \in 0 .. MaxRecords
      BY <1>1, <2>2, MaxRecordsAssumption
    <3> QED BY <2>4, <2>6, <3>1, <3>2 DEF LoadFromExpired
  <2> QED BY <1>8, <2>3, <2>5, <2>6 DEF HandleLoadEntity, LoadFromDb
<1>9. CASE HandleLoadEntityOnce(g)
  BY <1>1, <1>9 DEF HandleLoadEntityOnce, Store!vars
<1> QED BY <1>3, <1>4, <1>5, <1>6, <1>7, <1>8, <1>9

(* handleDbLoad answers a LOAD with what the row had; the store may answer *)
(* anything, as the last version is reported written.                      *)
LEMMA HandleDbLoadStore ==
  ASSUME StoreInv, NEW r \in db_load_reqplay, HandleDbLoad(r),
         UNCHANGED convertsysVars
  PROVE  [Store!Next]_Store!vars
<1>1. acked' = acked /\ written' = written
  BY DEF HandleDbLoad, convertsysVars, dbVars
<1>2. CASE IsLoad(r)
  <2>1. /\ r.guid \in Guid /\ entity_map[r.guid] = NoVersion
        /\ acked[r.guid] \in Nat /\ written[r.guid] = acked[r.guid]
        /\ r.stream \in {0, NoVersion}
    BY <1>2, LoadIsAwaited DEF StoreInv
  <2>2. answer' = LoadAnswer(r.guid, r.stream)
    BY <1>2, <2>1 DEF HandleDbLoad, IsLoad, LoadedEntity
  <2>3. answer'.guid = r.guid /\ answer'.stream = r.stream
    BY <2>2 DEF LoadAnswer
  <2>4. Store!Load(r.guid, r.stream)
    BY <1>1, <2>1, <2>3, NoVersionAssumption DEF Store!Load
  <2>5. r.stream \in (0 .. MaxRecords) \cup {NoVersion}
    BY <2>1, MaxRecordsAssumption
  <2> QED BY <2>1, <2>4, <2>5 DEF Store!Next
<1>3. CASE ~IsLoad(r)
  BY <1>1, <1>3 DEF HandleDbLoad, IsLoad, Store!vars
<1> QED BY <1>2, <1>3

(* A record that is written is a report; one that is not changes nothing.  *)
LEMMA WriteMergedRecordStore ==
  ASSUME StoreInv, WriteMergedRecord
  PROVE  [Store!Next]_Store!vars
<1> PICK g \in Guid, success \in BOOLEAN :
      /\ m_merge_record_map[g] # NoRecord
      /\ written' = IF success
                    THEN [written EXCEPT ![g] = m_merge_record_map[g].stream]
                    ELSE written
  BY DEF WriteMergedRecord
<1>1. UNCHANGED <<acked, answer>>
  BY DEF WriteMergedRecord, cacheVars, handlerVars
<1>2. CASE success
  <2>1. /\ m_merge_record_map[g].stream \in Nat /\ guid_index \in Nat
        /\ guid_index <= MaxRecords
    BY DEF StoreInv, KeepInv, CacheInv, WriteBehindTypeOK, CacheTypeOK,
           MergedRecord
  <2>2. m_merge_record_map[g].stream <= guid_index
    BY DEF StoreInv, KeepInv, OrderInv, MergedIsLater, Later
  <2>3. m_merge_record_map[g].stream \in 0 .. MaxRecords
    BY <2>1, <2>2, MaxRecordsAssumption
  <2>4. Store!Report(g, m_merge_record_map[g].stream)
    BY <1>1, <1>2 DEF Store!Report
  <2> QED BY <2>3, <2>4 DEF Store!Next
<1>3. CASE ~success
  BY <1>1, <1>3 DEF Store!vars
<1> QED BY <1>2, <1>3

LEMMA StepOfStore ==
  ASSUME LoadsComeOnce, StoreInv, [Next]_vars
  PROVE  [Store!Next]_Store!vars
<1>1. CASE UNCHANGED <<acked, written, answer>>
  BY <1>1 DEF Store!vars
<1>2. CASE CacheStep
  <2>1. UNCHANGED convertsysVars /\ written' = written
    BY <1>2 DEF CacheStep, convertsysVars, dbVars
  <2> QED BY <1>1, <1>2, <2>1, HandlePacketStore, HandleDbLoadStore
      DEF CacheStep, TakeRecords, RotateFile, WriteBatch, handlerVars
<1>3. CASE SessionStep
  BY <1>1, <1>3
  DEF SessionStep, StartTransfer, SendFile, ConvertSessionClosed,
      HandleBinaryRecord, cacheVars, handlerVars, dbVars
<1>4. CASE WriteMergedRecord
  BY <1>4, WriteMergedRecordStore
<1>5. CASE \/ OpenFile \/ ProcessRecord \/ EndOfFile \/ EndOfWriting
           \/ ConvertStops \/ ConvertStarts \/ UNCHANGED vars
  BY <1>1, <1>5
  DEF OpenFile, ProcessRecord, EndOfFile, EndOfWriting, ConvertStops,
      ConvertStarts, cacheVars, handlerVars, convertsysVars, dbVars, vars
<1>6. ASSUME NEW r \in data_req_info, LoadRow(r)
      PROVE  [Store!Next]_Store!vars
  BY <1>1, <1>6 DEF LoadRow, dbVars
<1> QED BY <1>2, <1>3, <1>4, <1>5, <1>6 DEF Next, ConvertStep

LEMMA InitialStore == Init => Store!Init
<1> SUFFICES ASSUME Init PROVE Store!Init
  OBVIOUS
<1>1. acked \in [Guid -> (0 .. MaxRecords) \cup {NoVersion}]
  BY MaxRecordsAssumption DEF Init, CacheInit
<1>2. written = acked
  BY DEF Init
<1>3. <<answer.guid, answer.stream>> = <<NoVersion, NoVersion>>
  BY DEF Init, CacheInit, NoAnswer
<1> QED BY <1>1, <1>2, <1>3 DEF Store!Init

(* If no load is given up or repeated, cachesys answers LOAD as one store  *)
(* of entities would (EntityStore): each request of a game server is one   *)
(* step of the store, and so is each record convertsys reports written     *)
(* (writeRecordToDb).  Until it has reported the last version, a load      *)
(* returns that version, whichever records fail or are lost.               *)
THEOREM StoreIsImplemented ==
  ASSUME LoadsComeOnce
  PROVE  Spec => ImplementsStore
<1>1. StoreInv /\ [Next]_vars => StoreInv'
  BY StoreInvInductive
<1>2. StoreInv /\ [Next]_vars => [Store!Next]_Store!vars
  BY StepOfStore
<1> QED BY <1>1, <1>2, StoreInvInitial, InitialStore, PTL
    DEF Spec, ImplementsStore, Store!Spec

=============================================================================
