------------------------- MODULE WriteBehind_proofs -------------------------
(***************************************************************************)
(* Proofs about the persistence path (WriteBehind), for any entities, any  *)
(* number of records and restarts, and whatever convertsys manages to      *)
(* write.                                                                  *)
(*                                                                         *)
(* The argument: the records on their way (record vector, batch, files,    *)
(* the record set convertsys reads) are in the order of their versions     *)
(* from one stage to the next, and all are later than what is merged, which*)
(* is later than what is written.  So convertsys only ever writes later    *)
(* versions, a confirmation stays true once it is sent, and the item that  *)
(* a confirmation drops is written.                                        *)
(***************************************************************************)
EXTENDS WriteBehind, SequenceTheorems, TLAPS

-----------------------------------------------------------------------------
(* Types *)

(* mergeRecord yields a merged record or none. *)
LEMMA MergeRecordType ==
  ASSUME NEW first \in MergedRecord \cup {NoRecord}, NEW second \in Record
  PROVE  MergeRecord(first, second) \in MergedRecord \cup {NoRecord}
  BY NoRecordAssumption
  DEF MergeRecord, FirstRecord, MergedType, MergedFlush, MergedTime,
      MergedRecord, Record, RecordType

(* What the expired items answer is a version. *)
LEMMA ExpiredEntityType ==
  ASSUME CacheTypeOK, NEW g \in Guid, Expired(g), NEW v \in ExpiredEntity(g)
  PROVE  v \in Nat
  BY NoVersionAssumption
  DEF CacheTypeOK, Expired, ExpiredEntity, ExpiredItem, Version

(* ManageExpiredItem::update, updateToDelete and remove keep the type. *)
LEMMA LruMapType ==
  ASSUME CacheTypeOK, NEW g \in Guid, NEW t \in Nat,
         UpdateExpired(g, t) \/ UpdateExpiredToDelete(g) \/ RemoveExpired(g, t)
  PROVE  lru_map' \in [Guid -> ExpiredItem \cup {NoItem}]
<1>1. CASE UpdateExpired(g, t)
  BY <1>1, NoVersionAssumption
  DEF UpdateExpired, CacheTypeOK, ExpiredItem, Version
<1>2. CASE UpdateExpiredToDelete(g)
  <2>1. CASE lru_map[g] = NoItem
    BY <1>2, <2>1 DEF UpdateExpiredToDelete, CacheTypeOK
  <2>2. CASE lru_map[g] # NoItem
    <3>1. lru_map[g] \in ExpiredItem
      BY <2>2 DEF CacheTypeOK
    <3>2. [lru_map[g] EXCEPT !.in_use = FALSE, !.is_delete = TRUE,
                             !.item = NoVersion] \in ExpiredItem
      BY <3>1, NoVersionAssumption DEF ExpiredItem, Version
    <3> QED BY <1>2, <2>2, <3>2 DEF UpdateExpiredToDelete, CacheTypeOK
  <2> QED BY <2>1, <2>2
<1>3. CASE RemoveExpired(g, t)
  BY <1>3 DEF RemoveExpired, CacheTypeOK
<1> QED BY <1>1, <1>2, <1>3

(* The requests of the game servers keep the types of cachesys. *)
LEMMA HandlePacketType ==
  ASSUME CacheTypeOK, HandlePacket
  PROVE  CacheTypeOK'
<1> PICK g \in Guid :
      \/ HandleNewEntity(g)
      \/ HandleNewEntityWithFlush(g)
      \/ HandleLoadEntity(g)
      \/ HandleFlushEntity(g)
      \/ HandleUpdateEntity(g)
      \/ HandleRemoveEntity(g)
      \/ HandleOnlyRemoveEntity(g)
      \/ HandleLoadEntityOnce(g)
  BY DEF HandlePacket
<1> USE DEF ClientState, Holding, Version, fileVars, AddEntity, RemoveEntity,
            UpdateEntity
<1>1. NextVersion \in Nat /\ guid_index \in Nat
  BY DEF CacheTypeOK, NextVersion
<1>2. ASSUME NEW type \in RecordType, WriteRecord(g, type)
      PROVE  guid_index' \in Nat /\ record_set' \in SUBSET Record
  BY <1>1, <1>2 DEF WriteRecord, CacheTypeOK, Record
<1>3. CASE HandleNewEntity(g)
  BY <1>1, <1>2, <1>3 DEF HandleNewEntity, CacheTypeOK, RecordType
<1>4. CASE HandleNewEntityWithFlush(g)
  BY <1>1, <1>2, <1>4, LruMapType
  DEF HandleNewEntityWithFlush, CacheTypeOK, RecordType
<1>5. CASE HandleLoadEntity(g)
  <2>1. CASE LoadFromMap(g)
    BY <1>5, <2>1 DEF HandleLoadEntity, LoadFromMap, CacheTypeOK
  <2>2. CASE LoadFromExpired(g)
    <3>1. lru_map[g] \in ExpiredItem
      BY <2>2 DEF LoadFromExpired, Expired, CacheTypeOK
    <3>2. [lru_map[g] EXCEPT !.in_use = TRUE] \in ExpiredItem
      BY <3>1 DEF ExpiredItem
    <3>3. lru_map' \in [Guid -> ExpiredItem \cup {NoItem}]
      BY <2>2, <3>2 DEF LoadFromExpired, CacheTypeOK
    <3>4. entity_map' \in [Guid -> Version]
      BY <2>2, ExpiredEntityType DEF LoadFromExpired, CacheTypeOK
    <3> QED BY <1>5, <2>2, <3>3, <3>4
        DEF HandleLoadEntity, LoadFromExpired, CacheTypeOK
  <2>3. CASE LoadFromDb(g)
    <3>1. [opcode |-> "LOAD", guid |-> g, floor |-> acked[g],
           again |-> client[g] = "loading"] \in LoadRequest
      BY DEF CacheTypeOK, LoadRequest
    <3>2. data_req_info' \in SUBSET LoadRequest
      BY <2>3, <3>1 DEF LoadFromDb, CacheTypeOK
    <3> QED BY <1>5, <2>3, <3>2 DEF HandleLoadEntity, LoadFromDb, CacheTypeOK
  <2> QED BY <1>5, <2>1, <2>2, <2>3 DEF HandleLoadEntity
<1>6. CASE HandleFlushEntity(g)
  BY <1>1, <1>2, <1>6, LruMapType
  DEF HandleFlushEntity, CacheTypeOK, RecordType
<1>7. CASE HandleUpdateEntity(g)
  BY <1>1, <1>2, <1>7 DEF HandleUpdateEntity, CacheTypeOK, RecordType
<1>8. CASE HandleRemoveEntity(g)
  BY <1>1, <1>2, <1>8, LruMapType
  DEF HandleRemoveEntity, CacheTypeOK, RecordType
<1>9. CASE HandleOnlyRemoveEntity(g)
  BY <1>9 DEF HandleOnlyRemoveEntity, CacheTypeOK
<1>10. CASE HandleLoadEntityOnce(g)
  <2>1. [opcode |-> "LOAD_ONCE", guid |-> g, floor |-> acked[g],
         again |-> FALSE] \in LoadRequest
    BY DEF CacheTypeOK, LoadRequest
  <2>2. data_req_info' \in SUBSET LoadRequest
    BY <1>10, <2>1
    DEF HandleLoadEntityOnce, LoadOnceFromMap, LoadOnceFromExpired,
        LoadOnceFromDb, CacheTypeOK
  <2> QED BY <1>10, <2>2 DEF HandleLoadEntityOnce, CacheTypeOK
<1> QED BY <1>3, <1>4, <1>5, <1>6, <1>7, <1>8, <1>9, <1>10

(* The other steps of cachesys alone keep its types. *)
LEMMA CacheStepType ==
  ASSUME CacheTypeOK, CacheStep
  PROVE  CacheTypeOK'
<1> USE DEF handlerVars, fileVars
<1>1. CASE HandlePacket
  BY <1>1, HandlePacketType
<1>2. ASSUME NEW r \in db_load_reqplay, HandleDbLoad(r)
      PROVE  CacheTypeOK'
  BY <1>2 DEF HandleDbLoad, AddEntity, CacheTypeOK, LoadReply, ClientState
<1>3. CASE TakeRecords
  BY <1>3 DEF TakeRecords, CacheTypeOK
<1>4. CASE RotateFile
  BY <1>4 DEF RotateFile, CacheTypeOK
<1>5. CASE WriteBatch
  BY <1>5 DEF WriteBatch, CacheTypeOK
<1> QED BY <1>1, <1>2, <1>3, <1>4, <1>5 DEF CacheStep

(* Every variable of the path keeps its type. *)
LEMMA TypeInitial == Init => WriteBehindTypeOK
  BY DEF Init, CacheInit, WriteBehindTypeOK, CacheTypeOK, ClientState, Version

LEMMA TypeInductive ==
  ASSUME WriteBehindTypeOK, [Next]_vars
  PROVE  WriteBehindTypeOK'
<1> USE DEF handlerVars, fileVars, cacheVars, sessionVars, convertVars,
            dbVars, convertsysVars
<1>1. CASE CacheStep
  BY <1>1, CacheStepType DEF WriteBehindTypeOK, CacheStep
<1>2. CASE StartTransfer
  BY <1>2 DEF StartTransfer, WriteBehindTypeOK, CacheTypeOK
<1>3. CASE SendFile
  BY <1>3 DEF SendFile, WriteBehindTypeOK, CacheTypeOK
<1>4. CASE ConvertSessionClosed
  BY <1>4 DEF ConvertSessionClosed, WriteBehindTypeOK, CacheTypeOK
<1>5. CASE HandleBinaryRecord
  <2> PICK c \in confirmations :
        /\ confirmations' = confirmations \ {c}
        /\ RemoveExpired(c.guid, c.last_modify_time)
    BY <1>5 DEF HandleBinaryRecord
  <2>1. lru_map' \in [Guid -> ExpiredItem \cup {NoItem}]
    BY LruMapType DEF WriteBehindTypeOK, Confirmation
  <2> QED BY <1>5, <2>1
      DEF HandleBinaryRecord, WriteBehindTypeOK, CacheTypeOK
<1>6. CASE OpenFile
  BY <1>6 DEF OpenFile, WriteBehindTypeOK, CacheTypeOK
<1>7. CASE ProcessRecord
  <2>1. /\ reading' \in SUBSET Record
        /\ m_merge_record_map' \in [Guid -> MergedRecord \cup {NoRecord}]
    BY <1>7, MergeRecordType DEF ProcessRecord, WriteBehindTypeOK, Record
  <2> QED BY <1>7, <2>1 DEF ProcessRecord, WriteBehindTypeOK, CacheTypeOK
<1>8. CASE EndOfFile
  BY <1>8 DEF EndOfFile, WriteBehindTypeOK, CacheTypeOK
<1>9. CASE WriteMergedRecord
  <2> PICK g \in Guid, success \in BOOLEAN :
        LET m == m_merge_record_map[g]
        IN  /\ m # NoRecord
            /\ db' = IF success THEN [db EXCEPT ![g] = RowAfter(g, m.optype)] ELSE db
            /\ written' = IF success THEN [written EXCEPT ![g] = m.stream]
                          ELSE written
            /\ confirmations' =
                 IF success /\ m.last_is_flush
                 THEN confirmations \cup
                        {[guid |-> g, last_modify_time |-> m.last_modify_time]}
                 ELSE confirmations
            /\ m_merge_record_map' = [m_merge_record_map EXCEPT ![g] = NoRecord]
    BY <1>9 DEF WriteMergedRecord
  <2>1. m_merge_record_map[g] \in MergedRecord
    BY DEF WriteBehindTypeOK
  <2>2. RowAfter(g, m_merge_record_map[g].optype) \in Version
    BY <2>1
    DEF RowAfter, InsertRow, UpdateRow, RemoveRow, MergedRecord, RecordType,
        Version, WriteBehindTypeOK
  <2>3. /\ db' \in [Guid -> Version]
        /\ written' \in [Guid -> Version]
        /\ confirmations' \in SUBSET Confirmation
        /\ m_merge_record_map' \in [Guid -> MergedRecord \cup {NoRecord}]
    BY <2>1, <2>2
    DEF WriteBehindTypeOK, Confirmation, MergedRecord, Version
  <2> QED BY <1>9, <2>3 DEF WriteMergedRecord, WriteBehindTypeOK, CacheTypeOK
<1>10. CASE EndOfWriting
  BY <1>10 DEF EndOfWriting, WriteBehindTypeOK, CacheTypeOK
<1>11. CASE ConvertStops
  <2>1. /\ m_merge_record_map' \in [Guid -> MergedRecord \cup {NoRecord}]
        /\ confirmations' \in SUBSET Confirmation
    BY <1>11 DEF ConvertStops, WriteBehindTypeOK
  <2>2. /\ sqlite_file_queue' \in Seq(SUBSET Record)
        /\ reading' \in SUBSET Record
        /\ restarts' \in Nat
    BY <1>11 DEF ConvertStops, WriteBehindTypeOK
  <2> QED BY <1>11, <2>1, <2>2 DEF ConvertStops, WriteBehindTypeOK, CacheTypeOK
<1>12. CASE ConvertStarts
  BY <1>12 DEF ConvertStarts, WriteBehindTypeOK, CacheTypeOK
<1>13. ASSUME NEW r \in data_req_info, LoadRow(r)
       PROVE  WriteBehindTypeOK'
  <2> PICK stream \in {db[r.guid], NoVersion} :
        db_load_reqplay' = db_load_reqplay \cup
          {[opcode |-> r.opcode, guid |-> r.guid, floor |-> r.floor,
            again |-> r.again, stream |-> stream]}
    BY <1>13 DEF LoadRow
  <2>1. r \in LoadRequest /\ stream \in Version
    BY DEF WriteBehindTypeOK, CacheTypeOK, LoadRequest, Version
  <2>2. db_load_reqplay' \in SUBSET LoadReply
    BY <2>1 DEF WriteBehindTypeOK, CacheTypeOK, LoadRequest, LoadReply
  <2> QED BY <1>13, <2>2 DEF LoadRow, WriteBehindTypeOK, CacheTypeOK
<1>14. CASE UNCHANGED vars
  BY <1>14 DEF vars, WriteBehindTypeOK, CacheTypeOK
<1> QED BY <1>1, <1>2, <1>3, <1>4, <1>5, <1>6, <1>7, <1>8, <1>9, <1>10,
           <1>11, <1>12, <1>13, <1>14
    DEF Next, SessionStep, ConvertStep

(* Whatever the game servers ask for, whatever is lost and whatever fails, *)
(* every variable keeps its type: in particular an expired item is deleted *)
(* exactly when it has no entity (ManageExpiredItem::updateToDelete).      *)
THEOREM TypeCorrect == Spec => []WriteBehindTypeOK
  BY TypeInitial, TypeInductive, PTL DEF Spec

-----------------------------------------------------------------------------
(* The inductive invariants *)

(* What the game servers have not made yet is not in the entity map, and no*)
(* load of it is under way.                                                *)
NewIsUnknown ==
  \A g \in Guid :
    client[g] = "none" =>
      /\ entity_map[g] = NoVersion
      /\ \A r \in data_req_info \cup db_load_reqplay : r.guid # g

CacheInv == WriteBehindTypeOK /\ HeldIsCached /\ NewIsUnknown

(* The stages a record passes, the last one first. *)
Before(A, B) == \A r \in A, s \in B : r.guid < s.guid
SortedFiles(files) ==
  \A i, j \in DOMAIN files : i < j => Before(files[i], files[j])

AfterFile == batch \cup record_set
AfterFullFiles == file \cup AfterFile
AfterSending == InFiles(file_path_vec) \cup AfterFullFiles
AfterQueue == InFiles(sending) \cup AfterSending
AfterReading == InFiles(sqlite_file_queue) \cup AfterQueue
Pending == reading \cup AfterReading

InOrder ==
  /\ Before(reading, AfterReading)
  /\ SortedFiles(sqlite_file_queue)
  /\ Before(InFiles(sqlite_file_queue), AfterQueue)
  /\ SortedFiles(sending)
  /\ Before(InFiles(sending), AfterSending)
  /\ SortedFiles(file_path_vec)
  /\ Before(InFiles(file_path_vec), AfterFullFiles)
  /\ Before(file, AfterFile)
  /\ Before(batch, record_set)

OneRecordPerNumber == \A r, s \in Pending : r.guid = s.guid => r = s

IdleHasRead == converting = "idle" => reading = {}

(* The entity exists, or has existed, for the game servers. *)
Exists(g) == client[g] \notin {"none", "removed"}

Later(v, g) ==
  /\ v <= guid_index
  /\ written[g] \in Nat => written[g] < v
  /\ Exists(g) => v <= acked[g]

PendingIsLater ==
  \A r \in Pending :
    /\ Later(r.guid, r.object_guid)
    /\ m_merge_record_map[r.object_guid] # NoRecord =>
         m_merge_record_map[r.object_guid].stream < r.guid

MergedIsLater ==
  \A g \in Guid :
    m_merge_record_map[g] # NoRecord =>
      /\ Later(m_merge_record_map[g].stream, g)
      /\ m_merge_record_map[g].last_modify_time
           <= m_merge_record_map[g].stream

WrittenIsEarlier ==
  \A g \in Guid :
    /\ Exists(g) => acked[g] \in Nat /\ acked[g] <= guid_index
    /\ written[g] \in Nat =>
         written[g] <= guid_index /\ (Exists(g) => written[g] <= acked[g])

ConfirmedIsWritten ==
  \A c \in confirmations :
    written[c.guid] \in Nat /\ c.last_modify_time <= written[c.guid]

OrderInv ==
  /\ InOrder
  /\ OneRecordPerNumber
  /\ IdleHasRead
  /\ PendingIsLater
  /\ MergedIsLater
  /\ WrittenIsEarlier
  /\ ConfirmedIsWritten

(* What nobody holds is kept at its last version, or written. *)
InUseIsHolding ==
  \A g \in Guid :
    lru_map[g] # NoItem /\ lru_map[g].in_use => client[g] \in Holding

FreeIsKept ==
  \A g \in Guid :
    /\ client[g] = "loading" => ~Expired(g)
    /\ client[g] = "free" /\ Expired(g) =>
         lru_map[g].last_motify_time = acked[g]
    /\ client[g] \in {"free", "loading"} /\ ~Expired(g) =>
         written[g] = acked[g]

KeepInv == CacheInv /\ OrderInv /\ InUseIsHolding /\ FreeIsKept

-----------------------------------------------------------------------------
(* CacheInv is inductive *)

LEMMA CacheInvInitial == Init => CacheInv
<1> SUFFICES ASSUME Init PROVE CacheInv
  OBVIOUS
<1>1. WriteBehindTypeOK
  BY TypeInitial
<1>2. HeldIsCached
  BY DEF Init, CacheInit, HeldIsCached, Holding
<1>3. NewIsUnknown
  BY DEF Init, CacheInit, NewIsUnknown
<1> QED BY <1>1, <1>2, <1>3 DEF CacheInv

(* A request keeps the entity it makes a game server hold in the map.      *)
LEMMA HandlePacketMap ==
  ASSUME CacheInv, HandlePacket
  PROVE  HeldIsCached' /\ NewIsUnknown'
<1> PICK g \in Guid :
      \/ HandleNewEntity(g)
      \/ HandleNewEntityWithFlush(g)
      \/ HandleLoadEntity(g)
      \/ HandleFlushEntity(g)
      \/ HandleUpdateEntity(g)
      \/ HandleRemoveEntity(g)
      \/ HandleOnlyRemoveEntity(g)
      \/ HandleLoadEntityOnce(g)
  BY DEF HandlePacket
<1> USE NoVersionAssumption
    DEF CacheInv, HeldIsCached, NewIsUnknown, Holding, AddEntity,
        RemoveEntity, UpdateEntity
<1>0. /\ client \in [Guid -> ClientState]
      /\ entity_map \in [Guid -> Version]
      /\ NextVersion \in Nat
  BY DEF WriteBehindTypeOK, CacheTypeOK, NextVersion
<1>1. CASE HandleNewEntity(g)
  BY <1>0, <1>1 DEF HandleNewEntity
<1>2. CASE HandleNewEntityWithFlush(g)
  BY <1>0, <1>2 DEF HandleNewEntityWithFlush
<1>3. CASE HandleLoadEntity(g)
  <2>0. client[g] # "none" /\ UNCHANGED db_load_reqplay
    BY <1>3 DEF HandleLoadEntity
  <2>1. CASE LoadFromMap(g)
    BY <1>0, <1>3, <2>0, <2>1 DEF HandleLoadEntity, LoadFromMap
  <2>2. CASE LoadFromExpired(g)
    <3>1. PICK v \in ExpiredEntity(g) :
            entity_map' = [entity_map EXCEPT ![g] = v]
      BY <2>2 DEF LoadFromExpired
    <3>2. v \in Nat
      BY <2>2, <3>1, ExpiredEntityType DEF LoadFromExpired, WriteBehindTypeOK
    <3> QED BY <1>0, <1>3, <2>0, <2>2, <3>1, <3>2
        DEF HandleLoadEntity, LoadFromExpired
  <2>3. CASE LoadFromDb(g)
    <3>1. /\ client' = [client EXCEPT ![g] = "loading"]
          /\ UNCHANGED entity_map
          /\ \A r \in data_req_info' : r \in data_req_info \/ r.guid = g
      BY <2>3 DEF LoadFromDb
    <3> QED BY <1>0, <2>0, <3>1
  <2> QED BY <1>3, <2>1, <2>2, <2>3 DEF HandleLoadEntity
<1>4. CASE HandleFlushEntity(g)
  BY <1>0, <1>4 DEF HandleFlushEntity
<1>5. CASE HandleUpdateEntity(g)
  BY <1>0, <1>5 DEF HandleUpdateEntity
<1>6. CASE HandleRemoveEntity(g)
  BY <1>0, <1>6 DEF HandleRemoveEntity
<1>7. CASE HandleOnlyRemoveEntity(g)
  BY <1>0, <1>7 DEF HandleOnlyRemoveEntity
<1>8. CASE HandleLoadEntityOnce(g)
  <2>1. UNCHANGED <<client, entity_map, db_load_reqplay>> /\ client[g] # "none"
    BY <1>8 DEF HandleLoadEntityOnce
  <2>2. \A r \in data_req_info' : r \in data_req_info \/ r.guid = g
    BY <1>8
    DEF HandleLoadEntityOnce, LoadOnceFromMap, LoadOnceFromExpired,
        LoadOnceFromDb
  <2> QED BY <1>0, <2>1, <2>2
<1> QED BY <1>1, <1>2, <1>3, <1>4, <1>5, <1>6, <1>7, <1>8

(* The reply to a load changes who holds the entity only while it is being *)
(* loaded.                                                                 *)
LEMMA HandleDbLoadClient ==
  ASSUME CacheTypeOK, NEW r \in db_load_reqplay, HandleDbLoad(r)
  PROVE  \/ client' = client
         \/ /\ r.opcode = "LOAD" /\ client[r.guid] = "loading"
            /\ client' = [client EXCEPT ![r.guid] =
                            IF r.stream = NoVersion THEN "free" ELSE "loaded"]
  BY DEF HandleDbLoad

(* A load that comes back makes its entity held and cached, or free again, *)
(* or finds it held or given back.                                         *)
LEMMA HandleDbLoadMap ==
  ASSUME CacheInv, NEW r \in db_load_reqplay, HandleDbLoad(r)
  PROVE  HeldIsCached' /\ NewIsUnknown'
<1>1. /\ client \in [Guid -> ClientState]
      /\ entity_map \in [Guid -> Version]
      /\ r.guid \in Guid
      /\ CacheTypeOK
  BY DEF CacheInv, WriteBehindTypeOK, CacheTypeOK, LoadReply
<1>2. client[r.guid] # "none"
  BY <1>1 DEF CacheInv, NewIsUnknown
<1>3. \A g \in Guid : entity_map[g] # NoVersion => entity_map'[g] # NoVersion
  BY <1>1 DEF HandleDbLoad, AddEntity
<1>4. \A g \in Guid : g # r.guid => entity_map'[g] = entity_map[g]
  BY <1>1 DEF HandleDbLoad, AddEntity
<1>5. HeldIsCached'
  <2>1. CASE client' = client
    BY <1>3, <2>1 DEF CacheInv, HeldIsCached
  <2>2. CASE /\ r.opcode = "LOAD" /\ client[r.guid] = "loading"
             /\ client' = [client EXCEPT ![r.guid] =
                             IF r.stream = NoVersion THEN "free" ELSE "loaded"]
    <3>1. client'[r.guid] \in Holding => r.stream # NoVersion
      BY <1>1, <2>2 DEF Holding
    <3>2. r.stream # NoVersion => entity_map'[r.guid] # NoVersion
      BY <1>1, <2>2 DEF HandleDbLoad, AddEntity
    <3> QED BY <1>1, <1>3, <2>2, <3>1, <3>2 DEF CacheInv, HeldIsCached
  <2> QED BY <1>1, <2>1, <2>2, HandleDbLoadClient
<1>6. NewIsUnknown'
  <2>1. \A g \in Guid : client'[g] = "none" => client[g] = "none"
    BY <1>1, HandleDbLoadClient
  <2>2. db_load_reqplay' \subseteq db_load_reqplay /\ UNCHANGED data_req_info
    BY DEF HandleDbLoad
  <2> QED BY <1>2, <1>4, <2>1, <2>2 DEF CacheInv, NewIsUnknown
<1> QED BY <1>5, <1>6

(* A load that has read its row passes from the queue to the replies. *)
LEMMA LoadRowMap ==
  ASSUME CacheInv, NEW r \in data_req_info, LoadRow(r)
  PROVE  HeldIsCached' /\ NewIsUnknown'
<1>1. /\ data_req_info' \subseteq data_req_info
      /\ \A q \in db_load_reqplay' : q \in db_load_reqplay \/ q.guid = r.guid
      /\ UNCHANGED <<client, entity_map>>
  BY DEF LoadRow
<1> QED BY <1>1 DEF CacheInv, HeldIsCached, NewIsUnknown

LEMMA CacheInvInductive ==
  ASSUME CacheInv, [Next]_vars
  PROVE  CacheInv'
<1>1. WriteBehindTypeOK'
  BY TypeInductive DEF CacheInv
<1>2. ASSUME UNCHANGED <<client, entity_map, data_req_info, db_load_reqplay>>
      PROVE  HeldIsCached' /\ NewIsUnknown'
  BY <1>2 DEF CacheInv, HeldIsCached, NewIsUnknown, Holding
<1>3. ASSUME HandlePacket
      PROVE  HeldIsCached' /\ NewIsUnknown'
  BY <1>3, HandlePacketMap
<1>4. ASSUME NEW r \in db_load_reqplay, HandleDbLoad(r)
      PROVE  HeldIsCached' /\ NewIsUnknown'
  BY <1>4, HandleDbLoadMap
<1>5. ASSUME NEW r \in data_req_info, LoadRow(r)
      PROVE  HeldIsCached' /\ NewIsUnknown'
  BY <1>5, LoadRowMap
<1>6. HeldIsCached' /\ NewIsUnknown'
  <2>1. CASE CacheStep
    BY <1>2, <1>3, <1>4, <2>1
    DEF CacheStep, TakeRecords, RotateFile, WriteBatch, handlerVars
  <2>2. CASE SessionStep
    BY <1>2, <2>2
    DEF SessionStep, StartTransfer, SendFile, ConvertSessionClosed,
        HandleBinaryRecord, cacheVars, handlerVars
  <2>3. CASE ConvertStep \/ ConvertStops \/ ConvertStarts
    BY <1>2, <2>3
    DEF ConvertStep, OpenFile, ProcessRecord, EndOfFile, WriteMergedRecord,
        EndOfWriting, ConvertStops, ConvertStarts, cacheVars, handlerVars
  <2>4. CASE UNCHANGED vars
    BY <1>2, <2>4 DEF vars, cacheVars, handlerVars
  <2> QED BY <1>5, <2>1, <2>2, <2>3, <2>4 DEF Next
<1> QED BY <1>1, <1>6 DEF CacheInv

(* An entity that a game server holds is in the entity map, whichever loads*)
(* were asked for twice, failed or were given up: handleFlushEntity finds  *)
(* it, and the error answer of EntityHander.cpp:292-297 is never given.    *)
THEOREM HeldStaysCached == Spec => []HeldIsCached
<1>1. CacheInv => HeldIsCached
  BY DEF CacheInv
<1> QED BY <1>1, CacheInvInitial, CacheInvInductive, PTL DEF Spec

-----------------------------------------------------------------------------
(* Queues of files *)

(* A file put at the end of a queue adds its records, ... *)
LEMMA InFilesAppend ==
  ASSUME NEW files \in Seq(SUBSET Record), NEW f \in SUBSET Record
  PROVE  InFiles(Append(files, f)) = InFiles(files) \cup f
<1> DEFINE more == Append(files, f)
<1>1. /\ DOMAIN more = 1 .. Len(files) + 1
      /\ DOMAIN files = 1 .. Len(files)
      /\ Len(files) \in Nat
      /\ more[Len(files) + 1] = f
      /\ \A i \in 1 .. Len(files) : more[i] = files[i]
  BY AppendProperties
<1> HIDE DEF more
<1>2. ASSUME NEW r \in InFiles(more) PROVE r \in InFiles(files) \cup f
  <2> PICK i \in DOMAIN more : r \in more[i]
    BY DEF InFiles
  <2> QED BY <1>1 DEF InFiles
<1>3. ASSUME NEW r \in InFiles(files) \cup f PROVE r \in InFiles(more)
  <2>1. CASE r \in f
    BY <1>1, <2>1 DEF InFiles
  <2>2. CASE r \in InFiles(files)
    <3> PICK i \in DOMAIN files : r \in files[i]
      BY <2>2 DEF InFiles
    <3> QED BY <1>1 DEF InFiles
  <2> QED BY <2>1, <2>2
<1> QED BY <1>2, <1>3 DEF more

(* ... and keeps the queue sorted if they are later than all in it. *)
LEMMA SortedAppend ==
  ASSUME NEW files \in Seq(SUBSET Record), NEW f \in SUBSET Record,
         SortedFiles(files), Before(InFiles(files), f)
  PROVE  SortedFiles(Append(files, f))
<1> DEFINE more == Append(files, f)
<1>1. /\ DOMAIN more = 1 .. Len(files) + 1
      /\ DOMAIN files = 1 .. Len(files)
      /\ Len(files) \in Nat
      /\ more[Len(files) + 1] = f
      /\ \A i \in 1 .. Len(files) : more[i] = files[i]
  BY AppendProperties
<1> HIDE DEF more
<1>2. ASSUME NEW i \in DOMAIN more, NEW j \in DOMAIN more, i < j
      PROVE  Before(more[i], more[j])
  <2>1. i \in DOMAIN files /\ more[i] = files[i]
    BY <1>1, <1>2
  <2>2. CASE j = Len(files) + 1
    <3>1. files[i] \subseteq InFiles(files)
      BY <2>1 DEF InFiles
    <3> QED BY <1>1, <2>1, <2>2, <3>1 DEF Before
  <2>3. CASE j # Len(files) + 1
    BY <1>1, <1>2, <2>1, <2>3 DEF SortedFiles
  <2> QED BY <2>2, <2>3
<1> QED BY <1>2 DEF SortedFiles, more

(* A queue has the records of its first file and those of the others, which*)
(* are sorted and later if it is sorted.                                   *)
LEMMA InFilesTail ==
  ASSUME NEW files \in Seq(SUBSET Record), files # << >>
  PROVE  InFiles(files) = Head(files) \cup InFiles(Tail(files))
<1>1. /\ Len(files) \in Nat \ {0}
      /\ Head(files) = files[1]
      /\ DOMAIN files = 1 .. Len(files)
      /\ DOMAIN Tail(files) = 1 .. Len(files) - 1
      /\ \A i \in 1 .. Len(files) - 1 : Tail(files)[i] = files[i + 1]
  BY HeadTailProperties, LenProperties
<1>2. ASSUME NEW r \in InFiles(files)
      PROVE  r \in Head(files) \cup InFiles(Tail(files))
  <2> PICK i \in DOMAIN files : r \in files[i]
    BY DEF InFiles
  <2>1. CASE i = 1
    BY <1>1, <2>1
  <2>2. CASE i # 1
    <3>1. i - 1 \in DOMAIN Tail(files) /\ Tail(files)[i - 1] = files[i]
      BY <1>1, <2>2
    <3> QED BY <3>1 DEF InFiles
  <2> QED BY <2>1, <2>2
<1>3. ASSUME NEW r \in Head(files) \cup InFiles(Tail(files))
      PROVE  r \in InFiles(files)
  <2>1. CASE r \in Head(files)
    BY <1>1, <2>1 DEF InFiles
  <2>2. CASE r \in InFiles(Tail(files))
    <3> PICK i \in DOMAIN Tail(files) : r \in Tail(files)[i]
      BY <2>2 DEF InFiles
    <3>1. i + 1 \in DOMAIN files /\ Tail(files)[i] = files[i + 1]
      BY <1>1
    <3> QED BY <3>1 DEF InFiles
  <2> QED BY <2>1, <2>2
<1> QED BY <1>2, <1>3

LEMMA SortedTail ==
  ASSUME NEW files \in Seq(SUBSET Record), files # << >>, SortedFiles(files)
  PROVE  SortedFiles(Tail(files)) /\ Before(Head(files), InFiles(Tail(files)))
<1>1. /\ Len(files) \in Nat \ {0}
      /\ Head(files) = files[1]
      /\ DOMAIN files = 1 .. Len(files)
      /\ DOMAIN Tail(files) = 1 .. Len(files) - 1
      /\ \A i \in 1 .. Len(files) - 1 : Tail(files)[i] = files[i + 1]
  BY HeadTailProperties, LenProperties
<1>2. \A i \in DOMAIN Tail(files) : i + 1 \in DOMAIN files /\ 1 < i + 1
  BY <1>1
<1>3. SortedFiles(Tail(files))
  BY <1>1, <1>2 DEF SortedFiles
<1>4. ASSUME NEW r \in Head(files), NEW s \in InFiles(Tail(files))
      PROVE  r.guid < s.guid
  <2> PICK i \in DOMAIN Tail(files) : s \in Tail(files)[i]
    BY DEF InFiles
  <2>1. Before(files[1], files[i + 1])
    BY <1>1, <1>2 DEF SortedFiles
  <2> QED BY <1>1, <2>1 DEF Before
<1> QED BY <1>3, <1>4 DEF Before

LEMMA EmptyQueue == InFiles(<< >>) = {} /\ SortedFiles(<< >>)
  BY DEF InFiles, SortedFiles

-----------------------------------------------------------------------------
(* OrderInv is inductive *)

LEMMA OrderInvInitial == Init => OrderInv
<1> SUFFICES ASSUME Init PROVE OrderInv
  OBVIOUS
<1>1. Pending = {}
  BY EmptyQueue
  DEF Init, CacheInit, Pending, AfterReading, AfterQueue, AfterSending,
      AfterFullFiles, AfterFile
<1>2. InOrder
  <2>1. /\ SortedFiles(sqlite_file_queue)
        /\ SortedFiles(sending)
        /\ SortedFiles(file_path_vec)
    BY EmptyQueue DEF Init, CacheInit
  <2>2. /\ reading = {} /\ file = {} /\ batch = {}
        /\ InFiles(sqlite_file_queue) = {}
        /\ InFiles(sending) = {}
        /\ InFiles(file_path_vec) = {}
    BY EmptyQueue DEF Init, CacheInit
  <2> QED BY <2>1, <2>2 DEF InOrder, Before
<1>3. /\ OneRecordPerNumber /\ IdleHasRead /\ PendingIsLater
      /\ MergedIsLater /\ ConfirmedIsWritten
  BY <1>1
  DEF Init, IdleHasRead, PendingIsLater, MergedIsLater, ConfirmedIsWritten,
      OneRecordPerNumber
<1>4. WrittenIsEarlier
  <2> SUFFICES ASSUME NEW g \in Guid
               PROVE  /\ Exists(g) => acked[g] \in Nat /\ acked[g] <= guid_index
                      /\ written[g] \in Nat =>
                           /\ written[g] <= guid_index
                           /\ Exists(g) => written[g] <= acked[g]
    BY DEF WrittenIsEarlier
  <2>1. /\ client[g] \in {"none", "free"}
        /\ acked[g] = IF client[g] = "free" THEN 0 ELSE NoVersion
        /\ written[g] = acked[g]
        /\ guid_index = 0
    BY DEF Init, CacheInit
  <2> QED BY <2>1, NoVersionAssumption DEF Exists
<1> QED BY <1>2, <1>3, <1>4 DEF OrderInv

(* A step that only moves or loses records keeps the rest of OrderInv. *)
LEMMA MoveKeepsOrder ==
  ASSUME OrderInv, InOrder', IdleHasRead', Pending' \subseteq Pending,
         UNCHANGED <<guid_index, written, m_merge_record_map, acked, client,
                     confirmations>>
  PROVE  OrderInv'
<1>1. PendingIsLater'
  BY DEF OrderInv, PendingIsLater, Later, Exists
<1>2. MergedIsLater' /\ WrittenIsEarlier' /\ ConfirmedIsWritten'
  BY DEF OrderInv, MergedIsLater, WrittenIsEarlier, ConfirmedIsWritten,
         Later, Exists
<1>3. OneRecordPerNumber'
  BY DEF OrderInv, OneRecordPerNumber
<1> QED BY <1>1, <1>2, <1>3 DEF OrderInv

LEMMA TakeRecordsOrder ==
  ASSUME OrderInv, TakeRecords, UNCHANGED convertsysVars
  PROVE  OrderInv' /\ Pending' = Pending
<1>1. /\ UNCHANGED <<guid_index, written, m_merge_record_map, acked, client,
                     confirmations, reading, converting, sqlite_file_queue,
                     sending, file_path_vec, file>>
      /\ batch = {} /\ batch' = record_set /\ record_set' = {}
  BY DEF TakeRecords, convertsysVars, handlerVars, sessionVars, convertVars,
         dbVars
<1>2. AfterFile' = AfterFile
  BY <1>1 DEF AfterFile
<1>3. InOrder' /\ IdleHasRead'
  BY <1>1, <1>2
  DEF OrderInv, InOrder, IdleHasRead, Before, AfterReading, AfterQueue,
      AfterSending, AfterFullFiles
<1>4. Pending' = Pending
  BY <1>1, <1>2
  DEF Pending, AfterReading, AfterQueue, AfterSending, AfterFullFiles
<1> QED BY <1>1, <1>3, <1>4, MoveKeepsOrder

LEMMA WriteBatchOrder ==
  ASSUME OrderInv, WriteBatch, UNCHANGED convertsysVars
  PROVE  OrderInv' /\ Pending' = Pending
<1>1. /\ UNCHANGED <<guid_index, written, m_merge_record_map, acked, client,
                     confirmations, reading, converting, sqlite_file_queue,
                     sending, file_path_vec, record_set>>
      /\ file' = file \cup batch /\ batch' = {}
  BY DEF WriteBatch, convertsysVars, handlerVars, sessionVars, convertVars,
         dbVars
<1>2. AfterFullFiles' = AfterFullFiles
  BY <1>1 DEF AfterFullFiles, AfterFile
<1>3. Before(file, AfterFile)' /\ Before(batch, record_set)'
  BY <1>1 DEF OrderInv, InOrder, Before, AfterFile
<1>4. InOrder' /\ IdleHasRead'
  BY <1>1, <1>2, <1>3
  DEF OrderInv, InOrder, IdleHasRead, Before, AfterReading, AfterQueue,
      AfterSending
<1>5. Pending' = Pending
  BY <1>1, <1>2 DEF Pending, AfterReading, AfterQueue, AfterSending
<1> QED BY <1>1, <1>4, <1>5, MoveKeepsOrder

LEMMA RotateFileOrder ==
  ASSUME WriteBehindTypeOK, OrderInv, RotateFile, UNCHANGED convertsysVars
  PROVE  OrderInv' /\ Pending' = Pending
<1>1. /\ UNCHANGED <<guid_index, written, m_merge_record_map, acked, client,
                     confirmations, reading, converting, sqlite_file_queue,
                     sending, record_set, batch>>
      /\ file_path_vec' = Append(file_path_vec, file) /\ file' = {}
  BY DEF RotateFile, convertsysVars, handlerVars, sessionVars, convertVars,
         dbVars
<1>2. file_path_vec \in Seq(SUBSET Record) /\ file \in SUBSET Record
  BY DEF WriteBehindTypeOK, CacheTypeOK
<1>3. InFiles(file_path_vec') = InFiles(file_path_vec) \cup file
  BY <1>1, <1>2, InFilesAppend
<1>4. Before(InFiles(file_path_vec), file)
  BY DEF OrderInv, InOrder, Before, AfterFullFiles
<1>5. SortedFiles(file_path_vec')
  BY <1>1, <1>2, <1>4, SortedAppend DEF OrderInv, InOrder
<1>6. AfterSending' = AfterSending
  BY <1>1, <1>3 DEF AfterSending, AfterFullFiles, AfterFile
<1>7. Before(InFiles(file_path_vec'), AfterFullFiles')
  BY <1>1, <1>3 DEF OrderInv, InOrder, Before, AfterFullFiles, AfterFile
<1>8. InOrder' /\ IdleHasRead'
  BY <1>1, <1>5, <1>6, <1>7
  DEF OrderInv, InOrder, IdleHasRead, Before, AfterReading, AfterQueue,
      AfterFile
<1>9. Pending' = Pending
  BY <1>1, <1>6 DEF Pending, AfterReading, AfterQueue
<1> QED BY <1>1, <1>8, <1>9, MoveKeepsOrder

LEMMA StartTransferOrder ==
  ASSUME OrderInv, StartTransfer
  PROVE  OrderInv' /\ Pending' = Pending
<1>1. /\ UNCHANGED <<guid_index, written, m_merge_record_map, acked, client,
                     confirmations, reading, converting, sqlite_file_queue,
                     file, record_set, batch>>
      /\ sending = << >> /\ sending' = file_path_vec /\ file_path_vec' = << >>
  BY DEF StartTransfer, handlerVars, convertVars, dbVars
<1>2. AfterQueue' = AfterQueue /\ AfterFullFiles' = AfterFullFiles
  BY <1>1, EmptyQueue DEF AfterQueue, AfterSending, AfterFullFiles, AfterFile
<1>3. /\ SortedFiles(sending') /\ SortedFiles(file_path_vec')
      /\ Before(InFiles(sending'), AfterSending')
      /\ Before(InFiles(file_path_vec'), AfterFullFiles')
  BY <1>1, <1>2, EmptyQueue DEF OrderInv, InOrder, Before, AfterSending
<1>4. InOrder' /\ IdleHasRead'
  BY <1>1, <1>2, <1>3
  DEF OrderInv, InOrder, IdleHasRead, Before, AfterReading, AfterFile
<1>5. Pending' = Pending
  BY <1>1, <1>2 DEF Pending, AfterReading
<1> QED BY <1>1, <1>4, <1>5, MoveKeepsOrder

LEMMA SendFileOrder ==
  ASSUME WriteBehindTypeOK, OrderInv, SendFile
  PROVE  OrderInv' /\ (convert_up => Pending' = Pending)
<1>1. /\ UNCHANGED <<guid_index, written, m_merge_record_map, acked, client,
                     confirmations, reading, converting, file_path_vec,
                     file, record_set, batch>>
      /\ sending # << >> /\ sending' = Tail(sending)
      /\ \/ sqlite_file_queue' = Append(sqlite_file_queue, Head(sending))
         \/ sqlite_file_queue' = sqlite_file_queue
  BY DEF SendFile, cacheVars, handlerVars, fileVars, dbVars
<1>2. /\ sending \in Seq(SUBSET Record)
      /\ sqlite_file_queue \in Seq(SUBSET Record)
      /\ Head(sending) \in SUBSET Record
  BY <1>1, HeadTailProperties DEF WriteBehindTypeOK
<1>3. InFiles(sending) = Head(sending) \cup InFiles(sending')
  BY <1>1, <1>2, InFilesTail
<1>4. SortedFiles(sending') /\ Before(Head(sending), InFiles(sending'))
  BY <1>1, <1>2, SortedTail DEF OrderInv, InOrder
<1>5. AfterSending' = AfterSending
  BY <1>1 DEF AfterSending, AfterFullFiles, AfterFile
<1>6. AfterQueue' \subseteq AfterQueue
  BY <1>3, <1>5 DEF AfterQueue
<1>7. /\ InFiles(sqlite_file_queue')
           \subseteq InFiles(sqlite_file_queue) \cup Head(sending)
      /\ SortedFiles(sqlite_file_queue')
  <2>1. Before(InFiles(sqlite_file_queue), Head(sending))
    BY <1>3 DEF OrderInv, InOrder, Before, AfterQueue
  <2> QED BY <1>1, <1>2, <2>1, InFilesAppend, SortedAppend
      DEF OrderInv, InOrder
<1>8. AfterReading' \subseteq AfterReading
  BY <1>3, <1>6, <1>7 DEF AfterReading, AfterQueue
<1>9. Before(Head(sending), AfterSending)
  BY <1>3 DEF OrderInv, InOrder, Before
<1>10. Before(InFiles(sqlite_file_queue'), AfterQueue')
  <2>1. Before(Head(sending), AfterQueue')
    BY <1>4, <1>5, <1>9 DEF Before, AfterQueue
  <2>2. Before(InFiles(sqlite_file_queue), AfterQueue')
    BY <1>6 DEF OrderInv, InOrder, Before
  <2> QED BY <1>7, <2>1, <2>2 DEF Before
<1>11. Before(InFiles(sending'), AfterSending') /\ Before(reading', AfterReading')
  BY <1>1, <1>3, <1>5, <1>8 DEF OrderInv, InOrder, Before
<1>12. InOrder' /\ IdleHasRead'
  BY <1>1, <1>4, <1>7, <1>10, <1>11
  DEF OrderInv, InOrder, IdleHasRead, Before, AfterFullFiles, AfterFile
<1>13. Pending' \subseteq Pending
  BY <1>1, <1>8 DEF Pending
<1>14. ASSUME convert_up PROVE Pending' = Pending
  <2>1. sqlite_file_queue' = Append(sqlite_file_queue, Head(sending))
    BY <1>14 DEF SendFile
  <2>2. AfterQueue = Head(sending) \cup AfterQueue'
    BY <1>3, <1>5 DEF AfterQueue
  <2>3. AfterReading' = AfterReading
    BY <1>2, <2>1, <2>2, InFilesAppend DEF AfterReading
  <2> QED BY <1>1, <2>3 DEF Pending
<1> QED BY <1>1, <1>12, <1>13, <1>14, MoveKeepsOrder

LEMMA OpenFileOrder ==
  ASSUME WriteBehindTypeOK, OrderInv, OpenFile
  PROVE  OrderInv' /\ Pending' = Pending
<1>1. /\ UNCHANGED <<guid_index, written, m_merge_record_map, acked, client,
                     confirmations, sending, file_path_vec, file, record_set,
                     batch>>
      /\ sqlite_file_queue # << >> /\ converting = "idle"
      /\ sqlite_file_queue' = Tail(sqlite_file_queue)
      /\ reading' = Head(sqlite_file_queue)
      /\ converting' = "merging"
  BY DEF OpenFile, cacheVars, handlerVars, fileVars, sessionVars, dbVars
<1>2. reading = {}
  BY <1>1 DEF OrderInv, IdleHasRead
<1>3. InFiles(sqlite_file_queue) = reading' \cup InFiles(sqlite_file_queue')
  BY <1>1, InFilesTail DEF WriteBehindTypeOK
<1>4. SortedFiles(sqlite_file_queue') /\ Before(reading', InFiles(sqlite_file_queue'))
  BY <1>1, SortedTail DEF OrderInv, InOrder, WriteBehindTypeOK
<1>5. AfterQueue' = AfterQueue
  BY <1>1 DEF AfterQueue, AfterSending, AfterFullFiles, AfterFile
<1>6. Before(reading', AfterReading') /\ Before(InFiles(sqlite_file_queue'), AfterQueue')
  BY <1>3, <1>4, <1>5 DEF OrderInv, InOrder, Before, AfterReading
<1>7. InOrder' /\ IdleHasRead'
  BY <1>1, <1>4, <1>6
  DEF OrderInv, InOrder, IdleHasRead, Before, AfterSending, AfterFullFiles,
      AfterFile
<1>8. Pending' = Pending
  BY <1>2, <1>3, <1>5 DEF Pending, AfterReading
<1> QED BY <1>1, <1>7, <1>8, MoveKeepsOrder

(* mergeRecord: the next record is later than what is merged, and so is the*)
(* time of the merged record not later than its stream.                    *)
LEMMA MergeIsLater ==
  ASSUME NEW first \in MergedRecord \cup {NoRecord}, NEW second \in Record,
         first # NoRecord =>
           /\ first.last_modify_time <= first.stream
           /\ first.stream < second.guid,
         MergeRecord(first, second) # NoRecord
  PROVE  /\ MergeRecord(first, second).stream = second.guid
         /\ MergeRecord(first, second).last_modify_time <= second.guid
  BY NoRecordAssumption
  DEF MergeRecord, FirstRecord, MergedTime, MergedRecord, Record

LEMMA ProcessRecordOrder ==
  ASSUME WriteBehindTypeOK, OrderInv, ProcessRecord
  PROVE  OrderInv'
<1> PICK r \in reading :
      /\ NextToRead(r)
      /\ reading' = reading \ {r}
      /\ m_merge_record_map' =
           [m_merge_record_map EXCEPT
              ![r.object_guid] = MergeRecord(@, r)]
  BY DEF ProcessRecord
<1> DEFINE g == r.object_guid
<1>1. /\ UNCHANGED <<guid_index, written, acked, client, confirmations,
                     sqlite_file_queue, sending, file_path_vec, file,
                     record_set, batch>>
      /\ converting' \in {"merging", "writing"}
  BY DEF ProcessRecord, cacheVars, handlerVars, fileVars, sessionVars, dbVars
<1>2. /\ r \in Record /\ g \in Guid
      /\ m_merge_record_map \in [Guid -> MergedRecord \cup {NoRecord}]
      /\ reading \subseteq Record
  BY DEF WriteBehindTypeOK, Record
<1>3. AfterReading' = AfterReading
  BY <1>1 DEF AfterReading, AfterQueue, AfterSending, AfterFullFiles,
              AfterFile
<1>4. Pending' \subseteq Pending /\ r \in Pending
  BY <1>3 DEF Pending
<1>5. InOrder' /\ IdleHasRead'
  BY <1>1, <1>3
  DEF OrderInv, InOrder, IdleHasRead, Before, AfterQueue, AfterSending,
      AfterFullFiles, AfterFile
<1>6. m_merge_record_map'[g] # NoRecord =>
        /\ m_merge_record_map'[g].stream = r.guid
        /\ m_merge_record_map'[g].last_modify_time <= r.guid
  BY <1>2, <1>4, MergeIsLater DEF OrderInv, PendingIsLater, MergedIsLater
<1>7. \A h \in Guid : h # g => m_merge_record_map'[h] = m_merge_record_map[h]
  BY <1>2
<1>8. Later(r.guid, g)'
  BY <1>1, <1>4 DEF OrderInv, PendingIsLater, Later, Exists
<1>9. MergedIsLater'
  BY <1>1, <1>2, <1>6, <1>7, <1>8
  DEF OrderInv, MergedIsLater, Later, Exists
<1>10. ASSUME NEW s \in Pending'
       PROVE  r.guid < s.guid
  <2>1. CASE s \in AfterReading
    BY <2>1 DEF OrderInv, InOrder, Before
  <2>2. CASE s \in reading'
    <3>1. r.guid <= s.guid
      BY <2>2 DEF NextToRead
    <3>2. r.guid # s.guid
      BY <2>2, <1>2, <1>4 DEF OrderInv, OneRecordPerNumber, Pending
    <3> QED BY <3>1, <3>2, <2>2, <1>2 DEF Record
  <2> QED BY <1>3, <2>1, <2>2 DEF Pending
<1>11. PendingIsLater'
  <2> SUFFICES ASSUME NEW s \in Pending'
               PROVE  /\ Later(s.guid, s.object_guid)'
                      /\ m_merge_record_map'[s.object_guid] # NoRecord =>
                           m_merge_record_map'[s.object_guid].stream < s.guid
    BY DEF PendingIsLater
  <2>1. Later(s.guid, s.object_guid)'
    BY <1>1, <1>4 DEF OrderInv, PendingIsLater, Later, Exists
  <2>2. CASE s.object_guid = g
    BY <1>6, <1>10, <2>1, <2>2
  <2>3. CASE s.object_guid # g
    BY <1>2, <1>4, <2>1, <2>3 DEF OrderInv, PendingIsLater
  <2> QED BY <2>2, <2>3
<1>12. WrittenIsEarlier' /\ ConfirmedIsWritten' /\ OneRecordPerNumber'
  BY <1>1, <1>4
  DEF OrderInv, WrittenIsEarlier, ConfirmedIsWritten, OneRecordPerNumber,
      Exists
<1> QED BY <1>5, <1>9, <1>11, <1>12 DEF OrderInv

LEMMA WriteMergedRecordOrder ==
  ASSUME WriteBehindTypeOK, OrderInv, WriteMergedRecord
  PROVE  /\ OrderInv'
         /\ \A g \in Guid :
              written[g] \in Nat =>
                written'[g] \in Nat /\ written[g] <= written'[g]
<1> PICK g \in Guid, success \in BOOLEAN :
      LET m == m_merge_record_map[g]
      IN  /\ m # NoRecord
          /\ written' = IF success THEN [written EXCEPT ![g] = m.stream]
                        ELSE written
          /\ confirmations' =
               IF success /\ m.last_is_flush
               THEN confirmations \cup
                      {[guid |-> g, last_modify_time |-> m.last_modify_time]}
               ELSE confirmations
          /\ m_merge_record_map' = [m_merge_record_map EXCEPT ![g] = NoRecord]
  BY DEF WriteMergedRecord
<1> DEFINE m == m_merge_record_map[g]
<1>1. UNCHANGED <<guid_index, acked, client, reading, converting,
                  sqlite_file_queue, sending, file_path_vec, file,
                  record_set, batch>>
  BY DEF WriteMergedRecord, cacheVars, handlerVars, fileVars, sessionVars
<1>2. /\ m \in MergedRecord
      /\ m_merge_record_map \in [Guid -> MergedRecord \cup {NoRecord}]
      /\ written \in [Guid -> Version]
      /\ \A c \in confirmations : c.guid \in Guid /\ c.last_modify_time \in Nat
  BY DEF WriteBehindTypeOK, Confirmation
<1>3. m.stream \in Nat /\ m.last_modify_time \in Nat
  BY <1>2 DEF MergedRecord
<1>4. Later(m.stream, g) /\ m.last_modify_time <= m.stream
  BY <1>2, NoRecordAssumption DEF OrderInv, MergedIsLater
<1>5. /\ \A h \in Guid : h # g => /\ written'[h] = written[h]
                                  /\ m_merge_record_map'[h] = m_merge_record_map[h]
      /\ m_merge_record_map'[g] = NoRecord
      /\ written'[g] = written[g] \/ written'[g] = m.stream
  BY <1>2
<1>6. ASSUME NEW h \in Guid, written[h] \in Nat
      PROVE  written'[h] \in Nat /\ written[h] <= written'[h]
  BY <1>3, <1>4, <1>5, <1>6 DEF Later
<1>7. Pending' = Pending
  BY <1>1 DEF Pending, AfterReading, AfterQueue, AfterSending,
              AfterFullFiles, AfterFile
<1>8. InOrder' /\ IdleHasRead' /\ OneRecordPerNumber'
  BY <1>1, <1>7
  DEF OrderInv, InOrder, IdleHasRead, OneRecordPerNumber, AfterReading,
      AfterQueue, AfterSending, AfterFullFiles, AfterFile
<1>9. PendingIsLater'
  <2> SUFFICES ASSUME NEW s \in Pending
               PROVE  /\ Later(s.guid, s.object_guid)'
                      /\ m_merge_record_map'[s.object_guid] # NoRecord =>
                           m_merge_record_map'[s.object_guid].stream < s.guid
    BY <1>7 DEF PendingIsLater
  <2>1. /\ Later(s.guid, s.object_guid)
        /\ m_merge_record_map[s.object_guid] # NoRecord =>
             m_merge_record_map[s.object_guid].stream < s.guid
    BY DEF OrderInv, PendingIsLater
  <2>2. CASE s.object_guid = g
    BY <1>1, <1>5, <2>1, <2>2 DEF Later, Exists
  <2>3. CASE s.object_guid # g
    BY <1>1, <1>2, <2>1, <2>3 DEF Later, Exists
  <2> QED BY <2>2, <2>3
<1>10. MergedIsLater'
  BY <1>1, <1>5 DEF OrderInv, MergedIsLater, Later, Exists
<1>11. WrittenIsEarlier'
  <2> SUFFICES ASSUME NEW h \in Guid, written'[h] \in Nat
               PROVE  /\ written'[h] <= guid_index
                      /\ Exists(h) => written'[h] <= acked[h]
    BY <1>1 DEF OrderInv, WrittenIsEarlier, Exists
  <2>1. CASE written'[h] = written[h]
    BY <2>1 DEF OrderInv, WrittenIsEarlier
  <2>2. CASE written'[h] # written[h]
    BY <1>4, <1>5, <2>2 DEF Later
  <2> QED BY <2>1, <2>2
<1>12. ConfirmedIsWritten'
  <2> SUFFICES ASSUME NEW c \in confirmations'
               PROVE  /\ written'[c.guid] \in Nat
                      /\ c.last_modify_time <= written'[c.guid]
    BY DEF ConfirmedIsWritten
  <2>1. CASE c \in confirmations
    <3>1. /\ written[c.guid] \in Nat
          /\ c.last_modify_time <= written[c.guid]
      BY <2>1 DEF OrderInv, ConfirmedIsWritten
    <3> QED BY <1>2, <1>6, <2>1, <3>1
  <2>2. CASE c \notin confirmations
    <3>1. /\ success
          /\ c = [guid |-> g, last_modify_time |-> m.last_modify_time]
      BY <2>2
    <3>2. written'[g] = m.stream
      BY <1>2, <3>1
    <3> QED BY <1>3, <1>4, <3>1, <3>2
  <2> QED BY <2>1, <2>2
<1> QED BY <1>6, <1>8, <1>9, <1>10, <1>11, <1>12 DEF OrderInv

LEMMA PendingAreRecords ==
  ASSUME WriteBehindTypeOK
  PROVE  Pending \subseteq Record
<1>1. ASSUME NEW f \in Seq(SUBSET Record) PROVE InFiles(f) \subseteq Record
  BY LenProperties DEF InFiles
<1>2. /\ InFiles(sqlite_file_queue) \subseteq Record
      /\ InFiles(sending) \subseteq Record
      /\ InFiles(file_path_vec) \subseteq Record
  BY <1>1 DEF WriteBehindTypeOK, CacheTypeOK
<1> QED BY <1>2
    DEF WriteBehindTypeOK, CacheTypeOK, Pending, AfterReading, AfterQueue,
        AfterSending, AfterFullFiles, AfterFile

(* A request that is recorded adds the latest record. *)
LEMMA RecordedOrder ==
  ASSUME WriteBehindTypeOK, OrderInv, NEW g \in Guid, NEW type \in RecordType,
         WriteRecord(g, type), UNCHANGED <<fileVars, convertsysVars>>,
         client' \in [Guid -> ClientState],
         client'[g] = "removed" \/ acked'[g] = NextVersion,
         \A h \in Guid : h # g => client'[h] = client[h] /\ acked'[h] = acked[h]
  PROVE  OrderInv'
<1>0. NextVersion \in Nat
  BY DEF WriteBehindTypeOK, CacheTypeOK, NextVersion
<1> PICK new \in Record :
      new = [guid |-> NextVersion, object_guid |-> g, optype |-> type]
  <2>1. [guid |-> NextVersion, object_guid |-> g, optype |-> type] \in Record
    BY <1>0 DEF Record
  <2> QED BY <2>1
<1>1. /\ record_set' = record_set \cup {new}
      /\ new.guid = NextVersion /\ new.object_guid = g
      /\ guid_index' = NextVersion
      /\ guid_index \in Nat /\ NextVersion = guid_index + 1
  BY DEF WriteRecord, WriteBehindTypeOK, CacheTypeOK, NextVersion
<1>2. UNCHANGED <<written, m_merge_record_map, confirmations, reading,
                  converting, sqlite_file_queue, sending, file_path_vec,
                  file, batch>>
  BY DEF fileVars, convertsysVars, sessionVars, convertVars, dbVars
<1>3. /\ AfterFile' = AfterFile \cup {new}
      /\ AfterFullFiles' = AfterFullFiles \cup {new}
      /\ AfterSending' = AfterSending \cup {new}
      /\ AfterQueue' = AfterQueue \cup {new}
      /\ AfterReading' = AfterReading \cup {new}
      /\ Pending' = Pending \cup {new}
  BY <1>1, <1>2
  DEF Pending, AfterReading, AfterQueue, AfterSending, AfterFullFiles,
      AfterFile
<1>4. ASSUME NEW r \in Pending PROVE r.guid \in Nat /\ r.object_guid \in Guid
  BY PendingAreRecords DEF Record
<1>5. \A r \in Pending : r.guid < new.guid
  BY <1>1, <1>4 DEF OrderInv, PendingIsLater, Later
<1>6. InOrder'
  <2>1. Before(Pending, {new})
    BY <1>5 DEF Before
  <2> QED BY <1>1, <1>2, <1>3, <2>1
      DEF OrderInv, InOrder, Before, Pending, AfterReading, AfterQueue,
          AfterSending, AfterFullFiles, AfterFile
<1>7. OneRecordPerNumber' /\ IdleHasRead'
  BY <1>1, <1>2, <1>3, <1>4, <1>5
  DEF OrderInv, OneRecordPerNumber, IdleHasRead
<1>8. \A h \in Guid : written[h] \in Nat => written[h] < NextVersion
  BY <1>1 DEF OrderInv, WrittenIsEarlier
<1>9. ASSUME NEW v \in Nat, NEW h \in Guid, Later(v, h)
      PROVE  Later(v, h)'
  BY <1>1, <1>2, <1>9 DEF Later, Exists
<1>10. Later(new.guid, g)'
  BY <1>1, <1>2, <1>8 DEF Later, Exists
<1>11. MergedIsLater'
  <2> SUFFICES ASSUME NEW h \in Guid, m_merge_record_map[h] # NoRecord
               PROVE  /\ Later(m_merge_record_map[h].stream, h)'
                      /\ m_merge_record_map[h].last_modify_time
                           <= m_merge_record_map[h].stream
    BY <1>2 DEF MergedIsLater, Later, Exists
  <2> PICK v \in Nat : v = m_merge_record_map[h].stream
    BY DEF WriteBehindTypeOK, MergedRecord
  <2>1. Later(v, h)'
    BY <1>9 DEF OrderInv, MergedIsLater
  <2> QED BY <1>2, <2>1 DEF OrderInv, MergedIsLater, Later, Exists
<1>12. PendingIsLater'
  <2> SUFFICES ASSUME NEW r \in Pending'
               PROVE  /\ Later(r.guid, r.object_guid)'
                      /\ m_merge_record_map[r.object_guid] # NoRecord =>
                           m_merge_record_map[r.object_guid].stream < r.guid
    BY <1>2 DEF PendingIsLater
  <2>1. CASE r \in Pending
    BY <1>4, <1>9, <2>1 DEF OrderInv, PendingIsLater
  <2>2. CASE r = new
    <3>1. m_merge_record_map[g] # NoRecord =>
            /\ m_merge_record_map[g].stream \in Nat
            /\ m_merge_record_map[g].stream <= guid_index
      BY DEF OrderInv, MergedIsLater, Later, WriteBehindTypeOK, MergedRecord
    <3> QED BY <1>1, <1>10, <2>2, <3>1 DEF Later, Exists
  <2> QED BY <1>3, <2>1, <2>2
<1>13. WrittenIsEarlier'
  <2> SUFFICES ASSUME NEW h \in Guid
               PROVE  /\ Exists(h)' => acked'[h] \in Nat /\ acked'[h] <= guid_index'
                      /\ written[h] \in Nat =>
                           /\ written[h] <= guid_index'
                           /\ Exists(h)' => written[h] <= acked'[h]
    BY <1>2 DEF WrittenIsEarlier, Exists
  <2>1. CASE h = g
    BY <1>1, <1>8, <2>1 DEF Exists
  <2>2. CASE h # g
    BY <1>1, <1>8, <2>2 DEF OrderInv, WrittenIsEarlier, Exists
  <2> QED BY <2>1, <2>2
<1>14. ConfirmedIsWritten'
  BY <1>2 DEF OrderInv, ConfirmedIsWritten
<1> QED BY <1>6, <1>7, <1>11, <1>12, <1>13, <1>14 DEF OrderInv

(* A request that is not recorded, or an answer, adds nothing. *)
LEMMA UnrecordedOrder ==
  ASSUME WriteBehindTypeOK, OrderInv,
         UNCHANGED <<guid_index, record_set, acked, fileVars, convertsysVars>>,
         \A h \in Guid : Exists(h)' => Exists(h)
  PROVE  OrderInv'
<1>1. UNCHANGED <<written, m_merge_record_map, confirmations, reading,
                  converting, sqlite_file_queue, sending, file_path_vec,
                  file, batch>>
  BY DEF fileVars, convertsysVars, sessionVars, convertVars, dbVars
<1>2. /\ Pending' = Pending /\ AfterReading' = AfterReading
      /\ AfterQueue' = AfterQueue /\ AfterSending' = AfterSending
      /\ AfterFullFiles' = AfterFullFiles /\ AfterFile' = AfterFile
  BY <1>1 DEF Pending, AfterReading, AfterQueue, AfterSending,
              AfterFullFiles, AfterFile
<1>3. InOrder' /\ OneRecordPerNumber' /\ IdleHasRead' /\ ConfirmedIsWritten'
  BY <1>1, <1>2
  DEF OrderInv, InOrder, OneRecordPerNumber, IdleHasRead, ConfirmedIsWritten
<1>4. MergedIsLater' /\ WrittenIsEarlier'
  BY <1>1 DEF OrderInv, MergedIsLater, WrittenIsEarlier, Later
<1>5. PendingIsLater'
  <2>1. \A r \in Pending : r.object_guid \in Guid
    BY PendingAreRecords DEF Record
  <2> QED BY <1>1, <1>2, <2>1 DEF OrderInv, PendingIsLater, Later
<1> QED BY <1>3, <1>4, <1>5 DEF OrderInv

LEMMA HandlePacketOrder ==
  ASSUME CacheInv, OrderInv, HandlePacket, UNCHANGED convertsysVars
  PROVE  OrderInv'
<1> PICK g \in Guid :
      \/ HandleNewEntity(g)
      \/ HandleNewEntityWithFlush(g)
      \/ HandleLoadEntity(g)
      \/ HandleFlushEntity(g)
      \/ HandleUpdateEntity(g)
      \/ HandleRemoveEntity(g)
      \/ HandleOnlyRemoveEntity(g)
      \/ HandleLoadEntityOnce(g)
  BY DEF HandlePacket
<1>1. WriteBehindTypeOK /\ client' \in [Guid -> ClientState]
  BY HandlePacketType DEF CacheInv, WriteBehindTypeOK, CacheTypeOK
<1>2. /\ client \in [Guid -> ClientState]
      /\ acked \in [Guid -> Version]
  BY <1>1 DEF WriteBehindTypeOK, CacheTypeOK
<1>3. /\ client[g] \in Holding => entity_map[g] # NoVersion
      /\ client[g] = "none" => entity_map[g] = NoVersion
  BY DEF CacheInv, HeldIsCached, NewIsUnknown
<1>4. ASSUME NEW type \in RecordType, WriteRecord(g, type),
             UNCHANGED fileVars,
             client'[g] = "removed" \/ acked'[g] = NextVersion,
             \A h \in Guid : h # g =>
               client'[h] = client[h] /\ acked'[h] = acked[h]
      PROVE  OrderInv'
  BY <1>1, <1>4, RecordedOrder
<1>5. CASE HandleNewEntity(g)
  <2>1. WriteRecord(g, "INSERT")
    BY <1>3, <1>5 DEF HandleNewEntity, Holding
  <2>2. /\ client' = [client EXCEPT ![g] = "held"]
        /\ acked' = [acked EXCEPT ![g] = NextVersion]
        /\ UNCHANGED fileVars
    BY <1>5 DEF HandleNewEntity
  <2> QED BY <1>2, <1>4, <2>1, <2>2 DEF RecordType
<1>6. CASE HandleNewEntityWithFlush(g)
  <2>1. /\ WriteRecord(g, "INSERT_WITH_FLUSH")
        /\ client' = [client EXCEPT ![g] = "free"]
        /\ acked' = [acked EXCEPT ![g] = NextVersion]
        /\ UNCHANGED fileVars
    BY <1>6 DEF HandleNewEntityWithFlush
  <2> QED BY <1>2, <1>4, <2>1 DEF RecordType
<1>7. CASE HandleFlushEntity(g)
  <2>1. /\ WriteRecord(g, "FLUSH")
        /\ client' = [client EXCEPT ![g] = "free"]
        /\ acked' = [acked EXCEPT ![g] = NextVersion]
        /\ UNCHANGED fileVars
    BY <1>3, <1>7 DEF HandleFlushEntity
  <2> QED BY <1>2, <1>4, <2>1 DEF RecordType
<1>8. CASE HandleUpdateEntity(g)
  <2>1. /\ WriteRecord(g, "UPDATE")
        /\ client' = [client EXCEPT ![g] = "held"]
        /\ acked' = [acked EXCEPT ![g] = NextVersion]
        /\ UNCHANGED fileVars
    BY <1>8 DEF HandleUpdateEntity
  <2> QED BY <1>2, <1>4, <2>1 DEF RecordType
<1>9. CASE HandleRemoveEntity(g)
  <2>1. /\ WriteRecord(g, "REMOVE")
        /\ client' = [client EXCEPT ![g] = "removed"]
        /\ acked' = [acked EXCEPT ![g] = NoVersion]
        /\ UNCHANGED fileVars
    BY <1>9 DEF HandleRemoveEntity
  <2> QED BY <1>2, <1>4, <2>1 DEF RecordType
<1>10. CASE HandleLoadEntity(g)
  <2>1. /\ client[g] \in Holding \cup {"free", "loading"}
        /\ \/ client' = [client EXCEPT ![g] = "loaded"]
           \/ client' = [client EXCEPT ![g] = "loading"]
        /\ UNCHANGED <<guid_index, record_set, acked, fileVars>>
    BY <1>10
    DEF HandleLoadEntity, LoadFromMap, LoadFromExpired, LoadFromDb
  <2>2. \A h \in Guid : Exists(h)' => Exists(h)
    BY <1>2, <2>1 DEF Exists, Holding
  <2> QED BY <1>1, <2>1, <2>2, UnrecordedOrder
<1>11. CASE HandleOnlyRemoveEntity(g)
  <2>1. /\ client[g] = "loaded"
        /\ client' = [client EXCEPT ![g] = "free"]
        /\ UNCHANGED <<guid_index, record_set, acked, fileVars>>
    BY <1>11 DEF HandleOnlyRemoveEntity
  <2>2. \A h \in Guid : Exists(h)' => Exists(h)
    BY <1>2, <2>1 DEF Exists
  <2> QED BY <1>1, <2>1, <2>2, UnrecordedOrder
<1>12. CASE HandleLoadEntityOnce(g)
  <2>1. UNCHANGED <<client, guid_index, record_set, acked, fileVars>>
    BY <1>12 DEF HandleLoadEntityOnce
  <2>2. \A h \in Guid : Exists(h)' => Exists(h)
    BY <2>1 DEF Exists
  <2> QED BY <1>1, <2>1, <2>2, UnrecordedOrder
<1> QED BY <1>5, <1>6, <1>7, <1>8, <1>9, <1>10, <1>11, <1>12

LEMMA HandleDbLoadOrder ==
  ASSUME CacheInv, OrderInv, NEW r \in db_load_reqplay, HandleDbLoad(r),
         UNCHANGED convertsysVars
  PROVE  OrderInv'
<1>1. UNCHANGED <<guid_index, record_set, acked, fileVars>>
  BY DEF HandleDbLoad
<1>2. ASSUME NEW h \in Guid, Exists(h)' PROVE Exists(h)
  <2>1. CASE client' = client
    BY <1>2, <2>1 DEF Exists
  <2>2. CASE client' # client
    <3>1. client \in [Guid -> ClientState] /\ CacheTypeOK
      BY DEF CacheInv, WriteBehindTypeOK, CacheTypeOK
    <3>2. /\ client[r.guid] = "loading"
          /\ client' = [client EXCEPT ![r.guid] =
                          IF r.stream = NoVersion THEN "free" ELSE "loaded"]
      BY <2>2, <3>1, HandleDbLoadClient
    <3> QED BY <1>2, <3>1, <3>2 DEF Exists
  <2> QED BY <2>1, <2>2
<1> QED BY <1>1, <1>2, UnrecordedOrder DEF CacheInv

(* The end of convertsys loses what it had in memory, and confirmations. *)
LEMMA ConvertStopsOrder ==
  ASSUME WriteBehindTypeOK, OrderInv, ConvertStops
  PROVE  OrderInv'
<1>1. /\ UNCHANGED <<guid_index, written, acked, client, sending,
                     file_path_vec, file, record_set, batch>>
      /\ sqlite_file_queue' = << >> /\ reading' = {}
      /\ m_merge_record_map' = [g \in Guid |-> NoRecord]
      /\ confirmations' \subseteq confirmations
  BY DEF ConvertStops, cacheVars, handlerVars, fileVars, sessionVars, dbVars
<1>2. AfterReading' \subseteq AfterReading /\ Pending' \subseteq Pending
  BY <1>1, EmptyQueue
  DEF Pending, AfterReading, AfterQueue, AfterSending, AfterFullFiles,
      AfterFile
<1>3. InOrder' /\ IdleHasRead' /\ OneRecordPerNumber'
  BY <1>1, <1>2, EmptyQueue
  DEF OrderInv, InOrder, IdleHasRead, OneRecordPerNumber, Before, AfterQueue,
      AfterSending, AfterFullFiles, AfterFile
<1>4. MergedIsLater' /\ WrittenIsEarlier' /\ ConfirmedIsWritten'
  BY <1>1
  DEF OrderInv, MergedIsLater, WrittenIsEarlier, ConfirmedIsWritten, Exists
<1>5. PendingIsLater'
  <2> SUFFICES ASSUME NEW r \in Pending'
               PROVE  /\ Later(r.guid, r.object_guid)'
                      /\ m_merge_record_map'[r.object_guid] # NoRecord =>
                           m_merge_record_map'[r.object_guid].stream < r.guid
    BY DEF PendingIsLater
  <2>1. Later(r.guid, r.object_guid) /\ r.object_guid \in Guid
    BY <1>2, PendingAreRecords DEF OrderInv, PendingIsLater, Record
  <2> QED BY <1>1, <2>1 DEF Later, Exists
<1> QED BY <1>3, <1>4, <1>5 DEF OrderInv

LEMMA OrderInvInductive ==
  ASSUME CacheInv, OrderInv, [Next]_vars
  PROVE  OrderInv'
<1>1. WriteBehindTypeOK
  BY DEF CacheInv
<1>2. ASSUME UNCHANGED <<guid_index, written, m_merge_record_map, acked,
                         client, confirmations, record_set, batch, file,
                         file_path_vec, sending, sqlite_file_queue, reading>>,
             IdleHasRead'
      PROVE  OrderInv'
  <2>1. Pending' = Pending /\ InOrder'
    BY <1>2
    DEF OrderInv, InOrder, Pending, AfterReading, AfterQueue, AfterSending,
        AfterFullFiles, AfterFile
  <2> QED BY <1>2, <2>1, MoveKeepsOrder
<1>3. CASE CacheStep
  BY <1>1, <1>3, HandlePacketOrder, HandleDbLoadOrder, TakeRecordsOrder,
     RotateFileOrder, WriteBatchOrder
  DEF CacheStep
<1>4. CASE SessionStep
  <2>1. CASE StartTransfer
    BY <2>1, StartTransferOrder
  <2>2. CASE SendFile
    BY <1>1, <2>2, SendFileOrder
  <2>3. CASE ConvertSessionClosed
    BY <1>2, <2>3
    DEF ConvertSessionClosed, cacheVars, handlerVars, fileVars, convertVars,
        dbVars, OrderInv, IdleHasRead
  <2>4. CASE HandleBinaryRecord
    <3>1. /\ UNCHANGED <<guid_index, written, m_merge_record_map, acked,
                         client, record_set, batch, file, file_path_vec,
                         sending, sqlite_file_queue, reading, converting>>
          /\ confirmations' \subseteq confirmations
      BY <2>4
      DEF HandleBinaryRecord, fileVars, sessionVars, convertVars, dbVars
    <3>2. Pending' = Pending /\ InOrder' /\ IdleHasRead'
      BY <3>1
      DEF OrderInv, InOrder, Pending, AfterReading, AfterQueue, AfterSending,
          AfterFullFiles, AfterFile, IdleHasRead
    <3> QED BY <3>1, <3>2
        DEF OrderInv, OneRecordPerNumber, PendingIsLater, MergedIsLater,
            WrittenIsEarlier, ConfirmedIsWritten, Later, Exists
  <2> QED BY <1>4, <2>1, <2>2, <2>3, <2>4 DEF SessionStep
<1>5. CASE ConvertStep
  <2>1. CASE EndOfFile
    BY <1>2, <2>1
    DEF EndOfFile, cacheVars, handlerVars, fileVars, sessionVars, dbVars,
        IdleHasRead
  <2>2. CASE EndOfWriting
    BY <1>2, <2>2
    DEF EndOfWriting, cacheVars, handlerVars, fileVars, sessionVars, dbVars,
        IdleHasRead
  <2> QED BY <1>1, <1>5, <2>1, <2>2, OpenFileOrder, ProcessRecordOrder,
             WriteMergedRecordOrder
      DEF ConvertStep
<1>6. CASE ConvertStops
  BY <1>1, <1>6, ConvertStopsOrder
<1>7. CASE ConvertStarts
  BY <1>2, <1>7
  DEF ConvertStarts, cacheVars, handlerVars, fileVars, dbVars, OrderInv,
      IdleHasRead
<1>8. ASSUME NEW r \in data_req_info, LoadRow(r)
      PROVE  OrderInv'
  BY <1>2, <1>8
  DEF LoadRow, fileVars, sessionVars, convertVars, dbVars, OrderInv,
      IdleHasRead
<1>9. CASE UNCHANGED vars
  BY <1>2, <1>9
  DEF vars, cacheVars, handlerVars, fileVars, convertsysVars, sessionVars,
      convertVars, dbVars, OrderInv, IdleHasRead
<1> QED BY <1>3, <1>4, <1>5, <1>6, <1>7, <1>8, <1>9 DEF Next

(* Only checkMergeRecord writes to the database, and what it writes of an  *)
(* entity is later than all it has written of it.                          *)
LEMMA OnlyWritesLater ==
  ASSUME CacheInv, OrderInv, [Next]_vars, NEW g \in Guid, written[g] \in Nat
  PROVE  written'[g] \in Nat /\ written[g] <= written'[g]
<1>1. CASE WriteMergedRecord
  BY <1>1, WriteMergedRecordOrder DEF CacheInv
<1>2. CASE ~WriteMergedRecord
  <2>1. written' = written
    BY <1>2
    DEF Next, CacheStep, SessionStep, ConvertStep, vars, convertsysVars,
        dbVars, StartTransfer, SendFile, ConvertSessionClosed,
        HandleBinaryRecord, OpenFile, ProcessRecord, EndOfFile, EndOfWriting,
        ConvertStops, ConvertStarts, LoadRow
  <2> QED BY <2>1
<1> QED BY <1>1, <1>2

(* For any number of entities, records, files and restarts of convertsys,  *)
(* and whatever it manages to write: an older version never replaces a     *)
(* newer one.                                                              *)
THEOREM WritesInOrder == Spec => WrittenInOrder
<1> DEFINE Inv == CacheInv /\ OrderInv
<1>1. Init => Inv
  BY CacheInvInitial, OrderInvInitial
<1>2. Inv /\ [Next]_vars => Inv'
  BY CacheInvInductive, OrderInvInductive
<1>3. Inv /\ [Next]_vars =>
        [\A g \in Guid :
           written[g] \in Nat =>
             written'[g] \in Nat /\ written[g] <= written'[g]]_vars
  BY OnlyWritesLater
<1> HIDE DEF Inv
<1> QED BY <1>1, <1>2, <1>3, PTL DEF Spec, WrittenInOrder

-----------------------------------------------------------------------------
(* KeepInv is inductive, if game servers give up no load *)

LEMMA KeepInvInitial == Init => KeepInv
<1> SUFFICES ASSUME Init PROVE KeepInv
  OBVIOUS
<1>1. \A g \in Guid : lru_map[g] = NoItem
  BY DEF Init, CacheInit
<1>2. InUseIsHolding /\ FreeIsKept
  BY <1>1 DEF InUseIsHolding, FreeIsKept, Expired, Init, CacheInit
<1> QED BY <1>2, CacheInvInitial, OrderInvInitial DEF KeepInv

(* What an entity that nobody holds is kept by. *)
KeptOne(g) ==
  /\ lru_map[g] # NoItem /\ lru_map[g].in_use => client[g] \in Holding
  /\ client[g] = "loading" => ~Expired(g)
  /\ client[g] = "free" /\ Expired(g) =>
       lru_map[g].last_motify_time = acked[g]
  /\ client[g] \in {"free", "loading"} /\ ~Expired(g) => written[g] = acked[g]

(* A request changes what is known of its own entity only. *)
LEMMA HandlePacketKeeps ==
  ASSUME ~LoadsGivenUp, KeepInv, HandlePacket, UNCHANGED convertsysVars
  PROVE  InUseIsHolding' /\ FreeIsKept'
<1> PICK g \in Guid :
      \/ HandleNewEntity(g)
      \/ HandleNewEntityWithFlush(g)
      \/ HandleLoadEntity(g)
      \/ HandleFlushEntity(g)
      \/ HandleUpdateEntity(g)
      \/ HandleRemoveEntity(g)
      \/ HandleLoadEntityOnce(g)
  BY DEF HandlePacket, HandleOnlyRemoveEntity
<1>1. /\ client \in [Guid -> ClientState]
      /\ acked \in [Guid -> Version]
      /\ lru_map \in [Guid -> ExpiredItem \cup {NoItem}]
      /\ written' = written
  BY DEF KeepInv, CacheInv, WriteBehindTypeOK, CacheTypeOK, convertsysVars,
         dbVars
<1>2. client[g] \in Holding => entity_map[g] # NoVersion
  BY DEF KeepInv, CacheInv, HeldIsCached
<1>3. \A h \in Guid : KeptOne(h)
  BY DEF KeepInv, InUseIsHolding, FreeIsKept, KeptOne
<1>4. \A h \in Guid : h # g => /\ client'[h] = client[h]
                               /\ acked'[h] = acked[h]
                               /\ lru_map'[h] = lru_map[h]
  <2>1. CASE \/ HandleNewEntity(g) \/ HandleNewEntityWithFlush(g)
             \/ HandleFlushEntity(g) \/ HandleUpdateEntity(g)
             \/ HandleRemoveEntity(g) \/ HandleLoadEntityOnce(g)
    BY <1>1, <2>1
    DEF HandleNewEntity, HandleNewEntityWithFlush, HandleFlushEntity,
        HandleUpdateEntity, HandleRemoveEntity, HandleLoadEntityOnce,
        UpdateExpired, UpdateExpiredToDelete
  <2>2. CASE HandleLoadEntity(g)
    BY <1>1, <2>2
    DEF HandleLoadEntity, LoadFromMap, LoadFromExpired, LoadFromDb
  <2> QED BY <2>1, <2>2
<1>5. NoItem \notin ExpiredItem
  BY NoItemAssumption
<1>6. KeptOne(g)'
  <2>1. CASE HandleNewEntity(g)
    BY <1>1, <2>1 DEF HandleNewEntity, KeptOne, Holding
  <2>2. CASE HandleNewEntityWithFlush(g) \/ HandleFlushEntity(g)
    <3>1. /\ client'[g] = "free" /\ acked'[g] = NextVersion
          /\ lru_map'[g] = [last_motify_time |-> NextVersion,
                            in_use |-> FALSE, is_delete |-> FALSE,
                            item |-> NextVersion]
      BY <1>1, <1>2, <2>2
      DEF HandleNewEntityWithFlush, HandleFlushEntity, UpdateExpired
    <3>2. lru_map'[g] # NoItem
      <4>1. NextVersion \in Nat
        BY DEF KeepInv, CacheInv, WriteBehindTypeOK, CacheTypeOK, NextVersion
      <4>2. [last_motify_time |-> NextVersion, in_use |-> FALSE,
             is_delete |-> FALSE, item |-> NextVersion] \in ExpiredItem
        BY <4>1, NoVersionAssumption DEF ExpiredItem, Version
      <4> QED BY <1>5, <3>1, <4>2
    <3> QED BY <3>1, <3>2 DEF KeptOne, Expired
  <2>3. CASE HandleUpdateEntity(g)
    BY <1>1, <2>3 DEF HandleUpdateEntity, KeptOne, Holding
  <2>4. CASE HandleRemoveEntity(g)
    <3>1. client'[g] = "removed"
      BY <1>1, <2>4 DEF HandleRemoveEntity
    <3>2. lru_map'[g] = NoItem \/ ~lru_map'[g].in_use
      BY <1>1, <2>4 DEF HandleRemoveEntity, UpdateExpiredToDelete, ExpiredItem
    <3> QED BY <3>1, <3>2 DEF KeptOne
  <2>5. CASE HandleLoadEntityOnce(g)
    BY <1>1, <1>3, <2>5 DEF HandleLoadEntityOnce, KeptOne, Expired
  <2>6. CASE HandleLoadEntity(g)
    <3>1. CASE client'[g] = "loaded"
      BY <3>1 DEF KeptOne, Holding
    <3>2. CASE client'[g] # "loaded"
      <4>1. /\ entity_map[g] = NoVersion /\ ~Expired(g)
            /\ client[g] \in {"free", "loading"} /\ client'[g] = "loading"
            /\ lru_map' = lru_map /\ acked' = acked
        BY <1>1, <1>2, <2>6, <3>2
        DEF HandleLoadEntity, LoadFromMap, LoadFromExpired, LoadFromDb
      <4> QED BY <1>1, <1>3, <4>1 DEF KeptOne, Expired, Holding
    <3> QED BY <3>1, <3>2
  <2> QED BY <2>1, <2>2, <2>3, <2>4, <2>5, <2>6
<1>7. \A h \in Guid : KeptOne(h)'
  <2> SUFFICES ASSUME NEW h \in Guid, h # g PROVE KeptOne(h)'
    BY <1>6
  <2> QED BY <1>1, <1>3, <1>4 DEF KeptOne, Expired
<1> QED BY <1>7 DEF InUseIsHolding, FreeIsKept, KeptOne

(* The confirmation of a flush drops the item of that flush only, which is *)
(* then written, and is the last version acknowledged.                     *)
LEMMA HandleBinaryRecordKeeps ==
  ASSUME KeepInv, HandleBinaryRecord
  PROVE  InUseIsHolding' /\ FreeIsKept'
<1> PICK c \in confirmations : RemoveExpired(c.guid, c.last_modify_time)
  BY DEF HandleBinaryRecord
<1>1. /\ UNCHANGED <<client, acked, written>>
      /\ lru_map \in [Guid -> ExpiredItem \cup {NoItem}]
      /\ written \in [Guid -> Version]
  BY DEF HandleBinaryRecord, dbVars, KeepInv, CacheInv, WriteBehindTypeOK,
         CacheTypeOK
<1>2. \A h \in Guid : lru_map'[h] # NoItem => lru_map'[h] = lru_map[h]
  BY <1>1 DEF RemoveExpired
<1>3. InUseIsHolding'
  BY <1>1, <1>2 DEF KeepInv, InUseIsHolding
<1>4. ASSUME NEW h \in Guid, client[h] = "free", Expired(h), ~Expired(h)'
      PROVE  written[h] = acked[h]
  <2>1. h = c.guid /\ lru_map[h].last_motify_time = c.last_modify_time
    BY <1>1, <1>4
    DEF RemoveExpired, Expired, KeepInv, InUseIsHolding, Holding
  <2>2. written[h] \in Nat /\ c.last_modify_time <= written[h]
    BY <2>1 DEF KeepInv, OrderInv, ConfirmedIsWritten
  <2>3. lru_map[h].last_motify_time = acked[h]
    BY <1>4 DEF KeepInv, FreeIsKept
  <2>4. acked[h] \in Nat /\ written[h] <= acked[h]
    BY <1>4, <2>2 DEF KeepInv, OrderInv, WrittenIsEarlier, Exists
  <2> QED BY <2>1, <2>2, <2>3, <2>4
<1>5. FreeIsKept'
  BY <1>1, <1>2, <1>4 DEF KeepInv, FreeIsKept, Expired
<1> QED BY <1>3, <1>5

(* When the last acknowledged version is written, nothing is left to write.*)
LEMMA WriteMergedRecordKeeps ==
  ASSUME KeepInv, WriteMergedRecord
  PROVE  InUseIsHolding' /\ FreeIsKept'
<1>1. UNCHANGED <<client, acked, lru_map>>
  BY DEF WriteMergedRecord, cacheVars, handlerVars
<1>2. ASSUME NEW h \in Guid, client[h] \in {"free", "loading"},
             written[h] = acked[h]
      PROVE  written'[h] = written[h]
  <2>1. acked[h] \in Nat
    BY <1>2 DEF KeepInv, OrderInv, WrittenIsEarlier, Exists
  <2>2. m_merge_record_map[h] = NoRecord
    <3> SUFFICES ASSUME m_merge_record_map[h] # NoRecord PROVE FALSE
      OBVIOUS
    <3>1. Later(m_merge_record_map[h].stream, h)
      BY DEF KeepInv, OrderInv, MergedIsLater
    <3>2. m_merge_record_map[h].stream \in Nat
      BY DEF KeepInv, CacheInv, WriteBehindTypeOK, MergedRecord
    <3> QED BY <1>2, <2>1, <3>1, <3>2 DEF Later, Exists
  <2>3. written \in [Guid -> Version]
    BY DEF KeepInv, CacheInv, WriteBehindTypeOK
  <2> QED BY <2>2, <2>3 DEF WriteMergedRecord
<1> QED BY <1>1, <1>2 DEF KeepInv, InUseIsHolding, FreeIsKept, Expired

LEMMA HandleDbLoadKeeps ==
  ASSUME KeepInv, NEW r \in db_load_reqplay, HandleDbLoad(r),
         UNCHANGED convertsysVars
  PROVE  InUseIsHolding' /\ FreeIsKept'
<1>1. UNCHANGED <<acked, lru_map, written>>
  BY DEF HandleDbLoad, convertsysVars, dbVars
<1>2. CASE client' = client
  BY <1>1, <1>2 DEF KeepInv, InUseIsHolding, FreeIsKept, Expired
<1>3. CASE client' # client
  <2>1. client \in [Guid -> ClientState] /\ CacheTypeOK
    BY DEF KeepInv, CacheInv, WriteBehindTypeOK, CacheTypeOK
  <2>2. /\ client[r.guid] = "loading"
        /\ client' = [client EXCEPT ![r.guid] =
                        IF r.stream = NoVersion THEN "free" ELSE "loaded"]
    BY <1>3, <2>1, HandleDbLoadClient
  <2>3. \A h \in Guid : \/ client'[h] = client[h]
                        \/ /\ client[h] = "loading"
                           /\ client'[h] \in {"free", "loaded"}
    BY <2>1, <2>2
  <2> QED BY <1>1, <2>3
      DEF KeepInv, InUseIsHolding, FreeIsKept, Expired, Holding
<1> QED BY <1>2, <1>3

LEMMA KeepInvInductive ==
  ASSUME ~LoadsGivenUp, KeepInv, [Next]_vars
  PROVE  KeepInv'
<1>1. CacheInv' /\ OrderInv'
  BY CacheInvInductive, OrderInvInductive DEF KeepInv
<1>2. ASSUME UNCHANGED <<client, acked, lru_map, written>>
      PROVE  InUseIsHolding' /\ FreeIsKept'
  BY <1>2 DEF KeepInv, InUseIsHolding, FreeIsKept, Expired
<1>3. InUseIsHolding' /\ FreeIsKept'
  <2>1. CASE CacheStep
    BY <1>2, <2>1, HandlePacketKeeps, HandleDbLoadKeeps
    DEF CacheStep, TakeRecords, RotateFile, WriteBatch, handlerVars,
        convertsysVars, dbVars
  <2>2. CASE SessionStep
    BY <1>2, <2>2, HandleBinaryRecordKeeps
    DEF SessionStep, StartTransfer, SendFile, ConvertSessionClosed,
        cacheVars, handlerVars, dbVars
  <2>3. CASE ConvertStep
    BY <1>2, <2>3, WriteMergedRecordKeeps
    DEF ConvertStep, OpenFile, ProcessRecord, EndOfFile, EndOfWriting,
        cacheVars, handlerVars, dbVars
  <2>4. CASE ConvertStops \/ ConvertStarts
    BY <1>2, <2>4
    DEF ConvertStops, ConvertStarts, cacheVars, handlerVars, dbVars
  <2>5. ASSUME NEW r \in data_req_info, LoadRow(r)
        PROVE  InUseIsHolding' /\ FreeIsKept'
    BY <1>2, <2>5 DEF LoadRow, dbVars
  <2>6. CASE UNCHANGED vars
    BY <1>2, <2>6 DEF vars, cacheVars, handlerVars, convertsysVars, dbVars
  <2> QED BY <2>1, <2>2, <2>3, <2>4, <2>5, <2>6 DEF Next
<1> QED BY <1>1, <1>3 DEF KeepInv

(* While no load is given up, an expired item in use never outlives the    *)
(* object in the entity map that it points to (EntityHander.cpp:373 moves  *)
(* it there, handleFlushEntity and handleRemoveEntity reset the item).     *)
THEOREM InUseStaysHeld ==
  ASSUME ~LoadsGivenUp
  PROVE  Spec => []InUseIsHeld
<1>1. KeepInv => InUseIsHeld
  BY DEF KeepInv, CacheInv, HeldIsCached, InUseIsHolding, InUseIsHeld
<1>2. KeepInv /\ [Next]_vars => KeepInv'
  BY KeepInvInductive
<1> QED BY <1>1, <1>2, KeepInvInitial, PTL DEF Spec

(* While no load is given up, cachesys forgets an entity only when its     *)
(* last acknowledged version is written: for any interleaving of requests, *)
(* files, merges, late confirmations and restarts of convertsys.           *)
THEOREM ForgottenStaysWritten ==
  ASSUME ~LoadsGivenUp
  PROVE  Spec => []ForgottenIsWritten
<1>1. KeepInv => ForgottenIsWritten
  BY DEF KeepInv, FreeIsKept, ForgottenIsWritten
<1>2. KeepInv /\ [Next]_vars => KeepInv'
  BY KeepInvInductive
<1> QED BY <1>1, <1>2, KeepInvInitial, PTL DEF Spec

(* Only a confirmation drops an expired item. *)
LEMMA OnlyConfirmationDrops ==
  ASSUME WriteBehindTypeOK, [Next]_vars, NEW g \in Guid, Expired(g),
         lru_map'[g] = NoItem
  PROVE  HandleBinaryRecord
<1>1. lru_map \in [Guid -> ExpiredItem \cup {NoItem}] /\ guid_index \in Nat
  BY DEF WriteBehindTypeOK, CacheTypeOK
<1>2. lru_map[g] \in ExpiredItem /\ NoItem \notin ExpiredItem
  BY <1>1, NoItemAssumption DEF Expired
<1>3. lru_map' # lru_map
  BY <1>2
<1>4. ~HandlePacket
  <2> SUFFICES ASSUME NEW h \in Guid,
                      \/ UpdateExpired(h, NextVersion)
                      \/ UpdateExpiredToDelete(h)
                      \/ LoadFromExpired(h)
               PROVE  FALSE
    BY <1>3
    DEF HandlePacket, HandleNewEntity, HandleNewEntityWithFlush,
        HandleLoadEntity, LoadFromMap, LoadFromDb, HandleFlushEntity,
        HandleUpdateEntity, HandleRemoveEntity, HandleOnlyRemoveEntity,
        HandleLoadEntityOnce
  <2>1. h = g
    BY <1>1, <1>2 DEF UpdateExpired, UpdateExpiredToDelete, LoadFromExpired
  <2>2. CASE UpdateExpired(g, NextVersion)
    <3>1. NextVersion \in Nat
      BY <1>1 DEF NextVersion
    <3>2. [last_motify_time |-> NextVersion, in_use |-> FALSE,
           is_delete |-> FALSE, item |-> NextVersion] \in ExpiredItem
      BY <3>1, NoVersionAssumption DEF ExpiredItem, Version
    <3> QED BY <1>1, <1>2, <2>2, <3>2 DEF UpdateExpired
  <2>3. CASE UpdateExpiredToDelete(g)
    <3>1. [lru_map[g] EXCEPT !.in_use = FALSE, !.is_delete = TRUE,
                             !.item = NoVersion] \in ExpiredItem
      BY <1>2 DEF ExpiredItem, Version
    <3> QED BY <1>1, <1>2, <2>3, <3>1 DEF UpdateExpiredToDelete
  <2>4. CASE LoadFromExpired(g)
    <3>1. [lru_map[g] EXCEPT !.in_use = TRUE] \in ExpiredItem
      BY <1>2 DEF ExpiredItem
    <3> QED BY <1>1, <1>2, <2>4, <3>1 DEF LoadFromExpired
  <2> QED BY <2>1, <2>2, <2>3, <2>4
<1> QED BY <1>3, <1>4
    DEF Next, CacheStep, HandleDbLoad, TakeRecords, RotateFile, WriteBatch,
        SessionStep, StartTransfer, SendFile, ConvertSessionClosed,
        ConvertStep, OpenFile, ProcessRecord, EndOfFile, WriteMergedRecord,
        EndOfWriting, ConvertStops, ConvertStarts, LoadRow, handlerVars,
        cacheVars, vars

(* While no load is given up, the comment in ManageExpiredItem::remove is  *)
(* right: an item that is all cachesys has of its entity is dropped on the *)
(* confirmation of its own version only, which is written by then.         *)
THEOREM DroppedStaysWritten ==
  ASSUME ~LoadsGivenUp
  PROVE  Spec => DroppedIsWritten
<1> DEFINE Dropped ==
      \A g \in Guid :
        /\ entity_map[g] = NoVersion
        /\ Expired(g)
        /\ lru_map'[g] = NoItem
        => /\ written[g] \in Nat
           /\ written[g] >= lru_map[g].last_motify_time
<1>1. KeepInv /\ [Next]_vars => KeepInv'
  BY KeepInvInductive
<1>2. KeepInv /\ [Next]_vars => Dropped
  <2> SUFFICES ASSUME KeepInv, [Next]_vars, NEW g \in Guid,
                      entity_map[g] = NoVersion, Expired(g),
                      lru_map'[g] = NoItem
               PROVE  /\ written[g] \in Nat
                      /\ written[g] >= lru_map[g].last_motify_time
    OBVIOUS
  <2>1. ~lru_map[g].in_use
    BY DEF KeepInv, CacheInv, HeldIsCached, InUseIsHolding, Expired
  <2>2. lru_map \in [Guid -> ExpiredItem \cup {NoItem}] /\ lru_map[g] # NoItem
    BY DEF KeepInv, CacheInv, WriteBehindTypeOK, CacheTypeOK, Expired
  <2> PICK c \in confirmations : RemoveExpired(c.guid, c.last_modify_time)
    BY OnlyConfirmationDrops DEF HandleBinaryRecord, KeepInv, CacheInv
  <2>3. g = c.guid /\ lru_map[g].last_motify_time = c.last_modify_time
    BY <2>1, <2>2 DEF RemoveExpired
  <2>4. written[g] \in Nat /\ c.last_modify_time <= written[g]
    BY <2>3 DEF KeepInv, OrderInv, ConfirmedIsWritten
  <2>5. c.last_modify_time \in Nat
    BY DEF KeepInv, CacheInv, WriteBehindTypeOK, Confirmation
  <2> QED BY <2>3, <2>4, <2>5
<1>3. KeepInv /\ [Next]_vars => [Dropped]_vars
  BY <1>2
<1> HIDE DEF Dropped
<1> QED BY <1>1, <1>3, KeepInvInitial, PTL DEF Spec, DroppedIsWritten, Dropped

=============================================================================
