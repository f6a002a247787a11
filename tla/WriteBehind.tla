----------------------------- MODULE WriteBehind -----------------------------
(***************************************************************************)
(* The persistence path of the game servers' entities: cachesys            *)
(* (CacheServer), the session on which it hands its binary files to        *)
(* convertsys, convertsys itself, and the database.  convertsys merges the *)
(* records of a file entity by entity, writes the merged records, and      *)
(* confirms the flushes among them to cachesys, which then drops its       *)
(* expired item.  From then on a load goes to the database.                *)
(*                                                                         *)
(* One cachesys and so one convertsys thread.  Every request is a request  *)
(* list of its own (transaction_num = 1), so collectTransaction passes its *)
(* record on at once.                                                      *)
(***************************************************************************)
EXTENDS CacheServer, FiniteSets

CONSTANTS
  WriteResults,   \* [RecordType -> SUBSET BOOLEAN]: what writeRecordToDb
                  \* may return for a record of the type
  MaxMerge,       \* MAX_MERGE_RECORD_NUMBER
  MaxRestarts     \* bound of the model: ends of the convertsys process

ASSUME WriteResultsAssumption == WriteResults \in [RecordType -> SUBSET BOOLEAN]
ASSUME MaxMergeAssumption == MaxMerge \in Nat \ {0}
ASSUME MaxRestartsAssumption == MaxRestarts \in Nat

(* A DCMSG_BINARY_RECORD packet. *)
Confirmation == [guid : Guid, last_modify_time : Nat]

VARIABLES
  convert_is_available,  \* ManageConvertSession::m_convert_is_available
  sending,               \* the files transferBinaryFile is sending
  convert_up,            \* the convertsys process and its connection
  sqlite_file_queue,     \* SqliteQueueInfo::file_queue
  reading,               \* records of the current file not yet merged
  m_merge_record_map,    \* ManageSqliteFile::m_merge_record_map
  converting,            \* where processSqliteFile is
  confirmations,         \* confirmations on their way to cachesys
  db,                    \* the rows of the database
  written,               \* version last written with success (history)
  restarts               \* ends of convertsys so far (bound)

sessionVars == <<convert_is_available, sending>>
convertVars == <<convert_up, sqlite_file_queue, reading, m_merge_record_map,
                 converting, restarts>>
dbVars == <<db, written>>
convertsysVars == <<sessionVars, convertVars, confirmations, dbVars>>
vars == <<cacheVars, convertsysVars>>

WriteBehindTypeOK ==
  /\ CacheTypeOK
  /\ convert_is_available \in BOOLEAN
  /\ sending \in Seq(SUBSET Record)
  /\ convert_up \in BOOLEAN
  /\ sqlite_file_queue \in Seq(SUBSET Record)
  /\ reading \in SUBSET Record
  /\ m_merge_record_map \in [Guid -> MergedRecord \cup {NoRecord}]
  /\ converting \in {"idle", "merging", "writing"}
  /\ confirmations \in SUBSET Confirmation
  /\ db \in [Guid -> Version]
  /\ written \in [Guid -> Version]
  /\ restarts \in Nat

Init ==
  /\ CacheInit
  /\ convert_is_available = TRUE
  /\ sending = <<>>
  /\ convert_up = TRUE
  /\ sqlite_file_queue = <<>>
  /\ reading = {}
  /\ m_merge_record_map = [g \in Guid |-> NoRecord]
  /\ converting = "idle"
  /\ confirmations = {}
  /\ db = acked
  /\ written = acked
  /\ restarts = 0

-----------------------------------------------------------------------------
(* ManageConvertSession: handing files over *)

(* svc: convertsys is connected; the waiting files are to be transferred. *)
StartTransfer ==
  /\ convert_is_available
  /\ sending = <<>>
  /\ file_path_vec # <<>>
  /\ sending' = file_path_vec
  /\ file_path_vec' = <<>>
  /\ UNCHANGED <<handlerVars, guid_index, record_set, batch, file,
                 convert_is_available, convertVars, confirmations, dbVars>>

(* transferBinaryFile: one file of the loop.  If the connection has gone   *)
(* meanwhile, output finds no session and the file is forgotten.           *)
SendFile ==
  /\ sending # <<>>
  /\ sending' = Tail(sending)
  /\ sqlite_file_queue' = IF convert_up
                          THEN Append(sqlite_file_queue, Head(sending))
                          ELSE sqlite_file_queue
  /\ UNCHANGED <<cacheVars, convert_is_available, convert_up, reading,
                 m_merge_record_map, converting, restarts, confirmations,
                 dbVars>>

(* sessionClosed *)
ConvertSessionClosed ==
  /\ ~convert_up
  /\ convert_is_available
  /\ convert_is_available' = FALSE
  /\ UNCHANGED <<cacheVars, sending, convertVars, confirmations, dbVars>>

(* handleBinaryRecord *)
HandleBinaryRecord ==
  \E c \in confirmations :
    /\ confirmations' = confirmations \ {c}
    /\ RemoveExpired(c.guid, c.last_modify_time)
    /\ UNCHANGED <<entity_map, data_req_info, db_load_reqplay, client, acked,
                   answer, once_answer, guid_index, record_set, fileVars,
                   sessionVars, convertVars, dbVars>>

-----------------------------------------------------------------------------
(* convertsys *)

(* ManageSqliteFile::svc takes the next file. *)
OpenFile ==
  /\ convert_up
  /\ converting = "idle"
  /\ sqlite_file_queue # <<>>
  /\ reading' = Head(sqlite_file_queue)
  /\ sqlite_file_queue' = Tail(sqlite_file_queue)
  /\ converting' = "merging"
  /\ UNCHANGED <<cacheVars, sessionVars, convert_up, m_merge_record_map,
                 restarts, confirmations, dbVars>>

(* Records are read in the order of their number. *)
NextToRead(r) == r \in reading /\ \A s \in reading : r.guid <= s.guid

(* processRecord: merge the next record; checkMergeRecord writes the merge *)
(* map out when it is full.                                                *)
ProcessRecord ==
  /\ convert_up
  /\ converting = "merging"
  /\ \E r \in reading :
       /\ NextToRead(r)
       /\ reading' = reading \ {r}
       /\ m_merge_record_map' =
            [m_merge_record_map EXCEPT
               ![r.object_guid] = MergeRecord(@, r)]
  /\ converting' =
       IF Cardinality({h \in Guid : m_merge_record_map'[h] # NoRecord})
            < MaxMerge
       THEN "merging"
       ELSE "writing"
  /\ UNCHANGED <<cacheVars, sessionVars, convert_up, sqlite_file_queue,
                 restarts, confirmations, dbVars>>

(* Mutant: what is left in the merge map waits for the next file. *)
EndOfFileWithoutWriting ==
  /\ convert_up
  /\ converting = "merging"
  /\ reading = {}
  /\ converting' = "idle"
  /\ UNCHANGED <<cacheVars, sessionVars, convert_up, sqlite_file_queue,
                 reading, m_merge_record_map, restarts, confirmations,
                 dbVars>>

(* processSqliteFile: every record is read, checkMergeRecord(conn, true). *)
EndOfFile ==
  /\ convert_up
  /\ converting = "merging"
  /\ reading = {}
  /\ converting' = "writing"
  /\ UNCHANGED <<cacheVars, sessionVars, convert_up, sqlite_file_queue,
                 reading, m_merge_record_map, restarts, confirmations,
                 dbVars>>

(* CacheAssistantx (dynamicparse): insert and update put their statement   *)
(* together and return true, but do not run it; remove runs it.            *)
InsertRow(g) == db[g]
UpdateRow(g) == db[g]
RemoveRow(g) == NoVersion

(* writeRecordToDb: the row after a write that succeeded. *)
RowAfter(g, optype) ==
  CASE optype \in {"INSERT", "INSERT_WITH_FLUSH"} -> InsertRow(g)
    [] optype \in {"UPDATE", "FLUSH"} -> UpdateRow(g)
    [] optype = "REMOVE" -> RemoveRow(g)

(* checkMergeRecord, one record of its loop: write it; if that succeeded   *)
(* and a flush was merged into it, confirm it.  Written or not, the record *)
(* is deleted.                                                             *)
WriteMergedRecord ==
  /\ convert_up
  /\ converting = "writing"
  /\ \E g \in Guid, success \in BOOLEAN :
       LET m == m_merge_record_map[g]
       IN  /\ m # NoRecord
           /\ success \in WriteResults[m.optype]
           /\ db' = IF success THEN [db EXCEPT ![g] = RowAfter(g, m.optype)] ELSE db
           /\ written' = IF success THEN [written EXCEPT ![g] = m.stream]
                         ELSE written
           /\ confirmations' =
                IF success /\ m.last_is_flush
                THEN confirmations \cup
                       {[guid |-> g, last_modify_time |-> m.last_modify_time]}
                ELSE confirmations
           /\ m_merge_record_map' = [m_merge_record_map EXCEPT ![g] = NoRecord]
  /\ UNCHANGED <<cacheVars, sessionVars, convert_up, sqlite_file_queue,
                 reading, converting, restarts>>

(* checkMergeRecord is done: back to the file, or to the next one. *)
EndOfWriting ==
  /\ convert_up
  /\ converting = "writing"
  /\ \A g \in Guid : m_merge_record_map[g] = NoRecord
  /\ converting' = IF reading = {} THEN "idle" ELSE "merging"
  /\ UNCHANGED <<cacheVars, sessionVars, convert_up, sqlite_file_queue,
                 reading, m_merge_record_map, restarts, confirmations,
                 dbVars>>

(* The convertsys process ends: what it had in memory is gone, and so are  *)
(* the confirmations it had not yet sent.                                  *)
ConvertStops ==
  /\ convert_up
  /\ restarts < MaxRestarts
  /\ convert_up' = FALSE
  /\ sqlite_file_queue' = <<>>
  /\ reading' = {}
  /\ m_merge_record_map' = [g \in Guid |-> NoRecord]
  /\ converting' = "idle"
  /\ restarts' = restarts + 1
  /\ confirmations' \in SUBSET confirmations
  /\ UNCHANGED <<cacheVars, sessionVars, dbVars>>

(* convertsys is started again and connects (connectCache, sessionOpen). *)
ConvertStarts ==
  /\ ~convert_up
  /\ convert_up' = TRUE
  /\ convert_is_available' = TRUE
  /\ UNCHANGED <<cacheVars, sending, sqlite_file_queue, reading,
                 m_merge_record_map, converting, restarts, confirmations,
                 dbVars>>

-----------------------------------------------------------------------------
(* DbLoader::handleLoadRequest, one of six threads: read the row and hand  *)
(* the result to the handler thread.  The read may fail.                   *)
LoadRow(r) ==
  /\ r \in data_req_info
  /\ data_req_info' = data_req_info \ {r}
  /\ \E stream \in {db[r.guid], NoVersion} :
       db_load_reqplay' = db_load_reqplay \cup
         {[opcode |-> r.opcode, guid |-> r.guid, floor |-> r.floor,
           again |-> r.again, stream |-> stream]}
  /\ UNCHANGED <<entity_map, lru_map, client, acked, answer, once_answer,
                 guid_index, record_set, fileVars, sessionVars, convertVars,
                 confirmations, dbVars>>

(* A step of cachesys alone. *)
CacheStep ==
  /\ \/ HandlePacket
     \/ \E r \in db_load_reqplay : HandleDbLoad(r)
     \/ TakeRecords
     \/ RotateFile
     \/ WriteBatch
  /\ UNCHANGED convertsysVars

SessionStep ==
  StartTransfer \/ SendFile \/ ConvertSessionClosed \/ HandleBinaryRecord

ConvertStep ==
  OpenFile \/ ProcessRecord \/ EndOfFile \/ WriteMergedRecord \/ EndOfWriting

Next ==
  CacheStep \/ SessionStep \/ ConvertStep \/ ConvertStops \/ ConvertStarts
    \/ \E r \in data_req_info : LoadRow(r)

Spec == Init /\ [][Next]_vars

-----------------------------------------------------------------------------
(* What makes the path correct, whatever convertsys manages to write *)

(* An entity a game server holds is in the entity map:  handleFlushEntity *)
(* never answers that it is missing, whichever loads, loads that failed    *)
(* and confirmations came before.                                          *)
HeldIsCached ==
  \A g \in Guid : client[g] \in Holding => entity_map[g] # NoVersion

(* An expired item in use points to the object in the entity map, which an *)
(* update deletes, and ManageExpiredItem::remove drops it whatever version *)
(* is confirmed: so it must not be in use when the map has no entity.      *)
(* Holds while no load is given up.                                        *)
InUseIsHeld ==
  \A g \in Guid :
    lru_map[g] # NoItem /\ lru_map[g].in_use => entity_map[g] # NoVersion

(* handleLoadEntity goes to the database only for an entity whose last     *)
(* acknowledged version convertsys has written: however late a flush is    *)
(* confirmed, however the records are merged and whichever files are lost, *)
(* cachesys does not forget a version before it is written.  Holds while   *)
(* no load is given up.                                                    *)
ForgottenIsWritten ==
  \A g \in Guid :
    /\ client[g] \in {"free", "loading"}
    /\ entity_map[g] = NoVersion
    /\ ~Expired(g)
    => written[g] = acked[g]

(* ManageExpiredItem::remove: "do not remove entity from cache for get     *)
(* convert replay, as last motify is not equal".  When the expired item is *)
(* all cachesys has of an entity, only the confirmation of its own version *)
(* drops it.  A load that is given up breaks this: it leaves the item in   *)
(* use.                                                                    *)
DroppedIsWritten ==
  [][\A g \in Guid :
       /\ entity_map[g] = NoVersion
       /\ Expired(g)
       /\ lru_map'[g] = NoItem
       => /\ written[g] \in Nat
          /\ written[g] >= lru_map[g].last_motify_time
    ]_vars

(* Files, batches and merges keep the order in which the requests were     *)
(* acknowledged: convertsys never writes an older version over a newer.    *)
WrittenInOrder ==
  [][\A g \in Guid :
       written[g] \in Nat => written'[g] \in Nat /\ written[g] <= written'[g]
    ]_vars

-----------------------------------------------------------------------------
(* What the game servers rely on *)

(* Convertsys has reported the last version acknowledged, or a later one,  *)
(* as written.                                                             *)
Reported(g, version) == written[g] \in Nat /\ written[g] >= version

Store == INSTANCE EntityStore WITH
           Value <- 0 .. MaxRecords, NoValue <- NoVersion, store <- acked,
           reported <- written, answer <- <<answer.guid, answer.stream>>

(* cachesys answers LOAD from the map and the expired items as one store of *)
(* entities would: with what was last acknowledged, until convertsys has   *)
(* reported that version written.  Then the row counts, whatever it holds. *)
(* Holds while no load is given up or repeated.                            *)
ImplementsStore == Store!Spec

(* LOAD_ONCE reads an entity that others write and flush meanwhile. The    *)
(* answer is no older than the entity was when the request was taken up,   *)
(* unless that version has been reported written, or the entity has been   *)
(* removed since.                                                          *)
OnceNotOlder ==
  once_answer.floor \in Nat =>
    \/ once_answer.stream \in Nat /\ once_answer.stream >= once_answer.floor
    \/ Reported(once_answer.guid, once_answer.floor)
    \/ client[once_answer.guid] = "removed"

(* Where a load finds an entity. *)
Stored(g) ==
  IF entity_map[g] # NoVersion THEN entity_map[g]
  ELSE IF Expired(g) THEN lru_map[g].item
  ELSE db[g]


-----------------------------------------------------------------------------
(* Progress *)

(* The threads of cachesys and convertsys go on (svc loops), and take what *)
(* waits in turn; a game server need not send anything.                    *)
Fairness ==
  /\ WF_vars(TakeRecords /\ UNCHANGED convertsysVars)
  /\ WF_vars(RotateFile /\ UNCHANGED convertsysVars)
  /\ WF_vars(WriteBatch /\ UNCHANGED convertsysVars)
  /\ WF_vars(StartTransfer)
  /\ WF_vars(SendFile)
  /\ WF_vars(HandleBinaryRecord)
  /\ WF_vars(ConvertStep)
  /\ \A g \in Guid, opcode \in {"LOAD", "LOAD_ONCE"} :
       /\ WF_vars(\E r \in data_req_info :
                    r.guid = g /\ r.opcode = opcode /\ LoadRow(r))
       /\ WF_vars(\E r \in db_load_reqplay :
                    /\ r.guid = g /\ r.opcode = opcode /\ HandleDbLoad(r)
                    /\ UNCHANGED convertsysVars)

FairSpec == Spec /\ Fairness

(* A record, or what it was merged into, has not come to writeRecordToDb. *)
InFiles(files) == UNION {files[i] : i \in DOMAIN files}

OnItsWay(g, v) ==
  \/ \E r \in record_set \cup batch \cup file \cup InFiles(file_path_vec)
            \cup InFiles(sending) \cup InFiles(sqlite_file_queue) \cup reading :
       r.guid = v
  \/ /\ m_merge_record_map[g] # NoRecord
     /\ m_merge_record_map[g].stream >= v

(* What cachesys has acknowledged and recorded comes to writeRecordToDb,   *)
(* alone or merged with other records of its entity, while convertsys stays*)
(* up.                                                                     *)
RecordedIsTried ==
  \A g \in Guid, v \in 1 .. MaxRecords :
    (\E r \in record_set : r.guid = v /\ r.object_guid = g) ~> ~OnItsWay(g, v)

(* If convertsys stays up, a flush (the record of handleFlushEntity) whose *)
(* write is reported is confirmed, and its expired item does not stay: it  *)
(* goes, or has been taken into use, flushed again or deleted.             *)
FlushIsConfirmed ==
  \A g \in Guid, v \in 1 .. MaxRecords :
    [guid |-> v, object_guid |-> g, optype |-> "FLUSH"] \in record_set
      ~> \/ ~OnItsWay(g, v) /\ ~Reported(g, v)
         \/ lru_map[g] = NoItem
         \/ lru_map[g].last_motify_time # v
         \/ lru_map[g].in_use
         \/ lru_map[g].is_delete

(* A load handed to DbLoader comes back. *)
LoadIsAnswered ==
  \A g \in Guid : client[g] = "loading" ~> client[g] # "loading"

=============================================================================
