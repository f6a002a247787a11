----------------------------- MODULE RecordMerge -----------------------------
(***************************************************************************)
(* The operation records cachesys writes for convertsys, and how convertsys*)
(* merges two records of one entity before it writes them to the database  *)
(* (cachesys/src/serialize/Serialize.h, convertsys ManageSQLiteFile.cpp).  *)
(*                                                                         *)
(* A record is numbered by ManageSerialize::getGUID.  Its last_modify_time *)
(* is the microsecond clock read when the request was taken up; requests   *)
(* are taken up by one thread, so number and time grow together and one    *)
(* counter stands for both.  The serialized entity ("stream") is the number*)
(* of the record that wrote it: every write makes a new version.           *)
(***************************************************************************)
EXTENDS Integers

CONSTANTS Guid,        \* entities
          NoRecord     \* absence of a merged record

(* Serialize.h RecordType, less RT_BASE, RT_LOAD and RT_QUERY, which no    *)
(* caller of writeRecord passes.                                           *)
RecordType == {"INSERT", "UPDATE", "FLUSH", "REMOVE", "INSERT_WITH_FLUSH"}

(* A record in a binary file. *)
Record == [guid : Nat, object_guid : Guid, optype : RecordType]

(* A record of m_merge_record_map: the first record of its entity with the *)
(* changes made by the later ones.                                         *)
MergedRecord ==
  [optype : RecordType, stream : Nat, last_modify_time : Nat,
   last_is_flush : BOOLEAN]

ASSUME NoRecordAssumption == NoRecord \notin MergedRecord

(* The else branch of mergeRecord: a record that has nothing to merge with. *)
FirstRecord(r) ==
  [optype |-> r.optype, stream |-> r.guid, last_modify_time |-> r.guid,
   last_is_flush |-> r.optype = "FLUSH"]

(* The optype of the merged record: UPDATE and FLUSH take the later type   *)
(* when it is stronger, every other type stays what it was first.          *)
MergedType(first, second) ==
  CASE first.optype = "UPDATE" /\ second.optype \in {"FLUSH", "REMOVE"} ->
         second.optype
    [] first.optype = "FLUSH" /\ second.optype = "REMOVE" -> "REMOVE"
    [] OTHER -> first.optype

(* Mutant: a flush merged onto an insert is not noticed. *)
MergedFlushNotOntoInsert(first, second) ==
  \/ first.last_is_flush
  \/ /\ first.optype = "UPDATE"
     /\ second.optype = "FLUSH"
  \/ /\ first.optype = "FLUSH"
     /\ second.optype \in {"UPDATE", "FLUSH", "REMOVE"}
  \/ first.optype = "INSERT_WITH_FLUSH"

(* A merged record asks for a confirmation if a flush was merged into it   *)
(* or onto it.                                                             *)
MergedFlush(first, second) ==
  \/ first.last_is_flush
  \/ /\ first.optype \in {"INSERT", "UPDATE"}
     /\ second.optype = "FLUSH"
  \/ /\ first.optype = "FLUSH"
     /\ second.optype \in {"UPDATE", "FLUSH", "REMOVE"}
  \/ first.optype = "INSERT_WITH_FLUSH"

(* A flush brings its own time, except to an entity already removed. *)
MergedTime(first, second) ==
  IF second.optype = "FLUSH" /\ first.optype # "REMOVE"
  THEN second.guid
  ELSE first.last_modify_time

(* ManageSqliteFile::mergeRecord. The later stream always replaces the     *)
(* earlier one; an entity inserted and removed in one file needs no write. *)
MergeRecord(first, second) ==
  IF first = NoRecord THEN FirstRecord(second)
  ELSE IF /\ first.optype \in {"INSERT", "INSERT_WITH_FLUSH"}
          /\ second.optype = "REMOVE"
  THEN NoRecord
  ELSE [optype |-> MergedType(first, second),
        stream |-> second.guid,
        last_modify_time |-> MergedTime(first, second),
        last_is_flush |-> MergedFlush(first, second)]

=============================================================================
