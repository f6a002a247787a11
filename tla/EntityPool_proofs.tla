------------------------- MODULE EntityPool_proofs -------------------------
(***************************************************************************)
(* The safety properties of EntityPool, for any number of players and      *)
(* entities, any number of changes, and batches given up on at any time.   *)
(*                                                                         *)
(* Everything is said of one entity or one list at a time, and of a value  *)
(* s of the pool, since the timer's handler goes through several of them.  *)
(* What is on its way about an entity tells what cachesys will make of it  *)
(* (FitInv); what waits in the pool may be sent after that (EntityInv);    *)
(* the ids that an answer is matched with are those of the requests in     *)
(* order (LineInv); a list counts the answers that are not due any more    *)
(* (CountInv); and nothing is sent about an entity after its flush, so     *)
(* that a flush whose answers are all there has all recorded (FlushInv).   *)
(***************************************************************************)
EXTENDS EntityPool, FiniteSetTheorems, SequenceTheorems, TLAPS

-----------------------------------------------------------------------------
(* The inductive invariant *)

Answer == [success : BOOLEAN, id : Id]

ListsOK(s) ==
  \A l \in s.request_info_vec :
    l.guids \subseteq OwnedBy(l.owner) /\ l.complated < Cardinality(l.guids)

(* The pool has its types, and there are finitely many ids to avoid. *)
PoolInv(s) == s \in PoolType /\ ListsOK(s) /\ IsFiniteSet(UsedIds(s))

EnvTypeOK ==
  /\ input \in [Entity -> Seq(Answer)]
  /\ input_line \in [Player -> Seq(Entity)]
  /\ player_state \in [Player -> PlayerState]
  /\ need_flush \subseteq Player
  /\ stored \in [Entity -> Version \cup {NoVersion}]
  /\ client \in [Entity -> {"none", "held", "free", "removed"}]
  /\ made \subseteq New
  /\ content \in [Entity -> Version \cup {NoVersion}]

(* The ids listed for an entity are those of its answers and, after them,  *)
(* of its requests.                                                        *)
LineInv(ids, answers, requests) ==
  /\ Len(ids) = Len(answers) + Len(requests)
  /\ \A k \in 1 .. Len(answers) : ids[k] = answers[k].id
  /\ \A k \in 1 .. Len(requests) :
       ids[Len(answers) + k] = requests[k].id

Adds == {"add", "add_with_flush"}
Releases == {"flush", "add_with_flush", "remove"}

(* The requests on their way fit an entity that is now so in cachesys: the *)
(* first of all adds it, and after one that releases it there is none.     *)
FitInv(requests, c) ==
  /\ \A k \in 1 .. Len(requests) :
       /\ requests[k].type \in Adds <=> (k = 1 /\ c = "none")
       /\ requests[k].type \in Releases => k = Len(requests)
  /\ c \in {"free", "removed"} => requests = <<>>

(* cachesys has the entity, or will have it. *)
Known(requests, c) == c # "none" \/ requests # <<>>

(* cachesys has released it, or will have. *)
Closed(requests, c) ==
  \/ c \in {"free", "removed"}
  \/ \E k \in 1 .. Len(requests) : requests[k].type \in Releases

(* What the pool has of an entity and waits to be sent fits what was sent. *)
EntityInv(s, e) ==
  LET info == s.entity_map[e]
      db == s.db_entity_map[e]
      known == Known(s.output[e], client[e])
      closed == Closed(s.output[e], client[e])
  IN  /\ info # NoEntity =>
           /\ ~info.is_remove_from_memory
           /\ info.version = content[e]
           /\ info.is_flushing => db = "none"
      /\ db = "add" => Gettable(s, e) /\ Kind[e] = "part" /\ ~known
      /\ db = "remove" =>
           /\ info = NoEntity /\ Kind[e] = "part" /\ content[e] = NoVersion
           /\ known /\ ~closed
      /\ Gettable(s, e) => ~closed /\ (db # "add" => known)
      /\ client[e] = "none" => stored[e] = NoVersion
      /\ e \in New \ made =>
           info = NoEntity /\ db = "none" /\ ~known /\ content[e] = NoVersion

Stored(requests, now) ==
  IF requests = <<>> THEN now ELSE requests[Len(requests)].version

(* UpdatesAreKept, and what is needed for GoneIsStored besides. *)
KeptInv(s, e) ==
  /\ \/ Stored(s.output[e], stored[e]) = content[e]
     \/ s.db_entity_map[e] = "remove" /\ content[e] = NoVersion
     \/ s.db_entity_map[e] \in {"add", "update"} /\ Gettable(s, e)
  /\ s.entity_map[e] = NoEntity /\ content[e] # NoVersion => s.output[e] = <<>>

Listed(s, e, id) ==
  \E k \in 1 .. Len(s.guid_vec[e]) : s.guid_vec[e][k] = id

(* An id is listed for an entity once, and the list that bears it asks for *)
(* that entity.                                                            *)
IdInv(s) ==
  /\ \A l, m \in s.request_info_vec : l.id = m.id => l = m
  /\ \A e \in Entity : \A i, j \in 1 .. Len(s.guid_vec[e]) :
       s.guid_vec[e][i] = s.guid_vec[e][j] => i = j
  /\ \A l \in s.request_info_vec, e \in Entity :
       Listed(s, e, l.id) => e \in l.guids

(* What a list still waits for. *)
Pending(s, l) == {e \in l.guids : Listed(s, e, l.id)}

CountInv(s) ==
  \A l \in s.request_info_vec :
    l.complated + Cardinality(Pending(s, l)) = Cardinality(l.guids)

(* Nothing is asked for after a flush, and nothing changes until it ends. *)
FlushInv(s) ==
  \A l \in s.request_info_vec :
    l.kind = "flush" =>
      /\ PlayerOf(l.owner) \in l.guids
      /\ \A e \in l.guids :
           /\ s.db_entity_map[e] = "none" /\ ~Gettable(s, e)
           /\ e \notin New \ made
           /\ \/ s.guid_vec[e] = <<>>
              \/ s.guid_vec[e][Len(s.guid_vec[e])] = l.id

LinesInv(s) ==
  \A e \in Entity : LineInv(s.guid_vec[e], input[e], s.output[e])
FitsInv(s) == \A e \in Entity : FitInv(s.output[e], client[e])
EntitiesInv(s) == \A e \in Entity : EntityInv(s, e)
KeepsInv(s) == \A e \in Kept : KeptInv(s, e)

(* All of it that is about the pool, so that it can be said of the values  *)
(* a handler goes through.                                                 *)
PoolOK(s) ==
  /\ PoolInv(s)
  /\ LinesInv(s)
  /\ FitsInv(s) /\ EntitiesInv(s) /\ KeepsInv(s)
  /\ IdInv(s) /\ CountInv(s) /\ FlushInv(s)

IInv == EnvTypeOK /\ PoolOK(pool)

-----------------------------------------------------------------------------
(* Sequences and sets *)

(* Append and Tail, element by element. *)
LEMMA AppendFacts ==
  ASSUME NEW S, NEW q \in Seq(S), NEW x \in S
  PROVE  /\ Append(q, x) \in Seq(S)
         /\ Append(q, x) # <<>>
         /\ Len(q) \in Nat
         /\ Len(Append(q, x)) = Len(q) + 1
         /\ Append(q, x)[Len(q) + 1] = x
         /\ \A k \in 1 .. Len(q) : Append(q, x)[k] = q[k]
<1>1. /\ Append(q, x) \in Seq(S) /\ Len(q) \in Nat
      /\ Len(Append(q, x)) = Len(q) + 1
  OBVIOUS
<1>2. Append(q, x) # <<>>
  BY <1>1, EmptySeq
<1>3. Append(q, x)[Len(q) + 1] = x /\ \A k \in 1 .. Len(q) : Append(q, x)[k] = q[k]
  OBVIOUS
<1> QED
  BY <1>1, <1>2, <1>3

(* The first of a sequence, and what follows it.                           *)
LEMMA TailFacts ==
  ASSUME NEW S, NEW q \in Seq(S), q # <<>>
  PROVE  /\ Tail(q) \in Seq(S)
         /\ Len(q) \in Nat \ {0}
         /\ Head(q) = q[1] /\ Head(q) \in S
         /\ Len(Tail(q)) = Len(q) - 1
         /\ \A k \in 1 .. Len(q) - 1 : Tail(q)[k] = q[k + 1]
         /\ Tail(q) = <<>> <=> Len(q) = 1
<1>1. /\ Tail(q) \in Seq(S) /\ Head(q) \in S /\ Len(Tail(q)) = Len(q) - 1
      /\ \A k \in 1 .. Len(Tail(q)) : Tail(q)[k] = q[k + 1]
  BY HeadTailProperties
<1>2. Len(q) \in Nat \ {0}
  BY EmptySeq
<1>3. Head(q) = q[1]
  OBVIOUS
<1>4. Tail(q) = <<>> <=> Len(Tail(q)) = 0
  BY <1>1, EmptySeq
<1> QED
  BY <1>1, <1>2, <1>3, <1>4

(* SetToSeq lists the elements of a finite set. *)
LEMMA SetToSeqType ==
  ASSUME NEW T, NEW S \in SUBSET T, IsFiniteSet(S)
  PROVE  SetToSeq(S) \in Seq(T)
<1>1. /\ Cardinality(S) \in Nat
      /\ ExistsBijection(1 .. Cardinality(S), S)
  BY FS_CardinalityType
<1>2. \E f \in [1 .. Cardinality(S) -> S] : IsInjective(f)
  BY <1>1 DEF ExistsBijection, Bijection, Injection, IsInjective
<1>3. SetToSeq(S) \in [1 .. Cardinality(S) -> S]
  BY <1>2 DEF SetToSeq
<1>4. SetToSeq(S) \in [1 .. Cardinality(S) -> T]
  BY <1>3
<1> QED
  BY <1>1, <1>4

(* The owners of finitely many entities are finitely many. *)
LEMMA OwnersFinite ==
  ASSUME NEW guids \in SUBSET Entity
  PROVE  /\ Owners(guids) \in SUBSET Player
         /\ IsFiniteSet(Owners(guids)) /\ Cardinality(Owners(guids)) \in Nat
<1>1. IsFiniteSet(guids)
  BY EntityAssumption, FS_Subset
<1> DEFINE f == [e \in guids |-> Owner[e]]
<1>2. f \in Surjection(guids, Owners(guids))
  BY DEF Surjection, Owners
<1>3. IsFiniteSet(Owners(guids))
  BY <1>1, <1>2, FS_Surjection
<1> QED
  BY <1>3, FS_CardinalityType, OwnerAssumption DEF Owners

(* createRequestList finds an id for every owner, and it is a new one. *)
LEMMA RequestIdsFresh ==
  ASSUME NEW s, IsFiniteSet(UsedIds(s)), NEW owners, IsFiniteSet(owners)
  PROVE  /\ RequestIds(s, owners) \in [owners -> Id]
         /\ \A o \in owners : RequestIds(s, owners)[o] \notin UsedIds(s)
         /\ \A o, p \in owners :
              RequestIds(s, owners)[o] = RequestIds(s, owners)[p] => o = p
         /\ \A ids \in [owners -> Id] :
              IsFiniteSet({ids[o] : o \in owners})
<1> DEFINE used == UsedIds(s)
           n == Cardinality(used) + Cardinality(owners)
           free == (1 .. n) \ used
           ids == RequestIds(s, owners)
<1>1. /\ Cardinality(used) \in Nat /\ Cardinality(owners) \in Nat
      /\ ExistsBijection(1 .. Cardinality(owners), owners)
  BY FS_CardinalityType
<1>2. IsFiniteSet(1 .. n) /\ Cardinality(1 .. n) = n
  <2>1. n \in Nat
    BY <1>1
  <2> HIDE DEF n
  <2>2. 1 \in Int /\ n \in Int
    BY <2>1
  <2>3. /\ IsFiniteSet(1 .. n)
        /\ Cardinality(1 .. n) = IF 1 > n THEN 0 ELSE n - 1 + 1
    BY <2>2, FS_Interval
  <2> QED
    BY <2>1, <2>3
<1>3. /\ IsFiniteSet(free)
      /\ Cardinality(free) = n - Cardinality((1 .. n) \cap used)
  BY <1>2, FS_Difference
<1>4. /\ Cardinality((1 .. n) \cap used) <= Cardinality(used)
      /\ Cardinality((1 .. n) \cap used) \in Nat
  BY FS_Intersection, FS_CardinalityType
<1>5. /\ Cardinality(free) \in Nat /\ Cardinality(owners) <= Cardinality(free)
      /\ ExistsBijection(1 .. Cardinality(free), free)
  <2>1. Cardinality(free) \in Nat /\ ExistsBijection(1 .. Cardinality(free), free)
    BY <1>3, FS_CardinalityType
  <2> HIDE DEF used, free
  <2>2. Cardinality(owners) <= Cardinality(free)
    BY <1>1, <1>3, <1>4, <2>1
  <2> QED
    BY <2>1, <2>2
<1>6. \E f \in [owners -> free] : IsInjective(f)
  <2>1. PICK g \in Bijection(1 .. Cardinality(owners), owners) : TRUE
    BY <1>1 DEF ExistsBijection
  <2>2. PICK h \in Bijection(1 .. Cardinality(free), free) : TRUE
    BY <1>5 DEF ExistsBijection
  <2>3. \A o \in owners : \E k \in 1 .. Cardinality(owners) : g[k] = o
    BY <2>1 DEF Bijection, Surjection
  <2> DEFINE at == [o \in owners |->
                      CHOOSE k \in 1 .. Cardinality(owners) : g[k] = o]
  <2>4. \A o \in owners : at[o] \in 1 .. Cardinality(owners) /\ g[at[o]] = o
    BY <2>3
  <2>5. \A k \in 1 .. Cardinality(owners) : k \in 1 .. Cardinality(free)
    BY <1>1, <1>5
  <2>6. /\ h \in [1 .. Cardinality(free) -> free]
        /\ \A j, k \in 1 .. Cardinality(free) : h[j] = h[k] => j = k
    BY <2>2 DEF Bijection, Injection, IsInjective
  <2> DEFINE f == [o \in owners |-> h[at[o]]]
  <2> HIDE DEF at, free
  <2>7. f \in [owners -> free]
    BY <2>4, <2>5, <2>6
  <2>8. \A o, p \in owners : f[o] = f[p] => o = p
    BY <2>4, <2>5, <2>6
  <2> QED
    BY <2>7, <2>8 DEF IsInjective
<1>7. ids \in [owners -> free] /\ IsInjective(ids)
  <2>1. ids = CHOOSE f \in [owners -> free] : IsInjective(f)
    BY DEF RequestIds
  <2> QED
    BY <1>6, <2>1
<1>8. \A k \in free : k \in Id /\ k \notin UsedIds(s)
  BY <1>1 DEF Id
<1>9. ASSUME NEW f \in [owners -> Id]
      PROVE  IsFiniteSet({f[o] : o \in owners})
  <2> DEFINE g == [o \in owners |-> f[o]]
  <2>1. g \in Surjection(owners, {f[o] : o \in owners})
    BY DEF Surjection
  <2> QED
    BY <2>1, FS_Surjection
<1> HIDE DEF ids, free, used, n
<1>10. ids \in [owners -> Id] /\ \A o \in owners : ids[o] \notin UsedIds(s)
  BY <1>7, <1>8
<1>11. \A o, p \in owners : ids[o] = ids[p] => o = p
  BY <1>7 DEF IsInjective
<1> QED
  BY <1>9, <1>10, <1>11 DEF ids

-----------------------------------------------------------------------------
(* Sending *)

(* t is s after requests of these types were sent, with these new lists.   *)
Sends(s, t, types, ids, lists) ==
  /\ t.request_info_vec = s.request_info_vec \cup lists
  /\ \A e \in DOMAIN types :
       /\ t.guid_vec[e] = Append(s.guid_vec[e], ids[Owner[e]])
       /\ t.output[e] =
            Append(s.output[e], Request(t, types[e], e, ids[Owner[e]]))
  /\ \A e \in Entity \ DOMAIN types :
       t.guid_vec[e] = s.guid_vec[e] /\ t.output[e] = s.output[e]

Lists(kind, types, ids) ==
  {RequestInfo(kind, o, DOMAIN types, ids[o]) : o \in Owners(DOMAIN types)}

(* The ids that createRequestList gives. *)
FreshIds(s, types, ids) ==
  /\ ids \in [Owners(DOMAIN types) -> Id]
  /\ \A o \in Owners(DOMAIN types) : ids[o] \notin UsedIds(s)
  /\ \A o, p \in Owners(DOMAIN types) : ids[o] = ids[p] => o = p
  /\ IsFiniteSet({ids[o] : o \in Owners(DOMAIN types)})

(* What may be sent: requests about GUIDs, and only a removed entity is    *)
(* not serialised.                                                         *)
Serialisable(s, types) ==
  /\ DOMAIN types \in SUBSET Entity
  /\ \A e \in DOMAIN types :
       /\ types[e] \in RequestType
       /\ types[e] # "remove" => s.entity_map[e] # NoEntity

(* A request of an entity that is in the pool is a request.                *)
LEMMA RequestTyped ==
  ASSUME NEW s \in PoolType, NEW e \in Entity, NEW type \in RequestType,
         type # "remove" => s.entity_map[e] # NoEntity, NEW id \in Id
  PROVE  Request(s, type, e, id) \in
           [type : RequestType, id : Id, version : Version \cup {NoVersion}]
<1>1. s.entity_map[e] \in EntityInfo \cup {NoEntity}
  BY DEF PoolType
<1>2. CASE type = "remove"
  BY <1>2 DEF Request
<1>3. CASE type # "remove"
  <2>1. s.entity_map[e].version \in Version
    BY <1>1, <1>3 DEF EntityInfo
  <2> QED
    BY <1>3, <2>1 DEF Request
<1> QED
  BY <1>2, <1>3

(* cacheOutput sends what it is asked to and changes nothing else.         *)
LEMMA CacheOutputSends ==
  ASSUME NEW s \in PoolType, NEW types, Serialisable(s, types), NEW ids,
         \A e \in DOMAIN types : ids[Owner[e]] \in Id
  PROVE  LET t == CacheOutput(s, types, ids)
         IN  /\ t \in PoolType
             /\ Sends(s, t, types, ids, {})
             /\ t.entity_map = s.entity_map
             /\ t.db_entity_map = s.db_entity_map
             /\ t.request_info_vec = s.request_info_vec
             /\ t.updating_db_entity_map = s.updating_db_entity_map
             /\ t.update_to_db_num = s.update_to_db_num
<1> DEFINE t == CacheOutput(s, types, ids)
           R == [type : RequestType, id : Id,
                 version : Version \cup {NoVersion}]
           gv == [e \in Entity |->
                    IF e \in DOMAIN types
                    THEN Append(s.guid_vec[e], ids[Owner[e]])
                    ELSE s.guid_vec[e]]
           ou == [e \in Entity |->
                    IF e \in DOMAIN types
                    THEN Append(s.output[e],
                                Request(s, types[e], e, ids[Owner[e]]))
                    ELSE s.output[e]]
           li == [o \in Player |-> s.output_line[o]
                                     \o SetToSeq(DOMAIN types \cap OwnedBy(o))]
<1>1. gv \in [Entity -> Seq(Id)]
  <2>1. s.guid_vec \in [Entity -> Seq(Id)]
    BY DEF PoolType
  <2>2. ASSUME NEW e \in Entity PROVE gv[e] \in Seq(Id)
    BY <2>1, <2>2, AppendFacts
  <2> QED
    BY <2>2
<1>2. ou \in [Entity -> Seq(R)]
  <2>1. s.output \in [Entity -> Seq(R)]
    BY DEF PoolType
  <2>2. ASSUME NEW e \in DOMAIN types
        PROVE  Request(s, types[e], e, ids[Owner[e]]) \in R
    BY RequestTyped DEF Serialisable
  <2> HIDE DEF R
  <2>3. ASSUME NEW e \in Entity PROVE ou[e] \in Seq(R)
    BY <2>1, <2>2, <2>3, AppendFacts
  <2> QED
    BY <2>3
<1>3. li \in [Player -> Seq(Entity)]
  <2>1. s.output_line \in [Player -> Seq(Entity)]
    BY DEF PoolType
  <2>2. ASSUME NEW o \in Player PROVE li[o] \in Seq(Entity)
    <3>1. DOMAIN types \cap OwnedBy(o) \in SUBSET Entity
      BY DEF OwnedBy
    <3>2. SetToSeq(DOMAIN types \cap OwnedBy(o)) \in Seq(Entity)
      BY <3>1, SetToSeqType, EntityAssumption, FS_Subset
    <3> QED
      BY <2>1, <3>2, ConcatProperties
  <2> QED
    BY <2>2
<1>4. t = [s EXCEPT !.guid_vec = gv, !.output = ou, !.output_line = li]
  BY DEF CacheOutput
<1> HIDE DEF gv, ou, li, t
<1>5. /\ t \in PoolType
      /\ t.guid_vec = gv /\ t.output = ou
      /\ t.entity_map = s.entity_map
      /\ t.db_entity_map = s.db_entity_map
      /\ t.request_info_vec = s.request_info_vec
      /\ t.updating_db_entity_map = s.updating_db_entity_map
      /\ t.update_to_db_num = s.update_to_db_num
  BY <1>1, <1>2, <1>3, <1>4 DEF PoolType
<1>6. ASSUME NEW e \in DOMAIN types
      PROVE  Request(t, types[e], e, ids[Owner[e]])
               = Request(s, types[e], e, ids[Owner[e]])
  BY <1>5 DEF Request
<1>7. Sends(s, t, types, ids, {})
  <2>1. DOMAIN types \in SUBSET Entity
    BY DEF Serialisable
  <2> QED
    BY <1>5, <1>6, <2>1 DEF Sends, gv, ou
<1> QED
  BY <1>5, <1>7 DEF t

(* A list of a batch: some of the entities of its owner. *)
LEMMA ListFacts ==
  ASSUME NEW kind \in {"update", "flush"}, NEW types,
         DOMAIN types \in SUBSET Entity, NEW ids,
         ids \in [Owners(DOMAIN types) -> Id],
         NEW l \in Lists(kind, types, ids)
  PROVE  /\ l \in [id : Id, kind : {"update", "flush"}, owner : Player,
                   guids : SUBSET Entity, complated : Nat,
                   success : SUBSET Entity]
         /\ l.owner \in Owners(DOMAIN types) /\ l.id = ids[l.owner]
         /\ l.kind = kind /\ l.complated = 0
         /\ l.guids = DOMAIN types \cap OwnedBy(l.owner)
         /\ l.guids # {} /\ IsFiniteSet(l.guids)
         /\ Cardinality(l.guids) \in Nat /\ 0 < Cardinality(l.guids)
<1>1. PICK o \in Owners(DOMAIN types) :
        l = RequestInfo(kind, o, DOMAIN types, ids[o])
  BY DEF Lists
<1>2. o \in Player
  BY OwnersFinite
<1>3. /\ l.owner = o /\ l.id = ids[o] /\ l.kind = kind /\ l.complated = 0
      /\ l.guids = DOMAIN types \cap OwnedBy(o)
  BY <1>1 DEF RequestInfo
<1>4. l \in [id : Id, kind : {"update", "flush"}, owner : Player,
             guids : SUBSET Entity, complated : Nat, success : SUBSET Entity]
  BY <1>1, <1>2 DEF RequestInfo, OwnedBy
<1>5. l.guids # {}
  BY <1>3 DEF Owners, OwnedBy
<1>6. IsFiniteSet(l.guids)
  BY <1>3, EntityAssumption, FS_Subset
<1>7. Cardinality(l.guids) \in Nat /\ Cardinality(l.guids) # 0
  BY <1>5, <1>6, FS_CardinalityType, FS_EmptySet
<1> QED
  BY <1>3, <1>4, <1>5, <1>6, <1>7

(* commit makes the lists, with ids that nothing bears, and sends them.    *)
LEMMA CommitSends ==
  ASSUME NEW s \in PoolType, IsFiniteSet(UsedIds(s)),
         NEW kind \in {"update", "flush"}, NEW types, Serialisable(s, types)
  PROVE  LET t == Commit(s, kind, types)
         IN  /\ t \in PoolType
             /\ t.entity_map = s.entity_map
             /\ t.db_entity_map = s.db_entity_map
             /\ t.updating_db_entity_map = s.updating_db_entity_map
             /\ t.update_to_db_num = s.update_to_db_num
             /\ \E ids : /\ FreshIds(s, types, ids)
                         /\ Sends(s, t, types, ids, Lists(kind, types, ids))
<1> DEFINE t == Commit(s, kind, types)
           ids == RequestIds(s, Owners(DOMAIN types))
           lists == Lists(kind, types, ids)
           u == [s EXCEPT !.request_info_vec = @ \cup lists]
<1>1. DOMAIN types \in SUBSET Entity
  BY DEF Serialisable
<1>2. IsFiniteSet(Owners(DOMAIN types))
  BY <1>1, OwnersFinite
<1>3. FreshIds(s, types, ids)
  BY <1>2, RequestIdsFresh DEF FreshIds
<1>4. t = CacheOutput(u, types, ids)
  BY DEF Commit, Lists
<1> HIDE DEF ids, t
<1>5. ids \in [Owners(DOMAIN types) -> Id]
  BY <1>3 DEF FreshIds
<1>6. lists \subseteq [id : Id, kind : {"update", "flush"}, owner : Player,
                       guids : SUBSET Entity, complated : Nat,
                       success : SUBSET Entity]
  BY <1>1, <1>5, ListFacts
<1> HIDE DEF lists
<1>7. u \in PoolType
  BY <1>6 DEF PoolType
<1>8. /\ u.entity_map = s.entity_map
      /\ u.db_entity_map = s.db_entity_map
      /\ u.updating_db_entity_map = s.updating_db_entity_map
      /\ u.update_to_db_num = s.update_to_db_num
      /\ u.guid_vec = s.guid_vec
      /\ u.output = s.output
      /\ u.request_info_vec = s.request_info_vec \cup lists
  BY DEF PoolType
<1> HIDE DEF u
<1>9. Serialisable(u, types)
  BY <1>8 DEF Serialisable
<1>10. \A e \in DOMAIN types : ids[Owner[e]] \in Id
  BY <1>5 DEF Owners
<1>11. /\ t \in PoolType
       /\ Sends(u, t, types, ids, {})
       /\ t.entity_map = u.entity_map
       /\ t.db_entity_map = u.db_entity_map
       /\ t.request_info_vec = u.request_info_vec
       /\ t.updating_db_entity_map = u.updating_db_entity_map
       /\ t.update_to_db_num = u.update_to_db_num
  BY <1>4, <1>7, <1>9, <1>10, CacheOutputSends
<1>12. Sends(s, t, types, ids, lists)
  BY <1>8, <1>11 DEF Sends
<1> QED
  BY <1>3, <1>8, <1>11, <1>12 DEF t, lists

(* The ids in use after a batch are those in use before and the new ones,  *)
(* so that there are always finitely many.                                 *)
LEMMA SendsPoolInv ==
  ASSUME NEW s, PoolInv(s), NEW t \in PoolType,
         NEW kind \in {"update", "flush"},
         NEW types, DOMAIN types \in SUBSET Entity,
         NEW ids, FreshIds(s, types, ids),
         NEW lists \in SUBSET Lists(kind, types, ids),
         Sends(s, t, types, ids, lists)
  PROVE  PoolInv(t)
<1> DEFINE new == {ids[o] : o \in Owners(DOMAIN types)}
<1>1. ids \in [Owners(DOMAIN types) -> Id] /\ IsFiniteSet(new)
  BY DEF FreshIds
<1>2. ListsOK(t)
  <2>1. ASSUME NEW l \in t.request_info_vec
        PROVE  l.guids \subseteq OwnedBy(l.owner) /\ l.complated < Cardinality(l.guids)
    <3>1. CASE l \in s.request_info_vec
      BY <3>1 DEF PoolInv, ListsOK
    <3>2. CASE l \in lists
      BY <3>2, <1>1, ListFacts
    <3> QED
      BY <2>1, <3>1, <3>2 DEF Sends
  <2> QED
    BY <2>1 DEF ListsOK
<1>3. UsedIds(t) \subseteq UsedIds(s) \cup new
  <2>1. ASSUME NEW l \in t.request_info_vec
        PROVE  l.id \in UsedIds(s) \cup new
    <3>1. CASE l \in s.request_info_vec
      BY <3>1 DEF UsedIds
    <3>2. CASE l \in lists
      BY <3>2, <1>1, ListFacts
    <3> QED
      BY <2>1, <3>1, <3>2 DEF Sends
  <2>2. ASSUME NEW e \in Entity, NEW id \in Range(t.guid_vec[e])
        PROVE  id \in UsedIds(s) \cup new
    <3>1. s.guid_vec[e] \in Seq(Id)
      BY DEF PoolInv, PoolType
    <3>2. \A x \in Range(s.guid_vec[e]) : x \in UsedIds(s)
      BY DEF UsedIds
    <3>3. CASE e \in DOMAIN types
      <4> DEFINE q == s.guid_vec[e]
                 x == ids[Owner[e]]
      <4>1. x \in Id /\ x \in new
        BY <1>1, <3>3 DEF Owners
      <4>2. t.guid_vec[e] = Append(q, x)
        BY <3>3 DEF Sends
      <4> HIDE DEF x, q, new
      <4>3. q \in Seq(Id)
        BY <3>1 DEF q
      <4>4. /\ Append(q, x) \in Seq(Id) /\ Len(q) \in Nat
            /\ Len(Append(q, x)) = Len(q) + 1 /\ Append(q, x)[Len(q) + 1] = x
            /\ \A k \in 1 .. Len(q) : Append(q, x)[k] = q[k]
        BY <4>1, <4>3, AppendFacts
      <4>5. PICK k \in 1 .. Len(q) + 1 : id = Append(q, x)[k]
        BY <2>2, <4>2, <4>4, LenProperties DEF Range
      <4>6. CASE k = Len(q) + 1
        BY <4>1, <4>4, <4>5, <4>6
      <4>7. CASE k # Len(q) + 1
        <5>1. k \in 1 .. Len(q)
          BY <4>4, <4>5, <4>7
        <5>2. id \in Range(q)
          BY <4>3, <4>4, <4>5, <5>1, LenProperties DEF Range
        <5> QED
          BY <5>2, <3>2 DEF q
      <4> QED
        BY <4>6, <4>7
    <3>4. CASE e \notin DOMAIN types
      BY <2>2, <3>2, <3>4 DEF Sends
    <3> QED
      BY <3>3, <3>4
  <2> QED
    BY <2>1, <2>2 DEF UsedIds
<1>4. IsFiniteSet(UsedIds(t))
  <2>1. IsFiniteSet(UsedIds(s) \cup new)
    BY <1>1, FS_Union DEF PoolInv
  <2> QED
    BY <1>3, <2>1, FS_Subset
<1> QED
  BY <1>2, <1>4 DEF PoolInv

-----------------------------------------------------------------------------
(* What is on its way about one entity *)

Requests == [type : RequestType, id : Id, version : Version \cup {NoVersion}]

(* A request that is sent is the last one listed.                          *)
LEMMA LineAppend ==
  ASSUME NEW v \in Seq(Id), NEW a \in Seq(Answer), NEW q \in Seq(Requests),
         LineInv(v, a, q), NEW r \in Requests
  PROVE  LineInv(Append(v, r.id), a, Append(q, r))
<1>1. r.id \in Id
  BY DEF Requests
<1>2. /\ Len(v) \in Nat /\ Len(Append(v, r.id)) = Len(v) + 1
      /\ Append(v, r.id)[Len(v) + 1] = r.id
      /\ \A k \in 1 .. Len(v) : Append(v, r.id)[k] = v[k]
  BY <1>1, AppendFacts
<1>3. /\ Len(q) \in Nat /\ Len(Append(q, r)) = Len(q) + 1
      /\ Append(q, r)[Len(q) + 1] = r
      /\ \A k \in 1 .. Len(q) : Append(q, r)[k] = q[k]
  BY AppendFacts
<1>4. Len(a) \in Nat
  BY LenProperties
<1>5. \A k \in 1 .. Len(a) : Append(v, r.id)[k] = a[k].id
  BY <1>2, <1>3, <1>4 DEF LineInv
<1>6. ASSUME NEW k \in 1 .. Len(q) + 1
      PROVE  Append(v, r.id)[Len(a) + k] = Append(q, r)[k].id
  <2>1. CASE k = Len(q) + 1
    BY <2>1, <1>2, <1>3, <1>4 DEF LineInv
  <2>2. CASE k # Len(q) + 1
    <3>1. k \in 1 .. Len(q) /\ Len(a) + k \in 1 .. Len(v)
      BY <2>2, <1>2, <1>3, <1>4 DEF LineInv
    <3> QED
      BY <3>1, <1>2, <1>3 DEF LineInv
  <2> QED
    BY <2>1, <2>2
<1>7. Len(Append(v, r.id)) = Len(a) + Len(Append(q, r))
  BY <1>2, <1>3, <1>4 DEF LineInv
<1>8. 1 .. Len(Append(q, r)) = 1 .. Len(q) + 1
  BY <1>3
<1> HIDE DEF Requests
<1> QED
  BY <1>5, <1>6, <1>7, <1>8 DEF LineInv

(* cachesys answers the oldest request. *)
LEMMA LineHandle ==
  ASSUME NEW v \in Seq(Id), NEW a \in Seq(Answer), NEW q \in Seq(Requests),
         LineInv(v, a, q), q # <<>>, NEW x \in Answer, x.id = Head(q).id
  PROVE  LineInv(v, Append(a, x), Tail(q))
<1>1. /\ Len(a) \in Nat /\ Len(Append(a, x)) = Len(a) + 1
      /\ Append(a, x)[Len(a) + 1] = x
      /\ \A k \in 1 .. Len(a) : Append(a, x)[k] = a[k]
  BY AppendFacts
<1>2. /\ Len(q) \in Nat \ {0} /\ Head(q) = q[1] /\ Len(Tail(q)) = Len(q) - 1
      /\ \A k \in 1 .. Len(q) - 1 : Tail(q)[k] = q[k + 1]
  BY TailFacts
<1>3. Len(v) \in Nat
  BY LenProperties
<1>4. ASSUME NEW k \in 1 .. Len(a) + 1
      PROVE  v[k] = Append(a, x)[k].id
  <2>1. CASE k = Len(a) + 1
    <3>1. 1 \in 1 .. Len(q)
      BY <1>2
    <3>2. v[Len(a) + 1] = q[1].id
      BY <3>1 DEF LineInv
    <3> QED
      BY <2>1, <3>2, <1>1, <1>2
  <2>2. CASE k # Len(a) + 1
    <3>1. k \in 1 .. Len(a)
      BY <2>2, <1>1
    <3>2. Append(a, x)[k] = a[k]
      BY <3>1, <1>1
    <3>3. v[k] = a[k].id
      BY <3>1 DEF LineInv
    <3> QED
      BY <3>2, <3>3
  <2> QED
    BY <2>1, <2>2
<1>5. ASSUME NEW k \in 1 .. Len(q) - 1
      PROVE  v[Len(a) + 1 + k] = Tail(q)[k].id
  <2>1. k + 1 \in 1 .. Len(q) /\ Len(a) + (k + 1) = Len(a) + 1 + k
    BY <1>1, <1>2
  <2>2. v[Len(a) + (k + 1)] = q[k + 1].id
    BY <2>1 DEF LineInv
  <2> QED
    BY <2>1, <2>2, <1>2
<1>6. Len(v) = Len(Append(a, x)) + Len(Tail(q))
  BY <1>1, <1>2, <1>3 DEF LineInv
<1> QED
  BY <1>1, <1>2, <1>4, <1>5, <1>6 DEF LineInv

(* The first entry listed is that of the oldest answer. *)
LEMMA LineAnswer ==
  ASSUME NEW v \in Seq(Id), NEW a \in Seq(Answer), NEW q \in Seq(Requests),
         LineInv(v, a, q), a # <<>>
  PROVE  v # <<>> /\ Head(v) = Head(a).id /\ LineInv(Tail(v), Tail(a), q)
<1>1. /\ Len(a) \in Nat \ {0} /\ Head(a) = a[1] /\ Len(Tail(a)) = Len(a) - 1
      /\ \A k \in 1 .. Len(a) - 1 : Tail(a)[k] = a[k + 1]
  BY TailFacts
<1>2. Len(v) \in Nat /\ Len(q) \in Nat
  BY LenProperties
<1>3. v # <<>>
  BY <1>1, <1>2, EmptySeq DEF LineInv
<1>4. /\ Head(v) = v[1] /\ Len(Tail(v)) = Len(v) - 1
      /\ \A k \in 1 .. Len(v) - 1 : Tail(v)[k] = v[k + 1]
  BY <1>3, TailFacts
<1>5. Head(v) = Head(a).id
  <2>1. 1 \in 1 .. Len(a)
    BY <1>1
  <2> QED
    BY <2>1, <1>1, <1>4 DEF LineInv
<1>6. \A k \in 1 .. Len(a) - 1 : Tail(v)[k] = Tail(a)[k].id
  <2>1. ASSUME NEW k \in 1 .. Len(a) - 1
        PROVE  Tail(v)[k] = Tail(a)[k].id
    <3>1. k \in 1 .. Len(v) - 1 /\ k + 1 \in 1 .. Len(a)
      BY <1>1, <1>2 DEF LineInv
    <3>2. v[k + 1] = a[k + 1].id
      BY <3>1 DEF LineInv
    <3> QED
      BY <3>1, <3>2, <1>1, <1>4
  <2> QED
    BY <2>1
<1>7. \A k \in 1 .. Len(q) : Tail(v)[Len(a) - 1 + k] = q[k].id
  <2>1. ASSUME NEW k \in 1 .. Len(q)
        PROVE  Tail(v)[Len(a) - 1 + k] = q[k].id
    <3>1. Len(a) - 1 + k \in 1 .. Len(v) - 1
      BY <1>1, <1>2 DEF LineInv
    <3>2. Tail(v)[Len(a) - 1 + k] = v[(Len(a) - 1 + k) + 1]
      BY <3>1, <1>4
    <3>3. (Len(a) - 1 + k) + 1 = Len(a) + k
      BY <1>1
    <3> QED
      BY <3>2, <3>3 DEF LineInv
  <2> QED
    BY <2>1
<1>8. Len(Tail(v)) = Len(Tail(a)) + Len(q)
  BY <1>1, <1>2, <1>4 DEF LineInv
<1> QED
  BY <1>1, <1>3, <1>5, <1>6, <1>7, <1>8 DEF LineInv

(* A request fits after the others if the entity is not released, and is   *)
(* added exactly when cachesys will not have it.                           *)
LEMMA FitAppend ==
  ASSUME NEW q \in Seq(Requests), NEW c, FitInv(q, c), ~Closed(q, c),
         NEW r \in Requests, r.type \in Adds <=> ~Known(q, c)
  PROVE  /\ FitInv(Append(q, r), c)
         /\ Known(Append(q, r), c)
         /\ Closed(Append(q, r), c) => r.type \in Releases
<1>1. /\ Len(q) \in Nat /\ Len(Append(q, r)) = Len(q) + 1
      /\ Append(q, r)[Len(q) + 1] = r /\ Append(q, r) # <<>>
      /\ \A k \in 1 .. Len(q) : Append(q, r)[k] = q[k]
  BY AppendFacts
<1>2. q = <<>> <=> Len(q) = 0
  BY EmptySeq
<1>3. ASSUME NEW k \in 1 .. Len(q) + 1
      PROVE  /\ Append(q, r)[k].type \in Adds <=> (k = 1 /\ c = "none")
             /\ Append(q, r)[k].type \in Releases => k = Len(q) + 1
  <2>1. CASE k = Len(q) + 1
    <3>1. Append(q, r)[k] = r
      BY <2>1, <1>1
    <3>2. r.type \in Adds <=> (k = 1 /\ c = "none")
      BY <2>1, <1>1, <1>2 DEF Known
    <3> QED
      BY <2>1, <3>1, <3>2
  <2>2. CASE k # Len(q) + 1
    <3>1. k \in 1 .. Len(q) /\ Append(q, r)[k] = q[k]
      BY <2>2, <1>1
    <3> QED
      BY <3>1 DEF FitInv, Closed
  <2> QED
    BY <2>1, <2>2
<1>4. FitInv(Append(q, r), c)
  BY <1>1, <1>3 DEF FitInv, Closed
<1>5. ASSUME Closed(Append(q, r), c) PROVE r.type \in Releases
  <2>1. PICK k \in 1 .. Len(q) + 1 : Append(q, r)[k].type \in Releases
    BY <1>1, <1>5 DEF Closed
  <2>2. k = Len(q) + 1
    BY <2>1, <1>3
  <2> QED
    BY <2>1, <2>2, <1>1
<1> QED
  BY <1>1, <1>4, <1>5 DEF Known

(* What cachesys has of an entity after a request. *)
NextClient(type, c) ==
  CASE type = "add" -> "held"
    [] type \in {"add_with_flush", "flush"} -> "free"
    [] type = "remove" -> "removed"
    [] OTHER -> c

(* Handling the oldest request makes no difference to what will be. *)
LEMMA FitHandle ==
  ASSUME NEW q \in Seq(Requests), NEW c \in {"none", "held", "free", "removed"},
         FitInv(q, c), q # <<>>
  PROVE  /\ FitInv(Tail(q), NextClient(Head(q).type, c))
         /\ Known(Tail(q), NextClient(Head(q).type, c))
         /\ NextClient(Head(q).type, c) # "none"
         /\ NextClient(Head(q).type, c) \in {"none", "held", "free", "removed"}
         /\ Closed(Tail(q), NextClient(Head(q).type, c)) <=> Closed(q, c)
         /\ Head(q).type \in Adds <=> c = "none"
         /\ Head(q).type \notin Adds => c = "held"
<1> DEFINE d == NextClient(Head(q).type, c)
<1>1. /\ Len(q) \in Nat \ {0} /\ Head(q) = q[1] /\ Len(Tail(q)) = Len(q) - 1
      /\ Tail(q) = <<>> <=> Len(q) = 1
      /\ \A k \in 1 .. Len(q) - 1 : Tail(q)[k] = q[k + 1]
  BY TailFacts
<1>2. Head(q).type \in RequestType
  <2>1. Head(q) \in Requests
    BY TailFacts
  <2> QED
    BY <2>1 DEF Requests
<1>3. 1 \in 1 .. Len(q) /\ \A k \in 1 .. Len(q) - 1 : k + 1 \in 1 .. Len(q) /\ k + 1 # 1
  BY <1>1
<1>4. /\ c \in {"none", "held"}
      /\ Head(q).type \in Adds <=> c = "none"
      /\ Head(q).type \in Releases => Len(q) = 1
  BY <1>1, <1>3 DEF FitInv
<1>5. /\ d \in {"held", "free", "removed"}
      /\ d \in {"free", "removed"} <=> Head(q).type \in Releases
  BY <1>2, <1>4 DEF NextClient, RequestType, Adds, Releases
<1> HIDE DEF d
<1>6. \A k \in 1 .. Len(q) - 1 :
        /\ Tail(q)[k].type \notin Adds
        /\ Tail(q)[k].type \in Releases => k = Len(q) - 1
  <2>1. ASSUME NEW k \in 1 .. Len(q) - 1
        PROVE  /\ Tail(q)[k].type \notin Adds
               /\ Tail(q)[k].type \in Releases => k = Len(q) - 1
    <3>1. k + 1 \in 1 .. Len(q) /\ k + 1 # 1 /\ (k + 1 = Len(q) => k = Len(q) - 1)
      <4> DEFINE n == Len(q)
      <4>1. n \in Nat /\ k \in 1 .. n - 1
        BY <1>1
      <4> HIDE DEF n
      <4>2. k + 1 \in 1 .. n /\ k + 1 # 1
        BY <4>1
      <4>3. k + 1 = n => k = n - 1
        BY <4>1
      <4> QED
        BY <4>2, <4>3 DEF n
    <3>2. Tail(q)[k] = q[k + 1]
      BY <1>1
    <3>3. /\ q[k + 1].type \notin Adds
          /\ q[k + 1].type \in Releases => k + 1 = Len(q)
      BY <3>1 DEF FitInv
    <3> QED
      BY <3>1, <3>2, <3>3
  <2> QED
    BY <2>1
<1>7. FitInv(Tail(q), d)
  BY <1>1, <1>4, <1>5, <1>6 DEF FitInv
<1>8. ASSUME Closed(Tail(q), d) PROVE Closed(q, c)
  <2>1. CASE d \in {"free", "removed"}
    BY <2>1, <1>1, <1>3, <1>5 DEF Closed
  <2>2. CASE d \notin {"free", "removed"}
    <3>1. PICK k \in 1 .. Len(q) - 1 : Tail(q)[k].type \in Releases
      BY <2>2, <1>1, <1>8 DEF Closed
    <3> QED
      BY <3>1, <1>1, <1>3 DEF Closed
  <2> QED
    BY <2>1, <2>2
<1>9. ASSUME Closed(q, c) PROVE Closed(Tail(q), d)
  <2>1. PICK k \in 1 .. Len(q) : q[k].type \in Releases
    BY <1>4, <1>9 DEF Closed
  <2>2. CASE k = 1
    BY <2>1, <2>2, <1>1, <1>5 DEF Closed
  <2>3. CASE k # 1
    <3>1. k - 1 \in 1 .. Len(q) - 1 /\ Tail(q)[k - 1] = q[(k - 1) + 1]
      BY <2>3, <1>1
    <3>2. (k - 1) + 1 = k
      BY <1>1
    <3> QED
      BY <2>1, <3>1, <3>2, <1>1 DEF Closed
  <2> QED
    BY <2>2, <2>3
<1> QED
  BY <1>4, <1>5, <1>7, <1>8, <1>9 DEF Known, d

-----------------------------------------------------------------------------
(* What a batch leaves true *)

(* Requests that fit what was sent of their entities. *)
FitToSend(s, types) ==
  \A e \in DOMAIN types :
    /\ ~Closed(s.output[e], client[e])
    /\ types[e] \in Adds <=> ~Known(s.output[e], client[e])

(* What is sent is listed in the order it is sent in.                      *)
LEMMA SendsLines ==
  ASSUME NEW s \in PoolType, LinesInv(s), NEW t \in PoolType,
         NEW types, Serialisable(t, types), NEW ids, FreshIds(s, types, ids),
         NEW lists, Sends(s, t, types, ids, lists),
         input \in [Entity -> Seq(Answer)]
  PROVE  LinesInv(t)
<1>1. ASSUME NEW e \in Entity
      PROVE  LineInv(t.guid_vec[e], input[e], t.output[e])
  <2>1. /\ s.guid_vec[e] \in Seq(Id) /\ s.output[e] \in Seq(Requests)
        /\ input[e] \in Seq(Answer)
    BY DEF PoolType, Requests
  <2>2. LineInv(s.guid_vec[e], input[e], s.output[e])
    BY DEF LinesInv
  <2>3. CASE e \in DOMAIN types
    <3> DEFINE r == Request(t, types[e], e, ids[Owner[e]])
    <3>1. ids[Owner[e]] \in Id
      BY <2>3 DEF FreshIds, Owners
    <3>2. r \in Requests
      BY <2>3, <3>1, RequestTyped DEF Serialisable, Requests
    <3>3. r.id = ids[Owner[e]]
      BY DEF Request
    <3>4. /\ t.guid_vec[e] = Append(s.guid_vec[e], r.id)
          /\ t.output[e] = Append(s.output[e], r)
      BY <2>3, <3>3 DEF Sends
    <3> HIDE DEF r
    <3> QED
      BY <2>1, <2>2, <3>2, <3>4, LineAppend
  <2>4. CASE e \notin DOMAIN types
    BY <2>2, <2>4 DEF Sends
  <2> QED
    BY <2>3, <2>4
<1> QED
  BY <1>1 DEF LinesInv

(* What fits what was sent before fits when it is sent.                    *)
LEMMA SendsFits ==
  ASSUME NEW s \in PoolType, FitsInv(s), NEW t \in PoolType,
         NEW types, Serialisable(t, types), FitToSend(s, types),
         NEW ids, FreshIds(s, types, ids),
         NEW lists, Sends(s, t, types, ids, lists)
  PROVE  /\ FitsInv(t)
         /\ \A e \in DOMAIN types :
              /\ Known(t.output[e], client[e])
              /\ Closed(t.output[e], client[e]) => types[e] \in Releases
              /\ t.output[e] # <<>>
              /\ t.output[e][Len(t.output[e])].version =
                   IF types[e] = "remove" THEN NoVersion
                   ELSE t.entity_map[e].version
<1>1. ASSUME NEW e \in DOMAIN types
      PROVE  /\ FitInv(t.output[e], client[e])
             /\ Known(t.output[e], client[e])
             /\ Closed(t.output[e], client[e]) => types[e] \in Releases
             /\ t.output[e] # <<>>
             /\ t.output[e][Len(t.output[e])].version =
                  IF types[e] = "remove" THEN NoVersion
                  ELSE t.entity_map[e].version
  <2> DEFINE r == Request(t, types[e], e, ids[Owner[e]])
             q == s.output[e]
  <2>1. e \in Entity /\ types[e] \in RequestType
    BY DEF Serialisable
  <2>2. q \in Seq(Requests) /\ FitInv(q, client[e])
    BY <2>1 DEF PoolType, Requests, FitsInv
  <2>3. ids[Owner[e]] \in Id
    BY DEF FreshIds, Owners
  <2>4. r \in Requests
    BY <2>1, <2>3, RequestTyped DEF Serialisable, Requests
  <2>5. /\ r.type = types[e]
        /\ r.version = IF types[e] = "remove" THEN NoVersion
                       ELSE t.entity_map[e].version
    BY DEF Request
  <2>6. t.output[e] = Append(q, r)
    BY DEF Sends
  <2>7. ~Closed(q, client[e]) /\ (types[e] \in Adds <=> ~Known(q, client[e]))
    BY DEF FitToSend
  <2> HIDE DEF r, q
  <2>8. /\ FitInv(Append(q, r), client[e])
        /\ Known(Append(q, r), client[e])
        /\ Closed(Append(q, r), client[e]) => r.type \in Releases
    BY <2>2, <2>4, <2>5, <2>7, FitAppend
  <2>9. Append(q, r) # <<>> /\ Append(q, r)[Len(Append(q, r))] = r
    BY <2>2, <2>4, AppendFacts
  <2> QED
    BY <2>5, <2>6, <2>8, <2>9
<1>2. ASSUME NEW e \in Entity PROVE FitInv(t.output[e], client[e])
  <2>1. CASE e \in DOMAIN types
    BY <2>1, <1>1
  <2>2. CASE e \notin DOMAIN types
    BY <2>2 DEF FitsInv, Sends
  <2> QED
    BY <2>1, <2>2
<1>3. FitsInv(t)
  BY <1>2 DEF FitsInv
<1> QED
  BY <1>1, <1>3

(* What is listed after a batch. *)
LEMMA SendsListed ==
  ASSUME NEW s \in PoolType, NEW types, NEW ids, FreshIds(s, types, ids),
         NEW t, NEW lists, Sends(s, t, types, ids, lists),
         NEW e \in Entity, NEW id
  PROVE  /\ Listed(t, e, id) <=>
              Listed(s, e, id) \/ (e \in DOMAIN types /\ id = ids[Owner[e]])
         /\ Listed(s, e, id) => id \in UsedIds(s)
<1> DEFINE v == s.guid_vec[e]
<1>1. v \in Seq(Id)
  BY DEF PoolType
<1>2. Listed(s, e, id) => id \in UsedIds(s)
  <2>1. ASSUME NEW k \in 1 .. Len(v) PROVE v[k] \in UsedIds(s)
    <3>1. v[k] \in Range(v)
      BY <1>1, LenProperties DEF Range
    <3> QED
      BY <3>1 DEF UsedIds
  <2> QED
    BY <2>1 DEF Listed
<1>3. CASE e \in DOMAIN types
  <2> DEFINE x == ids[Owner[e]]
  <2>1. x \in Id
    BY <1>3 DEF FreshIds, Owners
  <2>2. t.guid_vec[e] = Append(v, x)
    BY <1>3 DEF Sends
  <2> HIDE DEF v, x
  <2>3. /\ Len(v) \in Nat /\ Len(Append(v, x)) = Len(v) + 1
        /\ Append(v, x)[Len(v) + 1] = x
        /\ \A k \in 1 .. Len(v) : Append(v, x)[k] = v[k]
    BY <1>1, <2>1, AppendFacts
  <2>4. ASSUME Listed(t, e, id) PROVE Listed(s, e, id) \/ id = x
    <3>1. PICK k \in 1 .. Len(v) + 1 : Append(v, x)[k] = id
      BY <2>2, <2>3, <2>4 DEF Listed
    <3>2. CASE k = Len(v) + 1
      BY <3>1, <3>2, <2>3
    <3>3. CASE k # Len(v) + 1
      <4>1. k \in 1 .. Len(v)
        BY <3>3, <2>3
      <4> QED
        BY <4>1, <3>1, <2>3 DEF Listed, v
    <3> QED
      BY <3>2, <3>3
  <2>5. ASSUME Listed(s, e, id) PROVE Listed(t, e, id)
    <3>1. PICK k \in 1 .. Len(v) : v[k] = id
      BY <2>5 DEF Listed, v
    <3>2. k \in 1 .. Len(v) + 1 /\ Append(v, x)[k] = id
      BY <3>1, <2>3
    <3> QED
      BY <3>2, <2>2, <2>3 DEF Listed
  <2>6. ASSUME id = x PROVE Listed(t, e, id)
    <3>1. Len(v) + 1 \in 1 .. Len(v) + 1
      BY <2>3
    <3> QED
      BY <3>1, <2>6, <2>2, <2>3 DEF Listed
  <2> QED
    BY <1>2, <1>3, <2>4, <2>5, <2>6 DEF x
<1>4. CASE e \notin DOMAIN types
  BY <1>2, <1>4 DEF Sends, Listed
<1> QED
  BY <1>3, <1>4

(* New ids are listed once for each entity of their lists.                 *)
LEMMA SendsIds ==
  ASSUME NEW s \in PoolType, IdInv(s), NEW t,
         NEW kind \in {"update", "flush"},
         NEW types, DOMAIN types \in SUBSET Entity,
         NEW ids, FreshIds(s, types, ids),
         NEW lists \in SUBSET Lists(kind, types, ids),
         Sends(s, t, types, ids, lists)
  PROVE  IdInv(t)
<1>1. ids \in [Owners(DOMAIN types) -> Id]
  BY DEF FreshIds
<1>2. \A l \in s.request_info_vec : l.id \in UsedIds(s)
  BY DEF UsedIds
<1>3. \A l \in lists :
        /\ l.owner \in Owners(DOMAIN types) /\ l.id = ids[l.owner]
        /\ l.id \notin UsedIds(s)
        /\ l.guids = DOMAIN types \cap OwnedBy(l.owner)
        /\ l = RequestInfo(kind, l.owner, DOMAIN types, ids[l.owner])
  <2>1. ASSUME NEW l \in lists
        PROVE  l = RequestInfo(kind, l.owner, DOMAIN types, ids[l.owner])
    BY <1>1 DEF Lists, RequestInfo
  <2>2. ASSUME NEW l \in lists
        PROVE  /\ l.owner \in Owners(DOMAIN types) /\ l.id = ids[l.owner]
               /\ l.guids = DOMAIN types \cap OwnedBy(l.owner)
    BY <1>1, ListFacts
  <2> QED
    BY <2>1, <2>2 DEF FreshIds
<1>4. ASSUME NEW l \in t.request_info_vec, NEW m \in t.request_info_vec,
             l.id = m.id
      PROVE  l = m
  <2>1. CASE l \in s.request_info_vec /\ m \in s.request_info_vec
    BY <1>4, <2>1 DEF IdInv
  <2>2. CASE l \in lists /\ m \in lists
    <3>1. ids[l.owner] = ids[m.owner]
      BY <1>3, <1>4, <2>2
    <3>2. l.owner = m.owner
      BY <1>3, <2>2, <3>1 DEF FreshIds
    <3> QED
      BY <1>3, <2>2, <3>2
  <2>3. CASE (l \in s.request_info_vec) # (m \in s.request_info_vec)
    BY <1>2, <1>3, <1>4, <2>3 DEF Sends
  <2> QED
    BY <1>4, <2>1, <2>2, <2>3 DEF Sends
<1>5. ASSUME NEW e \in Entity, NEW i \in 1 .. Len(t.guid_vec[e]),
             NEW j \in 1 .. Len(t.guid_vec[e]),
             t.guid_vec[e][i] = t.guid_vec[e][j]
      PROVE  i = j
  <2> DEFINE v == s.guid_vec[e]
  <2>1. /\ v \in Seq(Id)
        /\ \A k, n \in 1 .. Len(v) : v[k] = v[n] => k = n
    BY DEF PoolType, IdInv
  <2>2. \A k \in 1 .. Len(v) : v[k] \in UsedIds(s)
    <3>1. ASSUME NEW k \in 1 .. Len(v) PROVE Listed(s, e, v[k])
      BY DEF Listed
    <3> QED
      BY <3>1, SendsListed
  <2>3. CASE e \in DOMAIN types
    <3> DEFINE x == ids[Owner[e]]
    <3>1. x \in Id /\ x \notin UsedIds(s)
      BY <2>3 DEF FreshIds, Owners
    <3>2. t.guid_vec[e] = Append(v, x)
      BY <2>3 DEF Sends
    <3> HIDE DEF v, x
    <3>3. /\ Len(v) \in Nat /\ Len(Append(v, x)) = Len(v) + 1
          /\ Append(v, x)[Len(v) + 1] = x
          /\ \A k \in 1 .. Len(v) : Append(v, x)[k] = v[k]
      BY <2>1, <3>1, AppendFacts
    <3>4. i \in 1 .. Len(v) + 1 /\ j \in 1 .. Len(v) + 1
      BY <3>2, <3>3
    <3>5. CASE i = Len(v) + 1 /\ j = Len(v) + 1
      BY <3>5
    <3>6. CASE i \in 1 .. Len(v) /\ j \in 1 .. Len(v)
      BY <1>5, <2>1, <3>2, <3>3, <3>6
    <3>7. CASE i = Len(v) + 1 /\ j \in 1 .. Len(v)
      BY <1>5, <2>2, <3>1, <3>2, <3>3, <3>7
    <3>8. CASE j = Len(v) + 1 /\ i \in 1 .. Len(v)
      BY <1>5, <2>2, <3>1, <3>2, <3>3, <3>8
    <3> QED
      BY <3>3, <3>4, <3>5, <3>6, <3>7, <3>8
  <2>4. CASE e \notin DOMAIN types
    BY <1>5, <2>1, <2>4 DEF Sends
  <2> QED
    BY <2>3, <2>4
<1>6. ASSUME NEW l \in t.request_info_vec, NEW e \in Entity,
             Listed(t, e, l.id)
      PROVE  e \in l.guids
  <2>1. \/ Listed(s, e, l.id)
        \/ e \in DOMAIN types /\ l.id = ids[Owner[e]]
    BY <1>6, SendsListed
  <2>2. Listed(s, e, l.id) => l.id \in UsedIds(s)
    BY SendsListed
  <2>3. e \in DOMAIN types =>
          Owner[e] \in Owners(DOMAIN types) /\ ids[Owner[e]] \notin UsedIds(s)
    BY DEF Owners, FreshIds
  <2>4. CASE l \in s.request_info_vec
    BY <1>2, <2>1, <2>3, <2>4 DEF IdInv
  <2>5. CASE l \in lists
    <3>1. e \in DOMAIN types /\ ids[l.owner] = ids[Owner[e]]
      BY <1>3, <2>1, <2>2, <2>5
    <3>2. l.owner = Owner[e]
      BY <1>3, <2>3, <2>5, <3>1 DEF FreshIds
    <3> QED
      BY <1>3, <2>5, <3>1, <3>2 DEF OwnedBy
  <2> QED
    BY <1>6, <2>4, <2>5 DEF Sends
<1> QED
  BY <1>4, <1>5, <1>6 DEF IdInv

(* A new list waits for all it asks for; the others wait as before.        *)
LEMMA SendsCounts ==
  ASSUME NEW s \in PoolType, CountInv(s), NEW t,
         NEW kind \in {"update", "flush"},
         NEW types, DOMAIN types \in SUBSET Entity,
         NEW ids, FreshIds(s, types, ids),
         NEW lists \in SUBSET Lists(kind, types, ids),
         Sends(s, t, types, ids, lists)
  PROVE  CountInv(t)
<1>1. ids \in [Owners(DOMAIN types) -> Id]
  BY DEF FreshIds
<1>2. ASSUME NEW l \in s.request_info_vec
      PROVE  l.complated + Cardinality(Pending(t, l)) = Cardinality(l.guids)
  <2>1. l.id \in UsedIds(s) /\ l.guids \in SUBSET Entity
    BY DEF UsedIds, PoolType
  <2>2. \A e \in l.guids : Listed(t, e, l.id) <=> Listed(s, e, l.id)
    <3>1. ASSUME NEW e \in l.guids
          PROVE  Listed(t, e, l.id) <=> Listed(s, e, l.id)
      <4>1. e \in DOMAIN types => ids[Owner[e]] \notin UsedIds(s)
        BY DEF Owners, FreshIds
      <4>2. e \in Entity
        BY <2>1
      <4>3. Listed(t, e, l.id) <=>
              Listed(s, e, l.id) \/ (e \in DOMAIN types /\ l.id = ids[Owner[e]])
        BY <4>2, SendsListed
      <4> QED
        BY <2>1, <4>1, <4>3
    <3> QED
      BY <3>1
  <2>3. Pending(t, l) = Pending(s, l)
    BY <2>2 DEF Pending
  <2> QED
    BY <2>3 DEF CountInv
<1>3. ASSUME NEW l \in lists
      PROVE  l.complated + Cardinality(Pending(t, l)) = Cardinality(l.guids)
  <2>1. /\ l.id = ids[l.owner] /\ l.complated = 0
        /\ l.guids = DOMAIN types \cap OwnedBy(l.owner)
        /\ Cardinality(l.guids) \in Nat
    BY <1>1, ListFacts
  <2>2. ASSUME NEW e \in l.guids PROVE Listed(t, e, l.id)
    <3>1. e \in Entity /\ e \in DOMAIN types /\ l.id = ids[Owner[e]]
      BY <2>1 DEF OwnedBy
    <3> QED
      BY <3>1, SendsListed
  <2>3. Pending(t, l) = l.guids
    BY <2>2 DEF Pending
  <2> QED
    BY <2>1, <2>3
<1> QED
  BY <1>2, <1>3 DEF CountInv, Sends

(* All of it that does not depend on what the pool has of the entities. *)
LEMMA SendsQueues ==
  ASSUME NEW s, PoolOK(s), NEW t \in PoolType,
         NEW kind \in {"update", "flush"},
         NEW types, Serialisable(t, types), FitToSend(s, types),
         NEW ids, FreshIds(s, types, ids),
         NEW lists \in SUBSET Lists(kind, types, ids),
         Sends(s, t, types, ids, lists),
         input \in [Entity -> Seq(Answer)]
  PROVE  /\ PoolInv(t) /\ LinesInv(t) /\ FitsInv(t) /\ IdInv(t) /\ CountInv(t)
         /\ \A e \in DOMAIN types :
              /\ Known(t.output[e], client[e])
              /\ Closed(t.output[e], client[e]) => types[e] \in Releases
              /\ t.output[e] # <<>>
              /\ t.output[e][Len(t.output[e])].version =
                   IF types[e] = "remove" THEN NoVersion
                   ELSE t.entity_map[e].version
<1>1. s \in PoolType /\ PoolInv(s) /\ LinesInv(s) /\ FitsInv(s) /\ IdInv(s) /\ CountInv(s)
  BY DEF PoolOK, PoolInv
<1>2. DOMAIN types \in SUBSET Entity
  BY DEF Serialisable
<1>3. PoolInv(t)
  BY <1>1, <1>2, SendsPoolInv
<1>4. LinesInv(t)
  BY <1>1, SendsLines
<1>5. IdInv(t)
  BY <1>1, <1>2, SendsIds
<1>6. CountInv(t)
  BY <1>1, <1>2, SendsCounts
<1> QED
  BY <1>1, <1>3, <1>4, <1>5, <1>6, SendsFits

(* The player of an owner. *)
LEMMA PlayerOfFacts ==
  /\ \A o \in Player : /\ PlayerOf(o) \in Entity /\ Owner[PlayerOf(o)] = o
                       /\ Kind[PlayerOf(o)] = "player"
  /\ \A e \in Entity : Kind[e] = "player" => PlayerOf(Owner[e]) = e
<1>1. ASSUME NEW o \in Player
      PROVE  /\ PlayerOf(o) \in Entity /\ Owner[PlayerOf(o)] = o
             /\ Kind[PlayerOf(o)] = "player"
             /\ \A e \in Entity : Owner[e] = o /\ Kind[e] = "player"
                                    => e = PlayerOf(o)
  <2>1. PICK p \in Entity :
          {e \in Entity : Owner[e] = o /\ Kind[e] = "player"} = {p}
    BY KindAssumption
  <2>2. \E e \in Entity : Owner[e] = o /\ Kind[e] = "player"
    BY <2>1
  <2>3. /\ PlayerOf(o) \in Entity /\ Owner[PlayerOf(o)] = o
        /\ Kind[PlayerOf(o)] = "player"
    BY <2>2 DEF PlayerOf
  <2> QED
    BY <2>1, <2>3
<1> QED
  BY <1>1, OwnerAssumption

(* What else the pool has does not matter. *)
LEMMA SameOK ==
  ASSUME NEW s, PoolOK(s), NEW t \in PoolType,
         t.entity_map = s.entity_map, t.db_entity_map = s.db_entity_map,
         t.request_info_vec = s.request_info_vec, t.guid_vec = s.guid_vec,
         t.output = s.output
  PROVE  PoolOK(t)
<1>1. PoolInv(t)
  <2>1. UsedIds(t) = UsedIds(s)
    BY DEF UsedIds
  <2> QED
    BY <2>1 DEF PoolOK, PoolInv, ListsOK
<1>2. LinesInv(t) /\ FitsInv(t)
  BY DEF PoolOK, LinesInv, FitsInv
<1>3. \A e \in Entity : Gettable(t, e) <=> Gettable(s, e)
  BY DEF Gettable
<1>4. EntitiesInv(t)
  BY <1>3 DEF PoolOK, EntitiesInv, EntityInv
<1>5. KeepsInv(t)
  BY <1>3 DEF PoolOK, KeepsInv, KeptInv, Kept
<1>6. \A e, id : Listed(t, e, id) <=> Listed(s, e, id)
  BY DEF Listed
<1>7. IdInv(t)
  BY <1>6 DEF PoolOK, IdInv
<1>8. \A l : Pending(t, l) = Pending(s, l)
  BY <1>6 DEF Pending
<1>9. CountInv(t)
  BY <1>8 DEF PoolOK, CountInv
<1>10. FlushInv(t)
  <2>1. \A l \in s.request_info_vec : l.guids \in SUBSET Entity
    BY DEF PoolOK, PoolInv, PoolType
  <2> QED
    BY <1>3, <2>1 DEF PoolOK, FlushInv
<1> QED
  BY <1>1, <1>2, <1>4, <1>5, <1>7, <1>9, <1>10 DEF PoolOK

-----------------------------------------------------------------------------
(* The timer's handler *)

(* A batch of updates.                                                     *)
LEMMA UpdateDbEntityOK ==
  ASSUME NEW s, PoolOK(s), EnvTypeOK
  PROVE  PoolOK(UpdateDbEntity(s))
<1> DEFINE types == [e \in ToRequest(s) |-> s.db_entity_map[e]]
           u == [s EXCEPT
                   !.updating_db_entity_map =
                     [e \in Entity |-> IF e \in DOMAIN types THEN types[e]
                                       ELSE "none"],
                   !.db_entity_map = [e \in Entity |-> "none"],
                   !.update_to_db_num = Cardinality(Owners(DOMAIN types))]
           t == UpdateDbEntity(s)
<1>1. s \in PoolType /\ IsFiniteSet(UsedIds(s)) /\ EntitiesInv(s)
  BY DEF PoolOK, PoolInv
<1>2. /\ DOMAIN types = ToRequest(s) /\ DOMAIN types \in SUBSET Entity
      /\ \A e \in DOMAIN types : types[e] = s.db_entity_map[e]
  BY DEF ToRequest
<1>3. Cardinality(Owners(DOMAIN types)) \in Nat
  BY <1>2, OwnersFinite
<1>4. \A e \in DOMAIN types :
        /\ types[e] \in {"add", "remove", "update"}
        /\ types[e] \in {"add", "update"} => Gettable(s, e)
  BY <1>2 DEF ToRequest
<1>5. t = Commit(u, "update", types)
  BY DEF UpdateDbEntity
<1> HIDE DEF types, t
<1>6. /\ u \in PoolType
      /\ u.entity_map = s.entity_map
      /\ u.db_entity_map = [e \in Entity |-> "none"]
      /\ u.request_info_vec = s.request_info_vec
      /\ u.guid_vec = s.guid_vec /\ u.output = s.output
  BY <1>1, <1>3, <1>4 DEF PoolType, Op
<1> HIDE DEF u
<1>7. UsedIds(u) = UsedIds(s)
  BY <1>6 DEF UsedIds
<1>8. Serialisable(u, types)
  BY <1>2, <1>4, <1>6 DEF Serialisable, Gettable, RequestType
<1>9. PICK ids :
        /\ t \in PoolType
        /\ t.entity_map = u.entity_map /\ t.db_entity_map = u.db_entity_map
        /\ FreshIds(u, types, ids)
        /\ Sends(u, t, types, ids, Lists("update", types, ids))
  BY <1>1, <1>5, <1>6, <1>7, <1>8, CommitSends
<1> DEFINE lists == Lists("update", types, ids)
<1>10. FreshIds(s, types, ids) /\ Sends(s, t, types, ids, lists)
  BY <1>6, <1>7, <1>9 DEF FreshIds, Sends
<1>11. FitToSend(s, types)
  <2>1. ASSUME NEW e \in DOMAIN types
        PROVE  /\ ~Closed(s.output[e], client[e])
               /\ types[e] \in Adds <=> ~Known(s.output[e], client[e])
    <3>1. e \in Entity /\ EntityInv(s, e)
      BY <1>1, <1>2 DEF EntitiesInv
    <3> QED
      BY <1>2, <1>4, <3>1 DEF EntityInv, Adds
  <2> QED
    BY <2>1 DEF FitToSend
<1>12. Serialisable(t, types)
  BY <1>8, <1>9 DEF Serialisable
<1>13. /\ PoolInv(t) /\ LinesInv(t) /\ FitsInv(t) /\ IdInv(t) /\ CountInv(t)
       /\ \A e \in DOMAIN types :
            /\ Known(t.output[e], client[e])
            /\ Closed(t.output[e], client[e]) => types[e] \in Releases
            /\ t.output[e] # <<>>
            /\ t.output[e][Len(t.output[e])].version =
                 IF types[e] = "remove" THEN NoVersion
                 ELSE t.entity_map[e].version
  BY <1>9, <1>10, <1>11, <1>12, SendsQueues DEF EnvTypeOK
<1>14. /\ t.entity_map = s.entity_map
       /\ \A e \in Entity : t.db_entity_map[e] = "none"
       /\ \A e \in Entity : Gettable(t, e) <=> Gettable(s, e)
       /\ \A e \in Entity \ DOMAIN types :
            t.output[e] = s.output[e] /\ t.guid_vec[e] = s.guid_vec[e]
  BY <1>6, <1>9, <1>10 DEF Gettable, Sends
<1>15. ASSUME NEW e \in Entity PROVE EntityInv(t, e)
  <2>1. EntityInv(s, e)
    BY <1>1 DEF EntitiesInv
  <2>2. CASE e \in DOMAIN types
    <3>1. Gettable(t, e) => ~Closed(t.output[e], client[e])
      BY <1>2, <1>4, <1>13, <1>14, <2>1, <2>2 DEF EntityInv, Gettable, Releases
    <3>2. e \notin New \ made
      BY <1>2, <1>4, <2>1, <2>2 DEF EntityInv
    <3> QED
      BY <1>13, <1>14, <2>1, <2>2, <3>1, <3>2 DEF EntityInv
  <2>3. CASE e \notin DOMAIN types
    <3>1. Gettable(s, e) => s.db_entity_map[e] = "none"
      BY <1>1, <1>2, <2>3 DEF ToRequest, PoolType, Op
    <3> QED
      BY <1>14, <2>1, <2>3, <3>1 DEF EntityInv
  <2> QED
    BY <2>2, <2>3
<1>16. ASSUME NEW e \in Kept PROVE KeptInv(t, e)
  <2>1. e \in Entity /\ EntityInv(s, e) /\ KeptInv(s, e)
    BY <1>1 DEF EntitiesInv, PoolOK, KeepsInv, Kept
  <2>2. CASE e \in DOMAIN types
    <3>1. Stored(t.output[e], stored[e]) = content[e]
      BY <1>2, <1>4, <1>13, <1>14, <2>1, <2>2 DEF Stored, EntityInv, Gettable
    <3>2. t.entity_map[e] = NoEntity => content[e] = NoVersion
      BY <1>2, <1>4, <1>14, <2>1, <2>2 DEF EntityInv, Gettable
    <3> QED
      BY <3>1, <3>2 DEF KeptInv
  <2>3. CASE e \notin DOMAIN types
    BY <1>2, <1>14, <2>1, <2>3 DEF KeptInv, ToRequest
  <2> QED
    BY <2>2, <2>3
<1>17. FlushInv(t)
  <2>1. ASSUME NEW l \in t.request_info_vec, l.kind = "flush"
        PROVE  l \in s.request_info_vec
    <3>1. \A m \in lists : m.kind = "update"
      BY DEF Lists, RequestInfo
    <3> QED
      BY <2>1, <3>1, <1>10 DEF Sends
  <2>2. ASSUME NEW l \in s.request_info_vec, l.kind = "flush", NEW e \in l.guids
        PROVE  e \in Entity /\ e \notin DOMAIN types
    <3>1. e \in Entity
      BY <1>1 DEF PoolType
    <3>2. s.db_entity_map[e] = "none"
      BY <2>2 DEF PoolOK, FlushInv
    <3> QED
      BY <1>2, <1>4, <3>1, <3>2
  <2> QED
    BY <1>14, <2>1, <2>2 DEF PoolOK, FlushInv
<1> QED
  BY <1>13, <1>15, <1>16, <1>17 DEF PoolOK, EntitiesInv, KeepsInv, t

(* What a flush asks for, of whom, and how. *)
LEMMA FlushTypes ==
  ASSUME NEW s, PoolOK(s), NEW owners \in SUBSET Player,
         \A o \in owners : Gettable(s, PlayerOf(o))
  PROVE  LET types == FlushRequests(s, owners)
         IN  /\ DOMAIN types = Visited(s, owners)
                                 \cup Waiting(s, owners, "remove")
                                 \cup Players(owners)
             /\ DOMAIN types \in SUBSET Entity
             /\ \A e \in DOMAIN types :
                  /\ Owner[e] \in owners
                  /\ types[e] \in RequestType
                  /\ types[e] = "remove" =>
                       s.db_entity_map[e] = "remove"
                  /\ types[e] # "remove" =>
                       Gettable(s, e) /\ e \in Visited(s, owners) \cup Players(owners)
                  /\ ~Closed(s.output[e], client[e])
                  /\ types[e] \in Adds <=> ~Known(s.output[e], client[e])
<1> DEFINE types == FlushRequests(s, owners)
<1>1. DOMAIN types = Visited(s, owners) \cup Waiting(s, owners, "remove")
                       \cup Players(owners)
  BY DEF FlushRequests
<1>2. \A e \in Players(owners) :
        e \in Entity /\ Owner[e] \in owners /\ Kind[e] = "player" /\ Gettable(s, e)
  BY PlayerOfFacts DEF Players
<1>3. DOMAIN types \in SUBSET Entity
  BY <1>1, <1>2 DEF Visited, Waiting
<1>4. ASSUME NEW e \in DOMAIN types
      PROVE  /\ Owner[e] \in owners
             /\ types[e] \in RequestType
             /\ types[e] = "remove" => s.db_entity_map[e] = "remove"
             /\ types[e] # "remove" =>
                  Gettable(s, e) /\ e \in Visited(s, owners) \cup Players(owners)
             /\ ~Closed(s.output[e], client[e])
             /\ types[e] \in Adds <=> ~Known(s.output[e], client[e])
  <2>1. e \in Entity /\ EntityInv(s, e)
    BY <1>3 DEF PoolOK, EntitiesInv
  <2>2. Owner[e] \in owners
    BY <1>1, <1>2, <2>1 DEF Visited, Waiting
  <2>3. CASE e \in Players(owners)
    <3>1. s.db_entity_map[e] \notin {"add", "remove"}
      BY <1>2, <2>1, <2>3 DEF EntityInv
    <3>2. e \notin Waiting(s, owners, "add") /\ e \notin Waiting(s, owners, "remove")
      BY <3>1 DEF Waiting
    <3>3. types[e] = "update"
      BY <1>1, <2>3, <3>2 DEF FlushRequests
    <3> HIDE DEF types
    <3> QED
      BY <1>2, <2>1, <2>2, <2>3, <3>1, <3>3 DEF EntityInv, RequestType, Adds
  <2>4. CASE e \notin Players(owners) /\ e \in Waiting(s, owners, "remove")
    <3>1. s.db_entity_map[e] = "remove" /\ e \notin Waiting(s, owners, "add")
      BY <2>4 DEF Waiting
    <3>2. types[e] = "remove"
      BY <1>1, <2>4, <3>1 DEF FlushRequests
    <3> HIDE DEF types
    <3> QED
      BY <2>1, <2>2, <3>1, <3>2 DEF EntityInv, RequestType, Adds
  <2>5. CASE e \notin Players(owners) /\ e \notin Waiting(s, owners, "remove")
    <3>1. e \in Visited(s, owners) /\ Gettable(s, e)
      BY <1>1, <2>5 DEF Visited
    <3>2. e \in Waiting(s, owners, "add") <=> s.db_entity_map[e] = "add"
      BY <2>1, <2>2 DEF Waiting
    <3>3. types[e] =
            IF e \in Waiting(s, owners, "add")
            THEN IF player_state[Owner[e]] = "jumping" THEN "add"
                 ELSE "add_with_flush"
            ELSE IF player_state[Owner[e]] = "jumping" THEN "update"
                 ELSE "flush"
      BY <1>1, <2>5, <3>1 DEF FlushRequests
    <3> HIDE DEF types
    <3>4. /\ types[e] \in RequestType /\ types[e] # "remove"
          /\ types[e] \in Adds <=> s.db_entity_map[e] = "add"
      BY <3>2, <3>3 DEF RequestType, Adds
    <3> QED
      BY <2>1, <2>2, <3>1, <3>4 DEF EntityInv
  <2> QED
    BY <2>3, <2>4, <2>5
<1> QED
  BY <1>1, <1>3, <1>4

(* The flush of any number of players at once.                             *)
LEMMA RequestFlushPlayerOK ==
  ASSUME NEW s, PoolOK(s), EnvTypeOK, NEW players \in SUBSET Player
  PROVE  PoolOK(RequestFlushPlayer(s, players))
<1> DEFINE owners == {o \in players : Gettable(s, PlayerOf(o))}
           types == FlushRequests(s, owners)
           flushed == Visited(s, owners) \cup Players(owners)
           u == [s EXCEPT
                   !.db_entity_map = [e \in Entity |->
                      IF Owner[e] \in owners THEN "none" ELSE @[e]],
                   !.entity_map = [e \in Entity |->
                      IF e \in Visited(s, owners) \cup Players(owners)
                      THEN [@[e] EXCEPT !.is_flushing = TRUE]
                      ELSE @[e]]]
           t == RequestFlushPlayer(s, players)
<1>1. s \in PoolType /\ IsFiniteSet(UsedIds(s)) /\ EntitiesInv(s)
  BY DEF PoolOK, PoolInv
<1>2. t = Commit(u, "flush", types)
  BY DEF RequestFlushPlayer
<1>3. owners \in SUBSET Player /\ \A o \in owners : Gettable(s, PlayerOf(o))
  OBVIOUS
<1> HIDE DEF owners
<1>4. /\ DOMAIN types = flushed \cup Waiting(s, owners, "remove")
      /\ DOMAIN types \in SUBSET Entity
      /\ \A e \in DOMAIN types :
           /\ Owner[e] \in owners
           /\ types[e] \in RequestType
           /\ types[e] = "remove" => s.db_entity_map[e] = "remove"
           /\ types[e] # "remove" => Gettable(s, e) /\ e \in flushed
           /\ ~Closed(s.output[e], client[e])
           /\ types[e] \in Adds <=> ~Known(s.output[e], client[e])
  BY <1>3, FlushTypes
<1>5. /\ \A e \in flushed : e \in Entity /\ Owner[e] \in owners /\ Gettable(s, e)
      /\ \A e \in Entity : Owner[e] \in owners /\ Kind[e] = "part" /\ Gettable(s, e)
                             => e \in flushed
      /\ \A e \in Entity : Owner[e] \in owners /\ Kind[e] = "player"
                             => e \in flushed
      /\ \A o \in owners : PlayerOf(o) \in flushed /\ Owner[PlayerOf(o)] = o
  BY <1>3, PlayerOfFacts DEF Visited, Players
<1> HIDE DEF types, t
<1>6. /\ u \in PoolType
      /\ \A e \in Entity : u.db_entity_map[e] =
           IF Owner[e] \in owners THEN "none" ELSE s.db_entity_map[e]
      /\ \A e \in Entity : u.entity_map[e] =
           IF e \in flushed THEN [s.entity_map[e] EXCEPT !.is_flushing = TRUE]
           ELSE s.entity_map[e]
      /\ u.request_info_vec = s.request_info_vec
      /\ u.guid_vec = s.guid_vec /\ u.output = s.output
  <2> DEFINE em == [e \in Entity |->
                      IF e \in Visited(s, owners) \cup Players(owners)
                      THEN [s.entity_map[e] EXCEPT !.is_flushing = TRUE]
                      ELSE s.entity_map[e]]
             db == [e \in Entity |->
                      IF Owner[e] \in owners THEN "none" ELSE s.db_entity_map[e]]
  <2>1. u = [s EXCEPT !.db_entity_map = db, !.entity_map = em]
    OBVIOUS
  <2>2. db \in [Entity -> Op]
    BY <1>1 DEF PoolType, Op
  <2>3. em \in [Entity -> EntityInfo \cup {NoEntity}]
    <3>1. ASSUME NEW e \in Entity PROVE em[e] \in EntityInfo \cup {NoEntity}
      <4>1. s.entity_map[e] \in EntityInfo \cup {NoEntity}
        BY <1>1 DEF PoolType
      <4>2. CASE e \in flushed
        <5>1. s.entity_map[e] \in EntityInfo
          BY <1>5, <4>1, <4>2 DEF Gettable
        <5>2. em[e] = [s.entity_map[e] EXCEPT !.is_flushing = TRUE]
          BY <4>2
        <5> HIDE DEF em
        <5> QED
          BY <5>1, <5>2 DEF EntityInfo
      <4> QED
        BY <4>1, <4>2
    <3> QED
      BY <3>1
  <2> HIDE DEF em, db, u
  <2>4. /\ u \in PoolType /\ u.db_entity_map = db /\ u.entity_map = em
        /\ u.request_info_vec = s.request_info_vec
        /\ u.guid_vec = s.guid_vec /\ u.output = s.output
    BY <1>1, <2>1, <2>2, <2>3 DEF PoolType
  <2> QED
    BY <2>4 DEF em, db
<1> HIDE DEF u
<1>7. UsedIds(u) = UsedIds(s)
  BY <1>6 DEF UsedIds
<1>8. \A e \in Entity :
        /\ u.entity_map[e] = NoEntity <=> s.entity_map[e] = NoEntity
        /\ e \notin flushed => u.entity_map[e] = s.entity_map[e]
        /\ e \in flushed =>
             /\ u.entity_map[e].version = s.entity_map[e].version
             /\ u.entity_map[e].is_flushing
             /\ u.entity_map[e].is_remove_from_memory
                  = s.entity_map[e].is_remove_from_memory
  <2>1. ASSUME NEW e \in flushed
        PROVE  /\ s.entity_map[e] # NoEntity /\ u.entity_map[e] # NoEntity
               /\ u.entity_map[e].version = s.entity_map[e].version
               /\ u.entity_map[e].is_flushing
               /\ u.entity_map[e].is_remove_from_memory
                    = s.entity_map[e].is_remove_from_memory
    <3>1. e \in Entity /\ s.entity_map[e] \in EntityInfo
      BY <1>1, <1>5 DEF Gettable, PoolType
    <3>2. u.entity_map[e] = [s.entity_map[e] EXCEPT !.is_flushing = TRUE]
      BY <1>6, <3>1
    <3>3. u.entity_map[e] \in EntityInfo
      BY <3>1, <3>2 DEF EntityInfo
    <3> QED
      BY <3>1, <3>2, <3>3, NoEntityAssumption DEF EntityInfo
  <2>2. ASSUME NEW e \in Entity, e \notin flushed
        PROVE  u.entity_map[e] = s.entity_map[e]
    BY <1>6, <2>2
  <2> QED
    BY <2>1, <2>2
<1>9. Serialisable(u, types)
  BY <1>4, <1>8 DEF Serialisable, Gettable
<1>10. PICK ids :
        /\ t \in PoolType
        /\ t.entity_map = u.entity_map /\ t.db_entity_map = u.db_entity_map
        /\ FreshIds(u, types, ids)
        /\ Sends(u, t, types, ids, Lists("flush", types, ids))
  BY <1>1, <1>2, <1>6, <1>7, <1>9, CommitSends
<1> DEFINE lists == Lists("flush", types, ids)
<1>11. FreshIds(s, types, ids) /\ Sends(s, t, types, ids, lists)
  BY <1>6, <1>7, <1>10 DEF FreshIds, Sends
<1>12. FitToSend(s, types)
  BY <1>4 DEF FitToSend
<1>13. Serialisable(t, types)
  BY <1>9, <1>10 DEF Serialisable
<1>14. /\ PoolInv(t) /\ LinesInv(t) /\ FitsInv(t) /\ IdInv(t) /\ CountInv(t)
       /\ \A e \in DOMAIN types :
            /\ Known(t.output[e], client[e])
            /\ Closed(t.output[e], client[e]) => types[e] \in Releases
            /\ t.output[e] # <<>>
            /\ t.output[e][Len(t.output[e])].version =
                 IF types[e] = "remove" THEN NoVersion
                 ELSE t.entity_map[e].version
  BY <1>10, <1>11, <1>12, <1>13, SendsQueues DEF EnvTypeOK
<1>15. \A e \in Entity \ DOMAIN types :
         t.output[e] = s.output[e] /\ t.guid_vec[e] = s.guid_vec[e]
  BY <1>11 DEF Sends
<1>16. \A e \in Entity :
         /\ e \in flushed => ~Gettable(t, e)
         /\ e \notin flushed => (Gettable(t, e) <=> Gettable(s, e))
  BY <1>8, <1>10 DEF Gettable
<1>17. ASSUME NEW e \in Entity PROVE EntityInv(t, e)
  <2>1. EntityInv(s, e)
    BY <1>1 DEF EntitiesInv
  <2>2. CASE e \in flushed
    <3>1. t.db_entity_map[e] = "none" /\ e \in DOMAIN types
      BY <1>4, <1>5, <1>6, <1>10, <2>2
    <3>2. /\ s.entity_map[e] # NoEntity /\ t.entity_map[e] # NoEntity
          /\ ~t.entity_map[e].is_remove_from_memory
          /\ t.entity_map[e].version = content[e]
      BY <1>5, <1>8, <1>10, <2>1, <2>2 DEF EntityInv, Gettable
    <3> QED
      BY <1>16, <2>1, <2>2, <3>1, <3>2 DEF EntityInv
  <2>3. CASE e \in DOMAIN types /\ e \notin flushed
    <3>1. types[e] = "remove" /\ s.db_entity_map[e] = "remove"
      BY <1>4, <2>3
    <3>2. t.db_entity_map[e] = "none" /\ t.entity_map[e] = NoEntity
      BY <1>4, <1>6, <1>8, <1>10, <2>1, <2>3, <3>1 DEF EntityInv
    <3> QED
      BY <2>1, <3>1, <3>2 DEF EntityInv, Gettable
  <2>4. CASE e \notin DOMAIN types
    <3>1. e \notin flushed
      BY <1>4, <2>4
    <3>2. /\ t.entity_map[e] = s.entity_map[e] /\ t.output[e] = s.output[e]
          /\ Gettable(t, e) <=> Gettable(s, e)
          /\ t.db_entity_map[e] \in {"none", s.db_entity_map[e]}
      BY <1>6, <1>8, <1>10, <1>15, <1>16, <2>4, <3>1
    <3>3. s.db_entity_map[e] = "add" => t.db_entity_map[e] = "add"
      BY <1>5, <1>6, <1>10, <2>1, <3>1 DEF EntityInv
    <3> QED
      BY <2>1, <3>2, <3>3 DEF EntityInv
  <2> QED
    BY <2>2, <2>3, <2>4
<1>18. ASSUME NEW e \in Kept PROVE KeptInv(t, e)
  <2>1. e \in Entity /\ EntityInv(s, e) /\ KeptInv(s, e) /\ Kind[e] \in {"player", "part"}
    BY <1>1, KindAssumption DEF EntitiesInv, PoolOK, KeepsInv, Kept
  <2>2. CASE e \in DOMAIN types /\ types[e] = "remove"
    <3>1. content[e] = NoVersion
      BY <1>4, <2>1, <2>2 DEF EntityInv
    <3> QED
      BY <1>14, <2>2, <3>1 DEF KeptInv, Stored
  <2>3. CASE e \in DOMAIN types /\ types[e] # "remove"
    <3>1. e \in flushed /\ s.entity_map[e] # NoEntity
      BY <1>4, <2>3 DEF Gettable
    <3>2. t.entity_map[e].version = content[e] /\ t.entity_map[e] # NoEntity
      BY <1>8, <1>10, <2>1, <3>1 DEF EntityInv
    <3> QED
      BY <1>14, <2>3, <3>2 DEF KeptInv, Stored
  <2>4. CASE e \notin DOMAIN types
    <3>1. e \notin flushed /\ e \notin Waiting(s, owners, "remove")
      BY <1>4, <2>4
    <3>2. /\ t.entity_map[e] = s.entity_map[e] /\ t.output[e] = s.output[e]
          /\ Gettable(t, e) <=> Gettable(s, e)
      BY <1>8, <1>10, <1>15, <1>16, <2>1, <2>4, <3>1
    <3>3. CASE Owner[e] \in owners
      <4>1. s.db_entity_map[e] # "remove" /\ ~Gettable(s, e)
        BY <1>5, <2>1, <3>1, <3>3 DEF Waiting
      <4> QED
        BY <2>1, <3>2, <4>1 DEF KeptInv
    <3>4. CASE Owner[e] \notin owners
      <4>1. t.db_entity_map[e] = s.db_entity_map[e]
        BY <1>6, <1>10, <2>1, <3>4
      <4> QED
        BY <2>1, <3>2, <4>1 DEF KeptInv
    <3> QED
      BY <3>3, <3>4
  <2> QED
    BY <2>2, <2>3, <2>4
<1>19. FlushInv(t)
  <2>1. ASSUME NEW l \in s.request_info_vec, l.kind = "flush"
        PROVE  /\ PlayerOf(l.owner) \in l.guids
               /\ \A e \in l.guids :
                    /\ t.db_entity_map[e] = "none" /\ ~Gettable(t, e)
                    /\ e \notin New \ made
                    /\ \/ t.guid_vec[e] = <<>>
                       \/ t.guid_vec[e][Len(t.guid_vec[e])] = l.id
    <3>1. l.guids \in SUBSET Entity
      BY <1>1 DEF PoolType
    <3>2. /\ PlayerOf(l.owner) \in l.guids
          /\ \A e \in l.guids :
               /\ s.db_entity_map[e] = "none" /\ ~Gettable(s, e)
               /\ e \notin New \ made
               /\ \/ s.guid_vec[e] = <<>>
                  \/ s.guid_vec[e][Len(s.guid_vec[e])] = l.id
      BY <2>1 DEF PoolOK, FlushInv
    <3>3. \A e \in l.guids : e \notin DOMAIN types /\ e \notin flushed
      BY <1>4, <1>5, <3>2
    <3>4. ASSUME NEW e \in l.guids
          PROVE  /\ t.db_entity_map[e] = "none" /\ ~Gettable(t, e)
                 /\ t.guid_vec[e] = s.guid_vec[e]
      BY <1>6, <1>10, <1>15, <1>16, <3>1, <3>2, <3>3
    <3> QED
      BY <3>2, <3>4
  <2>2. ASSUME NEW l \in lists
        PROVE  /\ PlayerOf(l.owner) \in l.guids
               /\ \A e \in l.guids :
                    /\ t.db_entity_map[e] = "none" /\ ~Gettable(t, e)
                    /\ e \notin New \ made
                    /\ \/ t.guid_vec[e] = <<>>
                       \/ t.guid_vec[e][Len(t.guid_vec[e])] = l.id
    <3>1. /\ l.owner \in Owners(DOMAIN types) /\ l.id = ids[l.owner]
          /\ l.guids = DOMAIN types \cap OwnedBy(l.owner)
      <4>1. /\ ids \in [Owners(DOMAIN types) -> Id]
            /\ l \in Lists("flush", types, ids)
        BY <1>11 DEF FreshIds
      <4> HIDE DEF lists
      <4> QED
        BY <1>4, <4>1, ListFacts
    <3>2. l.owner \in owners
      BY <1>4, <3>1 DEF Owners
    <3>3. PlayerOf(l.owner) \in l.guids
      BY <1>4, <1>5, <3>1, <3>2 DEF OwnedBy
    <3>4. ASSUME NEW e \in l.guids
          PROVE  /\ t.db_entity_map[e] = "none" /\ ~Gettable(t, e)
                 /\ e \notin New \ made
                 /\ t.guid_vec[e][Len(t.guid_vec[e])] = l.id
      <4>1. e \in Entity /\ e \in DOMAIN types /\ Owner[e] = l.owner
        BY <1>4, <3>1 DEF OwnedBy
      <4>2. EntityInv(s, e)
        BY <1>1, <4>1 DEF EntitiesInv
      <4>3. t.db_entity_map[e] = "none"
        BY <1>6, <1>10, <3>2, <4>1
      <4>4. ~Gettable(t, e) /\ e \notin New \ made
        <5>1. CASE types[e] = "remove"
          <6>1. s.db_entity_map[e] = "remove" /\ s.entity_map[e] = NoEntity
            BY <1>4, <4>1, <4>2, <5>1 DEF EntityInv
          <6> QED
            BY <1>8, <1>10, <4>1, <4>2, <6>1 DEF EntityInv, Gettable
        <5>2. CASE types[e] # "remove"
          BY <1>4, <1>16, <4>1, <4>2, <5>2 DEF EntityInv, Gettable
        <5> QED
          BY <5>1, <5>2
      <4>5. t.guid_vec[e] = Append(s.guid_vec[e], l.id)
        BY <1>11, <3>1, <4>1 DEF Sends
      <4>6. s.guid_vec[e] \in Seq(Id) /\ l.id \in Id
        BY <1>1, <1>11, <3>1, <4>1 DEF PoolType, FreshIds
      <4>7. t.guid_vec[e][Len(t.guid_vec[e])] = l.id
        BY <4>5, <4>6, AppendFacts
      <4> QED
        BY <4>3, <4>4, <4>7
    <3> QED
      BY <3>3, <3>4
  <2> QED
    BY <1>11, <2>1, <2>2 DEF FlushInv, Sends
<1> QED
  BY <1>14, <1>17, <1>18, <1>19 DEF PoolOK, EntitiesInv, KeepsInv, t

(* PoolImp::update, whether it sends, waits or gives up a batch.           *)
LEMMA UpdatePoolOK ==
  ASSUME NEW s, PoolOK(s), EnvTypeOK, NEW t \in UpdatePool(s)
  PROVE  PoolOK(t)
<1>1. \/ t = s
      \/ t = UpdateDbEntity(s)
      \/ t = [s EXCEPT !.update_to_db_num = 0]
  BY DEF UpdatePool
<1>2. CASE t = UpdateDbEntity(s)
  BY <1>2, UpdateDbEntityOK
<1>3. CASE t = [s EXCEPT !.update_to_db_num = 0]
  <2>1. s \in PoolType
    BY DEF PoolOK, PoolInv
  <2>2. /\ t \in PoolType
        /\ t.entity_map = s.entity_map /\ t.db_entity_map = s.db_entity_map
        /\ t.request_info_vec = s.request_info_vec
        /\ t.guid_vec = s.guid_vec /\ t.output = s.output
    BY <1>3, <2>1 DEF PoolType
  <2> QED
    BY <2>2, SameOK
<1> QED
  BY <1>1, <1>2, <1>3

-----------------------------------------------------------------------------
(* Answers *)

(* What is listed when the first entry of an entity is gone, which had     *)
(* this id.                                                                *)
EntryGone(s, t, e, id) ==
  /\ Listed(s, e, id)
  /\ \A f \in Entity : \A x :
       Listed(t, f, x) <=> Listed(s, f, x) /\ ~(f = e /\ x = id)
  /\ \A f \in Entity :
       t.guid_vec[f] # <<>> =>
         /\ s.guid_vec[f] # <<>>
         /\ t.guid_vec[f][Len(t.guid_vec[f])]
              = s.guid_vec[f][Len(s.guid_vec[f])]
         /\ Listed(t, f, t.guid_vec[f][Len(t.guid_vec[f])])
  /\ \A f \in Entity : \A i, j \in 1 .. Len(t.guid_vec[f]) :
       t.guid_vec[f][i] = t.guid_vec[f][j] => i = j

(* getMapID erases the first entry, which was listed once.                 *)
LEMMA TailListed ==
  ASSUME NEW s \in PoolType, IdInv(s), NEW e \in Entity,
         s.guid_vec[e] # <<>>,
         NEW t, t.guid_vec = [s.guid_vec EXCEPT ![e] = Tail(@)]
  PROVE  EntryGone(s, t, e, Head(s.guid_vec[e]))
<1> DEFINE v == s.guid_vec[e]
<1>1. v \in Seq(Id) /\ v # <<>> /\ \A f \in Entity : s.guid_vec[f] \in Seq(Id)
  BY DEF PoolType
<1>2. /\ Len(v) \in Nat \ {0} /\ Head(v) = v[1]
      /\ Len(Tail(v)) = Len(v) - 1 /\ Tail(v) \in Seq(Id)
      /\ \A k \in 1 .. Len(v) - 1 : Tail(v)[k] = v[k + 1]
      /\ Tail(v) = <<>> <=> Len(v) = 1
  BY <1>1, TailFacts
<1>3. \A f \in Entity : t.guid_vec[f] = IF f = e THEN Tail(v) ELSE s.guid_vec[f]
  BY DEF PoolType
<1>4. \A i, j \in 1 .. Len(v) : v[i] = v[j] => i = j
  BY DEF IdInv
<1>5. 1 \in 1 .. Len(v) /\ \A k \in 1 .. Len(v) - 1 : k + 1 \in 1 .. Len(v) /\ k + 1 # 1
  <2> DEFINE n == Len(v)
  <2>1. n \in Nat \ {0}
    BY <1>2
  <2> HIDE DEF n
  <2>2. 1 \in 1 .. n /\ \A k \in 1 .. n - 1 : k + 1 \in 1 .. n /\ k + 1 # 1
    BY <2>1
  <2> QED
    BY <2>2 DEF n
<1>6. Listed(s, e, Head(v))
  BY <1>2, <1>5 DEF Listed
<1>7. ASSUME NEW id
      PROVE  Listed(t, e, id) <=> Listed(s, e, id) /\ id # Head(v)
  <2>1. ASSUME Listed(t, e, id) PROVE Listed(s, e, id) /\ id # Head(v)
    <3>1. PICK k \in 1 .. Len(v) - 1 : Tail(v)[k] = id
      BY <1>2, <1>3, <2>1 DEF Listed
    <3>2. k + 1 \in 1 .. Len(v) /\ k + 1 # 1 /\ v[k + 1] = id
      BY <1>2, <1>5, <3>1
    <3> QED
      BY <1>2, <1>4, <1>5, <3>2 DEF Listed
  <2>2. ASSUME Listed(s, e, id), id # Head(v) PROVE Listed(t, e, id)
    <3>1. PICK k \in 1 .. Len(v) : v[k] = id
      BY <2>2 DEF Listed
    <3>2. k # 1
      BY <1>2, <2>2, <3>1
    <3>3. k - 1 \in 1 .. Len(v) - 1 /\ (k - 1) + 1 = k
      BY <1>2, <3>2
    <3>4. Tail(v)[k - 1] = id
      BY <1>2, <3>1, <3>3
    <3> QED
      BY <1>2, <1>3, <3>3, <3>4 DEF Listed
  <2> QED
    BY <2>1, <2>2
<1>8. ASSUME NEW f \in Entity, f # e, NEW id
      PROVE  Listed(t, f, id) <=> Listed(s, f, id)
  BY <1>3, <1>8 DEF Listed
<1>9. ASSUME NEW f \in Entity, t.guid_vec[f] # <<>>
      PROVE  /\ s.guid_vec[f] # <<>>
             /\ t.guid_vec[f][Len(t.guid_vec[f])]
                  = s.guid_vec[f][Len(s.guid_vec[f])]
             /\ Listed(t, f, t.guid_vec[f][Len(t.guid_vec[f])])
  <2>1. t.guid_vec[f] \in Seq(Id)
    BY <1>1, <1>2, <1>3
  <2>2. Len(t.guid_vec[f]) \in Nat \ {0}
    BY <1>9, <2>1, EmptySeq
  <2> DEFINE n == Len(t.guid_vec[f])
  <2>3. n \in 1 .. n
    <3> HIDE DEF n
    <3>1. ASSUME n \in Nat \ {0} PROVE n \in 1 .. n
      BY <3>1
    <3> QED
      BY <2>2, <3>1 DEF n
  <2>4. Listed(t, f, t.guid_vec[f][Len(t.guid_vec[f])])
    BY <2>3 DEF Listed
  <2>5. CASE f = e
    <3>1. t.guid_vec[f] = Tail(v)
      BY <1>3, <2>5
    <3>2. Len(v) - 1 \in 1 .. Len(v) - 1 /\ (Len(v) - 1) + 1 = Len(v)
      <4> DEFINE m == Len(v)
      <4>1. m \in Nat /\ m - 1 \in Nat \ {0}
        BY <1>2, <2>2, <3>1
      <4> HIDE DEF m
      <4>2. m - 1 \in 1 .. m - 1 /\ (m - 1) + 1 = m
        BY <4>1
      <4> QED
        BY <4>2 DEF m
    <3>3. Tail(v)[Len(v) - 1] = v[Len(v)]
      BY <1>2, <3>2
    <3> QED
      BY <1>1, <1>2, <2>4, <2>5, <3>1, <3>3
  <2>6. CASE f # e
    BY <1>3, <1>9, <2>4, <2>6
  <2> QED
    BY <2>5, <2>6
<1>10. ASSUME NEW f \in Entity, NEW i \in 1 .. Len(t.guid_vec[f]),
              NEW j \in 1 .. Len(t.guid_vec[f]),
              t.guid_vec[f][i] = t.guid_vec[f][j]
       PROVE  i = j
  <2>1. CASE f = e
    <3>1. i \in 1 .. Len(v) - 1 /\ j \in 1 .. Len(v) - 1
      BY <1>2, <1>3, <2>1
    <3>2. v[i + 1] = v[j + 1]
      BY <1>2, <1>3, <1>10, <2>1, <3>1
    <3>3. i + 1 = j + 1
      BY <1>4, <1>5, <3>1, <3>2
    <3> QED
      BY <3>1, <3>3
  <2>2. CASE f # e
    BY <1>3, <1>10, <2>2 DEF IdInv
  <2> QED
    BY <2>1, <2>2
<1> QED
  BY <1>6, <1>7, <1>8, <1>9, <1>10 DEF EntryGone

(* PoolOK, but for the queues of answers, which the pool does not have. *)
AllButLines(s) ==
  /\ PoolInv(s)
  /\ FitsInv(s) /\ EntitiesInv(s) /\ KeepsInv(s)
  /\ IdInv(s) /\ CountInv(s) /\ FlushInv(s)

(* A list that stays when an answer with this id comes: another one, or    *)
(* the one with one more answer, if that was not the last.                 *)
Stays(s, id, m) ==
  \/ m \in s.request_info_vec /\ m.id # id
  \/ \E l \in s.request_info_vec :
       /\ l.id = id /\ m.id = id
       /\ m.guids = l.guids /\ m.owner = l.owner /\ m.kind = l.kind
       /\ m.complated = l.complated + 1
       /\ m.complated # Cardinality(l.guids)

(* What may leave the pool then: nothing about it is on its way, unless it *)
(* is a coin.                                                              *)
MayGo(s, gone) ==
  \A f \in gone :
    /\ f \in Entity
    /\ s.db_entity_map[f] # "add"
    /\ f \in Kept => s.db_entity_map[f] = "none" /\ s.output[f] = <<>>

(* An answer that is counted, or ends its list, or belongs to none.        *)
LEMMA AnswerKeeps ==
  ASSUME NEW s, PoolOK(s), NEW e \in Entity, s.guid_vec[e] # <<>>,
         NEW t \in PoolType,
         t.guid_vec = [s.guid_vec EXCEPT ![e] = Tail(@)],
         t.output = s.output, t.db_entity_map = s.db_entity_map,
         \A m \in t.request_info_vec : Stays(s, Head(s.guid_vec[e]), m),
         \A l, m \in t.request_info_vec : l.id = m.id => l = m,
         NEW gone, MayGo(s, gone),
         \A f \in Entity : t.entity_map[f] = IF f \in gone THEN NoEntity
                                             ELSE s.entity_map[f]
  PROVE  AllButLines(t)
<1> DEFINE id == Head(s.guid_vec[e])
<1>1. s \in PoolType /\ IdInv(s) /\ CountInv(s) /\ FlushInv(s) /\ IsFiniteSet(UsedIds(s))
  BY DEF PoolOK, PoolInv
<1>2. EntryGone(s, t, e, id)
  BY <1>1, TailListed
<1> HIDE DEF id
<1>3. ASSUME NEW m \in t.request_info_vec
      PROVE  \E l \in s.request_info_vec :
               /\ l.id = m.id /\ m.guids = l.guids /\ m.owner = l.owner
               /\ m.kind = l.kind
  BY DEF Stays, id
<1>4. ASSUME NEW l \in s.request_info_vec
      PROVE  /\ l.guids \in SUBSET Entity /\ IsFiniteSet(l.guids)
             /\ Cardinality(l.guids) \in Nat /\ l.complated \in Nat
             /\ l.complated < Cardinality(l.guids)
             /\ l.guids \subseteq OwnedBy(l.owner)
  <2>1. l.guids \in SUBSET Entity /\ l.complated \in Nat
    BY <1>1 DEF PoolType
  <2>2. IsFiniteSet(l.guids)
    BY <2>1, EntityAssumption, FS_Subset
  <2> QED
    BY <2>1, <2>2, FS_CardinalityType DEF PoolOK, PoolInv, ListsOK
<1>5. PoolInv(t)
  <2>1. ASSUME NEW m \in t.request_info_vec
        PROVE  m.guids \subseteq OwnedBy(m.owner) /\ m.complated < Cardinality(m.guids)
    <3>1. Stays(s, id, m)
      BY DEF id
    <3>2. CASE m \in s.request_info_vec /\ m.id # id
      BY <1>4, <3>2
    <3>3. CASE \E l \in s.request_info_vec :
                 /\ l.id = id /\ m.id = id
                 /\ m.guids = l.guids /\ m.owner = l.owner /\ m.kind = l.kind
                 /\ m.complated = l.complated + 1
                 /\ m.complated # Cardinality(l.guids)
      BY <1>4, <3>3
    <3> QED
      BY <3>1, <3>2, <3>3 DEF Stays
  <2>2. UsedIds(t) \subseteq UsedIds(s)
    <3>1. ASSUME NEW m \in t.request_info_vec PROVE m.id \in UsedIds(s)
      BY <1>3 DEF UsedIds
    <3>2. ASSUME NEW f \in Entity, NEW x \in Range(t.guid_vec[f])
          PROVE  x \in UsedIds(s)
      <4>1. t.guid_vec[f] \in Seq(Id) /\ s.guid_vec[f] \in Seq(Id)
        BY <1>1 DEF PoolType
      <4>2. PICK k \in 1 .. Len(t.guid_vec[f]) : t.guid_vec[f][k] = x
        BY <3>2, <4>1, LenProperties DEF Range
      <4>3. Listed(t, f, x)
        BY <4>2 DEF Listed
      <4>4. Listed(s, f, x)
        BY <1>2, <4>3 DEF EntryGone
      <4>5. PICK j \in 1 .. Len(s.guid_vec[f]) : s.guid_vec[f][j] = x
        BY <4>4 DEF Listed
      <4>6. x \in Range(s.guid_vec[f])
        BY <4>1, <4>5, LenProperties DEF Range
      <4> QED
        BY <4>6 DEF UsedIds
    <3> QED
      BY <3>1, <3>2 DEF UsedIds
  <2> QED
    BY <1>1, <2>1, <2>2, FS_Subset DEF PoolInv, ListsOK
<1>6. FitsInv(t)
  BY DEF PoolOK, FitsInv
<1>7. IdInv(t)
  <2>1. ASSUME NEW m \in t.request_info_vec, NEW f \in Entity, Listed(t, f, m.id)
        PROVE  f \in m.guids
    <3>1. PICK l \in s.request_info_vec : l.id = m.id /\ m.guids = l.guids
      BY <1>3
    <3> QED
      BY <1>1, <1>2, <2>1, <3>1 DEF EntryGone, IdInv
  <2> QED
    BY <1>2, <2>1 DEF EntryGone, IdInv
<1>8. CountInv(t)
  <2>1. ASSUME NEW m \in t.request_info_vec
        PROVE  m.complated + Cardinality(Pending(t, m)) = Cardinality(m.guids)
    <3>1. Stays(s, id, m)
      BY DEF id
    <3>2. CASE m \in s.request_info_vec /\ m.id # id
      <4>1. Pending(t, m) = Pending(s, m)
        BY <1>2, <1>4, <3>2 DEF EntryGone, Pending
      <4> QED
        BY <1>1, <3>2, <4>1 DEF CountInv
    <3>3. CASE \E l \in s.request_info_vec :
                 /\ l.id = id /\ m.id = id
                 /\ m.guids = l.guids /\ m.owner = l.owner /\ m.kind = l.kind
                 /\ m.complated = l.complated + 1
                 /\ m.complated # Cardinality(l.guids)
      <4>1. PICK l \in s.request_info_vec :
              /\ l.id = id /\ m.id = id /\ m.guids = l.guids
              /\ m.complated = l.complated + 1
        BY <3>3
      <4>2. e \in Pending(s, l)
        BY <1>1, <1>2, <4>1 DEF EntryGone, Pending, IdInv
      <4>3. Pending(t, m) = Pending(s, l) \ {e}
        BY <1>2, <1>4, <4>1 DEF EntryGone, Pending
      <4>4. IsFiniteSet(Pending(s, l)) /\ Cardinality(Pending(s, l)) \in Nat
        <5>1. Pending(s, l) \in SUBSET l.guids
          BY DEF Pending
        <5> QED
          BY <1>4, <5>1, FS_Subset, FS_CardinalityType
      <4>5. Cardinality(Pending(t, m)) = Cardinality(Pending(s, l)) - 1
        BY <4>2, <4>3, <4>4, FS_RemoveElement
      <4>6. l.complated + Cardinality(Pending(s, l)) = Cardinality(l.guids)
        BY <1>1 DEF CountInv
      <4> QED
        BY <1>4, <4>1, <4>4, <4>5, <4>6
    <3> QED
      BY <3>1, <3>2, <3>3 DEF Stays
  <2> QED
    BY <2>1 DEF CountInv
<1>9. ASSUME NEW f \in Entity
      PROVE  Gettable(t, f) <=> f \notin gone /\ Gettable(s, f)
  BY <1>9 DEF Gettable
<1>10. FlushInv(t)
  <2>1. ASSUME NEW m \in t.request_info_vec, m.kind = "flush"
        PROVE  /\ PlayerOf(m.owner) \in m.guids
               /\ \A f \in m.guids :
                    /\ t.db_entity_map[f] = "none" /\ ~Gettable(t, f)
                    /\ f \notin New \ made
                    /\ \/ t.guid_vec[f] = <<>>
                       \/ t.guid_vec[f][Len(t.guid_vec[f])] = m.id
    <3>1. PICK l \in s.request_info_vec :
            /\ l.id = m.id /\ m.guids = l.guids /\ m.owner = l.owner
            /\ m.kind = l.kind
      BY <1>3
    <3>2. /\ PlayerOf(l.owner) \in l.guids
          /\ \A f \in l.guids :
               /\ s.db_entity_map[f] = "none" /\ ~Gettable(s, f)
               /\ f \notin New \ made
               /\ \/ s.guid_vec[f] = <<>>
                  \/ s.guid_vec[f][Len(s.guid_vec[f])] = l.id
      BY <1>1, <2>1, <3>1 DEF FlushInv
    <3> QED
      BY <1>2, <1>4, <1>9, <3>1, <3>2 DEF EntryGone
  <2> QED
    BY <2>1 DEF FlushInv
<1>11. ASSUME NEW f \in Entity PROVE EntityInv(t, f)
  <2>1. EntityInv(s, f)
    BY DEF PoolOK, EntitiesInv
  <2>2. CASE f \in gone
    <3>1. /\ t.entity_map[f] = NoEntity /\ ~Gettable(t, f)
          /\ t.db_entity_map[f] # "add"
      BY <1>9, <2>2 DEF MayGo
    <3> QED
      BY <2>1, <3>1 DEF EntityInv
  <2>3. CASE f \notin gone
    <3>1. /\ t.entity_map[f] = s.entity_map[f]
          /\ Gettable(t, f) <=> Gettable(s, f)
      BY <1>9, <2>3
    <3> QED
      BY <2>1, <3>1 DEF EntityInv
  <2> QED
    BY <2>2, <2>3
<1>12. ASSUME NEW f \in Kept PROVE KeptInv(t, f)
  <2>1. f \in Entity /\ KeptInv(s, f)
    BY DEF PoolOK, KeepsInv, Kept
  <2>2. CASE f \in gone
    <3>1. s.db_entity_map[f] = "none" /\ s.output[f] = <<>>
      BY <2>2 DEF MayGo
    <3> QED
      BY <2>1, <3>1 DEF KeptInv
  <2>3. CASE f \notin gone
    BY <1>9, <2>1, <2>3 DEF KeptInv
  <2> QED
    BY <2>2, <2>3
<1> QED
  BY <1>5, <1>6, <1>7, <1>8, <1>10, <1>11, <1>12
     DEF AllButLines, EntitiesInv, KeepsInv

(* The last request of a flush is answered when nothing of what it asked   *)
(* for is on its way any more.                                             *)
LEMMA FlushIsAnswered ==
  ASSUME NEW s, PoolOK(s), NEW e \in Entity, input[e] # <<>>,
         input \in [Entity -> Seq(Answer)], s.guid_vec[e] # <<>>,
         NEW l \in s.request_info_vec, l.id = Head(s.guid_vec[e]),
         l.kind = "flush", l.complated + 1 = Cardinality(l.guids),
         NEW f \in l.guids
  PROVE  s.output[f] = <<>>
<1> DEFINE id == Head(s.guid_vec[e])
           t == [s EXCEPT !.guid_vec[e] = Tail(@)]
<1>1. s \in PoolType /\ IdInv(s) /\ CountInv(s) /\ FlushInv(s)
  BY DEF PoolOK, PoolInv
<1>2. t.guid_vec = [s.guid_vec EXCEPT ![e] = Tail(@)]
  BY <1>1 DEF PoolType
<1> HIDE DEF t
<1>3. EntryGone(s, t, e, id)
  BY <1>1, <1>2, TailListed
<1>4. l.guids \in SUBSET Entity /\ l.complated \in Nat
  BY <1>1 DEF PoolType
<1>5. e \in Pending(s, l)
  BY <1>1, <1>3 DEF EntryGone, Pending, IdInv
<1>6. IsFiniteSet(Pending(s, l)) /\ Cardinality(Pending(s, l)) \in Nat
  <2>1. Pending(s, l) \in SUBSET l.guids /\ IsFiniteSet(l.guids)
    BY <1>4, EntityAssumption, FS_Subset DEF Pending
  <2> QED
    BY <2>1, FS_Subset, FS_CardinalityType
<1>7. Cardinality(Pending(s, l)) = 1
  <2>1. l.complated + Cardinality(Pending(s, l)) = Cardinality(l.guids)
    BY <1>1 DEF CountInv
  <2> QED
    BY <1>4, <1>6, <2>1
<1>8. \A g \in Pending(s, l) : g = e
  <2>1. \E x : Pending(s, l) = {x}
    BY <1>6, <1>7, FS_Singleton
  <2> QED
    BY <1>5, <2>1
<1>9. ~Listed(t, f, id)
  BY <1>3, <1>4, <1>8 DEF EntryGone, Pending
<1>10. t.guid_vec[f] = <<>>
  <2>1. \/ s.guid_vec[f] = <<>>
        \/ s.guid_vec[f][Len(s.guid_vec[f])] = id
    BY <1>1 DEF FlushInv
  <2> QED
    BY <1>3, <1>4, <1>9, <2>1 DEF EntryGone
<1>11. /\ LineInv(s.guid_vec[f], input[f], s.output[f])
       /\ s.guid_vec[f] \in Seq(Id) /\ s.output[f] \in Seq(Requests)
       /\ input[f] \in Seq(Answer)
  BY <1>1, <1>4 DEF PoolOK, LinesInv, PoolType, Requests
<1>12. /\ Len(s.guid_vec[f]) = Len(input[f]) + Len(s.output[f])
       /\ Len(input[f]) \in Nat /\ Len(s.output[f]) \in Nat
  BY <1>11, LenProperties DEF LineInv
<1>15. \A i, j \in Nat : i + j = 0 \/ (i + j = 1 /\ i # 0) => j = 0
  OBVIOUS
<1>13. CASE f = e
  <2>1. Tail(s.guid_vec[e]) = <<>>
    BY <1>1, <1>2, <1>10, <1>13 DEF PoolType
  <2>2. Len(s.guid_vec[e]) = 1
    BY <1>11, <1>13, <2>1, TailFacts
  <2>3. Len(input[e]) # 0
    <3>1. input[e] \in Seq(Answer)
      OBVIOUS
    <3> QED
      BY <3>1, EmptySeq
  <2>4. Len(s.output[e]) = 0
    <3>1. /\ Len(s.guid_vec[e]) = Len(input[e]) + Len(s.output[e])
          /\ Len(input[e]) \in Nat /\ Len(s.output[e]) \in Nat
      BY <1>12, <1>13
    <3> QED
      BY <1>15, <2>2, <2>3, <3>1
  <2> QED
    BY <1>11, <1>13, <2>4, EmptySeq
<1>14. CASE f # e
  <2>1. s.guid_vec[f] = <<>>
    BY <1>1, <1>2, <1>4, <1>10, <1>14 DEF PoolType
  <2>2. Len(s.guid_vec[f]) = 0
    BY <2>1
  <2>3. Len(s.output[f]) = 0
    BY <1>12, <1>15, <2>2
  <2> QED
    BY <1>11, <2>3, EmptySeq
<1> QED
  BY <1>13, <1>14

(* An answered list of updates changes nothing of what is in the pool:     *)
(* nothing is in it that waits to be sent and then to leave.               *)
LEMMA UpdateAnswered ==
  ASSUME NEW s \in PoolType,
         \A e \in Entity : s.entity_map[e] # NoEntity
                             => ~s.entity_map[e].is_remove_from_memory,
         NEW l
  PROVE  LET t == UpdateToDbCallback(s, l)
         IN  /\ t \in PoolType
             /\ t.guid_vec = s.guid_vec /\ t.output = s.output
             /\ t.db_entity_map = s.db_entity_map
             /\ t.request_info_vec = s.request_info_vec
             /\ \A f \in Entity : t.entity_map[f] = s.entity_map[f]
<1> DEFINE num == IF s.update_to_db_num > 0 THEN s.update_to_db_num - 1 ELSE 0
           a == [s EXCEPT !.update_to_db_num = num]
           confirmed == {e \in l.guids \cap l.success :
                           a.updating_db_entity_map[e] # "none"}
           up == [e \in Entity |-> IF e \in confirmed THEN "none"
                                   ELSE a.updating_db_entity_map[e]]
           b == [a EXCEPT !.updating_db_entity_map = up]
           em == [e \in Entity |->
                    IF e \in confirmed /\ b.entity_map[e] # NoEntity
                       /\ b.entity_map[e].is_remove_from_memory
                    THEN NoEntity ELSE b.entity_map[e]]
           t == UpdateToDbCallback(s, l)
<1>1. t = [b EXCEPT !.entity_map = em]
  BY DEF UpdateToDbCallback, RemoveDbInfo, CheckShouldRemovedEntity
<1>2. num \in Nat
  BY DEF PoolType
<1> HIDE DEF num, t
<1>3. /\ a \in PoolType /\ a.updating_db_entity_map = s.updating_db_entity_map
      /\ a.entity_map = s.entity_map /\ a.guid_vec = s.guid_vec
      /\ a.output = s.output /\ a.db_entity_map = s.db_entity_map
      /\ a.request_info_vec = s.request_info_vec
  BY <1>2 DEF PoolType
<1> HIDE DEF a
<1>4. up \in [Entity -> Op]
  BY <1>3 DEF PoolType, Op
<1> HIDE DEF up
<1>5. /\ b \in PoolType
      /\ b.entity_map = s.entity_map /\ b.guid_vec = s.guid_vec
      /\ b.output = s.output /\ b.db_entity_map = s.db_entity_map
      /\ b.request_info_vec = s.request_info_vec
  BY <1>3, <1>4 DEF PoolType
<1> HIDE DEF b
<1>6. \A f \in Entity : em[f] = s.entity_map[f]
  BY <1>5
<1>7. em \in [Entity -> EntityInfo \cup {NoEntity}]
  <2>1. \A f \in Entity : s.entity_map[f] \in EntityInfo \cup {NoEntity}
    BY DEF PoolType
  <2> QED
    BY <1>5, <2>1
<1> HIDE DEF em
<1>8. /\ t \in PoolType /\ t.entity_map = em
      /\ t.guid_vec = s.guid_vec /\ t.output = s.output
      /\ t.db_entity_map = s.db_entity_map
      /\ t.request_info_vec = s.request_info_vec
  BY <1>1, <1>5, <1>7 DEF PoolType
<1> QED
  BY <1>6, <1>8 DEF t

(* What an answered flush lets leave the pool: what it asked for, and the  *)
(* coins that are still there.                                             *)
Leaving(l) ==
  l.guids \cup (IF player_state[l.owner] = "jumping" THEN {} ELSE Coins(l.owner))

(* It leaves at once, since nothing of it waits to be added.               *)
LEMMA FlushAnswered ==
  ASSUME NEW s \in PoolType, NEW l, l.owner \in Player,
         l.guids \in SUBSET Entity, PlayerOf(l.owner) \in l.guids,
         \A e \in Leaving(l) :
           /\ s.db_entity_map[e] # "add"
           /\ s.entity_map[e] # NoEntity
                => ~s.entity_map[e].is_remove_from_memory
  PROVE  LET t == PlayerFlushDataFinish(s, l)
         IN  /\ t \in PoolType
             /\ t.guid_vec = s.guid_vec /\ t.output = s.output
             /\ t.db_entity_map = s.db_entity_map
             /\ t.request_info_vec = s.request_info_vec
             /\ \A f \in Entity :
                  t.entity_map[f] = IF f \in Leaving(l) THEN NoEntity
                                    ELSE s.entity_map[f]
<1> DEFINE p == PlayerOf(l.owner)
           start == IF s.entity_map[p] = NoEntity THEN s
                    ELSE [s EXCEPT !.entity_map[p].is_flushing = FALSE]
           em == [e \in Entity |->
                    IF e \notin Leaving(l) \/ ~Owned(start, e)
                    THEN start.entity_map[e]
                    ELSE IF IsUpdating(start, e)
                    THEN [start.entity_map[e] EXCEPT
                            !.is_remove_from_memory = TRUE]
                    ELSE NoEntity]
           t == PlayerFlushDataFinish(s, l)
<1>1. t = [start EXCEPT !.entity_map = em]
  BY DEF PlayerFlushDataFinish, RemoveFromMemory, Leaving
<1>2. p \in Entity /\ p \in Leaving(l)
  BY DEF Leaving
<1> HIDE DEF p
<1>3. /\ start \in PoolType
      /\ start.guid_vec = s.guid_vec /\ start.output = s.output
      /\ start.db_entity_map = s.db_entity_map
      /\ start.request_info_vec = s.request_info_vec
      /\ \A f \in Entity \ {p} : start.entity_map[f] = s.entity_map[f]
      /\ start.entity_map[p] = NoEntity
           \/ /\ s.entity_map[p] # NoEntity
              /\ start.entity_map[p].is_remove_from_memory
                   = s.entity_map[p].is_remove_from_memory
  <2>1. CASE s.entity_map[p] = NoEntity
    BY <2>1
  <2>2. CASE s.entity_map[p] # NoEntity
    <3> DEFINE i == [s.entity_map[p] EXCEPT !.is_flushing = FALSE]
               f == [s.entity_map EXCEPT ![p] = i]
    <3>1. start = [s EXCEPT !.entity_map = f]
      BY <2>2 DEF PoolType
    <3>2. s.entity_map[p] \in EntityInfo
      BY <1>2, <2>2 DEF PoolType
    <3>3. i \in EntityInfo
          /\ i.is_remove_from_memory = s.entity_map[p].is_remove_from_memory
      BY <3>2 DEF EntityInfo
    <3> HIDE DEF i
    <3>4. /\ f \in [Entity -> EntityInfo \cup {NoEntity}]
          /\ f[p] = i /\ \A g \in Entity \ {p} : f[g] = s.entity_map[g]
      BY <1>2, <3>3 DEF PoolType
    <3> HIDE DEF f, start
    <3>5. /\ start \in PoolType /\ start.entity_map = f
          /\ start.guid_vec = s.guid_vec /\ start.output = s.output
          /\ start.db_entity_map = s.db_entity_map
          /\ start.request_info_vec = s.request_info_vec
      BY <3>1, <3>4 DEF PoolType
    <3> QED
      BY <2>2, <3>3, <3>4, <3>5
  <2> QED
    BY <2>1, <2>2
<1> HIDE DEF start
<1>4. ASSUME NEW f \in Entity
      PROVE  em[f] = IF f \in Leaving(l) THEN NoEntity ELSE s.entity_map[f]
  <2>1. CASE f \in Leaving(l)
    <3>1. ~IsUpdating(start, f)
      BY <1>3, <2>1 DEF IsUpdating
    <3>2. ~Owned(start, f) => start.entity_map[f] = NoEntity
      BY <1>3, <2>1 DEF Owned
    <3> QED
      BY <2>1, <3>1, <3>2
  <2>2. CASE f \notin Leaving(l)
    BY <1>2, <1>3, <2>2
  <2> QED
    BY <2>1, <2>2
<1>5. em \in [Entity -> EntityInfo \cup {NoEntity}]
  <2>1. \A f \in Entity : em[f] \in EntityInfo \cup {NoEntity}
    BY <1>4 DEF PoolType
  <2> QED
    BY <2>1
<1> HIDE DEF em
<1>6. /\ t \in PoolType /\ t.entity_map = em
      /\ t.guid_vec = s.guid_vec /\ t.output = s.output
      /\ t.db_entity_map = s.db_entity_map
      /\ t.request_info_vec = s.request_info_vec
  BY <1>1, <1>3, <1>5 DEF PoolType
<1> QED
  BY <1>4, <1>6

(* PoolImp::handlePacket in all its cases.                                 *)
LEMMA AnswerOK ==
  ASSUME NEW s, PoolOK(s), EnvTypeOK, NEW e \in Entity,
         s.guid_vec[e] # <<>>, input[e] # <<>>, NEW success \in BOOLEAN
  PROVE  LET t == HandlePacket(GetMapID(s, e), Head(s.guid_vec[e]), e, success)
         IN  /\ t \in PoolType /\ AllButLines(t)
             /\ t.guid_vec = [s.guid_vec EXCEPT ![e] = Tail(@)]
             /\ t.output = s.output
<1> DEFINE id == Head(s.guid_vec[e])
           g == GetMapID(s, e)
           t == HandlePacket(g, id, e, success)
           l == CHOOSE x \in g.request_info_vec : x.id = id
           answered == [l EXCEPT !.complated = @ + 1,
                                 !.success = IF success THEN @ \cup {e}
                                             ELSE @]
           others == g.request_info_vec \ {l}
           done == [g EXCEPT !.request_info_vec = others]
<1>1. /\ s \in PoolType /\ IdInv(s) /\ FlushInv(s) /\ EntitiesInv(s)
      /\ ListsOK(s) /\ input \in [Entity -> Seq(Answer)]
  BY DEF PoolOK, PoolInv, EnvTypeOK
<1>2. /\ s.guid_vec \in [Entity -> Seq(Id)] /\ Tail(s.guid_vec[e]) \in Seq(Id)
  BY <1>1, TailFacts DEF PoolType
<1>3. /\ g \in PoolType /\ g.guid_vec = [s.guid_vec EXCEPT ![e] = Tail(@)]
      /\ g.output = s.output /\ g.db_entity_map = s.db_entity_map
      /\ g.entity_map = s.entity_map
      /\ g.request_info_vec = s.request_info_vec
  <2> DEFINE v == [s.guid_vec EXCEPT ![e] = Tail(@)]
  <2>1. g = [s EXCEPT !.guid_vec = v]
    BY <1>1 DEF GetMapID, PoolType
  <2>2. v \in [Entity -> Seq(Id)]
    BY <1>2
  <2> HIDE DEF v, g
  <2>3. /\ g \in PoolType /\ g.guid_vec = v
        /\ g.output = s.output /\ g.db_entity_map = s.db_entity_map
        /\ g.entity_map = s.entity_map
        /\ g.request_info_vec = s.request_info_vec
    BY <1>1, <2>1, <2>2 DEF PoolType
  <2> QED
    BY <2>3 DEF v
<1>4. t = IF \A i \in g.request_info_vec : i.id # id THEN g
          ELSE IF answered.complated # Cardinality(l.guids)
          THEN [g EXCEPT !.request_info_vec = others \cup {answered}]
          ELSE IF l.kind = "update" THEN UpdateToDbCallback(done, answered)
          ELSE PlayerFlushDataFinish(done, answered)
  BY DEF HandlePacket
<1> HIDE DEF g, t, id
<1>5. \A f \in Entity : s.entity_map[f] # NoEntity
                          => ~s.entity_map[f].is_remove_from_memory
  BY <1>1 DEF EntitiesInv, EntityInv
<1>6. ASSUME \A i \in s.request_info_vec : i.id # id
      PROVE  /\ t \in PoolType /\ AllButLines(t)
             /\ t.guid_vec = [s.guid_vec EXCEPT ![e] = Tail(@)]
             /\ t.output = s.output
  <2>1. t = g
    BY <1>3, <1>4, <1>6
  <2>2. \A m \in t.request_info_vec : Stays(s, id, m)
    BY <1>3, <1>6, <2>1 DEF Stays
  <2>3. MayGo(s, {})
    BY DEF MayGo
  <2>4. /\ t.guid_vec = [s.guid_vec EXCEPT ![e] = Tail(@)] /\ t \in PoolType
        /\ t.output = s.output /\ t.db_entity_map = s.db_entity_map
        /\ \A x, m \in t.request_info_vec : x.id = m.id => x = m
        /\ \A f \in Entity : t.entity_map[f] = IF f \in {} THEN NoEntity
                                               ELSE s.entity_map[f]
    BY <1>1, <1>3, <2>1 DEF IdInv
  <2>5. AllButLines(t)
    BY <2>2, <2>3, <2>4, AnswerKeeps DEF id
  <2> QED
    BY <2>4, <2>5
<1>7. ASSUME NEW i \in s.request_info_vec, i.id = id
      PROVE  /\ t \in PoolType /\ AllButLines(t)
             /\ t.guid_vec = [s.guid_vec EXCEPT ![e] = Tail(@)]
             /\ t.output = s.output
  <2>1. /\ l \in s.request_info_vec /\ l.id = id
        /\ \A x \in others : x \in s.request_info_vec /\ x.id # id
    BY <1>1, <1>3, <1>7 DEF IdInv
  <2> DEFINE List == [id : Id, kind : {"update", "flush"}, owner : Player,
                      guids : SUBSET Entity, complated : Nat,
                      success : SUBSET Entity]
  <2>2. l \in List /\ g.request_info_vec \in SUBSET List
    BY <1>1, <1>3, <2>1 DEF PoolType
  <2> HIDE DEF l
  <2>3. /\ answered \in List /\ answered.id = l.id /\ answered.kind = l.kind
        /\ answered.owner = l.owner /\ answered.guids = l.guids
        /\ answered.complated = l.complated + 1
    <3> DEFINE n == l.complated + 1
               S == IF success THEN l.success \cup {e} ELSE l.success
    <3>1. n \in Nat /\ S \in SUBSET Entity
      BY <2>2
    <3>2. answered = [l EXCEPT !.complated = n, !.success = S]
      BY <2>2
    <3> HIDE DEF n, S
    <3>3. /\ answered \in List /\ answered.id = l.id /\ answered.kind = l.kind
          /\ answered.owner = l.owner /\ answered.guids = l.guids
          /\ answered.complated = n
      BY <2>2, <3>1, <3>2
    <3> QED
      BY <3>3 DEF n
  <2> HIDE DEF answered
  <2>4. /\ others \in SUBSET List /\ others \cup {answered} \in SUBSET List
    BY <2>2, <2>3
  <2>5. \A x \in others : Stays(s, id, x)
    BY <2>1 DEF Stays
  <2>6. \A x, m \in others : x.id = m.id => x = m
    BY <1>1, <2>1 DEF IdInv
  <2> HIDE DEF others
  <2>7. /\ done \in PoolType /\ done.request_info_vec = others
        /\ done.guid_vec = g.guid_vec /\ done.output = g.output
        /\ done.db_entity_map = g.db_entity_map
        /\ done.entity_map = g.entity_map
    BY <1>3, <2>4 DEF PoolType
  <2> HIDE DEF done
  <2>8. t = IF answered.complated # Cardinality(l.guids)
            THEN [g EXCEPT !.request_info_vec = others \cup {answered}]
            ELSE IF l.kind = "update" THEN UpdateToDbCallback(done, answered)
            ELSE PlayerFlushDataFinish(done, answered)
    BY <1>3, <1>4, <1>7
  <2>9. CASE answered.complated # Cardinality(l.guids)
    <3>1. t = [g EXCEPT !.request_info_vec = others \cup {answered}]
      BY <2>8, <2>9
    <3>2. /\ t \in PoolType /\ t.request_info_vec = others \cup {answered}
          /\ t.guid_vec = g.guid_vec /\ t.output = g.output
          /\ t.db_entity_map = g.db_entity_map
          /\ t.entity_map = g.entity_map
      BY <1>3, <2>4, <3>1 DEF PoolType
    <3>3. Stays(s, id, answered)
      BY <2>1, <2>3, <2>9 DEF Stays
    <3>4. /\ \A m \in t.request_info_vec : Stays(s, id, m)
          /\ \A x, m \in t.request_info_vec : x.id = m.id => x = m
      <4>1. \A x \in others : x.id # answered.id
        BY <2>1, <2>3
      <4> QED
        BY <2>5, <2>6, <3>2, <3>3, <4>1
    <3>5. MayGo(s, {})
      BY DEF MayGo
    <3>6. /\ t.guid_vec = [s.guid_vec EXCEPT ![e] = Tail(@)] /\ t \in PoolType
          /\ t.output = s.output /\ t.db_entity_map = s.db_entity_map
          /\ \A f \in Entity : t.entity_map[f] = IF f \in {} THEN NoEntity
                                                 ELSE s.entity_map[f]
      BY <1>3, <3>2
    <3>7. AllButLines(t)
      BY <3>4, <3>5, <3>6, AnswerKeeps DEF id
    <3> QED
      BY <3>2, <3>6, <3>7
  <2>10. CASE answered.complated = Cardinality(l.guids) /\ l.kind = "update"
    <3>1. t = UpdateToDbCallback(done, answered)
      BY <2>8, <2>10
    <3>2. /\ t \in PoolType
          /\ t.guid_vec = done.guid_vec /\ t.output = done.output
          /\ t.db_entity_map = done.db_entity_map
          /\ t.request_info_vec = done.request_info_vec
          /\ \A f \in Entity : t.entity_map[f] = done.entity_map[f]
      <4>1. \A f \in Entity : done.entity_map[f] # NoEntity
                                => ~done.entity_map[f].is_remove_from_memory
        BY <1>3, <1>5, <2>7
      <4> QED
        BY <2>7, <3>1, <4>1, UpdateAnswered
    <3>3. MayGo(s, {})
      BY DEF MayGo
    <3>4. /\ t.guid_vec = [s.guid_vec EXCEPT ![e] = Tail(@)]
          /\ t.output = s.output /\ t.db_entity_map = s.db_entity_map
          /\ \A f \in Entity : t.entity_map[f] = IF f \in {} THEN NoEntity
                                                 ELSE s.entity_map[f]
          /\ t.request_info_vec = others
      BY <1>3, <2>7, <3>2
    <3>5. AllButLines(t)
      BY <2>5, <2>6, <3>2, <3>3, <3>4, AnswerKeeps DEF id
    <3> QED
      BY <3>2, <3>4, <3>5
  <2>11. CASE answered.complated = Cardinality(l.guids) /\ l.kind # "update"
    <3>1. t = PlayerFlushDataFinish(done, answered) /\ l.kind = "flush"
      BY <2>2, <2>8, <2>11
    <3>2. /\ PlayerOf(l.owner) \in l.guids /\ l.guids \in SUBSET Entity
          /\ \A f \in l.guids : s.db_entity_map[f] = "none"
      BY <1>1, <2>1, <2>2, <3>1 DEF FlushInv
    <3>3. \A f \in l.guids : s.output[f] = <<>>
      <4>1. l.complated + 1 = Cardinality(l.guids)
        BY <2>3, <2>11
      <4> QED
        BY <1>1, <2>1, <3>1, <4>1, FlushIsAnswered DEF id
    <3>4. ASSUME NEW f \in Leaving(answered)
          PROVE  /\ f \in Entity /\ s.db_entity_map[f] # "add"
                 /\ f \in Kept => s.db_entity_map[f] = "none" /\ s.output[f] = <<>>
      <4>1. CASE f \in l.guids
        BY <3>2, <3>3, <4>1
      <4>2. CASE f \notin l.guids
        <5>1. f \in Coins(l.owner)
          BY <2>3, <4>2 DEF Leaving
        <5>2. f \in Entity /\ Kind[f] = "coin"
          BY <5>1 DEF Coins
        <5>3. s.db_entity_map[f] # "add"
          BY <1>1, <5>2 DEF EntitiesInv, EntityInv
        <5> QED
          BY <5>2, <5>3 DEF Kept
      <4> QED
        BY <4>1, <4>2
    <3>5. MayGo(s, Leaving(answered))
      BY <3>4 DEF MayGo
    <3>6. /\ t \in PoolType
          /\ t.guid_vec = done.guid_vec /\ t.output = done.output
          /\ t.db_entity_map = done.db_entity_map
          /\ t.request_info_vec = done.request_info_vec
          /\ \A f \in Entity :
               t.entity_map[f] = IF f \in Leaving(answered) THEN NoEntity
                                 ELSE done.entity_map[f]
      <4>1. /\ answered.owner \in Player /\ answered.guids \in SUBSET Entity
            /\ PlayerOf(answered.owner) \in answered.guids
        BY <2>3, <3>2
      <4>2. \A f \in Leaving(answered) :
              /\ done.db_entity_map[f] # "add"
              /\ done.entity_map[f] # NoEntity
                   => ~done.entity_map[f].is_remove_from_memory
        BY <1>3, <1>5, <2>7, <3>4
      <4> QED
        BY <2>7, <3>1, <4>1, <4>2, FlushAnswered
    <3>7. /\ t.guid_vec = [s.guid_vec EXCEPT ![e] = Tail(@)]
          /\ t.output = s.output /\ t.db_entity_map = s.db_entity_map
          /\ \A f \in Entity : t.entity_map[f] = IF f \in Leaving(answered)
                                                 THEN NoEntity
                                                 ELSE s.entity_map[f]
          /\ t.request_info_vec = others
      BY <1>3, <2>7, <3>6
    <3>8. AllButLines(t)
      BY <2>5, <2>6, <3>5, <3>6, <3>7, AnswerKeeps DEF id
    <3> QED
      BY <3>6, <3>7, <3>8
  <2> QED
    BY <2>9, <2>10, <2>11
<1> QED
  BY <1>6, <1>7 DEF t, g, id

-----------------------------------------------------------------------------
(* The steps *)

(* A handler that sends nothing and changes one entity, which is not being *)
(* flushed.                                                                *)
LEMMA OneEntity ==
  ASSUME IInv, NEW e \in Entity, pool' \in PoolType,
         pool'.guid_vec = pool.guid_vec, pool'.output = pool.output,
         pool'.request_info_vec = pool.request_info_vec,
         UNCHANGED <<input, input_line, player_state, need_flush, stored, client>>,
         \A f \in Entity \ {e} :
           /\ pool'.entity_map[f] = pool.entity_map[f]
           /\ pool'.db_entity_map[f] = pool.db_entity_map[f]
           /\ content'[f] = content[f]
           /\ f \in New \ made' => f \in New \ made,
         made' \subseteq New,
         content' \in [Entity -> Version \cup {NoVersion}],
         EntityInv(pool, e)', e \in Kept => KeptInv(pool, e)',
         Gettable(pool, e) \/ e \in New \ made
  PROVE  IInv'
<1> DEFINE t == pool'
<1>0. /\ input' = input /\ input_line' = input_line /\ stored' = stored
      /\ client' = client /\ player_state' = player_state
      /\ need_flush' = need_flush
  OBVIOUS
<1>1. EnvTypeOK'
  BY <1>0 DEF IInv, EnvTypeOK
<1>2. PoolOK(pool)
  BY DEF IInv
<1>3. \A f \in Entity \ {e} : Gettable(t, f) <=> Gettable(pool, f)
  BY DEF Gettable
<1>4. PoolInv(t)
  <2>1. UsedIds(t) = UsedIds(pool)
    BY DEF UsedIds
  <2> QED
    BY <1>2, <2>1 DEF PoolOK, PoolInv, ListsOK
<1>5. LinesInv(pool)' /\ FitsInv(pool)'
  BY <1>0, <1>2 DEF PoolOK, LinesInv, FitsInv
<1>6. ASSUME NEW f \in Entity PROVE EntityInv(pool, f)'
  <2>1. CASE f = e
    BY <2>1
  <2>2. CASE f # e
    <3>1. EntityInv(pool, f)
      BY <1>2 DEF PoolOK, EntitiesInv
    <3> QED
      BY <1>0, <1>3, <2>2, <3>1 DEF EntityInv
  <2> QED
    BY <2>1, <2>2
<1>7. ASSUME NEW f \in Kept PROVE KeptInv(pool, f)'
  <2>1. CASE f = e
    BY <2>1
  <2>2. CASE f # e
    <3>1. KeptInv(pool, f) /\ f \in Entity
      BY <1>2 DEF PoolOK, KeepsInv, Kept
    <3> QED
      BY <1>0, <1>3, <2>2, <3>1 DEF KeptInv
  <2> QED
    BY <2>1, <2>2
<1>8. \A f, id : Listed(t, f, id) <=> Listed(pool, f, id)
  BY DEF Listed
<1>9. IdInv(t)
  BY <1>2, <1>8 DEF PoolOK, IdInv
<1>10. CountInv(t)
  <2>1. \A l : Pending(t, l) = Pending(pool, l)
    BY <1>8 DEF Pending
  <2> QED
    BY <1>2, <2>1 DEF PoolOK, CountInv
<1>11. FlushInv(pool)'
  <2>1. ASSUME NEW l \in t.request_info_vec, l.kind = "flush"
        PROVE  /\ PlayerOf(l.owner) \in l.guids
               /\ \A f \in l.guids :
                    /\ t.db_entity_map[f] = "none" /\ ~Gettable(t, f)
                    /\ f \notin New \ made'
                    /\ \/ t.guid_vec[f] = <<>>
                       \/ t.guid_vec[f][Len(t.guid_vec[f])] = l.id
    <3>1. /\ PlayerOf(l.owner) \in l.guids
          /\ \A f \in l.guids :
               /\ pool.db_entity_map[f] = "none" /\ ~Gettable(pool, f)
               /\ f \notin New \ made
               /\ \/ pool.guid_vec[f] = <<>>
                  \/ pool.guid_vec[f][Len(pool.guid_vec[f])] = l.id
      BY <1>2, <2>1 DEF PoolOK, FlushInv
    <3>2. \A f \in l.guids : f \in Entity \ {e}
      BY <2>1, <3>1 DEF PoolType
    <3> QED
      BY <1>3, <3>1, <3>2
  <2> QED
    BY <2>1 DEF FlushInv
<1> QED
  BY <1>1, <1>4, <1>5, <1>6, <1>7, <1>9, <1>10, <1>11
     DEF IInv, PoolOK, EntitiesInv, KeepsInv

(* A change of an entity waits for the next update.                        *)
LEMMA UpdateStep ==
  ASSUME IInv, NEW e \in Entity, Update(e)
  PROVE  IInv'
<1>1. PICK version \in {content[e], content[e] + 1} \cap 0 .. MaxVersion[e] :
        /\ content' = [content EXCEPT ![e] = version]
        /\ pool' = UpdateToDb([pool EXCEPT !.entity_map[e].version = version],
                              e, "update")
  BY DEF Update
<1>2. /\ pool \in PoolType /\ EntityInv(pool, e) /\ Gettable(pool, e)
      /\ made \subseteq New /\ content \in [Entity -> Version \cup {NoVersion}]
      /\ UNCHANGED <<inputVars, playerVars, cacheVars, made>>
  BY DEF IInv, PoolOK, PoolInv, EntitiesInv, EnvTypeOK, Update
<1>3. version \in Version
  BY DEF Version
<1> DEFINE i == [pool.entity_map[e] EXCEPT !.version = version]
           em == [pool.entity_map EXCEPT ![e] = i]
           op == IF pool.db_entity_map[e] # "add" THEN "update" ELSE "add"
           db == [pool.db_entity_map EXCEPT ![e] = op]
<1>4. pool' = [pool EXCEPT !.entity_map = em, !.db_entity_map = db]
  BY <1>1, <1>2 DEF UpdateToDb, PoolType
<1>5. /\ i \in EntityInfo /\ i.version = version /\ ~i.is_flushing
      /\ ~i.is_remove_from_memory
  <2>1. /\ pool.entity_map[e] \in EntityInfo /\ ~pool.entity_map[e].is_flushing
        /\ ~pool.entity_map[e].is_remove_from_memory
    BY <1>2 DEF Gettable, PoolType, EntityInv
  <2> QED
    BY <1>3, <2>1 DEF EntityInfo
<1> HIDE DEF i
<1>6. /\ em \in [Entity -> EntityInfo \cup {NoEntity}] /\ em[e] = i
      /\ \A f \in Entity \ {e} : em[f] = pool.entity_map[f]
      /\ db \in [Entity -> Op] /\ db[e] = op
      /\ \A f \in Entity \ {e} : db[f] = pool.db_entity_map[f]
  BY <1>2, <1>5 DEF PoolType, Op
<1> HIDE DEF em, db
<1>7. /\ pool' \in PoolType
      /\ pool'.entity_map = em /\ pool'.db_entity_map = db
      /\ pool'.guid_vec = pool.guid_vec /\ pool'.output = pool.output
      /\ pool'.request_info_vec = pool.request_info_vec
  BY <1>2, <1>4, <1>6 DEF PoolType
<1>8. Gettable(pool', e)
  BY <1>5, <1>6, <1>7, NoEntityAssumption DEF Gettable
<1>9. /\ content'[e] = version /\ \A f \in Entity \ {e} : content'[f] = content[f]
      /\ content' \in [Entity -> Version \cup {NoVersion}]
  BY <1>1, <1>2, <1>3
<1>10. /\ stored' = stored /\ client' = client /\ made' = made
  BY <1>2 DEF cacheVars
<1>11. EntityInv(pool, e)'
  <2>1. pool'.entity_map[e] = i /\ pool'.db_entity_map[e] = op
        /\ pool'.output[e] = pool.output[e]
    BY <1>6, <1>7
  <2>2. e \notin New \ made
    BY <1>2 DEF EntityInv, Gettable
  <2> QED
    BY <1>2, <1>5, <1>8, <1>9, <1>10, <2>1, <2>2 DEF EntityInv
<1>12. KeptInv(pool, e)'
  <2>1. pool'.db_entity_map[e] \in {"add", "update"}
    BY <1>6, <1>7
  <2> QED
    BY <1>8, <2>1 DEF KeptInv, Gettable
<1>13. UNCHANGED <<input, input_line, player_state, need_flush, stored, client>>
  BY <1>2 DEF inputVars, playerVars, cacheVars
<1> QED
  BY <1>2, <1>6, <1>7, <1>9, <1>10, <1>11, <1>12, <1>13, OneEntity

(* A part that was never sent is forgotten, any other waits as REMOVE.     *)
LEMMA RemovePartStep ==
  ASSUME IInv, NEW e \in Entity, RemovePart(e)
  PROVE  IInv'
<1>1. /\ pool' = RemoveFromDb(pool, e) /\ Kind[e] = "part"
      /\ content' = [content EXCEPT ![e] = NoVersion]
      /\ Gettable(pool, e) /\ Owned(pool, e)
      /\ UNCHANGED <<inputVars, playerVars, cacheVars, made>>
  BY DEF RemovePart
<1>2. /\ pool \in PoolType /\ EntityInv(pool, e)
      /\ made \subseteq New /\ content \in [Entity -> Version \cup {NoVersion}]
  BY DEF IInv, PoolOK, PoolInv, EntitiesInv, EnvTypeOK
<1>3. e \in Kept => KeptInv(pool, e)
  BY DEF IInv, PoolOK, KeepsInv
<1>4. pool.output \in [Entity -> Seq(Requests)] /\ FitInv(pool.output[e], client[e])
  BY <1>2 DEF PoolType, Requests, IInv, PoolOK, FitsInv
<1> DEFINE em == [pool.entity_map EXCEPT ![e] = NoEntity]
           op == IF pool.db_entity_map[e] # "add" THEN "remove" ELSE "none"
           db == [pool.db_entity_map EXCEPT ![e] = op]
<1>5. pool' = [pool EXCEPT !.entity_map = em, !.db_entity_map = db]
  BY <1>1, <1>2 DEF RemoveFromDb, UpdateToDb, PoolType
<1>6. /\ em \in [Entity -> EntityInfo \cup {NoEntity}] /\ em[e] = NoEntity
      /\ \A f \in Entity \ {e} : em[f] = pool.entity_map[f]
      /\ db \in [Entity -> Op] /\ db[e] = op
      /\ \A f \in Entity \ {e} : db[f] = pool.db_entity_map[f]
  BY <1>2 DEF PoolType, Op
<1> HIDE DEF em, db
<1>7. /\ pool' \in PoolType
      /\ pool'.entity_map = em /\ pool'.db_entity_map = db
      /\ pool'.guid_vec = pool.guid_vec /\ pool'.output = pool.output
      /\ pool'.request_info_vec = pool.request_info_vec
  BY <1>2, <1>5, <1>6 DEF PoolType
<1>8. pool'.entity_map[e] = NoEntity /\ pool'.db_entity_map[e] = op
      /\ pool'.output[e] = pool.output[e] /\ ~Gettable(pool', e)
  BY <1>6, <1>7 DEF Gettable
<1>9. /\ content'[e] = NoVersion /\ \A f \in Entity \ {e} : content'[f] = content[f]
      /\ content' \in [Entity -> Version \cup {NoVersion}]
  BY <1>1, <1>2
<1>10. /\ stored' = stored /\ client' = client /\ made' = made
  BY <1>1 DEF cacheVars
<1>11. EntityInv(pool, e)'
  <2>1. e \notin New \ made
    BY <1>1, <1>2 DEF EntityInv, Gettable
  <2> QED
    BY <1>1, <1>2, <1>8, <1>9, <1>10, <2>1 DEF EntityInv
<1>12. KeptInv(pool, e)'
  <2>1. CASE op = "remove"
    BY <1>8, <1>9, <2>1 DEF KeptInv
  <2>2. CASE op # "remove"
    <3>1. pool.output[e] = <<>> /\ client[e] = "none"
      BY <1>2, <2>2 DEF EntityInv, Known
    <3>2. stored[e] = NoVersion
      BY <1>2, <3>1 DEF EntityInv
    <3> QED
      BY <1>8, <1>9, <1>10, <3>1, <3>2 DEF KeptInv, Stored
  <2> QED
    BY <2>1, <2>2
<1>13. UNCHANGED <<input, input_line, player_state, need_flush, stored, client>>
  BY <1>1 DEF inputVars, playerVars, cacheVars
<1> QED
  BY <1>1, <1>2, <1>6, <1>7, <1>9, <1>10, <1>11, <1>12, <1>13, OneEntity

(* A new part waits for the next update. *)
LEMMA AddPartStep ==
  ASSUME IInv, NEW e \in Entity, Add(e), Kind[e] # "coin"
  PROVE  IInv'
<1> DEFINE i == [version |-> 0, is_flushing |-> FALSE,
                 is_remove_from_memory |-> FALSE]
           em == [pool.entity_map EXCEPT ![e] = i]
           db == [pool.db_entity_map EXCEPT ![e] = "add"]
<1>1. /\ pool \in PoolType /\ EntityInv(pool, e) /\ e \in New \ made
      /\ made \subseteq New /\ content \in [Entity -> Version \cup {NoVersion}]
      /\ UNCHANGED <<input, input_line, player_state, need_flush, stored, client>>
      /\ content' = [content EXCEPT ![e] = 0] /\ made' = made \cup {e}
      /\ Gettable(pool, PlayerOf(Owner[e]))
  BY DEF IInv, PoolOK, PoolInv, EntitiesInv, EnvTypeOK, Add, inputVars,
         playerVars, cacheVars
<1>2. /\ pool.entity_map[e] = NoEntity /\ pool.db_entity_map[e] = "none"
      /\ ~Known(pool.output[e], client[e])
  BY <1>1 DEF EntityInv
<1>3. 0 \in Version
  BY BoundsAssumption DEF Version
<1>4. pool' = UpdateToDb([pool EXCEPT !.entity_map[e] = i], e, "add")
  BY DEF Add
<1>5. /\ i \in EntityInfo /\ i.version = 0 /\ ~i.is_flushing
      /\ ~i.is_remove_from_memory
  BY <1>3 DEF EntityInfo
<1> HIDE DEF i
<1>6. pool' = [pool EXCEPT !.entity_map = em, !.db_entity_map = db]
  BY <1>1, <1>2, <1>4 DEF UpdateToDb, PoolType
<1>7. /\ em \in [Entity -> EntityInfo \cup {NoEntity}] /\ em[e] = i
      /\ \A f \in Entity \ {e} : em[f] = pool.entity_map[f]
      /\ db \in [Entity -> Op] /\ db[e] = "add"
      /\ \A f \in Entity \ {e} : db[f] = pool.db_entity_map[f]
  BY <1>1, <1>5 DEF PoolType, Op
<1> HIDE DEF em, db
<1>8. /\ pool' \in PoolType
      /\ pool'.entity_map = em /\ pool'.db_entity_map = db
      /\ pool'.guid_vec = pool.guid_vec /\ pool'.output = pool.output
      /\ pool'.request_info_vec = pool.request_info_vec
  BY <1>1, <1>6, <1>7 DEF PoolType
<1>9. Gettable(pool', e)
  BY <1>5, <1>7, <1>8, NoEntityAssumption DEF Gettable
<1>10. /\ content'[e] = 0 /\ \A f \in Entity \ {e} : content'[f] = content[f]
       /\ content' \in [Entity -> Version \cup {NoVersion}]
       /\ made' \subseteq New /\ New \ made' \subseteq New \ made
       /\ e \in made'
  BY <1>1, <1>3
<1>11. Kind[e] = "part"
  <2>1. Kind[e] # "player"
    BY <1>1, <1>2, PlayerOfFacts DEF Gettable
  <2> QED
    BY <2>1, KindAssumption
<1>12. EntityInv(pool, e)'
  <2>1. /\ pool'.entity_map[e] = i /\ pool'.db_entity_map[e] = "add"
        /\ pool'.output[e] = pool.output[e]
    BY <1>7, <1>8
  <2>2. ~Closed(pool.output[e], client[e])
    BY <1>2 DEF Known, Closed
  <2>3. stored' = stored /\ client' = client
    BY <1>1
  <2> QED
    BY <1>1, <1>2, <1>5, <1>9, <1>10, <1>11, <2>1, <2>2, <2>3 DEF EntityInv
<1>13. KeptInv(pool, e)'
  <2>1. pool'.db_entity_map[e] = "add"
    BY <1>7, <1>8
  <2> QED
    BY <1>9, <2>1 DEF KeptInv, Gettable
<1> QED
  BY <1>1, <1>7, <1>8, <1>10, <1>12, <1>13, OneEntity

(* A new coin is sent at once. *)
LEMMA AddCoinStep ==
  ASSUME IInv, NEW e \in Entity, Add(e), Kind[e] = "coin"
  PROVE  IInv'
<1> DEFINE i == [version |-> 0, is_flushing |-> FALSE,
                 is_remove_from_memory |-> FALSE]
           em == [pool.entity_map EXCEPT ![e] = i]
           added == [pool EXCEPT !.entity_map[e] = i]
           types == [f \in {e} |-> "add"]
           ids == RequestIds(added, {Owner[e]})
           t == pool'
<1>1. /\ pool \in PoolType /\ EntityInv(pool, e) /\ e \in New \ made
      /\ made \subseteq New /\ content \in [Entity -> Version \cup {NoVersion}]
      /\ UNCHANGED <<input, input_line, player_state, need_flush, stored, client>>
      /\ content' = [content EXCEPT ![e] = 0] /\ made' = made \cup {e}
      /\ PoolOK(pool) /\ IsFiniteSet(UsedIds(pool))
  BY DEF IInv, PoolOK, PoolInv, EntitiesInv, EnvTypeOK, Add, inputVars,
         playerVars, cacheVars
<1>2. /\ pool.entity_map[e] = NoEntity /\ pool.db_entity_map[e] = "none"
      /\ ~Known(pool.output[e], client[e])
  BY <1>1 DEF EntityInv
<1>3. 0 \in Version
  BY BoundsAssumption DEF Version
<1>4. t = CacheOutput(added, types, ids)
  BY DEF Add
<1>5. /\ i \in EntityInfo /\ i.version = 0 /\ ~i.is_flushing
      /\ ~i.is_remove_from_memory
  BY <1>3 DEF EntityInfo
<1> HIDE DEF i
<1>6. /\ em \in [Entity -> EntityInfo \cup {NoEntity}] /\ em[e] = i
      /\ \A f \in Entity \ {e} : em[f] = pool.entity_map[f]
  BY <1>1, <1>5 DEF PoolType
<1>7. added = [pool EXCEPT !.entity_map = em]
  BY <1>1 DEF PoolType
<1> HIDE DEF em, added
<1>8. /\ added \in PoolType /\ added.entity_map = em
      /\ added.db_entity_map = pool.db_entity_map
      /\ added.request_info_vec = pool.request_info_vec
      /\ added.guid_vec = pool.guid_vec /\ added.output = pool.output
  BY <1>1, <1>6, <1>7 DEF PoolType
<1>9. UsedIds(added) = UsedIds(pool)
  BY <1>8 DEF UsedIds
<1>10. Owner[e] \in Player /\ DOMAIN types = {e} /\ types[e] = "add"
       /\ Owners(DOMAIN types) = {Owner[e]}
  BY OwnerAssumption DEF Owners
<1> HIDE DEF types
<1>11. FreshIds(pool, types, ids)
  <2> DEFINE owners == {Owner[e]}
  <2>1. IsFiniteSet(owners)
    BY FS_Singleton
  <2>2. ids = RequestIds(added, owners) /\ Owners(DOMAIN types) = owners
    BY <1>10
  <2> HIDE DEF ids, owners
  <2>3. IsFiniteSet(UsedIds(added))
    BY <1>1, <1>9
  <2>4. /\ RequestIds(added, owners) \in [owners -> Id]
        /\ \A o \in owners : RequestIds(added, owners)[o] \notin UsedIds(added)
        /\ \A o, p \in owners :
             RequestIds(added, owners)[o] = RequestIds(added, owners)[p] => o = p
        /\ \A x \in [owners -> Id] : IsFiniteSet({x[o] : o \in owners})
    BY <2>1, <2>3, RequestIdsFresh
  <2>5. /\ ids \in [owners -> Id]
        /\ \A o \in owners : ids[o] \notin UsedIds(pool)
        /\ \A o, p \in owners : ids[o] = ids[p] => o = p
        /\ IsFiniteSet({ids[o] : o \in owners})
    BY <1>9, <2>2, <2>4
  <2> QED
    BY <2>2, <2>5 DEF FreshIds
<1> HIDE DEF ids
<1>12. em[e] # NoEntity
  BY <1>5, <1>6, NoEntityAssumption
<1>13. Serialisable(added, types)
  BY <1>8, <1>10, <1>12 DEF Serialisable, RequestType
<1>14. /\ t \in PoolType
       /\ Sends(added, t, types, ids, {})
       /\ t.entity_map = em /\ t.db_entity_map = pool.db_entity_map
       /\ t.request_info_vec = pool.request_info_vec
  <2>1. \A f \in DOMAIN types : ids[Owner[f]] \in Id
    BY <1>10, <1>11 DEF FreshIds
  <2> QED
    BY <1>4, <1>8, <1>13, <2>1, CacheOutputSends
<1>15. Sends(pool, t, types, ids, {})
  BY <1>8, <1>14 DEF Sends
<1>16. Serialisable(t, types)
  BY <1>10, <1>12, <1>14 DEF Serialisable, RequestType
<1>17. FitToSend(pool, types)
  BY <1>2, <1>10 DEF FitToSend, Adds, Known, Closed
<1>18. /\ PoolInv(t) /\ LinesInv(t) /\ FitsInv(t) /\ IdInv(t) /\ CountInv(t)
       /\ Known(t.output[e], client[e])
       /\ Closed(t.output[e], client[e]) => types[e] \in Releases
  <2>1. input \in [Entity -> Seq(Answer)]
    BY DEF IInv, EnvTypeOK
  <2>2. {} \in SUBSET Lists("update", types, ids)
    OBVIOUS
  <2> QED
    BY <1>1, <1>10, <1>11, <1>14, <1>15, <1>16, <1>17, <2>1, <2>2, SendsQueues
<1>19. ~Closed(t.output[e], client[e])
  BY <1>10, <1>18 DEF Releases
<1>20. \A f \in Entity \ {e} :
         /\ t.output[f] = pool.output[f] /\ t.guid_vec[f] = pool.guid_vec[f]
         /\ t.entity_map[f] = pool.entity_map[f]
         /\ Gettable(t, f) <=> Gettable(pool, f)
         /\ content'[f] = content[f]
         /\ f \in New \ made' <=> f \in New \ made
  BY <1>1, <1>6, <1>10, <1>14, <1>15 DEF Sends, Gettable
<1>21. /\ content'[e] = 0 /\ content' \in [Entity -> Version \cup {NoVersion}]
       /\ made' \subseteq New /\ e \notin New \ made'
  BY <1>1, <1>3
<1>22. /\ input' = input /\ input_line' = input_line /\ stored' = stored
       /\ client' = client /\ player_state' = player_state
       /\ need_flush' = need_flush
  BY <1>1
<1>23. EnvTypeOK'
  BY <1>21, <1>22 DEF IInv, EnvTypeOK
<1>24. ASSUME NEW f \in Entity PROVE EntityInv(pool, f)'
  <2>1. EntityInv(pool, f)
    BY <1>1 DEF PoolOK, EntitiesInv
  <2>2. CASE f = e
    <3>1. t.entity_map[e] = i /\ t.db_entity_map[e] = "none"
      BY <1>2, <1>6, <1>14
    <3> QED
      BY <1>1, <1>5, <1>18, <1>19, <1>21, <1>22, <2>2, <3>1 DEF EntityInv
  <2>3. CASE f # e
    BY <1>14, <1>20, <1>22, <2>1, <2>3 DEF EntityInv
  <2> QED
    BY <2>2, <2>3
<1>25. ASSUME NEW f \in Kept PROVE KeptInv(pool, f)'
  <2>1. KeptInv(pool, f) /\ f \in Entity \ {e}
    BY <1>1 DEF PoolOK, KeepsInv, Kept
  <2> QED
    BY <1>14, <1>20, <1>22, <2>1 DEF KeptInv
<1>26. FlushInv(pool)'
  <2>1. ASSUME NEW l \in t.request_info_vec, l.kind = "flush"
        PROVE  /\ PlayerOf(l.owner) \in l.guids
               /\ \A f \in l.guids :
                    /\ t.db_entity_map[f] = "none" /\ ~Gettable(t, f)
                    /\ f \notin New \ made'
                    /\ \/ t.guid_vec[f] = <<>>
                       \/ t.guid_vec[f][Len(t.guid_vec[f])] = l.id
    <3>1. /\ PlayerOf(l.owner) \in l.guids
          /\ \A f \in l.guids :
               /\ pool.db_entity_map[f] = "none" /\ ~Gettable(pool, f)
               /\ f \notin New \ made
               /\ \/ pool.guid_vec[f] = <<>>
                  \/ pool.guid_vec[f][Len(pool.guid_vec[f])] = l.id
      BY <1>1, <1>14, <2>1 DEF PoolOK, FlushInv
    <3>2. \A f \in l.guids : f \in Entity \ {e}
      BY <1>1, <1>14, <2>1, <3>1 DEF PoolType
    <3> QED
      BY <1>14, <1>20, <3>1, <3>2
  <2> QED
    BY <2>1 DEF FlushInv
<1>27. LinesInv(pool)' /\ FitsInv(pool)'
  BY <1>18, <1>22 DEF LinesInv, FitsInv
<1> QED
  BY <1>18, <1>23, <1>24, <1>25, <1>26, <1>27
     DEF IInv, PoolOK, EntitiesInv, KeepsInv

(* A handler that only changes the pool. *)
LEMMA EnvSame ==
  ASSUME PoolOK(pool'),
         UNCHANGED <<input, stored, client, made, content>>
  PROVE  PoolOK(pool)'
<1>1. /\ input' = input /\ stored' = stored /\ client' = client
      /\ made' = made /\ content' = content
  OBVIOUS
<1>2. LinesInv(pool)' /\ FitsInv(pool)'
  BY <1>1 DEF PoolOK, LinesInv, FitsInv
<1>3. EntitiesInv(pool)'
  BY <1>1 DEF PoolOK, EntitiesInv, EntityInv
<1>4. KeepsInv(pool)'
  BY <1>1 DEF PoolOK, KeepsInv, KeptInv
<1>5. FlushInv(pool)'
  BY <1>1 DEF PoolOK, FlushInv
<1> QED
  BY <1>2, <1>3, <1>4, <1>5 DEF PoolOK

(* A player that leaves waits for its flush.                               *)
LEMMA LeaveMapStep ==
  ASSUME IInv, NEW o \in Player, LeaveMap(o)
  PROVE  IInv'
<1>1. /\ pool' = pool /\ input' = input /\ input_line' = input_line
      /\ stored' = stored /\ client' = client /\ made' = made
      /\ content' = content
      /\ player_state' = [player_state EXCEPT ![o] = "leaving"]
      /\ need_flush' = need_flush \cup {o}
  BY DEF LeaveMap, inputVars, cacheVars
<1>2. EnvTypeOK'
  BY <1>1 DEF IInv, EnvTypeOK, PlayerState
<1>3. PoolOK(pool')
  BY <1>1 DEF IInv
<1> QED
  BY <1>1, <1>2, <1>3, EnvSame DEF IInv

(* The coins leave the pool at once: none of them waits to be added.       *)
LEMMA JumpMapStep ==
  ASSUME IInv, NEW o \in Player, JumpMap(o)
  PROVE  IInv'
<1> DEFINE em == [e \in Entity |->
                    IF e \notin Coins(o) \/ ~Owned(pool, e)
                    THEN pool.entity_map[e]
                    ELSE IF IsUpdating(pool, e)
                    THEN [pool.entity_map[e] EXCEPT
                            !.is_remove_from_memory = TRUE]
                    ELSE NoEntity]
           t == pool'
<1>1. /\ input' = input /\ input_line' = input_line
      /\ stored' = stored /\ client' = client /\ made' = made
      /\ content' = content
      /\ player_state' = [player_state EXCEPT ![o] = "jumping"]
      /\ need_flush' = need_flush \cup {o}
  BY DEF JumpMap, inputVars, cacheVars
<1>2. EnvTypeOK'
  BY <1>1 DEF IInv, EnvTypeOK, PlayerState
<1>3. t = [pool EXCEPT !.entity_map = em]
  BY DEF JumpMap, RemoveFromMemory
<1>4. PoolOK(pool) /\ pool \in PoolType
  BY DEF IInv, PoolOK, PoolInv
<1>5. ASSUME NEW e \in Entity
      PROVE  em[e] = IF e \in Coins(o) THEN NoEntity ELSE pool.entity_map[e]
  <2>1. EntityInv(pool, e)
    BY <1>4 DEF PoolOK, EntitiesInv
  <2>2. CASE e \in Coins(o)
    <3>1. Gettable(pool, e) /\ Kind[e] = "coin"
      BY <2>2 DEF JumpMap, Coins
    <3>2. Owned(pool, e) /\ ~IsUpdating(pool, e)
      BY <2>1, <3>1 DEF EntityInv, Gettable, Owned, IsUpdating
    <3> QED
      BY <2>2, <3>2
  <2>3. CASE e \notin Coins(o)
    BY <2>3
  <2> QED
    BY <2>2, <2>3
<1>6. em \in [Entity -> EntityInfo \cup {NoEntity}]
  <2>1. \A e \in Entity : em[e] \in EntityInfo \cup {NoEntity}
    BY <1>4, <1>5 DEF PoolType
  <2> QED
    BY <2>1
<1> HIDE DEF em
<1>7. /\ t \in PoolType /\ t.entity_map = em
      /\ t.db_entity_map = pool.db_entity_map
      /\ t.request_info_vec = pool.request_info_vec
      /\ t.guid_vec = pool.guid_vec /\ t.output = pool.output
  BY <1>3, <1>4, <1>6 DEF PoolType
<1>8. PoolInv(t)
  <2>1. UsedIds(t) = UsedIds(pool)
    BY <1>7 DEF UsedIds
  <2> QED
    BY <1>4, <1>7, <2>1 DEF PoolOK, PoolInv, ListsOK
<1>9. LinesInv(t) /\ FitsInv(t)
  BY <1>4, <1>7 DEF PoolOK, LinesInv, FitsInv
<1>10. \A e \in Entity :
         /\ e \in Coins(o) => t.entity_map[e] = NoEntity /\ ~Gettable(t, e)
         /\ e \notin Coins(o) =>
              /\ t.entity_map[e] = pool.entity_map[e]
              /\ Gettable(t, e) <=> Gettable(pool, e)
  BY <1>5, <1>7 DEF Gettable
<1>11. ASSUME NEW e \in Entity PROVE EntityInv(t, e)
  <2>1. EntityInv(pool, e)
    BY <1>4 DEF PoolOK, EntitiesInv
  <2>2. CASE e \in Coins(o)
    <3>1. Kind[e] = "coin"
      BY <2>2 DEF Coins
    <3> QED
      BY <1>7, <1>10, <2>1, <2>2, <3>1 DEF EntityInv
  <2>3. CASE e \notin Coins(o)
    BY <1>7, <1>10, <2>1, <2>3 DEF EntityInv
  <2> QED
    BY <2>2, <2>3
<1>12. ASSUME NEW e \in Kept PROVE KeptInv(t, e)
  <2>1. KeptInv(pool, e) /\ e \in Entity /\ e \notin Coins(o)
    BY <1>4 DEF PoolOK, KeepsInv, Kept, Coins
  <2> QED
    BY <1>7, <1>10, <2>1 DEF KeptInv
<1>13. \A f, id : Listed(t, f, id) <=> Listed(pool, f, id)
  BY <1>7 DEF Listed
<1>14. IdInv(t)
  BY <1>4, <1>7, <1>13 DEF PoolOK, IdInv
<1>15. CountInv(t)
  <2>1. \A l : Pending(t, l) = Pending(pool, l)
    BY <1>13 DEF Pending
  <2> QED
    BY <1>4, <1>7, <2>1 DEF PoolOK, CountInv
<1>16. FlushInv(t)
  <2>1. \A l \in t.request_info_vec : l.guids \in SUBSET Entity
    BY <1>7 DEF PoolType
  <2>2. \A e \in Entity : Gettable(t, e) => Gettable(pool, e)
    BY <1>10
  <2> QED
    BY <1>4, <1>7, <2>1, <2>2 DEF PoolOK, FlushInv
<1>17. PoolOK(t)
  BY <1>8, <1>9, <1>11, <1>12, <1>14, <1>15, <1>16
     DEF PoolOK, EntitiesInv, KeepsInv
<1> QED
  BY <1>1, <1>2, <1>17, EnvSame DEF IInv

(* The timer flushes players and then updates, or waits.                   *)
LEMMA UpdatePoolTimerStep ==
  ASSUME IInv, UpdatePoolTimer
  PROVE  IInv'
<1>1. /\ input' = input /\ input_line' = input_line
      /\ stored' = stored /\ client' = client /\ made' = made
      /\ content' = content /\ player_state' = player_state
      /\ need_flush' = need_flush \ ToFlush(pool)
  BY DEF UpdatePoolTimer, inputVars, cacheVars
<1>2. EnvTypeOK'
  BY <1>1 DEF IInv, EnvTypeOK
<1>3. pool' \in UpdatePool(RequestFlushPlayer(pool, ToFlush(pool)))
  BY DEF UpdatePoolTimer
<1>4. ToFlush(pool) \in SUBSET Player
  BY DEF IInv, EnvTypeOK, ToFlush
<1>5. PoolOK(RequestFlushPlayer(pool, ToFlush(pool)))
  BY <1>4, RequestFlushPlayerOK DEF IInv
<1>6. PoolOK(pool')
  BY <1>3, <1>5, UpdatePoolOK DEF IInv
<1> QED
  BY <1>1, <1>2, <1>6, EnvSame DEF IInv

(* A guid that an answer bears is listed: the answer has its entry.        *)
LEMMA CacheInputStep ==
  ASSUME IInv, NEW o \in Player, CacheInput(o)
  PROVE  IInv'
<1> DEFINE e == Head(input_line[o])
           a == Head(input[e])
<1>1. /\ PoolOK(pool) /\ pool \in PoolType /\ EnvTypeOK
      /\ input \in [Entity -> Seq(Answer)] /\ input_line \in [Player -> Seq(Entity)]
  BY DEF IInv, PoolOK, PoolInv, EnvTypeOK
<1>2. /\ e \in Entity /\ Tail(input_line[o]) \in Seq(Entity)
  <2>1. input_line[o] \in Seq(Entity) /\ input_line[o] # <<>>
    BY <1>1 DEF CacheInput
  <2> QED
    BY <2>1, TailFacts
<1>3. /\ input[e] # <<>>
      /\ pool' = IF pool.guid_vec[e] = <<>> THEN pool
                 ELSE HandlePacket(GetMapID(pool, e),
                                   Head(pool.guid_vec[e]), e, a.success)
      /\ input' = [input EXCEPT ![e] = Tail(@)]
      /\ input_line' = [input_line EXCEPT ![o] = Tail(@)]
      /\ need_flush' = need_flush /\ stored' = stored /\ client' = client
      /\ made' = made /\ content' = content
  BY DEF CacheInput, cacheVars
<1>4. player_state' \in [Player -> PlayerState]
  <2>1. \A p \in Player : player_state[p] \in PlayerState /\ "gone" \in PlayerState
    BY DEF IInv, EnvTypeOK, PlayerState
  <2> QED
    BY <2>1 DEF CacheInput
<1> HIDE DEF e
<1>5. /\ Tail(input[e]) \in Seq(Answer) /\ a \in Answer
  BY <1>1, <1>2, <1>3, TailFacts
<1>6. EnvTypeOK'
  <2>1. /\ input' \in [Entity -> Seq(Answer)]
        /\ input_line' \in [Player -> Seq(Entity)]
    BY <1>1, <1>2, <1>3, <1>5 DEF e
  <2> QED
    BY <1>1, <1>3, <1>4, <2>1 DEF EnvTypeOK
<1>7. \A f \in Entity :
        /\ pool.guid_vec[f] \in Seq(Id) /\ pool.output[f] \in Seq(Requests)
        /\ input[f] \in Seq(Answer)
        /\ LineInv(pool.guid_vec[f], input[f], pool.output[f])
  BY <1>1 DEF PoolType, Requests, PoolOK, LinesInv
<1>8. /\ pool.guid_vec[e] # <<>>
      /\ LineInv(Tail(pool.guid_vec[e]), Tail(input[e]), pool.output[e])
  BY <1>2, <1>3, <1>7, LineAnswer
<1>9. a.success \in BOOLEAN
  BY <1>5 DEF Answer
<1>10. /\ pool' \in PoolType /\ AllButLines(pool')
       /\ pool'.guid_vec = [pool.guid_vec EXCEPT ![e] = Tail(@)]
       /\ pool'.output = pool.output
  <2>1. pool' = HandlePacket(GetMapID(pool, e), Head(pool.guid_vec[e]), e, a.success)
    BY <1>3, <1>8
  <2> DEFINE success == a.success
  <2>2. /\ success \in BOOLEAN /\ input[e] # <<>> /\ pool.guid_vec[e] # <<>>
        /\ pool' = HandlePacket(GetMapID(pool, e), Head(pool.guid_vec[e]), e,
                                success)
    BY <1>3, <1>8, <1>9, <2>1
  <2> HIDE DEF success, a
  <2>3. LET u == HandlePacket(GetMapID(pool, e), Head(pool.guid_vec[e]), e,
                              success)
        IN  /\ u \in PoolType /\ AllButLines(u)
            /\ u.guid_vec = [pool.guid_vec EXCEPT ![e] = Tail(@)]
            /\ u.output = pool.output
    BY <1>1, <1>2, <2>2, AnswerOK, Zenon
  <2> QED
    BY <2>2, <2>3
<1>11. LinesInv(pool)'
  <2>1. ASSUME NEW f \in Entity
        PROVE  LineInv(pool'.guid_vec[f], input'[f], pool'.output[f])
    <3>1. CASE f = e
      <4>1. /\ pool'.guid_vec[f] = Tail(pool.guid_vec[e])
            /\ input'[f] = Tail(input[e]) /\ pool'.output[f] = pool.output[e]
        BY <1>1, <1>3, <1>10, <3>1 DEF PoolType
      <4> QED
        BY <1>8, <4>1
    <3>2. CASE f # e
      <4>1. /\ pool'.guid_vec[f] = pool.guid_vec[f]
            /\ input'[f] = input[f] /\ pool'.output[f] = pool.output[f]
        BY <1>1, <1>3, <1>10, <3>2 DEF PoolType
      <4> QED
        BY <1>7, <4>1
    <3> QED
      BY <3>1, <3>2
  <2> QED
    BY <2>1 DEF LinesInv
<1>12. PoolInv(pool') /\ IdInv(pool') /\ CountInv(pool')
  BY <1>10 DEF AllButLines
<1>13. FitsInv(pool)'
  BY <1>3, <1>10 DEF AllButLines, FitsInv
<1>14. EntitiesInv(pool)'
  BY <1>3, <1>10 DEF AllButLines, EntitiesInv, EntityInv
<1>15. KeepsInv(pool)'
  BY <1>3, <1>10 DEF AllButLines, KeepsInv, KeptInv
<1>16. FlushInv(pool)'
  BY <1>3, <1>10 DEF AllButLines, FlushInv
<1> QED
  BY <1>6, <1>11, <1>12, <1>13, <1>14, <1>15, <1>16 DEF IInv, PoolOK

(* cachesys answers the first request of an entity, and it always finds    *)
(* the entity.                                                             *)
LEMMA HandleRequestStep ==
  ASSUME IInv, NEW o \in Player, HandleRequest(o)
  PROVE  IInv'
<1> DEFINE e == Head(pool.output_line[o])
           q == pool.output[e]
           r == Head(q)
           c == client[e]
           x == [success |-> TRUE, id |-> r.id]
           d == NextClient(r.type, c)
           out == [pool.output EXCEPT ![e] = Tail(q)]
           line == [pool.output_line EXCEPT ![o] = Tail(@)]
           t == pool'
<1>1. /\ PoolOK(pool) /\ pool \in PoolType /\ EnvTypeOK
      /\ input \in [Entity -> Seq(Answer)] /\ input_line \in [Player -> Seq(Entity)]
      /\ pool.output \in [Entity -> Seq(Requests)]
      /\ client \in [Entity -> {"none", "held", "free", "removed"}]
      /\ stored \in [Entity -> Version \cup {NoVersion}]
  BY DEF IInv, PoolOK, PoolInv, EnvTypeOK, PoolType, Requests
<1>2. e \in Entity /\ Tail(pool.output_line[o]) \in Seq(Entity)
  <2>1. pool.output_line[o] \in Seq(Entity) /\ pool.output_line[o] # <<>>
    BY <1>1 DEF HandleRequest, PoolType
  <2> QED
    BY <2>1, TailFacts
<1>3. q # <<>> /\ q \in Seq(Requests) /\ c \in {"none", "held", "free", "removed"}
  BY <1>1, <1>2 DEF HandleRequest
<1>4. /\ Tail(q) \in Seq(Requests) /\ Len(q) \in Nat \ {0}
      /\ r = q[1] /\ r \in Requests /\ Len(Tail(q)) = Len(q) - 1
      /\ \A k \in 1 .. Len(q) - 1 : Tail(q)[k] = q[k + 1]
      /\ Tail(q) = <<>> <=> Len(q) = 1
  BY <1>3, TailFacts
<1>5. /\ FitInv(q, c) /\ LineInv(pool.guid_vec[e], input[e], q)
  BY <1>1, <1>2 DEF PoolOK, FitsInv, LinesInv
<1>6. /\ FitInv(Tail(q), d) /\ Known(Tail(q), d) /\ d # "none"
      /\ d \in {"none", "held", "free", "removed"}
      /\ Closed(Tail(q), d) <=> Closed(q, c)
      /\ r.type \notin Adds => c = "held"
  BY <1>3, <1>5, FitHandle
<1>7. r.type = "flush" => c = "held"
  BY <1>6 DEF Adds
<1>8. /\ pool' = [pool EXCEPT !.output = out, !.output_line = line]
      /\ input' = [input EXCEPT ![e] = Append(@, x)]
      /\ input_line' = [input_line EXCEPT ![o] = Append(@, e)]
      /\ stored' = [stored EXCEPT ![e] = r.version]
      /\ client' = [client EXCEPT ![e] = d]
      /\ player_state' = player_state /\ need_flush' = need_flush
      /\ made' = made /\ content' = content
  <2>1. (r.type = "flush" => client[e] = "held") = TRUE
    BY <1>7
  <2>2. client' = [client EXCEPT ![e] =
                     CASE r.type = "add" -> "held"
                       [] r.type \in {"add_with_flush", "flush"} -> "free"
                       [] r.type = "remove" -> "removed"
                       [] OTHER -> @]
    BY DEF HandleRequest
  <2>3. client' = [client EXCEPT ![e] = d]
    BY <2>2 DEF NextClient
  <2>4. pool' = [pool EXCEPT !.output = out, !.output_line = line]
    BY <1>1, <1>2 DEF HandleRequest, PoolType
  <2>5. input' = [input EXCEPT ![e] = Append(@, x)]
    BY <2>1 DEF HandleRequest
  <2>6. /\ input_line' = [input_line EXCEPT ![o] = Append(@, e)]
        /\ stored' = [stored EXCEPT ![e] = r.version]
    BY <1>7 DEF HandleRequest
  <2>7. /\ player_state' = player_state /\ need_flush' = need_flush
        /\ made' = made /\ content' = content
    BY DEF HandleRequest, playerVars
  <2> QED
    BY <2>3, <2>4, <2>5, <2>6, <2>7
<1> HIDE DEF e, q, r, c, d
<1>9. /\ out \in [Entity -> Seq(Requests)] /\ out[e] = Tail(q)
      /\ \A f \in Entity \ {e} : out[f] = pool.output[f]
      /\ line \in [Player -> Seq(Entity)]
  <2>1. pool.output_line \in [Player -> Seq(Entity)]
    BY <1>1 DEF PoolType
  <2> QED
    BY <1>1, <1>2, <1>4, <2>1 DEF e
<1> HIDE DEF out, line
<1>10. /\ t \in PoolType /\ t.output = out
       /\ t.entity_map = pool.entity_map
       /\ t.db_entity_map = pool.db_entity_map
       /\ t.request_info_vec = pool.request_info_vec
       /\ t.guid_vec = pool.guid_vec
  BY <1>1, <1>8, <1>9 DEF PoolType, Requests
<1>11. /\ r.id \in Id /\ r.version \in Version \cup {NoVersion} /\ x \in Answer
       /\ x.id = r.id
  BY <1>4 DEF Requests, Answer
<1> HIDE DEF x
<1>12. /\ \A f \in Entity \ {e} :
            /\ t.output[f] = pool.output[f] /\ input'[f] = input[f]
            /\ stored'[f] = stored[f] /\ client'[f] = client[f]
       /\ t.output[e] = Tail(q) /\ input'[e] = Append(input[e], x)
       /\ stored'[e] = r.version /\ client'[e] = d
  BY <1>1, <1>2, <1>8, <1>9, <1>10
<1>13. EnvTypeOK'
  <2>1. Append(input[e], x) \in Seq(Answer)
    BY <1>1, <1>2, <1>11, AppendFacts
  <2>2. Append(input_line[o], e) \in Seq(Entity)
    BY <1>1, <1>2, AppendFacts
  <2>3. /\ input' \in [Entity -> Seq(Answer)]
        /\ input_line' \in [Player -> Seq(Entity)]
        /\ stored' \in [Entity -> Version \cup {NoVersion}]
        /\ client' \in [Entity -> {"none", "held", "free", "removed"}]
    BY <1>1, <1>2, <1>6, <1>8, <1>11, <2>1, <2>2
  <2> QED
    BY <1>1, <1>8, <2>3 DEF EnvTypeOK
<1>14. PoolInv(t)
  <2>1. UsedIds(t) = UsedIds(pool)
    BY <1>10 DEF UsedIds
  <2> QED
    BY <1>1, <1>10, <2>1 DEF PoolOK, PoolInv, ListsOK
<1>15. LinesInv(pool)'
  <2>1. ASSUME NEW f \in Entity
        PROVE  LineInv(t.guid_vec[f], input'[f], t.output[f])
    <3>1. CASE f = e
      <4>1. pool.guid_vec[e] \in Seq(Id) /\ input[e] \in Seq(Answer)
        BY <1>1, <1>2 DEF PoolType
      <4>2. LineInv(pool.guid_vec[e], Append(input[e], x), Tail(q))
        BY <1>3, <1>5, <1>11, <4>1, LineHandle DEF r
      <4> QED
        BY <1>10, <1>12, <3>1, <4>2
    <3>2. CASE f # e
      <4>1. LineInv(pool.guid_vec[f], input[f], pool.output[f])
        BY <1>1 DEF PoolOK, LinesInv
      <4> QED
        BY <1>10, <1>12, <3>2, <4>1
    <3> QED
      BY <3>1, <3>2
  <2> QED
    BY <2>1 DEF LinesInv
<1>16. FitsInv(pool)'
  <2>1. ASSUME NEW f \in Entity PROVE FitInv(t.output[f], client'[f])
    <3>1. CASE f = e
      BY <1>6, <1>12, <3>1
    <3>2. CASE f # e
      BY <1>1, <1>12, <3>2 DEF PoolOK, FitsInv
    <3> QED
      BY <3>1, <3>2
  <2> QED
    BY <2>1 DEF FitsInv
<1>17. \A f : Gettable(t, f) <=> Gettable(pool, f)
  BY <1>10 DEF Gettable
<1>18. ASSUME NEW f \in Entity PROVE EntityInv(pool, f)'
  <2>1. EntityInv(pool, f)
    BY <1>1 DEF PoolOK, EntitiesInv
  <2>2. CASE f = e
    <3>1. Known(q, c)
      BY <1>3 DEF Known
    <3>2. pool.output[e] = q /\ client[e] = c
      BY DEF q, c
    <3> QED
      BY <1>6, <1>8, <1>10, <1>12, <1>17, <2>1, <2>2, <3>1, <3>2 DEF EntityInv
  <2>3. CASE f # e
    BY <1>8, <1>10, <1>12, <1>17, <2>1, <2>3 DEF EntityInv
  <2> QED
    BY <2>2, <2>3
<1>19. ASSUME NEW f \in Kept PROVE KeptInv(pool, f)'
  <2>1. KeptInv(pool, f) /\ f \in Entity
    BY <1>1 DEF PoolOK, KeepsInv, Kept
  <2>2. CASE f = e
    <3>1. pool.output[e] = q
      BY DEF q
    <3>2. Stored(Tail(q), r.version) = Stored(q, stored[e])
      <4>1. CASE Tail(q) = <<>>
        BY <1>3, <1>4, <4>1 DEF Stored
      <4>2. CASE Tail(q) # <<>>
        <5> DEFINE n == Len(q)
        <5>1. n \in Nat \ {0} /\ n # 1
          BY <1>4, <4>2
        <5> HIDE DEF n
        <5>2. n - 1 \in 1 .. n - 1 /\ (n - 1) + 1 = n
          BY <5>1
        <5>3. Tail(q)[Len(Tail(q))] = q[Len(q)]
          BY <1>4, <5>2 DEF n
        <5> QED
          BY <1>3, <4>2, <5>3 DEF Stored
      <4> QED
        BY <4>1, <4>2
    <3>3. ~(pool.entity_map[e] = NoEntity /\ content[e] # NoVersion)
      BY <1>3, <2>1, <2>2, <3>1 DEF KeptInv
    <3> QED
      BY <1>8, <1>10, <1>12, <1>17, <2>1, <2>2, <3>1, <3>2, <3>3 DEF KeptInv
  <2>3. CASE f # e
    BY <1>8, <1>10, <1>12, <1>17, <2>1, <2>3 DEF KeptInv
  <2> QED
    BY <2>2, <2>3
<1>20. \A f, id : Listed(t, f, id) <=> Listed(pool, f, id)
  BY <1>10 DEF Listed
<1>21. IdInv(t)
  BY <1>1, <1>10, <1>20 DEF PoolOK, IdInv
<1>22. CountInv(t)
  <2>1. \A l : Pending(t, l) = Pending(pool, l)
    BY <1>20 DEF Pending
  <2> QED
    BY <1>1, <1>10, <2>1 DEF PoolOK, CountInv
<1>23. FlushInv(pool)'
  BY <1>1, <1>8, <1>10, <1>17 DEF PoolOK, FlushInv
<1> QED
  BY <1>13, <1>14, <1>15, <1>16, <1>18, <1>19, <1>21, <1>22, <1>23
     DEF IInv, PoolOK, EntitiesInv, KeepsInv

(* All players are online with what they had, as cachesys has it. *)
LEMMA InitOK ==
  ASSUME Init
  PROVE  IInv
<1> DEFINE i == [version |-> 0, is_flushing |-> FALSE,
                 is_remove_from_memory |-> FALSE]
<1>1. \A e \in Entity : 0 \in Version
  BY BoundsAssumption DEF Version
<1>2. \A e \in Entity : i \in EntityInfo
  BY <1>1 DEF EntityInfo
<1>3. /\ pool.entity_map = [e \in Entity |-> IF e \in New THEN NoEntity ELSE i]
      /\ pool.db_entity_map = [e \in Entity |-> "none"]
      /\ pool.updating_db_entity_map = [e \in Entity |-> "none"]
      /\ pool.update_to_db_num = 0 /\ pool.request_info_vec = {}
      /\ pool.guid_vec = [e \in Entity |-> <<>>]
      /\ pool.output = [e \in Entity |-> <<>>]
      /\ pool.output_line = [o \in Player |-> <<>>]
      /\ pool = [entity_map |-> pool.entity_map,
                 db_entity_map |-> pool.db_entity_map,
                 updating_db_entity_map |-> pool.updating_db_entity_map,
                 update_to_db_num |-> pool.update_to_db_num,
                 request_info_vec |-> pool.request_info_vec,
                 guid_vec |-> pool.guid_vec, output |-> pool.output,
                 output_line |-> pool.output_line]
  BY DEF Init
<1>4. /\ input = [e \in Entity |-> <<>>] /\ input_line = [o \in Player |-> <<>>]
      /\ player_state = [o \in Player |-> "online"] /\ need_flush = {}
      /\ stored = [e \in Entity |-> IF e \in New THEN NoVersion ELSE 0]
      /\ client = [e \in Entity |-> IF e \in New THEN "none" ELSE "held"]
      /\ made = {} /\ content = stored
  BY DEF Init
<1>5. EnvTypeOK
  BY <1>1, <1>4 DEF EnvTypeOK, PlayerState
<1>6. ASSUME NEW e \in Entity
      PROVE  /\ pool.db_entity_map[e] = "none" /\ pool.output[e] = <<>>
             /\ pool.guid_vec[e] = <<>> /\ input[e] = <<>>
             /\ e \in New => /\ pool.entity_map[e] = NoEntity
                             /\ client[e] = "none" /\ stored[e] = NoVersion
             /\ e \notin New => /\ pool.entity_map[e] = i
                                /\ client[e] = "held" /\ stored[e] = 0
             /\ content[e] = stored[e] /\ i # NoEntity
  BY <1>2, <1>3, <1>4, NoEntityAssumption
<1>7. pool \in PoolType
  <2>1. /\ pool.entity_map \in [Entity -> EntityInfo \cup {NoEntity}]
        /\ pool.db_entity_map \in [Entity -> Op]
        /\ pool.updating_db_entity_map \in [Entity -> Op]
        /\ pool.update_to_db_num \in Nat
    BY <1>2, <1>3 DEF Op
  <2>2. /\ pool.guid_vec \in [Entity -> Seq(Id)]
        /\ pool.output \in [Entity -> Seq(Requests)]
        /\ pool.output_line \in [Player -> Seq(Entity)]
    BY <1>3
  <2> QED
    BY <1>3, <2>1, <2>2 DEF PoolType, Requests
<1>8. PoolInv(pool)
  <2>1. ASSUME NEW e \in Entity PROVE Range(pool.guid_vec[e]) = {}
    BY <1>6 DEF Range
  <2>2. UsedIds(pool) = {}
    BY <1>3, <2>1 DEF UsedIds
  <2> QED
    BY <1>3, <1>7, <2>2, FS_EmptySet DEF PoolInv, ListsOK
<1>9. LinesInv(pool)
  <2>1. Len(<<>>) = 0 /\ 1 .. 0 = {} /\ 0 = 0 + 0
    OBVIOUS
  <2>2. LineInv(<<>>, <<>>, <<>>)
    BY <2>1, Zenon DEF LineInv
  <2> QED
    BY <1>6, <2>2 DEF LinesInv
<1>10. FitsInv(pool)
  BY <1>6 DEF FitsInv, FitInv
<1>11. ASSUME NEW e \in Entity PROVE EntityInv(pool, e)
  <2>1. ~Known(<<>>, "none") /\ Known(<<>>, "held")
    BY DEF Known
  <2>2. ~Closed(<<>>, "none") /\ ~Closed(<<>>, "held")
    BY DEF Closed
  <2>3. CASE e \in New
    BY <1>6, <2>1, <2>2, <2>3 DEF EntityInv, Gettable
  <2>4. CASE e \notin New
    BY <1>6, <2>1, <2>2, <2>4 DEF EntityInv, Gettable
  <2> QED
    BY <2>3, <2>4
<1>12. KeepsInv(pool)
  BY <1>6 DEF KeepsInv, KeptInv, Kept, Stored
<1>13. IdInv(pool)
  BY <1>3, <1>6 DEF IdInv
<1>14. CountInv(pool) /\ FlushInv(pool)
  BY <1>3 DEF CountInv, FlushInv
<1> QED
  BY <1>5, <1>8, <1>9, <1>10, <1>11, <1>12, <1>13, <1>14
     DEF IInv, PoolOK, EntitiesInv

(* Nothing happens.                                                        *)
LEMMA StutterStep ==
  ASSUME IInv, UNCHANGED vars
  PROVE  IInv'
<1>1. /\ pool' = pool /\ input' = input /\ input_line' = input_line
      /\ stored' = stored /\ client' = client /\ made' = made
      /\ content' = content /\ player_state' = player_state
      /\ need_flush' = need_flush
  BY DEF vars, inputVars, playerVars, cacheVars
<1>2. EnvTypeOK'
  BY <1>1 DEF IInv, EnvTypeOK
<1>3. PoolOK(pool')
  BY <1>1 DEF IInv
<1> QED
  BY <1>1, <1>2, <1>3, EnvSame DEF IInv

(* Every step keeps the invariant.                                         *)
LEMMA NextOK ==
  ASSUME IInv, [Next]_vars
  PROVE  IInv'
<1>1. ASSUME NEW e \in Entity, Update(e) \/ Add(e) \/ RemovePart(e)
      PROVE  IInv'
  <2>1. CASE Update(e)
    BY <2>1, UpdateStep
  <2>2. CASE Add(e)
    BY <2>2, AddPartStep, AddCoinStep
  <2>3. CASE RemovePart(e)
    BY <2>3, RemovePartStep
  <2> QED
    BY <1>1, <2>1, <2>2, <2>3
<1>2. ASSUME NEW o \in Player,
             LeaveMap(o) \/ JumpMap(o) \/ CacheInput(o) \/ HandleRequest(o)
      PROVE  IInv'
  <2>1. CASE LeaveMap(o)
    BY <2>1, LeaveMapStep
  <2>2. CASE JumpMap(o)
    BY <2>2, JumpMapStep
  <2>3. CASE CacheInput(o)
    BY <2>3, CacheInputStep
  <2>4. CASE HandleRequest(o)
    BY <2>4, HandleRequestStep
  <2> QED
    BY <1>2, <2>1, <2>2, <2>3, <2>4
<1>3. CASE UpdatePoolTimer
  BY <1>3, UpdatePoolTimerStep
<1>4. CASE UNCHANGED vars
  BY <1>4, StutterStep
<1> QED
  BY <1>1, <1>2, <1>3, <1>4 DEF Next

-----------------------------------------------------------------------------
(* The theorems *)

(* The inductive invariant holds: what the pool, the requests and answers  *)
(* on their way and cachesys say of an entity always fits.                 *)
THEOREM Inductive == Spec => []IInv
<1>1. Init => IInv
  BY InitOK
<1>2. IInv /\ [Next]_vars => IInv'
  BY NextOK
<1> QED
  BY <1>1, <1>2, PTL DEF Spec

(* The variables keep their types, and a list of requests, which           *)
(* removes itself with its last answer, never counts more answers than it  *)
(* has requests (handlePacket compares for equality).                      *)
THEOREM Types == Spec => []EntityPoolTypeOK
<1>1. IInv => EntityPoolTypeOK
  BY DEF IInv, EnvTypeOK, PoolOK, PoolInv, ListsOK, EntityPoolTypeOK, Answer
<1> QED
  BY <1>1, Inductive, PTL

(* No change that the game has announced to the pool (update, add, remove) *)
(* is ever forgotten, whatever batches are given up on and whoever leaves. *)
THEOREM UpdatesStayKept == Spec => []UpdatesAreKept
<1>1. ASSUME IInv, NEW e \in Kept
      PROVE  \/ WillBeStored(e) = content[e]
             \/ pool.db_entity_map[e] = "remove" /\ content[e] = NoVersion
             \/ pool.db_entity_map[e] \in {"add", "update"} /\ Gettable(pool, e)
  <2>1. KeptInv(pool, e)
    BY <1>1 DEF IInv, PoolOK, KeepsInv
  <2>2. WillBeStored(e) = Stored(pool.output[e], stored[e])
    BY DEF WillBeStored, Stored, Last
  <2> QED
    BY <2>1, <2>2 DEF KeptInv
<1>2. IInv => UpdatesAreKept
  BY <1>1 DEF UpdatesAreKept
<1> QED
  BY <1>2, Inductive, PTL

(* When playerFlushDataFinish has let an entity leave the memory of the    *)
(* scene, cachesys has recorded its last version.                          *)
THEOREM GoneStaysStored == Spec => []GoneIsStored
<1>1. ASSUME IInv, NEW e \in Kept, content[e] # NoVersion,
             pool.entity_map[e] = NoEntity
      PROVE  stored[e] = content[e]
  <2>1. KeptInv(pool, e)
    BY <1>1 DEF IInv, PoolOK, KeepsInv
  <2>2. pool.output[e] = <<>> /\ ~Gettable(pool, e)
    BY <1>1, <2>1 DEF KeptInv, Gettable
  <2> QED
    BY <1>1, <2>1, <2>2 DEF KeptInv, Stored
<1>2. IInv => GoneIsStored
  BY <1>1 DEF GoneIsStored
<1> QED
  BY <1>2, Inductive, PTL

(* Every request finds the entity in cachesys as EntityHander expects it:  *)
(* nothing is added twice, nothing flushed that cachesys has let go.       *)
THEOREM RequestsStayFit == Spec => []RequestsFitCache
<1>1. ASSUME IInv, NEW e \in Entity, pool.output[e] # <<>>
      PROVE  LET type == Head(pool.output[e]).type
             IN  CASE type \in {"add", "add_with_flush"} -> client[e] = "none"
                   [] type \in {"update", "flush"} -> client[e] = "held"
                   [] OTHER -> client[e] \in {"held", "free"}
  <2> DEFINE type == Head(pool.output[e]).type
  <2>1. /\ pool.output[e] \in Seq(Requests) /\ FitInv(pool.output[e], client[e])
        /\ client[e] \in {"none", "held", "free", "removed"}
    BY <1>1 DEF IInv, EnvTypeOK, PoolOK, PoolInv, PoolType, Requests, FitsInv
  <2>2. /\ type \in Adds <=> client[e] = "none"
        /\ type \notin Adds => client[e] = "held"
    BY <1>1, <2>1, FitHandle
  <2> HIDE DEF type
  <2>3. (CASE type \in {"add", "add_with_flush"} -> client[e] = "none"
           [] type \in {"update", "flush"} -> client[e] = "held"
           [] OTHER -> client[e] \in {"held", "free"})
    <3>1. CASE type \in Adds
      <4>1. type \in {"add", "add_with_flush"} /\ type \notin {"update", "flush"}
        BY <3>1 DEF Adds
      <4> QED
        BY <2>2, <3>1, <4>1
    <3>2. CASE type \notin Adds
      <4>1. type \notin {"add", "add_with_flush"}
        BY <3>2 DEF Adds
      <4> QED
        BY <2>2, <3>2, <4>1
    <3> QED
      BY <3>1, <3>2
  <2> QED
    BY <2>3 DEF type
<1>2. IInv => RequestsFitCache
  BY <1>1 DEF RequestsFitCache
<1> QED
  BY <1>2, Inductive, PTL

(* The first entry that ManageRemoteCache::getMapID finds for the GUID of  *)
(* an answer is the one of the request that was answered.                  *)
THEOREM AnswersStayMatched == Spec => []AnswersMatch
<1>1. ASSUME IInv, NEW e \in Entity, input[e] # <<>>
      PROVE  /\ pool.guid_vec[e] # <<>>
             /\ Head(pool.guid_vec[e]) = Head(input[e]).id
  <2>1. /\ pool.guid_vec[e] \in Seq(Id) /\ input[e] \in Seq(Answer)
        /\ pool.output[e] \in Seq(Requests)
        /\ LineInv(pool.guid_vec[e], input[e], pool.output[e])
    BY <1>1 DEF IInv, EnvTypeOK, PoolOK, PoolInv, PoolType, Requests, LinesInv
  <2> QED
    BY <1>1, <2>1, LineAnswer
<1>2. IInv => AnswersMatch
  BY <1>1 DEF AnswersMatch
<1> QED
  BY <1>2, Inductive, PTL

=============================================================================
