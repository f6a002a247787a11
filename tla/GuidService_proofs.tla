------------------------- MODULE GuidService_proofs -------------------------
(***************************************************************************)
(* Proofs about guidsys and its clients (GuidService), for any clients,    *)
(* sizes of ranges and numbers of restarts, and saves that fail.           *)
(*                                                                         *)
(* The argument: as long as the saved configuration has the first seed,    *)
(* every range given to a client lies below the saved index, and guidsys,  *)
(* whether it runs on or starts again from the configuration, goes on at   *)
(* or above it.  So a new range is disjoint from the others and from the   *)
(* GUIDs taken, and taking a GUID only moves it from a range to the GUIDs  *)
(* taken.  Over all seeds the argument is the same for the GUIDs that do   *)
(* not have one of the last indices of a seed.                             *)
(***************************************************************************)
EXTENDS GuidService, TLAPS

-----------------------------------------------------------------------------
(* Types *)

(* The variables keep their types: ranges never become negative. *)
THEOREM GuidServiceTypeCorrect == Spec => []GuidServiceTypeOK
<1> USE DEF GuidServiceTypeOK, GuidInfo, NoGuidInfo, GuidCfg
<1>1. Init => GuidServiceTypeOK
  BY FirstAssumption, SeedModulusAssumption, MaxIndexAssumption DEF Init
<1>2. GuidServiceTypeOK /\ [Next]_vars => GuidServiceTypeOK'
  <2> SUFFICES ASSUME GuidServiceTypeOK, [Next]_vars
               PROVE  GuidServiceTypeOK'
    OBVIOUS
  <2> USE DEF startVars, serverVars, linkVars, rangeVars, guidVars
  <2>1. ASSUME NEW c \in Client, ProcessRequest(c)
        PROVE  GuidServiceTypeOK'
    <3> DEFINE no == RequestNo[c]
    <3>1. no \in Nat
      BY RequestNoAssumption
    <3>2. m_seed' \in Nat /\ m_index' \in Nat
      BY <2>1, <3>1 DEF ProcessRequest, NextSeed, NextIndex
    <3>3. guid_config' \in GuidCfg /\ reply' \in [Client -> GuidInfo]
      BY <2>1, <3>1, <3>2 DEF ProcessRequest
    <3> QED BY <2>1, <3>2, <3>3 DEF ProcessRequest
  <2>2. ASSUME NEW c \in Client, SendRequest(c)
        PROVE  GuidServiceTypeOK'
    BY <2>2 DEF SendRequest
  <2>3. ASSUME NEW c \in Client, ReceiveReply(c)
        PROVE  GuidServiceTypeOK'
    BY <2>3 DEF ReceiveReply
  <2>4. ASSUME NEW c \in Client, GetGuid(c)
        PROVE  GuidServiceTypeOK'
    <3>1. NextGuidInfo(c) \in GuidInfo /\ NextGuidInfo(c).rest > 0
      BY <2>4 DEF GetGuid, HasGuid, NextGuidInfo
    <3>2. PICK info \in GuidInfo : info = NextGuidInfo(c) /\ info.rest > 0
      BY <3>1
    <3>3. [info EXCEPT !.index = info.index + 1, !.rest = info.rest - 1]
            \in GuidInfo
      <4>1. info.index + 1 \in Nat /\ info.rest - 1 \in Nat
        BY <3>2
      <4> QED BY <4>1
    <3>4. guid_info' \in [Client -> GuidInfo]
      BY <2>4, <3>2, <3>3 DEF GetGuid
    <3>5. guid_info_que' \in [Client -> GuidInfo]
      BY <2>4 DEF GetGuid
    <3> QED BY <2>4, <3>4, <3>5 DEF GetGuid
  <2>5. ASSUME NEW c \in Client, ClientRestarts(c)
        PROVE  GuidServiceTypeOK'
    BY <2>5 DEF ClientRestarts
  <2>6. CASE GuidsysStops
    <3>1. NoGuidInfo \in GuidInfo
      OBVIOUS
    <3>2. reply' \in [Client -> GuidInfo]
      BY <2>6, <3>1 DEF GuidsysStops
    <3>3. connected' \in [Client -> BOOLEAN]
      BY <2>6 DEF GuidsysStops
    <3>4. request' \in SUBSET Client /\ restarts' \in Nat
      BY <2>6 DEF GuidsysStops
    <3>5. UNCHANGED <<m_seed, m_index, guid_config, m_guid_cfg, alloc_is_init,
                      svc, guid_info_que, guid_info>> /\ guidsys_up' = FALSE
      BY <2>6 DEF GuidsysStops
    <3> QED BY <3>2, <3>3, <3>4, <3>5
  <2>7. CASE GuidsysStarts
    BY <2>7 DEF GuidsysStarts
  <2>8. CASE AllocGuidInit
    BY <2>8 DEF AllocGuidInit
  <2>9. CASE UNCHANGED vars
    BY <2>9 DEF vars
  <2> QED BY <2>1, <2>2, <2>3, <2>4, <2>5, <2>6, <2>7, <2>8, <2>9 DEF Next
<1> QED BY <1>1, <1>2, PTL DEF Spec

-----------------------------------------------------------------------------
(* guidsys goes on at or above the saved index *)

ServerInv ==
  /\ FirstSeed <= guid_config.seed_value
  /\ IF guidsys_up /\ alloc_is_init
     THEN /\ guid_config.seed_value <= m_seed
          /\ m_seed = guid_config.seed_value => guid_config.index <= m_index
     ELSE /\ request = {}
          /\ \A c \in Client : ~connected[c]
  /\ guidsys_up => alloc_is_init \/ m_guid_cfg = guid_config

(* A request is handled only by a guidsys that has set its index: no       *)
(* client connects early.                                                  *)
LEMMA ServerInvariant ==
  ASSUME ~EarlyClients
  PROVE  Spec => []ServerInv
<1>1. Init => ServerInv
  BY FirstAssumption, SeedModulusAssumption DEF Init, ServerInv
<1>2. GuidServiceTypeOK /\ ServerInv /\ [Next]_vars => ServerInv'
  <2> SUFFICES ASSUME GuidServiceTypeOK, ServerInv, [Next]_vars
               PROVE  ServerInv'
    OBVIOUS
  <2> USE DEF GuidServiceTypeOK, ServerInv, startVars, serverVars, linkVars,
              GuidCfg
  <2>1. ASSUME NEW c \in Client, ProcessRequest(c)
        PROVE  ServerInv'
    <3>1. guidsys_up /\ alloc_is_init
      BY <2>1 DEF ProcessRequest
    <3>2. RequestNo[c] \in Nat
      BY RequestNoAssumption
    <3>3. /\ m_seed' \in Nat /\ m_index' \in Nat
          /\ guid_config.seed_value <= m_seed'
          /\ m_seed' = guid_config.seed_value => guid_config.index <= m_index'
      BY <2>1, <3>1, <3>2 DEF ProcessRequest, NextSeed, NextIndex
    <3>4. \/ guid_config' = guid_config
          \/ guid_config' = [seed_value |-> m_seed', index |-> m_index']
      BY <2>1 DEF ProcessRequest
    <3>5. FirstSeed \in Nat
      BY FirstAssumption, SeedModulusAssumption
    <3> QED BY <2>1, <3>1, <3>3, <3>4, <3>5 DEF ProcessRequest
  <2>2. ASSUME NEW c \in Client, SendRequest(c)
        PROVE  ServerInv'
    BY <2>2 DEF SendRequest
  <2>3. ASSUME NEW c \in Client, ReceiveReply(c) \/ GetGuid(c)
        PROVE  ServerInv'
    BY <2>3 DEF ReceiveReply, GetGuid
  <2>4. ASSUME NEW c \in Client, ClientRestarts(c), ~EarlyClients
        PROVE  ServerInv'
    BY <2>4 DEF ClientRestarts
  <2>5. CASE GuidsysStops
    BY <2>5 DEF GuidsysStops
  <2>6. CASE GuidsysStarts
    BY <2>6 DEF GuidsysStarts
  <2>7. CASE AllocGuidInit
    BY <2>7 DEF AllocGuidInit
  <2>8. CASE UNCHANGED vars
    BY <2>8 DEF vars
  <2> QED BY <2>1, <2>2, <2>3, <2>4, <2>5, <2>6, <2>7, <2>8 DEF Next
<1> QED BY <1>1, <1>2, GuidServiceTypeCorrect, PTL DEF Spec

-----------------------------------------------------------------------------
(* The ranges of the first seed *)

Place == {"reply", "queue", "info"}

(* The range at a place on its way to, or in, a client. *)
InfoAt(c, p) ==
  IF p = "reply" THEN reply[c]
  ELSE IF p = "queue" THEN guid_info_que[c]
  ELSE guid_info[c]

Indices(info) == info.index .. info.index + info.rest - 1

(* GUIDs of the first seed are not cut. *)
FirstGuid(i) == <<FirstSeed, i>>

(* Ranges lie below the saved index, ... *)
RangesAreSaved ==
  \A c \in Client, p \in Place :
    InfoAt(c, p).rest > 0 =>
      /\ InfoAt(c, p).seed = FirstSeed
      /\ InfoAt(c, p).index + InfoAt(c, p).rest <= guid_config.index

(* ... are disjoint, ... *)
RangesAreDisjoint ==
  \A c, d \in Client, p, q \in Place :
    <<c, p>> # <<d, q>> =>
      Indices(InfoAt(c, p)) \cap Indices(InfoAt(d, q)) = {}

(* ... and the GUIDs taken came from ranges that are no longer there. *)
TakenAreGone ==
  /\ guid # NoGuid =>
       \E i \in 0 .. guid_config.index - 1 :
         /\ guid = FirstGuid(i)
         /\ \A c \in Client, p \in Place : i \notin Indices(InfoAt(c, p))
  /\ \A g \in taken :
       \E i \in 0 .. guid_config.index - 1 :
         /\ g = FirstGuid(i)
         /\ \A c \in Client, p \in Place : i \notin Indices(InfoAt(c, p))

FirstSeedInv ==
  /\ guid_config.index <= MaxIndex
  /\ RangesAreSaved
  /\ RangesAreDisjoint
  /\ TakenAreGone
  /\ NoGuidTwice

RangeInv == guid_config.seed_value = FirstSeed => FirstSeedInv

(* MAKE_GUID cuts nothing off a GUID of the first seed. *)
LEMMA FirstGuidIsWhole ==
  ASSUME NEW i \in 0 .. MaxIndex
  PROVE  MakeGuid(FirstSeed, i) = FirstGuid(i) /\ FirstGuid(i) # NoGuid
<1>1. FirstSeed % SeedModulus = FirstSeed
  BY FirstAssumption, SeedModulusAssumption
<1>2. i % (MaxIndex + 1) = i
  BY MaxIndexAssumption
<1>3. FirstSeed # -1
  BY FirstAssumption, SeedModulusAssumption
<1> QED BY <1>1, <1>2, <1>3 DEF MakeGuid, FirstGuid, NoGuid

LEMMA InfoAtType ==
  ASSUME GuidServiceTypeOK, NEW c \in Client, NEW p \in Place
  PROVE  InfoAt(c, p) \in GuidInfo
  BY DEF GuidServiceTypeOK, InfoAt

(* What is left at the places after a step comes from ranges that were     *)
(* there before: no GUID taken comes back.                                 *)
LEMMA TakenStayGone ==
  ASSUME TakenAreGone, NoGuidTwice,
         guid_config' = guid_config, UNCHANGED guidVars,
         \A c \in Client, p \in Place : \E d \in Client, q \in Place :
           Indices(InfoAt(c, p))' \subseteq Indices(InfoAt(d, q))
  PROVE  TakenAreGone' /\ NoGuidTwice'
  BY DEF TakenAreGone, NoGuidTwice, guidVars

(* Ranges that stay, or are thrown away. *)
LEMMA RangesStay ==
  ASSUME GuidServiceTypeOK, FirstSeedInv,
         guid_config' = guid_config, UNCHANGED guidVars,
         \A c \in Client, p \in Place :
           InfoAt(c, p)' = InfoAt(c, p) \/ InfoAt(c, p)' = NoGuidInfo
  PROVE  FirstSeedInv'
<1>1. \A c \in Client, p \in Place :
        Indices(InfoAt(c, p))' \subseteq Indices(InfoAt(c, p))
  <2> TAKE c \in Client, p \in Place
  <2>1. CASE InfoAt(c, p)' = InfoAt(c, p)
    BY <2>1 DEF Indices
  <2>2. CASE InfoAt(c, p)' = NoGuidInfo
    BY <2>2 DEF Indices, NoGuidInfo
  <2> QED BY <2>1, <2>2
<1>2. RangesAreSaved'
  BY DEF FirstSeedInv, RangesAreSaved, NoGuidInfo
<1>3. RangesAreDisjoint'
  BY <1>1 DEF FirstSeedInv, RangesAreDisjoint
<1>4. TakenAreGone' /\ NoGuidTwice'
  BY <1>1, TakenStayGone DEF FirstSeedInv
<1> QED BY <1>2, <1>3, <1>4 DEF FirstSeedInv

(* A range, or the end of one, that moves from one place of a client to    *)
(* another, or stays where it is.                                          *)
LEMMA RangeMoves ==
  ASSUME GuidServiceTypeOK, GuidServiceTypeOK',
         RangesAreSaved, RangesAreDisjoint,
         guid_config' = guid_config,
         NEW c \in Client, NEW from \in Place, NEW to \in Place,
         InfoAt(c, from).rest > 0,
         InfoAt(c, to)'.seed = InfoAt(c, from).seed,
         InfoAt(c, to)'.index >= InfoAt(c, from).index,
         InfoAt(c, to)'.index + InfoAt(c, to)'.rest
           = InfoAt(c, from).index + InfoAt(c, from).rest,
         from # to => InfoAt(c, from)' = NoGuidInfo,
         \A d \in Client, p \in Place :
           <<d, p>> \notin {<<c, from>>, <<c, to>>}
             => InfoAt(d, p)' = InfoAt(d, p)
  PROVE  /\ RangesAreSaved'
         /\ RangesAreDisjoint'
         /\ Indices(InfoAt(c, to))' \subseteq Indices(InfoAt(c, from))
         /\ \A d \in Client, p \in Place :
              <<d, p>> # <<c, to>> =>
                Indices(InfoAt(d, p))' \subseteq Indices(InfoAt(d, p))
<1>1. InfoAt(c, from) \in GuidInfo /\ InfoAt(c, to)' \in GuidInfo
  BY InfoAtType DEF GuidServiceTypeOK, InfoAt
<1>2. Indices(InfoAt(c, to))' \subseteq Indices(InfoAt(c, from))
  <2>1. PICK a \in Nat, b \in Nat, x \in Nat, y \in Nat :
          /\ a = InfoAt(c, from).index /\ b = InfoAt(c, from).rest
          /\ x = InfoAt(c, to)'.index /\ y = InfoAt(c, to)'.rest
    BY <1>1 DEF GuidInfo
  <2>2. x .. x + y - 1 \subseteq a .. a + b - 1
    BY <2>1
  <2> QED BY <2>1, <2>2 DEF Indices
<1>3. ASSUME NEW d \in Client, NEW p \in Place, <<d, p>> # <<c, to>>
      PROVE  /\ InfoAt(d, p)' = InfoAt(d, p) \/ InfoAt(d, p)' = NoGuidInfo
             /\ Indices(InfoAt(d, p))' \subseteq Indices(InfoAt(d, p))
  <2>1. CASE <<d, p>> = <<c, from>>
    <3>1. InfoAt(d, p)' = NoGuidInfo
      BY <1>3, <2>1 DEF InfoAt
    <3> QED BY <3>1 DEF Indices, NoGuidInfo
  <2>2. CASE <<d, p>> # <<c, from>>
    <3>1. InfoAt(d, p)' = InfoAt(d, p)
      BY <1>3, <2>2
    <3> QED BY <3>1 DEF Indices
  <2> QED BY <2>1, <2>2
<1>4. ASSUME NEW d \in Client, NEW p \in Place, <<d, p>> # <<c, to>>
      PROVE  Indices(InfoAt(c, to))' \cap Indices(InfoAt(d, p))' = {}
  <2>1. CASE <<d, p>> = <<c, from>>
    <3>1. InfoAt(d, p)' = NoGuidInfo
      BY <1>4, <2>1 DEF InfoAt
    <3> QED BY <3>1 DEF Indices, NoGuidInfo
  <2>2. CASE <<d, p>> # <<c, from>>
    <3>1. Indices(InfoAt(c, from)) \cap Indices(InfoAt(d, p)) = {}
      BY <2>2 DEF RangesAreDisjoint
    <3> QED BY <1>2, <1>3, <1>4, <3>1
  <2> QED BY <2>1, <2>2
<1>5. RangesAreDisjoint'
  <2> SUFFICES ASSUME NEW d \in Client, NEW e \in Client,
                      NEW p \in Place, NEW q \in Place, <<d, p>> # <<e, q>>
               PROVE  Indices(InfoAt(d, p))' \cap Indices(InfoAt(e, q))' = {}
    BY DEF RangesAreDisjoint
  <2>1. CASE d = c /\ p = to
    BY <1>4, <2>1
  <2>2. CASE e = c /\ q = to
    BY <1>4, <2>2
  <2>3. CASE ~(d = c /\ p = to) /\ ~(e = c /\ q = to)
    BY <1>3, <2>3 DEF RangesAreDisjoint
  <2> QED BY <2>1, <2>2, <2>3
<1>6. RangesAreSaved'
  <2> SUFFICES ASSUME NEW d \in Client, NEW p \in Place, InfoAt(d, p)'.rest > 0
               PROVE  /\ InfoAt(d, p)'.seed = FirstSeed
                      /\ InfoAt(d, p)'.index + InfoAt(d, p)'.rest
                           <= guid_config.index
    BY DEF RangesAreSaved
  <2>1. CASE d = c /\ p = to
    BY <2>1 DEF RangesAreSaved
  <2>2. CASE ~(d = c /\ p = to)
    BY <1>3, <2>2 DEF RangesAreSaved, NoGuidInfo
  <2> QED BY <2>1, <2>2
<1> QED BY <1>2, <1>3, <1>5, <1>6

-----------------------------------------------------------------------------
(* The steps *)

(* A range that processRequest returns begins at or above the saved index, *)
(* and the saved index is beyond it before it is on its way.               *)
LEMMA ProcessRequestKeepsRanges ==
  ASSUME GuidServiceTypeOK, GuidServiceTypeOK', ServerInv, RangeInv,
         NEW c \in Client, ProcessRequest(c),
         guid_config'.seed_value = FirstSeed
  PROVE  FirstSeedInv'
<1> DEFINE no == RequestNo[c]
<1>1. guidsys_up /\ alloc_is_init /\ no \in Nat \ {0}
  BY RequestNoAssumption DEF ProcessRequest, ServerInv
<1>2. CASE guid_config' = guid_config /\ reply' = reply
  <2>1. UNCHANGED <<guidVars, guid_info_que, guid_info>>
    BY DEF ProcessRequest
  <2>2. \A d \in Client, p \in Place : InfoAt(d, p)' = InfoAt(d, p)
    BY <1>2, <2>1 DEF InfoAt
  <2> QED BY <1>2, <2>1, <2>2, RangesStay DEF RangeInv
<1>3. CASE /\ guid_config' = [seed_value |-> m_seed', index |-> m_index']
           /\ reply' = [reply EXCEPT ![c] =
                          [seed |-> m_seed', index |-> m_index, rest |-> no]]
  <2>1. m_seed' = FirstSeed
    BY <1>3
  <2>2. FirstSeed \in Nat
    BY FirstAssumption, SeedModulusAssumption
  <2>3. ~SeedIsFinished(no) /\ m_seed = FirstSeed
    BY <1>1, <2>1, <2>2
    DEF ProcessRequest, NextSeed, ServerInv, GuidServiceTypeOK, GuidCfg
  <2>4. guid_config.seed_value = FirstSeed /\ guid_config.index <= m_index
    BY <1>1, <2>2, <2>3 DEF ServerInv, GuidServiceTypeOK, GuidCfg
  <2>5. m_index' = m_index + no /\ m_index + no < MaxIndex
    BY <1>1, <2>3, MaxIndexAssumption
    DEF ProcessRequest, NextIndex, SeedIsFinished, GuidServiceTypeOK
  <2>6. guid_config'.index = m_index + no
    BY <1>3, <2>5
  <2>7. /\ InfoAt(c, "reply")' =
             [seed |-> FirstSeed, index |-> m_index, rest |-> no]
        /\ \A d \in Client, p \in Place :
             <<d, p>> # <<c, "reply">> => InfoAt(d, p)' = InfoAt(d, p)
    BY <1>3, <2>1 DEF InfoAt, Place, ProcessRequest, GuidServiceTypeOK
  <2>8. FirstSeedInv
    BY <2>4 DEF RangeInv
  <2>9. guid_config.index \in Nat /\ m_index \in Nat
    BY DEF GuidServiceTypeOK, GuidCfg
  <2>10. \A d \in Client, p \in Place :
           Indices(InfoAt(d, p)) \subseteq 0 .. guid_config.index - 1
    <3> TAKE d \in Client, p \in Place
    <3>1. PICK x \in Nat, y \in Nat :
            x = InfoAt(d, p).index /\ y = InfoAt(d, p).rest
      BY InfoAtType DEF GuidInfo
    <3>2. y > 0 => x + y <= guid_config.index
      BY <2>8, <3>1 DEF FirstSeedInv, RangesAreSaved
    <3> QED BY <2>9, <3>1, <3>2 DEF Indices
  <2>11. Indices(InfoAt(c, "reply"))' = m_index .. m_index + no - 1
    BY <2>7 DEF Indices
  <2>12. \A d \in Client, p \in Place :
           <<d, p>> # <<c, "reply">> =>
             Indices(InfoAt(d, p))' = Indices(InfoAt(d, p))
    BY <2>7 DEF Indices
  <2>13. RangesAreSaved'
    <3> SUFFICES ASSUME NEW d \in Client, NEW p \in Place,
                        InfoAt(d, p)'.rest > 0
                 PROVE  /\ InfoAt(d, p)'.seed = FirstSeed
                        /\ InfoAt(d, p)'.index + InfoAt(d, p)'.rest
                             <= m_index + no
      BY <2>6 DEF RangesAreSaved
    <3>1. CASE d = c /\ p = "reply"
      BY <1>1, <2>7, <2>9, <3>1
    <3>2. CASE ~(d = c /\ p = "reply")
      <4>1. PICK x \in Nat, y \in Nat :
              x = InfoAt(d, p).index /\ y = InfoAt(d, p).rest
        BY InfoAtType DEF GuidInfo
      <4>2. InfoAt(d, p).seed = FirstSeed /\ x + y <= guid_config.index
        BY <2>7, <2>8, <3>2, <4>1 DEF FirstSeedInv, RangesAreSaved
      <4> QED BY <1>1, <2>4, <2>7, <2>9, <3>2, <4>1, <4>2
    <3> QED BY <3>1, <3>2
  <2>14. RangesAreDisjoint'
    <3>1. ASSUME NEW d \in Client, NEW p \in Place,
                 <<d, p>> # <<c, "reply">>
          PROVE  Indices(InfoAt(d, p))' \cap Indices(InfoAt(c, "reply"))' = {}
      BY <1>1, <2>4, <2>9, <2>10, <2>11, <2>12, <3>1
    <3>2. ASSUME NEW d \in Client, NEW p \in Place,
                 NEW e \in Client, NEW q \in Place, <<d, p>> # <<e, q>>
          PROVE  Indices(InfoAt(d, p))' \cap Indices(InfoAt(e, q))' = {}
      <4>1. CASE d = c /\ p = "reply"
        BY <3>1, <3>2, <4>1
      <4>2. CASE e = c /\ q = "reply"
        BY <3>1, <3>2, <4>2
      <4>3. CASE ~(d = c /\ p = "reply") /\ ~(e = c /\ q = "reply")
        BY <2>8, <2>12, <3>2, <4>3 DEF FirstSeedInv, RangesAreDisjoint
      <4> QED BY <4>1, <4>2, <4>3
    <3> QED BY <3>2 DEF RangesAreDisjoint
  <2>15. ASSUME NEW i \in 0 .. guid_config.index - 1,
                \A d \in Client, p \in Place : i \notin Indices(InfoAt(d, p))
         PROVE  /\ i \in 0 .. guid_config'.index - 1
                /\ \A d \in Client, p \in Place :
                     i \notin Indices(InfoAt(d, p))'
    <3>1. i \in 0 .. guid_config'.index - 1
      BY <1>1, <2>4, <2>6, <2>9
    <3>2. i \notin m_index .. m_index + no - 1
      BY <2>4, <2>9
    <3> QED BY <2>11, <2>12, <2>15, <3>1, <3>2
  <2>16. guid' = guid /\ taken' = taken
    BY DEF ProcessRequest, guidVars
  <2>17. TakenAreGone'
    BY <2>8, <2>15, <2>16 DEF FirstSeedInv, TakenAreGone
  <2>18. NoGuidTwice'
    BY <2>8, <2>16 DEF FirstSeedInv, NoGuidTwice
  <2>19. guid_config'.index <= MaxIndex
    BY <1>1, <2>5, <2>6, <2>9, MaxIndexAssumption
  <2> QED BY <2>13, <2>14, <2>17, <2>18, <2>19 DEF FirstSeedInv
<1>4. \/ guid_config' = guid_config /\ reply' = reply
      \/ /\ guid_config' = [seed_value |-> m_seed', index |-> m_index']
         /\ reply' = [reply EXCEPT ![c] =
                        [seed |-> m_seed', index |-> m_index, rest |-> no]]
  BY DEF ProcessRequest
<1> QED BY <1>2, <1>3, <1>4

(* The range received moves from the reply to the queue. *)
LEMMA ReceiveReplyKeepsRanges ==
  ASSUME GuidServiceTypeOK, GuidServiceTypeOK', FirstSeedInv,
         NEW c \in Client, ReceiveReply(c)
  PROVE  FirstSeedInv'
<1>1. /\ InfoAt(c, "reply").rest > 0
      /\ InfoAt(c, "queue")' = InfoAt(c, "reply")
      /\ InfoAt(c, "reply")' = NoGuidInfo
      /\ \A d \in Client, p \in Place :
           <<d, p>> \notin {<<c, "reply">>, <<c, "queue">>}
             => InfoAt(d, p)' = InfoAt(d, p)
  BY DEF ReceiveReply, InfoAt, Place, GuidServiceTypeOK
<1>2. guid_config' = guid_config /\ UNCHANGED guidVars
  BY DEF ReceiveReply, serverVars
<1>3. InfoAt(c, "reply") \in GuidInfo
  BY InfoAtType DEF Place
<1>4. /\ InfoAt(c, "queue")'.index >= InfoAt(c, "reply").index
      /\ InfoAt(c, "queue")'.seed = InfoAt(c, "reply").seed
      /\ InfoAt(c, "queue")'.index + InfoAt(c, "queue")'.rest
           = InfoAt(c, "reply").index + InfoAt(c, "reply").rest
  BY <1>1, <1>3 DEF GuidInfo
<1>5. /\ RangesAreSaved'
      /\ RangesAreDisjoint'
      /\ Indices(InfoAt(c, "queue"))' \subseteq Indices(InfoAt(c, "reply"))
      /\ \A d \in Client, p \in Place :
           <<d, p>> # <<c, "queue">> =>
             Indices(InfoAt(d, p))' \subseteq Indices(InfoAt(d, p))
  <2>1. "reply" \in Place /\ "queue" \in Place
    BY DEF Place
  <2> QED BY <1>1, <1>2, <1>4, <2>1, RangeMoves DEF FirstSeedInv
<1>6. \A d \in Client, p \in Place : \E e \in Client, q \in Place :
        Indices(InfoAt(d, p))' \subseteq Indices(InfoAt(e, q))
  BY <1>5 DEF Place
<1>7. TakenAreGone' /\ NoGuidTwice'
  BY <1>2, <1>6, TakenStayGone DEF FirstSeedInv
<1> QED BY <1>2, <1>5, <1>7 DEF FirstSeedInv

(* The GUID that get_guid returns leaves the range it is taken from. *)
LEMMA GetGuidKeepsRanges ==
  ASSUME GuidServiceTypeOK, GuidServiceTypeOK', FirstSeedInv,
         NEW c \in Client, GetGuid(c)
  PROVE  FirstSeedInv'
<1>1. PICK from \in {"info", "queue"} :
        /\ InfoAt(c, from) = NextGuidInfo(c)
        /\ from = "info" <=> guid_info[c].rest > 0
        /\ InfoAt(c, from).rest > 0
  BY DEF GetGuid, HasGuid, NextGuidInfo, InfoAt
<1>2. PICK info \in GuidInfo : info = InfoAt(c, from)
  BY <1>1, InfoAtType DEF Place
<1>3. /\ InfoAt(c, "info")' =
           [info EXCEPT !.index = info.index + 1, !.rest = info.rest - 1]
      /\ from # "info" => InfoAt(c, from)' = NoGuidInfo
      /\ \A d \in Client, p \in Place :
           <<d, p>> \notin {<<c, from>>, <<c, "info">>}
             => InfoAt(d, p)' = InfoAt(d, p)
  <2>1. guid_info' = [guid_info EXCEPT ![c] =
          [info EXCEPT !.index = info.index + 1, !.rest = info.rest - 1]]
    BY <1>1, <1>2 DEF GetGuid
  <2>2. CASE from = "info"
    <3>1. guid_info_que' = guid_info_que /\ reply' = reply
      BY <1>1, <2>2 DEF GetGuid
    <3> QED BY <2>1, <2>2, <3>1 DEF InfoAt, Place, GuidServiceTypeOK
  <2>3. CASE from = "queue"
    <3>1. /\ guid_info_que' = [guid_info_que EXCEPT ![c] = NoGuidInfo]
          /\ reply' = reply
      BY <1>1, <2>3 DEF GetGuid
    <3> QED BY <2>1, <2>3, <3>1 DEF InfoAt, Place, GuidServiceTypeOK
  <2> QED BY <2>2, <2>3
<1>4. /\ guid_config' = guid_config
      /\ guid' = MakeGuid(info.seed, info.index)
      /\ taken' = taken \cup ({guid} \ {NoGuid})
  BY <1>1, <1>2 DEF GetGuid, serverVars
<1>5. /\ InfoAt(c, "info")'.seed = info.seed
      /\ InfoAt(c, "info")'.index = info.index + 1
      /\ InfoAt(c, "info")'.rest = info.rest - 1
      /\ info.index \in Nat /\ info.rest \in Nat /\ info.rest > 0
      /\ from \in Place /\ "info" \in Place
  BY <1>1, <1>2, <1>3 DEF GuidInfo, Place
<1>6. /\ RangesAreSaved'
      /\ RangesAreDisjoint'
      /\ Indices(InfoAt(c, "info"))' \subseteq Indices(info)
      /\ \A d \in Client, p \in Place :
           <<d, p>> # <<c, "info">> =>
             Indices(InfoAt(d, p))' \subseteq Indices(InfoAt(d, p))
  <2>1. /\ InfoAt(c, from).rest > 0
        /\ InfoAt(c, "info")'.seed = InfoAt(c, from).seed
        /\ InfoAt(c, "info")'.index >= InfoAt(c, from).index
        /\ InfoAt(c, "info")'.index + InfoAt(c, "info")'.rest
             = InfoAt(c, from).index + InfoAt(c, from).rest
    BY <1>2, <1>5
  <2>2. RangesAreSaved /\ RangesAreDisjoint
    BY DEF FirstSeedInv
  <2> QED BY <1>2, <1>3, <1>4, <1>5, <2>1, <2>2, RangeMoves
<1>7. info.seed = FirstSeed /\ info.index + info.rest <= guid_config.index
  BY <1>2, <1>5 DEF FirstSeedInv, RangesAreSaved
<1>8. info.index \in 0 .. guid_config.index - 1 /\ info.index \in 0 .. MaxIndex
  BY <1>5, <1>7, MaxIndexAssumption
  DEF FirstSeedInv, GuidServiceTypeOK, GuidCfg
<1>9. guid' = FirstGuid(info.index) /\ guid' # NoGuid
  BY <1>4, <1>7, <1>8, FirstGuidIsWhole
<1>10. info.index \in Indices(info)
  BY <1>5 DEF Indices
<1>11. \A d \in Client, p \in Place : info.index \notin Indices(InfoAt(d, p))'
  <2> TAKE d \in Client, p \in Place
  <2>1. CASE d = c /\ p = "info"
    <3>1. Indices(InfoAt(c, "info"))'
            = info.index + 1 .. info.index + 1 + (info.rest - 1) - 1
      BY <1>5 DEF Indices
    <3>2. info.index \notin
            info.index + 1 .. info.index + 1 + (info.rest - 1) - 1
      BY <1>5
    <3> QED BY <2>1, <3>1, <3>2
  <2>2. CASE d = c /\ p = from /\ p # "info"
    <3>1. InfoAt(c, from)' = NoGuidInfo
      BY <1>3, <2>2
    <3>2. Indices(InfoAt(c, from))' = {}
      BY <3>1 DEF Indices, NoGuidInfo
    <3> QED BY <2>2, <3>2
  <2>3. CASE <<d, p>> # <<c, "info">> /\ <<d, p>> # <<c, from>>
    <3>1. Indices(info) \cap Indices(InfoAt(d, p)) = {}
      BY <1>2, <1>5, <2>3 DEF FirstSeedInv, RangesAreDisjoint
    <3> QED BY <1>6, <1>10, <2>3, <3>1
  <2> QED BY <2>1, <2>2, <2>3
<1>12. ASSUME NEW i,
              \A d \in Client, p \in Place : i \notin Indices(InfoAt(d, p))
       PROVE  /\ \A d \in Client, p \in Place :
                   i \notin Indices(InfoAt(d, p))'
              /\ FirstGuid(i) # guid'
  <2>1. \A d \in Client, p \in Place : i \notin Indices(InfoAt(d, p))'
    BY <1>2, <1>5, <1>6, <1>12
  <2>2. i # info.index
    BY <1>2, <1>5, <1>10, <1>12
  <2> QED BY <1>9, <2>1, <2>2 DEF FirstGuid
<1>13. ASSUME NEW g \in taken'
       PROVE  \E i \in 0 .. guid_config.index - 1 :
                /\ g = FirstGuid(i)
                /\ \A d \in Client, p \in Place : i \notin Indices(InfoAt(d, p))
  BY <1>4, <1>13 DEF FirstSeedInv, TakenAreGone
<1>14. NoGuidTwice'
  BY <1>12, <1>13 DEF NoGuidTwice
<1>15. TakenAreGone'
  <2>1. \E i \in 0 .. guid_config.index - 1 :
          /\ guid' = FirstGuid(i)
          /\ \A d \in Client, p \in Place : i \notin Indices(InfoAt(d, p))'
    BY <1>8, <1>9, <1>11
  <2>2. ASSUME NEW g \in taken'
        PROVE  \E i \in 0 .. guid_config.index - 1 :
                 /\ g = FirstGuid(i)
                 /\ \A d \in Client, p \in Place :
                      i \notin Indices(InfoAt(d, p))'
    BY <1>12, <1>13, <2>2
  <2> QED BY <1>4, <2>1, <2>2 DEF TakenAreGone
<1> QED BY <1>4, <1>6, <1>14, <1>15 DEF FirstSeedInv

(* The steps that only lose ranges, or leave them alone. *)
LEMMA RangesStayOrGo ==
  ASSUME GuidServiceTypeOK,
         \/ \E c \in Client : SendRequest(c) \/ ClientRestarts(c)
         \/ GuidsysStops
         \/ GuidsysStarts
         \/ AllocGuidInit
         \/ UNCHANGED vars
  PROVE  \A c \in Client, p \in Place :
           InfoAt(c, p)' = InfoAt(c, p) \/ InfoAt(c, p)' = NoGuidInfo
<1>1. \A c \in Client :
        /\ reply'[c] \in {reply[c], NoGuidInfo}
        /\ guid_info_que'[c] \in {guid_info_que[c], NoGuidInfo}
        /\ guid_info'[c] \in {guid_info[c], NoGuidInfo}
  <2>1. CASE \E d \in Client : ClientRestarts(d)
    BY <2>1 DEF ClientRestarts, GuidServiceTypeOK
  <2>2. CASE GuidsysStops
    BY <2>2 DEF GuidsysStops
  <2>3. CASE UNCHANGED rangeVars
    BY <2>3 DEF rangeVars
  <2>4. CASE \E d \in Client : SendRequest(d)
    BY <2>3, <2>4 DEF SendRequest
  <2>5. CASE GuidsysStarts \/ AllocGuidInit \/ UNCHANGED vars
    BY <2>3, <2>5 DEF GuidsysStarts, AllocGuidInit, vars
  <2> QED BY <2>1, <2>2, <2>4, <2>5
<1> QED BY <1>1 DEF InfoAt

LEMMA OtherStepsKeepRanges ==
  ASSUME GuidServiceTypeOK, FirstSeedInv,
         \/ \E c \in Client : SendRequest(c) \/ ClientRestarts(c)
         \/ GuidsysStops
         \/ GuidsysStarts
         \/ AllocGuidInit
         \/ UNCHANGED vars
  PROVE  FirstSeedInv'
<1>1. guid_config' = guid_config /\ UNCHANGED guidVars
  BY DEF SendRequest, ClientRestarts, GuidsysStops, GuidsysStarts,
         AllocGuidInit, vars, serverVars, guidVars
<1> QED BY <1>1, RangesStay, RangesStayOrGo

-----------------------------------------------------------------------------
(* get_guid never returns a GUID twice as long as the first seed lasts,    *)
(* whichever processes restart and whichever saves fail, if no client      *)
(* connects to a guidsys that is still starting.                           *)
THEOREM GuidsAreUnique ==
  ASSUME ~EarlyClients
  PROVE  Spec => []FirstSeedNoGuidTwice
<1>1. Init => RangeInv
  <2> SUFFICES ASSUME Init PROVE FirstSeedInv
    BY DEF RangeInv
  <2>1. \A c \in Client, p \in Place : InfoAt(c, p) = NoGuidInfo
    BY DEF Init, InfoAt
  <2>2. RangesAreSaved
    BY <2>1 DEF RangesAreSaved, NoGuidInfo
  <2>3. RangesAreDisjoint
    BY <2>1 DEF RangesAreDisjoint, Indices, NoGuidInfo
  <2>4. TakenAreGone /\ NoGuidTwice
    BY DEF Init, TakenAreGone, NoGuidTwice
  <2>5. guid_config.index <= MaxIndex
    BY FirstAssumption, MaxIndexAssumption DEF Init
  <2> QED BY <2>2, <2>3, <2>4, <2>5 DEF FirstSeedInv
<1>2. /\ GuidServiceTypeOK /\ GuidServiceTypeOK' /\ ServerInv
      /\ RangeInv /\ [Next]_vars
      => RangeInv'
  <2> SUFFICES ASSUME GuidServiceTypeOK, GuidServiceTypeOK', ServerInv,
                      RangeInv, [Next]_vars,
                      guid_config'.seed_value = FirstSeed
               PROVE  FirstSeedInv'
    BY DEF RangeInv
  <2>1. ASSUME NEW c \in Client, ProcessRequest(c)
        PROVE  FirstSeedInv'
    BY <2>1, ProcessRequestKeepsRanges, Zenon
  <2>2. ASSUME guid_config' = guid_config
        PROVE  FirstSeedInv
    <3>1. guid_config.seed_value = FirstSeed
      BY <2>2
    <3> QED BY <3>1 DEF RangeInv
  <2>3. ASSUME NEW c \in Client, ReceiveReply(c)
        PROVE  FirstSeedInv'
    BY <2>2, <2>3, ReceiveReplyKeepsRanges DEF ReceiveReply, serverVars
  <2>4. ASSUME NEW c \in Client, GetGuid(c)
        PROVE  FirstSeedInv'
    BY <2>2, <2>4, GetGuidKeepsRanges DEF GetGuid, serverVars
  <2>5. CASE \/ \E c \in Client : SendRequest(c) \/ ClientRestarts(c)
             \/ GuidsysStops \/ GuidsysStarts \/ AllocGuidInit
             \/ UNCHANGED vars
    <3>1. guid_config' = guid_config
      BY <2>5 DEF SendRequest, ClientRestarts, GuidsysStops, GuidsysStarts,
                  AllocGuidInit, vars, serverVars
    <3> QED BY <2>2, <2>5, <3>1, OtherStepsKeepRanges
  <2> QED BY <2>1, <2>3, <2>4, <2>5 DEF Next
<1>3. RangeInv => FirstSeedNoGuidTwice
  BY DEF RangeInv, FirstSeedInv, FirstSeedNoGuidTwice
<1> QED
  BY <1>1, <1>2, <1>3, GuidServiceTypeCorrect, ServerInvariant, PTL DEF Spec

-----------------------------------------------------------------------------
(***************************************************************************)
(* The ranges of all seeds                                                 *)
(*                                                                         *)
(* The GUIDs of a range that are not among the last indices of a seed lie  *)
(* below the saved seed and index: the last range of a seed, which is      *)
(* given under the next, has last indices, but for what MAKE_GUID cuts     *)
(* down where it runs over the end, and that lies below the index at which *)
(* guidsys goes on under the next seed.                                    *)
(***************************************************************************)

(* What is assumed: no client connects to a guidsys that is still starting,*)
(* seeds keep to 8 bits, and no client asks for all indices at once.       *)
SeedsLast ==
  /\ ~EarlyClients
  /\ MaxSeed < SeedModulus
  /\ \A c \in Client : RequestNo[c] < MaxIndex

(* What guidsys is at. *)
IsCount(seed, index) ==
  /\ seed \in FirstSeed .. SeedModulus - 1
  /\ index \in 0 .. MaxIndex

CountInv ==
  /\ IsCount(guid_config.seed_value, guid_config.index)
  /\ guidsys_up /\ alloc_is_init => IsCount(m_seed, m_index)

(* A GUID that may be returned twice. *)
InLastRange(g) ==
  /\ g[1] # FirstSeed
  /\ \E c \in Client : g[2] + RequestNo[c] >= MaxIndex

(* A GUID below the saved configuration. *)
Passed(g) ==
  \E seed, index \in Nat :
    /\ g = <<seed, index>>
    /\ \/ seed < guid_config.seed_value
       \/ seed = guid_config.seed_value /\ index < guid_config.index

Guids(info) == {MakeGuid(info.seed, x) : x \in Indices(info)}

(* Ranges are no longer than what is asked for and begin below MaxIndex,   *)
(* so that the cut leaves their GUIDs different, ...                       *)
IsShort(info) ==
  /\ info.seed \in 0 .. SeedModulus - 1
  /\ info.rest <= MaxIndex
  /\ info.index + info.rest <= MaxIndex + MaxIndex

RangesAreShort ==
  \A c \in Client, p \in Place :
    InfoAt(c, p).rest > 0 => IsShort(InfoAt(c, p))

(* ... they are passed, ... *)
RangesArePassed ==
  \A c \in Client, p \in Place :
    \A g \in Guids(InfoAt(c, p)) : InLastRange(g) \/ Passed(g)

(* ... and have no GUID in common. *)
GuidsAreDisjoint ==
  \A c, d \in Client, p, q \in Place :
    <<c, p>> # <<d, q>> =>
      \A g \in Guids(InfoAt(c, p)) \cap Guids(InfoAt(d, q)) : InLastRange(g)

(* A GUID that is passed and in no range any more. *)
IsGone(g) ==
  /\ Passed(g)
  /\ \A c \in Client, p \in Place : g \notin Guids(InfoAt(c, p))

GuidsAreGone ==
  /\ guid # NoGuid => InLastRange(guid) \/ IsGone(guid)
  /\ \A g \in taken : InLastRange(g) \/ IsGone(g)

TakenOnce == guid \in taken => InLastRange(guid)

GuidInv ==
  /\ RangesAreShort
  /\ RangesArePassed
  /\ GuidsAreDisjoint
  /\ GuidsAreGone
  /\ TakenOnce

-----------------------------------------------------------------------------
(* guidsys keeps to the indices there are and to seeds of 8 bits. *)
LEMMA CountInvariant ==
  ASSUME SeedsLast
  PROVE  Spec => []CountInv
<1> USE DEF IsCount
<1>1. Init => CountInv
  BY FirstAssumption, SeedModulusAssumption, MaxIndexAssumption
  DEF Init, CountInv
<1>2. /\ GuidServiceTypeOK /\ ServerInv /\ CountInv /\ [Next]_vars
      => CountInv'
  <2> SUFFICES ASSUME GuidServiceTypeOK, ServerInv, CountInv, [Next]_vars
               PROVE  CountInv'
    OBVIOUS
  <2>1. ASSUME NEW c \in Client, ProcessRequest(c)
        PROVE  CountInv'
    <3>1. guidsys_up /\ alloc_is_init /\ IsCount(m_seed, m_index)
      BY <2>1 DEF ProcessRequest, ServerInv, CountInv
    <3>2. PICK no \in Nat : no = RequestNo[c] /\ no < MaxIndex
      BY RequestNoAssumption DEF SeedsLast
    <3>3. m_seed' \in FirstSeed .. SeedModulus - 1
      <4>1. CASE SeedIsFinished(no)
        <5>1. m_seed < MaxSeed /\ m_seed' = m_seed + 1
          BY <2>1, <3>2, <4>1 DEF ProcessRequest, NextSeed
        <5> QED
          BY <3>1, <5>1, FirstAssumption, SeedModulusAssumption,
             MaxSeedAssumption
          DEF SeedsLast
      <4>2. CASE ~SeedIsFinished(no)
        BY <2>1, <3>1, <3>2, <4>2 DEF ProcessRequest, NextSeed
      <4> QED BY <4>1, <4>2
    <3>4. m_index' \in 0 .. MaxIndex
      <4>1. m_index' = IF m_index + no >= MaxIndex THEN 1 + no
                       ELSE m_index + no
        BY <2>1, <3>2 DEF ProcessRequest, NextIndex, SeedIsFinished
      <4> QED BY <3>1, <3>2, <4>1, MaxIndexAssumption
    <3>5. \/ guid_config' = guid_config
          \/ guid_config' = [seed_value |-> m_seed', index |-> m_index']
      BY <2>1 DEF ProcessRequest
    <3> QED BY <3>3, <3>4, <3>5 DEF CountInv
  <2>2. ASSUME UNCHANGED <<m_seed, m_index, guid_config, guidsys_up,
                           alloc_is_init>>
        PROVE  CountInv'
    BY <2>2 DEF CountInv
  <2>3. ASSUME NEW c \in Client,
               SendRequest(c) \/ ReceiveReply(c) \/ GetGuid(c)
                 \/ ClientRestarts(c)
        PROVE  CountInv'
    BY <2>2, <2>3
    DEF SendRequest, ReceiveReply, GetGuid, ClientRestarts, serverVars,
        startVars
  <2>4. CASE GuidsysStops
    BY <2>4 DEF GuidsysStops, CountInv
  <2>5. CASE GuidsysStarts
    BY <2>5 DEF GuidsysStarts, CountInv
  <2>6. CASE AllocGuidInit
    BY <2>6 DEF AllocGuidInit, CountInv, ServerInv
  <2>7. CASE UNCHANGED vars
    BY <2>2, <2>7 DEF vars, serverVars, startVars
  <2> QED BY <2>1, <2>3, <2>4, <2>5, <2>6, <2>7 DEF Next
<1> QED
  BY <1>1, <1>2, GuidServiceTypeCorrect, ServerInvariant, PTL
  DEF Spec, SeedsLast

(* Below MaxIndex nothing is cut; what runs over the end starts at 0. *)
LEMMA MakeGuidCuts ==
  ASSUME NEW s \in 0 .. SeedModulus - 1, NEW x \in Nat,
         x <= MaxIndex + MaxIndex
  PROVE  MakeGuid(s, x) =
           <<s, IF x <= MaxIndex THEN x ELSE x - MaxIndex - 1>>
<1>1. s % SeedModulus = s
  BY SeedModulusAssumption
<1>2. PICK m \in Nat : m = MaxIndex + 1 /\ m > 0
  BY MaxIndexAssumption
<1>3. CASE x <= MaxIndex
  <2>1. x % m = x
    BY <1>2, <1>3, MaxIndexAssumption
  <2> QED BY <1>1, <1>2, <1>3, <2>1 DEF MakeGuid
<1>4. CASE ~(x <= MaxIndex)
  <2>1. PICK y \in Nat : y = x - MaxIndex - 1 /\ x = y + m /\ y < m
    BY <1>2, <1>4, MaxIndexAssumption
  <2>2. (y + m) % m = y
    BY <1>2, <2>1
  <2> QED BY <1>1, <1>2, <1>4, <2>1, <2>2 DEF MakeGuid
<1> QED BY <1>3, <1>4

(* The GUIDs of a range are different. *)
LEMMA GuidsOfRangeDiffer ==
  ASSUME NEW s \in 0 .. SeedModulus - 1, NEW x \in Nat, NEW y \in Nat,
         x < y, y - x <= MaxIndex, y <= MaxIndex + MaxIndex
  PROVE  MakeGuid(s, x) # MakeGuid(s, y)
<1>1. x <= MaxIndex + MaxIndex
  BY MaxIndexAssumption
<1>2. /\ MakeGuid(s, x) =
           <<s, IF x <= MaxIndex THEN x ELSE x - MaxIndex - 1>>
      /\ MakeGuid(s, y) =
           <<s, IF y <= MaxIndex THEN y ELSE y - MaxIndex - 1>>
  BY <1>1, MakeGuidCuts
<1>3. (IF x <= MaxIndex THEN x ELSE x - MaxIndex - 1)
        # (IF y <= MaxIndex THEN y ELSE y - MaxIndex - 1)
  BY MaxIndexAssumption
<1> QED BY <1>2, <1>3

LEMMA EmptyHasNoGuids ==
  ASSUME NEW info \in GuidInfo, info.rest = 0
  PROVE  Guids(info) = {}
<1>1. Indices(info) = {}
  BY DEF Indices, GuidInfo
<1> QED BY <1>1 DEF Guids

(* A range, or the end of one, that moves from one place of a client to    *)
(* another, or stays where it is, while others stay or are thrown away.    *)
LEMMA GuidsMove ==
  ASSUME GuidServiceTypeOK, GuidServiceTypeOK',
         RangesAreShort, RangesArePassed, GuidsAreDisjoint,
         guid_config' = guid_config,
         NEW c \in Client, NEW from \in Place, NEW to \in Place,
         InfoAt(c, to)'.rest > 0 =>
           /\ InfoAt(c, from).rest > 0
           /\ InfoAt(c, to)'.seed = InfoAt(c, from).seed
           /\ InfoAt(c, to)'.index >= InfoAt(c, from).index
           /\ InfoAt(c, to)'.index + InfoAt(c, to)'.rest
                = InfoAt(c, from).index + InfoAt(c, from).rest,
         from # to => InfoAt(c, from)' = NoGuidInfo,
         \A d \in Client, p \in Place :
           <<d, p>> # <<c, to>> =>
             InfoAt(d, p)' = InfoAt(d, p) \/ InfoAt(d, p)' = NoGuidInfo
  PROVE  /\ RangesAreShort'
         /\ RangesArePassed'
         /\ GuidsAreDisjoint'
         /\ Guids(InfoAt(c, to))' \subseteq Guids(InfoAt(c, from))
         /\ \A d \in Client, p \in Place :
              <<d, p>> # <<c, to>> =>
                Guids(InfoAt(d, p))' \subseteq Guids(InfoAt(d, p))
<1>1. InfoAt(c, from) \in GuidInfo /\ InfoAt(c, to)' \in GuidInfo
  BY InfoAtType DEF GuidServiceTypeOK, InfoAt
<1>2. PICK old \in GuidInfo, new \in GuidInfo :
        old = InfoAt(c, from) /\ new = InfoAt(c, to)'
  BY <1>1
<1>3. /\ old.seed \in Nat /\ old.index \in Nat /\ old.rest \in Nat
      /\ new.seed \in Nat /\ new.index \in Nat /\ new.rest \in Nat
  BY DEF GuidInfo
<1>4. new.rest > 0 =>
        /\ old.rest > 0 /\ new.seed = old.seed /\ new.index >= old.index
        /\ new.index + new.rest = old.index + old.rest
  BY <1>2
<1>5. Guids(new) \subseteq Guids(old)
  <2>1. CASE new.rest = 0
    BY <2>1, EmptyHasNoGuids
  <2>2. CASE new.rest > 0
    <3>1. Indices(new) \subseteq Indices(old)
      BY <1>3, <1>4, <2>2 DEF Indices
    <3> QED BY <1>4, <2>2, <3>1 DEF Guids
  <2> QED BY <1>3, <2>1, <2>2
<1>6. Guids(InfoAt(c, to))' = Guids(new)
  BY <1>2 DEF Guids, Indices
<1>7. Guids(InfoAt(c, to))' \subseteq Guids(InfoAt(c, from))
  BY <1>2, <1>5, <1>6
<1>8. NoGuidInfo \in GuidInfo /\ NoGuidInfo.rest = 0
  BY DEF NoGuidInfo, GuidInfo
<1>9. ASSUME NEW d \in Client, NEW p \in Place, InfoAt(d, p)' = NoGuidInfo
      PROVE  Guids(InfoAt(d, p))' = {}
  <2>1. Guids(InfoAt(d, p))' = Guids(NoGuidInfo)
    BY <1>9 DEF Guids, Indices
  <2> QED BY <1>8, <2>1, EmptyHasNoGuids
<1>10. ASSUME NEW d \in Client, NEW p \in Place, <<d, p>> # <<c, to>>
       PROVE  Guids(InfoAt(d, p))' \subseteq Guids(InfoAt(d, p))
  <2>1. CASE InfoAt(d, p)' = NoGuidInfo
    BY <1>9, <2>1
  <2>2. CASE InfoAt(d, p)' = InfoAt(d, p)
    BY <2>2 DEF Guids, Indices
  <2> QED BY <1>10, <2>1, <2>2
<1>11. ASSUME NEW d \in Client, NEW p \in Place, <<d, p>> # <<c, to>>
       PROVE  \A g \in Guids(InfoAt(c, to))' \cap Guids(InfoAt(d, p))' :
                InLastRange(g)
  <2>1. CASE <<d, p>> = <<c, from>>
    <3>1. InfoAt(d, p)' = NoGuidInfo
      BY <1>11, <2>1
    <3> QED BY <1>9, <3>1
  <2>2. CASE <<d, p>> # <<c, from>>
    <3>1. \A g \in Guids(InfoAt(c, from)) \cap Guids(InfoAt(d, p)) :
            InLastRange(g)
      BY <2>2 DEF GuidsAreDisjoint
    <3> QED BY <1>7, <1>10, <1>11, <3>1
  <2> QED BY <2>1, <2>2
<1>12. GuidsAreDisjoint'
  <2> SUFFICES ASSUME NEW d \in Client, NEW e \in Client,
                      NEW p \in Place, NEW q \in Place, <<d, p>> # <<e, q>>,
                      NEW g \in Guids(InfoAt(d, p))' \cap Guids(InfoAt(e, q))'
               PROVE  InLastRange(g)
    BY DEF GuidsAreDisjoint, InLastRange
  <2>1. CASE d = c /\ p = to
    BY <1>11, <2>1
  <2>2. CASE e = c /\ q = to
    BY <1>11, <2>2
  <2>3. CASE ~(d = c /\ p = to) /\ ~(e = c /\ q = to)
    <3>1. g \in Guids(InfoAt(d, p)) \cap Guids(InfoAt(e, q))
      BY <1>10, <2>3
    <3> QED BY <3>1 DEF GuidsAreDisjoint
  <2> QED BY <2>1, <2>2, <2>3
<1>13. RangesArePassed'
  <2> SUFFICES ASSUME NEW d \in Client, NEW p \in Place,
                      NEW g \in Guids(InfoAt(d, p))'
               PROVE  InLastRange(g) \/ Passed(g)
    BY DEF RangesArePassed, InLastRange, Passed
  <2>1. g \in Guids(InfoAt(d, p)) \/ g \in Guids(InfoAt(c, from))
    BY <1>7, <1>10
  <2> QED BY <2>1 DEF RangesArePassed
<1>14. RangesAreShort'
  <2> SUFFICES ASSUME NEW d \in Client, NEW p \in Place, InfoAt(d, p)'.rest > 0
               PROVE  IsShort(InfoAt(d, p)')
    BY DEF RangesAreShort, IsShort
  <2>1. CASE d = c /\ p = to
    <3>1. IsShort(old) /\ new.rest > 0
      BY <1>2, <1>4, <2>1 DEF RangesAreShort
    <3>2. IsShort(new)
      BY <1>3, <1>4, <3>1, MaxIndexAssumption DEF IsShort
    <3> QED BY <1>2, <2>1, <3>2
  <2>2. CASE ~(d = c /\ p = to)
    <3>1. InfoAt(d, p)' = InfoAt(d, p)
      BY <1>8, <2>2
    <3> QED BY <3>1 DEF RangesAreShort
  <2> QED BY <2>1, <2>2
<1> QED BY <1>7, <1>10, <1>12, <1>13, <1>14

(* A GUID taken does not come back, when no GUID that is gone does. *)
LEMMA TakenStayTaken ==
  ASSUME GuidsAreGone, TakenOnce, UNCHANGED guidVars,
         \A g : IsGone(g) => IsGone(g)'
  PROVE  GuidsAreGone' /\ TakenOnce'
<1>1. guid' = guid /\ taken' = taken
  BY DEF guidVars
<1>2. \A g : InLastRange(g) \/ IsGone(g) => (InLastRange(g) \/ IsGone(g)')
  OBVIOUS
<1>3. GuidsAreGone'
  BY <1>1, <1>2 DEF GuidsAreGone, InLastRange
<1>4. TakenOnce'
  BY <1>1 DEF TakenOnce, InLastRange
<1> QED BY <1>3, <1>4

(* The range received moves from the reply to the queue, and everything    *)
(* else stays; or ranges are thrown away.                                  *)
LEMMA MovesKeepGuids ==
  ASSUME GuidServiceTypeOK, GuidServiceTypeOK', GuidInv,
         guid_config' = guid_config, UNCHANGED guidVars,
         NEW c \in Client, NEW from \in Place, NEW to \in Place,
         InfoAt(c, to)' \in {InfoAt(c, from), NoGuidInfo},
         from # to => InfoAt(c, from)' = NoGuidInfo,
         \A d \in Client, p \in Place :
           <<d, p>> # <<c, to>> =>
             InfoAt(d, p)' = InfoAt(d, p) \/ InfoAt(d, p)' = NoGuidInfo
  PROVE  GuidInv'
<1>1. /\ RangesAreShort /\ RangesArePassed /\ GuidsAreDisjoint
      /\ GuidsAreGone /\ TakenOnce
  BY DEF GuidInv
<1>2. InfoAt(c, from) \in GuidInfo
  BY InfoAtType
<1>3. InfoAt(c, to)'.rest > 0 =>
        /\ InfoAt(c, from).rest > 0
        /\ InfoAt(c, to)'.seed = InfoAt(c, from).seed
        /\ InfoAt(c, to)'.index >= InfoAt(c, from).index
        /\ InfoAt(c, to)'.index + InfoAt(c, to)'.rest
             = InfoAt(c, from).index + InfoAt(c, from).rest
  <2>1. CASE InfoAt(c, to)' = NoGuidInfo
    BY <2>1 DEF NoGuidInfo
  <2>2. CASE InfoAt(c, to)' = InfoAt(c, from)
    BY <1>2, <2>2 DEF GuidInfo
  <2> QED BY <2>1, <2>2
<1>4. /\ RangesAreShort'
      /\ RangesArePassed'
      /\ GuidsAreDisjoint'
      /\ Guids(InfoAt(c, to))' \subseteq Guids(InfoAt(c, from))
      /\ \A d \in Client, p \in Place :
           <<d, p>> # <<c, to>> =>
             Guids(InfoAt(d, p))' \subseteq Guids(InfoAt(d, p))
  BY <1>1, <1>3, GuidsMove
<1>5. ASSUME NEW g, IsGone(g)
      PROVE  IsGone(g)'
  <2>1. ASSUME NEW d \in Client, NEW p \in Place
        PROVE  g \notin Guids(InfoAt(d, p))'
    <3>1. CASE d = c /\ p = to
      BY <1>4, <1>5, <3>1 DEF IsGone
    <3>2. CASE <<d, p>> # <<c, to>>
      BY <1>4, <1>5, <3>2 DEF IsGone
    <3> QED BY <3>1, <3>2
  <2>2. Passed(g)'
    BY <1>5 DEF IsGone, Passed
  <2> QED BY <2>1, <2>2 DEF IsGone
<1>6. GuidsAreGone' /\ TakenOnce'
  BY <1>1, <1>5, TakenStayTaken
<1> QED BY <1>4, <1>6 DEF GuidInv

(* The GUIDs of a range that is returned are not passed, and are passed by *)
(* the configuration that is saved before.                                 *)
LEMMA NewRangeIsNew ==
  ASSUME SeedsLast, GuidServiceTypeOK, ServerInv, CountInv,
         NEW c \in Client, ProcessRequest(c),
         NEW x \in Nat, m_index <= x, x < m_index + RequestNo[c]
  PROVE  LET g == MakeGuid(m_seed', x)
         IN  \/ InLastRange(g)
             \/ /\ ~Passed(g)
                /\ \E y \in Nat : g = <<m_seed', y>> /\ y < m_index'
<1> DEFINE g == MakeGuid(m_seed', x)
<1>1. guidsys_up /\ alloc_is_init
  BY DEF ProcessRequest, ServerInv
<1>2. PICK no \in Nat : no = RequestNo[c] /\ no < MaxIndex
  BY RequestNoAssumption DEF SeedsLast
<1>3. PICK s \in Nat, a \in Nat, t \in Nat, i \in Nat, m \in Nat :
        /\ s = m_seed /\ a = m_index
        /\ t = guid_config.seed_value /\ i = guid_config.index
        /\ m = MaxIndex
  BY MaxIndexAssumption DEF GuidServiceTypeOK, GuidCfg
<1>4. /\ a <= m /\ s \in FirstSeed .. SeedModulus - 1
      /\ t <= s /\ (s = t => i <= a)
  BY <1>1, <1>3 DEF CountInv, IsCount, ServerInv
<1>5. x <= m + m /\ x \in Nat /\ a <= x /\ x < a + no
  BY <1>2, <1>3, <1>4
<1>6. CASE SeedIsFinished(no)
  <2>1. /\ m_seed' = s + 1 /\ m_index' = 1 + no /\ s < MaxSeed /\ a + no >= m
    BY <1>2, <1>3, <1>6 DEF ProcessRequest, NextSeed, NextIndex, SeedIsFinished
  <2>2. /\ s + 1 \in 0 .. SeedModulus - 1
        /\ s + 1 # FirstSeed
    BY <1>3, <1>4, <2>1, FirstAssumption, SeedModulusAssumption,
       MaxSeedAssumption DEF SeedsLast
  <2>3. g = <<s + 1, IF x <= m THEN x ELSE x - m - 1>>
    BY <1>3, <1>5, <2>1, <2>2, MakeGuidCuts
  <2>4. CASE x <= m
    <3>1. g[1] # FirstSeed /\ g[2] + RequestNo[c] >= MaxIndex
      BY <1>2, <1>3, <1>5, <2>1, <2>2, <2>3, <2>4
    <3> QED BY <3>1 DEF InLastRange
  <2>5. CASE ~(x <= m)
    <3>1. g = <<s + 1, x - m - 1>>
      BY <2>3, <2>5
    <3>2. x - m - 1 \in Nat /\ x - m - 1 < 1 + no
      BY <1>2, <1>3, <1>4, <1>5, <2>5
    <3>3. ~(s + 1 < t) /\ s + 1 # t
      BY <1>3, <1>4
    <3>4. ~Passed(g)
      BY <1>3, <3>1, <3>3 DEF Passed
    <3> QED BY <2>1, <3>1, <3>2, <3>4
  <2> QED BY <2>4, <2>5
<1>7. CASE ~SeedIsFinished(no)
  <2>1. m_seed' = s /\ m_index' = a + no /\ a + no < m
    BY <1>2, <1>3, <1>7 DEF ProcessRequest, NextSeed, NextIndex, SeedIsFinished
  <2>2. s \in 0 .. SeedModulus - 1
    BY <1>4, FirstAssumption, SeedModulusAssumption
  <2>3. x <= m
    BY <1>5, <2>1
  <2>4. g = <<s, x>>
    BY <1>3, <1>5, <2>1, <2>2, <2>3, MakeGuidCuts
  <2>6. ~(s < t) /\ ~(s = t /\ x < i)
    BY <1>3, <1>4, <1>5
  <2>7. ~Passed(g)
    BY <1>3, <2>4, <2>6 DEF Passed
  <2> QED BY <1>5, <2>1, <2>4, <2>7
<1> QED BY <1>6, <1>7

LEMMA ProcessRequestKeepsGuids ==
  ASSUME SeedsLast, GuidServiceTypeOK, GuidServiceTypeOK', ServerInv,
         CountInv, CountInv', GuidInv,
         NEW c \in Client, ProcessRequest(c)
  PROVE  GuidInv'
<1> DEFINE no == RequestNo[c]
<1>1. UNCHANGED <<guidVars, guid_info_que, guid_info>>
  BY DEF ProcessRequest
<1>2. CASE guid_config' = guid_config /\ reply' = reply
  <2>1. \A d \in Client, p \in Place : InfoAt(d, p)' = InfoAt(d, p)
    BY <1>1, <1>2 DEF InfoAt
  <2>2. "reply" \in Place
    BY DEF Place
  <2> QED BY <1>1, <1>2, <2>1, <2>2, MovesKeepGuids
<1>3. CASE /\ guid_config' = [seed_value |-> m_seed', index |-> m_index']
           /\ reply' = [reply EXCEPT ![c] =
                          [seed |-> m_seed', index |-> m_index, rest |-> no]]
  <2>1. /\ no \in Nat /\ no > 0 /\ no < MaxIndex
        /\ m_index \in 0 .. MaxIndex
        /\ m_seed' \in 0 .. SeedModulus - 1
    <3>1. no \in Nat /\ no > 0 /\ no < MaxIndex
      BY RequestNoAssumption DEF SeedsLast
    <3>2. m_index \in 0 .. MaxIndex
      BY DEF ProcessRequest, ServerInv, CountInv, IsCount
    <3>3. m_seed' \in 0 .. SeedModulus - 1
      BY <1>3, FirstAssumption, SeedModulusAssumption DEF CountInv, IsCount
    <3> QED BY <3>1, <3>2, <3>3
  <2>2. /\ InfoAt(c, "reply")' =
             [seed |-> m_seed', index |-> m_index, rest |-> no]
        /\ \A d \in Client, p \in Place :
             <<d, p>> # <<c, "reply">> => InfoAt(d, p)' = InfoAt(d, p)
    BY <1>1, <1>3 DEF InfoAt, Place, GuidServiceTypeOK
  <2>3. ASSUME NEW g \in Guids(InfoAt(c, "reply"))', ~InLastRange(g)
        PROVE  ~Passed(g) /\ Passed(g)'
    <3>1. PICK x \in m_index .. m_index + no - 1 : g = MakeGuid(m_seed', x)
      BY <2>2, <2>3 DEF Guids, Indices
    <3>2. x \in Nat /\ m_index <= x /\ x < m_index + no
      BY <2>1
    <3>3. /\ ~Passed(g)
          /\ \E y \in Nat : g = <<m_seed', y>> /\ y < m_index'
      BY <2>3, <3>1, <3>2, NewRangeIsNew
    <3>4. m_seed' \in Nat
      BY DEF GuidServiceTypeOK
    <3> QED BY <1>3, <3>3, <3>4 DEF Passed
  <2>4. ASSUME NEW g, Passed(g)
        PROVE  Passed(g)'
    <3>1. PICK t \in Nat, i \in Nat, s \in Nat, a \in Nat :
            /\ t = guid_config.seed_value /\ i = guid_config.index
            /\ s = m_seed' /\ a = m_index'
      BY DEF GuidServiceTypeOK, GuidCfg
    <3>2. t < s \/ (t = s /\ i <= a)
      BY <2>1, <3>1
      DEF ProcessRequest, NextSeed, NextIndex, ServerInv, GuidServiceTypeOK
    <3>3. guid_config'.seed_value = s /\ guid_config'.index = a
      BY <1>3, <3>1
    <3>4. PICK seed \in Nat, index \in Nat :
            /\ g = <<seed, index>>
            /\ seed < t \/ (seed = t /\ index < i)
      BY <2>4, <3>1 DEF Passed
    <3>5. seed < s \/ (seed = s /\ index < a)
      BY <3>2, <3>4
    <3> QED BY <3>3, <3>4, <3>5 DEF Passed
  <2>5. ASSUME NEW d \in Client, NEW p \in Place, <<d, p>> # <<c, "reply">>
        PROVE  Guids(InfoAt(d, p))' = Guids(InfoAt(d, p))
    BY <2>2, <2>5 DEF Guids, Indices
  <2>6. ASSUME NEW d \in Client, NEW p \in Place, <<d, p>> # <<c, "reply">>,
               NEW g \in Guids(InfoAt(d, p))'
        PROVE  InLastRange(g) \/ (Passed(g) /\ Passed(g)')
    <3>1. InLastRange(g) \/ Passed(g)
      BY <2>5, <2>6 DEF GuidInv, RangesArePassed
    <3> QED BY <2>4, <3>1
  <2>7. RangesAreShort'
    <3>1. IsShort(InfoAt(c, "reply")')
      BY <2>1, <2>2, MaxIndexAssumption DEF IsShort
    <3> QED BY <2>2, <3>1 DEF GuidInv, RangesAreShort, IsShort
  <2>8. RangesArePassed'
    <3> SUFFICES ASSUME NEW d \in Client, NEW p \in Place,
                        NEW g \in Guids(InfoAt(d, p))'
                 PROVE  InLastRange(g) \/ Passed(g)'
      BY DEF RangesArePassed, InLastRange
    <3>1. CASE d = c /\ p = "reply"
      BY <2>3, <3>1
    <3>2. CASE <<d, p>> # <<c, "reply">>
      BY <2>6, <3>2
    <3> QED BY <3>1, <3>2
  <2>9. GuidsAreDisjoint'
    <3> SUFFICES ASSUME NEW d \in Client, NEW e \in Client,
                        NEW p \in Place, NEW q \in Place, <<d, p>> # <<e, q>>,
                        NEW g \in Guids(InfoAt(d, p))'
                                  \cap Guids(InfoAt(e, q))'
                 PROVE  InLastRange(g)
      BY DEF GuidsAreDisjoint, InLastRange
    <3>1. CASE d = c /\ p = "reply"
      <4>1. <<e, q>> # <<c, "reply">>
        BY <3>1
      <4> QED BY <2>3, <2>6, <3>1, <4>1
    <3>2. CASE e = c /\ q = "reply"
      <4>1. <<d, p>> # <<c, "reply">>
        BY <3>2
      <4> QED BY <2>3, <2>6, <3>2, <4>1
    <3>3. CASE <<d, p>> # <<c, "reply">> /\ <<e, q>> # <<c, "reply">>
      BY <2>5, <3>3 DEF GuidInv, GuidsAreDisjoint
    <3> QED BY <3>1, <3>2, <3>3
  <2>10. ASSUME NEW g, IsGone(g)
         PROVE  InLastRange(g) \/ IsGone(g)'
    <3> SUFFICES ASSUME ~InLastRange(g)
                 PROVE  IsGone(g)'
      OBVIOUS
    <3>1. Passed(g) /\ Passed(g)'
      BY <2>4, <2>10 DEF IsGone
    <3>2. ASSUME NEW d \in Client, NEW p \in Place
          PROVE  g \notin Guids(InfoAt(d, p))'
      <4>1. CASE d = c /\ p = "reply"
        BY <2>3, <3>1, <4>1
      <4>2. CASE <<d, p>> # <<c, "reply">>
        BY <2>5, <2>10, <4>2 DEF IsGone
      <4> QED BY <4>1, <4>2
    <3> QED BY <3>1, <3>2 DEF IsGone
  <2>11. guid' = guid /\ taken' = taken
    BY <1>1 DEF guidVars
  <2>12. GuidsAreGone'
    BY <2>10, <2>11 DEF GuidInv, GuidsAreGone, InLastRange
  <2>13. TakenOnce'
    BY <2>11 DEF GuidInv, TakenOnce, InLastRange
  <2> QED BY <2>7, <2>8, <2>9, <2>12, <2>13 DEF GuidInv
<1>4. \/ guid_config' = guid_config /\ reply' = reply
      \/ /\ guid_config' = [seed_value |-> m_seed', index |-> m_index']
         /\ reply' = [reply EXCEPT ![c] =
                        [seed |-> m_seed', index |-> m_index, rest |-> no]]
  BY DEF ProcessRequest
<1> QED BY <1>2, <1>3, <1>4

(* The GUID that get_guid returns leaves its range, and is in no other. *)
LEMMA GetGuidKeepsGuids ==
  ASSUME GuidServiceTypeOK, GuidServiceTypeOK', GuidInv,
         NEW c \in Client, GetGuid(c)
  PROVE  GuidInv'
<1>1. /\ RangesAreShort /\ RangesArePassed /\ GuidsAreDisjoint
      /\ GuidsAreGone /\ TakenOnce
  BY DEF GuidInv
<1>2. PICK from \in {"info", "queue"} :
        /\ InfoAt(c, from) = NextGuidInfo(c)
        /\ from = "info" <=> guid_info[c].rest > 0
        /\ InfoAt(c, from).rest > 0
  BY DEF GetGuid, HasGuid, NextGuidInfo, InfoAt
<1>3. PICK info \in GuidInfo : info = InfoAt(c, from)
  BY <1>2, InfoAtType DEF Place
<1>4. /\ InfoAt(c, "info")' =
           [info EXCEPT !.index = info.index + 1, !.rest = info.rest - 1]
      /\ from # "info" => InfoAt(c, from)' = NoGuidInfo
      /\ \A d \in Client, p \in Place :
           <<d, p>> \notin {<<c, from>>, <<c, "info">>}
             => InfoAt(d, p)' = InfoAt(d, p)
  <2>1. guid_info' = [guid_info EXCEPT ![c] =
          [info EXCEPT !.index = info.index + 1, !.rest = info.rest - 1]]
    BY <1>2, <1>3 DEF GetGuid
  <2>2. CASE from = "info"
    <3>1. guid_info_que' = guid_info_que /\ reply' = reply
      BY <1>2, <2>2 DEF GetGuid
    <3> QED BY <2>1, <2>2, <3>1 DEF InfoAt, Place, GuidServiceTypeOK
  <2>3. CASE from = "queue"
    <3>1. /\ guid_info_que' = [guid_info_que EXCEPT ![c] = NoGuidInfo]
          /\ reply' = reply
      BY <1>2, <2>3 DEF GetGuid
    <3> QED BY <2>1, <2>3, <3>1 DEF InfoAt, Place, GuidServiceTypeOK
  <2> QED BY <2>2, <2>3
<1>5. /\ guid_config' = guid_config
      /\ guid' = MakeGuid(info.seed, info.index)
      /\ taken' = taken \cup ({guid} \ {NoGuid})
  BY <1>2, <1>3 DEF GetGuid, serverVars
<1>6. /\ info.seed \in Nat /\ info.index \in Nat
      /\ info.rest \in Nat /\ info.rest > 0
      /\ from \in Place /\ "info" \in Place
  BY <1>2, <1>3 DEF GuidInfo, Place
<1>7. /\ InfoAt(c, "info")'.seed = info.seed
      /\ InfoAt(c, "info")'.index = info.index + 1
      /\ InfoAt(c, "info")'.rest = info.rest - 1
  BY <1>4, <1>6 DEF GuidInfo
<1>8. /\ RangesAreShort'
      /\ RangesArePassed'
      /\ GuidsAreDisjoint'
      /\ Guids(InfoAt(c, "info"))' \subseteq Guids(InfoAt(c, from))
      /\ \A d \in Client, p \in Place :
           <<d, p>> # <<c, "info">> =>
             Guids(InfoAt(d, p))' \subseteq Guids(InfoAt(d, p))
  <2>1. InfoAt(c, "info")'.rest > 0 =>
          /\ InfoAt(c, from).rest > 0
          /\ InfoAt(c, "info")'.seed = InfoAt(c, from).seed
          /\ InfoAt(c, "info")'.index >= InfoAt(c, from).index
          /\ InfoAt(c, "info")'.index + InfoAt(c, "info")'.rest
               = InfoAt(c, from).index + InfoAt(c, from).rest
    BY <1>3, <1>6, <1>7
  <2>2. \A d \in Client, p \in Place :
          <<d, p>> # <<c, "info">> =>
            InfoAt(d, p)' = InfoAt(d, p) \/ InfoAt(d, p)' = NoGuidInfo
    BY <1>4
  <2> QED BY <1>1, <1>4, <1>5, <1>6, <2>1, <2>2, GuidsMove
<1>9. guid' \in Guids(InfoAt(c, from))
  BY <1>3, <1>5, <1>6 DEF Guids, Indices
<1>10. InLastRange(guid') \/ Passed(guid')
  BY <1>1, <1>6, <1>9 DEF RangesArePassed
<1>11. ASSUME NEW d \in Client, NEW p \in Place, guid' \in Guids(InfoAt(d, p))'
       PROVE  InLastRange(guid')
  <2>1. CASE d = c /\ p = "info"
    <3>1. IsShort(info)
      BY <1>1, <1>3, <1>6 DEF RangesAreShort
    <3>2. PICK x \in info.index + 1 .. info.index + 1 + (info.rest - 1) - 1 :
            guid' = MakeGuid(info.seed, x)
      BY <1>7, <1>11, <2>1 DEF Guids, Indices
    <3>3. /\ info.seed \in 0 .. SeedModulus - 1 /\ x \in Nat /\ info.index < x
          /\ x - info.index <= MaxIndex /\ x <= MaxIndex + MaxIndex
      BY <1>6, <3>1, <3>2, MaxIndexAssumption DEF IsShort
    <3>4. MakeGuid(info.seed, info.index) # MakeGuid(info.seed, x)
      BY <1>6, <3>3, GuidsOfRangeDiffer
    <3> QED BY <1>5, <3>2, <3>4
  <2>2. CASE <<d, p>> = <<c, from>> /\ p # "info"
    <3>1. InfoAt(d, p)' = NoGuidInfo
      BY <1>4, <2>2
    <3>2. Indices(InfoAt(d, p))' = {}
      BY <3>1 DEF Indices, NoGuidInfo
    <3> QED BY <1>11, <3>2 DEF Guids
  <2>3. CASE <<d, p>> # <<c, "info">> /\ <<d, p>> # <<c, from>>
    <3>1. guid' \in Guids(InfoAt(d, p))
      BY <1>8, <1>11, <2>3
    <3> QED BY <1>1, <1>6, <1>9, <2>3, <3>1 DEF GuidsAreDisjoint
  <2> QED BY <2>1, <2>2, <2>3
<1>12. InLastRange(guid') \/ IsGone(guid)'
  <2>1. Passed(guid') => Passed(guid)'
    BY <1>5 DEF Passed
  <2> QED BY <1>10, <1>11, <2>1 DEF IsGone
<1>13. ASSUME NEW g, IsGone(g)
       PROVE  g # guid' /\ IsGone(g)'
  <2>1. g # guid'
    BY <1>6, <1>9, <1>13 DEF IsGone
  <2>2. Passed(g)'
    BY <1>5, <1>13 DEF IsGone, Passed
  <2>3. ASSUME NEW d \in Client, NEW p \in Place
        PROVE  g \notin Guids(InfoAt(d, p))'
    <3>1. CASE d = c /\ p = "info"
      BY <1>6, <1>8, <1>13, <3>1 DEF IsGone
    <3>2. CASE <<d, p>> # <<c, "info">>
      BY <1>8, <1>13, <3>2 DEF IsGone
    <3> QED BY <3>1, <3>2
  <2> QED BY <2>1, <2>2, <2>3 DEF IsGone
<1>14. ASSUME NEW g \in taken'
       PROVE  InLastRange(g) \/ IsGone(g)
  <2>1. g \in taken \/ (g = guid /\ guid # NoGuid)
    BY <1>5, <1>14
  <2> QED BY <1>1, <2>1 DEF GuidsAreGone
<1>15. TakenOnce'
  <2>1. guid' \in taken' => InLastRange(guid')
    BY <1>13, <1>14
  <2> QED BY <2>1 DEF TakenOnce, InLastRange
<1>16. GuidsAreGone'
  <2>1. InLastRange(guid)' \/ IsGone(guid)'
    BY <1>12 DEF InLastRange
  <2>2. (\A g \in taken : InLastRange(g) \/ IsGone(g))'
    <3> SUFFICES ASSUME NEW g \in taken' PROVE InLastRange(g) \/ IsGone(g)'
      BY DEF InLastRange
    <3> QED BY <1>13, <1>14
  <2> QED BY <2>1, <2>2 DEF GuidsAreGone
<1> QED BY <1>8, <1>15, <1>16 DEF GuidInv

(* Whatever clients ask for, whichever processes restart and whichever     *)
(* saves fail, a GUID that get_guid returns twice has one of the last      *)
(* indices of a seed that is not the first, if no client connects to a     *)
(* guidsys that is still starting, seeds keep to 8 bits, and a request     *)
(* is for less than all indices (a scene asks for 5000, charsys for 1000). *)
THEOREM OnlyLastRangesRepeat ==
  ASSUME SeedsLast
  PROVE  Spec => []OnlyLastRangesTwice
<1>1. Init => GuidInv
  <2> SUFFICES ASSUME Init PROVE GuidInv
    OBVIOUS
  <2>1. ASSUME NEW c \in Client, NEW p \in Place
        PROVE  InfoAt(c, p).rest = 0 /\ Guids(InfoAt(c, p)) = {}
    <3>1. InfoAt(c, p) = NoGuidInfo
      BY DEF Init, InfoAt
    <3>2. NoGuidInfo \in GuidInfo /\ NoGuidInfo.rest = 0
      BY DEF NoGuidInfo, GuidInfo
    <3> QED BY <3>1, <3>2, EmptyHasNoGuids
  <2>2. RangesAreShort
    BY <2>1 DEF RangesAreShort
  <2>3. RangesArePassed
    BY <2>1 DEF RangesArePassed
  <2>4. GuidsAreDisjoint
    BY <2>1 DEF GuidsAreDisjoint
  <2>5. GuidsAreGone /\ TakenOnce
    BY DEF Init, GuidsAreGone, TakenOnce
  <2> QED BY <2>2, <2>3, <2>4, <2>5 DEF GuidInv
<1>2. /\ GuidServiceTypeOK /\ GuidServiceTypeOK' /\ ServerInv
      /\ CountInv /\ CountInv' /\ GuidInv /\ [Next]_vars
      => GuidInv'
  <2> SUFFICES ASSUME GuidServiceTypeOK, GuidServiceTypeOK', ServerInv,
                      CountInv, CountInv', GuidInv, [Next]_vars
               PROVE  GuidInv'
    OBVIOUS
  <2>1. ASSUME NEW c \in Client, ProcessRequest(c)
        PROVE  GuidInv'
    BY <2>1, ProcessRequestKeepsGuids
  <2>2. ASSUME NEW c \in Client, GetGuid(c)
        PROVE  GuidInv'
    BY <2>2, GetGuidKeepsGuids
  <2>3. ASSUME NEW c \in Client, ReceiveReply(c)
        PROVE  GuidInv'
    <3>1. /\ InfoAt(c, "queue")' = InfoAt(c, "reply")
          /\ InfoAt(c, "reply")' = NoGuidInfo
          /\ \A d \in Client, p \in Place :
               <<d, p>> \notin {<<c, "reply">>, <<c, "queue">>}
                 => InfoAt(d, p)' = InfoAt(d, p)
      BY <2>3 DEF ReceiveReply, InfoAt, Place, GuidServiceTypeOK
    <3>2. guid_config' = guid_config /\ UNCHANGED guidVars
      BY <2>3 DEF ReceiveReply, serverVars
    <3>3. "reply" \in Place /\ "queue" \in Place
      BY DEF Place
    <3> QED BY <3>1, <3>2, <3>3, MovesKeepGuids
  <2>4. ASSUME guid_config' = guid_config, UNCHANGED guidVars,
               \A c \in Client, p \in Place :
                 InfoAt(c, p)' = InfoAt(c, p) \/ InfoAt(c, p)' = NoGuidInfo
        PROVE  GuidInv'
    <3>1. CASE Client = {}
      BY <2>4, <3>1
      DEF GuidInv, RangesAreShort, RangesArePassed, GuidsAreDisjoint,
          GuidsAreGone, TakenOnce, IsGone, Passed, InLastRange, guidVars
    <3>2. ASSUME NEW c \in Client
          PROVE  GuidInv'
      <4>1. "reply" \in Place
        BY DEF Place
      <4>2. InfoAt(c, "reply")' \in {InfoAt(c, "reply"), NoGuidInfo}
        BY <2>4, <4>1
      <4> QED BY <2>4, <4>1, <4>2, MovesKeepGuids
    <3> QED BY <3>1, <3>2
  <2>5. CASE \/ \E c \in Client : SendRequest(c) \/ ClientRestarts(c)
             \/ GuidsysStops \/ GuidsysStarts \/ AllocGuidInit
             \/ UNCHANGED vars
    <3>1. guid_config' = guid_config /\ UNCHANGED guidVars
      BY <2>5 DEF SendRequest, ClientRestarts, GuidsysStops, GuidsysStarts,
                  AllocGuidInit, vars, serverVars, guidVars
    <3>2. \A c \in Client, p \in Place :
            InfoAt(c, p)' = InfoAt(c, p) \/ InfoAt(c, p)' = NoGuidInfo
      BY <2>5, RangesStayOrGo
    <3> QED BY <2>4, <3>1, <3>2
  <2> QED BY <2>1, <2>2, <2>3, <2>5 DEF Next
<1>3. GuidInv => OnlyLastRangesTwice
  BY DEF GuidInv, TakenOnce, InLastRange, OnlyLastRangesTwice
<1> QED
  BY <1>1, <1>2, <1>3, GuidServiceTypeCorrect, ServerInvariant,
     CountInvariant, PTL
  DEF Spec, SeedsLast

=============================================================================
