----------------------------- MODULE GuidService -----------------------------
(***************************************************************************)
(* guidsys hands out ranges of GUIDs; a MakeGuid in each client (scene has *)
(* one, charsys two) takes GUIDs from its range, and keeps one more range  *)
(* ready.  A GUID is the seed and the index; the entity type above them is *)
(* left out, so that GUIDs differ whatever the clients use them for.       *)
(*                                                                         *)
(* guidsys has one input thread: a request is handled in one step.  A      *)
(* MakeGuid has the thread of svc, which talks to guidsys and fills        *)
(* m_guid_info_que, and the caller of get_guid, which empties it; they     *)
(* meet under the mutex of the queue.                                      *)
(***************************************************************************)
EXTENDS Integers

CONSTANTS
  Client,
  RequestNo,      \* [Client -> Nat]: m_request_no (scene 5000, charsys 1000)
  MaxIndex,       \* MAX_GUID_INDEX
  SeedModulus,    \* MAKE_GUID keeps 8 bits of the seed
  FirstSeed,      \* seed and index in guid_config.xml at first
  FirstIndex,
  SaveResults,    \* what writeGuidCfg may return
  EarlyClients,   \* whether clients connect to a guidsys that listens but
                  \* has not set its seed and index yet
  MaxSeed,        \* bound of the model: seeds begun
  MaxRestarts     \* bound of the model: ends of guidsys or of a client

ASSUME RequestNoAssumption == RequestNo \in [Client -> Nat \ {0}]
ASSUME MaxIndexAssumption == MaxIndex \in Nat
ASSUME SeedModulusAssumption == SeedModulus \in Nat \ {0}
ASSUME FirstAssumption == /\ FirstSeed \in 0 .. SeedModulus - 1
                          /\ FirstIndex \in 0 .. MaxIndex
ASSUME SaveResultsAssumption == SaveResults \subseteq BOOLEAN
ASSUME EarlyClientsAssumption == EarlyClients \in BOOLEAN
ASSUME MaxSeedAssumption == MaxSeed \in Nat
ASSUME MaxRestartsAssumption == MaxRestarts \in Nat

(* GuidInfo: the GUIDs from index on, rest of them.  None are left in a    *)
(* GuidInfo without rest, whatever its index.                              *)
GuidInfo == [seed : Nat, index : Nat, rest : Nat]
NoGuidInfo == [seed |-> 0, index |-> 0, rest |-> 0]

GuidCfg == [seed_value : Nat, index : Nat]

(* MAKE_GUID: the seed is cut to 8 bits, the index to 48. *)
MakeGuid(seed, index) == <<seed % SeedModulus, index % (MaxIndex + 1)>>
NoGuid == <<-1, -1>>

VARIABLES
  m_seed,          \* AllocGuid
  m_index,
  guid_config,     \* guid_config.xml
  m_guid_cfg,      \* ManageConfig::m_guid_cfg, as it was loaded
  guidsys_up,      \* guidsys listens
  alloc_is_init,   \* AllocGuid::init has been called
  connected,       \* [Client -> BOOLEAN]: m_sock_stream is open
  svc,             \* [Client -> ...]: where MakeGuid::svc is
  request,         \* clients whose SMSG_GUID_REQUEST is on its way
  reply,           \* [Client -> GuidInfo]: an SMSG_GUID_RETURN on its way
  guid_info_que,   \* [Client -> GuidInfo]: m_guid_info_que, one entry
  guid_info,       \* [Client -> GuidInfo]: m_guid_info
  guid,            \* the GUID get_guid returned last
  taken,           \* the GUIDs it returned before (history)
  restarts         \* (bound)

startVars == <<m_guid_cfg, guidsys_up, alloc_is_init>>
serverVars == <<m_seed, m_index, guid_config, startVars>>
linkVars == <<connected, request>>
rangeVars == <<reply, guid_info_que, guid_info>>
guidVars == <<guid, taken>>
vars == <<serverVars, linkVars, svc, rangeVars, guidVars, restarts>>

GuidServiceTypeOK ==
  /\ m_seed \in Nat
  /\ m_index \in Nat
  /\ guid_config \in GuidCfg
  /\ m_guid_cfg \in GuidCfg
  /\ guidsys_up \in BOOLEAN
  /\ alloc_is_init \in BOOLEAN
  /\ connected \in [Client -> BOOLEAN]
  /\ svc \in [Client -> {"idle", "receiving"}]
  /\ request \in SUBSET Client
  /\ reply \in [Client -> GuidInfo]
  /\ guid_info_que \in [Client -> GuidInfo]
  /\ guid_info \in [Client -> GuidInfo]
  /\ restarts \in Nat

Init ==
  /\ m_seed = FirstSeed
  /\ m_index = FirstIndex
  /\ guid_config = [seed_value |-> FirstSeed, index |-> FirstIndex]
  /\ m_guid_cfg = guid_config
  /\ guidsys_up = TRUE
  /\ alloc_is_init = TRUE
  /\ connected = [c \in Client |-> TRUE]
  /\ svc = [c \in Client |-> "idle"]
  /\ request = {}
  /\ reply = [c \in Client |-> NoGuidInfo]
  /\ guid_info_que = [c \in Client |-> NoGuidInfo]
  /\ guid_info = [c \in Client |-> NoGuidInfo]
  /\ guid = NoGuid
  /\ taken = {}
  /\ restarts = 0

-----------------------------------------------------------------------------
(* guidsys *)

(* generateGuid: the range begins at m_index; when the seed has too few    *)
(* left, the index starts again under the next seed, but the range keeps   *)
(* the start it had.                                                       *)
SeedIsFinished(request_no) == m_index + request_no >= MaxIndex

NextSeed(request_no) ==
  IF SeedIsFinished(request_no) THEN m_seed + 1 ELSE m_seed

NextIndex(request_no) ==
  IF SeedIsFinished(request_no) THEN 1 + request_no
  ELSE m_index + request_no

(* Mutant: the reply is sent whether or not the configuration is saved. *)
ProcessRequestUnsaved(c) ==
  LET request_no == RequestNo[c]
  IN  /\ guidsys_up
      /\ c \in request
      /\ m_seed < MaxSeed \/ ~SeedIsFinished(request_no)
      /\ request' = request \ {c}
      /\ m_seed' = NextSeed(request_no)
      /\ m_index' = NextIndex(request_no)
      /\ \E saved \in SaveResults :
           guid_config' = IF saved
                          THEN [seed_value |-> m_seed', index |-> m_index']
                          ELSE guid_config
      /\ reply' = [reply EXCEPT ![c] =
                     [seed |-> m_seed', index |-> m_index,
                      rest |-> request_no]]
      /\ UNCHANGED <<startVars, connected, svc, guid_info_que, guid_info,
                     guidVars, restarts>>

(* processRequest: the configuration is saved before the range is          *)
(* returned; if it cannot be saved there is no reply, and the range is     *)
(* skipped.                                                                *)
ProcessRequest(c) ==
  LET request_no == RequestNo[c]
  IN  /\ guidsys_up
      /\ c \in request
      /\ m_seed < MaxSeed \/ ~SeedIsFinished(request_no)
      /\ request' = request \ {c}
      /\ m_seed' = NextSeed(request_no)
      /\ m_index' = NextIndex(request_no)
      /\ \E saved \in SaveResults :
           IF saved
           THEN /\ guid_config' = [seed_value |-> m_seed', index |-> m_index']
                /\ reply' = [reply EXCEPT ![c] =
                               [seed |-> m_seed', index |-> m_index,
                                rest |-> request_no]]
           ELSE UNCHANGED <<guid_config, reply>>
      /\ UNCHANGED <<startVars, connected, svc, guid_info_que, guid_info,
                     guidVars, restarts>>

(* guidsys ends: requests are lost, a reply may be on its way already, and *)
(* no MakeGuid connects again.                                             *)
GuidsysStops ==
  /\ guidsys_up
  /\ restarts < MaxRestarts
  /\ restarts' = restarts + 1
  /\ guidsys_up' = FALSE
  /\ connected' = [c \in Client |-> FALSE]
  /\ request' = {}
  /\ \E lost \in SUBSET Client :
       reply' = [c \in Client |-> IF c \in lost THEN NoGuidInfo ELSE reply[c]]
  /\ UNCHANGED <<m_seed, m_index, guid_config, m_guid_cfg, alloc_is_init, svc,
                 guid_info_que, guid_info, guidVars>>

(* ManageConfig::init, and ManageSession::init up to listen. *)
GuidsysStarts ==
  /\ ~guidsys_up
  /\ guidsys_up' = TRUE
  /\ m_guid_cfg' = guid_config
  /\ alloc_is_init' = FALSE
  /\ m_seed' = 0
  /\ m_index' = 0
  /\ UNCHANGED <<guid_config, linkVars, svc, rangeVars, guidVars, restarts>>

(* AllocGuid::init, which ManageSession::init calls after listen. *)
AllocGuidInit ==
  /\ guidsys_up
  /\ ~alloc_is_init
  /\ alloc_is_init' = TRUE
  /\ m_seed' = m_guid_cfg.seed_value
  /\ m_index' = m_guid_cfg.index
  /\ UNCHANGED <<guid_config, m_guid_cfg, guidsys_up, linkVars, svc, rangeVars,
                 guidVars, restarts>>

-----------------------------------------------------------------------------
(* MakeGuid *)

(* svc: nothing waits in the queue, so ask for a range.  On a connection   *)
(* that has gone, send_n may succeed or fail; if it fails, svc goes round  *)
(* again.                                                                  *)
SendRequest(c) ==
  /\ svc[c] = "idle"
  /\ guid_info_que[c].rest = 0
  /\ svc' = [svc EXCEPT ![c] = "receiving"]
  /\ request' = IF connected[c] THEN request \cup {c} ELSE request
  /\ UNCHANGED <<serverVars, connected, rangeVars, guidVars, restarts>>

(* Mutant: what guidsys sent before it ended is not read any more. *)
ReceiveReplyWhileConnected(c) ==
  /\ svc[c] = "receiving"
  /\ connected[c]
  /\ reply[c].rest > 0
  /\ svc' = [svc EXCEPT ![c] = "idle"]
  /\ guid_info_que' = [guid_info_que EXCEPT ![c] = reply[c]]
  /\ reply' = [reply EXCEPT ![c] = NoGuidInfo]
  /\ UNCHANGED <<serverVars, linkVars, guid_info, guidVars, restarts>>

(* svc, parsePack: the reply goes to the queue.  Without a reply svc stays *)
(* in this loop, whatever becomes of the connection.                       *)
ReceiveReply(c) ==
  /\ svc[c] = "receiving"
  /\ reply[c].rest > 0
  /\ svc' = [svc EXCEPT ![c] = "idle"]
  /\ guid_info_que' = [guid_info_que EXCEPT ![c] = reply[c]]
  /\ reply' = [reply EXCEPT ![c] = NoGuidInfo]
  /\ UNCHANGED <<serverVars, linkVars, guid_info, guidVars, restarts>>

(* getGuidInfo is tried only by a get_guid that has no GUID left. *)
HasGuid(c) == guid_info[c].rest > 0 \/ guid_info_que[c].rest > 0

NextGuidInfo(c) ==
  IF guid_info[c].rest > 0 THEN guid_info[c] ELSE guid_info_que[c]

(* Mutant: a range is taken from an empty queue as well. *)
GetGuidUnchecked(c) ==
  /\ guid_info_que' = IF guid_info[c].rest > 0 THEN guid_info_que
                      ELSE [guid_info_que EXCEPT ![c] = NoGuidInfo]
  /\ guid_info' = [guid_info EXCEPT ![c] =
                     [NextGuidInfo(c) EXCEPT !.index = @ + 1, !.rest = @ - 1]]
  /\ UNCHANGED <<serverVars, linkVars, svc, reply, guidVars, restarts>>

(* get_guid, when it returns a GUID. *)
GetGuid(c) ==
  /\ HasGuid(c)
  /\ LET info == NextGuidInfo(c)
     IN  /\ guid' = MakeGuid(info.seed, info.index)
         /\ guid_info' = [guid_info EXCEPT ![c] =
                            [info EXCEPT !.index = @ + 1, !.rest = @ - 1]]
  /\ guid_info_que' = IF guid_info[c].rest > 0 THEN guid_info_que
                      ELSE [guid_info_que EXCEPT ![c] = NoGuidInfo]
  /\ taken' = taken \cup ({guid} \ {NoGuid})
  /\ UNCHANGED <<serverVars, linkVars, svc, reply, restarts>>

(* The client's process ends and starts again: its ranges are skipped.     *)
(* init fails while there is no guidsys to connect to.  (A request that    *)
(* guidsys takes up later skips a range, as one that it took up before.)   *)
ClientRestarts(c) ==
  /\ guidsys_up
  /\ alloc_is_init \/ EarlyClients
  /\ restarts < MaxRestarts
  /\ restarts' = restarts + 1
  /\ connected' = [connected EXCEPT ![c] = TRUE]
  /\ svc' = [svc EXCEPT ![c] = "idle"]
  /\ request' = request \ {c}
  /\ reply' = [reply EXCEPT ![c] = NoGuidInfo]
  /\ guid_info_que' = [guid_info_que EXCEPT ![c] = NoGuidInfo]
  /\ guid_info' = [guid_info EXCEPT ![c] = NoGuidInfo]
  /\ UNCHANGED <<serverVars, guidVars>>

Next ==
  \/ \E c \in Client :
       \/ ProcessRequest(c)
       \/ SendRequest(c)
       \/ ReceiveReply(c)
       \/ GetGuid(c)
       \/ ClientRestarts(c)
  \/ GuidsysStops
  \/ GuidsysStarts
  \/ AllocGuidInit

Spec == Init /\ [][Next]_vars

-----------------------------------------------------------------------------
(* get_guid never returns a GUID twice, in any client, whichever processes *)
(* restart and whichever saves fail: a GUID is the primary key of its      *)
(* table.                                                                  *)
NoGuidTwice == guid \notin taken

(* The same as long as the first seed is not used up: generateGuid starts  *)
(* again under the next seed with a range that begins where the old one    *)
(* ended, and gives that range again later.                                *)
FirstSeedNoGuidTwice == guid_config.seed_value = FirstSeed => NoGuidTwice

(* That range is all that get_guid ever returns twice, as long as seeds    *)
(* last: a GUID taken before has one of the last indices of a seed, after  *)
(* the first one.  It holds of clients that ask for different numbers, and *)
(* of a last range that runs over the end of the index, where MAKE_GUID    *)
(* cuts it down to indices that the seed does not use otherwise.           *)
OnlyLastRangesTwice ==
  guid \in taken =>
    /\ guid[1] # FirstSeed
    /\ \E c \in Client : guid[2] + RequestNo[c] >= MaxIndex

(* svc and the input thread of guidsys go on. *)
Fairness ==
  \A c \in Client :
    /\ WF_vars(ProcessRequest(c))
    /\ WF_vars(SendRequest(c))
    /\ WF_vars(ReceiveReply(c))

FairSpec == Spec /\ Fairness

(* svc waits in its receiving loop for a reply that will not come: guidsys *)
(* ended, or could not save.  It never leaves the loop.                    *)
Unanswered(c) ==
  svc[c] = "receiving" /\ c \notin request /\ reply[c].rest = 0

(* A MakeGuid that has run out of GUIDs gets more, unless its request is   *)
(* left without a reply.                                                   *)
RangeArrives ==
  \A c \in Client :
    ~HasGuid(c) ~> HasGuid(c) \/ m_seed = MaxSeed \/ Unanswered(c)

=============================================================================
