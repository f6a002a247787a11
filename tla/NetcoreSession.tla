---------------------------- MODULE NetcoreSession ----------------------------
(***************************************************************************)
(* The life of a session in a netcore session pool: the thread that accepts*)
(* or connects, the input thread with its reactor, the output thread, and  *)
(* the thread of the pool's user that answers packets.  A session has two  *)
(* references, of input and of output; it is deleted when both are given   *)
(* back.  Every server makes its pools with one input and one output       *)
(* thread (init(1, 1, ...)), and a pool either listens or connects.        *)
(*                                                                         *)
(* A Session is an address of memory: when a session is deleted, the next  *)
(* one may be made at its address.  The user is cachesys' ManageSessionPool*)
(* with the set of sessions it knows.  Of the data on the wire the model   *)
(* keeps whether a session has something to send.  A call of a session that*)
(* is deleted is undefined: it does nothing, or ends the process.          *)
(***************************************************************************)
EXTENDS Naturals

CONSTANTS
  Session,         \* addresses of CellSessionx
  NoSession,       \* NULL
  MaxConnections   \* bound of the model: sessions ever opened

ASSUME NoSessionAssumption == NoSession \notin Session
ASSUME MaxConnectionsAssumption == MaxConnections \in Nat

VARIABLES
  listening,                \* whether the pool listens or connects
  running,                  \* whether the process has survived
  conn,                     \* which connection's session is at an address,
                            \* 0 if the memory is free
  opened,                   \* connections so far (bound)
  reference_no,             \* CellSessionInfo::reference_no, 0: no entry
  open_pc, open_session,    \* the thread that accepts or connects
  session_pool_mutex,       \* who holds session_pool_mutex
  registered,               \* sessions of the input thread's reactor
  input_pc, input_session,  \* the input thread
  output_map,               \* OutputSessionPool::m_cell_session_map
  add_cell_session_set,     \* OutputSessionThreadInfo
  remove_cell_session_set,  \* OutputSessionThreadInfo
  cell_session_set,         \* svc's local set
  to_write,                 \* the rest of svc's loop over it
  m_session_set,            \* the sessions the user knows
  user_session,             \* the session the user is about to output to
  sock,                     \* the connection's socket
  m_deferred_outputs        \* whether packets wait to be sent

processVars == <<listening, running>>
memoryVars == <<conn, opened, reference_no>>
openVars == <<open_pc, open_session>>
inputVars == <<registered, input_pc, input_session>>
queueVars == <<output_map, add_cell_session_set, remove_cell_session_set>>
outputVars == <<cell_session_set, to_write>>
userVars == <<m_session_set, user_session>>
netVars == <<sock, m_deferred_outputs>>
vars == <<processVars, memoryVars, openVars, session_pool_mutex, inputVars,
          queueVars, outputVars, userVars, netVars>>

Allocated == {s \in Session : conn[s] # 0}

NetcoreTypeOK ==
  /\ listening \in BOOLEAN
  /\ running \in BOOLEAN
  /\ conn \in [Session -> Nat]
  /\ opened \in Nat
  /\ reference_no \in [Session -> 0 .. 2]
  /\ open_pc \in {"idle", "opened", "registered"}
  /\ open_session \in Session \cup {NoSession}
  /\ session_pool_mutex \in {"free", "open", "input"}
  /\ registered \in SUBSET Session
  /\ input_pc \in {"idle", "reading", "notified", "told", "returning"}
  /\ input_session \in Session \cup {NoSession}
  /\ output_map \in SUBSET Session
  /\ add_cell_session_set \in SUBSET Session
  /\ remove_cell_session_set \in SUBSET Session
  /\ cell_session_set \in SUBSET Session
  /\ to_write \in SUBSET Session
  /\ m_session_set \in SUBSET Session
  /\ user_session \in Session \cup {NoSession}
  /\ sock \in [Session -> {"open", "hung_up", "shut"}]
  /\ m_deferred_outputs \in [Session -> BOOLEAN]

Init ==
  /\ listening \in BOOLEAN
  /\ running = TRUE
  /\ conn = [s \in Session |-> 0]
  /\ opened = 0
  /\ reference_no = [s \in Session |-> 0]
  /\ open_pc = "idle"
  /\ open_session = NoSession
  /\ session_pool_mutex = "free"
  /\ registered = {}
  /\ input_pc = "idle"
  /\ input_session = NoSession
  /\ output_map = {}
  /\ add_cell_session_set = {}
  /\ remove_cell_session_set = {}
  /\ cell_session_set = {}
  /\ to_write = {}
  /\ m_session_set = {}
  /\ user_session = NoSession
  /\ sock = [s \in Session |-> "shut"]
  /\ m_deferred_outputs = [s \in Session |-> FALSE]

-----------------------------------------------------------------------------
(* Opening a session *)

(* Mutant: a reference for the user as well. *)
UserReferenceToo == 3

(* sessionOpen, connect: cell_si.reference_no. *)
InitialReferences == 2

(* Mutant: sessionOpen is not called under the mutex. *)
OpenUnlocked(s) ==
  /\ open_pc = "idle"
  /\ opened < MaxConnections
  /\ s \notin Allocated
  /\ opened' = opened + 1
  /\ conn' = [conn EXCEPT ![s] = opened']
  /\ reference_no' = [reference_no EXCEPT ![s] = InitialReferences]
  /\ m_session_set' = m_session_set \cup {s}
  /\ sock' = [sock EXCEPT ![s] = "open"]
  /\ m_deferred_outputs' = [m_deferred_outputs EXCEPT ![s] = FALSE]
  /\ open_pc' = "opened"
  /\ open_session' = s
  /\ UNCHANGED <<processVars, session_pool_mutex, inputVars, queueVars,
                 outputVars, user_session>>

(* A session that was accepted (CellSessionx::open, notifySessionPool,     *)
(* sessionOpen, all under session_pool_mutex) or connected (connect, where *)
(* notifySessionPool finds no pool for the session's reactor): the user is *)
(* told, and the references are set.  No other thread has the session yet. *)
Open(s) ==
  /\ open_pc = "idle"
  /\ opened < MaxConnections
  /\ s \notin Allocated
  /\ IF listening
     THEN /\ session_pool_mutex = "free"
          /\ session_pool_mutex' = "open"
     ELSE UNCHANGED session_pool_mutex
  /\ opened' = opened + 1
  /\ conn' = [conn EXCEPT ![s] = opened']
  /\ reference_no' = [reference_no EXCEPT ![s] = InitialReferences]
  /\ m_session_set' = m_session_set \cup {s}
  /\ sock' = [sock EXCEPT ![s] = "open"]
  /\ m_deferred_outputs' = [m_deferred_outputs EXCEPT ![s] = FALSE]
  /\ open_pc' = "opened"
  /\ open_session' = s
  /\ UNCHANGED <<processVars, inputVars, queueVars, outputVars, user_session>>

(* InputSessionPool::handleSession: from now on the input thread reads. *)
RegisterInput ==
  /\ open_pc = "opened"
  /\ registered' = registered \cup {open_session}
  /\ open_pc' = "registered"
  /\ UNCHANGED <<processVars, memoryVars, open_session, session_pool_mutex,
                 input_pc, input_session, queueVars, outputVars, userVars,
                 netVars>>

(* OutputSessionPool::handleSession *)
RegisterOutput ==
  /\ open_pc = "registered"
  /\ add_cell_session_set' = add_cell_session_set \cup {open_session}
  /\ output_map' = output_map \cup {open_session}
  /\ open_pc' = "idle"
  /\ session_pool_mutex' = IF listening THEN "free" ELSE session_pool_mutex
  /\ UNCHANGED <<processVars, memoryVars, open_session, inputVars,
                 remove_cell_session_set, outputVars, userVars, netVars>>

-----------------------------------------------------------------------------
(* The input thread *)

(* The peer closes the connection, or it breaks. *)
HangUp(s) ==
  /\ s \in Allocated
  /\ sock[s] = "open"
  /\ sock' = [sock EXCEPT ![s] = "hung_up"]
  /\ UNCHANGED <<processVars, memoryVars, openVars, session_pool_mutex,
                 inputVars, queueVars, outputVars, userVars,
                 m_deferred_outputs>>

(* The reactor calls handle_input of a session that has something to read. *)
HandleInput(s) ==
  /\ input_pc = "idle"
  /\ s \in registered
  /\ input_pc' = "reading"
  /\ input_session' = s
  /\ UNCHANGED <<processVars, memoryVars, openVars, session_pool_mutex,
                 registered, queueVars, outputVars, userVars, netVars>>

(* rd_stream: data, which goes to the user packet by packet. *)
ReadStream ==
  /\ input_pc = "reading"
  /\ sock[input_session] = "open"
  /\ input_pc' = "idle"
  /\ UNCHANGED <<processVars, memoryVars, openVars, session_pool_mutex,
                 registered, input_session, queueVars, outputVars, userVars,
                 netVars>>

(* removeSession: an entry loses a reference, and with the last one the    *)
(* session is deleted.                                                     *)
RemoveReferences(sessions) ==
  /\ reference_no' =
       [s \in Session |-> IF s \in sessions /\ reference_no[s] > 0
                          THEN reference_no[s] - 1
                          ELSE reference_no[s]]
  /\ conn' = [s \in Session |-> IF s \in sessions /\ reference_no[s] = 1
                                THEN 0
                                ELSE conn[s]]

(* Mutant: the session is handed to the output thread before the user is   *)
(* told.                                                                   *)
NotifyClosedOutputFirst ==
  /\ input_pc = "reading"
  /\ sock[input_session] # "open"
  /\ session_pool_mutex = "free"
  /\ session_pool_mutex' = "input"
  /\ RemoveReferences({input_session})
  /\ remove_cell_session_set' =
       IF input_session \in output_map
       THEN remove_cell_session_set \cup {input_session}
       ELSE remove_cell_session_set
  /\ output_map' = output_map \ {input_session}
  /\ registered' = registered \ {input_session}
  /\ input_pc' = "notified"
  /\ UNCHANGED <<processVars, opened, openVars, input_session,
                 add_cell_session_set, outputVars, userVars, netVars>>

(* rd_stream sees that the connection is closed, by the peer or by the     *)
(* output thread's shutdown; notifySessionPool, sessionClosed: first the   *)
(* reference of input goes.  (The reactor forgets the session when         *)
(* rd_stream returns; until then it does not call it again.)               *)
NotifyClosed ==
  /\ input_pc = "reading"
  /\ sock[input_session] # "open"
  /\ session_pool_mutex = "free"
  /\ session_pool_mutex' = "input"
  /\ RemoveReferences({input_session})
  /\ registered' = registered \ {input_session}
  /\ input_pc' = "notified"
  /\ UNCHANGED <<processVars, opened, openVars, input_session, queueVars,
                 outputVars, userVars, netVars>>

(* sessionClosed: then the user is told, ... *)
UserSessionClosed ==
  /\ input_pc = "notified"
  /\ m_session_set' = m_session_set \ {input_session}
  /\ input_pc' = "told"
  /\ UNCHANGED <<processVars, memoryVars, openVars, session_pool_mutex,
                 registered, input_session, queueVars, outputVars,
                 user_session, netVars>>

(* ... and OutputSessionPool::removeSession hands it to the output thread, *)
(* if it has been handed the session.                                      *)
RemoveOutput ==
  /\ input_pc = "told"
  /\ remove_cell_session_set' =
       IF input_session \in output_map
       THEN remove_cell_session_set \cup {input_session}
       ELSE remove_cell_session_set
  /\ output_map' = output_map \ {input_session}
  /\ session_pool_mutex' = "free"
  /\ input_pc' = "returning"
  /\ UNCHANGED <<processVars, memoryVars, openVars, registered, input_session,
                 add_cell_session_set, outputVars, userVars, netVars>>

(* A virtual call of a session.  One that is deleted may end the process.  *)
CallSession(s) ==
  /\ running' \in (IF s \in Allocated THEN {TRUE} ELSE BOOLEAN)
  /\ UNCHANGED listening

(* rd_stream has returned -1 and the reactor calls handle_close of the     *)
(* session, which sets m_session_state; nothing else reads that.  The      *)
(* output thread may have deleted the session.                             *)
HandleClose ==
  /\ input_pc = "returning"
  /\ input_pc' = "idle"
  /\ CallSession(input_session)
  /\ UNCHANGED <<memoryVars, openVars, session_pool_mutex, registered,
                 input_session, queueVars, outputVars, userVars, netVars>>

-----------------------------------------------------------------------------
(* The output thread *)

(* Mutant: the pool is not told of the sessions removed. *)
TakeSetsKeepingReferences ==
  LET removed == cell_session_set \cap remove_cell_session_set
  IN  /\ to_write = {}
      /\ cell_session_set' =
           (cell_session_set \ removed) \cup add_cell_session_set
      /\ to_write' = cell_session_set'
      /\ remove_cell_session_set' = {}
      /\ add_cell_session_set' = {}
      /\ UNCHANGED <<processVars, memoryVars, openVars, session_pool_mutex,
                     inputVars, output_map, userVars, netVars>>

(* Mutant: add_cell_session_set is cleared too early. *)
TakeSetsLosingAdded ==
  LET removed == cell_session_set \cap remove_cell_session_set
  IN  /\ to_write = {}
      /\ RemoveReferences(removed)
      /\ cell_session_set' = cell_session_set \ removed
      /\ to_write' = cell_session_set'
      /\ remove_cell_session_set' = {}
      /\ add_cell_session_set' = {}
      /\ UNCHANGED <<processVars, opened, openVars, session_pool_mutex,
                     inputVars, output_map, userVars, netVars>>

(* svc, under the mutex of its thread info: sessions to remove leave the   *)
(* local set and lose the reference of output, then sessions to add enter  *)
(* it.  A session to remove that is not in the local set is passed over.   *)
TakeSets ==
  LET removed == cell_session_set \cap remove_cell_session_set
  IN  /\ to_write = {}
      /\ RemoveReferences(removed)
      /\ cell_session_set' =
           (cell_session_set \ removed) \cup add_cell_session_set
      /\ to_write' = cell_session_set'
      /\ remove_cell_session_set' = {}
      /\ add_cell_session_set' = {}
      /\ UNCHANGED <<processVars, opened, openVars, session_pool_mutex,
                     inputVars, output_map, userVars, netVars>>

(* wt_stream sends what waits; one that finds nothing to send, or would    *)
(* block, is tried again in the next round of svc.                         *)
WriteStream(s) ==
  /\ s \in to_write
  /\ to_write' = to_write \ {s}
  /\ m_deferred_outputs' = [m_deferred_outputs EXCEPT ![s] = FALSE]
  /\ UNCHANGED <<processVars, memoryVars, openVars, session_pool_mutex,
                 inputVars, queueVars, cell_session_set, userVars, sock>>

(* Mutant: the reference of output goes with the failure. *)
WriteStreamFailsReleasing(s) ==
  /\ s \in to_write
  /\ m_deferred_outputs[s]
  /\ sock[s] = "hung_up"
  /\ RemoveReferences({s})
  /\ to_write' = to_write \ {s}
  /\ cell_session_set' = cell_session_set \ {s}
  /\ sock' = [sock EXCEPT ![s] = "shut"]
  /\ registered' = registered \ {s}
  /\ UNCHANGED <<processVars, opened, openVars, session_pool_mutex, input_pc,
                 input_session, queueVars, userVars, m_deferred_outputs>>

(* wt_stream fails on a connection that has gone: shutdown takes the       *)
(* session from the reactor without a call of handle_close and closes the  *)
(* socket, and svc drops it from its set.                                  *)
WriteStreamFails(s) ==
  /\ s \in to_write
  /\ m_deferred_outputs[s]
  /\ sock[s] = "hung_up"
  /\ to_write' = to_write \ {s}
  /\ cell_session_set' = cell_session_set \ {s}
  /\ sock' = [sock EXCEPT ![s] = "shut"]
  /\ registered' = registered \ {s}
  /\ UNCHANGED <<processVars, memoryVars, openVars, session_pool_mutex,
                 input_pc, input_session, queueVars, userVars,
                 m_deferred_outputs>>

-----------------------------------------------------------------------------
(* The user's thread *)

(* SessionPoolImp::output, first half: getSession looks the packet's owner *)
(* up.                                                                     *)
GetSession(s) ==
  /\ user_session = NoSession
  /\ s \in m_session_set
  /\ user_session' = s
  /\ UNCHANGED <<processVars, memoryVars, openVars, session_pool_mutex,
                 inputVars, queueVars, outputVars, m_session_set, netVars>>

(* ... second half: CellSessionx::output queues the packet.  The session   *)
(* may have been deleted since, and another made at its address.           *)
Output ==
  /\ user_session # NoSession
  /\ m_deferred_outputs' =
       [s \in Session |-> \/ m_deferred_outputs[s]
                          \/ s = user_session /\ s \in Allocated]
  /\ CallSession(user_session)
  /\ user_session' = NoSession
  /\ UNCHANGED <<memoryVars, openVars, session_pool_mutex, inputVars,
                 queueVars, outputVars, m_session_set, sock>>

-----------------------------------------------------------------------------
OpenStep == (\E s \in Session : Open(s)) \/ RegisterInput \/ RegisterOutput

InputStep ==
  \/ \E s \in Session : HandleInput(s)
  \/ ReadStream
  \/ NotifyClosed
  \/ UserSessionClosed
  \/ RemoveOutput
  \/ HandleClose

OutputStep ==
  \/ TakeSets
  \/ \E s \in Session : WriteStream(s) \/ WriteStreamFails(s)

UserStep == (\E s \in Session : GetSession(s)) \/ Output

Next ==
  /\ running
  /\ \/ OpenStep
     \/ InputStep
     \/ OutputStep
     \/ UserStep
     \/ \E s \in Session : HangUp(s)

Spec == Init /\ [][Next]_vars

-----------------------------------------------------------------------------
(* Whoever opens the session, the input thread until it has handed the     *)
(* session over, and the sets of the output thread and the reactor have    *)
(* only sessions that are not deleted: the two references are given back   *)
(* once each, and no set keeps the address of a deleted session that a new *)
(* one may get.  It ends there: handle_close, after rd_stream, and the     *)
(* user's output, after getSession, may meet a deleted session.            *)
ReferencedIsAllocated ==
  /\ cell_session_set \cup to_write \cup add_cell_session_set \cup output_map
       \subseteq Allocated
  /\ registered \subseteq Allocated
  /\ input_pc \in {"reading", "notified", "told"} =>
       input_session \in Allocated
  /\ open_pc # "idle" => open_session \in Allocated

(* A session in the user's set, which getSession may return, is not        *)
(* deleted: sessionClosed tells the user before it lets the output thread  *)
(* give up the last reference.                                             *)
KnownIsAllocated == m_session_set \subseteq Allocated

(* sessionClosed of an accepted session comes after the whole of its       *)
(* sessionOpen, since both are called under session_pool_mutex:            *)
(* OutputSessionPool::removeSession finds the session, and does not come   *)
(* to its else branch, "// error".  A pool that connects opens without it. *)
ClosedIsKnownToOutput ==
  listening /\ input_pc = "told" => input_session \in output_map

-----------------------------------------------------------------------------
(* Every thread goes on; the reactor comes to every session that has       *)
(* something to read, as it takes ready handles in turn.                   *)
Fairness ==
  /\ WF_vars(running /\ RegisterInput)
  /\ WF_vars(running /\ RegisterOutput)
  /\ \A s \in Session : SF_vars(running /\ HandleInput(s))
  /\ WF_vars(running /\ ReadStream)
  /\ WF_vars(running /\ NotifyClosed)
  /\ WF_vars(running /\ UserSessionClosed)
  /\ WF_vars(running /\ RemoveOutput)
  /\ WF_vars(running /\ HandleClose)
  /\ WF_vars(running /\ TakeSets)
  /\ \A s \in Session : WF_vars(running /\ WriteStream(s))

FairSpec == Spec /\ Fairness

(* A session that both threads have when its peer closes is deleted, unless*)
(* a write sees the close first and shuts it down, or the process ends.    *)
(* (If the input thread sees the close before the output thread has taken  *)
(* the session up, svc, which removes before it adds, does not find it,    *)
(* "// error", adds it after that, and it stays with its socket.)          *)
ClosedIsDeleted ==
  \A s \in Session, c \in 1 .. MaxConnections :
    /\ conn[s] = c /\ sock[s] = "hung_up"
    /\ s \in registered \cap cell_session_set
    ~> conn[s] # c \/ sock[s] = "shut" \/ ~running

(* What is output on a session is sent while the connection lasts, also    *)
(* when it is output before the output thread has taken the session up.    *)
DeferredIsSent ==
  \A s \in Session :
    m_deferred_outputs[s]
      ~> ~m_deferred_outputs[s] \/ sock[s] # "open" \/ ~running

=============================================================================
