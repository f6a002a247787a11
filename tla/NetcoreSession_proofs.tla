------------------------ MODULE NetcoreSession_proofs ------------------------
(***************************************************************************)
(* Proofs about the sessions of netcore (NetcoreSession), for any addresses*)
(* and any number of connections, whether the pool listens or connects,    *)
(* and whenever peers close and writes fail.  Nothing is assumed of a call *)
(* of a session that is deleted but that it does nothing or ends the       *)
(* process.                                                                *)
(*                                                                         *)
(* The argument: a session that the opening thread or the reactor still    *)
(* has holds both references; one that the output thread has, or will get, *)
(* holds at least one; one that is to be removed from the output thread    *)
(* holds one, is in no set that the output thread gets later, and is no    *)
(* longer known to the user.  So TakeSets deletes only what nobody else    *)
(* has, and nothing else deletes.                                          *)
(***************************************************************************)
EXTENDS NetcoreSession, TLAPS

-----------------------------------------------------------------------------
(* Types *)

(* The opening thread and the input thread have a session while at work. *)
TypeInv ==
  /\ NetcoreTypeOK
  /\ open_pc # "idle" => open_session \in Session
  /\ input_pc # "idle" => input_session \in Session

(* removeSession keeps the types. *)
LEMMA RemoveReferencesType ==
  ASSUME NetcoreTypeOK, NEW S, RemoveReferences(S)
  PROVE  /\ conn' \in [Session -> Nat]
         /\ reference_no' \in [Session -> 0 .. 2]
  BY DEF NetcoreTypeOK, RemoveReferences

LEMMA TypeInvInitial == Init => TypeInv
  BY DEF Init, TypeInv, NetcoreTypeOK

LEMMA TypeInvInductive ==
  ASSUME TypeInv, [Next]_vars
  PROVE  TypeInv'
<1> USE DEF TypeInv, NetcoreTypeOK, processVars, memoryVars, openVars, inputVars, queueVars,
            outputVars, userVars, netVars
<1>1. ASSUME NEW s \in Session, Open(s)
      PROVE  TypeInv'
  BY <1>1 DEF Open, InitialReferences
<1>2. CASE RegisterInput
  BY <1>2 DEF RegisterInput
<1>3. CASE RegisterOutput
  BY <1>3 DEF RegisterOutput
<1>4. ASSUME NEW s \in Session, HandleInput(s)
      PROVE  TypeInv'
  BY <1>4 DEF HandleInput
<1>5. CASE ReadStream
  BY <1>5 DEF ReadStream
<1>6. CASE NotifyClosed
  BY <1>6, RemoveReferencesType DEF NotifyClosed
<1>7. CASE UserSessionClosed
  BY <1>7 DEF UserSessionClosed
<1>8. CASE RemoveOutput
  BY <1>8 DEF RemoveOutput
<1>9. CASE HandleClose
  BY <1>9 DEF HandleClose, CallSession
<1>10. CASE TakeSets
  BY <1>10, RemoveReferencesType DEF TakeSets
<1>11. ASSUME NEW s \in Session, WriteStream(s)
       PROVE  TypeInv'
  BY <1>11 DEF WriteStream
<1>12. ASSUME NEW s \in Session, WriteStreamFails(s)
       PROVE  TypeInv'
  BY <1>12 DEF WriteStreamFails
<1>13. ASSUME NEW s \in Session, GetSession(s)
       PROVE  TypeInv'
  BY <1>13 DEF GetSession
<1>14. CASE Output
  <2>1. m_deferred_outputs' \in [Session -> BOOLEAN]
    BY <1>14 DEF Output
  <2> QED BY <1>14, <2>1 DEF Output, CallSession
<1>15. ASSUME NEW s \in Session, HangUp(s)
       PROVE  TypeInv'
  BY <1>15 DEF HangUp
<1>16. CASE UNCHANGED vars
  BY <1>16 DEF vars
<1> QED
  BY <1>1, <1>2, <1>3, <1>4, <1>5, <1>6, <1>7, <1>8, <1>9, <1>10, <1>11, <1>12,
     <1>13, <1>14, <1>15, <1>16
  DEF Next, OpenStep, InputStep, OutputStep, UserStep

(* The variables keep their types: a reference is never given back that    *)
(* was not counted.                                                        *)
THEOREM NetcoreTypeCorrect == Spec => []NetcoreTypeOK
<1>1. TypeInv => NetcoreTypeOK
  BY DEF TypeInv
<1> QED BY <1>1, TypeInvInitial, TypeInvInductive, PTL DEF Spec

-----------------------------------------------------------------------------
(* The invariant of the references *)

Opening(s) == open_pc # "idle" /\ s = open_session
Closing(s) == input_pc \in {"notified", "told"} /\ s = input_session
Reading(s) == input_pc = "reading" /\ s = input_session

(* A session has an entry with references as long as it is not deleted. *)
Counted == \A s \in Session : conn[s] # 0 <=> reference_no[s] > 0

(* Both references are there until the input thread gives its own back. *)
InputHolds ==
  \A s \in Session :
    s \in registered \/ Reading(s) \/ (open_pc = "opened" /\ Opening(s))
      => reference_no[s] = 2

(* The input thread gets a session once, from the opening thread. *)
NotYetRegistered ==
  \A s \in Session :
    open_pc = "opened" /\ Opening(s) => s \notin registered /\ ~Reading(s)

ClosingHasOne == \A s \in Session : Closing(s) => reference_no[s] = 1

(* What the output thread has, or will get, has a reference. *)
OutputHolds ==
  /\ to_write \subseteq cell_session_set
  /\ \A s \in Session :
       \/ s \in cell_session_set
       \/ s \in add_cell_session_set
       \/ s \in output_map
       \/ Opening(s)
       => reference_no[s] > 0

(* The output thread gets a session once. *)
AddedOnce ==
  \A s \in Session :
    /\ s \in add_cell_session_set => s \notin cell_session_set
    /\ Opening(s) => /\ s \notin cell_session_set
                     /\ s \notin add_cell_session_set
                     /\ s \notin output_map

(* A session to remove is known to nobody but the output thread. *)
RemovedIsLeft ==
  \A s \in Session :
    s \in remove_cell_session_set
      => /\ reference_no[s] = 1
         /\ s \notin output_map
         /\ ~Opening(s)
         /\ ~Closing(s)

(* The user is told before the output thread. *)
KnownIsOpen ==
  \A s \in Session :
    s \in m_session_set
      => reference_no[s] = 2 \/ (input_pc = "notified" /\ s = input_session)

ReferenceInv ==
  /\ TypeInv
  /\ Counted
  /\ InputHolds
  /\ NotYetRegistered
  /\ ClosingHasOne
  /\ OutputHolds
  /\ AddedOnce
  /\ RemovedIsLeft
  /\ KnownIsOpen

LEMMA ReferenceInvInitial == Init => ReferenceInv
<1> SUFFICES ASSUME Init PROVE ReferenceInv
  OBVIOUS
<1>1. TypeInv
  BY TypeInvInitial
<1> QED
  BY <1>1 DEF Init, ReferenceInv, Counted, InputHolds, NotYetRegistered,
              ClosingHasOne, OutputHolds, AddedOnce, RemovedIsLeft, KnownIsOpen,
              Opening, Closing, Reading

(* A session is made at an address that no thread has. *)
LEMMA OpenKeepsReferences ==
  ASSUME ReferenceInv, NEW t \in Session, Open(t), TypeInv'
  PROVE  ReferenceInv'
<1> USE DEF ReferenceInv, TypeInv, NetcoreTypeOK
<1>1. /\ reference_no[t] = 0
      /\ reference_no' = [reference_no EXCEPT ![t] = 2]
      /\ conn' = [conn EXCEPT ![t] = opened + 1]
      /\ open_pc = "idle" /\ open_pc' = "opened" /\ open_session' = t
      /\ m_session_set' = m_session_set \cup {t}
      /\ UNCHANGED <<registered, input_pc, input_session, output_map,
                     add_cell_session_set, remove_cell_session_set,
                     cell_session_set, to_write>>
  BY DEF Open, Allocated, Counted, InitialReferences, inputVars, queueVars,
         outputVars
<1>2. /\ t \notin registered /\ ~Reading(t) /\ ~Closing(t)
      /\ t \notin cell_session_set /\ t \notin add_cell_session_set
      /\ t \notin output_map /\ t \notin remove_cell_session_set
  BY <1>1 DEF InputHolds, ClosingHasOne, OutputHolds, RemovedIsLeft
<1>3. opened + 1 # 0
  OBVIOUS
<1>4. Counted'
  BY <1>1, <1>3 DEF Counted
<1>5. InputHolds' /\ NotYetRegistered'
  BY <1>1, <1>2 DEF InputHolds, NotYetRegistered, Opening, Reading
<1>6. ClosingHasOne'
  BY <1>1, <1>2 DEF ClosingHasOne, Closing
<1>7. OutputHolds' /\ AddedOnce'
  BY <1>1, <1>2 DEF OutputHolds, AddedOnce, Opening
<1>8. RemovedIsLeft'
  BY <1>1, <1>2 DEF RemovedIsLeft, Opening, Closing
<1>9. KnownIsOpen'
  BY <1>1 DEF KnownIsOpen
<1> QED BY <1>4, <1>5, <1>6, <1>7, <1>8, <1>9

(* NotifyClosed takes the first reference of the session, not the last. *)
LEMMA NotifyClosedKeepsReferences ==
  ASSUME ReferenceInv, NotifyClosed, TypeInv'
  PROVE  ReferenceInv'
<1> USE DEF ReferenceInv, TypeInv, NetcoreTypeOK
<1> DEFINE t == input_session
<1>1. t \in Session /\ reference_no[t] = 2 /\ Reading(t)
  BY DEF NotifyClosed, InputHolds, Reading
<1>2. /\ reference_no' = [reference_no EXCEPT ![t] = 1]
      /\ conn' = conn
      /\ input_pc' = "notified" /\ input_session' = t
      /\ registered' = registered \ {t}
      /\ UNCHANGED <<open_pc, open_session, output_map, add_cell_session_set,
                     remove_cell_session_set, cell_session_set, to_write,
                     m_session_set>>
  <2>1. reference_no' = [reference_no EXCEPT ![t] = 1]
    <3>1. \A s \in Session : reference_no'[s] = IF s = t THEN 1
                                                ELSE reference_no[s]
      BY <1>1 DEF NotifyClosed, RemoveReferences
    <3> QED BY <1>1, <3>1
  <2>2. conn' = conn
    BY <1>1 DEF NotifyClosed, RemoveReferences
  <2> QED
    BY <2>1, <2>2 DEF NotifyClosed, openVars, queueVars, outputVars, userVars
<1>3. ~(open_pc = "opened" /\ Opening(t)) /\ t \notin remove_cell_session_set
  BY <1>1 DEF NotYetRegistered, RemovedIsLeft
<1>4. Counted'
  BY <1>1, <1>2 DEF Counted
<1>5. InputHolds' /\ NotYetRegistered'
  BY <1>1, <1>2, <1>3 DEF InputHolds, NotYetRegistered, Opening, Reading
<1>6. ClosingHasOne'
  BY <1>1, <1>2 DEF ClosingHasOne, Closing
<1>7. OutputHolds' /\ AddedOnce'
  BY <1>1, <1>2 DEF OutputHolds, AddedOnce, Opening
<1>8. RemovedIsLeft'
  BY <1>1, <1>2, <1>3 DEF RemovedIsLeft, Opening, Closing
<1>9. KnownIsOpen'
  BY <1>1, <1>2 DEF KnownIsOpen, Reading
<1> QED BY <1>4, <1>5, <1>6, <1>7, <1>8, <1>9

(* TakeSets deletes the sessions that only the output thread had. *)
LEMMA TakeSetsKeepsReferences ==
  ASSUME ReferenceInv, TakeSets, TypeInv'
  PROVE  ReferenceInv'
<1> USE DEF ReferenceInv, TypeInv, NetcoreTypeOK
<1> DEFINE removed == cell_session_set \cap remove_cell_session_set
<1>1. /\ cell_session_set' =
           (cell_session_set \ removed) \cup add_cell_session_set
      /\ to_write' = cell_session_set'
      /\ add_cell_session_set' = {} /\ remove_cell_session_set' = {}
      /\ UNCHANGED <<open_pc, open_session, registered, input_pc, input_session,
                     output_map, m_session_set>>
  BY DEF TakeSets, openVars, inputVars, userVars
<1>2. ASSUME NEW s \in removed
      PROVE  /\ s \in Session /\ reference_no[s] = 1
             /\ s \notin output_map /\ ~Opening(s) /\ ~Closing(s)
             /\ s \notin add_cell_session_set
             /\ s \notin registered /\ ~Reading(s)
             /\ s \notin m_session_set
  <2>1. s \in Session /\ reference_no[s] = 1
        /\ s \notin output_map /\ ~Opening(s) /\ ~Closing(s)
    BY DEF RemovedIsLeft
  <2>2. s \notin add_cell_session_set
    BY <2>1 DEF AddedOnce
  <2>3. s \notin registered /\ ~Reading(s)
    BY <2>1 DEF InputHolds
  <2>4. s \notin m_session_set
    BY <2>1 DEF KnownIsOpen, Closing
  <2> QED BY <2>1, <2>2, <2>3, <2>4
<1>3. /\ \A s \in removed : reference_no'[s] = 0 /\ conn'[s] = 0
      /\ \A s \in Session \ removed :
           reference_no'[s] = reference_no[s] /\ conn'[s] = conn[s]
  BY <1>2 DEF TakeSets, RemoveReferences
<1>4. Counted'
  BY <1>3 DEF Counted
<1>5. InputHolds' /\ NotYetRegistered'
  BY <1>1, <1>2, <1>3 DEF InputHolds, NotYetRegistered, Opening, Reading
<1>6. ClosingHasOne'
  BY <1>1, <1>2, <1>3 DEF ClosingHasOne, Closing
<1>7. OutputHolds'
  BY <1>1, <1>2, <1>3 DEF OutputHolds, Opening
<1>8. AddedOnce'
  BY <1>1 DEF AddedOnce, Opening
<1>9. RemovedIsLeft'
  BY <1>1 DEF RemovedIsLeft
<1>10. KnownIsOpen'
  BY <1>1, <1>2, <1>3 DEF KnownIsOpen
<1> QED BY <1>4, <1>5, <1>6, <1>7, <1>8, <1>9, <1>10

(* The steps of sessionClosed that follow pass the session from the user   *)
(* to the output thread.                                                   *)
LEMMA SessionClosedKeepsReferences ==
  ASSUME ReferenceInv, UserSessionClosed \/ RemoveOutput \/ HandleClose, TypeInv'
  PROVE  ReferenceInv'
<1> USE DEF ReferenceInv, TypeInv, NetcoreTypeOK, Counted, InputHolds,
            NotYetRegistered, ClosingHasOne, OutputHolds, AddedOnce,
            RemovedIsLeft, KnownIsOpen, Opening, Closing, Reading, memoryVars,
            openVars, inputVars, queueVars, outputVars, userVars, netVars
<1>1. CASE UserSessionClosed
  BY <1>1 DEF UserSessionClosed
<1>2. CASE RemoveOutput
  BY <1>2 DEF RemoveOutput
<1>3. CASE HandleClose
  BY <1>3 DEF HandleClose
<1> QED BY <1>1, <1>2, <1>3

LEMMA ReferenceInvInductive ==
  ASSUME ReferenceInv, [Next]_vars
  PROVE  ReferenceInv'
<1>1. TypeInv'
  BY TypeInvInductive DEF ReferenceInv
<1> USE DEF ReferenceInv, memoryVars, openVars, inputVars, queueVars, outputVars,
            userVars, netVars
<1>2. ASSUME UNCHANGED <<memoryVars, openVars, registered, input_pc,
                         input_session, queueVars, cell_session_set,
                         m_session_set>>,
             to_write' \subseteq to_write
      PROVE  ReferenceInv'
  BY <1>1, <1>2
  DEF Counted, InputHolds, NotYetRegistered, ClosingHasOne, OutputHolds,
      AddedOnce, RemovedIsLeft, KnownIsOpen, Opening, Closing, Reading
<1>3. ASSUME NEW s \in Session, Open(s)
      PROVE  ReferenceInv'
  BY <1>1, <1>3, OpenKeepsReferences
<1>4. CASE RegisterInput
  <2>1. /\ open_session \in Session /\ Opening(open_session)
        /\ reference_no[open_session] = 2
    BY <1>4 DEF RegisterInput, TypeInv, InputHolds, Opening
  <2> QED
    BY <1>1, <1>4, <2>1
    DEF RegisterInput, Counted, InputHolds, NotYetRegistered, ClosingHasOne,
        OutputHolds, AddedOnce, RemovedIsLeft, KnownIsOpen, Opening, Closing,
        Reading
<1>5. CASE RegisterOutput
  <2>1. open_session \in Session /\ Opening(open_session)
    BY <1>5 DEF RegisterOutput, TypeInv, Opening
  <2> QED
    BY <1>1, <1>5, <2>1
    DEF RegisterOutput, Counted, InputHolds, NotYetRegistered, ClosingHasOne,
        OutputHolds, AddedOnce, RemovedIsLeft, KnownIsOpen, Opening, Closing,
        Reading
<1>6. ASSUME NEW s \in Session, HandleInput(s)
      PROVE  ReferenceInv'
  BY <1>1, <1>6
  DEF HandleInput, Counted, InputHolds, NotYetRegistered, ClosingHasOne,
      OutputHolds, AddedOnce, RemovedIsLeft, KnownIsOpen, Opening, Closing,
      Reading
<1>7. CASE ReadStream
  BY <1>1, <1>7
  DEF ReadStream, Counted, InputHolds, NotYetRegistered, ClosingHasOne,
      OutputHolds, AddedOnce, RemovedIsLeft, KnownIsOpen, Opening, Closing,
      Reading
<1>8. CASE NotifyClosed
  BY <1>1, <1>8, NotifyClosedKeepsReferences
<1>9. CASE UserSessionClosed \/ RemoveOutput \/ HandleClose
  BY <1>1, <1>9, SessionClosedKeepsReferences
<1>10. CASE TakeSets
  BY <1>1, <1>10, TakeSetsKeepsReferences
<1>11. ASSUME NEW s \in Session, WriteStream(s)
       PROVE  ReferenceInv'
  BY <1>2, <1>11 DEF WriteStream
<1>12. ASSUME NEW s \in Session, WriteStreamFails(s)
       PROVE  ReferenceInv'
  BY <1>1, <1>12
  DEF WriteStreamFails, Counted, InputHolds, NotYetRegistered, ClosingHasOne,
      OutputHolds, AddedOnce, RemovedIsLeft, KnownIsOpen, Opening, Closing,
      Reading
<1>13. ASSUME NEW s \in Session, GetSession(s)
       PROVE  ReferenceInv'
  BY <1>2, <1>13 DEF GetSession
<1>14. CASE Output
  BY <1>2, <1>14 DEF Output
<1>15. ASSUME NEW s \in Session, HangUp(s)
       PROVE  ReferenceInv'
  BY <1>2, <1>15 DEF HangUp
<1>16. CASE UNCHANGED vars
  BY <1>2, <1>16 DEF vars
<1> QED
  BY <1>3, <1>4, <1>5, <1>6, <1>7, <1>8, <1>9, <1>10, <1>11, <1>12, <1>13,
     <1>14, <1>15, <1>16
  DEF Next, OpenStep, InputStep, OutputStep, UserStep

(* The sets of the reactor and of the output thread, whoever opens a       *)
(* session, and the input thread until it has handed the session over have *)
(* only sessions that are not deleted.  (Not so the reactor that calls     *)
(* handle_close after that, nor the user after getSession.)                *)
THEOREM ReferencedStaysAllocated == Spec => []ReferencedIsAllocated
<1>1. ReferenceInv => ReferencedIsAllocated
  BY DEF ReferenceInv, TypeInv, NetcoreTypeOK, Counted, InputHolds,
         ClosingHasOne, OutputHolds, ReferencedIsAllocated, Allocated, Opening,
         Closing, Reading
<1> QED BY <1>1, ReferenceInvInitial, ReferenceInvInductive, PTL DEF Spec

(* The sessions the user knows are not deleted. *)
THEOREM KnownStaysAllocated == Spec => []KnownIsAllocated
<1>1. ReferenceInv => KnownIsAllocated
  BY DEF ReferenceInv, TypeInv, NetcoreTypeOK, Counted, ClosingHasOne,
         KnownIsOpen, KnownIsAllocated, Allocated, Closing
<1> QED BY <1>1, ReferenceInvInitial, ReferenceInvInductive, PTL DEF Spec

-----------------------------------------------------------------------------
(* A pool that listens: open and close under session_pool_mutex *)

(* The mutex is held from the opening of a session until the output thread *)
(* has it, and from the notification of its close until it is handed to    *)
(* the output thread again.                                                *)
MutexIsHeld ==
  listening =>
  /\ open_pc # "idle" => session_pool_mutex = "open"
  /\ input_pc \in {"notified", "told"} => session_pool_mutex = "input"

(* What the reactor has, the output thread's map has, but for the session  *)
(* on its way there.                                                       *)
InputIsInOutput ==
  listening =>
  \A s \in Session :
    s \in registered \/ Reading(s) \/ Closing(s)
      => s \in output_map \/ Opening(s)

MutexInv == ReferenceInv /\ MutexIsHeld /\ InputIsInOutput

LEMMA MutexInvInductive ==
  ASSUME MutexInv, [Next]_vars
  PROVE  MutexInv'
<1>1. ReferenceInv'
  BY ReferenceInvInductive DEF MutexInv
<1> USE DEF MutexInv, MutexIsHeld, InputIsInOutput, Opening, Closing, Reading,
            processVars, memoryVars, openVars, inputVars, queueVars, outputVars, userVars,
            netVars
<1>2. TypeInv
  BY DEF ReferenceInv
<1>3. ASSUME UNCHANGED <<listening, openVars, session_pool_mutex, input_pc,
                         input_session, output_map>>,
             registered' \subseteq registered
      PROVE  MutexInv'
  BY <1>1, <1>3
<1>4. ASSUME NEW s \in Session, Open(s)
      PROVE  MutexInv'
  BY <1>1, <1>4 DEF Open
<1>5. CASE RegisterInput
  BY <1>1, <1>5 DEF RegisterInput
<1>6. CASE RegisterOutput
  BY <1>1, <1>6 DEF RegisterOutput
<1>7. ASSUME NEW s \in Session, HandleInput(s)
      PROVE  MutexInv'
  BY <1>1, <1>7 DEF HandleInput
<1>8. CASE ReadStream
  BY <1>1, <1>8 DEF ReadStream
<1>9. CASE NotifyClosed
  BY <1>1, <1>9 DEF NotifyClosed
<1>10. CASE UserSessionClosed
  BY <1>1, <1>10 DEF UserSessionClosed
<1>11. CASE RemoveOutput
  <2>1. input_session \notin registered
    BY <1>2, <1>11 DEF RemoveOutput, ReferenceInv, TypeInv, InputHolds,
                       ClosingHasOne
  <2> QED BY <1>1, <1>11, <2>1 DEF RemoveOutput
<1>12. CASE HandleClose
  BY <1>1, <1>12 DEF HandleClose, CallSession
<1>13. CASE TakeSets
  BY <1>3, <1>13 DEF TakeSets
<1>14. ASSUME NEW s \in Session, WriteStream(s) \/ WriteStreamFails(s)
       PROVE  MutexInv'
  BY <1>3, <1>14 DEF WriteStream, WriteStreamFails
<1>15. ASSUME NEW s \in Session, GetSession(s) \/ HangUp(s)
       PROVE  MutexInv'
  BY <1>3, <1>15 DEF GetSession, HangUp
<1>16. CASE Output
  BY <1>3, <1>16 DEF Output, CallSession
<1>17. CASE UNCHANGED vars
  BY <1>3, <1>17 DEF vars
<1> QED
  BY <1>4, <1>5, <1>6, <1>7, <1>8, <1>9, <1>10, <1>11, <1>12, <1>13, <1>14,
     <1>15, <1>16, <1>17
  DEF Next, OpenStep, InputStep, OutputStep, UserStep

(* The sessionClosed of an accepted session finds it with the output       *)
(* thread: a pool that listens never comes to the else branch of           *)
(* OutputSessionPool::removeSession.                                       *)
THEOREM ClosedStaysKnownToOutput == Spec => []ClosedIsKnownToOutput
<1>1. Init => MutexInv
  <2> SUFFICES ASSUME Init PROVE MutexInv
    OBVIOUS
  <2>1. ReferenceInv
    BY ReferenceInvInitial
  <2> QED
    BY <2>1 DEF Init, MutexInv, MutexIsHeld, InputIsInOutput, Reading, Closing
<1>2. MutexInv => ClosedIsKnownToOutput
  <2> SUFFICES ASSUME MutexInv, listening, input_pc = "told"
               PROVE  input_session \in output_map
    BY DEF ClosedIsKnownToOutput
  <2>1. input_session \in Session
    BY DEF MutexInv, ReferenceInv, TypeInv
  <2>2. ~Opening(input_session)
    BY DEF MutexInv, MutexIsHeld, Opening
  <2> QED BY <2>1, <2>2 DEF MutexInv, InputIsInOutput, Closing
<1>3. MutexInv /\ [Next]_vars => MutexInv'
  BY MutexInvInductive
<1> QED BY <1>1, <1>2, <1>3, PTL DEF Spec

=============================================================================
