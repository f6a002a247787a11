------------------------ MODULE RoleEntrance_proofs ------------------------
(***************************************************************************)
(* The properties of a role's entrance that need no fairness: types, and   *)
(* that gate and map keep step as long as no session asks to enter while   *)
(* the gate has to do with another one, for any number of sessions and of  *)
(* packets that close them, whatever loads fail.                           *)
(*                                                                         *)
(* An entrance is one thread's at a time (ControlInv).  From then on until *)
(* the gate has forgotten the role, the entrance is in one place           *)
(* (LifeInv): about to be sent, on its way to the map, in the map as a     *)
(* load, as a player or as a flush, or on its way back as an answer.       *)
(* LEAVE_MAPs may be sent at any time: the map makes nothing of those that *)
(* come too late.                                                          *)
(***************************************************************************)
EXTENDS RoleEntrance, SequenceTheorems, TLAPS

Leaving == {"can_leave", "leave", "send_leave"}

HasEnter(c) == \E i \in DOMAIN input[c] : input[c][i] = "ENTER_MAP"

(* A thread that is about to find out whether the role may enter. *)
Enters(t) ==
  IF t \in Client
  THEN \/ HasEnter(t)
       \/ at[t] \in Leaving \cup {"clean_role", "left_role", "find_client",
                                "change_route", "can_enter", "enter"}
  ELSE at[t] \in {"logoff_success", "can_enter", "enter"}

(* What the threads of the gate may call, with one session at a time: none *)
(* finds the role when it may enter no more.                               *)
ClientCalls(c) ==
  /\ at[c] \notin {"enter_again", "remove_route", "logoff_success"}
  /\ at[c] \in Leaving => then[c] = "left_role"

CoolerCalls ==
  /\ at["cooler"] \in Leaving \cup {"idle", "remove_route"}
  /\ then["cooler"] \in {"idle", "remove_route"}

GsCalls ==
  /\ at["gs"] \in Leaving \cup
       {"idle", "logoff_success", "can_enter", "enter", "send_enter"}
  /\ then["gs"] = "idle"

ThreadCalls == CoolerCalls /\ GsCalls /\ \A c \in Client : ClientCalls(c)

(* A session asks once, and its thread has nothing else to do then. *)
AsksOnce(c) ==
  /\ HasEnter(c) => c \in asked /\ at[c] = "idle"
  /\ \A i, j \in DOMAIN input[c] :
       input[c][i] = "ENTER_MAP" /\ input[c][j] = "ENTER_MAP" => i = j

OneEnters ==
  /\ \A t \in Thread : Enters(t) => role_gs_state = "NONE"
  /\ \A t, u \in Thread : Enters(t) /\ Enters(u) => t = u

ControlInv ==
  /\ ThreadCalls
  /\ \A c \in Client : AsksOnce(c)
  /\ OneEnters

(* Where the entrance is. *)
SendsEnter == {t \in Thread : at[t] = "send_enter"}
EntersSent == {i \in DOMAIN to_gs : to_gs[i] = "ENTER_MAP"}

NothingSent == SendsEnter = {} /\ EntersSent = {}

MapIsClean ==
  /\ player_state = "NONE"
  /\ ~need_flush /\ ~loading /\ ~in_pool
  /\ flushing = 0

AboutToSend ==
  /\ \E t \in Thread : SendsEnter = {t}
  /\ EntersSent = {}
  /\ MapIsClean /\ from_gs = <<>>

OnItsWay ==
  /\ SendsEnter = {}
  /\ \E i \in DOMAIN to_gs : EntersSent = {i}
  /\ MapIsClean /\ from_gs = <<>>

MapLoads ==
  /\ player_state \in {"LOADING", "OFFLINE"}
  /\ loading /\ ~need_flush /\ ~in_pool /\ flushing = 0
  /\ from_gs = <<>>

MapPlays ==
  /\ player_state = "ONLINE"
  /\ in_pool /\ ~loading /\ ~need_flush /\ flushing = 0
  /\ from_gs \in {<<>>, <<"CREATE_SELF">>}

MapFlushes ==
  /\ \/ player_state = "OFFLINE" /\ from_gs = <<>>
     \/ player_state = "FLUSHING" /\ from_gs \in {<<>>, <<"CREATE_SELF">>}
  /\ in_pool /\ ~loading
  /\ \/ need_flush /\ flushing = 0
     \/ ~need_flush /\ flushing = 1

(* A load has failed: the gate is not told. *)
MapFailed ==
  /\ LoadsFail
  /\ player_state = "OFFLINE" \/ (player_state = "NONE" /\ ~need_flush)
  /\ ~loading /\ ~in_pool /\ flushing = 0
  /\ from_gs = <<>>

OnItsWayBack ==
  /\ MapIsClean
  /\ from_gs \in {<<"LEAVE_MAP">>, <<"CREATE_SELF", "LEAVE_MAP">>}

LifeInv ==
  /\ ~online_again
  /\ IF role_gs_state = "NONE"
     THEN NothingSent /\ MapIsClean /\ from_gs = <<>>
     ELSE \/ AboutToSend
          \/ OnItsWay
          \/ NothingSent /\ (MapLoads \/ MapPlays \/ MapFlushes \/ MapFailed
                             \/ OnItsWayBack)

(* A session that is left is known until it has been left. *)
LeftIsKnown ==
  \A t \in Thread :
    /\ then[t] = "left_role" => t \in Client /\ session[t] \in Client
    /\ at[t] = "left_role" => session[t] \in Client /\ then[t] = "idle"

TypeInv == RoleEntranceTypeOK /\ LeftIsKnown

IInv ==
  /\ TypeInv
  /\ contended \/ (ControlInv /\ LifeInv)

-----------------------------------------------------------------------------
(* Types *)

LEMMA ClientThread ==
  ASSUME NEW c \in Client
  PROVE  c \in Thread /\ c # "gs" /\ c # "cooler"
  BY ThreadNamesAssumption DEF Thread

LEMMA OwnThreads ==
  /\ "gs" \in Thread /\ "cooler" \in Thread
  /\ "gs" \notin Client /\ "cooler" \notin Client
  BY ThreadNamesAssumption DEF Thread

LEMMA ThreadKinds ==
  ASSUME NEW t \in Thread
  PROVE  t \in Client \/ t = "gs" \/ t = "cooler"
  BY DEF Thread

LEMMA InvInitial == Init => IInv
<1> SUFFICES ASSUME Init PROVE IInv
  OBVIOUS
<1>1. RoleEntranceTypeOK
  <2>1. /\ role_guid \in [Client -> {"temp", "role"}]
        /\ cooler \in [Client -> {"out", "waiting", "closing", "closed"}]
        /\ input \in [Client -> Seq(Packet)]
    BY DEF Init
  <2>2. /\ at \in [Thread -> Call]
        /\ then \in [Thread -> Call]
        /\ session \in [Thread -> Client \cup {NoClient}]
    BY DEF Init, Call
  <2>3. /\ enter_game \subseteq Client /\ leave_game \subseteq Client
        /\ asked \subseteq Client /\ temp_route \subseteq Client
        /\ role_route \in Client \cup {NoClient}
        /\ closes \in 0 .. MaxCloses
    BY MaxClosesAssumption DEF Init
  <2>4. /\ to_gs \in Seq({"ENTER_MAP", "LEAVE_MAP"})
        /\ from_gs \in Seq({"CREATE_SELF", "LEAVE_MAP"})
    BY DEF Init
  <2>5. /\ contended \in BOOLEAN /\ role_offline \in BOOLEAN
        /\ {online_again, need_flush, loading, in_pool} \subseteq BOOLEAN
    BY DEF Init
  <2>6. /\ flushing \in Nat /\ player_state = "NONE" /\ role_gs_state = "NONE"
        /\ route_mutex = "free" /\ state_mutex = "free"
    BY DEF Init
  <2> QED BY <2>1, <2>2, <2>3, <2>4, <2>5, <2>6 DEF RoleEntranceTypeOK
<1>2. LeftIsKnown
  <2>1. \A t \in Thread : at[t] = "idle" /\ then[t] = "idle"
    BY DEF Init
  <2> QED BY <2>1 DEF LeftIsKnown
<1>3. ASSUME NEW t \in Thread PROVE ~Enters(t)
  <2>1. at[t] = "idle" /\ then[t] = "idle"
    BY DEF Init
  <2>2. t \in Client => ~HasEnter(t)
    BY DEF Init, HasEnter
  <2> QED BY <2>1, <2>2 DEF Enters, Leaving
<1>6. ThreadCalls
  <2>1. \A t \in Thread : at[t] = "idle" /\ then[t] = "idle"
    BY DEF Init
  <2>2. CoolerCalls /\ GsCalls
    BY <2>1, OwnThreads DEF CoolerCalls, GsCalls
  <2>3. ASSUME NEW c \in Client PROVE ClientCalls(c)
    <3>1. at[c] = "idle"
      BY <2>1, ClientThread
    <3> QED BY <3>1 DEF ClientCalls, Leaving
  <2> QED BY <2>2, <2>3 DEF ThreadCalls
<1>4. ASSUME NEW c \in Client PROVE AsksOnce(c)
  <2>1. DOMAIN input[c] = {}
    BY DEF Init
  <2> QED BY <2>1 DEF AsksOnce, HasEnter
<1>5. LifeInv
  <2>1. SendsEnter = {} /\ EntersSent = {}
    BY DEF Init, SendsEnter, EntersSent
  <2> QED BY <2>1 DEF Init, LifeInv, NothingSent, MapIsClean
<1> QED BY <1>1, <1>2, <1>3, <1>4, <1>5, <1>6 DEF IInv, TypeInv, ControlInv, OneEnters

-----------------------------------------------------------------------------
(* Each action keeps the types *)

ThreadTypes ==
  /\ at \in [Thread -> Call]
  /\ then \in [Thread -> Call]
  /\ session \in [Thread -> Client \cup {NoClient}]
  /\ LeftIsKnown

LEMMA GoLeaveTypes ==
  ASSUME ThreadTypes, NEW t \in Thread, NEW c \in Client \cup {NoClient},
         NEW call \in Call, GoLeave(t, c, call),
         call = "left_role" => t \in Client /\ c \in Client
  PROVE  ThreadTypes'
<1>1. /\ at' \in [Thread -> Call]
      /\ then' \in [Thread -> Call]
      /\ session' \in [Thread -> Client \cup {NoClient}]
  BY DEF ThreadTypes, GoLeave, Call
<1>2. ASSUME NEW u \in Thread, u # t
      PROVE  at'[u] = at[u] /\ then'[u] = then[u] /\ session'[u] = session[u]
  BY <1>2 DEF ThreadTypes, GoLeave
<1>3. at'[t] = "can_leave" /\ then'[t] = call /\ session'[t] = c
  BY DEF ThreadTypes, GoLeave
<1>4. LeftIsKnown'
  BY <1>2, <1>3 DEF ThreadTypes, LeftIsKnown
<1> QED BY <1>1, <1>4 DEF ThreadTypes

LEMMA TypesInductive == TypeInv /\ [Next]_vars => TypeInv'
<1> SUFFICES ASSUME TypeInv, [Next]_vars PROVE TypeInv'
  OBVIOUS
<1> USE DEF TypeInv, RoleEntranceTypeOK, LeftIsKnown, Go, flagVars, clientVars,
            routeVars, stateVars, threadVars, wireVars, dataVars, playerVars
<1>0. CASE UNCHANGED vars
  BY <1>0 DEF vars
<1>1. ASSUME NEW c \in Client, ClientEnters(c) PROVE TypeInv'
  BY <1>1 DEF ClientEnters, Packet
<1>2. ASSUME NEW c \in Client, ClientCloses(c) PROVE TypeInv'
  <2>1. input' \in [Client -> Seq(Packet)] /\ closes' \in 0 .. MaxCloses
    BY <1>2, MaxClosesAssumption DEF ClientCloses, Packet
  <2> QED BY <1>2, <2>1 DEF ClientCloses
<1>3. ASSUME NEW c \in Client, HandleEnterMap(c) PROVE TypeInv'
  BY <1>3, ClientThread DEF HandleEnterMap, Call
<1>4. ASSUME NEW c \in Client, CleanRoleAndLogoff(c) PROVE TypeInv'
  <2> USE ClientThread
  <2>1. CASE role_route = NoClient
    BY <1>4, <2>1 DEF CleanRoleAndLogoff, Call
  <2>2. CASE role_route # NoClient
    <3>1. role_route \in Client
      BY <2>2
    <3>2. GoLeave(c, role_route, "left_role")
      BY <1>4, <2>2 DEF CleanRoleAndLogoff
    <3>3. ThreadTypes'
      BY <3>1, <3>2, GoLeaveTypes DEF ThreadTypes, Call
    <3> QED BY <1>4, <3>1, <3>3 DEF CleanRoleAndLogoff, ThreadTypes
  <2> QED BY <2>1, <2>2
<1>5. ASSUME NEW c \in Client, LeftRole(c) PROVE TypeInv'
  BY <1>5, ClientThread DEF LeftRole, PutClientSession, Call
<1>6. ASSUME NEW c \in Client, FindClient(c) PROVE TypeInv'
  BY <1>6, ClientThread DEF FindClient, Call
<1>7. ASSUME NEW c \in Client, ChangeClientRoute(c) PROVE TypeInv'
  BY <1>7, ClientThread DEF ChangeClientRoute, PutClientSession, Call
<1>8. ASSUME NEW c \in Client, SessionEnterGame(c) PROVE TypeInv'
  BY <1>8, ClientThread DEF SessionEnterGame, Call
<1>9. ASSUME NEW c \in Client, HandleClose(c) PROVE TypeInv'
  <2>1. input' \in [Client -> Seq(Packet)]
    BY <1>9 DEF HandleClose
  <2>2. cooler' \in [Client -> {"out", "waiting", "closing", "closed"}]
    <3>1. cooler' = cooler \/ \E s \in Client : PutClientSession(s)
      BY <1>9 DEF HandleClose, Found
    <3> QED BY <3>1 DEF PutClientSession
  <2> QED BY <1>9, <2>1, <2>2 DEF HandleClose
<1>10. ASSUME NEW c \in Client, CleanClientSession(c) PROVE TypeInv'
  <2> USE OwnThreads
  <2>1. CASE c \in enter_game \ leave_game
    <3>1. GoLeave("cooler", c, "remove_route")
      BY <1>10, <2>1 DEF CleanClientSession
    <3>2. ThreadTypes'
      BY <3>1, GoLeaveTypes DEF ThreadTypes, Call
    <3> QED BY <1>10, <3>2 DEF CleanClientSession, ThreadTypes
  <2>2. CASE c \notin enter_game \ leave_game
    <3>1. /\ at' = [at EXCEPT !["cooler"] = "remove_route"]
          /\ session' = [session EXCEPT !["cooler"] = c]
          /\ UNCHANGED then
      BY <1>10, <2>2 DEF CleanClientSession
    <3>2. ThreadTypes'
      BY <3>1 DEF ThreadTypes, Call
    <3> QED BY <1>10, <3>2 DEF CleanClientSession, ThreadTypes
  <2> QED BY <2>1, <2>2
<1>11. CASE RemoveRoleClientSession
  BY <1>11, OwnThreads DEF RemoveRoleClientSession, Call
<1>12. CASE EnterGameSuccess
  <2> USE OwnThreads
  <2>1. from_gs' \in Seq({"CREATE_SELF", "LEAVE_MAP"})
    BY <1>12 DEF EnterGameSuccess
  <2>2. ThreadTypes'
    <3>1. CASE UNCHANGED threadVars
      BY <3>1 DEF ThreadTypes
    <3>2. CASE GoLeave("gs", NoClient, "idle")
      BY <3>2, GoLeaveTypes DEF ThreadTypes, Call
    <3> QED BY <1>12, <3>1, <3>2 DEF EnterGameSuccess
  <2> QED BY <1>12, <2>1, <2>2 DEF EnterGameSuccess, ThreadTypes
<1>13. CASE LeaveGameSuccess
  <2> USE OwnThreads
  <2>1. from_gs' \in Seq({"CREATE_SELF", "LEAVE_MAP"})
    BY <1>13 DEF LeaveGameSuccess
  <2>2. at' \in [Thread -> Call] /\ LeftIsKnown'
    BY <1>13 DEF LeaveGameSuccess, Call
  <2> QED BY <1>13, <2>1, <2>2 DEF LeaveGameSuccess
<1>14. CASE RoleLogoffSuccess
  BY <1>14, OwnThreads DEF RoleLogoffSuccess, Call
<1>15. ASSUME NEW t \in Thread, CanEnterGame(t) PROVE TypeInv'
  BY <1>15 DEF CanEnterGame, Call
<1>16. ASSUME NEW t \in Thread, EnterGame(t) PROVE TypeInv'
  <2>1. PICK next \in {"send_enter", "idle", "enter_game"} :
          IF role_gs_state = "ENTER_GAME_SUCCESS"
          THEN state_mutex' = t /\ GoLeave(t, NoClient, next)
          ELSE Go(t, next) /\ UNCHANGED <<state_mutex, then, session>>
    BY <1>16 DEF EnterGame, AfterEnter
  <2>2. at[t] \in {"enter", "enter_again"}
    BY <1>16 DEF EnterGame
  <2>3. ThreadTypes' /\ state_mutex' \in Thread \cup {"free"}
    <3>1. CASE role_gs_state = "ENTER_GAME_SUCCESS"
      BY <2>1, <3>1, GoLeaveTypes DEF ThreadTypes, Call
    <3>2. CASE role_gs_state # "ENTER_GAME_SUCCESS"
      BY <2>1, <2>2, <3>2 DEF ThreadTypes, Call
    <3> QED BY <3>1, <3>2
  <2>4. role_offline' \in BOOLEAN
        /\ role_gs_state' \in {"NONE", "ENTER_GAME", "ENTER_GAME_SUCCESS",
                              "LEAVE_GAME"}
    BY <1>16 DEF EnterGame
  <2> QED BY <1>16, <2>3, <2>4 DEF EnterGame, ThreadTypes
<1>17. ASSUME NEW t \in Thread, SendEnter(t) PROVE TypeInv'
  BY <1>17 DEF SendEnter, AfterEnter, Call
<1>18. ASSUME NEW t \in Thread, CanLeaveGame(t) PROVE TypeInv'
  <2>1. CASE role_gs_state \in {"ENTER_GAME", "ENTER_GAME_SUCCESS"}
    BY <1>18, <2>1 DEF CanLeaveGame, Call
  <2>2. CASE role_gs_state \notin {"ENTER_GAME", "ENTER_GAME_SUCCESS"}
    BY <1>18, <2>2 DEF CanLeaveGame, Return, Call
  <2> QED BY <2>1, <2>2
<1>19. ASSUME NEW t \in Thread, LeaveGame(t) PROVE TypeInv'
  BY <1>19 DEF LeaveGame, Call
<1>20. ASSUME NEW t \in Thread, SendLeave(t) PROVE TypeInv'
  BY <1>20 DEF SendLeave, Return, Call
<1>21. CASE CmsgEnterWorld
  <2>1. /\ to_gs' \in Seq({"ENTER_MAP", "LEAVE_MAP"})
        /\ from_gs' \in Seq({"CREATE_SELF", "LEAVE_MAP"})
    BY <1>21 DEF CmsgEnterWorld
  <2>2. online_again' \in BOOLEAN /\ loading' \in BOOLEAN
    BY <1>21 DEF CmsgEnterWorld
  <2> QED BY <1>21, <2>1, <2>2 DEF CmsgEnterWorld
<1>22. CASE CmsgLeaveWorld
  <2>1. to_gs' \in Seq({"ENTER_MAP", "LEAVE_MAP"})
    BY <1>22 DEF CmsgLeaveWorld
  <2>2. online_again' \in BOOLEAN /\ need_flush' \in BOOLEAN
    BY <1>22 DEF CmsgLeaveWorld
  <2>3. player_state' \in {"NONE", "LOADING", "ONLINE", "FLUSHING", "OFFLINE"}
    BY <1>22 DEF CmsgLeaveWorld
  <2> QED BY <1>22, <2>1, <2>2, <2>3 DEF CmsgLeaveWorld
<1>23. ASSUME NEW is_success \in BOOLEAN, PlayerDataLoadFinish(is_success)
       PROVE  TypeInv'
  <2>1. from_gs' \in Seq({"CREATE_SELF", "LEAVE_MAP"})
    <3>1. from_gs' = from_gs \/ from_gs' = Append(from_gs, "CREATE_SELF")
      BY <1>23 DEF PlayerDataLoadFinish
    <3>2. Append(from_gs, "CREATE_SELF") \in Seq({"CREATE_SELF", "LEAVE_MAP"})
      OBVIOUS
    <3> QED BY <3>1, <3>2
  <2>2. loading' \in BOOLEAN /\ need_flush' \in BOOLEAN
    BY <1>23 DEF PlayerDataLoadFinish
  <2>3. in_pool' \in BOOLEAN
    BY <1>23 DEF PlayerDataLoadFinish
  <2>4. player_state' \in {"NONE", "LOADING", "ONLINE", "FLUSHING", "OFFLINE"}
    BY <1>23 DEF PlayerDataLoadFinish
  <2> QED BY <1>23, <2>1, <2>2, <2>3, <2>4 DEF PlayerDataLoadFinish
<1>24. CASE ProcessNeedFlushPlayer
  <2>1. need_flush' \in BOOLEAN /\ flushing' \in Nat
    <3>1. flushing' = flushing \/ flushing' = flushing + 1
      BY <1>24 DEF ProcessNeedFlushPlayer
    <3>2. flushing' \in Nat
      BY <3>1
    <3>3. need_flush' = FALSE
      BY <1>24 DEF ProcessNeedFlushPlayer
    <3> QED BY <3>2, <3>3
  <2> QED BY <1>24, <2>1 DEF ProcessNeedFlushPlayer
<1>25. CASE PlayerFlushDataFinish
  <2>1. flushing' \in Nat /\ from_gs' \in Seq({"CREATE_SELF", "LEAVE_MAP"})
    <3>1. flushing > 0 /\ flushing' = flushing - 1
      BY <1>25 DEF PlayerFlushDataFinish
    <3>2. from_gs' = from_gs \/ from_gs' = Append(from_gs, "LEAVE_MAP")
      BY <1>25 DEF PlayerFlushDataFinish
    <3>3. Append(from_gs, "LEAVE_MAP") \in Seq({"CREATE_SELF", "LEAVE_MAP"})
      OBVIOUS
    <3>4. flushing' \in Nat
      BY <3>1
    <3> QED BY <3>2, <3>3, <3>4
  <2>2. online_again' \in BOOLEAN /\ loading' \in BOOLEAN
    BY <1>25 DEF PlayerFlushDataFinish
  <2>3. in_pool' \in BOOLEAN
    BY <1>25 DEF PlayerFlushDataFinish
  <2>4. player_state' \in {"NONE", "LOADING", "ONLINE", "FLUSHING", "OFFLINE"}
    BY <1>25 DEF PlayerFlushDataFinish
  <2> QED BY <1>25, <2>1, <2>2, <2>3, <2>4 DEF PlayerFlushDataFinish
<1> QED
  BY <1>0, <1>1, <1>2, <1>3, <1>4, <1>5, <1>6, <1>7, <1>8, <1>9, <1>10,
     <1>11, <1>12, <1>13, <1>14, <1>15, <1>16, <1>17, <1>18, <1>19, <1>20,
     <1>21, <1>22, <1>23, <1>24, <1>25
  DEF Next, SessionStep, CoolerStep, GsSessionStep, CallStep, LoadFinishes, MapStep

-----------------------------------------------------------------------------
(* Steps of one thread *)

OthersStay(t) ==
  /\ \A u \in Thread \ {t} : at'[u] = at[u] /\ then'[u] = then[u]
  /\ \A c \in Client \ {t} : input'[c] = input[c]
  /\ asked \subseteq asked'

(* The thread itself calls what it may call. *)
OwnCalls(t) ==
  /\ t \in Client => ClientCalls(t) /\ AsksOnce(t)
  /\ t = "gs" => GsCalls
  /\ t = "cooler" => CoolerCalls

LEMMA OthersKeepCalls ==
  ASSUME ControlInv, NEW t \in Thread, OthersStay(t), OwnCalls(t)'
  PROVE  /\ ThreadCalls'
         /\ \A c \in Client : AsksOnce(c)'
         /\ \A u \in Thread \ {t} : Enters(u)' <=> Enters(u)
<1>1. ASSUME NEW c \in Client, c # t PROVE ClientCalls(c)'
  <2>1. at'[c] = at[c] /\ then'[c] = then[c]
    BY <1>1, ClientThread DEF OthersStay
  <2> QED BY <2>1 DEF ControlInv, ThreadCalls, ClientCalls
<1>2. ASSUME NEW c \in Client, c # t
      PROVE  AsksOnce(c)' /\ (HasEnter(c)' <=> HasEnter(c))
  <2>1. at'[c] = at[c] /\ input'[c] = input[c] /\ asked \subseteq asked'
    BY <1>2, ClientThread DEF OthersStay
  <2>2. AsksOnce(c)
    BY DEF ControlInv
  <2> QED BY <2>1, <2>2 DEF AsksOnce, HasEnter
<1>3. ASSUME t # "gs" PROVE GsCalls'
  <2>1. at'["gs"] = at["gs"] /\ then'["gs"] = then["gs"]
    BY <1>3, OwnThreads DEF OthersStay
  <2> QED BY <2>1 DEF ControlInv, ThreadCalls, GsCalls
<1>4. ASSUME t # "cooler" PROVE CoolerCalls'
  <2>1. at'["cooler"] = at["cooler"] /\ then'["cooler"] = then["cooler"]
    BY <1>4, OwnThreads DEF OthersStay
  <2> QED BY <2>1 DEF ControlInv, ThreadCalls, CoolerCalls
<1>5. ASSUME NEW u \in Thread \ {t} PROVE Enters(u)' <=> Enters(u)
  <2>1. at'[u] = at[u]
    BY DEF OthersStay
  <2> QED BY <1>2, <2>1 DEF Enters
<1>6. ThreadCalls'
  BY <1>1, <1>3, <1>4 DEF OwnCalls, ThreadCalls
<1>7. \A c \in Client : AsksOnce(c)'
  BY <1>2 DEF OwnCalls
<1> QED BY <1>5, <1>6, <1>7

(* A thread that does not begin to enter keeps the control of entrances. *)
LEMMA ControlKept ==
  ASSUME ControlInv, NEW t \in Thread, OthersStay(t), OwnCalls(t)',
         Enters(t)' => Enters(t),
         role_gs_state' = "NONE" <=> role_gs_state = "NONE"
  PROVE  ControlInv'
<1>1. \A u \in Thread : Enters(u)' => Enters(u)
  BY OthersKeepCalls
<1>2. OneEnters'
  BY <1>1 DEF ControlInv, OneEnters
<1> QED BY <1>2, OthersKeepCalls DEF ControlInv

(* So does one that has entered, is the only one that did, or ends. *)
LEMMA ControlMoves ==
  ASSUME ControlInv, NEW t \in Thread, OthersStay(t), OwnCalls(t)',
         \A u \in Thread \ {t} : ~Enters(u),
         Enters(t)' => role_gs_state' = "NONE"
  PROVE  ControlInv'
<1>1. \A u \in Thread \ {t} : ~Enters(u)'
  BY OthersKeepCalls
<1>2. OneEnters'
  BY <1>1 DEF OneEnters
<1> QED BY <1>2, OthersKeepCalls DEF ControlInv

(* The entrance stays where it is. *)
LEMMA LifeKept ==
  ASSUME LifeInv, SendsEnter' = SendsEnter, EntersSent' = EntersSent,
         UNCHANGED <<from_gs, playerVars>>,
         role_gs_state' = "NONE" <=> role_gs_state = "NONE"
  PROVE  LifeInv'
<1>1. /\ NothingSent' <=> NothingSent
      /\ AboutToSend => AboutToSend'
  BY DEF NothingSent, AboutToSend, MapIsClean, playerVars, dataVars
<1>2. OnItsWay => OnItsWay'
  <2> SUFFICES ASSUME OnItsWay PROVE OnItsWay'
    OBVIOUS
  <2>1. PICK i \in DOMAIN to_gs : EntersSent = {i}
    BY DEF OnItsWay
  <2>2. i \in DOMAIN to_gs'
    BY <2>1 DEF EntersSent
  <2> QED BY <2>1, <2>2 DEF OnItsWay, MapIsClean, playerVars, dataVars
<1>4. /\ MapIsClean' <=> MapIsClean
      /\ MapLoads' <=> MapLoads
      /\ MapPlays' <=> MapPlays
      /\ MapFlushes' <=> MapFlushes
      /\ MapFailed' <=> MapFailed
      /\ OnItsWayBack' <=> OnItsWayBack
  BY DEF MapIsClean, MapLoads, MapPlays, MapFlushes, MapFailed, OnItsWayBack,
         playerVars, dataVars
<1> QED BY <1>1, <1>2, <1>4 DEF LifeInv, playerVars

LEMMA SendersKept ==
  ASSUME NEW t \in Thread, OthersStay(t), at[t] # "send_enter",
         at'[t] # "send_enter"
  PROVE  SendsEnter' = SendsEnter
  BY DEF SendsEnter, OthersStay

-----------------------------------------------------------------------------
(* Each action keeps the control and the life of entrances *)

LEMMA ClientClosesInv ==
  ASSUME TypeInv, ControlInv, LifeInv, NEW c \in Client, ClientCloses(c)
  PROVE  ControlInv' /\ LifeInv'
<1> USE DEF ClientCloses, flagVars, clientVars, routeVars, stateVars,
            threadVars, wireVars
<1>1. OthersStay(c)
  BY DEF OthersStay, TypeInv, RoleEntranceTypeOK
<1>2. PICK packet \in {"CLOSE_TEMP", "CLOSE_ROLE"} :
        input'[c] = Append(input[c], packet)
  BY DEF TypeInv, RoleEntranceTypeOK
<1>3. input[c] \in Seq(Packet)
  BY DEF TypeInv, RoleEntranceTypeOK
<1>4. /\ DOMAIN input'[c] = 1 .. Len(input[c]) + 1
      /\ DOMAIN input[c] = 1 .. Len(input[c])
      /\ \A i \in DOMAIN input[c] : input'[c][i] = input[c][i]
      /\ input'[c][Len(input[c]) + 1] # "ENTER_MAP"
  BY <1>2, <1>3
<1>5. \A i : i \in DOMAIN input'[c] /\ input'[c][i] = "ENTER_MAP"
             <=> i \in DOMAIN input[c] /\ input[c][i] = "ENTER_MAP"
  BY <1>3, <1>4
<1>6. HasEnter(c)' <=> HasEnter(c)
  BY <1>5 DEF HasEnter
<1>7. AsksOnce(c)'
  BY <1>5, <1>6 DEF AsksOnce, ControlInv
<1>8. OwnCalls(c)' /\ (Enters(c)' => Enters(c))
  BY <1>6, <1>7, ClientThread DEF OwnCalls, ClientCalls, Enters, ControlInv,
     ThreadCalls
<1>9. ControlInv'
  BY <1>1, <1>8, ControlKept, ClientThread
<1>10. LifeInv'
  BY LifeKept DEF SendsEnter, EntersSent
<1> QED BY <1>9, <1>10

LEMMA ClientEntersInv ==
  ASSUME TypeInv, ControlInv, LifeInv, NEW c \in Client, ClientEnters(c),
         ~contended'
  PROVE  ControlInv' /\ LifeInv'
<1> USE DEF flagVars, routeVars, stateVars, threadVars, wireVars
<1>1. OthersStay(c)
  BY DEF OthersStay, ClientEnters, TypeInv, RoleEntranceTypeOK
<1>2. /\ role_gs_state = "NONE"
      /\ \A t \in Thread : at[t] = "idle"
      /\ \A d \in asked : input[d] = <<>>
  <2>1. contended' = (contended \/ role_gs_state # "NONE"
                            \/ \E t \in Thread : at[t] # "idle"
                            \/ \E d \in asked : InHand(d))
    BY Zenon DEF ClientEnters
  <2>2. role_gs_state = "NONE" /\ \A t \in Thread : at[t] = "idle"
    BY <2>1, Zenon
  <2>3. \A d \in asked : ~InHand(d)
    BY <2>1, OwnThreads, Zenon
  <2>4. ASSUME NEW d \in asked PROVE input[d] = <<>>
    <3>1. ~InHand(d)
      BY <2>3
    <3> QED BY <3>1 DEF InHand
  <2> QED BY <2>2, <2>4
<1>3. ASSUME NEW t \in Thread PROVE ~Enters(t)
  <2>1. t \in Client => ~HasEnter(t)
    BY <1>2 DEF HasEnter, ControlInv, AsksOnce
  <2> QED BY <1>2, <2>1 DEF Enters, Leaving
<1>4. ~HasEnter(c) /\ at'[c] = "idle" /\ c \in asked'
  BY <1>2, <1>3, ClientThread DEF Enters, ClientEnters
<1>5. input[c] \in Seq(Packet) /\ input'[c] = Append(input[c], "ENTER_MAP")
  BY DEF ClientEnters, TypeInv, RoleEntranceTypeOK
<1>6. \A i \in DOMAIN input'[c] :
        input'[c][i] = "ENTER_MAP" => i = Len(input[c]) + 1
  BY <1>4, <1>5 DEF HasEnter
<1>7. OwnCalls(c)'
  <2>1. AsksOnce(c)'
    BY <1>4, <1>6 DEF AsksOnce
  <2>2. ClientCalls(c)'
    BY <1>4 DEF ClientCalls, Leaving
  <2> QED BY <2>1, <2>2, ClientThread DEF OwnCalls
<1>8. ControlInv'
  BY <1>1, <1>2, <1>3, <1>7, ControlMoves, ClientThread DEF ClientEnters
<1>9. LifeInv'
  BY LifeKept DEF SendsEnter, EntersSent, ClientEnters
<1> QED BY <1>8, <1>9

(* A step of a session's thread that changes what it calls next only, and  *)
(* neither sends nor begins an entrance. *)
LEMMA CallChangeInv ==
  ASSUME TypeInv, ControlInv, LifeInv, NEW t \in Thread, NEW call \in Call,
         at' = [at EXCEPT ![t] = call], OthersStay(t), OwnCalls(t)',
         at[t] # "send_enter", call # "send_enter",
         Enters(t)' => Enters(t),
         UNCHANGED <<to_gs, from_gs, playerVars>>,
         role_gs_state' = "NONE" <=> role_gs_state = "NONE"
  PROVE  ControlInv' /\ LifeInv'
<1>1. at'[t] = call
  BY DEF TypeInv, RoleEntranceTypeOK
<1>2. SendsEnter' = SendsEnter
  BY <1>1, SendersKept
<1>3. EntersSent' = EntersSent
  BY DEF EntersSent
<1>4. ControlInv'
  BY ControlKept
<1>5. LifeInv'
  BY <1>2, <1>3, LifeKept
<1> QED BY <1>4, <1>5

LEMMA TailElements ==
  ASSUME NEW S, NEW s \in Seq(S), s # <<>>
  PROVE  \A i \in DOMAIN Tail(s) :
           /\ i \in Nat /\ i >= 1
           /\ i + 1 \in DOMAIN s
           /\ Tail(s)[i] = s[i + 1]
<1>1. /\ Tail(s) \in Seq(S)
      /\ Len(Tail(s)) = Len(s) - 1
      /\ \A i \in 1 .. Len(Tail(s)) : Tail(s)[i] = s[i + 1]
  BY HeadTailProperties
<1>2. DOMAIN Tail(s) = 1 .. Len(s) - 1 /\ Len(s) \in Nat
      /\ DOMAIN s = 1 .. Len(s)
  BY <1>1
<1> QED BY <1>1, <1>2

LEMMA HandleEnterMapInv ==
  ASSUME TypeInv, ControlInv, LifeInv, NEW c \in Client, HandleEnterMap(c)
  PROVE  ControlInv' /\ LifeInv'
<1> USE ClientThread DEF HandleEnterMap, Go, flagVars, clientVars, routeVars,
            stateVars, wireVars
<1>1. PICK call \in {"clean_role", "idle"} : at' = [at EXCEPT ![c] = call]
  OBVIOUS
<1>2. OthersStay(c)
  BY DEF OthersStay, TypeInv, RoleEntranceTypeOK
<1>3. /\ at'[c] = call /\ at[c] = "idle"
      /\ input[c] \in Seq(Packet) /\ input[c] # <<>>
      /\ input[c][1] = "ENTER_MAP" /\ input'[c] = Tail(input[c])
  BY <1>1 DEF TypeInv, RoleEntranceTypeOK
<1>4. HasEnter(c)
  BY <1>3 DEF HasEnter
<1>5. ~HasEnter(c)'
  <2>1. \A i \in DOMAIN input[c] : input[c][i] = "ENTER_MAP" => i = 1
    BY <1>3 DEF ControlInv, AsksOnce
  <2>2. \A i \in DOMAIN Tail(input[c]) :
          /\ i \in Nat /\ i >= 1
          /\ i + 1 \in DOMAIN input[c]
          /\ Tail(input[c])[i] = input[c][i + 1]
    BY <1>3, TailElements
  <2>3. ASSUME NEW i \in DOMAIN input'[c] PROVE input'[c][i] # "ENTER_MAP"
    <3>1. /\ i \in Nat /\ i >= 1 /\ i + 1 \in DOMAIN input[c]
          /\ input'[c][i] = input[c][i + 1]
      BY <1>3, <2>2
    <3> QED BY <2>1, <3>1
  <2> QED BY <2>3 DEF HasEnter
<1>6. OwnCalls(c)'
  BY <1>3, <1>5 DEF OwnCalls, AsksOnce, ClientCalls, Leaving, HasEnter
<1>7. Enters(c)
  BY <1>4 DEF Enters
<1> QED BY <1>1, <1>2, <1>3, <1>6, <1>7, CallChangeInv DEF Call

LEMMA HandleCloseInv ==
  ASSUME TypeInv, ControlInv, LifeInv, NEW c \in Client, HandleClose(c)
  PROVE  ControlInv' /\ LifeInv'
<1> USE ClientThread DEF HandleClose, flagVars, clientVars, routeVars,
            stateVars, threadVars, wireVars
<1>1. OthersStay(c)
  BY DEF OthersStay, TypeInv, RoleEntranceTypeOK
<1>2. /\ input[c] \in Seq(Packet) /\ input[c] # <<>>
      /\ input'[c] = Tail(input[c]) /\ at' = at /\ then' = then
      /\ asked' = asked
  BY DEF TypeInv, RoleEntranceTypeOK
<1>3. \A i \in DOMAIN input'[c] :
        i \in Nat /\ i + 1 \in DOMAIN input[c] /\ input'[c][i] = input[c][i + 1]
  <2>1. \A i \in DOMAIN Tail(input[c]) :
          /\ i \in Nat /\ i >= 1
          /\ i + 1 \in DOMAIN input[c]
          /\ Tail(input[c])[i] = input[c][i + 1]
    BY <1>2, TailElements
  <2> QED BY <1>2, <2>1
<1>4. HasEnter(c)' => HasEnter(c)
  BY <1>3 DEF HasEnter
<1>5. AsksOnce(c)'
  <2>1. \A i, j \in DOMAIN input'[c] :
          input'[c][i] = "ENTER_MAP" /\ input'[c][j] = "ENTER_MAP" => i = j
    <3> SUFFICES ASSUME NEW i \in DOMAIN input'[c], NEW j \in DOMAIN input'[c],
                        input'[c][i] = "ENTER_MAP", input'[c][j] = "ENTER_MAP"
                 PROVE  i = j
      OBVIOUS
    <3>1. i + 1 = j + 1
      BY <1>3 DEF ControlInv, AsksOnce
    <3> QED BY <1>3, <3>1
  <2> QED BY <1>2, <1>4, <2>1 DEF AsksOnce, ControlInv
<1>6. OwnCalls(c)' /\ (Enters(c)' => Enters(c))
  BY <1>2, <1>4, <1>5 DEF OwnCalls, ClientCalls, Enters, ControlInv, ThreadCalls
<1>7. ControlInv'
  BY <1>1, <1>6, ControlKept
<1>8. LifeInv'
  BY LifeKept DEF SendsEnter, EntersSent
<1> QED BY <1>7, <1>8

LEMMA CleanRoleAndLogoffInv ==
  ASSUME TypeInv, ControlInv, LifeInv, NEW c \in Client, CleanRoleAndLogoff(c)
  PROVE  ControlInv' /\ LifeInv'
<1> USE ClientThread
<1>1. PICK call \in {"find_client", "can_leave"} :
        /\ at' = [at EXCEPT ![c] = call]
        /\ call = "can_leave" => then' = [then EXCEPT ![c] = "left_role"]
        /\ call # "can_leave" => then' = then
  BY DEF CleanRoleAndLogoff, Go, GoLeave
<1>2. /\ at'[c] = call /\ at[c] = "clean_role"
      /\ call \in Leaving => then'[c] = "left_role"
      /\ input' = input /\ asked' = asked /\ role_gs_state' = role_gs_state
      /\ UNCHANGED <<to_gs, from_gs, playerVars>>
  BY <1>1 DEF CleanRoleAndLogoff, TypeInv, RoleEntranceTypeOK, Leaving,
     clientVars, stateVars, wireVars
<1>3. OthersStay(c)
  BY <1>1, <1>2 DEF OthersStay, TypeInv, RoleEntranceTypeOK
<1>4. AsksOnce(c)'
  BY <1>2 DEF ControlInv, AsksOnce, HasEnter
<1>5. OwnCalls(c)'
  BY <1>1, <1>2, <1>4 DEF OwnCalls, ClientCalls
<1>6. Enters(c)
  BY <1>2 DEF Enters
<1> QED BY <1>1, <1>2, <1>3, <1>5, <1>6, CallChangeInv DEF Call

(* Calls of a session's thread that ask for nothing new. *)
LEMMA SessionCallInv ==
  ASSUME TypeInv, ControlInv, LifeInv, NEW c \in Client, NEW call \in Call,
         at' = [at EXCEPT ![c] = call], then' = then, at[c] # "send_enter",
         at[c] # "idle",
         call \in {"idle", "find_client", "change_route", "can_enter"},
         call = "idle" \/ Enters(c),
         UNCHANGED <<asked, input, to_gs, from_gs, playerVars, role_gs_state>>
  PROVE  ControlInv' /\ LifeInv'
<1> USE ClientThread
<1>1. at'[c] = call
  BY DEF TypeInv, RoleEntranceTypeOK
<1>2. OthersStay(c)
  BY DEF OthersStay, TypeInv, RoleEntranceTypeOK
<1>3. HasEnter(c)' <=> HasEnter(c)
  BY DEF HasEnter
<1>4. ~HasEnter(c)
  BY DEF ControlInv, AsksOnce
<1>5. AsksOnce(c)'
  BY <1>3, <1>4 DEF ControlInv, AsksOnce
<1>6. OwnCalls(c)'
  BY <1>1, <1>5 DEF OwnCalls, ClientCalls, Leaving
<1>7. Enters(c)' => Enters(c)
  BY <1>1, <1>3, <1>4 DEF Enters, Leaving
<1> QED BY <1>2, <1>6, <1>7, CallChangeInv

LEMMA SessionCallsInv ==
  ASSUME TypeInv, ControlInv, LifeInv, NEW c \in Client,
         LeftRole(c) \/ FindClient(c) \/ ChangeClientRoute(c)
           \/ SessionEnterGame(c)
  PROVE  ControlInv' /\ LifeInv'
<1> USE DEF Go, flagVars, clientVars, routeVars, stateVars, wireVars
<1>1. CASE LeftRole(c)
  <2>1. Enters(c)
    BY <1>1 DEF LeftRole, Enters
  <2> QED BY <1>1, <2>1, SessionCallInv DEF LeftRole, Call
<1>2. CASE FindClient(c)
  <2>1. Enters(c)
    BY <1>2 DEF FindClient, Enters
  <2>2. PICK call \in {"change_route", "idle"} : at' = [at EXCEPT ![c] = call]
    BY <1>2 DEF FindClient
  <2> QED BY <1>2, <2>1, <2>2, SessionCallInv DEF FindClient, Call
<1>3. CASE ChangeClientRoute(c)
  <2>1. Enters(c)
    BY <1>3 DEF ChangeClientRoute, Enters
  <2> QED BY <1>3, <2>1, SessionCallInv DEF ChangeClientRoute, Call
<1>4. CASE SessionEnterGame(c)
  BY <1>4, SessionCallInv DEF SessionEnterGame, Call
<1> QED BY <1>1, <1>2, <1>3, <1>4

(* A thread at work has no entrance waiting for it. *)
LEMMA BusyAsks ==
  ASSUME ControlInv, NEW c \in Client, at[c] # "idle", UNCHANGED <<input, asked>>
  PROVE  ~HasEnter(c) /\ ~HasEnter(c)' /\ AsksOnce(c)'
<1>1. AsksOnce(c) /\ (HasEnter(c)' <=> HasEnter(c))
  BY DEF ControlInv, HasEnter
<1> QED BY <1>1 DEF AsksOnce

(* The thread goes on in a leave. *)
LEMMA LeaveGoesOn ==
  ASSUME TypeInv, ControlInv, LifeInv, NEW t \in Thread, at[t] \in Leaving,
         NEW call \in {"leave", "send_leave"},
         at' = [at EXCEPT ![t] = call], then' = then,
         UNCHANGED <<input, asked, from_gs, playerVars>>,
         EntersSent' = EntersSent,
         role_gs_state' = "NONE" <=> role_gs_state = "NONE"
  PROVE  ControlInv' /\ LifeInv'
<1>1. at'[t] = call /\ at'[t] \in Leaving /\ then'[t] = then[t]
  BY DEF TypeInv, RoleEntranceTypeOK, Leaving
<1>2. OthersStay(t)
  BY DEF OthersStay, TypeInv, RoleEntranceTypeOK
<1>3. OwnCalls(t)'
  <2>1. ASSUME t \in Client PROVE ClientCalls(t)' /\ AsksOnce(t)'
    <3>1. AsksOnce(t)'
      BY <2>1, BusyAsks DEF Leaving
    <3>2. then'[t] = "left_role"
      BY <1>1, <2>1 DEF ControlInv, ThreadCalls, ClientCalls
    <3> QED BY <1>1, <3>1, <3>2 DEF ClientCalls
  <2>2. ASSUME t = "gs" PROVE GsCalls'
    BY <1>1, <2>2 DEF ControlInv, ThreadCalls, GsCalls
  <2>3. ASSUME t = "cooler" PROVE CoolerCalls'
    BY <1>1, <2>3 DEF ControlInv, ThreadCalls, CoolerCalls
  <2> QED BY <2>1, <2>2, <2>3 DEF OwnCalls
<1>4. Enters(t)' => Enters(t)
  BY <1>1 DEF Enters, Leaving
<1>5. SendsEnter' = SendsEnter
  BY <1>1, <1>2, SendersKept DEF Leaving
<1> QED BY <1>2, <1>3, <1>4, <1>5, ControlKept, LifeKept

(* The thread has left. *)
LEMMA LeaveReturns ==
  ASSUME TypeInv, ControlInv, LifeInv, NEW t \in Thread, at[t] \in Leaving,
         Return(t),
         UNCHANGED <<input, asked, from_gs, playerVars>>,
         EntersSent' = EntersSent,
         role_gs_state' = "NONE" <=> role_gs_state = "NONE"
  PROVE  ControlInv' /\ LifeInv'
<1>1. /\ at' = [at EXCEPT ![t] = then[t]]
      /\ then' = [then EXCEPT ![t] = "idle"]
      /\ at'[t] = then[t] /\ then'[t] = "idle"
  BY DEF Return, TypeInv, RoleEntranceTypeOK
<1>2. OthersStay(t)
  BY <1>1 DEF OthersStay, TypeInv, RoleEntranceTypeOK
<1>3. CASE t \in Client
  <2>1. at'[t] = "left_role" /\ t # "gs" /\ t # "cooler"
    BY <1>1, <1>3, ClientThread DEF ControlInv, ThreadCalls, ClientCalls
  <2>2. AsksOnce(t)'
    BY <1>3, BusyAsks DEF Leaving
  <2>3. OwnCalls(t)'
    BY <2>1, <2>2 DEF OwnCalls, ClientCalls, Leaving
  <2>4. Enters(t)
    BY <1>3 DEF Enters
  <2>5. SendsEnter' = SendsEnter
    BY <1>2, <2>1, SendersKept DEF Leaving
  <2> QED BY <1>2, <2>3, <2>4, <2>5, ControlKept, LifeKept
<1>4. CASE t \in {"gs", "cooler"}
  <2>1. /\ at'[t] \in {"idle", "remove_route"}
        /\ t = "gs" => at'[t] = "idle"
        /\ t \notin Client
    BY <1>1, <1>4, OwnThreads DEF ControlInv, ThreadCalls, GsCalls, CoolerCalls
  <2>2. OwnCalls(t)'
    BY <1>1, <2>1 DEF OwnCalls, GsCalls, CoolerCalls
  <2>3. ~Enters(t)'
    BY <2>1 DEF Enters
  <2>4. SendsEnter' = SendsEnter
    BY <1>2, <2>1, SendersKept DEF Leaving
  <2> QED BY <1>2, <2>2, <2>3, <2>4, ControlKept, LifeKept
<1> QED BY <1>3, <1>4, ThreadKinds

LEMMA LeaveCallsInv ==
  ASSUME TypeInv, ControlInv, LifeInv, NEW t \in Thread,
         CanLeaveGame(t) \/ LeaveGame(t) \/ SendLeave(t)
  PROVE  ControlInv' /\ LifeInv'
<1> USE DEF Go, flagVars, clientVars, routeVars, stateVars, wireVars
<1>1. CASE CanLeaveGame(t)
  <2>1. EntersSent' = EntersSent
    BY <1>1 DEF CanLeaveGame, EntersSent
  <2>2. CASE role_gs_state \in {"ENTER_GAME", "ENTER_GAME_SUCCESS"}
    BY <1>1, <2>1, <2>2, LeaveGoesOn DEF CanLeaveGame, Leaving
  <2>3. CASE role_gs_state \notin {"ENTER_GAME", "ENTER_GAME_SUCCESS"}
    BY <1>1, <2>1, <2>3, LeaveReturns DEF CanLeaveGame, Leaving
  <2> QED BY <2>2, <2>3
<1>2. CASE LeaveGame(t)
  <2>1. EntersSent' = EntersSent
    BY <1>2 DEF LeaveGame, EntersSent
  <2> QED BY <1>2, <2>1, LeaveGoesOn DEF LeaveGame, Leaving
<1>3. CASE SendLeave(t)
  <2>1. /\ to_gs \in Seq({"ENTER_MAP", "LEAVE_MAP"})
        /\ to_gs' = Append(to_gs, "LEAVE_MAP")
    BY <1>3 DEF SendLeave, TypeInv, RoleEntranceTypeOK
  <2>2. /\ DOMAIN to_gs' = DOMAIN to_gs \cup {Len(to_gs) + 1}
        /\ Len(to_gs) + 1 \notin DOMAIN to_gs
        /\ to_gs'[Len(to_gs) + 1] = "LEAVE_MAP"
        /\ \A i \in DOMAIN to_gs : to_gs'[i] = to_gs[i]
    BY <2>1
  <2>3. EntersSent' = EntersSent
    BY <2>2 DEF EntersSent
  <2> QED BY <1>3, <2>3, LeaveReturns DEF SendLeave, Leaving
<1> QED BY <1>1, <1>2, <1>3

LEMMA CoolerInv ==
  ASSUME TypeInv, ControlInv, LifeInv,
         (\E c \in Client : CleanClientSession(c)) \/ RemoveRoleClientSession
  PROVE  ControlInv' /\ LifeInv'
<1> USE OwnThreads DEF flagVars, clientVars, routeVars, stateVars, wireVars, Go
<1>1. PICK call \in {"can_leave", "remove_route", "idle"} :
        /\ at' = [at EXCEPT !["cooler"] = call]
        /\ then' \in {then, [then EXCEPT !["cooler"] = "remove_route"]}
        /\ at["cooler"] \in {"idle", "remove_route"}
        /\ UNCHANGED <<input, asked, role_gs_state, to_gs, from_gs, playerVars>>
  <2>1. CASE RemoveRoleClientSession
    BY <2>1 DEF RemoveRoleClientSession
  <2>2. ASSUME NEW c \in Client, CleanClientSession(c)
        PROVE  /\ at["cooler"] = "idle"
               /\ UNCHANGED <<input, asked, role_gs_state, to_gs, from_gs,
                              playerVars>>
               /\ \/ /\ at' = [at EXCEPT !["cooler"] = "can_leave"]
                     /\ then' = [then EXCEPT !["cooler"] = "remove_route"]
                  \/ /\ at' = [at EXCEPT !["cooler"] = "remove_route"]
                     /\ then' = then
    BY <2>2 DEF CleanClientSession, GoLeave
  <2> QED BY <2>1, <2>2
<1>2. /\ at'["cooler"] = call
      /\ then'["cooler"] \in {then["cooler"], "remove_route"}
  BY <1>1 DEF TypeInv, RoleEntranceTypeOK
<1>3. OthersStay("cooler")
  BY <1>1 DEF OthersStay, TypeInv, RoleEntranceTypeOK
<1>4. CoolerCalls'
  BY <1>1, <1>2 DEF CoolerCalls, ControlInv, ThreadCalls, Leaving
<1>5. OwnCalls("cooler")'
  BY <1>4 DEF OwnCalls
<1>6. ~Enters("cooler")'
  BY <1>1, <1>2 DEF Enters
<1> QED BY <1>1, <1>3, <1>5, <1>6, CallChangeInv DEF Call

LEMMA RoleLogoffSuccessInv ==
  ASSUME TypeInv, ControlInv, LifeInv, RoleLogoffSuccess
  PROVE  ControlInv' /\ LifeInv'
<1> USE OwnThreads DEF RoleLogoffSuccess, flagVars, clientVars, routeVars,
            stateVars, wireVars, Go
<1>1. PICK call \in {"can_enter", "idle"} : at' = [at EXCEPT !["gs"] = call]
  OBVIOUS
<1>2. at'["gs"] = call /\ then'["gs"] = "idle" /\ at["gs"] = "logoff_success"
  BY <1>1 DEF TypeInv, RoleEntranceTypeOK, ControlInv, ThreadCalls, GsCalls
<1>3. OthersStay("gs")
  BY <1>1 DEF OthersStay, TypeInv, RoleEntranceTypeOK
<1>4. OwnCalls("gs")'
  BY <1>1, <1>2 DEF OwnCalls, GsCalls
<1>5. Enters("gs")
  BY <1>2 DEF Enters
<1> QED BY <1>1, <1>2, <1>3, <1>4, <1>5, CallChangeInv DEF Call

(* A thread that may enter is a session's or the game server's, and alone. *)
LEMMA EntersAlone ==
  ASSUME ControlInv, NEW t \in Thread,
         at[t] \in {"can_enter", "enter", "enter_again"}
  PROVE  /\ at[t] \in {"can_enter", "enter"}
         /\ t # "cooler"
         /\ Enters(t)
         /\ role_gs_state = "NONE"
         /\ \A u \in Thread \ {t} : ~Enters(u)
<1>1. at[t] \in {"can_enter", "enter"} /\ t # "cooler"
  <2>1. CASE t \in Client
    BY <2>1, ClientThread DEF ControlInv, ThreadCalls, ClientCalls
  <2>2. CASE t = "gs"
    BY <2>2 DEF ControlInv, ThreadCalls, GsCalls, Leaving
  <2>3. CASE t = "cooler"
    BY <2>3 DEF ControlInv, ThreadCalls, CoolerCalls, Leaving
  <2> QED BY <2>1, <2>2, <2>3, ThreadKinds
<1>2. Enters(t)
  BY <1>1 DEF Enters
<1> QED BY <1>1, <1>2 DEF ControlInv, OneEnters

LEMMA CanEnterGameInv ==
  ASSUME TypeInv, ControlInv, LifeInv, NEW t \in Thread, CanEnterGame(t)
  PROVE  ControlInv' /\ LifeInv'
<1> USE DEF CanEnterGame, flagVars, clientVars, routeVars, stateVars, wireVars,
            Go
<1>1. role_gs_state = "NONE" /\ Enters(t) /\ t # "cooler"
  BY EntersAlone
<1>2. at' = [at EXCEPT ![t] = "enter"] /\ at'[t] = "enter" /\ then' = then
  BY <1>1 DEF TypeInv, RoleEntranceTypeOK
<1>3. OthersStay(t)
  BY <1>2 DEF OthersStay, TypeInv, RoleEntranceTypeOK
<1>4. t \in Client => AsksOnce(t)'
  BY BusyAsks
<1>5. OwnCalls(t)'
  BY <1>1, <1>2, <1>4 DEF OwnCalls, ClientCalls, GsCalls, Leaving, ControlInv,
     ThreadCalls
<1> QED BY <1>1, <1>2, <1>3, <1>5, CallChangeInv DEF Call

LEMMA EnterGameInv ==
  ASSUME TypeInv, ControlInv, LifeInv, NEW t \in Thread, EnterGame(t)
  PROVE  ControlInv' /\ LifeInv'
<1> USE DEF flagVars, clientVars, routeVars, wireVars, Go
<1>1. /\ at[t] = "enter" /\ role_gs_state = "NONE" /\ t # "cooler"
      /\ \A u \in Thread \ {t} : ~Enters(u)
  BY EntersAlone DEF EnterGame
<1>2. /\ at' = [at EXCEPT ![t] = "send_enter"] /\ then' = then
      /\ role_gs_state' = "ENTER_GAME"
      /\ UNCHANGED <<input, asked, to_gs, from_gs, playerVars>>
  BY <1>1 DEF EnterGame
<1>3. at'[t] = "send_enter"
  BY <1>2 DEF TypeInv, RoleEntranceTypeOK
<1>4. OthersStay(t)
  BY <1>2 DEF OthersStay, TypeInv, RoleEntranceTypeOK
<1>5. t \in Client => AsksOnce(t)' /\ ~HasEnter(t)'
  BY <1>1, <1>2, BusyAsks
<1>6. OwnCalls(t)'
  BY <1>1, <1>2, <1>3, <1>5 DEF OwnCalls, ClientCalls, GsCalls, Leaving,
     ControlInv, ThreadCalls
<1>7. ~Enters(t)'
  BY <1>3, <1>5 DEF Enters, Leaving
<1>8. ControlInv'
  BY <1>1, <1>4, <1>6, <1>7, ControlMoves
<1>9. LifeInv'
  <2>1. NothingSent /\ MapIsClean /\ from_gs = <<>> /\ ~online_again
    BY <1>1 DEF LifeInv
  <2>2. SendsEnter' = {t}
    BY <1>3, <1>4, <2>1 DEF OthersStay, SendsEnter, NothingSent
  <2>3. EntersSent' = {}
    BY <1>2, <2>1 DEF EntersSent, NothingSent
  <2>4. MapIsClean' /\ from_gs' = <<>> /\ ~online_again'
    BY <1>2, <2>1 DEF MapIsClean, playerVars, dataVars
  <2> QED BY <1>2, <2>2, <2>3, <2>4 DEF LifeInv, AboutToSend
<1> QED BY <1>8, <1>9

LEMMA SendEnterInv ==
  ASSUME TypeInv, ControlInv, LifeInv, NEW t \in Thread, SendEnter(t)
  PROVE  ControlInv' /\ LifeInv'
<1> USE DEF flagVars, clientVars, routeVars, stateVars, wireVars, Go
<1>1. PICK call \in {"idle", "enter_game"} :
        /\ at' = [at EXCEPT ![t] = call] /\ then' = then
        /\ t = "gs" => call = "idle"
  BY DEF SendEnter, AfterEnter
<1>2. /\ at[t] = "send_enter" /\ to_gs' = Append(to_gs, "ENTER_MAP")
      /\ UNCHANGED <<input, asked, role_gs_state, from_gs, playerVars>>
  BY DEF SendEnter
<1>3. at'[t] = call
  BY <1>1 DEF TypeInv, RoleEntranceTypeOK
<1>4. OthersStay(t)
  BY <1>1, <1>2 DEF OthersStay, TypeInv, RoleEntranceTypeOK
<1>5. t \in Client => AsksOnce(t)' /\ ~HasEnter(t)'
  BY <1>2, BusyAsks
<1>6. t # "cooler"
  BY <1>2 DEF ControlInv, ThreadCalls, CoolerCalls, Leaving
<1>7. OwnCalls(t)'
  BY <1>1, <1>3, <1>5, <1>6 DEF OwnCalls, ClientCalls, GsCalls, Leaving,
     ControlInv, ThreadCalls
<1>8. ~Enters(t)'
  BY <1>1, <1>3, <1>5 DEF Enters, Leaving
<1>9. ControlInv'
  BY <1>2, <1>4, <1>7, <1>8, ControlKept
<1>10. LifeInv'
  <2>1. t \in SendsEnter
    BY <1>2 DEF SendsEnter
  <2>2. AboutToSend /\ SendsEnter = {t} /\ role_gs_state # "NONE" /\ ~online_again
    BY <2>1 DEF LifeInv, NothingSent, OnItsWay, AboutToSend
  <2>3. SendsEnter' = {}
    BY <1>1, <1>3, <1>4, <2>2 DEF SendsEnter, OthersStay
  <2>4. /\ DOMAIN to_gs' = DOMAIN to_gs \cup {Len(to_gs) + 1}
        /\ Len(to_gs) + 1 \in DOMAIN to_gs'
        /\ to_gs'[Len(to_gs) + 1] = "ENTER_MAP"
        /\ \A i \in DOMAIN to_gs : to_gs'[i] = to_gs[i]
    BY <1>2 DEF TypeInv, RoleEntranceTypeOK
  <2>5. EntersSent' = {Len(to_gs) + 1}
    BY <2>2, <2>4 DEF EntersSent, AboutToSend
  <2>6. MapIsClean' /\ from_gs' = <<>> /\ ~online_again'
    BY <1>2, <2>2 DEF AboutToSend, MapIsClean, playerVars, dataVars
  <2>7. OnItsWay'
    BY <2>3, <2>4, <2>5, <2>6 DEF OnItsWay
  <2> QED BY <1>2, <2>2, <2>6, <2>7 DEF LifeInv
<1> QED BY <1>9, <1>10

-----------------------------------------------------------------------------
(* Answers of the map, and the map *)

LEMMA EnterGameSuccessInv ==
  ASSUME TypeInv, ControlInv, LifeInv, EnterGameSuccess
  PROVE  ControlInv' /\ LifeInv'
<1> USE OwnThreads DEF flagVars, clientVars, routeVars, threadVars, Go
<1>1. PICK call \in {"can_leave", "idle"} :
        /\ at' = [at EXCEPT !["gs"] = call]
        /\ then' \in {then, [then EXCEPT !["gs"] = "idle"]}
  <2>1. at["gs"] = "idle" /\ at \in [Thread -> Call]
    BY DEF EnterGameSuccess, TypeInv, RoleEntranceTypeOK
  <2>2. at = [at EXCEPT !["gs"] = "idle"]
    BY <2>1
  <2> QED BY <2>2 DEF EnterGameSuccess, GoLeave
<1>2. /\ at["gs"] = "idle" /\ at'["gs"] = call /\ then'["gs"] = "idle"
      /\ UNCHANGED <<input, asked, to_gs, playerVars>>
  BY <1>1 DEF EnterGameSuccess, TypeInv, RoleEntranceTypeOK, ControlInv,
     ThreadCalls, GsCalls
<1>3. from_gs # <<>> /\ Head(from_gs) = "CREATE_SELF" /\ from_gs' = Tail(from_gs)
  BY DEF EnterGameSuccess
<1>4. role_gs_state' = "NONE" <=> role_gs_state = "NONE"
  BY DEF EnterGameSuccess
<1>5. OthersStay("gs")
  BY <1>1, <1>2 DEF OthersStay, TypeInv, RoleEntranceTypeOK
<1>6. OwnCalls("gs")'
  BY <1>1, <1>2 DEF OwnCalls, GsCalls, Leaving
<1>7. ~Enters("gs")'
  BY <1>1, <1>2 DEF Enters
<1>8. ControlInv'
  BY <1>4, <1>5, <1>6, <1>7, ControlKept
<1>9. LifeInv'
  <2>1. SendsEnter' = SendsEnter /\ EntersSent' = EntersSent
    BY <1>1, <1>2, <1>5, SendersKept DEF EntersSent
  <2>2. NothingSent' /\ role_gs_state # "NONE" /\ ~online_again
    BY <1>3, <2>1 DEF LifeInv, NothingSent, AboutToSend, OnItsWay
  <2>3. MapPlays \/ MapFlushes \/ OnItsWayBack
    BY <1>3, <2>2 DEF LifeInv, AboutToSend, OnItsWay, MapLoads, MapFailed
  <2>4. \/ from_gs = <<"CREATE_SELF">>
        \/ from_gs = <<"CREATE_SELF", "LEAVE_MAP">>
    BY <1>3, <2>3 DEF MapPlays, MapFlushes, OnItsWayBack
  <2>5. CASE from_gs = <<"CREATE_SELF">>
    <3>1. from_gs' = <<>>
      BY <1>3, <2>5
    <3>2. MapPlays' \/ MapFlushes'
      BY <1>2, <2>3, <2>5, <3>1
      DEF MapPlays, MapFlushes, OnItsWayBack, playerVars, dataVars
    <3> QED BY <1>2, <1>4, <2>2, <3>2 DEF LifeInv, playerVars
  <2>6. CASE from_gs = <<"CREATE_SELF", "LEAVE_MAP">>
    <3>1. from_gs' = <<"LEAVE_MAP">>
      BY <1>3, <2>6
    <3>2. OnItsWayBack
      BY <2>3, <2>6 DEF MapPlays, MapFlushes
    <3>3. OnItsWayBack'
      BY <1>2, <3>1, <3>2 DEF OnItsWayBack, MapIsClean, playerVars, dataVars
    <3> QED BY <1>2, <1>4, <2>2, <3>3 DEF LifeInv, playerVars
  <2> QED BY <2>4, <2>5, <2>6
<1> QED BY <1>8, <1>9

LEMMA LeaveGameSuccessInv ==
  ASSUME TypeInv, ControlInv, LifeInv, LeaveGameSuccess
  PROVE  ControlInv' /\ LifeInv'
<1> USE OwnThreads DEF flagVars, clientVars, routeVars, Go
<1>1. /\ at["gs"] = "idle" /\ at' = [at EXCEPT !["gs"] = "logoff_success"]
      /\ then' = then /\ role_gs_state' = "NONE"
      /\ UNCHANGED <<input, asked, to_gs, playerVars>>
  BY DEF LeaveGameSuccess
<1>2. at'["gs"] = "logoff_success" /\ then'["gs"] = "idle"
  BY <1>1 DEF TypeInv, RoleEntranceTypeOK, ControlInv, ThreadCalls, GsCalls
<1>3. from_gs # <<>> /\ Head(from_gs) = "LEAVE_MAP" /\ from_gs' = Tail(from_gs)
  BY DEF LeaveGameSuccess
<1>4. /\ OnItsWayBack /\ NothingSent
      /\ role_gs_state # "NONE" /\ ~online_again
  BY <1>3 DEF LifeInv, AboutToSend, OnItsWay, MapLoads, MapPlays, MapFlushes,
     MapFailed
<1>5. \A t \in Thread : ~Enters(t)
  BY <1>4 DEF ControlInv, OneEnters
<1>6. OthersStay("gs")
  BY <1>1 DEF OthersStay, TypeInv, RoleEntranceTypeOK
<1>7. OwnCalls("gs")'
  BY <1>2 DEF OwnCalls, GsCalls
<1>8. ControlInv'
  BY <1>1, <1>5, <1>6, <1>7, ControlMoves
<1>9. from_gs' = <<>>
  BY <1>3, <1>4 DEF OnItsWayBack
<1>10. NothingSent'
  BY <1>1, <1>2, <1>4, <1>6, SendersKept DEF NothingSent, EntersSent
<1>11. LifeInv'
  BY <1>1, <1>4, <1>9, <1>10
  DEF LifeInv, OnItsWayBack, MapIsClean, playerVars, dataVars
<1> QED BY <1>8, <1>11

LEMMA MapKeepsControl ==
  ASSUME ControlInv, UNCHANGED <<at, then, input, asked, role_gs_state>>
  PROVE  ControlInv'
<1>1. ThreadCalls'
  BY DEF ControlInv, ThreadCalls, CoolerCalls, GsCalls, ClientCalls
<1>2. \A c \in Client : AsksOnce(c)' /\ (HasEnter(c)' <=> HasEnter(c))
  BY DEF ControlInv, AsksOnce, HasEnter
<1>3. \A t \in Thread : Enters(t)' <=> Enters(t)
  BY <1>2 DEF Enters
<1> QED BY <1>1, <1>2, <1>3 DEF ControlInv, OneEnters

LEMMA CmsgEnterWorldInv ==
  ASSUME TypeInv, ControlInv, LifeInv, CmsgEnterWorld
  PROVE  LifeInv'
<1>1. /\ to_gs \in Seq({"ENTER_MAP", "LEAVE_MAP"}) /\ to_gs # <<>>
      /\ to_gs[1] = "ENTER_MAP" /\ to_gs' = Tail(to_gs)
      /\ at' = at /\ role_gs_state' = role_gs_state
  BY DEF CmsgEnterWorld, TypeInv, RoleEntranceTypeOK, stateVars, threadVars
<1>2. 1 \in EntersSent
  BY <1>1 DEF EntersSent
<1>3. /\ EntersSent = {1} /\ SendsEnter = {} /\ MapIsClean /\ from_gs = <<>>
      /\ role_gs_state # "NONE" /\ ~online_again
  <2>1. OnItsWay /\ role_gs_state # "NONE" /\ ~online_again
    BY <1>2 DEF LifeInv, NothingSent, AboutToSend
  <2> QED BY <1>2, <2>1 DEF OnItsWay
<1>4. EntersSent' = {}
  <2>1. \A i \in DOMAIN Tail(to_gs) :
          /\ i \in Nat /\ i >= 1
          /\ i + 1 \in DOMAIN to_gs
          /\ Tail(to_gs)[i] = to_gs[i + 1]
    BY <1>1, TailElements
  <2>2. ASSUME NEW i \in EntersSent' PROVE FALSE
    <3>1. i \in Nat /\ i >= 1 /\ i + 1 \in EntersSent
      BY <1>1, <2>1 DEF EntersSent
    <3> QED BY <1>3, <3>1
  <2> QED BY <2>2
<1>5. SendsEnter' = {}
  BY <1>1, <1>3 DEF SendsEnter
<1>6. MapLoads' /\ ~online_again'
  BY <1>3 DEF CmsgEnterWorld, MapIsClean, MapLoads
<1> QED BY <1>1, <1>3, <1>4, <1>5, <1>6 DEF LifeInv, NothingSent

(* The map takes a LEAVE_MAP: what else is on its way moves up. *)
LEMMA LeaveTakesNoEnter ==
  ASSUME TypeInv, to_gs # <<>>, to_gs[1] = "LEAVE_MAP", to_gs' = Tail(to_gs)
  PROVE  /\ EntersSent = {} => EntersSent' = {}
         /\ \A i \in DOMAIN to_gs : EntersSent = {i} =>
              \E j \in DOMAIN to_gs' : EntersSent' = {j}
<1>1. to_gs \in Seq({"ENTER_MAP", "LEAVE_MAP"})
  BY DEF TypeInv, RoleEntranceTypeOK
<1>2. \A i \in DOMAIN to_gs' :
        /\ i \in Nat /\ i >= 1
        /\ i + 1 \in DOMAIN to_gs
        /\ to_gs'[i] = to_gs[i + 1]
  BY <1>1, TailElements
<1>3. ASSUME NEW i \in EntersSent' PROVE i \in Nat /\ i + 1 \in EntersSent
  BY <1>2 DEF EntersSent
<1>4. ASSUME NEW i \in DOMAIN to_gs, EntersSent = {i}
      PROVE  \E j \in DOMAIN to_gs' : EntersSent' = {j}
  <2>1. /\ i \in 1 .. Len(to_gs) /\ Len(to_gs) \in Nat
        /\ to_gs[i] = "ENTER_MAP" /\ i # 1
    BY <1>1, <1>4 DEF EntersSent
  <2>2. /\ DOMAIN to_gs' = 1 .. Len(to_gs) - 1
        /\ i - 1 \in DOMAIN to_gs' /\ (i - 1) + 1 = i
    BY <1>1, <2>1
  <2>3. to_gs'[i - 1] = "ENTER_MAP"
    BY <1>2, <2>1, <2>2
  <2>4. i - 1 \in EntersSent'
    BY <2>2, <2>3 DEF EntersSent
  <2>5. ASSUME NEW j \in EntersSent' PROVE j = i - 1
    BY <1>3, <1>4, <2>1
  <2>6. EntersSent' = {i - 1}
    BY <2>4, <2>5
  <2> QED BY <2>2, <2>6
<1> QED BY <1>3, <1>4

LEMMA CmsgLeaveWorldInv ==
  ASSUME TypeInv, ControlInv, LifeInv, CmsgLeaveWorld
  PROVE  LifeInv'
<1> USE DEF flagVars, clientVars, routeVars, stateVars, threadVars
<1>1. /\ to_gs # <<>> /\ to_gs[1] = "LEAVE_MAP" /\ to_gs' = Tail(to_gs)
      /\ UNCHANGED <<at, role_gs_state, from_gs, loading, flushing, in_pool>>
  BY DEF CmsgLeaveWorld, TypeInv, RoleEntranceTypeOK
<1>2. /\ EntersSent = {} => EntersSent' = {}
      /\ \A i \in DOMAIN to_gs : EntersSent = {i} =>
           \E j \in DOMAIN to_gs' : EntersSent' = {j}
      /\ SendsEnter' = SendsEnter
  BY <1>1, LeaveTakesNoEnter DEF SendsEnter
<1>3. ~online_again /\ ~online_again'
  BY DEF CmsgLeaveWorld, LifeInv
<1>4. /\ player_state = "LOADING" => player_state' = "OFFLINE"
      /\ player_state = "ONLINE" => player_state' = "FLUSHING"
      /\ player_state \notin {"LOADING", "ONLINE"} => player_state' = player_state
  BY <1>3 DEF CmsgLeaveWorld
<1>5. /\ player_state # "ONLINE" => (need_flush' <=> need_flush)
      /\ player_state = "ONLINE" /\ in_pool => need_flush'
  <2>1. need_flush' = (need_flush \/ (player_state' # player_state
                                      /\ player_state = "ONLINE" /\ in_pool))
    BY Zenon DEF CmsgLeaveWorld
  <2>2. player_state = "ONLINE" => player_state' # player_state
    BY <1>4
  <2> QED BY <2>1, <2>2, Zenon
<1>6. NothingSent => NothingSent'
  BY <1>2 DEF NothingSent
<1>7. MapIsClean => MapIsClean'
  BY <1>1, <1>4, <1>5 DEF MapIsClean
<1>8. AboutToSend => AboutToSend'
  BY <1>1, <1>2, <1>7 DEF AboutToSend
<1>9. OnItsWay => OnItsWay'
  BY <1>1, <1>2, <1>7 DEF OnItsWay
<1>10. MapLoads => MapLoads'
  BY <1>1, <1>4, <1>5 DEF MapLoads
<1>11. MapPlays => MapFlushes'
  BY <1>1, <1>4, <1>5 DEF MapPlays, MapFlushes
<1>12. MapFlushes => MapFlushes'
  BY <1>1, <1>4, <1>5 DEF MapFlushes
<1>13. MapFailed => MapFailed'
  BY <1>1, <1>4, <1>5 DEF MapFailed
<1>14. OnItsWayBack => OnItsWayBack'
  BY <1>1, <1>7 DEF OnItsWayBack
<1> QED BY <1>1, <1>3, <1>6, <1>7, <1>8, <1>9, <1>10, <1>11, <1>12, <1>13,
           <1>14 DEF LifeInv

(* Answers of the store find the role where it waits for them. *)
LEMMA LoadFinishesInv ==
  ASSUME TypeInv, ControlInv, LifeInv, LoadFinishes
  PROVE  LifeInv'
<1> USE DEF flagVars, clientVars, routeVars, stateVars, threadVars
<1>1. PICK is_success \in BOOLEAN :
        PlayerDataLoadFinish(is_success) /\ (is_success \/ LoadsFail)
  BY DEF LoadFinishes
<1>2. /\ loading /\ UNCHANGED <<at, role_gs_state, to_gs, online_again, flushing>>
      /\ ~loading'
  BY <1>1 DEF PlayerDataLoadFinish
<1>3. MapLoads /\ NothingSent /\ role_gs_state # "NONE" /\ ~online_again
  BY <1>2 DEF LifeInv, MapIsClean, AboutToSend, OnItsWay, MapPlays, MapFlushes,
     MapFailed, OnItsWayBack
<1>4. NothingSent'
  BY <1>2, <1>3 DEF NothingSent, SendsEnter, EntersSent
<1>5. CASE player_state = "OFFLINE"
  <2>1. /\ need_flush' /\ player_state' = "OFFLINE" /\ from_gs' = <<>>
        /\ flushing' = 0 /\ in_pool' = is_success
    BY <1>1, <1>2, <1>3, <1>5 DEF PlayerDataLoadFinish, MapLoads
  <2>2. MapFlushes' \/ MapFailed'
    BY <1>1, <1>2, <2>1 DEF MapFlushes, MapFailed
  <2> QED BY <1>2, <1>3, <1>4, <2>2 DEF LifeInv
<1>6. CASE player_state = "LOADING" /\ is_success
  <2>1. /\ player_state' = "ONLINE" /\ from_gs' = <<"CREATE_SELF">>
        /\ ~need_flush' /\ in_pool' /\ flushing' = 0
    <3>1. /\ from_gs = <<>> /\ ~need_flush /\ flushing' = 0
          /\ player_state # "OFFLINE"
      BY <1>2, <1>3, <1>6 DEF MapLoads
    <3>2. /\ player_state' = "ONLINE" /\ need_flush' = need_flush
          /\ from_gs' = Append(from_gs, "CREATE_SELF")
      BY <1>1, <1>6, <3>1 DEF PlayerDataLoadFinish
    <3>3. in_pool'
      BY <1>1, <1>6 DEF PlayerDataLoadFinish
    <3> QED BY <3>1, <3>2, <3>3
  <2>2. MapPlays'
    BY <1>2, <2>1 DEF MapPlays
  <2> QED BY <1>2, <1>3, <1>4, <2>2 DEF LifeInv
<1>7. CASE player_state = "LOADING" /\ ~is_success
  <2>1. /\ player_state' = "NONE" /\ from_gs' = <<>>
        /\ ~need_flush' /\ ~in_pool' /\ flushing' = 0
    BY <1>1, <1>2, <1>3, <1>7 DEF PlayerDataLoadFinish, MapLoads
  <2>2. MapFailed'
    BY <1>1, <1>2, <1>7, <2>1 DEF MapFailed
  <2> QED BY <1>2, <1>3, <1>4, <2>2 DEF LifeInv
<1> QED BY <1>3, <1>5, <1>6, <1>7 DEF MapLoads

LEMMA ProcessNeedFlushPlayerInv ==
  ASSUME TypeInv, ControlInv, LifeInv, ProcessNeedFlushPlayer
  PROVE  LifeInv'
<1> USE DEF flagVars, clientVars, routeVars, stateVars, threadVars, wireVars
<1>1. /\ need_flush /\ ~need_flush'
      /\ UNCHANGED <<at, role_gs_state, to_gs, from_gs, player_state,
                     online_again, loading, in_pool>>
  BY DEF ProcessNeedFlushPlayer
<1>2. /\ MapFlushes \/ MapFailed
      /\ NothingSent /\ role_gs_state # "NONE" /\ ~online_again
  BY <1>1 DEF LifeInv, MapIsClean, AboutToSend, OnItsWay, MapPlays, MapLoads,
     OnItsWayBack
<1>3. NothingSent'
  BY <1>1, <1>2 DEF NothingSent, SendsEnter, EntersSent
<1>4. CASE MapFlushes
  <2>1. flushing = 0 /\ player_state # "ONLINE" /\ in_pool
    BY <1>1, <1>4 DEF MapFlushes
  <2>2. flushing' = 1
    BY <2>1 DEF ProcessNeedFlushPlayer
  <2>3. MapFlushes'
    BY <1>1, <1>4, <2>2 DEF MapFlushes
  <2> QED BY <1>1, <1>2, <1>3, <2>3 DEF LifeInv
<1>5. CASE MapFailed
  <2>1. flushing' = 0
    BY <1>5 DEF MapFailed, ProcessNeedFlushPlayer
  <2>2. MapFailed'
    BY <1>1, <1>5, <2>1 DEF MapFailed
  <2> QED BY <1>1, <1>2, <1>3, <2>2 DEF LifeInv
<1> QED BY <1>2, <1>4, <1>5

LEMMA AppendToOne ==
  ASSUME NEW a, NEW b
  PROVE  Append(<<a>>, b) = <<a, b>>
<1>1. <<a>> \in Seq({a, b}) /\ <<a, b>> \in Seq({a, b})
  OBVIOUS
<1>2. Append(<<a>>, b) \in Seq({a, b}) /\ Len(Append(<<a>>, b)) = 2
  BY <1>1, AppendProperties
<1>3. Append(<<a>>, b)[1] = a /\ Append(<<a>>, b)[2] = b
  BY <1>1, AppendProperties
<1>4. \A i \in 1 .. 2 : Append(<<a>>, b)[i] = <<a, b>>[i]
  BY <1>3
<1> QED BY <1>1, <1>2, <1>4, SeqEqual

LEMMA PlayerFlushDataFinishInv ==
  ASSUME TypeInv, ControlInv, LifeInv, PlayerFlushDataFinish
  PROVE  LifeInv'
<1> USE DEF flagVars, clientVars, routeVars, stateVars, threadVars
<1>1. /\ flushing > 0 /\ flushing' = flushing - 1
      /\ UNCHANGED <<at, role_gs_state, to_gs, need_flush>>
  BY DEF PlayerFlushDataFinish
<1>2. MapFlushes /\ NothingSent /\ role_gs_state # "NONE" /\ ~online_again
  BY <1>1 DEF LifeInv, MapIsClean, AboutToSend, OnItsWay, MapPlays, MapLoads,
     MapFailed, OnItsWayBack
<1>3. flushing = 1 /\ ~need_flush /\ player_state # "NONE" /\ ~loading
  BY <1>1, <1>2 DEF MapFlushes
<1>4. /\ player_state' = "NONE" /\ ~online_again' /\ ~loading' /\ ~in_pool'
      /\ from_gs' = Append(from_gs, "LEAVE_MAP") /\ flushing' = 0
  <2>1. /\ player_state' = "NONE" /\ online_again' = FALSE /\ in_pool' = FALSE
        /\ from_gs' = Append(from_gs, "LEAVE_MAP")
    BY <1>2, <1>3 DEF PlayerFlushDataFinish
  <2>2. loading' = (loading \/ online_again)
    BY <1>3 DEF PlayerFlushDataFinish
  <2>3. ~loading'
    BY <1>2, <1>3, <2>2
  <2>4. flushing' = 0
    BY <1>1, <1>3
  <2> QED BY <2>1, <2>3, <2>4
<1>5. from_gs' \in {<<"LEAVE_MAP">>, <<"CREATE_SELF", "LEAVE_MAP">>}
  <2>1. from_gs = <<>> \/ from_gs = <<"CREATE_SELF">>
    BY <1>2 DEF MapFlushes
  <2>2. CASE from_gs = <<>>
    BY <1>4, <2>2
  <2>3. CASE from_gs = <<"CREATE_SELF">>
    <3>1. from_gs' = <<"CREATE_SELF", "LEAVE_MAP">>
      BY <1>4, <2>3, AppendToOne
    <3> QED BY <3>1
  <2> QED BY <2>1, <2>2, <2>3
<1>6. OnItsWayBack'
  BY <1>1, <1>3, <1>4, <1>5 DEF OnItsWayBack, MapIsClean
<1>7. NothingSent'
  BY <1>1, <1>2 DEF NothingSent, SendsEnter, EntersSent
<1> QED BY <1>1, <1>2, <1>4, <1>6, <1>7 DEF LifeInv

-----------------------------------------------------------------------------
(* The invariant *)

LEMMA StepKeepsBoth ==
  ASSUME TypeInv, ~contended', ControlInv, LifeInv, [Next]_vars
  PROVE  ControlInv' /\ LifeInv'
<1>0. CASE UNCHANGED vars
  <2>1. /\ UNCHANGED <<at, then, input, asked, role_gs_state, to_gs, from_gs>>
        /\ UNCHANGED playerVars
    BY <1>0 DEF vars, clientVars, stateVars, threadVars, wireVars
  <2>2. SendsEnter' = SendsEnter /\ EntersSent' = EntersSent
    BY <2>1 DEF SendsEnter, EntersSent
  <2> QED BY <2>1, <2>2, MapKeepsControl, LifeKept
<1>1. ASSUME NEW c \in Client,
             ClientEnters(c) \/ ClientCloses(c) \/ SessionStep(c)
      PROVE  ControlInv' /\ LifeInv'
  BY <1>1, ClientEntersInv, ClientClosesInv, HandleEnterMapInv,
     CleanRoleAndLogoffInv, SessionCallsInv, HandleCloseInv DEF SessionStep
<1>2. CASE CoolerStep
  BY <1>2, CoolerInv DEF CoolerStep
<1>3. CASE GsSessionStep
  BY <1>3, EnterGameSuccessInv, LeaveGameSuccessInv, RoleLogoffSuccessInv
  DEF GsSessionStep
<1>4. ASSUME NEW t \in Thread, CallStep(t) PROVE ControlInv' /\ LifeInv'
  BY <1>4, CanEnterGameInv, EnterGameInv, SendEnterInv, LeaveCallsInv
  DEF CallStep
<1>5. CASE MapStep
  <2>1. UNCHANGED <<at, then, input, asked, role_gs_state>>
    BY <1>5 DEF MapStep, CmsgEnterWorld, CmsgLeaveWorld, LoadFinishes,
       PlayerDataLoadFinish, ProcessNeedFlushPlayer, PlayerFlushDataFinish,
       clientVars, stateVars, threadVars
  <2>2. LifeInv'
    BY <1>5, CmsgEnterWorldInv, CmsgLeaveWorldInv, LoadFinishesInv,
       ProcessNeedFlushPlayerInv, PlayerFlushDataFinishInv DEF MapStep
  <2> QED BY <2>1, <2>2, MapKeepsControl
<1> QED BY <1>0, <1>1, <1>2, <1>3, <1>4, <1>5 DEF Next

(* Sessions that come one after the other have done so up to now. *)
LEMMA ContendedStays ==
  ASSUME contended, [Next]_vars
  PROVE  contended'
<1>0. CASE UNCHANGED vars
  BY <1>0 DEF vars, clientVars
<1>1. ASSUME NEW c \in Client, ClientEnters(c) PROVE contended'
  BY <1>1 DEF ClientEnters
<1>2. ASSUME NEW c \in Client, ClientCloses(c) \/ SessionStep(c)
      PROVE  contended'
  BY <1>2 DEF ClientCloses, SessionStep, HandleEnterMap, CleanRoleAndLogoff,
     LeftRole, FindClient, ChangeClientRoute, SessionEnterGame, HandleClose,
     clientVars
<1>3. CASE CoolerStep
  BY <1>3 DEF CoolerStep, CleanClientSession, RemoveRoleClientSession, clientVars
<1>4. CASE GsSessionStep
  BY <1>4 DEF GsSessionStep, EnterGameSuccess, LeaveGameSuccess,
     RoleLogoffSuccess, clientVars
<1>5. ASSUME NEW t \in Thread, CallStep(t) PROVE contended'
  BY <1>5 DEF CallStep, CanEnterGame, EnterGame, SendEnter, CanLeaveGame,
     LeaveGame, SendLeave, clientVars
<1>6. CASE MapStep
  BY <1>6 DEF MapStep, CmsgEnterWorld, CmsgLeaveWorld, LoadFinishes,
     PlayerDataLoadFinish, ProcessNeedFlushPlayer, PlayerFlushDataFinish,
     clientVars
<1> QED BY <1>0, <1>1, <1>2, <1>3, <1>4, <1>5, <1>6 DEF Next

LEMMA InvInductive == IInv /\ [Next]_vars => IInv'
<1> SUFFICES ASSUME IInv, [Next]_vars PROVE IInv'
  OBVIOUS
<1>1. TypeInv'
  BY TypesInductive DEF IInv
<1>2. contended' \/ (ControlInv' /\ LifeInv')
  BY ContendedStays, StepKeepsBoth DEF IInv
<1> QED BY <1>1, <1>2 DEF IInv

(* The invariant, for any number of sessions and whatever closes them. *)
THEOREM Invariant == Spec => []IInv
  BY InvInitial, InvInductive, PTL DEF Spec

(* Every variable stays of its type: a session that is left or cooled is a *)
(* session, and no state of a role or a player is one the code has not.    *)
THEOREM Types == Spec => []RoleEntranceTypeOK
<1>1. IInv => RoleEntranceTypeOK
  BY DEF IInv, TypeInv
<1> QED BY <1>1, Invariant, PTL

(* The answer to a load or a flush finds the role where it waits for it,   *)
(* so that playerDataLoadFinish finds the entry it uses without a look.    *)
THEOREM AnswersFindTheirState == Spec => []AnswersFindState
<1>1. IInv => AnswersFindState
  BY DEF IInv, TypeInv, RoleEntranceTypeOK, AnswersFindState, LifeInv,
     AboutToSend, OnItsWay, MapIsClean, MapLoads, MapPlays, MapFlushes,
     MapFailed, OnItsWayBack
<1> QED BY <1>1, Invariant, PTL

(* The end of a flush takes no data of a role that plays from the pool. *)
THEOREM OnlineStaysUnflushed == Spec => []OnlineIsNotFlushed
<1>1. IInv => OnlineIsNotFlushed
  BY DEF IInv, TypeInv, RoleEntranceTypeOK, OnlineIsNotFlushed, LifeInv,
     AboutToSend, OnItsWay, MapIsClean, MapLoads, MapPlays, MapFlushes,
     MapFailed, OnItsWayBack
<1> QED BY <1>1, Invariant, PTL

(* When nothing is on its way, gate and map agree whether the role is in   *)
(* the game, though each has found out at another time.                    *)
THEOREM GateAndMapStayAgreed == Spec => []GateAndMapAgree
<1>1. IInv => GateAndMapAgree
  <2> SUFFICES ASSUME IInv, ~contended, Quiet
               PROVE  /\ player_state # "NONE" => role_gs_state # "NONE"
                      /\ ~LoadsFail /\ role_gs_state # "NONE"
                           => player_state # "NONE"
    BY DEF GateAndMapAgree
  <2>1. LifeInv /\ SendsEnter = {} /\ EntersSent = {} /\ from_gs = <<>>
    BY DEF IInv, Quiet, SendsEnter, EntersSent
  <2>2. ~AboutToSend /\ ~OnItsWay /\ ~OnItsWayBack
    BY <2>1 DEF AboutToSend, OnItsWay, OnItsWayBack
  <2> QED BY <2>1, <2>2 DEF LifeInv, MapIsClean, MapLoads, MapPlays, MapFlushes,
             MapFailed
<1> QED BY <1>1, Invariant, PTL

=============================================================================
