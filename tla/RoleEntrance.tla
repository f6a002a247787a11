---------------------------- MODULE RoleEntrance ----------------------------
(***************************************************************************)
(* How a role enters and leaves the game: the gate with the sessions of    *)
(* several clients that want to play the same role, and the game server    *)
(* with its one map.                                                       *)
(*                                                                         *)
(* The gate's threads: a packet thread for each session, which handles its *)
(* packets in order (RouteClientPackage::svc; ten of them are configured,  *)
(* and sessions take turns), the cooler, which closes sessions, and the    *)
(* thread that reads from the game server.  They meet under two mutexes:   *)
(* of the routes (m_client_session_map_mutex) and of the states of roles   *)
(* (m_role_gs_state_map_mutex).  Each call of ManageRoleGsState takes the  *)
(* second by itself, so that a decision and what is done about it are      *)
(* different steps.  The game server handles packets and answers of the    *)
(* store in one thread.                                                    *)
(*                                                                         *)
(* A session has its role list already, and asks to enter the game once.   *)
(***************************************************************************)
EXTENDS Naturals, Sequences

CONSTANTS
  Client,          \* sessions that choose the role
  NoClient,
  RecursiveMutex,  \* ACE_Thread_Mutex may be taken again by its owner: so
                   \* on Windows, not with pthreads
  LoadsFail,       \* cachesys may fail to load the role
  MaxCloses        \* bound of the model: packets that close a session

ASSUME NoClientAssumption == NoClient \notin Client
ASSUME RecursiveMutexAssumption == RecursiveMutex \in BOOLEAN
ASSUME LoadsFailAssumption == LoadsFail \in BOOLEAN
ASSUME MaxClosesAssumption == MaxCloses \in Nat
ASSUME ThreadNamesAssumption == {"cooler", "gs", "free"} \cap Client = {}

Thread == Client \cup {"cooler", "gs"}

VARIABLES
  (* ClientSession *)
  role_guid,      \* [Client -> {"temp", "role"}]: m_account_info.role_guid
  enter_game,     \* sessions with AS_ENTER_GAME
  leave_game,     \* sessions with AS_LEAVE_GAME
  cooler,         \* [Client -> ...]: where the cooler has the session
  asked,          \* sessions that have sent CMSG_PLAYER_ENTER_MAP
  contended,      \* history: a session has asked while the gate still had
                  \* to do with another one, or with the role
  closes,         \* packets that close a session so far (bound)
  input,          \* [Client -> Seq(...)]: packets for the session's thread
  (* RouteClientPackage::m_client_session_map_id_map *)
  temp_route,     \* sessions found by their temporary GUID
  role_route,     \* the session found by the role's GUID
  route_mutex,    \* which thread has m_client_session_map_mutex
  (* ManageRoleGsState *)
  role_gs_state,  \* "NONE" without an entry
  role_offline,
  state_mutex,    \* which thread has m_role_gs_state_map_mutex
  (* the gate's threads *)
  at,             \* [Thread -> ...]: the next call
  then,           \* [Thread -> ...]: the call after a leave
  session,        \* [Thread -> Client]: the session that is left or closed
  (* the connection of gate and game server *)
  to_gs,
  from_gs,
  (* ManagePlayer of the map *)
  player_state,   \* m_player_state, "NONE" without an entry
  online_again,   \* the role is in m_player_online_before_finish_flushing
  need_flush,     \* ... in m_need_flush_player_map
  loading,        \* ... in m_player_loading_data_map: a load is on its way
  flushing,       \* flushes on their way to cachesys
  in_pool         \* the role's data is in the pool

flagVars == <<role_guid, enter_game, leave_game, cooler>>
clientVars == <<asked, contended, closes>>
routeVars == <<temp_route, role_route, route_mutex>>
stateVars == <<role_gs_state, role_offline, state_mutex>>
threadVars == <<at, then, session>>
wireVars == <<to_gs, from_gs>>
dataVars == <<need_flush, loading, flushing, in_pool>>
playerVars == <<player_state, online_again, dataVars>>
vars == <<flagVars, clientVars, input, routeVars, stateVars, threadVars,
          wireVars, playerVars>>

Packet == {"ENTER_MAP", "CLOSE_TEMP", "CLOSE_ROLE"}

Call == {"idle", "clean_role", "left_role", "find_client", "change_route",
         "can_enter", "enter", "enter_again", "send_enter", "enter_game",
         "can_leave", "leave", "send_leave", "remove_route", "logoff_success"}

RoleEntranceTypeOK ==
  /\ role_guid \in [Client -> {"temp", "role"}]
  /\ enter_game \subseteq Client
  /\ leave_game \subseteq Client
  /\ cooler \in [Client -> {"out", "waiting", "closing", "closed"}]
  /\ asked \subseteq Client
  /\ contended \in BOOLEAN
  /\ closes \in 0 .. MaxCloses
  /\ input \in [Client -> Seq(Packet)]
  /\ temp_route \subseteq Client
  /\ role_route \in Client \cup {NoClient}
  /\ route_mutex \in Thread \cup {"free"}
  /\ role_gs_state \in {"NONE", "ENTER_GAME", "ENTER_GAME_SUCCESS",
                        "LEAVE_GAME"}
  /\ role_offline \in BOOLEAN
  /\ state_mutex \in Thread \cup {"free"}
  /\ at \in [Thread -> Call]
  /\ then \in [Thread -> Call]
  /\ session \in [Thread -> Client \cup {NoClient}]
  /\ to_gs \in Seq({"ENTER_MAP", "LEAVE_MAP"})
  /\ from_gs \in Seq({"CREATE_SELF", "LEAVE_MAP"})
  /\ player_state \in {"NONE", "LOADING", "ONLINE", "FLUSHING", "OFFLINE"}
  /\ {online_again, need_flush, loading, in_pool} \subseteq BOOLEAN
  /\ flushing \in Nat

(* ClientSession::open has given each session a temporary GUID and route.  *)
Init ==
  /\ role_guid = [c \in Client |-> "temp"]
  /\ enter_game = {}
  /\ leave_game = {}
  /\ cooler = [c \in Client |-> "out"]
  /\ asked = {}
  /\ contended = FALSE
  /\ closes = 0
  /\ input = [c \in Client |-> <<>>]
  /\ temp_route = Client
  /\ role_route = NoClient
  /\ route_mutex = "free"
  /\ role_gs_state = "NONE"
  /\ role_offline = FALSE
  /\ state_mutex = "free"
  /\ at = [t \in Thread |-> "idle"]
  /\ then = [t \in Thread |-> "idle"]
  /\ session = [t \in Thread |-> NoClient]
  /\ to_gs = <<>>
  /\ from_gs = <<>>
  /\ player_state = "NONE"
  /\ online_again = FALSE
  /\ need_flush = FALSE
  /\ loading = FALSE
  /\ flushing = 0
  /\ in_pool = FALSE


-----------------------------------------------------------------------------
(* Clients *)

InHand(c) ==
  cooler[c] # "closed" \/ at[c] # "idle" \/ input[c] # <<>>

(* CMSG_PLAYER_ENTER_MAP is read while the session has its temporary GUID. *)
ClientEnters(c) ==
  /\ cooler[c] \in {"out", "waiting"}
  /\ c \notin asked
  /\ asked' = asked \cup {c}
  /\ contended' = (contended \/ role_gs_state # "NONE"
                            \/ \E t \in Thread : at[t] # "idle"
                            \/ \E d \in asked : InHand(d))
  /\ input' = [input EXCEPT ![c] = Append(@, "ENTER_MAP")]
  /\ UNCHANGED <<flagVars, closes, routeVars, stateVars, threadVars, wireVars,
                 playerVars>>

(* A read or write error, a beat timeout, an output that does not get      *)
(* through, or the client's logout: each is put to the session's packets   *)
(* with the GUID the session has then.                                     *)
ClientCloses(c) ==
  /\ cooler[c] # "closed"
  /\ closes < MaxCloses
  /\ closes' = closes + 1
  /\ input' = [input EXCEPT ![c] =
                 Append(@, IF role_guid[c] = "temp" THEN "CLOSE_TEMP"
                           ELSE "CLOSE_ROLE")]
  /\ UNCHANGED <<flagVars, asked, contended, routeVars, stateVars, threadVars, wireVars,
                 playerVars>>

-----------------------------------------------------------------------------
(* What the threads of the gate call *)

Go(t, call) == at' = [at EXCEPT ![t] = call]

GoLeave(t, c, call) ==
  /\ at' = [at EXCEPT ![t] = "can_leave"]
  /\ then' = [then EXCEPT ![t] = call]
  /\ session' = [session EXCEPT ![t] = c]

Return(t) ==
  /\ at' = [at EXCEPT ![t] = then[t]]
  /\ then' = [then EXCEPT ![t] = "idle"]
  /\ state_mutex' = IF state_mutex = t THEN "free" ELSE state_mutex

CanLockOnce(t) == state_mutex = "free"

CanLock(t) == state_mutex = "free" \/ (RecursiveMutex /\ state_mutex = t)

(* putClientSession: a session that was put there before is passed over.   *)
PutClientSession(c) ==
  cooler' = [cooler EXCEPT ![c] = IF @ = "out" THEN "waiting" ELSE @]

(* canEnterGame, called by handleClientPackage for an ENTER_MAP *)
CanEnterGame(t) ==
  /\ at[t] = "can_enter"
  /\ CanLock(t)
  /\ Go(t, IF role_gs_state = "NONE" THEN "enter" ELSE "enter_again")
  /\ UNCHANGED <<flagVars, clientVars, input, routeVars, stateVars, then,
                 session, wireVars, playerVars>>

AfterEnter(t) == IF t = "gs" THEN "idle" ELSE "enter_game"

(* A mutant: the role is marked, and not logged off. *)
EnterGameOnlyMarks(t) ==
  LET next == IF at[t] = "enter" THEN "send_enter" ELSE AfterEnter(t)
  IN  /\ at[t] \in {"enter", "enter_again"}
      /\ CanLock(t)
      /\ IF role_gs_state = "NONE"
         THEN role_gs_state' = "ENTER_GAME" /\ role_offline' = FALSE
         ELSE role_offline' = TRUE /\ UNCHANGED role_gs_state
      /\ Go(t, next)
      /\ UNCHANGED <<state_mutex, then, session>>
      /\ UNCHANGED <<flagVars, clientVars, input, routeVars, wireVars,
                     playerVars>>

(* enterGame, which handleClientPackage calls either way.  A role that has *)
(* entered already is logged off (doLogoff, sendLogoffMsg), with the mutex *)
(* still held.                                                             *)
EnterGame(t) ==
  LET next == IF at[t] = "enter" THEN "send_enter" ELSE AfterEnter(t)
  IN  /\ at[t] \in {"enter", "enter_again"}
      /\ CanLock(t)
      /\ IF role_gs_state = "NONE"
         THEN role_gs_state' = "ENTER_GAME" /\ role_offline' = FALSE
         ELSE role_offline' = TRUE /\ UNCHANGED role_gs_state
      /\ IF role_gs_state = "ENTER_GAME_SUCCESS"
         THEN state_mutex' = t /\ GoLeave(t, NoClient, next)
         ELSE Go(t, next) /\ UNCHANGED <<state_mutex, then, session>>
      /\ UNCHANGED <<flagVars, clientVars, input, routeVars, wireVars,
                     playerVars>>

SendEnter(t) ==
  /\ at[t] = "send_enter"
  /\ to_gs' = Append(to_gs, "ENTER_MAP")
  /\ Go(t, AfterEnter(t))
  /\ UNCHANGED <<flagVars, clientVars, input, routeVars, stateVars, then,
                 session, from_gs, playerVars>>

(* canLeaveGame, called by handleClientPackage for a LEAVE_MAP *)
CanLeaveGame(t) ==
  /\ at[t] = "can_leave"
  /\ CanLock(t)
  /\ IF role_gs_state \in {"ENTER_GAME", "ENTER_GAME_SUCCESS"}
     THEN Go(t, "leave") /\ UNCHANGED <<state_mutex, then>>
     ELSE Return(t)
  /\ UNCHANGED <<flagVars, clientVars, input, routeVars, role_gs_state,
                 role_offline, session, wireVars, playerVars>>

(* A mutant: a role whose entrance is not confirmed is forgotten. *)
LeaveGameForgets(t) ==
  /\ at[t] = "leave"
  /\ CanLock(t)
  /\ role_offline' = (role_offline \/ role_gs_state = "ENTER_GAME")
  /\ role_gs_state' = IF role_gs_state = "ENTER_GAME_SUCCESS" THEN "LEAVE_GAME"
                      ELSE "NONE"
  /\ Go(t, "send_leave")
  /\ UNCHANGED <<flagVars, clientVars, input, routeVars, state_mutex, then,
                 session, wireVars, playerVars>>

(* leaveGame: a role whose entrance is not confirmed is marked only. *)
LeaveGame(t) ==
  /\ at[t] = "leave"
  /\ CanLock(t)
  /\ role_offline' = (role_offline \/ role_gs_state = "ENTER_GAME")
  /\ role_gs_state' = IF role_gs_state = "ENTER_GAME_SUCCESS" THEN "LEAVE_GAME"
                      ELSE role_gs_state
  /\ Go(t, "send_leave")
  /\ UNCHANGED <<flagVars, clientVars, input, routeVars, state_mutex, then,
                 session, wireVars, playerVars>>

SendLeave(t) ==
  /\ at[t] = "send_leave"
  /\ to_gs' = Append(to_gs, "LEAVE_MAP")
  /\ Return(t)
  /\ UNCHANGED <<flagVars, clientVars, input, routeVars, role_gs_state,
                 role_offline, session, from_gs, playerVars>>

-----------------------------------------------------------------------------
(* The thread of a session's packets *)

(* handleEnterMap: the session is found, and may enter. *)
HandleEnterMap(c) ==
  /\ at[c] = "idle"
  /\ input[c] # <<>> /\ Head(input[c]) = "ENTER_MAP"
  /\ route_mutex = "free"
  /\ input' = [input EXCEPT ![c] = Tail(@)]
  /\ Go(c, IF c \in temp_route \ enter_game THEN "clean_role" ELSE "idle")
  /\ UNCHANGED <<flagVars, clientVars, routeVars, stateVars, then, session,
                 wireVars, playerVars>>

(* cleanRoleAndLogoff: a session that has the role loses its route and     *)
(* leaves, while the mutex of the routes is held.                          *)
CleanRoleAndLogoff(c) ==
  /\ at[c] = "clean_role"
  /\ route_mutex = "free"
  /\ IF role_route = NoClient
     THEN Go(c, "find_client") /\ UNCHANGED <<route_mutex, then, session>>
     ELSE GoLeave(c, role_route, "left_role") /\ route_mutex' = c
  /\ role_route' = NoClient
  /\ UNCHANGED <<flagVars, clientVars, input, temp_route, stateVars, wireVars,
                 playerVars>>

LeftRole(c) ==
  /\ at[c] = "left_role"
  /\ leave_game' = leave_game \cup {session[c]}
  /\ PutClientSession(session[c])
  /\ route_mutex' = "free"
  /\ Go(c, "find_client")
  /\ session' = [session EXCEPT ![c] = NoClient]
  /\ UNCHANGED <<role_guid, enter_game, clientVars, input, temp_route,
                 role_route, stateVars, then, wireVars, playerVars>>

(* clientEnterMap: the session is looked up again, ... *)
FindClient(c) ==
  /\ at[c] = "find_client"
  /\ route_mutex = "free"
  /\ Go(c, IF c \in temp_route THEN "change_route" ELSE "idle")
  /\ UNCHANGED <<flagVars, clientVars, input, routeVars, stateVars, then,
                 session, wireVars, playerVars>>

(* ... and gets the role's GUID and route (changeClientRoute), unless the  *)
(* role has been routed meanwhile: then that session is closed, and this   *)
(* one has no route.                                                       *)
ChangeClientRoute(c) ==
  /\ at[c] = "change_route"
  /\ route_mutex = "free"
  /\ role_guid' = [role_guid EXCEPT ![c] = "role"]
  /\ temp_route' = temp_route \ {c}
  /\ IF role_route = NoClient
     THEN role_route' = c /\ UNCHANGED cooler
     ELSE PutClientSession(role_route) /\ UNCHANGED role_route
  /\ Go(c, "can_enter")
  /\ UNCHANGED <<enter_game, leave_game, clientVars, input, route_mutex,
                 stateVars, then, session, wireVars, playerVars>>

(* clientEnterMap, when handleClientPackage has returned *)
SessionEnterGame(c) ==
  /\ at[c] = "enter_game"
  /\ enter_game' = enter_game \cup {c}
  /\ Go(c, "idle")
  /\ UNCHANGED <<role_guid, leave_game, cooler, clientVars, input, routeVars,
                 stateVars, then, session, wireVars, playerVars>>

(* handleClientReadError and the like: whichever session is found by the   *)
(* packet's GUID goes to the cooler.                                       *)
Found(c, packet) ==
  IF packet = "CLOSE_ROLE" THEN {role_route} \ {NoClient}
  ELSE {c} \cap temp_route

HandleClose(c) ==
  /\ at[c] = "idle"
  /\ input[c] # <<>> /\ Head(input[c]) # "ENTER_MAP"
  /\ route_mutex = "free"
  /\ input' = [input EXCEPT ![c] = Tail(@)]
  /\ LET found == Found(c, Head(input[c]))
     IN  IF found = {} THEN UNCHANGED cooler
         ELSE \E s \in found : PutClientSession(s)
  /\ UNCHANGED <<role_guid, enter_game, leave_game, clientVars, routeVars,
                 stateVars, threadVars, wireVars, playerVars>>

-----------------------------------------------------------------------------
(* ManageClientSessionCooler *)

(* handle_close of a session that waits: one that has entered the game and *)
(* not left it leaves.                                                     *)
CleanClientSession(c) ==
  /\ at["cooler"] = "idle"
  /\ cooler[c] = "waiting"
  /\ cooler' = [cooler EXCEPT ![c] = "closing"]
  /\ IF c \in enter_game \ leave_game
     THEN GoLeave("cooler", c, "remove_route")
     ELSE /\ Go("cooler", "remove_route")
          /\ session' = [session EXCEPT !["cooler"] = c]
          /\ UNCHANGED then
  /\ UNCHANGED <<role_guid, enter_game, leave_game, clientVars, input,
                 routeVars, stateVars, wireVars, playerVars>>

(* removeRoleClientSession: the route goes if it is this session's. *)
RemoveRoleClientSession ==
  LET c == session["cooler"]
  IN  /\ at["cooler"] = "remove_route"
      /\ route_mutex = "free"
      /\ IF role_guid[c] = "temp"
         THEN temp_route' = temp_route \ {c} /\ UNCHANGED role_route
         ELSE /\ role_route' = IF role_route = c THEN NoClient ELSE role_route
              /\ UNCHANGED temp_route
      /\ cooler' = [cooler EXCEPT ![c] = "closed"]
      /\ Go("cooler", "idle")
      /\ session' = [session EXCEPT !["cooler"] = NoClient]
      /\ UNCHANGED <<role_guid, enter_game, leave_game, clientVars, input,
                     route_mutex, stateVars, then, wireVars, playerVars>>

-----------------------------------------------------------------------------
(* RouteGSPacket::putPackage, in the thread of the game server's session *)

(* enterGameSuccess: a role that went offline meanwhile leaves. *)
EnterGameSuccess ==
  /\ at["gs"] = "idle"
  /\ from_gs # <<>> /\ Head(from_gs) = "CREATE_SELF"
  /\ CanLock("gs")
  /\ from_gs' = Tail(from_gs)
  /\ role_gs_state' = IF role_gs_state = "ENTER_GAME" THEN "ENTER_GAME_SUCCESS"
                      ELSE role_gs_state
  /\ IF role_gs_state = "ENTER_GAME" /\ role_offline
     THEN GoLeave("gs", NoClient, "idle")
     ELSE UNCHANGED threadVars
  /\ UNCHANGED <<flagVars, clientVars, input, routeVars, role_offline,
                 state_mutex, to_gs, playerVars>>

(* A mutant: the role stays, as RGS_LEAVE_GAME_SUCCESS. *)
LeaveGameSuccessKeeps ==
  /\ at["gs"] = "idle"
  /\ from_gs # <<>> /\ Head(from_gs) = "LEAVE_MAP"
  /\ CanLock("gs")
  /\ from_gs' = Tail(from_gs)
  /\ role_gs_state' = "LEAVE_GAME_SUCCESS"
  /\ role_offline' = FALSE
  /\ Go("gs", "logoff_success")
  /\ UNCHANGED <<flagVars, clientVars, input, routeVars, state_mutex, then,
                 session, to_gs, playerVars>>

(* leaveGameSuccess erases the role. *)
LeaveGameSuccess ==
  /\ at["gs"] = "idle"
  /\ from_gs # <<>> /\ Head(from_gs) = "LEAVE_MAP"
  /\ CanLock("gs")
  /\ from_gs' = Tail(from_gs)
  /\ role_gs_state' = "NONE"
  /\ role_offline' = FALSE
  /\ Go("gs", "logoff_success")
  /\ UNCHANGED <<flagVars, clientVars, input, routeVars, state_mutex, then,
                 session, to_gs, playerVars>>

(* roleLogoffSuccess: a session that has the role now, and was told to     *)
(* wait, enters the game.                                                  *)
RoleLogoffSuccess ==
  /\ at["gs"] = "logoff_success"
  /\ route_mutex = "free"
  /\ Go("gs", IF role_route \in enter_game THEN "can_enter" ELSE "idle")
  /\ UNCHANGED <<flagVars, clientVars, input, routeVars, stateVars, then,
                 session, wireVars, playerVars>>

-----------------------------------------------------------------------------
(* ManagePlayer of the map *)

(* cmsg_enter_world: in the states OFFLINE and none the role is loaded     *)
(* (request_load_player does nothing while a load is on its way).          *)
CmsgEnterWorld ==
  /\ to_gs # <<>> /\ Head(to_gs) = "ENTER_MAP"
  /\ to_gs' = Tail(to_gs)
  /\ online_again' = (online_again \/ player_state = "FLUSHING")
  /\ from_gs' = IF player_state = "ONLINE" THEN Append(from_gs, "CREATE_SELF")
                ELSE from_gs
  /\ IF player_state \in {"NONE", "OFFLINE"}
     THEN loading' = TRUE /\ player_state' = "LOADING"
     ELSE UNCHANGED <<loading, player_state>>
  /\ UNCHANGED <<flagVars, clientVars, input, routeVars, stateVars, threadVars,
                 need_flush, flushing, in_pool>>

(* A mutant: a role that leaves while it is loaded is forgotten. *)
CmsgLeaveWorldErases ==
  /\ to_gs # <<>> /\ Head(to_gs) = "LEAVE_MAP"
  /\ to_gs' = Tail(to_gs)
  /\ online_again' = FALSE
  /\ player_state' = IF online_again THEN player_state
                     ELSE CASE player_state = "LOADING" -> "NONE"
                            [] player_state = "ONLINE" -> "FLUSHING"
                            [] OTHER -> player_state
  /\ need_flush' = (need_flush \/ (player_state' # player_state
                                   /\ player_state = "ONLINE" /\ in_pool))
  /\ UNCHANGED <<flagVars, clientVars, input, routeVars, stateVars, threadVars,
                 from_gs, loading, flushing, in_pool>>

(* A mutant: the gate is told before the role has been flushed, too. *)
CmsgLeaveWorldAnswers ==
  /\ to_gs # <<>> /\ Head(to_gs) = "LEAVE_MAP"
  /\ to_gs' = Tail(to_gs)
  /\ online_again' = FALSE
  /\ player_state' = IF online_again THEN player_state
                     ELSE CASE player_state = "LOADING" -> "OFFLINE"
                            [] player_state = "ONLINE" -> "FLUSHING"
                            [] OTHER -> player_state
  /\ need_flush' = (need_flush \/ (player_state' # player_state
                                   /\ player_state = "ONLINE" /\ in_pool))
  /\ from_gs' = IF player_state = "ONLINE" THEN Append(from_gs, "LEAVE_MAP")
                ELSE from_gs
  /\ UNCHANGED <<flagVars, clientVars, input, routeVars, stateVars, threadVars,
                 loading, flushing, in_pool>>

(* cmsg_leave_world *)
CmsgLeaveWorld ==
  /\ to_gs # <<>> /\ Head(to_gs) = "LEAVE_MAP"
  /\ to_gs' = Tail(to_gs)
  /\ online_again' = FALSE
  /\ player_state' = IF online_again THEN player_state
                     ELSE CASE player_state = "LOADING" -> "OFFLINE"
                            [] player_state = "ONLINE" -> "FLUSHING"
                            [] OTHER -> player_state
  /\ need_flush' = (need_flush \/ (player_state' # player_state
                                   /\ player_state = "ONLINE" /\ in_pool))
  /\ UNCHANGED <<flagVars, clientVars, input, routeVars, stateVars, threadVars,
                 from_gs, loading, flushing, in_pool>>

(* playerDataLoadFinish: a role that left while it was loaded is flushed;  *)
(* of a load that fails the gate is not told.                              *)
PlayerDataLoadFinish(is_success) ==
  /\ loading
  /\ loading' = FALSE
  /\ in_pool' = (in_pool \/ is_success)
  /\ IF player_state = "OFFLINE"
     THEN need_flush' = TRUE /\ UNCHANGED <<player_state, from_gs>>
     ELSE IF is_success
     THEN /\ player_state' = "ONLINE"
          /\ from_gs' = Append(from_gs, "CREATE_SELF")
          /\ UNCHANGED need_flush
     ELSE /\ player_state' = "NONE"
          /\ need_flush' = FALSE
          /\ UNCHANGED from_gs
  /\ UNCHANGED <<flagVars, clientVars, input, routeVars, stateVars, threadVars,
                 to_gs, online_again, flushing>>

(* processNeedFlushPlayer, when the pool's last update has been answered:  *)
(* a role that is online, or not in the pool, is passed over.              *)
ProcessNeedFlushPlayer ==
  /\ need_flush
  /\ need_flush' = FALSE
  /\ flushing' = IF player_state # "ONLINE" /\ in_pool THEN flushing + 1
                 ELSE flushing
  /\ UNCHANGED <<flagVars, clientVars, input, routeVars, stateVars, threadVars,
                 wireVars, player_state, online_again, loading, in_pool>>

(* A mutant: of a role that entered meanwhile the gate is not told. *)
PlayerFlushDataFinishReloads ==
  /\ flushing > 0
  /\ flushing' = flushing - 1
  /\ IF player_state = "NONE"
     THEN UNCHANGED <<player_state, online_again, loading, in_pool, from_gs>>
     ELSE /\ in_pool' = FALSE
          /\ online_again' = FALSE
          /\ player_state' = IF online_again THEN "LOADING" ELSE "NONE"
          /\ loading' = (loading \/ online_again)
          /\ from_gs' = IF online_again THEN from_gs
                        ELSE Append(from_gs, "LEAVE_MAP")
  /\ UNCHANGED <<flagVars, clientVars, input, routeVars, stateVars, threadVars,
                 to_gs, need_flush>>

(* playerFlushDataFinish, whether or not the flush succeeded: the role's   *)
(* data leaves the pool, and is loaded again if the role entered meanwhile.*)
PlayerFlushDataFinish ==
  /\ flushing > 0
  /\ flushing' = flushing - 1
  /\ IF player_state = "NONE"
     THEN UNCHANGED <<player_state, online_again, loading, in_pool, from_gs>>
     ELSE /\ in_pool' = FALSE
          /\ online_again' = FALSE
          /\ player_state' = IF online_again THEN "LOADING" ELSE "NONE"
          /\ loading' = (loading \/ online_again)
          /\ from_gs' = Append(from_gs, "LEAVE_MAP")
  /\ UNCHANGED <<flagVars, clientVars, input, routeVars, stateVars, threadVars,
                 to_gs, need_flush>>

-----------------------------------------------------------------------------
SessionStep(c) ==
  \/ HandleEnterMap(c)
  \/ CleanRoleAndLogoff(c)
  \/ LeftRole(c)
  \/ FindClient(c)
  \/ ChangeClientRoute(c)
  \/ SessionEnterGame(c)
  \/ HandleClose(c)

CoolerStep == (\E c \in Client : CleanClientSession(c)) \/ RemoveRoleClientSession

GsSessionStep == EnterGameSuccess \/ LeaveGameSuccess \/ RoleLogoffSuccess

CallStep(t) ==
  \/ CanEnterGame(t)
  \/ EnterGame(t)
  \/ SendEnter(t)
  \/ CanLeaveGame(t)
  \/ LeaveGame(t)
  \/ SendLeave(t)

LoadFinishes ==
  \/ PlayerDataLoadFinish(TRUE)
  \/ LoadsFail /\ PlayerDataLoadFinish(FALSE)

MapStep ==
  \/ CmsgEnterWorld
  \/ CmsgLeaveWorld
  \/ LoadFinishes
  \/ ProcessNeedFlushPlayer
  \/ PlayerFlushDataFinish

Next ==
  \/ \E c \in Client : ClientEnters(c) \/ ClientCloses(c) \/ SessionStep(c)
  \/ CoolerStep
  \/ GsSessionStep
  \/ \E t \in Thread : CallStep(t)
  \/ MapStep

Spec == Init /\ [][Next]_vars



(* Each thread goes on; the map handles what the gate has sent; and        *)
(* cachesys answers loads and flushes (LoadIsAnswered and FlushIsConfirmed *)
(* of WriteBehind).                                                        *)
Fairness ==
  /\ \A c \in Client : WF_vars(SessionStep(c) \/ CallStep(c))
  /\ WF_vars(CoolerStep \/ CallStep("cooler"))
  /\ WF_vars(GsSessionStep \/ CallStep("gs"))
  /\ WF_vars(CmsgEnterWorld \/ CmsgLeaveWorld)
  /\ WF_vars(LoadFinishes)
  /\ WF_vars(ProcessNeedFlushPlayer)
  /\ WF_vars(PlayerFlushDataFinish)

FairSpec == Spec /\ Fairness

-----------------------------------------------------------------------------
(* Properties.  Those of the map hold as long as no session asks to enter  *)
(* while the gate has to do with another one.  The map relies on the       *)
(* gate's states of roles, which two sessions can pass both: see the       *)
(* hazards.                                                                *)

(* When the answer to a load or a flush arrives, the role is in a state    *)
(* that waits for it: playerDataLoadFinish uses the entry it finds in      *)
(* m_player_state without a look whether there is one.                     *)
AnswersFindState ==
  contended \/ /\ loading => player_state \in {"LOADING", "OFFLINE"}
               /\ flushing > 0 => player_state \in {"FLUSHING", "OFFLINE"}

(* A role that plays has no flush on its way: the end of the flush would   *)
(* remove its data, and all that has changed since, from the pool.         *)
OnlineIsNotFlushed == contended \/ ~(flushing > 0 /\ player_state = "ONLINE")

Quiet == /\ \A t \in Thread : at[t] = "idle"
         /\ to_gs = <<>> /\ from_gs = <<>>

(* When no call and no packet is left, the gate and the map agree whether  *)
(* the role is in the game: else it could neither leave nor enter again.   *)
(* (Of a load that failed the gate is never told.)                         *)
GateAndMapAgree ==
  contended \/ (Quiet => /\ player_state # "NONE" => role_gs_state # "NONE"
                         /\ ~LoadsFail /\ role_gs_state # "NONE" => player_state # "NONE")

(* No thread of the gate waits for ever for a mutex: the calls that one    *)
(* makes with the other held, or twice, end.                               *)
CallsReturn == \A t \in Thread : at[t] # "idle" ~> at[t] = "idle"

(* A role that leaves the game is left some time, whatever packets of      *)
(* other sessions come between: only then it may enter again.              *)
LeaveIsAnswered == role_gs_state = "LEAVE_GAME" ~> role_gs_state # "LEAVE_GAME"

(* A role that has entered and is marked offline (by a second login, or by *)
(* a leave before it had entered) is logged off.                           *)
LogsOff ==
  role_gs_state = "ENTER_GAME_SUCCESS" /\ role_offline
    ~> role_gs_state # "ENTER_GAME_SUCCESS"

=============================================================================
