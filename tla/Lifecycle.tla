----------------------------- MODULE Lifecycle -----------------------------
(***************************************************************************)
(* The life of the process: main reads the console and calls Server::stop, *)
(* once when it is told to exit and once more when the Server is           *)
(* destroyed; the server thread runs Server::run, which starts and serves; *)
(* the matchmaking thread is created by the server thread and joined by    *)
(* whoever calls stop.  What a handler or a round of matchmaking does is   *)
(* left to ServiceServer: here they only last, and use what stop takes     *)
(* away.                                                                   *)
(***************************************************************************)
EXTENDS Integers

VARIABLES
  mainPc,                     (* main, down to the destruction of server    *)
  runPc,                      (* the server thread                          *)
  matchPc,                    (* the matchmaking thread                     *)
  server_running_flag,
  matchmaking_running_flag,
  joinable,                   (* mmThread.joinable()                        *)
  running,                    (* ServerTCP::running: the listener is up     *)
  isConnected,                (* DBManager::isConnected, which nobody lowers *)
  con,                        (* DBManager::con, until disconnectDB deletes it *)
  cleared,                    (* has stop cleared clientSessions?           *)
  calls,                      (* calls of stop                              *)
  stops,                      (* calls of stop that took the server down    *)
  met,                        (* where run was when the first stop looked   *)
  broken                      (* what the process has died of               *)

flagVars == <<server_running_flag, matchmaking_running_flag>>
dataVars == <<isConnected, con, cleared>>
mainVars == <<mainPc, calls, stops, met>>
vars == <<mainVars, runPc, matchPc, flagVars, joinable, running, dataVars, broken>>

MainPcs == {"console", "exchange", "check", "lower", "join", "clear",
            "disconnect", "await", "destroy", "gone"}
RunPcs == {"start", "raiseServer", "raiseMatchmaking", "spawn", "loop",
           "update", "authenticate", "handler", "close", "returned"}
MatchPcs == {"none", "loop", "round", "matching", "ended"}

TypeOK ==
  /\ mainPc \in MainPcs
  /\ runPc \in RunPcs
  /\ matchPc \in MatchPcs
  /\ server_running_flag \in BOOLEAN
  /\ matchmaking_running_flag \in BOOLEAN
  /\ joinable \in BOOLEAN
  /\ running \in BOOLEAN
  /\ isConnected \in BOOLEAN
  /\ con \in {"open", "null"}
  /\ cleared \in BOOLEAN
  /\ calls \in 0 .. 2
  /\ stops \in 0 .. 2
  /\ met \in RunPcs \cup {"nowhere"}
  /\ broken \in {"no", "null connection", "thread never joined"}

(* The constructor has tried to connect to the database, and main has      *)
(* created the server thread.  There is a connection without isConnected   *)
(* if only its schema could not be set.                                    *)
Init ==
  /\ mainPc = "console"
  /\ runPc = "start"
  /\ matchPc = "none"
  /\ server_running_flag = FALSE
  /\ matchmaking_running_flag = FALSE
  /\ joinable = FALSE
  /\ running = FALSE
  /\ isConnected \in BOOLEAN
  /\ con \in IF isConnected THEN {"open"} ELSE {"open", "null"}
  /\ cleared = FALSE
  /\ calls = 0
  /\ stops = 0
  /\ met = "nowhere"
  /\ broken = "no"

Main(from, to) == broken = "no" /\ mainPc = from /\ mainPc' = to
Run(from, to)  == broken = "no" /\ runPc = from /\ runPc' = to
Match(from, to) == broken = "no" /\ matchPc = from /\ matchPc' = to

-----------------------------------------------------------------------------
(* main: "exit" has been read, however far run has come.                   *)
ReadExit ==
  /\ Main("console", "exchange")
  /\ calls' = 1
  /\ UNCHANGED <<stops, met, runPc, matchPc, flagVars, joinable, running, dataVars, broken>>

(* stop returns to main, or to ~Server.                                    *)
AfterStop == IF calls = 1 THEN "await" ELSE "destroy"

(* Both flags are looked at, and it is enough that one was up.             *)
StopExchange ==
  /\ Main("exchange", IF server_running_flag THEN "lower" ELSE "check")
  /\ server_running_flag' = FALSE
  /\ met' = IF calls = 1 THEN runPc ELSE met
  /\ UNCHANGED <<calls, stops, runPc, matchPc, matchmaking_running_flag, joinable,
                 running, dataVars, broken>>

(* Mutant: the flag is not looked at.                                      *)
StopCheckDropped ==
  /\ Main("check", "lower")
  /\ UNCHANGED <<calls, stops, met, runPc, matchPc, flagVars, joinable, running,
                 dataVars, broken>>

StopCheck ==
  /\ Main("check", IF matchmaking_running_flag THEN "lower" ELSE AfterStop)
  /\ UNCHANGED <<calls, stops, met, runPc, matchPc, flagVars, joinable, running,
                 dataVars, broken>>

(* Mutant: the matchmaking flag is left up.                                *)
StopLowerForgotten ==
  /\ Main("lower", "join")
  /\ stops' = stops + 1
  /\ UNCHANGED <<calls, met, runPc, matchPc, flagVars, joinable, running, dataVars, broken>>

StopLower ==
  /\ Main("lower", "join")
  /\ matchmaking_running_flag' = FALSE
  /\ stops' = stops + 1
  /\ UNCHANGED <<calls, met, runPc, matchPc, server_running_flag, joinable, running,
                 dataVars, broken>>

(* Mutant: the matchmaking thread is not joined.                           *)
StopJoinForgotten ==
  /\ Main("join", "clear")
  /\ UNCHANGED <<calls, stops, met, runPc, matchPc, flagVars, joinable, running,
                 dataVars, broken>>

StopJoin ==
  /\ Main("join", "clear")
  /\ joinable => matchPc = "ended"
  /\ joinable' = FALSE
  /\ UNCHANGED <<calls, stops, met, runPc, matchPc, flagVars, running, dataVars, broken>>

StopClear ==
  /\ Main("clear", "disconnect")
  /\ cleared' = TRUE
  /\ UNCHANGED <<calls, stops, met, runPc, matchPc, flagVars, joinable, running,
                 isConnected, con, broken>>

(* Mutant: the deleted connection is not forgotten.                        *)
StopDisconnectDangling ==
  /\ Main("disconnect", AfterStop)
  /\ con' = "deleted"
  /\ UNCHANGED <<calls, stops, met, runPc, matchPc, flagVars, joinable, running,
                 isConnected, cleared, broken>>

(* disconnectDB closes and deletes the connection without looking at it.   *)
StopDisconnect ==
  /\ Main("disconnect", AfterStop)
  /\ broken' = IF isConnected /\ con = "null" THEN "null connection" ELSE broken
  /\ con' = IF isConnected THEN "null" ELSE con
  /\ UNCHANGED <<calls, stops, met, runPc, matchPc, flagVars, joinable, running,
                 isConnected, cleared>>

(* Mutant: the server thread is not joined.                                *)
AwaitServerForgotten ==
  /\ Main("await", "exchange")
  /\ calls' = 2
  /\ UNCHANGED <<stops, met, runPc, matchPc, flagVars, joinable, running, dataVars, broken>>

(* serverThread.join(); then main returns and ~Server calls stop.          *)
AwaitServer ==
  /\ Main("await", "exchange")
  /\ runPc = "returned"
  /\ calls' = 2
  /\ UNCHANGED <<stops, met, runPc, matchPc, flagVars, joinable, running, dataVars, broken>>

(* The members of the Server: destroying a thread that is joinable ends    *)
(* the process.                                                            *)
Destroy ==
  /\ Main("destroy", "gone")
  /\ broken' = IF joinable THEN "thread never joined" ELSE broken
  /\ running' = FALSE
  /\ UNCHANGED <<calls, stops, met, runPc, matchPc, flagVars, joinable, dataVars>>

-----------------------------------------------------------------------------
(* Server::run up to the flags; it gives up without a database or a port.  *)
RunStart ==
  /\ \/ Run("start", "returned") /\ UNCHANGED running
     \/ Run("start", "raiseServer") /\ isConnected /\ running' = TRUE
  /\ UNCHANGED <<mainVars, matchPc, flagVars, joinable, dataVars, broken>>

RaiseServerFlag ==
  /\ Run("raiseServer", "raiseMatchmaking")
  /\ server_running_flag' = TRUE
  /\ UNCHANGED <<mainVars, matchPc, matchmaking_running_flag, joinable, running,
                 dataVars, broken>>

RaiseMatchmakingFlag ==
  /\ Run("raiseMatchmaking", "spawn")
  /\ matchmaking_running_flag' = TRUE
  /\ UNCHANGED <<mainVars, matchPc, server_running_flag, joinable, running,
                 dataVars, broken>>

SpawnMatchmaking ==
  /\ Run("spawn", "loop")
  /\ matchPc' = "loop"
  /\ joinable' = TRUE
  /\ UNCHANGED <<mainVars, flagVars, running, dataVars, broken>>

RunLoop ==
  /\ Run("loop", IF server_running_flag THEN "update" ELSE "close")
  /\ UNCHANGED <<mainVars, matchPc, flagVars, joinable, running, dataVars, broken>>

(* selector.wait() has no time limit: it returns when a socket is ready.   *)
(* A handler starts if its client has a session; those for logging in and  *)
(* registering use the database.                                           *)
Activity ==
  /\ \/ Run("update", "loop")
     \/ Run("update", "handler") /\ ~cleared
     \/ Run("update", "authenticate") /\ ~cleared
  /\ UNCHANGED <<mainVars, matchPc, flagVars, joinable, running, dataVars, broken>>

HandlerEnds ==
  /\ Run("handler", "loop")
  /\ UNCHANGED <<mainVars, matchPc, flagVars, joinable, running, dataVars, broken>>

(* The statements are prepared on whatever con is by now.                  *)
AuthenticateEnds ==
  /\ Run("authenticate", "loop")
  /\ broken' = IF con = "null" THEN "null connection" ELSE broken
  /\ UNCHANGED <<mainVars, matchPc, flagVars, joinable, running, dataVars>>

(* stopListener closes the listener and deletes every client's socket.     *)
CloseListener ==
  /\ Run("close", "returned")
  /\ running' = FALSE
  /\ UNCHANGED <<mainVars, matchPc, flagVars, joinable, dataVars, broken>>

-----------------------------------------------------------------------------
(* matchmakingThreadLoop; between rounds it sleeps.                        *)
MatchLoop ==
  /\ Match("loop", IF matchmaking_running_flag THEN "round" ELSE "ended")
  /\ UNCHANGED <<mainVars, runPc, flagVars, joinable, running, dataVars, broken>>

(* formMatches has two players in its hands.                               *)
RoundMatches ==
  /\ Match("round", "matching")
  /\ UNCHANGED <<mainVars, runPc, flagVars, joinable, running, dataVars, broken>>

RoundEnds ==
  /\ Match("round", "loop") \/ Match("matching", "loop")
  /\ UNCHANGED <<mainVars, runPc, flagVars, joinable, running, dataVars, broken>>

-----------------------------------------------------------------------------
MainNext ==
  \/ StopExchange
  \/ StopCheck
  \/ StopLower
  \/ StopJoin
  \/ StopClear
  \/ StopDisconnect
  \/ AwaitServer
  \/ Destroy

RunNext ==
  \/ RunStart
  \/ RaiseServerFlag
  \/ RaiseMatchmakingFlag
  \/ SpawnMatchmaking
  \/ RunLoop
  \/ HandlerEnds
  \/ AuthenticateEnds
  \/ CloseListener

MatchNext == MatchLoop \/ RoundMatches \/ RoundEnds

Next == ReadExit \/ MainNext \/ RunNext \/ Activity \/ MatchNext

Spec == Init /\ [][Next]_vars

(* The three threads are scheduled; nobody has to exit, connect or send.   *)
FairSpec == Spec /\ WF_vars(MainNext) /\ WF_vars(RunNext) /\ WF_vars(MatchNext)

(* Somebody always connects, sends or leaves in the end.                   *)
ActiveSpec == FairSpec /\ WF_vars(Activity)

-----------------------------------------------------------------------------
(* Where run is before it has raised both flags and created the thread.    *)
BeforeFlags  == {"start", "raiseServer"}
BetweenFlags == {"raiseMatchmaking"}
BeforeThread == {"spawn"}

(* stop takes the server down once, although main and ~Server both call it *)
(* ("Prevenir multiples llamadas a stop").                                 *)
StopsOnce == stops <= 1

(* It does so twice only if the first stop came between the two flags: run *)
(* then raises the second one behind its back.                             *)
StopsOnceButBetweenFlags == stops = 2 => met \in BetweenFlags

(* A stop that is complete leaves no round of matchmaking to come: the     *)
(* sessions are cleared when none is under way and none can begin.         *)
SessionsOutliveRounds == cleared => matchPc \notin {"round", "matching"}

(* They are cleared before a round only if the first stop came between the *)
(* two flags, although the join is passed over also by a stop that comes   *)
(* just before the thread is there, or has found no flag up at first.      *)
RoundsAfterClearOnlyBetweenFlags ==
  ~SessionsOutliveRounds => met \in BetweenFlags

(* The matchmaking thread is always joined before its std::thread goes     *)
(* with the Server; a joinable one would end the process.                  *)
ThreadIsJoined == broken # "thread never joined"

(* It is left unjoined only by a first stop that saw the server's flag     *)
(* before run had created the thread.                                      *)
UnjoinedOnlyBeforeThread ==
  ~ThreadIsJoined => met \in BetweenFlags \cup BeforeThread

(* A process that comes to the end of main alive has left nothing behind,  *)
(* whenever it was told to exit: a server that was taken down has closed   *)
(* its database connection, the listener is down, and both threads have    *)
(* ended.                                                                  *)
LeavesNothingBehind ==
  mainPc = "gone" /\ broken = "no" =>
    /\ con = "null" \/ stops = 0
    /\ ~running
    /\ runPc = "returned"
    /\ matchPc \in {"none", "ended"}

(* FALSE of the code: when main says "Servidor detenido correctamente.",   *)
(* having called stop and joined the server thread, the matchmaking thread *)
(* has ended and been joined.                                              *)
StoppedCorrectly ==
  calls = 2 => ~joinable /\ matchPc \in {"none", "ended"}

FlagsUp == RunPcs \ (BeforeFlags \cup BetweenFlags)

(* "exit" ends the server thread once it has raised both flags, whatever   *)
(* else goes wrong: main calls stop to close the listener and notify the   *)
(* thread, then joins it.                                                  *)
ExitStopsServer == met \in FlagsUp ~> runPc = "returned" \/ broken # "no"

(* "exit" ends the process, or the process dies of a handler that used the *)
(* database connection stop had deleted, unless stop looked before run had *)
(* raised both flags: nobody lowers one that is raised behind the first    *)
(* stop's back, and main waits for the thread that goes by it, the server  *)
(* thread or, in the join of that stop, the matchmaking thread.            *)
ExitEndsProcessOnceStarted ==
  calls = 1 ~> \/ mainPc = "gone" \/ broken # "no"
               \/ met \in BeforeFlags \cup BetweenFlags
=============================================================================
