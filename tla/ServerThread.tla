---------------------------- MODULE ServerThread ----------------------------
(***************************************************************************)
(* The thread of Server::run once the listener is up: it goes round        *)
(* ServerTCP::update, which accepts a connection, hands a packet to        *)
(* processPacket, or notices that a peer is gone.  Each handler is cut     *)
(* where the matchmaking thread can come in between: at the locks it takes *)
(* and gives back, and around the calls that wait (database, network).     *)
(*                                                                         *)
(* Packets that a session's state does not expect change nothing and are   *)
(* not steps; that makes addClientToQueue's own test of the state, which   *)
(* processPacket has just read, a formality.                               *)
(***************************************************************************)
EXTENDS Sessions, SequencesExt

VARIABLES
  serverPc,   (* where the thread is                                        *)
  serving     (* the client whose handler is running                        *)

serverVars == <<serverPc, serving>>

ServerPcs == {"select", "greet", "authenticate", "enqueue", "confirm",
              "leave", "remove"}

ServerInit ==
  /\ serverPc = "select"
  /\ serving = NoSocket

ServerTypeOK ==
  /\ serverPc \in ServerPcs
  /\ serving \in Sockets \cup {NoSocket}

(* The session of the client being served, which only this thread erases.  *)
Session == clientSessions[serving]

Handle(s, pc) ==
  /\ serverPc = "select"
  /\ serverPc' = pc
  /\ serving' = s

Continue(from, to) ==
  /\ serverPc = from
  /\ serverPc' = to
  /\ UNCHANGED serving

Finish(from) ==
  /\ serverPc = from
  /\ serverPc' = "select"
  /\ serving' = NoSocket

-----------------------------------------------------------------------------
(* acceptNewClient, and handleClientConnected up to the end of its lock:   *)
(* the socket gets any address, its session any memory, that is not in use.*)
AcceptNewClient(s, m) ==
  /\ Handle(s, "greet")
  /\ s \notin clients
  /\ Free(m)
  /\ accepted < MaxConnections
  /\ accepted' = accepted + 1
  /\ clients' = clients \cup {s}
  /\ remote' = [remote EXCEPT ![s] = accepted + 1]
  /\ clientSessions' = [clientSessions EXCEPT ![s] = m]
  /\ socketOf' = [socketOf EXCEPT ![m] = s]
  /\ state' = [state EXCEPT ![m] = "CONNECTED"]
  /\ connected' = [connected EXCEPT ![m] = FALSE]
  /\ peer' = [peer EXCEPT ![m] = accepted + 1]
  /\ UNCHANGED <<matchmakingQueue, queueMutex, faults>>

(* The rest of handleClientConnected: whether or not the map could be sent *)
(* the session is told to await credentials.                               *)
GreetClient ==
  /\ Finish("greet")
  /\ state' = [state EXCEPT ![Session] = "AWAITING_CREDENTIALS"]
  /\ UNCHANGED <<bookVars, connected, matchmakingQueue, queueMutex, faults>>

(* processPacket finds the session, reads its state and passes a login or  *)
(* a registration on to AuthService.                                       *)
ReceiveAuthRequest(s) ==
  /\ Handle(s, "authenticate")
  /\ s \in clients
  /\ HasSession(s)
  /\ state[clientSessions[s]] = "AWAITING_CREDENTIALS"
  /\ UNCHANGED sessionVars

(* Mutant: a failed login is treated like a good one.                      *)
AuthenticateAnybody(valid) ==
  /\ Finish("authenticate")
  /\ connected' = [connected EXCEPT ![Session] = valid]
  /\ state' = [state EXCEPT ![Session] = "LOGGED_IN"]
  /\ UNCHANGED <<bookVars, matchmakingQueue, queueMutex, faults>>

(* The database has answered.  The reply's delivery is not looked at.      *)
Authenticate(valid) ==
  /\ Finish("authenticate")
  /\ IF valid
     THEN /\ connected' = [connected EXCEPT ![Session] = TRUE]
          /\ state' = [state EXCEPT ![Session] = "LOGGED_IN"]
     ELSE UNCHANGED <<connected, state>>
  /\ UNCHANGED <<bookVars, matchmakingQueue, queueMutex, faults>>

(* processPacket, and addClientToQueue until it waits for queueMutex.      *)
ReceiveMatchmakingRequest(s) ==
  /\ Handle(s, "enqueue")
  /\ s \in clients
  /\ HasSession(s)
  /\ state[clientSessions[s]] = "LOGGED_IN"
  /\ UNCHANGED sessionVars

(* Mutant: the queue is not searched for the client first.                 *)
AddClientToQueueAgain ==
  /\ queueMutex = "free"
  /\ Continue("enqueue", "confirm")
  /\ matchmakingQueue' = Append(matchmakingQueue, serving)
  /\ state' = [state EXCEPT ![Session] = "IN_MATCHMAKING_QUEUE"]
  /\ UNCHANGED <<bookVars, connected, queueMutex, faults>>

(* The critical section of addClientToQueue.                               *)
AddClientToQueue ==
  /\ queueMutex = "free"
  /\ \/ /\ Contains(matchmakingQueue, serving)
        /\ Finish("enqueue")
        /\ UNCHANGED <<matchmakingQueue, state>>
     \/ /\ ~Contains(matchmakingQueue, serving)
        /\ Continue("enqueue", "confirm")
        /\ matchmakingQueue' = Append(matchmakingQueue, serving)
        /\ state' = [state EXCEPT ![Session] = "IN_MATCHMAKING_QUEUE"]
  /\ UNCHANGED <<bookVars, connected, queueMutex, faults>>

(* Mutant: a client that cannot be told stays in the queue.                *)
ConfirmQueuedStays(sent) ==
  /\ SendToClient(serving, sent)
  /\ Finish("confirm")
  /\ state' = IF sent THEN state ELSE [state EXCEPT ![Session] = "LOGGED_IN"]
  /\ UNCHANGED <<bookVars, connected, matchmakingQueue, queueMutex>>

(* Mutant: the state is set once the client has been told.                 *)
ConfirmQueuedSets(sent) ==
  /\ SendToClient(serving, sent)
  /\ IF sent THEN Finish("confirm") ELSE Continue("confirm", "leave")
  /\ state' = [state EXCEPT ![Session] = IF sent THEN "IN_MATCHMAKING_QUEUE"
                                                 ELSE "LOGGED_IN"]
  /\ UNCHANGED <<bookVars, connected, matchmakingQueue, queueMutex>>

(* S_ADDED_TO_MATCHMAKING_QUEUE is sent after the mutex is released; if    *)
(* that fails the state is put back before the queue is.                   *)
ConfirmQueued(sent) ==
  /\ SendToClient(serving, sent)
  /\ \/ /\ sent
        /\ Finish("confirm")
        /\ UNCHANGED state
     \/ /\ ~sent
        /\ Continue("confirm", "leave")
        /\ state' = [state EXCEPT ![Session] = "LOGGED_IN"]
  /\ UNCHANGED <<bookVars, connected, matchmakingQueue, queueMutex>>

(* std::list::remove under queueMutex.  It would take out every entry of   *)
(* the socket; there is at most one (NobodyTwice in ServiceServer).        *)
LeaveQueue ==
  /\ queueMutex = "free"
  /\ Finish("leave")
  /\ matchmakingQueue' = RemoveFirst(matchmakingQueue, serving)
  /\ UNCHANGED <<bookVars, state, connected, queueMutex, faults>>

(* Mutant: the session survives its client.                                *)
HandleClientDisconnectedKeepsSession(s) ==
  /\ Handle(s, "remove")
  /\ s \in clients
  /\ UNCHANGED sessionVars

(* receive reports Disconnected: removeClient calls                        *)
(* handleClientDisconnected, which erases the session and not the client's *)
(* entry in the queue.  The freed memory keeps the state or is overwritten *)
(* with something that is not it ("CONNECTED" stands for every such value).*)
HandleClientDisconnected(s) ==
  /\ Handle(s, "remove")
  /\ s \in clients
  /\ clientSessions' = [clientSessions EXCEPT ![s] = NoSession]
  /\ \E left \in {state[clientSessions[s]], "CONNECTED"} :
        state' = [state EXCEPT ![clientSessions[s]] = left]
  /\ UNCHANGED <<clients, remote, socketOf, connected, peer, accepted,
                 matchmakingQueue, queueMutex, faults>>

(* The rest of removeClient: the socket is forgotten and deleted.          *)
RemoveClient ==
  /\ Finish("remove")
  /\ clients' = clients \ {serving}
  /\ UNCHANGED <<remote, clientSessions, socketOf, state, connected, peer,
                 accepted, matchmakingQueue, queueMutex, faults>>

-----------------------------------------------------------------------------
(* The steps that run a handler to its end, and those that start one.      *)
ServerContinues ==
  \/ GreetClient
  \/ \E valid \in BOOLEAN : Authenticate(valid)
  \/ AddClientToQueue
  \/ \E sent \in BOOLEAN : ConfirmQueued(sent)
  \/ LeaveQueue
  \/ RemoveClient

ServerStarts ==
  \E s \in Sockets :
    \/ \E m \in Memory : AcceptNewClient(s, m)
    \/ ReceiveAuthRequest(s)
    \/ ReceiveMatchmakingRequest(s)
    \/ HandleClientDisconnected(s)

ServerNext == ServerContinues \/ ServerStarts
=============================================================================
