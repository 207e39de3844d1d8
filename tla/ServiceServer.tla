--------------------------- MODULE ServiceServer ---------------------------
(***************************************************************************)
(* The service server at work: the server thread and the matchmaking       *)
(* thread over the sessions and the queue they share.  Starting and        *)
(* stopping the two threads is another matter, left to Lifecycle.          *)
(***************************************************************************)
EXTENDS ServerThread, MatchmakingThread

(***************************************************************************)
(* History, which no guard reads: the connections that came into something *)
(* matchmaking still referred to.  The queue or the pair in hand held the  *)
(* address of the socket, or the pair in hand the memory of the session or *)
(* a session that names the socket.                                        *)
(***************************************************************************)
VARIABLE heirs

vars == <<sessionVars, serverVars, portVars, matchVars, heirs>>

(* Who waits for a game, in order: the pair the matchmaking thread has in  *)
(* hand stands before the queue it was taken from.                         *)
Hand == IF matchPc = "idle" THEN <<>> ELSE <<socket1, socket2>>
Line == Hand \o matchmakingQueue

InLine(s) == \E i \in 1 .. Len(Line) : Line[i] = s

ReferredTo(s, m) ==
  \/ InLine(s)
  \/ /\ matchPc # "idle"
     /\ \/ m \in {session1, session2}
        \/ s \in {socketOf[session1], socketOf[session2]}

RecordHeirs ==
  heirs' = IF accepted' # accepted
              /\ ReferredTo(serving', clientSessions'[serving'])
           THEN heirs \cup {accepted'}
           ELSE heirs

Init ==
  /\ SessionsInit
  /\ ServerInit
  /\ PortsInit
  /\ MatchInit
  /\ heirs = {}

ServerStep == ServerNext /\ RecordHeirs /\ UNCHANGED <<portVars, matchVars>>
MatchStep  == MatchNext /\ UNCHANGED <<serverVars, heirs>>

Next == ServerStep \/ MatchStep

Spec == Init /\ [][Next]_vars

(***************************************************************************)
(* Both threads are scheduled, sends and connects return, and the database *)
(* answers; nothing says that a client ever connects, asks or leaves.      *)
(***************************************************************************)
FairSpec ==
  /\ Spec
  /\ WF_vars(ServerContinues /\ RecordHeirs /\ UNCHANGED <<portVars, matchVars>>)
  /\ WF_vars(MatchStep)

-----------------------------------------------------------------------------
TypeOK ==
  /\ SessionsTypeOK
  /\ ServerTypeOK
  /\ PortsTypeOK
  /\ MatchTypeOK
  /\ heirs \subseteq Peers

-----------------------------------------------------------------------------
(* Of every client, whatever the allocator does.                           *)

(* No socket stands twice in line, counting the two the matchmaking thread *)
(* holds outside the queue: the duplicate check of addClientToQueue, which *)
(* sees only the queue, is enough because formMatches keeps queueMutex, and *)
(* nobody is ever matched with himself.                                    *)
NobodyTwice ==
  \A i, j \in 1 .. Len(Line) : i # j => Line[i] # Line[j]

(* Between handlers the map of sessions and the list of sockets agree, and *)
(* each session is its own socket's: only while a client is being removed  *)
(* is there one socket without a session.  processPacket's "unknown        *)
(* client" branch is dead code.                                            *)
SessionsTrackClients ==
  \A s \in Sockets :
    /\ HasSession(s) <=> s \in clients /\ ~(serverPc = "remove" /\ s = serving)
    /\ HasSession(s) => /\ socketOf[clientSessions[s]] = s
                        /\ peer[clientSessions[s]] = remote[s]

(* Matchmaking is one first-come first-served line: retries, departures    *)
(* and late removals never let anybody overtake, come back or stand twice. *)
Waiting == INSTANCE WaitingLine WITH Players <- Sockets, line <- Line

KeepsOneLine == Waiting!Spec

(* A player never gets before another who was in line before him, however  *)
(* often the two are tried, in whatever pairs, and put back.               *)
NobodyOvertakes == Waiting!NobodyOvertakes

(* generateRoomId promises a unique room: no two games the dedicated       *)
(* server is told of share one, and the two players of a game are given    *)
(* different ports, also when the sequence of ports wraps between them.    *)
GamesDistinct ==
  /\ \A g, h \in games : g.room = h.room => g = h
  /\ \A g \in games : g.port1 # g.port2

(* The server never hears that a game is over; what protects the players   *)
(* of a running game is that its ports come round late: games announced    *)
(* within half a turn of the port range have four different ports, however *)
(* many failed attempts have drawn ports in between.                       *)
PortsNotSharedSoon ==
  \A g, h \in games :
    g.room < h.room /\ h.room - g.room < PortCount \div 2 =>
      {g.port1, g.port2} \cap {h.port1, h.port2} = {}

-----------------------------------------------------------------------------
(* Of a client who did not come into what matchmaking still referred to:   *)
(* he may then lose everything else's memory to newcomers, and be paired   *)
(* with an heir, without being harmed.                                     *)
Own(s) == HasSession(s) /\ remote[s] \notin heirs

StateOf(s) == state[clientSessions[s]]

InLobby(s) ==
  StateOf(s) \in {"LOGGED_IN", "IN_MATCHMAKING_QUEUE", "MATCHED"}

(* Only an authenticated player is LOGGED_IN, waits or is matched, although *)
(* the matchmaking thread writes these states through the pointers it has  *)
(* kept without asking whose they are by now.                              *)
LobbyIsAuthenticated ==
  \A s \in Sockets : Own(s) /\ InLobby(s) => connected[clientSessions[s]]

(* A connected client in line is in the state that says so, but for the    *)
(* moment in which addClientToQueue has taken the state back and is about  *)
(* to take the queue entry back.                                           *)
InLineIsWaiting ==
  \A s \in Sockets :
    Own(s) /\ InLine(s) => \/ Waits(clientSessions[s])
                           \/ serverPc = "leave" /\ serving = s

(* The converse, up to the first failure: a client in IN_MATCHMAKING_QUEUE *)
(* is in line, so that he can be paired; in that state the server listens  *)
(* to nothing he sends.                                                    *)
OneFaultLosesNobody ==
  faults <= 1 =>
    \A s \in Sockets : Own(s) /\ Waits(clientSessions[s]) => InLine(s)

(* What the dedicated server was told of the player a ticket is for.       *)
Backs(g, t) ==
  /\ g.room = t.room
  /\ IF t.playerOne THEN g.peer1 = t.peer /\ g.port1 = t.port
                    ELSE g.peer2 = t.peer /\ g.port2 = t.port

(* A player who is told of a match is told the port, and the side, that    *)
(* the dedicated server was given for him beforehand.                      *)
TicketsReachTheirPlayers ==
  \A t \in tickets : t.peer \notin heirs => \E g \in games : Backs(g, t)

(* The packet went to the player of the game, or to an heir of his.        *)
Reached(p, t) == t.peer \in {p} \cup heirs

(* A matched player was told of a game, and so was the opponent the        *)
(* dedicated server expects in it (or whoever came into his place).        *)
MatchedPairTold ==
  \A s \in Sockets : Own(s) /\ StateOf(s) = "MATCHED" =>
    \E g \in games, t, u \in tickets :
      /\ t.room = g.room /\ t.playerOne  /\ Reached(g.peer1, t)
      /\ u.room = g.room /\ ~u.playerOne /\ Reached(g.peer2, u)
      /\ remote[s] \in {t.peer, u.peer}

(* A match is taken back: the client is still there and not matched.       *)
LosesMatch(s) ==
  StateOf(s) = "MATCHED" /\ HasSession(s)' /\ StateOf(s)' # "MATCHED"

(* Three components on two threads write a session's state, none with a    *)
(* lock on it; still nothing takes a match back from a connected player    *)
(* but the failed confirmation of the queue entry that led to it.          *)
OnlyLateConfirmationUnmatches ==
  [][\A s \in Sockets : Own(s) /\ LosesMatch(s) =>
       serving = s /\ serverPc = "confirm" /\ serverPc' = "leave"]_vars

-----------------------------------------------------------------------------
(* What the source says of every client, and what is not so.               *)

(* LOGGED_IN is "authenticated, ready for matchmaking" (ClientSession.h),  *)
(* and matchmaking comes after it.                                         *)
OnlyAuthenticatedInLobby ==
  \A s \in Sockets : HasSession(s) /\ InLobby(s) => connected[clientSessions[s]]

(* formMatches sets IN_MATCHMAKING_QUEUE again "so that they can be paired *)
(* again": between two handlers a client in that state is in line.         *)
WaitingIsInLine ==
  serverPc = "select" =>
    \A s \in Sockets : HasSession(s) /\ Waits(clientSessions[s]) => InLine(s)

-----------------------------------------------------------------------------
(* Under FairSpec.                                                         *)

(* Every handler of the server thread comes to its end, although three of  *)
(* its steps wait for the mutex that formMatches holds during its network  *)
(* calls.                                                                  *)
HandlersFinish == serverPc # "select" ~> serverPc = "select"

(* A pair at the head of the line does not stay there: it is matched, or   *)
(* one of them goes.                                                       *)
FrontIsServed ==
  \A s \in Sockets :
    (Len(Line) >= 2 /\ s \in {Line[1], Line[2]}) ~> (~InLine(s) \/ Len(Line) < 2)
=============================================================================
