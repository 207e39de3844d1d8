------------------------- MODULE MatchmakingThread -------------------------
(***************************************************************************)
(* The thread of Server::matchmakingThreadLoop: each check interval it     *)
(* calls MatchmakingService::formMatches, which holds queueMutex from its  *)
(* first line to its return.  It looks the two sessions up under           *)
(* sessionsMutex but uses them after giving it back, so the body is cut    *)
(* wherever the server thread can change what it reads next.               *)
(*                                                                         *)
(* Pointers are followed wherever the code follows them, also when their   *)
(* object is gone: the thread then goes on with what is there, which is    *)
(* what was left or, once the memory has been given out again, the session *)
(* or the connection of a newcomer.  (It may also crash; the behaviour     *)
(* then just ends, which no safety property minds.)                        *)
(***************************************************************************)
EXTENDS Sessions, GamePorts

VARIABLES
  matchPc,   (* where the thread is                                         *)
  socket1,   (* the two sockets it has taken out of the queue               *)
  socket2,
  session1,  (* where the map had their sessions when it looked             *)
  session2,
  game,      (* the game it is announcing                                   *)
  sent,      (* have the S_MATCH_FOUND packets so far been sent?            *)
  games,     (* what the dedicated server has been notified of              *)
  tickets    (* the S_MATCH_FOUND packets sent: to which remote end, and    *)
             (* for which room, which the packet itself does not say        *)

hand == <<socket1, socket2, session1, session2>>

matchVars == <<matchPc, hand, game, sent, games, tickets>>

MatchPcs == {"idle", "check", "giveBack", "notify", "tell1", "tell2", "settle"}

Game == [room : Nat, peer1 : Peers \cup {NoPeer}, port1 : Ports,
                     peer2 : Peers \cup {NoPeer}, port2 : Ports]

Ticket == [room : Nat, peer : Peers \cup {NoPeer}, port : Ports,
           playerOne : BOOLEAN]

NoGame == [room |-> 0, peer1 |-> NoPeer, port1 |-> FirstPort,
                       peer2 |-> NoPeer, port2 |-> FirstPort]

MatchInit ==
  /\ matchPc = "idle"
  /\ socket1 = NoSocket
  /\ socket2 = NoSocket
  /\ session1 = NoSession
  /\ session2 = NoSession
  /\ game = NoGame
  /\ sent = FALSE
  /\ games = {}
  /\ tickets = {}

MatchTypeOK ==
  /\ matchPc \in MatchPcs
  /\ socket1 \in Sockets \cup {NoSocket}
  /\ socket2 \in Sockets \cup {NoSocket}
  /\ session1 \in Memory \cup {NoSession}
  /\ session2 \in Memory \cup {NoSession}
  /\ game \in Game
  /\ sent \in BOOLEAN
  /\ games \subseteq Game
  /\ tickets \subseteq Ticket

PushFront(s, condition, queue) == IF condition THEN <<s>> \o queue ELSE queue

Advance(from, to) ==
  /\ matchPc = from
  /\ matchPc' = to
  /\ UNCHANGED <<hand, queueMutex>>

(* formMatches returns, its lock_guard is destroyed.                       *)
Return(from) ==
  /\ matchPc = from
  /\ matchPc' = "idle"
  /\ socket1' = NoSocket
  /\ socket2' = NoSocket
  /\ session1' = NoSession
  /\ session2' = NoSession
  /\ game' = NoGame
  /\ sent' = FALSE
  /\ queueMutex' = "free"

(* Mutants: the two go to the back of the queue; they change places.       *)
ReturnPairBehind(from) ==
  /\ Return(from)
  /\ matchmakingQueue' = matchmakingQueue \o <<socket1, socket2>>

ReturnPairSwapped(from) ==
  /\ Return(from)
  /\ matchmakingQueue' = <<socket2, socket1>> \o matchmakingQueue

(* The end of every failed attempt that keeps both players: the two        *)
(* push_front calls, second player first.                                  *)
ReturnPair(from) ==
  /\ Return(from)
  /\ matchmakingQueue' = <<socket1, socket2>> \o matchmakingQueue

-----------------------------------------------------------------------------
(* A round that finds fewer than two in the queue.                         *)
TooFewWaiting ==
  /\ matchPc = "idle"
  /\ queueMutex = "free"
  /\ Len(matchmakingQueue) < 2
  /\ UNCHANGED <<sessionVars, portVars, matchVars>>

(* The first two sockets leave the queue and their sessions are looked up, *)
(* under sessionsMutex; both are found.                                    *)
First  == matchmakingQueue[1]
Second == matchmakingQueue[2]
Others == SubSeq(matchmakingQueue, 3, Len(matchmakingQueue))

BothHaveSessions == HasSession(First) /\ HasSession(Second)

TakePair ==
  /\ matchPc = "idle"
  /\ queueMutex = "free"
  /\ Len(matchmakingQueue) >= 2
  /\ BothHaveSessions
  /\ matchPc' = "check"
  /\ queueMutex' = "matchmaking"
  /\ socket1' = First
  /\ socket2' = Second
  /\ session1' = clientSessions[First]
  /\ session2' = clientSessions[Second]
  /\ matchmakingQueue' = Others
  /\ UNCHANGED <<bookVars, state, connected, faults, game, sent, games, tickets, portVars>>

(* Mutant: whose session is missing goes back in front too.                *)
DropMissingKeeps ==
  /\ matchPc = "idle"
  /\ queueMutex = "free"
  /\ Len(matchmakingQueue) >= 2
  /\ ~BothHaveSessions
  /\ UNCHANGED <<sessionVars, matchVars, portVars>>

(* A session is missing: that is logged, through its socket; the other     *)
(* client, if he has a session, goes back in front.                        *)
DropMissing ==
  /\ matchPc = "idle"
  /\ queueMutex = "free"
  /\ Len(matchmakingQueue) >= 2
  /\ ~BothHaveSessions
  /\ matchmakingQueue' = PushFront(Second, HasSession(Second),
                           PushFront(First, HasSession(First), Others))
  /\ UNCHANGED <<bookVars, state, connected, queueMutex, faults, matchVars,
                 portVars>>

Waits(m) == state[m] = "IN_MATCHMAKING_QUEUE"

(* Mutant: the thread waits, with the mutex, until both states are right.  *)
CheckStatesSpins ==
  /\ Advance("check", IF Waits(session1) /\ Waits(session2) THEN "notify"
                                                          ELSE "check")
  /\ UNCHANGED <<bookVars, state, connected, matchmakingQueue, faults, game,
                 sent, games, tickets, portVars>>

(* The first reading of the two states, after sessionsMutex is released.   *)
CheckStates ==
  /\ Advance("check", IF Waits(session1) /\ Waits(session2) THEN "notify"
                                                          ELSE "giveBack")
  /\ UNCHANGED <<bookVars, state, connected, matchmakingQueue, faults, game,
                 sent, games, tickets, portVars>>

(* The states are read again: who still waits goes back in front, anybody  *)
(* else who is not matched is made LOGGED_IN.                              *)
GiveBack ==
  /\ Return("giveBack")
  /\ matchmakingQueue' =
       PushFront(socket2, Waits(session2),
                 PushFront(socket1, Waits(session1), matchmakingQueue))
  /\ state' = [m \in Memory |->
                 IF m \in {session1, session2} /\ ~Waits(m) /\ state[m] # "MATCHED"
                 THEN "LOGGED_IN" ELSE state[m]]
  /\ UNCHANGED <<bookVars, connected, faults, games, tickets, portVars>>

(***************************************************************************)
(* The ports and the room are drawn and the dedicated server is told.      *)
(* Failing is one outcome for the protocol: the connection cannot be made  *)
(* again, is lost again, or does not take the packet; it is then not       *)
(* connected, and the next game starts by connecting.  Notified means that *)
(* the packet was handed to a connection, not that anybody read it.        *)
(***************************************************************************)
NewGame == [room |-> DrawnRoom, peer1 |-> peer[session1], port1 |-> DrawnPort1,
                                peer2 |-> peer[session2], port2 |-> DrawnPort2]

NotifyDedicated(notified) ==
  /\ \/ /\ notified
        /\ Advance("notify", "tell1")
        /\ game' = NewGame
        /\ games' = games \cup {NewGame}
        /\ UNCHANGED <<matchmakingQueue, sent, faults>>
     \/ /\ ~notified
        /\ ReturnPair("notify")
        /\ Fault
        /\ UNCHANGED games
  /\ DrawGame
  /\ UNCHANGED <<bookVars, state, connected, tickets>>

(* S_MATCH_FOUND goes to one player, and then to the other whether or not  *)
(* the first could be told: to the socket the session names, and over it   *)
(* to whoever is at the other end now.                                     *)
Tell(m, port, playerOne, done) ==
  /\ SendToClient(socketOf[m], done)
  /\ tickets' = IF done
                THEN tickets \cup {[room |-> game.room, port |-> port,
                                    peer |-> remote[socketOf[m]],
                                    playerOne |-> playerOne]}
                ELSE tickets
  /\ UNCHANGED <<bookVars, state, connected, matchmakingQueue, game, games,
                 portVars>>

TellPlayer1(done) ==
  /\ Advance("tell1", "tell2")
  /\ sent' = done
  /\ Tell(session1, game.port1, TRUE, done)

(* Mutants: the second player is told the first one's port; the first      *)
(* player's packet is forgotten.                                           *)
TellPlayer2SamePort(done) ==
  /\ Advance("tell2", "settle")
  /\ sent' = (sent /\ done)
  /\ Tell(session2, game.port1, FALSE, done)

TellPlayer2ForgetsFirst(done) ==
  /\ Advance("tell2", "settle")
  /\ sent' = done
  /\ Tell(session2, game.port2, FALSE, done)

TellPlayer2(done) ==
  /\ Advance("tell2", "settle")
  /\ sent' = (sent /\ done)
  /\ Tell(session2, game.port2, FALSE, done)

(* Mutant: the two are not put back in the queue.                          *)
SettleMatchForgets ==
  /\ Return("settle")
  /\ state' = [m \in Memory |->
                 IF m \notin {session1, session2} THEN state[m]
                 ELSE IF sent THEN "MATCHED" ELSE "IN_MATCHMAKING_QUEUE"]
  /\ UNCHANGED <<bookVars, connected, faults, matchmakingQueue, games,
                 tickets, portVars>>

(* Both told: they are matched.  Otherwise both are to be matched again.   *)
(* The states are written through the session pointers, the queue gets the *)
(* sockets it gave.                                                        *)
SettleMatch ==
  /\ \/ /\ sent
        /\ Return("settle")
        /\ UNCHANGED matchmakingQueue
     \/ /\ ~sent
        /\ ReturnPair("settle")
  /\ state' = [m \in Memory |->
                 IF m \notin {session1, session2} THEN state[m]
                 ELSE IF sent THEN "MATCHED" ELSE "IN_MATCHMAKING_QUEUE"]
  /\ UNCHANGED <<bookVars, connected, faults, games, tickets, portVars>>

MatchNext ==
  \/ TooFewWaiting
  \/ TakePair
  \/ DropMissing
  \/ CheckStates
  \/ GiveBack
  \/ \E notified \in BOOLEAN : NotifyDedicated(notified)
  \/ \E done \in BOOLEAN : TellPlayer1(done) \/ TellPlayer2(done)
  \/ SettleMatch
=============================================================================
