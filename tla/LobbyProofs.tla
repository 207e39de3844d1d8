---------------------------- MODULE LobbyProofs ----------------------------
(***************************************************************************)
(* Further theorems about ServiceServer: about the sessions and the games, *)
(* and about the clients who did not come into anything that matchmaking   *)
(* still referred to.  All hold whatever the allocator does.               *)
(***************************************************************************)
EXTENDS ServiceServerProofs

(***************************************************************************)
(* Connections are numbered as they come, so that a newcomer's number is   *)
(* new to the connections there are and to the heirs among them.           *)
(***************************************************************************)
Book ==
  /\ SessionsTrackClients
  /\ \A s \in Sockets : remote[s] <= accepted
  /\ \A p \in heirs : p <= accepted

(* A newcomer gets memory that is nobody's.                                *)
LEMMA NewcomerApart ==
  ASSUME TypeOK, Book, NEW s \in Sockets, NEW m \in Memory, AcceptNewClient(s, m)
  PROVE  /\ ~HasSession(s)
         /\ clientSessions'[s] = m
         /\ remote'[s] = accepted + 1
         /\ \A r \in Sockets \ {s} :
              /\ clientSessions'[r] = clientSessions[r]
              /\ remote'[r] = remote[r]
              /\ clientSessions[r] # m
BY DEF TypeOK, SessionsTypeOK, Book, SessionsTrackClients, AcceptNewClient, Handle, Free

(* A handler that is removing a client has erased its session and not yet  *)
(* deleted its socket; nothing else comes between the two.                 *)
LEMMA TrackingNext ==
  ASSUME TypeOK, Book, [Next]_vars
  PROVE  SessionsTrackClients'
<1> USE DEF SessionsTrackClients, HasSession, Handle, Continue, Finish, bookVars
<1>0. /\ SessionsTrackClients
      /\ clients \subseteq Sockets
      /\ clientSessions \in [Sockets -> Memory \cup {NoSession}]
      /\ socketOf \in [Memory -> Sockets \cup {NoSocket}]
      /\ peer \in [Memory -> Peers \cup {NoPeer}]
      /\ remote \in [Sockets -> Peers \cup {NoPeer}]
  BY DEF Book, TypeOK, SessionsTypeOK
<1>1. CASE UNCHANGED vars
  BY <1>0, <1>1 DEF vars, sessionVars, serverVars
<1>2. CASE MatchStep
  <2>1. UNCHANGED <<bookVars, serverVars>>
    BY <1>2
    DEF MatchStep, MatchNext, sessionVars, TooFewWaiting, TakePair,
        DropMissing, CheckStates, GiveBack, NotifyDedicated, TellPlayer1,
        TellPlayer2, Tell, SettleMatch
  <2> QED
    BY <1>0, <2>1 DEF serverVars
<1>3. CASE RemoveClient
  BY <1>0, <1>3 DEF RemoveClient
<1>4. ASSUME NEW s \in Sockets, NEW m \in Memory, AcceptNewClient(s, m)
      PROVE  SessionsTrackClients'
  <2>1. /\ clients' = clients \cup {s}
        /\ clientSessions' = [clientSessions EXCEPT ![s] = m]
        /\ socketOf' = [socketOf EXCEPT ![m] = s]
        /\ peer' = [peer EXCEPT ![m] = accepted + 1]
        /\ remote' = [remote EXCEPT ![s] = accepted + 1]
        /\ serverPc = "select"
        /\ serverPc' = "greet"
    BY <1>4 DEF AcceptNewClient
  <2>2. m # NoSession
    BY SessionsAssumption
  <2>3. ASSUME NEW r \in Sockets \ {s}
        PROVE  /\ clientSessions'[r] = clientSessions[r]
               /\ clientSessions[r] # m
               /\ remote'[r] = remote[r]
    BY <1>4, NewcomerApart
  <2>4. /\ clientSessions'[s] = m
        /\ socketOf'[m] = s
        /\ peer'[m] = remote'[s]
    BY <1>0, <2>1
  <2>5. ASSUME NEW r \in Sockets \ {s}, HasSession(r)
        PROVE  /\ socketOf'[clientSessions[r]] = r
               /\ peer'[clientSessions[r]] = remote[r]
    <3>1. clientSessions[r] \in Memory
      BY <1>0, <2>5
    <3> QED
      BY <1>0, <2>1, <2>3, <2>5, <3>1
  <2> QED
    BY <1>0, <2>1, <2>2, <2>3, <2>4, <2>5
<1>5. ASSUME NEW s \in Sockets, HandleClientDisconnected(s)
      PROVE  SessionsTrackClients'
  BY <1>0, <1>5 DEF HandleClientDisconnected
<1>6. ASSUME NEW s \in Sockets,
             ReceiveAuthRequest(s) \/ ReceiveMatchmakingRequest(s)
      PROVE  SessionsTrackClients'
  BY <1>0, <1>6 DEF ReceiveAuthRequest, ReceiveMatchmakingRequest, sessionVars
<1>7. CASE \/ GreetClient
           \/ \E valid \in BOOLEAN : Authenticate(valid)
           \/ AddClientToQueue
           \/ \E ok \in BOOLEAN : ConfirmQueued(ok)
           \/ LeaveQueue
  <2>1. UNCHANGED bookVars /\ serverPc # "remove" /\ serverPc' # "remove"
    BY <1>7 DEF GreetClient, Authenticate, AddClientToQueue, ConfirmQueued, LeaveQueue
  <2> QED
    BY <1>0, <2>1
<1> QED
  BY <1>1, <1>2, <1>3, <1>4, <1>5, <1>6, <1>7
  DEF Next, ServerStep, ServerNext, ServerContinues, ServerStarts

LEMMA BookNext ==
  ASSUME TypeOK, Book, [Next]_vars
  PROVE  Book'
<1>0. /\ accepted \in Nat
      /\ \A s \in Sockets : remote[s] <= accepted /\ remote[s] \in Nat
      /\ \A p \in heirs : p <= accepted /\ p \in Nat
  BY SessionsAssumption DEF Book, TypeOK, SessionsTypeOK, Peers, NoPeer
<1>1. SessionsTrackClients'
  BY TrackingNext
<1>2. CASE UNCHANGED <<remote, accepted, heirs>>
  BY <1>0, <1>1, <1>2 DEF Book
<1>3. ASSUME NEW s \in Sockets, NEW m \in Memory, AcceptNewClient(s, m), ServerStep
      PROVE  Book'
  <2>1. /\ accepted' = accepted + 1
        /\ remote'[s] = accepted + 1
        /\ \A r \in Sockets \ {s} : remote'[r] = remote[r]
        /\ heirs' \subseteq heirs \cup {accepted'}
    BY <1>3, NewcomerApart DEF AcceptNewClient, ServerStep, RecordHeirs
  <2> QED
    BY <1>0, <1>1, <2>1 DEF Book
<1>4. CASE ServerStep
  <2>1. \/ UNCHANGED <<remote, accepted>>
        \/ \E s \in Sockets, m \in Memory : AcceptNewClient(s, m)
    BY <1>4
    DEF ServerStep, ServerNext, ServerContinues, ServerStarts, GreetClient,
        Authenticate, AddClientToQueue, ConfirmQueued, LeaveQueue, RemoveClient,
        ReceiveAuthRequest, ReceiveMatchmakingRequest, HandleClientDisconnected,
        bookVars, sessionVars
  <2>2. UNCHANGED accepted => UNCHANGED heirs
    BY <1>4 DEF ServerStep, RecordHeirs
  <2> QED
    BY <1>2, <1>3, <1>4, <2>1, <2>2
<1>5. CASE MatchStep
  <2>1. UNCHANGED <<remote, accepted, heirs>>
    BY <1>5
    DEF MatchStep, MatchNext, sessionVars, TooFewWaiting, TakePair,
        DropMissing, CheckStates, GiveBack, NotifyDedicated, TellPlayer1,
        TellPlayer2, Tell, SettleMatch, bookVars
  <2> QED
    BY <1>2, <2>1
<1> QED
  BY <1>2, <1>4, <1>5 DEF Next, vars, sessionVars

LEMMA AlwaysBook == Spec => []Book
<1>1. Init => Book
  <2> SUFFICES ASSUME Init PROVE Book
    OBVIOUS
  <2>1. SessionsTrackClients
    BY DEF Init, SessionsInit, SessionsTrackClients, HasSession
  <2> QED
    BY <2>1 DEF Init, SessionsInit, Book, NoPeer
<1> QED
  BY <1>1, BookNext, TypeCorrect, PTL DEF Spec

(* Between handlers sessions and sockets agree, and each session is its    *)
(* own socket's.                                                           *)
THEOREM SessionsAlwaysTrack == Spec => []SessionsTrackClients
<1>1. Book => SessionsTrackClients
  BY DEF Book
<1> QED
  BY <1>1, AlwaysBook, PTL

(***************************************************************************)
(* The games.  A port that comes d draws of two ports after another is     *)
(* 2 * d further round the range, if that is not further than once round:  *)
(* so the port counter is where the number of rooms drawn since a game     *)
(* says, and later games have their ports from there.                      *)
(***************************************************************************)
DrawsLater(d, first, port) ==
  2 * d <= PortCount => port \in {first + 2 * d, first + 2 * d - PortCount}

Spaced ==
  /\ \A g \in games :
       /\ g.room < room_counter
       /\ g.port2 = PortAfter(g.port1)
       /\ DrawsLater(room_counter - g.room, g.port1,
                     next_game_client_udp_port_val)
  /\ \A g, h \in games :
       /\ g.room = h.room => g = h
       /\ g.room < h.room => DrawsLater(h.room - g.room, g.port1, h.port1)

(* Two more ports are drawn.                                               *)
LEMMA OneDrawLater ==
  ASSUME NEW d \in Nat, NEW first \in Ports, NEW port \in Ports,
         DrawsLater(d, first, port)
  PROVE  DrawsLater(d + 1, first, PortAfter(PortAfter(port)))
BY PortRangeAssumption, SMT
DEF DrawsLater, PortAfter, Ports, PortCount, PortValues

LEMMA SpacedNext ==
  ASSUME TypeOK, Spaced, [Next]_vars
  PROVE  Spaced'
<1>1. CASE UNCHANGED <<portVars, games>>
  BY <1>1 DEF Spaced, portVars, DrawsLater
<1>2. ASSUME NEW notified \in BOOLEAN, NotifyDedicated(notified)
      PROVE  Spaced'
  <2> DEFINE port == next_game_client_udp_port_val
             g0 == NewGame
  <2>1. /\ room_counter \in Nat
        /\ port \in Ports
        /\ \A g \in games : g.room \in Nat /\ g.port1 \in Ports
    BY DEF TypeOK, PortsTypeOK, MatchTypeOK, Game
  <2>2. room_counter' = room_counter + 1 /\ port' = PortAfter(PortAfter(port))
    BY <1>2 DEF NotifyDedicated, DrawGame, DrawnPort1, DrawnPort2
  <2>3. games' = games \/ games' = games \cup {g0}
    BY <1>2 DEF NotifyDedicated
  <2>4. g0.room = room_counter /\ g0.port1 = port /\ g0.port2 = PortAfter(port)
    BY DEF NewGame, DrawnRoom, DrawnPort1, DrawnPort2
  <2> HIDE DEF port, g0
  <2>5. ASSUME NEW g \in games
        PROVE  /\ g.room < room_counter'
               /\ g.port2 = PortAfter(g.port1)
               /\ DrawsLater(room_counter' - g.room, g.port1, port')
               /\ DrawsLater(g0.room - g.room, g.port1, g0.port1)
    <3>1. /\ g.room < room_counter
          /\ g.port2 = PortAfter(g.port1)
          /\ DrawsLater(room_counter - g.room, g.port1, port)
      BY <2>5 DEF Spaced, port
    <3>2. /\ room_counter - g.room \in Nat
          /\ room_counter' - g.room = (room_counter - g.room) + 1
          /\ g.room < room_counter'
      BY <2>1, <2>2, <3>1
    <3>3. DrawsLater((room_counter - g.room) + 1, g.port1, port')
      BY <2>1, <2>2, <3>1, <3>2, OneDrawLater
    <3> QED
      BY <2>4, <3>1, <3>2, <3>3
  <2>6. DrawsLater(room_counter' - g0.room, g0.port1, port')
    <3>1. DrawsLater(0, port, port)
      BY <2>1, PortRangeAssumption DEF DrawsLater, Ports
    <3>2. room_counter' - g0.room = 0 + 1
      BY <2>1, <2>2, <2>4
    <3> QED
      BY <2>1, <2>2, <2>4, <3>1, <3>2, OneDrawLater
  <2>7. ASSUME NEW g \in games', NEW h \in games'
        PROVE  /\ g.room = h.room => g = h
               /\ g.room < h.room => DrawsLater(h.room - g.room, g.port1, h.port1)
    <3>1. CASE g \in games /\ h \in games
      BY <3>1 DEF Spaced
    <3>2. CASE g = g0 /\ h \in games
      BY <2>1, <2>4, <3>2 DEF Spaced
    <3>3. CASE g \in games /\ h = g0
      BY <2>1, <2>4, <2>5, <3>3 DEF Spaced
    <3>4. CASE g = g0 /\ h = g0
      BY <2>1, <2>4, <3>4
    <3> QED
      BY <2>3, <3>1, <3>2, <3>3, <3>4
  <2>8. ASSUME NEW g \in games'
        PROVE  /\ g.room < room_counter'
               /\ g.port2 = PortAfter(g.port1)
               /\ DrawsLater(room_counter' - g.room, g.port1, port')
    <3>1. g0.room < room_counter'
      BY <2>1, <2>2, <2>4
    <3> QED
      BY <2>3, <2>4, <2>5, <2>6, <3>1
  <2> QED
    BY <2>7, <2>8 DEF Spaced, port, DrawsLater
<1> QED
  BY <1>1, <1>2
  DEF Next, ServerStep, MatchStep, MatchNext, TooFewWaiting, TakePair,
      DropMissing, CheckStates, GiveBack, TellPlayer1, TellPlayer2, Tell,
      SettleMatch, vars, matchVars, sessionVars, hand, bookVars

LEMMA GamesAreSpaced == Spec => []Spaced
<1>1. Init => Spaced
  BY DEF Init, MatchInit, Spaced
<1>2. TypeOK /\ Spaced /\ [Next]_vars => Spaced'
  BY SpacedNext
<1> QED
  BY <1>1, <1>2, TypeCorrect, PTL DEF Spec

(* Rooms are unique, and the two ports of a game differ.                   *)
THEOREM GamesAreDistinct == Spec => []GamesDistinct
<1>1. ASSUME TypeOK, Spaced
      PROVE  GamesDistinct
  <2>1. ASSUME NEW g \in games PROVE g.port1 # g.port2
    <3>1. g.port1 \in Ports /\ g.port2 = PortAfter(g.port1)
      BY <1>1 DEF Spaced, TypeOK, MatchTypeOK, Game
    <3> QED
      BY <3>1, PortRangeAssumption, SMT DEF PortAfter, Ports, PortValues
  <2> QED
    BY <1>1, <2>1 DEF GamesDistinct, Spaced
<1> QED
  BY <1>1, GamesAreSpaced, TypeCorrect, PTL

(* Games announced within half a turn of the ports share none.             *)
LEMMA PortsDiffer ==
  ASSUME NEW d \in Nat, 0 < d, d < PortCount \div 2,
         NEW p \in Ports, NEW q \in Ports, DrawsLater(d, p, q)
  PROVE  {p, PortAfter(p)} \cap {q, PortAfter(q)} = {}
<1>1. PortCount \in Nat /\ 2 * d + 2 <= PortCount
  BY PortRangeAssumption, SMT DEF PortCount
<1>2. q = p + 2 * d \/ q = p + 2 * d - PortCount
  BY <1>1 DEF DrawsLater
<1>3. /\ p # q
      /\ p # PortAfter(q)
      /\ PortAfter(p) # q
      /\ PortAfter(p) # PortAfter(q)
  BY <1>1, <1>2, PortRangeAssumption, SMT DEF PortAfter, Ports, PortCount, PortValues
<1> QED
  BY <1>3

THEOREM PortsNeverSharedSoon == Spec => []PortsNotSharedSoon
<1>1. ASSUME TypeOK, Spaced
      PROVE  PortsNotSharedSoon
  <2>1. ASSUME NEW g \in games, NEW h \in games,
               g.room < h.room, h.room - g.room < PortCount \div 2
        PROVE  {g.port1, g.port2} \cap {h.port1, h.port2} = {}
    <3>1. /\ g.room \in Nat
          /\ h.room \in Nat
          /\ g.port1 \in Ports
          /\ h.port1 \in Ports
      BY <1>1 DEF TypeOK, MatchTypeOK, Game
    <3>2. h.room - g.room \in Nat /\ 0 < h.room - g.room
      BY <2>1, <3>1
    <3>3. /\ DrawsLater(h.room - g.room, g.port1, h.port1)
          /\ g.port2 = PortAfter(g.port1)
          /\ h.port2 = PortAfter(h.port1)
      BY <1>1, <2>1 DEF Spaced
    <3> QED
      BY <2>1, <3>1, <3>2, <3>3, PortsDiffer
  <2> QED
    BY <2>1 DEF PortsNotSharedSoon
<1> QED
  BY <1>1, GamesAreSpaced, TypeCorrect, PTL

-----------------------------------------------------------------------------
(***************************************************************************)
(* Who stands in line, as a set, and what each step does to it.            *)
(***************************************************************************)
InHand == IF matchPc = "idle" THEN {} ELSE {socket1, socket2}

Standing == InHand \cup ToSet(matchmakingQueue)

LEMMA ToSetPair ==
  ASSUME NEW S, NEW a \in S, NEW b \in S, NEW q \in Seq(S)
  PROVE  ToSet(<<a, b>> \o q) = {a, b} \cup ToSet(q)
<1> DEFINE p == <<a, b>> \o q
<1>1. /\ Len(q) \in Nat
      /\ Len(p) = Len(q) + 2
      /\ p[1] = a
      /\ p[2] = b
      /\ \A i \in 1 .. Len(q) : p[i + 2] = q[i]
      /\ DOMAIN p = 1 .. Len(q) + 2
      /\ DOMAIN q = 1 .. Len(q)
  OBVIOUS
<1> HIDE DEF p
<1>2. ASSUME NEW i \in 1 .. Len(q) + 2
      PROVE  i = 1 \/ i = 2 \/ (i - 2 \in 1 .. Len(q) /\ p[i] = q[i - 2])
  BY <1>1
<1>3. ASSUME NEW i \in 1 .. Len(q) + 2
      PROVE  p[i] \in {a, b} \cup ToSet(q)
  BY <1>1, <1>2, <1>3 DEF ToSet
<1>4. ASSUME NEW i \in 1 .. Len(q)
      PROVE  q[i] \in ToSet(p)
  BY <1>1 DEF ToSet
<1>5. a \in ToSet(p) /\ b \in ToSet(p)
  BY <1>1 DEF ToSet
<1>6. ToSet(p) = {a, b} \cup ToSet(q)
  BY <1>1, <1>3, <1>4, <1>5 DEF ToSet
<1> QED
  BY <1>6 DEF p

LEMMA ToSetOne ==
  ASSUME NEW S, NEW a \in S, NEW q \in Seq(S)
  PROVE  ToSet(<<a>> \o q) = {a} \cup ToSet(q)
<1> DEFINE p == <<a>> \o q
<1>1. /\ Len(q) \in Nat
      /\ p \in Seq(S)
      /\ p[1] = a
      /\ \A i \in 1 .. Len(q) : p[i + 1] = q[i]
      /\ DOMAIN p = 1 .. Len(q) + 1
      /\ DOMAIN q = 1 .. Len(q)
  OBVIOUS
<1> HIDE DEF p
<1>2. ASSUME NEW i \in 1 .. Len(q) + 1
      PROVE  i = 1 \/ (i - 1 \in 1 .. Len(q) /\ p[i] = q[i - 1])
  BY <1>1
<1>3. ASSUME NEW i \in 1 .. Len(q) + 1
      PROVE  p[i] \in {a} \cup ToSet(q)
  BY <1>1, <1>2, <1>3 DEF ToSet
<1>4. ASSUME NEW i \in 1 .. Len(q)
      PROVE  q[i] \in ToSet(p)
  BY <1>1 DEF ToSet
<1>5. a \in ToSet(p)
  BY <1>1 DEF ToSet
<1>6. ToSet(p) = {a} \cup ToSet(q)
  BY <1>1, <1>3, <1>4, <1>5 DEF ToSet
<1> QED
  BY <1>6 DEF p

LEMMA ToSetPushFront ==
  ASSUME NEW S, NEW a \in S, NEW c, NEW q \in Seq(S)
  PROVE  /\ PushFront(a, c, q) \in Seq(S)
         /\ c => ToSet(PushFront(a, c, q)) = {a} \cup ToSet(q)
         /\ ~c => ToSet(PushFront(a, c, q)) = ToSet(q)
<1>1. <<a>> \o q \in Seq(S)
  BY ConcatProperties
<1>2. ToSet(<<a>> \o q) = {a} \cup ToSet(q)
  BY ToSetOne
<1>3. CASE c
  <2>1. PushFront(a, c, q) = <<a>> \o q
    BY <1>3 DEF PushFront
  <2> QED
    BY <1>1, <1>2, <1>3, <2>1, Zenon
<1>4. CASE ~c
  <2>1. PushFront(a, c, q) = q
    BY <1>4 DEF PushFront
  <2> QED
    BY <1>4, <2>1, Zenon
<1> QED
  BY <1>3, <1>4

(* The pair in hand is not in the queue, and is two.                       *)
LEMMA HandOrQueue ==
  ASSUME Inv, matchPc # "idle"
  PROVE  /\ {socket1, socket2} \cap ToSet(matchmakingQueue) = {}
         /\ socket1 # socket2
<1> DEFINE l == Line
           q == matchmakingQueue
<1>1. socket1 \in Sockets /\ socket2 \in Sockets /\ q \in Seq(Sockets)
  BY DEF Inv, Control, TypeOK, SessionsTypeOK
<1>2. l = <<socket1, socket2>> \o q
  BY LineWithPair
<1>3. /\ Len(q) \in Nat
      /\ Len(l) = Len(q) + 2
      /\ l[1] = socket1
      /\ l[2] = socket2
      /\ \A i \in 1 .. Len(q) : l[i + 2] = q[i]
      /\ DOMAIN q = 1 .. Len(q)
  BY <1>1, <1>2
<1>4. Distinct(l)
  BY DEF Inv, NobodyTwice, Distinct
<1> HIDE DEF l, q
<1>5. ASSUME NEW i \in 1 .. Len(q)
      PROVE  q[i] # socket1 /\ q[i] # socket2
  <2>1. /\ 1 \in 1 .. Len(l)
        /\ 2 \in 1 .. Len(l)
        /\ i + 2 \in 1 .. Len(l)
        /\ i + 2 # 1
        /\ i + 2 # 2
    BY <1>3
  <2> QED
    BY <1>3, <1>4, <2>1 DEF Distinct
<1>6. socket1 # socket2
  <2>1. 1 \in 1 .. Len(l) /\ 2 \in 1 .. Len(l)
    BY <1>3
  <2> QED
    BY <1>3, <1>4, <2>1 DEF Distinct
<1> QED
  BY <1>3, <1>5, <1>6 DEF ToSet, q

(* Whoever stands in line is in that set.                                  *)
LEMMA StandingIsInLine ==
  ASSUME Inv, NEW s
  PROVE  InLine(s) <=> s \in Standing
<1>1. matchmakingQueue \in Seq(Sockets)
  BY DEF Inv, TypeOK, SessionsTypeOK
<1>2. ASSUME NEW q, q \in Seq(Sockets)
      PROVE  (\E i \in 1 .. Len(q) : q[i] = s) <=> s \in ToSet(q)
  BY <1>2 DEF ToSet
<1>3. CASE matchPc = "idle"
  BY <1>1, <1>2, <1>3, LineWhenIdle DEF Inv, InLine, Standing, InHand
<1>4. CASE matchPc # "idle"
  <2>1. socket1 \in Sockets /\ socket2 \in Sockets
    BY <1>4 DEF Inv, Control
  <2>2. <<socket1, socket2>> \o matchmakingQueue \in Seq(Sockets)
    BY <1>1, <2>1, ConcatProperties
  <2>3. ToSet(Line) = {socket1, socket2} \cup ToSet(matchmakingQueue)
    <3>1. Line = Both(socket1, socket2, matchmakingQueue)
      BY <1>4, LineWithPair DEF Both
    <3>2. ToSet(Both(socket1, socket2, matchmakingQueue))
            = {socket1, socket2} \cup ToSet(matchmakingQueue)
      BY <1>1, <2>1, ToSetPair DEF Both
    <3> QED
      BY <3>1, <3>2, Zenon
  <2> QED
    BY <1>2, <1>4, <2>2, <2>3, LineWithPair DEF InLine, Standing, InHand
<1> QED
  BY <1>3, <1>4

LEMMA StandingUnchanged ==
  ASSUME UNCHANGED <<matchPc, hand, matchmakingQueue>>
  PROVE  UNCHANGED Standing
BY DEF Standing, InHand, hand

(* Only addClientToQueue adds anybody, and it takes him out again.         *)
LEMMA JoinStanding ==
  ASSUME Inv, AddClientToQueue, UNCHANGED matchVars
  PROVE  Standing' = Standing \cup {serving}
<1>1. serving \in Sockets /\ matchmakingQueue \in Seq(Sockets)
  BY DEF Inv, Control, TypeOK, SessionsTypeOK, AddClientToQueue, Continue, Finish
<1>2. \/ UNCHANGED matchmakingQueue /\ Contains(matchmakingQueue, serving)
      \/ matchmakingQueue' = Append(matchmakingQueue, serving)
  BY DEF AddClientToQueue
<1>3. ToSet(matchmakingQueue') = ToSet(matchmakingQueue) \cup {serving}
  <2>1. ToSet(Append(matchmakingQueue, serving))
          = ToSet(matchmakingQueue) \cup {serving}
    BY <1>1, ToSetAppend
  <2>2. Contains(matchmakingQueue, serving) => serving \in ToSet(matchmakingQueue)
    BY <1>1 DEF Contains, ToSet
  <2> QED
    BY <1>2, <2>1, <2>2
<1>4. InHand' = InHand
  BY DEF InHand, matchVars, hand
<1> QED
  BY <1>3, <1>4 DEF Standing

LEMMA LeaveStanding ==
  ASSUME Inv, LeaveQueue, UNCHANGED matchVars
  PROVE  Standing' = Standing \ {serving}
<1>1. matchmakingQueue \in Seq(Sockets) /\ serving \in Sockets
  BY DEF Inv, Control, TypeOK, SessionsTypeOK, LeaveQueue, Finish
<1>2. matchPc = "idle"
  BY DEF LeaveQueue, Inv, Control
<1>3. Distinct(matchmakingQueue)
  BY <1>2, LineWhenIdle DEF Inv, NobodyTwice, Distinct
<1>4. matchmakingQueue' = RemoveFirst(matchmakingQueue, serving)
  BY DEF LeaveQueue
<1>5. ToSet(matchmakingQueue') = ToSet(matchmakingQueue) \ {serving}
  BY <1>1, <1>3, <1>4, ToSetRemoveFirst
<1> QED
  BY <1>2, <1>5 DEF Standing, InHand, matchVars, hand

(* A round of matchmaking adds nobody; of the pair it gives back only who  *)
(* still waits stays, and of a matched pair nobody.                        *)
LEMMA MatchStanding ==
  ASSUME Inv, MatchStep
  PROVE  /\ Standing' \subseteq Standing
         /\ GiveBack => \A s \in Standing' : /\ s = socket1 => Waits(session1)
                                             /\ s = socket2 => Waits(session2)
         /\ SettleMatch /\ sent => \A s \in Standing' : s \notin {socket1, socket2}
         /\ \A s \in Standing \ Standing' :
              \/ ~HasSession(s)
              \/ GiveBack /\ \/ s = socket1 /\ ~Waits(session1)
                             \/ s = socket2 /\ ~Waits(session2)
              \/ SettleMatch /\ sent /\ s \in {socket1, socket2}
<1>1. /\ matchmakingQueue \in Seq(Sockets)
      /\ matchPc # "idle" => socket1 \in Sockets /\ socket2 \in Sockets
  BY DEF Inv, Control, TypeOK, SessionsTypeOK
<1>2. ASSUME matchPc # "idle"
      PROVE  /\ {socket1, socket2} \cap ToSet(matchmakingQueue) = {}
             /\ Standing = {socket1, socket2} \cup ToSet(matchmakingQueue)
             /\ socket1 # socket2
  BY <1>2, HandOrQueue DEF Standing, InHand
<1>3. ASSUME NEW from, from # "idle", ReturnPair(from)
      PROVE  Standing' = Standing
  <2>1. /\ matchPc # "idle"
        /\ matchPc' = "idle"
        /\ matchmakingQueue' = <<socket1, socket2>> \o matchmakingQueue
    BY <1>3 DEF ReturnPair, Return
  <2>2. ToSet(<<socket1, socket2>> \o matchmakingQueue)
          = {socket1, socket2} \cup ToSet(matchmakingQueue)
    BY <1>1, <2>1, ToSetPair
  <2>3. Standing' = ToSet(matchmakingQueue')
    BY <2>1 DEF Standing, InHand
  <2>4. ToSet(matchmakingQueue') = {socket1, socket2} \cup ToSet(matchmakingQueue)
    BY <2>1, <2>2, Zenon
  <2> QED
    BY <1>2, <2>1, <2>3, <2>4
<1>4. CASE TakePair
  <2>1. /\ matchPc = "idle"
        /\ Len(matchmakingQueue) >= 2
        /\ matchPc' = "check"
        /\ socket1' = First
        /\ socket2' = Second
        /\ matchmakingQueue' = Others
    BY <1>4 DEF TakePair
  <2>2. First \in Sockets /\ Second \in Sockets /\ Others \in Seq(Sockets)
    BY <1>1, <2>1, LenProperties, ElementOfSeq, SubSeqType DEF First, Second, Others
  <2>3. matchmakingQueue = Both(First, Second, Others)
    BY <1>1, <2>1, PairBeforeOthers DEF First, Second, Others, Both
  <2>4. ToSet(Both(First, Second, Others)) = {First, Second} \cup ToSet(Others)
    BY <2>2, ToSetPair DEF Both
  <2>5. ToSet(matchmakingQueue) = {First, Second} \cup ToSet(Others)
    BY <2>3, <2>4, Zenon
  <2>6. Standing' = Standing
    BY <2>1, <2>5 DEF Standing, InHand
  <2> QED
    BY <2>1, <2>6 DEF GiveBack, SettleMatch, Return, ReturnPair
<1>5. CASE DropMissing
  <2>1. /\ matchPc = "idle"
        /\ matchPc' = "idle"
        /\ Len(matchmakingQueue) >= 2
        /\ matchmakingQueue' = PushFront(Second, HasSession(Second),
                                 PushFront(First, HasSession(First), Others))
    BY <1>5 DEF DropMissing, matchVars
  <2>2. First \in Sockets /\ Second \in Sockets /\ Others \in Seq(Sockets)
    BY <1>1, <2>1, LenProperties, ElementOfSeq, SubSeqType DEF First, Second, Others
  <2>3. matchmakingQueue = Both(First, Second, Others)
    BY <1>1, <2>1, PairBeforeOthers DEF First, Second, Others, Both
  <2>4. ToSet(Both(First, Second, Others)) = {First, Second} \cup ToSet(Others)
    BY <2>2, ToSetPair DEF Both
  <2>5. ToSet(matchmakingQueue) = {First, Second} \cup ToSet(Others)
    BY <2>3, <2>4, Zenon
  <2> DEFINE Here(s) == HasSession(s)
             inner == PushFront(First, Here(First), Others)
  <2> HIDE DEF Here
  <2>6. /\ inner \in Seq(Sockets)
        /\ Here(First) => ToSet(inner) = {First} \cup ToSet(Others)
        /\ ~Here(First) => ToSet(inner) = ToSet(Others)
    BY <2>2, ToSetPushFront
  <2> DEFINE outer == PushFront(Second, Here(Second), inner)
  <2> HIDE DEF inner
  <2>7. /\ Here(Second) => ToSet(outer) = {Second} \cup ToSet(inner)
        /\ ~Here(Second) => ToSet(outer) = ToSet(inner)
    BY <2>2, <2>6, ToSetPushFront
  <2> HIDE DEF outer
  <2>8. matchmakingQueue' = outer
    BY <2>1 DEF outer, inner, Here
  <2>9. /\ ToSet(matchmakingQueue') \subseteq ToSet(matchmakingQueue)
        /\ \A s \in ToSet(matchmakingQueue) \ ToSet(matchmakingQueue') :
             ~HasSession(s)
    BY <2>5, <2>6, <2>7, <2>8 DEF Here
  <2> QED
    BY <2>1, <2>9 DEF Standing, InHand, GiveBack, SettleMatch, Return, ReturnPair
<1>6. CASE GiveBack
  <2>1. /\ matchPc = "giveBack"
        /\ matchPc' = "idle"
        /\ matchmakingQueue' = PushFront(socket2, Waits(session2),
                                 PushFront(socket1, Waits(session1), matchmakingQueue))
    BY <1>6 DEF GiveBack, Return
  <2> DEFINE inner == PushFront(socket1, Waits(session1), matchmakingQueue)
  <2>2. /\ inner \in Seq(Sockets)
        /\ Waits(session1) => ToSet(inner) = {socket1} \cup ToSet(matchmakingQueue)
        /\ ~Waits(session1) => ToSet(inner) = ToSet(matchmakingQueue)
    BY <1>1, <2>1, ToSetPushFront
  <2> DEFINE outer == PushFront(socket2, Waits(session2), inner)
  <2> HIDE DEF inner
  <2>3. /\ Waits(session2) => ToSet(outer) = {socket2} \cup ToSet(inner)
        /\ ~Waits(session2) => ToSet(outer) = ToSet(inner)
    BY <1>1, <2>1, <2>2, ToSetPushFront
  <2> HIDE DEF outer
  <2>4. Standing' = ToSet(outer)
    BY <2>1 DEF Standing, InHand, outer, inner
  <2>5. /\ {socket1, socket2} \cap ToSet(matchmakingQueue) = {}
        /\ Standing = {socket1, socket2} \cup ToSet(matchmakingQueue)
        /\ socket1 # socket2
    BY <1>2, <2>1
  <2>6. /\ Standing' \subseteq Standing
        /\ \A s \in Standing' : /\ s = socket1 => Waits(session1)
                                /\ s = socket2 => Waits(session2)
        /\ \A s \in Standing \ Standing' :
             \/ s = socket1 /\ ~Waits(session1)
             \/ s = socket2 /\ ~Waits(session2)
    <3>1. CASE Waits(session1) /\ Waits(session2)
      BY <2>2, <2>3, <2>4, <2>5, <3>1
    <3>2. CASE Waits(session1) /\ ~Waits(session2)
      BY <2>2, <2>3, <2>4, <2>5, <3>2
    <3>3. CASE ~Waits(session1) /\ Waits(session2)
      BY <2>2, <2>3, <2>4, <2>5, <3>3
    <3>4. CASE ~Waits(session1) /\ ~Waits(session2)
      BY <2>2, <2>3, <2>4, <2>5, <3>4
    <3> QED
      BY <3>1, <3>2, <3>3, <3>4
  <2> QED
    BY <1>6, <2>1, <2>6 DEF SettleMatch, Return, ReturnPair
<1>7. ASSUME NEW notified \in BOOLEAN, NotifyDedicated(notified)
      PROVE  Standing' = Standing /\ ~GiveBack /\ ~SettleMatch
  <2>1. CASE UNCHANGED matchmakingQueue /\ Advance("notify", "tell1")
    BY <2>1 DEF Advance, hand, Standing, InHand, GiveBack, SettleMatch, Return, ReturnPair
  <2>2. CASE ReturnPair("notify")
    <3>1. Standing' = Standing
      BY <1>3, <2>2
    <3> QED
      BY <2>2, <3>1 DEF ReturnPair, Return, GiveBack, SettleMatch
  <2> QED
    BY <1>7, <2>1, <2>2 DEF NotifyDedicated
<1>8. CASE SettleMatch
  <2>1. matchPc = "settle" /\ matchPc' = "idle"
    BY <1>8 DEF SettleMatch, Return, ReturnPair
  <2>2. CASE sent /\ Return("settle") /\ UNCHANGED matchmakingQueue
    <3>1. Standing' = ToSet(matchmakingQueue)
      BY <2>1, <2>2 DEF Standing, InHand
    <3> QED
      BY <1>2, <1>8, <2>1, <2>2, <3>1 DEF GiveBack, Return
  <2>3. CASE ~sent /\ ReturnPair("settle")
    <3>1. Standing' = Standing
      BY <1>3, <2>3
    <3> QED
      BY <2>1, <2>3, <3>1 DEF GiveBack, Return
  <2> QED
    BY <1>8, <2>2, <2>3 DEF SettleMatch
<1>9. CASE TooFewWaiting \/ CheckStates
           \/ \E done \in BOOLEAN : TellPlayer1(done) \/ TellPlayer2(done)
  BY <1>9
  DEF TooFewWaiting, CheckStates, TellPlayer1, TellPlayer2, Tell, Advance, hand,
      Standing, InHand, matchVars, sessionVars, GiveBack, SettleMatch, Return,
      ReturnPair
<1> QED
  BY <1>4, <1>5, <1>6, <1>7, <1>8, <1>9 DEF MatchStep, MatchNext

-----------------------------------------------------------------------------
(***************************************************************************)
(* The clients who came into nothing that matchmaking referred to.  While  *)
(* the matchmaking thread has a pair in hand, its pointers lead to such a  *)
(* client's session only if they lead to his socket too; a socket's        *)
(* session names a connection that is an heir's or the player's own.       *)
(***************************************************************************)
OwnClients == {s \in Sockets : Own(s)}

HandKnown ==
  matchPc # "idle" =>
    /\ \A s \in OwnClients :
         /\ clientSessions[s] = session1 <=> s = socket1
         /\ clientSessions[s] = session2 <=> s = socket2
    /\ \A m \in {session1, session2} :
         /\ socketOf[m] \in Sockets
         /\ remote[socketOf[m]] \in heirs \cup {peer[m]}

(* The socket whose handler is running.                                    *)
Served(s) == serverPc # "select" /\ serving = s

LEMMA OwnHasSession ==
  ASSUME TypeOK, Book, NEW s \in OwnClients
  PROVE  /\ s \in Sockets
         /\ clientSessions[s] \in Memory
         /\ socketOf[clientSessions[s]] = s
         /\ s \in clients
BY DEF TypeOK, SessionsTypeOK, Book, SessionsTrackClients, OwnClients, Own, HasSession

(* A round of matchmaking changes only states, and whose they are is known.*)
LEMMA MatchFrame ==
  ASSUME MatchStep
  PROVE  UNCHANGED <<bookVars, connected, serverVars, heirs, OwnClients>>
<1>1. UNCHANGED <<bookVars, connected, serverVars, heirs>>
  BY DEF MatchStep, MatchNext, sessionVars, TooFewWaiting, TakePair, DropMissing,
         CheckStates, GiveBack, NotifyDedicated, TellPlayer1, TellPlayer2, Tell,
         SettleMatch, bookVars
<1> QED
  BY <1>1 DEF bookVars, OwnClients, Own, HasSession

LEMMA MatchStates ==
  ASSUME Inv, Book, HandKnown, MatchStep, NEW s \in OwnClients
  PROVE  /\ clientSessions'[s] = clientSessions[s]
         /\ \/ /\ StateOf(s)' = StateOf(s)
               /\ SettleMatch => s \notin {socket1, socket2}
            \/ /\ GiveBack
               /\ s \in {socket1, socket2}
               /\ StateOf(s) \notin {"IN_MATCHMAKING_QUEUE", "MATCHED"}
               /\ StateOf(s)' = "LOGGED_IN"
            \/ /\ SettleMatch
               /\ s \in {socket1, socket2}
               /\ StateOf(s)' = IF sent THEN "MATCHED" ELSE "IN_MATCHMAKING_QUEUE"
<1>1. /\ clientSessions[s] \in Memory
      /\ clientSessions' = clientSessions
      /\ state \in [Memory -> ClientState]
  BY OwnHasSession, MatchFrame DEF Inv, TypeOK, SessionsTypeOK, bookVars
<1>2. CASE GiveBack
  <2>1. /\ matchPc = "giveBack"
        /\ state' = [m \in Memory |->
                       IF m \in {session1, session2} /\ ~Waits(m) /\ state[m] # "MATCHED"
                       THEN "LOGGED_IN" ELSE state[m]]
    BY <1>2 DEF GiveBack, Return
  <2>2. clientSessions[s] \in {session1, session2} => s \in {socket1, socket2}
    BY <2>1 DEF HandKnown
  <2>3. ~SettleMatch
    BY <2>1 DEF SettleMatch, Return, ReturnPair
  <2> QED
    BY <1>1, <1>2, <2>1, <2>2, <2>3 DEF StateOf, Waits
<1>3. CASE SettleMatch
  <2>1. /\ matchPc = "settle"
        /\ state' = [m \in Memory |->
                       IF m \notin {session1, session2} THEN state[m]
                       ELSE IF sent THEN "MATCHED" ELSE "IN_MATCHMAKING_QUEUE"]
    BY <1>3 DEF SettleMatch, Return, ReturnPair
  <2>2. clientSessions[s] \in {session1, session2} <=> s \in {socket1, socket2}
    BY <2>1 DEF HandKnown
  <2> QED
    BY <1>1, <1>3, <2>1, <2>2 DEF StateOf
<1>4. CASE UNCHANGED state /\ ~SettleMatch
  BY <1>1, <1>4 DEF StateOf
<1>5. ASSUME MatchStep, ~GiveBack, ~SettleMatch
      PROVE  UNCHANGED state
  BY <1>5
  DEF MatchStep, MatchNext, sessionVars, TooFewWaiting, TakePair, DropMissing,
      CheckStates, NotifyDedicated, TellPlayer1, TellPlayer2, Tell
<1> QED
  BY <1>2, <1>3, <1>4, <1>5

(* A newcomer at an address in line, or with memory in hand, is an heir.   *)
LEMMA NewcomerOwn ==
  ASSUME Inv, Book, ServerStep,
         NEW s \in Sockets, NEW m \in Memory, AcceptNewClient(s, m),
         remote'[s] \notin heirs'
  PROVE  /\ s \notin Standing
         /\ Standing' = Standing
         /\ matchPc # "idle" => /\ m \notin {session1, session2}
                                /\ s \notin {socketOf[session1], socketOf[session2]}
<1>1. /\ accepted' = accepted + 1
      /\ serving' = s
      /\ clientSessions'[s] = m
      /\ remote'[s] = accepted'
      /\ UNCHANGED matchmakingQueue
  BY NewcomerApart DEF Inv, AcceptNewClient, Handle
<1>2. accepted' # accepted
  BY <1>1, SessionsAssumption DEF Inv, TypeOK, SessionsTypeOK
<1>3. ~ReferredTo(s, m)
  BY <1>1, <1>2 DEF ServerStep, RecordHeirs
<1>4. Standing' = Standing
  BY <1>1, StandingUnchanged DEF ServerStep, matchVars
<1> QED
  BY <1>3, <1>4, StandingIsInLine DEF ReferredTo

(* Of his own session only a client's own handler changes anything.        *)
LEMMA ServerKeeps ==
  ASSUME Inv, Book, ServerStep, NEW s \in OwnClients'
  PROVE  \/ /\ s \in OwnClients
            /\ clientSessions'[s] = clientSessions[s]
            /\ remote'[s] = remote[s]
            /\ \/ Served(s) /\ ServerContinues
               \/ /\ state'[clientSessions[s]] = state[clientSessions[s]]
                  /\ connected'[clientSessions[s]] = connected[clientSessions[s]]
         \/ /\ s \notin clients
            /\ s \notin Standing
            /\ Standing' = Standing
            /\ serverPc' = "greet"
            /\ state'[clientSessions'[s]] = "CONNECTED"
            /\ matchPc # "idle" => clientSessions'[s] \notin {session1, session2}
<1>0. /\ s \in Sockets
      /\ clientSessions'[s] # NoSession
      /\ remote'[s] \notin heirs'
      /\ heirs \subseteq heirs'
      /\ clientSessions \in [Sockets -> Memory \cup {NoSession}]
      /\ remote \in [Sockets -> Peers \cup {NoPeer}]
      /\ state \in [Memory -> ClientState]
      /\ connected \in [Memory -> BOOLEAN]
      /\ SessionsTrackClients
  BY DEF OwnClients, Own, HasSession, ServerStep, RecordHeirs, Inv, TypeOK,
         SessionsTypeOK, Book
<1>1. ASSUME UNCHANGED <<remote, clientSessions>>
      PROVE  /\ s \in OwnClients
             /\ clientSessions[s] \in Memory
             /\ clientSessions'[s] = clientSessions[s]
             /\ remote'[s] = remote[s]
  BY <1>0, <1>1 DEF OwnClients, Own, HasSession
<1>2. CASE ServerContinues
  <2>1. UNCHANGED <<remote, clientSessions>> /\ serverPc # "select"
    BY <1>2
    DEF ServerContinues, GreetClient, Authenticate, AddClientToQueue, ConfirmQueued,
        LeaveQueue, RemoveClient, bookVars, Finish, Continue
  <2>2. /\ s # serving =>
             /\ state'[clientSessions[s]] = state[clientSessions[s]]
             /\ connected'[clientSessions[s]] = connected[clientSessions[s]]
    <3> SUFFICES ASSUME s # serving
                 PROVE  /\ state'[clientSessions[s]] = state[clientSessions[s]]
                        /\ connected'[clientSessions[s]] = connected[clientSessions[s]]
      OBVIOUS
    <3>1. serving \in Sockets
      BY <2>1 DEF Inv, Control
    <3>2. clientSessions[s] # Session
      BY <1>0, <1>1, <2>1, <3>1 DEF SessionsTrackClients, HasSession, Session
    <3>3. /\ \/ UNCHANGED state
             \/ \E c : state' = [state EXCEPT ![Session] = c]
          /\ \/ UNCHANGED connected
             \/ \E c : connected' = [connected EXCEPT ![Session] = c]
      BY <1>2
      DEF ServerContinues, GreetClient, Authenticate, AddClientToQueue, ConfirmQueued,
          LeaveQueue, RemoveClient, bookVars
    <3> QED
      BY <1>0, <1>1, <2>1, <3>2, <3>3
  <2> QED
    BY <1>1, <1>2, <2>1, <2>2 DEF Served
<1>3. ASSUME NEW r \in Sockets, NEW m \in Memory, AcceptNewClient(r, m)
      PROVE  \/ /\ s \in OwnClients
                /\ clientSessions'[s] = clientSessions[s]
                /\ remote'[s] = remote[s]
                /\ state'[clientSessions[s]] = state[clientSessions[s]]
                /\ connected'[clientSessions[s]] = connected[clientSessions[s]]
             \/ /\ s \notin clients
                /\ s \notin Standing
                /\ Standing' = Standing
                /\ serverPc' = "greet"
                /\ state'[clientSessions'[s]] = "CONNECTED"
                /\ matchPc # "idle" => clientSessions'[s] \notin {session1, session2}
  <2>1. CASE s = r
    <3>1. /\ s \notin clients
          /\ serverPc' = "greet"
          /\ clientSessions'[s] = m
          /\ state'[m] = "CONNECTED"
      BY <1>0, <1>3, <2>1 DEF AcceptNewClient, Handle
    <3> QED
      BY <1>0, <1>3, <2>1, <3>1, NewcomerOwn
  <2>2. CASE s # r
    <3>1. /\ clientSessions'[s] = clientSessions[s]
          /\ remote'[s] = remote[s]
          /\ clientSessions[s] # m
      BY <1>0, <1>3, <2>2, NewcomerApart DEF Inv
    <3>2. /\ state' = [state EXCEPT ![m] = "CONNECTED"]
          /\ connected' = [connected EXCEPT ![m] = FALSE]
      BY <1>3 DEF AcceptNewClient
    <3>3. s \in OwnClients /\ clientSessions[s] \in Memory
      BY <1>0, <3>1 DEF OwnClients, Own, HasSession
    <3> QED
      BY <1>0, <3>1, <3>2, <3>3
  <2> QED
    BY <2>1, <2>2
<1>4. CASE \E r \in Sockets : ReceiveAuthRequest(r) \/ ReceiveMatchmakingRequest(r)
  <2>1. UNCHANGED <<remote, clientSessions, state, connected>>
    BY <1>4 DEF ReceiveAuthRequest, ReceiveMatchmakingRequest, sessionVars
  <2> QED
    BY <1>1, <2>1
<1>5. ASSUME NEW r \in Sockets, HandleClientDisconnected(r)
      PROVE  /\ s \in OwnClients
             /\ clientSessions'[s] = clientSessions[s]
             /\ remote'[s] = remote[s]
             /\ state'[clientSessions[s]] = state[clientSessions[s]]
             /\ connected'[clientSessions[s]] = connected[clientSessions[s]]
  <2>1. /\ clientSessions' = [clientSessions EXCEPT ![r] = NoSession]
        /\ \E left : state' = [state EXCEPT ![clientSessions[r]] = left]
        /\ UNCHANGED <<remote, connected>>
    BY <1>5 DEF HandleClientDisconnected
  <2>2. s # r /\ clientSessions'[s] = clientSessions[s]
    BY <1>0, <2>1
  <2>3. s \in OwnClients /\ clientSessions[s] \in Memory
    BY <1>0, <2>1, <2>2 DEF OwnClients, Own, HasSession
  <2>4. clientSessions[s] # clientSessions[r]
    BY <1>0, <2>2, <2>3 DEF SessionsTrackClients, HasSession
  <2> QED
    BY <1>0, <2>1, <2>2, <2>3, <2>4
<1> QED
  BY <1>2, <1>3, <1>4, <1>5 DEF ServerStep, ServerNext, ServerStarts

LEMMA HandKnownByMatch ==
  ASSUME Inv, Book, HandKnown, MatchStep
  PROVE  HandKnown'
<1>0. UNCHANGED <<remote, clientSessions, socketOf, peer, heirs, OwnClients>>
  BY MatchFrame DEF bookVars
<1>1. CASE TakePair
  <2>1. /\ First \in Sockets
        /\ Second \in Sockets
        /\ HasSession(First)
        /\ HasSession(Second)
        /\ socket1' = First
        /\ socket2' = Second
        /\ session1' = clientSessions[First]
        /\ session2' = clientSessions[Second]
    BY <1>1, LenProperties, ElementOfSeq
    DEF TakePair, BothHaveSessions, First, Second, Inv, TypeOK, SessionsTypeOK
  <2>2. ASSUME NEW s \in OwnClients, NEW r \in Sockets, HasSession(r)
        PROVE  clientSessions[s] = clientSessions[r] <=> s = r
    BY <2>2 DEF Book, SessionsTrackClients, OwnClients, Own
  <2>3. ASSUME NEW r \in Sockets, HasSession(r)
        PROVE  /\ socketOf[clientSessions[r]] = r
               /\ peer[clientSessions[r]] = remote[r]
    BY <2>3 DEF Book, SessionsTrackClients
  <2> QED
    BY <1>0, <2>1, <2>2, <2>3 DEF HandKnown
<1>2. CASE UNCHANGED hand /\ (matchPc' # "idle" => matchPc # "idle")
  BY <1>0, <1>2 DEF HandKnown, hand
<1>3. CASE matchPc' = "idle"
  BY <1>3 DEF HandKnown
<1>4. TakePair \/ matchPc' = "idle" \/ (UNCHANGED hand /\ (matchPc' # "idle" => matchPc # "idle"))
  BY DEF MatchStep, MatchNext, TooFewWaiting, DropMissing, CheckStates, GiveBack,
         NotifyDedicated, TellPlayer1, TellPlayer2, SettleMatch, Advance, ReturnPair,
         Return, matchVars
<1> QED
  BY <1>1, <1>2, <1>3, <1>4

LEMMA HandKnownByServer ==
  ASSUME Inv, Book, HandKnown, ServerStep
  PROVE  HandKnown'
<1> SUFFICES ASSUME matchPc # "idle"
             PROVE  HandKnown'
  BY DEF HandKnown, ServerStep, matchVars
<1>0. UNCHANGED <<matchPc, socket1, socket2, session1, session2>>
  BY DEF ServerStep, matchVars, hand
<1>1. socket1 \in Standing /\ socket2 \in Standing
  BY DEF Standing, InHand
<1>2. ASSUME NEW s \in OwnClients'
      PROVE  /\ clientSessions'[s] = session1 <=> s = socket1
             /\ clientSessions'[s] = session2 <=> s = socket2
  BY <1>1, <1>2, ServerKeeps DEF HandKnown
<1>3. ASSUME NEW m \in {session1, session2}
      PROVE  /\ socketOf'[m] \in Sockets
             /\ remote'[socketOf'[m]] \in heirs' \cup {peer'[m]}
  <2>0. /\ socketOf[m] \in Sockets
        /\ remote[socketOf[m]] \in heirs \cup {peer[m]}
        /\ heirs \subseteq heirs'
        /\ m \in Memory
    BY DEF HandKnown, ServerStep, RecordHeirs, Inv, Control
  <2>1. CASE UNCHANGED <<remote, socketOf, peer>>
    BY <2>0, <2>1
  <2>2. ASSUME NEW r \in Sockets, NEW n \in Memory, AcceptNewClient(r, n)
        PROVE  /\ socketOf'[m] \in Sockets
               /\ remote'[socketOf'[m]] \in heirs' \cup {peer'[m]}
    <3>0. /\ remote' = [remote EXCEPT ![r] = accepted + 1]
          /\ socketOf' = [socketOf EXCEPT ![n] = r]
          /\ peer' = [peer EXCEPT ![n] = accepted + 1]
          /\ remote \in [Sockets -> Peers \cup {NoPeer}]
          /\ socketOf \in [Memory -> Sockets \cup {NoSocket}]
          /\ peer \in [Memory -> Peers \cup {NoPeer}]
      BY <2>2 DEF AcceptNewClient, Inv, TypeOK, SessionsTypeOK
    <3>1. CASE m = n
      BY <2>0, <3>0, <3>1
    <3>2. CASE m # n /\ r = socketOf[m]
      <4>1. socketOf'[m] = r /\ remote'[r] \in heirs'
        BY <2>0, <2>2, <3>0, <3>2, NewcomerOwn
      <4> QED
        BY <2>0, <4>1
    <3>3. CASE m # n /\ r # socketOf[m]
      BY <2>0, <3>0, <3>3
    <3> QED
      BY <3>1, <3>2, <3>3
  <2>3. \/ UNCHANGED <<remote, socketOf, peer>>
        \/ \E r \in Sockets, n \in Memory : AcceptNewClient(r, n)
    BY DEF ServerStep, ServerNext, ServerContinues, ServerStarts, GreetClient,
           Authenticate, AddClientToQueue, ConfirmQueued, LeaveQueue, RemoveClient,
           ReceiveAuthRequest, ReceiveMatchmakingRequest, HandleClientDisconnected,
           bookVars, sessionVars
  <2> QED
    BY <2>1, <2>2, <2>3
<1> QED
  BY <1>0, <1>2, <1>3 DEF HandKnown

LEMMA AlwaysHandKnown == Spec => []HandKnown
<1>1. Init => HandKnown
  BY DEF Init, MatchInit, HandKnown
<1>2. ASSUME HandKnown, UNCHANGED vars
      PROVE  HandKnown'
  BY <1>2
  DEF HandKnown, OwnClients, Own, HasSession, vars, sessionVars, matchVars, hand
<1>3. Inv /\ Book /\ HandKnown /\ [Next]_vars => HandKnown'
  BY <1>2, HandKnownByMatch, HandKnownByServer DEF Next
<1> QED
  BY <1>1, <1>3, AlwaysBook, Invariance, PTL DEF Spec

(* As long as he has a session an own client stays one.                    *)
LEMMA OwnStays ==
  ASSUME Inv, Book, ServerStep, NEW s \in OwnClients, clientSessions'[s] # NoSession
  PROVE  s \in OwnClients'
<1>0. /\ s \in Sockets
      /\ s \in clients
      /\ remote[s] \notin heirs
      /\ remote[s] <= accepted
      /\ accepted \in Nat
      /\ remote[s] \in Nat
  BY OwnHasSession, SessionsAssumption
  DEF OwnClients, Own, Inv, TypeOK, SessionsTypeOK, Book, Peers, NoPeer
<1>1. ASSUME UNCHANGED <<remote, accepted>>
      PROVE  s \in OwnClients'
  BY <1>0, <1>1 DEF ServerStep, RecordHeirs, OwnClients, Own, HasSession
<1>2. ASSUME NEW r \in Sockets, NEW m \in Memory, AcceptNewClient(r, m)
      PROVE  s \in OwnClients'
  <2>1. r # s /\ accepted' = accepted + 1
    BY <1>0, <1>2 DEF AcceptNewClient
  <2>2. remote'[s] = remote[s]
    BY <1>0, <1>2, <2>1, NewcomerApart DEF Inv
  <2>3. heirs' \subseteq heirs \cup {accepted'}
    BY DEF ServerStep, RecordHeirs
  <2> QED
    BY <1>0, <2>1, <2>2, <2>3 DEF OwnClients, Own, HasSession
<1>3. \/ UNCHANGED <<remote, accepted>>
      \/ \E r \in Sockets, m \in Memory : AcceptNewClient(r, m)
  BY DEF ServerStep, ServerNext, ServerContinues, ServerStarts, GreetClient,
         Authenticate, AddClientToQueue, ConfirmQueued, LeaveQueue, RemoveClient,
         ReceiveAuthRequest, ReceiveMatchmakingRequest, HandleClientDisconnected,
         bookVars, sessionVars
<1> QED
  BY <1>1, <1>2, <1>3

-----------------------------------------------------------------------------
(***************************************************************************)
(* What a client's own handler does to him, and what it finds when it      *)
(* starts.                                                                 *)
(***************************************************************************)
LEMMA ServerServes ==
  ASSUME Inv, Book, ServerStep, ServerContinues, NEW s \in OwnClients, Served(s),
         NEW c, c = clientSessions[s]
  PROVE  \/ /\ serverPc = "greet"
            /\ serverPc' = "select"
            /\ state'[c] = "AWAITING_CREDENTIALS"
            /\ connected'[c] = connected[c]
            /\ Standing' = Standing
         \/ /\ serverPc = "authenticate"
            /\ serverPc' = "select"
            /\ \/ state'[c] = state[c] /\ connected'[c] = connected[c]
               \/ state'[c] = "LOGGED_IN" /\ connected'[c] = TRUE
            /\ Standing' = Standing
         \/ /\ serverPc = "enqueue"
            /\ matchPc = "idle"
            /\ connected'[c] = connected[c]
            /\ Standing' = Standing \cup {s}
            /\ \/ serverPc' = "select" /\ state'[c] = state[c] /\ s \in Standing
               \/ /\ serverPc' = "confirm"
                  /\ Served(s)'
                  /\ state'[c] = "IN_MATCHMAKING_QUEUE"
         \/ /\ serverPc = "confirm"
            /\ connected'[c] = connected[c]
            /\ Standing' = Standing
            /\ \/ serverPc' = "select" /\ state'[c] = state[c]
               \/ serverPc' = "leave" /\ Served(s)' /\ state'[c] = "LOGGED_IN"
         \/ /\ serverPc = "leave"
            /\ serverPc' = "select"
            /\ state'[c] = state[c]
            /\ connected'[c] = connected[c]
            /\ Standing' = Standing \ {s}
<1> USE DEF Continue, Finish
<1>0. /\ s = serving
      /\ c = Session
      /\ c \in Memory
      /\ state \in [Memory -> ClientState]
      /\ connected \in [Memory -> BOOLEAN]
      /\ UNCHANGED matchVars
      /\ queueMutex = "free" => matchPc = "idle"
  BY OwnHasSession
  DEF Served, Session, Inv, TypeOK, SessionsTypeOK, ServerStep, Control
<1>1. ASSUME UNCHANGED matchmakingQueue
      PROVE  Standing' = Standing
  BY <1>0, <1>1, StandingUnchanged DEF matchVars
<1>2. CASE GreetClient
  BY <1>0, <1>1, <1>2 DEF GreetClient
<1>3. ASSUME NEW valid \in BOOLEAN, Authenticate(valid)
      PROVE  /\ serverPc = "authenticate"
             /\ serverPc' = "select"
             /\ \/ state'[c] = state[c] /\ connected'[c] = connected[c]
                \/ state'[c] = "LOGGED_IN" /\ connected'[c] = TRUE
             /\ Standing' = Standing
  BY <1>0, <1>1, <1>3 DEF Authenticate
<1>4. CASE AddClientToQueue
  <2>1. Standing' = Standing \cup {s}
    BY <1>0, <1>4, JoinStanding
  <2>2. Contains(matchmakingQueue, serving) => serving \in ToSet(matchmakingQueue)
    BY DEF Contains, ToSet, Inv, TypeOK, SessionsTypeOK
  <2> QED
    BY <1>0, <1>4, <2>1, <2>2 DEF AddClientToQueue, Served, Standing
<1>5. ASSUME NEW done \in BOOLEAN, ConfirmQueued(done)
      PROVE  /\ serverPc = "confirm"
             /\ connected'[c] = connected[c]
             /\ Standing' = Standing
             /\ \/ serverPc' = "select" /\ state'[c] = state[c]
                \/ serverPc' = "leave" /\ Served(s)' /\ state'[c] = "LOGGED_IN"
  BY <1>0, <1>1, <1>5 DEF ConfirmQueued, Served
<1>6. CASE LeaveQueue
  <2>1. Standing' = Standing \ {s}
    BY <1>0, <1>6, LeaveStanding
  <2> QED
    BY <1>0, <1>6, <2>1 DEF LeaveQueue
<1>7. CASE RemoveClient
  BY <1>0, <1>7
  DEF RemoveClient, Book, SessionsTrackClients, OwnClients, Own, HasSession
<1> QED
  BY <1>2, <1>3, <1>4, <1>5, <1>6, <1>7 DEF ServerContinues

LEMMA ServerOthers ==
  ASSUME Inv, Book, ServerStep, NEW s \in OwnClients, s \in OwnClients', ~Served(s)
  PROVE  /\ s \in Standing' <=> s \in Standing
         /\ Served(s)' => \/ /\ serverPc' = "authenticate"
                             /\ StateOf(s) = "AWAITING_CREDENTIALS"
                          \/ /\ serverPc' = "enqueue"
                             /\ StateOf(s) = "LOGGED_IN"
<1> USE DEF Handle, Continue, Finish, Served
<1>0. UNCHANGED matchVars
  BY DEF ServerStep
<1>1. ASSUME UNCHANGED matchmakingQueue
      PROVE  Standing' = Standing
  BY <1>0, <1>1, StandingUnchanged DEF matchVars
<1>2. CASE AddClientToQueue
  BY <1>0, <1>2, JoinStanding DEF AddClientToQueue
<1>3. CASE LeaveQueue
  BY <1>0, <1>3, LeaveStanding DEF LeaveQueue
<1>4. CASE \/ GreetClient
           \/ \E valid \in BOOLEAN : Authenticate(valid)
           \/ \E done \in BOOLEAN : ConfirmQueued(done)
           \/ RemoveClient
  BY <1>1, <1>4 DEF GreetClient, Authenticate, ConfirmQueued, RemoveClient
<1>5. ASSUME NEW r \in Sockets, NEW m \in Memory, AcceptNewClient(r, m)
      PROVE  Standing' = Standing /\ ~Served(s)'
  BY <1>1, <1>5, OwnHasSession DEF AcceptNewClient, Inv
<1>6. ASSUME NEW r \in Sockets, ReceiveAuthRequest(r) \/ ReceiveMatchmakingRequest(r)
      PROVE  /\ Standing' = Standing
             /\ Served(s)' => \/ /\ serverPc' = "authenticate"
                                 /\ StateOf(s) = "AWAITING_CREDENTIALS"
                              \/ /\ serverPc' = "enqueue"
                                 /\ StateOf(s) = "LOGGED_IN"
  BY <1>1, <1>6 DEF ReceiveAuthRequest, ReceiveMatchmakingRequest, sessionVars, StateOf
<1>7. ASSUME NEW r \in Sockets, HandleClientDisconnected(r)
      PROVE  Standing' = Standing /\ ~Served(s)'
  BY <1>1, <1>7
  DEF HandleClientDisconnected, OwnClients, Own, HasSession, Inv, TypeOK, SessionsTypeOK
<1> QED
  BY <1>2, <1>3, <1>4, <1>5, <1>6, <1>7
  DEF ServerStep, ServerNext, ServerContinues, ServerStarts

-----------------------------------------------------------------------------
(***************************************************************************)
(* The lobby.  Whoever of the own clients is in one of its states, in line *)
(* or in a handler that puts him there has authenticated.  In line he      *)
(* waits, unless his handler is about to take his entry out; there he is   *)
(* not matched; and the handlers that set a state and leave the queue as   *)
(* it is run for somebody who is neither in line nor matched, so that the  *)
(* matchmaking thread does not match him meanwhile.                        *)
(***************************************************************************)
Fine(s) ==
  /\ InLobby(s) => connected[clientSessions[s]]
  /\ s \in Standing =>
       /\ connected[clientSessions[s]]
       /\ StateOf(s) # "MATCHED"
       /\ StateOf(s) = "IN_MATCHMAKING_QUEUE" \/ (Served(s) /\ serverPc = "leave")
  /\ Served(s) /\ serverPc \in {"enqueue", "confirm", "leave"} =>
       connected[clientSessions[s]]
  /\ Served(s) /\ serverPc \in {"greet", "authenticate", "enqueue"} =>
       s \notin Standing /\ StateOf(s) # "MATCHED"

Lobby == \A s \in OwnClients : Fine(s)

LEMMA LobbyByMatch ==
  ASSUME Inv, Book, HandKnown, Lobby, MatchStep
  PROVE  /\ Lobby'
         /\ \A s \in OwnClients : StateOf(s) = "MATCHED" => StateOf(s)' = "MATCHED"
<1>0. UNCHANGED <<clientSessions, connected, serverPc, serving, OwnClients>>
  BY MatchFrame DEF bookVars, serverVars
<1> SUFFICES ASSUME NEW s \in OwnClients
             PROVE  /\ Fine(s)'
                    /\ StateOf(s) = "MATCHED" => StateOf(s)' = "MATCHED"
  BY <1>0 DEF Lobby
<1>1. Fine(s) /\ Standing' \subseteq Standing
  BY MatchStanding DEF Lobby
<1>2. CASE StateOf(s)' = StateOf(s)
  BY <1>0, <1>1, <1>2 DEF Fine, InLobby, Served
<1>3. CASE /\ GiveBack
           /\ s \in {socket1, socket2}
           /\ StateOf(s) \notin {"IN_MATCHMAKING_QUEUE", "MATCHED"}
           /\ StateOf(s)' = "LOGGED_IN"
  <2>1. s \in Standing /\ matchPc # "idle"
    BY <1>3 DEF GiveBack, Return, Standing, InHand
  <2>2. s \notin Standing'
    <3>1. /\ s = socket1 => clientSessions[s] = session1
          /\ s = socket2 => clientSessions[s] = session2
      BY <2>1 DEF HandKnown
    <3> QED
      BY <1>3, <3>1, MatchStanding DEF StateOf, Waits
  <2> QED
    BY <1>0, <1>1, <1>3, <2>1, <2>2 DEF Fine, Served
<1>4. CASE /\ SettleMatch
           /\ s \in {socket1, socket2}
           /\ StateOf(s)' = IF sent THEN "MATCHED" ELSE "IN_MATCHMAKING_QUEUE"
  <2>1. s \in Standing
    BY <1>4 DEF SettleMatch, Return, ReturnPair, Standing, InHand
  <2>2. sent => s \notin Standing'
    BY <1>4, MatchStanding
  <2> QED
    BY <1>0, <1>1, <1>4, <2>1, <2>2 DEF Fine, Served
<1> QED
  BY <1>2, <1>3, <1>4, MatchStates

LEMMA LobbyByServer ==
  ASSUME Inv, Book, Lobby, ServerStep, NEW s \in OwnClients'
  PROVE  /\ Fine(s)'
         /\ s \in OwnClients /\ StateOf(s) = "MATCHED" =>
              \/ StateOf(s)' = "MATCHED"
              \/ Served(s) /\ serverPc = "confirm" /\ serverPc' = "leave"
<1>1. CASE /\ s \notin clients
           /\ s \notin Standing
           /\ Standing' = Standing
           /\ serverPc' = "greet"
           /\ state'[clientSessions'[s]] = "CONNECTED"
  <2>1. s \notin OwnClients
    BY <1>1, OwnHasSession DEF Inv
  <2> QED
    BY <1>1, <2>1 DEF Fine, InLobby, StateOf, Served
<1>2. ASSUME s \in OwnClients,
             clientSessions'[s] = clientSessions[s],
             ServerContinues, Served(s)
      PROVE  /\ Fine(s)'
             /\ StateOf(s) = "MATCHED" =>
                  \/ StateOf(s)' = "MATCHED"
                  \/ Served(s) /\ serverPc = "confirm" /\ serverPc' = "leave"
  <2> DEFINE c == clientSessions[s]
  <2>1. Fine(s)
    BY <1>2 DEF Lobby
  <2>2. CASE serverPc' = "select" /\ state'[c] = state[c] /\ connected'[c] = connected[c]
    <3>1. s \in Standing' => s \in Standing /\ serverPc # "leave"
      <4>1. \/ Standing' = Standing /\ serverPc # "leave"
            \/ Standing' = Standing \ {s}
            \/ serverPc = "enqueue" /\ s \in Standing
        BY <1>2, <2>2, ServerServes
      <4> QED
        BY <1>2, <2>1, <4>1 DEF Fine
    <3> QED
      BY <1>2, <2>1, <2>2, <3>1 DEF Fine, InLobby, StateOf, Served
  <2>3. CASE serverPc' = "select" /\ (state'[c] # state[c] \/ connected'[c] # connected[c])
    <3>1. /\ \/ serverPc = "greet" /\ state'[c] = "AWAITING_CREDENTIALS"
             \/ serverPc = "authenticate" /\ connected'[c] = TRUE
          /\ state'[c] # "MATCHED"
          /\ Standing' = Standing
      BY <1>2, <2>3, ServerServes
    <3> QED
      BY <1>2, <2>1, <2>3, <3>1 DEF Fine, InLobby, StateOf, Served
  <2>4. CASE serverPc' \in {"confirm", "leave"}
    <3>1. /\ serverPc \in {"enqueue", "confirm"}
          /\ connected'[c] = connected[c]
          /\ \/ /\ serverPc = "enqueue"
                /\ serverPc' = "confirm"
                /\ state'[c] = "IN_MATCHMAKING_QUEUE"
             \/ /\ serverPc = "confirm"
                /\ serverPc' = "leave"
                /\ Served(s)'
                /\ state'[c] = "LOGGED_IN"
      BY <1>2, <2>4, ServerServes
    <3> QED
      BY <1>2, <2>1, <2>4, <3>1 DEF Fine, InLobby, StateOf
  <2> QED
    BY <1>2, <2>2, <2>3, <2>4, ServerServes
<1>3. ASSUME s \in OwnClients,
             clientSessions'[s] = clientSessions[s],
             state'[clientSessions[s]] = state[clientSessions[s]],
             connected'[clientSessions[s]] = connected[clientSessions[s]],
             ~(ServerContinues /\ Served(s))
      PROVE  Fine(s)' /\ StateOf(s)' = StateOf(s)
  <2>1. Fine(s)
    BY <1>3 DEF Lobby
  <2>2. ~Served(s)
    BY <1>3
    DEF Served, ServerStep, ServerNext, ServerStarts, AcceptNewClient,
        ReceiveAuthRequest, ReceiveMatchmakingRequest, HandleClientDisconnected, Handle
  <2> QED
    BY <1>3, <2>1, <2>2, ServerOthers DEF Fine, InLobby, StateOf
<1> QED
  BY <1>1, <1>2, <1>3, ServerKeeps

LEMMA AlwaysLobby == Spec => []Lobby
<1>1. Init => Lobby
  BY DEF Init, SessionsInit, Lobby, OwnClients, Own, HasSession
<1>2. ASSUME Lobby, UNCHANGED vars
      PROVE  Lobby'
  <2>1. Standing' = Standing
    BY <1>2, StandingUnchanged DEF vars, sessionVars, matchVars
  <2> QED
    BY <1>2, <2>1
    DEF Lobby, Fine, InLobby, StateOf, Served, OwnClients, Own, HasSession, vars,
        sessionVars, serverVars
<1>3. Inv /\ Book /\ HandKnown /\ Lobby /\ [Next]_vars => Lobby'
  BY <1>2, LobbyByMatch, LobbyByServer DEF Next, Lobby
<1> QED
  BY <1>1, <1>3, AlwaysHandKnown, AlwaysBook, Invariance, PTL DEF Spec

(* Only the authenticated get into the lobby, whatever memory the others   *)
(* around them have been given.                                            *)
THEOREM LobbyAuthenticated == Spec => []LobbyIsAuthenticated
<1>1. Lobby => LobbyIsAuthenticated
  BY DEF Lobby, Fine, LobbyIsAuthenticated, OwnClients
<1> QED
  BY <1>1, AlwaysLobby, PTL

(* Clients in line are in the state that says so, but for the gap in       *)
(* addClientToQueue.                                                       *)
THEOREM LineIsWaiting == Spec => []InLineIsWaiting
<1>1. Inv /\ Lobby => InLineIsWaiting
  BY StandingIsInLine
  DEF Lobby, Fine, InLineIsWaiting, OwnClients, StateOf, Waits, Served
<1> QED
  BY <1>1, AlwaysLobby, Invariance, PTL

(* Only the failed confirmation of his queue entry takes a match back from *)
(* a player who is still connected.                                        *)
THEOREM MatchIsTakenBackLate == Spec => OnlyLateConfirmationUnmatches
<1> DEFINE Late(s) == serving = s /\ serverPc = "confirm" /\ serverPc' = "leave"
<1>1. ASSUME Inv, Book, HandKnown, Lobby, [Next]_vars,
             NEW s \in Sockets, Own(s), LosesMatch(s)
      PROVE  Late(s)
  <2>1. s \in OwnClients
    BY <1>1 DEF OwnClients
  <2>2. StateOf(s) = "MATCHED" /\ StateOf(s)' # "MATCHED" /\ clientSessions'[s] # NoSession
    BY <1>1 DEF LosesMatch, HasSession
  <2>3. ~UNCHANGED vars
    BY <2>2 DEF vars, sessionVars, StateOf
  <2>4. ~MatchStep
    BY <1>1, <2>1, <2>2, LobbyByMatch
  <2>5. ServerStep
    BY <1>1, <2>3, <2>4 DEF Next
  <2>6. s \in OwnClients'
    BY <1>1, <2>1, <2>2, <2>5, OwnStays
  <2> QED
    BY <1>1, <2>1, <2>2, <2>5, <2>6, LobbyByServer DEF Served
<1>2. Inv /\ Book /\ HandKnown /\ Lobby /\ [Next]_vars
        => [\A s \in Sockets : Own(s) /\ LosesMatch(s) =>
              serving = s /\ serverPc = "confirm" /\ serverPc' = "leave"]_vars
  BY <1>1
<1> QED
  BY <1>2, AlwaysLobby, AlwaysHandKnown, AlwaysBook, Invariance, PTL
  DEF Spec, OnlyLateConfirmationUnmatches

-----------------------------------------------------------------------------
(***************************************************************************)
(* Who waits stands in line.  Two threads put a player back, each where    *)
(* its own send failed: the matchmaking thread into the state of those who *)
(* wait, the server thread out of the queue.  A player whose confirmation  *)
(* fails while his match fails too is left waiting outside the line        *)
(* (MCLostPlayer).  It takes two failures: while a client is joining, his  *)
(* thread accepts and removes nobody, so that the pair in hand has its own *)
(* sessions and a send to it fails only by a fault.                        *)
(***************************************************************************)
Joining ==
  /\ serverPc \in {"enqueue", "confirm", "leave"} => HasSession(serving)
  /\ serverPc \in {"confirm", "leave"} /\ matchPc # "idle" =>
       /\ clientSessions[socket1] = session1
       /\ clientSessions[socket2] = session2
  /\ serverPc = "confirm" /\ matchPc \in {"tell2", "settle"} /\ ~sent =>
       faults >= 1

LeavingClean ==
  serverPc = "leave" =>
    /\ faults >= 1
    /\ state[Session] # "IN_MATCHMAKING_QUEUE"
    /\ matchPc \in {"tell2", "settle"} => sent

WaitingStands ==
  \A s \in OwnClients : StateOf(s) = "IN_MATCHMAKING_QUEUE" => s \in Standing

OneFault == Joining /\ (faults <= 1 => LeavingClean /\ WaitingStands)

(* To a client with a session a send fails only by a fault.                *)
LEMMA SendToSession ==
  ASSUME SessionsTrackClients, NEW s \in Sockets, HasSession(s),
         NEW done \in BOOLEAN, SendToClient(s, done)
  PROVE  IF done THEN faults' = faults ELSE faults' = faults + 1
BY DEF SessionsTrackClients, SendToClient, Fault

LEMMA WaitingStandsByMatch ==
  ASSUME Inv, Book, HandKnown, WaitingStands, MatchStep
  PROVE  WaitingStands'
<1> SUFFICES ASSUME NEW s \in OwnClients, StateOf(s)' = "IN_MATCHMAKING_QUEUE"
             PROVE  s \in Standing'
  BY MatchFrame DEF WaitingStands
<1>1. s \in Standing
  <2>1. SettleMatch /\ s \in {socket1, socket2} => s \in Standing
    BY DEF SettleMatch, Return, ReturnPair, Standing, InHand
  <2> QED
    BY <2>1, MatchStates DEF WaitingStands
<1>2. HasSession(s)
  BY DEF OwnClients, Own
<1>3. ASSUME GiveBack
      PROVE  /\ s = socket1 => Waits(session1)
             /\ s = socket2 => Waits(session2)
  <2>1. StateOf(s) = "IN_MATCHMAKING_QUEUE"
    BY <1>3, MatchStates DEF GiveBack, SettleMatch, Return, ReturnPair
  <2>2. matchPc # "idle"
    BY <1>3 DEF GiveBack, Return
  <2> QED
    BY <2>1, <2>2 DEF HandKnown, StateOf, Waits
<1>4. ~(SettleMatch /\ sent /\ s \in {socket1, socket2})
  BY MatchStates DEF GiveBack, SettleMatch, Return, ReturnPair
<1> QED
  BY <1>1, <1>2, <1>3, <1>4, MatchStanding

LEMMA OneFaultByMatch ==
  ASSUME Inv, Book, HandKnown, OneFault, MatchStep
  PROVE  OneFault'
<1>0. /\ UNCHANGED <<clientSessions, socketOf, serverPc, serving>>
      /\ state \in [Memory -> ClientState]
      /\ faults \in Nat
      /\ sent \in BOOLEAN
      /\ serverPc # "select" => serving \in Sockets
      /\ matchPc # "idle" => /\ socket1 \in Sockets
                             /\ socket2 \in Sockets
                             /\ session1 \in Memory
                             /\ session2 \in Memory
  BY MatchFrame, SessionsAssumption
  DEF bookVars, serverVars, Inv, TypeOK, SessionsTypeOK, MatchTypeOK, Control
<1>1. faults' \in Nat /\ faults <= faults'
  BY <1>0
  DEF MatchStep, MatchNext, TooFewWaiting, TakePair, DropMissing, CheckStates,
      GiveBack, NotifyDedicated, TellPlayer1, TellPlayer2, Tell, SettleMatch,
      sessionVars, SendToClient, Fault
<1>2. WaitingStands => WaitingStands'
  BY WaitingStandsByMatch
<1>3. ASSUME Joining', faults' <= 1 /\ LeavingClean => LeavingClean'
      PROVE  OneFault'
  BY <1>0, <1>1, <1>2, <1>3 DEF OneFault
<1>4. serverPc = "leave" => Session \in Memory
  BY <1>0 DEF OneFault, Joining, HasSession, Session, Inv, TypeOK, SessionsTypeOK
<1>5. CASE \/ TooFewWaiting \/ TakePair \/ DropMissing \/ CheckStates
           \/ \E notified \in BOOLEAN : NotifyDedicated(notified)
  <2>1. /\ UNCHANGED state
        /\ matchPc' \notin {"tell2", "settle"} \/ UNCHANGED <<matchPc, sent>>
        /\ matchPc' # "idle" =>
             \/ UNCHANGED hand /\ matchPc # "idle"
             \/ /\ clientSessions[socket1'] = session1'
                /\ clientSessions[socket2'] = session2'
    BY <1>5
    DEF TooFewWaiting, TakePair, DropMissing, CheckStates, NotifyDedicated, Advance,
        ReturnPair, Return, sessionVars, matchVars
  <2>2. Joining'
    BY <1>0, <1>1, <2>1 DEF OneFault, Joining, hand, HasSession
  <2>3. LeavingClean => LeavingClean'
    BY <1>0, <1>1, <2>1 DEF LeavingClean, Session
  <2> QED
    BY <1>3, <2>2, <2>3
<1>6. CASE GiveBack
  <2>1. /\ matchPc' = "idle"
        /\ \A m \in Memory : state'[m] = "IN_MATCHMAKING_QUEUE" => state'[m] = state[m]
    BY <1>0, <1>6 DEF GiveBack, Return
  <2>2. Joining'
    BY <1>0, <1>1, <2>1 DEF OneFault, Joining, HasSession
  <2>3. LeavingClean => LeavingClean'
    BY <1>0, <1>1, <1>4, <2>1 DEF LeavingClean, Session
  <2> QED
    BY <1>3, <2>2, <2>3
<1>7. ASSUME NEW s \in {socket1, socket2}, NEW m, clientSessions[s] = m,
             matchPc # "idle", m \in Memory,
             NEW port, NEW one, NEW done \in BOOLEAN, Tell(m, port, one, done)
      PROVE  IF done THEN faults' = faults ELSE faults' = faults + 1
  <2>1. s \in Sockets /\ HasSession(s) /\ SessionsTrackClients
    BY <1>0, <1>7, SessionsAssumption DEF HasSession, Book
  <2>2. socketOf[m] = s
    BY <1>7, <2>1 DEF SessionsTrackClients
  <2> QED
    BY <1>7, <2>1, <2>2, SendToSession DEF Tell
<1>8. ASSUME NEW done \in BOOLEAN, TellPlayer1(done)
      PROVE  OneFault'
  <2>1. /\ matchPc = "tell1"
        /\ matchPc' = "tell2"
        /\ sent' = done
        /\ UNCHANGED <<hand, state>>
        /\ Tell(session1, game.port1, TRUE, done)
    BY <1>8 DEF TellPlayer1, Advance, Tell
  <2>2. serverPc \in {"confirm", "leave"} => (~done => faults' = faults + 1)
    BY <1>0, <1>7, <2>1 DEF OneFault, Joining
  <2>3. Joining'
    BY <1>0, <1>1, <2>1, <2>2 DEF OneFault, Joining, hand, HasSession
  <2>4. faults' <= 1 /\ LeavingClean => LeavingClean'
    BY <1>0, <1>1, <2>1, <2>2 DEF LeavingClean, Session
  <2> QED
    BY <1>3, <2>3, <2>4
<1>9. ASSUME NEW done \in BOOLEAN, TellPlayer2(done)
      PROVE  OneFault'
  <2>1. /\ matchPc = "tell2"
        /\ matchPc' = "settle"
        /\ sent' = (sent /\ done)
        /\ UNCHANGED <<hand, state>>
        /\ Tell(session2, game.port2, FALSE, done)
    BY <1>9 DEF TellPlayer2, Advance, Tell
  <2>2. serverPc \in {"confirm", "leave"} => (~done => faults' = faults + 1)
    BY <1>0, <1>7, <2>1 DEF OneFault, Joining
  <2>3. Joining'
    BY <1>0, <1>1, <2>1, <2>2 DEF OneFault, Joining, hand, HasSession
  <2>4. faults' <= 1 /\ LeavingClean => LeavingClean'
    BY <1>0, <1>1, <2>1, <2>2 DEF LeavingClean, Session
  <2> QED
    BY <1>3, <2>3, <2>4
<1>10. CASE SettleMatch
  <2>1. /\ matchPc = "settle"
        /\ matchPc' = "idle"
        /\ sent => \A m \in Memory : state'[m] \in {state[m], "MATCHED"}
    BY <1>0, <1>10 DEF SettleMatch, Return, ReturnPair
  <2>2. Joining'
    BY <1>0, <1>1, <2>1 DEF OneFault, Joining, HasSession
  <2>3. LeavingClean => LeavingClean'
    BY <1>0, <1>1, <1>4, <2>1 DEF LeavingClean, Session
  <2> QED
    BY <1>3, <2>2, <2>3
<1> QED
  BY <1>5, <1>6, <1>8, <1>9, <1>10 DEF MatchStep, MatchNext

LEMMA WaitingStandsByServer ==
  ASSUME Inv, Book, Joining, LeavingClean, WaitingStands, ServerStep
  PROVE  WaitingStands'
<1> SUFFICES ASSUME NEW s \in OwnClients',
                    state'[clientSessions'[s]] = "IN_MATCHMAKING_QUEUE"
             PROVE  s \in Standing'
  BY DEF WaitingStands, StateOf
<1>1. /\ s \in OwnClients
      /\ clientSessions'[s] = clientSessions[s]
      /\ \/ Served(s) /\ ServerContinues
         \/ state'[clientSessions[s]] = state[clientSessions[s]]
  BY ServerKeeps
<1>2. CASE Served(s) /\ ServerContinues
  <2>1. \/ s \in Standing'
        \/ /\ Standing' = Standing
           /\ state'[clientSessions[s]] = state[clientSessions[s]]
        \/ /\ serverPc = "leave"
           /\ state'[clientSessions[s]] = state[clientSessions[s]]
    BY <1>1, <1>2, ServerServes
  <2> QED
    BY <1>1, <1>2, <2>1 DEF LeavingClean, WaitingStands, StateOf, Served, Session
<1>3. CASE /\ ~(Served(s) /\ ServerContinues)
           /\ state'[clientSessions[s]] = state[clientSessions[s]]
  <2>1. ~Served(s)
    BY <1>3
    DEF Served, ServerStep, ServerNext, ServerStarts, AcceptNewClient,
        ReceiveAuthRequest, ReceiveMatchmakingRequest, HandleClientDisconnected, Handle
  <2> QED
    BY <1>1, <1>3, <2>1, ServerOthers DEF WaitingStands, StateOf
<1> QED
  BY <1>1, <1>2, <1>3

LEMMA OneFaultByServer ==
  ASSUME Inv, Book, OneFault, ServerStep
  PROVE  OneFault'
<1> USE DEF Handle, Continue, Finish
<1>0. /\ UNCHANGED <<matchPc, socket1, socket2, session1, session2, sent>>
      /\ state \in [Memory -> ClientState]
      /\ faults \in Nat
      /\ faults' \in Nat
      /\ queueMutex = "free" => matchPc = "idle"
  BY ServerTypes, SessionsAssumption
  DEF ServerStep, matchVars, hand, Inv, TypeOK, SessionsTypeOK, Control
<1>1. CASE ServerStarts
  <2>1. /\ UNCHANGED faults
        /\ serverPc' \notin {"confirm", "leave"}
        /\ serverPc' = "enqueue" => HasSession(serving)'
    BY <1>1
    DEF ServerStarts, AcceptNewClient, ReceiveAuthRequest, ReceiveMatchmakingRequest,
        HandleClientDisconnected, sessionVars, HasSession
  <2>2. serverPc = "select"
    BY <1>1
    DEF ServerStarts, AcceptNewClient, ReceiveAuthRequest, ReceiveMatchmakingRequest,
        HandleClientDisconnected
  <2>3. Joining' /\ LeavingClean'
    BY <2>1 DEF Joining, LeavingClean
  <2>4. faults <= 1 => WaitingStands'
    BY <2>2, WaitingStandsByServer DEF OneFault
  <2> QED
    BY <2>1, <2>3, <2>4 DEF OneFault
<1>2. CASE \/ GreetClient
           \/ \E valid \in BOOLEAN : Authenticate(valid)
           \/ LeaveQueue
           \/ RemoveClient
  <2>1. UNCHANGED faults /\ serverPc' = "select"
    BY <1>2 DEF GreetClient, Authenticate, LeaveQueue, RemoveClient
  <2>2. Joining' /\ LeavingClean'
    BY <2>1 DEF Joining, LeavingClean
  <2>3. faults <= 1 => WaitingStands'
    BY WaitingStandsByServer DEF OneFault
  <2> QED
    BY <2>1, <2>2, <2>3 DEF OneFault
<1>3. CASE AddClientToQueue
  <2>1. /\ UNCHANGED <<faults, clientSessions>>
        /\ matchPc = "idle"
        /\ serverPc = "enqueue"
        /\ serverPc' = "select" \/ (serverPc' = "confirm" /\ serving' = serving)
    BY <1>0, <1>3 DEF AddClientToQueue, bookVars
  <2>2. Joining' /\ LeavingClean'
    BY <1>0, <2>1 DEF OneFault, Joining, LeavingClean, HasSession
  <2>3. faults <= 1 => WaitingStands'
    BY WaitingStandsByServer DEF OneFault
  <2> QED
    BY <2>1, <2>2, <2>3 DEF OneFault
<1>4. ASSUME NEW done \in BOOLEAN, ConfirmQueued(done)
      PROVE  OneFault'
  <2>1. /\ serverPc = "confirm"
        /\ UNCHANGED clientSessions
        /\ SendToClient(serving, done)
        /\ serving \in Sockets
        /\ HasSession(serving)
    BY <1>4 DEF ConfirmQueued, OneFault, Joining, Inv, Control, bookVars
  <2>2. IF done THEN faults' = faults ELSE faults' = faults + 1
    BY <2>1, SendToSession DEF Book
  <2>3. CASE done
    <3>1. serverPc' = "select"
      BY <1>4, <2>3 DEF ConfirmQueued
    <3>2. Joining' /\ LeavingClean'
      BY <3>1 DEF Joining, LeavingClean
    <3>3. faults <= 1 => WaitingStands'
      BY WaitingStandsByServer DEF OneFault
    <3> QED
      BY <2>2, <2>3, <3>2, <3>3 DEF OneFault
  <2>4. CASE ~done
    <3>1. /\ serverPc' = "leave"
          /\ serving' = serving
          /\ state' = [state EXCEPT ![Session] = "LOGGED_IN"]
      BY <1>4, <2>4 DEF ConfirmQueued
    <3>2. Joining'
      BY <1>0, <2>1, <3>1 DEF OneFault, Joining, HasSession
    <3>3. faults' <= 1 => faults = 0 /\ faults' = 1
      BY <1>0, <2>2, <2>4
    <3>4. faults = 0 /\ faults' = 1 => LeavingClean'
      <4>1. clientSessions[serving] \in Memory
        BY <2>1 DEF HasSession, Inv, TypeOK, SessionsTypeOK
      <4>2. state'[clientSessions'[serving']] # "IN_MATCHMAKING_QUEUE"
        BY <1>0, <2>1, <3>1, <4>1 DEF Session
      <4> QED
        BY <1>0, <2>1, <4>2 DEF OneFault, Joining, LeavingClean, Session
    <3>5. faults = 0 => WaitingStands'
      BY WaitingStandsByServer DEF OneFault
    <3> QED
      BY <3>2, <3>3, <3>4, <3>5 DEF OneFault
  <2> QED
    BY <2>3, <2>4
<1> QED
  BY <1>1, <1>2, <1>3, <1>4 DEF ServerStep, ServerNext, ServerContinues

LEMMA AlwaysOneFault == Spec => []OneFault
<1>1. Init => OneFault
  BY DEF Init, SessionsInit, ServerInit, MatchInit, OneFault, Joining, LeavingClean,
         WaitingStands, OwnClients, Own, HasSession
<1>2. ASSUME OneFault, UNCHANGED vars
      PROVE  OneFault'
  <2>1. Standing' = Standing
    BY <1>2, StandingUnchanged DEF vars, sessionVars, matchVars
  <2> QED
    BY <1>2, <2>1
    DEF OneFault, Joining, LeavingClean, WaitingStands, OwnClients, Own, HasSession,
        StateOf, Session, vars, sessionVars, serverVars, matchVars, hand
<1>3. Inv /\ Book /\ HandKnown /\ OneFault /\ [Next]_vars => OneFault'
  BY <1>2, OneFaultByMatch, OneFaultByServer DEF Next
<1> QED
  BY <1>1, <1>3, AlwaysHandKnown, AlwaysBook, Invariance, PTL DEF Spec

(* Until the second failed send or connect, everybody in the state of      *)
(* those who wait is in line, unless he came into what matchmaking still   *)
(* referred to.                                                            *)
THEOREM WaitingStaysInLine == Spec => []OneFaultLosesNobody
<1>1. Inv /\ OneFault => OneFaultLosesNobody
  BY StandingIsInLine
  DEF OneFault, WaitingStands, OneFaultLosesNobody, OwnClients, StateOf, Waits
<1> QED
  BY <1>1, AlwaysOneFault, Invariance, PTL

-----------------------------------------------------------------------------
(***************************************************************************)
(* What the players are told.  From the announcement of a game to its end  *)
(* the sessions in hand name the connections that the game was announced   *)
(* for, or an heir's; so each S_MATCH_FOUND reaches the player the game    *)
(* has for that side, or an heir of his, and of the two who are matched    *)
(* when both have been sent the own clients have had theirs.               *)
(***************************************************************************)
ForHand ==
  matchPc \in {"tell1", "tell2", "settle"} =>
    /\ game \in games
    /\ remote[socketOf[session1]] \in heirs \cup {game.peer1}
    /\ remote[socketOf[session2]] \in heirs \cup {game.peer2}

(* The packet for one player of the game, whose session is at m.           *)
Packet(t, p, one, m) ==
  /\ t.room = game.room
  /\ t.playerOne = one
  /\ Reached(p, t)
  /\ \A s \in OwnClients : clientSessions[s] = m => t.peer = remote[s]

SentSoFar ==
  /\ matchPc \in {"tell2", "settle"} /\ sent =>
       \E t \in tickets : Packet(t, game.peer1, TRUE, session1)
  /\ matchPc = "settle" /\ sent =>
       \E t \in tickets : Packet(t, game.peer2, FALSE, session2)

Told == ForHand /\ SentSoFar /\ TicketsReachTheirPlayers /\ MatchedPairTold

(* What a matched player was told.                                         *)
PairTold(s) ==
  \E g \in games, t, u \in tickets :
    /\ t.room = g.room /\ t.playerOne  /\ Reached(g.peer1, t)
    /\ u.room = g.room /\ ~u.playerOne /\ Reached(g.peer2, u)
    /\ remote[s] \in {t.peer, u.peer}

LEMMA ToldByServer ==
  ASSUME Inv, Book, HandKnown, Told, ServerStep
  PROVE  Told'
<1>0. /\ UNCHANGED <<matchPc, socket1, socket2, session1, session2, game, sent, games, tickets>>
      /\ heirs \subseteq heirs'
      /\ matchPc # "idle" => session1 \in Memory /\ session2 \in Memory
  BY DEF ServerStep, matchVars, hand, RecordHeirs, Inv, Control
<1>1. ASSUME NEW m \in {session1, session2}, matchPc # "idle"
      PROVE  \/ remote'[socketOf'[m]] \in heirs'
             \/ remote'[socketOf'[m]] = remote[socketOf[m]]
  <2>0. socketOf[m] \in Sockets /\ m \in Memory
    BY <1>0, <1>1 DEF HandKnown
  <2>1. CASE UNCHANGED <<remote, socketOf>>
    BY <2>1
  <2>2. ASSUME NEW r \in Sockets, NEW n \in Memory, AcceptNewClient(r, n)
        PROVE  \/ remote'[socketOf'[m]] \in heirs'
               \/ remote'[socketOf'[m]] = remote[socketOf[m]]
    <3>0. /\ remote' = [remote EXCEPT ![r] = accepted + 1]
          /\ socketOf' = [socketOf EXCEPT ![n] = r]
          /\ remote \in [Sockets -> Peers \cup {NoPeer}]
          /\ socketOf \in [Memory -> Sockets \cup {NoSocket}]
      BY <2>2 DEF AcceptNewClient, Inv, TypeOK, SessionsTypeOK
    <3>1. CASE remote'[r] \notin heirs'
      <4>1. n # m /\ r # socketOf[m]
        BY <1>1, <2>2, <3>1, NewcomerOwn
      <4> QED
        BY <2>0, <3>0, <4>1
    <3>2. CASE remote'[r] \in heirs'
      BY <2>0, <3>0, <3>2
    <3> QED
      BY <3>1, <3>2
  <2>3. \/ UNCHANGED <<remote, socketOf>>
        \/ \E r \in Sockets, n \in Memory : AcceptNewClient(r, n)
    BY DEF ServerStep, ServerNext, ServerContinues, ServerStarts, GreetClient,
           Authenticate, AddClientToQueue, ConfirmQueued, LeaveQueue, RemoveClient,
           ReceiveAuthRequest, ReceiveMatchmakingRequest, HandleClientDisconnected,
           bookVars, sessionVars
  <2> QED
    BY <2>1, <2>2, <2>3
<1>2. ForHand'
  BY <1>0, <1>1 DEF Told, ForHand
<1>3. ASSUME NEW t \in tickets, NEW p, NEW one, NEW m \in {session1, session2},
             matchPc # "idle", Packet(t, p, one, m)
      PROVE  /\ t.room = game.room
             /\ t.playerOne = one
             /\ t.peer \in {p} \cup heirs'
             /\ \A s \in OwnClients' : clientSessions'[s] = m => t.peer = remote'[s]
  <2>1. ASSUME NEW s \in OwnClients', clientSessions'[s] = m
        PROVE  s \in OwnClients /\ clientSessions[s] = m /\ remote'[s] = remote[s]
    BY <1>3, <2>1, ServerKeeps
  <2> QED
    BY <1>0, <1>3, <2>1 DEF Packet, Reached
<1>4. SentSoFar'
  <2>1. ASSUME matchPc \in {"tell2", "settle"}, sent
        PROVE  \E t \in tickets' : Packet(t, game.peer1, TRUE, session1)'
    <3>1. PICK t \in tickets : Packet(t, game.peer1, TRUE, session1)
      BY <2>1 DEF Told, SentSoFar
    <3>2. /\ t.room = game.room
          /\ t.playerOne = TRUE
          /\ t.peer \in {game.peer1} \cup heirs'
          /\ \A s \in OwnClients' : clientSessions'[s] = session1 => t.peer = remote'[s]
      BY <1>3, <2>1, <3>1
    <3> QED
      BY <1>0, <3>2 DEF Packet, Reached
  <2>2. ASSUME matchPc = "settle", sent
        PROVE  \E t \in tickets' : Packet(t, game.peer2, FALSE, session2)'
    <3>1. PICK t \in tickets : Packet(t, game.peer2, FALSE, session2)
      BY <2>2 DEF Told, SentSoFar
    <3>2. /\ t.room = game.room
          /\ t.playerOne = FALSE
          /\ t.peer \in {game.peer2} \cup heirs'
          /\ \A s \in OwnClients' : clientSessions'[s] = session2 => t.peer = remote'[s]
      BY <1>3, <2>2, <3>1
    <3> QED
      BY <1>0, <3>2 DEF Packet, Reached
  <2> QED
    BY <1>0, <2>1, <2>2 DEF SentSoFar
<1>5. TicketsReachTheirPlayers'
  BY <1>0 DEF Told, TicketsReachTheirPlayers, Backs
<1>6. MatchedPairTold'
  <2> SUFFICES ASSUME NEW s \in OwnClients', state'[clientSessions'[s]] = "MATCHED"
               PROVE  PairTold(s)'
    BY DEF MatchedPairTold, PairTold, OwnClients, StateOf
  <2>1. /\ s \in OwnClients
        /\ clientSessions'[s] = clientSessions[s]
        /\ remote'[s] = remote[s]
        /\ \/ Served(s) /\ ServerContinues
           \/ state'[clientSessions[s]] = state[clientSessions[s]]
    BY ServerKeeps
  <2>2. state[clientSessions[s]] = "MATCHED"
    BY <2>1, ServerServes
  <2>3. PairTold(s)
    BY <2>1, <2>2 DEF Told, MatchedPairTold, PairTold, OwnClients, StateOf
  <2> QED
    BY <1>0, <2>1, <2>3 DEF PairTold, Reached
<1> QED
  BY <1>2, <1>4, <1>5, <1>6 DEF Told

LEMMA ToldByMatch ==
  ASSUME Inv, Book, HandKnown, Told, MatchStep
  PROVE  Told'
<1>0. UNCHANGED <<remote, clientSessions, socketOf, peer, heirs, OwnClients>>
  BY MatchFrame DEF bookVars
<1>1. ASSUME games \subseteq games', UNCHANGED tickets,
             \A s \in OwnClients : StateOf(s)' = "MATCHED" => StateOf(s) = "MATCHED"
      PROVE  TicketsReachTheirPlayers' /\ MatchedPairTold'
  <2>1. TicketsReachTheirPlayers'
    BY <1>0, <1>1 DEF Told, TicketsReachTheirPlayers, Backs
  <2>2. MatchedPairTold'
    <3> SUFFICES ASSUME NEW s \in OwnClients', StateOf(s)' = "MATCHED"
                 PROVE  PairTold(s)'
      BY DEF MatchedPairTold, PairTold, OwnClients
    <3>1. PairTold(s)
      BY <1>0, <1>1 DEF Told, MatchedPairTold, PairTold, OwnClients
    <3> QED
      BY <1>0, <1>1, <3>1 DEF PairTold, Reached
  <2> QED
    BY <2>1, <2>2
<1>2. CASE TooFewWaiting \/ TakePair \/ DropMissing \/ CheckStates \/ GiveBack
  <2>1. /\ UNCHANGED <<games, tickets>>
        /\ matchPc' \notin {"tell1", "tell2", "settle"}
        /\ ~SettleMatch
    BY <1>2
    DEF TooFewWaiting, TakePair, DropMissing, CheckStates, GiveBack, Advance, Return,
        SettleMatch, ReturnPair, matchVars
  <2>2. TicketsReachTheirPlayers' /\ MatchedPairTold'
    BY <1>1, <2>1, MatchStates
  <2> QED
    BY <2>1, <2>2 DEF Told, ForHand, SentSoFar
<1>3. ASSUME NEW notified \in BOOLEAN, NotifyDedicated(notified)
      PROVE  Told'
  <2>1. UNCHANGED <<tickets, state>> /\ games \subseteq games'
    BY <1>3 DEF NotifyDedicated
  <2>2. TicketsReachTheirPlayers' /\ MatchedPairTold'
    BY <1>0, <1>1, <2>1 DEF StateOf
  <2>3. CASE Advance("notify", "tell1") /\ game' = NewGame /\ games' = games \cup {NewGame}
    <3>1. /\ remote[socketOf[session1]] \in heirs \cup {peer[session1]}
          /\ remote[socketOf[session2]] \in heirs \cup {peer[session2]}
      BY <2>3 DEF Advance, HandKnown
    <3>2. NewGame.peer1 = peer[session1] /\ NewGame.peer2 = peer[session2]
      BY DEF NewGame
    <3> QED
      BY <1>0, <2>2, <2>3, <3>1, <3>2 DEF Advance, hand, Told, ForHand, SentSoFar
  <2>4. CASE ReturnPair("notify")
    BY <2>2, <2>4 DEF ReturnPair, Return, Told, ForHand, SentSoFar
  <2> QED
    BY <1>3, <2>3, <2>4 DEF NotifyDedicated
<1>4. ASSUME NEW m \in {session1, session2}, NEW p, NEW port, NEW one \in BOOLEAN,
             NEW done \in BOOLEAN, Tell(m, port, one, done),
             matchPc \in {"tell1", "tell2"},
             \/ m = session1 /\ p = game.peer1 /\ port = game.port1 /\ one = TRUE
             \/ m = session2 /\ p = game.peer2 /\ port = game.port2 /\ one = FALSE
      PROVE  /\ TicketsReachTheirPlayers'
             /\ MatchedPairTold'
             /\ tickets \subseteq tickets'
             /\ UNCHANGED <<game, games>>
             /\ done => \E u \in tickets' : Packet(u, p, one, m)
  <2> DEFINE q == remote[socketOf[m]]
             t == [room |-> game.room, port |-> port, peer |-> q, playerOne |-> one]
  <2>1. /\ UNCHANGED <<state, game, games>>
        /\ tickets \subseteq tickets'
        /\ tickets' \subseteq tickets \cup {t}
        /\ done => t \in tickets'
    BY <1>4 DEF Tell
  <2>2. /\ game \in games
        /\ q \in heirs \cup {p}
    BY <1>4 DEF Told, ForHand
  <2>3. \A s \in OwnClients : clientSessions[s] = m => q = remote[s]
    BY OwnHasSession DEF Inv
  <2>4. t.peer \notin heirs => Backs(game, t)
    BY <1>4, <2>2 DEF Backs
  <2>5. TicketsReachTheirPlayers'
    <3> SUFFICES ASSUME NEW u \in tickets', u.peer \notin heirs
                 PROVE  \E g \in games : Backs(g, u)
      BY <1>0, <2>1 DEF TicketsReachTheirPlayers, Backs
    <3> QED
      BY <2>1, <2>2, <2>4 DEF Told, TicketsReachTheirPlayers
  <2>6. MatchedPairTold'
    <3> SUFFICES ASSUME NEW s \in OwnClients', StateOf(s)' = "MATCHED"
                 PROVE  PairTold(s)'
      BY DEF MatchedPairTold, PairTold, OwnClients
    <3>1. PairTold(s)
      BY <1>0, <2>1 DEF Told, MatchedPairTold, PairTold, OwnClients, StateOf
    <3> QED
      BY <1>0, <2>1, <3>1 DEF PairTold, Reached
  <2>7. /\ t.room = game.room
        /\ t.playerOne = one
        /\ t.peer = q
    OBVIOUS
  <2> HIDE DEF t, q
  <2> QED
    BY <2>1, <2>2, <2>3, <2>5, <2>6, <2>7 DEF Packet, Reached
<1>5. ASSUME NEW done \in BOOLEAN, TellPlayer1(done)
      PROVE  Told'
  <2>1. /\ matchPc = "tell1"
        /\ matchPc' = "tell2"
        /\ sent' = done
        /\ UNCHANGED <<socket1, socket2, session1, session2>>
        /\ Tell(session1, game.port1, TRUE, done)
    BY <1>5 DEF TellPlayer1, Advance, hand
  <2>2. /\ TicketsReachTheirPlayers' /\ MatchedPairTold'
        /\ UNCHANGED <<game, games>>
        /\ done => \E u \in tickets' : Packet(u, game.peer1, TRUE, session1)
    BY <1>4, <2>1
  <2> QED
    BY <1>0, <2>1, <2>2 DEF Told, ForHand, SentSoFar, Packet, Reached
<1>6. ASSUME NEW done \in BOOLEAN, TellPlayer2(done)
      PROVE  Told'
  <2>1. /\ matchPc = "tell2"
        /\ matchPc' = "settle"
        /\ sent' = (sent /\ done)
        /\ UNCHANGED <<socket1, socket2, session1, session2>>
        /\ Tell(session2, game.port2, FALSE, done)
    BY <1>6 DEF TellPlayer2, Advance, hand
  <2>2. /\ TicketsReachTheirPlayers' /\ MatchedPairTold'
        /\ tickets \subseteq tickets'
        /\ UNCHANGED <<game, games>>
        /\ done => \E u \in tickets' : Packet(u, game.peer2, FALSE, session2)
    BY <1>4, <2>1
  <2> QED
    BY <1>0, <2>1, <2>2 DEF Told, ForHand, SentSoFar, Packet, Reached
<1>7. CASE SettleMatch
  <2>1. /\ UNCHANGED <<games, tickets>>
        /\ matchPc = "settle"
        /\ matchPc' = "idle"
    BY <1>7 DEF SettleMatch, Return, ReturnPair
  <2>2. ASSUME NEW s \in OwnClients, StateOf(s)' = "MATCHED"
        PROVE  PairTold(s)
    <3>1. CASE StateOf(s) = "MATCHED"
      BY <3>1 DEF Told, MatchedPairTold, PairTold, OwnClients
    <3>2. CASE sent /\ s \in {socket1, socket2}
      <4>1. clientSessions[s] \in {session1, session2}
        BY <2>1, <3>2 DEF HandKnown
      <4>2. /\ game \in games
            /\ \E t \in tickets : Packet(t, game.peer1, TRUE, session1)
            /\ \E t \in tickets : Packet(t, game.peer2, FALSE, session2)
        BY <2>1, <3>2 DEF Told, ForHand, SentSoFar
      <4> QED
        BY <4>1, <4>2 DEF PairTold, Packet
    <3> QED
      BY <2>1, <2>2, <3>1, <3>2, MatchStates DEF GiveBack, Return
  <2>3. MatchedPairTold'
    <3> SUFFICES ASSUME NEW s \in OwnClients', StateOf(s)' = "MATCHED"
                 PROVE  PairTold(s)'
      BY DEF MatchedPairTold, PairTold, OwnClients
    <3> QED
      BY <1>0, <2>1, <2>2 DEF PairTold, Reached
  <2>4. TicketsReachTheirPlayers'
    BY <1>0, <2>1 DEF Told, TicketsReachTheirPlayers, Backs
  <2> QED
    BY <2>1, <2>3, <2>4 DEF Told, ForHand, SentSoFar
<1> QED
  BY <1>2, <1>3, <1>5, <1>6, <1>7 DEF MatchStep, MatchNext

LEMMA AlwaysTold == Spec => []Told
<1>1. Init => Told
  BY DEF Init, SessionsInit, MatchInit, Told, ForHand, SentSoFar, MatchedPairTold,
         TicketsReachTheirPlayers, Own, HasSession
<1>2. ASSUME Told, UNCHANGED vars
      PROVE  Told'
  BY <1>2
  DEF vars, sessionVars, matchVars, hand, Told, ForHand, SentSoFar, Packet, Reached,
      Backs, TicketsReachTheirPlayers, MatchedPairTold, OwnClients, Own, HasSession,
      StateOf
<1>3. Inv /\ Book /\ HandKnown /\ Told /\ [Next]_vars => Told'
  BY <1>2, ToldByServer, ToldByMatch DEF Next
<1> QED
  BY <1>1, <1>3, AlwaysHandKnown, AlwaysBook, Invariance, PTL DEF Spec

(* Nobody but an heir is told anything that the dedicated server has not   *)
(* been given for him beforehand, port and side.                           *)
THEOREM TicketsAlwaysReach == Spec => []TicketsReachTheirPlayers
<1>1. Told => TicketsReachTheirPlayers
  BY DEF Told
<1> QED
  BY <1>1, AlwaysTold, PTL

(* Nobody is matched alone.                                                *)
THEOREM MatchedAreTold == Spec => []MatchedPairTold
<1>1. Told => MatchedPairTold
  BY DEF Told
<1> QED
  BY <1>1, AlwaysTold, PTL
=============================================================================
