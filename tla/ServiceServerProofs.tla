------------------------ MODULE ServiceServerProofs ------------------------
(***************************************************************************)
(* Theorems about ServiceServer, for every value of its constants.         *)
(***************************************************************************)
EXTENDS ServiceServer, SequenceLemmas, SequenceTheorems, TLAPS

(***************************************************************************)
(* What the properties need besides the types: a handler runs for a        *)
(* socket, a round of matchmaking has two, the round is exactly the time   *)
(* for which the matchmaking thread holds queueMutex, and the two whom it  *)
(* is about to give back do not both wait again, for only the holder of    *)
(* the mutex makes anybody wait.                                           *)
(***************************************************************************)
Control ==
  /\ serverPc # "select" => serving \in Sockets
  /\ matchPc # "idle" => socket1 \in Sockets /\ socket2 \in Sockets
  /\ matchPc # "idle" => session1 \in Memory /\ session2 \in Memory
  /\ queueMutex = "matchmaking" <=> matchPc # "idle"
  /\ matchPc = "giveBack" => ~(Waits(session1) /\ Waits(session2))

Inv == TypeOK /\ Control /\ NobodyTwice

-----------------------------------------------------------------------------
(* Cutting the front off a sequence leaves a sequence.                     *)
LEMMA SubSeqType ==
  ASSUME NEW S, NEW q \in Seq(S)
  PROVE  SubSeq(q, 3, Len(q)) \in Seq(S)
<1>1. Len(q) \in Nat /\ \A i \in 1 .. Len(q) : q[i] \in S
  BY LenProperties, ElementOfSeq
<1>2. \A i \in 3 .. Len(q) : q[i] \in S
  BY <1>1
<1> QED
  BY <1>1, <1>2, SubSeqProperties

(* The line while the matchmaking thread is idle, and while it has a pair  *)
(* in hand.                                                                *)
LEMMA LineWhenIdle ==
  ASSUME TypeOK, matchPc = "idle"
  PROVE  Line = matchmakingQueue
BY ConcatEmptySeq DEF TypeOK, SessionsTypeOK, Line, Hand

-----------------------------------------------------------------------------
(* The counters stay in their ranges.                                      *)
LEMMA PortAfterInRange ==
  ASSUME NEW port \in Ports
  PROVE  PortAfter(port) \in Ports
BY PortRangeAssumption, SMT DEF PortAfter, Ports, PortValues

LEMMA NoGameIsGame == NoGame \in Game
BY PortRangeAssumption DEF NoGame, Game, Ports, NoPeer

(* The initial states.                                                     *)
LEMMA InitInv == Init => Inv
<1> SUFFICES ASSUME Init PROVE Inv
  OBVIOUS
<1> USE SessionsAssumption, PortRangeAssumption, NoGameIsGame
    DEF Init, SessionsInit, ServerInit, PortsInit, MatchInit
<1>1. SessionsTypeOK
  <2>1. <<>> \in Seq(Sockets)
    BY EmptySeq
  <2> QED
    BY <2>1 DEF SessionsTypeOK, ClientState
<1>2. ServerTypeOK /\ MatchTypeOK
  BY DEF ServerTypeOK, ServerPcs, MatchTypeOK, MatchPcs
<1>3. PortsTypeOK
  BY DEF PortsTypeOK, Ports
<1>4. Control
  BY DEF Control
<1>5. NobodyTwice
  <2>1. Line = <<>>
    BY DEF Line, Hand
  <2> QED
    BY <2>1, EmptySeq DEF NobodyTwice
<1>6. heirs \subseteq Peers
  OBVIOUS
<1> QED
  BY <1>1, <1>2, <1>3, <1>4, <1>5, <1>6 DEF Inv, TypeOK

-----------------------------------------------------------------------------
(* Only a newcomer becomes an heir.                                        *)
LEMMA ServerHeirs ==
  ASSUME TypeOK, ServerStep
  PROVE  heirs' \subseteq Peers
<1>1. CASE accepted' = accepted
  BY <1>1 DEF ServerStep, RecordHeirs, TypeOK
<1>2. ASSUME NEW s \in Sockets, NEW m \in Memory, AcceptNewClient(s, m)
      PROVE  heirs' \subseteq Peers
  <2>1. accepted' \in Peers
    BY <1>2, SessionsAssumption DEF AcceptNewClient, Peers, TypeOK, SessionsTypeOK
  <2> QED
    BY <2>1 DEF ServerStep, RecordHeirs, TypeOK
<1>3. \/ accepted' = accepted
      \/ \E s \in Sockets, m \in Memory : AcceptNewClient(s, m)
  BY DEF ServerStep, ServerNext, ServerContinues, ServerStarts, GreetClient,
         Authenticate, AddClientToQueue, ConfirmQueued, LeaveQueue, RemoveClient,
         ReceiveAuthRequest, ReceiveMatchmakingRequest, HandleClientDisconnected,
         bookVars, sessionVars
<1> QED
  BY <1>1, <1>2, <1>3

(* The server thread keeps the types.                                      *)
LEMMA ServerTypes ==
  ASSUME Inv, ServerStep
  PROVE  TypeOK' /\ Control'
<1> USE SessionsAssumption
    DEF Inv, TypeOK, SessionsTypeOK, ServerTypeOK, PortsTypeOK, MatchTypeOK,
        Control, Waits, ClientState, ServerPcs, portVars, matchVars, hand,
        bookVars, Handle, Continue, Finish, Session
<1>0. UNCHANGED <<portVars, matchVars>> /\ heirs' \subseteq Peers
  BY ServerHeirs DEF ServerStep
<1>1. CASE GreetClient
  BY <1>0, <1>1 DEF GreetClient
<1>2. CASE \E valid \in BOOLEAN : Authenticate(valid)
  BY <1>0, <1>2 DEF Authenticate
<1>3. CASE AddClientToQueue
  <2>1. serving \in Sockets
    BY <1>3 DEF AddClientToQueue
  <2>2. Append(matchmakingQueue, serving) \in Seq(Sockets)
    BY <2>1, AppendProperties
  <2> QED
    BY <1>0, <1>3, <2>1, <2>2 DEF AddClientToQueue
<1>4. CASE \E ok \in BOOLEAN : ConfirmQueued(ok)
  BY <1>0, <1>4 DEF ConfirmQueued, SendToClient, Fault
<1>5. CASE LeaveQueue
  <2>1. matchPc = "idle"
    BY <1>5 DEF LeaveQueue
  <2>2. Distinct(matchmakingQueue)
    BY <2>1, LineWhenIdle DEF NobodyTwice, Distinct
  <2>3. RemoveFirst(matchmakingQueue, serving) \in Seq(Sockets)
    BY <2>2, RemoveFirstType
  <2> QED
    BY <1>0, <1>5, <2>3 DEF LeaveQueue
<1>6. CASE RemoveClient
  BY <1>0, <1>6 DEF RemoveClient
<1>7. ASSUME NEW s \in Sockets, NEW m \in Memory, AcceptNewClient(s, m)
      PROVE  TypeOK' /\ Control'
  <2>1. accepted + 1 \in Peers /\ accepted' \in 0 .. MaxConnections
    BY <1>7 DEF AcceptNewClient, Peers
  <2> QED
    BY <1>0, <1>7, <2>1 DEF AcceptNewClient
<1>8. ASSUME NEW s \in Sockets, ReceiveAuthRequest(s)
      PROVE  TypeOK' /\ Control'
  BY <1>0, <1>8 DEF ReceiveAuthRequest, sessionVars
<1>9. ASSUME NEW s \in Sockets, ReceiveMatchmakingRequest(s)
      PROVE  TypeOK' /\ Control'
  BY <1>0, <1>9 DEF ReceiveMatchmakingRequest, sessionVars
<1>10. ASSUME NEW s \in Sockets, HandleClientDisconnected(s)
       PROVE  TypeOK' /\ Control'
  <2>1. clientSessions' \in [Sockets -> Memory \cup {NoSession}]
    BY <1>10 DEF HandleClientDisconnected
  <2>2. PICK left \in {state[clientSessions[s]], "CONNECTED"} :
          state' = [state EXCEPT ![clientSessions[s]] = left]
    BY <1>10 DEF HandleClientDisconnected
  <2>3. /\ state' \in [Memory -> ClientState]
        /\ \A m \in Memory : Waits(m)' => Waits(m)
    <3>1. CASE clientSessions[s] \in Memory
      BY <2>2, <3>1
    <3>2. CASE clientSessions[s] = NoSession
      BY <2>2, <3>2
    <3> QED
      BY <3>1, <3>2
  <2> QED
    BY <1>0, <1>10, <2>1, <2>3 DEF HandleClientDisconnected
<1> QED
  BY <1>1, <1>2, <1>3, <1>4, <1>5, <1>6, <1>7, <1>8, <1>9, <1>10
  DEF ServerStep, ServerNext, ServerContinues, ServerStarts

(* The matchmaking thread keeps the types.                                 *)
LEMMA MatchTypes ==
  ASSUME Inv, MatchStep
  PROVE  TypeOK' /\ Control'
<1> USE DEF Inv, TypeOK, SessionsTypeOK, ServerTypeOK, PortsTypeOK, MatchTypeOK,
            Control, Waits, ClientState, MatchPcs, serverVars, portVars, hand,
            bookVars, Advance, Return, ReturnPair
<1>0. UNCHANGED <<serverVars, heirs>>
  BY DEF MatchStep
<1>1. NoGame \in Game
  BY NoGameIsGame
<1>2. \A s1, s2 \in Sockets, q \in Seq(Sockets) :
        <<s1, s2>> \o q \in Seq(Sockets)
  BY ConcatProperties
<1>3. \A c : \A s \in Sockets, q \in Seq(Sockets) :
        PushFront(s, c, q) \in Seq(Sockets)
  BY ConcatProperties DEF PushFront
<1>4. CASE TooFewWaiting
  BY <1>0, <1>4 DEF TooFewWaiting, sessionVars, matchVars
<1>5. CASE TakePair
  <2>1. First \in Sockets /\ Second \in Sockets
    BY <1>5, LenProperties, ElementOfSeq DEF TakePair, First, Second
  <2>2. Others \in Seq(Sockets)
    BY SubSeqType DEF Others
  <2>3. clientSessions[First] \in Memory /\ clientSessions[Second] \in Memory
    BY <1>5, <2>1 DEF TakePair, BothHaveSessions, HasSession
  <2> QED
    BY <1>0, <1>5, <2>1, <2>2, <2>3 DEF TakePair
<1>6. CASE DropMissing
  <2>1. First \in Sockets /\ Second \in Sockets
    BY <1>6, LenProperties, ElementOfSeq DEF DropMissing, First, Second
  <2>2. Others \in Seq(Sockets)
    BY SubSeqType DEF Others
  <2>3. PushFront(First, HasSession(First), Others) \in Seq(Sockets)
    BY <1>3, <2>1, <2>2
  <2>4. matchmakingQueue' \in Seq(Sockets)
    BY <1>3, <1>6, <2>1, <2>3 DEF DropMissing
  <2> QED
    BY <1>0, <1>6, <2>4 DEF DropMissing, matchVars
<1>7. CASE CheckStates
  BY <1>0, <1>7 DEF CheckStates
<1>8. CASE GiveBack
  <2>1. matchmakingQueue' \in Seq(Sockets)
    BY <1>3, <1>8 DEF GiveBack
  <2>2. state' \in [Memory -> ClientState]
    BY <1>8 DEF GiveBack
  <2> QED
    BY <1>0, <1>1, <1>8, <2>1, <2>2 DEF GiveBack
<1>9. ASSUME NEW notified \in BOOLEAN, NotifyDedicated(notified)
      PROVE  TypeOK' /\ Control'
  <2>1. DrawnPort1 \in Ports /\ DrawnPort2 \in Ports /\ PortAfter(DrawnPort2) \in Ports
    BY PortAfterInRange DEF DrawnPort1, DrawnPort2
  <2>2. NewGame \in Game
    BY <1>9, <2>1 DEF NewGame, Game, NotifyDedicated, DrawnRoom
  <2>3. PortsTypeOK'
    BY <1>9, <2>1 DEF NotifyDedicated, DrawGame
  <2>4. faults' \in 0 .. MaxFaults
    BY <1>9, SessionsAssumption DEF NotifyDedicated, Fault
  <2> QED
    BY <1>0, <1>1, <1>2, <1>9, <2>2, <2>3, <2>4 DEF NotifyDedicated
<1>10. ASSUME NEW done \in BOOLEAN, TellPlayer1(done) \/ TellPlayer2(done)
       PROVE  TypeOK' /\ Control'
  <2>1. faults' \in 0 .. MaxFaults
    BY <1>10, SessionsAssumption
    DEF TellPlayer1, TellPlayer2, Tell, SendToClient, Fault
  <2>2. game.port1 \in Ports /\ game.port2 \in Ports /\ game.room \in Nat
    BY DEF Game
  <2>4. ASSUME NEW m \in Memory, NEW port \in Ports, NEW one \in BOOLEAN,
               Tell(m, port, one, done)
        PROVE  tickets' \subseteq Ticket
    <3>1. CASE ~done
      BY <2>4, <3>1 DEF Tell
    <3>2. CASE done
      <4>1. socketOf[m] \in Sockets
        BY <2>4, <3>2 DEF Tell, SendToClient
      <4>2. [room |-> game.room, port |-> port, peer |-> remote[socketOf[m]],
             playerOne |-> one] \in Ticket
        BY <2>2, <4>1 DEF Ticket
      <4> QED
        BY <2>4, <3>2, <4>2 DEF Tell
    <3> QED
      BY <3>1, <3>2
  <2>5. tickets' \subseteq Ticket
    BY <1>10, <2>2, <2>4 DEF TellPlayer1, TellPlayer2
  <2> QED
    BY <1>0, <1>10, <2>1, <2>5 DEF TellPlayer1, TellPlayer2, Tell
<1>11. CASE SettleMatch
  <2>1. matchmakingQueue' \in Seq(Sockets)
    <3>1. <<socket1, socket2>> \o matchmakingQueue \in Seq(Sockets)
      BY <1>2, <1>11 DEF SettleMatch
    <3> QED
      BY <1>11, <3>1 DEF SettleMatch
  <2>2. state' \in [Memory -> ClientState]
    BY <1>11 DEF SettleMatch
  <2> QED
    BY <1>0, <1>1, <1>11, <2>1, <2>2 DEF SettleMatch
<1> QED
  BY <1>4, <1>5, <1>6, <1>7, <1>8, <1>9, <1>10, <1>11 DEF MatchStep, MatchNext

-----------------------------------------------------------------------------
(* A queue is its first two before the others.                             *)
LEMMA PairBeforeOthers ==
  ASSUME NEW S, NEW q \in Seq(S), Len(q) >= 2
  PROVE  <<q[1], q[2]>> \o SubSeq(q, 3, Len(q)) = q
<1> DEFINE n == Len(q)
           r == SubSeq(q, 3, n)
           p == <<q[1], q[2]>>
<1>1. n \in Nat /\ n >= 2 /\ q[1] \in S /\ q[2] \in S
  BY LenProperties, ElementOfSeq
<1>2. \A i \in 3 .. n : q[i] \in S
  BY <1>1, ElementOfSeq
<1>3. /\ r \in Seq(S)
      /\ Len(r) = IF 3 <= n THEN n - 3 + 1 ELSE 0
      /\ \A i \in 1 .. n - 3 + 1 : r[i] = q[3 + i - 1]
  BY <1>1, <1>2, SubSeqProperties
<1>4. p \in Seq(S) /\ Len(p) = 2 /\ p[1] = q[1] /\ p[2] = q[2]
  BY <1>1
<1> HIDE DEF n, r, p
<1>5. /\ p \o r \in Seq(S)
      /\ Len(p \o r) = n
      /\ \A i \in 1 .. n : (p \o r)[i] = IF i <= 2 THEN p[i] ELSE r[i - 2]
  <2>1. Len(p) + Len(r) = n
    BY <1>1, <1>3, <1>4
  <2>2. /\ p \o r \in Seq(S)
        /\ Len(p \o r) = Len(p) + Len(r)
        /\ \A i \in 1 .. Len(p) + Len(r) :
             (p \o r)[i] = IF i <= Len(p) THEN p[i] ELSE r[i - Len(p)]
    BY <1>3, <1>4, ConcatProperties
  <2> QED
    BY <1>4, <2>1, <2>2
<1>6. ASSUME NEW i \in 1 .. n
      PROVE  (p \o r)[i] = q[i]
  <2>1. i \in Nat /\ (i = 1 \/ i = 2 \/ i >= 3)
    BY <1>1
  <2>2. CASE i = 1 \/ i = 2
    <3>1. i <= 2
      BY <2>2
    <3> QED
      BY <1>4, <1>5, <2>2, <3>1
  <2>3. CASE i >= 3
    <3>1. i - 2 \in 1 .. n - 3 + 1 /\ 3 + (i - 2) - 1 = i /\ ~(i <= 2)
      BY <1>1, <2>1, <2>3
    <3> QED
      BY <1>3, <1>5, <3>1
  <2> QED
    BY <2>1, <2>2, <2>3
<1>7. p \o r = q
  BY <1>5, <1>6, SeqEqual DEF n
<1> QED
  BY <1>7 DEF n, p, r

(* A pair put before a queue.                                              *)
LEMMA PairLeaves ==
  ASSUME NEW S, NEW a \in S, NEW b \in S, NEW r \in Seq(S),
         NEW q, q = <<a, b>> \o r
  PROVE  /\ q \in Seq(S)
         /\ Len(q) = Len(r) + 2
         /\ q[1] = a
         /\ q[2] = b
         /\ SubSeq(q, 3, Len(q)) = r
<1> DEFINE p == <<a, b>>
<1>0. q = p \o r
  OBVIOUS
<1>1. p \in Seq(S) /\ Len(p) = 2 /\ p[1] = a /\ p[2] = b
  OBVIOUS
<1>2. Len(r) \in Nat
  BY LenProperties
<1> HIDE DEF p
<1>3. /\ q \in Seq(S)
      /\ Len(q) = Len(r) + 2
      /\ \A i \in 1 .. Len(r) + 2 : q[i] = IF i <= 2 THEN p[i] ELSE r[i - 2]
  <2>1. Len(p) + Len(r) = Len(r) + 2
    BY <1>1, <1>2
  <2>2. /\ q \in Seq(S)
        /\ Len(q) = Len(p) + Len(r)
        /\ \A i \in 1 .. Len(p) + Len(r) :
             q[i] = IF i <= Len(p) THEN p[i] ELSE r[i - Len(p)]
    BY <1>0, <1>1, ConcatProperties
  <2> QED
    BY <1>1, <2>1, <2>2
<1>4. q[1] = a /\ q[2] = b
  BY <1>1, <1>2, <1>3
<1>5. SubSeq(q, 3, Len(q)) = r
  <2>1. \A i \in 3 .. Len(q) : q[i] \in S
    BY <1>2, <1>3, ElementOfSeq
  <2>2. /\ SubSeq(q, 3, Len(q)) \in Seq(S)
        /\ Len(SubSeq(q, 3, Len(q))) = Len(r)
        /\ \A i \in 1 .. Len(r) : SubSeq(q, 3, Len(q))[i] = q[i + 2]
    BY <1>2, <1>3, <2>1, SubSeqProperties
  <2>3. ASSUME NEW i \in 1 .. Len(r)
        PROVE  q[i + 2] = r[i]
    <3>1. i + 2 \in 1 .. Len(r) + 2 /\ ~(i + 2 <= 2) /\ (i + 2) - 2 = i
      BY <1>2
    <3> QED
      BY <1>3, <3>1
  <2> QED
    BY <2>2, <2>3, SeqEqual
<1> QED
  BY <1>3, <1>4, <1>5

(* The first of the pair leaves, or the second.                            *)
LEMMA FirstLeaves ==
  ASSUME NEW S, NEW a \in S, NEW b \in S, NEW r \in Seq(S)
  PROVE  RemoveAt(<<a, b>> \o r, 1) = <<b>> \o r
<1> DEFINE q == <<a, b>> \o r
<1>1. Len(r) \in Nat
  BY LenProperties
<1>2. q \in Seq(S) /\ Len(q) = Len(r) + 2
  BY PairLeaves
<1>3. q[1] = a /\ q[2] = b
  BY PairLeaves
<1>4. SubSeq(q, 3, Len(q)) = r
  BY PairLeaves
<1> HIDE DEF q
<1>5. SubSeq(q, 1, 0) = <<>>
  BY SubSeqEmpty
<1>6. 2 \in 1 .. Len(q) /\ Len(q) \in 2 .. Len(q)
  BY <1>1, <1>2
<1>7. SubSeq(q, 2, Len(q)) = <<q[2]>> \o SubSeq(q, 3, Len(q))
  BY <1>2, <1>6, SubSeqRecursiveFirst
<1>8. <<b>> \o r \in Seq(S)
  BY ConcatProperties
<1>9. RemoveAt(q, 1) = SubSeq(q, 1, 0) \o SubSeq(q, 2, Len(q))
  BY DEF RemoveAt
<1>10. RemoveAt(q, 1) = <<b>> \o r
  BY <1>3, <1>4, <1>5, <1>7, <1>8, <1>9, ConcatEmptySeq
<1> QED
  BY <1>10 DEF q

LEMMA SecondLeaves ==
  ASSUME NEW S, NEW a \in S, NEW b \in S, NEW r \in Seq(S)
  PROVE  RemoveAt(<<a, b>> \o r, 2) = <<a>> \o r
<1> DEFINE q == <<a, b>> \o r
<1>1. Len(r) \in Nat
  BY LenProperties
<1>2. q \in Seq(S) /\ Len(q) = Len(r) + 2
  BY PairLeaves
<1>3. q[1] = a /\ q[2] = b
  BY PairLeaves
<1>4. SubSeq(q, 3, Len(q)) = r
  BY PairLeaves
<1> HIDE DEF q
<1>5. 1 \in 1 .. Len(q)
  BY <1>1, <1>2
<1>6. SubSeq(q, 1, 1) = <<q[1]>> \o SubSeq(q, 2, 1)
  BY <1>2, <1>5, SubSeqRecursiveFirst
<1>7. SubSeq(q, 2, 1) = <<>>
  BY SubSeqEmpty
<1>8. SubSeq(q, 1, 1) = <<a>>
  <2>1. <<a>> \in Seq(S)
    OBVIOUS
  <2> QED
    BY <1>3, <1>6, <1>7, <2>1, ConcatEmptySeq
<1>9. RemoveAt(q, 2) = SubSeq(q, 1, 1) \o SubSeq(q, 3, Len(q))
  BY DEF RemoveAt
<1>10. RemoveAt(q, 2) = <<a>> \o r
  BY <1>4, <1>8, <1>9
<1> QED
  BY <1>10 DEF q

(* A queue with one, or two, put before it.                                *)
Before(s, queue) == <<s>> \o queue
Both(s, t, queue) == <<s, t>> \o queue

(* What is left of the line when one of a pair takes his leave.            *)
LEMMA OneLeaves ==
  ASSUME NEW a \in Sockets, NEW b \in Sockets, NEW r \in Seq(Sockets),
         NEW old, old = Both(a, b, r), Distinct(old)
  PROVE  /\ Contains(old, a) /\ RemoveFirst(old, a) = Before(b, r)
         /\ Contains(old, b) /\ RemoveFirst(old, b) = Before(a, r)
<1>1. /\ Len(old) = Len(r) + 2
      /\ old[1] = a
      /\ old[2] = b
      /\ RemoveAt(old, 1) = <<b>> \o r
      /\ RemoveAt(old, 2) = <<a>> \o r
  <2>1. \A q : q = <<a, b>> \o r =>
          /\ Len(q) = Len(r) + 2
          /\ q[1] = a
          /\ q[2] = b
    BY PairLeaves
  <2>2. RemoveAt(<<a, b>> \o r, 1) = <<b>> \o r
    BY FirstLeaves
  <2>3. RemoveAt(<<a, b>> \o r, 2) = <<a>> \o r
    BY SecondLeaves
  <2> QED
    BY <2>1, <2>2, <2>3 DEF Both
<1>2. Len(r) \in Nat
  BY LenProperties
<1>3. 1 \in 1 .. Len(old) /\ 2 \in 1 .. Len(old)
  BY <1>1, <1>2
<1>4. Contains(old, a) /\ Contains(old, b)
  BY <1>1, <1>3 DEF Contains
<1>5. RemoveFirst(old, a) = <<b>> \o r /\ RemoveFirst(old, b) = <<a>> \o r
  BY <1>1, <1>3, RemoveFirstIsRemoveAt
<1>6. Before(a, r) = <<a>> \o r /\ Before(b, r) = <<b>> \o r
  BY DEF Before
<1> QED
  BY <1>4, <1>5, <1>6, Zenon

-----------------------------------------------------------------------------
(* The line.                                                               *)
LEMMA LineWithPair ==
  ASSUME matchPc # "idle"
  PROVE  Line = <<socket1, socket2>> \o matchmakingQueue
BY DEF Line, Hand

LEMMA LineType ==
  ASSUME Inv
  PROVE  Line \in Seq(Sockets)
<1>1. matchmakingQueue \in Seq(Sockets)
  BY DEF Inv, TypeOK, SessionsTypeOK
<1>2. CASE matchPc = "idle"
  BY <1>1, <1>2, LineWhenIdle DEF Inv
<1>3. CASE matchPc # "idle"
  <2>1. <<socket1, socket2>> \in Seq(Sockets)
    BY <1>3 DEF Inv, Control
  <2> QED
    BY <1>1, <1>3, <2>1, LineWithPair, ConcatProperties
<1> QED
  BY <1>2, <1>3

(* A step that moves neither the pair nor the queue does not move the line. *)
LEMMA LineUnchanged ==
  ASSUME UNCHANGED <<matchPc, socket1, socket2, matchmakingQueue>>
  PROVE  UNCHANGED Line
BY DEF Line, Hand

(* The operators on sequences are WaitingLine's.                           *)
LEMMA SameOperators ==
  ASSUME NEW q, NEW e
  PROVE  /\ Waiting!Contains(q, e) <=> Contains(q, e)
         /\ Waiting!RemoveFirst(q, e) = RemoveFirst(q, e)
<1>1. Waiting!Contains(q, e) <=> Contains(q, e)
  BY DEF Waiting!Contains, Contains
<1>2. Waiting!RemoveFirst(q, e) = RemoveFirst(q, e)
  BY DEF Waiting!RemoveFirst, RemoveFirst, Waiting!RemoveAt, RemoveAt,
         Waiting!SelectInSeq, SelectInSeq, Waiting!Min, Min
<1> QED
  BY <1>1, <1>2

(* The server thread moves the line as WaitingLine does: it joins, leaves  *)
(* or lets be.                                                             *)
LEMMA ServerMovesLine ==
  ASSUME Inv, ServerStep
  PROVE  [Waiting!Next]_Line
<1>1. UNCHANGED matchVars
  BY DEF ServerStep
<1>2. CASE AddClientToQueue
  <2>1. matchPc = "idle" /\ Line = matchmakingQueue /\ serving \in Sockets
    BY <1>2, LineWhenIdle
    DEF AddClientToQueue, Inv, Control, TypeOK, SessionsTypeOK, Finish, Continue
  <2>2. CASE UNCHANGED matchmakingQueue
    BY <1>1, <2>2, LineUnchanged DEF matchVars, hand
  <2>3. CASE /\ ~Contains(matchmakingQueue, serving)
             /\ matchmakingQueue' = Append(matchmakingQueue, serving)
    <3>1. matchmakingQueue' \in Seq(Sockets)
      BY <2>1, <2>3, AppendProperties DEF Inv, TypeOK, SessionsTypeOK
    <3>2. Line' = matchmakingQueue'
      BY <1>1, <2>1, <3>1, ConcatEmptySeq DEF Line, Hand, matchVars, hand
    <3> QED
      BY <2>1, <2>3, <3>2, SameOperators DEF Waiting!Next, Waiting!Join
  <2> QED
    BY <1>2, <2>2, <2>3 DEF AddClientToQueue
<1>3. CASE LeaveQueue
  <2>1. matchPc = "idle" /\ Line = matchmakingQueue /\ serving \in Sockets
    BY <1>3, LineWhenIdle
    DEF LeaveQueue, Inv, Control, TypeOK, SessionsTypeOK, Finish
  <2>2. matchmakingQueue' = RemoveFirst(matchmakingQueue, serving)
    BY <1>3 DEF LeaveQueue
  <2>3. CASE Contains(matchmakingQueue, serving)
    <3>1. matchmakingQueue' \in Seq(Sockets)
      BY <2>1, <2>2, RemoveFirstType
      DEF Inv, TypeOK, SessionsTypeOK, NobodyTwice, Distinct
    <3>2. Line' = matchmakingQueue'
      BY <1>1, <2>1, <3>1, ConcatEmptySeq DEF Line, Hand, matchVars, hand
    <3> QED
      BY <2>1, <2>2, <2>3, <3>2, SameOperators DEF Waiting!Next, Waiting!Leave
  <2>4. CASE ~Contains(matchmakingQueue, serving)
    <3>1. UNCHANGED matchmakingQueue
      BY <2>2, <2>4 DEF RemoveFirst, Contains
    <3> QED
      BY <1>1, <3>1, LineUnchanged DEF matchVars, hand
  <2> QED
    BY <2>3, <2>4
<1>4. CASE UNCHANGED matchmakingQueue
  BY <1>1, <1>4, LineUnchanged DEF matchVars, hand
<1>5. AddClientToQueue \/ LeaveQueue \/ UNCHANGED matchmakingQueue
  BY DEF ServerStep, ServerNext, ServerContinues, ServerStarts, GreetClient,
         Authenticate, ConfirmQueued, RemoveClient, AcceptNewClient,
         ReceiveAuthRequest, ReceiveMatchmakingRequest,
         HandleClientDisconnected, sessionVars
<1> QED
  BY <1>2, <1>3, <1>4, <1>5

(* The matchmaking thread moves it in the steps that let go of a pair: a   *)
(* match serves both, a failed round at most loses one, and putting both   *)
(* back restores the order they came in.                                   *)
LEMMA MatchMovesLine ==
  ASSUME Inv, MatchStep
  PROVE  [Waiting!Next]_Line
<1>1. matchmakingQueue \in Seq(Sockets) /\ Distinct(Line)
  BY DEF Inv, TypeOK, SessionsTypeOK, NobodyTwice, Distinct
<1>2. CASE TakePair
  <2>1. matchPc = "idle" /\ matchPc' = "check"
    BY <1>2 DEF TakePair
  <2>2. Line = matchmakingQueue
    BY <2>1, LineWhenIdle DEF Inv
  <2>3. Line' = <<First, Second>> \o Others
    BY <1>2, <2>1 DEF TakePair, Line, Hand
  <2>4. <<First, Second>> \o Others = matchmakingQueue
    BY <1>1, <1>2, PairBeforeOthers DEF TakePair, First, Second, Others
  <2> QED
    BY <2>2, <2>3, <2>4
<1>3. CASE DropMissing
  <2>1. matchPc = "idle" /\ matchPc' = "idle"
    BY <1>3 DEF DropMissing, matchVars
  <2>2. Line = matchmakingQueue
    BY <2>1, LineWhenIdle DEF Inv
  <2>3. First \in Sockets /\ Second \in Sockets
    BY <1>1, <1>3, LenProperties, ElementOfSeq DEF DropMissing, First, Second
  <2>4. Others \in Seq(Sockets)
    BY <1>1, SubSeqType DEF Others
  <2>5. Line = <<First, Second>> \o Others
    BY <1>1, <1>3, <2>2, PairBeforeOthers DEF DropMissing, First, Second, Others
  <2> DEFINE new == PushFront(Second, HasSession(Second),
                              PushFront(First, HasSession(First), Others))
  <2>6. /\ matchmakingQueue' = new
        /\ ~(HasSession(First) /\ HasSession(Second))
    BY <1>3 DEF DropMissing, BothHaveSessions
  <2>7. \/ Len(Line) >= 2 /\ new = SubSeq(Line, 3, Len(Line))
        \/ \E s \in Sockets : Contains(Line, s) /\ new = RemoveFirst(Line, s)
    <3>1. \/ new = Others
          \/ new = Before(First, Others)
          \/ new = Before(Second, Others)
      BY <2>6 DEF PushFront, Before
    <3>2. ASSUME NEW q, q = Line, NEW a, a = First, NEW b, b = Second, NEW r, r = Others
          PROVE  /\ Contains(q, a) /\ RemoveFirst(q, a) = Before(b, r)
                 /\ Contains(q, b) /\ RemoveFirst(q, b) = Before(a, r)
      <4>1. q = Both(a, b, r)
        BY <2>5, <3>2 DEF Both
      <4>2. /\ Distinct(q)
            /\ a \in Sockets
            /\ b \in Sockets
            /\ r \in Seq(Sockets)
        BY <1>1, <2>3, <2>4, <3>2
      <4> QED
        BY <4>1, <4>2, OneLeaves
    <3>3. Len(Line) = Len(Others) + 2 /\ SubSeq(Line, 3, Len(Line)) = Others
      BY <2>3, <2>4, <2>5, PairLeaves
    <3>4. Len(Line) >= 2
      BY <2>4, <3>3, LenProperties
    <3>5. /\ Contains(Line, First) /\ RemoveFirst(Line, First) = Before(Second, Others)
          /\ Contains(Line, Second) /\ RemoveFirst(Line, Second) = Before(First, Others)
      BY <3>2
    <3> HIDE DEF new
    <3> QED
      BY <2>3, <3>1, <3>3, <3>4, <3>5, Zenon
  <2>8. Line' = new
    <3>1. matchmakingQueue' \in Seq(Sockets)
      BY MatchTypes DEF TypeOK, SessionsTypeOK
    <3> QED
      BY <2>1, <2>6, <3>1, ConcatEmptySeq DEF Line, Hand
  <2> QED
    BY <2>7, <2>8, SameOperators
    DEF Waiting!Next, Waiting!ServePair, Waiting!Leave
<1>4. CASE GiveBack
  <2>1. /\ matchPc = "giveBack"
        /\ matchPc' = "idle"
        /\ socket1 \in Sockets
        /\ socket2 \in Sockets
        /\ ~(Waits(session1) /\ Waits(session2))
    BY <1>4 DEF GiveBack, Return, Inv, Control
  <2>2. Line = <<socket1, socket2>> \o matchmakingQueue
    BY <2>1, LineWithPair
  <2> DEFINE new == PushFront(socket2, Waits(session2),
                              PushFront(socket1, Waits(session1), matchmakingQueue))
  <2>3. matchmakingQueue' = new
    BY <1>4 DEF GiveBack
  <2>4. \/ Len(Line) >= 2 /\ new = SubSeq(Line, 3, Len(Line))
        \/ \E s \in Sockets : Contains(Line, s) /\ new = RemoveFirst(Line, s)
    <3>1. \/ new = matchmakingQueue
          \/ new = Before(socket1, matchmakingQueue)
          \/ new = Before(socket2, matchmakingQueue)
      BY <2>1 DEF PushFront, Before
    <3>2. /\ Contains(Line, socket1) /\ RemoveFirst(Line, socket1) = Before(socket2, matchmakingQueue)
          /\ Contains(Line, socket2) /\ RemoveFirst(Line, socket2) = Before(socket1, matchmakingQueue)
      <4>1. Line = Both(socket1, socket2, matchmakingQueue)
        BY <2>2 DEF Both
      <4> QED
        BY <1>1, <2>1, <4>1, OneLeaves
    <3>3. Len(Line) = Len(matchmakingQueue) + 2 /\ SubSeq(Line, 3, Len(Line)) = matchmakingQueue
      BY <1>1, <2>1, <2>2, PairLeaves
    <3>4. Len(Line) >= 2
      BY <1>1, <3>3, LenProperties
    <3> HIDE DEF new
    <3> QED
      BY <2>1, <3>1, <3>2, <3>3, <3>4, Zenon
  <2>5. Line' = new
    <3>1. matchmakingQueue' \in Seq(Sockets)
      BY MatchTypes DEF TypeOK, SessionsTypeOK
    <3> QED
      BY <2>1, <2>3, <3>1, ConcatEmptySeq DEF Line, Hand
  <2> QED
    BY <2>4, <2>5, SameOperators
    DEF Waiting!Next, Waiting!ServePair, Waiting!Leave
<1>5. ASSUME matchPc # "idle", matchPc' = "idle",
             matchmakingQueue' = <<socket1, socket2>> \o matchmakingQueue
      PROVE  UNCHANGED Line
  <2>1. matchmakingQueue' \in Seq(Sockets)
    BY MatchTypes DEF TypeOK, SessionsTypeOK
  <2> QED
    BY <1>5, <2>1, LineWithPair, ConcatEmptySeq DEF Line, Hand
<1>6. ASSUME NEW notified \in BOOLEAN, NotifyDedicated(notified)
      PROVE  UNCHANGED Line
  <2>1. CASE UNCHANGED matchmakingQueue /\ Advance("notify", "tell1")
    BY <2>1 DEF Advance, hand, Line, Hand
  <2>2. CASE ReturnPair("notify")
    BY <1>5, <2>2 DEF ReturnPair, Return
  <2> QED
    BY <1>6, <2>1, <2>2 DEF NotifyDedicated
<1>7. CASE SettleMatch
  <2>1. CASE Return("settle") /\ UNCHANGED matchmakingQueue
    <3>1. matchPc # "idle" /\ matchPc' = "idle"
      BY <2>1 DEF Return
    <3>2. socket1 \in Sockets /\ socket2 \in Sockets
      BY <3>1 DEF Inv, Control
    <3>3. Line = <<socket1, socket2>> \o matchmakingQueue
      BY <3>1, LineWithPair
    <3>4. Line' = matchmakingQueue
      BY <1>1, <2>1, <3>1, ConcatEmptySeq DEF Line, Hand
    <3>5. Len(Line) = Len(matchmakingQueue) + 2
      BY <1>1, <3>2, <3>3, PairLeaves
    <3>6. SubSeq(Line, 3, Len(Line)) = matchmakingQueue
      BY <1>1, <3>2, <3>3, PairLeaves
    <3>7. Len(Line) >= 2
      BY <1>1, <3>5, LenProperties
    <3> QED
      BY <3>4, <3>6, <3>7 DEF Waiting!Next, Waiting!ServePair
  <2>2. CASE ReturnPair("settle")
    BY <1>5, <2>2 DEF ReturnPair, Return
  <2> QED
    BY <1>7, <2>1, <2>2 DEF SettleMatch
<1>8. CASE TooFewWaiting \/ CheckStates
           \/ \E done \in BOOLEAN : TellPlayer1(done) \/ TellPlayer2(done)
  BY <1>8 DEF TooFewWaiting, CheckStates, TellPlayer1, TellPlayer2, Tell, Advance,
              Line, Hand, matchVars, hand, sessionVars
<1> QED
  BY <1>2, <1>3, <1>4, <1>6, <1>7, <1>8 DEF MatchStep, MatchNext

-----------------------------------------------------------------------------
(* Inv is inductive.                                                       *)
LEMMA NextInv == Inv /\ [Next]_vars => Inv' /\ [Waiting!Next]_Line
<1> SUFFICES ASSUME Inv, [Next]_vars
             PROVE  Inv' /\ [Waiting!Next]_Line
  OBVIOUS
<1>1. TypeOK' /\ Control'
  <2>1. CASE UNCHANGED vars
    BY <2>1 DEF Inv, vars, sessionVars, serverVars, portVars, matchVars, hand,
                Control, Waits, TypeOK, SessionsTypeOK, ServerTypeOK, PortsTypeOK, MatchTypeOK
  <2> QED
    BY <2>1, ServerTypes, MatchTypes DEF Next
<1>2. [Waiting!Next]_Line
  <2>1. CASE UNCHANGED vars
    BY <2>1, LineUnchanged DEF vars, sessionVars, matchVars, hand
  <2> QED
    BY <2>1, ServerMovesLine, MatchMovesLine DEF Next
<1>3. NobodyTwice'
  <2>1. Line \in Seq(Sockets)
    BY LineType
  <2>2. Distinct(Line)
    BY DEF Inv, NobodyTwice, Distinct
  <2>3. ASSUME NEW q, q = Line' PROVE Distinct(q)
    <3> DEFINE l == Line
    <3>1. /\ Distinct(SubSeq(l, 3, Len(l)))
          /\ \A s \in Sockets : /\ Distinct(RemoveFirst(l, s))
                                /\ ~Contains(l, s) => Distinct(Append(l, s))
      BY <2>1, <2>2, StaysDistinct
    <3>2. \/ q = l
          \/ q = SubSeq(l, 3, Len(l))
          \/ \E s \in Sockets : ~Contains(l, s) /\ q = Append(l, s)
          \/ \E s \in Sockets : q = RemoveFirst(l, s)
      BY <1>2, <2>3, SameOperators
      DEF Waiting!Next, Waiting!ServePair, Waiting!Join, Waiting!Leave
    <3>3. Distinct(l)
      BY <2>2
    <3> HIDE DEF l
    <3>4. CASE q = l
      BY <3>3, <3>4, Zenon
    <3>5. CASE q = SubSeq(l, 3, Len(l))
      BY <3>1, <3>5, Zenon
    <3>6. ASSUME NEW s \in Sockets, ~Contains(l, s), q = Append(l, s)
          PROVE  Distinct(q)
      BY <3>1, <3>6, Zenon
    <3>7. ASSUME NEW s \in Sockets, q = RemoveFirst(l, s)
          PROVE  Distinct(q)
      BY <3>1, <3>7, Zenon
    <3> QED
      BY <3>2, <3>4, <3>5, <3>6, <3>7, Zenon
  <2> DEFINE q == Line'
  <2>4. Distinct(q)
    BY <2>3
  <2>5. NobodyTwice' <=> Distinct(q)
    BY DEF NobodyTwice, Distinct
  <2> QED
    BY <2>4, <2>5
<1> QED
  BY <1>1, <1>2, <1>3 DEF Inv

LEMMA Invariance == Spec => []Inv
<1>1. Inv /\ [Next]_vars => Inv'
  BY NextInv
<1> QED
  BY <1>1, InitInv, PTL DEF Spec

(* Type correctness, for any number of sockets, connections and faults,    *)
(* and any range of ports.                                                 *)
THEOREM TypeCorrect == Spec => []TypeOK
<1>1. Inv => TypeOK
  BY DEF Inv
<1> QED
  BY <1>1, Invariance, PTL

(* Nobody stands twice in line, so nobody can be matched with himself and  *)
(* list::remove never has more than one entry to take out.                 *)
THEOREM NobodyStandsTwice == Spec => []NobodyTwice
<1>1. Inv => NobodyTwice
  BY DEF Inv
<1> QED
  BY <1>1, Invariance, PTL

(* The two threads together implement one line, first come first served.   *)
THEOREM ImplementsWaitingLine == Spec => KeepsOneLine
<1>1. Init => Waiting!Init
  BY ConcatEmptySeq, EmptySeq DEF Init, MatchInit, SessionsInit, Line, Hand, Waiting!Init
<1>2. Inv /\ [Next]_vars => [Waiting!Next]_Line
  BY NextInv
<1> QED
  BY <1>1, <1>2, Invariance, PTL DEF Spec, KeepsOneLine, Waiting!Spec

(* Of two in line the one behind never gets before the other, whatever     *)
(* pairs they are tried in and however often they are put back: for any    *)
(* number of sockets and faults, and whatever the allocator does.          *)
THEOREM NobodyIsOvertaken == Spec => NobodyOvertakes
<1>1. ASSUME Inv, [Next]_vars, NEW p \in Sockets, NEW q \in Sockets,
             Waiting!Precedes(p, q), Waiting!Stands(p)', Waiting!Stands(q)'
      PROVE  Waiting!Precedes(p, q)'
  <2>1. [Waiting!Next]_Line
    BY <1>1, NextInv
  <2>2. Line \in Seq(Sockets) /\ Distinct(Line)
    BY <1>1, LineType DEF Inv, NobodyTwice, Distinct
  <2>3. ASSUME NEW m, m = Line'
        PROVE  InOrder(m, p, q)
    <3>1. /\ InOrder(Line, p, q)
          /\ \E i \in 1 .. Len(m) : m[i] = p
          /\ \E i \in 1 .. Len(m) : m[i] = q
      BY <1>1, <2>3 DEF Waiting!Precedes, Waiting!Stands, InOrder
    <3>2. \/ m = Line
          \/ m = SubSeq(Line, 3, Len(Line))
          \/ \E s \in Sockets : m = Append(Line, s)
          \/ \E s \in Sockets : Contains(Line, s) /\ m = RemoveFirst(Line, s)
      BY <2>1, <2>3, SameOperators
      DEF Waiting!Next, Waiting!ServePair, Waiting!Join, Waiting!Leave
    <3> QED
      BY <2>2, <3>1, <3>2, OrderKept
  <2> QED
    BY <2>3 DEF Waiting!Precedes, InOrder
<1>2. Inv /\ [Next]_vars =>
        [\A p, q \in Sockets :
           Waiting!Precedes(p, q) /\ Waiting!Stands(p)' /\ Waiting!Stands(q)'
             => Waiting!Precedes(p, q)']_Line
  BY <1>1
<1> QED
  BY <1>2, Invariance, PTL DEF Spec, NobodyOvertakes, Waiting!NobodyOvertakes
=============================================================================
