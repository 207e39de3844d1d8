--------------------------- MODULE UpdateLoopProofs ---------------------------
(***************************************************************************)
(* Theorems about UpdateLoop, for any set of addresses and any bound on    *)
(* what may wait at a socket.                                              *)
(***************************************************************************)
EXTENDS UpdateLoop, SequenceLemmas, TLAPS

(* A round looks at no client twice.                                       *)
TodoDistinct == updatePc = "serve" => Distinct(todo)

Inv ==
  /\ UpdateLoopAssumption
  /\ TypeOK
  /\ BooksAgree
  /\ CopyIsLive
  /\ TodoDistinct

LEMMA InjectiveIsDistinct ==
  ASSUME NEW S, NEW q \in Seq(S)
  PROVE  IsInjective(q) <=> Distinct(q)
<1>1. DOMAIN q = 1 .. Len(q)
  OBVIOUS
<1>2. QED  BY <1>1 DEF IsInjective, Distinct

-----------------------------------------------------------------------------
LEMMA InitInv ==
  ASSUME UpdateLoopAssumption, Init
  PROVE  Inv
<1> USE DEF Init, UpdateLoopAssumption
<1>1. TypeOK
  <2>1. /\ backlog \in BOOLEAN
        /\ pieces \in [Sockets -> 0 .. MaxPieces]
        /\ gone \in [Sockets -> Ends]
    <3>1. backlog \in BOOLEAN
      OBVIOUS
    <3>2. 0 \in 0 .. MaxPieces /\ "no" \in Ends
      BY DEF Ends
    <3>3. QED  BY <3>1, <3>2, Zenon
  <2>2. QED  BY <2>1 DEF TypeOK, UpdatePcs
<1>2. BooksAgree
  BY DEF BooksAgree, ToSet, IsInjective
<1>3. QED  BY <1>1, <1>2 DEF Inv, CopyIsLive, TodoDistinct

(* Steps that leave the four books and the data of the sockets alone, and  *)
(* may take the first client off the list of the round.                    *)
LEMMA LookingKeepsInv ==
  ASSUME Inv, UNCHANGED socketVars, updatePc' \in UpdatePcs,
         backlog' \in BOOLEAN,
         pieces' \in [Sockets -> 0 .. MaxPieces], gone' \in [Sockets -> Ends],
         ready' \subseteq Sockets,
         \/ todo' = <<>>
         \/ todo' = clients /\ updatePc \notin {"thrown", "stopped"}
         \/ todo # <<>> /\ todo' = Tail(todo) /\ updatePc = "serve"
         \/ todo' = todo /\ (updatePc' = "serve" => updatePc = "serve"),
         updatePc \in {"thrown", "stopped"} => updatePc' = updatePc
  PROVE  Inv'
<1> USE DEF Inv, socketVars
<1>1. TypeOK'
  <2>1. todo' \in Seq(Sockets)
    <3>1. clients \in Seq(Sockets) /\ todo \in Seq(Sockets)
      BY DEF TypeOK
    <3>2. <<>> \in Seq(Sockets) /\ (todo # <<>> => Tail(todo) \in Seq(Sockets))
      BY <3>1
    <3>3. QED  BY <3>1, <3>2
  <2>2. /\ clients' \in Seq(Sockets)
        /\ selector' \subseteq Sockets
        /\ live' \subseteq Sockets
        /\ sessions' \subseteq Sockets
    BY DEF TypeOK
  <2>3. QED  BY <2>1, <2>2, Zenon DEF TypeOK
<1>2. BooksAgree'
  BY DEF BooksAgree
<1>3. ASSUME updatePc' = "serve"
      PROVE  ToSet(todo') \subseteq live' /\ Distinct(todo')
  <2>1. CASE todo' = <<>>
    BY <2>1 DEF ToSet, Distinct
  <2>2. CASE todo' = clients /\ updatePc \notin {"thrown", "stopped"}
    BY <2>2, InjectiveIsDistinct DEF BooksAgree, TypeOK
  <2>3. CASE todo # <<>> /\ todo' = Tail(todo) /\ updatePc = "serve"
    BY <2>3, DistinctTail, ToSetHeadTail DEF CopyIsLive, TodoDistinct, TypeOK
  <2>4. CASE todo' = todo /\ (updatePc' = "serve" => updatePc = "serve")
    BY <1>3, <2>4 DEF CopyIsLive, TodoDistinct
  <2>5. QED  BY <2>1, <2>2, <2>3, <2>4
<1>4. QED  BY <1>1, <1>2, <1>3 DEF CopyIsLive, TodoDistinct, UpdateLoopAssumption

LEMMA WaitKeepsInv ==
  ASSUME Inv, Wait \/ EndRound \/ AcceptThrows
  PROVE  Inv'
<1>1. /\ UNCHANGED socketVars
      /\ updatePc' \in UpdatePcs
      /\ ready' \subseteq Sockets
  BY DEF Inv, TypeOK, Wait, EndRound, AcceptThrows, Goto, UpdatePcs
<1>2. /\ backlog' \in BOOLEAN
      /\ pieces' \in [Sockets -> 0 .. MaxPieces]
      /\ gone' \in [Sockets -> Ends]
  BY DEF Inv, TypeOK, Wait, EndRound, AcceptThrows, peerVars
<1>3. /\ \/ todo' = <<>>
         \/ todo' = clients /\ updatePc \notin {"thrown", "stopped"}
         \/ todo' = todo /\ (updatePc' = "serve" => updatePc = "serve")
      /\ updatePc \in {"thrown", "stopped"} => updatePc' = updatePc
  BY DEF Wait, EndRound, AcceptThrows, Goto
<1>4. QED  BY <1>1, <1>2, <1>3, LookingKeepsInv

(* The loop looks at a client and leaves him where he is.                  *)
LEMMA LoopKeepsInv ==
  ASSUME Inv, NEW s \in Sockets,
         PassOver(s) \/ Receive(s) \/ ReceiveError(s) \/ DisconnectedThrows(s)
  PROVE  Inv'
<1> USE DEF PassOver, Receive, ReceiveError, DisconnectedThrows, Serves, At
<1>1. /\ UNCHANGED socketVars
      /\ updatePc' \in UpdatePcs
      /\ ready' \subseteq Sockets
      /\ backlog' \in BOOLEAN
      /\ gone' \in [Sockets -> Ends]
  BY DEF Inv, TypeOK, UpdatePcs, peerVars
<1>2. pieces' \in [Sockets -> 0 .. MaxPieces]
  <2>1. \/ UNCHANGED pieces
        \/ pieces[s] > 0 /\ pieces' = [pieces EXCEPT ![s] = @ - 1]
    BY DEF peerVars
  <2>2. pieces[s] > 0 => pieces[s] - 1 \in 0 .. MaxPieces
    BY DEF Inv, TypeOK, UpdateLoopAssumption
  <2>3. QED  BY <2>1, <2>2 DEF Inv, TypeOK
<1>3. /\ \/ todo # <<>> /\ todo' = Tail(todo) /\ updatePc = "serve"
         \/ todo' = todo /\ (updatePc' = "serve" => updatePc = "serve")
      /\ updatePc \in {"thrown", "stopped"} => updatePc' = updatePc
  OBVIOUS
<1>4. QED  BY <1>1, <1>2, <1>3, LookingKeepsInv

LEMMA PeersKeepInv ==
  ASSUME Inv, PeersNext \/ UNCHANGED vars
  PROVE  Inv'
<1>1. UNCHANGED <<socketVars, updatePc, ready, todo>>
  BY DEF PeersNext, PeerConnects, PeerSends, PeerEnds, vars
<1>2. backlog' \in BOOLEAN
  BY DEF Inv, TypeOK, PeersNext, PeerConnects, PeerSends, PeerEnds, vars, peerVars
<1>3. gone' \in [Sockets -> Ends]
  BY DEF Inv, TypeOK, PeersNext, PeerConnects, PeerSends, PeerEnds, vars, peerVars
<1>4. pieces' \in [Sockets -> 0 .. MaxPieces]
  <2>1. \/ UNCHANGED pieces
        \/ \E s \in Sockets : /\ pieces[s] < MaxPieces
                              /\ pieces' = [pieces EXCEPT ![s] = @ + 1]
    BY DEF PeersNext, PeerConnects, PeerSends, PeerEnds, vars, peerVars
  <2>2. \A s \in Sockets : pieces[s] < MaxPieces => pieces[s] + 1 \in 0 .. MaxPieces
    BY DEF Inv, TypeOK, UpdateLoopAssumption
  <2>3. QED  BY <2>1, <2>2 DEF Inv, TypeOK
<1>5. /\ updatePc' \in UpdatePcs
      /\ ready' \subseteq Sockets
      /\ todo' = todo
      /\ updatePc' = updatePc
      /\ UNCHANGED socketVars
  BY <1>1 DEF Inv, TypeOK
<1>6. QED  BY <1>2, <1>3, <1>4, <1>5, LookingKeepsInv

-----------------------------------------------------------------------------
LEMMA AcceptFailsKeepsInv ==
  ASSUME Inv, AcceptFails
  PROVE  Inv'
<1> USE DEF Inv, Goto
<1>1. /\ UNCHANGED socketVars
      /\ updatePc' \in UpdatePcs
      /\ ready' \subseteq Sockets
      /\ todo' = clients /\ updatePc \notin {"thrown", "stopped"}
  BY DEF AcceptFails, UpdatePcs, TypeOK
<1>2. /\ backlog' \in BOOLEAN
      /\ pieces' \in [Sockets -> 0 .. MaxPieces]
      /\ gone' \in [Sockets -> Ends]
  BY DEF AcceptFails, TypeOK
<1>3. QED  BY <1>1, <1>2, LookingKeepsInv

(* A new client comes into all four books at once, and into the round.     *)
LEMMA AcceptKeepsInv ==
  ASSUME Inv, NEW s \in Sockets, AcceptNewClient(s)
  PROVE  Inv'
<1> USE DEF Inv, Goto, AcceptNewClient, AddClient
<1>1. /\ clients \in Seq(Sockets)
      /\ clients' = Append(clients, s)
      /\ todo' = clients'
      /\ Distinct(clients)
      /\ ToSet(clients) = live
      /\ s \notin live
      /\ updatePc = "accept" /\ updatePc' = "serve"
  BY InjectiveIsDistinct DEF TypeOK, BooksAgree
<1>2. ToSet(clients') = live'
  BY <1>1, ToSetAppend
<1>3. Distinct(clients') /\ clients' \in Seq(Sockets)
  <2>1. ~Contains(clients, s)
    BY <1>1 DEF Contains, ToSet
  <2>2. QED  BY <1>1, <2>1, StaysDistinct
<1>4. BooksAgree'
  BY <1>1, <1>2, <1>3, InjectiveIsDistinct DEF BooksAgree
<1>5. CopyIsLive' /\ TodoDistinct'
  BY <1>1, <1>2, <1>3 DEF CopyIsLive, TodoDistinct
<1>6. TypeOK'
  <2>1. /\ clients' \in Seq(Sockets) /\ todo' \in Seq(Sockets)
        /\ updatePc' \in UpdatePcs
    BY <1>1, <1>3 DEF UpdatePcs
  <2>2. /\ selector' \subseteq Sockets /\ live' \subseteq Sockets
        /\ sessions' \subseteq Sockets
    BY DEF TypeOK
  <2>3. QED  BY <2>1, <2>2, Zenon DEF TypeOK
<1>7. QED  BY <1>4, <1>5, <1>6 DEF UpdateLoopAssumption

(* A client who is gone goes out of all four, and is not in what is left   *)
(* of the round, where nobody stands twice.                                *)
LEMMA RemoveKeepsInv ==
  ASSUME Inv, NEW s \in Sockets, ReceiveDisconnected(s)
  PROVE  Inv'
<1> USE DEF Inv, ReceiveDisconnected, Disconnected, Serves, At, RemoveClient
<1>1. /\ clients \in Seq(Sockets)
      /\ clients' = RemoveFirst(clients, s)
      /\ Distinct(clients)
      /\ ToSet(clients) = live
      /\ updatePc = "serve" /\ updatePc' = "serve"
      /\ todo \in Seq(Sockets) /\ todo # <<>> /\ s = Head(todo)
      /\ todo' = Tail(todo)
      /\ Distinct(todo)
      /\ ToSet(todo) \subseteq live
  BY InjectiveIsDistinct DEF TypeOK, BooksAgree, CopyIsLive, TodoDistinct
<1>2. /\ clients' \in Seq(Sockets)
      /\ Distinct(clients')
      /\ ToSet(clients') = live'
  <2>1. clients' \in Seq(Sockets)
    BY <1>1, RemoveFirstType
  <2>2. Distinct(clients')
    BY <1>1, StaysDistinct
  <2>3. ToSet(clients') = ToSet(clients) \ {s}
    BY <1>1, ToSetRemoveFirst
  <2>4. QED  BY <1>1, <2>1, <2>2, <2>3
<1>3. BooksAgree'
  BY <1>1, <1>2, InjectiveIsDistinct DEF BooksAgree
<1>4. /\ todo' \in Seq(Sockets)
      /\ Distinct(todo')
      /\ ToSet(todo') \subseteq live'
  <2>1. ToSet(todo) = {s} \cup ToSet(todo')
    BY <1>1, ToSetHeadTail
  <2>2. Distinct(todo') /\ s \notin ToSet(todo')
    BY <1>1, DistinctTail
  <2>3. QED  BY <1>1, <2>1, <2>2
<1>5. CopyIsLive' /\ TodoDistinct'
  BY <1>4 DEF CopyIsLive, TodoDistinct
<1>6. TypeOK'
  <2>1. pieces' \in [Sockets -> 0 .. MaxPieces] /\ gone' \in [Sockets -> Ends]
    <3>1. 0 \in 0 .. MaxPieces /\ "no" \in Ends
      BY DEF UpdateLoopAssumption, Ends
    <3>2. QED  BY <3>1 DEF TypeOK
  <2>2. /\ selector' \subseteq Sockets /\ live' \subseteq Sockets
        /\ sessions' \subseteq Sockets /\ updatePc' \in UpdatePcs
        /\ ready' \subseteq Sockets
    BY DEF TypeOK
  <2>3. QED  BY <1>2, <1>4, <2>1, <2>2, Zenon DEF TypeOK
<1>7. QED  BY <1>3, <1>5, <1>6 DEF UpdateLoopAssumption

LEMMA StopKeepsInv ==
  ASSUME Inv, StopListener
  PROVE  Inv'
<1> USE DEF Inv, StopListener, Goto
<1>1. TypeOK'
  <2>1. /\ clients' \in Seq(Sockets) /\ todo' \in Seq(Sockets)
        /\ updatePc' \in UpdatePcs
    BY DEF TypeOK, UpdatePcs
  <2>2. QED  BY <2>1, Zenon DEF TypeOK, peerVars
<1>2. QED
  BY <1>1 DEF BooksAgree, CopyIsLive, TodoDistinct, UpdateLoopAssumption

LEMMA StepKeepsInv ==
  ASSUME Inv, [Next]_vars
  PROVE  Inv'
BY WaitKeepsInv, LoopKeepsInv, PeersKeepInv, AcceptFailsKeepsInv,
   AcceptKeepsInv, RemoveKeepsInv, StopKeepsInv DEF Next, ServerNext

LEMMA InvAlways == Spec => []Inv
<1>1. Init => Inv
  BY UpdateLoopAssumption, InitInv
<1>2. QED  BY <1>1, StepKeepsInv, PTL DEF Spec

-----------------------------------------------------------------------------
(* Type correctness of the four books and of the round.                    *)
THEOREM TypeCorrect == Spec => []TypeOK
BY InvAlways, PTL DEF Inv

(* Until the listener stops or the process ends, the list of clients, the  *)
(* selector, the sockets in memory and the sessions name the same clients, *)
(* each once (ServerTCP.cpp:115-151, Server.cpp:92-130).                   *)
THEOREM BooksAlwaysAgree == Spec => []BooksAgree
BY InvAlways, PTL DEF Inv

(* The loop over the copy of the list never follows a pointer to a deleted *)
(* socket, whoever disconnects during the round (ServerTCP.cpp:62-91).     *)
THEOREM CopyStaysLive == Spec => []CopyIsLive
BY InvAlways, PTL DEF Inv
=============================================================================
