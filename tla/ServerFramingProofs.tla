-------------------------- MODULE ServerFramingProofs --------------------------
(***************************************************************************)
(* Theorems about ServerFraming, for any room in the buffers.              *)
(***************************************************************************)
EXTENDS ServerFraming, TLAPS

(* What each thread sends, and when: before a client's login is answered   *)
(* nothing of the queue or of a round leads to him, unless he is an heir.  *)
Outsider == queued = 0 /\ hand = {}

States == {"CONNECTED", "AWAITING_CREDENTIALS", "LOGGED_IN",
           "IN_MATCHMAKING_QUEUE", "MATCHED", NoSession}

Senders ==
  /\ ~heir /\ state \in {"CONNECTED", "AWAITING_CREDENTIALS"} => Outsider
  /\ sending["matchmaking"] # Nothing =>
       sending["matchmaking"][1] = "S_MATCH_FOUND" /\ hand # {}
  /\ sending["server"] # Nothing =>
       /\ sending["server"][1] # "S_MATCH_FOUND"
       /\ ~heir /\ sending["server"][1] # "S_ADDED_TO_MATCHMAKING_QUEUE" =>
            Outsider

Inv == FramingAssumption /\ TypeOK /\ Senders

-----------------------------------------------------------------------------
LEMMA NothingIsNoPiece == Nothing \notin Pieces
BY DEF Nothing, NoPacket, Pieces, PacketTypes

LEMMA InitInv ==
  ASSUME FramingAssumption, Init
  PROVE  Inv
<1>1. TypeOK
  <2>1. sending \in [Threads -> Pieces \cup {Nothing}]
    BY DEF Init
  <2>2. stream \in Seq(Pieces) /\ Len(stream) <= Room /\ queued \in 0 .. 1
    BY DEF Init, FramingAssumption
  <2>3. /\ leaving \in BOOLEAN /\ garbled \in BOOLEAN
        /\ overlapped \in BOOLEAN /\ heir \in BOOLEAN
        /\ received \subseteq PacketTypes
        /\ reading \in PacketTypes \cup {NoPacket}
    BY DEF Init
  <2>4. QED  BY <2>1, <2>2, <2>3 DEF TypeOK, Init
<1>2. Senders
  BY DEF Init, Senders, Outsider, Threads, NoSession
<1>3. QED  BY <1>1, <1>2 DEF Inv

(* A packet is handed to sendToClient.                                     *)
LEMMA SendTypes ==
  ASSUME TypeOK, NEW t \in Threads, NEW type \in PacketTypes, Send(t, type)
  PROVE  /\ sending' \in [Threads -> Pieces \cup {Nothing}]
         /\ sending'[t] = <<type, "head">>
         /\ \A u \in Threads \ {t} : sending'[u] = sending[u]
         /\ overlapped' \in BOOLEAN
         /\ UNCHANGED <<stream, clientSide, heir>>
<1>1. <<type, "head">> \in Pieces
  BY DEF Pieces
<1>2. QED  BY <1>1 DEF TypeOK, Send

-----------------------------------------------------------------------------
(* A newcomer nothing leads to is an outsider; the others are heirs.       *)
LEMMA AcceptKeepsInv ==
  ASSUME Inv, Accept
  PROVE  Inv'
<1>1. /\ state' = "CONNECTED"
      /\ hand' \subseteq Leads /\ hand \subseteq hand'
      /\ heir' = (queued = 1 \/ hand' # {})
      /\ UNCHANGED <<queued, leaving, told, stream, clientSide>>
  BY DEF Accept, Inv, TypeOK, Leads
<1>2. /\ sending' \in [Threads -> Pieces \cup {Nothing}]
      /\ sending'["server"] = <<"S_MAP_DATA", "head">>
      /\ sending'["matchmaking"] = sending["matchmaking"]
  BY DEF Accept, Inv, TypeOK, Threads, Pieces, PacketTypes
<1>3. TypeOK'
  <2>1. overlapped' \in BOOLEAN /\ heir' \in BOOLEAN
    BY <1>1 DEF Accept
  <2>2. /\ garbled' \in BOOLEAN /\ leaving' \in BOOLEAN
        /\ told' \in {"no", "sent", "failed"}
    BY <1>1 DEF Inv, TypeOK, clientSide
  <2>3. QED  BY <1>1, <1>2, <2>1, <2>2 DEF Inv, TypeOK, clientSide
<1>4. Senders'
  <2>1. queued' = queued /\ queued \in 0 .. 1
    BY <1>1 DEF Inv, TypeOK
  <2>2. ~heir' => queued' = 0 /\ hand' = {}
    <3>1. queued = 1 \/ hand' # {} => heir'
      BY Zenon DEF Accept
    <3>2. QED  BY <2>1, <3>1
  <2>3. ~heir' => Outsider'
    BY <2>2 DEF Outsider
  <2>4. QED  BY <1>1, <1>2, <2>3 DEF Inv, Senders
<1>5. QED  BY <1>3, <1>4 DEF Inv, FramingAssumption

LEMMA DisconnectKeepsInv ==
  ASSUME Inv, Disconnect
  PROVE  Inv'
<1>1. /\ state' = NoSession
      /\ sending["server"] = Nothing
      /\ hand' \subseteq Leads /\ (hand # {} => hand' # {})
      /\ UNCHANGED <<queued, leaving, told, sending>>
  BY DEF Disconnect, ServerIdle, Inv, TypeOK, Leads
<1>2. TypeOK'
  <2>1. /\ stream' = <<>> /\ reading' = NoPacket /\ received' = {}
        /\ garbled' = FALSE /\ overlapped' = FALSE /\ heir' = FALSE
    BY DEF Disconnect
  <2>2. /\ stream' \in Seq(Pieces) /\ Len(stream') <= Room
        /\ received' \subseteq PacketTypes
    BY <2>1 DEF Inv, FramingAssumption
  <2>3. /\ garbled' \in BOOLEAN /\ overlapped' \in BOOLEAN /\ heir' \in BOOLEAN
        /\ leaving' \in BOOLEAN
    BY <1>1, <2>1 DEF Inv, TypeOK
  <2>4. QED  BY <1>1, <2>1, <2>2, <2>3 DEF Inv, TypeOK
<1>3. Senders'
  BY <1>1 DEF Inv, Senders, NoSession
<1>4. QED  BY <1>2, <1>3 DEF Inv, FramingAssumption

(* The server thread calls sendToClient: with the reply to a login, while  *)
(* the client is an outsider, or with the confirmation of his entry.       *)
LEMMA ServerSendsKeepsInv ==
  ASSUME Inv, AddClientToQueue \/
              \E type \in {"S_LOGIN_OK", "S_LOGIN_FAIL"} : LogIn(type)
  PROVE  Inv'
<1>1. PICK type \in PacketTypes :
        /\ Send("server", type)
        /\ type # "S_MATCH_FOUND"
        /\ type # "S_ADDED_TO_MATCHMAKING_QUEUE" =>
             state = "AWAITING_CREDENTIALS" /\ UNCHANGED queued
  BY DEF AddClientToQueue, LogIn, PacketTypes
<1>2. /\ state' \in {"AWAITING_CREDENTIALS", "LOGGED_IN", "IN_MATCHMAKING_QUEUE"}
      /\ state' = "AWAITING_CREDENTIALS" =>
           state = "AWAITING_CREDENTIALS" /\ UNCHANGED queued
      /\ queued' \in 0 .. 1
      /\ UNCHANGED <<leaving, hand, told>>
  BY DEF AddClientToQueue, LogIn, Inv, TypeOK
<1>3. /\ sending' \in [Threads -> Pieces \cup {Nothing}]
      /\ sending'["server"][1] = type
      /\ sending'["matchmaking"] = sending["matchmaking"]
      /\ overlapped' \in BOOLEAN
      /\ UNCHANGED <<stream, clientSide, heir>>
  BY <1>1, SendTypes DEF Threads, Inv
<1>4. TypeOK'
  <2>1. UNCHANGED <<reading, received, garbled>>
    BY <1>3 DEF clientSide
  <2>2. /\ leaving' \in BOOLEAN /\ garbled' \in BOOLEAN
        /\ overlapped' \in BOOLEAN /\ heir' \in BOOLEAN
    BY <1>2, <1>3, <2>1 DEF Inv, TypeOK
  <2>3. QED  BY <1>2, <1>3, <2>1, <2>2 DEF Inv, TypeOK
<1>5. Senders'
  BY <1>1, <1>2, <1>3 DEF Inv, Senders, Outsider
<1>6. QED  BY <1>4, <1>5 DEF Inv, FramingAssumption

(* The steps of the matchmaking thread, and leaving the queue.             *)
LEMMA QueueKeepsInv ==
  ASSUME Inv, LeaveQueue \/ TakeClient \/ GiveBack
  PROVE  Inv'
<1> USE DEF Inv, LeaveQueue, TakeClient, GiveBack, MutexFree
<1>1. UNCHANGED <<told, sending, stream, clientSide, overlapped, heir>>
  OBVIOUS
<1>2. /\ state' \in States
      /\ queued' \in 0 .. 1
      /\ hand' \subseteq Leads
  <2>1. state' \in States /\ queued' \in 0 .. 1
    BY DEF TypeOK, States
  <2>2. hand' = hand \/ hand' = {"entry", "session"}
    OBVIOUS
  <2>3. hand' \subseteq Leads
    BY <2>2 DEF TypeOK, Leads
  <2>4. QED  BY <2>1, <2>3
<1>3. leaving' \in BOOLEAN
  BY DEF TypeOK
<1>4. TypeOK'
  BY <1>1, <1>2, <1>3 DEF TypeOK, clientSide, States
<1>5. Senders'
  BY <1>1 DEF Senders, Outsider, NoSession
<1>6. QED  BY <1>4, <1>5 DEF FramingAssumption

(* A round that had something of this address in hand ends.                *)
LEMMA RoundEndKeepsInv ==
  ASSUME Inv, PutBack \/ Settle
  PROVE  Inv'
<1> USE DEF PutBack, Settle
<1>1. /\ UNCHANGED <<leaving, sending, stream, clientSide, overlapped, heir>>
      /\ sending["matchmaking"] = Nothing
      /\ hand # {} /\ hand' = {}
  OBVIOUS
<1>2. /\ state' \in {state, "LOGGED_IN", "IN_MATCHMAKING_QUEUE", "MATCHED"}
      /\ queued' \in {queued, 1}
      /\ told' = "no"
  OBVIOUS
<1>3. TypeOK'
  <2>1. state' \in States /\ queued' \in 0 .. 1
    BY <1>2 DEF States, Inv, TypeOK
  <2>2. leaving' \in BOOLEAN
    BY <1>1 DEF Inv, TypeOK
  <2>3. QED  BY <1>1, <1>2, <2>1, <2>2 DEF Inv, TypeOK, clientSide, States
<1>4. Senders'
  <2>1. ~Outsider
    BY <1>1 DEF Outsider
  <2>2. QED  BY <1>1, <1>2, <2>1 DEF Inv, Senders
<1>5. QED  BY <1>3, <1>4 DEF Inv, FramingAssumption

LEMMA TellKeepsInv ==
  ASSUME Inv, TellPlayer
  PROVE  Inv'
<1>1. /\ sending' \in [Threads -> Pieces \cup {Nothing}]
      /\ sending'["matchmaking"][1] = "S_MATCH_FOUND"
      /\ sending'["server"] = sending["server"]
      /\ overlapped' \in BOOLEAN
      /\ UNCHANGED <<stream, clientSide, heir, serverSide>>
  BY SendTypes DEF Inv, TellPlayer, Threads, PacketTypes
<1>2. TypeOK'
  BY <1>1 DEF Inv, TypeOK, clientSide, serverSide
<1>3. Senders'
  BY <1>1 DEF Inv, TellPlayer, Senders, Outsider, serverSide
<1>4. QED  BY <1>2, <1>3 DEF Inv, FramingAssumption

(* sendToClient returns, to the server thread or the matchmaking thread.   *)
LEMMA SentKeepsSenders ==
  ASSUME Inv, NEW t \in Threads, sending[t] # Nothing, NEW done \in BOOLEAN,
         Sent(sending[t][1], done), sending' = [sending EXCEPT ![t] = Nothing],
         UNCHANGED heir
  PROVE  /\ Senders'
         /\ state' \in States
         /\ leaving' \in BOOLEAN
         /\ told' \in {"no", "sent", "failed"}
         /\ UNCHANGED <<queued, hand>>
<1>1. /\ sending'[t] = Nothing
      /\ \A u \in Threads \ {t} : sending'[u] = sending[u]
  BY DEF Inv, TypeOK
<1>2. CASE t = "matchmaking"
  <2>1. /\ sending["matchmaking"][1] = "S_MATCH_FOUND"
        /\ sending'["matchmaking"] = Nothing
        /\ sending'["server"] = sending["server"]
    BY <1>1, <1>2 DEF Inv, Senders, Threads
  <2>2. /\ UNCHANGED <<state, queued, leaving, hand>>
        /\ told' \in {"sent", "failed"}
    BY <1>2, <2>1 DEF Sent
  <2>3. Senders'
    BY <2>1, <2>2 DEF Senders, Inv, Outsider
  <2>4. QED  BY <2>2, <2>3 DEF Inv, TypeOK, States
<1>3. CASE t = "server"
  <2>1. /\ sending["server"][1] # "S_MATCH_FOUND"
        /\ ~heir /\ sending["server"][1] # "S_ADDED_TO_MATCHMAKING_QUEUE" => Outsider
        /\ sending'["server"] = Nothing
        /\ sending'["matchmaking"] = sending["matchmaking"]
    BY <1>1, <1>3 DEF Inv, Senders, Threads
  <2>2. /\ UNCHANGED <<queued, hand, told>>
        /\ leaving' = leaving \/ leaving' = TRUE
        /\ \/ state' = state
           \/ state' = "LOGGED_IN"
           \/ state' = "AWAITING_CREDENTIALS" /\ (~heir => Outsider)
    BY <1>3, <2>1 DEF Sent, serverSide
  <2>3. Senders'
    BY <2>1, <2>2 DEF Senders, Inv, Outsider
  <2>4. QED  BY <2>2, <2>3 DEF Inv, TypeOK, States
<1>4. QED  BY <1>2, <1>3 DEF Threads

LEMMA WriteKeepsInv ==
  ASSUME Inv, NEW t \in Threads, Write(t) \/ WriteFails(t)
  PROVE  Inv'
<1>1. /\ sending[t] # Nothing
      /\ sending \in [Threads -> Pieces \cup {Nothing}]
      /\ sending[t] \in Pieces
  BY DEF Write, WriteFails, Inv, TypeOK
<1>2. stream' \in Seq(Pieces) /\ Len(stream') <= Room
  <2>1. CASE WriteFails(t)
    BY <2>1 DEF WriteFails, Inv, TypeOK
  <2>2. CASE Write(t)
    <3>1. PICK piece \in InBuffer(t) : stream' = Append(stream, piece)
      BY <2>2 DEF Write
    <3>2. piece \in Pieces
      BY <1>1 DEF InBuffer
    <3>3. QED  BY <2>2, <3>1, <3>2 DEF Write, Inv, TypeOK, FramingAssumption
  <2>3. QED  BY <2>1, <2>2
<1>3. UNCHANGED <<clientSide, overlapped, heir>>
  BY DEF Write, WriteFails, Inv, TypeOK
<1>4. CASE \E done \in BOOLEAN :
             Sent(sending[t][1], done) /\ sending' = [sending EXCEPT ![t] = Nothing]
  <2>1. /\ Senders' /\ sending' \in [Threads -> Pieces \cup {Nothing}]
        /\ state' \in States /\ leaving' \in BOOLEAN
        /\ told' \in {"no", "sent", "failed"}
        /\ UNCHANGED <<queued, hand>>
    BY <1>1, <1>3, <1>4, SentKeepsSenders
  <2>2. TypeOK'
    BY <1>2, <1>3, <2>1 DEF Inv, TypeOK, clientSide, States
  <2>3. QED  BY <2>1, <2>2 DEF Inv, FramingAssumption
<1>5. CASE /\ sending' = [sending EXCEPT ![t] = <<@[1], "tail">>]
           /\ UNCHANGED serverSide
  <2>1. sending[t][1] \in PacketTypes /\ <<sending[t][1], "tail">> \in Pieces
    BY <1>1 DEF Pieces
  <2>2. /\ sending' \in [Threads -> Pieces \cup {Nothing}]
        /\ sending'[t] # Nothing
        /\ sending'[t][1] = sending[t][1]
        /\ \A u \in Threads \ {t} : sending'[u] = sending[u]
    BY <1>1, <1>5, <2>1, NothingIsNoPiece
  <2>3. TypeOK'
    BY <1>2, <1>3, <1>5, <2>2 DEF Inv, TypeOK, clientSide, serverSide
  <2>4. Senders'
    <3>1. /\ sending'["matchmaking"][1] = sending["matchmaking"][1]
          /\ sending'["matchmaking"] # Nothing => sending["matchmaking"] # Nothing
          /\ sending'["server"][1] = sending["server"][1]
          /\ sending'["server"] # Nothing => sending["server"] # Nothing
      BY <1>1, <2>2 DEF Threads
    <3>2. UNCHANGED <<state, queued, hand, heir>>
      BY <1>3, <1>5 DEF serverSide
    <3>3. Outsider' = Outsider
      BY <3>2 DEF Outsider
    <3>4. Senders
      BY DEF Inv
    <3>5. QED  BY <3>1, <3>2, <3>3, <3>4 DEF Senders
  <2>5. QED  BY <2>3, <2>4 DEF Inv, FramingAssumption
<1>6. QED  BY <1>4, <1>5 DEF Write, WriteFails

LEMMA ReadKeepsInv ==
  ASSUME Inv, Read
  PROVE  Inv'
<1>1. /\ stream' \in Seq(Pieces)
      /\ Len(stream') <= Room
      /\ Head(stream)[1] \in PacketTypes
  <2>1. /\ Head(stream) \in Pieces
        /\ Tail(stream) \in Seq(Pieces)
        /\ Len(Tail(stream)) = Len(stream) - 1
    BY DEF Read, Inv, TypeOK
  <2>2. Len(stream) \in Nat /\ Len(stream) <= Room
    BY DEF Inv, TypeOK
  <2>3. QED  BY <2>1, <2>2 DEF Read, Pieces, Inv, FramingAssumption
<1>2. garbled' \in BOOLEAN
  BY DEF Read, Inv, TypeOK
<1>3. reading' \in PacketTypes \cup {NoPacket} /\ received' \subseteq PacketTypes
  BY <1>1 DEF Read, Inv, TypeOK
<1>4. UNCHANGED <<serverSide, sending, overlapped, heir>>
  BY DEF Read
<1>5. TypeOK'
  BY <1>1, <1>2, <1>3, <1>4 DEF Inv, TypeOK, serverSide
<1>6. Senders'
  BY <1>4 DEF Inv, Senders, Outsider, serverSide
<1>7. QED  BY <1>5, <1>6 DEF Inv, FramingAssumption

LEMMA StepKeepsInv ==
  ASSUME Inv, [Next]_vars
  PROVE  Inv'
<1>1. CASE UNCHANGED vars
  BY <1>1 DEF vars, serverSide, clientSide, Inv, FramingAssumption, TypeOK,
              Senders, Outsider
<1>2. QED
  BY <1>1, AcceptKeepsInv, DisconnectKeepsInv, ServerSendsKeepsInv,
     QueueKeepsInv, RoundEndKeepsInv, TellKeepsInv, WriteKeepsInv, ReadKeepsInv
     DEF Next

LEMMA InvAlways == Spec => []Inv
<1>1. Init => Inv
  BY FramingAssumption, InitInv
<1>2. QED  BY <1>1, StepKeepsInv, PTL DEF Spec

-----------------------------------------------------------------------------
(* Type correctness of one client's stream and of those who write it.      *)
THEOREM TypeCorrect == Spec => []TypeOK
BY InvAlways, PTL DEF Inv

(* When both threads send to one client at once, the server thread is      *)
(* confirming his place in the queue: no other of its packets can meet an  *)
(* S_MATCH_FOUND (ServerTCP.cpp:97-109), if neither the queue nor a round  *)
(* led to the client's address or memory when he came.  Addresses and      *)
(* memory may be given out again at any time.                              *)
THEOREM OnlyConfirmationsMeetMatches == Spec => []OnlyConfirmationsOverlap
<1>1. Inv => OnlyConfirmationsOverlap
  BY DEF Inv, Senders, Outsider, OnlyConfirmationsOverlap, Threads
<1>2. QED  BY <1>1, InvAlways, PTL
=============================================================================
