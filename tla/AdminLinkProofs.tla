--------------------------- MODULE AdminLinkProofs ---------------------------
(***************************************************************************)
(* Theorems about AdminLink, for any number of pairs, breaks and faults.   *)
(***************************************************************************)
EXTENDS AdminLink, SequenceLemmas, FiniteSetTheorems, TLAPS

(* A round that has gone past the queue has a pair in hand.                *)
PairInHand == matchPc # "idle" => waiting > 0

(* Until something breaks, the socket never outlives its connection, and   *)
(* the game that is about to be told is on its way or has arrived.         *)
Arriving == ToSet(hosted) \cup ToSet(wire)

NothingLost ==
  breaks = 0 => /\ link \in {"closed", "open"}
                /\ matchPc = "tell" => room \in Arriving
                /\ told \subseteq Arriving

Inv == AdminLinkAssumption /\ TypeOK /\ PairInHand /\ NothingLost

-----------------------------------------------------------------------------
LEMMA InitInv ==
  ASSUME AdminLinkAssumption, Init
  PROVE  Inv
BY DEF AdminLinkAssumption, Init, Inv, TypeOK, PairInHand, NothingLost,
       Arriving, LinkStates, ToSet

(* Steps of the service that leave the wire alone.                         *)
LEMMA ServiceKeepsInv ==
  ASSUME Inv, NEW done \in BOOLEAN,
         Notify \/ Connect(done) \/ SendFails \/ Tell(done)
  PROVE  Inv'
<1> USE DEF Inv, AdminLinkAssumption, LinkStates, Goto, Fault, Connected,
            roomVars
<1>1. TypeOK' /\ PairInHand'
  <2>1. CASE Notify       BY <2>1 DEF Notify, TypeOK, PairInHand
  <2>2. CASE Connect(done) BY <2>2 DEF Connect, TypeOK, PairInHand
  <2>3. CASE SendFails    BY <2>3 DEF SendFails, TypeOK, PairInHand
  <2>4. CASE Tell(done)
    <3>1. waiting \in 1 .. Pairs /\ waiting' \in 0 .. Pairs
      BY <2>4 DEF Tell, TypeOK, PairInHand
    <3>2. told' \subseteq Nat
      <4>1. room \in Nat /\ told \subseteq Nat
        BY DEF TypeOK
      <4>2. told' = told \/ told' = told \cup {room}
        BY <2>4 DEF Tell
      <4>3. QED  BY <4>1, <4>2
    <3>3. faults' \in 0 .. MaxFaults
      BY <2>4 DEF Tell, TypeOK
    <3>4. QED  BY <2>4, <3>1, <3>2, <3>3 DEF Tell, TypeOK, PairInHand
  <2>5. QED  BY <2>1, <2>2, <2>3, <2>4
<1>2. Arriving' = Arriving
  BY DEF Notify, Connect, SendFails, Tell, Arriving
<1>3. NothingLost'
  BY <1>2 DEF Notify, Connect, SendFails, Tell, TypeOK, NothingLost
<1>4. AdminLinkAssumption'
  OBVIOUS
<1>5. QED  BY <1>1, <1>3, <1>4

(* The announcement is on the wire, or there had been a break before.      *)
LEMMA SendKeepsInv ==
  ASSUME Inv, Send
  PROVE  Inv'
<1> USE DEF Inv, AdminLinkAssumption, Send, Goto, roomVars
<1>1. TypeOK' /\ PairInHand'
  BY DEF TypeOK, LinkStates, PairInHand
<1>2. ASSUME breaks = 0
      PROVE  Arriving' = Arriving \cup {room}
  <2>1. wire' = Append(wire, room) /\ hosted' = hosted
    BY <1>2 DEF NothingLost
  <2>2. wire \in Seq(Nat) /\ room \in Nat
    BY DEF TypeOK
  <2>3. ToSet(wire') = ToSet(wire) \cup {room}
    BY <2>1, <2>2, ToSetAppend
  <2>4. QED  BY <2>1, <2>3 DEF Arriving
<1>3. NothingLost'
  BY <1>2 DEF NothingLost
<1>4. QED  BY <1>1, <1>3

(* What happens outside: an announcement that arrives leaves the wire, and *)
(* after a break nothing is claimed any more.                              *)
LEMMA OutsideKeepsInv ==
  ASSUME Inv, OutsideNext
  PROVE  Inv'
<1> USE DEF Inv, AdminLinkAssumption, LinkStates, roomVars
<1>1. CASE Host
  <2>1. TypeOK' /\ PairInHand'
    BY <1>1 DEF Host, TypeOK, PairInHand
  <2>2. Arriving' = Arriving
    <3>1. ToSet(wire) = {Head(wire)} \cup ToSet(wire')
      BY <1>1, ToSetHeadTail DEF Host, TypeOK
    <3>2. ToSet(hosted') = ToSet(hosted) \cup {Head(wire)}
      BY <1>1, ToSetAppend DEF Host, TypeOK
    <3>3. QED  BY <3>1, <3>2 DEF Arriving
  <2>3. QED  BY <1>1, <2>1, <2>2 DEF Host, NothingLost
<1>2. CASE \E still \in {"up", "down"} : Break(still)
  BY <1>2 DEF Break, TypeOK, PairInHand, NothingLost
<1>3. CASE Restart \/ ResetArrives
  <2>1. TypeOK' /\ PairInHand'
    BY <1>3 DEF Restart, ResetArrives, TypeOK, PairInHand
  <2>2. Arriving' = Arriving
    BY <1>3 DEF Restart, ResetArrives, Arriving
  <2>3. QED  BY <1>3, <2>1, <2>2 DEF Restart, ResetArrives, NothingLost
<1>4. QED  BY <1>1, <1>2, <1>3 DEF OutsideNext

LEMMA StepKeepsInv ==
  ASSUME Inv, [Next]_vars
  PROVE  Inv'
<1>1. CASE ServiceNext
  BY <1>1, ServiceKeepsInv, SendKeepsInv DEF ServiceNext
<1>2. CASE OutsideNext
  BY <1>2, OutsideKeepsInv
<1>3. CASE UNCHANGED vars
  BY <1>3 DEF vars, roomVars, Inv, AdminLinkAssumption, TypeOK, PairInHand,
              NothingLost, Arriving
<1>4. QED  BY <1>1, <1>2, <1>3 DEF Next

LEMMA InvAlways == Spec => []Inv
<1>1. Init => Inv
  BY AdminLinkAssumption, InitInv
<1>2. QED  BY <1>1, StepKeepsInv, PTL DEF Spec

-----------------------------------------------------------------------------
(* Type correctness of the link and of the rounds that use it.             *)
THEOREM TypeCorrect == Spec => []TypeOK
BY InvAlways, PTL DEF Inv

(* As long as nothing has broken, nobody is told of a game the dedicated   *)
(* server will not hear of, however often connects and sends to players    *)
(* fail (MatchmakingService.cpp:246-337).                                  *)
THEOREM NobodySentAstray == Spec => []ToldIsHosted
<1>1. Inv => ToldIsHosted
  BY DEF Inv, NothingLost, Arriving, ToldIsHosted
<1>2. QED  BY <1>1, InvAlways, PTL

(***************************************************************************)
(* A room is drawn anew before anybody is told of it, so the one in hand   *)
(* was never told before: that is what keeps the count of the games that   *)
(* were told in step with the pairs that have left the queue.              *)
(***************************************************************************)
NewGame ==
  /\ \A game \in told : game < room_counter
  /\ matchPc # "idle" => room < room_counter /\ room \notin told

EveryPairCounted == IsFiniteSet(told) /\ NewGame /\ OneGameEach

LEMMA InitCounted ==
  ASSUME AdminLinkAssumption, Init
  PROVE  EveryPairCounted
<1>1. IsFiniteSet(told) /\ Cardinality(told) = 0
  BY FS_EmptySet DEF Init
<1>2. QED
  BY <1>1 DEF AdminLinkAssumption, Init, EveryPairCounted, NewGame,
              OneGameEach

LEMMA NotifyKeepsCounted ==
  ASSUME Inv, EveryPairCounted, Notify
  PROVE  EveryPairCounted'
<1>1. /\ room_counter \in Nat
      /\ told \subseteq Nat
      /\ room' = room_counter
      /\ room_counter' = room_counter + 1
      /\ UNCHANGED <<told, waiting>>
  BY DEF Inv, TypeOK, Notify
<1>2. NewGame'
  BY <1>1 DEF EveryPairCounted, NewGame
<1>3. QED  BY <1>1, <1>2 DEF EveryPairCounted, OneGameEach

LEMMA TellKeepsCounted ==
  ASSUME Inv, EveryPairCounted, NEW done \in BOOLEAN, Tell(done)
  PROVE  EveryPairCounted'
<1> USE DEF EveryPairCounted
<1>1. UNCHANGED room_counter /\ matchPc' = "idle"
  BY DEF Tell, Goto, roomVars
<1>2. CASE done
  <2>1. told' = told \cup {room} /\ waiting' = waiting - 1
    BY <1>2 DEF Tell
  <2>2. room < room_counter /\ room \notin told
    BY DEF Tell, Goto, NewGame
  <2>3. /\ IsFiniteSet(told')
        /\ Cardinality(told') = Cardinality(told) + 1
    BY <2>1, <2>2, FS_AddElement
  <2>4. OneGameEach'
    <3>1. Cardinality(told) \in Nat /\ waiting \in Int /\ Pairs \in Int
      BY FS_CardinalityType DEF Inv, AdminLinkAssumption, TypeOK
    <3>2. QED  BY <2>1, <2>3, <3>1 DEF OneGameEach
  <2>5. NewGame'
    BY <1>1, <2>1, <2>2 DEF NewGame
  <2>6. QED  BY <2>3, <2>4, <2>5
<1>3. CASE ~done
  <2>1. UNCHANGED <<told, waiting>>
    BY <1>3 DEF Tell
  <2>2. QED  BY <1>1, <2>1 DEF NewGame, OneGameEach
<1>4. QED  BY <1>2, <1>3

LEMMA OthersKeepCounted ==
  ASSUME Inv, EveryPairCounted,
         \/ \E done \in BOOLEAN : Connect(done)
         \/ Send \/ SendFails \/ OutsideNext \/ UNCHANGED vars
  PROVE  EveryPairCounted'
<1>1. UNCHANGED <<told, waiting, room, room_counter>>
  BY DEF Connect, Send, SendFails, OutsideNext, Host, Break, Restart,
         ResetArrives, vars, roomVars
<1>2. matchPc' # "idle" => matchPc # "idle"
  BY DEF Connect, Send, SendFails, OutsideNext, Host, Break, Restart,
         ResetArrives, vars, Goto
<1>3. QED  BY <1>1, <1>2 DEF EveryPairCounted, NewGame, OneGameEach

(* However the link and the dedicated server break, and however often      *)
(* connecting, announcing and telling fail and the pair goes back to the   *)
(* front, no pair is lost, told twice or sent to another pair's game       *)
(* (MatchmakingService.cpp:229-342).                                       *)
THEOREM EveryPairItsGame == Spec => []OneGameEach
<1>1. Init => EveryPairCounted
  BY AdminLinkAssumption, InitCounted
<1>2. Inv /\ EveryPairCounted /\ [Next]_vars => EveryPairCounted'
  BY NotifyKeepsCounted, TellKeepsCounted, OthersKeepCounted
     DEF Next, ServiceNext
<1>3. EveryPairCounted => OneGameEach
  BY DEF EveryPairCounted
<1>4. QED  BY <1>1, <1>2, <1>3, InvAlways, PTL DEF Spec

-----------------------------------------------------------------------------
(***************************************************************************)
(* The dedicated server reads rooms in the order in which they were drawn, *)
(* because each room drawn and not yet sent is later than every room that  *)
(* has arrived or is under way: also when the attempt that drew it had to  *)
(* connect first, and when earlier attempts failed and used up theirs.     *)
(***************************************************************************)
Below(rooms, limit) == \A i \in 1 .. Len(rooms) : rooms[i] < limit

RoomsAscend ==
  /\ \A i \in 1 .. Len(wire) : \A j \in 1 .. Len(wire) :
       i < j => wire[i] < wire[j]
  /\ \A j \in 1 .. Len(wire) : Below(hosted, wire[j])
  /\ Below(wire, room_counter) /\ Below(hosted, room_counter)
  /\ matchPc \in {"connect", "send"} =>
       room < room_counter /\ Below(wire, room) /\ Below(hosted, room)

LEMMA NotifyKeepsAscending ==
  ASSUME Inv, RoomsAscend, Notify
  PROVE  RoomsAscend'
<1>1. /\ room_counter \in Nat
      /\ \A i \in 1 .. Len(wire) : wire[i] \in Nat
      /\ \A i \in 1 .. Len(hosted) : hosted[i] \in Nat
  BY DEF Inv, TypeOK
<1>2. /\ room' = room_counter
      /\ room_counter' = room_counter + 1
      /\ UNCHANGED <<wire, hosted>>
  BY DEF Notify
<1>3. QED  BY <1>1, <1>2 DEF RoomsAscend, Below

LEMMA SendKeepsAscending ==
  ASSUME Inv, RoomsAscend, Send
  PROVE  RoomsAscend'
<1>1. /\ UNCHANGED <<hosted, room, room_counter>>
      /\ matchPc = "send" /\ matchPc' = "tell"
  BY DEF Send, Goto, roomVars
<1>2. wire \in Seq(Nat) /\ room \in Nat
  BY DEF Inv, TypeOK
<1>3. CASE wire' = Append(wire, room)
  <2>1. /\ Len(wire') = Len(wire) + 1
        /\ \A i \in 1 .. Len(wire) : wire'[i] = wire[i]
        /\ wire'[Len(wire) + 1] = room
    BY <1>2, <1>3
  <2>2. Len(wire) \in Nat
    BY <1>2
  <2>3. \A i \in 1 .. Len(wire') : i \in 1 .. Len(wire) \/ i = Len(wire) + 1
    BY <2>1, <2>2
  <2>4. room < room_counter /\ Below(wire, room) /\ Below(hosted, room)
    BY <1>1 DEF RoomsAscend
  <2>5. \A i \in 1 .. Len(wire') : \A j \in 1 .. Len(wire') :
          i < j => wire'[i] < wire'[j]
    <3>1. SUFFICES ASSUME NEW i \in 1 .. Len(wire'), NEW j \in 1 .. Len(wire'),
                          i < j
                   PROVE  wire'[i] < wire'[j]
      OBVIOUS
    <3>2. i \in 1 .. Len(wire)
      BY <2>1, <2>2, <3>1
    <3>3. CASE j \in 1 .. Len(wire)
      BY <2>1, <3>1, <3>2, <3>3 DEF RoomsAscend
    <3>4. CASE j = Len(wire) + 1
      BY <2>1, <2>4, <3>2, <3>4 DEF Below
    <3>5. QED  BY <2>3, <3>3, <3>4
  <2>6. \A j \in 1 .. Len(wire') : Below(hosted, wire'[j])
    BY <2>1, <2>3, <2>4 DEF RoomsAscend
  <2>7. Below(wire', room_counter)
    BY <2>1, <2>3, <2>4 DEF RoomsAscend, Below
  <2>8. Below(wire, room_counter)'
    BY <1>1, <2>7 DEF Below
  <2>9. QED  BY <1>1, <2>5, <2>6, <2>8 DEF RoomsAscend, Below
<1>4. CASE wire' = wire
  BY <1>1, <1>4 DEF RoomsAscend, Below
<1>5. QED  BY <1>3, <1>4 DEF Send

(* The announcement read is later than all read before it, and earlier     *)
(* than those behind it.                                                   *)
LEMMA HostKeepsAscending ==
  ASSUME Inv, RoomsAscend, Host
  PROVE  Announcing!Host /\ RoomsAscend'
<1>1. /\ wire \in Seq(Nat) /\ wire # <<>>
      /\ hosted \in Seq(Nat)
      /\ hosted' = Append(hosted, wire[1])
      /\ wire' = Tail(wire)
      /\ UNCHANGED <<room, room_counter, matchPc>>
  BY DEF Inv, TypeOK, Host, roomVars
<1>2. /\ Len(hosted) \in Nat
      /\ Len(hosted') = Len(hosted) + 1
      /\ \A i \in 1 .. Len(hosted) : hosted'[i] = hosted[i]
      /\ hosted'[Len(hosted) + 1] = wire[1]
      /\ 1 \in 1 .. Len(wire)
  BY <1>1
<1>3. Below(hosted, wire[1])
  BY <1>2 DEF RoomsAscend
<1>4. Announcing!Host
  <2>1. Announcing!Latest' = wire[1]
    BY <1>2 DEF Announcing!Latest
  <2>2. QED  BY <1>1, <1>2, <1>3, <2>1 DEF Announcing!Host, Below
<1>5. /\ Len(wire') + 1 = Len(wire)
      /\ Len(wire') \in Nat
      /\ \A i \in 1 .. Len(wire') :
           wire'[i] = wire[i + 1] /\ i + 1 \in 1 .. Len(wire)
  BY <1>1
<1>6. \A i \in 1 .. Len(hosted') : i \in 1 .. Len(hosted) \/ i = Len(hosted) + 1
  BY <1>2
<1>7. \A i \in 1 .. Len(wire') : \A j \in 1 .. Len(wire') :
        i < j => wire'[i] < wire'[j]
  BY <1>5 DEF RoomsAscend
<1>8. \A j \in 1 .. Len(wire') : Below(hosted', wire'[j])
  <2>1. SUFFICES ASSUME NEW j \in 1 .. Len(wire'), NEW i \in 1 .. Len(hosted')
                 PROVE  hosted'[i] < wire'[j]
    BY DEF Below
  <2>2. CASE i \in 1 .. Len(hosted)
    BY <1>2, <1>5, <2>2 DEF RoomsAscend, Below
  <2>3. CASE i = Len(hosted) + 1
    <3>1. wire'[j] = wire[j + 1] /\ j + 1 \in 1 .. Len(wire) /\ 1 < j + 1
      BY <1>5
    <3>2. wire[1] < wire[j + 1]
      BY <1>2, <3>1 DEF RoomsAscend
    <3>3. QED  BY <1>2, <2>3, <3>1, <3>2
  <2>4. QED  BY <1>6, <2>2, <2>3
<1>9. ASSUME NEW limit, Below(wire, limit), Below(hosted, limit)
      PROVE  Below(wire', limit) /\ Below(hosted', limit)
  BY <1>2, <1>5, <1>6, <1>9 DEF Below
<1>10. Below(wire', room_counter) /\ Below(hosted', room_counter)
  BY <1>9 DEF RoomsAscend
<1>11. matchPc \in {"connect", "send"} =>
         room < room_counter /\ Below(wire', room) /\ Below(hosted', room)
  BY <1>9 DEF RoomsAscend
<1>12. RoomsAscend'
  BY <1>1, <1>7, <1>8, <1>10, <1>11 DEF RoomsAscend, Below
<1>13. QED  BY <1>4, <1>12

LEMMA BreakKeepsAscending ==
  ASSUME Inv, RoomsAscend, NEW still \in {"up", "down"}, Break(still)
  PROVE  RoomsAscend'
<1>1. wire' = <<>> /\ UNCHANGED <<hosted, room, room_counter, matchPc>>
  BY DEF Break, roomVars
<1>2. QED  BY <1>1 DEF RoomsAscend, Below

LEMMA OthersKeepAscending ==
  ASSUME Inv, RoomsAscend,
         \/ \E done \in BOOLEAN : Connect(done) \/ Tell(done)
         \/ SendFails \/ Restart \/ ResetArrives \/ UNCHANGED vars
  PROVE  RoomsAscend'
<1>1. UNCHANGED <<wire, hosted, room, room_counter>>
  BY DEF Connect, Tell, SendFails, Restart, ResetArrives, vars, roomVars
<1>2. matchPc' \in {"connect", "send"} => matchPc \in {"connect", "send"}
  BY DEF Connect, Tell, SendFails, Restart, ResetArrives, vars, Goto
<1>3. QED  BY <1>1, <1>2 DEF RoomsAscend, Below

(* Only Host adds to what has been read.                                   *)
LEMMA OthersHostNothing ==
  ASSUME \/ ServiceNext \/ Restart \/ ResetArrives \/ UNCHANGED vars
         \/ \E still \in {"up", "down"} : Break(still)
  PROVE  UNCHANGED hosted
BY DEF ServiceNext, Notify, Connect, Send, SendFails, Tell, Restart,
       ResetArrives, Break, vars

(* Breaks, reconnects and retries implement the abstract announcements:    *)
(* the rooms drawn at MatchmakingService.cpp:231, before the connection is *)
(* looked at, reach the dedicated server in that order and each once.      *)
THEOREM ImplementsAnnouncements == Spec => AnnouncesInOrder
<1>1. Init => Announcing!Init /\ RoomsAscend
  BY DEF Init, Announcing!Init, RoomsAscend, Below
<1>2. Inv /\ RoomsAscend /\ [Next]_vars =>
        RoomsAscend' /\ [Announcing!Host]_hosted
  BY NotifyKeepsAscending, SendKeepsAscending, HostKeepsAscending,
     BreakKeepsAscending, OthersKeepAscending, OthersHostNothing
     DEF Next, ServiceNext, OutsideNext
<1>3. QED
  BY <1>1, <1>2, InvAlways, PTL DEF Spec, AnnouncesInOrder, Announcing!Spec
=============================================================================
