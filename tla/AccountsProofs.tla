---------------------------- MODULE AccountsProofs ----------------------------
(***************************************************************************)
(* Theorems about Accounts, for any sets of clients, nicknames and         *)
(* passwords, any number of failing statements, and a table that may or    *)
(* may not refuse a second row for a nickname.                             *)
(***************************************************************************)
EXTENDS Accounts, TLAPS

(* A request is served for a client who has a session and is not yet in.   *)
Serving ==
  authPc # "idle" => client \in Clients /\ session[client] = Nobody

(* Between the two statements of a registration its nickname stays free,   *)
(* or has come into doubt.                                                 *)
StillFree ==
  authPc = "registerUser" /\ Exists(player.nickname) =>
    player.nickname \in doubtful

Inv ==
  AccountsAssumption /\ TypeOK /\ Serving /\ AnswersAreTrue /\ StillFree /\ TakenOnce

-----------------------------------------------------------------------------
(* Rows and doubts are only ever added.                                    *)
Grows ==
  /\ usuaris' \in [Nicknames -> SUBSET Passwords]
  /\ \A n \in Nicknames : usuaris[n] \subseteq usuaris'[n]
  /\ errors' \in {errors, errors + 1}
  /\ errors' \in 0 .. MaxErrors
  /\ doubtful \subseteq doubtful'
  /\ doubtful' \subseteq Nicknames

(* So what was true stays true.                                            *)
LEMMA TruthStays ==
  ASSUME TypeOK, Grows, NEW p \in Player, NEW reply, IsTrue(p, reply)
  PROVE  IsTrue(p, reply)'
<1>1. p.nickname \in Nicknames /\ errors \in Nat
  BY DEF Player, TypeOK
<1>2. errors' = 0 => errors = 0
  BY <1>1 DEF Grows
<1>3. Matches(p) => Matches(p)'
  BY <1>1 DEF Matches, Grows
<1>4. Exists(p.nickname) => Exists(p.nickname)'
  BY <1>1 DEF Exists, Grows
<1>5. QED  BY <1>2, <1>3, <1>4 DEF IsTrue

LEMMA TableAsBefore ==
  ASSUME TypeOK, UNCHANGED usuaris, doubtful \subseteq doubtful', TakenOnce
  PROVE  TakenOnce'
BY DEF TakenOnce, OneRow

(* Adding a row to a nickname that is free or in doubt.                    *)
LEMMA InsertAdds ==
  ASSUME TypeOK, TakenOnce, NEW p \in Player, Insert(p),
         doubtful \subseteq doubtful',
         Exists(p.nickname) => p.nickname \in doubtful'
  PROVE  /\ usuaris' \in [Nicknames -> SUBSET Passwords]
         /\ \A n \in Nicknames : usuaris[n] \subseteq usuaris'[n]
         /\ Matches(p)'
         /\ TakenOnce'
<1>1. p.nickname \in Nicknames /\ p.password \in Passwords
  BY DEF Player
<1>2. /\ usuaris'[p.nickname] = usuaris[p.nickname] \cup {p.password}
      /\ \A n \in Nicknames \ {p.nickname} : usuaris'[n] = usuaris[n]
      /\ usuaris' \in [Nicknames -> SUBSET Passwords]
  BY <1>1 DEF TypeOK, Insert
<1>3. ASSUME NEW n \in Nicknames, n \notin doubtful'
      PROVE  OneRow(n)'
  <2>1. CASE n = p.nickname
    <3>1. usuaris[n] = {}
      BY <1>3, <2>1 DEF Exists
    <3>2. QED  BY <1>2, <2>1, <3>1 DEF OneRow
  <2>2. CASE n # p.nickname
    BY <1>2, <1>3, <2>2 DEF TakenOnce, OneRow
  <2>3. QED  BY <2>1, <2>2
<1>4. QED  BY <1>1, <1>2, <1>3 DEF Matches, TakenOnce

-----------------------------------------------------------------------------
LEMMA InitInv ==
  ASSUME AccountsAssumption, Init
  PROVE  Inv
BY DEF AccountsAssumption, Init, Inv, TypeOK, Serving, AnswersAreTrue,
       StillFree, TakenOnce, OneRow

LEMMA InHand ==
  ASSUME Inv, authPc # "idle"
  PROVE  player \in Player
BY DEF Inv, TypeOK

LEMMA ErrorCounts ==
  ASSUME Inv, Error \/ UNCHANGED errors
  PROVE  errors' \in {errors, errors + 1} /\ errors' \in 0 .. MaxErrors
<1>1. errors \in 0 .. MaxErrors /\ MaxErrors \in Nat
  BY DEF Inv, TypeOK, AccountsAssumption
<1>2. QED  BY <1>1 DEF Error

(* The end of a request keeps the invariant if what it answers is true.    *)
LEMMA AnswerKeepsInv ==
  ASSUME Inv, authPc # "idle", NEW p \in Player, p = player,
         NEW reply \in Replies, NEW ok \in BOOLEAN, Answer(reply, ok),
         Grows, TakenOnce', IsTrue(p, reply)'
  PROVE  Inv'
<1> DEFINE answer == [player |-> p, reply |-> reply]
<1>1. client \in Clients /\ answer \in Answers
  BY DEF Inv, Serving, Answers
<1>2. TypeOK'
  <2>1. session' \in [Clients -> Player \cup {Nobody}]
    BY DEF Inv, TypeOK, Answer
  <2>2. told' \in [Clients -> Answers \cup {Nobody}]
    BY <1>1 DEF Inv, TypeOK, Answer
  <2>3. QED  BY <2>1, <2>2 DEF TypeOK, Answer, Grows
<1>3. AnswersAreTrue'
  <2>1. SUFFICES ASSUME NEW c \in Clients, told'[c] # Nobody
                 PROVE  IsTrue(told[c].player, told[c].reply)'
    BY DEF AnswersAreTrue
  <2>2. CASE told'[c] = told[c]
    <3>1. told[c].player \in Player
      BY <2>1, <2>2 DEF Inv, TypeOK, Answers
    <3>2. IsTrue(told[c].player, told[c].reply)
      BY <2>1, <2>2 DEF Inv, AnswersAreTrue
    <3>3. QED
      BY <2>2, <3>1, <3>2, TruthStays DEF Inv, IsTrue, Matches, Exists
  <2>3. CASE told'[c] = answer
    BY <2>3 DEF IsTrue, Matches, Exists
  <2>4. told'[c] = told[c] \/ told'[c] = answer
    BY <1>1 DEF Answer, Inv, TypeOK
  <2>5. QED  BY <2>2, <2>3, <2>4
<1>4. QED
  BY <1>2, <1>3 DEF Inv, AccountsAssumption, Serving, StillFree, Answer

LEMMA ValidateUserKeepsInv ==
  ASSUME Inv, ValidateUser
  PROVE  Inv'
<1>1. PICK p \in Player : p = player
  BY InHand DEF ValidateUser
<1>2. Grows /\ TakenOnce'
  <2>1. Error \/ UNCHANGED errors
    BY DEF ValidateUser
  <2>2. QED
    BY <2>1, ErrorCounts, TableAsBefore DEF ValidateUser, Grows, Inv, TypeOK
<1>3. CASE Matches(p) /\ Answer("S_LOGIN_OK", TRUE)
  <2>1. IsTrue(p, "S_LOGIN_OK")'
    BY <1>3 DEF ValidateUser, IsTrue, Matches
  <2>2. QED
    BY <1>1, <1>2, <1>3, <2>1, AnswerKeepsInv DEF Replies, ValidateUser
<1>4. CASE Answer("S_LOGIN_FAIL", FALSE)
  <2>1. IsTrue(p, "S_LOGIN_FAIL")'
    BY DEF IsTrue
  <2>2. QED
    BY <1>1, <1>2, <1>4, <2>1, AnswerKeepsInv DEF Replies, ValidateUser
<1>5. QED  BY <1>1, <1>3, <1>4 DEF ValidateUser

LEMMA UserExistKeepsInv ==
  ASSUME Inv, UserExist
  PROVE  Inv'
<1>1. PICK p \in Player : p = player
  BY InHand DEF UserExist
<1>2. p.nickname \in Nicknames
  BY DEF Player
<1>3. Grows /\ TakenOnce'
  <2>1. Error \/ UNCHANGED errors
    BY DEF UserExist
  <2>2. doubtful' \in {doubtful, doubtful \cup {p.nickname}}
    BY <1>1 DEF UserExist, Doubt
  <2>3. QED
    BY <1>2, <2>1, <2>2, ErrorCounts, TableAsBefore
       DEF UserExist, Grows, Inv, TypeOK
<1>4. CASE Exists(p.nickname) /\ Refuse
  <2>1. IsTrue(p, "S_REGISTER_FAIL")'
    BY <1>4 DEF UserExist, IsTrue, Exists
  <2>2. QED
    BY <1>1, <1>3, <1>4, <2>1, AnswerKeepsInv DEF Replies, UserExist, Refuse
<1>5. CASE /\ GoOn("registerUser")
           /\ Exists(p.nickname) => p.nickname \in doubtful'
  <2>1. TypeOK'
    BY <1>1, <1>3, <1>5
       DEF Inv, TypeOK, AccountsAssumption, Grows, GoOn, UserExist
  <2>2. AnswersAreTrue'
    <3>1. SUFFICES ASSUME NEW c \in Clients, told[c] # Nobody
                   PROVE  IsTrue(told[c].player, told[c].reply)'
      BY <1>5 DEF AnswersAreTrue, GoOn
    <3>2. told[c].player \in Player /\ told'[c] = told[c]
      BY <1>5, <3>1 DEF Inv, TypeOK, Answers, GoOn
    <3>3. IsTrue(told[c].player, told[c].reply)
      BY <3>1 DEF Inv, AnswersAreTrue
    <3>4. QED
      BY <1>3, <3>2, <3>3, TruthStays DEF Inv, IsTrue, Matches, Exists
  <2>3. Serving' /\ StillFree'
    BY <1>1, <1>5 DEF Inv, Serving, StillFree, GoOn, UserExist, Exists
  <2>4. QED
    BY <1>3, <2>1, <2>2, <2>3 DEF Inv, AccountsAssumption
<1>6. QED  BY <1>1, <1>4, <1>5 DEF UserExist, Doubt

LEMMA RegisterUserKeepsInv ==
  ASSUME Inv, RegisterUser
  PROVE  Inv'
<1>1. PICK p \in Player : p = player
  BY InHand DEF RegisterUser
<1>2. Grows /\ TakenOnce'
  <2>1. Insert(p) \/ UNCHANGED usuaris
    BY <1>1 DEF RegisterUser
  <2>2. /\ errors' \in {errors, errors + 1}
        /\ errors' \in 0 .. MaxErrors
    BY ErrorCounts DEF RegisterUser
  <2>3. CASE Insert(p)
    BY <1>1, <2>2, <2>3, InsertAdds
       DEF Inv, StillFree, RegisterUser, Grows, TypeOK
  <2>4. CASE UNCHANGED usuaris
    BY <2>2, <2>4, TableAsBefore DEF Inv, TypeOK, RegisterUser, Grows
  <2>5. QED  BY <2>1, <2>3, <2>4
<1>3. CASE Insert(p) /\ Answer("S_REGISTER_OK", TRUE)
  <2>1. Matches(p)'
    BY <1>1, <1>3, InsertAdds DEF Inv, StillFree, RegisterUser
  <2>2. IsTrue(p, "S_REGISTER_OK")'
    BY <2>1 DEF IsTrue
  <2>3. QED
    BY <1>1, <1>2, <1>3, <2>2, AnswerKeepsInv DEF Replies, RegisterUser
<1>4. CASE Refuse /\ (Exists(p.nickname) \/ Error)
  <2>1. IsTrue(p, "S_REGISTER_FAIL")'
    <3>1. CASE Error
      <4>1. errors' # 0
        BY <3>1 DEF Error, Inv, TypeOK
      <4>2. QED  BY <4>1 DEF IsTrue
    <3>2. CASE Exists(p.nickname)
      <4>1. Exists(p.nickname)'
        BY <3>2, <1>2 DEF Exists, Player, Grows
      <4>2. QED  BY <4>1 DEF IsTrue
    <3>3. QED  BY <1>4, <3>1, <3>2
  <2>2. QED
    BY <1>1, <1>2, <1>4, <2>1, AnswerKeepsInv DEF Replies, RegisterUser, Refuse
<1>5. QED  BY <1>1, <1>3, <1>4 DEF RegisterUser

(* The remaining steps answer nothing.                                     *)
LEMMA RequestKeepsInv ==
  ASSUME Inv, NEW packet \in Packets, NEW c \in Clients, NEW p \in Player,
         Request(packet, c, p)
  PROVE  Inv'
<1>1. TypeOK'
  BY DEF Inv, Request, TypeOK, AccountsAssumption
<1>2. TakenOnce'
  BY TableAsBefore DEF Inv, Request
<1>3. AnswersAreTrue'
  BY DEF Inv, Request, AnswersAreTrue, IsTrue, Matches, Exists
<1>4. QED
  BY <1>1, <1>2, <1>3 DEF Inv, Request, AccountsAssumption, Serving, StillFree

LEMMA LeaveKeepsInv ==
  ASSUME Inv, NEW c \in Clients, Leave(c)
  PROVE  Inv'
<1>1. TypeOK'
  BY DEF Inv, Leave, TypeOK
<1>2. TakenOnce'
  BY TableAsBefore DEF Inv, Leave
<1>3. AnswersAreTrue'
  BY DEF Inv, TypeOK, Leave, AnswersAreTrue, IsTrue, Matches, Exists
<1>4. QED
  BY <1>1, <1>2, <1>3 DEF Inv, Leave, AccountsAssumption, Serving, StillFree

LEMMA ElsewhereKeepsInv ==
  ASSUME Inv, NEW p \in Player, RegisteredElsewhere(p)
  PROVE  Inv'
<1>1. p.nickname \in Nicknames /\ p.password \in Passwords
  BY DEF Player
<1>2. Grows /\ TakenOnce'
  BY <1>1, InsertAdds, ErrorCounts
     DEF Inv, RegisteredElsewhere, Doubt, Grows, TypeOK
<1>3. TypeOK'
  BY <1>2 DEF Inv, RegisteredElsewhere, TypeOK, Grows
<1>4. AnswersAreTrue'
  <2>1. SUFFICES ASSUME NEW c \in Clients, told[c] # Nobody
                 PROVE  IsTrue(told[c].player, told[c].reply)'
    BY DEF AnswersAreTrue, RegisteredElsewhere
  <2>2. told[c].player \in Player /\ told'[c] = told[c]
    BY <2>1 DEF Inv, TypeOK, Answers, RegisteredElsewhere
  <2>3. IsTrue(told[c].player, told[c].reply)
    BY <2>1 DEF Inv, AnswersAreTrue
  <2>4. QED
    BY <1>2, <2>2, <2>3, TruthStays DEF Inv, IsTrue, Matches, Exists
<1>5. StillFree'
  <2>1. SUFFICES ASSUME authPc = "registerUser", Exists(player.nickname)'
                 PROVE  player.nickname \in doubtful'
    BY DEF StillFree, RegisteredElsewhere
  <2>2. PICK q \in Player : q = player
    BY <2>1, InHand
  <2>3. CASE q.nickname = p.nickname
    BY <2>2, <2>3 DEF RegisteredElsewhere, Doubt
  <2>4. CASE q.nickname # p.nickname
    <3>1. usuaris'[q.nickname] = usuaris[q.nickname]
      BY <2>4 DEF RegisteredElsewhere, Insert, Inv, TypeOK, Player
    <3>2. Exists(q.nickname)
      BY <2>1, <2>2, <3>1 DEF Exists, RegisteredElsewhere
    <3>3. QED
      BY <1>2, <2>1, <2>2, <3>2 DEF Inv, StillFree, Grows
  <2>5. QED  BY <2>3, <2>4
<1>6. QED
  BY <1>2, <1>3, <1>4, <1>5
     DEF Inv, RegisteredElsewhere, AccountsAssumption, Serving

LEMMA StepKeepsInv ==
  ASSUME Inv, [Next]_vars
  PROVE  Inv'
<1>1. CASE UNCHANGED vars
  BY <1>1 DEF Inv, vars, AccountsAssumption, TypeOK, Serving, StillFree,
              AnswersAreTrue, TakenOnce, OneRow, IsTrue, Matches, Exists
<1>2. QED
  BY <1>1, ValidateUserKeepsInv, UserExistKeepsInv, RegisterUserKeepsInv,
     RequestKeepsInv, LeaveKeepsInv, ElsewhereKeepsInv DEF Next

LEMMA InvAlways == Spec => []Inv
<1>1. Init => Inv
  BY AccountsAssumption, InitInv
<1>2. QED  BY <1>1, StepKeepsInv, PTL DEF Spec

(* Type correctness of the table, the sessions and the request in hand.    *)
THEOREM TypeCorrect == Spec => []TypeOK
BY InvAlways, PTL DEF Inv

(* No client ever gets an answer that is not true of the table, whatever   *)
(* statements fail (AuthService.cpp:37-74, DBManager.cpp:48-131).          *)
THEOREM EveryAnswerIsTrue == Spec => []AnswersAreTrue
BY InvAlways, PTL DEF Inv

(* The look of userExist and the insertion of registerUser, two statements *)
(* with others between them, give a nickname two passwords only after the  *)
(* look has failed or another program has written the nickname             *)
(* (AuthService.cpp:45-49).                                                *)
THEOREM NamesAreTakenOnce == Spec => []TakenOnce
BY InvAlways, PTL DEF Inv

-----------------------------------------------------------------------------
(* The refinement of Directory.                                            *)

(* An answer lets the client in.                                           *)
LEMMA AnswerEnters ==
  ASSUME Inv, authPc # "idle", NEW p \in Player, p = player,
         NEW reply, Answer(reply, TRUE)
  PROVE  /\ client \in Clients
         /\ Names!Enter(client, p.nickname, p.password)
<1>1. client \in Clients /\ session[client] = Nobody
  BY DEF Inv, Serving
<1>2. p = [nickname |-> p.nickname, password |-> p.password]
  BY DEF Player
<1>3. session' = [session EXCEPT ![client] = p]
  BY DEF Answer
<1>4. QED  BY <1>1, <1>2, <1>3 DEF Names!Enter

LEMMA ValidateUserMaps ==
  ASSUME Inv, ValidateUser
  PROVE  [Names!Next]_(Names!vars)
<1>1. PICK p \in Player : p = player
  BY InHand DEF ValidateUser
<1>2. p.nickname \in Nicknames /\ p.password \in Passwords
  BY DEF Player
<1>3. CASE Matches(p) /\ Answer("S_LOGIN_OK", TRUE)
  <2>1. Names!SignIn(client, p.nickname, p.password) /\ client \in Clients
    BY <1>1, <1>3, AnswerEnters DEF ValidateUser, Matches, Names!SignIn
  <2>2. QED  BY <1>2, <2>1 DEF Names!Next
<1>4. CASE Answer("S_LOGIN_FAIL", FALSE)
  BY <1>4 DEF ValidateUser, Answer, Names!vars
<1>5. QED  BY <1>1, <1>3, <1>4 DEF ValidateUser

(* The first statement of a registration is a stutter, or leaves a doubt.  *)
LEMMA UserExistMaps ==
  ASSUME Inv, UserExist
  PROVE  [Names!Next]_(Names!vars)
<1>1. PICK p \in Player : p = player
  BY InHand DEF UserExist
<1>2. p.nickname \in Nicknames /\ UNCHANGED <<usuaris, session>>
  BY <1>1 DEF Player, UserExist, Refuse, Answer, GoOn
<1>3. CASE UNCHANGED doubtful
  BY <1>2, <1>3 DEF Names!vars
<1>4. CASE Doubt(p.nickname)
  BY <1>2, <1>4 DEF Doubt, Names!Doubt, Names!Next
<1>5. QED  BY <1>1, <1>3, <1>4 DEF UserExist

(* The second one is the taking of the name.                               *)
LEMMA RegisterUserMaps ==
  ASSUME Inv, RegisterUser
  PROVE  [Names!Next]_(Names!vars)
<1>1. PICK p \in Player : p = player
  BY InHand DEF RegisterUser
<1>2. p.nickname \in Nicknames /\ p.password \in Passwords
  BY DEF Player
<1>3. ASSUME Insert(p)
      PROVE  Names!Take(p.nickname, p.password)
  BY <1>1, <1>3 DEF RegisterUser, Inv, StillFree, Exists, Insert,
                    Names!Take, Names!Add
<1>4. CASE Insert(p) /\ Answer("S_REGISTER_OK", TRUE)
  <2>1. Names!SignUp(p.nickname, p.password)
    BY <1>1, <1>3, <1>4, AnswerEnters DEF RegisterUser, Names!SignUp
  <2>2. QED  BY <1>2, <2>1 DEF Names!Next
<1>5. CASE Insert(p) /\ Refuse
  <2>1. Names!SignUp(p.nickname, p.password)
    BY <1>3, <1>5 DEF Names!SignUp, Refuse, Answer
  <2>2. QED  BY <1>2, <2>1 DEF Names!Next
<1>6. CASE UNCHANGED usuaris /\ Refuse
  BY <1>6 DEF RegisterUser, Refuse, Answer, Names!vars
<1>7. QED  BY <1>1, <1>4, <1>5, <1>6 DEF RegisterUser

LEMMA StepMaps ==
  ASSUME Inv, [Next]_vars
  PROVE  [Names!Next]_(Names!vars)
<1>1. CASE \/ \E packet \in Packets, c \in Clients, p \in Player :
                Request(packet, c, p)
           \/ UNCHANGED vars
  BY <1>1 DEF Request, vars, Names!vars
<1>2. ASSUME NEW c \in Clients, Leave(c)
      PROVE  Names!Next
  BY <1>2 DEF Leave, Names!SignOut, Names!Next
<1>3. ASSUME NEW p \in Player, RegisteredElsewhere(p)
      PROVE  Names!Next
  <2>1. p.nickname \in Nicknames /\ p.password \in Passwords
    BY DEF Player
  <2>2. Names!Doubt(p.nickname)
    BY <1>3, <2>1 DEF RegisteredElsewhere, Insert, Doubt, Names!Doubt, Names!Add
  <2>3. QED  BY <2>1, <2>2 DEF Names!Next
<1>4. QED
  BY <1>1, <1>2, <1>3, ValidateUserMaps, UserExistMaps, RegisterUserMaps DEF Next

(* The userExist/registerUser pair, its errors and whoever else writes the *)
(* table implement a directory in which a free name is taken in one step   *)
(* and opens to what it was taken with, for every table.                   *)
THEOREM ImplementsDirectory == Spec => KeepsDirectory
<1>1. Init => Names!Init
  BY DEF Init, Names!Init
<1>2. QED
  BY <1>1, InvAlways, StepMaps, PTL DEF Spec, KeepsDirectory, Names!Spec
=============================================================================
