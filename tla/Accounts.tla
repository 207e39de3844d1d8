------------------------------ MODULE Accounts ------------------------------
(***************************************************************************)
(* AuthService and DBManager: logging in and registering against the table *)
(* usuaris.  The server thread serves one request at a time and waits for  *)
(* each SQL statement; every statement may end in an SQLException, and an  *)
(* INSERT may do so after it has taken effect.  Other programs may add     *)
(* users too, and the table, whose definition is not in the repository,    *)
(* may or may not refuse a second row for a nickname.  Rows that are alike *)
(* count as one.  ServerThread has all of this as the two outcomes of      *)
(* Authenticate.                                                           *)
(***************************************************************************)
EXTENDS Naturals

CONSTANTS
  Clients,           (* sockets with a session                              *)
  Nicknames,
  Passwords,
  Nobody,            (* no player                                           *)
  MaxErrors          (* bound: SQLExceptions in a behaviour                 *)

Player == [nickname : Nicknames, password : Passwords]

Packets == {"C_REQUEST_LOGIN", "C_REQUEST_REGISTER"}
Replies == {"S_LOGIN_OK", "S_LOGIN_FAIL", "S_REGISTER_OK", "S_REGISTER_FAIL"}
Answers == [player : Player, reply : Replies]

ASSUME AccountsAssumption ==
  /\ MaxErrors \in Nat
  /\ Nobody \notin Player \cup Answers

VARIABLES
  usuaris,    (* for each nickname the passwords of its rows                *)
  session,    (* who a session is LOGGED_IN as; Nobody while it awaits      *)
              (* credentials                                                *)
  authPc,     (* where processAuthenticationRequest is                      *)
  client,     (* whose request is being served, and what it says            *)
  player,
  told,       (* the last reply each client got, and the player it is about *)
  errors,
  doubtful    (* ghost: the nicknames another program has added, or for     *)
              (* which userExist has failed                                 *)

vars == <<usuaris, session, authPc, client, player, told, errors, doubtful>>

TypeOK ==
  /\ usuaris \in [Nicknames -> SUBSET Passwords]
  /\ session \in [Clients -> Player \cup {Nobody}]
  /\ authPc \in {"idle", "validateUser", "userExist", "registerUser"}
  /\ client \in Clients \cup {Nobody}
  /\ player \in Player \cup {Nobody}
  /\ authPc = "idle" <=> player = Nobody
  /\ told \in [Clients -> Answers \cup {Nobody}]
  /\ errors \in 0 .. MaxErrors
  /\ doubtful \subseteq Nicknames

Init ==
  /\ usuaris = [n \in Nicknames |-> {}]
  /\ session = [c \in Clients |-> Nobody]
  /\ authPc = "idle"
  /\ client = Nobody
  /\ player = Nobody
  /\ told = [c \in Clients |-> Nobody]
  /\ errors = 0
  /\ doubtful = {}

Error ==
  /\ errors < MaxErrors
  /\ errors' = errors + 1

Exists(n)   == usuaris[n] # {}
Matches(p)  == p.password \in usuaris[p.nickname]
Insert(p)   == usuaris' = [usuaris EXCEPT ![p.nickname] = @ \cup {p.password}]
Doubt(n)    == doubtful' = doubtful \cup {n}

-----------------------------------------------------------------------------
(* processPacket passes a request on only while the session awaits         *)
(* credentials.                                                            *)
Request(packet, c, p) ==
  /\ authPc = "idle"
  /\ session[c] = Nobody
  /\ authPc' = IF packet = "C_REQUEST_LOGIN" THEN "validateUser" ELSE "userExist"
  /\ client' = c
  /\ player' = p
  /\ UNCHANGED <<usuaris, session, told, errors, doubtful>>

(* Mutant: the request is not forgotten.                                   *)
AnswerStays(reply, ok) ==
  /\ authPc' = "idle"
  /\ session' = IF ok THEN [session EXCEPT ![client] = player] ELSE session
  /\ told' = [told EXCEPT ![client] = [player |-> player, reply |-> reply]]
  /\ UNCHANGED <<client, player>>

(* The end of every request: on success the session becomes LOGGED_IN as   *)
(* the player; the reply is sent, and what comes of that is not looked at. *)
Answer(reply, ok) ==
  /\ authPc' = "idle"
  /\ client' = Nobody
  /\ player' = Nobody
  /\ session' = IF ok THEN [session EXCEPT ![client] = player] ELSE session
  /\ told' \in {told, [told EXCEPT ![client] = [player |-> player, reply |-> reply]]}

(* Mutant: only the nickname is looked for.                                *)
ValidateNickname ==
  /\ authPc = "validateUser"
  /\ IF Exists(player.nickname) THEN Answer("S_LOGIN_OK", TRUE)
                                ELSE Answer("S_LOGIN_FAIL", FALSE)
  /\ UNCHANGED <<usuaris, errors, doubtful>>

ValidateUser ==
  /\ authPc = "validateUser"
  /\ \/ Matches(player) /\ Answer("S_LOGIN_OK", TRUE) /\ UNCHANGED errors
     \/ ~Matches(player) /\ Answer("S_LOGIN_FAIL", FALSE) /\ UNCHANGED errors
     \/ Error /\ Answer("S_LOGIN_FAIL", FALSE)
  /\ UNCHANGED <<usuaris, doubtful>>

Refuse    == Answer("S_REGISTER_FAIL", FALSE)
GoOn(pc)  == authPc' = pc /\ UNCHANGED <<client, player, session, told>>

(* Mutant: the answer of the query is turned round.                        *)
UserExistInverted ==
  /\ authPc = "userExist"
  /\ \/ ~Exists(player.nickname) /\ Refuse
     \/ Exists(player.nickname) /\ GoOn("registerUser")
  /\ UNCHANGED <<usuaris, errors, doubtful>>

(* Mutant: the query is validateUser's, which looks for the password too.  *)
UserExistSamePassword ==
  /\ authPc = "userExist"
  /\ \/ Matches(player) /\ Refuse
     \/ ~Matches(player) /\ GoOn("registerUser")
  /\ UNCHANGED <<usuaris, errors, doubtful>>

(* An exception reads as "there is no such user".                          *)
UserExist ==
  /\ authPc = "userExist"
  /\ \/ Exists(player.nickname) /\ Refuse /\ UNCHANGED <<errors, doubtful>>
     \/ /\ ~Exists(player.nickname)
        /\ GoOn("registerUser")
        /\ UNCHANGED <<errors, doubtful>>
     \/ Error /\ Doubt(player.nickname) /\ GoOn("registerUser")
  /\ UNCHANGED usuaris

(* The INSERT is done, is refused because the nickname has a row, or ends  *)
(* in an exception that does not say whether there is a row now.           *)
RegisterUser ==
  /\ authPc = "registerUser"
  /\ \/ Insert(player) /\ Answer("S_REGISTER_OK", TRUE) /\ UNCHANGED errors
     \/ Exists(player.nickname) /\ Refuse /\ UNCHANGED <<usuaris, errors>>
     \/ Error /\ (Insert(player) \/ UNCHANGED usuaris) /\ Refuse
  /\ UNCHANGED doubtful

(* The client disconnects, and another may connect at the same address.    *)
Leave(c) ==
  /\ authPc = "idle"
  /\ session' = [session EXCEPT ![c] = Nobody]
  /\ told' = [told EXCEPT ![c] = Nobody]
  /\ UNCHANGED <<usuaris, authPc, client, player, errors, doubtful>>

(* Another program adds a user.                                            *)
RegisteredElsewhere(p) ==
  /\ Insert(p)
  /\ Doubt(p.nickname)
  /\ UNCHANGED <<session, authPc, client, player, told, errors>>

Next ==
  \/ \E packet \in Packets, c \in Clients, p \in Player : Request(packet, c, p)
  \/ ValidateUser
  \/ UserExist
  \/ RegisterUser
  \/ \E c \in Clients : Leave(c)
  \/ \E p \in Player : RegisteredElsewhere(p)

Spec == Init /\ [][Next]_vars

-----------------------------------------------------------------------------
IsTrue(p, reply) ==
  /\ reply \in {"S_LOGIN_OK", "S_REGISTER_OK"} => Matches(p)
  /\ reply = "S_REGISTER_FAIL" /\ errors = 0 => Exists(p.nickname)

(* The answer a client has got is true of the table: OK means that he      *)
(* has the account, and a refused registration that the nickname is taken, *)
(* unless a statement has failed.                                          *)
AnswersAreTrue ==
  \A c \in Clients : told[c] # Nobody => IsTrue(told[c].player, told[c].reply)

OneRow(n) == \A s, t \in usuaris[n] : s = t

(* processAuthenticationRequest looks for a nickname before it inserts it, *)
(* in two statements.  A nickname gets a second password only where the    *)
(* look failed or another program has a hand in it.                        *)
TakenOnce == \A n \in Nicknames \ doubtful : OneRow(n)

(* Whatever statements fail, and in whatever order requests and other      *)
(* programs come, the two statements of a registration are one step of a   *)
(* directory in which a free name is taken, and a name that is taken opens *)
(* to what it was taken with and to nothing else.                          *)
Names == INSTANCE Directory
  WITH Players <- Clients, Names <- Nicknames, Secrets <- Passwords,
       Nothing <- Nobody, secrets <- usuaris, present <- session

KeepsDirectory == Names!Spec
=============================================================================
