--------------------------- MODULE ServerFraming ---------------------------
(***************************************************************************)
(* The packets sent to the connections at one socket address, as pieces of *)
(* a stream: sendToClient writes to a socket that does not block and whose *)
(* buffer may be full before, or in the middle of, a packet, and takes     *)
(* whatever is not Done for a failure.  The server thread sends to its     *)
(* client without any lock, the matchmaking thread to those it has taken   *)
(* out of the queue, who may meanwhile have gone and left their address or *)
(* their session's memory to a newcomer.                                   *)
(*                                                                         *)
(* Of the queue there is only the entry of this address here, and of       *)
(* formMatches one round's dealings with it; a login is checked and        *)
(* answered in one step.  ServiceServer has the rest of both.              *)
(***************************************************************************)
EXTENDS Integers, Sequences

CONSTANT Room   (* pieces of packets the buffers between the two ends hold  *)

ASSUME FramingAssumption == Room \in Nat \ {0}

PacketTypes == {"S_MAP_DATA", "S_LOGIN_OK", "S_LOGIN_FAIL",
                "S_ADDED_TO_MATCHMAKING_QUEUE", "S_MATCH_FOUND"}

(* A packet is its head, which says how long it is, and its tail.          *)
Pieces == PacketTypes \X {"head", "tail"}

Threads == {"server", "matchmaking"}

NoPacket  == "none"
NoSession == "none"
Nothing  == <<NoPacket, NoPacket>>

VARIABLES
  state,        (* ClientSession::state, NoSession while nobody is here     *)
  queued,       (* the entries of this address in matchmakingQueue          *)
  leaving,      (* the server thread has yet to take the entry out again    *)
  hand,         (* what formMatches has taken that leads here               *)
  told,         (* how far it is with S_MATCH_FOUND for it                  *)
  sending,      (* the piece each thread is about to write, or Nothing      *)
  stream,       (* the pieces written and not yet read                      *)
  reading,      (* the packet whose tail the client expects, or NoPacket    *)
  received,     (* the packets the client has got whole                     *)
  garbled,      (* the client has got a piece that cannot come here         *)
  overlapped,   (* both threads have been inside send at the same time      *)
  heir          (* when the client came something led here already          *)

serverSide == <<state, queued, leaving, hand, told>>
clientSide == <<reading, received, garbled>>

vars == <<serverSide, sending, stream, clientSide, overlapped, heir>>

(* The socket, to be put back into the queue; the session of the client;   *)
(* an erased session whose socket was at this address.                     *)
Leads == {"entry", "session", "stale"}

TypeOK ==
  /\ state \in {"CONNECTED", "AWAITING_CREDENTIALS", "LOGGED_IN",
                "IN_MATCHMAKING_QUEUE", "MATCHED", NoSession}
  /\ queued \in 0 .. 1
  /\ leaving \in BOOLEAN
  /\ hand \subseteq Leads
  /\ told \in {"no", "sent", "failed"}
  /\ sending \in [Threads -> Pieces \cup {Nothing}]
  /\ stream \in Seq(Pieces) /\ Len(stream) <= Room
  /\ reading \in PacketTypes \cup {NoPacket}
  /\ received \subseteq PacketTypes
  /\ garbled \in BOOLEAN
  /\ overlapped \in BOOLEAN
  /\ heir \in BOOLEAN

(* Nobody has been at this address yet.                                    *)
Init ==
  /\ state = NoSession
  /\ queued = 0
  /\ leaving = FALSE
  /\ hand = {}
  /\ told = "no"
  /\ sending = [t \in Threads |-> Nothing]
  /\ stream = <<>>
  /\ reading = NoPacket
  /\ received = {}
  /\ garbled = FALSE
  /\ overlapped = FALSE
  /\ heir = FALSE

ServerIdle == sending["server"] = Nothing /\ ~leaving
MutexFree  == hand = {}

(* sendToClient is called.                                                 *)
Send(t, type) ==
  /\ sending' = [sending EXCEPT ![t] = <<type, "head">>]
  /\ overlapped' = (overlapped \/ \E u \in Threads \ {t} : sending[u] # Nothing)
  /\ UNCHANGED <<stream, clientSide, heir>>

-----------------------------------------------------------------------------
(* A connection is accepted and about to be sent the map.  Its session may *)
(* lie where one lay that a round of formMatches, of this address or not,  *)
(* has in hand.                                                            *)
Accept ==
  /\ state = NoSession
  /\ state' = "CONNECTED"
  /\ \E same \in SUBSET {"session"} : hand' = hand \cup same
  /\ heir' = (queued = 1 \/ hand' # {})
  /\ sending' = [sending EXCEPT !["server"] = <<"S_MAP_DATA", "head">>]
  /\ overlapped' = (sending["matchmaking"] # Nothing)
  /\ UNCHANGED <<queued, leaving, told, stream, clientSide>>

(* The client is found to be gone: its session is erased, its socket       *)
(* deleted, and its place in the queue forgotten about.                    *)
Disconnect ==
  /\ ServerIdle
  /\ state # NoSession
  /\ state' = NoSession
  /\ hand' = {IF lead = "session" THEN "stale" ELSE lead : lead \in hand}
  /\ stream' = <<>>
  /\ reading' = NoPacket
  /\ received' = {}
  /\ garbled' = FALSE
  /\ overlapped' = FALSE
  /\ heir' = FALSE
  /\ UNCHANGED <<queued, leaving, told, sending>>

(* Mutant: a login is taken in every state.                                *)
LogInAnytime(type) ==
  /\ ServerIdle
  /\ state # NoSession
  /\ Send("server", type)
  /\ state' = IF type = "S_LOGIN_OK" THEN "LOGGED_IN" ELSE state
  /\ UNCHANGED <<queued, leaving, hand, told>>

(* processAuthenticationRequest: the state first, then the reply.          *)
LogIn(type) ==
  /\ ServerIdle
  /\ state = "AWAITING_CREDENTIALS"
  /\ Send("server", type)
  /\ state' = IF type = "S_LOGIN_OK" THEN "LOGGED_IN" ELSE state
  /\ UNCHANGED <<queued, leaving, hand, told>>

(* Mutant: neither the state nor the queue is looked at first.             *)
AddClientToQueueAgain ==
  /\ ServerIdle
  /\ MutexFree
  /\ state # NoSession
  /\ queued' = queued + 1
  /\ state' = "IN_MATCHMAKING_QUEUE"
  /\ Send("server", "S_ADDED_TO_MATCHMAKING_QUEUE")
  /\ UNCHANGED <<leaving, hand, told>>

(* addClientToQueue, under queueMutex and then without it.                 *)
AddClientToQueue ==
  /\ ServerIdle
  /\ MutexFree
  /\ state = "LOGGED_IN"
  /\ queued = 0
  /\ queued' = 1
  /\ state' = "IN_MATCHMAKING_QUEUE"
  /\ Send("server", "S_ADDED_TO_MATCHMAKING_QUEUE")
  /\ UNCHANGED <<leaving, hand, told>>

LeaveQueue ==
  /\ leaving
  /\ MutexFree
  /\ leaving' = FALSE
  /\ queued' = 0
  /\ UNCHANGED <<state, hand, told, sending, stream, clientSide, overlapped,
                 heir>>

(* formMatches takes the entry and an opponent's out of the queue: both    *)
(* are waiting, or neither is matched and who is not waiting is LOGGED_IN, *)
(* or who has no session is dropped.                                       *)
TakeClient ==
  /\ MutexFree
  /\ queued = 1
  /\ queued' = 0
  /\ state = "IN_MATCHMAKING_QUEUE"
  /\ hand' = {"entry", "session"}
  /\ UNCHANGED <<state, leaving, told, sending, stream, clientSide, overlapped,
                 heir>>

GiveBack ==
  /\ MutexFree
  /\ queued = 1
  /\ queued' = 0
  /\ state # "IN_MATCHMAKING_QUEUE"
  /\ state' = IF state \in {"MATCHED", NoSession} THEN state ELSE "LOGGED_IN"
  /\ UNCHANGED <<leaving, hand, told, sending, stream, clientSide, overlapped,
                 heir>>

(* The round ends without telling anybody: the dedicated server could not  *)
(* be notified, or a session that has changed hands is not in the state    *)
(* the round wants.                                                        *)
PutBack ==
  /\ hand # {}
  /\ told = "no"
  /\ sending["matchmaking"] = Nothing
  /\ hand' = {}
  /\ queued' = IF "entry" \in hand THEN 1 ELSE queued
  /\ \/ UNCHANGED state
     \/ "session" \in hand /\ "entry" \notin hand /\ state' = "LOGGED_IN"
  /\ UNCHANGED <<leaving, told, sending, stream, clientSide, overlapped, heir>>

TellPlayer ==
  /\ hand # {}
  /\ told = "no"
  /\ sending["matchmaking"] = Nothing
  /\ Send("matchmaking", "S_MATCH_FOUND")
  /\ UNCHANGED serverSide

(* The round ends: both players are matched if both could be told, or both *)
(* wait again and go back into the queue.  Only pointers that have come to *)
(* lead elsewhere pass this client over.                                   *)
Settle ==
  /\ hand # {}
  /\ told = "no" => hand # {"entry", "session"}
  /\ sending["matchmaking"] = Nothing
  /\ \/ /\ told # "failed"
        /\ state' = IF "session" \in hand THEN "MATCHED" ELSE state
        /\ UNCHANGED queued
     \/ /\ state' = IF "session" \in hand THEN "IN_MATCHMAKING_QUEUE" ELSE state
        /\ queued' = IF "entry" \in hand THEN 1 ELSE queued
  /\ hand' = {}
  /\ told' = "no"
  /\ UNCHANGED <<leaving, sending, stream, clientSide, overlapped, heir>>

-----------------------------------------------------------------------------
(* Mutant: a send that is not Done is taken for one that is.               *)
SentUnchecked(type, done) ==
  CASE type = "S_MAP_DATA" ->
         /\ state' = "AWAITING_CREDENTIALS"
         /\ UNCHANGED <<queued, leaving, hand, told>>
    [] type = "S_MATCH_FOUND" ->
         /\ told' = "sent"
         /\ UNCHANGED <<state, queued, leaving, hand>>
    [] OTHER -> UNCHANGED serverSide

(* What the sender does when sendToClient returns.                         *)
Sent(type, done) ==
  CASE type = "S_MAP_DATA" ->
         /\ state' = "AWAITING_CREDENTIALS"
         /\ UNCHANGED <<queued, leaving, hand, told>>
    [] type = "S_ADDED_TO_MATCHMAKING_QUEUE" /\ ~done ->
         /\ state' = "LOGGED_IN"
         /\ leaving' = TRUE
         /\ UNCHANGED <<queued, hand, told>>
    [] type = "S_MATCH_FOUND" ->
         /\ told' = IF done THEN "sent" ELSE "failed"
         /\ UNCHANGED <<state, queued, leaving, hand>>
    [] OTHER -> UNCHANGED serverSide

(* TcpSocket::send puts the packet together in a buffer of the socket,     *)
(* which two senders share without a lock: a thread may find the other's   *)
(* packet there.                                                           *)
InBuffer(t) == {sending[u] : u \in {v \in Threads : sending[v] # Nothing}}

Write(t) ==
  /\ sending[t] # Nothing
  /\ state # NoSession
  /\ Len(stream) < Room
  /\ \E piece \in InBuffer(t) : stream' = Append(stream, piece)
  /\ IF sending[t][2] = "head"
     THEN /\ sending' = [sending EXCEPT ![t] = <<@[1], "tail">>]
          /\ UNCHANGED serverSide
     ELSE /\ sending' = [sending EXCEPT ![t] = Nothing]
          /\ Sent(sending[t][1], TRUE)
  /\ UNCHANGED <<clientSide, overlapped, heir>>

(* No room: NotReady before the head, Partial before the tail.  Or the     *)
(* socket has been deleted, which has closed its handle.                   *)
WriteFails(t) ==
  /\ sending[t] # Nothing
  /\ Len(stream) = Room \/ state = NoSession
  /\ sending' = [sending EXCEPT ![t] = Nothing]
  /\ Sent(sending[t][1], FALSE)
  /\ UNCHANGED <<stream, clientSide, overlapped, heir>>

(* The client reads: outside this repository.                              *)
Read ==
  /\ stream # <<>>
  /\ stream' = Tail(stream)
  /\ LET type == Head(stream)[1]
         part == Head(stream)[2]
         fits == IF reading = NoPacket THEN part = "head"
                                      ELSE part = "tail" /\ type = reading
     IN  /\ garbled' = (garbled \/ ~fits)
         /\ reading' = IF fits /\ part = "head" THEN type ELSE NoPacket
         /\ received' = IF ~garbled' /\ part = "tail" THEN received \cup {type}
                                                      ELSE received
  /\ UNCHANGED <<serverSide, sending, overlapped, heir>>

Next ==
  \/ Accept
  \/ Disconnect
  \/ \E type \in {"S_LOGIN_OK", "S_LOGIN_FAIL"} : LogIn(type)
  \/ AddClientToQueue
  \/ LeaveQueue
  \/ TakeClient
  \/ GiveBack
  \/ PutBack
  \/ TellPlayer
  \/ Settle
  \/ \E t \in Threads : Write(t) \/ WriteFails(t)
  \/ Read

Spec == Init /\ [][Next]_vars

(* A client goes on reading until it is gone.                              *)
FairSpec == Spec /\ WF_vars(Read)

-----------------------------------------------------------------------------
(* To a client whose socket and session the matchmaking thread knew        *)
(* nothing of when he came, only the confirmation of his queue entry can   *)
(* be under way when it sends to him: the map and the login's answers meet *)
(* none of its packets, however rounds are retried.  An heir has no such   *)
(* promise.                                                                *)
OnlyConfirmationsOverlap ==
  ~heir /\ (\A t \in Threads : sending[t] # Nothing) =>
    sending["server"][1] = "S_ADDED_TO_MATCHMAKING_QUEUE"

(* A matched client gets to know of his match, although earlier packets    *)
(* may have failed: unless he goes first, two sends have met or a half     *)
(* packet has been left in the stream before.                              *)
MatchedIsTold ==
  state = "MATCHED" /\ ~heir ~>
    \/ "S_MATCH_FOUND" \in received
    \/ garbled \/ overlapped
    \/ state = NoSession

(* TcpSocket::send demands that a Partial packet is sent again, unmodified *)
(* and before anything else, for the stream to stay readable.              *)
StreamStaysReadable == garbled => overlapped
=============================================================================
