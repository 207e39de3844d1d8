------------------------------ MODULE Sessions ------------------------------
(***************************************************************************)
(* What the two threads of the running service server share: the sockets   *)
(* ServerTCP has accepted, the session Server keeps for each of them, and  *)
(* the matchmaking queue with the mutex that guards it.                    *)
(*                                                                         *)
(* Sockets and sessions are heap objects that are allocated apart: a       *)
(* session lies in a node of the map, its socket where new put it.  Both   *)
(* kinds of memory are given out again, each as the allocator likes, and   *)
(* pointers to both outlive their objects.  A socket is live while it is   *)
(* in clients, a session while clientSessions leads to it.  An erased      *)
(* session can still be read: its state may have been overwritten when it  *)
(* was freed, the rest stays until its memory is given to a newcomer.      *)
(***************************************************************************)
EXTENDS Integers, Sequences

CONSTANTS
  Sockets,          (* the addresses new sf::TcpSocket may return           *)
  NoSocket,         (* nullptr                                              *)
  Memory,           (* the addresses a session's map node may have          *)
  NoSession,        (* no entry in the map; nullptr                         *)
  MaxConnections,   (* bound: connections accepted in a behaviour           *)
  MaxFaults         (* bound: sends and connects that fail in a behaviour   *)

ASSUME SessionsAssumption ==
  /\ NoSocket \notin Sockets
  /\ NoSession \notin Memory
  /\ MaxConnections \in Nat
  /\ MaxFaults \in Nat

VARIABLES
  clients,           (* ServerTCP::clients, the sockets not yet deleted     *)
  remote,            (* the remote end of the connection at each address    *)
  clientSessions,    (* Server::clientSessions: where a socket's session is *)
  socketOf,          (* ClientSession::socket, for each session             *)
  state,             (* ClientSession::state                                *)
  connected,         (* playerInfo.connected: a player has authenticated    *)
  peer,              (* ClientSession::ipAddress and port: the remote end   *)
  accepted,          (* how many connections have been accepted             *)
  matchmakingQueue,
  queueMutex,        (* who holds queueMutex between two steps              *)
  faults             (* failed sends and connects so far                    *)

sessionVars == <<clients, remote, clientSessions, socketOf, state, connected,
                 peer, accepted, matchmakingQueue, queueMutex, faults>>

(* What changes only when a client comes or goes.                          *)
bookVars == <<clients, remote, clientSessions, socketOf, peer, accepted>>

(* Every value of the enumeration, although nothing assigns the second.    *)
ClientState == {"CONNECTED", "AWAITING_MAP_ACK", "AWAITING_CREDENTIALS",
                "LOGGED_IN", "IN_MATCHMAKING_QUEUE", "MATCHED"}

Peers  == 1 .. MaxConnections
NoPeer == 0

HasSession(s) == clientSessions[s] # NoSession

(* Memory that no entry of the map lies in.                                *)
Free(m) == \A s \in Sockets : clientSessions[s] # m

SessionsInit ==
  /\ clients = {}
  /\ remote = [s \in Sockets |-> NoPeer]
  /\ clientSessions = [s \in Sockets |-> NoSession]
  /\ socketOf = [m \in Memory |-> NoSocket]
  /\ state = [m \in Memory |-> "CONNECTED"]
  /\ connected = [m \in Memory |-> FALSE]
  /\ peer = [m \in Memory |-> NoPeer]
  /\ accepted = 0
  /\ matchmakingQueue = <<>>
  /\ queueMutex = "free"
  /\ faults = 0

(* An attempt to send or to connect fails, and the bound allows it.        *)
Fault ==
  /\ faults < MaxFaults
  /\ faults' = faults + 1

(***************************************************************************)
(* ServerTCP::sendToClient to a non-null pointer.  It succeeds only on a   *)
(* live socket; a live one may still fail (error, Partial, NotReady or     *)
(* Disconnected, all reported as FALSE); a deleted one has closed its      *)
(* handle and fails without costing a fault.                               *)
(***************************************************************************)
SendToClient(s, sent) ==
  IF s \in clients
  THEN \/ sent /\ UNCHANGED faults
       \/ ~sent /\ Fault
  ELSE ~sent /\ UNCHANGED faults

SessionsTypeOK ==
  /\ clients \subseteq Sockets
  /\ remote \in [Sockets -> Peers \cup {NoPeer}]
  /\ clientSessions \in [Sockets -> Memory \cup {NoSession}]
  /\ socketOf \in [Memory -> Sockets \cup {NoSocket}]
  /\ state \in [Memory -> ClientState]
  /\ connected \in [Memory -> BOOLEAN]
  /\ peer \in [Memory -> Peers \cup {NoPeer}]
  /\ accepted \in 0 .. MaxConnections
  /\ matchmakingQueue \in Seq(Sockets)
  /\ queueMutex \in {"free", "matchmaking"}
  /\ faults \in 0 .. MaxFaults
=============================================================================
