----------------------------- MODULE AdminLink -----------------------------
(***************************************************************************)
(* MatchmakingService's connection to the dedicated server, over which     *)
(* formMatches announces games: made in the constructor, made again when a *)
(* game is to be announced and there is none, given up after a failed      *)
(* send.  Nothing is ever read from it, so the service learns that the     *)
(* other end is gone only from a send.                                     *)
(*                                                                         *)
(* MatchmakingThread has all of this as the two outcomes of                *)
(* NotifyDedicated; here are the steps behind them, for pairs of players   *)
(* who only wait.  The room is drawn before the connection is looked at,   *)
(* so that every attempt uses one up and the next has another.             *)
(***************************************************************************)
EXTENDS Naturals, SequencesExt

CONSTANTS
  Pairs,       (* pairs of players waiting for a game at the start          *)
  MaxBreaks,   (* bound: connections and servers that break in a behaviour  *)
  MaxFaults    (* bound: connects and S_MATCH_FOUNDs that fail              *)

ASSUME AdminLinkAssumption ==
  /\ Pairs \in Nat
  /\ MaxBreaks \in Nat
  /\ MaxFaults \in Nat

VARIABLES
  link,        (* dedicated_server_admin_socket                             *)
  dedicated,   (* the dedicated server's process                            *)
  matchPc,     (* where in formMatches the matchmaking thread is            *)
  waiting,     (* pairs in the queue                                        *)
  room_counter,
  room,        (* new_room_id: the room of the attempt under way            *)
  wire,        (* rooms of announcements taken and not yet delivered        *)
  hosted,      (* rooms of announcements the dedicated server has read      *)
  told,        (* rooms both of whose players were sent S_MATCH_FOUND       *)
  breaks,
  faults

roomVars == <<room_counter, room>>

vars == <<link, dedicated, matchPc, waiting, roomVars, wire, hosted, told,
          breaks, faults>>

(* "closed": getRemoteAddress has no value; "stale": the other end is gone *)
(* and the socket does not know; "reset": it knows, sends fail.            *)
LinkStates == {"closed", "open", "stale", "reset"}

TypeOK ==
  /\ link \in LinkStates
  /\ dedicated \in {"up", "down"}
  /\ matchPc \in {"idle", "connect", "send", "tell"}
  /\ waiting \in 0 .. Pairs
  /\ room_counter \in Nat
  /\ room \in Nat
  /\ wire \in Seq(Nat)
  /\ hosted \in Seq(Nat)
  /\ told \subseteq Nat
  /\ breaks \in 0 .. MaxBreaks
  /\ faults \in 0 .. MaxFaults

(* The constructor has tried to connect, and gone on if it could not.      *)
Init ==
  /\ dedicated \in {"up", "down"}
  /\ link \in IF dedicated = "up" THEN {"open", "closed"} ELSE {"closed"}
  /\ matchPc = "idle"
  /\ waiting = Pairs
  /\ room_counter = 0
  /\ room = 0
  /\ wire = <<>>
  /\ hosted = <<>>
  /\ told = {}
  /\ breaks = 0
  /\ faults = 0

Fault ==
  /\ faults < MaxFaults
  /\ faults' = faults + 1

Goto(from, to) ==
  /\ matchPc = from
  /\ matchPc' = to

(* The socket has a remote address.                                        *)
Connected == link # "closed"

(* Bound: a room is drawn for a pair that is told of it, or for one fault  *)
(* or one break; no behaviour wants more of them.                          *)
MaxRooms == Pairs + MaxBreaks + MaxFaults

-----------------------------------------------------------------------------
(* Mutants: a round that finds nobody waiting goes on all the same; a      *)
(* room is used up only by players who are told of it.                     *)
NotifyNobody ==
  /\ Goto("idle", IF Connected THEN "send" ELSE "connect")
  /\ room' = room_counter
  /\ room_counter' = room_counter + 1
  /\ UNCHANGED <<link, dedicated, waiting, wire, hosted, told, breaks, faults>>

NotifySameRoom ==
  /\ waiting > 0
  /\ Goto("idle", IF Connected THEN "send" ELSE "connect")
  /\ room' = Cardinality(told)
  /\ UNCHANGED <<link, dedicated, waiting, room_counter, wire, hosted, told,
                 breaks, faults>>

(* formMatches has a pair, draws a room (generateRoomId) and looks whether *)
(* there is a connection.                                                  *)
Notify ==
  /\ waiting > 0
  /\ room_counter < MaxRooms
  /\ Goto("idle", IF Connected THEN "send" ELSE "connect")
  /\ room' = room_counter
  /\ room_counter' = room_counter + 1
  /\ UNCHANGED <<link, dedicated, waiting, wire, hosted, told, breaks, faults>>

(* Mutant: the result of connecting is not looked at.                      *)
ConnectUnchecked(done) ==
  /\ Goto("connect", "tell")
  /\ link' = IF done THEN "open" ELSE "closed"
  /\ done => dedicated = "up"
  /\ UNCHANGED <<dedicated, waiting, roomVars, wire, hosted, told, breaks,
                 faults>>

(* connectToDedicatedServerAdmin; when it fails the pair stays in front.   *)
Connect(done) ==
  /\ IF done
     THEN /\ dedicated = "up"
          /\ Goto("connect", "send")
          /\ link' = "open"
          /\ UNCHANGED faults
     ELSE /\ Goto("connect", "idle")
          /\ link' = "closed"
          /\ Fault
  /\ UNCHANGED <<dedicated, waiting, roomVars, wire, hosted, told, breaks>>

(* Mutant: the socket is kept after a send has failed.                     *)
SendFailsKeepsSocket ==
  /\ link \in {"reset", "closed"}
  /\ Goto("send", "idle")
  /\ UNCHANGED <<link, dedicated, waiting, roomVars, wire, hosted, told,
                 breaks, faults>>

(* The send is Done as soon as the connection takes the packet, also when  *)
(* nobody is left to read it.                                              *)
Send ==
  /\ link \in {"open", "stale"}
  /\ Goto("send", "tell")
  /\ wire' = IF link = "open" THEN Append(wire, room) ELSE wire
  /\ UNCHANGED <<link, dedicated, waiting, roomVars, hosted, told, breaks,
                 faults>>

(* The send fails and the socket is disconnected, or has lost its address  *)
(* since the first look.                                                   *)
SendFails ==
  /\ link \in {"reset", "closed"}
  /\ Goto("send", "idle")
  /\ link' = "closed"
  /\ UNCHANGED <<dedicated, waiting, roomVars, wire, hosted, told, breaks,
                 faults>>

(* Mutant: a pair that could not be told is not put back.                  *)
TellDropsPair(done) ==
  /\ Goto("tell", "idle")
  /\ waiting' = waiting - 1
  /\ IF done
     THEN told' = told \cup {room} /\ UNCHANGED faults
     ELSE Fault /\ UNCHANGED told
  /\ UNCHANGED <<link, dedicated, roomVars, wire, hosted, breaks>>

(* Both players are told of the game, or they go back to the front of the  *)
(* queue and a further game will be announced for them.                    *)
Tell(done) ==
  /\ Goto("tell", "idle")
  /\ IF done
     THEN /\ waiting' = waiting - 1
          /\ told' = told \cup {room}
          /\ UNCHANGED faults
     ELSE /\ Fault
          /\ UNCHANGED <<waiting, told>>
  /\ UNCHANGED <<link, dedicated, roomVars, wire, hosted, breaks>>

-----------------------------------------------------------------------------
(* The dedicated server and the network between: not in this repository.   *)

Host ==
  /\ wire # <<>>
  /\ hosted' = Append(hosted, Head(wire))
  /\ wire' = Tail(wire)
  /\ UNCHANGED <<link, dedicated, matchPc, waiting, roomVars, told, breaks,
                 faults>>

(* The connection breaks, and the dedicated server with it or not.         *)
Break(still) ==
  /\ dedicated = "up"
  /\ still = "up" => link = "open"
  /\ breaks < MaxBreaks
  /\ breaks' = breaks + 1
  /\ dedicated' = still
  /\ link' = IF link = "open" THEN "stale" ELSE link
  /\ wire' = <<>>
  /\ UNCHANGED <<matchPc, waiting, roomVars, hosted, told, faults>>

Restart ==
  /\ dedicated = "down"
  /\ dedicated' = "up"
  /\ UNCHANGED <<link, matchPc, waiting, roomVars, wire, hosted, told, breaks,
                 faults>>

(* The system may or may not forget the address of a connection it resets. *)
ResetArrives ==
  /\ link = "stale"
  /\ link' \in {"reset", "closed"}
  /\ UNCHANGED <<dedicated, matchPc, waiting, roomVars, wire, hosted, told,
                 breaks, faults>>

ServiceNext ==
  \/ Notify
  \/ \E done \in BOOLEAN : Connect(done) \/ Tell(done)
  \/ Send
  \/ SendFails

OutsideNext ==
  \/ Host
  \/ \E still \in {"up", "down"} : Break(still)
  \/ Restart
  \/ ResetArrives

Next == ServiceNext \/ OutsideNext

Spec == Init /\ [][Next]_vars

(* The matchmaking thread goes on with its rounds, connects and sends      *)
(* return; nothing is promised of the dedicated server.                    *)
FairSpec == Spec /\ WF_vars(ServiceNext)

-----------------------------------------------------------------------------
(* Breaking, reconnecting and retrying never make the dedicated server     *)
(* host a room twice, or one drawn before a room it has already hosted.    *)
Announcing == INSTANCE Announcements

AnnouncesInOrder == Announcing!Spec

(* Nobody is sent to a game the dedicated server will not host, as long as *)
(* nothing has broken: failed connects and retries alone lose no game.     *)
ToldIsHosted ==
  breaks = 0 => told \subseteq ToSet(hosted) \cup ToSet(wire)

(* However connects, sends and tellings fail and are tried again, no pair  *)
(* drops out of the rounds and no two pairs are told of one game.          *)
OneGameEach == waiting + Cardinality(told) = Pairs

(* Once the dedicated server is up for good every pair is told of a game,  *)
(* whatever state earlier breaks have left the socket in.                  *)
PairsAreServed == <>[](dedicated = "up") => <>(waiting = 0)
=============================================================================
