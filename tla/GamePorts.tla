----------------------------- MODULE GamePorts -----------------------------
(***************************************************************************)
(* The two counters MatchmakingService hands numbers out of when it forms  *)
(* a game: the UDP port the clients of the game will use, which runs round *)
(* the range FirstPort..LastPort, and the number of the game's room.       *)
(* Only formMatches draws from them, and only from the matchmaking thread. *)
(***************************************************************************)
EXTENDS Integers

CONSTANTS
  FirstPort,   (* 55100 in the code: where the sequence starts and restarts *)
  LastPort     (* 55200 in the code: the last port handed out               *)

(***************************************************************************)
(* The counter is an unsigned short.  LastPort is below its largest value, *)
(* for otherwise the comparison that wraps the sequence is never true.     *)
(***************************************************************************)
PortValues == 65536   (* 2^16 *)

ASSUME PortRangeAssumption ==
  /\ FirstPort \in Nat
  /\ LastPort \in Nat
  /\ FirstPort < LastPort
  /\ LastPort < PortValues - 1

VARIABLES
  next_game_client_udp_port_val,
  room_counter

portVars == <<next_game_client_udp_port_val, room_counter>>

Ports == FirstPort .. LastPort

PortCount == LastPort - FirstPort + 1

(* Mutant: the port does not run round.                                    *)
PortAfterForever(port) == (port + 1) % PortValues

(* assignNextGameClientUdpPort: the value the counter takes after port.    *)
PortAfter(port) ==
  LET incremented == (port + 1) % PortValues
  IN  IF incremented > LastPort THEN FirstPort ELSE incremented

PortsInit ==
  /\ next_game_client_udp_port_val = FirstPort
  /\ room_counter = 0

(***************************************************************************)
(* formMatches draws a port for each of the two players and then a room.   *)
(* Nothing is given back when the game then fails to start.                *)
(***************************************************************************)
DrawnPort1 == next_game_client_udp_port_val
DrawnPort2 == PortAfter(DrawnPort1)
DrawnRoom  == room_counter

(* Mutant: the room's number is not counted on.                            *)
DrawGameSameRoom ==
  /\ next_game_client_udp_port_val' = PortAfter(DrawnPort2)
  /\ UNCHANGED room_counter

(* Mutant: only one port is drawn for the two.                             *)
DrawGameOnePort ==
  /\ next_game_client_udp_port_val' = PortAfter(DrawnPort1)
  /\ room_counter' = room_counter + 1

DrawGame ==
  /\ next_game_client_udp_port_val' = PortAfter(DrawnPort2)
  /\ room_counter' = room_counter + 1

PortsTypeOK ==
  /\ next_game_client_udp_port_val \in Ports
  /\ room_counter \in Nat
=============================================================================
