----------------------------- MODULE UpdateLoop -----------------------------
(***************************************************************************)
(* ServerTCP: one round of update after another, over the list of clients  *)
(* and the selector, both of which hold pointers to sockets that           *)
(* removeClient deletes.  ServerThread has what the rounds lead to, one    *)
(* event at a time; here are the rounds: which sockets are looked at, in   *)
(* which order, and what becomes of each status of receive.                *)
(***************************************************************************)
EXTENDS Integers, SequencesExt

CONSTANTS
  Sockets,      (* the addresses new sf::TcpSocket may return               *)
  MaxPieces     (* bound: pieces of packets waiting at one socket           *)

ASSUME UpdateLoopAssumption == MaxPieces \in Nat \ {0}

VARIABLES
  clients,      (* ServerTCP::clients                                       *)
  selector,     (* the sockets in the selector, the listener apart          *)
  live,         (* the sockets that exist                                   *)
  sessions,     (* the sockets whose session Server keeps (the callbacks)   *)
  updatePc,     (* where in update the server thread is                     *)
  ready,        (* the sockets wait() has found ready, the listener apart   *)
  todo,         (* what is left of clients_copy                             *)
  backlog,      (* a connection waits at the listener                       *)
  pieces,       (* pieces of packets that have come for each socket         *)
  gone          (* how the other end of each socket has ended, if it has    *)

socketVars == <<clients, selector, live, sessions>>
peerVars   == <<backlog, pieces, gone>>

vars == <<socketVars, updatePc, ready, todo, peerVars>>

(* "closed": ended in order; "reset": broken, or the peer was rude;        *)
(* "error": anything that receive reports as Error.                        *)
Ends == {"no", "closed", "reset", "error"}

(* "stopped": stopListener has run; "thrown": an exception that nobody     *)
(* catches has ended the process.                                          *)
UpdatePcs == {"wait", "accept", "serve", "stopped", "thrown"}

TypeOK ==
  /\ clients \in Seq(Sockets)
  /\ selector \subseteq Sockets
  /\ live \subseteq Sockets
  /\ sessions \subseteq Sockets
  /\ updatePc \in UpdatePcs
  /\ ready \subseteq Sockets
  /\ todo \in Seq(Sockets)
  /\ backlog \in BOOLEAN
  /\ pieces \in [Sockets -> 0 .. MaxPieces]
  /\ gone \in [Sockets -> Ends]

(* startListener has succeeded.                                            *)
Init ==
  /\ clients = <<>>
  /\ selector = {}
  /\ live = {}
  /\ sessions = {}
  /\ updatePc = "wait"
  /\ ready = {}
  /\ todo = <<>>
  /\ backlog = FALSE
  /\ pieces = [s \in Sockets |-> 0]
  /\ gone = [s \in Sockets |-> "no"]

Goto(from, to) ==
  /\ updatePc = from
  /\ updatePc' = to

Readable(s) == pieces[s] > 0 \/ gone[s] # "no"

-----------------------------------------------------------------------------
(* selector.wait returns, with something ready, and the first test.        *)
Wait ==
  /\ backlog \/ \E s \in selector : Readable(s)
  /\ Goto("wait", IF backlog THEN "accept" ELSE "serve")
  /\ ready' = {s \in selector : Readable(s)}
  /\ todo' = IF backlog THEN <<>> ELSE clients
  /\ UNCHANGED <<socketVars, peerVars>>

AddClient(s) ==
  /\ clients' = Append(clients, s)
  /\ selector' = selector \cup {s}
  /\ live' = live \cup {s}
  /\ sessions' = sessions \cup {s}

(* acceptNewClient gets a connection, and the callback makes its session;  *)
(* the list is copied with the new client in it.                           *)
AcceptNewClient(s) ==
  /\ Goto("accept", "serve")
  /\ s \notin live
  /\ AddClient(s)
  /\ todo' = clients'
  /\ backlog' = FALSE
  /\ UNCHANGED <<ready, pieces, gone>>

(* accept fails, and the socket made for it is deleted again.              *)
AcceptFails ==
  /\ Goto("accept", "serve")
  /\ todo' = clients
  /\ backlog' = FALSE
  /\ UNCHANGED <<socketVars, ready, pieces, gone>>

(* The connection is reset before its address is asked for: value() throws *)
(* in acceptNewClient, or in the constructor of ClientSession.             *)
AcceptThrows ==
  /\ Goto("accept", "thrown")
  /\ UNCHANGED <<socketVars, ready, todo, peerVars>>

-----------------------------------------------------------------------------
(* The loop over clients_copy, at the socket c.                            *)
At(c) ==
  /\ updatePc = "serve"
  /\ todo # <<>>
  /\ c = Head(todo)

Serves(c) == At(c) /\ c \in ToSet(clients) /\ c \in ready

PassOver(c) ==
  /\ At(c)
  /\ c \notin ToSet(clients) \/ c \notin ready
  /\ todo' = Tail(todo)
  /\ UNCHANGED <<socketVars, updatePc, ready, peerVars>>

(* Mutants: a packet is handled whatever receive has returned; a round     *)
(* serves one client.                                                      *)
ReceiveUnready(c) ==
  /\ Serves(c)
  /\ pieces' = [pieces EXCEPT ![c] = @ - 1]
  /\ todo' = Tail(todo)
  /\ UNCHANGED <<socketVars, updatePc, ready, backlog, gone>>

ReceiveEndsRound(c) ==
  /\ Serves(c)
  /\ pieces[c] > 0
  /\ pieces' = [pieces EXCEPT ![c] = @ - 1]
  /\ todo' = <<>>
  /\ UNCHANGED <<socketVars, updatePc, ready, backlog, gone>>

(* receive takes what has come: Done, with a packet for the callback, or   *)
(* NotReady (or Partial) until the rest of the packet is there.            *)
Receive(c) ==
  /\ Serves(c)
  /\ pieces[c] > 0
  /\ pieces' = [pieces EXCEPT ![c] = @ - 1]
  /\ todo' = Tail(todo)
  /\ UNCHANGED <<socketVars, updatePc, ready, backlog, gone>>

(* Error: nothing is done about it.                                        *)
ReceiveError(c) ==
  /\ Serves(c)
  /\ gone[c] = "error"
  /\ todo' = Tail(todo)
  /\ UNCHANGED <<socketVars, updatePc, ready, peerVars>>

(* A reset may come before data that was sent earlier is read.             *)
Disconnected(c) ==
  /\ Serves(c)
  /\ \/ gone[c] = "closed" /\ pieces[c] = 0
     \/ gone[c] = "reset"

(* list::remove takes a socket out wherever it stands, which is once.      *)
(* Mutant: the socket is left in the selector.                             *)
RemoveClientSelected(c) ==
  /\ sessions' = sessions \ {c}
  /\ clients' = RemoveFirst(clients, c)
  /\ live' = live \ {c}
  /\ UNCHANGED selector

RemoveClient(c) ==
  /\ sessions' = sessions \ {c}
  /\ selector' = selector \ {c}
  /\ clients' = RemoveFirst(clients, c)
  /\ live' = live \ {c}

(* Mutant: another client with the same fate is deleted along with it.     *)
ReceiveDisconnectedSweeps(c) ==
  /\ Disconnected(c)
  /\ LET swept == {s \in live : gone[s] = gone[c]}
     IN  /\ sessions' = sessions \ swept
         /\ selector' = selector \ swept
         /\ clients' = SelectSeq(clients, LAMBDA s : s \notin swept)
         /\ live' = live \ swept
         /\ pieces' = [s \in Sockets |-> IF s \in swept THEN 0 ELSE pieces[s]]
         /\ gone' = [s \in Sockets |-> IF s \in swept THEN "no" ELSE gone[s]]
  /\ todo' = Tail(todo)
  /\ UNCHANGED <<updatePc, ready, backlog>>

ReceiveDisconnected(c) ==
  /\ Disconnected(c)
  /\ RemoveClient(c)
  /\ todo' = Tail(todo)
  /\ pieces' = [pieces EXCEPT ![c] = 0]
  /\ gone' = [gone EXCEPT ![c] = "no"]
  /\ UNCHANGED <<updatePc, ready, backlog>>

(* The log line asks for the address of the peer: a connection that has    *)
(* been reset may have none any more, and value() throws.                  *)
DisconnectedThrows(c) ==
  /\ Serves(c)
  /\ gone[c] = "reset"
  /\ updatePc' = "thrown"
  /\ UNCHANGED <<socketVars, ready, todo, peerVars>>

EndRound ==
  /\ Goto("serve", "wait")
  /\ todo = <<>>
  /\ UNCHANGED <<socketVars, ready, todo, peerVars>>

(* run has found its flag lowered.  stopListener makes no callbacks.       *)
StopListener ==
  /\ Goto("serve", "stopped")
  /\ todo = <<>>
  /\ clients' = <<>>
  /\ selector' = {}
  /\ live' = {}
  /\ UNCHANGED <<sessions, ready, todo, peerVars>>

-----------------------------------------------------------------------------
(* The other ends, of which nothing is promised.                           *)
PeerConnects ==
  /\ ~backlog
  /\ live # Sockets
  /\ backlog' = TRUE
  /\ UNCHANGED <<socketVars, updatePc, ready, todo, pieces, gone>>

PeerSends(s) ==
  /\ s \in live
  /\ gone[s] = "no"
  /\ pieces[s] < MaxPieces
  /\ pieces' = [pieces EXCEPT ![s] = @ + 1]
  /\ UNCHANGED <<socketVars, updatePc, ready, todo, backlog, gone>>

PeerEnds(s, end) ==
  /\ s \in live
  /\ gone[s] = "no"
  /\ gone' = [gone EXCEPT ![s] = end]
  /\ UNCHANGED <<socketVars, updatePc, ready, todo, backlog, pieces>>

ServerNext ==
  \/ Wait
  \/ AcceptFails
  \/ AcceptThrows
  \/ EndRound
  \/ StopListener
  \/ \E s \in Sockets :
       \/ AcceptNewClient(s)
       \/ PassOver(s)
       \/ Receive(s)
       \/ ReceiveError(s)
       \/ ReceiveDisconnected(s)
       \/ DisconnectedThrows(s)

PeersNext ==
  \/ PeerConnects
  \/ \E s \in Sockets :
       PeerSends(s) \/ \E end \in Ends \ {"no"} : PeerEnds(s, end)

Next == ServerNext \/ PeersNext

Spec == Init /\ [][Next]_vars

(* The server thread is scheduled, and its handlers come to an end         *)
(* (HandlersFinish in ServiceServer).                                      *)
FairSpec == Spec /\ WF_vars(ServerNext)

-----------------------------------------------------------------------------
(* The four places that know a client (list, selector, heap, sessions)     *)
(* agree whenever a client may be looked at, and each client is listed     *)
(* once: SocketSelector::add demands that a socket is not destroyed while  *)
(* it is stored in the selector.                                           *)
BooksAgree ==
  updatePc \notin {"thrown", "stopped"} =>
    /\ selector = live
    /\ sessions = live
    /\ ToSet(clients) = live
    /\ IsInjective(clients)

(* A round never comes to a pointer whose socket has been deleted: the     *)
(* test against clients in each turn of the loop always succeeds, for only *)
(* the client at hand is ever removed.                                     *)
CopyIsLive ==
  updatePc = "serve" => ToSet(todo) \subseteq live

(* A client that has closed its connection is removed, however many others *)
(* keep sending, and also beside one that receive reports as Error and     *)
(* that stays ready for ever.                                              *)
ClosedIsRemoved ==
  \A s \in Sockets :
    gone[s] = "closed" ~> gone[s] # "closed" \/ updatePc \in {"thrown", "stopped"}
=============================================================================
