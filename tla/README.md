# The service server of AA4, in TLA+

`src/AA4_ServiceServer/AA4_ServiceServer/` is the lobby of a two-player game.
Clients connect over TCP, are sent a map, log in or register, ask for a match
and wait; the server pairs them, announces the game to a separate dedicated
server over an admin connection, and tells both players the UDP port to use.
This directory models that program and checks what it relies on. Paths below
are relative to that source directory; everything else in the repository
(SFML, MySQL Connector, Visual Studio files, binaries) is third-party or
generated and is not modelled. The repository has no tests; what it says of
itself, it says in comments.

## 1. Inventory

Three threads: *main* (console), the *server thread* (`Server::run`) and the
*matchmaking thread* (`Server::matchmakingThreadLoop`).

| Component | State | Operations | Talks to |
|---|---|---|---|
| `main` (Main.cpp) | exit flag | read console, `stop`, join | Server |
| `Server` (Server.cpp) | `clientSessions` + `sessionsMutex`, two running flags, `mmThread` | `run`, `stop`, `handleClientConnected`, `handleClientDisconnected`, `processPacket`, `matchmakingThreadLoop` | all below, by calls |
| `ServerTCP` | `listener`, `selector`, `clients`, `running` | `startListener`, `stopListener`, `update`, `acceptNewClient`, `removeClient`, `sendToClient` | Server, by three callbacks |
| `ClientSession`, `PlayerInfo` | socket, state, player, remote end | written by Server, AuthService, MatchmakingService | shared between threads, unlocked |
| `MatchmakingService` | `matchmakingQueue` + `queueMutex`, port and room counters, admin socket | `addClientToQueue` (server thread), `formMatches` (matchmaking thread) | ServerTCP, dedicated server |
| `AuthService`, `DBManager` | database connection, `isConnected` | login, registration; connect, disconnect | ServerTCP, MySQL |
| `LauncherService` | map file path | `sendMapToClient` | ServerTCP |
| `ServerConfig.h`, `Utils.h` | constants | packet type conversion | |

What is hard here, and what each part must get right:

- **The queue.** `formMatches` holds `queueMutex` from its first line to its
  return, over two sends and possibly a connect; `addClientToQueue` takes it
  twice, with a send in between. Nobody may stand in line twice, be lost from
  it or be overtaken; a failed attempt must put both players back in front.
- **The sessions.** `formMatches` looks the two sessions up under
  `sessionsMutex` and uses them after releasing it, while the server thread may
  erase them, delete their sockets and accept new connections. Sockets and
  sessions are allocated apart (ServerTCP.cpp:119, Server.cpp:97), so a newcomer
  may get the one, the other or both of somebody whom matchmaking still refers
  to. A disconnect does not touch the queue at all.
- **The state of a session** is written by three components and two threads.
  Only players who have authenticated may get past `AWAITING_CREDENTIALS`; who
  is `IN_MATCHMAKING_QUEUE` must be in the queue; `MATCHED` must mean that both
  players were told of one game the dedicated server knows of.
- **Ports and rooms.** A sequence of 101 ports that wraps, a room counter, and
  retries that draw anew.
- **The update loop.** The server thread iterates over a copy of the client
  list; list, selector, heap and sessions must agree, and no busy or broken
  client may keep another from being served.
- **Accounts.** The test that a nickname is free and the insertion are two
  statements, an error reads as "no such user", and a failed statement may have
  taken effect; nobody may get in under a name that is not his.
- **The link to the dedicated server** is written to and never read: it looks
  connected until a send fails.
- **Starting and stopping.** `stop` is called by main and by the destructor, at
  any moment of `run`'s start-up: before, between and after the two flags, and
  before the matchmaking thread exists; the server thread waits in
  `selector.wait()` without a time limit.
- **Delivery.** Partial sends on sockets that do not block, two threads that send
  on one socket, replies that are lost.

`PROJECT.json` lists every hazard with its line and the properties that cover it.

## 2. Modules

```
GamePorts      Sessions
    \          /      \
  MatchmakingThread   ServerThread
             \         /
            ServiceServer ---- refines ---> WaitingLine
             /         \
   MCServiceServer   ServiceServerProofs -- LobbyProofs

  AdminLink ----- refines ---> Announcements     (AdminLinkProofs)
  Accounts ------ refines ---> Directory         (MCAccounts, AccountsProofs)
  UpdateLoop                                     (UpdateLoopProofs)
  ServerFraming                                  (ServerFramingProofs)
  Lifecycle                                      (LifecycleProofs)

  SequenceLemmas: lemmas shared by the proof modules
```

ServiceServer is the whole server at work; the modules below it each open one
step that ServiceServer takes whole: `NotifyDedicated` (AdminLink),
`Authenticate` (Accounts), the choice of the next client (UpdateLoop) and
`SendToClient` (ServerFraming). In each of these the rest of the server is
reduced to what reaches that step, which keeps them small enough to check with
the failures that matter to them.

- **GamePorts**: the port counter (an unsigned short, so modulo 2^16) and the
  room counter. `DrawGame` is the three draws at MatchmakingService.cpp:229-231.
- **Sessions**: what the threads share. A socket is a heap address, because the
  code uses `sf::TcpSocket*` as handle, map key and queue entry; a session is an
  address in `Memory`, because `formMatches` keeps `ClientSession*`. `clients` are
  the live sockets and `clientSessions` maps them to their sessions; `socketOf` is
  a session's own pointer back, `peer` the remote end it was made with, and
  `remote` the one its socket has now. Either kind of address is given out again
  as the allocator likes, independently of the other. `queueMutex` says who
  holds the mutex between two steps (`addClientToQueue` takes and releases it
  within one). `sessionsMutex` is only ever held within one step.
- **ServerThread**: one action per stretch of a handler, cut at locks and
  waiting calls. `serverPc` is the place in the handler, `serving` its client.

  | Action | Code |
  |---|---|
  | `AcceptNewClient`, `GreetClient` | acceptNewClient, handleClientConnected with sendMapToClient |
  | `ReceiveAuthRequest`, `Authenticate` | processPacket, processAuthenticationRequest |
  | `ReceiveMatchmakingRequest`, `AddClientToQueue`, `ConfirmQueued`, `LeaveQueue` | processPacket, the three parts of addClientToQueue |
  | `HandleClientDisconnected`, `RemoveClient` | update's disconnect branch, removeClient |

- **MatchmakingThread**: one round of `formMatches`. `matchPc` is the place in
  it; `socket1`, `socket2`, `session1` and `session2` are the pointers it has in
  hand, each followed where the code follows it: states are read and written
  through the sessions, packets go to the sockets the sessions name, and the queue
  gets back the sockets it gave. `games` and `tickets`
  record what the dedicated server and the players have been sent; a ticket also
  names the room it was sent for, which the packet does not contain.

  | Action | Code in formMatches |
  |---|---|
  | `TooFewWaiting` | 144-149 |
  | `TakePair`, `DropMissing` | 154-187, 187-200 |
  | `CheckStates`, `GiveBack` | 206, 208-223 |
  | `NotifyDedicated` | 226-284 |
  | `TellPlayer1`, `TellPlayer2` | 286-308 |
  | `SettleMatch` | 310-337 |

- **ServiceServer** composes the two threads and states the properties, in three
  groups. Some are of every client, whatever the allocator does. Some are of a
  client's `Own` socket and session: of one who was not an heir, that is, who did
  not come into a socket or a session that matchmaking still referred to. And two
  are what the source says of every client and is not so. `heirs` is history: the
  connections that did, which no guard reads.
- **WaitingLine** is what matchmaking promises, with no threads, locks or
  network: one line that is joined at the back, left by anyone, served two at a
  time from the front, in which nobody stands twice or overtakes. The
  refinement maps it to `Line`: the pair in hand, before the queue.
- **AdminLink**: `formMatches` around the admin socket, for pairs who only wait.
  The socket is *closed*, *open*, *stale* (the other end is gone and nobody
  knows) or *reset* (a send fails). `Notify` draws the room and then looks at the
  socket (229-252), `Connect` is connectToDedicatedServerAdmin, `Send` and
  `SendFails` 262-284, `Tell` 306-337; `Host`, `Break`, `Restart`, `ResetArrives` are the
  dedicated server and the network, which are not in this repository. A room
  drawn for an attempt that fails is never used.
- **Announcements** is what that link promises, in terms of what the dedicated
  server reads and nothing else: each room it reads is later than all before.
- **Accounts**: processAuthenticationRequest cut at its SQL statements over the
  table `usuaris`, which may or may not refuse a second row for a nickname: both
  happen. `UserExist` and `RegisterUser` are the two statements of a
  registration; each may end in an exception, an INSERT also after it has taken
  effect. `RegisteredElsewhere` is any other program that adds users. `doubtful`
  is history: the nicknames another program has added or `userExist` has failed
  for.
- **Directory** is what accounts promise: a name that is free is taken in one step
  and then opens to what it was taken with; only a name in doubt may be taken
  again.
- **UpdateLoop**: rounds of ServerTCP::update. `Wait` snapshots who is ready,
  `AcceptNewClient`, `AcceptFails` and `AcceptThrows` are acceptNewClient,
  then one action per turn of the loop over `clients_copy` (`todo`): pass over,
  receive, ignore an error, remove, or throw. Addresses of deleted sockets are
  given out again. Peers send pieces of packets and end in order, by a reset or
  in an error.
- **ServerFraming**: the stream of the clients at one socket address, who come and
  go one after the other. A packet is a head and a tail;
  `Write` puts one piece into the buffer, `WriteFails` finds it full or the socket
  deleted, and `Sent` is what each sender does with the result. Two threads inside
  `send` at once share the socket's one buffer, so either may write the other's piece
  (`InBuffer`). `hand` is what a round of `formMatches` holds that leads here: the
  socket it is to put back (`entry`), the client's session, or an erased session whose
  socket was here (`stale`). `Accept` may find any of it, and then `heir` is TRUE:
  the newcomer is in a round that took somebody else. `overlapped` and `heir` are
  history; no guard reads them.
- **Lifecycle**: main, `run` and `stop`, the two flags, the thread object,
  listener and database connection. exit may be typed at any moment of the
  start-up; `met` is history, the place where `run` was when the first `stop` looked
  at its flags. Handlers and rounds only last.

Definitions whose comment starts with *Mutant* are plausible bugs in the action
below them. No specification uses them; `PROJECT.json` pairs each with the
property it breaks.

### How the code was abstracted

- *Freed memory.* The code follows pointers to erased sessions and deleted
  sockets. The model lets it go on: the state of an erased session is kept or
  overwritten (`HandleClientDisconnected`), the rest is what was there, and
  once the memory is given out again it is the new owner's. A crash is a
  behaviour that ends, which no safety property minds.
- *Atomic steps.* A step ends wherever the other thread could change what is
  read next. `CheckStates`, `GiveBack` and `SettleMatch` read or write two
  sessions in one step: the server thread can move only one of them at a time,
  nobody becomes `IN_MATCHMAKING_QUEUE` while `formMatches` has the mutex, and a
  handler that takes the state back then waits for it, so each order of the
  separate accesses gives a result the single step allows too.
  `NotifyDedicated` builds its packet, connects and sends in one step.
- *`session.state`* is read and written without a lock: formally a data race;
  on the platforms the project builds for, an aligned word has one of the
  values written to it, which is what the interleavings give.
- *Sends.* `sendToClient` succeeds or fails; a failure on a live socket costs
  one of `MaxFaults`; on a deleted one it always fails (a closed handle). Error,
  Partial, NotReady and Disconnected are one failure, as they are in the code.
- *Packets that a state does not expect* change nothing and are not steps. The
  test at MatchmakingService.cpp:81 repeats the one `processPacket` has just made;
  should it fail all the same, everything is as if the packet had not come.
- *`AWAITING_MAP_ACK`* is in the enumeration and nothing assigns it.
- *The table `usuaris`* is not in the repository, so nothing is assumed of its
  constraints. It is a set of passwords for each nickname: rows that are
  alike count as one.
- *The thread object.* The assignment of `mmThread` (Server.cpp:49) and
  `joinable` (72) are one step each; should the two meet, that is a data race
  with the same outcomes as one of the orders, or none that C++ defines.
- *Who is behind a nickname or a password* is a value; what is compared is
  whether they are equal.
- *A packet* is two pieces, enough for a send to stop before or inside it.

## 3. Runs

| Run | Shows |
|---|---|
| `lobby` | Of every client, whatever the allocator does: types, nobody twice in line (`NobodyTwice`), sessions and sockets agree between handlers (`SessionsTrackClients`), rooms unique and a game's two ports different across the wrap (`GamesDistinct`), no port shared by games close to each other (`PortsNotSharedSoon`), one fair line (`KeepsOneLine`) in which nobody gets before another who was there first (`NobodyOvertakes`). Of a client who is no heir: he is in the lobby only if authenticated (`LobbyIsAuthenticated`), waits while in line but for the gap in `addClientToQueue` (`InLineIsWaiting`), is not lost from it by one failure (`OneFaultLosesNobody`), is told the port and side that were announced for him (`TicketsReachTheirPlayers`), is matched only when he and his opponent, or that one's heir, were told (`MatchedPairTold`), and stays so but for a late failed confirmation (`OnlyLateConfirmationUnmatches`) |
| `progress` | Every handler of the server thread ends, and a pair at the head of the line does not stay there, with a failure and with reused memory |
| `accounts` | What clients are told is true of the table (`AnswersAreTrue`); a nickname gets a second password only where `userExist` failed or another program has a hand in it (`TakenOnce`), and the two statements of a registration are one step of a directory (`KeepsDirectory`), through two failed statements and a table of either kind |
| `admin_link` | Each room read is later than all before, so none twice and none late (`AnnouncesInOrder`), nobody sent to a game that is not hosted unless something broke (`ToldIsHosted`), no pair lost over the retries and no two told of one game (`OneGameEach`), every pair served once the dedicated server stays up (`PairsAreServed`) |
| `update_loop` | The four records of a client agree (`BooksAgree`), no pointer of the copied list is dangling (`CopyIsLive`), whoever closes is removed (`ClosedIsRemoved`) |
| `framing` | Of what the two threads send to a client who is no heir, only the confirmation can meet `S_MATCH_FOUND` (`OnlyConfirmationsOverlap`), and such a client, once matched, learns of it if he reads, unless two sends have met or a half packet was left before (`MatchedIsTold`) |
| `stops` | exit at any moment. The server is taken down twice (`StopsOnceButBetweenFlags`), or a round runs after the sessions were cleared (`RoundsAfterClearOnlyBetweenFlags`), only if the first `stop` looked between the two flags; the thread is left unjoined only if it looked between the first flag and the thread's creation (`UnjoinedOnlyBeforeThread`); exit is lost only if it looked before both flags were up (`ExitEndsProcessOnceStarted`); and a process that ends alive leaves nothing behind (`LeavesNothingBehind`) |
| `lost_player`, `stale_entry`, `half_sent`, `stop_undone`, `exit_blocked` | The code against its own comments and messages, and those of the library it calls: see Findings |

**Bounds.** `lobby` has three sockets and three places for sessions: a pair being
matched and one more in the queue, on the way in or out, which is what overtaking,
duplicates and a stale entry beside a live one need, with sockets and sessions of
up to three clients falling together in every way. `MaxConnections` bounds
connections in a behaviour; `MaxFaults` bounds failures, and one is enough there
because a send to a client that has left fails of itself: both packets of a match can
fail, or one and a confirmation. (With two failures the run takes several minutes and
finds no more.) The port range is 5 numbers, the smallest odd one in which two
games one draw apart have four different ports, so that it wraps within a game
and in another place each time. The rooms are bounded
because each round of matchmaking that draws one either fails, using up a fault,
or serves a pair. `progress` has two addresses of each kind, three connections and one
failure: a pair, and a newcomer in the memory of one who left.

`accounts`: two of each, so that a name is asked for with the right and the
wrong password, by its owner and by another; two errors, one for each statement
of a registration. `admin_link`: three pairs and two breaks, so that a connection
is lost, made again and lost again with games before, between and after; two
failures besides. Rooms need no bound of their own: each is drawn for a pair that is
served or for a failure. `update_loop`: three sockets (one removed, one busy, one in
error); one piece waiting at a socket is enough for a client that is always
ready, since it may send the next as soon as that is read. `framing`: room for
three pieces of two-piece packets, so that the buffer can be full before and in
the middle of one; clients come and go without a bound. `Lifecycle` is finite as it stands. The violations are found
with the smallest bounds that show them. Addresses, and names and
passwords in `accounts`, are symmetric in the safety runs; runs with liveness use
no symmetry.

**Fairness.** `ServiceServer!FairSpec` has weak fairness of the matchmaking
thread and of the steps that continue a handler: the operating system schedules
both threads, sends and connects return, the database answers. Weak fairness of
a step that waits for `queueMutex` is enough because a round that keeps the mutex
serves a pair, drops an entry or uses up a failure, so that only finitely many
follow one another while the server thread waits; `std::mutex` promises no
order, but the matchmaking thread also sleeps between rounds (Server.cpp:209).
Nothing is assumed of clients. Failures are finitely many in a behaviour: with endless
failures a pair is retried for ever, which is what the code does.
`AdminLink!FairSpec` schedules the matchmaking thread; the dedicated server may
stay down or never read. `UpdateLoop!FairSpec` schedules the server thread, whose
handlers end (`HandlersFinish`); nothing is assumed of the peers, so they may
keep it busy for ever. `ServerFraming!FairSpec` assumes that the client goes on
reading, without which nothing can be promised to it.
`Lifecycle!FairSpec` schedules the three threads; `ActiveSpec` adds that
somebody always wakes `selector.wait()` in the end, an assumption on clients and
not on the code, without which `exit_blocked` shows the process hanging; only
`stops` uses it.

`CHECK_DEADLOCK FALSE` is set where the system may stop: `Lifecycle` (the process
ends), `UpdateLoop` (`stopListener` and the exceptions end it, and `wait` waits
while no peer stirs), `AdminLink` (all pairs served), `ServerFraming` (a matched client is
sent nothing more). The others never stop.

## 4. Findings

Each is a run that TLC must find violated.

- `lost_player`: two failed sends leave a client `IN_MATCHMAKING_QUEUE` and not
  in the queue, for good (MatchmakingService.cpp:326 and 133 against 325).
- `stale_entry`: a disconnect leaves the client's socket in the queue, and a newcomer
  at its address who has only been sent the map is made `LOGGED_IN` when the
  entry comes up (MatchmakingService.cpp:214, 221 against ClientSession.h:12).
- `stop_undone`: exit typed between the two flags is undone by `run`, which raises the
  second one and creates the matchmaking thread after `stop` found none to join and
  cleared the sessions. When main says that the server is stopped, its rounds go
  on, and the destructor takes the server down again (Server.cpp:65, 72 against 64
  and Main.cpp:63).
- `half_sent`: a packet that was sent in part is never completed, and the next one
  starts inside it (ServerTCP.cpp:101 against SFML's TcpSocket.hpp:186-189).
- `exit_blocked`: `stop` does not notify the server thread (ServerTCP.cpp:50
  against Main.cpp:55).

Also seen, without a run of their own; where a property of a passing run makes an
exception for it, that is named:

- What else befalls heirs (`Own` in ServiceServer): without any other failure, a newcomer
  at another socket, whose session lies where that of a client in hand lay,
  is put into `IN_MATCHMAKING_QUEUE` while the queue gets the old socket back, so he
  waits outside the line (MatchmakingService.cpp:326 against 331); and a newcomer at
  a socket in hand is sent the `S_MATCH_FOUND` of the one who left (307), with a
  port that the dedicated server was told is another's.
- A late failed confirmation sets a client who has been matched meanwhile back to
  `LOGGED_IN` (MatchmakingService.cpp:130 against ClientSession.h:14), and he may be
  matched again: the exception of `OnlyLateConfirmationUnmatches`.
- exit typed after the second flag and before the thread is created
  (Server.cpp:47-49): `stop` finds nothing to join, the destructor's call returns at
  once because both flags are down, and destroying the joinable thread ends the process
  with `std::terminate`: the exception of `UnjoinedOnlyBeforeThread`.
- exit typed before the first flag (Server.cpp:46): `stop` returns without having done
  anything, and main waits for ever for a thread that serves on. Between the two flags it
  may be lost as well: `stop` lowers the second flag before `run` raises it and comes to
  its join after `run` has created the thread, which never ends. Both are the exception
  of `ExitEndsProcessOnceStarted`.
- Another program, or an exception in `userExist` (DBManager.cpp:67), which reads as "no
  such user", lets a taken name be registered again if the table allows a second
  row: the exception of `TakenOnce`.
- A connection that is reset may have no remote address any more, and `value()`
  throws when a client is accepted (ClientSession's constructor) or, in the log line
  at ServerTCP.cpp:86, before `removeClient` at 87; nothing catches it. These are
  `AcceptThrows` and `DisconnectedThrows` of UpdateLoop: the loop ends there.
- A game is announced for a session erased after the check
  (MatchmakingService.cpp:241 against 186-188), and a client who leaves while his
  match is announced makes `formMatches` hand a deleted socket to `sendToClient`,
  which only checks for null (ServerTCP.cpp:98).
- With something broken, players are told of a game that the dedicated server
  never reads: a send on a stale connection is Done (MatchmakingService.cpp:264),
  and only the next one fails.
- `S_MATCH_FOUND` may reach a client before `S_ADDED_TO_MATCHMAKING_QUEUE`.
- LauncherService.cpp:42 says that the state is already `LOGGED_IN` when the map is
  sent, where it is `CONNECTED` (`GreetClient`).

## 5. Proofs

TLAPS checks these for every value of the constants.

- **ServiceServerProofs**: `TypeCorrect`, `NobodyStandsTwice`,
  `ImplementsWaitingLine` (the refinement) and `NobodyIsOvertaken`, for any sets of
  sockets and of places for sessions, any bounds, any port range below 2^16 - 1 and
  any behaviour of the allocator.
  The inductive invariant is `Inv`: types, `NobodyTwice`, and `Control`, which ties
  `queueMutex` and the pair in hand to `matchPc`, and `serving` to `serverPc`.
  `NobodyTwice` needs it because `addClientToQueue` searches the queue and not the
  pair in hand: the mutex is free only when there is no such pair. And the
  refinement needs `NobodyTwice`, for in a line without duplicates dropping one
  of a pair is a `RemoveFirst`. The proof goes in three layers: sequences without
  duplicates and what cutting or removing does to them (SequenceLemmas); each thread's step moves
  `Line` as `WaitingLine!Next` or not at all; hence `Inv` is inductive. With that
  in hand `NobodyIsOvertaken` is about the abstract steps alone: appending,
  removing and cutting a line keep the order of those who stay
  (`OrderAfterAppend`, `OrderAfterRemoval`, `OrderAfterCut` in SequenceLemmas).
- **LobbyProofs**, with nothing assumed of the allocator. Of every client:
  `SessionsAlwaysTrack` (with `Book`, the records of who came when),
  `GamesAreDistinct` and `PortsNeverSharedSoon`. The last two
  rest on `Spaced`: a port drawn *d* games after another is 2*d* further round the range, as long as
  that is not more than once round, which `DrawsLater` says without a modulus;
  the invariant relates each game to the counters and each pair of games to each
  other. Of a client who is no heir: `LobbyAuthenticated`, `LineIsWaiting`,
  `WaitingStaysInLine`, `TicketsAlwaysReach`, `MatchedAreTold` and
  `MatchIsTakenBackLate`. They rest on `HandKnown`: while a pair is in hand, its session
  pointers lead to such a client exactly when its socket pointers do, and the
  socket a session in hand names is connected to the player it was made for or to an
  heir; so what a round writes through old pointers reaches him only if he was
  taken from the queue himself. That is where an allocator that gives sockets and
  sessions out apart has to be dealt with: for an heir it is false.
  `Lobby` says, client by client (`Fine`), that nobody is in a
  lobby state, in line or in a handler that leads there without having authenticated,
  that who is in line waits and is not matched, and that the handlers which set a
  state run for nobody who is either; the line is handled as the set `Standing`, with
  one lemma per thread on what a step does to it. `OneFault` counts what the one failure
  has been spent on: a client about to leave the
  queue because his confirmation failed has used it up, so that no `S_MATCH_FOUND`
  fails that would make him wait again; if one failed first, the confirmation
  cannot; and while a client is joining, the server thread accepts and removes nobody,
  so sends to the pair in hand fail by a fault only. The two failures of `lost_player`
  are therefore the least that lose him. `Told` adds what the packets sent so far have
  to do with the game in hand.
- **AccountsProofs**: `TypeCorrect`, `EveryAnswerIsTrue`, `NamesAreTakenOnce` and
  `ImplementsDirectory`, for a table of either kind. Rows are only ever added, so what
  was true of a client's answer stays true; `StillFree` is the argument for the two
  statements of a registration: a nickname that `userExist` has found free is still so
  at the INSERT, or has come into doubt meanwhile.
- **AdminLinkProofs**: `TypeCorrect`, `NobodySentAstray` (while nothing has broken
  the link is never stale, and what is announced is on the wire or read),
  `EveryPairItsGame` (`NewGame`: the game in hand was drawn after all those
  anybody has been told of, so that telling it adds one to them) and
  `ImplementsAnnouncements`, by `RoomsAscend`: a room drawn and not yet sent is later than
  every room on the wire or read, also when its attempt had to connect first and
  earlier attempts have used up theirs.
- **UpdateLoopProofs**: `TypeCorrect`, `BooksAlwaysAgree`, `CopyStaysLive`. The
  invariant adds that what is left of the copy holds each socket once and only
  listed ones, which is why removing the client at hand cannot harm the rest.
- **ServerFramingProofs**: `TypeCorrect` and `OnlyConfirmationsMeetMatches`, for any
  buffer and any number of clients one after the other. Before a client's login is
  answered nothing of the queue or of a round leads to him (`Outsider`), unless he
  is an heir; later, only the confirmation can still be under way when a round
  takes him.
- **LifecycleProofs**: `TypeCorrect`, `StopsOnlyOnce`, `MatchmakingEndsFirst`,
  `ThreadJoinedInTime` and `NothingLeftBehind`, whenever exit is typed. `TypeCorrect`
  needs that each call of `stop` takes the server
  down at most once (`CallsInStep`). The others go by where the first `stop` met `run`:
  before its flag, `run` serves for ever and there is no second call (`NotLowered`); after the
  thread's creation, everything is lowered and joined (`Lowered`); and but between the two
  flags, the matchmaking flag stays down once it was lowered, so that a thread created
  behind the first `stop`'s back begins no round (`StaysDown`).

The assumptions on the constants are the named `ASSUME`s of the modules; TLC
evaluates them in the runs.

Every safety property and every action property of a passing run has its theorem. Only
model-checked is liveness (`HandlersFinish`, `FrontIsServed`, `PairsAreServed`,
`MatchedIsTold`, `ClosedIsRemoved`, `ExitEndsProcessOnceStarted`), which is out of
this prover's reach, as are
ENABLED and induction over recursive definitions. No module uses recursion.

## 6. Not modelled

- **Vendored code.** About 1,480 of the repository's lines of code are the
  server's own; SFML, its examples and the MySQL Connector headers are the other
  56,000. The project's definitions stand for most of the former and
  none of the latter, which this repository only ships: sockets, the selector and
  SQL statements appear as the server uses them. So the share of the whole
  repository that the modules cover is small, and cannot honestly be larger.
- **Headers of constants and conversions** (ServerConfig.h, Utils.h), the text of
  logs, the content of the map and the packet sent when its file is missing.
- **The table `usuaris`**, the dedicated server and the client are other
  programs; only what they can do to this one is modelled.
- **attemptReconnectToDedicatedServerAdmin**, `AWAITING_MAP_ACK` and the branches
  for unexpected packet types: dead or without effect.
- **What undefined behaviour does.** Freed memory is read as what was left in it
  or what was put there since; other outcomes end the process. What happens to heirs is what these
  outcomes lead to, and only `stale_entry` and the list under Findings speak of it.
- **More of `formMatches` in ServerFraming.** It has one round's dealings with one
  address; that the rounds follow one another in order is ServiceServer's.
- **Lifecycle and ServiceServer are not composed.** The server thread may delete
  the sockets in `stopListener` while a last round of `formMatches` sends to them;
  no statement in the repository says that it does not.

What could come next: that composition, with `stopListener` against a round; and
a proof that ServiceServer's `NotifyDedicated` and `Authenticate` are implemented by AdminLink
and Accounts, which today share no variables with it.
