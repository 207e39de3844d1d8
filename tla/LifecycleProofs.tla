-------------------------- MODULE LifecycleProofs --------------------------
(***************************************************************************)
(* What stop does whenever "exit" is typed: the theorems assume nothing of *)
(* when that is, and name the places of run, at the moment the first stop  *)
(* looks at the flags, for which a promise of the code does not hold.      *)
(***************************************************************************)
EXTENDS Lifecycle, TLAPS

Starting == BeforeFlags \cup BetweenFlags \cup BeforeThread
Serving  == {"loop", "update", "authenticate", "handler"}

(* The flags are raised by run alone, and the matchmaking thread after     *)
(* them.                                                                   *)
FlagsFollowRun ==
  /\ server_running_flag => runPc \notin BeforeFlags \cup {"close", "returned"}
  /\ matchmaking_running_flag => runPc \notin BeforeFlags \cup BetweenFlags
  /\ runPc \in Starting => matchPc = "none" /\ ~joinable
  /\ ~joinable => matchPc \in {"none", "ended"}

(* main makes one call of stop and ~Server the other, when the server      *)
(* thread has returned; each takes the server down at most once.           *)
CallsInStep ==
  /\ stops <= calls
  /\ mainPc = "console" <=> calls = 0
  /\ mainPc = "await" => calls = 1
  /\ mainPc \in {"destroy", "gone"} => calls = 2
  /\ calls = 2 => runPc = "returned"
  /\ mainPc \in {"exchange", "check", "lower"} => stops < calls
  /\ cleared \/ mainPc \in {"join", "clear", "disconnect"} => stops >= 1

(* The first stop has not looked, or looked before run's flag was up: then *)
(* run, once it has raised it, serves for ever.                            *)
NotLowered ==
  met \in BeforeFlags \cup {"nowhere"} =>
    /\ runPc \in BetweenFlags \cup BeforeThread \cup Serving => server_running_flag
    /\ runPc # "close"
    /\ runPc = "returned" => ~joinable /\ ~matchmaking_running_flag

(* It looked when all was up: then it lowers the flags and joins, and run  *)
(* raises nothing any more.                                                *)
Lowered ==
  met \in Serving => /\ runPc \notin Starting
                     /\ mainPc = "lower" \/ stops >= 1
                     /\ stops >= 1 /\ mainPc # "join" => ~joinable

(* Unless it looked between the flags, the matchmaking flag stays down and *)
(* a thread that is there afterwards begins no round.                      *)
StaysDown ==
  met \notin BetweenFlags =>
    /\ mainPc = "lower" => stops = 0
    /\ mainPc = "lower" \/ stops >= 1 => runPc \notin BeforeFlags \cup BetweenFlags
    /\ stops >= 1 => ~matchmaking_running_flag
    /\ cleared \/ mainPc \in {"clear", "disconnect"} =>
         matchPc \notin {"round", "matching"}

(* A thread that is joinable at the end has been there too late.           *)
Joined ==
  /\ mainPc = "destroy" /\ joinable => met \in BetweenFlags \cup BeforeThread
  /\ mainPc = "gone" /\ broken = "no" => ~joinable
  /\ UnjoinedOnlyBeforeThread

MetAtStop ==
  /\ met = "nowhere" <=> calls = 0 \/ (calls = 1 /\ mainPc = "exchange")
  /\ met # "close"
  /\ met = "returned" => runPc = "returned" /\ ~joinable

Inv ==
  /\ TypeOK
  /\ FlagsFollowRun
  /\ CallsInStep
  /\ MetAtStop
  /\ NotLowered
  /\ Lowered
  /\ StaysDown
  /\ Joined

-----------------------------------------------------------------------------
LEMMA InitType ==
  ASSUME Init
  PROVE  TypeOK
<1>1. isConnected \in BOOLEAN /\ con \in {"open", "null"}
  BY DEF Init
<1>2. /\ mainPc \in MainPcs /\ runPc \in RunPcs /\ matchPc \in MatchPcs
      /\ calls \in 0 .. 2 /\ stops \in 0 .. 2
      /\ met \in RunPcs \cup {"nowhere"}
      /\ broken \in {"no", "null connection", "thread never joined"}
  BY DEF Init, MainPcs, RunPcs, MatchPcs
<1>3. QED  BY <1>1, <1>2 DEF Init, TypeOK

LEMMA InitInv ==
  ASSUME Init
  PROVE  Inv
<1> USE DEF Starting, Serving, BeforeFlags, BetweenFlags, BeforeThread
<1>1. FlagsFollowRun /\ CallsInStep /\ MetAtStop
  BY DEF Init, FlagsFollowRun, CallsInStep, MetAtStop
<1>2. NotLowered /\ Lowered /\ StaysDown
  BY DEF Init, NotLowered, Lowered, StaysDown
<1>3. Joined
  BY DEF Init, Joined, UnjoinedOnlyBeforeThread, ThreadIsJoined
<1>4. QED  BY <1>1, <1>2, <1>3, InitType DEF Inv

LEMMA OneOfTwoCalls ==
  ASSUME calls \in 0 .. 2, calls # 0
  PROVE  calls = 1 \/ calls = 2
OBVIOUS

(* Each thread's steps preserve Inv, main's first.                        *)
LEMMA MainInv ==
  ASSUME Inv, ReadExit \/ MainNext
  PROVE  Inv'
<1> USE DEF Inv, TypeOK, Main, AfterStop, flagVars, dataVars,
            Starting, Serving, BeforeFlags, BetweenFlags, BeforeThread
<1>1. CASE ReadExit
  <2>1. TypeOK'
    <3>1. mainPc' \in MainPcs /\ runPc' \in RunPcs /\ matchPc' \in MatchPcs
      BY <1>1 DEF ReadExit, MainPcs, RunPcs, MatchPcs
    <3>2. server_running_flag' \in BOOLEAN /\ matchmaking_running_flag' \in BOOLEAN
      BY <1>1 DEF ReadExit
    <3>3. joinable' \in BOOLEAN /\ running' \in BOOLEAN /\ cleared' \in BOOLEAN
      BY <1>1 DEF ReadExit
    <3>4. /\ isConnected' \in BOOLEAN /\ con' \in {"open", "null"}
          /\ broken' \in {"no", "null connection", "thread never joined"}
      BY <1>1 DEF ReadExit
    <3>5. calls' \in 0 .. 2 /\ stops' \in 0 .. 2 /\ met' \in RunPcs \cup {"nowhere"}
      BY <1>1 DEF ReadExit, CallsInStep
    <3>6. QED  BY <3>1, <3>2, <3>3, <3>4, <3>5
  <2>2. FlagsFollowRun' /\ CallsInStep'
    BY <1>1
    DEF ReadExit, FlagsFollowRun, CallsInStep
  <2>3. MetAtStop' /\ NotLowered'
    BY <1>1
    DEF ReadExit, FlagsFollowRun, CallsInStep, MetAtStop, NotLowered, RunPcs
  <2>4. Lowered'
    BY <1>1
    DEF ReadExit, FlagsFollowRun, CallsInStep, MetAtStop, NotLowered, Lowered
  <2>5. StaysDown'
    BY <1>1
    DEF ReadExit, FlagsFollowRun, CallsInStep, MetAtStop, StaysDown
  <2>6. Joined'
    BY <1>1
    DEF ReadExit, FlagsFollowRun, CallsInStep, MetAtStop, NotLowered, Lowered,
       Joined, UnjoinedOnlyBeforeThread, ThreadIsJoined, RunPcs
  <2>7. QED  BY <2>1, <2>2, <2>3, <2>4, <2>5, <2>6
<1>2. CASE StopExchange
  <2>1. TypeOK'
    <3>1. mainPc' \in MainPcs /\ runPc' \in RunPcs /\ matchPc' \in MatchPcs
      BY <1>2 DEF StopExchange, MainPcs, RunPcs, MatchPcs
    <3>2. server_running_flag' \in BOOLEAN /\ matchmaking_running_flag' \in BOOLEAN
      BY <1>2 DEF StopExchange
    <3>3. joinable' \in BOOLEAN /\ running' \in BOOLEAN /\ cleared' \in BOOLEAN
      BY <1>2 DEF StopExchange
    <3>4. /\ isConnected' \in BOOLEAN /\ con' \in {"open", "null"}
          /\ broken' \in {"no", "null connection", "thread never joined"}
      BY <1>2 DEF StopExchange
    <3>5. calls' \in 0 .. 2 /\ stops' \in 0 .. 2 /\ met' \in RunPcs \cup {"nowhere"}
      BY <1>2 DEF StopExchange, CallsInStep
    <3>6. QED  BY <3>1, <3>2, <3>3, <3>4, <3>5
  <2>2. FlagsFollowRun' /\ CallsInStep'
    BY <1>2
    DEF StopExchange, FlagsFollowRun, CallsInStep
  <2>3. MetAtStop' /\ NotLowered'
    <3>1. MetAtStop'
      BY <1>2 DEF StopExchange, FlagsFollowRun, CallsInStep, MetAtStop, NotLowered, RunPcs
    <3>2. NotLowered'
      BY <1>2 DEF StopExchange, FlagsFollowRun, CallsInStep, MetAtStop, NotLowered, RunPcs
    <3>3. QED  BY <3>1, <3>2
  <2>4. Lowered'
    BY <1>2
    DEF StopExchange, FlagsFollowRun, CallsInStep, MetAtStop, NotLowered, Lowered
  <2>5. StaysDown'
    BY <1>2
    DEF StopExchange, FlagsFollowRun, CallsInStep, MetAtStop, StaysDown
  <2>6. Joined'
    BY <1>2
    DEF StopExchange, FlagsFollowRun, CallsInStep, MetAtStop, NotLowered, Lowered,
       Joined, UnjoinedOnlyBeforeThread, ThreadIsJoined, RunPcs
  <2>7. QED  BY <2>1, <2>2, <2>3, <2>4, <2>5, <2>6
<1>3. CASE StopCheck
  <2>0. calls = 1 \/ calls = 2
    BY <1>3, OneOfTwoCalls DEF StopCheck, CallsInStep
  <2>1. TypeOK'
    <3>1. mainPc' \in MainPcs /\ runPc' \in RunPcs /\ matchPc' \in MatchPcs
      BY <1>3 DEF StopCheck, MainPcs, RunPcs, MatchPcs
    <3>2. server_running_flag' \in BOOLEAN /\ matchmaking_running_flag' \in BOOLEAN
      BY <1>3 DEF StopCheck
    <3>3. joinable' \in BOOLEAN /\ running' \in BOOLEAN /\ cleared' \in BOOLEAN
      BY <1>3 DEF StopCheck
    <3>4. /\ isConnected' \in BOOLEAN /\ con' \in {"open", "null"}
          /\ broken' \in {"no", "null connection", "thread never joined"}
      BY <1>3 DEF StopCheck
    <3>5. calls' \in 0 .. 2 /\ stops' \in 0 .. 2 /\ met' \in RunPcs \cup {"nowhere"}
      BY <1>3 DEF StopCheck, CallsInStep
    <3>6. QED  BY <3>1, <3>2, <3>3, <3>4, <3>5
  <2>2. FlagsFollowRun' /\ CallsInStep'
    BY <1>3, <2>0
    DEF StopCheck, FlagsFollowRun, CallsInStep
  <2>3. MetAtStop' /\ NotLowered'
    BY <1>3, <2>0
    DEF StopCheck, FlagsFollowRun, CallsInStep, MetAtStop, NotLowered, RunPcs
  <2>4. Lowered'
    BY <1>3, <2>0
    DEF StopCheck, FlagsFollowRun, CallsInStep, MetAtStop, NotLowered, Lowered
  <2>5. StaysDown'
    BY <1>3, <2>0
    DEF StopCheck, FlagsFollowRun, CallsInStep, MetAtStop, StaysDown
  <2>6. Joined'
    BY <1>3, <2>0
    DEF StopCheck, FlagsFollowRun, CallsInStep, MetAtStop, NotLowered, Lowered,
       Joined, UnjoinedOnlyBeforeThread, ThreadIsJoined, RunPcs
  <2>7. QED  BY <2>1, <2>2, <2>3, <2>4, <2>5, <2>6
<1>4. CASE StopLower
  <2>1. TypeOK'
    <3>1. mainPc' \in MainPcs /\ runPc' \in RunPcs /\ matchPc' \in MatchPcs
      BY <1>4 DEF StopLower, MainPcs, RunPcs, MatchPcs
    <3>2. server_running_flag' \in BOOLEAN /\ matchmaking_running_flag' \in BOOLEAN
      BY <1>4 DEF StopLower
    <3>3. joinable' \in BOOLEAN /\ running' \in BOOLEAN /\ cleared' \in BOOLEAN
      BY <1>4 DEF StopLower
    <3>4. /\ isConnected' \in BOOLEAN /\ con' \in {"open", "null"}
          /\ broken' \in {"no", "null connection", "thread never joined"}
      BY <1>4 DEF StopLower
    <3>5. calls' \in 0 .. 2 /\ stops' \in 0 .. 2 /\ met' \in RunPcs \cup {"nowhere"}
      BY <1>4 DEF StopLower, CallsInStep
    <3>6. QED  BY <3>1, <3>2, <3>3, <3>4, <3>5
  <2>2. FlagsFollowRun' /\ CallsInStep'
    BY <1>4
    DEF StopLower, FlagsFollowRun, CallsInStep
  <2>3. MetAtStop' /\ NotLowered'
    BY <1>4
    DEF StopLower, FlagsFollowRun, CallsInStep, MetAtStop, NotLowered, RunPcs
  <2>4. Lowered'
    BY <1>4
    DEF StopLower, FlagsFollowRun, CallsInStep, MetAtStop, NotLowered, Lowered
  <2>5. StaysDown'
    BY <1>4
    DEF StopLower, FlagsFollowRun, CallsInStep, MetAtStop, StaysDown
  <2>6. Joined'
    BY <1>4
    DEF StopLower, FlagsFollowRun, CallsInStep, MetAtStop, NotLowered, Lowered,
       Joined, UnjoinedOnlyBeforeThread, ThreadIsJoined, RunPcs
  <2>7. QED  BY <2>1, <2>2, <2>3, <2>4, <2>5, <2>6
<1>5. CASE StopJoin
  <2>1. TypeOK'
    <3>1. mainPc' \in MainPcs /\ runPc' \in RunPcs /\ matchPc' \in MatchPcs
      BY <1>5 DEF StopJoin, MainPcs, RunPcs, MatchPcs
    <3>2. server_running_flag' \in BOOLEAN /\ matchmaking_running_flag' \in BOOLEAN
      BY <1>5 DEF StopJoin
    <3>3. joinable' \in BOOLEAN /\ running' \in BOOLEAN /\ cleared' \in BOOLEAN
      BY <1>5 DEF StopJoin
    <3>4. /\ isConnected' \in BOOLEAN /\ con' \in {"open", "null"}
          /\ broken' \in {"no", "null connection", "thread never joined"}
      BY <1>5 DEF StopJoin
    <3>5. calls' \in 0 .. 2 /\ stops' \in 0 .. 2 /\ met' \in RunPcs \cup {"nowhere"}
      BY <1>5 DEF StopJoin, CallsInStep
    <3>6. QED  BY <3>1, <3>2, <3>3, <3>4, <3>5
  <2>2. FlagsFollowRun' /\ CallsInStep'
    BY <1>5
    DEF StopJoin, FlagsFollowRun, CallsInStep
  <2>3. MetAtStop' /\ NotLowered'
    BY <1>5
    DEF StopJoin, FlagsFollowRun, CallsInStep, MetAtStop, NotLowered, RunPcs
  <2>4. Lowered'
    BY <1>5
    DEF StopJoin, FlagsFollowRun, CallsInStep, MetAtStop, NotLowered, Lowered
  <2>5. StaysDown'
    BY <1>5
    DEF StopJoin, FlagsFollowRun, CallsInStep, MetAtStop, StaysDown
  <2>6. Joined'
    BY <1>5
    DEF StopJoin, FlagsFollowRun, CallsInStep, MetAtStop, NotLowered, Lowered,
       Joined, UnjoinedOnlyBeforeThread, ThreadIsJoined, RunPcs
  <2>7. QED  BY <2>1, <2>2, <2>3, <2>4, <2>5, <2>6
<1>6. CASE StopClear
  <2>1. TypeOK'
    <3>1. mainPc' \in MainPcs /\ runPc' \in RunPcs /\ matchPc' \in MatchPcs
      BY <1>6 DEF StopClear, MainPcs, RunPcs, MatchPcs
    <3>2. server_running_flag' \in BOOLEAN /\ matchmaking_running_flag' \in BOOLEAN
      BY <1>6 DEF StopClear
    <3>3. joinable' \in BOOLEAN /\ running' \in BOOLEAN /\ cleared' \in BOOLEAN
      BY <1>6 DEF StopClear
    <3>4. /\ isConnected' \in BOOLEAN /\ con' \in {"open", "null"}
          /\ broken' \in {"no", "null connection", "thread never joined"}
      BY <1>6 DEF StopClear
    <3>5. calls' \in 0 .. 2 /\ stops' \in 0 .. 2 /\ met' \in RunPcs \cup {"nowhere"}
      BY <1>6 DEF StopClear, CallsInStep
    <3>6. QED  BY <3>1, <3>2, <3>3, <3>4, <3>5
  <2>2. FlagsFollowRun' /\ CallsInStep'
    BY <1>6
    DEF StopClear, FlagsFollowRun, CallsInStep
  <2>3. MetAtStop' /\ NotLowered'
    BY <1>6
    DEF StopClear, FlagsFollowRun, CallsInStep, MetAtStop, NotLowered, RunPcs
  <2>4. Lowered'
    BY <1>6
    DEF StopClear, FlagsFollowRun, CallsInStep, MetAtStop, NotLowered, Lowered
  <2>5. StaysDown'
    BY <1>6
    DEF StopClear, FlagsFollowRun, CallsInStep, MetAtStop, StaysDown
  <2>6. Joined'
    BY <1>6
    DEF StopClear, FlagsFollowRun, CallsInStep, MetAtStop, NotLowered, Lowered,
       Joined, UnjoinedOnlyBeforeThread, ThreadIsJoined, RunPcs
  <2>7. QED  BY <2>1, <2>2, <2>3, <2>4, <2>5, <2>6
<1>7. CASE StopDisconnect
  <2>0. calls = 1 \/ calls = 2
    BY <1>7, OneOfTwoCalls DEF StopDisconnect, CallsInStep
  <2>1. TypeOK'
    <3>1. mainPc' \in MainPcs /\ runPc' \in RunPcs /\ matchPc' \in MatchPcs
      BY <1>7 DEF StopDisconnect, MainPcs, RunPcs, MatchPcs
    <3>2. server_running_flag' \in BOOLEAN /\ matchmaking_running_flag' \in BOOLEAN
      BY <1>7 DEF StopDisconnect
    <3>3. joinable' \in BOOLEAN /\ running' \in BOOLEAN /\ cleared' \in BOOLEAN
      BY <1>7 DEF StopDisconnect
    <3>4. /\ isConnected' \in BOOLEAN /\ con' \in {"open", "null"}
          /\ broken' \in {"no", "null connection", "thread never joined"}
      BY <1>7 DEF StopDisconnect
    <3>5. calls' \in 0 .. 2 /\ stops' \in 0 .. 2 /\ met' \in RunPcs \cup {"nowhere"}
      BY <1>7 DEF StopDisconnect, CallsInStep
    <3>6. QED  BY <3>1, <3>2, <3>3, <3>4, <3>5
  <2>2. FlagsFollowRun' /\ CallsInStep'
    <3>1. FlagsFollowRun'
      BY <1>7, <2>0 DEF StopDisconnect, FlagsFollowRun, CallsInStep
    <3>2. CallsInStep'
      BY <1>7, <2>0 DEF StopDisconnect, FlagsFollowRun, CallsInStep
    <3>3. QED  BY <3>1, <3>2
  <2>3. MetAtStop' /\ NotLowered'
    BY <1>7, <2>0
    DEF StopDisconnect, FlagsFollowRun, CallsInStep, MetAtStop, NotLowered, RunPcs
  <2>4. Lowered'
    BY <1>7, <2>0
    DEF StopDisconnect, FlagsFollowRun, CallsInStep, MetAtStop, NotLowered, Lowered
  <2>5. StaysDown'
    BY <1>7, <2>0
    DEF StopDisconnect, FlagsFollowRun, CallsInStep, MetAtStop, StaysDown
  <2>6. Joined'
    BY <1>7, <2>0
    DEF StopDisconnect, FlagsFollowRun, CallsInStep, MetAtStop, NotLowered, Lowered,
       Joined, UnjoinedOnlyBeforeThread, ThreadIsJoined, RunPcs
  <2>7. QED  BY <2>1, <2>2, <2>3, <2>4, <2>5, <2>6
<1>8. CASE AwaitServer
  <2>1. TypeOK'
    <3>1. mainPc' \in MainPcs /\ runPc' \in RunPcs /\ matchPc' \in MatchPcs
      BY <1>8 DEF AwaitServer, MainPcs, RunPcs, MatchPcs
    <3>2. server_running_flag' \in BOOLEAN /\ matchmaking_running_flag' \in BOOLEAN
      BY <1>8 DEF AwaitServer
    <3>3. joinable' \in BOOLEAN /\ running' \in BOOLEAN /\ cleared' \in BOOLEAN
      BY <1>8 DEF AwaitServer
    <3>4. /\ isConnected' \in BOOLEAN /\ con' \in {"open", "null"}
          /\ broken' \in {"no", "null connection", "thread never joined"}
      BY <1>8 DEF AwaitServer
    <3>5. calls' \in 0 .. 2 /\ stops' \in 0 .. 2 /\ met' \in RunPcs \cup {"nowhere"}
      BY <1>8 DEF AwaitServer, CallsInStep
    <3>6. QED  BY <3>1, <3>2, <3>3, <3>4, <3>5
  <2>2. FlagsFollowRun' /\ CallsInStep'
    BY <1>8
    DEF AwaitServer, FlagsFollowRun, CallsInStep
  <2>3. MetAtStop' /\ NotLowered'
    BY <1>8
    DEF AwaitServer, FlagsFollowRun, CallsInStep, MetAtStop, NotLowered, RunPcs
  <2>4. Lowered'
    BY <1>8
    DEF AwaitServer, FlagsFollowRun, CallsInStep, MetAtStop, NotLowered, Lowered
  <2>5. StaysDown'
    BY <1>8
    DEF AwaitServer, FlagsFollowRun, CallsInStep, MetAtStop, StaysDown
  <2>6. Joined'
    BY <1>8
    DEF AwaitServer, FlagsFollowRun, CallsInStep, MetAtStop, NotLowered, Lowered,
       Joined, UnjoinedOnlyBeforeThread, ThreadIsJoined, RunPcs
  <2>7. QED  BY <2>1, <2>2, <2>3, <2>4, <2>5, <2>6
<1>9. CASE Destroy
  <2>1. TypeOK'
    <3>1. mainPc' \in MainPcs /\ runPc' \in RunPcs /\ matchPc' \in MatchPcs
      BY <1>9 DEF Destroy, MainPcs, RunPcs, MatchPcs
    <3>2. server_running_flag' \in BOOLEAN /\ matchmaking_running_flag' \in BOOLEAN
      BY <1>9 DEF Destroy
    <3>3. joinable' \in BOOLEAN /\ running' \in BOOLEAN /\ cleared' \in BOOLEAN
      BY <1>9 DEF Destroy
    <3>4. /\ isConnected' \in BOOLEAN /\ con' \in {"open", "null"}
          /\ broken' \in {"no", "null connection", "thread never joined"}
      BY <1>9 DEF Destroy
    <3>5. calls' \in 0 .. 2 /\ stops' \in 0 .. 2 /\ met' \in RunPcs \cup {"nowhere"}
      BY <1>9 DEF Destroy, CallsInStep
    <3>6. QED  BY <3>1, <3>2, <3>3, <3>4, <3>5
  <2>2. FlagsFollowRun' /\ CallsInStep'
    BY <1>9
    DEF Destroy, FlagsFollowRun, CallsInStep
  <2>3. MetAtStop' /\ NotLowered'
    BY <1>9
    DEF Destroy, FlagsFollowRun, CallsInStep, MetAtStop, NotLowered, RunPcs
  <2>4. Lowered'
    BY <1>9
    DEF Destroy, FlagsFollowRun, CallsInStep, MetAtStop, NotLowered, Lowered
  <2>5. StaysDown'
    BY <1>9
    DEF Destroy, FlagsFollowRun, CallsInStep, MetAtStop, StaysDown
  <2>6. Joined'
    BY <1>9
    DEF Destroy, FlagsFollowRun, CallsInStep, MetAtStop, NotLowered, Lowered,
       Joined, UnjoinedOnlyBeforeThread, ThreadIsJoined, RunPcs
  <2>7. QED  BY <2>1, <2>2, <2>3, <2>4, <2>5, <2>6
<1>10. QED  BY <1>1, <1>2, <1>3, <1>4, <1>5, <1>6, <1>7, <1>8, <1>9 DEF MainNext

LEMMA RunInv ==
  ASSUME Inv, RunNext \/ Activity
  PROVE  Inv'
<1> USE DEF Inv, TypeOK, Run, mainVars, flagVars, dataVars,
            Starting, Serving, BeforeFlags, BetweenFlags, BeforeThread
<1>1. CASE RunStart
  <2>1. TypeOK'
    <3>1. mainPc' \in MainPcs /\ runPc' \in RunPcs /\ matchPc' \in MatchPcs
      BY <1>1 DEF RunStart, MainPcs, RunPcs, MatchPcs
    <3>2. server_running_flag' \in BOOLEAN /\ matchmaking_running_flag' \in BOOLEAN
      BY <1>1 DEF RunStart
    <3>3. joinable' \in BOOLEAN /\ running' \in BOOLEAN /\ cleared' \in BOOLEAN
      BY <1>1 DEF RunStart
    <3>4. /\ isConnected' \in BOOLEAN /\ con' \in {"open", "null"}
          /\ broken' \in {"no", "null connection", "thread never joined"}
      BY <1>1 DEF RunStart
    <3>5. calls' \in 0 .. 2 /\ stops' \in 0 .. 2 /\ met' \in RunPcs \cup {"nowhere"}
      BY <1>1 DEF RunStart, CallsInStep
    <3>6. QED  BY <3>1, <3>2, <3>3, <3>4, <3>5
  <2>2. FlagsFollowRun' /\ CallsInStep'
    BY <1>1
    DEF RunStart, FlagsFollowRun, CallsInStep
  <2>3. MetAtStop' /\ NotLowered'
    BY <1>1
    DEF RunStart, FlagsFollowRun, CallsInStep, MetAtStop, NotLowered, RunPcs
  <2>4. Lowered'
    BY <1>1
    DEF RunStart, FlagsFollowRun, CallsInStep, MetAtStop, NotLowered, Lowered
  <2>5. StaysDown'
    BY <1>1
    DEF RunStart, FlagsFollowRun, CallsInStep, MetAtStop, StaysDown
  <2>6. Joined'
    BY <1>1
    DEF RunStart, FlagsFollowRun, CallsInStep, MetAtStop, NotLowered, Lowered,
       Joined, UnjoinedOnlyBeforeThread, ThreadIsJoined, RunPcs
  <2>7. QED  BY <2>1, <2>2, <2>3, <2>4, <2>5, <2>6
<1>2. CASE RaiseServerFlag
  <2>1. TypeOK'
    <3>1. mainPc' \in MainPcs /\ runPc' \in RunPcs /\ matchPc' \in MatchPcs
      BY <1>2 DEF RaiseServerFlag, MainPcs, RunPcs, MatchPcs
    <3>2. server_running_flag' \in BOOLEAN /\ matchmaking_running_flag' \in BOOLEAN
      BY <1>2 DEF RaiseServerFlag
    <3>3. joinable' \in BOOLEAN /\ running' \in BOOLEAN /\ cleared' \in BOOLEAN
      BY <1>2 DEF RaiseServerFlag
    <3>4. /\ isConnected' \in BOOLEAN /\ con' \in {"open", "null"}
          /\ broken' \in {"no", "null connection", "thread never joined"}
      BY <1>2 DEF RaiseServerFlag
    <3>5. calls' \in 0 .. 2 /\ stops' \in 0 .. 2 /\ met' \in RunPcs \cup {"nowhere"}
      BY <1>2 DEF RaiseServerFlag, CallsInStep
    <3>6. QED  BY <3>1, <3>2, <3>3, <3>4, <3>5
  <2>2. FlagsFollowRun' /\ CallsInStep'
    BY <1>2
    DEF RaiseServerFlag, FlagsFollowRun, CallsInStep
  <2>3. MetAtStop' /\ NotLowered'
    BY <1>2
    DEF RaiseServerFlag, FlagsFollowRun, CallsInStep, MetAtStop, NotLowered, RunPcs
  <2>4. Lowered'
    BY <1>2
    DEF RaiseServerFlag, FlagsFollowRun, CallsInStep, MetAtStop, NotLowered, Lowered
  <2>5. StaysDown'
    BY <1>2
    DEF RaiseServerFlag, FlagsFollowRun, CallsInStep, MetAtStop, StaysDown
  <2>6. Joined'
    BY <1>2
    DEF RaiseServerFlag, FlagsFollowRun, CallsInStep, MetAtStop, NotLowered, Lowered,
       Joined, UnjoinedOnlyBeforeThread, ThreadIsJoined, RunPcs
  <2>7. QED  BY <2>1, <2>2, <2>3, <2>4, <2>5, <2>6
<1>3. CASE RaiseMatchmakingFlag
  <2>1. TypeOK'
    <3>1. mainPc' \in MainPcs /\ runPc' \in RunPcs /\ matchPc' \in MatchPcs
      BY <1>3 DEF RaiseMatchmakingFlag, MainPcs, RunPcs, MatchPcs
    <3>2. server_running_flag' \in BOOLEAN /\ matchmaking_running_flag' \in BOOLEAN
      BY <1>3 DEF RaiseMatchmakingFlag
    <3>3. joinable' \in BOOLEAN /\ running' \in BOOLEAN /\ cleared' \in BOOLEAN
      BY <1>3 DEF RaiseMatchmakingFlag
    <3>4. /\ isConnected' \in BOOLEAN /\ con' \in {"open", "null"}
          /\ broken' \in {"no", "null connection", "thread never joined"}
      BY <1>3 DEF RaiseMatchmakingFlag
    <3>5. calls' \in 0 .. 2 /\ stops' \in 0 .. 2 /\ met' \in RunPcs \cup {"nowhere"}
      BY <1>3 DEF RaiseMatchmakingFlag, CallsInStep
    <3>6. QED  BY <3>1, <3>2, <3>3, <3>4, <3>5
  <2>2. FlagsFollowRun' /\ CallsInStep'
    BY <1>3
    DEF RaiseMatchmakingFlag, FlagsFollowRun, CallsInStep
  <2>3. MetAtStop' /\ NotLowered'
    BY <1>3
    DEF RaiseMatchmakingFlag, FlagsFollowRun, CallsInStep, MetAtStop, NotLowered, RunPcs
  <2>4. Lowered'
    BY <1>3
    DEF RaiseMatchmakingFlag, FlagsFollowRun, CallsInStep, MetAtStop, NotLowered, Lowered
  <2>5. StaysDown'
    BY <1>3
    DEF RaiseMatchmakingFlag, FlagsFollowRun, CallsInStep, MetAtStop, StaysDown
  <2>6. Joined'
    BY <1>3
    DEF RaiseMatchmakingFlag, FlagsFollowRun, CallsInStep, MetAtStop, NotLowered, Lowered,
       Joined, UnjoinedOnlyBeforeThread, ThreadIsJoined, RunPcs
  <2>7. QED  BY <2>1, <2>2, <2>3, <2>4, <2>5, <2>6
<1>4. CASE SpawnMatchmaking
  <2>1. TypeOK'
    <3>1. mainPc' \in MainPcs /\ runPc' \in RunPcs /\ matchPc' \in MatchPcs
      BY <1>4 DEF SpawnMatchmaking, MainPcs, RunPcs, MatchPcs
    <3>2. server_running_flag' \in BOOLEAN /\ matchmaking_running_flag' \in BOOLEAN
      BY <1>4 DEF SpawnMatchmaking
    <3>3. joinable' \in BOOLEAN /\ running' \in BOOLEAN /\ cleared' \in BOOLEAN
      BY <1>4 DEF SpawnMatchmaking
    <3>4. /\ isConnected' \in BOOLEAN /\ con' \in {"open", "null"}
          /\ broken' \in {"no", "null connection", "thread never joined"}
      BY <1>4 DEF SpawnMatchmaking
    <3>5. calls' \in 0 .. 2 /\ stops' \in 0 .. 2 /\ met' \in RunPcs \cup {"nowhere"}
      BY <1>4 DEF SpawnMatchmaking, CallsInStep
    <3>6. QED  BY <3>1, <3>2, <3>3, <3>4, <3>5
  <2>2. FlagsFollowRun' /\ CallsInStep'
    BY <1>4
    DEF SpawnMatchmaking, FlagsFollowRun, CallsInStep
  <2>3. MetAtStop' /\ NotLowered'
    BY <1>4
    DEF SpawnMatchmaking, FlagsFollowRun, CallsInStep, MetAtStop, NotLowered, RunPcs
  <2>4. Lowered'
    BY <1>4
    DEF SpawnMatchmaking, FlagsFollowRun, CallsInStep, MetAtStop, NotLowered, Lowered
  <2>5. StaysDown'
    BY <1>4
    DEF SpawnMatchmaking, FlagsFollowRun, CallsInStep, MetAtStop, StaysDown
  <2>6. Joined'
    BY <1>4
    DEF SpawnMatchmaking, FlagsFollowRun, CallsInStep, MetAtStop, NotLowered, Lowered,
       Joined, UnjoinedOnlyBeforeThread, ThreadIsJoined, RunPcs
  <2>7. QED  BY <2>1, <2>2, <2>3, <2>4, <2>5, <2>6
<1>5. CASE RunLoop
  <2>1. TypeOK'
    <3>1. mainPc' \in MainPcs /\ runPc' \in RunPcs /\ matchPc' \in MatchPcs
      BY <1>5 DEF RunLoop, MainPcs, RunPcs, MatchPcs
    <3>2. server_running_flag' \in BOOLEAN /\ matchmaking_running_flag' \in BOOLEAN
      BY <1>5 DEF RunLoop
    <3>3. joinable' \in BOOLEAN /\ running' \in BOOLEAN /\ cleared' \in BOOLEAN
      BY <1>5 DEF RunLoop
    <3>4. /\ isConnected' \in BOOLEAN /\ con' \in {"open", "null"}
          /\ broken' \in {"no", "null connection", "thread never joined"}
      BY <1>5 DEF RunLoop
    <3>5. calls' \in 0 .. 2 /\ stops' \in 0 .. 2 /\ met' \in RunPcs \cup {"nowhere"}
      BY <1>5 DEF RunLoop, CallsInStep
    <3>6. QED  BY <3>1, <3>2, <3>3, <3>4, <3>5
  <2>2. FlagsFollowRun' /\ CallsInStep'
    BY <1>5
    DEF RunLoop, FlagsFollowRun, CallsInStep
  <2>3. MetAtStop' /\ NotLowered'
    BY <1>5
    DEF RunLoop, FlagsFollowRun, CallsInStep, MetAtStop, NotLowered, RunPcs
  <2>4. Lowered'
    BY <1>5
    DEF RunLoop, FlagsFollowRun, CallsInStep, MetAtStop, NotLowered, Lowered
  <2>5. StaysDown'
    BY <1>5
    DEF RunLoop, FlagsFollowRun, CallsInStep, MetAtStop, StaysDown
  <2>6. Joined'
    BY <1>5
    DEF RunLoop, FlagsFollowRun, CallsInStep, MetAtStop, NotLowered, Lowered,
       Joined, UnjoinedOnlyBeforeThread, ThreadIsJoined, RunPcs
  <2>7. QED  BY <2>1, <2>2, <2>3, <2>4, <2>5, <2>6
<1>6. CASE HandlerEnds
  <2>1. TypeOK'
    <3>1. mainPc' \in MainPcs /\ runPc' \in RunPcs /\ matchPc' \in MatchPcs
      BY <1>6 DEF HandlerEnds, MainPcs, RunPcs, MatchPcs
    <3>2. server_running_flag' \in BOOLEAN /\ matchmaking_running_flag' \in BOOLEAN
      BY <1>6 DEF HandlerEnds
    <3>3. joinable' \in BOOLEAN /\ running' \in BOOLEAN /\ cleared' \in BOOLEAN
      BY <1>6 DEF HandlerEnds
    <3>4. /\ isConnected' \in BOOLEAN /\ con' \in {"open", "null"}
          /\ broken' \in {"no", "null connection", "thread never joined"}
      BY <1>6 DEF HandlerEnds
    <3>5. calls' \in 0 .. 2 /\ stops' \in 0 .. 2 /\ met' \in RunPcs \cup {"nowhere"}
      BY <1>6 DEF HandlerEnds, CallsInStep
    <3>6. QED  BY <3>1, <3>2, <3>3, <3>4, <3>5
  <2>2. FlagsFollowRun' /\ CallsInStep'
    BY <1>6
    DEF HandlerEnds, FlagsFollowRun, CallsInStep
  <2>3. MetAtStop' /\ NotLowered'
    BY <1>6
    DEF HandlerEnds, FlagsFollowRun, CallsInStep, MetAtStop, NotLowered, RunPcs
  <2>4. Lowered'
    BY <1>6
    DEF HandlerEnds, FlagsFollowRun, CallsInStep, MetAtStop, NotLowered, Lowered
  <2>5. StaysDown'
    BY <1>6
    DEF HandlerEnds, FlagsFollowRun, CallsInStep, MetAtStop, StaysDown
  <2>6. Joined'
    BY <1>6
    DEF HandlerEnds, FlagsFollowRun, CallsInStep, MetAtStop, NotLowered, Lowered,
       Joined, UnjoinedOnlyBeforeThread, ThreadIsJoined, RunPcs
  <2>7. QED  BY <2>1, <2>2, <2>3, <2>4, <2>5, <2>6
<1>7. CASE AuthenticateEnds
  <2>1. TypeOK'
    <3>1. mainPc' \in MainPcs /\ runPc' \in RunPcs /\ matchPc' \in MatchPcs
      BY <1>7 DEF AuthenticateEnds, MainPcs, RunPcs, MatchPcs
    <3>2. server_running_flag' \in BOOLEAN /\ matchmaking_running_flag' \in BOOLEAN
      BY <1>7 DEF AuthenticateEnds
    <3>3. joinable' \in BOOLEAN /\ running' \in BOOLEAN /\ cleared' \in BOOLEAN
      BY <1>7 DEF AuthenticateEnds
    <3>4. /\ isConnected' \in BOOLEAN /\ con' \in {"open", "null"}
          /\ broken' \in {"no", "null connection", "thread never joined"}
      BY <1>7 DEF AuthenticateEnds
    <3>5. calls' \in 0 .. 2 /\ stops' \in 0 .. 2 /\ met' \in RunPcs \cup {"nowhere"}
      BY <1>7 DEF AuthenticateEnds, CallsInStep
    <3>6. QED  BY <3>1, <3>2, <3>3, <3>4, <3>5
  <2>2. FlagsFollowRun' /\ CallsInStep'
    BY <1>7
    DEF AuthenticateEnds, FlagsFollowRun, CallsInStep
  <2>3. MetAtStop' /\ NotLowered'
    BY <1>7
    DEF AuthenticateEnds, FlagsFollowRun, CallsInStep, MetAtStop, NotLowered, RunPcs
  <2>4. Lowered'
    BY <1>7
    DEF AuthenticateEnds, FlagsFollowRun, CallsInStep, MetAtStop, NotLowered, Lowered
  <2>5. StaysDown'
    BY <1>7
    DEF AuthenticateEnds, FlagsFollowRun, CallsInStep, MetAtStop, StaysDown
  <2>6. Joined'
    BY <1>7
    DEF AuthenticateEnds, FlagsFollowRun, CallsInStep, MetAtStop, NotLowered, Lowered,
       Joined, UnjoinedOnlyBeforeThread, ThreadIsJoined, RunPcs
  <2>7. QED  BY <2>1, <2>2, <2>3, <2>4, <2>5, <2>6
<1>8. CASE CloseListener
  <2>1. TypeOK'
    <3>1. mainPc' \in MainPcs /\ runPc' \in RunPcs /\ matchPc' \in MatchPcs
      BY <1>8 DEF CloseListener, MainPcs, RunPcs, MatchPcs
    <3>2. server_running_flag' \in BOOLEAN /\ matchmaking_running_flag' \in BOOLEAN
      BY <1>8 DEF CloseListener
    <3>3. joinable' \in BOOLEAN /\ running' \in BOOLEAN /\ cleared' \in BOOLEAN
      BY <1>8 DEF CloseListener
    <3>4. /\ isConnected' \in BOOLEAN /\ con' \in {"open", "null"}
          /\ broken' \in {"no", "null connection", "thread never joined"}
      BY <1>8 DEF CloseListener
    <3>5. calls' \in 0 .. 2 /\ stops' \in 0 .. 2 /\ met' \in RunPcs \cup {"nowhere"}
      BY <1>8 DEF CloseListener, CallsInStep
    <3>6. QED  BY <3>1, <3>2, <3>3, <3>4, <3>5
  <2>2. FlagsFollowRun' /\ CallsInStep'
    BY <1>8
    DEF CloseListener, FlagsFollowRun, CallsInStep
  <2>3. MetAtStop' /\ NotLowered'
    BY <1>8
    DEF CloseListener, FlagsFollowRun, CallsInStep, MetAtStop, NotLowered, RunPcs
  <2>4. Lowered'
    BY <1>8
    DEF CloseListener, FlagsFollowRun, CallsInStep, MetAtStop, NotLowered, Lowered
  <2>5. StaysDown'
    BY <1>8
    DEF CloseListener, FlagsFollowRun, CallsInStep, MetAtStop, StaysDown
  <2>6. Joined'
    BY <1>8
    DEF CloseListener, FlagsFollowRun, CallsInStep, MetAtStop, NotLowered, Lowered,
       Joined, UnjoinedOnlyBeforeThread, ThreadIsJoined, RunPcs
  <2>7. QED  BY <2>1, <2>2, <2>3, <2>4, <2>5, <2>6
<1>9. CASE Activity
  <2>1. TypeOK'
    <3>1. mainPc' \in MainPcs /\ runPc' \in RunPcs /\ matchPc' \in MatchPcs
      BY <1>9 DEF Activity, MainPcs, RunPcs, MatchPcs
    <3>2. server_running_flag' \in BOOLEAN /\ matchmaking_running_flag' \in BOOLEAN
      BY <1>9 DEF Activity
    <3>3. joinable' \in BOOLEAN /\ running' \in BOOLEAN /\ cleared' \in BOOLEAN
      BY <1>9 DEF Activity
    <3>4. /\ isConnected' \in BOOLEAN /\ con' \in {"open", "null"}
          /\ broken' \in {"no", "null connection", "thread never joined"}
      BY <1>9 DEF Activity
    <3>5. calls' \in 0 .. 2 /\ stops' \in 0 .. 2 /\ met' \in RunPcs \cup {"nowhere"}
      BY <1>9 DEF Activity, CallsInStep
    <3>6. QED  BY <3>1, <3>2, <3>3, <3>4, <3>5
  <2>2. FlagsFollowRun' /\ CallsInStep'
    BY <1>9
    DEF Activity, FlagsFollowRun, CallsInStep
  <2>3. MetAtStop' /\ NotLowered'
    BY <1>9
    DEF Activity, FlagsFollowRun, CallsInStep, MetAtStop, NotLowered, RunPcs
  <2>4. Lowered'
    BY <1>9
    DEF Activity, FlagsFollowRun, CallsInStep, MetAtStop, NotLowered, Lowered
  <2>5. StaysDown'
    BY <1>9
    DEF Activity, FlagsFollowRun, CallsInStep, MetAtStop, StaysDown
  <2>6. Joined'
    BY <1>9
    DEF Activity, FlagsFollowRun, CallsInStep, MetAtStop, NotLowered, Lowered,
       Joined, UnjoinedOnlyBeforeThread, ThreadIsJoined, RunPcs
  <2>7. QED  BY <2>1, <2>2, <2>3, <2>4, <2>5, <2>6
<1>10. QED  BY <1>1, <1>2, <1>3, <1>4, <1>5, <1>6, <1>7, <1>8, <1>9
  DEF RunNext

LEMMA MatchInv ==
  ASSUME Inv, MatchNext
  PROVE  Inv'
<1> USE DEF Inv, TypeOK, Match, mainVars, flagVars, dataVars,
            Starting, Serving, BeforeFlags, BetweenFlags, BeforeThread
<1>1. CASE MatchLoop
  <2>1. TypeOK'
    <3>1. mainPc' \in MainPcs /\ runPc' \in RunPcs /\ matchPc' \in MatchPcs
      BY <1>1 DEF MatchLoop, MainPcs, RunPcs, MatchPcs
    <3>2. server_running_flag' \in BOOLEAN /\ matchmaking_running_flag' \in BOOLEAN
      BY <1>1 DEF MatchLoop
    <3>3. joinable' \in BOOLEAN /\ running' \in BOOLEAN /\ cleared' \in BOOLEAN
      BY <1>1 DEF MatchLoop
    <3>4. /\ isConnected' \in BOOLEAN /\ con' \in {"open", "null"}
          /\ broken' \in {"no", "null connection", "thread never joined"}
      BY <1>1 DEF MatchLoop
    <3>5. calls' \in 0 .. 2 /\ stops' \in 0 .. 2 /\ met' \in RunPcs \cup {"nowhere"}
      BY <1>1 DEF MatchLoop, CallsInStep
    <3>6. QED  BY <3>1, <3>2, <3>3, <3>4, <3>5
  <2>2. FlagsFollowRun' /\ CallsInStep'
    BY <1>1
    DEF MatchLoop, FlagsFollowRun, CallsInStep
  <2>3. MetAtStop' /\ NotLowered'
    BY <1>1
    DEF MatchLoop, FlagsFollowRun, CallsInStep, MetAtStop, NotLowered, RunPcs
  <2>4. Lowered'
    BY <1>1
    DEF MatchLoop, FlagsFollowRun, CallsInStep, MetAtStop, NotLowered, Lowered
  <2>5. StaysDown'
    BY <1>1
    DEF MatchLoop, FlagsFollowRun, CallsInStep, MetAtStop, StaysDown
  <2>6. Joined'
    BY <1>1
    DEF MatchLoop, FlagsFollowRun, CallsInStep, MetAtStop, NotLowered, Lowered,
       Joined, UnjoinedOnlyBeforeThread, ThreadIsJoined, RunPcs
  <2>7. QED  BY <2>1, <2>2, <2>3, <2>4, <2>5, <2>6
<1>2. CASE RoundMatches
  <2>1. TypeOK'
    <3>1. mainPc' \in MainPcs /\ runPc' \in RunPcs /\ matchPc' \in MatchPcs
      BY <1>2 DEF RoundMatches, MainPcs, RunPcs, MatchPcs
    <3>2. server_running_flag' \in BOOLEAN /\ matchmaking_running_flag' \in BOOLEAN
      BY <1>2 DEF RoundMatches
    <3>3. joinable' \in BOOLEAN /\ running' \in BOOLEAN /\ cleared' \in BOOLEAN
      BY <1>2 DEF RoundMatches
    <3>4. /\ isConnected' \in BOOLEAN /\ con' \in {"open", "null"}
          /\ broken' \in {"no", "null connection", "thread never joined"}
      BY <1>2 DEF RoundMatches
    <3>5. calls' \in 0 .. 2 /\ stops' \in 0 .. 2 /\ met' \in RunPcs \cup {"nowhere"}
      BY <1>2 DEF RoundMatches, CallsInStep
    <3>6. QED  BY <3>1, <3>2, <3>3, <3>4, <3>5
  <2>2. FlagsFollowRun' /\ CallsInStep'
    BY <1>2
    DEF RoundMatches, FlagsFollowRun, CallsInStep
  <2>3. MetAtStop' /\ NotLowered'
    BY <1>2
    DEF RoundMatches, FlagsFollowRun, CallsInStep, MetAtStop, NotLowered, RunPcs
  <2>4. Lowered'
    BY <1>2
    DEF RoundMatches, FlagsFollowRun, CallsInStep, MetAtStop, NotLowered, Lowered
  <2>5. StaysDown'
    BY <1>2
    DEF RoundMatches, FlagsFollowRun, CallsInStep, MetAtStop, StaysDown
  <2>6. Joined'
    BY <1>2
    DEF RoundMatches, FlagsFollowRun, CallsInStep, MetAtStop, NotLowered, Lowered,
       Joined, UnjoinedOnlyBeforeThread, ThreadIsJoined, RunPcs
  <2>7. QED  BY <2>1, <2>2, <2>3, <2>4, <2>5, <2>6
<1>3. CASE RoundEnds
  <2>1. TypeOK'
    <3>1. mainPc' \in MainPcs /\ runPc' \in RunPcs /\ matchPc' \in MatchPcs
      BY <1>3 DEF RoundEnds, MainPcs, RunPcs, MatchPcs
    <3>2. server_running_flag' \in BOOLEAN /\ matchmaking_running_flag' \in BOOLEAN
      BY <1>3 DEF RoundEnds
    <3>3. joinable' \in BOOLEAN /\ running' \in BOOLEAN /\ cleared' \in BOOLEAN
      BY <1>3 DEF RoundEnds
    <3>4. /\ isConnected' \in BOOLEAN /\ con' \in {"open", "null"}
          /\ broken' \in {"no", "null connection", "thread never joined"}
      BY <1>3 DEF RoundEnds
    <3>5. calls' \in 0 .. 2 /\ stops' \in 0 .. 2 /\ met' \in RunPcs \cup {"nowhere"}
      BY <1>3 DEF RoundEnds, CallsInStep
    <3>6. QED  BY <3>1, <3>2, <3>3, <3>4, <3>5
  <2>2. FlagsFollowRun' /\ CallsInStep'
    BY <1>3
    DEF RoundEnds, FlagsFollowRun, CallsInStep
  <2>3. MetAtStop' /\ NotLowered'
    BY <1>3
    DEF RoundEnds, FlagsFollowRun, CallsInStep, MetAtStop, NotLowered, RunPcs
  <2>4. Lowered'
    BY <1>3
    DEF RoundEnds, FlagsFollowRun, CallsInStep, MetAtStop, NotLowered, Lowered
  <2>5. StaysDown'
    BY <1>3
    DEF RoundEnds, FlagsFollowRun, CallsInStep, MetAtStop, StaysDown
  <2>6. Joined'
    BY <1>3
    DEF RoundEnds, FlagsFollowRun, CallsInStep, MetAtStop, NotLowered, Lowered,
       Joined, UnjoinedOnlyBeforeThread, ThreadIsJoined, RunPcs
  <2>7. QED  BY <2>1, <2>2, <2>3, <2>4, <2>5, <2>6
<1>4. QED  BY <1>1, <1>2, <1>3 DEF MatchNext

LEMMA Invariance == Spec => []Inv
<1>1. Inv /\ [Next]_vars => Inv'
  <2> SUFFICES ASSUME Inv, [Next]_vars
               PROVE  Inv'
    OBVIOUS
  <2>1. CASE UNCHANGED vars
    <3> USE DEF vars, mainVars, flagVars, dataVars, Inv
    <3>0. TypeOK'
      BY <2>1 DEF TypeOK
    <3>1. FlagsFollowRun' /\ CallsInStep' /\ MetAtStop'
      BY <2>1 DEF FlagsFollowRun, CallsInStep, MetAtStop
    <3>2. NotLowered' /\ Lowered' /\ StaysDown' /\ Joined'
      BY <2>1 DEF NotLowered, Lowered, StaysDown, Joined,
         UnjoinedOnlyBeforeThread, ThreadIsJoined
    <3>3. QED  BY <3>0, <3>1, <3>2
  <2>2. QED  BY <2>1, MainInv, RunInv, MatchInv DEF Next
<1>2. QED  BY <1>1, InitInv, PTL DEF Spec

-----------------------------------------------------------------------------
(* Type correctness of the life of the process.                            *)
THEOREM TypeCorrect == Spec => []TypeOK
BY Invariance, PTL DEF Inv

(* Of the two calls of stop, main's and ~Server's, one takes the server    *)
(* down, unless the first looked between Server.cpp:46 and 47.             *)
THEOREM StopsOnlyOnce == Spec => []StopsOnceButBetweenFlags
<1>1. Inv /\ [Next]_vars /\ StopsOnceButBetweenFlags => StopsOnceButBetweenFlags'
  <2> SUFFICES ASSUME Inv, [Next]_vars, StopsOnceButBetweenFlags, stops' = 2
               PROVE  met' \in BetweenFlags
    BY DEF StopsOnceButBetweenFlags
  <2>1. CASE StopLower
    <3>1. mainPc = "lower" /\ stops + 1 = 2 /\ stops \in 0 .. 2 /\ met' = met
      BY <2>1 DEF StopLower, Main, Inv, TypeOK
    <3>2. stops # 0
      BY <3>1
    <3>3. QED  BY <3>1, <3>2 DEF Inv, StaysDown
  <2>2. CASE stops' = stops /\ met' = met
    BY <2>2 DEF StopsOnceButBetweenFlags
  <2>3. CASE StopExchange
    <3>1. stops = 2 /\ calls \in 0 .. 2 /\ stops < calls
      BY <2>3 DEF StopExchange, Main, Inv, TypeOK, CallsInStep
    <3>2. QED  BY <3>1
  <2>4. QED
    BY <2>1, <2>2, <2>3
    DEF Next, ReadExit, MainNext, StopCheck, StopJoin, StopClear,
        StopDisconnect, AwaitServer, Destroy, RunNext, RunStart,
        RaiseServerFlag, RaiseMatchmakingFlag, SpawnMatchmaking, RunLoop,
        HandlerEnds, AuthenticateEnds, CloseListener, Activity, MatchNext,
        MatchLoop, RoundMatches, RoundEnds, mainVars, vars
<1>2. Init => StopsOnceButBetweenFlags
  BY DEF Init, StopsOnceButBetweenFlags
<1>3. QED  BY <1>1, <1>2, Invariance, PTL DEF Spec

(* The sessions are cleared after the last round of matchmaking, unless    *)
(* the first stop looked between Server.cpp:46 and 47; the join at 72-76   *)
(* alone does not see to that.                                             *)
THEOREM MatchmakingEndsFirst == Spec => []RoundsAfterClearOnlyBetweenFlags
<1>1. Inv => RoundsAfterClearOnlyBetweenFlags
  BY DEF Inv, StaysDown, RoundsAfterClearOnlyBetweenFlags,
         SessionsOutliveRounds
<1>2. QED  BY <1>1, Invariance, PTL

(* The matchmaking thread has been joined when its std::thread is          *)
(* destroyed, unless the first stop looked between Server.cpp:46 and 49.   *)
THEOREM ThreadJoinedInTime == Spec => []UnjoinedOnlyBeforeThread
<1>1. Inv => UnjoinedOnlyBeforeThread
  BY DEF Inv, Joined
<1>2. QED  BY <1>1, Invariance, PTL

-----------------------------------------------------------------------------
(* How main comes to its end: without a database nothing was ever started  *)
(* that a stop could take down.                                            *)
NothingStarted ==
  ~isConnected =>
    /\ runPc \in {"start", "returned"}
    /\ ~server_running_flag /\ ~matchmaking_running_flag
    /\ mainPc \notin {"lower", "join", "clear", "disconnect"}
    /\ stops = 0

Disconnected ==
  stops # 0 /\ mainPc \notin {"join", "clear", "disconnect"} => con = "null"

Ending == (mainPc = "gone" => ~running) /\ NothingStarted /\ Disconnected

LEMMA EndingInit == Init => Ending
BY DEF Init, Ending, NothingStarted, Disconnected

LEMMA MainEnding ==
  ASSUME Inv, Ending, ReadExit \/ MainNext
  PROVE  Ending'
<1> USE DEF Inv, Ending, Main, AfterStop, flagVars, dataVars,
            NothingStarted, Disconnected
<1>1. CASE ReadExit
  BY <1>1 DEF ReadExit
<1>2. CASE StopExchange
  BY <1>2 DEF StopExchange
<1>3. CASE StopCheck
  BY <1>3 DEF StopCheck
<1>4. CASE StopLower
  BY <1>4 DEF StopLower
<1>5. CASE StopJoin
  BY <1>5 DEF StopJoin
<1>6. CASE StopClear
  BY <1>6 DEF StopClear
<1>7. CASE StopDisconnect
  <2>1. /\ isConnected
        /\ con' = "null"
        /\ mainPc' \in {"await", "destroy"}
        /\ UNCHANGED <<stops, runPc, running, isConnected>>
    BY <1>7 DEF StopDisconnect
  <2>2. QED  BY <2>1
<1>8. CASE AwaitServer
  BY <1>8 DEF AwaitServer
<1>9. CASE Destroy
  BY <1>9 DEF Destroy
<1>10. QED
  BY <1>1, <1>2, <1>3, <1>4, <1>5, <1>6, <1>7, <1>8, <1>9 DEF MainNext

LEMMA OthersEnding ==
  ASSUME Inv, Ending, RunNext \/ Activity \/ MatchNext \/ UNCHANGED vars
  PROVE  Ending'
<1> USE DEF Inv, Ending, NothingStarted, Disconnected, mainVars, flagVars,
            dataVars
<1>1. CASE RunNext
  <2>1. /\ UNCHANGED <<mainPc, stops, isConnected, con>>
        /\ runPc # "returned"
    BY <1>1 DEF RunNext, Run, RunStart, RaiseServerFlag, RaiseMatchmakingFlag,
       SpawnMatchmaking, RunLoop, HandlerEnds, AuthenticateEnds, CloseListener
  <2>2. ~isConnected => /\ runPc' = "returned"
                        /\ UNCHANGED <<server_running_flag, matchmaking_running_flag>>
    BY <1>1 DEF RunNext, Run, RunStart, RaiseServerFlag, RaiseMatchmakingFlag,
       SpawnMatchmaking, RunLoop, HandlerEnds, AuthenticateEnds, CloseListener
  <2>3. mainPc # "gone"
    BY <2>1, SMT DEF CallsInStep
  <2>4. QED  BY <2>1, <2>2, <2>3
<1>2. CASE Activity \/ MatchNext \/ UNCHANGED vars
  <2>1. UNCHANGED <<mainPc, stops, isConnected, con, running,
                    server_running_flag, matchmaking_running_flag>>
    BY <1>2 DEF Activity, MatchNext, MatchLoop, RoundMatches, RoundEnds, vars
  <2>2. runPc' = runPc \/ runPc = "update"
    BY <1>2 DEF Activity, Run, MatchNext, MatchLoop, RoundMatches, RoundEnds, vars
  <2>3. QED  BY <2>1, <2>2
<1>3. QED  BY <1>1, <1>2

(* When the process comes to the end of main alive, the database           *)
(* connection is closed unless nothing was ever taken down, the listener   *)
(* is down and both threads have ended; whenever "exit" was typed.         *)
THEOREM NothingLeftBehind == Spec => []LeavesNothingBehind
<1>1. Inv /\ Ending /\ [Next]_vars => Ending'
  BY MainEnding, OthersEnding DEF Next
<1>2. Inv /\ Ending => LeavesNothingBehind
  BY DEF Inv, Ending, Joined, FlagsFollowRun, CallsInStep, Disconnected,
         LeavesNothingBehind
<1>3. QED  BY <1>1, <1>2, EndingInit, Invariance, PTL DEF Spec
=============================================================================
