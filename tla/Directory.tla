----------------------------- MODULE Directory -----------------------------
(***************************************************************************)
(* What accounts promise, with no database and no statements: a name that  *)
(* is free is taken in one step, under a secret that opens it for good,    *)
(* and nobody comes in under a name but by taking it or with a secret it   *)
(* was taken with.  Only a name in doubt may be taken once more: one that  *)
(* somebody outside has written, or that nobody could look up.             *)
(***************************************************************************)
CONSTANTS Players, Names, Secrets, Nothing

VARIABLES
  secrets,   (* the secrets each name opens to; none while it is free      *)
  present,   (* what each player has come in with: a name and a secret     *)
  doubtful   (* the names in doubt                                         *)

vars == <<secrets, present, doubtful>>

Init ==
  /\ secrets = [n \in Names |-> {}]
  /\ present = [p \in Players |-> Nothing]
  /\ doubtful = {}

Add(n, s) == secrets' = [secrets EXCEPT ![n] = @ \cup {s}]

Take(n, s) ==
  /\ secrets[n] = {} \/ n \in doubtful
  /\ Add(n, s)
  /\ UNCHANGED doubtful

Enter(p, n, s) ==
  /\ present[p] = Nothing
  /\ present' = [present EXCEPT ![p] = [nickname |-> n, password |-> s]]

(* A player takes a name and is let in, or is not, if he is not told.      *)
SignUp(n, s) == Take(n, s) /\ (UNCHANGED present \/ \E p \in Players : Enter(p, n, s))

SignIn(p, n, s) ==
  /\ s \in secrets[n]
  /\ Enter(p, n, s)
  /\ UNCHANGED <<secrets, doubtful>>

SignOut(p) ==
  /\ present' = [present EXCEPT ![p] = Nothing]
  /\ UNCHANGED <<secrets, doubtful>>

(* A name comes into doubt; with a new secret if somebody outside wrote it.*)
Doubt(n) ==
  /\ doubtful' = doubtful \cup {n}
  /\ UNCHANGED secrets \/ \E s \in Secrets : Add(n, s)
  /\ UNCHANGED present

Next ==
  \/ \E n \in Names, s \in Secrets :
       SignUp(n, s) \/ \E p \in Players : SignIn(p, n, s)
  \/ \E p \in Players : SignOut(p)
  \/ \E n \in Names : Doubt(n)

Spec == Init /\ [][Next]_vars
=============================================================================
