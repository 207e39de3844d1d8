---------------------------- MODULE WaitingLine ----------------------------
(***************************************************************************)
(* What matchmaking promises its players, with no threads, locks, sessions *)
(* or network: one line, in which nobody stands twice, joined at the back, *)
(* that loses the two at its head to a game, or anybody who gives up, and  *)
(* that nobody ever overtakes.                                             *)
(***************************************************************************)
EXTENDS Sequences, Integers, SequencesExt

CONSTANT Players

VARIABLE line

Init == line = <<>>

Join(p) ==
  /\ ~Contains(line, p)
  /\ line' = Append(line, p)

Leave(p) ==
  /\ Contains(line, p)
  /\ line' = RemoveFirst(line, p)

ServePair ==
  /\ Len(line) >= 2
  /\ line' = SubSeq(line, 3, Len(line))

Next == ServePair \/ \E p \in Players : Join(p) \/ Leave(p)

Spec == Init /\ [][Next]_line

-----------------------------------------------------------------------------
(* First come, first served: of two who are in line, and stay, the one who *)
(* stood before the other still does.                                      *)
Precedes(p, q) ==
  \E i, j \in 1 .. Len(line) : i < j /\ line[i] = p /\ line[j] = q

Stands(p) == \E i \in 1 .. Len(line) : line[i] = p

NobodyOvertakes ==
  [][\A p, q \in Players :
       Precedes(p, q) /\ Stands(p)' /\ Stands(q)' => Precedes(p, q)']_line
=============================================================================
