--------------------------- MODULE Announcements ---------------------------
(***************************************************************************)
(* What the dedicated server sees of the admin connection, whatever        *)
(* becomes of it: it may miss announcements, but each one it reads is of a *)
(* room later than all it has read before; so none comes twice and none    *)
(* comes late.                                                             *)
(***************************************************************************)
EXTENDS Naturals, Sequences

VARIABLE
  hosted       (* the rooms announced, in the order they were read         *)

Init == hosted = <<>>

Latest == hosted[Len(hosted)]

Host ==
  /\ Len(hosted') > Len(hosted)
  /\ hosted' = Append(hosted, Latest')
  /\ \A i \in 1 .. Len(hosted) : hosted[i] < Latest'

Spec == Init /\ [][Host]_hosted
=============================================================================
