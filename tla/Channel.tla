------------------------------ MODULE Channel -------------------------------
(***************************************************************************)
(* What the mailbox promises to the two processors: whole messages, in     *)
(* order, none lost and none twice, and at most one of them on its way     *)
(* while the receiver has the one before.                                  *)
(***************************************************************************)
EXTENDS Sequences

VARIABLES
  fresh,     \* the sender has a message that has not left
  offer,     \* the sender's message
  waiting,   \* the messages sent and not yet taken: none or one
  taken      \* the message taken last

vars == <<fresh, offer, waiting, taken>>

Offer ==
  /\ ~fresh
  /\ fresh'
  /\ UNCHANGED <<waiting, taken>>

Send ==
  /\ fresh /\ waiting = <<>>
  /\ ~fresh'
  /\ waiting' = <<offer>>
  /\ UNCHANGED <<offer, taken>>

Take ==
  /\ waiting # <<>>
  /\ taken' = waiting[1]
  /\ waiting' = <<>>
  /\ UNCHANGED <<fresh, offer>>

Next == Offer \/ Send \/ Take

Spec == ~fresh /\ waiting = <<>> /\ [][Next]_vars

=============================================================================
