-------------------------------- MODULE Outbox --------------------------------
(***************************************************************************)
(* What the retry queue promises for a message whose first push failed: the *)
(* service owes it to the receiver until the receiver has it or the service *)
(* gives it up as a dead letter, and one of the two happens in the end.     *)
(* The receiver may get a message and the service not learn of it, so a     *)
(* message can be received and still be owed, or even be given up.  The one  *)
(* that a first push brings is received before anything is owed.            *)
(***************************************************************************)
CONSTANT Ids   \* the messages

VARIABLES
  debt,        \* for each message: settled, owed or dead
  got          \* the receiver has the message

outboxVars == <<debt, got>>

Init == /\ debt = [m \in Ids |-> "settled"]
        /\ got = [m \in Ids |-> FALSE]

\* The first push of a message failed, or its answer did not come.
Accept(m) == /\ debt[m] = "settled"
             /\ debt' = [debt EXCEPT ![m] = "owed"]
             /\ \E b \in BOOLEAN : got' = [got EXCEPT ![m] = b]

Receive(m) == /\ debt[m] # "dead"
              /\ got' = [got EXCEPT ![m] = TRUE]
              /\ UNCHANGED debt

Settle(m) == /\ debt[m] = "owed"
             /\ got[m]
             /\ debt' = [debt EXCEPT ![m] = "settled"]
             /\ UNCHANGED got

GiveUp(m) == /\ debt[m] = "owed"
             /\ debt' = [debt EXCEPT ![m] = "dead"]
             /\ UNCHANGED got

Next == \E m \in Ids : Accept(m) \/ Receive(m) \/ Settle(m) \/ GiveUp(m)

Spec == Init /\ [][Next]_outboxVars

\* No debt stands for ever.
Discharged == \A m \in Ids : debt[m] = "owed" ~> debt[m] # "owed"

LiveSpec == Spec /\ Discharged

=============================================================================
