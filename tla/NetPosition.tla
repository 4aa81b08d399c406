----------------------------- MODULE NetPosition -----------------------------
(***************************************************************************)
(* What a position book promises, with nothing about rows, averages or     *)
(* round trips: per portfolio and contract there is one signed quantity,   *)
(* and an execution moves exactly that quantity by exactly its size.       *)
(***************************************************************************)
EXTENDS Integers, Sequences

CONSTANTS Portfolio, Security, Quantity

VARIABLES
  executed,   \* every execution so far, oldest first
  net         \* the signed quantity held, per portfolio and contract

Execution ==
  [portfolio : Portfolio, security : Security, side : {"BUY", "SELL"}, qty : Quantity]

Init ==
  /\ executed = <<>>
  /\ net = [p \in Portfolio |-> [s \in Security |-> 0]]

Execute(e) ==
  /\ executed' = Append(executed, e)
  /\ net' = [net EXCEPT ![e.portfolio][e.security] =
               IF e.side = "BUY" THEN @ + e.qty ELSE @ - e.qty]

Next == \E e \in Execution : Execute(e)

Spec == Init /\ [][Next]_<<executed, net>>
=============================================================================
