-------------------------- MODULE AccountStatement --------------------------
(***************************************************************************)
(* What the order core promises the owner of a portfolio, with nothing     *)
(* about requests, statuses, passes, prices or positions: what an order is *)
(* for is settled when it is placed; from then on it only executes more,   *)
(* up to what was asked; it pays or is paid only for what it executes, and *)
(* owes the tariff on all of it; and the balance is the opening one, what  *)
(* was paid in and out, and what the portfolio's orders settled.           *)
(***************************************************************************)
EXTENDS Integers, Sequences, FiniteSetsExt

CONSTANTS
  Portfolio, Security,
  Opening,     \* the balance a portfolio starts with
  Amounts,     \* what can be paid in or out
  Charge(_)    \* the tariff on the executed quantity of one order

VARIABLES
  orders,   \* every order placed, oldest first
  balance   \* per portfolio

Order ==
  [portfolio : Portfolio, security : Security, side : {"BUY", "SELL"},
   qty : Nat \ {0}, filled : Nat, traded : Int, charged : Nat]

\* The order `x', later, is `y'.
Later(y, x) ==
  /\ y.portfolio = x.portfolio /\ y.security = x.security
  /\ y.side = x.side /\ y.qty = x.qty
  /\ y.filled >= x.filled /\ y.filled <= y.qty
  /\ y.filled = x.filled => y.traded = x.traded
  /\ IF y.side = "BUY" THEN y.traded <= x.traded ELSE y.traded >= x.traded
  /\ y.charged = Charge(y.filled)

Unexecuted(x) == [x EXCEPT !.filled = 0, !.traded = 0]

\* What the orders of a portfolio moved of its balance.
Settled(list, p) ==
  LET held  == {o \in DOMAIN list : list[o].portfolio = p}
      moved == [o \in held |-> list[o].traded - list[o].charged]
  IN  MapThenSumSet(LAMBDA o : moved[o], held)

Init ==
  /\ orders = <<>>
  /\ balance = [p \in Portfolio |-> Opening]

\* Any number of orders placed or executed in one transaction.
Trade ==
  /\ orders' \in Seq(Order)
  /\ \A o \in DOMAIN orders : o \in DOMAIN orders' /\ Later(orders'[o], orders[o])
  /\ \A o \in DOMAIN orders' :
       o \notin DOMAIN orders => Later(orders'[o], Unexecuted(orders'[o]))
  /\ balance' =
       [p \in Portfolio |-> balance[p] + Settled(orders', p) - Settled(orders, p)]

\* A deposit or a withdrawal.
Entry(p, amount) ==
  /\ UNCHANGED orders
  /\ \/ balance' = [balance EXCEPT ![p] = @ + amount]
     \/ balance' = [balance EXCEPT ![p] = @ - amount]

Next == Trade \/ \E p \in Portfolio, amount \in Amounts : Entry(p, amount)

Spec == Init /\ [][Next]_<<orders, balance>>
=============================================================================
