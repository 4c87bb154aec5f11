---------------------------- MODULE OrderLedger ----------------------------
(***************************************************************************)
(* What the order service promises about the money of a table, whatever    *)
(* its lines, statements and transactions look like: an order is opened    *)
(* for a table that has no active one, it is repriced only while nothing   *)
(* was paid, payments never exceed the balance, and the payment that       *)
(* covers the balance closes it for good.                                  *)
(*                                                                         *)
(* OrderRequests implements this specification when every table is served  *)
(* by one terminal (its property LedgerImplemented), and inherits the      *)
(* balance of the accounts stated at the end.                              *)
(***************************************************************************)
EXTENDS Integers

CONSTANTS Tables, Orders, NoRow,
          Totals    \* what the lines of an order can cost together

VARIABLE ledger    \* the account of each order

\* The statuses of an order row that count as "the order of its table".
ActiveStatus == {"open", "pending_payment"}

Account == [table: Tables \cup {NoRow},
            status: ActiveStatus \cup {"absent", "paid"},
            total: Nat, paid: Nat]

Unopened == [table |-> NoRow, status |-> "absent", total |-> 0, paid |-> 0]

TypeOK == ledger \in [Orders -> Account]

Active(o) == ledger[o].status \in ActiveStatus

Init == ledger = [o \in Orders |-> Unopened]

Open(o, t) ==
    /\ ledger[o] = Unopened
    /\ \A p \in Orders : ledger[p].table = t => ~Active(p)
    /\ ledger' = [ledger EXCEPT
         ![o] = [Unopened EXCEPT !.table = t, !.status = "open"]]

\* The lines of the order changed: its total is whatever they now cost.
Reprice(o, n) ==
    /\ Active(o) /\ ledger[o].paid = 0
    /\ ledger' = [ledger EXCEPT ![o].total = n]

\* The bill is asked for: the order waits for its payment.
Charge(o) ==
    /\ ledger[o].status = "open" /\ ledger[o].total > 0
    /\ ledger' = [ledger EXCEPT ![o].status = "pending_payment"]

\* A payment of some of the balance, or of all of it, which closes the order.
Pay(o, cents) ==
    /\ Active(o) /\ cents \in 1 .. (ledger[o].total - ledger[o].paid)
    /\ ledger' = [ledger EXCEPT
         ![o].paid = @ + cents,
         ![o].status = IF ledger[o].paid + cents = ledger[o].total
                       THEN "paid" ELSE "pending_payment"]

\* The table is freed: its active order disappears with what was paid on it.
Free(o) ==
    /\ Active(o)
    /\ ledger' = [ledger EXCEPT ![o] = Unopened]

Next == \E o \in Orders :
           \/ \E t \in Tables : Open(o, t)
           \/ \E n \in Totals : Reprice(o, n) \/ Pay(o, n)
           \/ Charge(o) \/ Free(o)

Spec == Init /\ [][Next]_ledger

-----------------------------------------------------------------------------

(* An order is paid exactly when its payments add up to a positive total;  *)
(* before that they fall short of it: nobody pays too much, and nobody     *)
(* leaves with an open order that is covered.                              *)
PaidInFull ==
    \A o \in Orders :
        /\ ledger[o].status = "paid" =>
              ledger[o].total > 0 /\ ledger[o].paid = ledger[o].total
        /\ ledger[o].status # "paid" /\ ledger[o].paid > 0 =>
              ledger[o].paid < ledger[o].total
=============================================================================
