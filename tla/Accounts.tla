------------------------------ MODULE Accounts ------------------------------
(***************************************************************************)
(* What balances changed by deposits, withdrawals and transfers promise,   *)
(* without mutexes or machine integers: every operation is one step, and a *)
(* balance never leaves 0 .. Largest.                                      *)
(***************************************************************************)
EXTENDS Integers

CONSTANTS
    Holders,  \* the accounts
    Amounts,  \* amounts moved
    Largest   \* largest balance supported

VARIABLE balance  \* balance[a]: the balance of account a

Init == balance \in [Holders -> 0 .. Largest]

Deposit(a, m) ==
    /\ balance[a] + m <= Largest
    /\ balance' = [balance EXCEPT ![a] = @ + m]

Withdraw(a, m) ==
    /\ balance[a] >= m
    /\ balance' = [balance EXCEPT ![a] = @ - m]

Transfer(a, b, m) ==
    /\ balance[a] >= m
    /\ balance[b] + m <= Largest
    /\ balance' = [balance EXCEPT ![a] = @ - m, ![b] = @ + m]

Next ==
    \E a \in Holders, m \in Amounts :
        \/ Deposit(a, m)
        \/ Withdraw(a, m)
        \/ \E b \in Holders \ {a} : Transfer(a, b, m)

Spec == Init /\ [][Next]_balance
=============================================================================
