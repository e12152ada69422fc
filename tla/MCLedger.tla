------------------------------- MODULE MCLedger -------------------------------
(***************************************************************************)
(* Instances of Ledger for TLC: the shapes of concurrency/scenarios.ts,    *)
(* with smaller amounts and every interleaving.                            *)
(***************************************************************************)
EXTENDS Ledger, FiniteSetsExt, TLC

CONSTANTS t1, t2, t3, main, other, fresh

Deposit(to, n) == [op |-> "deposit", lines |-> <<[from |-> NoAccount, to |-> to, amount |-> n]>>]
Ask(of) == [op |-> "balance", lines |-> <<[from |-> NoAccount, to |-> of, amount |-> 0]>>]
Move(from, to, n) == [from |-> from, to |-> to, amount |-> n]
Settlement(lines) == [op |-> "settle", lines |-> lines]

\* Readers that overlap a deposit, its depositor reading after it.
ReadAfterWrite == t1 :> <<Deposit(fresh, 1), Ask(fresh)>> @@ t2 :> <<Ask(fresh), Ask(fresh)>>
                  @@ t3 :> <<Ask(fresh)>>

\* The third arrives at the lock after a read of another account.
LateArrival == t1 :> <<Deposit(other, 1)>> @@ t2 :> <<Deposit(other, 2)>>
               @@ t3 :> <<Ask(fresh), Deposit(other, 4)>>

\* A race for the whole balance, with a batch that moves it on and back.
RaceToEmpty == t1 :> <<Settlement(<<Move(main, other, 2)>>)>> @@ t2 :> <<Settlement(<<Move(main, fresh, 2)>>)>>
               @@ t3 :> <<Settlement(<<Move(other, main, 1), Move(main, other, 1)>>)>>

Wire == {ReadAfterWrite, LateArrival, RaceToEmpty}

OpeningBalances == main :> 2 @@ other :> 0 @@ fresh :> Unwritten

\* A transfer from an account to itself.
ToItself == {t1 :> <<Settlement(<<Move(main, main, 2)>>)>> @@ t2 :> <<Ask(main)>> @@ t3 :> <<Ask(main)>>}

\* scenarios.ts:275: "A transfer moves money; it never creates or destroys any."
MoneyConserved ==
  ~held /\ failures = 0 =>
    MapThenSumSet(LAMBDA x : OrZero(balances[x]), Accounts) =
    MapThenSumSet(LAMBDA x : OrZero(Opening[x]), Accounts)
=============================================================================
