----------------------------- MODULE AtomicLedger -----------------------------
(***************************************************************************)
(* What concurrency/ledger.ts promises its callers: however their calls    *)
(* interleave, the books look as if each deposit and each transfer had     *)
(* happened in one piece.  There is no transaction underneath: when the    *)
(* store fails a call, at worst the debit stands without the credit.       *)
(***************************************************************************)
EXTENDS Integers, Sequences

CONSTANTS Tasks, Accounts, Amounts,
          NoAccount,      \* the `from` of a deposit
          StoreMayFail

VARIABLES books,     \* [Accounts -> Int]
          history    \* history[t]: the lines settled for t, with their results

Told(t, line, result) == history' = [history EXCEPT ![t] = Append(@, [line |-> line, result |-> result])]

Debited(line) == [books EXCEPT ![line.from] = @ - line.amount]

Deposit(t, line) ==
  /\ line.from = NoAccount
  /\ books' = [books EXCEPT ![line.to] = @ + line.amount]
  /\ Told(t, line, "ok")

Transfer(t, line) ==
  /\ line.from \in Accounts /\ books[line.from] >= line.amount
  /\ books' = [Debited(line) EXCEPT ![line.to] = @ + line.amount]
  /\ Told(t, line, "ok")

Refuse(t, line) ==
  /\ line.from \in Accounts /\ books[line.from] < line.amount
  /\ Told(t, line, "refused")
  /\ UNCHANGED books

Fail(t, line) ==
  /\ StoreMayFail
  /\ \/ UNCHANGED books
     \/ line.from \in Accounts /\ books[line.from] >= line.amount /\ books' = Debited(line)
  /\ Told(t, line, "failed")

Lines == [from : Accounts \union {NoAccount}, to : Accounts, amount : Amounts]

Init == books \in [Accounts -> Int] /\ history = [t \in Tasks |-> <<>>]
Next == \E t \in Tasks, line \in Lines :
          Deposit(t, line) \/ Transfer(t, line) \/ Refuse(t, line) \/ Fail(t, line)

Spec == Init /\ [][Next]_<<books, history>>
=============================================================================
