---------------------------- MODULE EventLedger ----------------------------
(***************************************************************************)
(* What the durable books promise (docs/ARCHITECTURE.md, invariant 5): an  *)
(* execution or a funding settlement is booked once, and a booked one      *)
(* stays booked, whatever is redelivered, replayed or lost in a crash.     *)
(***************************************************************************)
EXTENDS Naturals

CONSTANT Keys   \* execution and settlement IDs

VARIABLE books  \* how many times each key changed the ledgers

LedgerInit == books = [k \in Keys |-> 0]

Book(k) == books[k] = 0 /\ books' = [books EXCEPT ![k] = 1]

LedgerNext == \E k \in Keys : Book(k)

LedgerSpec == LedgerInit /\ [][LedgerNext]_books
============================================================================
