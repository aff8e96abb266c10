-------------------------------- MODULE Books --------------------------------
(* What Financials promises: each source document is booked at most once,   *)
(* in one step, by one event, and nothing booked is ever taken back; a bill *)
(* is paid at most once and only if it was booked.                          *)
CONSTANTS Documents,  \* source documents that move money
          Billed,     \* those that also owe a supplier
          Bookers,    \* the events that can book them
          Payers      \* the requests that can pay a bill; none is "nobody"

VARIABLES book,       \* book[d]: the event that booked d, or "nobody"
          payer       \* payer[d]: the request that paid the bill of d, or "nobody"

booksVars == <<book, payer>>

BooksInit ==
    /\ book = [d \in Documents |-> "nobody"]
    /\ payer = [d \in Documents |-> "nobody"]

BookIt(d, e) ==
    /\ book[d] = "nobody"
    /\ book' = [book EXCEPT ![d] = e]
    /\ UNCHANGED payer

PayIt(d, p) ==
    /\ d \in Billed
    /\ book[d] # "nobody"
    /\ payer[d] = "nobody"
    /\ payer' = [payer EXCEPT ![d] = p]
    /\ UNCHANGED book

BooksNext ==
    \E d \in Documents :
        \/ \E e \in Bookers : BookIt(d, e)
        \/ \E p \in Payers : PayIt(d, p)

BooksSpec == BooksInit /\ [][BooksNext]_booksVars
=============================================================================
