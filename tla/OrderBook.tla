------------------------------ MODULE OrderBook ------------------------------
(***************************************************************************)
(* What a live session promises about its orders, without the process, the *)
(* database, the lock or the stream that deliver it: bars advance one by   *)
(* one in time and commit the orders decided on them; an order reaches the *)
(* broker once, after it was committed; the position ledger books each     *)
(* executed unit at most once and never one that was not executed.         *)
(***************************************************************************)
EXTENDS Integers

CONSTANTS Slots, Qty, MaxBars

VARIABLES
  bars,       \* bars advanced: the number of the next one
  last,       \* time of the last bar advanced, 0 before the first
  committed,  \* orders the session has decided for good
  accepted,   \* orders the broker has
  executed,   \* units of each order the broker executed
  posted      \* units of each order in the position ledger

bookVars == <<bars, last, committed, accepted, executed, posted>>

BookOrder == (0 .. MaxBars - 1) \X Slots

BookInit ==
  /\ bars = 0 /\ last = 0
  /\ committed = {} /\ accepted = {}
  /\ executed = [c \in BookOrder |-> 0]
  /\ posted = [c \in BookOrder |-> 0]

\* A bar later than the last one advances and commits orders that carry its number.
Advance ==
  /\ bars' = bars + 1
  /\ last' \in (last + 1) .. MaxBars
  /\ \E new \in SUBSET ({bars} \X Slots) : committed' = committed \cup new
  /\ UNCHANGED <<accepted, executed, posted>>

\* The broker accepts a committed order it does not have.
Accept(c) ==
  /\ c \in committed \ accepted
  /\ accepted' = accepted \cup {c}
  /\ UNCHANGED <<bars, last, committed, executed, posted>>

Fill(c) ==
  /\ c \in accepted /\ executed[c] < Qty
  /\ executed' = [executed EXCEPT ![c] = @ + 1]
  /\ UNCHANGED <<bars, last, committed, accepted, posted>>

Post(c) ==
  /\ c \in BookOrder /\ posted[c] < executed[c]
  /\ posted' = [posted EXCEPT ![c] = @ + 1]
  /\ UNCHANGED <<bars, last, committed, accepted, executed>>

BookNext == Advance \/ \E c \in BookOrder : Accept(c) \/ Fill(c) \/ Post(c)

BookSpec == BookInit /\ [][BookNext]_bookVars

=============================================================================
