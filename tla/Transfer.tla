-------------------------------- MODULE Transfer --------------------------------
(***************************************************************************)
(* process_transaction of ALP-listings/chapter-4/critical-section.c: money *)
(* moves between two accounts in a thread that may be cancelled at any     *)
(* time, but not in its critical section.  Cancellation is all the section *)
(* keeps out; other threads run on.                                        *)
(*                                                                         *)
(* Balances and dollars are floats.  A finite float is a whole number of   *)
(* some smallest unit, of which the larger ones keep the leading digits    *)
(* only: numbers here are in that unit.  Infinities and NaN are left out.  *)
(***************************************************************************)
EXTENDS Integers, FiniteSets, Functions

CONSTANTS Accounts, Tellers,
          Balances, Amounts, \* what an account may hold at first, and be asked for
          Money,             \* what all accounts hold together
          Precision          \* binary digits of a float (24)

VARIABLES balance,     \* account_balances
          teller,      \* each thread: where it is and its arguments
          loaded,      \* the balance each has loaded
          overlapped,  \* history: two threads were past their checks at once
          exact,       \* history: no result had to be rounded
          books        \* history: the balances, had each whole transaction been one step

bankVars == <<balance, teller, loaded, overlapped, exact, books>>

Total == FoldFunction(+, 0, balance)

(* The floats around n are Spacing(n) apart; a result becomes the nearest, *)
(* and of two as near the even one.                                        *)
Magnitude(n) == IF n < 0 THEN -n ELSE n
Spacing(n)   == 2 ^ Cardinality({e \in 0..Magnitude(n) : 2 ^ (Precision + e) <= Magnitude(n)})
Round(n) == LET gap  == Spacing(n)
                q    == n \div gap
                rest == n % gap
            IN  gap * IF 2 * rest > gap \/ (2 * rest = gap /\ q % 2 = 1) THEN q + 1 ELSE q

Init == /\ balance \in [Accounts -> Balances] /\ Total = Money
        /\ teller \in [Tellers -> [at : {"start"}, from : Accounts, to : Accounts, dollars : Amounts]]
        /\ loaded = [t \in Tellers |-> 0]
        /\ overlapped = FALSE /\ exact = TRUE /\ books = balance

Inside(t) == teller[t].at \in {"checked", "to", "added", "from", "moved"}

Goes(t, from, to) == teller[t].at = from /\ teller' = [teller EXCEPT ![t].at = to]

(* Nothing else is asked of dollars: they may be negative.                 *)
Check(t) == /\ teller[t].at = "start"
            /\ LET short == balance[teller[t].from] < teller[t].dollars
               IN  /\ teller' = [teller EXCEPT ![t].at = IF short THEN "returned 1" ELSE "checked"]
                   /\ overlapped' = (overlapped \/ \E u \in Tellers \ {t} : ~short /\ Inside(u))
            /\ UNCHANGED <<balance, loaded, exact, books>>

(* += and -= load a balance and store it in two steps.                     *)
Load(t, from, to, acct) == /\ Goes(t, from, to)
                           /\ loaded' = [loaded EXCEPT ![t] = balance[acct]]
                           /\ UNCHANGED <<balance, overlapped, exact, books>>
Store(acct, n) == balance' = [balance EXCEPT ![acct] = Round(n)] /\ exact' = (exact /\ Round(n) = n)

LoadTo(t)   == Load(t, "checked", "to", teller[t].to)
AddTo(t)    == /\ Goes(t, "to", "added") /\ Store(teller[t].to, loaded[t] + teller[t].dollars)
               /\ UNCHANGED <<loaded, overlapped, books>>
LoadFrom(t) == Load(t, "added", "from", teller[t].from)
TakeFrom(t) == /\ Goes(t, "from", "moved") /\ Store(teller[t].from, loaded[t] - teller[t].dollars)
               /\ books' = [[books EXCEPT ![teller[t].to] = Round(@ + teller[t].dollars)]
                              EXCEPT ![teller[t].from] = Round(@ - teller[t].dollars)]
               /\ UNCHANGED <<loaded, overlapped>>
Return(t)   == Goes(t, "moved", "returned 0") /\ UNCHANGED <<balance, loaded, overlapped, exact, books>>

(* Mutation: the section starts after the first account was changed. *)
CancelLate(t) == /\ teller[t].at \in {"start", "checked", "to", "added"}
                 /\ teller' = [teller EXCEPT ![t].at = "cancelled"]
                 /\ UNCHANGED <<balance, loaded, overlapped, exact, books>>

(* pthread_cancel takes effect outside pthread_setcancelstate's section.   *)
Cancel(t) == /\ teller[t].at \in {"start", "checked", "returned 0", "returned 1"}
             /\ teller' = [teller EXCEPT ![t].at = "cancelled"]
             /\ UNCHANGED <<balance, loaded, overlapped, exact, books>>

Next == \E t \in Tellers : Check(t) \/ LoadTo(t) \/ AddTo(t) \/ LoadFrom(t) \/ TakeFrom(t) \/ Return(t) \/ Cancel(t)

Spec == Init /\ [][Next]_bankVars
-------------------------------------------------------------------------------
(* Whoever is cancelled and when, each transaction has happened as a whole *)
(* or not at all, as long as no two overlap: nothing but the callers keeps *)
(* them apart.  No money is then made or lost, but for what floats cannot  *)
(* hold; accounts may be overdrawn, by a negative amount.                  *)
MoneyConserved == ~overlapped /\ (\A t \in Tellers : ~Inside(t)) =>
                    balance = books /\ (exact => Total = Money)
===============================================================================
