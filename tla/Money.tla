------------------------------- MODULE Money -------------------------------
(***************************************************************************)
(* Sums of amounts.  Amounts have at most four decimal places (the handler *)
(* refuses others and the columns are NUMERIC(19,4)), so they are counted  *)
(* in ten-thousandths of the currency unit and sums are exact.             *)
(***************************************************************************)
EXTENDS Integers, FiniteSets

\* The units of the amounts of S, each unit named by its owner and a number.
UnitsOf(S, amount) == UNION {{s} \X (1 .. amount[s]) : s \in S}

\* The sum of amount[s] over s in S, for amounts that are not negative.
Total(S, amount) == Cardinality(UnitsOf(S, amount))
=============================================================================
