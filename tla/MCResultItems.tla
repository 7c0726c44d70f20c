--------------------------- MODULE MCResultItems ---------------------------
(* ResultItems on small instances. *)
EXTENDS ResultItems, TLC

CONSTANTS a, b

\* A page without items, a price that rises and falls, an item that appears after a
\* known one.
Pages ==
    LET Offered(i, p) == [item |-> i, price |-> p] IN
    {<< >>, <<Offered(a, 1)>>, <<Offered(a, 2), Offered(b, 1)>>}

\* Handlers are interchangeable.
HandlerSymmetry == Permutations(Handler)
=============================================================================
