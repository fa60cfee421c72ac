------------------------------ MODULE MCQueries ------------------------------
(* Queries for TLC: up to two persons and two cars.  One person owns both cars   *)
(* and both drive one of them; or a person owns one and drives the other,  *)
(* which nobody owns.                                                      *)
EXTENDS Queries

TwoIds == {1, 2}
TwoNames == {1, 2}

Link(p, c) == [persons |-> p, cars |-> c]

Families ==
    {[persons |-> <<1, 2>>, cars |-> <<1, 1>>, links |-> {Link(1, 2), Link(2, 2)}],
     [persons |-> <<2>>, cars |-> <<Null, 1>>, links |-> {Link(1, 1)}]}
==============================================================================
