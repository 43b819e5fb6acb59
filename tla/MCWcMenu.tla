------------------------------ MODULE MCWcMenu ------------------------------
(***************************************************************************)
(* Lists of other screens with and without a header, of every length       *)
(* around one page and around the longest list, with entries hidden.       *)
(***************************************************************************)
EXTENDS WcMenu

MCLists ==
  [rows : {[i \in 1 .. n |-> i - 1] : n \in {0, 1, 3, 4, 5, 9, 10, 12}}, titled : BOOLEAN, noted : {0, 2}]

MCStored ==
  {<< >>, Encoded(230400, TRUE), Encoded(9600, TRUE), SubSeq(Encoded(230400, TRUE), 1, 2)}
=============================================================================
