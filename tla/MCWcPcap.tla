------------------------------ MODULE MCWcPcap ------------------------------
(***************************************************************************)
(* All files of up to eight cells after a good or a bad global header: the *)
(* window, of five, is refilled at every place of a record.                *)
(***************************************************************************)
EXTENDS WcPcap

MCFiles ==
  UNION {{<<Magic, LinkType>> \o f : f \in [1 .. n -> 0 .. MaxFrame + 1]} : n \in 0 .. 6}
  \cup {<< >>, <<Magic>>, <<LinkType, Magic, 0>>, <<Magic, Magic, 1, 1>>}
=============================================================================
