-------------------------------- MODULE MCPages --------------------------------
(***************************************************************************)
(* Pages with a third row behind the panels that show alerts, so that the  *)
(* table can hold more alerts than an answer, and an answer more than the  *)
(* flyout.  The other panels have the rows of Few.                         *)
(***************************************************************************)
EXTENDS Pages

CONSTANTS
  AlertPanels,
  Few

FewRows ==
  page' \in AlertPanels \/ \A i \in Ids \ Few : table'[i] = "none" /\ ui'.tab # i

FewRowsSpec == Init /\ [][Next /\ FewRows]_vars
=============================================================================
