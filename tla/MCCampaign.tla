----------------------------- MODULE MCCampaign -----------------------------
(* Three candidates for two places, one to a family, and two runs: the second *)
(* reads what the first wrote.                                                *)
EXTENDS Campaign

MCRecord(id, score, family) == [id |-> id, score |-> score, family |-> family]
MCRecords ==
  {MCRecord(1, 1, 1), MCRecord(1, 2, 1), MCRecord(2, 1, 1), MCRecord(2, 2, 1),
   MCRecord(3, 1, NoFamily), MCRecord(3, 2, NoFamily),
   MCRecord(2, 1, NoFamily), MCRecord(3, NoScore, NoFamily)}
=============================================================================
