-------------------------- MODULE MCQuotaRecovery --------------------------
(***************************************************************************)
(* Small instances of QuotaRecovery.  One unit of time is the trial floor  *)
(* of 15 minutes.  A short report is due after one unit, so that a second  *)
(* trial of its episode starts by itself within the horizon; a long one    *)
(* carries a reset beyond the floor and one that is not believed.          *)
(***************************************************************************)
EXTENDS QuotaRecovery, TLC

CONSTANTS c1, r1, r2

Report(five, week, month) == [FiveHours |-> five, Week |-> week, Month |-> month]

MCSnapshots ==
    {Report(Healthy, Healthy, Healthy),
     Report(1, Healthy, Healthy),
     Report(Healthy, 2, MaxKnownReset + 1)}

MCShortSnapshots ==
    {Report(Healthy, Healthy, Healthy), Report(1, Healthy, Healthy)}

=============================================================================
