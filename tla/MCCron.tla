------------------------------- MODULE MCCron -------------------------------
(* Instances of Cron for TLC.                                              *)
EXTENDS Cron, TLC

CONSTANTS p, q, c1, c2, good, six, lastday, word

MCProcess == {p, q}
MCCaller == {c1, c2}
MCUserName == {"report"}
MCRuntime == <<"light">>
MCSchedule == {good, six, lastday, word}
MCCronValid == {good, six}
MCTriggerValid == {good, lastday}
MCSymmetry == Permutations(MCProcess) \cup Permutations(MCCaller)
=============================================================================
