----------------------------- MODULE MCStartup -----------------------------
(* Instances of Daemon and Storage for TLC.                                *)
EXTENDS Daemon

CONSTANTS d1, d2, chat, c1, c2, c3, tables, task, duration

MCProcess == {d1, d2, chat}
MCDaemons == {d1, d2}
MCCommand == {c1, c2, c3}
MCStatement == {tables, task, duration}
MCMigrations == <<<<tables>>, <<task, duration>>>>
MCRepeatable == {tables}
=============================================================================
