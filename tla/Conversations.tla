---------------------------- MODULE Conversations ----------------------------
(***************************************************************************)
(* Sessions and messages in the database, and who writes them: the turns   *)
(* the daemon runs for its command queue (dispatch_message with a session  *)
(* id), its cron jobs (execute_cron_job), its reset at midnight            *)
(* (daily_reset), and chat terminals, which are other processes on the     *)
(* same database (cli/chat.py).                                            *)
(*                                                                         *)
(* A step is one access to the database: every access is awaited, and any  *)
(* other task or process may run before the next.  All callers leave the   *)
(* peer and the channel out, so every session has the one scope key of the *)
(* default agent and the key is left out here.                             *)
(***************************************************************************)
EXTENDS Integers, Sequences, FiniteSets

CONSTANTS
    QueuedTurns,  \* turns the queue hands to the daemon's handler
    CronTurns,    \* executions of cron jobs in the daemon
    ChatTurns,    \* lines typed at chat terminals
    Sessions,     \* session ids chosen by gateway clients and for --session
    Terminals,    \* chat processes
    SessionOf,    \* the session a queued turn is addressed to
    TerminalOf,   \* the terminal a chat turn is typed at
    MaxDay,       \* bound: midnights that pass
    None          \* no row, no cached id, no active session

Turns == QueuedTurns \cup CronTurns \cup ChatTurns
DaemonTurns == QueuedTurns \cup CronTurns

(* A chat line is dispatched once more when its first dispatch fails.      *)
Attempts == {1, 2}

(* A session id made up by the n-th dispatch of a turn is named <<t, n>>.  *)
SessionIds == Sessions \cup ((CronTurns \cup ChatTurns) \X Attempts)

ASSUME TurnsAssumption ==
    /\ QueuedTurns \cap CronTurns = {}
    /\ QueuedTurns \cap ChatTurns = {}
    /\ CronTurns \cap ChatTurns = {}
ASSUME SessionOfAssumption == SessionOf \in [QueuedTurns -> Sessions]
ASSUME TerminalOfAssumption == TerminalOf \in [ChatTurns -> Terminals]
ASSUME NoneAssumption == None \notin SessionIds

Days == Nat
Row == [created : Days, updated : Days, creator : Turns]
Message == [turn : Turns, attempt : Attempts, role : {"user", "assistant"}]

ASSUME NoneIsNoRow == None \notin Row

(* The access a turn in progress makes next.                               *)
Accesses == {"resume", "cached", "list", "insert", "reread", "ask", "askBump",
             "agent", "answer", "answerBump"}

VARIABLES
    day,       \* the date
    rows,      \* table sessions
    messages,  \* table messages, per session, in insertion order
    pc,        \* per turn: not begun, its next access, or ended
    target,    \* per turn in progress: the session it works on
    attempt,   \* per turn: which dispatch of the line this is
    active,    \* active_session_id of each terminal
    cache,     \* _key_cache of each terminal's SessionManager
    wake,      \* the midnight the reset task sleeps for
    victims,   \* rows daily_reset has selected and not deleted yet
    resetting  \* daily_reset is between its SELECT and its return

vars == <<day, rows, messages, pc, target, attempt, active, cache, wake,
          victims, resetting>>

tables == <<rows, messages>>
terminalVars == <<active, cache>>
resetVars == <<wake, victims, resetting>>

TypeOK ==
    /\ day \in Days
    /\ rows \in [SessionIds -> Row \cup {None}]
    /\ messages \in [SessionIds -> Seq(Message)]
    /\ pc \in [Turns -> {"new", "ended"} \cup Accesses]
    /\ target \in [Turns -> SessionIds \cup {None}]
    /\ attempt \in [Turns -> Attempts]
    /\ active \in [Terminals -> SessionIds \cup {None}]
    /\ cache \in [Terminals -> SessionIds \cup {None}]
    /\ wake \in Days
    /\ victims \in SUBSET SessionIds
    /\ resetting \in BOOLEAN

Exists(s) == rows[s] # None

(* The session a terminal is started in, if --session names one: an id its *)
(* user chose, or has seen in the table.                                   *)
SessionOption == Sessions \cup {s \in SessionIds : Exists(s)} \cup {None}

InitExceptPc ==
    /\ day = 0
    /\ rows = [s \in SessionIds |-> None]
    /\ messages = [s \in SessionIds |-> <<>>]
    /\ target = [t \in Turns |-> None]
    /\ attempt = [t \in Turns |-> 1]
    /\ active \in [Terminals -> SessionOption]
    /\ cache = [t \in Terminals |-> None]
    /\ wake = 1
    /\ victims = {}
    /\ resetting = FALSE

Init == pc = [t \in Turns |-> "new"] /\ InitExceptPc

Fresh(t) == <<t, attempt[t]>>

Goto(t, step) == pc' = [pc EXCEPT ![t] = step]

-----------------------------------------------------------------------------
(* dispatch_message, execute_cron_job: finding or making the session *)

(* Mutant of LaneFree: turns of a session may overlap.                     *)
NoLanes(t) == TRUE

(* The queue runs the turns of one session one at a time (CommandQueue).   *)
LaneFree(t) ==
    \A u \in QueuedTurns \ {t} :
        SessionOf[u] = SessionOf[t] => pc[u] \notin Accesses

BeginQueued(t) ==
    /\ pc[t] = "new"
    /\ LaneFree(t)
    /\ target' = [target EXCEPT ![t] = SessionOf[t]]
    /\ Goto(t, "resume")
    /\ UNCHANGED <<day, tables, attempt, terminalVars, resetVars>>

(* A cron job makes up the id of its session.                              *)
BeginCron(t) ==
    /\ pc[t] = "new"
    /\ target' = [target EXCEPT ![t] = Fresh(t)]
    /\ Goto(t, "insert")
    /\ UNCHANGED <<day, tables, attempt, terminalVars, resetVars>>

(* Where a terminal's dispatch starts: at the session it is in, else at    *)
(* the cached one, else at the table.                                      *)
ChatEntry(term) ==
    IF active[term] # None THEN [step |-> "resume", session |-> active[term]]
    ELSE IF cache[term] # None THEN [step |-> "cached", session |-> cache[term]]
    ELSE [step |-> "list", session |-> None]

(* The REPL reads its next line once the turn before it has ended.         *)
BeginChat(t) ==
    LET entry == ChatEntry(TerminalOf[t]) IN
    /\ pc[t] = "new"
    /\ \A u \in ChatTurns :
          TerminalOf[u] = TerminalOf[t] => pc[u] \notin Accesses
    /\ target' = [target EXCEPT ![t] = entry.session]
    /\ Goto(t, entry.step)
    /\ UNCHANGED <<day, tables, attempt, terminalVars, resetVars>>

(* resume, and create_with_id when there is no such session.               *)
Resume(t) ==
    /\ pc[t] = "resume"
    /\ Goto(t, IF Exists(target[t]) THEN "ask" ELSE "insert")
    /\ UNCHANGED <<day, tables, target, attempt, terminalVars, resetVars>>

(* resolve, fast path: the cached id, forgotten when its session is gone.  *)
ResolveCached(t) ==
    /\ pc[t] = "cached"
    /\ IF Exists(target[t])
       THEN Goto(t, "ask") /\ UNCHANGED cache
       ELSE Goto(t, "list") /\ cache' = [cache EXCEPT ![TerminalOf[t]] = None]
    /\ UNCHANGED <<day, tables, target, attempt, active, resetVars>>

(* resolve, slow path: the session updated last, whoever made it.          *)
ResolveList(t) ==
    /\ pc[t] = "list"
    /\ \/ \E s \in SessionIds :
             /\ Exists(s)
             /\ \A o \in SessionIds :
                   Exists(o) => rows[o].updated <= rows[s].updated
             /\ target' = [target EXCEPT ![t] = s]
             /\ cache' = [cache EXCEPT ![TerminalOf[t]] = s]
             /\ Goto(t, "ask")
       \/ /\ \A s \in SessionIds : ~Exists(s)
          /\ target' = [target EXCEPT ![t] = Fresh(t)]
          /\ Goto(t, "insert")
          /\ UNCHANGED cache
    /\ UNCHANGED <<day, tables, attempt, active, resetVars>>

-----------------------------------------------------------------------------
(* The turn ends *)

End(t) ==
    /\ Goto(t, "ended")
    /\ target' = [target EXCEPT ![t] = None]
    /\ attempt' = [attempt EXCEPT ![t] = 1]

(* A dispatch raised: the REPL dispatches the line once more, the other    *)
(* callers report the error.                                               *)
Fail(t) ==
    IF t \in ChatTurns /\ attempt[t] = 1
    THEN LET entry == ChatEntry(TerminalOf[t]) IN
         /\ attempt' = [attempt EXCEPT ![t] = 2]
         /\ target' = [target EXCEPT ![t] = entry.session]
         /\ Goto(t, entry.step)
    ELSE End(t)

(* The INSERT fails when another process made the session meanwhile.       *)
Insert(t) ==
    /\ pc[t] = "insert"
    /\ IF Exists(target[t])
       THEN Fail(t) /\ UNCHANGED rows
       ELSE /\ rows' = [rows EXCEPT ![target[t]] =
                           [created |-> day, updated |-> day, creator |-> t]]
            /\ Goto(t, "reread")
            /\ UNCHANGED <<target, attempt>>
    /\ UNCHANGED <<day, messages, terminalVars, resetVars>>

(* create reads the row back and caches its id.                            *)
Reread(t) ==
    /\ pc[t] = "reread"
    /\ IF Exists(target[t])
       THEN /\ Goto(t, "ask")
            /\ cache' = IF t \in ChatTurns
                        THEN [cache EXCEPT ![TerminalOf[t]] = target[t]]
                        ELSE cache
            /\ UNCHANGED <<target, attempt>>
       ELSE Fail(t) /\ UNCHANGED cache
    /\ UNCHANGED <<day, tables, active, resetVars>>

-----------------------------------------------------------------------------
(* MessageRepo.add: the row of the message, then updated_at *)

(* Mutant of Add: the foreign key is not enforced.                         *)
AddUnchecked(t, role, next) ==
    /\ messages' = [messages EXCEPT ![target[t]] =
                       Append(@, [turn |-> t, attempt |-> attempt[t], role |-> role])]
    /\ Goto(t, next)
    /\ UNCHANGED <<target, attempt>>

(* INSERT fails on its foreign key when the session is gone.               *)
Add(t, role, next) ==
    IF Exists(target[t])
    THEN /\ messages' = [messages EXCEPT ![target[t]] =
               Append(@, [turn |-> t, attempt |-> attempt[t], role |-> role])]
         /\ Goto(t, next)
         /\ UNCHANGED <<target, attempt>>
    ELSE Fail(t) /\ UNCHANGED messages

(* Mutant of Bump: the session is written anew when it is gone.            *)
BumpUpsert(s) ==
    rows' = IF Exists(s) THEN [rows EXCEPT ![s].updated = day]
            ELSE [rows EXCEPT ![s] =
                     [created |-> day, updated |-> day, creator |-> None]]

(* The UPDATE matches no row when the session is gone.                     *)
Bump(s) ==
    rows' = IF Exists(s) THEN [rows EXCEPT ![s].updated = day] ELSE rows

Ask(t) ==
    /\ pc[t] = "ask"
    /\ Add(t, "user", "askBump")
    /\ UNCHANGED <<day, rows, terminalVars, resetVars>>

AskBump(t) ==
    /\ pc[t] = "askBump"
    /\ Bump(target[t])
    /\ Goto(t, "agent")
    /\ UNCHANGED <<day, messages, target, attempt, terminalVars, resetVars>>

(* The skill or the agent answers, or the agent raises: a timeout, a model *)
(* error, a client that is gone when a token is sent to it.                *)
RunAgent(t) ==
    /\ pc[t] = "agent"
    /\ \/ Goto(t, "answer") /\ UNCHANGED <<target, attempt>>
       \/ Fail(t)
    /\ UNCHANGED <<day, tables, terminalVars, resetVars>>

Answer(t) ==
    /\ pc[t] = "answer"
    /\ Add(t, "assistant", "answerBump")
    /\ UNCHANGED <<day, rows, terminalVars, resetVars>>

(* dispatch_message returns.  The terminal stays in the session; a line    *)
(* that streamed nothing is dispatched again all the same.                 *)
AnswerBump(t) ==
    /\ pc[t] = "answerBump"
    /\ Bump(target[t])
    /\ active' = IF t \in ChatTurns
                 THEN [active EXCEPT ![TerminalOf[t]] = target[t]]
                 ELSE active
    /\ \/ End(t)
       \/ /\ t \in ChatTurns
          /\ attempt[t] = 1
          /\ attempt' = [attempt EXCEPT ![t] = 2]
          /\ Goto(t, "resume")
          /\ UNCHANGED target
    /\ UNCHANGED <<day, messages, cache, resetVars>>

-----------------------------------------------------------------------------
(* daily_reset and the task that calls it *)

Midnight ==
    /\ day < MaxDay
    /\ day' = day + 1
    /\ UNCHANGED <<tables, pc, target, attempt, terminalVars, resetVars>>

(* Mutant of NotUpdatedToday: <= for <.                                    *)
UpdatedUpToToday(s) == Exists(s) /\ rows[s].updated <= day

NotUpdatedToday(s) == Exists(s) /\ rows[s].updated < day

ResetSelect ==
    /\ ~resetting
    /\ day >= wake
    /\ resetting' = TRUE
    /\ victims' = {s \in SessionIds : NotUpdatedToday(s)}
    /\ UNCHANGED <<day, tables, pc, target, attempt, terminalVars, wake>>

(* DELETE of one selected session; its messages go with it.                *)
ResetDelete(s) ==
    /\ s \in victims
    /\ rows' = [rows EXCEPT ![s] = None]
    /\ messages' = [messages EXCEPT ![s] = <<>>]
    /\ victims' = victims \ {s}
    /\ UNCHANGED <<day, pc, target, attempt, terminalVars, wake, resetting>>

ResetReturn ==
    /\ resetting
    /\ victims = {}
    /\ resetting' = FALSE
    /\ wake' = day + 1
    /\ UNCHANGED <<day, tables, pc, target, attempt, terminalVars, victims>>

-----------------------------------------------------------------------------
(* A process dies; what it wrote stays.  A daemon that is started again    *)
(* waits for the next midnight.                                            *)
EndAll(dead) ==
    /\ pc' = [t \in Turns |->
                 IF t \in dead /\ pc[t] \in Accesses THEN "ended" ELSE pc[t]]
    /\ target' = [t \in Turns |-> IF t \in dead THEN None ELSE target[t]]
    /\ attempt' = [t \in Turns |-> IF t \in dead THEN 1 ELSE attempt[t]]

KillDaemon ==
    /\ EndAll(DaemonTurns)
    /\ victims' = {}
    /\ resetting' = FALSE
    /\ wake' = day + 1
    /\ UNCHANGED <<day, tables, terminalVars>>

(* The terminal is opened again, in a session of its user's choice or in   *)
(* none, if there are lines left to type.                                  *)
KillTerminal(term) ==
    LET left == \E t \in ChatTurns : TerminalOf[t] = term /\ pc[t] = "new" IN
    /\ EndAll({t \in ChatTurns : TerminalOf[t] = term})
    /\ \E s \in IF left THEN SessionOption ELSE {None} : active' = [active EXCEPT ![term] = s]
    /\ cache' = [cache EXCEPT ![term] = None]
    /\ UNCHANGED <<day, tables, resetVars>>

-----------------------------------------------------------------------------
Begin ==
    \/ \E t \in QueuedTurns : BeginQueued(t)
    \/ \E t \in CronTurns : BeginCron(t)
    \/ \E t \in ChatTurns : BeginChat(t)

Access(t) ==
    \/ Resume(t) \/ ResolveCached(t) \/ ResolveList(t) \/ Insert(t) \/ Reread(t)
    \/ Ask(t) \/ AskBump(t) \/ RunAgent(t) \/ Answer(t) \/ AnswerBump(t)

DailyReset ==
    \/ ResetSelect
    \/ \E s \in SessionIds : ResetDelete(s)
    \/ ResetReturn

Next ==
    \/ Begin
    \/ \E t \in Turns : Access(t)
    \/ Midnight
    \/ DailyReset
    \/ KillDaemon
    \/ \E term \in Terminals : KillTerminal(term)

Spec == Init /\ [][Next]_vars

-----------------------------------------------------------------------------
(* Among the first n messages of a session m is the last of daemon turns.  *)
LastWord(log, n, m) ==
    \E j \in 1..n : log[j] = m /\ \A k \in (j + 1)..n : log[k].turn \notin DaemonTurns

(* Ids of cron sessions that a client addresses too.                       *)
Shared == Sessions \cap (CronTurns \X Attempts)

(* In a session no terminal made, the turns of the daemon do not mix: what *)
(* the daemon wrote last before an answer is the question of that answer,  *)
(* although the session may be deleted under a turn and made again with    *)
(* the same id by a later one.  Terminals bypass the lanes, and so do cron *)
(* jobs, so a session a cron job shares with a client is left out.         *)
TurnsAreSerial ==
    \A s \in SessionIds \ Shared :
        Exists(s) /\ rows[s].creator \in DaemonTurns =>
            \A i \in 1..Len(messages[s]) :
                LET said == messages[s][i] IN
                said.turn \in DaemonTurns /\ said.role = "assistant" =>
                    LastWord(messages[s], i - 1, [said EXCEPT !.role = "user"])

(* No message without its session: a turn that finds its session deleted   *)
(* fails instead of leaving text that no session owns.                     *)
NoOrphans == \A s \in SessionIds : messages[s] # <<>> => Exists(s)

(* A reset never deletes a session that was created on the day it deletes  *)
(* it, however long the deletions take.                                    *)
CreatedTodaySpared ==
    [][\A s \in SessionIds :
          Exists(s) /\ rows'[s] = None => rows[s].created < day]_vars

(* The inductive invariant of ConversationsProofs: only terminals resolve  *)
(* a session; no message is without its session; a row was created no      *)
(* later than it was updated, and that no later than today; what a reset   *)
(* still has to delete exists and was not created today.                   *)
RowsInv ==
    /\ \A s \in SessionIds : Exists(s) =>
          rows[s].created <= rows[s].updated /\ rows[s].updated <= day
    /\ \A s \in victims : Exists(s) /\ rows[s].created < day

ConversationsInv ==
    /\ TypeOK
    /\ \A t \in Turns : pc[t] \in {"cached", "list"} => t \in ChatTurns
    /\ NoOrphans
    /\ RowsInv

(* What TurnsAreSerial needs besides: a daemon turn at work is in its own  *)
(* session, alone of its lane, and while it is owed an answer its question *)
(* is what the daemon wrote last there, if the session is still there.     *)
Question(t) == [turn |-> t, attempt |-> attempt[t], role |-> "user"]

OwnInv ==
    \A t \in DaemonTurns : pc[t] \in Accesses =>
        IF t \in QueuedTurns THEN target[t] = SessionOf[t]
        ELSE target[t] \in {t} \X Attempts

LanesInv ==
    \A t \in QueuedTurns : \A u \in QueuedTurns \ {t} :
        pc[t] \in Accesses /\ pc[u] \in Accesses => SessionOf[t] # SessionOf[u]

AskedInv ==
    \A t \in DaemonTurns : pc[t] \in {"askBump", "agent", "answer"} =>
        LET s == target[t] IN
        Exists(s) /\ rows[s].creator \in DaemonTurns /\ s \notin Shared =>
            LastWord(messages[s], Len(messages[s]), Question(t))

SerialInv == TurnsAreSerial /\ OwnInv /\ LanesInv /\ AskedInv
=============================================================================
