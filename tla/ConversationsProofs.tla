------------------------ MODULE ConversationsProofs ------------------------
(***************************************************************************)
(* Proofs about Conversations for any turns, sessions and terminals and    *)
(* any number of days: types, no message without its session, the sessions *)
(* of today spared by the reset, and turns of the daemon that do not mix.  *)
(***************************************************************************)
EXTENDS Conversations, TLAPS

(* A terminal is started in a session or in none.                          *)
LEMMA OptionsAreSessions == SessionOption \subseteq SessionIds \cup {None}
  BY DEF SessionOption, SessionIds

LEMMA InitInv == Init => ConversationsInv
  <1> SUFFICES ASSUME Init PROVE ConversationsInv
    OBVIOUS
  <1>1. TypeOK
    <2>1. 0 \in Days /\ 1 \in Days /\ 1 \in Attempts /\ <<>> \in Seq(Message)
      BY DEF Days, Attempts
    <2>2. active \in [Terminals -> SessionIds \cup {None}]
      BY OptionsAreSessions DEF Init, InitExceptPc
    <2>3. QED
      BY <2>1, <2>2 DEF Init, InitExceptPc, TypeOK
  <1>2. QED
    BY <1>1 DEF Init, InitExceptPc, ConversationsInv, NoOrphans, RowsInv, Exists

LEMMA ExistingRow == TypeOK => \A s \in SessionIds : Exists(s) <=> rows[s] \in Row
  BY NoneIsNoRow DEF TypeOK, Exists

(* A step that moves one turn to an access of any kind of turn.            *)
LEMMA GotoKeeps ==
  ASSUME ConversationsInv, NEW t \in Turns, NEW step, Goto(t, step),
         step \in {"new", "ended"} \cup (Accesses \ {"cached", "list"})
  PROVE  /\ pc' \in [Turns -> {"new", "ended"} \cup Accesses]
         /\ \A u \in Turns : pc'[u] \in {"cached", "list"} => u \in ChatTurns
  BY DEF ConversationsInv, TypeOK, Goto, Accesses

LEMMA ChatEntryType ==
  ASSUME TypeOK, NEW t \in ChatTurns
  PROVE  /\ ChatEntry(TerminalOf[t]).step \in {"resume", "cached", "list"}
         /\ ChatEntry(TerminalOf[t]).session \in SessionIds \cup {None}
  <1>1. TerminalOf[t] \in Terminals
    BY TerminalOfAssumption
  <1>2. QED
    BY <1>1 DEF TypeOK, ChatEntry

(* The variables of the turns keep their types when a turn ends or starts  *)
(* over.                                                                   *)
TurnsInv ==
    /\ pc \in [Turns -> {"new", "ended"} \cup Accesses]
    /\ target \in [Turns -> SessionIds \cup {None}]
    /\ attempt \in [Turns -> Attempts]
    /\ \A u \in Turns : pc[u] \in {"cached", "list"} => u \in ChatTurns

LEMMA EndKeeps ==
  ASSUME ConversationsInv, NEW t \in Turns, End(t)
  PROVE  TurnsInv'
  BY GotoKeeps DEF ConversationsInv, TypeOK, TurnsInv, End, Attempts

LEMMA FailKeeps ==
  ASSUME ConversationsInv, NEW t \in Turns, Fail(t)
  PROVE  TurnsInv'
  <1>1. CASE t \in ChatTurns /\ attempt[t] = 1
    <2> DEFINE entry == ChatEntry(TerminalOf[t])
    <2>1. /\ attempt' = [attempt EXCEPT ![t] = 2]
          /\ target' = [target EXCEPT ![t] = entry.session]
          /\ pc' = [pc EXCEPT ![t] = entry.step]
      BY <1>1 DEF Fail, Goto
    <2>2. /\ entry.step \in {"resume", "cached", "list"}
          /\ entry.session \in SessionIds \cup {None}
      BY <1>1, ChatEntryType DEF ConversationsInv
    <2> HIDE DEF entry
    <2>3. entry.step \in Accesses
      BY <2>2 DEF Accesses
    <2>4. QED
      BY <1>1, <2>1, <2>2, <2>3 DEF ConversationsInv, TypeOK, TurnsInv, Attempts
  <1>2. CASE ~(t \in ChatTurns /\ attempt[t] = 1)
    BY <1>2, EndKeeps DEF Fail
  <1>3. QED
    BY <1>1, <1>2

(* Fresh is the id of a session when its turn makes up ids.                *)
LEMMA FreshType ==
  ASSUME TypeOK, NEW t \in CronTurns \cup ChatTurns
  PROVE  Fresh(t) \in SessionIds
  BY DEF TypeOK, Fresh, SessionIds, Turns

-----------------------------------------------------------------------------
(* The turns *)

LEMMA BeginPreserves == ConversationsInv /\ Begin => TurnsInv'
  <1> SUFFICES ASSUME ConversationsInv, Begin PROVE TurnsInv'
    OBVIOUS
  <1>1. ASSUME NEW t \in QueuedTurns, BeginQueued(t) PROVE TurnsInv'
    <2>1. t \in Turns /\ SessionOf[t] \in SessionIds
      BY SessionOfAssumption DEF Turns, SessionIds
    <2>2. QED
      BY <1>1, <2>1, GotoKeeps
         DEF ConversationsInv, TypeOK, TurnsInv, BeginQueued, Accesses
  <1>2. ASSUME NEW t \in CronTurns, BeginCron(t) PROVE TurnsInv'
    <2>1. t \in Turns /\ Fresh(t) \in SessionIds
      BY FreshType DEF Turns, ConversationsInv
    <2>2. QED
      BY <1>2, <2>1, GotoKeeps
         DEF ConversationsInv, TypeOK, TurnsInv, BeginCron, Accesses
  <1>3. ASSUME NEW t \in ChatTurns, BeginChat(t) PROVE TurnsInv'
    <2> DEFINE entry == ChatEntry(TerminalOf[t])
    <2>1. /\ t \in Turns
          /\ target' = [target EXCEPT ![t] = entry.session]
          /\ pc' = [pc EXCEPT ![t] = entry.step]
          /\ attempt' = attempt
      BY <1>3 DEF BeginChat, Goto, Turns
    <2>2. /\ entry.step \in {"resume", "cached", "list"}
          /\ entry.session \in SessionIds \cup {None}
      BY ChatEntryType DEF ConversationsInv
    <2> HIDE DEF entry
    <2>3. entry.step \in Accesses
      BY <2>2 DEF Accesses
    <2>4. QED
      BY <2>1, <2>2, <2>3 DEF ConversationsInv, TypeOK, TurnsInv
  <1>4. QED
    BY <1>1, <1>2, <1>3 DEF Begin

LEMMA AccessKeepsTurns ==
  ASSUME ConversationsInv, NEW t \in Turns, Access(t)
  PROVE  TurnsInv'
  <1>1. CASE Resume(t) \/ ResolveCached(t)
    <2>1. CASE Goto(t, "list")
      <3>1. t \in ChatTurns /\ target' = target /\ attempt' = attempt
        <4>1. CASE Resume(t)
          <5>1. pc' # [pc EXCEPT ![t] = "list"]
            BY <4>1 DEF Resume, Goto, ConversationsInv, TypeOK
          <5>2. QED
            BY <2>1, <5>1 DEF Goto
        <4>2. CASE ResolveCached(t)
          BY <4>2 DEF ResolveCached, ConversationsInv
        <4>3. QED
          BY <1>1, <4>1, <4>2
      <3>2. QED
        BY <2>1, <3>1 DEF Goto, ConversationsInv, TypeOK, TurnsInv, Accesses
    <2>2. CASE ~Goto(t, "list")
      BY <1>1, <2>2, GotoKeeps
         DEF Resume, ResolveCached, ConversationsInv, TypeOK, TurnsInv, Accesses
    <2>3. QED
      BY <2>1, <2>2
  <1>2. CASE ResolveList(t)
    <2>1. t \in ChatTurns /\ Fresh(t) \in SessionIds
      BY <1>2, FreshType DEF ResolveList, ConversationsInv
    <2>2. QED
      BY <1>2, <2>1, GotoKeeps, ZenonT(40) DEF ResolveList, ConversationsInv, TypeOK, TurnsInv, Accesses
  <1>3. CASE Insert(t) \/ Reread(t)
    BY <1>3, FailKeeps, GotoKeeps DEF Insert, Reread, ConversationsInv, TypeOK, TurnsInv, Accesses
  <1>4. CASE Ask(t) \/ Answer(t)
    BY <1>4, FailKeeps, GotoKeeps DEF Ask, Answer, Add, ConversationsInv, TypeOK, TurnsInv, Accesses
  <1>5. CASE AskBump(t) \/ RunAgent(t)
    BY <1>5, FailKeeps, GotoKeeps
       DEF AskBump, RunAgent, ConversationsInv, TypeOK, TurnsInv, Accesses
  <1>6. CASE AnswerBump(t)
    <2>1. CASE End(t)
      BY <2>1, EndKeeps
    <2>2. CASE ~End(t)
      <3>1. attempt' = [attempt EXCEPT ![t] = 2] /\ Goto(t, "resume") /\ target' = target
        BY <1>6, <2>2 DEF AnswerBump
      <3>2. QED
        BY <3>1, GotoKeeps DEF ConversationsInv, TypeOK, TurnsInv, Attempts, Accesses
    <2>3. QED
      BY <2>1, <2>2
  <1>7. QED
    BY <1>1, <1>2, <1>3, <1>4, <1>5, <1>6 DEF Access

-----------------------------------------------------------------------------
(* The tables *)

TablesInv == NoOrphans /\ RowsInv

LEMMA TablesKept ==
  ASSUME ConversationsInv, rows' = rows, messages' = messages, day' = day,
         victims' \subseteq victims
  PROVE  TablesInv'
  BY DEF ConversationsInv, TypeOK, TablesInv, NoOrphans, RowsInv, Exists

(* One message more in a session that exists.                              *)
LEMMA AddPreserves ==
  ASSUME ConversationsInv, NEW t \in Turns, NEW role \in {"user", "assistant"},
         NEW next, Add(t, role, next), rows' = rows, day' = day, victims' = victims
  PROVE  TablesInv' /\ messages' \in [SessionIds -> Seq(Message)]
  <1>1. CASE Exists(target[t])
    <2> DEFINE m == [turn |-> t, attempt |-> attempt[t], role |-> role]
    <2>1. m \in Message
      BY DEF Message, ConversationsInv, TypeOK
    <2>2. messages' = [messages EXCEPT ![target[t]] = Append(@, m)]
      BY <1>1 DEF Add
    <2> HIDE DEF m
    <2>3. messages' \in [SessionIds -> Seq(Message)]
      <3>1. messages \in [SessionIds -> Seq(Message)]
        BY DEF ConversationsInv, TypeOK
      <3>2. \A s \in SessionIds : Append(messages[s], m) \in Seq(Message)
        BY <2>1, <3>1
      <3>3. QED
        BY <2>2, <3>1, <3>2
    <2>4. \A s \in SessionIds : s # target[t] => messages'[s] = messages[s]
      BY <2>2 DEF ConversationsInv, TypeOK
    <2>5. NoOrphans'
      BY <1>1, <2>4 DEF ConversationsInv, NoOrphans, Exists
    <2>6. RowsInv'
      BY DEF ConversationsInv, RowsInv, Exists
    <2>7. QED
      BY <2>3, <2>5, <2>6 DEF TablesInv
  <1>2. CASE ~Exists(target[t])
    BY <1>2, TablesKept DEF Add, ConversationsInv, TypeOK
  <1>3. QED
    BY <1>1, <1>2

(* A row that is there or not gets today's date.                           *)
LEMMA BumpPreserves ==
  ASSUME ConversationsInv, NEW s, Bump(s), messages' = messages, day' = day,
         victims' = victims
  PROVE  /\ TablesInv' /\ rows' \in [SessionIds -> Row \cup {None}]
         /\ \A r \in SessionIds : Exists(r) => Exists(r)'
  <1>1. day \in Nat /\ rows \in [SessionIds -> Row \cup {None}] /\ victims \subseteq SessionIds
    BY DEF ConversationsInv, TypeOK, Days
  <1>2. CASE s \in SessionIds /\ Exists(s)
    <2>1. /\ rows[s] \in Row
          /\ [rows[s] EXCEPT !.updated = day] \in Row
          /\ [rows[s] EXCEPT !.updated = day].created = rows[s].created
          /\ [rows[s] EXCEPT !.updated = day].updated = day
          /\ rows[s].created \in Nat /\ rows[s].updated \in Nat
      BY <1>1, <1>2 DEF Row, Days, Exists
    <2>2. rows' = [rows EXCEPT ![s] = [rows[s] EXCEPT !.updated = day]]
      BY <1>2 DEF Bump
    <2>3. rows[s].created <= day
      BY <1>1, <1>2, <2>1 DEF ConversationsInv, RowsInv
    <2>4. \A r \in SessionIds : r # s => rows'[r] = rows[r]
      BY <1>1, <2>2
    <2>5. rows'[s] \in Row /\ rows'[s].created = rows[s].created /\ rows'[s].updated = day
      BY <1>1, <1>2, <2>1, <2>2
    <2>6. \A r \in SessionIds : Exists(r)' <=> Exists(r)
      BY <1>2, <2>4, <2>5, NoneIsNoRow DEF Exists
    <2>7. rows' \in [SessionIds -> Row \cup {None}]
      BY <1>1, <2>1, <2>2
    <2>8. NoOrphans'
      BY <2>6 DEF ConversationsInv, NoOrphans
    <2>9. \A r \in SessionIds : Exists(r)' =>
             rows'[r].created <= rows'[r].updated /\ rows'[r].updated <= day
      BY <1>1, <2>3, <2>4, <2>5, <2>6 DEF ConversationsInv, RowsInv
    <2>10. \A r \in victims : Exists(r)' /\ rows'[r].created < day
      BY <1>1, <2>4, <2>5, <2>6 DEF ConversationsInv, RowsInv
    <2>11. QED
      BY <2>6, <2>7, <2>8, <2>9, <2>10 DEF TablesInv, RowsInv
  <1>3. CASE ~(s \in SessionIds /\ Exists(s))
    <2>1. rows' = rows
      BY <1>1, <1>3 DEF Bump
    <2>2. QED
      BY <1>1, <2>1, TablesKept DEF Exists
  <1>4. QED
    BY <1>2, <1>3

LEMMA InsertPreserves ==
  ASSUME ConversationsInv, NEW t \in Turns, Insert(t)
  PROVE  /\ TablesInv' /\ rows' \in [SessionIds -> Row \cup {None}]
         /\ \A r \in SessionIds : Exists(r) => Exists(r)'
  <1>1. /\ day \in Nat /\ rows \in [SessionIds -> Row \cup {None}] /\ victims \subseteq SessionIds
        /\ day' = day /\ messages' = messages /\ victims' = victims
    BY DEF ConversationsInv, TypeOK, Days, Insert, resetVars
  <1>2. CASE Exists(target[t])
    BY <1>1, <1>2, TablesKept DEF Insert, Exists
  <1>3. CASE ~Exists(target[t])
    <2> DEFINE s == target[t]
               row == [created |-> day, updated |-> day, creator |-> t]
    <2>1. row \in Row /\ row.created = day /\ row.updated = day
      BY <1>1 DEF Row, Days
    <2>2. rows' = [rows EXCEPT ![s] = row]
      BY <1>3 DEF Insert
    <2> HIDE DEF row
    <2>3. \A r \in SessionIds : rows'[r] = IF r = s THEN row ELSE rows[r]
      BY <1>1, <2>2
    <2>4. rows' \in [SessionIds -> Row \cup {None}]
      BY <1>1, <2>1, <2>2
    <2>5. \A r \in SessionIds : Exists(r)' <=> (Exists(r) \/ r = s)
      BY <2>1, <2>3, NoneIsNoRow DEF Exists
    <2>6. NoOrphans'
      BY <1>1, <2>5 DEF ConversationsInv, NoOrphans
    <2>7. s \notin victims
      BY <1>3 DEF ConversationsInv, RowsInv
    <2>8. RowsInv'
      BY <1>1, <2>1, <2>3, <2>5, <2>7 DEF ConversationsInv, RowsInv
    <2>9. QED
      BY <2>4, <2>5, <2>6, <2>8 DEF TablesInv
  <1>4. QED
    BY <1>2, <1>3

-----------------------------------------------------------------------------
(* One lemma for each kind of step *)

LEMMA AccessPreserves ==
  ASSUME ConversationsInv, NEW t \in Turns, Access(t)
  PROVE  ConversationsInv' /\ \A r \in SessionIds : Exists(r) => Exists(r)'
  <1> USE DEF tables, terminalVars, resetVars
  <1>1. TurnsInv'
    BY AccessKeepsTurns
  <1>2. /\ day' = day /\ wake' = wake /\ victims' = victims /\ resetting' = resetting
    BY DEF Access, Resume, ResolveCached, ResolveList, Insert, Reread, Ask, AskBump, RunAgent,
           Answer, AnswerBump
  <1>3. active' \in [Terminals -> SessionIds \cup {None}]
    BY DEF ConversationsInv, TypeOK, Access, Resume, ResolveCached, ResolveList, Insert, Reread,
           Ask, AskBump, RunAgent, Answer, AnswerBump
  <1>4. cache' \in [Terminals -> SessionIds \cup {None}]
    BY DEF ConversationsInv, TypeOK, Access, Resume, ResolveCached, ResolveList, Insert, Reread,
           Ask, AskBump, RunAgent, Answer, AnswerBump
  <1>5. /\ TablesInv'
        /\ rows' \in [SessionIds -> Row \cup {None}]
        /\ messages' \in [SessionIds -> Seq(Message)]
        /\ \A r \in SessionIds : Exists(r) => Exists(r)'
    <2>1. CASE Resume(t) \/ ResolveCached(t) \/ ResolveList(t) \/ Reread(t) \/ RunAgent(t)
      <3>1. rows' = rows /\ messages' = messages
        BY <2>1 DEF Resume, ResolveCached, ResolveList, Reread, RunAgent
      <3>2. QED
        BY <1>2, <3>1, TablesKept DEF ConversationsInv, TypeOK, Exists
    <2>2. CASE Insert(t)
      BY <2>2, InsertPreserves DEF Insert, ConversationsInv, TypeOK
    <2>3. CASE Ask(t) \/ Answer(t)
      <3>1. rows' = rows /\ \E role \in {"user", "assistant"}, next \in Accesses : Add(t, role, next)
        BY <2>3 DEF Ask, Answer, Accesses
      <3>2. QED
        BY <1>2, <3>1, AddPreserves DEF ConversationsInv, TypeOK, Exists
    <2>4. CASE AskBump(t) \/ AnswerBump(t)
      <3>1. Bump(target[t]) /\ messages' = messages
        BY <2>4 DEF AskBump, AnswerBump
      <3>2. QED
        BY <1>2, <3>1, BumpPreserves DEF ConversationsInv, TypeOK
    <2>5. QED
      BY <2>1, <2>2, <2>3, <2>4 DEF Access
  <1>6. TypeOK'
    BY <1>1, <1>2, <1>3, <1>4, <1>5 DEF ConversationsInv, TypeOK, TurnsInv
  <1>7. QED
    BY <1>1, <1>5, <1>6 DEF ConversationsInv, TablesInv, TurnsInv

LEMMA ResetPreserves == ConversationsInv /\ DailyReset => ConversationsInv'
  <1> SUFFICES ASSUME ConversationsInv, DailyReset PROVE ConversationsInv'
    OBVIOUS
  <1> USE DEF tables, terminalVars, resetVars
  <1>1. /\ TypeOK /\ NoOrphans /\ RowsInv /\ day \in Nat
        /\ day' = day /\ pc' = pc /\ target' = target /\ attempt' = attempt
        /\ active' = active /\ cache' = cache
    BY DEF ConversationsInv, TypeOK, Days, DailyReset, ResetSelect, ResetDelete, ResetReturn
  <1>2. CASE ResetSelect
    <2>1. \A s \in SessionIds : NotUpdatedToday(s) => rows[s].created < day
      <3> SUFFICES ASSUME NEW s \in SessionIds, NotUpdatedToday(s) PROVE rows[s].created < day
        OBVIOUS
      <3>1. rows[s].created \in Nat /\ rows[s].updated \in Nat
        BY <1>1, ExistingRow DEF NotUpdatedToday, Row, Days
      <3>2. QED
        BY <1>1, <3>1 DEF NotUpdatedToday, RowsInv
    <2>2. RowsInv'
      BY <1>1, <1>2, <2>1 DEF ResetSelect, RowsInv, Exists, NotUpdatedToday
    <2>3. TypeOK'
      BY <1>1, <1>2 DEF ResetSelect, TypeOK
    <2>4. QED
      BY <1>1, <1>2, <2>2, <2>3 DEF ResetSelect, ConversationsInv, NoOrphans, Exists
  <1>3. ASSUME NEW s \in SessionIds, ResetDelete(s) PROVE ConversationsInv'
    <2>1. /\ rows' = [rows EXCEPT ![s] = None]
          /\ messages' = [messages EXCEPT ![s] = <<>>]
          /\ victims' = victims \ {s}
          /\ wake' = wake /\ resetting' = resetting
      BY <1>3 DEF ResetDelete
    <2>2. /\ rows'[s] = None /\ messages'[s] = <<>>
          /\ \A r \in SessionIds : r # s => rows'[r] = rows[r] /\ messages'[r] = messages[r]
      BY <1>1, <2>1 DEF TypeOK
    <2>3. <<>> \in Seq(Message)
      OBVIOUS
    <2>4. TypeOK'
      BY <1>1, <2>1, <2>3 DEF TypeOK
    <2>5. NoOrphans'
      BY <1>1, <2>2 DEF NoOrphans, Exists
    <2>6. RowsInv'
      BY <1>1, <2>1, <2>2 DEF TypeOK, RowsInv, Exists
    <2>7. QED
      BY <1>1, <2>4, <2>5, <2>6 DEF ConversationsInv
  <1>4. CASE ResetReturn
    <2>1. /\ rows' = rows /\ messages' = messages /\ victims' = victims
          /\ wake' = day + 1 /\ resetting' = FALSE
      BY <1>4 DEF ResetReturn
    <2>2. wake' \in Days
      BY <1>1, <2>1 DEF Days
    <2>3. TypeOK'
      BY <1>1, <2>1, <2>2 DEF TypeOK
    <2>4. QED
      BY <1>1, <2>1, <2>3 DEF ConversationsInv, NoOrphans, RowsInv, Exists
  <1>5. QED
    BY <1>2, <1>3, <1>4 DEF DailyReset

LEMMA KillPreserves ==
  ASSUME ConversationsInv, KillDaemon \/ \E term \in Terminals : KillTerminal(term)
  PROVE  ConversationsInv'
  <1> USE DEF tables, terminalVars, resetVars
  <1>1. /\ rows' = rows /\ messages' = messages /\ day' = day
        /\ victims' \subseteq victims /\ resetting' \in BOOLEAN /\ wake' \in Days
        /\ active' \in [Terminals -> SessionIds \cup {None}]
        /\ cache' \in [Terminals -> SessionIds \cup {None}]
    <2>1. TypeOK /\ day + 1 \in Days
      BY DEF ConversationsInv, TypeOK, Days
    <2>2. CASE KillDaemon
      BY <2>1, <2>2 DEF TypeOK, KillDaemon
    <2>3. ASSUME NEW term \in Terminals, KillTerminal(term)
          PROVE  /\ UNCHANGED <<rows, messages, day, victims, resetting, wake>>
                 /\ active' \in [Terminals -> SessionIds \cup {None}]
                 /\ cache' \in [Terminals -> SessionIds \cup {None}]
      <3>1. PICK s \in SessionIds \cup {None} : active' = [active EXCEPT ![term] = s]
        BY <2>3, OptionsAreSessions DEF KillTerminal
      <3>2. QED
        BY <2>1, <2>3, <3>1 DEF TypeOK, KillTerminal
    <2>4. QED
      BY <2>1, <2>2, <2>3 DEF TypeOK
  <1>2. PICK dead \in SUBSET Turns : EndAll(dead)
    BY DEF KillDaemon, KillTerminal, DaemonTurns, Turns
  <1>3. TurnsInv'
    BY <1>2 DEF ConversationsInv, TypeOK, TurnsInv, EndAll, Attempts
  <1>4. TypeOK'
    BY <1>1, <1>3 DEF ConversationsInv, TypeOK, TurnsInv
  <1>5. QED
    BY <1>1, <1>3, <1>4, TablesKept DEF ConversationsInv, TablesInv, TurnsInv

LEMMA NextPreserves == ConversationsInv /\ [Next]_vars => ConversationsInv'
  <1> SUFFICES ASSUME ConversationsInv, [Next]_vars PROVE ConversationsInv'
    OBVIOUS
  <1> USE DEF vars, tables, terminalVars, resetVars
  <1>1. CASE Begin
    <2>1. /\ rows' = rows /\ messages' = messages /\ day' = day /\ victims' = victims
          /\ active' = active /\ cache' = cache /\ wake' = wake /\ resetting' = resetting
      BY <1>1 DEF Begin, BeginQueued, BeginCron, BeginChat
    <2>2. TurnsInv'
      BY <1>1, BeginPreserves
    <2>3. TypeOK'
      BY <2>1, <2>2 DEF ConversationsInv, TypeOK, TurnsInv
    <2>4. QED
      BY <2>1, <2>2, <2>3, TablesKept DEF ConversationsInv, TablesInv, TurnsInv
  <1>2. ASSUME NEW t \in Turns, Access(t) PROVE ConversationsInv'
    BY <1>2, AccessPreserves
  <1>3. CASE Midnight
    <2>1. /\ day' = day + 1 /\ day \in Nat
          /\ UNCHANGED <<rows, messages, pc, target, attempt, active, cache, wake, victims, resetting>>
      BY <1>3 DEF Midnight, ConversationsInv, TypeOK, Days
    <2>2. \A s \in SessionIds : Exists(s) => rows[s].created \in Nat /\ rows[s].updated \in Nat
      BY ExistingRow DEF ConversationsInv, Row, Days
    <2>3. TypeOK'
      BY <2>1 DEF ConversationsInv, TypeOK, Days
    <2>4. RowsInv'
      BY <2>1, <2>2 DEF ConversationsInv, TypeOK, RowsInv, Exists
    <2>5. QED
      BY <2>1, <2>3, <2>4 DEF ConversationsInv, NoOrphans, Exists
  <1>4. CASE DailyReset
    BY <1>4, ResetPreserves
  <1>5. CASE KillDaemon \/ \E term \in Terminals : KillTerminal(term)
    BY <1>5, KillPreserves
  <1>6. CASE UNCHANGED vars
    BY <1>6 DEF ConversationsInv, TypeOK, NoOrphans, RowsInv, Exists
  <1>7. QED
    BY <1>1, <1>2, <1>3, <1>4, <1>5, <1>6 DEF Next

(* The inductive invariant holds in every reachable state.                 *)
THEOREM ConversationsInductive == Spec => []ConversationsInv
  BY InitInv, NextPreserves, PTL DEF Spec

(* Every variable keeps its type; in particular a turn that looks for its  *)
(* session always ends up with an id of one.                               *)
THEOREM ConversationsTypes == Spec => []TypeOK
  <1>1. ConversationsInv => TypeOK
    BY DEF ConversationsInv
  <1>2. QED
    BY <1>1, ConversationsInductive, PTL

(* No message is ever without its session, whenever the session of a turn  *)
(* is deleted and whichever process dies.                                  *)
THEOREM MessagesHaveSessions == Spec => []NoOrphans
  <1>1. ConversationsInv => NoOrphans
    BY DEF ConversationsInv
  <1>2. QED
    BY <1>1, ConversationsInductive, PTL

(* Only the reset removes a session, and what it removes was selected when *)
(* its date was past, and has not been made again since.                   *)
LEMMA DeletedIsOld ==
  ASSUME ConversationsInv, [Next]_vars, NEW s \in SessionIds, Exists(s), rows'[s] = None
  PROVE  rows[s].created < day
  <1> USE DEF vars, tables, terminalVars, resetVars
  <1>1. CASE UNCHANGED rows
    BY <1>1 DEF Exists
  <1>2. ASSUME NEW t \in Turns, Access(t) PROVE FALSE
    BY <1>2, AccessPreserves DEF Exists
  <1>3. ASSUME NEW r \in SessionIds, ResetDelete(r) PROVE rows[s].created < day
    <2>1. r = s
      BY <1>3 DEF ResetDelete, ConversationsInv, TypeOK, Exists
    <2>2. QED
      BY <1>3, <2>1 DEF ResetDelete, ConversationsInv, RowsInv
  <1>4. QED
    BY <1>1, <1>2, <1>3
       DEF Next, Begin, BeginQueued, BeginCron, BeginChat, Midnight, DailyReset, ResetSelect,
           ResetReturn, KillDaemon, KillTerminal

(* A session that was created today is never deleted by the reset, however *)
(* many midnights pass between its SELECT and its DELETEs.                 *)
THEOREM ResetSparesToday == Spec => CreatedTodaySpared
  <1>1. ConversationsInv /\ [Next]_vars =>
           [\A s \in SessionIds : Exists(s) /\ rows'[s] = None => rows[s].created < day]_vars
    BY DeletedIsOld
  <1>2. QED
    BY <1>1, ConversationsInductive, PTL DEF Spec, CreatedTodaySpared

-----------------------------------------------------------------------------
(* The turns of the daemon in a session *)

Asking == {"askBump", "agent", "answer"}

LEMMA LastWordIs ==
  ASSUME NEW log \in Seq(Message), NEW m \in Message
  PROVE  LET longer == Append(log, m) IN
         /\ Len(longer) = Len(log) + 1
         /\ longer[Len(log) + 1] = m
         /\ \A i \in 1..Len(log) : longer[i] = log[i]
         /\ \A n \in 0..Len(log) : \A q : LastWord(longer, n, q) <=> LastWord(log, n, q)
         /\ m.turn \in DaemonTurns => LastWord(longer, Len(longer), m)
         /\ m.turn \notin DaemonTurns => \A q :
               LastWord(log, Len(log), q) => LastWord(longer, Len(longer), q)
  <1> DEFINE longer == Append(log, m)
             n == Len(log)
  <1>1. n \in Nat /\ Len(longer) = n + 1 /\ longer[n + 1] = m
    OBVIOUS
  <1>2. \A i \in 1..n : longer[i] = log[i]
    OBVIOUS
  <1> HIDE DEF longer, n
  <1>3. ASSUME NEW k \in 0..n, NEW q PROVE LastWord(longer, k, q) <=> LastWord(log, k, q)
    <2>1. \A i \in 1..k : longer[i] = log[i]
      BY <1>1, <1>2
    <2>2. \A j \in 1..k : \A i \in (j + 1)..k : i \in 1..k
      BY <1>1
    <2>3. QED
      BY <2>1, <2>2 DEF LastWord
  <1>4. m.turn \in DaemonTurns => LastWord(longer, n + 1, m)
    <2>1. n + 1 \in 1..(n + 1) /\ (n + 1 + 1)..(n + 1) = {}
      BY <1>1
    <2>2. QED
      BY <1>1, <2>1 DEF LastWord
  <1>5. ASSUME m.turn \notin DaemonTurns, NEW q, LastWord(log, n, q)
        PROVE  LastWord(longer, n + 1, q)
    <2>1. PICK j \in 1..n : log[j] = q /\ \A k \in (j + 1)..n : log[k].turn \notin DaemonTurns
      BY <1>5 DEF LastWord
    <2>2. j \in 1..(n + 1) /\ longer[j] = q
      BY <1>1, <1>2, <2>1
    <2>3. ASSUME NEW k \in (j + 1)..(n + 1) PROVE longer[k].turn \notin DaemonTurns
      <3>1. CASE k = n + 1
        BY <1>1, <1>5, <3>1
      <3>2. CASE k # n + 1
        <4>1. k \in (j + 1)..n /\ k \in 1..n
          BY <1>1, <3>2
        <4>2. QED
          BY <1>2, <2>1, <4>1
      <3>3. QED
        BY <3>1, <3>2
    <2>4. QED
      BY <2>2, <2>3 DEF LastWord
  <1>6. QED
    BY <1>1, <1>2, <1>3, <1>4, <1>5 DEF longer, n

LEMMA InitSerial == Init => SerialInv
  <1> SUFFICES ASSUME Init PROVE SerialInv
    OBVIOUS
  <1>1. \A t \in Turns : pc[t] = "new"
    BY DEF Init
  <1>2. DaemonTurns \subseteq Turns /\ QueuedTurns \subseteq Turns
    BY DEF DaemonTurns, Turns
  <1>3. \A s \in SessionIds : ~Exists(s)
    BY DEF Init, InitExceptPc, Exists
  <1>4. "new" \notin Accesses
    BY DEF Accesses
  <1>5. QED
    BY <1>1, <1>2, <1>3, <1>4 DEF SerialInv, TurnsAreSerial, OwnInv, LanesInv, AskedInv

(* What an access of a turn changes of the turns.                          *)
LEMMA AccessMoves ==
  ASSUME ConversationsInv, NEW u \in Turns, Access(u)
  PROVE  /\ pc[u] \in Accesses
         /\ \A t \in Turns \ {u} : UNCHANGED <<pc[t], target[t], attempt[t]>>
         /\ u \in DaemonTurns => pc'[u] = "ended" \/ UNCHANGED <<target[u], attempt[u]>>
         /\ pc'[u] \in Asking /\ pc[u] \notin Asking =>
               pc[u] = "ask" /\ Add(u, "user", "askBump") /\ Exists(target[u])
  <1> USE DEF tables, terminalVars, resetVars
  <1>1. /\ pc \in [Turns -> {"new", "ended"} \cup Accesses]
        /\ target \in [Turns -> SessionIds \cup {None}]
        /\ attempt \in [Turns -> Attempts]
        /\ pc[u] \in {"cached", "list"} => u \in ChatTurns
    BY DEF ConversationsInv, TypeOK
  <1>2. u \in DaemonTurns => u \notin ChatTurns
    BY TurnsAssumption DEF DaemonTurns
  <1>3. ASSUME Fail(u)
        PROVE  /\ \A t \in Turns \ {u} : UNCHANGED <<pc[t], target[t], attempt[t]>>
               /\ u \in DaemonTurns => pc'[u] = "ended"
               /\ pc'[u] \notin Asking
    <2> DEFINE entry == ChatEntry(TerminalOf[u])
    <2>1. CASE u \in ChatTurns /\ attempt[u] = 1
      <3>1. /\ attempt' = [attempt EXCEPT ![u] = 2]
            /\ target' = [target EXCEPT ![u] = entry.session]
            /\ pc' = [pc EXCEPT ![u] = entry.step]
        BY <1>3, <2>1 DEF Fail, Goto
      <3>2. entry.step \in {"resume", "cached", "list"}
        BY <2>1, ChatEntryType DEF ConversationsInv
      <3> HIDE DEF entry
      <3>3. QED
        BY <1>1, <1>2, <2>1, <3>1, <3>2 DEF Asking
    <2>2. CASE End(u)
      BY <1>1, <2>2 DEF End, Goto, Asking
    <2>3. QED
      BY <1>3, <2>1, <2>2 DEF Fail
  <1>4. CASE Resume(u) \/ ResolveCached(u)
    BY <1>1, <1>4 DEF Resume, ResolveCached, Goto, Asking, Accesses
  <1>5. CASE ResolveList(u)
    <2>1. pc[u] = "list" /\ u \notin DaemonTurns
      BY <1>1, <1>2, <1>5 DEF ResolveList
    <2>2. \E step \in {"ask", "insert"} : \E s : Goto(u, step) /\ target' = [target EXCEPT ![u] = s]
      BY <1>5 DEF ResolveList
    <2>3. attempt' = attempt
      BY <1>5 DEF ResolveList
    <2>4. QED
      BY <1>1, <2>1, <2>2, <2>3 DEF Goto, Asking, Accesses
  <1>6. CASE Insert(u) \/ Reread(u)
    <2>1. CASE Fail(u)
      BY <1>3, <1>6, <2>1 DEF Insert, Reread, Accesses, Asking
    <2>2. CASE ~Fail(u)
      BY <1>1, <1>6, <2>2 DEF Insert, Reread, Goto, Accesses, Asking
    <2>3. QED
      BY <2>1, <2>2
  <1>7. CASE Ask(u) \/ Answer(u)
    <2>1. CASE Fail(u)
      BY <1>3, <1>7, <2>1 DEF Ask, Answer, Accesses, Asking
    <2>2. CASE ~Fail(u)
      BY <1>1, <1>7, <2>2 DEF Ask, Answer, Add, Goto, Accesses, Asking
    <2>3. QED
      BY <2>1, <2>2
  <1>8. CASE AskBump(u) \/ RunAgent(u)
    <2>1. CASE Fail(u)
      BY <1>3, <1>8, <2>1 DEF AskBump, RunAgent, Accesses, Asking
    <2>2. CASE ~Fail(u)
      BY <1>1, <1>8, <2>2 DEF AskBump, RunAgent, Goto, Accesses, Asking
    <2>3. QED
      BY <2>1, <2>2
  <1>9. CASE AnswerBump(u)
    <2>1. pc[u] \in Accesses
      BY <1>9 DEF AnswerBump, Accesses
    <2>2. \E step \in {"ended", "resume"} : \E s, n :
            /\ pc' = [pc EXCEPT ![u] = step]
            /\ target' = [target EXCEPT ![u] = s]
            /\ attempt' = [attempt EXCEPT ![u] = n]
            /\ step = "resume" => u \in ChatTurns
      <3>1. CASE End(u)
        BY <3>1 DEF End, Goto
      <3>2. CASE ~End(u)
        <4>1. target' = [target EXCEPT ![u] = target[u]]
          BY <1>1, <1>9, <3>2 DEF AnswerBump
        <4>2. QED
          BY <1>9, <3>2, <4>1 DEF AnswerBump, Goto
      <3>3. QED
        BY <3>1, <3>2
    <2>3. QED
      BY <1>1, <1>2, <2>1, <2>2 DEF Asking
  <1>10. QED
    BY <1>4, <1>5, <1>6, <1>7, <1>8, <1>9 DEF Access

(* Two turns of the daemon are at work in one session only if it is shared.*)
LEMMA AloneInSession ==
  ASSUME OwnInv, LanesInv, NEW t \in DaemonTurns, NEW u \in DaemonTurns \ {t},
         pc[t] \in Accesses, pc[u] \in Accesses, target[t] = target[u]
  PROVE  target[t] \in Shared
  <1>1. \A x \in DaemonTurns : x \in QueuedTurns \/ (x \in CronTurns /\ x \notin QueuedTurns)
    BY DEF DaemonTurns
  <1>2. CASE t \in QueuedTurns /\ u \in QueuedTurns
    BY <1>2 DEF OwnInv, LanesInv
  <1>3. CASE t \notin QueuedTurns /\ u \notin QueuedTurns
    BY <1>3 DEF OwnInv
  <1>4. ASSUME NEW q \in QueuedTurns, NEW c \in CronTurns, c \notin QueuedTurns,
               target[q] = SessionOf[q], target[c] \in {c} \X Attempts, target[q] = target[c]
        PROVE  target[q] \in Shared
    BY <1>4, SessionOfAssumption DEF Shared
  <1>5. QED
    BY <1>1, <1>2, <1>3, <1>4 DEF OwnInv

(* What a step that is no access changes of the turns: one may begin, or   *)
(* a process ends with its turns.                                          *)
LEMMA OtherMoves ==
  ASSUME ConversationsInv, [Next]_vars, ~\E u \in Turns : Access(u)
  PROVE  \/ \A t \in DaemonTurns : UNCHANGED <<pc[t], target[t], attempt[t]>>
         \/ \E dead \in SUBSET Turns : EndAll(dead) /\ UNCHANGED tables
         \/ \E u \in QueuedTurns : BeginQueued(u)
         \/ \E u \in CronTurns : BeginCron(u)
  <1> USE DEF vars, tables, terminalVars, resetVars
  <1>1. CASE \E u \in ChatTurns : BeginChat(u)
    <2>1. PICK u \in ChatTurns : BeginChat(u)
      BY <1>1
    <2>2. u \notin DaemonTurns /\ DaemonTurns \subseteq Turns
      BY TurnsAssumption DEF DaemonTurns, Turns
    <2>3. \E step, s : pc' = [pc EXCEPT ![u] = step] /\ target' = [target EXCEPT ![u] = s]
      BY <2>1 DEF BeginChat, Goto
    <2>4. attempt' = attempt
      BY <2>1 DEF BeginChat
    <2>5. QED
      BY <2>2, <2>3, <2>4 DEF ConversationsInv, TypeOK
  <1>2. CASE KillDaemon \/ \E term \in Terminals : KillTerminal(term)
    BY <1>2 DEF KillDaemon, KillTerminal, DaemonTurns, Turns
  <1>3. CASE DailyReset \/ Midnight \/ UNCHANGED vars
    BY <1>3 DEF DailyReset, ResetSelect, ResetDelete, ResetReturn, Midnight
  <1>4. QED
    BY <1>1, <1>2, <1>3 DEF Next, Begin

LEMMA OwnPreserves ==
  ASSUME ConversationsInv, OwnInv, LanesInv, [Next]_vars
  PROVE  OwnInv' /\ LanesInv'
  <1>1. /\ pc \in [Turns -> {"new", "ended"} \cup Accesses]
        /\ target \in [Turns -> SessionIds \cup {None}]
        /\ attempt \in [Turns -> Attempts]
        /\ DaemonTurns \subseteq Turns /\ QueuedTurns \subseteq DaemonTurns
        /\ "ended" \notin Accesses /\ "new" \notin Accesses
    BY DEF ConversationsInv, TypeOK, DaemonTurns, Turns, Accesses
  <1>2. ASSUME \A t \in DaemonTurns : pc'[t] \in Accesses =>
                  pc[t] \in Accesses /\ target'[t] = target[t]
        PROVE  OwnInv' /\ LanesInv'
    BY <1>1, <1>2 DEF OwnInv, LanesInv
  <1>3. ASSUME NEW u \in Turns, Access(u) PROVE OwnInv' /\ LanesInv'
    BY <1>1, <1>2, <1>3, AccessMoves
  <1>4. ASSUME NEW u \in QueuedTurns, BeginQueued(u) PROVE OwnInv' /\ LanesInv'
    <2>1. /\ pc' = [pc EXCEPT ![u] = "resume"]
          /\ target' = [target EXCEPT ![u] = SessionOf[u]]
          /\ \A t \in QueuedTurns \ {u} : SessionOf[t] = SessionOf[u] => pc[t] \notin Accesses
      BY <1>4 DEF BeginQueued, Goto, LaneFree
    <2>2. OwnInv'
      BY <1>1, <2>1 DEF OwnInv
    <2>3. LanesInv'
      BY <1>1, <2>1 DEF LanesInv
    <2>4. QED
      BY <2>2, <2>3
  <1>5. ASSUME NEW u \in CronTurns, BeginCron(u) PROVE OwnInv' /\ LanesInv'
    <2>1. /\ pc' = [pc EXCEPT ![u] = "insert"]
          /\ target' = [target EXCEPT ![u] = Fresh(u)]
      BY <1>5 DEF BeginCron, Goto
    <2>2. u \in Turns /\ u \notin QueuedTurns
      BY TurnsAssumption DEF Turns
    <2>3. Fresh(u) \in {u} \X Attempts
      BY <1>1, <2>2 DEF Fresh
    <2>4. OwnInv'
      BY <1>1, <2>1, <2>2, <2>3 DEF OwnInv
    <2>5. LanesInv'
      BY <1>1, <2>1, <2>2 DEF LanesInv
    <2>6. QED
      BY <2>4, <2>5
  <1>6. ASSUME NEW dead \in SUBSET Turns, EndAll(dead) PROVE OwnInv' /\ LanesInv'
    BY <1>1, <1>2, <1>6 DEF EndAll
  <1>7. ASSUME \A t \in DaemonTurns : UNCHANGED <<pc[t], target[t], attempt[t]>>
        PROVE  OwnInv' /\ LanesInv'
    BY <1>2, <1>7
  <1>8. QED
    BY <1>3, <1>4, <1>5, <1>6, <1>7, OtherMoves

(* What a step does to the sessions: it leaves one as it is, but for its   *)
(* date; or removes it; or a turn makes it, or adds a message to it.       *)
Kept(s) ==
    /\ messages'[s] = messages[s]
    /\ Exists(s)' => Exists(s) /\ rows'[s].creator = rows[s].creator

Made(s) ==
    \E u \in Turns : /\ pc[u] = "insert" /\ target[u] = s /\ Insert(u) /\ Exists(s)'
                     /\ rows'[s].creator = u /\ messages'[s] = <<>>

Added(s) ==
    \E u \in Turns, role \in {"user", "assistant"}, next \in {"askBump", "answerBump"} :
        /\ target[u] = s /\ Exists(s) /\ Add(u, role, next)
        /\ role = "user" => pc[u] = "ask" /\ next = "askBump"
        /\ role = "assistant" => pc[u] = "answer" /\ next = "answerBump"
        /\ Access(u) /\ rows' = rows

LEMMA SessionMoves ==
  ASSUME ConversationsInv, [Next]_vars, NEW s \in SessionIds
  PROVE  Kept(s) \/ ~Exists(s)' \/ Made(s) \/ Added(s)
  <1> USE DEF vars, tables, terminalVars, resetVars
  <1>1. /\ rows \in [SessionIds -> Row \cup {None}]
        /\ messages \in [SessionIds -> Seq(Message)]
    BY DEF ConversationsInv, TypeOK
  <1>2. ASSUME UNCHANGED <<rows, messages>> PROVE Kept(s)
    BY <1>2 DEF Kept, Exists
  <1>3. ASSUME NEW u \in Turns, Insert(u), ~Exists(target[u])
        PROVE  Kept(s) \/ Made(s)
    <2> DEFINE row == [created |-> day, updated |-> day, creator |-> u]
    <2>1. rows' = [rows EXCEPT ![target[u]] = row] /\ messages' = messages /\ pc[u] = "insert"
      BY <1>3 DEF Insert
    <2>2. row \in Row /\ row.creator = u
      BY DEF Row, ConversationsInv, TypeOK
    <2> HIDE DEF row
    <2>3. CASE s = target[u]
      <3>1. rows'[s] = row /\ Exists(s)' /\ messages'[s] = <<>>
        BY <1>1, <1>3, <2>1, <2>2, <2>3, NoneIsNoRow DEF Exists, ConversationsInv, NoOrphans
      <3>2. QED
        BY <1>3, <2>1, <2>2, <2>3, <3>1 DEF Made
    <2>4. CASE s # target[u]
      BY <1>1, <2>1, <2>4 DEF Kept, Exists
    <2>5. QED
      BY <2>3, <2>4
  <1>4. ASSUME NEW u \in Turns, Bump(target[u]), messages' = messages PROVE Kept(s)
    <2>1. Exists(s)' => Exists(s) /\ rows'[s].creator = rows[s].creator
      <3>1. CASE Exists(target[u]) /\ target[u] = s
        <4>1. rows'[s] = [rows[s] EXCEPT !.updated = day] /\ rows[s] \in Row
          BY <1>1, <1>4, <3>1 DEF Bump, Exists
        <4>2. QED
          BY <3>1, <4>1 DEF Row
      <3>2. CASE ~(Exists(target[u]) /\ target[u] = s)
        BY <1>1, <1>4, <3>2 DEF Bump, Exists
      <3>3. QED
        BY <3>1, <3>2
    <2>2. QED
      BY <1>4, <2>1 DEF Kept
  <1>5. ASSUME NEW u \in Turns, Ask(u) \/ Answer(u), Exists(target[u])
        PROVE  Kept(s) \/ Added(s)
    <2>1. CASE target[u] = s
      BY <1>5, <2>1 DEF Ask, Answer, Added, Access
    <2>2. CASE target[u] # s
      <3>1. messages'[s] = messages[s] /\ rows' = rows
        BY <1>1, <1>5, <2>2 DEF Ask, Answer, Add
      <3>2. QED
        BY <3>1 DEF Kept, Exists
    <2>3. QED
      BY <2>1, <2>2
  <1>6. ASSUME NEW u \in Turns, Access(u) PROVE Kept(s) \/ Made(s) \/ Added(s)
    <2>1. CASE Insert(u)
      BY <1>2, <1>3, <2>1 DEF Insert
    <2>2. CASE Ask(u) \/ Answer(u)
      BY <1>2, <1>5, <2>2 DEF Ask, Answer, Add
    <2>3. CASE AskBump(u) \/ AnswerBump(u)
      BY <1>4, <2>3 DEF AskBump, AnswerBump
    <2>4. CASE Resume(u) \/ ResolveCached(u) \/ ResolveList(u) \/ Reread(u) \/ RunAgent(u)
      BY <1>2, <2>4 DEF Resume, ResolveCached, ResolveList, Reread, RunAgent
    <2>5. QED
      BY <1>6, <2>1, <2>2, <2>3, <2>4 DEF Access
  <1>7. ASSUME NEW r \in SessionIds, ResetDelete(r) PROVE Kept(s) \/ ~Exists(s)'
    BY <1>1, <1>7 DEF ResetDelete, Kept, Exists
  <1>8. QED
    BY <1>2, <1>6, <1>7 DEF Next, Begin, BeginQueued, BeginCron, BeginChat, Midnight, DailyReset,
       ResetSelect, ResetReturn, KillDaemon, KillTerminal

(* The messages after Added(s).                                            *)
LEMMA AddedIs ==
  ASSUME ConversationsInv, NEW s \in SessionIds, NEW u \in Turns,
         NEW role \in {"user", "assistant"}, NEW next, target[u] = s, Exists(s),
         Add(u, role, next), NEW m, m = [turn |-> u, attempt |-> attempt[u], role |-> role]
  PROVE  /\ m \in Message /\ messages[s] \in Seq(Message)
         /\ messages'[s] = Append(messages[s], m)
         /\ pc'[u] = next
  BY DEF ConversationsInv, TypeOK, Message, Add, Goto

(* A turn that is owed an answer stays where it is, or has just asked.     *)
LEMMA AskingMoves ==
  ASSUME ConversationsInv, OwnInv, [Next]_vars, NEW t \in DaemonTurns, pc'[t] \in Asking
  PROVE  /\ target'[t] = target[t] /\ attempt'[t] = attempt[t] /\ target[t] \in SessionIds
         /\ pc[t] \in Accesses
         /\ pc[t] \notin Asking => Add(t, "user", "askBump") /\ Exists(target[t]) /\ rows' = rows
  <1>1. t \in Turns /\ Asking \subseteq Accesses /\ pc \in [Turns -> {"new", "ended"} \cup Accesses]
        /\ \A x \in Asking : x \notin {"ended", "new", "resume", "insert", "ask"}
    BY DEF ConversationsInv, TypeOK, DaemonTurns, Turns, Asking, Accesses
  <1>2. ASSUME pc[t] \in Accesses PROVE target[t] \in SessionIds
    BY <1>1, <1>2, SessionOfAssumption DEF OwnInv, SessionIds, DaemonTurns
  <1>3. ASSUME NEW u \in Turns, Access(u)
        PROVE  /\ target'[t] = target[t] /\ attempt'[t] = attempt[t] /\ pc[t] \in Accesses
               /\ pc[t] \notin Asking =>
                     Add(t, "user", "askBump") /\ Exists(target[t]) /\ rows' = rows
    <2>1. CASE u = t
      <3>1. pc[t] = "ask" => rows' = rows
        BY <1>3, <2>1 DEF Access, Resume, ResolveCached, ResolveList, Insert, Reread, Ask,
           AskBump, RunAgent, Answer, AnswerBump, tables
      <3>2. QED
        BY <1>1, <1>3, <2>1, <3>1, AccessMoves
    <2>2. CASE u # t
      BY <1>1, <1>3, <2>2, AccessMoves
    <2>3. QED
      BY <2>1, <2>2
  <1>4. CASE \E u \in Turns : Access(u)
    BY <1>2, <1>3, <1>4
  <1>5. CASE ~\E u \in Turns : Access(u)
    <2>1. ASSUME NEW dead \in SUBSET Turns, EndAll(dead)
          PROVE  UNCHANGED <<pc[t], target[t], attempt[t]>>
      BY <1>1, <2>1 DEF EndAll, ConversationsInv, TypeOK
    <2>2. ASSUME NEW u \in QueuedTurns \cup CronTurns, BeginQueued(u) \/ BeginCron(u)
          PROVE  UNCHANGED <<pc[t], target[t], attempt[t]>>
      BY <1>1, <2>2 DEF BeginQueued, BeginCron, Goto, ConversationsInv, TypeOK
    <2>3. UNCHANGED <<pc[t], target[t], attempt[t]>>
      BY <1>5, <2>1, <2>2, OtherMoves
    <2>4. QED
      BY <1>1, <1>2, <2>3
  <1>6. QED
    BY <1>4, <1>5

LEMMA AskedPreserves ==
  ASSUME ConversationsInv, SerialInv, [Next]_vars PROVE AskedInv'
  <1> SUFFICES ASSUME NEW t \in DaemonTurns, pc'[t] \in Asking,
                      rows'[target'[t]] # None, rows'[target'[t]].creator \in DaemonTurns,
                      target'[t] \notin Shared
               PROVE  LastWord(messages'[target'[t]], Len(messages'[target'[t]]), Question(t)')
    BY DEF AskedInv, Asking, Exists
  <1>1. PICK s \in SessionIds : s = target[t] /\ s = target'[t]
    BY AskingMoves DEF SerialInv
  <1>2. /\ target'[t] = s /\ Question(t)' = Question(t) /\ s \in SessionIds
        /\ t \in Turns /\ pc[t] \in Accesses /\ s = target[t] /\ Exists(s)'
    BY <1>1, AskingMoves DEF SerialInv, Question, DaemonTurns, Turns, Exists
  <1>3. CASE pc[t] \notin Asking
    <2>1. s = target[t] /\ Exists(s) /\ Add(t, "user", "askBump")
      BY <1>2, <1>3, AskingMoves DEF SerialInv
    <2>2. Question(t) \in Message /\ messages[s] \in Seq(Message)
          /\ messages'[s] = Append(messages[s], Question(t))
      BY <1>2, <2>1, AddedIs DEF Question
    <2>3. Question(t).turn \in DaemonTurns
      BY DEF Question
    <2>4. QED
      BY <1>2, <2>2, <2>3, LastWordIs
  <1>4. CASE pc[t] \in Asking
    <2>1. ASSUME NEW u \in DaemonTurns \ {t}, pc[u] \in Accesses, target[u] = s PROVE FALSE
      BY <1>2, <2>1, AloneInSession DEF SerialInv
    <2>2. ASSUME Exists(s), rows[s].creator \in DaemonTurns
          PROVE  LastWord(messages[s], Len(messages[s]), Question(t))
      BY <1>2, <1>4, <2>2 DEF SerialInv, AskedInv, Asking
    <2>3. CASE Kept(s)
      BY <1>2, <2>2, <2>3 DEF Kept
    <2>4. CASE Made(s)
      <3>1. PICK u \in Turns : pc[u] = "insert" /\ target[u] = s /\ rows'[s].creator = u
        BY <2>4 DEF Made
      <3>2. u # t /\ u \in DaemonTurns /\ pc[u] \in Accesses
        BY <1>2, <1>4, <3>1 DEF Asking, Accesses
      <3>3. QED
        BY <2>1, <3>1, <3>2
    <2>5. CASE Added(s)
      <3>1. PICK u \in Turns, role \in {"user", "assistant"}, next \in {"askBump", "answerBump"} :
              /\ target[u] = s /\ Exists(s) /\ Add(u, role, next)
              /\ role = "user" => pc[u] = "ask" /\ next = "askBump"
              /\ role = "assistant" => pc[u] = "answer" /\ next = "answerBump"
              /\ rows' = rows
        BY <2>5 DEF Added
      <3> DEFINE m == [turn |-> u, attempt |-> attempt[u], role |-> role]
      <3>2. m \in Message /\ m.turn = u /\ messages[s] \in Seq(Message)
            /\ messages'[s] = Append(messages[s], m) /\ pc'[u] = next
        BY <1>2, <3>1, AddedIs
      <3> HIDE DEF m
      <3>3. u # t
        BY <1>4, <3>1, <3>2 DEF Asking
      <3>4. pc[u] \in Accesses
        BY <3>1 DEF Accesses
      <3>5. u \notin DaemonTurns
        BY <2>1, <3>1, <3>3, <3>4
      <3>6. LastWord(messages[s], Len(messages[s]), Question(t))
        BY <1>2, <2>2, <3>1
      <3>7. QED
        BY <1>2, <3>2, <3>5, <3>6, LastWordIs
    <2>6. QED
      BY <1>2, <2>3, <2>4, <2>5, SessionMoves
  <1>5. QED
    BY <1>3, <1>4

LEMMA SerialPreserves ==
  ASSUME ConversationsInv, SerialInv, [Next]_vars PROVE TurnsAreSerial'
  <1> SUFFICES ASSUME NEW s \in SessionIds \ Shared, Exists(s)',
                      rows'[s].creator \in DaemonTurns, NEW i \in 1..Len(messages'[s]),
                      messages'[s][i].turn \in DaemonTurns, messages'[s][i].role = "assistant"
               PROVE  LastWord(messages'[s], i - 1, [messages'[s][i] EXCEPT !.role = "user"])
    BY DEF TurnsAreSerial, Exists
  <1>1. ASSUME Exists(s), rows[s].creator \in DaemonTurns, NEW j \in 1..Len(messages[s]),
               messages[s][j].turn \in DaemonTurns, messages[s][j].role = "assistant"
        PROVE  LastWord(messages[s], j - 1, [messages[s][j] EXCEPT !.role = "user"])
    BY <1>1 DEF SerialInv, TurnsAreSerial
  <1>2. CASE Kept(s)
    BY <1>1, <1>2 DEF Kept
  <1>3. CASE Made(s)
    <2>1. messages'[s] = <<>>
      BY <1>3 DEF Made
    <2>2. QED
      BY <2>1
  <1>4. CASE Added(s)
    <2>1. PICK u \in Turns, role \in {"user", "assistant"}, next \in {"askBump", "answerBump"} :
            /\ target[u] = s /\ Exists(s) /\ Add(u, role, next)
            /\ role = "assistant" => pc[u] = "answer"
            /\ rows' = rows
      BY <1>4 DEF Added
    <2> DEFINE m == [turn |-> u, attempt |-> attempt[u], role |-> role]
               n == Len(messages[s])
    <2>2. m \in Message /\ messages[s] \in Seq(Message) /\ messages'[s] = Append(messages[s], m)
      BY <2>1, AddedIs
    <2>3. m.turn = u /\ m.role = role /\ [m EXCEPT !.role = "user"] = Question(u)
      BY DEF Question
    <2> HIDE DEF m
    <2>4. /\ n \in Nat /\ i \in 1..(n + 1)
          /\ messages'[s][n + 1] = m
          /\ \A j \in 1..n : messages'[s][j] = messages[s][j]
      BY <2>2, LastWordIs
    <2>5. \A k \in 0..n : \A q : LastWord(messages[s], k, q) => LastWord(messages'[s], k, q)
      BY <2>2, LastWordIs
    <2> HIDE DEF n
    <2>6. CASE i = n + 1
      <3>1. u \in DaemonTurns /\ pc[u] = "answer"
        BY <2>1, <2>3, <2>4, <2>6
      <3>2. LastWord(messages[s], n, Question(u))
        BY <2>1, <3>1 DEF SerialInv, AskedInv, n
      <3>3. n \in 0..n /\ i - 1 = n
        BY <2>4, <2>6
      <3>4. QED
        BY <2>3, <2>4, <2>5, <2>6, <3>2, <3>3
    <2>7. CASE i # n + 1
      <3>1. i \in 1..n /\ i - 1 \in 0..n /\ messages'[s][i] = messages[s][i]
        BY <2>4, <2>7
      <3>2. LastWord(messages[s], i - 1, [messages[s][i] EXCEPT !.role = "user"])
        BY <1>1, <2>1, <3>1 DEF n
      <3>3. QED
        BY <2>5, <3>1, <3>2
    <2>8. QED
      BY <2>6, <2>7
  <1>5. QED
    BY <1>2, <1>3, <1>4, SessionMoves

(* The turns of the daemon never mix in a session no terminal made: every  *)
(* answer follows its own question, whatever turns, resets and deaths of   *)
(* processes come between the two.                                         *)
THEOREM TurnsStaySerial == Spec => []TurnsAreSerial
  <1>1. ConversationsInv /\ SerialInv /\ [Next]_vars => SerialInv'
    BY OwnPreserves, AskedPreserves, SerialPreserves DEF SerialInv
  <1>2. SerialInv => TurnsAreSerial
    BY DEF SerialInv
  <1>3. QED
    BY <1>1, <1>2, InitSerial, ConversationsInductive, PTL DEF Spec
=============================================================================
