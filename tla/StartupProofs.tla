---------------------------- MODULE StartupProofs ----------------------------
(***************************************************************************)
(* Proofs about Storage and Daemon, for any processes and any list of      *)
(* migrations in which a statement that cannot be repeated occurs once:    *)
(* whoever is let in finds the whole schema, and a start fails only over a *)
(* migration that was cut short or ran twice at once; with the daemons     *)
(* around it the database is the same, and commands that wait for each     *)
(* other keep track of the daemon.                                         *)
(***************************************************************************)
EXTENDS Daemon, TLAPS

(* Storage *)

LEMMA VersionIsNat == CURRENT_VERSION \in Nat
  BY MigrationsAssumption DEF CURRENT_VERSION

LEMMA MigrationTypes ==
  \A v \in 1..CURRENT_VERSION :
     /\ Migrations[v] \in Seq(Statement)
     /\ Len(Migrations[v]) \in Nat
     /\ DOMAIN Migrations[v] = 1..Len(Migrations[v])
     /\ \A i \in 1..Len(Migrations[v]) : Migrations[v][i] \in Statement
  BY MigrationsAssumption DEF CURRENT_VERSION

(* The versions in the table are the first ones, and complete; so is what  *)
(* a process that migrates has behind it.                                  *)
LEMMA CurrentVersionIs ==
  ASSUME SchemaInv
  PROVE  /\ CurrentVersion \in 0..CURRENT_VERSION
         /\ versions = 1..CurrentVersion
  <1>1. PICK n \in 0..CURRENT_VERSION : versions = 1..n
    BY DEF SchemaInv
  <1>2. CASE n = 0
    BY <1>1, <1>2, VersionIsNat DEF CurrentVersion
  <1>3. CASE n # 0
    <2>1. n \in versions /\ \A w \in versions : w <= n
      BY <1>1, <1>3, VersionIsNat
    <2>2. CurrentVersion \in versions /\ \A w \in versions : w <= CurrentVersion
      BY <2>1 DEF CurrentVersion
    <2>3. CurrentVersion = n
      BY <1>1, <2>1, <2>2, VersionIsNat
    <2>4. QED
      BY <1>1, <2>3
  <1>4. QED
    BY <1>2, <1>3

LEMMA InitSchema == DbInit => SchemaInv
  <1> SUFFICES ASSUME DbInit PROVE SchemaInv
    OBVIOUS
  <1>1. 0 \in 0..CURRENT_VERSION /\ {} = 1..0
    BY VersionIsNat
  <1>2. DbTypeOK
    BY DEF DbInit, DbTypeOK, Conn, Closed
  <1>3. QED
    BY <1>1, <1>2 DEF DbInit, SchemaInv, Behind, Closed

(* A step that moves one process and leaves the rest of the database as it *)
(* is, or more complete.                                                   *)
LEMMA OthersKept ==
  ASSUME SchemaInv, NEW p \in Process, NEW q \in Process, q # p,
         conn' = [conn EXCEPT ![p] = conn'[p]],
         applied \subseteq applied', versions \subseteq versions',
         versions' \subseteq 1..CURRENT_VERSION
  PROVE  Behind(q)'
  BY DEF SchemaInv, DbTypeOK, Behind, Steps

-----------------------------------------------------------------------------
(* One lemma per step *)

LEMMA ReadVersionSchema == ASSUME SchemaInv, NEW p \in Process, ReadVersion(p) PROVE SchemaInv'
  <1> DEFINE n == CurrentVersion
             c == [pc |-> IF n >= CURRENT_VERSION THEN "open" ELSE "migrating",
                   version |-> n + 1, next |-> 1]
  <1>1. n \in 0..CURRENT_VERSION /\ versions = 1..n
    BY CurrentVersionIs
  <1>2. conn' = [conn EXCEPT ![p] = c] /\ applied' = applied /\ versions' = versions
    BY DEF ReadVersion
  <1> HIDE DEF n
  <1>3. c \in Conn
    BY <1>1, VersionIsNat DEF Conn
  <1>4. DbTypeOK'
    BY <1>2, <1>3 DEF SchemaInv, DbTypeOK, ReadVersion
  <1>5. conn'[p] = c
    BY <1>2 DEF SchemaInv, DbTypeOK
  <1>6. Behind(p)'
    <2>1. CASE n >= CURRENT_VERSION
      BY <1>1, <1>2, <1>5, <2>1, VersionIsNat DEF Behind
    <2>2. CASE ~(n >= CURRENT_VERSION)
      <3>1. n + 1 \in 1..CURRENT_VERSION /\ (n + 1) - 1 = n
        BY <1>1, <2>2, VersionIsNat
      <3>2. 1 \in 1..(Len(Migrations[n + 1]) + 1)
        BY <3>1, MigrationTypes
      <3>3. /\ conn'[p].pc = "migrating" /\ conn'[p].version = n + 1 /\ conn'[p].next = 1
            /\ 1..(1 - 1) = {}
        BY <1>5, <2>2
      <3>4. QED
        BY <1>1, <1>2, <3>1, <3>2, <3>3 DEF Behind, Steps
    <2>3. QED
      BY <2>1, <2>2
  <1>7. \A q \in Process : Behind(q)'
    BY <1>2, <1>5, <1>6, OthersKept DEF SchemaInv, DbTypeOK
  <1>8. QED
    BY <1>2, <1>4, <1>7 DEF SchemaInv, Complete

LEMMA ApplySchema == ASSUME SchemaInv, NEW p \in Process, Apply(p) PROVE SchemaInv'
  <1> DEFINE v == conn[p].version
             k == conn[p].next
             s == Steps(p)[k]
  <1>1. /\ v \in 1..CURRENT_VERSION /\ 1..(v - 1) \subseteq versions
        /\ k \in 1..Len(Steps(p)) /\ k \in Nat /\ s \in Statement
        /\ \A i \in 1..(k - 1) : Steps(p)[i] \in applied
    BY MigrationTypes DEF Apply, SchemaInv, Behind, Steps
  <1>2. applied' = applied \cup {s} /\ versions' = versions /\ disturbed' = disturbed
    BY DEF Apply
  <1>3. \/ conn' = [conn EXCEPT ![p].pc = "failed"]
        \/ conn' = [conn EXCEPT ![p].next = k + 1]
    BY DEF Apply
  <1>4. DbTypeOK'
    <2>1. conn' \in [Process -> Conn]
      BY <1>1, <1>3 DEF SchemaInv, DbTypeOK, Conn
    <2>2. QED
      BY <1>1, <1>2, <2>1 DEF SchemaInv, DbTypeOK
  <1>5. Behind(p)'
    <2>1. CASE conn' = [conn EXCEPT ![p].pc = "failed"]
      BY <2>1 DEF SchemaInv, DbTypeOK, Conn, Behind
    <2>2. CASE conn' = [conn EXCEPT ![p].next = k + 1]
      <3>1. conn'[p].next = k + 1 /\ conn'[p].version = v /\ conn'[p].pc = "migrating"
        BY <2>2 DEF SchemaInv, DbTypeOK, Conn, Apply
      <3>2. k + 1 \in 1..(Len(Steps(p)) + 1)
        BY <1>1, MigrationTypes DEF Steps
      <3>3. \A i \in 1..((k + 1) - 1) : Steps(p)[i] \in applied'
        BY <1>1, <1>2
      <3>4. QED
        BY <1>1, <1>2, <3>1, <3>2, <3>3 DEF Behind, Steps
    <2>3. QED
      BY <1>3, <2>1, <2>2
  <1>6. conn' = [conn EXCEPT ![p] = conn'[p]]
    BY <1>3 DEF SchemaInv, DbTypeOK
  <1>7. \A q \in Process : Behind(q)'
    BY <1>2, <1>5, <1>6, OthersKept DEF SchemaInv, DbTypeOK
  <1>8. QED
    BY <1>2, <1>4, <1>7 DEF SchemaInv, Complete

LEMMA RecordSchema == ASSUME SchemaInv, NEW p \in Process, Record(p) PROVE SchemaInv'
  <1> DEFINE v == conn[p].version
  <1>1. /\ v \in 1..CURRENT_VERSION /\ 1..(v - 1) \subseteq versions
        /\ conn[p].next > Len(Steps(p))
        /\ \A i \in 1..(conn[p].next - 1) : Steps(p)[i] \in applied
        /\ conn[p].next \in 1..(Len(Steps(p)) + 1)
    BY DEF Record, Done, SchemaInv, Behind
  <1>2. /\ applied' = applied /\ versions' = versions \cup {v} /\ disturbed' = disturbed
    BY DEF Record
  <1>3. \/ v \in versions /\ conn' = [conn EXCEPT ![p].pc = "failed"]
        \/ v = CURRENT_VERSION /\ conn' = [conn EXCEPT ![p].pc = "open"]
        \/ v # CURRENT_VERSION /\ conn' = [conn EXCEPT ![p].version = v + 1, ![p].next = 1]
    BY DEF Record
  <1>4. \E n \in 0..CURRENT_VERSION : versions' = 1..n /\ v <= n
    <2>1. PICK n \in 0..CURRENT_VERSION : versions = 1..n
      BY DEF SchemaInv
    <2>2. CASE v <= n
      BY <1>1, <1>2, <2>1, <2>2, VersionIsNat
    <2>3. CASE v > n
      <3>1. v = n + 1
        <4>1. v - 1 \in 1..n \/ v = 1
          BY <1>1, <2>1
        <4>2. QED
          BY <1>1, <2>1, <2>3, <4>1
      <3>2. versions' = 1..v
        BY <1>1, <1>2, <2>1, <3>1
      <3>3. QED
        BY <1>1, <3>2, VersionIsNat
    <2>4. QED
      BY <1>1, <2>1, <2>2, <2>3, VersionIsNat
  <1>5. Complete(v)
    <2>1. \A i \in 1..Len(Steps(p)) : i \in 1..(conn[p].next - 1)
      BY <1>1, MigrationTypes DEF Steps
    <2>2. QED
      BY <1>1, <2>1, MigrationTypes DEF Complete, Steps
  <1>6. DbTypeOK'
    <2>1. conn' \in [Process -> Conn]
      <3>1. /\ conn \in [Process -> Conn] /\ v + 1 \in Nat
            /\ v # CURRENT_VERSION => v + 1 \in 1..CURRENT_VERSION
        BY <1>1, VersionIsNat DEF SchemaInv, DbTypeOK
      <3>2. QED
        BY <1>3, <3>1, SMTT(30) DEF Conn
    <2>2. QED
      BY <1>1, <1>2, <2>1 DEF SchemaInv, DbTypeOK
  <1>7. Behind(p)'
    <2>1. CASE v \in versions /\ conn' = [conn EXCEPT ![p].pc = "failed"]
      BY <2>1 DEF SchemaInv, DbTypeOK, Conn, Behind
    <2>2. CASE v = CURRENT_VERSION /\ conn' = [conn EXCEPT ![p].pc = "open"]
      <3>1. conn'[p].pc = "open"
        BY <2>2 DEF SchemaInv, DbTypeOK, Conn
      <3>2. versions' = 1..CURRENT_VERSION
        BY <1>4, <2>2, VersionIsNat
      <3>3. QED
        BY <3>1, <3>2 DEF Behind
    <2>3. CASE v # CURRENT_VERSION /\ conn' = [conn EXCEPT ![p].version = v + 1, ![p].next = 1]
      <3>1. conn'[p].version = v + 1 /\ conn'[p].next = 1 /\ conn'[p].pc = "migrating"
        BY <2>3 DEF SchemaInv, DbTypeOK, Conn, Record
      <3>2. v + 1 \in 1..CURRENT_VERSION
        BY <1>1, <2>3, VersionIsNat
      <3>3. 1..((v + 1) - 1) \subseteq versions'
        BY <1>1, <1>2
      <3>4. 1 \in 1..(Len(Migrations[v + 1]) + 1) /\ 1..(1 - 1) = {}
        BY <3>2, MigrationTypes
      <3>5. QED
        BY <3>1, <3>2, <3>3, <3>4 DEF Behind, Steps
    <2>4. QED
      BY <1>3, <2>1, <2>2, <2>3
  <1>8. conn' = [conn EXCEPT ![p] = conn'[p]]
    BY <1>3 DEF SchemaInv, DbTypeOK
  <1>9. versions' \subseteq 1..CURRENT_VERSION
    BY <1>6 DEF DbTypeOK
  <1>10. \A q \in Process : Behind(q)'
    BY <1>2, <1>7, <1>8, <1>9, OthersKept
  <1>11. QED
    BY <1>2, <1>4, <1>5, <1>6, <1>10 DEF SchemaInv, Complete

LEMMA NextSchema == SchemaInv /\ [DbNext]_dbVars => SchemaInv'
  <1> SUFFICES ASSUME SchemaInv, [DbNext]_dbVars PROVE SchemaInv'
    OBVIOUS
  <1>1. ASSUME NEW p \in Process, Connect(p) \/ Close(p) PROVE SchemaInv'
    <2>1. /\ applied' = applied /\ versions' = versions /\ disturbed' \in BOOLEAN
      BY <1>1 DEF Connect, Close, SchemaInv, DbTypeOK
    <2>2. conn' = [conn EXCEPT ![p] = conn'[p]] /\ conn'[p] \in Conn
          /\ conn'[p].pc \in {"connected", "closed"}
      BY <1>1, SMTT(30) DEF Connect, Close, SchemaInv, DbTypeOK, Conn, Closed
    <2>3. Behind(p)'
      BY <2>2 DEF Behind
    <2>4. \A q \in Process : Behind(q)'
      BY <2>1, <2>2, <2>3, OthersKept DEF SchemaInv, DbTypeOK
    <2>5. DbTypeOK'
      BY <2>1, <2>2 DEF SchemaInv, DbTypeOK
    <2>6. QED
      BY <2>1, <2>4, <2>5 DEF SchemaInv, Complete
  <1>2. CASE UNCHANGED dbVars
    BY <1>2 DEF dbVars, SchemaInv, DbTypeOK, Behind, Steps, Complete
  <1>3. QED
    BY <1>1, <1>2, ReadVersionSchema, ApplySchema, RecordSchema DEF DbNext, Initialize

(* Whoever is let in, and every version that is recorded, has all its      *)
(* statements in effect, for any number of processes that migrate at once  *)
(* and are cut short anywhere.                                             *)
THEOREM OpenMeansMigrated == DbSpec => []OpenHasSchema
  <1>1. SchemaInv => OpenHasSchema
    BY DEF SchemaInv, Behind, OpenHasSchema
  <1>2. QED
    BY <1>1, InitSchema, NextSchema, PTL DEF DbSpec

-----------------------------------------------------------------------------
(* Failures *)

(* What the migrations that are recorded, or the one under way, explain is *)
(* explained by the same after a step that drops none of them.             *)
LEMMA ExplainedKept ==
  ASSUME SchemaInv, NEW s, Explained(s), versions \subseteq versions',
         \A p \in Process : conn[p].pc = "migrating" =>
            \/ conn[p].version \in versions'
            \/ /\ conn'[p].pc = "migrating" /\ conn'[p].version = conn[p].version
               /\ conn'[p].next >= conn[p].next /\ conn'[p].next \in Nat
  PROVE  Explained(s)'
  <1>1. CASE s \in Repeatable \/ \E v \in versions : \E i \in 1..Len(Migrations[v]) : Migrations[v][i] = s
    BY <1>1 DEF Explained
  <1>2. ASSUME NEW p \in Process, conn[p].pc = "migrating",
               NEW i \in 1..(conn[p].next - 1), Steps(p)[i] = s
        PROVE  Explained(s)'
    <2>1. /\ i \in 1..Len(Steps(p)) /\ conn[p].next \in Nat
      BY <1>2, MigrationTypes DEF SchemaInv, Behind, Steps
    <2>2. CASE conn[p].version \in versions'
      BY <1>2, <2>1, <2>2 DEF Explained, Steps
    <2>3. CASE conn[p].version \notin versions'
      <3>1. /\ conn'[p].pc = "migrating" /\ conn'[p].version = conn[p].version
            /\ i \in 1..(conn'[p].next - 1)
        BY <1>2, <2>1, <2>3
      <3>2. QED
        BY <1>2, <3>1 DEF Explained, Steps
    <2>4. QED
      BY <2>2, <2>3
  <1>3. QED
    BY <1>1, <1>2 DEF Explained

LEMMA ReadVersionOrderly ==
  ASSUME SchemaInv, OrderlyInv, NEW p \in Process, ReadVersion(p), ~disturbed'
  PROVE  OrderlyInv'
  <1> DEFINE n == CurrentVersion
  <1>1. n \in 0..CURRENT_VERSION /\ versions = 1..n
    BY CurrentVersionIs
  <1>2. /\ conn' = [conn EXCEPT ![p] =
                      [pc |-> IF n >= CURRENT_VERSION THEN "open" ELSE "migrating",
                       version |-> n + 1, next |-> 1]]
        /\ applied' = applied /\ versions' = versions /\ ~disturbed
        /\ n < CURRENT_VERSION => \A q \in Process \ {p} : conn[q].pc # "migrating"
        /\ conn[p].pc = "connected"
    BY DEF ReadVersion
  <1> HIDE DEF n
  <1>3. /\ \A q \in Process \ {p} : conn'[q] = conn[q]
        /\ conn'[p].version = n + 1 /\ conn'[p].pc \in {"open", "migrating"}
        /\ conn'[p].pc = "migrating" => n < CURRENT_VERSION
    BY <1>1, <1>2, VersionIsNat DEF SchemaInv, DbTypeOK
  <1>4. \A s \in applied : Explained(s)'
    <2>1. \A q \in Process : conn[q].pc = "migrating" => conn'[q] = conn[q] /\ conn[q].next \in Nat
      BY <1>2, <1>3 DEF SchemaInv, DbTypeOK, Conn
    <2>2. QED
      BY <1>2, <2>1, ExplainedKept DEF OrderlyInv
  <1>5. n + 1 \notin versions
    BY <1>1
  <1>6. QED
    BY <1>2, <1>3, <1>4, <1>5 DEF OrderlyInv

LEMMA ApplyOrderly ==
  ASSUME SchemaInv, OrderlyInv, NEW p \in Process, Apply(p), ~disturbed'
  PROVE  OrderlyInv'
  <1> DEFINE v == conn[p].version
             k == conn[p].next
             s == Steps(p)[k]
  <1>1. /\ v \in 1..CURRENT_VERSION /\ k \in 1..Len(Migrations[v]) /\ k \in Nat
        /\ s = Migrations[v][k] /\ conn[p].pc = "migrating"
        /\ applied' = applied \cup {s} /\ versions' = versions /\ ~disturbed
    BY MigrationTypes DEF Apply, SchemaInv, Behind, Steps
  <1>2. /\ v \notin versions
        /\ \A q \in Process : conn[q].pc = "migrating" => q = p
        /\ \A x \in applied : Explained(x)
        /\ \A q \in Process : conn[q].pc # "failed"
    BY <1>1 DEF OrderlyInv
  <1>3. ~(s \in applied /\ s \notin Repeatable)
    <2> SUFFICES ASSUME s \in applied, s \notin Repeatable PROVE FALSE
      OBVIOUS
    <2>1. CASE \E w \in versions : \E i \in 1..Len(Migrations[w]) : Migrations[w][i] = s
      <3>1. PICK w \in versions : \E i \in 1..Len(Migrations[w]) : Migrations[w][i] = s
        BY <2>1
      <3>2. PICK i \in 1..Len(Migrations[w]) : Migrations[w][i] = s
        BY <3>1
      <3>3. w = v
        BY <1>1, <3>2, OnceAssumption DEF SchemaInv, DbTypeOK
      <3>4. QED
        BY <1>2, <3>3
    <2>2. CASE \E q \in Process : /\ conn[q].pc = "migrating"
                                  /\ \E i \in 1..(conn[q].next - 1) : Steps(q)[i] = s
      <3>1. PICK i \in 1..(k - 1) : Migrations[v][i] = s
        BY <1>2, <2>2 DEF Steps
      <3>2. i \in 1..Len(Migrations[v]) /\ i # k
        BY <1>1, <3>1, MigrationTypes
      <3>3. QED
        BY <1>1, <3>1, <3>2, OnceAssumption, SMTT(30)
    <2>3. QED
      BY <1>2, <2>1, <2>2 DEF Explained
  <1>4. conn' = [conn EXCEPT ![p].next = k + 1]
    BY <1>3 DEF Apply
  <1>5. /\ \A q \in Process \ {p} : conn'[q] = conn[q]
        /\ conn'[p].pc = "migrating" /\ conn'[p].version = v /\ conn'[p].next = k + 1
    BY <1>1, <1>4 DEF SchemaInv, DbTypeOK, Conn
  <1>6. \A x \in applied : Explained(x)'
    <2>1. \A q \in Process : conn[q].pc = "migrating" =>
             /\ conn'[q].pc = "migrating" /\ conn'[q].version = conn[q].version
             /\ conn'[q].next >= conn[q].next /\ conn'[q].next \in Nat
      BY <1>1, <1>2, <1>5
    <2>2. QED
      BY <1>1, <1>2, <2>1, ExplainedKept
  <1>7. ASSUME NEW x, x = s PROVE Explained(x)'
    <2>1. k \in 1..(conn'[p].next - 1)
      BY <1>1, <1>5
    <2>2. Migrations[conn'[p].version][k] = x
      BY <1>1, <1>5, <1>7
    <2>3. QED
      BY <1>5, <2>1, <2>2 DEF Explained, Steps
  <1>8. QED
    BY <1>1, <1>2, <1>5, <1>6, <1>7 DEF OrderlyInv

LEMMA RecordOrderly ==
  ASSUME SchemaInv, OrderlyInv, NEW p \in Process, Record(p), ~disturbed'
  PROVE  OrderlyInv'
  <1> DEFINE v == conn[p].version
  <1>1. /\ v \in 1..CURRENT_VERSION /\ conn[p].pc = "migrating"
        /\ applied' = applied /\ versions' = versions \cup {v} /\ ~disturbed
    BY DEF Record, SchemaInv, Behind
  <1>2. /\ v \notin versions
        /\ \A q \in Process : conn[q].pc = "migrating" => q = p
        /\ \A x \in applied : Explained(x)
        /\ \A q \in Process : conn[q].pc # "failed"
    BY <1>1 DEF OrderlyInv
  <1>3. \/ conn' = [conn EXCEPT ![p].pc = "open"]
        \/ conn' = [conn EXCEPT ![p].version = v + 1, ![p].next = 1]
    BY <1>2 DEF Record
  <1>4. /\ \A q \in Process \ {p} : conn'[q] = conn[q]
        /\ \/ conn'[p].pc = "open"
           \/ conn'[p].pc = "migrating" /\ conn'[p].version = v + 1
    BY <1>1, <1>3 DEF SchemaInv, DbTypeOK, Conn
  <1>5. \A x \in applied : Explained(x)'
    BY <1>1, <1>2, ExplainedKept
  <1>6. v + 1 \notin versions'
    <2>1. PICK n \in 0..CURRENT_VERSION : versions = 1..n
      BY DEF SchemaInv
    <2>2. v > n
      BY <1>1, <1>2, <2>1
    <2>3. QED
      BY <1>1, <2>1, <2>2
  <1>7. QED
    BY <1>1, <1>2, <1>4, <1>5, <1>6 DEF OrderlyInv

LEMMA NextOrderly == SchemaInv /\ OrderlyInv /\ [DbNext]_dbVars => OrderlyInv'
  <1> SUFFICES ASSUME SchemaInv, OrderlyInv, [DbNext]_dbVars, ~disturbed' PROVE OrderlyInv'
    BY DEF OrderlyInv
  <1>1. ASSUME NEW p \in Process, Connect(p) \/ Close(p) PROVE OrderlyInv'
    <2>1. /\ applied' = applied /\ versions' = versions /\ ~disturbed
          /\ conn[p].pc # "migrating"
      <3>1. CASE Connect(p)
        BY <3>1 DEF Connect
      <3>2. CASE Close(p)
        <4>1. disturbed' <=> disturbed \/ conn[p].pc = "migrating"
          BY <3>2 DEF Close
        <4>2. QED
          BY <3>2, <4>1 DEF Close
      <3>3. QED
        BY <1>1, <3>1, <3>2
    <2>2. conn' = [conn EXCEPT ![p] = conn'[p]] /\ conn'[p].pc \in {"connected", "closed"}
      BY <1>1 DEF Connect, Close, Closed, SchemaInv, DbTypeOK, Conn
    <2>3. \A q \in Process \ {p} : conn'[q] = conn[q]
      BY <2>2 DEF SchemaInv, DbTypeOK
    <2>4. \A s \in applied : Explained(s)'
      <3>1. \A q \in Process : conn[q].pc = "migrating" => conn'[q] = conn[q] /\ conn[q].next \in Nat
        BY <2>1, <2>3 DEF SchemaInv, DbTypeOK, Conn
      <3>2. QED
        BY <2>1, <3>1, ExplainedKept DEF OrderlyInv
    <2>5. QED
      BY <2>1, <2>2, <2>3, <2>4 DEF OrderlyInv
  <1>2. CASE UNCHANGED dbVars
    BY <1>2 DEF dbVars, OrderlyInv, Explained, Steps
  <1>3. QED
    BY <1>1, <1>2, ReadVersionOrderly, ApplyOrderly, RecordOrderly DEF DbNext, Initialize

(* initialize() fails only if some process was cut short in a migration or *)
(* two migrated at once, whatever the processes do one after the other.    *)
THEOREM OnlyDisturbedFails == DbSpec => []FailsOnlyDisturbed
  <1>1. DbInit => OrderlyInv
    BY DEF DbInit, OrderlyInv, Closed
  <1>2. OrderlyInv => FailsOnlyDisturbed
    BY DEF OrderlyInv, FailsOnlyDisturbed
  <1>3. QED
    BY <1>1, <1>2, InitSchema, NextSchema, NextOrderly, PTL DEF DbSpec

-----------------------------------------------------------------------------
(* Daemon *)

(* What a step does to the commands and the daemons *)

LEMMA GoTypes ==
  ASSUME ProcTypeOK, NEW c \in Command, NEW pid \in Daemons \cup {NoPid},
         NEW pc \in {"new", "fork", "term", "poll", "kill", "unlink", "done"}, Go(c, pc, pid)
  PROVE  /\ command' \in [Command ->
               [pc : {"new", "fork", "term", "poll", "kill", "unlink", "done"},
                pid : Daemons \cup {NoPid}]]
         /\ command'[c].pc = pc
         /\ pc # "done" => command'[c].pid = pid
         /\ \A b \in Command \ {c} : command'[b] = command[b]
  BY DEF ProcTypeOK, Go

(* The process of a command that is not done with it is a daemon's.        *)
LEMMA PidOfCommand ==
  ASSUME ProcTypeOK, NEW c \in Command
  PROVE  /\ command[c].pid \in Daemons \cup {NoPid}
         /\ Exists(command[c].pid) => command[c].pid \in Daemons
         /\ pidFile \in Daemons \cup {NoPid}
  BY DEF ProcTypeOK, Exists

LEMMA GoneTypes ==
  ASSUME ProcTypeOK, NEW d \in Daemons, Gone(d)
  PROVE  /\ daemon' \in [Daemons -> {"none", "forked", "loading", "building", "built",
                                     "serving", "ending", "dead"}]
         /\ daemon'[d] = "dead"
         /\ \A e \in Daemons \ {d} : daemon'[e] = daemon[e]
  BY DEF ProcTypeOK, Gone

LEMMA StepTypes ==
  ASSUME ProcTypeOK, NEW d \in Daemons, NEW from,
         NEW to \in {"loading", "building", "built", "serving", "ending"}, Step(d, from, to)
  PROVE  /\ daemon' \in [Daemons -> {"none", "forked", "loading", "building", "built",
                                     "serving", "ending", "dead"}]
         /\ daemon[d] = from /\ daemon'[d] = to
         /\ \A e \in Daemons \ {d} : daemon'[e] = daemon[e]
  BY DEF ProcTypeOK, Step

-----------------------------------------------------------------------------
(* Commands *)

(* A call that is hasty puts an end to what is claimed; one that is not is *)
(* alone, and no daemon is still to write its process id.                  *)
LEMMA Alone ==
  ASSUME PidInv, NEW c \in Command, Begin(c), ~hasty',
         NEW pc \in {"fork", "term", "unlink", "done"}, Go(c, pc, pidFile)
  PROVE  /\ ~hasty /\ OneLives
         /\ \A b \in Underway' : b = c
         /\ \A d \in Daemons : daemon[d] # "forked"
         /\ command'[c].pc = pc /\ (pc # "done" => command'[c].pid = pidFile)
  <1>1. /\ ~hasty /\ Underway = {} /\ OneLives
        /\ \A d \in Daemons : daemon[d] # "forked"
    BY DEF Begin, PidInv
  <1>2. /\ command'[c].pc = pc /\ (pc # "done" => command'[c].pid = pidFile)
        /\ \A b \in Command \ {c} : command'[b] = command[b]
    BY PidOfCommand, GoTypes DEF PidInv
  <1>3. QED
    BY <1>1, <1>2 DEF Underway

LEMMA BeginKeeps ==
  ASSUME PidInv, NEW c \in Command, StartCheck(c) \/ StopCheck(c) \/ StatusCheck(c)
  PROVE  PidInv'
  <1>1. PICK pc \in {"fork", "term", "unlink", "done"} :
          /\ Begin(c) /\ Go(c, pc, pidFile)
          /\ pc = "term" => Exists(pidFile)
          /\ pc \in {"fork", "unlink"} => ~Exists(pidFile)
          /\ UNCHANGED <<pidFile, daemon>>
    BY DEF StartCheck, StopCheck, StatusCheck
  <1>2. ProcTypeOK'
    BY <1>1, GoTypes, PidOfCommand DEF PidInv, ProcTypeOK
  <1>3. ASSUME ~hasty' PROVE OneLives' /\ OneActs'
    <2>1. /\ OneLives
          /\ \A b \in Underway' : b = c
          /\ \A d \in Daemons : daemon[d] # "forked"
          /\ command'[c].pc = pc /\ (pc # "done" => command'[c].pid = pidFile)
      BY <1>1, <1>3, Alone
    <2>2. OneLives'
      BY <1>1, <2>1 DEF OneLives, Exists
    <2>3. pc \in {"fork", "unlink"} => \A d \in Daemons : ~Exists(d)'
      BY <1>1, <2>1 DEF OneLives, Exists
    <2>4. QED
      BY <1>1, <2>1, <2>2, <2>3 DEF OneActs
  <1>4. QED
    BY <1>2, <1>3 DEF PidInv

(* A command that goes on.  What it finds and does to a daemon decides     *)
(* where it goes.                                                          *)
LEMMA GoOnKeeps ==
  ASSUME PidInv, NEW c \in Command,
         NEW pc \in {"poll", "kill", "unlink", "done"},
         c \in Underway, Go(c, pc, command[c].pid), UNCHANGED <<hasty, pidFile>>,
         command[c].pc \in {"term", "poll", "kill"},
         \/ UNCHANGED daemon /\ (pc = "unlink" => ~Exists(command[c].pid))
         \/ command[c].pid \in Daemons /\ Gone(command[c].pid)
  PROVE  PidInv'
  <1> DEFINE d == command[c].pid
  <1>1. /\ ProcTypeOK'
        /\ \A e \in Daemons : daemon'[e] = daemon[e] \/ (e = d /\ daemon'[e] = "dead")
    <2>1. CASE UNCHANGED daemon
      BY <2>1, GoTypes, PidOfCommand DEF PidInv, ProcTypeOK
    <2>2. CASE d \in Daemons /\ Gone(d)
      BY <2>2, GoTypes, GoneTypes, PidOfCommand DEF PidInv, ProcTypeOK
    <2>3. QED
      BY <2>1, <2>2
  <1>2. ASSUME ~hasty' PROVE OneLives' /\ OneActs'
    <2>1. ~hasty /\ OneLives /\ OneActs /\ d = pidFile
      BY <1>2 DEF PidInv, OneActs
    <2>2. /\ command'[c].pc = pc /\ (pc # "done" => command'[c].pid = d)
          /\ \A b \in Command \ {c} : command'[b] = command[b]
      BY GoTypes, PidOfCommand DEF PidInv
    <2>3. \A b \in Underway' : b = c
      BY <2>1, <2>2 DEF OneActs, Underway
    <2>4. \A e \in Daemons : Exists(e)' => Exists(e)
      BY <1>1 DEF Exists
    <2>5. OneLives'
      BY <1>1, <2>1, <2>4 DEF OneLives, Exists
    <2>6. \A e \in Daemons : daemon'[e] # "forked"
      BY <1>1, <2>1 DEF OneActs
    <2>7. pc = "unlink" => \A e \in Daemons : ~Exists(e)'
      <3>1. ASSUME pc = "unlink", NEW e \in Daemons, Exists(e)' PROVE FALSE
        <4>1. Exists(e) /\ e = d /\ daemon'[e] # "dead"
          BY <2>1, <2>4, <2>6, <3>1 DEF OneLives, OneActs, Exists
        <4>2. CASE UNCHANGED daemon /\ ~Exists(d)
          BY <4>1, <4>2
        <4>3. CASE d \in Daemons /\ Gone(d)
          BY <4>1, <4>3, GoneTypes DEF PidInv
        <4>4. QED
          BY <3>1, <4>2, <4>3
      <3>2. QED
        BY <3>1
    <2>8. QED
      BY <2>1, <2>2, <2>3, <2>5, <2>6, <2>7 DEF OneActs
  <1>3. QED
    BY <1>1, <1>2 DEF PidInv

LEMMA ForkKeeps == ASSUME PidInv, NEW c \in Command, Fork(c) PROVE PidInv'
  <1>1. PICK d \in Daemons : daemon[d] = "none" /\ daemon' = [daemon EXCEPT ![d] = "forked"]
    BY DEF Fork
  <1>2. /\ command'[c].pc = "done"
        /\ \A b \in Command \ {c} : command'[b] = command[b]
        /\ ProcTypeOK'
    BY <1>1, GoTypes DEF Fork, PidInv, ProcTypeOK
  <1>3. ASSUME ~hasty' PROVE OneLives' /\ OneActs'
    <2>1. ~hasty /\ OneLives /\ OneActs /\ c \in Underway
      BY <1>3 DEF Fork, PidInv, Underway
    <2>2. \A e \in Daemons : ~Exists(e)
      BY <2>1 DEF Fork, OneActs
    <2>3. \A e \in Daemons : Exists(e)' => e = d
      BY <1>1, <2>2 DEF Exists, PidInv, ProcTypeOK
    <2>4. daemon'[d] = "forked"
      BY <1>1 DEF PidInv, ProcTypeOK
    <2>5. Underway' = {}
      BY <1>2, <2>1 DEF Underway, OneActs
    <2>6. QED
      BY <2>3, <2>4, <2>5 DEF OneLives, OneActs
  <1>4. QED
    BY <1>2, <1>3 DEF PidInv

LEMMA UnlinkKeeps == ASSUME PidInv, NEW c \in Command, Unlink(c) PROVE PidInv'
  <1>1. /\ command'[c].pc = "done"
        /\ \A b \in Command \ {c} : command'[b] = command[b]
        /\ ProcTypeOK'
    BY GoTypes DEF Unlink, PidInv, ProcTypeOK
  <1>2. ASSUME ~hasty' PROVE OneLives' /\ OneActs'
    <2>1. ~hasty /\ OneActs /\ c \in Underway
      BY <1>2 DEF Unlink, PidInv, Underway
    <2>2. \A e \in Daemons : ~Exists(e)'
      BY <2>1 DEF Unlink, OneActs, Exists
    <2>3. Underway' = {}
      BY <1>1, <2>1 DEF Underway, OneActs
    <2>4. QED
      BY <2>2, <2>3 DEF OneLives, OneActs
  <1>3. QED
    BY <1>1, <1>2 DEF PidInv

LEMMA CommandKeeps == ASSUME PidInv, NEW c \in Command, Commands(c) PROVE PidInv'
  <1>1. CASE Term(c)
    <2>1. /\ c \in Underway /\ command[c].pc = "term"
          /\ \E pc \in {"poll", "done"} : Go(c, pc, command[c].pid)
          /\ UNCHANGED <<hasty, pidFile>>
          /\ UNCHANGED daemon \/ (command[c].pid \in Daemons /\ Gone(command[c].pid))
      BY <1>1, PidOfCommand DEF Term, Underway, PidInv
    <2>2. QED
      BY <2>1, GoOnKeeps
  <1>2. CASE Polled(c)
    BY <1>2, GoOnKeeps DEF Polled, Underway
  <1>3. CASE PollsOver(c)
    BY <1>3, GoOnKeeps DEF PollsOver, Underway
  <1>4. CASE Kill(c)
    <2>1. /\ c \in Underway /\ command[c].pc = "kill"
          /\ Go(c, "unlink", command[c].pid)
          /\ UNCHANGED <<hasty, pidFile>>
          /\ \/ UNCHANGED daemon /\ ~Exists(command[c].pid)
             \/ command[c].pid \in Daemons /\ Gone(command[c].pid)
      BY <1>4, PidOfCommand DEF Kill, Underway, PidInv
    <2>2. QED
      BY <2>1, GoOnKeeps
  <1>5. QED
    BY <1>1, <1>2, <1>3, <1>4, BeginKeeps, ForkKeeps, UnlinkKeeps DEF Commands

-----------------------------------------------------------------------------
(* Daemons *)

(* A daemon that moves on, or ends.                                        *)
LEMMA LiveKeeps ==
  ASSUME PidInv, NEW d \in Daemons, Exists(d), UNCHANGED <<command, hasty>>,
         daemon' \in [Daemons -> {"none", "forked", "loading", "building", "built",
                                  "serving", "ending", "dead"}],
         daemon'[d] \notin {"none", "forked"},
         \A e \in Daemons \ {d} : daemon'[e] = daemon[e],
         IF daemon[d] = "forked" /\ daemon'[d] # "dead" THEN pidFile' = d ELSE UNCHANGED pidFile
  PROVE  PidInv'
  <1>1. ProcTypeOK'
    BY DEF PidInv, ProcTypeOK
  <1>2. ASSUME ~hasty' PROVE OneLives' /\ OneActs'
    <2>1. ~hasty /\ OneLives /\ OneActs
      BY <1>2 DEF PidInv
    <2>2. \A e \in Daemons : Exists(e)' => e = d
      BY <2>1 DEF OneLives, Exists
    <2>3. OneLives'
      BY <2>1, <2>2 DEF OneLives, Exists
    <2>4. Underway' = Underway
      BY DEF Underway
    <2>5. \A c \in Underway : UNCHANGED pidFile
      BY <2>1 DEF OneActs
    <2>6. \A e \in Daemons : daemon'[e] = "forked" => daemon[e] = "forked"
      OBVIOUS
    <2>7. \A e \in Daemons : Exists(e)' => Exists(e)
      BY DEF Exists
    <2>8. QED
      BY <2>1, <2>3, <2>4, <2>5, <2>6, <2>7 DEF OneActs
  <1>3. QED
    BY <1>1, <1>2 DEF PidInv

LEMMA DaemonKeeps == ASSUME PidInv, NEW d \in Daemons, Lives(d) PROVE PidInv'
  <1>1. ProcTypeOK
    BY DEF PidInv
  <1>2. NoPid \notin Daemons
    BY DaemonsAssumption
  <1>3. ASSUME NEW from \in {"forked", "loading", "building", "built", "serving"},
               NEW to \in {"loading", "building", "built", "serving", "ending"},
               Step(d, from, to), UNCHANGED <<command, hasty>>,
               IF from = "forked" THEN pidFile' = d ELSE UNCHANGED pidFile
        PROVE  PidInv'
    <2>1. Exists(d)
      BY <1>2, <1>3 DEF Step, Exists
    <2>2. QED
      BY <1>1, <1>3, <2>1, StepTypes, LiveKeeps
  <1>4. ASSUME Gone(d), Exists(d), UNCHANGED <<command, hasty, pidFile>> PROVE PidInv'
    BY <1>1, <1>4, GoneTypes, LiveKeeps
  <1>5. CASE WritePid(d)
    BY <1>3, <1>5 DEF WritePid
  <1>6. CASE SetHandlers(d)
    BY <1>3, <1>6 DEF SetHandlers
  <1>7. CASE OpenDatabase(d)
    BY <1>7 DEF OpenDatabase, procVars, PidInv, ProcTypeOK, OneLives, OneActs, Exists, Underway
  <1>8. CASE Build(d)
    BY <1>3, <1>8 DEF Build
  <1>9. CASE Bind(d)
    <2>1. Exists(d)
      BY <1>2, <1>9 DEF Bind, Exists
    <2>2. QED
      BY <1>3, <1>4, <1>9, <2>1 DEF Bind
  <1>10. CASE ShutDown(d)
    BY <1>3, <1>10 DEF ShutDown
  <1>11. CASE CleanUp(d)
    BY <1>2, <1>4, <1>11 DEF CleanUp, Exists
  <1>12. CASE Crash(d)
    BY <1>4, <1>12 DEF Crash
  <1>13. QED
    BY <1>5, <1>6, <1>7, <1>8, <1>9, <1>10, <1>11, <1>12 DEF Lives

LEMMA NextKeepsPids == PidInv /\ [Next]_vars => PidInv'
  <1> SUFFICES ASSUME PidInv, [Next]_vars PROVE PidInv'
    OBVIOUS
  <1>1. CASE UNCHANGED procVars
    BY <1>1 DEF procVars, PidInv, ProcTypeOK, OneLives, OneActs, Exists, Underway
  <1>2. CASE UNCHANGED vars
    BY <1>1, <1>2 DEF vars, procVars
  <1>3. QED
    BY <1>1, <1>2, CommandKeeps, DaemonKeeps DEF Next, Other

LEMMA InitPids == Init => PidInv
  <1> SUFFICES ASSUME Init PROVE PidInv
    OBVIOUS
  <1>1. ProcTypeOK
    BY DEF Init, ProcTypeOK
  <1>2. \A d \in Daemons : ~Exists(d)
    BY DEF Init, Exists
  <1>3. Underway = {}
    BY DEF Init, Underway
  <1>4. QED
    BY <1>1, <1>2, <1>3 DEF PidInv, OneLives, OneActs

(* Whatever dies when, as long as the commands wait for each other and for *)
(* a daemon to write its process id, the daemon that runs is the one the   *)
(* PID file names.                                                         *)
THEOREM FileNamesDaemon == Spec => []RunningIsNamed
  <1>1. PidInv => RunningIsNamed
    BY DEF PidInv, RunningIsNamed, OneLives
  <1>2. QED
    BY <1>1, InitPids, NextKeepsPids, PTL DEF Spec

-----------------------------------------------------------------------------
(* The database, with the daemons and commands around it *)

(* Every step of a daemon or a command is a step of the database or leaves *)
(* it alone: a process that dies closes its connection.                    *)
LEMMA StepIsDbStep == ASSUME ProcTypeOK, [Next]_vars PROVE [DbNext]_dbVars
  <1>1. ASSUME NEW d \in Daemons, Gone(d) PROVE [DbNext]_dbVars
    BY <1>1, DaemonsAssumption DEF Gone, DbNext
  <1>2. ASSUME NEW c \in Command, Commands(c) PROVE [DbNext]_dbVars
    <2>1. CASE Term(c)
      BY <1>1, <2>1, PidOfCommand DEF Term
    <2>2. CASE Kill(c)
      BY <1>1, <2>2, PidOfCommand DEF Kill
    <2>3. QED
      BY <1>2, <2>1, <2>2
         DEF Commands, StartCheck, Fork, StopCheck, StatusCheck, Polled, PollsOver, Unlink
  <1>3. ASSUME NEW d \in Daemons, Lives(d) PROVE [DbNext]_dbVars
    <2>1. CASE OpenDatabase(d)
      BY <2>1, DaemonsAssumption DEF OpenDatabase, DbNext
    <2>2. QED
      BY <1>1, <1>3, <2>1
         DEF Lives, WritePid, SetHandlers, Build, Bind, ShutDown, CleanUp, Crash
  <1>4. CASE UNCHANGED vars
    BY <1>4 DEF vars
  <1>5. CASE \E p \in Process \ Daemons : Other(p)
    BY <1>5 DEF Other, DbNext
  <1>6. QED
    BY <1>2, <1>3, <1>4, <1>5 DEF Next

(* The daemons, the commands and the other processes implement the         *)
(* database that Storage specifies.                                        *)
THEOREM StartupImplementsStorage == Spec => DbSpec
  <1>1. Init => DbInit
    BY DEF Init
  <1>2. PidInv => ProcTypeOK
    BY DEF PidInv
  <1>3. QED
    BY <1>1, <1>2, InitPids, NextKeepsPids, StepIsDbStep, PTL DEF Spec, DbSpec

(* No daemon runs on a database that lacks a table, and a migration fails  *)
(* only if one was cut short or two ran at once.                           *)
THEOREM DaemonsFindSchema == Spec => [](OpenHasSchema /\ FailsOnlyDisturbed)
  BY StartupImplementsStorage, OpenMeansMigrated, OnlyDisturbedFails, PTL

-----------------------------------------------------------------------------
(* Only processes that were told to end are remembered as such.            *)
LEMMA NextKeepsRest ==
  ASSUME ProcTypeOK, told \in SUBSET Daemons, hasty \in BOOLEAN, [Next]_vars
  PROVE  told' \in SUBSET Daemons /\ hasty' \in BOOLEAN
  <1>1. ASSUME NEW c \in Command, Commands(c)
        PROVE  told' \in SUBSET Daemons /\ hasty' \in BOOLEAN
    <2>1. CASE Term(c)
      BY <2>1, PidOfCommand DEF Term, Exists
    <2>2. QED
      BY <1>1, <2>1
         DEF Commands, StartCheck, Fork, StopCheck, StatusCheck, Polled, PollsOver, Kill,
             Unlink, Begin
  <1>2. ASSUME NEW d \in Daemons, Lives(d)
        PROVE  told' \in SUBSET Daemons /\ hasty' \in BOOLEAN
    BY <1>2 DEF Lives, WritePid, SetHandlers, OpenDatabase, Build, Bind, ShutDown, CleanUp,
                Crash, procVars
  <1>3. QED
    BY <1>1, <1>2 DEF Next, Other, vars, procVars

(* Every variable keeps its type, in any order of commands, signals and    *)
(* deaths.                                                                 *)
THEOREM StartupTypes == Spec => []TypeOK
  <1> DEFINE Rest == told \in SUBSET Daemons /\ hasty \in BOOLEAN
  <1>1. Init => PidInv /\ SchemaInv /\ Rest
    BY InitPids, InitSchema DEF Init
  <1>2. PidInv => ProcTypeOK
    BY DEF PidInv
  <1>3. PidInv /\ SchemaInv /\ Rest /\ [Next]_vars => PidInv' /\ SchemaInv' /\ Rest'
    BY <1>2, NextKeepsPids, StepIsDbStep, NextSchema, NextKeepsRest
  <1>4. PidInv /\ SchemaInv /\ Rest => TypeOK
    BY DEF TypeOK, PidInv, ProcTypeOK, SchemaInv
  <1>5. QED
    BY <1>1, <1>3, <1>4, PTL DEF Spec
=============================================================================
