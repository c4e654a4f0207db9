------------------------------- MODULE Skills -------------------------------
(***************************************************************************)
(* Matching a message with a skill (polarsclaw/skills): every match lists  *)
(* the directory again, reads the files, then goes once through the skills *)
(* it found.  The files may change at any time.  A step is the listing,    *)
(* the reading of one file, or one skill.                                  *)
(*                                                                         *)
(* A trigger is given by how it relates to the message: the same, a part   *)
(* of it, or some of its words found in it.  Full stands for the score 1;  *)
(* Unit is a multiple of every number of words, so no share is rounded.    *)
(***************************************************************************)
EXTENDS Integers, Sequences, FiniteSets, FiniteSetsExt, SequencesExt

CONSTANTS
    Paths,       \* the .md files of the directory, sorted
    Trigger,     \* [how, found, words]
    Unit,        \* a tenth of the score 1
    Threshold,   \* skill_match_threshold
    NoSkill,     \* no file, no entry
    MaxTriggers, \* bound: triggers of a skill
    MaxEdits     \* bound: changes of files

ASSUME PathsAssumption == Paths \in Seq(STRING) /\ "absent" \notin Range(Paths)
ASSUME EditsAssumption == MaxEdits \in Nat
ASSUME UnitAssumption ==
    /\ Unit \in Nat \ {0}
    /\ \A t \in Trigger : t.words > 0 => Unit % t.words = 0
ASSUME TriggerAssumption ==
    /\ Trigger \subseteq [how : {"blank", "same", "part", "words"}, found : Nat, words : Nat]
    /\ \A t \in Trigger : t.found <= t.words

(* The score 1.                                                            *)
Full == 10 * Unit

ASSUME ThresholdAssumption == Threshold \in 1..Full

Path == Range(Paths)

(* What a file can be: a skill, one that parse_skill_file refuses, or one  *)
(* that is not text, which it does not expect.                             *)
Skill == {ts \in SUBSET Trigger : IsFiniteSet(ts) /\ Cardinality(ts) <= MaxTriggers}
File == [kind : {"skill"}, triggers : Skill]
          \cup {[kind |-> k, triggers |-> {}] : k \in {"absent", "invalid", "undecodable"}}

VARIABLES
    folder,   \* the directory
    listed,   \* the files glob gave
    reading,  \* the position of the next of them
    skills,   \* _skills: the paths of the entries, with their triggers
    at,       \* the skill looked at next; 0 when no match is under way
    entry,    \* best_entry
    score,    \* best_score
    matched,  \* what match returned, "raised", or "pending"
    edits

skillVars == <<folder, listed, reading, skills, at, entry, score, matched, edits>>

SkillsTypeOK ==
    /\ folder \in [Path -> File]
    /\ listed \subseteq Path
    /\ reading \in 1..(Len(Paths) + 1)
    /\ skills \in Seq([path : Path, triggers : Skill])
    /\ at \in 0..(Len(skills) + 1)
    /\ entry \in Path \cup {NoSkill}
    /\ score \in 0..Full
    /\ matched \in Path \cup {NoSkill, "raised", "pending"}
    /\ edits \in 0..MaxEdits

SkillsStart ==
    /\ listed = {}
    /\ reading = 1
    /\ skills = <<>>
    /\ at = 0
    /\ entry = NoSkill
    /\ score = 0
    /\ matched = "pending"
    /\ edits = 0

(* Mutant of TriggerScore: the ratio of the words is upside down.          *)
SwappedScore(t) ==
    CASE t.how = "same" -> Full
      [] t.how = "part" -> 8 * Unit
      [] t.how = "words" /\ t.found > 0 /\ 2 * t.found >= t.words ->
             3 * Unit + (4 * t.words * Unit) \div t.found
      [] OTHER -> 0

(* The score of one trigger: 1, 0.8, or 0.5 to 0.7 by the share of its     *)
(* words if that is at least one half.                                     *)
TriggerScore(t) ==
    CASE t.how = "same" -> Full
      [] t.how = "part" -> 8 * Unit
      [] t.how = "words" /\ t.words > 0 /\ 2 * t.found >= t.words ->
             3 * Unit + 4 * t.found * (Unit \div t.words)
      [] OTHER -> 0

(* match_triggers: the best of them.                                       *)
Score(triggers) ==
    Max({TriggerScore(t) : t \in triggers} \cup {0})

Edit(p, file) ==
    /\ edits < MaxEdits
    /\ edits' = edits + 1
    /\ folder' = [folder EXCEPT ![p] = file]
    /\ UNCHANGED <<listed, reading, skills, at, entry, score, matched>>

(* match: discover clears the list and lists the directory, then parses    *)
(* each file, which may have changed or gone since; a file that is not     *)
(* text raises.                                                            *)
Scan ==
    /\ at = 0
    /\ listed' = {p \in Path : folder[p].kind # "absent"}
    /\ reading' = 1
    /\ skills' = <<>>
    /\ at' = 1
    /\ entry' = NoSkill
    /\ score' = 0
    /\ matched' = "pending"
    /\ UNCHANGED <<folder, edits>>

Parse ==
    LET path == Paths[reading]
        kind == IF path \in listed THEN folder[path].kind ELSE "absent"
    IN /\ at = 1
       /\ reading \in 1..Len(Paths)
       /\ reading' = reading + 1
       /\ IF kind = "undecodable"
          THEN matched' = "raised" /\ at' = 0
          ELSE UNCHANGED <<matched, at>>
       /\ skills' = IF kind = "skill"
                    THEN Append(skills, [path |-> path, triggers |-> folder[path].triggers])
                    ELSE skills
       /\ UNCHANGED <<folder, listed, entry, score, edits>>

AllRead == at > 0 /\ reading = Len(Paths) + 1

(* Mutant of Better: the last of equal scores wins.                        *)
AsGood(s) == s >= score

Better(s) == s > score

Weigh ==
    LET s == Score(skills[at].triggers) IN
    /\ AllRead
    /\ at \in 1..Len(skills)
    /\ IF Better(s) THEN entry' = skills[at].path /\ score' = s ELSE UNCHANGED <<entry, score>>
    /\ at' = at + 1
    /\ UNCHANGED <<folder, listed, reading, skills, matched, edits>>

Decide ==
    /\ AllRead
    /\ at = Len(skills) + 1
    /\ matched' = IF score >= Threshold THEN entry ELSE NoSkill
    /\ at' = 0
    /\ UNCHANGED <<folder, listed, reading, skills, entry, score, edits>>

SkillsNext ==
    \/ \E p \in Path, file \in File : Edit(p, file)
    \/ Scan \/ Parse \/ Weigh \/ Decide

SkillsSpec == folder \in [Path -> File] /\ SkillsStart /\ [][SkillsNext]_skillVars

-----------------------------------------------------------------------------
(* Properties *)

(* A match gives the first of the best skills of the scan, if it reaches   *)
(* the threshold, and nothing only if no skill does, however the files     *)
(* changed during and between the matches.                                 *)
BestSkill ==
    LET S(i) == Score(skills[i].triggers)
        good == {i \in 1..Len(skills) : S(i) >= Threshold}
    IN at = 0 /\ matched \notin {"pending", "raised"} =>
         \/ matched = NoSkill /\ good = {}
         \/ \E i \in good : /\ matched = skills[i].path
                            /\ \A j \in 1..Len(skills) : S(j) <= S(i) /\ (j < i => S(j) < S(i))

(* What BestSkill needs besides: the best so far is the first of the best  *)
(* of the skills weighed.                                                  *)
SkillInv ==
    LET S(i) == Score(skills[i].triggers) IN
    /\ folder \in [Path -> File]
    /\ skills \in Seq([path : Path, triggers : Skill])
    /\ reading \in 1..(Len(Paths) + 1)
    /\ at \in 0..(Len(skills) + 1)
    /\ reading # Len(Paths) + 1 => at \in {0, 1}
    /\ score \in Nat
    /\ at > 0 => \/ score = 0 /\ \A j \in 1..(at - 1) : S(j) = 0
                 \/ \E i \in 1..(at - 1) :
                       /\ entry = skills[i].path /\ score = S(i)
                       /\ \A j \in 1..(at - 1) : S(j) <= S(i) /\ (j < i => S(j) < S(i))
    /\ BestSkill
=============================================================================
