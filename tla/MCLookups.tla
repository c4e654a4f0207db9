----------------------------- MODULE MCLookups ------------------------------
(***************************************************************************)
(* TLC's view of what is looked up for a message: an agent (Routing), a    *)
(* skill (Skills), tools (Wiring) and memories (Recall).  The four share   *)
(* no state, so a behaviour is a behaviour of one of them.                 *)
(***************************************************************************)
EXTENDS Routing, Skills, Wiring, Recall

VARIABLE part

MCBindings ==
    LET one == [agent : Agent, peer : {None, "pete"}, channel : {None, "web"},
                roles : {{}, {"ops"}}, account : {None, "acme"}]
    IN UNION {[1..n -> one] : n \in 0..MaxBindings}

MCContexts ==
    [peer : {None, "pete", "quin"}, channel : {None, "web"}, roles : {{}, {"ops"}},
     account : {None, "acme"}]

MCPaths == <<"a.md", "b.md">>

MCTriggers ==
    {[how |-> "same", found |-> 0, words |-> 1], [how |-> "part", found |-> 0, words |-> 1],
     [how |-> "words", found |-> 1, words |-> 3], [how |-> "words", found |-> 2, words |-> 4]}

(* A plugin that registers a tool of its own and one whose name is built   *)
(* in, or takes a memory tool's name, returning or raising.                *)
MCPlugins ==
    [name : {"p", "q"},
     calls : {{}, {[tool |-> "extra", groups |-> {"group:fs"}],
                   [tool |-> "create_cron", groups |-> {}]},
              {[tool |-> "memory_search", groups |-> {"group:memory"}]}},
     engine : {TRUE}, outcome : {"returns", "raises"}]
    \cup {[name |-> "p", calls |-> {}, engine |-> FALSE, outcome |-> "no register"]}

MCAgents ==
    {<<[id |-> "main", profile |-> p, tools |-> t, provider |-> v]>> :
        p \in {"full", "coding"}, t \in {{}, {"extra", "group:cron"}}, v \in {"openai", "zai"}}
    \cup {<<[id |-> "main", profile |-> "full", tools |-> {}, provider |-> "zai"],
            [id |-> i, profile |-> "minimal", tools |-> {}, provider |-> "zai"]>> :
            i \in {"main", "side"}}

MCSetups ==
    [enabled : BOOLEAN,
     entryPoints : {<<>>} \cup {<<p>> : p \in MCPlugins},
     directories : {<<>>} \cup {<<p, [p EXCEPT !.calls = {}]>> : p \in MCPlugins},
     autoload : {{}, {"p"}},
     providers : {<<>>},
     openclaw : {<<>>, [zai |-> "zai-anthropic"], [zai |-> "unknown"]},
     agents : MCAgents]

(* Two texts that share a word, one of them old, and one that is found by  *)
(* its vector only.                                                        *)
MCMemo == {{"a"}, {"a", "c"}, {"b"}}
MCAged == {{"a", "c"}}
MCQueries == [s \in Searchers |-> {"a"}]
MCNear == [s \in Searchers |->
              [t \in Memo |-> CASE t = {"a"} -> 90 [] t = {"a", "c"} -> 80 [] t = {"b"} -> 45]]

MCTypeOK == RoutingTypeOK /\ SkillsTypeOK /\ WiringTypeOK /\ RecallTypeOK

OneSetup == CHOOSE s \in Setup : s.entryPoints = <<>> /\ s.directories = <<>>

OneFolder == [p \in Path |-> [kind |-> "absent", triggers |-> {}]]

MCInit ==
    /\ part \in {"routing", "skills", "wiring", "recall"}
    /\ IF part = "routing"
       THEN bindings \in MCBindings /\ who \in MCContexts
       ELSE bindings = <<>> /\ who = CHOOSE w \in MCContexts : TRUE
    /\ IF part = "skills" THEN folder \in [Path -> File] ELSE folder = OneFolder
    /\ IF part = "wiring" THEN setup \in Setup ELSE setup = OneSetup
    /\ RoutingStart /\ SkillsStart /\ WiringStart /\ RecallStart
    /\ failures \in (IF part = "recall" THEN {0, DisabledAfter - 1} ELSE {0})

MCNext ==
    /\ UNCHANGED part
    /\ \/ part = "routing" /\ RoutingNext /\ UNCHANGED <<skillVars, wiringVars, recallVars>>
       \/ part = "skills" /\ SkillsNext /\ UNCHANGED <<routingVars, wiringVars, recallVars>>
       \/ part = "wiring" /\ WiringNext /\ UNCHANGED <<routingVars, skillVars, recallVars>>
       \/ part = "recall" /\ RecallNext /\ UNCHANGED <<routingVars, skillVars, wiringVars>>

MCSpec == MCInit /\ [][MCNext]_<<part, routingVars, skillVars, wiringVars, recallVars>>
=============================================================================
