------------------------------- MODULE Wiring -------------------------------
(***************************************************************************)
(* Building the application (build_app): plugins register their tools and  *)
(* context engine, then the built-in tools and the memory tools are        *)
(* registered, then the agents are created, each with the tools of its     *)
(* profile and a model.  A step is one plugin, one phase or one agent.     *)
(***************************************************************************)
EXTENDS Integers, Sequences, FiniteSets, Functions, SequencesExt

CONSTANT Setup  \* the settings and installations to choose from

(* A setup is [enabled, entryPoints, directories, autoload, providers,     *)
(* openclaw, agents]; a plugin is [name, calls, engine, outcome]: the      *)
(* tools it registers, with their groups, before it returns or raises.     *)
(* extra stands for any other tool of a plugin.                            *)
(* The APIs that _create_custom_model knows, and _STANDARD_PROVIDERS.      *)
CustomAPI == {"anthropic-messages", "openai-chat", "zai-anthropic"}
Standard == {"anthropic", "openai", "ollama"}

GroupNames == {"group:memory", "group:cron", "group:session", "group:fs"}

(* get_builtin_groups, one or two tools each; group:fs stands for all the  *)
(* groups that begin empty.                                                *)
BuiltinGroups ==
    [g \in GroupNames |->
        CASE g = "group:memory"  -> {"save_memory"}
          [] g = "group:cron"    -> {"create_cron", "list_crons"}
          [] g = "group:session" -> {"list_sessions"}
          [] g = "group:fs"      -> {}]

BuiltinTools == BuiltinGroups["group:cron"] \cup BuiltinGroups["group:session"]
MemoryTools == {"memory_search", "memory_append"}
ToolNames == (UNION Range(BuiltinGroups)) \cup MemoryTools \cup {"extra"}

Plugin == [name : STRING, calls : SUBSET [tool : ToolNames, groups : SUBSET GroupNames],
           engine : BOOLEAN, outcome : {"returns", "raises", "no register"}]

AgentConfig == [id : STRING, profile : STRING, tools : SUBSET STRING, provider : STRING]

ASSUME SetupAssumption ==
    \A s \in Setup : /\ s.entryPoints \in Seq(Plugin) /\ s.directories \in Seq(Plugin)
                     /\ s.agents \in Seq(AgentConfig)

VARIABLES
    setup,      \* the settings and the installed plugins
    phase,
    manifests,  \* _manifests not loaded yet
    loaded,     \* _states: plugin name |-> enabled
    owner,      \* _tools: tool name |-> who registered it
    groups,     \* _tool_groups
    engine,     \* who registered the default context engine
    memoryOn,   \* memory_core is not None
    providers,  \* settings.providers: provider |-> API
    created,    \* the agent configurations done
    team        \* agents: id |-> its tools, with their owners, and its engine

wiringVars ==
    <<setup, phase, manifests, loaded, owner, groups, engine, memoryOn, providers, created, team>>

WiringTypeOK ==
    /\ setup \in Setup
    /\ phase \in {"discover", "plugins", "memory", "agents", "failed"}
    /\ manifests \in Seq(Plugin)
    /\ \A n \in DOMAIN loaded : loaded[n] \in BOOLEAN
    /\ DOMAIN owner \subseteq ToolNames
    /\ groups \in [GroupNames -> SUBSET ToolNames]
    /\ memoryOn \in BOOLEAN
    /\ created \in 0..Len(setup.agents)
    /\ DOMAIN team = {setup.agents[i].id : i \in 1..created}
    /\ \A a \in DOMAIN team : DOMAIN team[a].tools \subseteq DOMAIN owner

WiringStart ==
    /\ phase = "discover"
    /\ manifests = <<>>
    /\ loaded = <<>>
    /\ owner = <<>>
    /\ groups = BuiltinGroups
    /\ engine = "default"
    /\ memoryOn = FALSE
    /\ providers = setup.providers
    /\ created = 0
    /\ team = <<>>

(* The number of a set that k of them do not exceed.                       *)
Ranked(numbers, k) ==
    CHOOSE i \in numbers : Cardinality({j \in numbers : j <= i}) = k

(* discover: all entry points, then the plugins of the directories whose   *)
(* name no directory before them has; names of entry points do not count,  *)
(* since _manifests is not yet set.                                        *)
Discovered ==
    LET dir == setup.directories
        new == {i \in 1..Len(dir) : \A j \in 1..(i - 1) : dir[j].name # dir[i].name}
    IN setup.entryPoints \o [k \in 1..Cardinality(new) |-> dir[Ranked(new, k)]]

Discover ==
    /\ phase = "discover"
    /\ manifests' = IF setup.enabled THEN Discovered ELSE <<>>
    /\ phase' = "plugins"
    /\ UNCHANGED <<setup, loaded, owner, groups, engine, memoryOn, providers, created, team>>

(* Mutant of Register: the first tool of a name stays.                     *)
KeepFirst(own, tools, who) == own @@ [t \in tools |-> who]

(* ToolRegistry.register: the last tool of a name is the tool.             *)
Register(own, tools, who) ==
    [t \in tools \cup DOMAIN own |-> IF t \in tools THEN who ELSE own[t]]

(* ContextEngineRegistry.default after a plugin, which may take the name.  *)
DefaultEngine(p) == IF p.engine THEN p.name ELSE engine

(* load_all: the next plugin; what it registered before it raised stays.   *)
LoadPlugin ==
    LET p == Head(manifests)
        chosen == setup.autoload = {} \/ p.name \in setup.autoload
    IN /\ phase = "plugins"
       /\ manifests # <<>>
       /\ manifests' = Tail(manifests)
       /\ IF chosen /\ p.outcome # "no register"
          THEN /\ owner' = Register(owner, {c.tool : c \in p.calls}, p.name)
               /\ groups' = [g \in GroupNames |->
                                groups[g] \cup {c.tool : c \in {d \in p.calls : g \in d.groups}}]
               /\ engine' = DefaultEngine(p)
               /\ loaded' = [n \in {p.name} \cup DOMAIN loaded |->
                                IF n = p.name THEN p.outcome = "returns" ELSE loaded[n]]
          ELSE UNCHANGED <<owner, groups, engine, loaded>>
       /\ UNCHANGED <<setup, phase, memoryOn, providers, created, team>>

(* register_all_builtin_tools                                              *)
RegisterBuiltins ==
    /\ phase = "plugins"
    /\ manifests = <<>>
    /\ owner' = Register(owner, BuiltinTools, "builtin")
    /\ groups' = [g \in GroupNames |-> groups[g] \cup (BuiltinGroups[g] \cap BuiltinTools)]
    /\ phase' = "memory"
    /\ UNCHANGED <<setup, manifests, loaded, engine, memoryOn, providers, created, team>>

(* The memory subsystem, which may fail before or after its tools are      *)
(* registered; no group lists them.                                        *)
RegisterMemory ==
    /\ phase = "memory"
    /\ \/ UNCHANGED <<owner, memoryOn>>
       \/ /\ owner' = Register(owner, MemoryTools, "memory")
          /\ memoryOn' \in BOOLEAN
    /\ phase' = "agents"
    /\ UNCHANGED <<setup, manifests, loaded, groups, engine, providers, created, team>>

(* get_profile_groups: an unknown profile is the full one.                 *)
ProfileGroups(profile) ==
    CASE profile = "minimal" -> {"group:memory"}
      [] profile = "coding"  -> {"group:memory", "group:fs"}
      [] OTHER               -> GroupNames

(* _expand_names                                                           *)
Expand(names) == (names \ GroupNames) \cup UNION {groups[g] : g \in names \cap GroupNames}

(* get_tools: the profile, restricted to the allow list if there is one.   *)
ToolsOf(config) ==
    LET base == UNION {groups[g] : g \in ProfileGroups(config.profile)}
    IN (IF config.tools = {} THEN base ELSE base \cap Expand(config.tools)) \cap DOMAIN owner

(* resolve_model for a provider: whether a model comes out, when langchain *)
(* answers `langchain`, and the providers of the settings afterwards.      *)
Resolution(provider, langchain) ==
    LET fromOpenClaw == /\ provider \notin DOMAIN providers \cup Standard
                        /\ provider \in DOMAIN setup.openclaw
    IN [providers |-> IF fromOpenClaw
                      THEN (provider :> setup.openclaw[provider]) @@ providers
                      ELSE providers,
        ok |-> CASE provider \in DOMAIN providers -> providers[provider] \in CustomAPI
                 [] fromOpenClaw -> setup.openclaw[provider] \in CustomAPI \/ langchain
                 [] OTHER -> langchain]

(* create_agent for the next configuration; one that has no model ends the *)
(* start.  A later agent of the same id replaces the earlier.              *)
CreateAgent ==
    LET config == setup.agents[created + 1]
        tools == ToolsOf(config)
    IN /\ phase = "agents"
       /\ created < Len(setup.agents)
       /\ \E langchain \in BOOLEAN :
            LET r == Resolution(config.provider, langchain) IN
            /\ providers' = r.providers
            /\ IF r.ok
               THEN /\ team' = [a \in {config.id} \cup DOMAIN team |->
                                  IF a = config.id
                                  THEN [tools |-> [t \in tools |-> owner[t]], engine |-> engine]
                                  ELSE team[a]]
                    /\ created' = created + 1
                    /\ UNCHANGED phase
               ELSE phase' = "failed" /\ UNCHANGED <<team, created>>
       /\ UNCHANGED <<setup, manifests, loaded, owner, groups, engine, memoryOn>>

WiringNext ==
    \/ Discover \/ LoadPlugin \/ RegisterBuiltins \/ RegisterMemory \/ CreateAgent

WiringSpec == setup \in Setup /\ WiringStart /\ [][WiringNext]_wiringVars

-----------------------------------------------------------------------------
(* Properties *)

(* Whatever tools plugins register, under whatever names and whether or    *)
(* not they then fail, an agent that has a cron or session tool has the    *)
(* built-in one, and an agent that has a memory tool has that of the       *)
(* memory subsystem if it is on.                                           *)
BuiltinsAreTheirs ==
    \A a \in DOMAIN team : \A t \in DOMAIN team[a].tools :
        /\ t \in BuiltinTools => team[a].tools[t] = "builtin"
        /\ t \in MemoryTools /\ memoryOn => team[a].tools[t] = "memory"

(* The prompt of every agent tells it to run memory_search before it       *)
(* answers (loop.py), so an agent of the full profile that lists no tools  *)
(* has it when the memory subsystem is on.                                 *)
MemoryToolsReach ==
    Len(setup.agents) = created /\ memoryOn =>
        \A i \in 1..Len(setup.agents) :
            LET c == setup.agents[i] IN
            c.profile = "full" /\ c.tools = {} => "memory_search" \in DOMAIN team[c.id].tools

(* The inductive invariant of LookupsProofs: the built-in tools are theirs *)
(* from their registration on, the memory tools are if it succeeded, and   *)
(* agents are created after both and hold the tools that are registered.   *)
BuiltinsOwned == \A t \in BuiltinTools : t \in DOMAIN owner /\ owner[t] = "builtin"

MemoryOwned == \A t \in MemoryTools : t \in DOMAIN owner /\ owner[t] = "memory"

WiringInv ==
    /\ phase \in {"memory", "agents", "failed"} => BuiltinsOwned
    /\ memoryOn => MemoryOwned /\ phase \in {"agents", "failed"}
    /\ phase \notin {"agents", "failed"} => DOMAIN team = {}
    /\ \A a \in DOMAIN team : \A t \in DOMAIN team[a].tools : team[a].tools[t] = owner[t]
=============================================================================
