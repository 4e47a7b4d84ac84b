--------------------------- MODULE TransportJoin ---------------------------
(***************************************************************************)
(* DDSManager::joinDomain and ~DDSManager for several managers of one      *)
(* process.  A participant must not share its RTPS transport with another  *)
(* one, so joinDomain counts the joins of each domain in the global        *)
(* g_transportInstances and makes, for its participant alone, a transport  *)
(* configuration and transports named after the domain and the count.  A   *)
(* joinDomain with a config argument does not: it binds that section of    *)
(* the INI file, whoever else is bound to it, and a participant that was   *)
(* never bound is left with the INI file's global configuration.           *)
(*                                                                         *)
(* Each manager is used by one thread.  m_transportMapMutex is a member of *)
(* the manager, so the threads of two managers interleave at every access  *)
(* to the global counter and to OpenDDS's transport registry.  What the    *)
(* registry does is modelled from how the code uses it: it keeps what was  *)
(* created for the life of the process and refuses a name that is taken.   *)
(***************************************************************************)
EXTENDS Integers

CONSTANTS
    Managers,       \* DDSManager objects; a deleted one is constructed anew
    Domains,        \* domain IDs
    NoDomain,       \* no domain participant
    NoConfig,       \* a participant that was not bound to a configuration
    NamedConfig,    \* the [config/NAME] section of the INI file
    MaxJoins        \* bound: joinDomain calls per manager

ASSUME JoinAssumption ==
    /\ Domains \subseteq Nat
    /\ NoDomain \notin Domains
    /\ MaxJoins \in Nat
    /\ NoConfig # NamedConfig /\ NoConfig \notin Domains
    /\ {NoConfig, NamedConfig} \cap (Domains \X Nat) = {}

VARIABLES
    g_transportInstances,   \* [Domains -> Nat]: the global map, 0 = no entry
    configs,                \* "config-D-N" names in the registry, as <<D, N>>
    transports,             \* "rtps_udp-D-N" names in the registry
    rtps,                   \* rtps_udp instances in the INI file
    participant,            \* [Managers -> domain of m_domainParticipant]
    bound,                  \* [Managers -> the configuration bound to it]
    carried,                \* [Managers -> the RTPS transports made for it]
    joined,                 \* [Managers -> BOOLEAN]: joinDomain returned true
    pc,                     \* [Managers -> where joinDomain is]
    config,                 \* [Managers -> the config argument, "none" = empty]
    seen,                   \* [Managers -> Nat]: the counter as it was read
    configName,             \* [Managers -> the name for the configuration]
    instLeft,               \* [Managers -> rtps_udp instances still to copy]
    joinsLeft,              \* [Managers -> 0..MaxJoins]: the bound
    raced,                  \* auxiliary: two managers have been joining at once
    spoiled                 \* auxiliary: managers whose participant was left by
                            \* a joinDomain that failed after creating it

registryVars == <<g_transportInstances, configs, transports, rtps>>
managerVars == <<participant, bound, carried, joined>>
threadVars == <<pc, config, seen, configName, instLeft>>
vars == <<registryVars, managerVars, threadVars, joinsLeft, raced, spoiled>>

Names == Domains \X Nat
PCs == {"idle", "read", "write", "name", "lookup", "create", "inst"}

TypeOK ==
    /\ g_transportInstances \in [Domains -> Nat]
    /\ configs \subseteq Names
    /\ transports \subseteq Names
    /\ rtps \in 0..2
    /\ participant \in [Managers -> Domains \cup {NoDomain}]
    /\ bound \in [Managers -> Names \cup {NoConfig, NamedConfig}]
    /\ carried \in [Managers -> SUBSET Names]
    /\ joined \in [Managers -> BOOLEAN]
    /\ pc \in [Managers -> PCs]
    /\ config \in [Managers -> {"none", "known", "unknown"}]
    /\ seen \in [Managers -> Nat]
    /\ configName \in [Managers -> Names \cup {NoConfig}]
    /\ instLeft \in [Managers -> 0..2]
    /\ joinsLeft \in [Managers -> 0..MaxJoins]
    /\ raced \in BOOLEAN
    /\ spoiled \subseteq Managers

Init ==
    /\ g_transportInstances = [d \in Domains |-> 0]
    /\ configs = {} /\ transports = {}
    /\ rtps \in 0..2
    /\ participant = [m \in Managers |-> NoDomain]
    /\ bound = [m \in Managers |-> NoConfig]
    /\ carried = [m \in Managers |-> {}]
    /\ joined = [m \in Managers |-> FALSE]
    /\ pc = [m \in Managers |-> "idle"]
    /\ config = [m \in Managers |-> "none"]
    /\ seen = [m \in Managers |-> 0]
    /\ configName = [m \in Managers |-> NoConfig]
    /\ instLeft = [m \in Managers |-> 0]
    /\ joinsLeft = [m \in Managers |-> MaxJoins]
    /\ raced = FALSE
    /\ spoiled = {}

-----------------------------------------------------------------------------
(* joinDomain.                                                             *)

Goto(m, p) == pc' = [pc EXCEPT ![m] = p]

\* joinDomain ends; a participant that is not usable stays where it is.
ReturnTrue(m) == /\ Goto(m, "idle")
                 /\ joined' = [joined EXCEPT ![m] = TRUE]
                 /\ UNCHANGED spoiled
ReturnFalse(m) == /\ Goto(m, "idle")
                  /\ joined' = [joined EXCEPT ![m] = FALSE]
                  /\ spoiled' = spoiled \cup {m}

\* A join starts on an idle manager.
Start(m) ==
    /\ pc[m] = "idle"
    /\ joinsLeft[m] > 0
    /\ joinsLeft' = [joinsLeft EXCEPT ![m] = @ - 1]

\* With a participant there is nothing to do but to compare the domains.
JoinAgain(m, d) ==
    /\ Start(m)
    /\ participant[m] # NoDomain
    /\ joined' = [joined EXCEPT ![m] = d = participant[m]]
    /\ UNCHANGED <<registryVars, participant, bound, carried, threadVars, raced,
                   spoiled>>

\* The INI file cannot be read (an exception), there is no factory, or the
\* participant cannot be created.
JoinFail(m) ==
    /\ Start(m)
    /\ participant[m] = NoDomain
    /\ joined' = [joined EXCEPT ![m] = FALSE]
    /\ UNCHANGED <<registryVars, participant, bound, carried, threadVars, raced,
                   spoiled>>

\* create_participant; from here on other managers may interfere.
JoinCreate(m, d, c) ==
    /\ Start(m)
    /\ participant[m] = NoDomain
    /\ participant' = [participant EXCEPT ![m] = d]
    /\ config' = [config EXCEPT ![m] = c]
    /\ Goto(m, "read")
    /\ raced' = (raced \/ \E n \in Managers \ {m} : pc[n] # "idle")
    /\ UNCHANGED <<registryVars, bound, carried, joined, seen, configName,
                   instLeft, spoiled>>

\* The counter is looked up ...
ReadCount(m) ==
    /\ pc[m] = "read"
    /\ seen' = [seen EXCEPT ![m] = g_transportInstances[participant[m]]]
    /\ Goto(m, "write")
    /\ UNCHANGED <<registryVars, managerVars, config, configName, instLeft,
                   joinsLeft, raced, spoiled>>

\* Mutant: the counter is written back as it was.
WriteCountSame(m) ==
    /\ pc[m] = "write"
    /\ g_transportInstances' =
          [g_transportInstances EXCEPT ![participant[m]] = seen[m]]
    /\ Goto(m, "name")
    /\ UNCHANGED <<configs, transports, rtps, managerVars, config, seen,
                   configName, instLeft, joinsLeft, raced, spoiled>>

\* Mutant: the counter counts down.
WriteCountDown(m) ==
    /\ pc[m] = "write"
    /\ g_transportInstances' =
          [g_transportInstances EXCEPT ![participant[m]] = seen[m] - 1]
    /\ Goto(m, "name")
    /\ UNCHANGED <<configs, transports, rtps, managerVars, config, seen,
                   configName, instLeft, joinsLeft, raced, spoiled>>

\* ... and written.  A config argument is all the rest then: it is bound, with
\* the transports it has (UsedBy), or there is no such section.
WriteCount(m) ==
    /\ pc[m] = "write"
    /\ g_transportInstances' =
          [g_transportInstances EXCEPT ![participant[m]] = seen[m] + 1]
    /\ \/ /\ config[m] = "none"
          /\ Goto(m, "name")
          /\ UNCHANGED <<bound, joined, spoiled>>
       \/ /\ config[m] = "known"
          /\ bound' = [bound EXCEPT ![m] = NamedConfig]
          /\ ReturnTrue(m)
       \/ /\ config[m] = "unknown"
          /\ ReturnFalse(m)
          /\ UNCHANGED bound
    /\ UNCHANGED <<configs, transports, rtps, participant, carried, config, seen,
                   configName, instLeft, joinsLeft, raced>>

\* Mutant: the name is off by one.
NameConfigNext(m) ==
    /\ pc[m] = "name"
    /\ configName' = [configName EXCEPT
                         ![m] = <<participant[m],
                                  g_transportInstances[participant[m]] + 1>>]
    /\ Goto(m, "lookup")
    /\ UNCHANGED <<registryVars, managerVars, config, seen, instLeft, joinsLeft,
                   raced, spoiled>>

\* The counter is read once more for the name.
NameConfig(m) ==
    /\ pc[m] = "name"
    /\ configName' = [configName EXCEPT
                         ![m] = <<participant[m],
                                  g_transportInstances[participant[m]]>>]
    /\ Goto(m, "lookup")
    /\ UNCHANGED <<registryVars, managerVars, config, seen, instLeft, joinsLeft,
                   raced, spoiled>>

\* Mutant: the configuration that is there is bound, as the message says.
LookupConfigBind(m) ==
    /\ pc[m] = "lookup"
    /\ Goto(m, IF configName[m] \in configs THEN "inst" ELSE "create")
    /\ UNCHANGED <<registryVars, managerVars, config, seen, configName, instLeft,
                   joinsLeft, raced, spoiled>>

\* get_config.  A configuration that is there makes joinDomain return true
\* ("Binding transport registry to existing config"), but it is not bound.
LookupConfig(m) ==
    /\ pc[m] = "lookup"
    /\ IF configName[m] \in configs
       THEN ReturnTrue(m)
       ELSE Goto(m, "create") /\ UNCHANGED <<joined, spoiled>>
    /\ UNCHANGED <<registryVars, participant, bound, carried, config, seen,
                   configName, instLeft, joinsLeft, raced>>

\* create_config; a name taken in the meantime is refused with an exception.
CreateConfig(m) ==
    /\ pc[m] = "create"
    /\ IF configName[m] \in configs
       THEN ReturnFalse(m) /\ UNCHANGED <<configs, instLeft>>
       ELSE /\ configs' = configs \cup {configName[m]}
            /\ instLeft' = [instLeft EXCEPT ![m] = rtps]
            /\ Goto(m, "inst")
            /\ UNCHANGED <<joined, spoiled>>
    /\ UNCHANGED <<g_transportInstances, transports, rtps, participant, bound,
                   carried, config, seen, configName, joinsLeft, raced>>

\* create_inst for one rtps_udp instance of the global configuration, under a
\* name made from yet another read of the counter.
CreateInst(m) ==
    LET name == <<participant[m], g_transportInstances[participant[m]]>> IN
    /\ pc[m] = "inst"
    /\ instLeft[m] > 0
    /\ IF name \in transports
       THEN ReturnFalse(m) /\ UNCHANGED <<transports, carried, instLeft>>
       ELSE /\ transports' = transports \cup {name}
            /\ carried' = [carried EXCEPT ![m] = @ \cup {name}]
            /\ instLeft' = [instLeft EXCEPT ![m] = @ - 1]
            /\ UNCHANGED <<pc, joined, spoiled>>
    /\ UNCHANGED <<g_transportInstances, configs, rtps, participant, bound,
                   config, seen, configName, joinsLeft, raced>>

\* bind_config once every instance has been gone through.
BindConfig(m) ==
    /\ pc[m] = "inst"
    /\ instLeft[m] = 0
    /\ bound' = [bound EXCEPT ![m] = configName[m]]
    /\ ReturnTrue(m)
    /\ UNCHANGED <<registryVars, participant, carried, config, seen, configName,
                   instLeft, joinsLeft, raced>>

-----------------------------------------------------------------------------
(* ~DDSManager, and a new manager in its place.  The counter and the       *)
(* registry keep what they have.                                           *)

Delete(m) ==
    /\ pc[m] = "idle"
    /\ participant[m] # NoDomain
    /\ participant' = [participant EXCEPT ![m] = NoDomain]
    /\ bound' = [bound EXCEPT ![m] = NoConfig]
    /\ carried' = [carried EXCEPT ![m] = {}]
    /\ joined' = [joined EXCEPT ![m] = FALSE]
    /\ spoiled' = spoiled \ {m}
    /\ UNCHANGED <<registryVars, threadVars, joinsLeft, raced>>

-----------------------------------------------------------------------------

Join(m) ==
    \/ \E d \in Domains : JoinAgain(m, d)
    \/ JoinFail(m)
    \/ \E d \in Domains, c \in {"none", "known", "unknown"} : JoinCreate(m, d, c)

Configure(m) ==
    \/ ReadCount(m) \/ WriteCount(m) \/ NameConfig(m) \/ LookupConfig(m)
    \/ CreateConfig(m) \/ CreateInst(m) \/ BindConfig(m)

\* Every manager is deleted and every bound used up.
Finished ==
    /\ \A m \in Managers :
          pc[m] = "idle" /\ participant[m] = NoDomain /\ joinsLeft[m] = 0
    /\ UNCHANGED vars

Next ==
    \/ \E m \in Managers : Join(m) \/ Configure(m) \/ Delete(m)
    \/ Finished

Spec == Init /\ [][Next]_vars

-----------------------------------------------------------------------------
(* Properties.                                                             *)

\* The rtps_udp instances of the INI file itself.
IniTransports == {NoConfig} \X (1..rtps)

\* The RTPS transports a participant's endpoints use: those that were made for
\* it once it is bound to its own configuration, and the INI file's if it is
\* bound to a section or was left unbound by the joinDomain that created it.  A
\* section may name all of the file's instances; that it does is the worst case.
UsedBy(m) ==
    IF bound[m] \in Names \/ pc[m] # "idle" THEN carried[m]
    ELSE IF participant[m] # NoDomain THEN IniTransports
    ELSE {}

\* A participant for which joinDomain made no transports of its own: it was told
\* to use a section, an earlier joinDomain failed half-way, or two managers have
\* been joining at once and the name was taken.
OnIniFile(m) ==
    \/ bound[m] = NamedConfig
    \/ bound[m] = NoConfig /\ (m \in spoiled \/ raced)

\* "We need to use unique transports as they are unique participants", whether
\* the managers joined one after the other, after a deletion, or at the same
\* time: two participants use one RTPS transport only if both are on the INI
\* file's own, and none is bound to the configuration made for another.
UniqueTransport ==
    \A m, n \in Managers : m # n =>
        /\ UsedBy(m) \cap UsedBy(n) # {} => OnIniFile(m) /\ OnIniFile(n)
        /\ bound[m] = bound[n] => bound[m] \in {NoConfig, NamedConfig}

\* A manager whose joinDomain returned true has its participant bound to a
\* configuration, with a transport for every rtps_udp instance of the INI file
\* if it made the configuration itself.  The two ways around it: an earlier
\* joinDomain failed after it had created the participant, or two managers have
\* been joining at the same time.
JoinedIsBound ==
    \A m \in Managers :
        joined[m] /\ pc[m] = "idle" =>
            \/ bound[m] = NamedConfig
            \/ bound[m] \in configs /\ (carried[m] = {} <=> rtps = 0)
            \/ m \in spoiled
            \/ raced

\* As long as managers join one after the other the counter covers every name
\* in the registry: the next join finds its names free, and a configuration that
\* is being filled carries the count its transports will have.
CounterCovers ==
    ~raced =>
        /\ \A c \in configs \cup transports : c[2] <= g_transportInstances[c[1]]
        /\ \A m \in Managers : pc[m] \in {"lookup", "create"} =>
               configName[m] \notin configs \cup transports
=============================================================================
