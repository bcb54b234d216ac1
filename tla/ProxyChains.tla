----------------------------- MODULE ProxyChains ----------------------------
(***************************************************************************)
(* The proxy chains of Team owners (ProxyChainManager of                   *)
(* src/team_protocol/proxy_chain.py, set_icloud_owner_proxy of             *)
(* web_console.py and its transaction in database.py). API threads change  *)
(* an owner's configuration or make its chain ready; connections of a      *)
(* workflow ask for the second hop. Relays are started and stopped under   *)
(* the apply lock, a source is asked under the owner's lock, and the       *)
(* configuration is read outside of both.                                  *)
(***************************************************************************)
EXTENDS Naturals, FiniteSets

CONSTANTS
  ChainOwners,       \* the Team owners
  ChainThreads,      \* API threads
  RelayPorts,        \* the local ports
  FirstOwner,        \* an owner whose chain is configured when the console starts
  Connected,         \* the owners whose relay is connected to
  MaxChainOps,       \* bounds the operations; operation n may configure source n
  MaxChainFaults     \* bounds failures of a source, of a bind and restarts

ASSUME ProxyChainsAssumption ==
  /\ RelayPorts \subseteq Nat \ {0} /\ MaxChainOps \in Nat /\ MaxChainFaults \in Nat
  /\ FirstOwner \in ChainOwners /\ Connected \subseteq ChainOwners /\ "none" \notin ChainThreads

NoPort == 0
DirectConfig == [source |-> 0, port |-> NoPort]
IsChain(cfg) == cfg.source # 0
NoOwner == "none"

VARIABLES
  chainConfig,       \* settings and icloud_aliases.proxy: the stored configuration
  relay,             \* _relays, _relay_configs: the configuration each relay runs
  cache,             \* _cache: the source of each owner's second hop, 0 without one
  applyLock,         \* the thread that holds _apply_lock
  desired,           \* the configurations it has read
  ownerLock,         \* who holds each owner's lock: a thread, or a connection
  pending,           \* by thread: operation, place, owner, configuration
  asks,              \* by owner: the connection's place and the source it has read
  sources,           \* the number of operations so far
  unapplied,         \* history: owners configured by a thread that then failed
  clashed,           \* history: owners whose port was chosen beside another choice
  outdated,          \* history: owners whose source changed while it was asked, whose second
                     \* hop was cached without a relay, or whose relay could not be started
  chainFaults

stores == <<chainConfig, sources>>
histories == <<unapplied, clashed, outdated>>
chainVars == <<stores, relay, cache, applyLock, desired, ownerLock, pending, asks, histories, chainFaults>>

Rest == [op |-> "none", place |-> "off", owner |-> NoOwner, cfg |-> DirectConfig]
NoAsk == [place |-> "off", source |-> 0]

ChainTypeOK ==
  /\ \A o \in ChainOwners :
       /\ chainConfig[o].source \in 0..sources /\ relay[o].source \in 0..sources
       /\ (IsChain(chainConfig[o]) <=> chainConfig[o].port \in RelayPorts)
       /\ cache[o] \in 0..sources /\ asks[o].place \in {"off", "read", "fetch"}
  /\ applyLock \in ChainThreads \cup {NoOwner}
  /\ \A t \in ChainThreads :
       /\ pending[t].op \in {"none", "chain", "direct", "ready"}
       /\ pending[t].place \in {"off", "prepare", "store", "lock", "stop", "start", "read",
                                "wait", "fetch", "check"}
       /\ (applyLock = t <=> pending[t].place \in {"stop", "start"})

ChainInit ==
  /\ \E port \in RelayPorts :
       chainConfig = [o \in ChainOwners |->
                        IF o = FirstOwner THEN [source |-> 1, port |-> port] ELSE DirectConfig]
  /\ relay = chainConfig /\ cache = [o \in ChainOwners |-> 0]
  /\ applyLock = NoOwner /\ desired = [o \in ChainOwners |-> DirectConfig]
  /\ ownerLock = [o \in ChainOwners |-> NoOwner]
  /\ pending = [t \in ChainThreads |-> Rest] /\ asks = [o \in ChainOwners |-> NoAsk]
  /\ sources = 1 /\ unapplied = {} /\ clashed = {} /\ outdated = {} /\ chainFaults = 0

At(t, place) == pending[t].place = place
Step3(t, place) == pending' = [pending EXCEPT ![t].place = place]
Stops(t) == pending' = [pending EXCEPT ![t] = Rest]
ChainFault == chainFaults < MaxChainFaults /\ chainFaults' = chainFaults + 1
Asking(o) == {t \in ChainThreads : pending[t].owner = o /\ pending[t].place \in {"wait", "fetch"}}
\* Only a relay that stops loses its cached second hop.
CachedWithoutRelay(o) == cache'[o] # 0 /\ ~IsChain(relay[o])
-----------------------------------------------------------------------------
(* set_icloud_owner_proxy. *)

Begins(t) == At(t, "off") /\ sources <= MaxChainOps /\ sources' = sources + 1

BeginChain(t, o) ==
  /\ Begins(t)
  /\ pending' = [pending EXCEPT ![t] =
                   [op |-> "chain", place |-> "prepare", owner |-> o,
                    cfg |-> [source |-> sources', port |-> NoPort]]]
  /\ UNCHANGED <<chainConfig, relay, cache, applyLock, desired, ownerLock, asks,
                 histories, chainFaults>>

\* A chain that is replaced by a direct proxy has its relay stopped.
BeginDirect(t, o) ==
  /\ Begins(t) /\ IsChain(chainConfig[o])
  /\ pending' = [pending EXCEPT ![t] = [op |-> "direct", place |-> "store", owner |-> o, cfg |-> DirectConfig]]
  /\ UNCHANGED <<chainConfig, relay, cache, applyLock, desired, ownerLock, asks, histories, chainFaults>>

TakenPorts(o) == {chainConfig[p].port : p \in ChainOwners} \cup {relay[p].port : p \in ChainOwners}

Chosen(e, port) == [e EXCEPT !.place = "store", !.cfg = [source |-> e.cfg.source, port |-> port]]

\* An owner keeps its port, a new chain gets a free one.
Prepare(t) ==
  /\ At(t, "prepare")
  /\ LET o == pending[t].owner
         others == {u \in ChainThreads \ {t} : pending[u].op = "chain" /\ At(u, "store")}
     IN  \/ /\ IsChain(chainConfig[o])
            /\ pending' = [pending EXCEPT ![t] = Chosen(@, chainConfig[o].port)]
            /\ UNCHANGED clashed
         \/ /\ ~IsChain(chainConfig[o])
            /\ \E port \in RelayPorts \ TakenPorts(o) :
                 pending' = [pending EXCEPT ![t] = Chosen(@, port)]
            /\ clashed' = IF others = {} THEN clashed
                          ELSE clashed \cup {o} \cup {pending[u].owner : u \in others}
         \/ /\ ~IsChain(chainConfig[o]) /\ RelayPorts \subseteq TakenPorts(o)
            /\ Stops(t) /\ UNCHANGED clashed
  /\ UNCHANGED <<stores, relay, cache, applyLock, desired, ownerLock, asks, unapplied, outdated,
                 chainFaults>>

\* One transaction: the owner's configuration, and the proxy of its children
\* that are not used up, which follows it and is left out here.
StoreConfig(t) ==
  /\ At(t, "store")
  /\ pending' = [pending EXCEPT ![t] = [@ EXCEPT !.place = "lock", !.cfg = DirectConfig]]
  /\ LET o == pending[t].owner IN
     /\ chainConfig' = [chainConfig EXCEPT ![o] = pending[t].cfg]
     /\ outdated' = IF Asking(o) # {} \/ asks[o].place # "off"
                      THEN outdated \cup {o} ELSE outdated
  /\ UNCHANGED <<sources, relay, cache, applyLock, desired, ownerLock, asks, unapplied, clashed,
                 chainFaults>>

\* ensure_ready, before a handoff is prepared.
BeginReady(t, o) ==
  /\ Begins(t) /\ IsChain(chainConfig[o])
  /\ pending' = [pending EXCEPT ![t] =
                   [op |-> "ready", place |-> "lock", owner |-> o, cfg |-> DirectConfig]]
  /\ UNCHANGED <<chainConfig, relay, cache, applyLock, desired, ownerLock, asks, histories, chainFaults>>
-----------------------------------------------------------------------------
(* apply. *)

ApplyLock(t) ==
  /\ At(t, "lock") /\ applyLock = NoOwner /\ applyLock' = t /\ desired' = chainConfig
  /\ Step3(t, "stop")
  /\ UNCHANGED <<stores, relay, cache, ownerLock, asks, histories, chainFaults>>

\* Mutant: only relays without a configuration stop.
StopStale(t) ==
  /\ At(t, "stop") /\ Step3(t, "start")
  /\ LET stopped == {o \in ChainOwners : IsChain(relay[o]) /\ ~IsChain(desired[o])} IN
     /\ relay' = [o \in ChainOwners |-> IF o \in stopped THEN DirectConfig ELSE relay[o]]
     /\ cache' = [o \in ChainOwners |-> IF o \in stopped THEN 0 ELSE cache[o]]
  /\ UNCHANGED <<stores, applyLock, desired, ownerLock, asks, histories, chainFaults>>

\* Relays without a configuration, or with another one, stop and lose their
\* cached second hop.
ApplyStop(t) ==
  /\ At(t, "stop") /\ Step3(t, "start")
  /\ LET stopped == {o \in ChainOwners : IsChain(relay[o]) /\ relay[o] # desired[o]} IN
     /\ relay' = [o \in ChainOwners |-> IF o \in stopped THEN DirectConfig ELSE relay[o]]
     /\ cache' = [o \in ChainOwners |-> IF o \in stopped THEN 0 ELSE cache[o]]
  /\ UNCHANGED <<stores, applyLock, desired, ownerLock, asks, histories, chainFaults>>

Starting == {o \in ChainOwners : IsChain(desired[o]) /\ ~IsChain(relay[o])}

PortsFree ==
  \A o \in Starting : \A p \in ChainOwners \ {o} :
    /\ relay[p].port # desired[o].port
    /\ p \in Starting => desired[p].port # desired[o].port

\* All missing relays start, or - when one cannot bind its port - none does.
ApplyStart(t) ==
  /\ At(t, "start") /\ applyLock' = NoOwner /\ desired' = [o \in ChainOwners |-> DirectConfig]
  /\ \/ /\ PortsFree
        /\ relay' = [o \in ChainOwners |-> IF o \in Starting THEN desired[o] ELSE relay[o]]
        /\ IF pending[t].op = "direct" THEN Stops(t) ELSE Step3(t, "read")
        /\ unapplied' = {} /\ UNCHANGED <<outdated, chainFaults>>
     \/ /\ IF PortsFree THEN Starting # {} /\ ChainFault ELSE UNCHANGED chainFaults
        /\ Stops(t) /\ UNCHANGED relay
        /\ unapplied' = unapplied \cup Starting /\ outdated' = outdated \cup Starting
  /\ UNCHANGED <<stores, cache, ownerLock, asks, clashed>>
-----------------------------------------------------------------------------
(* refresh, forced by an API thread. *)

RefreshRead(t) ==
  /\ At(t, "read")
  /\ IF IsChain(chainConfig[pending[t].owner])
       THEN pending' = [pending EXCEPT ![t] = [@ EXCEPT !.place = "wait", !.cfg = chainConfig[pending[t].owner]]]
       ELSE Stops(t)
  /\ UNCHANGED <<stores, relay, cache, applyLock, desired, ownerLock, asks, histories, chainFaults>>

RefreshWait(t) ==
  /\ At(t, "wait") /\ ownerLock[pending[t].owner] = NoOwner
  /\ ownerLock' = [ownerLock EXCEPT ![pending[t].owner] = t] /\ Step3(t, "fetch")
  /\ UNCHANGED <<stores, relay, cache, applyLock, desired, asks, histories, chainFaults>>

RefreshFetch(t) ==
  /\ At(t, "fetch")
  /\ LET o == pending[t].owner IN
     /\ ownerLock' = [ownerLock EXCEPT ![o] = NoOwner]
     /\ \/ /\ cache' = [cache EXCEPT ![o] = pending[t].cfg.source]
           /\ IF pending[t].op = "ready" THEN Step3(t, "check") ELSE Stops(t)
           /\ UNCHANGED chainFaults
        \/ ChainFault /\ Stops(t) /\ UNCHANGED cache
     /\ outdated' = IF CachedWithoutRelay(o) THEN outdated \cup {o}
                    ELSE IF Asking(o) = {t} /\ asks[o].place = "off" /\ cache'[o] = chainConfig[o].source
                      THEN outdated \ {o} ELSE outdated
  /\ UNCHANGED <<stores, relay, applyLock, desired, asks, unapplied, clashed>>

ReadyCheck(t) ==
  /\ At(t, "check") /\ Stops(t)
  /\ UNCHANGED <<stores, relay, cache, applyLock, desired, ownerLock, asks, histories, chainFaults>>
-----------------------------------------------------------------------------
(* refresh, for a connection of owner o's relay; and time. *)

AskCache(o) ==
  /\ IsChain(relay[o]) /\ asks[o].place = "off" /\ IsChain(chainConfig[o]) /\ cache[o] = 0
  /\ asks' = [asks EXCEPT ![o] = [place |-> "read", source |-> chainConfig[o].source]]
  /\ UNCHANGED <<stores, relay, cache, applyLock, desired, ownerLock, pending, histories, chainFaults>>

\* The cache is looked at again under the lock.
AskWait(o) ==
  /\ asks[o].place = "read" /\ ownerLock[o] = NoOwner
  /\ IF cache[o] # 0
       THEN asks' = [asks EXCEPT ![o] = NoAsk] /\ UNCHANGED ownerLock
       ELSE asks' = [asks EXCEPT ![o].place = "fetch"] /\ ownerLock' = [ownerLock EXCEPT ![o] = "connection"]
  /\ UNCHANGED <<stores, relay, cache, applyLock, desired, pending, histories, chainFaults>>

AskFetch(o) ==
  /\ asks[o].place = "fetch" /\ asks' = [asks EXCEPT ![o] = NoAsk]
  /\ ownerLock' = [ownerLock EXCEPT ![o] = NoOwner]
  /\ \/ cache' = [cache EXCEPT ![o] = asks[o].source] /\ UNCHANGED chainFaults
     \/ ChainFault /\ UNCHANGED cache
  /\ outdated' = IF CachedWithoutRelay(o) THEN outdated \cup {o} ELSE outdated
  /\ UNCHANGED <<stores, relay, applyLock, desired, pending, unapplied, clashed>>

CacheExpires(o) ==
  /\ cache[o] # 0 /\ cache' = [cache EXCEPT ![o] = 0]
  /\ outdated' = IF Asking(o) = {} /\ asks[o].place = "off" THEN outdated \ {o} ELSE outdated
  /\ UNCHANGED <<stores, relay, applyLock, desired, ownerLock, pending, asks, unapplied, clashed, chainFaults>>

\* The console is restarted: startup applies the stored configurations.
ConsoleRestart ==
  /\ ChainFault /\ cache' = [o \in ChainOwners |-> 0]
  /\ applyLock' = NoOwner /\ ownerLock' = [o \in ChainOwners |-> NoOwner]
  /\ pending' = [t \in ChainThreads |-> Rest] /\ asks' = [o \in ChainOwners |-> NoAsk]
  /\ desired' = [o \in ChainOwners |-> DirectConfig]
  /\ LET distinct == \A o, p \in ChainOwners :
                       o # p /\ IsChain(chainConfig[o]) => chainConfig[o].port # chainConfig[p].port
     IN  /\ relay' = IF distinct THEN chainConfig ELSE [o \in ChainOwners |-> DirectConfig]
         /\ unapplied' = IF distinct THEN {} ELSE ChainOwners
  /\ outdated' = {} /\ UNCHANGED <<stores, clashed>>

ChainStep(t) ==
  \/ Prepare(t) \/ StoreConfig(t) \/ ApplyLock(t) \/ ApplyStop(t) \/ ApplyStart(t)
  \/ RefreshRead(t) \/ RefreshWait(t) \/ RefreshFetch(t) \/ ReadyCheck(t)

ChainNext ==
  \/ \E t \in ChainThreads :
       \/ ChainStep(t)
       \/ \E o \in ChainOwners : BeginChain(t, o) \/ BeginDirect(t, o) \/ BeginReady(t, o)
  \/ \E o \in Connected : AskCache(o) \/ AskWait(o) \/ AskFetch(o) \/ CacheExpires(o)
  \/ ConsoleRestart

ChainSpec == ChainInit /\ [][ChainNext]_chainVars
-----------------------------------------------------------------------------
(* Properties. *)

\* Once every change is applied, the relays that run are those configured,
\* with their configuration, however the changes and their application
\* overlapped; unless a relay could not be started.
RelaysMatchConfigs ==
  (\A t \in ChainThreads : ~At(t, "lock") /\ ~At(t, "stop") /\ ~At(t, "start"))
    => \A o \in ChainOwners \ unapplied : relay[o] = chainConfig[o]

\* README.md: each owner has its own relay; two owners' ports differ, unless
\* both were chosen at the same time.
PortsAreDistinct ==
  \A o, p \in ChainOwners \ clashed :
    o # p /\ IsChain(chainConfig[o]) => chainConfig[o].port # chainConfig[p].port

\* Once a new source is applied, no second hop of an older one is cached,
\* unless an older one was being asked when the new one was stored, was cached
\* while the relay did not run, or the relay could not be started at first
\* (apply clears the cache of relays it stops, and of no others).
SourceIsCurrent ==
  \A o \in ChainOwners \ outdated :
    IsChain(relay[o]) /\ relay[o] = chainConfig[o] => cache[o] \in {0, chainConfig[o].source}

\* Configurations, running relays and cached second hops agree, in whatever
\* order threads store and apply them.
ChainsAgree == RelaysMatchConfigs /\ PortsAreDistinct /\ SourceIsCurrent
=============================================================================
