-------------------------- MODULE KernelRegistries --------------------------
(***************************************************************************)
(* The managers of the micro-kernel (crates/core) that are maps behind a   *)
(* mutex: objects and links, storage, policies, identities, plugins,       *)
(* drivers and processors, and the allocator whose counters are atomics.   *)
(* Calls that take the lock more than once are split where it is free.     *)
(***************************************************************************)
EXTENDS Naturals, Absent

CONSTANTS Object, LinkId,
          Key,            \* keys of storage, ids of policies and identities
          Value,
          PluginId, Plugin,
          DescriptorId,   \* plugin -> the id in its descriptor
          DriverName, Driver,
          NameOf,         \* driver (or processor) -> its name
          Offers,         \* driver -> capabilities, processor -> content types
          Ability,        \* the capabilities and content types callers ask for
          Caller,         \* threads
          MaxBytes        \* bound of the allocations counted

ASSUME RegistriesAssumption ==
    /\ DescriptorId \in [Plugin -> PluginId]
    /\ NameOf \in [Driver -> DriverName] /\ Offers \in [Driver -> SUBSET Ability]
    /\ MaxBytes \in Nat

VARIABLES
    objects, links,                    \* link id -> its two ends, or Nothing
    stored, policies, identities,      \* key -> value, or Nothing
    plugins,                           \* descriptor id -> the plugin registered
    pluginState,                       \* the plugin's own state
    bulk,                              \* caller -> start_all / stop_all under way
    drivers, processors,               \* name -> the instance registered
    executing,                         \* caller -> the Arc execute works on
    executed,                          \* history: (driver, capability) executed
    allocated, live, peak,             \* TrackingAllocator, deallocated left out
    allocating                         \* caller -> step of allocate

objectVars == <<objects, links>>
mapVars == <<stored, policies, identities>>
pluginVars == <<plugins, pluginState, bulk>>
driverVars == <<drivers, processors, executing, executed>>
memoryVars == <<allocated, live, peak, allocating>>
registriesVars == <<objectVars, mapVars, pluginVars, driverVars, memoryVars>>

NoBulk == [call |-> "none", ids |-> {}]

RegistriesInit ==
    /\ objects = {} /\ links = [l \in LinkId |-> Nothing]
    /\ stored = [k \in Key |-> Nothing]
    /\ policies = [k \in Key |-> Nothing]
    /\ identities = [k \in Key |-> Nothing]
    /\ plugins = [i \in PluginId |-> Nothing]
    /\ pluginState = [p \in Plugin |-> "stopped"]
    /\ bulk = [c \in Caller |-> NoBulk]
    /\ drivers = [n \in DriverName |-> Nothing]
    /\ processors = [n \in DriverName |-> Nothing]
    /\ executing = [c \in Caller |-> Nothing]
    /\ executed = {}
    /\ allocated = 0 /\ live = 0 /\ peak = 0
    /\ allocating = [c \in Caller |-> <<"idle", 0>>]

-----------------------------------------------------------------------------
(* InMemoryObjectManager.  An id is an Ulid: CreateObject may make an      *)
(* object again only because the instance has few of them.                 *)

CreateObject(o) ==
    /\ o \notin objects /\ \A l \in LinkId : links[l] # Nothing => o \notin links[l]
    /\ objects' = objects \cup {o} /\ UNCHANGED links

(* delete removes the object alone.                                        *)
DeleteObject(o) == o \in objects /\ objects' = objects \ {o} /\ UNCHANGED links

(* link asks nothing of its two ends.                                      *)
LinkObjects(l, ends) ==
    /\ links[l] = Nothing
    /\ links' = [links EXCEPT ![l] = ends] /\ UNCHANGED objects

Unlink(l) == links[l] # Nothing /\ links' = [links EXCEPT ![l] = Nothing] /\ UNCHANGED objects

LinksOf(o) == {l \in LinkId : links[l] # Nothing /\ o \in links[l]}

ObjectNext ==
    \/ \E o \in Object : CreateObject(o) \/ DeleteObject(o)
    \/ \E l \in LinkId : Unlink(l) \/ \E a, b \in Object : LinkObjects(l, {a, b})

-----------------------------------------------------------------------------
(* InMemoryStorage, the two PolicyManagers and BasicSecurity: maps.        *)

Store(k, v) == stored' = [stored EXCEPT ![k] = v] /\ UNCHANGED <<policies, identities>>
DeleteKey(k) ==
    stored[k] # Nothing /\ stored' = [stored EXCEPT ![k] = Nothing] /\ UNCHANGED <<policies, identities>>

RegisterPolicy(k, v) == policies' = [policies EXCEPT ![k] = v] /\ UNCHANGED <<stored, identities>>
RemovePolicy(k) ==
    policies[k] # Nothing /\ policies' = [policies EXCEPT ![k] = Nothing] /\ UNCHANGED <<stored, identities>>
(* evaluate of AllowAllPolicy and DenyAllPolicy reads no policy at all.    *)
Evaluate(manager) == IF manager = "AllowAllPolicy" THEN "Allow" ELSE "Deny"

(* register_identity inserts first and tells afterwards: an identity of    *)
(* the same id is replaced and the answer is false.                        *)
RegisterIdentity(k, v) ==
    identities' = [identities EXCEPT ![k] = v] /\ UNCHANGED <<stored, policies>>

MapNext ==
    \E k \in Key : \/ DeleteKey(k) \/ RemovePolicy(k)
                   \/ \E v \in Value : Store(k, v) \/ RegisterPolicy(k, v) \/ RegisterIdentity(k, v)

-----------------------------------------------------------------------------
(* InMemoryPluginManager: start_all and stop_all copy the ids, then take   *)
(* the lock once per plugin.                                               *)

RegisterPlugin(p) ==
    /\ plugins' = [plugins EXCEPT ![DescriptorId[p]] = p]
    /\ UNCHANGED <<pluginState, bulk>>

UnregisterPlugin(i) ==
    /\ plugins[i] # Nothing
    /\ plugins' = [plugins EXCEPT ![i] = Nothing]
    /\ UNCHANGED <<pluginState, bulk>>

BulkBegin(c, call) ==
    /\ bulk[c] = NoBulk
    /\ \E i \in PluginId : plugins[i] # Nothing
    /\ bulk' = [bulk EXCEPT ![c] = [call |-> call, ids |-> {i \in PluginId : plugins[i] # Nothing}]]
    /\ UNCHANGED <<plugins, pluginState>>

(* guard.get(id), under the lock of this one plugin.                       *)
Entry(i) == plugins[i]

(* The map decides again: an id that is gone is passed over; start and     *)
(* stop may return an error, after which the plugin is as it was.          *)
BulkStep(c, i, ok) ==
    LET left == bulk[c].ids \ {i}
        p == Entry(i)
    IN  /\ i \in bulk[c].ids
        /\ pluginState' = IF p # Nothing /\ ok
                          THEN [pluginState EXCEPT ![p] =
                                  IF bulk[c].call = "start_all" THEN "started" ELSE "stopped"]
                          ELSE pluginState
        /\ bulk' = [bulk EXCEPT ![c] = IF left = {} THEN NoBulk ELSE [@ EXCEPT !.ids = left]]
        /\ UNCHANGED plugins

PluginNext ==
    \/ \E p \in Plugin : RegisterPlugin(p)
    \/ \E i \in PluginId : UnregisterPlugin(i)
    \/ \E c \in Caller : \/ \E call \in {"start_all", "stop_all"} : BulkBegin(c, call)
                         \/ \E i \in PluginId, ok \in BOOLEAN : BulkStep(c, i, ok)

-----------------------------------------------------------------------------
(* InMemoryDriverRegistry and InMemoryProcessorRegistry.                   *)

RegisterDriver(d) ==
    /\ drivers[NameOf[d]] = Nothing             \* else AlreadyRegistered
    /\ drivers' = [drivers EXCEPT ![NameOf[d]] = d]
    /\ UNCHANGED <<processors, executing, executed>>

UnregisterDriver(n) ==
    /\ drivers[n] # Nothing                     \* else DriverNotFound
    /\ drivers' = [drivers EXCEPT ![n] = Nothing]
    /\ UNCHANGED <<processors, executing, executed>>

(* execute takes an Arc of the driver and gives the lock back.             *)
ExecuteGet(c, n) ==
    /\ executing[c] = Nothing /\ drivers[n] # Nothing
    /\ executing' = [executing EXCEPT ![c] = drivers[n]]
    /\ UNCHANGED <<drivers, processors, executed>>

(* Mutant of Runs: the driver is looked up by its name again.              *)
RunsRegistered(c, n) == IF drivers[n] = Nothing THEN executing[c] ELSE drivers[n]

(* The driver that runs is the one whose capabilities were read.           *)
Runs(c, n) == executing[c]

(* The capability is looked up in, and executed by, the same driver.       *)
ExecuteRun(c, ability) ==
    LET d == executing[c]
        n == NameOf[d]
    IN  /\ d # Nothing
        /\ executing' = [executing EXCEPT ![c] = Nothing]
        /\ executed' = IF ability \in Offers[d]     \* else CapabilityNotFound
                       THEN executed \cup {<<Runs(c, n), ability>>} ELSE executed
        /\ UNCHANGED <<drivers, processors>>

FindByCapability(ability) ==
    {n \in DriverName : drivers[n] # Nothing /\ ability \in Offers[drivers[n]]}

(* A processor of the same name is replaced, without an error.             *)
RegisterProcessor(d) ==
    /\ processors' = [processors EXCEPT ![NameOf[d]] = d]
    /\ UNCHANGED <<drivers, executing, executed>>

UnregisterProcessor(n) ==
    /\ processors[n] # Nothing
    /\ processors' = [processors EXCEPT ![n] = Nothing]
    /\ UNCHANGED <<drivers, executing, executed>>

(* process holds the lock over every processor; a failure is passed over.  *)
ProcessorsFor(ability) ==
    {n \in DriverName : processors[n] # Nothing /\ ability \in Offers[processors[n]]}

DriverNext ==
    \/ \E d \in Driver : RegisterDriver(d) \/ RegisterProcessor(d)
    \/ \E n \in DriverName : UnregisterDriver(n) \/ UnregisterProcessor(n)
    \/ \E c \in Caller : \/ \E n \in DriverName : ExecuteGet(c, n)
                         \/ \E a \in Ability : executing[c] # Nothing /\ ExecuteRun(c, a)

-----------------------------------------------------------------------------
(* TrackingAllocator: allocate is three atomic operations in a row, the    *)
(* last one a load and a fetch_max.  A size of 0 counts as 1.              *)

Counted(size) == IF size = 0 THEN 1 ELSE size

AllocateAdd(c, size) ==
    /\ allocating[c][1] = "idle" /\ allocated + Counted(size) <= MaxBytes
    /\ allocated' = allocated + Counted(size)
    /\ live' = live + 1
    /\ allocating' = [allocating EXCEPT ![c] = <<"added", 0>>] /\ UNCHANGED peak

AllocateLoad(c) ==
    /\ allocating[c][1] = "added"
    /\ allocating' = [allocating EXCEPT ![c] = <<"loaded", allocated>>]
    /\ UNCHANGED <<allocated, live, peak>>

(* Mutant of AllocatePeak: a store in place of fetch_max.                  *)
AllocateStores(c) ==
    /\ allocating[c][1] = "loaded"
    /\ peak' = allocating[c][2]
    /\ allocating' = [allocating EXCEPT ![c] = <<"idle", 0>>] /\ UNCHANGED <<allocated, live>>

AllocatePeak(c) ==
    /\ allocating[c][1] = "loaded"
    /\ peak' = IF allocating[c][2] > peak THEN allocating[c][2] ELSE peak
    /\ allocating' = [allocating EXCEPT ![c] = <<"idle", 0>>] /\ UNCHANGED <<allocated, live>>

TrackDeallocation == live > 0 /\ live' = live - 1 /\ UNCHANGED <<allocated, peak, allocating>>

MemoryNext ==
    \/ TrackDeallocation
    \/ \E c \in Caller : \/ AllocateLoad(c) \/ AllocatePeak(c)
                         \/ \E size \in 0..2 : AllocateAdd(c, size)

-----------------------------------------------------------------------------
(* The managers share nothing.                                             *)
RegistriesNext ==
    \/ ObjectNext /\ UNCHANGED <<mapVars, pluginVars, driverVars, memoryVars>>
    \/ MapNext /\ UNCHANGED <<objectVars, pluginVars, driverVars, memoryVars>>
    \/ PluginNext /\ UNCHANGED <<objectVars, mapVars, driverVars, memoryVars>>
    \/ DriverNext /\ UNCHANGED <<objectVars, mapVars, pluginVars, memoryVars>>
    \/ MemoryNext /\ UNCHANGED <<objectVars, mapVars, pluginVars, driverVars>>

RegistriesSpec == RegistriesInit /\ [][RegistriesNext]_registriesVars

-----------------------------------------------------------------------------
(* execute never runs a capability its driver does not declare, although   *)
(* the driver may be unregistered, and another one registered under its    *)
(* name, between the lookup and the call (driver.rs, execute).             *)
ExecutedIsOffered == \A x \in executed : x[2] \in Offers[x[1]]

(* The peak is never above the total, and equals it once no allocate is    *)
(* under way: peak_allocated_bytes counts all that was ever allocated, and *)
(* no interleaving of load and fetch_max loses the last total.             *)
PeakIsTotal == /\ peak <= allocated
               /\ (\A c \in Caller : allocating[c][1] = "idle") => peak = allocated

(* What was looked up under one lock and used after it: a driver still     *)
(* executes only what it offers, and the allocator's two counters agree.   *)
LookupsHold == ExecutedIsOffered /\ PeakIsTotal
=============================================================================
