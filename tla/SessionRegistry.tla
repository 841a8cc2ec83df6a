--------------------------- MODULE SessionRegistry ---------------------------
(***************************************************************************)
(* The PEP_SESSIONs of the connection threads and the configuration cache  *)
(* of the clients (server/session_registry.cc), as the JSON-RPC calls of   *)
(* server/function_map.hh use them.                                        *)
(*                                                                         *)
(* A call that needs a session asks for the one of its thread id.  A       *)
(* config_*() call first stores itself in the cache of its client, then    *)
(* does the same, and last applies its function to that session, outside   *)
(* of the registry's lock.  A session is modelled by the values its        *)
(* config functions have been called with.                                 *)
(*                                                                         *)
(* A connection belongs to one client and is served by one thread; ids of  *)
(* threads that ended are given to new threads.                            *)
(***************************************************************************)
EXTENDS Integers

CONSTANTS
    ThreadIds,   \* thread ids
    Clients,     \* client ids
    Fns,         \* the names of the config functions
    ConfigValues,\* what they may be called with
    Timeout,     \* client_timeout
    MaxTime,     \* bound: the clock stops here
    Unset,       \* a config function that was not called
    NoClient,    \* no connection is served by this thread id
    NoSession,   \* no PEP_SESSION
    NoConfig     \* the call is not a config_*() call

Configs == [Fns -> ConfigValues \cup {Unset}]

ASSUME RegistryAssumption ==
    /\ Unset \notin ConfigValues
    /\ NoClient \notin Clients
    /\ NoSession \notin Configs
    /\ NoConfig \notin Fns \X ConfigValues

ASSUME ClockAssumption ==
    /\ Timeout \in Nat
    /\ MaxTime \in Nat

EmptyConfig == [f \in Fns |-> Unset]

\* no entry in last_use
Never == -1

VARIABLES
    m,          \* m: the session of each thread id
    cache,      \* cache: what is cached for each client
    last_use,   \* last_use: the time of a client's latest call
    now,        \* the system clock, which nobody sets back
    conn,       \* the client whose connection a thread serves
    at,         \* where each thread is in its call
    config,     \* the function and value of a config_*() call
    contact,    \* history: when a client last called
    intent      \* history: what a client configured, forgotten when it is
                \* silent for longer than Timeout

registryVars == << m, cache, last_use >>
registryHistory == << contact, intent >>
sessionVars == << registryVars, now, conn, at, config, registryHistory >>

RegistryTypeOK ==
    /\ m \in [ThreadIds -> Configs \cup {NoSession}]
    /\ cache \in [Clients -> Configs]
    /\ last_use \in [Clients -> Nat \cup {Never}]
    /\ now \in 0 .. MaxTime
    /\ conn \in [ThreadIds -> Clients \cup {NoClient}]
    /\ at \in [ThreadIds -> {"idle", "get", "apply"}]
    /\ config \in [ThreadIds -> (Fns \X ConfigValues) \cup {NoConfig}]
    /\ contact \in [Clients -> Nat]
    /\ intent \in [Clients -> Configs]

RegistryInitial ==
    /\ m = [t \in ThreadIds |-> NoSession]
    /\ cache = [k \in Clients |-> EmptyConfig]
    /\ last_use = [k \in Clients |-> Never]
    /\ now = 0
    /\ conn = [t \in ThreadIds |-> NoClient]
    /\ at = [t \in ThreadIds |-> "idle"]
    /\ config = [t \in ThreadIds |-> NoConfig]
    /\ contact = [k \in Clients |-> 0]
    /\ intent = [k \in Clients |-> EmptyConfig]

StepTo(t, point) == at' = [at EXCEPT ![t] = point]

\* history: client k calls; what it configured before a silence longer than
\* Timeout is not counted any more
Calls(k) ==
    /\ contact' = [contact EXCEPT ![k] = now]
    /\ intent' = [intent EXCEPT ![k] =
                    IF now - contact[k] > Timeout THEN EmptyConfig ELSE @]

-----------------------------------------------------------------------------
(* SessionRegistry *)

TooOld(use, x) == use[x] # Never /\ use[x] < now - Timeout

\* mutant of UpdateLastUse: the time of the call is not noted
UpdateLastUseNot(k, c) ==
    LET use == [last_use EXCEPT ![k] = IF @ = Never THEN now ELSE @] IN
    /\ last_use' = [x \in Clients |-> IF TooOld(use, x) THEN Never ELSE use[x]]
    /\ cache' = [x \in Clients |-> IF TooOld(use, x) THEN EmptyConfig ELSE c[x]]

\* mutant of UpdateLastUse: the entry in last_use goes, the cache stays
UpdateLastUseKeep(k, c) ==
    LET use == [last_use EXCEPT ![k] = now] IN
    /\ last_use' = [x \in Clients |-> IF TooOld(use, x) THEN Never ELSE use[x]]
    /\ cache' = c

\* update_last_use(k), with the contents c of the cache: notes the time, and
\* erases the clients that were silent for too long
UpdateLastUse(k, c) ==
    LET use == [last_use EXCEPT ![k] = now] IN
    /\ last_use' = [x \in Clients |-> IF TooOld(use, x) THEN Never ELSE use[x]]
    /\ cache' = [x \in Clients |-> IF TooOld(use, x) THEN EmptyConfig ELSE c[x]]

\* mutant of AddToCache: the first value of a function stays
AddToCacheOnce(k, f, v) ==
    UpdateLastUse(k, [cache EXCEPT ![k][f] = IF @ = Unset THEN v ELSE @])

\* add_to_cache
AddToCache(k, f, v) == UpdateLastUse(k, [cache EXCEPT ![k][f] = v])

\* get, for a thread id that has a session.  Whose connection the thread
\* served when the session was made does not matter.
GetKnown(t) ==
    /\ at[t] = "get"
    /\ m[t] # NoSession
    /\ UpdateLastUse(conn[t], cache)
    /\ Calls(conn[t])
    /\ StepTo(t, "apply")
    /\ UNCHANGED << m, now, conn, config >>

\* get, for a thread id without one: the new session gets everything that is
\* cached for the client
GetNew(t) ==
    /\ at[t] = "get"
    /\ m[t] = NoSession
    /\ UpdateLastUse(conn[t], cache)
    /\ Calls(conn[t])
    /\ m' = [m EXCEPT ![t] = cache'[conn[t]]]
    /\ StepTo(t, "apply")
    /\ UNCHANGED << now, conn, config >>

\* init() or register_sync_callbacks() fails.  (In the second case the new
\* session is lost: nobody releases it.)
GetFails(t) ==
    /\ at[t] = "get"
    /\ m[t] = NoSession
    /\ UpdateLastUse(conn[t], cache)
    /\ Calls(conn[t])
    /\ config' = [config EXCEPT ![t] = NoConfig]
    /\ StepTo(t, "idle")
    /\ UNCHANGED << m, now, conn >>

-----------------------------------------------------------------------------
(* JSON-RPC calls on the thread of a connection *)

\* a connection of client k is served by a new thread with the id t
ConnectClient(t, k) ==
    /\ conn[t] = NoClient
    /\ conn' = [conn EXCEPT ![t] = k]
    /\ UNCHANGED << registryVars, now, at, config, registryHistory >>

\* the connection ends, and the thread: do_session returns, thread_done does
\* nothing that concerns the registry
Disconnect(t) ==
    /\ conn[t] # NoClient
    /\ at[t] = "idle"
    /\ conn' = [conn EXCEPT ![t] = NoClient]
    /\ UNCHANGED << registryVars, now, at, config, registryHistory >>

\* Func::call of a function with a session parameter
Call(t) ==
    /\ conn[t] # NoClient
    /\ at[t] = "idle"
    /\ StepTo(t, "get")
    /\ UNCHANGED << registryVars, now, conn, config, registryHistory >>

\* FuncCache::call: the call is cached before anything else
CacheCall(t, f, v) ==
    /\ conn[t] # NoClient
    /\ at[t] = "idle"
    /\ AddToCache(conn[t], f, v)
    /\ contact' = [contact EXCEPT ![conn[t]] = now]
    /\ intent' = [intent EXCEPT ![conn[t]] =
                    [IF now - contact[conn[t]] > Timeout THEN EmptyConfig ELSE @
                        EXCEPT ![f] = v]]
    /\ config' = [config EXCEPT ![t] = << f, v >>]
    /\ StepTo(t, "get")
    /\ UNCHANGED << m, now, conn >>

\* Func::call refuses the number of parameters, when the call is cached
SizeMismatch(t) ==
    /\ at[t] = "get"
    /\ config' = [config EXCEPT ![t] = NoConfig]
    /\ StepTo(t, "idle")
    /\ UNCHANGED << registryVars, now, conn, registryHistory >>

\* the engine function runs on the session, outside of the lock
Apply(t) ==
    /\ at[t] = "apply"
    /\ m' = IF config[t] = NoConfig THEN m
            ELSE [m EXCEPT ![t] = [@ EXCEPT ![config[t][1]] = config[t][2]]]
    /\ config' = [config EXCEPT ![t] = NoConfig]
    /\ StepTo(t, "idle")
    /\ UNCHANGED << cache, last_use, now, conn, registryHistory >>

Tick ==
    /\ now < MaxTime
    /\ now' = now + 1
    /\ UNCHANGED << registryVars, conn, at, config, registryHistory >>

-----------------------------------------------------------------------------

RegistryNext ==
    \/ \E t \in ThreadIds :
          \/ \E k \in Clients : ConnectClient(t, k)
          \/ Disconnect(t)
          \/ Call(t)
          \/ \E f \in Fns, v \in ConfigValues : CacheCall(t, f, v)
          \/ SizeMismatch(t)
          \/ GetKnown(t)
          \/ GetNew(t)
          \/ GetFails(t)
          \/ Apply(t)
    \/ Tick

RegistrySpec == RegistryInitial /\ [][RegistryNext]_sessionVars

-----------------------------------------------------------------------------
(* Properties *)

Silent(k) == now - contact[k] > Timeout

(* What a client configured stays cached as long as the client is never    *)
(* silent for longer than the timeout, whatever the calls of others evict. *)
\* session_registry.cc:81-87, 103-120
ConfigKept ==
    \A k \in Clients, f \in Fns :
        ~ Silent(k) /\ intent[k][f] # Unset => cache[k][f] = intent[k][f]

(* Nothing is cached for a client that last_use does not know: no entry of *)
(* the cache escapes its timeout for ever.                                 *)
\* session_registry.cc:46, 85-86, 109-119
NothingImmortal ==
    \A k \in Clients : cache[k] # EmptyConfig => last_use[k] # Never

\* the times of the registry are those of the calls
TimesInOrder ==
    \A k \in Clients :
        /\ last_use[k] \in {Never, contact[k]}
        /\ contact[k] <= now
        /\ intent[k] # EmptyConfig /\ ~ Silent(k) => last_use[k] = contact[k]

\* a thread is in a call only while it serves a connection
CallsInOrder ==
    \A t \in ThreadIds :
        /\ at[t] # "idle" => conn[t] # NoClient
        /\ at[t] = "apply" => m[t] # NoSession

(* The strengthening that makes ConfigKept and NothingImmortal inductive.  *)
\* session_registry.cc:11-52, 103-120
RegistryInv ==
    /\ ConfigKept
    /\ NothingImmortal
    /\ TimesInOrder
    /\ CallsInOrder

(* A new session starts with everything its client has configured, no      *)
(* matter on which connections, by which functions and how often.          *)
\* session_registry.cc:40-48, README.md:188-191
NewSessionStep ==
    \A t \in ThreadIds : m[t] = NoSession /\ m'[t] # NoSession =>
        \A f \in Fns : intent'[conn[t]][f] # Unset =>
            m'[t][f] = intent'[conn[t]][f]

NewSessionConfigured == [][NewSessionStep]_sessionVars

(* Whoever gets a session sweeps: afterwards nothing is cached for clients *)
(* that were silent for longer than the timeout.                           *)
\* session_registry.cc:103-120
SweepStep ==
    \A t \in ThreadIds : at[t] = "get" /\ at'[t] = "apply" =>
        \A k \in Clients : cache'[k] # EmptyConfig => ~ Silent(k)'

SilentAreSwept == [][SweepStep]_sessionVars

(* What the comment on FuncCache promises: when a config_*() call returns, *)
(* it is applied to all sessions of the client that no other call uses.    *)
\* function_map.hh:226-227
AppliedToAllSessions ==
    [][\A t, u \in ThreadIds :
          /\ at[t] = "apply" /\ at'[t] = "idle" /\ config[t] # NoConfig
          /\ at[u] = "idle" /\ conn[u] = conn[t] /\ m[u] # NoSession
          => m'[u][config[t][1]] = config[t][2]]_sessionVars

(* What the README promises: every connection has a session of its own.    *)
(* So what another client has configured is not in force in it.            *)
\* README.md:180-182
NoForeignConfig ==
    \A t \in ThreadIds : at[t] = "apply" =>
        \A f \in Fns : m[t][f] # Unset => intent[conn[t]][f] # Unset

(* What the README promises: the configuration of a client is removed      *)
(* after a time without calls and without an open connection.              *)
\* README.md:171-174
ConnectedClientKeepsConfig ==
    [][\A k \in Clients : cache[k] # EmptyConfig /\ cache'[k] = EmptyConfig =>
          \A t \in ThreadIds : conn[t] # k]_sessionVars
=============================================================================
