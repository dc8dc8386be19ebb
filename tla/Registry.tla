------------------------------ MODULE Registry -------------------------------
(***************************************************************************)
(* The registry of geeRpc/registry/registry.go and the HeartBeat goroutines*)
(* of the servers that register there.  A heartbeat is an HTTP POST; the   *)
(* registry keeps the time of the last one as the start of a lease, and    *)
(* drops a lease that has run out when it next lists the servers.          *)
(*                                                                         *)
(* ServeHTTP takes the address of a POST from w.Header(), the headers of   *)
(* its own answer, and not from the request, where sendHeartbeat has put   *)
(* it (line 75).  With reads = "answer" the model does this: no server is  *)
(* ever registered.  With reads = "request" that one word is different,    *)
(* so that everything behind this line can be checked.                     *)
(*                                                                         *)
(* Time is a counter.  A timer that is due fires before time passes, and an*)
(* exchange with the registry has ended, if only with an error, when       *)
(* MaxDelay has passed.  A POST that nobody waits for any more may arrive  *)
(* at any later time.                                                      *)
(***************************************************************************)
EXTENDS Naturals

CONSTANTS
    Servers,     \* the addresses of the RPC servers
    None,        \* no time, nobody
    Headers,     \* where ServeHTTP may look for the address: "answer", "request"
    Timeout,     \* r.timeout; 0: a lease does not end
    Period,      \* the duration of HeartBeat, after line 113
    MaxDelay,    \* longest exchange with the registry
    MaxTime      \* bound of the clock, for TLC

ASSUME RegistryAssumption ==
    /\ Headers \subseteq {"answer", "request"}
    /\ Timeout \in Nat /\ Period \in Nat \ {0}
    /\ MaxDelay \in Nat /\ MaxTime \in Nat
    /\ None \notin Nat \cup Servers

\* The margin that keeps a lease between two heartbeats.  The first period begins when
\* the first answer has come, so that two delays may add to it.  The defaults
\* give a minute for them (lines 25 and 112).
ASSUME MarginAssumption == Timeout = 0 \/ Period + 2 * MaxDelay < Timeout

VARIABLES
    now,        \* time.Now()
    reads,      \* the headers that ServeHTTP reads
    \* the registry
    up,         \* its process is running
    servers,    \* r.servers: the start of a lease, or None
    \* a server
    beat,       \* HeartBeat: "off", "post", "answered", "wait", "stopped"
    due,        \* the next tick of t, None before NewTicker
    sent,       \* the time of the POST that it waits for, else None
    posts,      \* the servers whose last POST has not arrived
    \* history
    heard,      \* when the registry had the last heartbeat of a server
    known       \* the servers it has had one of since it started

registry == <<up, servers, heard, known>>
beats == <<beat, due, sent>>
registryVars == <<now, reads, registry, beats, posts>>

Times == 0..MaxTime

RegistryInit ==
    /\ now = 0
    /\ reads \in Headers
    /\ up = TRUE
    /\ servers = [a \in Servers |-> None]
    /\ beat = [a \in Servers |-> "off"]
    /\ due = [a \in Servers |-> None]
    /\ sent = [a \in Servers |-> None]
    /\ posts = {}
    /\ heard = [a \in Servers |-> None]
    /\ known = {}

-----------------------------------------------------------------------------
(* HeartBeat.                                                              *)

SendHeartbeat(a) ==
    /\ beat' = [beat EXCEPT ![a] = "post"]
    /\ sent' = [sent EXCEPT ![a] = now]
    /\ posts' = posts \cup {a}

HeartBeat(a) ==
    /\ beat[a] = "off"
    /\ SendHeartbeat(a)
    /\ UNCHANGED <<now, reads, registry, due>>

\* MUTANT: line 113 does not take a minute off the registry's timeout.
HeartbeatOkLate(a) ==
    /\ beat[a] = "answered"
    /\ beat' = [beat EXCEPT ![a] = "wait"]
    /\ due' = IF due[a] = None THEN [due EXCEPT ![a] = now + Timeout] ELSE due
    /\ sent' = [sent EXCEPT ![a] = None]
    /\ UNCHANGED <<now, reads, registry, posts>>

\* The answer of a heartbeat is not looked at, whatever its status; after the first
\* one NewTicker starts the ticker.
HeartbeatOk(a) ==
    /\ beat[a] = "answered"
    /\ beat' = [beat EXCEPT ![a] = "wait"]
    /\ due' = IF due[a] = None THEN [due EXCEPT ![a] = now + Period] ELSE due
    /\ sent' = [sent EXCEPT ![a] = None]
    /\ UNCHANGED <<now, reads, registry, posts>>

Ended(a) ==
    /\ due' = [due EXCEPT ![a] = None]
    /\ sent' = [sent EXCEPT ![a] = None]

\* No connection, or it is lost before the answer has come: the loop ends for ever.  Or
\* the server dies, which looks the same from outside.
HeartbeatFails(a) ==
    /\ beat[a] \in {"post", "answered"}
    /\ beat' = [beat EXCEPT ![a] = "stopped"]
    /\ Ended(a)
    /\ UNCHANGED <<now, reads, registry, posts>>

\* <-t.C
TickerFires(a) ==
    /\ beat[a] = "wait" /\ now >= due[a]
    /\ SendHeartbeat(a)
    /\ due' = [due EXCEPT ![a] = @ + Period]
    /\ UNCHANGED <<now, reads, registry>>

\* The server dies between two heartbeats.
ServerDies(a) ==
    /\ beat[a] = "wait"
    /\ beat' = [beat EXCEPT ![a] = "stopped"]
    /\ Ended(a)
    /\ UNCHANGED <<now, reads, registry, posts>>

-----------------------------------------------------------------------------
(* The registry.                                                           *)

\* MUTANT: a known server keeps the start of its lease.
PutServerOnce(a) ==
    servers' = IF servers[a] = None THEN [servers EXCEPT ![a] = now] ELSE servers

PutServer(a) == servers' = [servers EXCEPT ![a] = now]

\* ServeHTTP for a POST.  Without an address it answers with an error.
ServePost(a) ==
    /\ up /\ a \in posts
    /\ posts' = posts \ {a}
    /\ beat' = IF beat[a] = "post" THEN [beat EXCEPT ![a] = "answered"] ELSE beat
    /\ heard' = [heard EXCEPT ![a] = now]
    /\ known' = known \cup {a}
    /\ \/ reads = "request" /\ PutServer(a)
       \/ reads = "answer" /\ UNCHANGED servers
    /\ UNCHANGED <<now, reads, up, due, sent>>

\* MUTANT: a lease never ends.
AliveForEver(a) == servers[a] # None

Alive(a) ==
    /\ servers[a] # None
    /\ Timeout = 0 \/ servers[a] + Timeout > now

\* aliveServers: what it returns, and what it does to the map.
AliveServers == {a \in Servers : Alive(a)}
DropExpired == servers' = [a \in Servers |-> IF Alive(a) THEN servers[a] ELSE None]

\* ServeHTTP for somebody else's GET.
ServeOtherGet ==
    /\ up /\ DropExpired
    /\ UNCHANGED <<now, reads, up, heard, known, beats, posts>>

\* The process of the registry ends, and with it its connections and its map.
RegistryDies ==
    /\ up
    /\ up' = FALSE
    /\ servers' = [a \in Servers |-> None]
    /\ known' = {}
    /\ posts' = {}
    /\ UNCHANGED <<now, reads, heard, beats>>

RegistryStarts ==
    /\ ~up
    /\ up' = TRUE
    /\ UNCHANGED <<now, reads, servers, heard, known, beats, posts>>

-----------------------------------------------------------------------------
BeatStep(a) == HeartBeat(a) \/ HeartbeatOk(a) \/ HeartbeatFails(a) \/ TickerFires(a)

RegistryStep ==
    \/ \E a \in Servers : BeatStep(a) \/ ServerDies(a) \/ ServePost(a)
    \/ ServeOtherGet \/ RegistryDies \/ RegistryStarts

\* Time passes, unless something has to happen first.
InTime(start) == now < start + MaxDelay

Tick ==
    /\ now < MaxTime
    /\ \A a \in Servers :
        /\ beat[a] \in {"post", "answered"} => InTime(sent[a])
        /\ beat[a] = "wait" => now < due[a]
    /\ now' = now + 1
    /\ UNCHANGED <<reads, registry, beats, posts>>

-----------------------------------------------------------------------------
(* Properties.                                                             *)

RegistryTypeOK ==
    /\ now \in Nat
    /\ reads \in {"answer", "request"}
    /\ up \in BOOLEAN
    /\ servers \in [Servers -> Nat \cup {None}]
    /\ beat \in [Servers -> {"off", "post", "answered", "wait", "stopped"}]
    /\ due \in [Servers -> Nat \cup {None}]
    /\ sent \in [Servers -> Nat \cup {None}]
    /\ posts \subseteq Servers
    /\ heard \in [Servers -> Nat \cup {None}]
    /\ known \subseteq Servers

Beating(a) == beat[a] \in {"post", "answered", "wait"}

\* While the heartbeats of a server go on, the registry is never without one for as long
\* as a lease lasts, from the first until the registry dies, however late within
\* MaxDelay they arrive: the period, the timeout and the start of the ticker go
\* together (registry.go:113, :121 and :59).  This is about the heartbeats
\* that reach the registry, whether it finds the address in them or not: as the
\* code is written (reads = "answer") no server is ever listed, as TimesInv says.
HeartbeatsInTime ==
    \A a \in known : Beating(a) => Timeout = 0 \/ heard[a] + Timeout > now

(***************************************************************************)
(* The inductive invariant of the registry.  A lease outlives the next     *)
(* heartbeat: the ticker's next time is at most a period after the last    *)
(* POST, or after its answer if that was the first.                        *)
(***************************************************************************)
TimesInv ==
    /\ \A a \in Servers :
        /\ heard[a] # None => heard[a] <= now
        /\ servers[a] # None => servers[a] = heard[a] /\ a \in known
        /\ reads = "answer" => servers[a] = None
        /\ beat[a] = "off" => due[a] = None /\ a \notin posts \cup known
        /\ beat[a] = "wait" => due[a] # None
        /\ beat[a] \in {"post", "answered"} =>
            /\ sent[a] # None /\ sent[a] <= now /\ now <= sent[a] + MaxDelay
            /\ due[a] # None => due[a] <= sent[a] + Period
        /\ beat[a] \in {"answered", "wait"} => a \notin posts
    /\ known = {} \/ up

LeaseInv ==
    \A a \in known :
        /\ heard[a] # None
        /\ Beating(a) /\ reads = "request" => servers[a] = heard[a]
        /\ beat[a] = "post" => sent[a] <= heard[a] + Period + MaxDelay
        /\ beat[a] = "answered" => sent[a] <= heard[a]
        /\ beat[a] = "wait" =>
            /\ due[a] <= heard[a] + Period + MaxDelay
            /\ now <= heard[a] + Period + MaxDelay

RegistryInv == RegistryTypeOK /\ TimesInv /\ LeaseInv
==============================================================================
