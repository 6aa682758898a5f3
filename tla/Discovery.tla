----------------------------- MODULE Discovery -----------------------------
(***************************************************************************)
(* DeviceDiscovery (device_discovery.cc): the list of Cast devices, kept   *)
(* by the mDNS loop (DiscoveryLoop), by the subnet probes                  *)
(* (ProbeLocalSubnets: the one Start spawns and the detached one of        *)
(* TriggerScan, each with a batch of tasks) and by the application's       *)
(* thread.  Every change is made under mutex_ and announced afterwards,    *)
(* without it, from a copy.  The TVs and the network are external.  Of     *)
(* time only this is kept: whether an entry is older than the ten minutes  *)
(* after which a sweep may drop it.                                        *)
(***************************************************************************)
EXTENDS Naturals, Sequences, FiniteSets, SequencesExt

CONSTANTS
  TVs,          \* the TVs, each named by the id it publishes
  Addresses,    \* the hosts of the subnet
  Leases,       \* Leases[tv]: the addresses a TV may get
  CloudIds,     \* further ids a TV may have
  Reports,      \* Reports[tv]: what a TV may name as its cloud_device_id
  Unnamed,      \* the empty id
  Probers,      \* a subset of {"subnet", "scan"}: the thread Start spawns and
                \* the detached one of TriggerScan
  BatchSize,    \* kBatchSize
  None

ASSUME DiscoveryAssumption ==
  /\ Leases \in [TVs -> SUBSET Addresses] /\ Reports \in [TVs -> SUBSET (TVs \cup CloudIds)]
  /\ TVs \cap Addresses = {} /\ (TVs \cup Addresses) \cap CloudIds = {} /\ Unnamed \in CloudIds
  /\ Probers \subseteq {"subnet", "scan"} /\ BatchSize \in Nat \ {0}
  /\ None \notin TVs \cup Addresses \cup CloudIds
  /\ None \notin Seq([id : TVs \cup Addresses \cup CloudIds, ip : Addresses, custom : BOOLEAN])

VARIABLES
  where,        \* the address of a TV that is on
  inbox,        \* answers in the socket's buffer
  scanEnabled,  \* subnet_scan_enabled
  running,      \* running_
  force,        \* force_mdns_query_
  devices,      \* devices_
  mdnsIds,      \* mdns_ids_
  loop,         \* where discovery_thread_ is; "off" once it can be joined
  socket,       \* the loop has its socket
  heard,        \* the id the loop has merged and not yet recorded
  probe,        \* the probing threads
  copy,         \* what each thread has still to announce: current and cb
  app           \* what the application's thread is in

environment == <<where, inbox>>
list == <<devices, mdnsIds>>
loopVars == <<loop, socket, heard, force>>
discoveryVars == <<environment, scanEnabled, running, list, loopVars, probe, copy, app>>

Ids == TVs \cup Addresses \cup CloudIds
Tasks == Probers \X Addresses
LoopThread == <<"loop", None>>
AppThread == <<"app", None>>
Actors == {LoopThread, AppThread} \cup Tasks
Entry == [id : Ids, ip : Addresses, custom : BOOLEAN, stale : BOOLEAN]
Shown == [id : Ids, ip : Addresses, custom : BOOLEAN]
Prober == [pc : {"off", "next", "wait"}, left : SUBSET Addresses,
           task : [Addresses -> {"none", "start", "open"}]]

Idle == [pc |-> "off", left |-> {}, task |-> [a \in Addresses |-> "none"]]
Probing == [Idle EXCEPT !.pc = "next", !.left = Addresses]

\* What a copy of the list shows: everything but the time a device was seen.
Listing(ds) == [i \in DOMAIN ds |-> [id |-> ds[i].id, ip |-> ds[i].ip, custom |-> ds[i].custom]]

DiscoveryTypeOK ==
  /\ where \in [TVs -> Addresses \cup {None}]
  /\ inbox \subseteq [id : TVs, ip : Addresses]
  /\ scanEnabled \in BOOLEAN /\ running \in BOOLEAN /\ force \in BOOLEAN /\ socket \in BOOLEAN
  /\ Range(devices) \subseteq Entry /\ mdnsIds \subseteq Ids
  /\ loop \in {"off", "top", "receive", "record"} /\ heard \in TVs \cup {None}
  /\ probe \in [Probers -> Prober]
  /\ \A t \in Actors : copy[t] # None => Range(copy[t]) \subseteq Shown
  /\ app \in {"idle", "starting", "stopping", "added", "removed"}

DiscoveryInit ==
  /\ where \in {w \in [TVs -> Addresses \cup {None}] : \A tv \in TVs : w[tv] \in Leases[tv] \cup {None}}
  /\ \A tv, other \in TVs : tv # other /\ where[tv] # None => where[tv] # where[other]
  /\ inbox = {}
  /\ running = FALSE /\ force = FALSE
  /\ devices = <<>> /\ mdnsIds = {}
  /\ loop = "off" /\ socket = FALSE /\ heard = None
  /\ probe = [p \in Probers |-> Idle]
  /\ copy = [t \in Actors |-> None]
  /\ app = "idle"

-----------------------------------------------------------------------------
\* The list.

Matches(ds, d) == {i \in DOMAIN ds : (d.id # Unnamed /\ ds[i].id = d.id) \/ ds[i].ip = d.ip}

\* The entries at the indices kept, in their order.
Only(ds, kept) ==
  [k \in 1..Cardinality(kept) |-> ds[CHOOSE i \in kept : Cardinality({j \in kept : j <= i}) = k]]

\* Faulty Merged: an entry is found by its id only.
MergedById(ds, d) ==
  IF \A i \in DOMAIN ds : ds[i].id # d.id THEN Append(ds, d)
  ELSE [ds EXCEPT ![CHOOSE i \in DOMAIN ds : ds[i].id = d.id] = d]

\* The first entry with the id or the address takes both over, but no empty id;
\* a device with neither is appended.
Merged(ds, d) ==
  IF Matches(ds, d) = {} THEN Append(ds, d)
  ELSE LET i == CHOOSE k \in Matches(ds, d) : \A j \in Matches(ds, d) : k <= j
       IN  [ds EXCEPT ![i] = IF d.id = Unnamed THEN [d EXCEPT !.id = ds[i].id] ELSE d]

Device(id, ip, custom) == [id |-> id, ip |-> ip, custom |-> custom, stale |-> FALSE]

AddOrUpdateDevice(t, d) ==
  /\ devices' = Merged(devices, d)
  /\ copy' = [copy EXCEPT ![t] = Listing(devices')]

RemoveDevice(t, id) ==
  /\ devices' = Only(devices, {i \in DOMAIN devices : devices[i].id # id})
  /\ IF devices' = devices THEN UNCHANGED copy
     ELSE copy' = [copy EXCEPT ![t] = Listing(devices')]
  /\ UNCHANGED mdnsIds

Stale(d) == d.id \in mdnsIds /\ d.stale

\* The entries a sweep keeps.  An id leaves mdns_ids_ with its first entry, so
\* a second entry of that id is no longer recognised.
Kept(ds) ==
  LET first(i) == \A j \in 1..(i - 1) : ~(ds[j].id = ds[i].id /\ Stale(ds[j]))
  IN  Only(ds, {i \in DOMAIN ds : ~(Stale(ds[i]) /\ first(i))})

\* Faulty ExpireStaleDevices: the shortened list is not announced.
ExpireSilently ==
  /\ devices' = Kept(devices)
  /\ mdnsIds' = mdnsIds \ {devices[i].id : i \in {j \in DOMAIN devices : Stale(devices[j])}}
  /\ UNCHANGED copy

\* Faulty ExpireStaleDevices: what was answered once counts for ever.
ExpireNothing == UNCHANGED <<devices, mdnsIds, copy>>

ExpireStaleDevices ==
  /\ devices' = Kept(devices)
  /\ mdnsIds' = mdnsIds \ {devices[i].id : i \in {j \in DOMAIN devices : Stale(devices[j])}}
  /\ IF devices' = devices THEN UNCHANGED copy
     ELSE copy' = [copy EXCEPT ![LoopThread] = Listing(devices')]

\* cb(current), outside the lock.
Announce(t) ==
  /\ copy[t] # None
  /\ copy' = [copy EXCEPT ![t] = None]
  /\ UNCHANGED <<environment, scanEnabled, running, list, loopVars, probe, app>>

-----------------------------------------------------------------------------
\* DiscoveryLoop.

On == {tv \in TVs : where[tv] # None}

\* Any of the TVs that are on may answer; the answers wait in the socket's
\* buffer, whatever becomes of the TV.
SendMdnsQuery(answering) ==
  /\ answering \subseteq On
  /\ inbox' = inbox \cup {[id |-> tv, ip |-> where[tv]] : tv \in answering}
  /\ force' = FALSE

\* The 3 s and the 30 s may be over or not; TriggerScan has a query sent at once.
LoopTop(query, answering, sweep) ==
  /\ loop = "top" /\ running
  /\ query => socket
  /\ answering = {} \/ query
  /\ force /\ socket => query
  /\ IF query THEN SendMdnsQuery(answering) ELSE UNCHANGED <<inbox, force>>
  /\ IF sweep THEN ExpireStaleDevices ELSE UNCHANGED <<list, copy>>
  /\ loop' = "receive"
  /\ UNCHANGED <<where, scanEnabled, running, socket, heard, probe, app>>

Sweep == \E query \in BOOLEAN, answering \in SUBSET TVs : LoopTop(query, answering, TRUE)

LoopEnds ==
  /\ loop = "top" /\ ~running
  /\ loop' = "off" /\ socket' = FALSE
  /\ UNCHANGED <<environment, scanEnabled, running, list, heard, force, probe, copy, app>>

\* ProcessMdnsResponse up to the merge.
LoopReceives ==
  /\ loop = "receive" /\ copy[LoopThread] = None /\ socket
  /\ \E packet \in inbox :
       /\ AddOrUpdateDevice(LoopThread, Device(packet.id, packet.ip, FALSE))
       /\ inbox' = inbox \ {packet}
       /\ heard' = packet.id
  /\ loop' = "record"
  /\ UNCHANGED <<where, scanEnabled, running, mdnsIds, socket, force, probe, app>>

\* Faulty LoopReadsNothing: recvfrom has no timeout.
LoopReadsForEver ==
  /\ loop = "receive" /\ copy[LoopThread] = None /\ ~socket
  /\ loop' = "top"
  /\ UNCHANGED <<environment, scanEnabled, running, list, socket, heard, force, probe, copy, app>>

\* recvfrom timed out, read a packet that is no Cast device's answer, or there
\* is no socket and the loop slept.
LoopReadsNothing ==
  /\ loop = "receive" /\ copy[LoopThread] = None
  /\ inbox = {} \/ ~socket
  /\ loop' = "top"
  /\ UNCHANGED <<environment, scanEnabled, running, list, socket, heard, force, probe, copy, app>>

\* mdns_ids_.insert, in a lock section of its own after the announcement.
LoopRecords ==
  /\ loop = "record" /\ copy[LoopThread] = None
  /\ mdnsIds' = mdnsIds \cup {heard}
  /\ heard' = None
  /\ loop' = "top"
  /\ UNCHANGED <<environment, scanEnabled, running, devices, socket, force, probe, copy, app>>

Loop ==
  \/ \E query, sweep \in BOOLEAN, answering \in SUBSET TVs : LoopTop(query, answering, sweep)
  \/ LoopEnds \/ LoopReceives \/ LoopReadsNothing \/ LoopRecords

-----------------------------------------------------------------------------
\* ProbeLocalSubnets.

ProbeUnchanged == UNCHANGED <<environment, scanEnabled, running, mdnsIds, loopVars, app>>

ProbeBatch(p) ==
  /\ probe[p].pc = "next"
  /\ IF ~running \/ probe[p].left = {}
       THEN probe' = [probe EXCEPT ![p] = Idle]
       ELSE \E batch \in SUBSET probe[p].left :
              /\ batch # {} /\ Cardinality(batch) <= BatchSize
              /\ probe' = [probe EXCEPT ![p].pc = "wait", ![p].left = @ \ batch,
                             ![p].task = [a \in Addresses |-> IF a \in batch THEN "start" ELSE "none"]]
  /\ UNCHANGED <<devices, copy>> /\ ProbeUnchanged

\* CheckTcpPort: port 8009 of a TV that is on may answer in time.
ProbeConnects(p, a) ==
  /\ probe[p].task[a] = "start"
  /\ \E found \in BOOLEAN :
       /\ found => running /\ \E tv \in TVs : where[tv] = a
       /\ probe' = [probe EXCEPT ![p].task[a] = IF found THEN "open" ELSE "none"]
  /\ UNCHANGED <<devices, copy>> /\ ProbeUnchanged

\* FetchEurekaInfo, three attempts: the cloud_device_id the TV answers with,
\* which may be another one than mDNS reports, or empty.  Without an answer the
\* caller takes the address for the id.
Answered(a) == UNION {Reports[tv] : tv \in {other \in TVs : where[other] = a}}
Failed(a) == {a}

ProbeAdds(p, a) ==
  /\ probe[p].task[a] = "open"
  /\ \E id \in Answered(a) \cup Failed(a) : AddOrUpdateDevice(<<p, a>>, Device(id, a, FALSE))
  /\ probe' = [probe EXCEPT ![p].task[a] = "none"]
  /\ ProbeUnchanged

\* Every future of the batch was waited for.
ProbeBatchEnds(p) ==
  /\ probe[p].pc = "wait"
  /\ \A a \in Addresses : probe[p].task[a] = "none" /\ copy[<<p, a>>] = None
  /\ probe' = [probe EXCEPT ![p].pc = "next"]
  /\ UNCHANGED <<devices, copy>> /\ ProbeUnchanged

Probe(p) ==
  \/ ProbeBatch(p) \/ ProbeBatchEnds(p)
  \/ \E a \in Addresses : ProbeConnects(p, a) \/ ProbeAdds(p, a)

-----------------------------------------------------------------------------
\* The application's thread.

\* The socket can be opened, and opened again when the port is taken, or not.
SocketOpened == socket' \in BOOLEAN

Start ==
  /\ app = "idle" /\ ~running
  /\ running' = TRUE /\ app' = "starting"
  /\ UNCHANGED <<environment, scanEnabled, list, loopVars, probe, copy>>

\* EnsureSocketInit, and the threads when it worked.
Started ==
  /\ app = "starting" /\ app' = "idle"
  /\ \/ /\ loop' = "top" /\ SocketOpened
        /\ probe' = [p \in Probers |-> IF scanEnabled /\ p = "subnet" THEN Probing ELSE probe[p]]
        /\ UNCHANGED running
     \/ running' = FALSE /\ UNCHANGED <<loop, socket, probe>>
  /\ UNCHANGED <<environment, scanEnabled, list, heard, force, copy>>

Stop ==
  /\ app = "idle" /\ running
  /\ running' = FALSE /\ app' = "stopping"
  /\ UNCHANGED <<environment, scanEnabled, list, loopVars, probe, copy>>

\* Faulty Stopped: the probing thread is not joined.
StoppedLoopOnly ==
  /\ app = "stopping" /\ loop = "off" /\ app' = "idle"
  /\ UNCHANGED <<environment, scanEnabled, running, list, loopVars, probe, copy>>

\* Both threads were joined.
Stopped ==
  /\ app = "stopping"
  /\ loop = "off" /\ \A p \in Probers : p = "subnet" => probe[p].pc = "off"
  /\ app' = "idle"
  /\ UNCHANGED <<environment, scanEnabled, running, list, loopVars, probe, copy>>

\* TriggerScan.  At most one detached probe at a time (a bound).
TriggerScan ==
  /\ app = "idle"
  /\ "scan" \in Probers => probe["scan"].pc = "off"
  /\ force' = TRUE
  /\ probe' = [p \in Probers |-> IF scanEnabled /\ p = "scan" THEN Probing ELSE probe[p]]
  /\ UNCHANGED <<environment, scanEnabled, running, list, loop, socket, heard, copy, app>>

-----------------------------------------------------------------------------
\* The TVs, the network and the clock.

Switch(tv) ==
  /\ where' \in {[where EXCEPT ![tv] = a] : a \in Leases[tv] \cup {None}}
  /\ where' # where
  /\ \A other \in TVs \ {tv} : where'[tv] # None => where'[tv] # where[other]
  /\ UNCHANGED <<inbox, scanEnabled, running, list, loopVars, probe, copy, app>>

\* Ten minutes have passed since entry i was last seen.  An entry under an id
\* that no TV publishes is never dropped for its age, which is not kept.
Ages(i) ==
  /\ i \in DOMAIN devices /\ ~devices[i].stale /\ devices[i].id \in TVs
  /\ devices' = [devices EXCEPT ![i].stale = TRUE]
  /\ UNCHANGED <<environment, scanEnabled, running, mdnsIds, loopVars, probe, copy, app>>

Environment ==
  \/ \E i \in DOMAIN devices : Ages(i)
  \/ \E tv \in TVs : Switch(tv)
=============================================================================
