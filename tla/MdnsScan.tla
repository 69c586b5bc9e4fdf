------------------------------ MODULE MdnsScan ------------------------------
(* One scan for Cast and AirPlay receivers: the mDNS daemon, the thread per   *)
(* browsed service that bridges it to the scan's event stream                *)
(* (nd-chromecast/src/lib.rs), the aggregator that starts the provider       *)
(* (nd-core/src/meta.rs), and the engine's task that reads the stream and     *)
(* may be aborted at any moment (nd-service/src/engine/discovery.rs).         *)
EXTENDS Integers, Sequences, FiniteSets

CONSTANTS
    Device,         \* the devices on the network
    KindOf,         \* the service each one announces, of Services
    Announcements,  \* the address sets an announcement may carry
    Capacity,       \* events the stream holds
    MaxAnnounced      \* bound: announcements and departures

Services == <<"cast", "airplay">>
ServiceSet == {"cast", "airplay"}

ASSUME ScanAssumption ==
    /\ KindOf \in [Device -> ServiceSet]
    /\ Announcements \subseteq SUBSET
           {"v4", "v6", "loopback", "link-local v4", "link-local v6"}

Unlisted == "unlisted"
NoAddress == "none"

(* ------------------------------ addresses ------------------------------- *)

\* A slip: link-local addresses are taken too.
Connectable_LinkLocal(addresses) == addresses \ {"loopback"}

\* An address that is only valid inside a link needs its interface to be used.
Connectable(addresses) == addresses \ {"loopback", "link-local v4", "link-local v6"}

BestAddress(addresses) ==
    IF "v4" \in Connectable(addresses) THEN "v4"
    ELSE IF Connectable(addresses) = {} THEN NoAddress
    ELSE CHOOSE a \in Connectable(addresses) : TRUE

VARIABLES
    daemon,     \* the mDNS daemon: absent, running, shut down
    browsed,    \* how many services are browsed so far
    inbox,      \* per service, the daemon's events its thread has not taken
    thread,     \* per service: absent, receiving, sending, ended
    holds,      \* per service, the event its thread is sending
    channel,    \* the stream's events
    scan,       \* the scan: starting, ready, failed, aborted
    registry,   \* the engine's list: each device's address
    expected,   \* the address each device was last announced to be reached at
    told     \* announcements and departures so far

scanVars == <<daemon, browsed, inbox, thread, holds, channel, scan, registry, expected, told>>

NoEvent == [device |-> "no device", address |-> NoAddress]

ScanInit ==
    /\ daemon = "absent" /\ browsed = 0
    /\ inbox = [s \in ServiceSet |-> <<>>]
    /\ thread = [s \in ServiceSet |-> "absent"] /\ holds = [s \in ServiceSet |-> NoEvent]
    /\ channel = <<>> /\ scan = "starting"
    /\ registry = [d \in Device |-> Unlisted] /\ expected = [d \in Device |-> Unlisted]
    /\ told = 0

(* ------------------------------- starting -------------------------------- *)

\* The scan's task: the daemon is made, or the scan goes on without it.
MakesDaemon ==
    /\ scan = "starting" /\ daemon = "absent"
    /\ \/ daemon' = "running" /\ UNCHANGED scan
       \/ scan' = "failed" /\ UNCHANGED daemon
    /\ UNCHANGED <<browsed, inbox, thread, holds, channel, registry, expected, told>>

\* One service is browsed and its thread started; either may fail, and then the
\* stream is never handed over although an earlier thread is running.
Browses ==
    /\ scan = "starting" /\ daemon = "running" /\ browsed < Len(Services)
    /\ \/ /\ browsed' = browsed + 1
          /\ thread' = [thread EXCEPT ![Services[browsed + 1]] = "receiving"]
          /\ scan' = IF browsed' = Len(Services) THEN "ready" ELSE "starting"
       \/ scan' = "failed" /\ UNCHANGED <<browsed, thread>>
    /\ UNCHANGED <<daemon, inbox, holds, channel, registry, expected, told>>

Browsing(s) == \E i \in 1..browsed : Services[i] = s
Reading == scan \in {"starting", "ready"}

(* ------------------------------ the network ------------------------------ *)

Told(d, event) ==
    /\ told < MaxAnnounced /\ daemon = "running" /\ Browsing(KindOf[d])
    /\ told' = told + 1
    /\ inbox' = [inbox EXCEPT ![KindOf[d]] = Append(@, event)]
    /\ UNCHANGED <<daemon, browsed, thread, holds, channel, scan, registry>>

\* A device announces itself, several times and with different address sets.
Announces(d) ==
    \E addresses \in Announcements :
        /\ Told(d, [device |-> d, addresses |-> addresses])
        /\ LET routable == addresses \cap {"v4", "v6"}
           IN  expected' = IF routable = {} THEN expected
                           ELSE [expected EXCEPT ![d] = IF "v4" \in routable THEN "v4" ELSE "v6"]

DeviceLeaves(d) ==
    /\ Told(d, [device |-> d, addresses |-> {"gone"}])
    /\ expected' = [expected EXCEPT ![d] = Unlisted]

(* ------------------------------ the threads ------------------------------ *)

\* A slip: an announcement is passed on whatever addresses it carries.
Ignored_Nothing(event) == FALSE

Ignored(event) == event.addresses # {"gone"} /\ BestAddress(event.addresses) = NoAddress

ThreadTakes(s) ==
    /\ thread[s] = "receiving" /\ inbox[s] # <<>>
    /\ inbox' = [inbox EXCEPT ![s] = Tail(@)]
    /\ LET event == Head(inbox[s])
       IN  IF Ignored(event) THEN UNCHANGED <<thread, holds>>
           ELSE /\ thread' = [thread EXCEPT ![s] = "sending"]
                /\ holds' = [holds EXCEPT ![s] =
                    [device |-> event.device,
                     address |-> IF event.addresses = {"gone"} THEN Unlisted
                                 ELSE BestAddress(event.addresses)]]
    /\ UNCHANGED <<daemon, browsed, channel, scan, registry, expected, told>>

\* The thread waits for room, and ends once nobody reads the stream.
ThreadSends(s) ==
    /\ thread[s] = "sending"
    /\ IF Reading
       THEN /\ Len(channel) < Capacity
            /\ channel' = Append(channel, holds[s])
            /\ thread' = [thread EXCEPT ![s] = "receiving"]
       ELSE thread' = [thread EXCEPT ![s] = "ended"] /\ UNCHANGED channel
    /\ holds' = [holds EXCEPT ![s] = NoEvent]
    /\ UNCHANGED <<daemon, browsed, inbox, scan, registry, expected, told>>

\* Its channel closes with the daemon, after the events that are still in it.
ThreadEnds(s) ==
    /\ thread[s] = "receiving" /\ inbox[s] = <<>> /\ daemon = "shut down"
    /\ thread' = [thread EXCEPT ![s] = "ended"]
    /\ UNCHANGED <<daemon, browsed, inbox, holds, channel, scan, registry, expected, told>>

(* ------------------------------- the engine ------------------------------ *)

EngineReads ==
    /\ scan = "ready" /\ channel # <<>>
    /\ channel' = Tail(channel)
    /\ registry' = [registry EXCEPT ![Head(channel).device] = Head(channel).address]
    /\ UNCHANGED <<daemon, browsed, inbox, thread, holds, scan, expected, told>>

\* A slip: the daemon is left to go with the handle that names it.
ProviderDropped_Silently == daemon

\* The provider is dropped, and the daemon told to shut down.
ProviderDropped == IF daemon = "running" THEN "shut down" ELSE daemon

\* The engine aborts its task, which drops the stream and the providers.
Aborts ==
    /\ scan # "aborted"
    /\ scan' = "aborted" /\ channel' = <<>> /\ daemon' = ProviderDropped
    /\ registry' = [d \in Device |-> Unlisted]
    /\ UNCHANGED <<browsed, inbox, thread, holds, expected, told>>

ThreadStep(s) == ThreadTakes(s) \/ ThreadSends(s) \/ ThreadEnds(s)

ScanNext ==
    \/ MakesDaemon \/ Browses \/ EngineReads \/ Aborts
    \/ \E d \in Device : Announces(d) \/ DeviceLeaves(d)
    \/ \E s \in ServiceSet : ThreadStep(s)

\* Each thread runs, and the engine takes what the stream holds.
ScanFairness ==
    /\ \A s \in ServiceSet : WF_scanVars(ThreadStep(s))
    /\ WF_scanVars(EngineReads)

ScanSpec == ScanInit /\ [][ScanNext]_scanVars /\ ScanFairness

(* ------------------------------ properties ------------------------------- *)

\* Every thread of a scan that was aborted ends, whatever it was doing: waiting
\* for the daemon, or for room in a stream nobody reads any more.
ThreadsEnd ==
    (scan = "aborted") ~> \A s \in ServiceSet : thread[s] \in {"absent", "ended"}

\* While a scan lasts, the list settles on what the devices announced: each one
\* at the address its last usable announcement gave, however many announcements
\* without one followed, and none that left.
ListSettles == <>[](scan = "ready" => registry = expected)

\* A scan lists what was announced, and ends with every thread it began
\* (MdnsProvider::discover of nd-chromecast/src/lib.rs).
ScanIsSound == ListSettles /\ ThreadsEnd

=============================================================================
