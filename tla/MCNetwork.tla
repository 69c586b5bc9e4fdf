------------------------------ MODULE MCNetwork ------------------------------
(***************************************************************************)
(* Instances of the modules that face the network: the providers that find *)
(* receivers (MdnsScan, DlnaProvider, WfdProvider), the client that asks   *)
(* one what it can do (UpnpClient), the sink a cast goes through (Sinks)   *)
(* and the door browsers come in by (FrontDoor).  They share no state, so  *)
(* a behaviour follows one of them.                                        *)
(***************************************************************************)
EXTENDS FrontDoor, DlnaProvider, WfdProvider, MdnsScan, Sinks, UpnpClient

VARIABLE part

Parts == {"door", "dlna", "wfd", "mdns", "sink", "upnp"}

MCInit ==
    /\ part \in Parts
    /\ FrontInit /\ DlnaInit /\ WfdInit /\ ScanInit /\ SinkInit /\ UpnpInit
    /\ part # "dlna" => there = Nowhere
    /\ part # "wfd" => adapter = "off" /\ place = [r \in Receiver |-> "away"]
    /\ part # "sink" => sink.made = "ndi"
    /\ part # "upnp" => description = <<>>

MCNext ==
    \/ /\ part = "door" /\ FrontNext
       /\ UNCHANGED <<dlnaVars, wfdVars, scanVars, sinkVars, upnpVars, part>>
    \/ /\ part = "dlna" /\ DlnaNext
       /\ UNCHANGED <<frontVars, wfdVars, scanVars, sinkVars, upnpVars, part>>
    \/ /\ part = "wfd" /\ WfdNext
       /\ UNCHANGED <<frontVars, dlnaVars, scanVars, sinkVars, upnpVars, part>>
    \/ /\ part = "mdns" /\ ScanNext
       /\ UNCHANGED <<frontVars, dlnaVars, wfdVars, sinkVars, upnpVars, part>>
    \/ /\ part = "sink" /\ SinkNext
       /\ UNCHANGED <<frontVars, dlnaVars, wfdVars, scanVars, upnpVars, part>>
    \/ /\ part = "upnp" /\ UpnpNext
       /\ UNCHANGED <<frontVars, dlnaVars, wfdVars, scanVars, sinkVars, part>>

MCSpec ==
    MCInit /\ [][MCNext]_<<frontVars, dlnaVars, wfdVars, scanVars, sinkVars, upnpVars, part>>

MCFairSpec ==
    /\ MCSpec
    /\ \/ part = "dlna" /\ DlnaFairness
       \/ part = "wfd" /\ WfdFairness
       \/ part = "mdns" /\ ScanFairness
       \/ part = "door" /\ DoorFairness
       \/ part = "sink" /\ SinkFairness
       \/ part = "upnp"

MCKindOf == [d \in Device |-> IF d = "tv" THEN "cast" ELSE "airplay"]
MCAnnouncements ==
    {{}, {"link-local v6", "v4"}, {"v6", "loopback"}, {"link-local v4", "link-local v6"}}

MCLocation == [host |-> "tv", directory |-> "/dmr"]
ServiceType(name, version, standard) ==
    [name |-> name, version |-> version, standard |-> standard]
ControlAt(host) == [form |-> "absolute", host |-> host, path |-> <<"/control">>]
Block(type, control) == [type |-> type, control |-> control]
Transport == ServiceType("AVTransport", 1, TRUE)
MCBlocks ==
    {Block(ServiceType("RenderingControl", 1, TRUE), [form |-> "rooted", path |-> "/rc"]),
     Block(ServiceType("AVTransport", 3, TRUE), [form |-> "relative", path |-> "avt"]),
     Block(ServiceType("AVTransport", 1, FALSE), ControlAt("tv")),
     Block(Transport, ControlAt("tv")),
     Block(Transport, ControlAt("router")),
     Block(Transport, [form |-> "missing"]),
     Block(Transport, [form |-> "unprintable"])}
Framed(head, complete, declared, extra, closes, code) ==
    [head |-> head, complete |-> complete, declared |-> declared, extra |-> extra,
     closes |-> closes, status |-> code]
MCFramings ==
    {Framed(1, TRUE, 2, 0, FALSE, "200"), Framed(2, TRUE, 1, 0, FALSE, "200"),
     Framed(1, TRUE, NoLength, 0, TRUE, "200"), Framed(1, TRUE, NoLength, 3, FALSE, "200"),
     Framed(1, TRUE, 1, 0, FALSE, "500"), Framed(1, FALSE, NoLength, 0, TRUE, "200"),
     Framed(5, TRUE, 0, 0, TRUE, "200")}
=============================================================================
