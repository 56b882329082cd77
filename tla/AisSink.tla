------------------------------- MODULE AisSink -------------------------------
(***************************************************************************)
(* The aissink element (gstreamer/gst-plugins/aissink.c) on the C API       *)
(* (c/c_api.cc, c/ais_packet.cc): its properties, start, render and stop.   *)
(* GStreamer, which calls them, is external: start before any render, one   *)
(* render at a time, stop after the last render and only if start succeeded.*)
(***************************************************************************)
EXTENDS PacketSender

VARIABLES sinkAt,      \* the element: "none", "null", "started", "rendering", "stopping"
          sinkProps,   \* its properties
          ais_sender,  \* the pointer: "NULL", "live", "dangling"
          ais_status,  \* code of the AIS_Status that the calls share
          lost         \* history: buffers rendered with GST_FLOW_OK and not sent

sinkVars == <<sinkAt, sinkProps, ais_sender, ais_status, lost>>

\* ais_sink_class_init: the properties that are strings; the others are booleans.
StringProperties ==
    {"target_address", "stream_name", "ssl_domain_name", "ssl_root_cert_path"}

SinkInit ==
    /\ sinkAt = "none" /\ sinkProps = NoConn
    /\ ais_sender = "NULL" /\ ais_status = "OK" /\ lost = 0

\* ais_sink_init
SinkCreated ==
    /\ sinkAt' = "null" /\ ais_sender' = "NULL"
    /\ sinkProps' = [NoConn EXCEPT !.ssl_domain_name = "given"]
    /\ UNCHANGED <<ais_status, lost>>

\* The guard of every setter of a string, "when the client already connected".
\* Mutant: it is missing.
NeverOpen == FALSE
AlreadyOpen == ais_sender # "NULL"

\* A NULL address is refused; another NULL string is stored as an empty one.
SetTargetAddress(value) ==
    IF AlreadyOpen \/ value = "NULL" THEN sinkProps
    ELSE [sinkProps EXCEPT !.target_address = value]

\* ais_sink_set_stream_name, _ssl_domain_name, _ssl_root_cert_path
SetString(name, value) ==
    IF AlreadyOpen THEN sinkProps
    ELSE [sinkProps EXCEPT ![name] = IF value = "NULL" THEN "" ELSE value]

\* ais_sink_set_property.  The booleans have no guard.
SinkSetProperty(name, value) ==
    /\ sinkAt # "none"
    /\ sinkProps' = CASE name = "target_address" -> SetTargetAddress(value)
                      [] name \in StringProperties \ {"target_address"} -> SetString(name, value)
                      [] OTHER -> [sinkProps EXCEPT ![name] = value]
    /\ UNCHANGED <<sinkAt, ais_sender, ais_status, lost>>

\* ais_sink_get_property
SinkGetProperty(name) == sinkProps[name]

\* AIS_NewSender, with an AIS_ConnectionOptions made of the properties of now.
NewSender ==
    \/ /\ CreateSender(SenderOptions(sinkProps), FALSE)
       /\ ais_sender' = "live" /\ ais_status' = "OK"
    \/ /\ CreateSenderFails(SenderOptions(sinkProps))
       /\ ais_sender' = "NULL" /\ ais_status' = "UNKNOWN"

\* ais_sink_start
SinkStart ==
    /\ sinkAt = "null" /\ NewSender /\ ais_sender' # "NULL"
    /\ sinkAt' = "started" /\ lost' = 0
    /\ UNCHANGED sinkProps

SinkStartFails ==
    /\ sinkAt = "null" /\ NewSender /\ ais_sender' = "NULL"
    /\ UNCHANGED <<sinkAt, sinkProps, lost>>

\* AIS_SendPacket
SendPacket(p) ==
    \/ SendOk(p) /\ ais_status' = "OK"
    \/ SendFails(p) /\ ais_status' = "UNKNOWN"

\* AIS_NewGstreamerBufferPacket, AIS_NewEosPacket.  The first buffer is a key
\* frame, the others are delta units.
BufferPacket(n) ==
    SetIs("FrameHead", TRUE, SetIs("KeyFrame", n = 1, Packet("buffer", session, n)))
EosPacket(n) == Packet("eos", session, n)

-----------------------------------------------------------------------------
(* ais_sink_render, called by the streaming thread with a buffer.           *)

RenderBegins ==
    /\ sinkAt = "started"
    /\ sinkAt' = "rendering"
    /\ UNCHANGED <<sinkProps, ais_sender, ais_status, lost, log, senderVars>>

\* The buffer cannot be mapped, or its packet cannot be made: dropped with a
\* warning, GST_FLOW_OK.
RenderDrops ==
    /\ sinkAt = "rendering"
    /\ sinkAt' = "started" /\ lost' = lost + 1
    /\ ais_status' \in {ais_status, "UNKNOWN"}
    /\ UNCHANGED <<sinkProps, ais_sender, log, senderVars>>

\* GST_FLOW_OK
RenderSends(p) ==
    /\ sinkAt = "rendering" /\ SendPacket(p) /\ ais_status' = "OK"
    /\ sinkAt' = "started"
    /\ UNCHANGED <<sinkProps, ais_sender, lost>>

\* GST_FLOW_ERROR
RenderFails(p) ==
    /\ sinkAt = "rendering" /\ SendPacket(p) /\ ais_status' # "OK"
    /\ sinkAt' = "started"
    /\ UNCHANGED <<sinkProps, ais_sender, lost>>

-----------------------------------------------------------------------------
(* ais_sink_stop: an EOS packet, then the sender is deleted whether or not   *)
(* the EOS could be sent.  The pointer keeps its value.                     *)

\* AIS_NewEosPacket, AIS_SendPacket.  Mutant: no EOS is sent.
StopWithoutEos(n) ==
    /\ sinkAt = "started" /\ sinkAt' = "stopping"
    /\ UNCHANGED <<sinkProps, ais_sender, ais_status, lost, log, senderVars>>

StopSendsEos(n) ==
    /\ sinkAt = "started" /\ sinkAt' = "stopping"
    /\ SendPacket(EosPacket(n))
    /\ UNCHANGED <<sinkProps, ais_sender, lost>>

\* AIS_DeleteSender
StopDeletesSender ==
    /\ sinkAt = "stopping" /\ finish = "none" /\ DeleteSender
    /\ UNCHANGED sinkVars

StopReturns ==
    /\ sinkAt = "stopping" /\ FinishReturns
    /\ sinkAt' = "null" /\ ais_sender' = "dangling"
    /\ UNCHANGED <<sinkProps, ais_status, lost>>

\* ais_sink_dispose, or the end of the process
SinkGone == sinkAt' = "none" /\ UNCHANGED <<sinkProps, ais_sender, ais_status, lost>>

-----------------------------------------------------------------------------
(* An application that plays and stops one element several times and sets   *)
(* its properties meanwhile.                                                *)

CONSTANT MaxPlays  \* bound: times the application starts the element

AppSets(name, value) ==
    /\ SinkSetProperty(name, value)
    /\ UNCHANGED <<log, senderVars>>

AppNext ==
    \/ sinkAt = "none" /\ session = 0 /\ SinkCreated /\ UNCHANGED <<log, senderVars>>
    \/ \E value \in {"a", "b", "NULL"} : AppSets("target_address", value)
    \/ \E value \in {"readable", "missing"} : AppSets("ssl_root_cert_path", value)
    \/ \E value \in BOOLEAN : AppSets("use_insecure_channel", value)
    \/ session < MaxPlays /\ (SinkStart \/ SinkStartFails)
    \/ sent = <<>> /\ RenderBegins
    \/ lost = 0 /\ RenderDrops
    \/ RenderSends(BufferPacket(1))
    \/ RenderFails(BufferPacket(1))
    \/ StopSendsEos(2)
    \/ StopDeletesSender
    \/ StopReturns

-----------------------------------------------------------------------------
(* Properties.                                                              *)

\* The part of ConnectedAsShown (Aisctl) about this element.
SinkConnectedAsShown ==
    ais_sender = "live" => \A name \in StringProperties : SinkGetProperty(name) = conn[name]
=============================================================================
