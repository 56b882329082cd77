-------------------------------- MODULE AisSrc --------------------------------
(***************************************************************************)
(* The aissrc element (gstreamer/gst-plugins/aissrc.c) on the receiver half *)
(* of the C API, and the receiver queue below it, by what                   *)
(* PacketReceiverQueue establishes: a worker moves packets of the stream in *)
(* order into a bounded queue and, when its rpc ends, puts an EOS packet of *)
(* its own behind them, or an empty packet if the rpc ended with OK; after  *)
(* that one it dies, with the process.                                      *)
(***************************************************************************)
EXTENDS PacketSender

CONSTANT MaxQueue  \* capacity of the receiver queue

ASSUME QueueAssumption == MaxQueue \in Nat \ {0}

VARIABLES receiver,      \* the receiver and its rpc
          rqueue,        \* its queue
          shown,         \* history: packets its owner printed or pushed
          srcAt,         \* the element: "none", "null", "started", "creating", "ended"
          srcProps,      \* its properties
          ais_receiver   \* the pointer: "NULL", "live", "dangling"

receiverVars == <<receiver, rqueue>>
srcVars == <<srcAt, srcProps, ais_receiver>>

\* state: "none", "open", "ended", or "finished" with OK; seek: what the request
\* says of the position; start: the index in the log the server began at (0: it
\* has not begun); next: the one it delivers next.
NoReceiver == [state |-> "none", conn |-> NoConn, admitted |-> FALSE,
               seek |-> "any", start |-> 0, next |-> 0]

LocalEos == Packet("eos", -1, 0)

SrcInit ==
    /\ receiver = NoReceiver /\ rqueue = <<>> /\ shown = <<>>
    /\ srcAt = "none" /\ ais_receiver = "NULL"
    /\ srcProps = [conn |-> NoConn, timeout_in_sec |-> -1]

-----------------------------------------------------------------------------
(* The receiver.  A caller conjoins these with what it does.                *)

\* MakePacketReceiverQueue
CreateReceiver(c, seek) ==
    /\ ChannelMade(c)
    /\ \E admits \in MakeClientContext(c) :
           receiver' = [NoReceiver EXCEPT !.state = "open", !.conn = c,
                                          !.admitted = admits, !.seek = seek]
    /\ rqueue' = <<>> /\ shown' = <<>>

CreateReceiverFails(c) == ~ChannelMade(c) /\ UNCHANGED <<receiverVars, shown>>

DeleteReceiver == receiver' = [receiver EXCEPT !.state = "none"] /\ rqueue' = <<>>

\* The server begins at the position of the request, or where it likes.
ServerSeeks ==
    /\ receiver.state = "open" /\ receiver.admitted /\ receiver.start = 0
    /\ \E i \in CASE receiver.seek = "beginning" -> {1}
                  [] receiver.seek = "end"       -> {Len(log) + 1}
                  [] receiver.seek = "any"       -> 1 .. Len(log) + 1 :
           receiver' = [receiver EXCEPT !.start = i, !.next = i]
    /\ UNCHANGED rqueue

\* The worker receives a packet and puts it into the queue.  Mutant: a packet
\* that finds the queue full is dropped.
WorkerDropsWhenFull ==
    /\ receiver.state = "open" /\ receiver.next \in 1 .. Len(log)
    /\ rqueue' = IF Len(rqueue) < MaxQueue THEN Append(rqueue, log[receiver.next]) ELSE rqueue
    /\ receiver' = [receiver EXCEPT !.next = @ + 1]

WorkerPushes ==
    /\ receiver.state = "open" /\ receiver.next \in 1 .. Len(log)
    /\ Len(rqueue) < MaxQueue
    /\ rqueue' = Append(rqueue, log[receiver.next])
    /\ receiver' = [receiver EXCEPT !.next = @ + 1]

\* The rpc has ended; Emplace waits for space.
WorkerEmplacesEos ==
    /\ receiver.state = "open" /\ Len(rqueue) < MaxQueue
    /\ rqueue' = Append(rqueue, LocalEos)
    /\ receiver' = [receiver EXCEPT !.state = "ended"]

\* The server has ended the rpc with OK, so Receive is OK without a packet: the
\* worker pushes the one it has made for it.
WorkerPushesEmpty ==
    /\ receiver.state = "open" /\ Len(rqueue) < MaxQueue
    /\ rqueue' = Append(rqueue, EmptyPacket)
    /\ receiver' = [receiver EXCEPT !.state = "finished"]

ReceiverNext ==
    /\ ServerSeeks \/ WorkerPushes \/ WorkerEmplacesEos \/ WorkerPushesEmpty
    /\ UNCHANGED <<shown, srcVars>>

\* TryPop of an EOS packet, or of another one, which is shown.
Pops(p) ==
    /\ rqueue # <<>> /\ p = Head(rqueue)
    /\ rqueue' = Tail(rqueue)
    /\ shown' = IF IsEos(p) THEN shown ELSE Append(shown, p)
    /\ UNCHANGED receiver

\* Nothing came in timeout seconds; a negative timeout is without end.  Mutant:
\* so is a timeout of 0.
PopTimesOutUnlessZero(timeout) ==
    /\ timeout > 0 /\ rqueue = <<>>
    /\ UNCHANGED <<receiverVars, shown>>

PopTimesOut(timeout) ==
    /\ timeout >= 0 /\ rqueue = <<>>
    /\ UNCHANGED <<receiverVars, shown>>

-----------------------------------------------------------------------------
(* The element.                                                             *)

\* ais_src_class_init: the properties that are strings, besides receiver_name,
\* which nothing depends on; the others are the timeout and the booleans.
StringSrcProperties ==
    {"target_address", "stream_name", "ssl_domain_name", "ssl_root_cert_path"}

SrcAlreadyOpen == ais_receiver # "NULL"

SrcSetTargetAddress(value) ==
    IF SrcAlreadyOpen \/ value = "NULL" THEN srcProps
    ELSE [srcProps EXCEPT !.conn.target_address = value]

\* ais_src_set_receiver_name, _stream_name, _ssl_domain_name, _ssl_root_cert_path
SrcSetString(name, value) ==
    IF SrcAlreadyOpen THEN srcProps
    ELSE [srcProps EXCEPT !.conn[name] = IF value = "NULL" THEN "" ELSE value]

\* ais_src_set_property
SrcSetProperty(name, value) ==
    /\ srcAt # "none"
    /\ srcProps' =
           CASE name = "target_address" -> SrcSetTargetAddress(value)
             [] name \in StringSrcProperties \ {"target_address"} -> SrcSetString(name, value)
             [] name = "timeout_in_sec" -> [srcProps EXCEPT !.timeout_in_sec = value]
             [] OTHER -> [srcProps EXCEPT !.conn[name] = value]
    /\ UNCHANGED <<srcAt, ais_receiver>>

\* ais_src_get_property
SrcGetProperty(name) ==
    IF name = "timeout_in_sec" THEN srcProps.timeout_in_sec ELSE srcProps.conn[name]

\* ais_src_init
SrcCreated ==
    /\ srcAt' = "null" /\ ais_receiver' = "NULL"
    /\ srcProps' = [conn |-> [NoConn EXCEPT !.ssl_domain_name = "given"],
                    timeout_in_sec |-> -1]

\* AIS_NewReceiver; the C API has no offset options.
NewReceiver ==
    \/ CreateReceiver(SenderOptions(srcProps.conn), "any") /\ ais_receiver' = "live"
    \/ CreateReceiverFails(SenderOptions(srcProps.conn)) /\ ais_receiver' = "NULL"

\* ais_src_start
SrcStart ==
    /\ srcAt = "null" /\ NewReceiver /\ ais_receiver' # "NULL"
    /\ srcAt' = "started"
    /\ UNCHANGED srcProps

SrcStartFails ==
    /\ srcAt = "null" /\ NewReceiver /\ ais_receiver' = "NULL"
    /\ UNCHANGED <<srcAt, srcProps>>

\* The streaming thread calls ais_src_create.
CreateBegins ==
    /\ srcAt = "started" /\ srcAt' = "creating"
    /\ UNCHANGED <<srcProps, ais_receiver, receiverVars, shown>>

\* AIS_ToGstreamerBuffer
Convertible(p) == ToGstreamerBuffer(p).code = "OK"

\* ais_src_create returns: the flow, and whether it posts an error.  A packet
\* that is not convertible posts an error and returns GST_FLOW_OK without a
\* buffer, which ends the streaming thread; a buffer that cannot be mapped is
\* pushed blank.
CreateReturns(flow) ==
    /\ srcAt = "creating"
    /\ \/ PopTimesOut(srcProps.timeout_in_sec) /\ flow = "ERROR"
       \/ /\ rqueue # <<>>
          /\ LET p == Head(rqueue)
             IN  /\ flow = CASE IsEos(p) -> "EOS"
                              [] ~IsEos(p) /\ Convertible(p) -> "OK"
                              [] OTHER -> "ERROR"
                 /\ IF flow = "ERROR"
                    THEN rqueue' = Tail(rqueue) /\ UNCHANGED <<receiver, shown>>
                    ELSE Pops(p)
    /\ srcAt' = IF flow = "OK" THEN "started" ELSE "ended"
    /\ UNCHANGED <<srcProps, ais_receiver>>

\* ais_src_stop, once the streaming thread has left create: the pointer keeps
\* its value.
SrcStop ==
    /\ srcAt \in {"started", "ended"}
    /\ srcAt' = "null" /\ ais_receiver' = "dangling" /\ DeleteReceiver
    /\ UNCHANGED <<srcProps, shown>>

\* ais_src_dispose, or the end of the process
SrcGone == srcAt' = "none" /\ UNCHANGED <<srcProps, ais_receiver>>

\* The next Receive of the worker finishes the rpc again, and gRPC aborts the
\* process.
FinishAgain ==
    /\ receiver.state = "finished"
    /\ SrcGone /\ DeleteReceiver /\ UNCHANGED shown

-----------------------------------------------------------------------------
(* An application that plays and stops one element several times and sets   *)
(* its properties meanwhile.                                                *)

SrcAppSets(name, value) == SrcSetProperty(name, value) /\ UNCHANGED <<receiverVars, shown>>

SrcAppNext ==
    \/ srcAt = "none" /\ SrcCreated /\ UNCHANGED <<receiverVars, shown>>
    \/ \E value \in {"a", "b", "NULL"} : SrcAppSets("target_address", value)
    \/ \E value \in BOOLEAN : SrcAppSets("use_insecure_channel", value)
    \/ \E value \in {"readable", "NULL"} : SrcAppSets("ssl_root_cert_path", value)
    \/ \E value \in {-1, 5} : SrcAppSets("timeout_in_sec", value)
    \/ SrcStart \/ SrcStartFails \/ CreateBegins \/ SrcStop
    \/ \E flow \in {"OK", "EOS", "ERROR"} : CreateReturns(flow)
    \/ srcAt # "none" /\ FinishAgain

-----------------------------------------------------------------------------
(* Properties.                                                              *)

\* The part of ConnectedAsShown (Aisctl) about this element.
SrcConnectedAsShown ==
    ais_receiver = "live" =>
        \A name \in StringSrcProperties : SrcGetProperty(name) = receiver.conn[name]

\* What the owner of a receiver has shown, but for an empty packet at the end if
\* the rpc ended with OK, which no producer has sent.
Run == IF shown # <<>> /\ Last(shown) = EmptyPacket THEN Front(shown) ELSE shown

\* That is what the stream has from where the server began, packet by packet
\* without a gap, a repetition or an EOS; nothing is shown of what is behind the
\* first EOS, whichever producer sent it.
ShownIsRunOfStream ==
    Run # <<>> =>
        /\ Run = SubSeq(log, receiver.start, receiver.start + Len(Run) - 1)
        /\ \A i \in DOMAIN Run : ~IsEos(Run[i])
=============================================================================
