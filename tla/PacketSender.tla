----------------------------- MODULE PacketSender -----------------------------
(***************************************************************************)
(* PacketSender (base/packet_sender.cc) and MakePacketSender                *)
(* (base/wrappers/senders.cc), with the stream they send to.  A streaming   *)
(* Write that returns true has put the packet on its way; only the Finish   *)
(* in the destructor tells that the server has it.  The server, the other   *)
(* producers of the stream and the network are external.                    *)
(***************************************************************************)
EXTENDS Integers, Sequences, SequencesExt, StreamChannel, Packets

CONSTANTS MaxWire,     \* bound: packets on their way before Write blocks
          MaxDirect    \* bound: packets of a direct user of the class

ASSUME WireAssumption == MaxWire \in Nat \ {0} /\ MaxDirect \in Nat

VARIABLES log,       \* the stream: the packets the server has
          writer,    \* streaming_writer_ and its rpc: "none" (no sender),
                     \* "unary", "open", "broken"
          conn,      \* the connection the sender was made with
          admitted,  \* its rpc satisfies the ingress
          wire,      \* packets written and not yet received
          sent,      \* history: packets of this sender that Write took
          session,   \* history: number of senders made
          finish,    \* the destructor: "none", "waiting", "OK", "error"
          direct     \* a program that uses PacketSender itself

senderVars == <<writer, conn, admitted, wire, sent, session, finish>>

NoConn == [target_address |-> "", stream_name |-> "", ssl_domain_name |-> "",
           ssl_root_cert_path |-> "", authenticate_with_google |-> FALSE,
           use_insecure_channel |-> FALSE]

\* The n-th packet of a sender: a GstreamerBuffer, a string, which cannot be
\* converted to one, or an EOS.  Its bytes are told apart by who sent them.
Packet(kind, from, n) ==
    CASE kind = "buffer" -> MakePacket(GstreamerBuffer(Nothing, <<from, n>>), EmptyHeader)
      [] kind = "string" -> MakePacket(Value("string", Nothing, <<from, n>>), EmptyHeader)
      [] kind = "eos"    -> MakeEosPacket(<<from, n>>)
From(p) == p.payload[1]

SenderInit ==
    /\ log = <<>> /\ direct = [at |-> "start", left |-> MaxDirect]
    /\ writer = "none" /\ conn = NoConn /\ admitted = FALSE
    /\ wire = <<>> /\ sent = <<>> /\ session = 0 /\ finish = "none"

-----------------------------------------------------------------------------
(* The class.  A caller conjoins these with what it does with the outcome.  *)

\* The AIS_Set... of the C API, and the stream name of AIS_NewSender and
\* AIS_NewReceiver.
SenderOptions(p) ==
    [target_address |-> p.target_address, stream_name |-> p.stream_name,
     authenticate_with_google |-> p.authenticate_with_google,
     use_insecure_channel |-> p.use_insecure_channel,
     ssl_domain_name |-> p.ssl_domain_name, ssl_root_cert_path |-> p.ssl_root_cert_path]

\* Create and Initialize, MakePacketSender
CreateSender(c, unary) ==
    /\ ChannelMade(c)
    /\ admitted' \in MakeClientContext(c)
    /\ writer' = IF unary THEN "unary" ELSE "open"
    /\ conn' = c /\ session' = session + 1
    /\ wire' = <<>> /\ sent' = <<>> /\ finish' = "none"
    /\ UNCHANGED log

CreateSenderFails(c) == ~ChannelMade(c) /\ UNCHANGED <<log, senderVars>>

\* Send returned OK.  A unary packet that the server does not accept counts as
\* sent, too.
SendOk(p) ==
    /\ \/ /\ writer = "open" /\ Len(wire) < MaxWire
          /\ wire' = Append(wire, p) /\ sent' = Append(sent, p)
          /\ UNCHANGED log
       \/ /\ writer = "unary" /\ admitted
          /\ log' \in {log, Append(log, p)}
          /\ UNCHANGED <<wire, sent>>
    /\ UNCHANGED <<writer, conn, admitted, session, finish>>

\* Send returned an error: the streaming rpc is broken, or the unary one failed
\* before or after the server had the packet.
SendFails(p) ==
    /\ \/ writer = "broken" /\ UNCHANGED log
       \/ writer = "unary" /\ log' \in {log, Append(log, p)}
    /\ UNCHANGED senderVars

\* ~PacketSender: WritesDone, then Finish waits for the end of the rpc.
DeleteSender ==
    /\ writer # "none"
    /\ finish' = IF writer = "unary" THEN "OK" ELSE "waiting"
    /\ writer' = IF writer = "unary" THEN "none" ELSE writer
    /\ UNCHANGED <<log, conn, admitted, wire, sent, session>>

\* Mutant: the destructor does not wait for Finish.
FinishNotAwaited ==
    /\ finish = "waiting"
    /\ finish' = IF writer = "open" THEN "OK" ELSE "error"
    /\ writer' = "none" /\ wire' = <<>>
    /\ UNCHANGED <<log, conn, admitted, sent, session>>

FinishReturns ==
    /\ finish = "waiting"
    /\ writer = "open" => admitted /\ wire = <<>>
    /\ finish' = IF writer = "open" THEN "OK" ELSE "error"
    /\ writer' = "none"
    /\ UNCHANGED <<log, conn, admitted, wire, sent, session>>

\* The process ends with the sender alive: the rpc is cancelled.
AbandonSender ==
    /\ writer' = "none" /\ wire' = <<>>
    /\ UNCHANGED <<log, conn, admitted, sent, session, finish>>

-----------------------------------------------------------------------------
(* Server and network.                                                      *)

ServerReceives ==
    /\ writer = "open" /\ admitted /\ wire # <<>>
    /\ log' = Append(log, Head(wire)) /\ wire' = Tail(wire)
    /\ UNCHANGED <<writer, conn, admitted, sent, session, finish, direct>>

\* The address is wrong, the ingress refuses, the connection is lost.
RpcBreaks ==
    /\ writer = "open"
    /\ writer' = "broken" /\ wire' = <<>>
    /\ UNCHANGED <<log, conn, admitted, sent, session, finish, direct>>

\* Another producer of the stream.
Foreign == SelectSeq(log, LAMBDA p : From(p) = 0)
OtherProducer ==
    /\ \E kind \in {"buffer", "string", "eos"} :
           log' = Append(log, Packet(kind, 0, Len(Foreign) + 1))
    /\ UNCHANGED <<senderVars, direct>>

SenderEnvironment == ServerReceives \/ RpcBreaks

-----------------------------------------------------------------------------
(* A program that uses the class directly, with either kind of rpc.         *)

DirectCreate ==
    /\ direct.at = "start"
    /\ \E c \in Connections, unary \in BOOLEAN :
           /\ c.target_address = "a" /\ c.stream_name = "s" /\ c.ssl_domain_name = "given"
           /\ \/ CreateSender(c, unary) /\ direct' = [direct EXCEPT !.at = "send"]
              \/ CreateSenderFails(c) /\ direct' = [direct EXCEPT !.at = "done"]

DirectSend ==
    /\ direct.at = "send" /\ direct.left > 0
    /\ LET p == Packet("buffer", session, direct.left)
       IN  SendOk(p) \/ SendFails(p)
    /\ direct' = [direct EXCEPT !.left = @ - 1]

DirectDelete ==
    /\ direct.at = "send" /\ DeleteSender
    /\ direct' = [direct EXCEPT !.at = "delete"]

DirectReturns ==
    /\ direct.at = "delete"
    /\ \/ FinishReturns
       \/ finish # "waiting" /\ UNCHANGED <<log, senderVars>>
    /\ direct' = [direct EXCEPT !.at = "done"]

DirectNext == DirectCreate \/ DirectSend \/ DirectDelete \/ DirectReturns

-----------------------------------------------------------------------------
(* Properties.                                                              *)

\* Where the stream has the packets of this sender.  Packets of other producers
\* may be in between.
Delivered == {k \in DOMAIN log : From(log[k]) = session}
UpTo(k) == {j \in Delivered : j <= k}
InOrder == \A k \in Delivered : log[k] = sent[Cardinality(UpTo(k))]
AllDelivered == Cardinality(Delivered) = Len(sent)

\* What a streaming sender has written arrives in order and at most once, and
\* a destructor whose Finish returned OK has delivered all of it, whatever else
\* reaches the stream and whenever the rpc breaks.
SessionDelivered ==
    sent # <<>> =>
        /\ InOrder /\ Cardinality(Delivered) <= Len(sent)
        /\ finish = "OK" => AllDelivered
=============================================================================
