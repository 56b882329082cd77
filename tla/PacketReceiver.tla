--------------------------- MODULE PacketReceiver ---------------------------
(***************************************************************************)
(* PacketReceiver (base/packet_receiver.cc) and the subscriber that drives  *)
(* it.  A receiver reads one stream in one of four modes.  StreamingReceive *)
(* and Replay keep one server-streaming rpc open; Auto opens one of each    *)
(* and settles at the first Receive; UnaryReceive polls with one rpc per    *)
(* packet.                                                                  *)
(*                                                                          *)
(* The stream server is external: what it does with an rpc is taken from    *)
(* proto/stream.proto and from how the client and its tests use it.  A      *)
(* packet is its position in the stream.                                    *)
(***************************************************************************)
EXTENDS Integers, Sequences, FiniteSets, FiniteSetsExt

CONSTANTS LastPacket,  \* bound: packets ever sent to the stream
          Seek,        \* the position of offset_options, or of its time, when it is set
          MaxFailures  \* bound: unary rpcs that fail

ASSUME BoundsAssumption ==
    /\ LastPacket \in Nat \ {0}
    /\ Seek \in 1 .. LastPacket
    /\ MaxFailures \in Nat

VARIABLES
    mode,     \* options_.receiver_mode
    reset,    \* options_.offset_options.reset_offset
    phase,    \* progress of Create: "new", "replay_open", "ready", "failed"
    current_receiver_mode_,
    first_receiving_,
    unary_packets_received_,
    rpc,      \* the entries of streaming_readers_ and ctx_, by mode
    call,     \* the subscriber: "idle", "reading", "callback", "returned"
    first,    \* first_receiving, the local of the running StreamingReceive
    got,      \* history: the packets Receive has returned
    empty,    \* history: Receive returned OK without a packet
    sent,     \* server: packets in the stream
    critical, \* server: the packets, those to come included, that are critical
    oldest,   \* server: the oldest packet ReceivePackets can still serve
    cursor,   \* server: the next packet of this unary consumer
    failures, \* unary rpcs failed so far
    lost      \* history: a packet was lost with a unary response whose request
              \* had no offset

options == <<mode, reset>>
server  == <<sent, critical, oldest>>
unary   == <<unary_packets_received_, cursor, failures, lost>>
vars    == <<options, phase, current_receiver_mode_, first_receiving_, rpc, call,
             first, got, empty, server, unary>>

Modes          == {"StreamingReceive", "UnaryReceive", "Replay", "Auto"}
StreamingModes == {"StreamingReceive", "Replay"}

\* An entry that is not in the maps; an rpc the server has ended, with its
\* status, has not been finished by the client yet.
NoRpc == [state |-> "none", next |-> 0, status |-> "OK"]

Statuses == {"OK", "OUT_OF_RANGE", "INTERNAL"}

Init ==
    /\ mode \in Modes /\ reset \in BOOLEAN
    /\ phase = "new"
    /\ current_receiver_mode_ = "none"
    /\ first_receiving_ = TRUE
    /\ rpc = [m \in StreamingModes |-> NoRpc]
    /\ call = "idle"
    /\ first = FALSE
    /\ got = <<>>
    /\ empty = FALSE
    /\ sent \in 0 .. LastPacket
    /\ critical \in SUBSET (1 .. LastPacket)
    /\ oldest = 1
    /\ unary_packets_received_ = 0
    /\ cursor = 0
    /\ failures = 0
    /\ lost = FALSE

-----------------------------------------------------------------------------
(* The stream server.                                                       *)

CriticalUpTo(k) == {c \in critical : c <= k}

\* An offset whose packet is not critical stands for the latest critical packet
\* before it; with none before it, only the packet itself is left to start at.
OffsetPosition ==
    IF CriticalUpTo(Seek) # {} THEN Max(CriticalUpTo(Seek)) ELSE Seek

\* A consumer without an offset starts at the latest packet.
StartPosition(withOffset) ==
    IF withOffset THEN OffsetPosition ELSE IF sent = 0 THEN 1 ELSE sent

\* What an offset stands for is settled when the stream has come to it.
OffsetReached == reset => Seek <= sent

\* A sender adds a packet.
AppendPacket ==
    /\ sent < LastPacket
    /\ sent' = sent + 1
    /\ UNCHANGED <<options, phase, current_receiver_mode_, first_receiving_, rpc, call,
                   first, got, empty, critical, oldest, unary>>

\* The oldest packet leaves the window that ReceivePackets serves; Replay
\* still has it.
Evict ==
    /\ oldest <= sent
    /\ oldest' = oldest + 1
    /\ UNCHANGED <<options, phase, current_receiver_mode_, first_receiving_, rpc, call,
                   first, got, empty, sent, critical, unary>>

\* The next packet of the live rpc has left the window.
OutOfRange == OffsetReached /\ rpc["StreamingReceive"].next < oldest

\* The server, or the connection, ends an rpc.
EndRpc(m, status) ==
    /\ rpc[m].state = "open"
    /\ status = "OUT_OF_RANGE" => m = "StreamingReceive" /\ OutOfRange
    /\ rpc' = [rpc EXCEPT ![m].state = "ended", ![m].status = status]
    /\ UNCHANGED <<options, phase, current_receiver_mode_, first_receiving_, call,
                   first, got, empty, server, unary>>

\* Read(packet) will return true with the next packet.
Readable(m) ==
    /\ rpc[m].state = "open"
    /\ OffsetReached /\ rpc[m].next <= sent
    /\ m = "StreamingReceive" => rpc[m].next >= oldest

-----------------------------------------------------------------------------
(* Create: Initialize opens the rpcs of the mode.                           *)

OpenRpc(m) == [state |-> "open", next |-> StartPosition(reset), status |-> "OK"]

\* No StreamChannel, or no client context for the rpc.
CreateFails ==
    /\ phase \in {"new", "replay_open"}
    /\ phase' = "failed"
    /\ rpc' = [m \in StreamingModes |-> NoRpc]
    /\ UNCHANGED <<options, current_receiver_mode_, first_receiving_, call, first, got,
                   empty, server, unary>>

InitializeReplayStream ==
    /\ phase = "new" /\ mode \in {"Auto", "Replay"}
    /\ current_receiver_mode_' = "Replay"
    /\ rpc' = [rpc EXCEPT !["Replay"] = OpenRpc("Replay")]
    /\ phase' = IF mode = "Auto" THEN "replay_open" ELSE "ready"
    /\ UNCHANGED <<options, first_receiving_, call, first, got, empty, server, unary>>

InitializeReceivePacket ==
    /\ \/ phase = "new" /\ mode = "StreamingReceive"
       \/ phase = "replay_open"
    /\ current_receiver_mode_' = "StreamingReceive"
    /\ rpc' = [rpc EXCEPT !["StreamingReceive"] = OpenRpc("StreamingReceive")]
    /\ phase' = "ready"
    /\ UNCHANGED <<options, first_receiving_, call, first, got, empty, server, unary>>

InitializeUnary ==
    /\ phase = "new" /\ mode = "UnaryReceive"
    /\ phase' = "ready"
    /\ UNCHANGED <<options, current_receiver_mode_, first_receiving_, rpc, call, first,
                   got, empty, server, unary>>

-----------------------------------------------------------------------------
(* Receive in the streaming modes.                                          *)

Unused(m) == CHOOSE other \in StreamingModes : other # m

\* Mutant: the current rpc is disposed of, not the other one.
DisposeCurrent(rpcs, current) == [rpcs EXCEPT ![current] = NoRpc]

\* DisposeUnusedClientReader: cancel the rpc that is not the current one and
\* erase it from both maps.
Dispose(rpcs, current) == [rpcs EXCEPT ![Unused(current)] = NoRpc]

StreamingReceive ==
    /\ phase = "ready" /\ call = "idle" /\ mode # "UnaryReceive"
    /\ first' = first_receiving_
    /\ first_receiving_' = FALSE
    /\ call' = "reading"
    /\ UNCHANGED <<options, phase, current_receiver_mode_, rpc, got, empty, server, unary>>

\* Read returned a packet.
ReadPacket ==
    /\ call = "reading" /\ Readable(current_receiver_mode_)
    /\ LET m    == current_receiver_mode_
           read == [rpc EXCEPT ![m].next = @ + 1]
       IN  /\ got' = Append(got, rpc[m].next)
           /\ rpc' = IF first /\ mode = "Auto" THEN Dispose(read, m) ELSE read
    /\ call' = "callback"
    /\ UNCHANGED <<options, phase, current_receiver_mode_, first_receiving_, first,
                   empty, server, unary>>

\* Mutant: the comparison of the current mode is with the wrong one.
ReplayOutOfRange ==
    /\ mode = "Auto" /\ current_receiver_mode_ = "Replay"
    /\ rpc["StreamingReceive"].state = "ended"
    /\ rpc["StreamingReceive"].status = "OUT_OF_RANGE"

\* The current rpc, the live one of an Auto receiver, ended because the offset
\* is out of its range.
LiveOutOfRange ==
    /\ mode = "Auto" /\ current_receiver_mode_ = "StreamingReceive"
    /\ rpc["StreamingReceive"].state = "ended"
    /\ rpc["StreamingReceive"].status = "OUT_OF_RANGE"

SwitchTo(next, rpcs) ==
    /\ call = "reading"
    /\ current_receiver_mode_' = next
    /\ rpc' = rpcs
    /\ first' = FALSE
    /\ UNCHANGED <<options, phase, first_receiving_, call, got, empty, server, unary>>

\* Mutant: the live rpc is kept.
SwitchWithoutDispose == first /\ LiveOutOfRange /\ SwitchTo("Replay", rpc)

\* Read returned false, Finish said OUT_OF_RANGE, and it is the first Receive
\* in Auto mode: go on with the replay rpc, in a nested StreamingReceive that
\* finds first_receiving_ false.
SwitchToReplay == first /\ LiveOutOfRange /\ SwitchTo("Replay", Dispose(rpc, "Replay"))

\* Read returned false and Finish's status is what Receive returns.  With an
\* error the subscriber stops; a server that ended the rpc with OK makes
\* Receive return OK, with no packet.
ReadFails ==
    /\ call = "reading" /\ rpc[current_receiver_mode_].state = "ended"
    /\ ~(first /\ LiveOutOfRange)
    /\ rpc' = [rpc EXCEPT ![current_receiver_mode_].state = "finished"]
    /\ IF rpc[current_receiver_mode_].status = "OK"
       THEN call' = "callback" /\ empty' = TRUE
       ELSE call' = "returned" /\ UNCHANGED empty
    /\ UNCHANGED <<options, phase, current_receiver_mode_, first_receiving_, first, got,
                   server, unary>>

\* gRPC aborts the process when Finish is called a second time.
FinishAgain ==
    /\ call = "reading" /\ rpc[current_receiver_mode_].state = "finished"
    /\ call' = "aborted"
    /\ UNCHANGED <<options, phase, current_receiver_mode_, first_receiving_, rpc, first,
                   got, empty, server, unary>>

-----------------------------------------------------------------------------
(* Receive in the unary mode.                                               *)

\* Mutant: every request carries the offset.
AlwaysSendsOffset == reset

SendsOffset == unary_packets_received_ = 0 /\ reset

\* Where the server serves this request from: it moves the consumer to the
\* offset, resumes it, or makes a new one.
ServedFrom == IF SendsOffset \/ cursor = 0 THEN StartPosition(SendsOffset) ELSE cursor

UnaryReady == phase = "ready" /\ call = "idle" /\ mode = "UnaryReceive"

Streaming == <<current_receiver_mode_, first_receiving_, rpc, first>>

\* Mutant: the packet is counted before the status of the rpc is looked at.
UnaryFailsCounted ==
    /\ UnaryReady /\ failures < MaxFailures
    /\ failures' = failures + 1
    /\ unary_packets_received_' = unary_packets_received_ + 1
    /\ call' = "returned"
    /\ UNCHANGED <<options, phase, Streaming, got, empty, server, cursor, lost>>

\* The rpc fails before it reaches the server, or finds no packet in time.
UnaryFails ==
    /\ UnaryReady /\ failures < MaxFailures
    /\ failures' = failures + 1
    /\ call' = "returned"
    /\ UNCHANGED <<options, phase, Streaming, got, empty, server,
                   unary_packets_received_, cursor, lost>>

\* The server hands out a packet, and the response is lost: the deadline
\* passes, or the connection breaks, on its way.
UnaryResponseLost ==
    /\ UnaryReady /\ failures < MaxFailures /\ OffsetReached /\ ServedFrom <= sent
    /\ failures' = failures + 1
    /\ cursor' = ServedFrom + 1
    /\ lost' = (lost \/ ~SendsOffset)
    /\ call' = "returned"
    /\ UNCHANGED <<options, phase, Streaming, got, empty, server, unary_packets_received_>>

\* The rpc succeeds with a response that is not valid: NotFound, but counted.
UnaryNotValid ==
    /\ UnaryReady /\ failures < MaxFailures
    /\ failures' = failures + 1
    /\ cursor' = ServedFrom
    /\ unary_packets_received_' = unary_packets_received_ + 1
    /\ call' = "returned"
    /\ UNCHANGED <<options, phase, Streaming, got, empty, server, lost>>

UnaryPacket ==
    /\ UnaryReady /\ OffsetReached /\ ServedFrom <= sent
    /\ got' = Append(got, ServedFrom)
    /\ cursor' = ServedFrom + 1
    /\ unary_packets_received_' = unary_packets_received_ + 1
    /\ call' = "callback"
    /\ UNCHANGED <<options, phase, Streaming, empty, server, failures, lost>>

-----------------------------------------------------------------------------
(* The subscriber: the loop of Subscribe, or a caller of Receive.           *)

\* The callback asks for more (with an OK status or any error but kCancelled)
\* or for the end.
Callback ==
    /\ call = "callback"
    /\ call' \in {"idle", "returned"}
    /\ UNCHANGED <<options, phase, Streaming, got, empty, server, unary>>

\* A caller of Receive polls again after an error.
RetryUnary ==
    /\ call = "returned" /\ mode = "UnaryReceive"
    /\ call' = "idle"
    /\ UNCHANGED <<options, phase, Streaming, got, empty, server, unary>>

Create ==
    CreateFails \/ InitializeReplayStream \/ InitializeReceivePacket \/ InitializeUnary

Receive ==
    \/ StreamingReceive \/ ReadPacket \/ SwitchToReplay \/ ReadFails \/ FinishAgain
    \/ UnaryFails \/ UnaryResponseLost \/ UnaryNotValid \/ UnaryPacket

Server == AppendPacket \/ Evict \/ \E m \in StreamingModes, s \in Statuses : EndRpc(m, s)

Next == Create \/ Receive \/ Callback \/ RetryUnary \/ Server

Spec == Init /\ [][Next]_vars

\* The caller of Receive runs, and a stream that a receiver has fallen out of
\* is ended by the server.
Fairness ==
    /\ WF_vars(Receive)
    /\ WF_vars(EndRpc("StreamingReceive", "OUT_OF_RANGE"))

FairSpec == Spec /\ Fairness

-----------------------------------------------------------------------------
(* Properties.                                                              *)

Packets == 1 .. LastPacket

RpcEntries == [state : {"none", "open", "ended", "finished"},
               next : 0 .. LastPacket + 1, status : Statuses]

TypeOK ==
    /\ mode \in Modes /\ reset \in BOOLEAN
    /\ phase \in {"new", "replay_open", "ready", "failed"}
    /\ current_receiver_mode_ \in StreamingModes \cup {"none"}
    /\ first_receiving_ \in BOOLEAN /\ first \in BOOLEAN
    /\ rpc \in [StreamingModes -> RpcEntries]
    /\ call \in {"idle", "reading", "callback", "returned", "aborted"}
    /\ got \in Seq(Packets) /\ empty \in BOOLEAN /\ lost \in BOOLEAN
    /\ sent \in 0 .. LastPacket /\ oldest \in 1 .. LastPacket + 1
    /\ critical \in SUBSET Packets
    /\ cursor \in 0 .. LastPacket + 1
    /\ unary_packets_received_ \in Nat /\ failures \in 0 .. MaxFailures

\* What arrives is a contiguous run of the stream, in its order: also across
\* the switch of Auto from the live rpc to the replay rpc that was opened
\* before it, and across failed and retried unary polls.  The one exception is
\* a unary response lost on its way: the server has moved on, and only a next
\* request with an offset brings it back.
Gapless ==
    lost \/ \A n \in 2 .. Len(got) : got[n] = got[n - 1] + 1

\* With an offset the first packet that arrives is the one stream.proto:35-45
\* promises, the latest critical packet up to the offset: in every mode,
\* whatever failed or was switched before it arrived.  UnaryReceive sends the
\* offset until an rpc has succeeded, and sending it again is safe; the rpcs of
\* Auto both carry it.
OffsetHonoured ==
    reset /\ ~lost /\ got # <<>> =>
        \/ /\ got[1] \in critical /\ got[1] <= Seek
           /\ \A c \in critical : c <= Seek => c <= got[1]
        \/ got[1] = Seek /\ \A c \in critical : c > Seek

\* The reader that is read is one in the map: DisposeUnusedClientReader never
\* takes away the current one, and the one it takes is the other.
ReaderPresent ==
    call = "reading" => rpc[current_receiver_mode_].state # "none"

\* Once the first Receive has come back with a packet, or the receiver has
\* switched, a receiver holds one rpc: nothing keeps a second one open behind
\* the back of the server.
OneRpcOnceSettled ==
    got # <<>> \/ (mode = "Auto" /\ current_receiver_mode_ = "Replay" /\ phase = "ready")
    => Cardinality({m \in StreamingModes : rpc[m].state # "none"}) <= 1

\* A receiver never changes the mode under a caller that has packets already.
NoLateSwitch ==
    [][current_receiver_mode_' # current_receiver_mode_ => got = <<>>]_vars

\* A first Receive in Auto mode whose offset has left the live window goes on
\* with the replay rpc: it does not wait for the live one, and does not hand
\* OUT_OF_RANGE to its caller.  Only a live rpc that ends in another way, at the
\* same time, keeps it from that.
AutoFallsBack ==
    (call = "reading" /\ mode = "Auto" /\ first /\ OutOfRange)
    ~> \/ current_receiver_mode_ = "Replay"
       \/ /\ rpc["StreamingReceive"].state = "finished"
          /\ rpc["StreamingReceive"].status # "OUT_OF_RANGE"

\* packet_receiver.h:85: Receive "blocks until a packet is available or when
\* an error occurs", so a Receive that returns OK has a packet.
OkMeansPacket == ~empty
=============================================================================
