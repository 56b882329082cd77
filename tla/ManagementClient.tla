-------------------------- MODULE ManagementClient --------------------------
(***************************************************************************)
(* The management client (base/management_client.cc): one call of a        *)
(* StreamManager or a ClusterManager, and the servers it talks to.         *)
(*                                                                          *)
(* An on-prem StreamManager makes one rpc.  The managed StreamManager and   *)
(* the ClusterManager create and delete through a long-running operation    *)
(* (LRO) of the server, which WaitOperation polls a bounded number of times *)
(* with growing waits; they list and get with one rpc.  The server works on *)
(* the LRO by itself, before, between and after the polls, and other        *)
(* clients create and delete meanwhile.                                     *)
(***************************************************************************)
EXTENDS Integers, Sequences

CONSTANTS Names,        \* names of streams and clusters
          MaxTrials,    \* kMaxTrials
          InitialWait,  \* initial_wait_time of the ExponentialBackoff, in seconds
          MaxWait,      \* max_wait_time
          Multiplier,   \* wait_time_multiplier
          Patience,     \* "around 20 minutes", in seconds
          ClusterPort   \* digits of the port in a cluster's service endpoint

ASSUME TrialsAssumption == MaxTrials \in Nat
ASSUME BackoffAssumption ==
    InitialWait \in Nat /\ MaxWait \in Int /\ Multiplier \in Nat /\ Patience \in Nat
ASSUME PortAssumption == ClusterPort \in Seq(0 .. 9)

VARIABLES call,       \* the call under way
          at,         \* where it is
          trials,     \* num_trials of WaitOperation
          wait,       \* current_wait_time_ of its ExponentialBackoff
          waited,     \* history: seconds spent in ExponentialBackoff::Wait
          opStatus,   \* what WaitOperation returned
          status,     \* what the call returned
          found,      \* the streams or clusters it returned
          resources,  \* server: what exists, per kind
          lro,        \* server: the LRO of the call
          applied     \* history: the server carried the call out

clientVars == <<call, at, trials, wait, waited, opStatus, status, found>>
serverVars == <<resources, lro, applied>>
managementVars == <<clientVars, serverVars>>

Kinds == {"onprem", "stream", "cluster"}
Verbs == {"create", "list", "delete", "get"}
Calls == [kind : Kinds, verb : Verbs, name : Names]
NoCall == [kind |-> "none", verb |-> "none", name |-> "none"]

Min2(a, b) == IF a < b THEN a ELSE b
Max2(a, b) == IF a < b THEN b ELSE a

\* Called with a new manager: nothing asked of the server yet.
ManagementInit ==
    /\ call = NoCall /\ at = "idle"
    /\ trials = 0 /\ wait = 0 /\ waited = 0
    /\ opStatus = "none" /\ status = "none" /\ found = {}
    /\ \E existing \in SUBSET Names : resources = [k \in Kinds |-> existing]
    /\ lro = "none" /\ applied = FALSE

-----------------------------------------------------------------------------
(* The servers, seen through the client: which requests they can carry out  *)
(* and with what effect.                                                    *)

Possible(c) ==
    \/ c.verb = "create" /\ c.name \notin resources[c.kind]
    \/ c.verb = "delete" /\ c.name \in resources[c.kind]

Effect(c) ==
    [resources EXCEPT ![c.kind] = IF c.verb = "create" THEN @ \cup {c.name}
                                                       ELSE @ \ {c.name}]

\* The LRO ends, whether or not anybody still polls it.
OperationSucceeds ==
    /\ lro = "pending" /\ Possible(call)
    /\ lro' = "succeeded" /\ resources' = Effect(call) /\ applied' = TRUE
    /\ UNCHANGED clientVars

OperationFails ==
    /\ lro = "pending"
    /\ lro' = "failed"
    /\ UNCHANGED <<clientVars, resources, applied>>

\* Another client of the same server.
OtherClient ==
    /\ call # NoCall /\ at # "done"
    /\ \E n \in Names :
           resources' = [resources EXCEPT ![call.kind] =
                             IF n \in @ THEN @ \ {n} ELSE @ \cup {n}]
    /\ UNCHANGED <<clientVars, lro, applied>>

ServerNext == OperationSucceeds \/ OperationFails \/ OtherClient

-----------------------------------------------------------------------------
(* What a call returns.                                                     *)

Return(s, f) ==
    /\ at' = "done" /\ status' = s /\ found' = f
    /\ UNCHANGED <<call, trials, wait, waited, opStatus>>

\* ":80" is replaced where it is found: at the front of the port's digits.
ReplaceServiceEndpointPort(port) ==
    IF Len(port) >= 2 /\ port[1] = 8 /\ port[2] = 0
    THEN <<4, 4, 3>> \o SubSeq(port, 3, Len(port))
    ELSE port

Described(kind, names) ==
    {[name |-> n, port |-> IF kind = "cluster" THEN ReplaceServiceEndpointPort(ClusterPort)
                                               ELSE <<>>] : n \in names}

\* Begin a call on a manager that Initialize has accepted.
Begin(c) ==
    /\ at = "idle"
    /\ call' = c /\ at' = "rpc"
    /\ UNCHANGED <<trials, wait, waited, opStatus, status, found, resources, lro, applied>>

-----------------------------------------------------------------------------
(* The calls.  An rpc that fails may have reached the server or not.        *)

\* OnPremStreamManagerImpl: one rpc.
OnPremChange(verb) ==
    /\ at = "rpc" /\ call.kind = "onprem" /\ call.verb = verb
    /\ \/ /\ Possible(call)
          /\ resources' = Effect(call) /\ applied' = TRUE
          /\ \/ Return("OK", Described("onprem", {call.name} \cap resources'["onprem"]))
             \/ Return("UNKNOWN", {})
       \/ Return("UNKNOWN", {}) /\ UNCHANGED <<resources, applied>>
    /\ UNCHANGED lro

OnPremCreateStream == OnPremChange("create")
OnPremDeleteStream == OnPremChange("delete")

\* ManagedStreamManagerImpl, ClusterManagerImpl: the rpc that starts the LRO,
\* then a new ExponentialBackoff in WaitOperation.
StartOperation(kind, verb) ==
    /\ at = "rpc" /\ call.kind = kind /\ call.verb = verb
    /\ \/ /\ lro' = "pending"
          /\ at' = "poll" /\ trials' = 0 /\ wait' = InitialWait
          /\ UNCHANGED <<call, waited, opStatus, status, found>>
       \/ lro' \in {"none", "pending"} /\ Return("UNKNOWN", {})
    /\ UNCHANGED <<resources, applied>>

CreateStream  == StartOperation("stream", "create")
DeleteStream  == StartOperation("stream", "delete")
CreateCluster == StartOperation("cluster", "create")
DeleteCluster == StartOperation("cluster", "delete")

\* One rpc, with the answers the server may give.
Query(kind, verb, answers) ==
    /\ at = "rpc" /\ call.kind = kind /\ call.verb = verb
    /\ \/ \E names \in answers : Return("OK", Described(kind, names))
       \/ Return("UNKNOWN", {})
    /\ UNCHANGED serverVars

OnPremListStreams == Query("onprem", "list", {resources["onprem"]})
ListStreams  == Query("stream", "list", {resources["stream"]})
ListClusters == Query("cluster", "list", {resources["cluster"]})
GetCluster   == Query("cluster", "get", {{call.name}} \cap SUBSET resources["cluster"])

\* WaitOperation returns to CreateStream, DeleteStream, CreateCluster or
\* DeleteCluster: with an error, which they turn into another, or with an LRO.
WaitOperationFails(s) ==
    /\ opStatus' = s /\ at' = "done" /\ status' = "UNKNOWN"
    /\ UNCHANGED found

WaitOperationSucceeds ==
    /\ opStatus' = "OK"
    /\ \/ call.verb = "create" /\ at' = "unpack" /\ UNCHANGED status
       \/ call.verb = "delete" /\ at' = "done" /\ status' = "OK"
    /\ UNCHANGED found

\* What the response of GetOperation says: an LRO that failed is done, too.
\* Mutant: has_error is not looked at.
HasErrorIgnored == FALSE
HasError == lro = "failed"
Done == lro \in {"succeeded", "failed"}

\* ++num_trials > kMaxTrials.  Mutant: one trial fewer.
TooManyRetriesEarly(n) == n >= MaxTrials
TooManyRetries(n) == n > MaxTrials

\* One turn of the loop of WaitOperation.
Poll ==
    /\ at = "poll"
    /\ \/ WaitOperationFails("UNKNOWN") /\ UNCHANGED trials     \* the rpc failed
       \/ HasError /\ WaitOperationFails("UNKNOWN") /\ UNCHANGED trials
       \/ ~HasError /\ Done /\ WaitOperationSucceeds /\ UNCHANGED trials
       \/ /\ ~HasError /\ ~Done
          /\ trials' = trials + 1
          /\ IF TooManyRetries(trials') THEN WaitOperationFails("DEADLINE_EXCEEDED")
             ELSE at' = "wait" /\ UNCHANGED <<opStatus, status, found>>
    /\ UNCHANGED <<call, wait, waited, serverVars>>

\* The bounds that the constructor of ExponentialBackoff enforces.
Longest == Max2(MaxWait, InitialWait)
Growth  == Max2(Multiplier, 1)

\* ExponentialBackoff::Wait
BackoffWait ==
    /\ at = "wait"
    /\ at' = "poll" /\ waited' = waited + wait
    /\ wait' = IF wait < Longest THEN Min2(Growth * wait, Longest) ELSE wait
    /\ UNCHANGED <<call, trials, opStatus, status, found, serverVars>>

\* CreateStream and CreateCluster unpack the response of the LRO.  CreateCluster
\* returns the cluster it was given, without an endpoint, not the one it unpacked.
Unpack(kind, result) ==
    /\ at = "unpack" /\ call.kind = kind
    /\ Return("OK", {result}) \/ Return("UNKNOWN", {})
    /\ UNCHANGED serverVars

UnpackStream  == Unpack("stream", [name |-> call.name, port |-> <<>>])
UnpackCluster == Unpack("cluster", [name |-> call.name, port |-> <<>>])

ClientNext ==
    \/ OnPremCreateStream \/ OnPremDeleteStream \/ OnPremListStreams
    \/ CreateStream \/ DeleteStream \/ ListStreams
    \/ CreateCluster \/ DeleteCluster \/ ListClusters \/ GetCluster
    \/ Poll \/ BackoffWait \/ UnpackStream \/ UnpackCluster

\* The client and its servers on their own, for any call.
ManagementNext == (\E c \in Calls : Begin(c)) \/ ClientNext \/ ServerNext
ManagementSpec == ManagementInit /\ [][ManagementNext]_managementVars

-----------------------------------------------------------------------------
(* Properties.                                                              *)

ManagementTypeOK ==
    /\ call \in Calls \cup {NoCall}
    /\ at \in {"idle", "rpc", "poll", "wait", "unpack", "done"}
    /\ trials \in 0 .. MaxTrials + 1
    /\ wait \in 0 .. Longest /\ waited \in Nat
    /\ opStatus \in {"none", "OK", "UNKNOWN", "DEADLINE_EXCEEDED"}
    /\ status \in {"none", "OK", "UNKNOWN"}
    /\ resources \in [Kinds -> SUBSET Names]
    /\ lro \in {"none", "pending", "succeeded", "failed"}
    /\ applied \in BOOLEAN

\* A create or delete that returns OK has been carried out by the server: an
\* LRO that is done because it failed, or that was given up, is never taken for
\* a success (WaitOperation looks at has_error before done).
OkMeansApplied ==
    (status = "OK" /\ call.verb \in {"create", "delete"}) => applied

\* WaitOperation gives up only after 1 + kMaxTrials polls that all found the LRO
\* pending, with around 20 minutes of waits between them ("Gives around 20
\* minutes for a 15 trial limit").
GivesUpAfterPatience ==
    opStatus = "DEADLINE_EXCEEDED" =>
        /\ trials = MaxTrials + 1
        /\ waited >= Patience /\ waited <= Patience + MaxWait
=============================================================================
