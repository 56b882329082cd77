------------------------------ MODULE ManagerApp ------------------------------
(***************************************************************************)
(* manager_app (python/apps/manager_app.cc): one process that reads its     *)
(* flags, makes one call of the management client, logs the outcome and     *)
(* always exits with 0.                                                     *)
(***************************************************************************)
EXTENDS ManagementClient, StreamChannel

VARIABLES flags,    \* the command line flags
          mgrAt,    \* where the process is: "idle", "start", "call", "exited"
          logged    \* what it logged at the end

mgrVars == <<flags, mgrAt, logged>>

\* enum class Operation and the registry of main, by op id.  Mutant: the two
\* ids are swapped.
OperationsSwapped ==
    [id \in 0 .. 6 |-> <<<<"stream", "create">>, <<"stream", "delete">>, <<"stream", "list">>,
                         <<"cluster", "create">>, <<"cluster", "list">>,
                         <<"cluster", "delete">>, <<"cluster", "get">>>>[id + 1]]
Operations ==
    [id \in 0 .. 6 |-> <<<<"stream", "create">>, <<"stream", "list">>, <<"stream", "delete">>,
                         <<"cluster", "create">>, <<"cluster", "list">>,
                         <<"cluster", "delete">>, <<"cluster", "get">>>>[id + 1]]

Flags == [op_id : -1 .. 7, use_google_managed_service : BOOLEAN,
          target_address : Text, project : Text, location : Text,
          cluster_name : Text \cup Names, stream_name : Text \cup Names,
          use_insecure_channel : BOOLEAN, ssl_root_cert_path : {"", "readable", "missing"}]

\* The managers' Initialize: a channel to the ingress, or one with the Google
\* default credentials, which is always made.
OnPremStreamManager(f) == IF ChannelMade(f) THEN "OK" ELSE "UNKNOWN"
ManagedStreamManager == "OK"

CreateStreamManager(f) ==
    CASE f.target_address = "" -> "INVALID_ARGUMENT"
      [] f.target_address # "" /\ ~f.use_google_managed_service -> OnPremStreamManager(f)
      [] f.target_address # "" /\ f.use_google_managed_service ->
             IF "" \in {f.project, f.location, f.cluster_name} THEN "INVALID_ARGUMENT"
             ELSE ManagedStreamManager

CreateClusterManager(f) ==
    IF ~f.use_google_managed_service THEN "UNIMPLEMENTED"
    ELSE IF "" \in {f.target_address, f.project, f.location} THEN "INVALID_ARGUMENT"
    ELSE "OK"

Manager(kind, f) == IF kind = "stream" THEN CreateStreamManager(f) ELSE CreateClusterManager(f)

\* The names are looked at after the manager has been created; the lists have none.
NameOf(kind, f) == IF kind = "stream" THEN f.stream_name ELSE f.cluster_name
Named(kind, verb, f) == verb = "list" \/ NameOf(kind, f) # ""

CallFor(kind, verb, f) ==
    [kind |-> IF kind = "stream" /\ ~f.use_google_managed_service THEN "onprem" ELSE kind,
     verb |-> verb,
     name |-> IF verb = "list" THEN CHOOSE n \in Names : TRUE ELSE NameOf(kind, f)]

-----------------------------------------------------------------------------
MgrInit == mgrAt = "idle" /\ logged = "none"

\* The command ends before it has made a call.
MgrExits(why) ==
    /\ mgrAt' = "exited" /\ logged' = why
    /\ UNCHANGED <<flags, managementVars>>

\* main: no function is registered for the op id.
MgrMain ==
    /\ mgrAt = "start" /\ flags.op_id \notin DOMAIN Operations
    /\ MgrExits("invalid op id")

\* main, and the function that is registered, up to its call of the manager.
MgrCalls(kind, verb) ==
    /\ mgrAt = "start" /\ flags.op_id \in DOMAIN Operations
    /\ Operations[flags.op_id] = <<kind, verb>>
    /\ IF Manager(kind, flags) # "OK" THEN MgrExits(Manager(kind, flags))
       ELSE IF ~Named(kind, verb, flags) THEN MgrExits("empty name")
       ELSE /\ Begin(CallFor(kind, verb, flags))
            /\ mgrAt' = "call" /\ UNCHANGED <<flags, logged>>

MgrCreateStream  == MgrCalls("stream", "create")
MgrListStreams   == MgrCalls("stream", "list")
MgrDeleteStream  == MgrCalls("stream", "delete")
MgrCreateCluster == MgrCalls("cluster", "create")
MgrListClusters  == MgrCalls("cluster", "list")
MgrDeleteCluster == MgrCalls("cluster", "delete")
MgrGetCluster    == MgrCalls("cluster", "get")

\* What these functions log of the call's outcome.
MgrLogs ==
    /\ mgrAt = "call" /\ at = "done"
    /\ mgrAt' = "exited"
    /\ logged' = IF status # "OK" THEN "failed"
                 ELSE IF call.verb = "list" /\ found = {} THEN "nothing found" ELSE "success"
    /\ UNCHANGED <<flags, managementVars>>

MgrNext ==
    \/ MgrMain \/ MgrCreateStream \/ MgrListStreams \/ MgrDeleteStream
    \/ MgrCreateCluster \/ MgrListClusters \/ MgrDeleteCluster \/ MgrGetCluster
    \/ MgrLogs
    \/ ClientNext /\ UNCHANGED mgrVars
=============================================================================
