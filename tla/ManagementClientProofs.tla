----------------------- MODULE ManagementClientProofs -----------------------
(* Proofs about ManagementClient, for any names, any number of trials and any *)
(* parameters of the backoff.                                               *)
EXTENDS ManagementClient, TLAPS

\* Neither property is inductive.  A call has no status before it is done; what
\* a call unpacks, and an LRO that has succeeded, has been carried out; and the
\* loop polls again only while it has trials left.
Applied ==
    /\ at # "done" => status = "none"
    /\ at = "unpack" \/ lro = "succeeded" => applied
Trying == at \in {"idle", "rpc", "poll", "wait"} => trials <= MaxTrials

\* How often the call has waited: a trial that is waiting, and the one that
\* gives up, have not.
Waits == IF at = "wait" \/ trials > MaxTrials THEN trials - 1 ELSE trials

Waiting ==
    /\ at \in {"idle", "rpc"} => waited = 0
    /\ at = "wait" => trials >= 1
    /\ at # "done" => opStatus \in {"none", "OK"}
    /\ waited <= Waits * Longest
    /\ opStatus = "DEADLINE_EXCEEDED" => trials = MaxTrials + 1

\* A call that has given up has used every trial, and has not been kept waiting
\* for longer than the longest wait before each of them.
GaveUp ==
    opStatus = "DEADLINE_EXCEEDED" =>
        trials = MaxTrials + 1 /\ waited <= MaxTrials * Longest

Types == ManagementTypeOK /\ Trying
IInv  == Types /\ Applied /\ OkMeansApplied

-----------------------------------------------------------------------------
(* The backoff.                                                             *)

LEMMA LongestType == Longest \in Nat /\ InitialWait \in 0 .. Longest
BY BackoffAssumption DEF Longest, Max2

\* A wait grows, and never beyond Longest.
LEMMA WaitBounded ==
    ASSUME NEW w \in 0 .. Longest
    PROVE  Min2(Growth * w, Longest) \in 0 .. Longest
<1>1. Growth \in Nat
    BY BackoffAssumption DEF Growth, Max2
<1>2. \A g \in Nat, v \in Nat : g * v \in Nat
    OBVIOUS
<1>3. Growth * w \in Nat
    BY <1>1, <1>2, LongestType
<1>. QED
    BY <1>3, LongestType DEF Min2

-----------------------------------------------------------------------------
(* Types.                                                                   *)

LEMMA InitTypes == ManagementInit => Types
<1> SUFFICES ASSUME ManagementInit PROVE Types
    OBVIOUS
<1>1. PICK existing \in SUBSET Names : resources = [k \in Kinds |-> existing]
    BY DEF ManagementInit
<1>2. resources \in [Kinds -> SUBSET Names]
    BY <1>1
<1>3. wait \in 0 .. Longest /\ waited \in Nat /\ trials \in 0 .. MaxTrials + 1
    BY TrialsAssumption, LongestType DEF ManagementInit
<1>4. Trying
    BY TrialsAssumption DEF ManagementInit, Trying
<1>5. /\ call = NoCall /\ at = "idle" /\ opStatus = "none" /\ status = "none"
      /\ lro = "none" /\ applied = FALSE
    BY DEF ManagementInit
<1>. QED
    BY <1>2, <1>3, <1>4, <1>5 DEF Types, ManagementTypeOK

LEMMA EffectType ==
    ASSUME ManagementTypeOK, call \in Calls
    PROVE  Effect(call) \in [Kinds -> SUBSET Names]
BY DEF Effect, ManagementTypeOK, Calls

\* A call that is under way is one of Calls.
LEMMA CallKnown ==
    ASSUME ManagementTypeOK, call.kind \in Kinds \/ call.verb \in Verbs
    PROVE  call \in Calls
BY DEF ManagementTypeOK, NoCall, Kinds, Verbs, Calls

LEMMA ServerTypes == Types /\ ServerNext => Types'
<1> SUFFICES ASSUME Types, ServerNext PROVE Types'
    OBVIOUS
<1>1. CASE OperationSucceeds
    <2>1. call \in Calls
        BY <1>1, CallKnown DEF OperationSucceeds, Possible, Types, Verbs
    <2>. QED
        BY <1>1, <2>1, EffectType DEF OperationSucceeds, Types, ManagementTypeOK, Trying, clientVars
<1>2. CASE OperationFails
    BY <1>2 DEF OperationFails, Types, ManagementTypeOK, Trying, clientVars
<1>3. CASE OtherClient
    BY <1>3 DEF OtherClient, Types, ManagementTypeOK, Trying, clientVars, Calls
<1>. QED
    BY <1>1, <1>2, <1>3 DEF ServerNext

LEMMA BeginTypes == ASSUME Types, NEW c \in Calls, Begin(c) PROVE Types'
BY DEF Begin, Types, ManagementTypeOK, Trying

LEMMA OnPremTypes ==
    ASSUME Types, NEW verb \in {"create", "delete"}, OnPremChange(verb)
    PROVE  Types'
<1>1. call \in Calls
    BY CallKnown DEF OnPremChange, Types, Verbs
<1>. QED
    BY <1>1, EffectType DEF OnPremChange, Return, Types, ManagementTypeOK, Trying

LEMMA StartTypes ==
    ASSUME Types, NEW kind, NEW verb, StartOperation(kind, verb)
    PROVE  Types'
BY TrialsAssumption, LongestType
DEF StartOperation, Return, Types, ManagementTypeOK, Trying

LEMMA QueryTypes ==
    ASSUME Types, NEW kind, NEW verb, NEW answers, Query(kind, verb, answers)
    PROVE  Types'
BY DEF Query, Return, Types, ManagementTypeOK, Trying, serverVars

LEMMA UnpackTypes ==
    ASSUME Types, NEW kind, NEW result, Unpack(kind, result)
    PROVE  Types'
BY DEF Unpack, Return, Types, ManagementTypeOK, Trying, serverVars

LEMMA PollTypes == Types /\ Poll => Types'
<1> SUFFICES ASSUME Types, Poll PROVE Types'
    OBVIOUS
<1>1. trials \in 0 .. MaxTrials
    BY TrialsAssumption DEF Poll, Types, ManagementTypeOK, Trying
<1>2. UNCHANGED <<call, wait, waited, resources, lro, applied>>
    BY DEF Poll, serverVars
<1>3. CASE UNCHANGED trials
    BY <1>1, <1>2, <1>3, TrialsAssumption
    DEF Poll, WaitOperationFails, WaitOperationSucceeds, Types, ManagementTypeOK, Trying
<1>4. CASE trials' = trials + 1
    BY <1>1, <1>2, <1>4, TrialsAssumption
    DEF Poll, WaitOperationFails, TooManyRetries, Types, ManagementTypeOK, Trying
<1>. QED
    BY <1>3, <1>4 DEF Poll

LEMMA BackoffTypes == Types /\ BackoffWait => Types'
<1> SUFFICES ASSUME Types, BackoffWait PROVE Types'
    OBVIOUS
<1>1. wait' \in 0 .. Longest
    BY WaitBounded DEF BackoffWait, Types, ManagementTypeOK
<1>2. waited' \in Nat
    BY LongestType DEF BackoffWait, Types, ManagementTypeOK
<1>. QED
    BY <1>1, <1>2 DEF BackoffWait, Types, ManagementTypeOK, Trying, serverVars

LEMMA NextTypes == Types /\ [ManagementNext]_managementVars => Types'
<1> SUFFICES ASSUME Types, [ManagementNext]_managementVars PROVE Types'
    OBVIOUS
<1>1. CASE UNCHANGED managementVars
    BY <1>1 DEF managementVars, clientVars, serverVars, Types, ManagementTypeOK, Trying
<1>2. CASE \E c \in Calls : Begin(c)
    BY <1>2, BeginTypes
<1>3. CASE OnPremCreateStream \/ OnPremDeleteStream
    BY <1>3, OnPremTypes DEF OnPremCreateStream, OnPremDeleteStream
<1>4. CASE CreateStream \/ DeleteStream \/ CreateCluster \/ DeleteCluster
    BY <1>4, StartTypes DEF CreateStream, DeleteStream, CreateCluster, DeleteCluster
<1>5. CASE OnPremListStreams \/ ListStreams \/ ListClusters \/ GetCluster
    BY <1>5, QueryTypes DEF OnPremListStreams, ListStreams, ListClusters, GetCluster
<1>6. CASE UnpackStream \/ UnpackCluster
    BY <1>6, UnpackTypes DEF UnpackStream, UnpackCluster
<1>. QED
    BY <1>1, <1>2, <1>3, <1>4, <1>5, <1>6, PollTypes, BackoffTypes, ServerTypes
    DEF ManagementNext, ClientNext

\* Every variable of a call and of its servers stays in range, for any names
\* and any parameters of WaitOperation and ExponentialBackoff: the trials never
\* exceed kMaxTrials + 1, and a wait never the longest one.
THEOREM TypeCorrect == ManagementSpec => []ManagementTypeOK
<1>1. Types => ManagementTypeOK
    BY DEF Types
<1>. QED
    BY <1>1, InitTypes, NextTypes, PTL DEF ManagementSpec

-----------------------------------------------------------------------------
(* OK means carried out.                                                    *)

LEMMA InitApplied == ManagementInit => Applied /\ OkMeansApplied
BY DEF ManagementInit, Applied, OkMeansApplied

LEMMA ClientApplied ==
    ASSUME Types, Applied, OkMeansApplied, ClientNext
    PROVE  Applied' /\ OkMeansApplied'
<1>. USE DEF Applied, OkMeansApplied
<1>1. CASE OnPremCreateStream \/ OnPremDeleteStream
    BY <1>1 DEF OnPremCreateStream, OnPremDeleteStream, OnPremChange, Return
<1>2. CASE CreateStream \/ DeleteStream \/ CreateCluster \/ DeleteCluster
    BY <1>2 DEF CreateStream, DeleteStream, CreateCluster, DeleteCluster, StartOperation, Return
<1>3. CASE OnPremListStreams \/ ListStreams \/ ListClusters \/ GetCluster
    <2>1. call.verb \in {"list", "get"} /\ call' = call /\ at' = "done"
        BY <1>3
        DEF OnPremListStreams, ListStreams, ListClusters, GetCluster, Query, Return
    <2>2. UNCHANGED serverVars
        BY <1>3 DEF OnPremListStreams, ListStreams, ListClusters, GetCluster, Query
    <2>. QED
        BY <2>1, <2>2 DEF serverVars
<1>4. CASE Poll
    BY <1>4
    DEF Poll, WaitOperationFails, WaitOperationSucceeds, HasError, Done, serverVars
<1>5. CASE BackoffWait
    BY <1>5 DEF BackoffWait, serverVars
<1>6. CASE UnpackStream \/ UnpackCluster
    BY <1>6 DEF UnpackStream, UnpackCluster, Unpack, Return, serverVars
<1>. QED
    BY <1>1, <1>2, <1>3, <1>4, <1>5, <1>6 DEF ClientNext

LEMMA NextApplied == IInv /\ [ManagementNext]_managementVars => IInv'
<1> SUFFICES ASSUME IInv, [ManagementNext]_managementVars PROVE Applied' /\ OkMeansApplied'
    BY NextTypes DEF IInv
<1>1. CASE UNCHANGED managementVars
    BY <1>1 DEF managementVars, clientVars, serverVars, IInv, Applied, OkMeansApplied
<1>2. CASE \E c \in Calls : Begin(c)
    BY <1>2 DEF Begin, IInv, Applied, OkMeansApplied
<1>3. CASE ClientNext
    BY <1>3, ClientApplied DEF IInv
<1>4. CASE ServerNext
    BY <1>4
    DEF ServerNext, OperationSucceeds, OperationFails, OtherClient, clientVars,
        IInv, Applied, OkMeansApplied
<1>. QED
    BY <1>1, <1>2, <1>3, <1>4 DEF ManagementNext

\* A create or a delete that returns OK was carried out by the server, whatever
\* the server and its other clients do between the polls of WaitOperation, for
\* any number of trials.
THEOREM OkMeansAppliedCorrect == ManagementSpec => []OkMeansApplied
<1>1. ManagementInit => IInv
    BY InitTypes, InitApplied DEF IInv
<1>2. IInv => OkMeansApplied
    BY DEF IInv
<1>. QED
    BY <1>1, <1>2, NextApplied, PTL DEF ManagementSpec

-----------------------------------------------------------------------------
(* Giving up.                                                               *)

\* One wait more: the product is all that the arithmetic needs.
LEMMA OneWaitMore ==
    ASSUME NEW n \in Nat, NEW longest \in Nat
    PROVE  n * longest \in Nat /\ (n + 1) * longest = n * longest + longest
OBVIOUS

LEMMA InitWaiting == ManagementInit => Waiting
<1> SUFFICES ASSUME ManagementInit PROVE Waiting
    OBVIOUS
<1>1. Waits = 0 /\ Longest \in Nat /\ waited = 0
    BY TrialsAssumption, LongestType DEF ManagementInit, Waits
<1>2. 0 * Longest = 0
    BY <1>1
<1>. QED
    BY <1>1, <1>2 DEF ManagementInit, Waiting

LEMMA PollWaiting == ASSUME Types, Waiting, Poll PROVE Waiting'
<1>1. trials \in Nat /\ trials <= MaxTrials /\ MaxTrials \in Nat /\ at = "poll"
    BY TrialsAssumption DEF Poll, Types, ManagementTypeOK, Trying
<1>2. waited' = waited /\ at' \in {"wait", "unpack", "done"} /\ Longest' = Longest
    BY DEF Poll, WaitOperationFails, WaitOperationSucceeds
<1>3. Waits = trials /\ Waits' = trials
    BY <1>1, <1>2, TrialsAssumption
    DEF Poll, WaitOperationFails, WaitOperationSucceeds, TooManyRetries, Waits
<1>4. waited' <= Waits' * Longest'
    BY <1>2, <1>3 DEF Waiting
<1>5. opStatus' = "DEADLINE_EXCEEDED" => trials' = MaxTrials + 1
    BY <1>1 DEF Poll, WaitOperationFails, WaitOperationSucceeds, TooManyRetries, Waiting
<1>6. at' # "done" => opStatus' \in {"none", "OK"}
    BY <1>1 DEF Poll, WaitOperationFails, WaitOperationSucceeds, Waiting
<1>7. at' = "wait" => trials' >= 1
    BY <1>1 DEF Poll, WaitOperationFails, WaitOperationSucceeds
<1>. QED
    BY <1>2, <1>4, <1>5, <1>6, <1>7 DEF Waiting

LEMMA BackoffWaiting == ASSUME Types, Waiting, BackoffWait PROVE Waiting'
<1>1. /\ at = "wait" /\ at' = "poll" /\ trials' = trials /\ opStatus' = opStatus
      /\ waited' = waited + wait
    BY DEF BackoffWait
<1>2. /\ trials \in Nat /\ trials - 1 \in Nat /\ trials <= MaxTrials /\ MaxTrials \in Nat
      /\ wait \in 0 .. Longest /\ waited \in Nat /\ Longest \in Nat
    BY <1>1, TrialsAssumption, LongestType
    DEF Types, ManagementTypeOK, Trying, Waiting
<1>3. Waits = trials - 1 /\ Waits' = trials
    BY <1>1, <1>2 DEF Waits
<1>4. trials * Longest = (trials - 1) * Longest + Longest /\ (trials - 1) * Longest \in Nat
    <2>1. (trials - 1) + 1 = trials
        BY <1>2
    <2>. QED
        BY <1>2, <2>1, OneWaitMore
<1>5. waited <= (trials - 1) * Longest
    BY <1>3 DEF Waiting
<1>6. waited' <= trials * Longest
    <2> DEFINE before == (trials - 1) * Longest
               after == trials * Longest
    <2>1. before \in Nat /\ after = before + Longest /\ waited <= before
        BY <1>4, <1>5
    <2> HIDE DEF before, after
    <2>2. waited' <= after
        BY <1>1, <1>2, <2>1
    <2>. QED
        BY <2>2 DEF after
<1>7. Longest' = Longest
    BY DEF Longest
<1>. QED
    BY <1>1, <1>2, <1>3, <1>6, <1>7 DEF Waiting

LEMMA StartWaiting ==
    ASSUME Types, Waiting, NEW kind, NEW verb, StartOperation(kind, verb)
    PROVE  Waiting'
<1>1. /\ waited' = 0 /\ opStatus' = opStatus /\ opStatus # "DEADLINE_EXCEEDED"
      /\ at' \in {"poll", "done"} /\ (at' = "done" \/ opStatus' \in {"none", "OK"})
      /\ trials' \in Nat
    BY DEF StartOperation, Return, Waiting, Types, ManagementTypeOK
<1>2. Longest' = Longest /\ Longest \in Nat
    BY LongestType DEF Longest
<1>3. Waits' \in Nat
    <2>1. at' # "wait" /\ MaxTrials \in Nat /\ trials' \in Nat
        BY <1>1, TrialsAssumption
    <2>2. CASE trials' > MaxTrials
        <3>1. Waits' = trials' - 1
            BY <2>2 DEF Waits
        <3>2. \A t, m \in Nat : t > m => t - 1 \in Nat
            OBVIOUS
        <3>3. trials' - 1 \in Nat
            BY <2>1, <2>2, <3>2
        <3>. QED
            BY <3>1, <3>3
    <2>3. CASE ~(trials' > MaxTrials)
        BY <2>1, <2>3 DEF Waits
    <2>. QED
        BY <2>2, <2>3
<1>4. Waits' * Longest \in Nat
    BY <1>2, <1>3, OneWaitMore
<1>. QED
    BY <1>1, <1>2, <1>4 DEF Waiting

\* The other steps of the client and all of its servers wait for nothing.
LEMMA OthersWaiting ==
    ASSUME Types, Waiting, UNCHANGED <<trials, waited, opStatus>>,
           \/ at' = at
           \/ at # "wait" /\ at' = "done"
           \/ at = "idle" /\ at' = "rpc"
    PROVE  Waiting'
<1>1. Waits' = Waits /\ Longest' = Longest
    BY DEF Waits, Longest
<1>. QED
    BY <1>1 DEF Waiting

LEMMA NextWaiting == Types /\ Waiting /\ [ManagementNext]_managementVars => Waiting'
<1> SUFFICES ASSUME Types, Waiting, [ManagementNext]_managementVars PROVE Waiting'
    OBVIOUS
<1>1. CASE UNCHANGED managementVars
    BY <1>1, OthersWaiting DEF managementVars, clientVars
<1>2. CASE \E c \in Calls : Begin(c)
    BY <1>2, OthersWaiting DEF Begin
<1>3. CASE CreateStream \/ DeleteStream \/ CreateCluster \/ DeleteCluster
    BY <1>3, StartWaiting DEF CreateStream, DeleteStream, CreateCluster, DeleteCluster
<1>4. CASE OnPremCreateStream \/ OnPremDeleteStream
    BY <1>4, OthersWaiting DEF OnPremCreateStream, OnPremDeleteStream, OnPremChange, Return
<1>5. CASE OnPremListStreams \/ ListStreams \/ ListClusters \/ GetCluster
    BY <1>5, OthersWaiting
    DEF OnPremListStreams, ListStreams, ListClusters, GetCluster, Query, Return
<1>6. CASE UnpackStream \/ UnpackCluster
    BY <1>6, OthersWaiting DEF UnpackStream, UnpackCluster, Unpack, Return
<1>7. CASE ServerNext
    BY <1>7, OthersWaiting
    DEF ServerNext, OperationSucceeds, OperationFails, OtherClient, clientVars
<1>. QED
    BY <1>1, <1>2, <1>3, <1>4, <1>5, <1>6, <1>7, PollWaiting, BackoffWaiting
    DEF ManagementNext, ClientNext

LEMMA WaitingGaveUp == Types /\ Waiting => GaveUp
<1> SUFFICES ASSUME Types, Waiting, opStatus = "DEADLINE_EXCEEDED"
             PROVE  trials = MaxTrials + 1 /\ waited <= MaxTrials * Longest
    BY DEF GaveUp
<1>1. trials = MaxTrials + 1
    BY DEF Waiting
<1>2. Waits = MaxTrials
    BY <1>1, TrialsAssumption DEF Waits
<1>. QED
    BY <1>1, <1>2 DEF Waiting

\* WaitOperation gives up only when it has used every trial, and waits no longer
\* than kMaxTrials of the longest waits, for any parameters of the backoff.
THEOREM GivesUpAfterAllTrials == ManagementSpec => []GaveUp
BY InitTypes, InitWaiting, NextTypes, NextWaiting, WaitingGaveUp, PTL DEF ManagementSpec
-----------------------------------------------------------------------------
(* Around 20 minutes.                                                       *)

\* The parameters of management_client.cc: kMaxTrials and the ExponentialBackoff
\* of WaitOperation, and the 20 minutes of its comment.
CodesBackoff ==
    /\ MaxTrials = 15 /\ InitialWait = 2 /\ MaxWait = 120 /\ Multiplier = 2
    /\ Patience = 1200

\* With these the waits are 2, 4, 8, 16, 32, 64 and then 120 seconds each: the
\* next wait after n of them, and what they add up to.
WaitAfter(n) == IF n < 6 THEN <<2, 4, 8, 16, 32, 64>>[n + 1] ELSE 120
WaitedAfter(n) == IF n < 6 THEN <<0, 2, 6, 14, 30, 62>>[n + 1] ELSE 126 + 120 * (n - 6)

\* The backoff keeps to this schedule while it polls, and the call that gives up
\* has kept to it to the end.
OnSchedule ==
    /\ at \in {"poll", "wait"} => wait = WaitAfter(Waits) /\ waited = WaitedAfter(Waits)
    /\ opStatus = "DEADLINE_EXCEEDED" => waited = WaitedAfter(MaxTrials)

LEMMA StartOnSchedule ==
    ASSUME CodesBackoff, Types, Waiting, NEW kind, NEW verb, StartOperation(kind, verb)
    PROVE  OnSchedule'
<1>1. /\ waited' = 0 /\ opStatus' # "DEADLINE_EXCEEDED"
      /\ at' = "done" \/ (at' = "poll" /\ trials' = 0 /\ wait' = InitialWait)
    BY DEF StartOperation, Return, Waiting
<1>2. CASE at' = "poll"
    <2>1. Waits' = 0
        BY <1>1, <1>2 DEF Waits, CodesBackoff
    <2>. QED
        BY <1>1, <1>2, <2>1 DEF OnSchedule, WaitAfter, WaitedAfter, CodesBackoff
<1>. QED
    BY <1>1, <1>2 DEF OnSchedule

LEMMA PollOnSchedule ==
    ASSUME CodesBackoff, Types, Waiting, OnSchedule, Poll
    PROVE  OnSchedule'
<1>1. trials \in 0 .. 15 /\ at = "poll"
    BY DEF Poll, Types, ManagementTypeOK, Trying, CodesBackoff
<1>2. /\ waited' = waited /\ wait' = wait /\ at' # "poll"
      /\ at' = "wait" => trials' = trials + 1 /\ trials' <= 15 /\ opStatus' = opStatus
      /\ opStatus' = "DEADLINE_EXCEEDED" => trials = 15
    BY <1>1
    DEF Poll, WaitOperationFails, WaitOperationSucceeds, TooManyRetries, Waiting, CodesBackoff
<1>3. Waits = trials
    BY <1>1 DEF Waits, CodesBackoff
<1>4. wait = WaitAfter(trials) /\ waited = WaitedAfter(trials)
    BY <1>1, <1>3 DEF OnSchedule
<1>5. at' = "wait" => Waits' = trials
    BY <1>1, <1>2 DEF Waits
<1>6. MaxTrials = 15
    BY DEF CodesBackoff
<1>. QED
    BY <1>2, <1>4, <1>5, <1>6 DEF OnSchedule

LEMMA BackoffOnSchedule ==
    ASSUME CodesBackoff, Types, Waiting, OnSchedule, BackoffWait
    PROVE  OnSchedule'
<1>1. /\ at = "wait" /\ at' = "poll" /\ trials' = trials /\ trials \in 1 .. 15
      /\ opStatus' # "DEADLINE_EXCEEDED"
    BY DEF BackoffWait, Types, ManagementTypeOK, Trying, Waiting, CodesBackoff
<1>2. Waits = trials - 1 /\ Waits' = trials
    BY <1>1 DEF Waits, CodesBackoff
<1>3. wait = WaitAfter(trials - 1) /\ waited = WaitedAfter(trials - 1)
    BY <1>1, <1>2 DEF OnSchedule
<1>4. Longest = 120 /\ Growth = 2
    BY DEF CodesBackoff, Longest, Growth, Max2
<1>5. waited' = waited + wait /\ wait' = IF wait < 120 THEN Min2(2 * wait, 120) ELSE wait
    BY <1>4 DEF BackoffWait
<1>6. wait' = WaitAfter(trials) /\ waited' = WaitedAfter(trials)
    <2>1. CASE trials = 1
        BY <1>3, <1>5, <2>1 DEF WaitAfter, WaitedAfter, Min2
    <2>2. CASE trials = 2
        BY <1>3, <1>5, <2>2 DEF WaitAfter, WaitedAfter, Min2
    <2>3. CASE trials = 3
        BY <1>3, <1>5, <2>3 DEF WaitAfter, WaitedAfter, Min2
    <2>4. CASE trials = 4
        BY <1>3, <1>5, <2>4 DEF WaitAfter, WaitedAfter, Min2
    <2>5. CASE trials = 5
        BY <1>3, <1>5, <2>5 DEF WaitAfter, WaitedAfter, Min2
    <2>6. CASE trials = 6
        BY <1>3, <1>5, <2>6 DEF WaitAfter, WaitedAfter, Min2
    <2>7. CASE trials \in 7 .. 15
        <3>1. wait = 120 /\ waited = 126 + 120 * (trials - 1 - 6)
            BY <1>3, <2>7 DEF WaitAfter, WaitedAfter
        <3>2. wait' = 120 /\ waited' = 126 + 120 * (trials - 6)
            BY <1>5, <2>7, <3>1
        <3>. QED
            BY <2>7, <3>2 DEF WaitAfter, WaitedAfter
    <2>. QED
        BY <1>1, <2>1, <2>2, <2>3, <2>4, <2>5, <2>6, <2>7
<1>. QED
    BY <1>1, <1>2, <1>6 DEF OnSchedule

LEMMA OthersOnSchedule ==
    ASSUME OnSchedule, UNCHANGED <<trials, wait, waited, opStatus>>,
           at' = at \/ at' \in {"rpc", "unpack", "done"}
    PROVE  OnSchedule'
BY DEF OnSchedule, Waits

LEMMA NextOnSchedule ==
    ASSUME CodesBackoff, Types, Waiting, OnSchedule, [ManagementNext]_managementVars
    PROVE  OnSchedule'
<1>1. CASE UNCHANGED managementVars
    BY <1>1, OthersOnSchedule DEF managementVars, clientVars
<1>2. CASE \E c \in Calls : Begin(c)
    BY <1>2, OthersOnSchedule DEF Begin
<1>3. CASE CreateStream \/ DeleteStream \/ CreateCluster \/ DeleteCluster
    BY <1>3, StartOnSchedule DEF CreateStream, DeleteStream, CreateCluster, DeleteCluster
<1>4. CASE OnPremCreateStream \/ OnPremDeleteStream
    BY <1>4, OthersOnSchedule DEF OnPremCreateStream, OnPremDeleteStream, OnPremChange, Return
<1>5. CASE OnPremListStreams \/ ListStreams \/ ListClusters \/ GetCluster
    BY <1>5, OthersOnSchedule
    DEF OnPremListStreams, ListStreams, ListClusters, GetCluster, Query, Return
<1>6. CASE UnpackStream \/ UnpackCluster
    BY <1>6, OthersOnSchedule DEF UnpackStream, UnpackCluster, Unpack, Return
<1>7. CASE ServerNext
    BY <1>7, OthersOnSchedule
    DEF ServerNext, OperationSucceeds, OperationFails, OtherClient, clientVars
<1>. QED
    BY <1>1, <1>2, <1>3, <1>4, <1>5, <1>6, <1>7, PollOnSchedule, BackoffOnSchedule
    DEF ManagementNext, ClientNext

\* With the parameters of the code, WaitOperation gives up after 16 polls that
\* all found the operation pending, and 1206 seconds of waits between them:
\* around 20 minutes, as its comment says.
THEOREM GivesUpAfterPatienceCorrect ==
    ASSUME CodesBackoff
    PROVE  ManagementSpec => []GivesUpAfterPatience
<1>1. ManagementInit => OnSchedule
    BY DEF ManagementInit, OnSchedule
<1>2. Types /\ Waiting /\ OnSchedule /\ [ManagementNext]_managementVars => OnSchedule'
    BY NextOnSchedule
<1>3. Waiting /\ OnSchedule => GivesUpAfterPatience
    BY DEF Waiting, OnSchedule, GivesUpAfterPatience, WaitedAfter, CodesBackoff
<1>. QED
    BY <1>1, <1>2, <1>3, InitTypes, InitWaiting, NextTypes, NextWaiting, PTL
    DEF ManagementSpec
=============================================================================
