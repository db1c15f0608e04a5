-------------------------------- MODULE SbeHreset --------------------------------
(***************************************************************************)
(* hresetSbe(): the vital handler asks the hostboot runtime over PLDM to   *)
(* reset an SBE, and waits for the sensor event that tells how it went.    *)
(* Calls follow one another in the life of the process.  What outlives a   *)
(* call are the instance IDs that were not given back, the transport if it *)
(* was left open, and resets that are still on their way.                  *)
(*                                                                         *)
(* External are libpldm, with its database of instance IDs that processes  *)
(* share, the PLDM daemon that answers for PDRs and signals events, and    *)
(* the hostboot runtime.                                                   *)
(***************************************************************************)
EXTENDS Integers, FiniteSets, SequencesExt

CONSTANTS
  Sbe,         \* SBE instances that may be reset
  Id,          \* PLDM instance IDs of the hostboot runtime's terminus
  Stray,       \* IDs that the address of a vector may be read as
  Fd,          \* what opening the transport may yield, negative for a failure
  Effecters,   \* lists of effecter PDRs the daemon may answer with
  Sensors,     \* lists of sensor PDRs the daemon may answer with
  SensorOf,    \* the sensor that tells of a reset by each effecter
  SbeOf,       \* the SBE that each effecter and each sensor belongs to
  Offset,      \* place of the hreset state among the states of a sensor
  Timeout,     \* time to wait for the event: one minute
  MaxRequest,  \* bound on the calls
  MaxNoise     \* bound on the events about other things

NoId == "none"

ASSUME HresetAssumption ==
  /\ Sbe \subseteq Nat
  /\ IsFiniteSet(Id)
  /\ Stray \subseteq Id
  /\ NoId \notin Id
  /\ Fd \subseteq Int
  /\ Timeout \in Nat \ {0}
  /\ MaxRequest \in Nat
  /\ MaxNoise \in Nat

VARIABLES
  phase,      \* where the call is, "idle" if none is made
  sbe,        \* the SBE to be reset
  effecter,   \* the effecter found for it
  id,         \* the instance ID of the request
  instances,  \* the SBE that each sensor is taken to belong to
  offset,     \* the place of the hreset state, as found
  held,       \* instance IDs this process has and did not give back
  others,     \* instance IDs that other processes have
  transport,  \* pldmTransport is set
  fd,         \* what openPLDM() returned
  sent,       \* "no", "yes", or "failed" if the transport did not take it
  status,     \* hresetStatus
  heard,      \* the event that decided on it
  remaining,  \* timeRemaining
  elapsed,    \* time spent waiting
  inbox,      \* signals on the bus connection of the call
  pending,    \* resets that were asked for and not yet answered
  requests,   \* number of calls
  encoded,    \* number of requests that were made ready
  noise       \* number of events about other things

idVars == <<id, held>>
infoVars == <<sbe, effecter, instances, offset>>
linkVars == <<transport, fd, sent>>
waitVars == <<status, heard, remaining, elapsed>>
envVars == <<others, inbox, pending, noise>>
countVars == <<requests, encoded>>
vars == <<phase, idVars, infoVars, linkVars, waitVars, envVars, countVars>>

Phase == {"idle", "alloc", "retry", "encode", "sensors", "open", "send", "wait"}

NoEvent == [sensor |-> -1, offset |-> 0, state |-> "none", request |-> 0]

\* The signals of the PLDM daemon reach a call once its match is registered.
Listening == phase \in {"open", "send", "wait"}

Init ==
  /\ phase = "idle"
  /\ sbe \in Sbe
  /\ effecter = -1
  /\ id = NoId
  /\ instances = <<>>
  /\ offset = 0
  /\ held = {}
  /\ others = {}
  /\ transport = FALSE
  /\ fd = -1
  /\ sent = "no"
  /\ status = "requested"
  /\ heard = NoEvent
  /\ remaining = Timeout
  /\ elapsed = 0
  /\ inbox = <<>>
  /\ pending = {}
  /\ requests = 0
  /\ encoded = 0
  /\ noise = 0

--------------------------------------------------------------------------------
(* PDRs.  Each has an ID and the sets of states it is composed of.          *)

\* The first PDR tells where the set is; no answer is an empty list.
Place(pdrs, set) ==
  IF pdrs = <<>> THEN 0 ELSE SelectInSeq(pdrs[1].sets, LAMBDA s : s = set)

Ids(pdrs) == {pdrs[i].id : i \in DOMAIN pdrs}

\* Instances are counted from zero in the order of the IDs.
Instance(pdrs, pdrId) == Cardinality({i \in Ids(pdrs) : i < pdrId})

--------------------------------------------------------------------------------
(* Faulty variants of definitions below, which the properties must tell from them. *)

\* An ID that was allocated is kept when the request cannot be encoded.
EncodeKeeps ==
  /\ phase = "encode"
  /\ \/ phase' = "sensors" /\ encoded' = encoded + 1
     \/ phase' = "idle" /\ UNCHANGED encoded
  /\ UNCHANGED <<idVars, infoVars, linkVars, waitVars, envVars, requests>>

\* The offset of the event is not looked at.
ConcernsSensor(e) == e.sensor \in DOMAIN instances /\ instances[e.sensor] = sbe

\* The time that is left starts over with every signal.
LeftRestarted(left, spent) == left

\* What is left is not compared with what is taken off.
LeftUnchecked(left, spent) == left - spent

\* The loop goes on until both the event and the timeout have come.
WaitOverBoth == status # "requested" /\ remaining = 0

--------------------------------------------------------------------------------
(* The call. *)

\* What freePLDMInstanceID() is given is read from the vector object, not from
\* the request in it; libpldm refuses an ID that this process does not have.
FreeStray == \E i \in Stray : held' = held \ {i}

\* The effecter of the SBE, if there is one.
Request(s) ==
  /\ phase = "idle"
  /\ requests < MaxRequest
  /\ requests' = requests + 1
  /\ sbe' = s
  /\ \E pdrs \in Effecters :
       LET mine == {e \in Ids(pdrs) : Instance(pdrs, e) = s}
       IN IF Place(pdrs, "maintenance") = 0 \/ mine = {}
            THEN phase' = "idle" /\ effecter' = -1
            ELSE phase' = "alloc" /\ effecter' = CHOOSE e \in mine : TRUE
  /\ id' = NoId
  /\ instances' = <<>>
  /\ offset' = 0
  /\ fd' = -1
  /\ sent' = "no"
  /\ status' = "requested"
  /\ heard' = NoEvent
  /\ remaining' = Timeout
  /\ elapsed' = 0
  /\ inbox' = <<>>
  /\ UNCHANGED <<held, transport, others, pending, noise, encoded>>

\* One retry, if all IDs are in use; another error ends the call.
Alloc ==
  /\ phase \in {"alloc", "retry"}
  /\ LET free == Id \ (held \cup others)
     IN \/ \E i \in free : /\ id' = i
                           /\ held' = held \cup {i}
                           /\ phase' = "encode"
        \/ /\ free = {}
           /\ phase' = IF phase = "alloc" THEN "retry" ELSE "idle"
           /\ UNCHANGED idVars
        \/ phase' = "idle" /\ UNCHANGED idVars
  /\ UNCHANGED <<infoVars, linkVars, waitVars, envVars, countVars>>

\* An ID whose request cannot be encoded is given back.
Encode ==
  /\ phase = "encode"
  /\ \/ phase' = "sensors" /\ encoded' = encoded + 1 /\ UNCHANGED held
     \/ phase' = "idle" /\ held' = held \ {id} /\ UNCHANGED encoded
  /\ UNCHANGED <<id, infoVars, linkVars, waitVars, envVars, requests>>

\* The sensors and their SBEs; then the match is registered.
FetchSensorInfo ==
  /\ phase = "sensors"
  /\ \E pdrs \in Sensors :
       \/ /\ Place(pdrs, "hreset") # 0
          /\ phase' = "open"
          /\ instances' = [p \in Ids(pdrs) |-> Instance(pdrs, p)]
          /\ offset' = Place(pdrs, "hreset")
          /\ UNCHANGED held
       \/ /\ Place(pdrs, "hreset") = 0
          /\ phase' = "idle"
          /\ FreeStray
          /\ UNCHANGED <<instances, offset>>
  /\ UNCHANGED <<id, sbe, effecter, linkVars, waitVars, envVars, countVars>>

\* A transport that is open is not opened again.  Only zero counts as success,
\* although it is a file descriptor that is returned.
Open ==
  /\ phase = "open"
  /\ fd' \in (IF transport THEN {-1} ELSE Fd)
  /\ transport' = (transport \/ fd' >= 0)
  /\ \/ fd' = 0 /\ phase' = "send" /\ UNCHANGED held
     \/ fd' # 0 /\ phase' = "idle" /\ FreeStray
  /\ UNCHANGED <<id, infoVars, sent, waitVars, envVars, countVars>>

\* The transport stays open if the message is not sent.
Send ==
  /\ phase = "send"
  /\ \/ /\ phase' = "wait"
        /\ sent' = "yes"
        /\ pending' = pending \cup {[request |-> requests, effecter |-> effecter]}
        /\ UNCHANGED held
     \/ /\ phase' = "idle"
        /\ sent' = "failed"
        /\ FreeStray
        /\ UNCHANGED pending
  /\ UNCHANGED <<id, infoVars, transport, fd, waitVars, others, inbox, noise, countVars>>

\* An event counts if its sensor belongs to the SBE and its offset is that of
\* the hreset state.
Concerns(e) ==
  /\ e.offset = offset
  /\ e.sensor \in DOMAIN instances
  /\ instances[e.sensor] = sbe

Verdict(e) ==
  CASE Concerns(e) /\ e.state = "ready"  -> "success"
    [] Concerns(e) /\ e.state = "failed" -> "fail"
    [] OTHER                             -> "requested"

\* The time since the start is taken off what was left at the last wake-up.
Left(left, spent) == IF spent > left THEN 0 ELSE left - spent

WaitOver == status # "requested" \/ remaining = 0

\* The wait ends with a signal or with the time that is left; one signal is
\* processed, even one that came at the last moment.
Wake ==
  /\ phase = "wait"
  /\ ~WaitOver
  /\ \E d \in 0 .. remaining :
       /\ inbox = <<>> => d = remaining
       /\ elapsed' = elapsed + d
       /\ remaining' = Left(remaining, elapsed')
  /\ IF inbox = <<>> THEN UNCHANGED <<status, heard, inbox>>
     ELSE /\ status' = Verdict(Head(inbox))
          /\ heard' = IF status' = "requested" THEN heard ELSE Head(inbox)
          /\ inbox' = Tail(inbox)
  /\ UNCHANGED <<phase, idVars, infoVars, linkVars, others, pending, noise, countVars>>

Finish ==
  /\ phase = "wait"
  /\ WaitOver
  /\ FreeStray
  /\ transport' = FALSE
  /\ phase' = "idle"
  /\ UNCHANGED <<id, infoVars, fd, sent, waitVars, envVars, countVars>>

--------------------------------------------------------------------------------
(* The other side. *)

Post(e) == inbox' = IF Listening THEN Append(inbox, e) ELSE inbox

\* A reset is over, well or not, however late.
Answer(p, state) ==
  /\ p \in pending
  /\ pending' = pending \ {p}
  /\ Post([sensor |-> SensorOf[p.effecter], offset |-> Offset, state |-> state,
           request |-> p.request])
  /\ UNCHANGED <<phase, idVars, infoVars, linkVars, waitVars, others, noise, countVars>>

\* An event about another state of a sensor.
Noise(sensor) ==
  /\ noise < MaxNoise
  /\ noise' = noise + 1
  /\ Post([sensor |-> sensor, offset |-> Offset + 1, state |-> "ready", request |-> 0])
  /\ UNCHANGED <<phase, idVars, infoVars, linkVars, waitVars, others, pending, countVars>>

\* Another process takes an ID, or gives it back.
OtherProcess(i) ==
  /\ i \notin held
  /\ others' = IF i \in others THEN others \ {i} ELSE others \cup {i}
  /\ UNCHANGED <<phase, idVars, infoVars, linkVars, waitVars, inbox, pending, noise, countVars>>

Step == Alloc \/ Encode \/ FetchSensorInfo \/ Open \/ Send \/ Wake \/ Finish

Environment ==
  \/ \E p \in pending, state \in {"ready", "failed"} : Answer(p, state)
  \/ \E e \in DOMAIN SensorOf : Noise(SensorOf[e])
  \/ \E i \in Id : OtherProcess(i)

Next == (\E s \in Sbe : Request(s)) \/ Step \/ Environment

\* Each call the handler makes returns, and time goes on.
Fairness == WF_vars(Step)

Spec == Init /\ [][Next]_vars /\ Fairness

--------------------------------------------------------------------------------
(* Properties. *)

Event == [sensor : {-1} \cup {SensorOf[e] : e \in DOMAIN SensorOf}, offset : {0, Offset, Offset + 1},
          state : {"none", "ready", "failed"}, request : 0 .. MaxRequest]

\* The variables stay in their types.
TypeOK ==
  /\ phase \in Phase
  /\ id \in Id \cup {NoId}
  /\ held \subseteq Id
  /\ others \subseteq Id
  /\ transport \in BOOLEAN
  /\ fd \in Fd \cup {-1}
  /\ sent \in {"no", "yes", "failed"}
  /\ status \in {"requested", "success", "fail"}
  /\ remaining \in 0 .. Timeout
  /\ elapsed \in Nat
  /\ requests \in 0 .. MaxRequest
  /\ encoded \in 0 .. MaxRequest
  /\ noise \in 0 .. MaxNoise

\* However many signals wake it, a call never waits longer than a minute, and
\* what it will still wait is within that minute (the loop of hresetSbe()).
WaitBounded == elapsed + remaining <= Timeout

\* An instance ID is only ever lost by a request that was made ready, one for
\* each, and no ID is in the hands of two processes: the 32 IDs last for as many
\* failed calls at least (freePLDMInstanceID() and the calls of it).
IdsAccounted ==
  /\ held \cap others = {}
  /\ Cardinality(held) <= encoded + (IF phase = "encode" THEN 1 ELSE 0)

\* A result is only taken from an event that answers a request this process has
\* sent; if the daemon has told of all sensors, from one about the SBE in
\* question.  The request may be an earlier one.
ResultHeard ==
  status # "requested" =>
    /\ sent = "yes"
    /\ heard.request \in 1 .. requests
    /\ (\A e \in DOMAIN SensorOf : SensorOf[e] \in DOMAIN instances) => SbeOf[heard.sensor] = sbe

\* Every call returns, with or without an answer.
Returns == phase # "idle" ~> phase = "idle"

--------------------------------------------------------------------------------
(* What ResultHeard rests on, for every value of the constants. *)

\* What is expected of the PLDM daemon: the hreset state has its place in every
\* list that tells of it, a list that tells of all sensors has their IDs in the
\* order of the SBEs, and every effecter belongs to a sensor.
TruthfulDaemon ==
  /\ Offset \in Nat \ {0}
  /\ \A pdrs \in Sensors : Place(pdrs, "hreset") \in {0, Offset}
  /\ \A pdrs \in Sensors :
       (\A e \in DOMAIN SensorOf : SensorOf[e] \in Ids(pdrs))
         => \A e \in DOMAIN SensorOf : Instance(pdrs, SensorOf[e]) = SbeOf[SensorOf[e]]
  /\ \A pdrs \in Effecters : Place(pdrs, "maintenance") # 0 => Ids(pdrs) \subseteq DOMAIN SensorOf

--------------------------------------------------------------------------------
(* What a comment says and the code does not do. *)

\* The comments at sendPldm() and openPLDM() say that a file descriptor is
\* returned on success, and that sending fails only if it was not successful.
DocSend ==
  phase = "idle" /\ fd >= 0 => sent # "no"

================================================================================
