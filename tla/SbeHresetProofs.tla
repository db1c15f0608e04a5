---------------------------- MODULE SbeHresetProofs ----------------------------
(***************************************************************************)
(* What holds of hresetSbe() for every set of SBEs, PDRs, instance IDs and *)
(* file descriptors, and for every length of the wait: the types, the      *)
(* bound of the wait, and the account of the instance IDs.                 *)
(***************************************************************************)
EXTENDS SbeHreset, FiniteSetTheorems, TLAPS

--------------------------------------------------------------------------------
(* Type correctness.  A request is made ready at most once for each call.   *)

\* The call may still make its request ready.
Preparing == phase \in {"alloc", "retry", "encode"}

ReadyOnce == encoded + (IF Preparing THEN 1 ELSE 0) <= requests

TypeInv == TypeOK /\ ReadyOnce

\* The initial states are well typed.
LEMMA TypeInit == Init => TypeInv
<1> SUFFICES ASSUME Init PROVE TypeInv
  OBVIOUS
<1>1. /\ phase = "idle" /\ encoded = 0 /\ requests = 0 /\ elapsed = 0
      /\ remaining = Timeout /\ noise = 0
  BY DEF Init
<1>2. ReadyOnce
  BY <1>1 DEF ReadyOnce, Preparing
<1>3. TypeOK
  <2>1. /\ id = NoId /\ held = {} /\ others = {} /\ transport = FALSE /\ fd = -1
        /\ sent = "no" /\ status = "requested"
    BY DEF Init
  <2>2. /\ Timeout \in 0 .. Timeout /\ 0 \in 0 .. MaxRequest /\ 0 \in 0 .. MaxNoise
    BY HresetAssumption
  <2>3. QED
    BY <1>1, <2>1, <2>2 DEF TypeOK, Phase
<1>4. QED
  BY <1>2, <1>3 DEF TypeInv

\* Every step keeps the types.
LEMMA TypeStep == TypeInv /\ [Next]_vars => TypeInv'
<1> SUFFICES ASSUME TypeInv, [Next]_vars PROVE TypeInv'
  OBVIOUS
<1> USE HresetAssumption
    DEF TypeInv, TypeOK, ReadyOnce, Preparing, Phase, idVars, infoVars, linkVars,
        waitVars, envVars, countVars
<1>1. CASE UNCHANGED vars
  BY <1>1 DEF vars
<1>2. ASSUME NEW s \in Sbe, Request(s) PROVE TypeInv'
  <2>1. phase' \in {"idle", "alloc"}
    BY <1>2 DEF Request
  <2>2. QED
    BY <2>1, <1>2 DEF Request
<1>3. CASE Alloc
  BY <1>3 DEF Alloc
<1>4. CASE Encode
  BY <1>4 DEF Encode
<1>5. CASE FetchSensorInfo
  BY <1>5 DEF FetchSensorInfo, FreeStray
<1>6. CASE Open
  BY <1>6 DEF Open, FreeStray
<1>7. CASE Send
  BY <1>7 DEF Send, FreeStray
<1>8. CASE Wake
  <2>1. PICK d \in 0 .. remaining : /\ elapsed' = elapsed + d
                                    /\ remaining' = Left(remaining, elapsed')
    BY <1>8 DEF Wake
  <2>2. elapsed' \in Nat /\ remaining' \in 0 .. Timeout
    BY <2>1 DEF Left
  <2>3. status' \in {"requested", "success", "fail"}
    BY <1>8 DEF Wake, Verdict
  <2>4. QED
    BY <2>2, <2>3, <1>8 DEF Wake
<1>9. CASE Finish
  BY <1>9 DEF Finish, FreeStray
<1>10. ASSUME NEW p \in pending, NEW state, Answer(p, state) PROVE TypeInv'
  BY <1>10 DEF Answer
<1>11. ASSUME NEW sensor, Noise(sensor) PROVE TypeInv'
  BY <1>11 DEF Noise
<1>12. ASSUME NEW i \in Id, OtherProcess(i) PROVE TypeInv'
  BY <1>12 DEF OtherProcess
<1>13. QED
  BY <1>1, <1>2, <1>3, <1>4, <1>5, <1>6, <1>7, <1>8, <1>9, <1>10, <1>11, <1>12
     DEF Next, Step, Environment

\* The types, and the order of requests, hold in every reachable state.
THEOREM TypeInvHolds == Spec => []TypeInv
  BY TypeInit, TypeStep, PTL DEF Spec

\* The variables of hresetSbe() keep their types.
THEOREM TypeCorrect == Spec => []TypeOK
<1>1. TypeInv => TypeOK
  BY DEF TypeInv
<1>2. QED
  BY <1>1, TypeInvHolds, PTL

--------------------------------------------------------------------------------
(* The wait *)

\* What is left of the wait never grows faster than time passes: taking the whole
\* time since the start off again and again only makes the wait shorter.
LEMMA LeftShrinks ==
  ASSUME NEW left \in Nat, NEW spent \in Nat, NEW total \in Nat,
         left <= total, spent <= total
  PROVE  spent + Left(left, spent) <= total
  BY DEF Left

\* Every step keeps the bound of the wait.
LEMMA WaitStep == TypeInv /\ WaitBounded /\ [Next]_vars => WaitBounded'
<1> SUFFICES ASSUME TypeInv, WaitBounded, [Next]_vars PROVE WaitBounded'
  OBVIOUS
<1> USE HresetAssumption DEF TypeInv, TypeOK, WaitBounded
<1>1. ASSUME NEW s \in Sbe, Request(s) PROVE WaitBounded'
  BY <1>1 DEF Request
<1>2. CASE Wake
  <2>1. PICK d \in 0 .. remaining : /\ elapsed' = elapsed + d
                                    /\ remaining' = Left(remaining, elapsed')
    BY <1>2 DEF Wake
  <2>2. elapsed' \in Nat /\ elapsed' <= Timeout
    BY <2>1
  <2>3. QED
    BY <2>1, <2>2, LeftShrinks
<1>3. ASSUME UNCHANGED waitVars PROVE WaitBounded'
  BY <1>3 DEF waitVars
<1>4. ASSUME Next, ~Wake, \A s \in Sbe : ~Request(s) PROVE UNCHANGED waitVars
  BY <1>4 DEF Next, Step, Environment, Alloc, Encode, FetchSensorInfo, Open, Send,
              Finish, Answer, Noise, OtherProcess, waitVars
<1>5. QED
  BY <1>1, <1>2, <1>3, <1>4 DEF vars, waitVars

\* A call of hresetSbe() never waits longer than its limit.
THEOREM WaitBoundedHolds == Spec => []WaitBounded
<1>1. Init => WaitBounded
  BY HresetAssumption DEF Init, WaitBounded
<1>2. QED
  BY <1>1, TypeInvHolds, WaitStep, PTL DEF Spec

--------------------------------------------------------------------------------
(* The instance IDs *)

\* The ID of a request that is being made ready is held, so that it is given
\* back if that fails.
AccountInv == IdsAccounted /\ (phase = "encode" => id \in held)

\* Whatever is read from the address of the vector, no ID is gained by giving
\* an ID back.
LEMMA Shrunk ==
  ASSUME held \subseteq Id, NEW h, h \subseteq held
  PROVE  /\ IsFiniteSet(held) /\ Cardinality(held) \in Nat
         /\ Cardinality(h) \in Nat /\ Cardinality(h) <= Cardinality(held)
<1>1. IsFiniteSet(held)
  BY HresetAssumption, FS_Subset
<1>2. QED
  BY <1>1, FS_Subset, FS_CardinalityType

\* Every step keeps the account of the instance IDs.
LEMMA AccountStep == TypeInv /\ AccountInv /\ [Next]_vars => AccountInv'
<1> SUFFICES ASSUME TypeInv, AccountInv, [Next]_vars PROVE AccountInv'
  OBVIOUS
<1> USE DEF TypeInv, TypeOK, AccountInv, IdsAccounted
<1>a. IsFiniteSet(held) /\ Cardinality(held) \in Nat
  BY Shrunk
<1>b. held' \subseteq held => Cardinality(held') \in Nat /\ Cardinality(held') <= Cardinality(held)
  BY Shrunk
<1>1. CASE UNCHANGED vars
  BY <1>1 DEF vars, idVars, envVars, countVars
<1>2. ASSUME NEW s \in Sbe, Request(s) PROVE AccountInv'
  <2>1. phase' \in {"idle", "alloc"}
    BY <1>2 DEF Request
  <2>2. QED
    BY <2>1, <1>2 DEF Request
<1>3. CASE Alloc
  <2>1. CASE UNCHANGED idVars /\ phase' # "encode"
    BY <2>1, <1>3 DEF Alloc, idVars, envVars, countVars
  <2>2. ASSUME NEW i \in Id \ (held \cup others), id' = i, held' = held \cup {i},
               phase' = "encode"
        PROVE  AccountInv'
    <3>1. Cardinality(held') = Cardinality(held) + 1
      BY <1>a, <2>2, FS_AddElement
    <3>2. QED
      BY <3>1, <1>a, <2>2, <1>3 DEF Alloc, envVars, countVars
  <2>3. QED
    BY <2>1, <2>2, <1>3 DEF Alloc
<1>4. CASE Encode
  <2>1. CASE phase' = "sensors"
    BY <2>1, <1>a, <1>4 DEF Encode, envVars, idVars
  <2>2. CASE phase' = "idle"
    <3>1. Cardinality(held \ {id}) = Cardinality(held) - 1
      BY <1>a, <1>4, FS_RemoveElement DEF Encode
    <3>2. held' = held \ {id} /\ UNCHANGED <<encoded, others>>
      BY <2>2, <1>4 DEF Encode, envVars
    <3>3. QED
      BY <3>1, <3>2, <2>2, <1>a, <1>4 DEF Encode
  <2>3. QED
    BY <2>1, <2>2, <1>4 DEF Encode
<1>5. CASE FetchSensorInfo \/ Open \/ Send \/ Finish
  <2>1. /\ held' \subseteq held
        /\ phase # "encode" /\ phase' # "encode"
        /\ UNCHANGED <<others, encoded>>
    BY <1>5 DEF FetchSensorInfo, Open, Send, Finish, FreeStray, envVars, countVars
  <2>2. QED
    BY <2>1, <1>a, <1>b
<1>6. ASSUME UNCHANGED <<phase, idVars, others, encoded>> PROVE AccountInv'
  BY <1>6 DEF idVars
<1>7. CASE Wake
  BY <1>6, <1>7 DEF Wake, countVars
<1>8. ASSUME NEW p \in pending, NEW state, Answer(p, state) PROVE AccountInv'
  BY <1>6, <1>8 DEF Answer, countVars
<1>9. ASSUME NEW sensor, Noise(sensor) PROVE AccountInv'
  BY <1>6, <1>9 DEF Noise, countVars
<1>10. ASSUME NEW i \in Id, OtherProcess(i) PROVE AccountInv'
  BY <1>10 DEF OtherProcess, idVars, countVars
<1>11. QED
  BY <1>1, <1>2, <1>3, <1>4, <1>5, <1>7, <1>8, <1>9, <1>10
     DEF Next, Step, Environment

\* An instance ID is lost only by a request that was made ready, and none is in
\* the hands of two processes.
THEOREM IdsAccountedHolds == Spec => []IdsAccounted
<1>1. Init => AccountInv
  BY FS_EmptySet DEF Init, AccountInv, IdsAccounted
<1>2. AccountInv => IdsAccounted
  BY DEF AccountInv
<1>3. QED
  BY <1>1, <1>2, TypeInvHolds, AccountStep, PTL DEF Spec

--------------------------------------------------------------------------------
(* The result *)

\* The events that may reach a call: answers to its requests and earlier ones,
\* and what is told of other states.
Told ==
  {e \in [sensor : {SensorOf[x] : x \in DOMAIN SensorOf}, offset : {Offset, Offset + 1},
          state : {"ready", "failed"}, request : 0 .. requests] :
     e.offset = Offset => e.request # 0}

\* What was found of the sensors, if it is about all of them, is right.
SensorsRight ==
  (\A e \in DOMAIN SensorOf : SensorOf[e] \in DOMAIN instances)
    => \A e \in DOMAIN SensorOf : instances[SensorOf[e]] = SbeOf[SensorOf[e]]

\* The event that was taken for the result.
Deciding ==
  status # "requested" =>
    /\ sent = "yes"
    /\ heard \in Told
    /\ heard.offset = Offset
    /\ heard.sensor \in DOMAIN instances
    /\ instances[heard.sensor] = sbe

HeardInv ==
  /\ \A p \in pending : p.request \in 1 .. requests /\ p.effecter \in DOMAIN SensorOf
  /\ inbox \in Seq(Told)
  /\ phase # "idle" => effecter \in DOMAIN SensorOf /\ requests # 0
  /\ phase \notin {"wait", "idle"} => status = "requested"
  /\ phase \in {"open", "send", "wait"} => offset = Offset
  /\ phase = "wait" => sent = "yes"
  /\ SensorsRight
  /\ Deciding

\* Initially no request was sent, and nothing was heard.
LEMMA HeardInit == Init => HeardInv
<1> SUFFICES ASSUME Init PROVE HeardInv
  OBVIOUS
<1>1. SensorsRight
  <2>1. DOMAIN instances = {}
    BY DEF Init
  <2>2. QED
    BY <2>1 DEF SensorsRight
<1>2. QED
  BY <1>1 DEF Init, HeardInv, Deciding

\* The signals of the daemon are about requests that were sent.
LEMMA PostTold ==
  ASSUME inbox \in Seq(Told), NEW e \in Told, Post(e)
  PROVE  inbox' \in Seq(Told)
BY DEF Post

\* Every step keeps what was heard true to what was sent.
LEMMA HeardStep ==
  ASSUME TypeInv, HeardInv, TruthfulDaemon, [Next]_vars
  PROVE  HeardInv'
<1> USE DEF HeardInv, idVars, infoVars, linkVars, waitVars, envVars, countVars
<1>a. requests \in Nat
  BY DEF TypeInv, TypeOK
<1>b. requests' = requests => Told' = Told
  BY DEF Told
<1>c. UNCHANGED <<instances>> => SensorsRight'
  BY DEF SensorsRight
<1>d. UNCHANGED <<status, heard, sent, instances, sbe, requests>> => Deciding'
  BY <1>b DEF Deciding
<1>1. ASSUME NEW s \in Sbe, Request(s) PROVE HeardInv'
  <2>1. /\ requests' = requests + 1 /\ inbox' = <<>> /\ instances' = <<>>
        /\ status' = "requested" /\ pending' = pending
        /\ phase' \in {"idle", "alloc"}
    BY <1>1 DEF Request
  <2>2. phase' # "idle" => effecter' \in DOMAIN SensorOf
    <3>1. PICK pdrs \in Effecters :
            LET mine == {e \in Ids(pdrs) : Instance(pdrs, e) = s}
            IN IF Place(pdrs, "maintenance") = 0 \/ mine = {}
                 THEN phase' = "idle" /\ effecter' = -1
                 ELSE phase' = "alloc" /\ effecter' = CHOOSE e \in mine : TRUE
      BY <1>1 DEF Request
    <3>2. phase' # "idle" => Place(pdrs, "maintenance") # 0 /\ effecter' \in Ids(pdrs)
      BY <3>1
    <3>3. QED
      BY <3>2 DEF TruthfulDaemon
  <2>3. SensorsRight'
    <3>1. DOMAIN instances' = {}
      BY <2>1
    <3>2. QED
      BY <3>1 DEF SensorsRight
  <2>4. inbox' \in Seq(Told)'
    BY <2>1
  <2>5. \A p \in pending : p.request \in 1 .. requests'
    BY <1>a, <2>1
  <2>6. QED
    BY <1>a, <2>1, <2>2, <2>3, <2>4, <2>5 DEF Deciding
<1>2. CASE Alloc \/ Encode
  <2>1. /\ UNCHANGED <<infoVars, linkVars, waitVars, envVars, requests>>
        /\ phase \in {"alloc", "retry", "encode"}
        /\ phase' \in {"retry", "encode", "sensors", "idle"}
    BY <1>2 DEF Alloc, Encode
  <2>2. QED
    BY <1>b, <1>c, <1>d, <2>1
<1>3. CASE FetchSensorInfo
  <2>1. /\ phase = "sensors" /\ status = "requested" /\ status' = status
        /\ UNCHANGED <<effecter, inbox, pending, requests, sent>>
    BY <1>3 DEF FetchSensorInfo
  <2>2. CASE phase' = "idle" /\ instances' = instances
    BY <1>b, <1>c, <2>1, <2>2 DEF Deciding
  <2>3. ASSUME NEW pdrs \in Sensors, Place(pdrs, "hreset") # 0, phase' = "open",
               instances' = [p \in Ids(pdrs) |-> Instance(pdrs, p)],
               offset' = Place(pdrs, "hreset")
        PROVE  HeardInv'
    <3>1. offset' = Offset
      BY <2>3 DEF TruthfulDaemon
    <3>2. SensorsRight'
      BY <2>3 DEF SensorsRight, TruthfulDaemon
    <3>3. QED
      BY <1>b, <2>1, <2>3, <3>1, <3>2 DEF Deciding
  <2>4. QED
    BY <1>3, <2>2, <2>3 DEF FetchSensorInfo
<1>4. CASE Open
  <2>1. /\ phase = "open" /\ phase' \in {"send", "idle"}
        /\ UNCHANGED <<infoVars, sent, waitVars, envVars, countVars>>
    BY <1>4 DEF Open
  <2>2. QED
    BY <1>b, <1>c, <1>d, <2>1
<1>5. CASE Send
  <2>1. /\ phase = "send" /\ status = "requested"
        /\ UNCHANGED <<infoVars, waitVars, inbox, requests>>
        /\ \/ /\ phase' = "wait" /\ sent' = "yes"
              /\ pending' = pending \cup {[request |-> requests, effecter |-> effecter]}
           \/ phase' = "idle" /\ pending' = pending
    BY <1>5 DEF Send
  <2>2. requests \in 1 .. requests
    BY <1>a, <2>1
  <2>3. QED
    BY <1>b, <1>c, <2>1, <2>2 DEF Deciding
<1>6. CASE Wake
  <2>1. /\ phase = "wait" /\ phase' = phase /\ status = "requested" /\ sent = "yes"
        /\ UNCHANGED <<infoVars, linkVars, pending, requests>>
    BY <1>6 DEF Wake, WaitOver
  <2>2. CASE inbox = <<>>
    BY <1>b, <1>c, <1>d, <1>6, <2>1, <2>2 DEF Wake
  <2>3. CASE inbox # <<>>
    <3> DEFINE e == Head(inbox)
    <3>1. e \in Told /\ Tail(inbox) \in Seq(Told)
      BY <2>3
    <3>2. /\ status' = Verdict(e) /\ inbox' = Tail(inbox)
          /\ (status' # "requested" => heard' = e)
      BY <1>6, <2>3 DEF Wake
    <3>3. status' # "requested" => Concerns(e)
      BY <3>2 DEF Verdict
    <3>4. Deciding'
      BY <1>b, <2>1, <3>1, <3>2, <3>3 DEF Deciding, Concerns
    <3>5. QED
      BY <1>b, <1>c, <2>1, <3>1, <3>2, <3>4
  <2>4. QED
    BY <2>2, <2>3
<1>7. CASE Finish
  <2>1. /\ phase' = "idle"
        /\ UNCHANGED <<infoVars, sent, waitVars, envVars, countVars>>
    BY <1>7 DEF Finish
  <2>2. QED
    BY <1>b, <1>c, <1>d, <2>1
<1>8. ASSUME NEW p \in pending, NEW state \in {"ready", "failed"}, Answer(p, state)
      PROVE  HeardInv'
  <2> DEFINE e == [sensor |-> SensorOf[p.effecter], offset |-> Offset, state |-> state,
                   request |-> p.request]
  <2>1. e \in Told
    BY <1>a DEF Told
  <2>2. /\ Post(e) /\ pending' \subseteq pending
        /\ UNCHANGED <<phase, infoVars, linkVars, waitVars, requests>>
    BY <1>8 DEF Answer
  <2>3. inbox' \in Seq(Told)
    BY <2>1, <2>2, PostTold
  <2>4. QED
    BY <1>b, <1>c, <1>d, <2>2, <2>3
<1>9. ASSUME NEW x \in DOMAIN SensorOf, Noise(SensorOf[x]) PROVE HeardInv'
  <2> DEFINE e == [sensor |-> SensorOf[x], offset |-> Offset + 1, state |-> "ready",
                   request |-> 0]
  <2>1. e \in Told
    <3>1. Offset + 1 # Offset
      BY DEF TruthfulDaemon
    <3>2. QED
      BY <1>a, <3>1 DEF Told
  <2>2. /\ Post(e)
        /\ UNCHANGED <<phase, infoVars, linkVars, waitVars, pending, requests>>
    BY <1>9 DEF Noise
  <2>3. inbox' \in Seq(Told)
    BY <2>1, <2>2, PostTold
  <2>4. QED
    BY <1>b, <1>c, <1>d, <2>2, <2>3
<1>10. ASSUME NEW i \in Id, OtherProcess(i) PROVE HeardInv'
  BY <1>b, <1>c, <1>d, <1>10 DEF OtherProcess
<1>11. CASE UNCHANGED vars
  BY <1>b, <1>c, <1>d, <1>11 DEF vars
<1>12. QED
  BY <1>1, <1>2, <1>3, <1>4, <1>5, <1>6, <1>7, <1>8, <1>9, <1>10, <1>11
  DEF Next, Step, Environment

\* Where the daemon tells the truth about its sensors, hresetSbe() takes no event
\* for its result that does not answer a request of this process or that is about
\* another SBE, however late answers and other events arrive.
THEOREM ResultHeardHolds == ASSUME TruthfulDaemon PROVE Spec => []ResultHeard
<1>1. TypeInv /\ HeardInv /\ [Next]_vars => HeardInv'
  BY HeardStep
<1>2. TypeInv /\ HeardInv => ResultHeard
  <2> SUFFICES ASSUME TypeInv, HeardInv, status # "requested"
               PROVE  /\ sent = "yes"
                      /\ heard.request \in 1 .. requests
                      /\ (\A e \in DOMAIN SensorOf : SensorOf[e] \in DOMAIN instances)
                           => SbeOf[heard.sensor] = sbe
    BY DEF ResultHeard
  <2>1. requests \in Nat
    BY DEF TypeInv, TypeOK
  <2>2. heard.request \in 1 .. requests
    BY <2>1 DEF HeardInv, Deciding, Told
  <2>3. \E x \in DOMAIN SensorOf : heard.sensor = SensorOf[x]
    BY DEF HeardInv, Deciding, Told
  <2>4. QED
    BY <2>2, <2>3 DEF HeardInv, Deciding, SensorsRight
<1>3. QED
  BY <1>1, <1>2, HeardInit, TypeInvHolds, PTL DEF Spec

================================================================================
