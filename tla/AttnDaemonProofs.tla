---------------------------- MODULE AttnDaemonProofs ---------------------------
(***************************************************************************)
(* Theorems about AttnDaemon: a word that a process sends is kept in one   *)
(* place and never twice, whoever starts, fails or is killed; and when     *)
(* processes take turns, every command is executed whole.                  *)
(***************************************************************************)
EXTENDS AttnDaemon, ListLemmas, SequenceTheorems, FiniteSetTheorems, TLAPS

--------------------------------------------------------------------------------
(* The types of the variables, and what the control points say of the data. *)

Word == {m \in Message : ~IsEnd(m)}

QueueType ==
  /\ made \in 0 .. MaxQueue
  /\ named \in 0 .. made
  /\ queue \in [Queue -> {<<>>} \cup {<<m>> : m \in Message}]

MainType ==
  /\ mainPc \in [Process -> MainLabel]
  /\ mainQ \in [Process -> 0 .. made]
  /\ count \in [Process -> Nat]
  /\ rc \in [Process -> {0, 1}]
  /\ \A p \in Process : count[p] <= Len(Argv[p]) + 1
  /\ \A p \in Process : mainPc[p] = "send" => mainQ[p] # NoQueue /\ count[p] <= Len(Argv[p])
  /\ \A p \in Process : mainPc[p] \in {"new", "pending", "ready", "open"} => count[p] = 0

ListenerType ==
  /\ lisPc \in [Process -> ListenerLabel]
  /\ lisQ \in [Process -> 0 .. made]
  /\ messages \in [Process -> Seq(Word)]
  /\ config \in [Process -> SUBSET Flag]
  /\ \A p \in Process : lisPc[p] \in {"receive", "execute"} => lisQ[p] # NoQueue
  /\ \A p \in Process : lisPc[p] \in {"none", "ended"} => messages[p] = <<>>

LineType ==
  /\ monitor \in [Process -> Monitor]
  /\ owner \in Process \cup {Nobody}

TypeInv ==
  /\ QueueType
  /\ MainType
  /\ ListenerType
  /\ LineType
  /\ crashes \in 0 .. MaxCrash
  /\ executed \subseteq Seq(Word)

\* The command lines are sequences, so that their lengths are natural numbers.
LEMMA ArgvLength ==
  \A p \in Process : Len(Argv[p]) \in Nat \ {0} /\ DOMAIN Argv[p] = 1 .. Len(Argv[p])
<1> SUFFICES ASSUME NEW p \in Process
             PROVE  Len(Argv[p]) \in Nat \ {0} /\ DOMAIN Argv[p] = 1 .. Len(Argv[p])
  OBVIOUS
<1>1. Argv[p] \in Seq(STRING) /\ Argv[p] # <<>>
  BY DaemonAssumption
<1>2. QED
  BY <1>1, LenProperties, EmptySeq

\* The configuration made from a command line is a set of flags.
LEMMA ConfigType ==
  ASSUME NEW argv, NEW flags \in SUBSET Flag
  PROVE  ParseConfig(argv, flags) \in SUBSET Flag
BY DEF ParseConfig, ClearFlagAll, SetFlagAll, AllFlags, Flag

\* The types of the variables hold initially.
LEMMA TypeInit == Init => TypeInv
<1> SUFFICES ASSUME Init PROVE TypeInv
  OBVIOUS
<1>1. QueueType
  BY DaemonAssumption DEF Init, QueueType, Queue, NoQueue
<1>2. MainType
  BY DaemonAssumption, ArgvLength DEF Init, MainType, MainLabel, NoQueue
<1>3. ListenerType
  <2>1. <<>> \in Seq(Word)
    BY EmptySeq
  <2>2. DefaultConfig \in SUBSET Flag
    BY DEF DefaultConfig, SetFlagAll, AllFlags, Flag
  <2>3. QED
    BY <2>1, <2>2 DEF Init, ListenerType, ListenerLabel, NoQueue
<1>4. LineType
  BY DEF Init, LineType, Monitor
<1>5. QED
  BY <1>1, <1>2, <1>3, <1>4, DaemonAssumption DEF TypeInv, Init

\* What is read from a queue is its only message, and leaves it empty.
LEMMA OneMessage ==
  \A m : Head(<<m>>) = m /\ Tail(<<m>>) = <<>> /\ <<m>> # <<>> /\ Len(<<m>>) = 1
OBVIOUS

\* A queue that is not empty holds one message.
LEMMA ReceivedMessage ==
  ASSUME QueueType, NEW k \in Queue, queue[k] # <<>>
  PROVE  /\ Head(queue[k]) \in Message
         /\ queue[k] = <<Head(queue[k])>>
         /\ Tail(queue[k]) = <<>>
BY OneMessage DEF QueueType

\* The message after one of a command line, its end included, is a message.
LEMMA NextMessage ==
  ASSUME NEW p \in Process, NEW n \in Nat, n <= Len(Argv[p])
  PROVE  <<p, n + 1>> \in Message
BY ArgvLength DEF Message

\* A name that a process has found belongs to a queue.
LEMMA NamedQueue ==
  ASSUME QueueType, NEW k \in 0 .. made, k # NoQueue
  PROVE  k \in Queue
BY DaemonAssumption DEF QueueType, Queue, NoQueue

\* Every step keeps the types.
LEMMA TypeStep == TypeInv /\ [Next]_vars => TypeInv'
<1> SUFFICES ASSUME TypeInv, [Next]_vars PROVE TypeInv'
  OBVIOUS
<1> USE DEF MainGoto, ListenerGoto, queueVars, mainVars, lisVars, gpioVars
<1>1. ASSUME NEW p \in Process, Begin(p) PROVE TypeInv'
  BY <1>1 DEF Begin, TypeInv, QueueType, MainType, ListenerType, LineType, MainLabel
<1>2. ASSUME NEW p \in Process, FoundListener(p) PROVE TypeInv'
  BY <1>2 DEF FoundListener, TypeInv, QueueType, MainType, ListenerType, LineType, MainLabel
<1>3. ASSUME NEW p \in Process, NewListener(p) PROVE TypeInv'
  BY <1>3 DEF NewListener, Fail, Leave, TypeInv, QueueType, MainType, ListenerType, LineType,
              MainLabel, ListenerLabel
<1>4. ASSUME NEW p \in Process, ListenerReady(p) PROVE TypeInv'
  BY <1>4 DEF ListenerReady, TypeInv, QueueType, MainType, ListenerType, LineType, MainLabel
<1>5. ASSUME NEW p \in Process, OpenQueue(p) PROVE TypeInv'
  <2>1. count[p] <= Len(Argv[p])
    BY <1>5, ArgvLength DEF OpenQueue, TypeInv, MainType
  <2>2. CASE named = NoQueue
    BY <1>5, <2>2 DEF OpenQueue, Fail, Leave, TypeInv, QueueType, MainType, ListenerType,
                      LineType, MainLabel
  <2>3. CASE named # NoQueue
    BY <1>5, <2>1, <2>3 DEF OpenQueue, TypeInv, QueueType, MainType, ListenerType,
                            LineType, MainLabel
  <2>4. QED
    BY <2>2, <2>3
<1>6. ASSUME NEW p \in Process, Send(p) PROVE TypeInv'
  <2> USE DEF Send, TypeInv
  <2>1. count[p] \in Nat /\ count[p] <= Len(Argv[p]) /\ mainQ[p] # NoQueue
    BY <1>6 DEF MainType
  <2>2. QueueType'
    BY <1>6, <2>1, NextMessage DEF QueueType
  <2>3. MainType'
    <3>1. Len(Argv[p]) \in Nat
      BY ArgvLength
    <3>2. count' = [count EXCEPT ![p] = count[p] + 1] /\ UNCHANGED <<mainQ, rc, made>>
      BY <1>6
    <3>3. \/ count[p] < Len(Argv[p]) /\ mainPc' = mainPc
          \/ /\ count[p] = Len(Argv[p])
             /\ \E l \in {"exited", "join"} : mainPc' = [mainPc EXCEPT ![p] = l]
      BY <1>6, <2>1, <3>1 DEF Leave
    <3>4. count[p] + 1 \in Nat /\ count[p] + 1 <= Len(Argv[p]) + 1
      BY <2>1, <3>1
    <3>5. CASE count[p] < Len(Argv[p]) /\ mainPc' = mainPc
      <4>1. count[p] + 1 <= Len(Argv[p])
        BY <2>1, <3>1, <3>5
      <4> HIDE DEF Send
      <4>2. QED
        BY <2>1, <3>2, <3>4, <3>5, <4>1, <1>6 DEF MainType, Send
    <3>6. CASE \E l \in {"exited", "join"} : mainPc' = [mainPc EXCEPT ![p] = l]
      <4> HIDE DEF Send
      <4>1. QED
        BY <2>1, <3>2, <3>4, <3>6 DEF MainType, MainLabel
    <3>7. QED
      BY <3>3, <3>5, <3>6
  <2>4. QED
    BY <1>6, <2>2, <2>3 DEF ListenerType, LineType
<1>7. ASSUME NEW p \in Process, SendThrows(p) PROVE TypeInv'
  BY <1>7 DEF SendThrows, Fail, Leave, TypeInv, QueueType, MainType, ListenerType, LineType,
              MainLabel
<1>8. ASSUME NEW p \in Process, Exit(p) PROVE TypeInv'
  BY <1>8 DEF Exit, ReleaseLine, TypeInv, QueueType, MainType, ListenerType, LineType,
              MainLabel, Monitor
<1>9. ASSUME NEW p \in Process, RemoveQueue(p) PROVE TypeInv'
  BY <1>9 DEF RemoveQueue, TypeInv, QueueType, MainType, ListenerType, LineType, ListenerLabel,
              NoQueue
<1>10. ASSUME NEW p \in Process, ListenerOpen(p) PROVE TypeInv'
  <2> USE DEF ListenerOpen, TypeInv
  <2>1. QueueType' /\ made <= made' /\ named' # NoQueue
    BY <1>10, DaemonAssumption DEF QueueType, NoQueue
  <2>2. MainType'
    BY <1>10, <2>1 DEF MainType, QueueType
  <2>3. ListenerType'
    BY <1>10, <2>1 DEF ListenerType, QueueType, ListenerLabel
  <2>4. QED
    BY <1>10, <2>1, <2>2, <2>3 DEF LineType
<1>11. ASSUME NEW p \in Process, Receive(p) PROVE TypeInv'
  <2> DEFINE m == Head(queue[lisQ[p]])
  <2> USE DEF Receive, TypeInv
  <2>1. lisQ[p] \in Queue
    BY <1>11, NamedQueue DEF ListenerType
  <2>2. m \in Message /\ Tail(queue[lisQ[p]]) = <<>>
    BY <1>11, <2>1, ReceivedMessage
  <2>3. QueueType'
    BY <1>11, <2>1, <2>2 DEF QueueType
  <2>4. ListenerType'
    <3>1. CASE IsEnd(m)
      BY <1>11, <3>1 DEF ListenerType, ListenerLabel
    <3>2. CASE ~IsEnd(m)
      <4>1. messages[p] \in Seq(Word) /\ m \in Word
        BY <2>2, <3>2 DEF ListenerType, Word
      <4>2. Append(messages[p], m) \in Seq(Word)
        BY <4>1, AppendProperties
      <4>3. messages' = [messages EXCEPT ![p] = Append(@, m)] /\ lisPc' = lisPc
        BY <1>11, <3>2
      <4>4. QED
        BY <1>11, <4>2, <4>3 DEF ListenerType
    <3>3. QED
      BY <3>1, <3>2
  <2>5. QED
    BY <1>11, <2>3, <2>4 DEF MainType, LineType
<1>12. ASSUME NEW p \in Process, Stop(p) PROVE TypeInv'
  <2>1. messages[p] \in Seq(Word) /\ <<>> \in Seq(Word)
    BY EmptySeq DEF TypeInv, ListenerType
  <2>2. QED
    BY <1>12, <2>1 DEF Stop, TypeInv, QueueType, MainType, ListenerType, LineType,
                       ListenerLabel, NoQueue
<1>13. ASSUME NEW p \in Process, Parse(p) PROVE TypeInv'
  <2>1. messages[p] \in Seq(Word) /\ <<>> \in Seq(Word)
    BY EmptySeq DEF TypeInv, ListenerType
  <2>2. ParseConfig(Words(messages[p]), config[p]) \in SUBSET Flag
    BY ConfigType DEF TypeInv, ListenerType
  <2>3. ListenerType'
    BY <1>13, <2>1, <2>2 DEF Parse, TypeInv, ListenerType, ListenerLabel
  <2>4. QED
    BY <1>13, <2>1, <2>3 DEF Parse, TypeInv, QueueType, MainType, LineType, Monitor
<1>14. ASSUME NEW p \in Process, RequestLine(p) PROVE TypeInv'
  BY <1>14 DEF RequestLine, TypeInv, QueueType, MainType, ListenerType, LineType, Monitor
<1>15. ASSUME NEW p \in Process, Crash(p) PROVE TypeInv'
  <2>1. <<>> \in Seq(Word)
    BY EmptySeq
  <2>2. ListenerType'
    BY <1>15, <2>1 DEF Crash, TypeInv, ListenerType, ListenerLabel
  <2>3. crashes' \in 0 .. MaxCrash
    BY <1>15, DaemonAssumption DEF Crash, TypeInv
  <2>4. QED
    BY <1>15, <2>2, <2>3 DEF Crash, ReleaseLine, TypeInv, QueueType, MainType, LineType,
                             MainLabel, Monitor
<1>16. CASE UNCHANGED vars
  BY <1>16 DEF vars, TypeInv, QueueType, MainType, ListenerType, LineType
<1>17. QED
  BY <1>1, <1>2, <1>3, <1>4, <1>5, <1>6, <1>7, <1>8, <1>9, <1>10, <1>11, <1>12, <1>13, <1>14,
     <1>15, <1>16 DEF Next, MainStep, ListenerStep

\* Every variable keeps its type, and a process that sends has a queue to send
\* to and words left to send.
THEOREM TypeInvHolds == Spec => []TypeInv
<1>1. QED
  BY TypeInit, TypeStep, PTL DEF Spec

--------------------------------------------------------------------------------
(* A word is kept in one place, and once.                                  *)

Carries(s, m) == \E j \in 1 .. Len(s) : s[j] = m
Apart(s, t) == \A m \in Message : ~(Carries(s, m) /\ Carries(t, m))
Once(s) == \A i, j \in 1 .. Len(s) : s[i] = s[j] => i = j
Sent(s) == \A m \in Message : Carries(s, m) => m[2] <= count[m[1]]

OnceInv ==
  /\ \A p \in Process : Once(messages[p]) /\ Sent(messages[p])
  /\ \A k \in Queue : Sent(queue[k])
  /\ \A s \in executed : Once(s) /\ Sent(s)
  /\ \A p, q \in Process : p # q => Apart(messages[p], messages[q])
  /\ \A k, l \in Queue : k # l => Apart(queue[k], queue[l])
  /\ \A s, t \in executed : s # t => Apart(s, t)
  /\ \A p \in Process : \A k \in Queue : Apart(messages[p], queue[k])
  /\ \A p \in Process : \A s \in executed : Apart(messages[p], s)
  /\ \A k \in Queue : \A s \in executed : Apart(queue[k], s)

Kept(m) ==
  \/ \E p \in Process : Carries(messages[p], m)
  \/ \E k \in Queue : Carries(queue[k], m)
  \/ \E s \in executed : Carries(s, m)

KeptInv == crashes = 0 => \A m \in Word : m[2] <= count[m[1]] => Kept(m)

\* An empty list carries no word.
LEMMA CarriesNone == \A m : ~Carries(<<>>, m)
BY DEF Carries

\* A list of one message carries that one.
LEMMA CarriesOne == \A e, m : Carries(<<e>>, m) <=> m = e
BY DEF Carries

\* What a list carries once a message was added to it.
LEMMA CarriesAppend ==
  ASSUME NEW s \in Seq(Word), NEW e \in Word
  PROVE  /\ \A m : Carries(Append(s, e), m) <=> Carries(s, m) \/ m = e
         /\ Once(s) /\ ~Carries(s, e) => Once(Append(s, e))
<1>1. /\ Len(Append(s, e)) = Len(s) + 1
      /\ \A i \in 1 .. Len(s) : Append(s, e)[i] = s[i]
      /\ Append(s, e)[Len(s) + 1] = e
      /\ Len(s) \in Nat
  BY AppendProperties, LenProperties
<1>2. \A i \in 1 .. Len(s) + 1 : i \in 1 .. Len(s) \/ i = Len(s) + 1
  BY <1>1
<1>3. \A m : Carries(Append(s, e), m) <=> Carries(s, m) \/ m = e
  BY <1>1, <1>2 DEF Carries
<1>4. ASSUME Once(s), ~Carries(s, e) PROVE Once(Append(s, e))
  BY <1>1, <1>2, <1>4 DEF Carries, Once
<1>5. QED
  BY <1>3, <1>4

\* An empty list carries no word twice.
LEMMA OnceNone == Once(<<>>)
BY DEF Once

\* A message is its sender and the place of the word in the command line.
LEMMA MessageParts ==
  \A m \in Message : m[1] \in Process /\ m[2] \in Nat /\ m = <<m[1], m[2]>>
BY DEF Message

\* Where nothing is sent, received or executed, nothing changes.
LEMMA OnceSame ==
  OnceInv /\ KeptInv /\ UNCHANGED <<messages, queue, executed, count, crashes>>
    => OnceInv' /\ KeptInv'
BY DEF OnceInv, KeptInv, Kept, Sent

\* Executing a command moves its words.
LEMMA OnceExecute ==
  ASSUME TypeInv, OnceInv, KeptInv, NEW p \in Process,
         executed' = executed \cup {messages[p]},
         messages' = [messages EXCEPT ![p] = <<>>],
         UNCHANGED <<queue, count, crashes>>
  PROVE  OnceInv' /\ KeptInv'
<1>1. /\ messages'[p] = <<>>
      /\ \A q \in Process : q # p => messages'[q] = messages[q]
  BY DEF TypeInv, ListenerType
<1>2. OnceInv'
  <2>1. (\A q \in Process : Once(messages[q]) /\ Sent(messages[q]))'
    BY <1>1, OnceNone, CarriesNone DEF OnceInv, Sent
  <2>2. (\A k \in Queue : Sent(queue[k]))'
    BY DEF OnceInv, Sent
  <2>3. (\A s \in executed : Once(s) /\ Sent(s))'
    BY DEF OnceInv, Sent
  <2>4. (\A q, r \in Process : q # r => Apart(messages[q], messages[r]))'
    BY <1>1, CarriesNone DEF OnceInv, Apart
  <2>5. (\A k, l \in Queue : k # l => Apart(queue[k], queue[l]))'
    BY DEF OnceInv
  <2>6. (\A s, t \in executed : s # t => Apart(s, t))'
    BY DEF OnceInv, Apart
  <2>7. (\A q \in Process : \A k \in Queue : Apart(messages[q], queue[k]))'
    BY <1>1, CarriesNone DEF OnceInv, Apart
  <2>8. (\A q \in Process : \A s \in executed : Apart(messages[q], s))'
    BY <1>1, CarriesNone DEF OnceInv, Apart
  <2>9. (\A k \in Queue : \A s \in executed : Apart(queue[k], s))'
    BY DEF OnceInv, Apart
  <2>10. QED
    BY <2>1, <2>2, <2>3, <2>4, <2>5, <2>6, <2>7, <2>8, <2>9 DEF OnceInv
<1>3. KeptInv'
  BY <1>1 DEF KeptInv, Kept
<1>4. QED
  BY <1>2, <1>3

\* A word is sent when it is nowhere yet.
LEMMA OnceSend ==
  ASSUME TypeInv, OnceInv, KeptInv, NEW p \in Process, Send(p)
  PROVE  OnceInv' /\ KeptInv'
<1> DEFINE e == <<p, count[p] + 1>>
           k0 == mainQ[p]
<1>1. /\ k0 \in Queue
      /\ queue[k0] = <<>>
      /\ queue' = [queue EXCEPT ![k0] = <<e>>]
      /\ count' = [count EXCEPT ![p] = @ + 1]
      /\ UNCHANGED <<messages, executed, crashes>>
  BY NamedQueue DEF Send, TypeInv, MainType, lisVars
<1>2. e \in Message
  BY NextMessage DEF Send, TypeInv, MainType
<1>3. \A m \in Message : m[2] <= count[m[1]] => m[2] <= count'[m[1]] /\ m # e
  BY <1>1, MessageParts DEF TypeInv, MainType
<1>4. \A m \in Message : m[2] <= count'[m[1]] => m[2] <= count[m[1]] \/ m = e
  BY <1>1, MessageParts DEF TypeInv, MainType
<1>5. e[2] <= count'[e[1]]
  BY <1>1 DEF TypeInv, MainType
<1>6. /\ queue'[k0] = <<e>>
      /\ \A k \in Queue : k # k0 => queue'[k] = queue[k]
  BY <1>1 DEF TypeInv, QueueType
<1> HIDE DEF e, k0
<1>7. OnceInv'
  <2>1. (\A q \in Process : Once(messages[q]) /\ Sent(messages[q]))'
    BY <1>1, <1>3 DEF OnceInv, Sent
  <2>2. (\A k \in Queue : Sent(queue[k]))'
    BY <1>3, <1>5, <1>6, CarriesOne DEF OnceInv, Sent
  <2>3. (\A s \in executed : Once(s) /\ Sent(s))'
    BY <1>1, <1>3 DEF OnceInv, Sent
  <2>4. (\A q, r \in Process : q # r => Apart(messages[q], messages[r]))'
    BY <1>1 DEF OnceInv
  <2>5. (\A k, l \in Queue : k # l => Apart(queue[k], queue[l]))'
    BY <1>3, <1>6, CarriesOne DEF OnceInv, Apart, Sent
  <2>6. (\A s, t \in executed : s # t => Apart(s, t))'
    BY <1>1 DEF OnceInv
  <2>7. (\A q \in Process : \A k \in Queue : Apart(messages[q], queue[k]))'
    BY <1>1, <1>3, <1>6, CarriesOne DEF OnceInv, Apart, Sent
  <2>8. (\A q \in Process : \A s \in executed : Apart(messages[q], s))'
    BY <1>1 DEF OnceInv
  <2>9. (\A k \in Queue : \A s \in executed : Apart(queue[k], s))'
    BY <1>1, <1>3, <1>6, CarriesOne DEF OnceInv, Apart, Sent
  <2>10. QED
    BY <2>1, <2>2, <2>3, <2>4, <2>5, <2>6, <2>7, <2>8, <2>9 DEF OnceInv
<1>8. KeptInv'
  <2>1. \A m \in Word : m \in Message
    BY DEF Word
  <2>2. \A m : Kept(m) => Kept(m)'
    BY <1>1, <1>6, CarriesNone DEF Kept
  <2>3. \A m : m = e => Kept(m)'
    BY <1>1, <1>6, CarriesOne DEF Kept
  <2>4. ASSUME crashes' = 0, NEW m \in Word, m[2] <= count'[m[1]] PROVE Kept(m)'
    <3>1. m[2] <= count[m[1]] \/ m = e
      BY <1>4, <2>1, <2>4
    <3>2. QED
      BY <1>1, <2>2, <2>3, <2>4, <3>1 DEF KeptInv
  <2>5. QED
    BY <2>4 DEF KeptInv
<1>9. QED
  BY <1>7, <1>8

\* A word that is received moves from the queue to the messages; the end of a
\* command line vanishes.
LEMMA OnceReceive ==
  ASSUME TypeInv, OnceInv, KeptInv, NEW p \in Process, Receive(p)
  PROVE  OnceInv' /\ KeptInv'
<1> DEFINE k0 == lisQ[p]
           e == Head(queue[k0])
<1>1. k0 \in Queue /\ queue[k0] # <<>>
  BY NamedQueue DEF Receive, TypeInv, ListenerType
<1>2. e \in Message /\ queue[k0] = <<e>> /\ Tail(queue[k0]) = <<>>
  BY <1>1, ReceivedMessage DEF TypeInv
<1>3. /\ queue'[k0] = <<>>
      /\ \A k \in Queue : k # k0 => queue'[k] = queue[k]
      /\ UNCHANGED <<count, executed, crashes>>
  BY <1>1, <1>2 DEF Receive, TypeInv, QueueType, mainVars
<1>4. /\ \A q \in Process : q # p => messages'[q] = messages[q]
      /\ \/ IsEnd(e) /\ messages'[p] = messages[p]
         \/ e \in Word /\ messages'[p] = Append(messages[p], e)
  BY <1>2 DEF Receive, TypeInv, ListenerType, Word
<1>5. Carries(queue[k0], e)
  BY <1>2, CarriesOne
<1>6. /\ \A m : Carries(messages'[p], m) =>
           Carries(messages[p], m) \/ (m = e /\ messages'[p] = Append(messages[p], e))
      /\ \A m : Carries(messages[p], m) => Carries(messages'[p], m)
      /\ Once(messages'[p])
      /\ e \in Word => Carries(messages'[p], e)
  <2>1. ~Carries(messages[p], e)
    BY <1>1, <1>2, <1>5 DEF OnceInv, Apart
  <2>2. messages[p] \in Seq(Word) /\ Once(messages[p])
    BY DEF TypeInv, ListenerType, OnceInv
  <2>3. IsEnd(e) => e \notin Word
    BY DEF Word
  <2>4. CASE IsEnd(e) /\ messages'[p] = messages[p]
    BY <2>2, <2>3, <2>4
  <2>5. CASE e \in Word /\ messages'[p] = Append(messages[p], e)
    BY <2>1, <2>2, <2>5, CarriesAppend
  <2>6. QED
    BY <1>4, <2>4, <2>5
<1> HIDE DEF e, k0
<1>7. OnceInv'
  <2>1. (\A q \in Process : Once(messages[q]) /\ Sent(messages[q]))'
    BY <1>1, <1>2, <1>3, <1>4, <1>5, <1>6 DEF OnceInv, Sent
  <2>2. (\A k \in Queue : Sent(queue[k]))'
    BY <1>3, CarriesNone DEF OnceInv, Sent
  <2>3. (\A s \in executed : Once(s) /\ Sent(s))'
    BY <1>3 DEF OnceInv, Sent
  <2>4. (\A q, r \in Process : q # r => Apart(messages[q], messages[r]))'
    BY <1>1, <1>2, <1>4, <1>5, <1>6 DEF OnceInv, Apart
  <2>5. (\A k, l \in Queue : k # l => Apart(queue[k], queue[l]))'
    BY <1>3, CarriesNone DEF OnceInv, Apart
  <2>6. (\A s, t \in executed : s # t => Apart(s, t))'
    BY <1>3 DEF OnceInv
  <2>7. (\A q \in Process : \A k \in Queue : Apart(messages[q], queue[k]))'
    BY <1>1, <1>2, <1>3, <1>4, <1>5, <1>6, CarriesNone DEF OnceInv, Apart
  <2>8. (\A q \in Process : \A s \in executed : Apart(messages[q], s))'
    BY <1>1, <1>2, <1>3, <1>4, <1>5, <1>6 DEF OnceInv, Apart
  <2>9. (\A k \in Queue : \A s \in executed : Apart(queue[k], s))'
    BY <1>3, CarriesNone DEF OnceInv, Apart
  <2>10. QED
    BY <2>1, <2>2, <2>3, <2>4, <2>5, <2>6, <2>7, <2>8, <2>9 DEF OnceInv
<1>8. KeptInv'
  <2>1. \A m \in Word : Kept(m) => Kept(m)'
    <3>1. \A k \in Queue : \A m : Carries(queue[k], m) => Carries(queue'[k], m) \/ m = e
      <4> SUFFICES ASSUME NEW k \in Queue, NEW m, Carries(queue[k], m)
                   PROVE  Carries(queue'[k], m) \/ m = e
        OBVIOUS
      <4>1. CASE k = k0
        BY <1>2, <4>1, CarriesOne
      <4>2. CASE k # k0
        BY <1>3, <4>2
      <4>3. QED
        BY <4>1, <4>2
    <3>2. \A q \in Process : \A m : Carries(messages[q], m) => Carries(messages'[q], m)
      BY <1>4, <1>6
    <3>3. QED
      BY <1>3, <1>6, <3>1, <3>2 DEF Kept
  <2>2. QED
    BY <1>3, <2>1 DEF KeptInv
<1>9. QED
  BY <1>7, <1>8

\* The messages of a process that is killed are lost.
LEMMA OnceCrash ==
  ASSUME TypeInv, OnceInv, NEW p \in Process, Crash(p)
  PROVE  OnceInv' /\ KeptInv'
<1>1. /\ messages'[p] = <<>>
      /\ \A q \in Process : q # p => messages'[q] = messages[q]
      /\ UNCHANGED <<queue, executed, count>>
  BY DEF Crash, TypeInv, ListenerType, queueVars
<1>2. crashes' # 0
  BY DEF Crash, TypeInv
<1>3. OnceInv'
  BY <1>1, OnceNone, CarriesNone DEF OnceInv, Sent, Apart
<1>4. QED
  BY <1>2, <1>3 DEF KeptInv

\* No word is anywhere initially, and none was lost.
LEMMA OnceInit == Init => OnceInv /\ KeptInv
<1> SUFFICES ASSUME Init PROVE OnceInv /\ KeptInv
  OBVIOUS
<1>1. OnceInv
  BY OnceNone, CarriesNone DEF Init, OnceInv, Apart, Sent
<1>2. \A m \in Word : ~(m[2] <= count[m[1]])
  BY ArgvLength DEF Init, Word, Message
<1>3. QED
  BY <1>1, <1>2 DEF KeptInv

\* Every step keeps each word in one place.
LEMMA OnceStep == TypeInv /\ OnceInv /\ KeptInv /\ [Next]_vars => OnceInv' /\ KeptInv'
<1> SUFFICES ASSUME TypeInv, OnceInv, KeptInv, [Next]_vars PROVE OnceInv' /\ KeptInv'
  OBVIOUS
<1> DEFINE Same == UNCHANGED <<messages, queue, executed, count, crashes>>
<1> USE DEF queueVars, mainVars, lisVars, gpioVars
<1>1. ASSUME NEW p \in Process, Begin(p) \/ FoundListener(p) \/ NewListener(p) PROVE Same
  BY <1>1 DEF Begin, FoundListener, NewListener
<1>2. ASSUME NEW p \in Process, ListenerReady(p) \/ OpenQueue(p) \/ SendThrows(p) \/ Exit(p)
      PROVE  Same
  BY <1>2 DEF ListenerReady, OpenQueue, SendThrows, Exit
<1>3. ASSUME NEW p \in Process, RemoveQueue(p) \/ ListenerOpen(p) \/ RequestLine(p) PROVE Same
  BY <1>3 DEF RemoveQueue, ListenerOpen, RequestLine
<1>4. CASE UNCHANGED vars
  BY <1>4, OnceSame DEF vars
<1>5. ASSUME NEW p \in Process, Stop(p) \/ Parse(p) PROVE OnceInv' /\ KeptInv'
  <2>1. /\ executed' = executed \cup {messages[p]}
        /\ messages' = [messages EXCEPT ![p] = <<>>]
        /\ UNCHANGED <<queue, count, crashes>>
    BY <1>5 DEF Stop, Parse
  <2>2. QED
    BY <2>1, OnceExecute
<1>6. QED
  BY <1>1, <1>2, <1>3, <1>4, <1>5, OnceSame, OnceSend, OnceReceive, OnceCrash
  DEF Next, MainStep, ListenerStep

\* Each word is in one place in every state.
LEMMA OnceHolds == Spec => [](TypeInv /\ OnceInv /\ KeptInv)
<1>1. Init => TypeInv /\ OnceInv /\ KeptInv
  BY TypeInit, OnceInit
<1>2. TypeInv /\ OnceInv /\ KeptInv /\ [Next]_vars => (TypeInv /\ OnceInv /\ KeptInv)'
  BY TypeStep, OnceStep
<1>3. QED
  BY <1>1, <1>2, PTL DEF Spec

\* A set whose elements are all the same has at most one.
LEMMA AtMostOne ==
  ASSUME NEW S, \A x, y \in S : x = y
  PROVE  /\ Cardinality(S) <= 1
         /\ S # {} => Cardinality(S) = 1
<1>1. CASE S = {}
  BY <1>1, FS_EmptySet
<1>2. CASE \E x : S = {x}
  <2>1. Cardinality(S) = 1
    BY <1>2, FS_Singleton
  <2>2. QED
    BY <2>1
<1>3. QED
  BY <1>1, <1>2

\* Two places that carry the same word are one.
LEMMA PlacesApart ==
  ASSUME OnceInv, NEW m \in Message,
         NEW s \in Places, NEW t \in Places, Carries(s, m), Carries(t, m)
  PROVE  s = t
BY DEF OnceInv, Apart, Places

\* A place carries a word at one index only.
LEMMA WordOnce ==
  ASSUME TypeInv, OnceInv, NEW m \in Message, NEW s \in Places,
         NEW i \in 1 .. Len(s), NEW j \in 1 .. Len(s), s[i] = m, s[j] = m
  PROVE  i = j
<1>1. CASE \E k \in Queue : s = queue[k]
  <2>1. s = <<>> \/ \E e \in Message : s = <<e>>
    BY <1>1 DEF TypeInv, QueueType
  <2>2. Len(s) = 0 \/ Len(s) = 1
    BY <2>1, OneMessage, EmptySeq
  <2>3. QED
    BY <2>2
<1>2. CASE \E p \in Process : s = messages[p]
  BY <1>2 DEF OnceInv, Once
<1>3. CASE s \in executed
  BY <1>3 DEF OnceInv, Once
<1>4. QED
  BY <1>1, <1>2, <1>3 DEF Places

\* Every place is a sequence.
LEMMA PlaceSequence ==
  ASSUME TypeInv, NEW s \in Places
  PROVE  Len(s) \in Nat /\ DOMAIN s = 1 .. Len(s)
<1>1. ASSUME NEW k \in Queue PROVE queue[k] \in Seq(Message)
  <2>1. <<>> \in Seq(Message) /\ \A e \in Message : <<e>> \in Seq(Message)
    OBVIOUS
  <2>2. QED
    BY <2>1 DEF TypeInv, QueueType
<1>2. s \in Seq(Message) \/ s \in Seq(Word)
  BY <1>1 DEF Places, TypeInv, ListenerType
<1>3. QED
  BY <1>2, LenProperties

\* Whoever starts, sends, fails or is killed, a word is never in two places, is
\* not repeated where it is, and is somewhere from when it was sent unless a
\* process was killed: sendCmdLine() and threadListener() neither lose nor double
\* an option, whichever listener it reaches.
THEOREM OptionsOnceHolds == Spec => []OptionsOnce
<1>1. TypeInv /\ OnceInv /\ KeptInv => OptionsOnce
  <2> SUFFICES ASSUME TypeInv, OnceInv, KeptInv,
                      NEW p \in Process, NEW i \in 1 .. Len(Argv[p])
               PROVE  LET m == <<p, i>>
                          places == {s \in Places : \E j \in DOMAIN s : s[j] = m}
                      IN /\ Cardinality(places) <= 1
                         /\ \A s \in places : Cardinality({j \in DOMAIN s : s[j] = m}) = 1
                         /\ crashes = 0 /\ i <= count[p] => places # {}
    BY DEF OptionsOnce
  <2> DEFINE m == <<p, i>>
             places == {s \in Places : \E j \in DOMAIN s : s[j] = m}
  <2>1. m \in Message /\ m \in Word
    BY ArgvLength DEF Message, Word, IsEnd
  <2>2. \A s \in Places : (\E j \in DOMAIN s : s[j] = m) <=> Carries(s, m)
    BY PlaceSequence DEF Carries
  <2>3. \A s, t \in places : s = t
    BY <2>1, <2>2, PlacesApart
  <2>4. Cardinality(places) <= 1
    BY <2>3, AtMostOne
  <2>5. ASSUME NEW s \in places PROVE Cardinality({j \in DOMAIN s : s[j] = m}) = 1
    <3> DEFINE js == {j \in DOMAIN s : s[j] = m}
    <3>1. js # {}
      OBVIOUS
    <3>2. \A x, y \in js : x = y
      BY <2>1, WordOnce, PlaceSequence
    <3>3. QED
      BY <3>1, <3>2, AtMostOne
  <2>6. ASSUME crashes = 0, i <= count[p] PROVE places # {}
    <3>1. Kept(m)
      BY <2>1, <2>6 DEF KeptInv
    <3>2. PICK s \in Places : Carries(s, m)
      BY <3>1 DEF Kept, Places
    <3>3. QED
      BY <2>2, <3>2
  <2>7. QED
    BY <2>4, <2>5, <2>6
<1>2. QED
  BY <1>1, OnceHolds, PTL

--------------------------------------------------------------------------------
(* Processes that take turns.                                              *)

Serial ==
  /\ Overlap = "none"
  /\ MaxCrash = 0
  /\ \A p \in Process : \A i \in 1 .. Len(Argv[p]) : Argv[p][i] \notin LongWords

Active(p) == mainPc[p] \in {"pending", "ready", "open", "send"}
Live(p) == lisPc[p] \in {"remove", "open", "receive", "execute"}

Turns ==
  /\ \A p, q \in Process : Active(p) /\ Active(q) => p = q
  /\ \A p, q \in Process : Live(p) /\ Live(q) => p = q
  /\ \A p \in Process : Live(p) => mainPc[p] \in {"ready", "open", "send", "join"}
  /\ \A p \in Process : lisPc[p] = "remove" => mainPc[p] = "ready" /\ named = NoQueue
  /\ \A p \in Process : lisPc[p] = "open" /\ named = NoQueue => mainPc[p] = "ready"
  /\ \A p \in Process : lisPc[p] \in {"receive", "execute"} => lisQ[p] = named
  /\ \A p \in Process : mainPc[p] = "send" => mainQ[p] = named
  /\ \A p \in Process : mainPc[p] = "ready" => Live(p)

\* The sender is p, and n of its words have been received.
Talk(p, n) ==
  /\ \A q \in Process :
       /\ Len(messages[q]) = IF Live(q) THEN n ELSE 0
       /\ \A i \in 1 .. Len(messages[q]) : messages[q][i] = <<p, i>>
  /\ \A k \in Queue : queue[k] = <<>> \/ (k = named /\ queue[k] = <<<<p, n + 1>>>>)
  /\ \A q \in Process :
       lisPc[q] = "execute" =>
         /\ n = Len(Argv[p])
         /\ queue[named] = <<>>
         /\ \A r \in Process : ~Active(r)
  /\ \A q \in Process : mainPc[q] \in {"pending", "ready", "open"} =>
       n = 0 /\ \A k \in Queue : queue[k] = <<>>
  /\ \A q \in Process : mainPc[q] = "send" =>
       /\ n > 0 \/ (\E k \in Queue : queue[k] # <<>>) => q = p
       /\ count[q] = n + Len(queue[named])
  /\ (\A q \in Process : ~Active(q)) /\ (n > 0 \/ \E k \in Queue : queue[k] # <<>>) =>
       /\ n = Len(Argv[p])
       /\ (\E k \in Queue : queue[k] # <<>>) \/ \E q \in Process : lisPc[q] = "execute"
  /\ n > 0 => \E q \in Process : lisPc[q] \in {"receive", "execute"}

SerialInv ==
  /\ Turns
  /\ Process # {} => \E p \in Process : \E n \in 0 .. Len(Argv[p]) : Talk(p, n)

\* Initially no command is on its way.
LEMMA SerialInit == Init => SerialInv
<1> SUFFICES ASSUME Init PROVE SerialInv
  OBVIOUS
<1>1. Turns
  BY DEF Init, Turns, Active, Live
<1>2. \A p \in Process : Talk(p, 0)
  BY EmptySeq DEF Init, Talk, Active, Live
<1>3. \A p \in Process : 0 \in 0 .. Len(Argv[p])
  BY ArgvLength
<1>4. QED
  BY <1>1, <1>2, <1>3 DEF SerialInv

\* Steps that end before a word is on its way, or that have no part in it.
LEMMA SerialQuiet ==
  ASSUME TypeInv, SerialInv, Serial, NEW p \in Process,
         Begin(p) \/ FoundListener(p) \/ NewListener(p) \/ ListenerReady(p) \/ OpenQueue(p)
           \/ Exit(p) \/ RemoveQueue(p) \/ RequestLine(p)
  PROVE  SerialInv'
<1> USE DEF MainGoto, ListenerGoto, queueVars, mainVars, lisVars, gpioVars
<1>1. PICK s \in Process : \E n \in 0 .. Len(Argv[s]) : Talk(s, n)
  BY DEF SerialInv
<1>2. PICK n \in 0 .. Len(Argv[s]) : Talk(s, n)
  BY <1>1
<1>3. n \in Nat /\ Len(Argv[s]) \in Nat \ {0}
  BY ArgvLength
<1>4. Turns
  BY DEF SerialInv
<1>5. Turns' /\ Talk(s, n)' => SerialInv'
  BY DEF SerialInv
<1>6. CASE Begin(p)
  <2>1. Quiet
    BY <1>6 DEF Begin, MayBegin, Serial
  <2>2. \A q \in Process : ~Active(q)
    BY <2>1 DEF Quiet, Active
  <2>3. \A q \in Process : lisPc[q] # "execute" /\ (Live(q) => Waiting(q))
    BY <1>4, <2>1 DEF Quiet, Waiting, Turns, Live
  <2>4. \A q \in Process : Live(q) => queue[named] = <<>> /\ lisPc[q] = "receive"
    BY <1>4, <2>3 DEF Waiting, Turns, Live
  <2>5. n = 0 /\ \A k \in Queue : queue[k] = <<>>
    <3>1. n > 0 => \E q \in Process : Live(q)
      BY <1>2 DEF Talk, Live
    <3>2. \A k \in Queue : queue[k] # <<>> => k = named /\ n > 0
      BY <1>2, <1>3, <2>2 DEF Talk
    <3>3. \A k \in Queue : queue[k] = <<>>
      BY <2>4, <3>1, <3>2
    <3>4. QED
      BY <1>2, <1>3, <2>2, <2>3, <3>3 DEF Talk
  <2>6. Turns'
    BY <1>4, <1>6, <2>2 DEF Begin, Turns, Active, Live, TypeInv, MainType
  <2>7. Talk(s, n)'
    BY <1>2, <1>6, <2>2, <2>3, <2>5 DEF Begin, Talk, Active, Live, TypeInv, MainType
  <2>8. QED
    BY <1>5, <2>6, <2>7
<1>7. CASE FoundListener(p)
  <2>1. Turns'
    BY <1>4, <1>7 DEF FoundListener, Turns, Active, Live, TypeInv, MainType
  <2>2. Talk(s, n)'
    BY <1>2, <1>7 DEF FoundListener, Talk, Active, Live, TypeInv, MainType
  <2>3. QED
    BY <1>5, <2>1, <2>2
<1>8. CASE NewListener(p)
  <2>1. mainPc[p] = "pending" /\ named = NoQueue
    BY <1>8 DEF NewListener
  <2>2. \A q \in Process : ~Live(q)
    BY <1>4, <2>1 DEF Turns, Live, Active, TypeInv, ListenerType
  <2>3. n = 0 /\ \A k \in Queue : queue[k] = <<>>
    BY <1>2, <2>1 DEF Talk
  <2>4. CASE mainPc' = [mainPc EXCEPT ![p] = "ready"] /\ lisPc' = [lisPc EXCEPT ![p] = "remove"]
    <3>1. Turns'
      BY <1>4, <1>8, <2>1, <2>2, <2>4
      DEF NewListener, Turns, Active, Live, TypeInv, MainType, ListenerType
    <3>2. Talk(s, n)'
      BY <1>2, <1>8, <2>1, <2>2, <2>3, <2>4
      DEF NewListener, Talk, Active, Live, TypeInv, MainType, ListenerType
    <3>3. QED
      BY <1>5, <3>1, <3>2
  <2>5. CASE lisPc' = lisPc /\ \E l \in {"exited", "join"} : mainPc' = [mainPc EXCEPT ![p] = l]
    <3>1. Turns'
      BY <1>4, <1>8, <2>1, <2>2, <2>5 DEF NewListener, Turns, Active, Live, TypeInv, MainType
    <3>2. Talk(s, n)'
      BY <1>2, <1>8, <2>1, <2>2, <2>3, <2>5
      DEF NewListener, Talk, Active, Live, TypeInv, MainType
    <3>3. QED
      BY <1>5, <3>1, <3>2
  <2>6. QED
    BY <1>8, <2>4, <2>5 DEF NewListener, Fail, Leave
<1>9. CASE ListenerReady(p)
  <2>1. Turns'
    BY <1>4, <1>9 DEF ListenerReady, Turns, Active, Live, TypeInv, MainType
  <2>2. Talk(s, n)'
    BY <1>2, <1>9 DEF ListenerReady, Talk, Active, Live, TypeInv, MainType
  <2>3. QED
    BY <1>5, <2>1, <2>2
<1>10. CASE OpenQueue(p)
  <2>1. mainPc[p] = "open" /\ Active(p) /\ count[p] = 0
    BY <1>10 DEF OpenQueue, Active, TypeInv, MainType
  <2>2. n = 0 /\ \A k \in Queue : queue[k] = <<>>
    BY <1>2, <2>1 DEF Talk
  <2>3. CASE named = NoQueue
    <3>1. PICK l \in {"exited", "join"} : mainPc' = [mainPc EXCEPT ![p] = l]
                                          /\ (l = "join" \/ lisPc[p] = "none")
      BY <1>10, <2>3 DEF OpenQueue, Fail, Leave
    <3>2. UNCHANGED <<named, queue, lisPc, lisQ, messages, count, mainQ>>
      BY <1>10, <2>3 DEF OpenQueue
    <3>3. Turns'
      BY <1>4, <2>1, <2>3, <3>1, <3>2 DEF Turns, Active, Live, TypeInv, MainType
    <3>4. Talk(s, n)'
      BY <1>2, <2>1, <2>2, <3>1, <3>2 DEF Talk, Active, Live, TypeInv, MainType
    <3>5. QED
      BY <1>5, <3>3, <3>4
  <2>4. CASE named # NoQueue
    <3>1. /\ mainPc' = [mainPc EXCEPT ![p] = "send"]
          /\ mainQ' = [mainQ EXCEPT ![p] = named]
          /\ UNCHANGED <<named, queue, lisPc, lisQ, messages, count>>
      BY <1>10, <2>4 DEF OpenQueue
    <3>2. Turns'
      BY <1>4, <2>1, <2>4, <3>1 DEF Turns, Active, Live, TypeInv, MainType
    <3>3. queue[named] = <<>> /\ Len(queue[named]) = 0
      BY <2>2, <2>4, NamedQueue, EmptySeq DEF TypeInv, QueueType
    <3>4. Talk(s, n)'
      BY <1>2, <1>4, <2>1, <2>2, <3>1, <3>3 DEF Talk, Turns, Active, Live, TypeInv, MainType
    <3>5. QED
      BY <1>5, <3>2, <3>4
  <2>5. QED
    BY <2>3, <2>4
<1>11. CASE Exit(p)
  <2>1. Turns'
    BY <1>4, <1>11 DEF Exit, Turns, Active, Live, TypeInv, MainType
  <2>2. Talk(s, n)'
    BY <1>2, <1>11 DEF Exit, Talk, Active, Live, TypeInv, MainType
  <2>3. QED
    BY <1>5, <2>1, <2>2
<1>12. CASE RemoveQueue(p)
  <2>1. named = NoQueue /\ mainPc[p] = "ready" /\ named' = named
    BY <1>4, <1>12 DEF RemoveQueue, Turns
  <2>2. Turns'
    BY <1>4, <1>12, <2>1 DEF RemoveQueue, Turns, Active, Live, TypeInv, ListenerType
  <2>3. Talk(s, n)'
    BY <1>2, <1>12, <2>1 DEF RemoveQueue, Talk, Active, Live, TypeInv, ListenerType
  <2>4. QED
    BY <1>5, <2>2, <2>3
<1>13. CASE RequestLine(p)
  BY <1>2, <1>4, <1>5, <1>13 DEF RequestLine, Turns, Talk, Active, Live
<1>14. QED
  BY <1>6, <1>7, <1>8, <1>9, <1>10, <1>11, <1>12, <1>13

\* The sender goes on, or takes its turn.
LEMMA SerialSend ==
  ASSUME TypeInv, SerialInv, Serial, NEW p \in Process, Send(p)
  PROVE  SerialInv'
<1>1. PICK s \in Process : \E n \in 0 .. Len(Argv[s]) : Talk(s, n)
  BY DEF SerialInv
<1>2. PICK n \in 0 .. Len(Argv[s]) : Talk(s, n)
  BY <1>1
<1>3. n \in Nat /\ Len(Argv[s]) \in Nat \ {0} /\ Len(Argv[p]) \in Nat \ {0}
  BY ArgvLength
<1>4. Turns
  BY DEF SerialInv
<1>5. /\ mainPc[p] = "send" /\ Active(p)
      /\ mainQ[p] = named /\ named \in Queue
      /\ queue[named] = <<>> /\ Len(queue[named]) = 0
      /\ queue' = [queue EXCEPT ![named] = <<<<p, count[p] + 1>>>>]
      /\ count' = [count EXCEPT ![p] = count[p] + 1]
      /\ UNCHANGED <<named, mainQ, lisPc, lisQ, messages>>
  <2>1. mainPc[p] = "send" /\ Active(p) /\ mainQ[p] = named
    BY <1>4 DEF Send, Turns, Active
  <2>2. named \in Queue
    BY <2>1, NamedQueue DEF TypeInv, MainType, QueueType
  <2>3. queue[named] = <<>> /\ Len(queue[named]) = 0
    BY <2>1, EmptySeq DEF Send
  <2>4. QED
    BY <2>1, <2>2, <2>3 DEF Send, lisVars
<1>6. count[p] = n /\ (n > 0 => p = s) /\ n <= Len(Argv[p])
  BY <1>2, <1>3, <1>5 DEF Talk, TypeInv, MainType
<1>7. \/ n < Len(Argv[p]) /\ mainPc' = mainPc
      \/ /\ n = Len(Argv[p])
         /\ \E l \in {"exited", "join"} :
              mainPc' = [mainPc EXCEPT ![p] = l] /\ (l = "join" \/ lisPc[p] = "none")
  BY <1>3, <1>6 DEF Send, Leave, MainGoto
<1>8. /\ queue'[named] = <<<<p, n + 1>>>> /\ Len(queue'[named]) = 1 /\ queue'[named] # <<>>
      /\ \A k \in Queue : k # named => queue'[k] = <<>>
      /\ count'[p] = n + 1
  BY <1>2, <1>5, <1>6, OneMessage DEF Talk, TypeInv, QueueType, MainType
<1>9. \A q \in Process : Active(q) => q = p
  BY <1>4, <1>5 DEF Turns
<1>10. Turns'
  BY <1>4, <1>5, <1>7, <1>9 DEF Turns, Active, Live, TypeInv, MainType
<1>11. Talk(p, n)'
  <2>1. (\A q \in Process :
           /\ Len(messages[q]) = IF Live(q) THEN n ELSE 0
           /\ \A i \in 1 .. Len(messages[q]) : messages[q][i] = <<p, i>>)'
    BY <1>2, <1>3, <1>5, <1>6 DEF Talk, Live
  <2>2. \A q \in Process : lisPc[q] # "execute"
    BY <1>2, <1>5 DEF Talk
  <2>3. \A q \in Process : mainPc'[q] \notin {"pending", "ready", "open"}
    BY <1>7, <1>9, <1>5 DEF Active, TypeInv, MainType
  <2>4. \A q \in Process : mainPc'[q] = "send" => q = p
    BY <1>7, <1>9, <1>5 DEF Active, TypeInv, MainType
  <2>5. Active(p)' \/ n = Len(Argv[p])
    BY <1>5, <1>7 DEF Active
  <2>6. n > 0 => \E q \in Process : lisPc[q] \in {"receive", "execute"}
    BY <1>2 DEF Talk
  <2>7. QED
    BY <1>3, <1>5, <1>8, <2>1, <2>2, <2>3, <2>4, <2>5, <2>6 DEF Talk
<1>12. n \in 0 .. Len(Argv[p])
  BY <1>3, <1>6
<1>13. QED
  BY <1>10, <1>11, <1>12 DEF SerialInv

\* A listener that opens its queue leaves the one command on its way.
LEMMA SerialOpen ==
  ASSUME TypeInv, SerialInv, Serial, NEW p \in Process, ListenerOpen(p)
  PROVE  SerialInv'
<1>1. PICK s \in Process : \E n \in 0 .. Len(Argv[s]) : Talk(s, n)
  BY DEF SerialInv
<1>2. PICK n \in 0 .. Len(Argv[s]) : Talk(s, n)
  BY <1>1
<1>3. Turns /\ (Turns' /\ Talk(s, n)' => SerialInv')
  BY DEF SerialInv
<1>4. /\ lisPc[p] = "open" /\ Live(p)
      /\ lisQ' = [lisQ EXCEPT ![p] = named']
      /\ lisPc' = [lisPc EXCEPT ![p] = "receive"]
      /\ UNCHANGED <<queue, mainPc, mainQ, count, messages>>
  BY DEF ListenerOpen, Live, ListenerGoto, mainVars
<1>5. \A q \in Process : Live(q) => q = p
  BY <1>3, <1>4 DEF Turns
<1>6. CASE named' = named /\ named # NoQueue
  <2>1. Turns'
    BY <1>3, <1>4, <1>5, <1>6 DEF Turns, Active, Live, TypeInv, ListenerType
  <2>2. Talk(s, n)'
    BY <1>2, <1>4, <1>5, <1>6 DEF Talk, Active, Live, TypeInv, ListenerType
  <2>3. QED
    BY <1>3, <2>1, <2>2
<1>7. CASE named = NoQueue
  <2>1. mainPc[p] = "ready" /\ Active(p)
    BY <1>3, <1>4, <1>7 DEF Turns, Active
  <2>2. n = 0 /\ \A k \in Queue : queue[k] = <<>>
    BY <1>2, <2>1 DEF Talk
  <2>3. \A q \in Process : mainPc[q] # "send"
    BY <1>3, <2>1 DEF Turns, Active
  <2>4. Turns'
    BY <1>3, <1>4, <1>5, <2>1, <2>3 DEF Turns, Active, Live, TypeInv, ListenerType
  <2>5. Talk(s, n)'
    BY <1>2, <1>4, <1>5, <2>1, <2>2, <2>3 DEF Talk, Active, Live, TypeInv, ListenerType
  <2>6. QED
    BY <1>3, <2>4, <2>5
<1>8. QED
  BY <1>6, <1>7 DEF ListenerOpen

\* A listener receives the words of the one command in their order.
LEMMA SerialReceive ==
  ASSUME TypeInv, SerialInv, Serial, NEW p \in Process, Receive(p)
  PROVE  SerialInv'
<1>1. PICK s \in Process : \E n \in 0 .. Len(Argv[s]) : Talk(s, n)
  BY DEF SerialInv
<1>2. PICK n \in 0 .. Len(Argv[s]) : Talk(s, n)
  BY <1>1
<1>3. n \in Nat /\ Len(Argv[s]) \in Nat \ {0}
  BY ArgvLength
<1>4. Turns
  BY DEF SerialInv
<1>5. /\ lisPc[p] = "receive" /\ Live(p)
      /\ lisQ[p] = named /\ named \in Queue
      /\ queue[named] # <<>>
      /\ \A q \in Process : Live(q) => q = p
  BY <1>4, NamedQueue DEF Receive, Turns, Live, TypeInv, ListenerType
<1>6. queue[named] = <<<<s, n + 1>>>> /\ Len(queue[named]) = 1
  BY <1>2, <1>5, OneMessage DEF Talk
<1>7. Head(queue[named]) = <<s, n + 1>> /\ Tail(queue[named]) = <<>>
  BY <1>6, OneMessage
<1>8. /\ UNCHANGED <<named, mainPc, mainQ, count, lisQ>>
      /\ queue'[named] = <<>> /\ Len(queue'[named]) = 0
      /\ \A k \in Queue : queue'[k] = <<>>
  BY <1>2, <1>5, <1>7, EmptySeq DEF Receive, Talk, TypeInv, QueueType, mainVars
<1>9. \A q \in Process : Active(q) => q = s /\ mainPc[q] = "send" /\ count[q] = n + 1
  BY <1>2, <1>5, <1>6 DEF Talk, Active
<1>10. CASE n = Len(Argv[s])
  <2>1. lisPc' = [lisPc EXCEPT ![p] = "execute"] /\ messages' = messages
    BY <1>5, <1>7, <1>10 DEF Receive, IsEnd, ListenerGoto
  <2>2. \A q \in Process : ~Active(q)
    BY <1>3, <1>9, <1>10 DEF TypeInv, MainType
  <2>3. Turns'
    BY <1>4, <1>5, <1>8, <2>1 DEF Turns, Active, Live, TypeInv, ListenerType
  <2>4. Talk(s, n)'
    BY <1>2, <1>3, <1>5, <1>8, <1>10, <2>1, <2>2
    DEF Talk, Active, Live, TypeInv, ListenerType
  <2>5. QED
    BY <2>3, <2>4 DEF SerialInv
<1>11. CASE n < Len(Argv[s])
  <2>1. ~IsEnd(<<s, n + 1>>)
    BY <1>3, <1>11 DEF IsEnd
  <2>2. <<s, n + 1>> \in Word
    BY <1>3, <1>11, <2>1, NextMessage DEF Word
  <2>3. messages' = [messages EXCEPT ![p] = Append(@, <<s, n + 1>>)] /\ lisPc' = lisPc
    BY <1>5, <1>7, <2>1 DEF Receive
  <2>4. /\ messages[p] \in Seq(Word) /\ Len(messages[p]) = n
        /\ \A i \in 1 .. n : messages[p][i] = <<s, i>>
    BY <1>2, <1>5 DEF Talk, TypeInv, ListenerType
  <2>5. /\ Len(messages'[p]) = n + 1
        /\ \A i \in 1 .. n : messages'[p][i] = <<s, i>>
        /\ messages'[p][n + 1] = <<s, n + 1>>
    BY <2>2, <2>3, <2>4, AppendProperties DEF TypeInv, ListenerType
  <2>6. \A q \in Process : q # p => messages'[q] = messages[q]
    BY <2>3 DEF TypeInv, ListenerType
  <2>7. Turns'
    BY <1>4, <1>8, <2>3 DEF Turns, Active, Live
  <2>8. (\A q \in Process :
           /\ Len(messages[q]) = IF Live(q) THEN n + 1 ELSE 0
           /\ \A i \in 1 .. Len(messages[q]) : messages[q][i] = <<s, i>>)'
    <3>1. \A i \in 1 .. n + 1 : i \in 1 .. n \/ i = n + 1
      BY <1>3
    <3>2. \A i \in 1 .. Len(messages'[p]) : messages'[p][i] = <<s, i>>
      BY <2>5, <3>1
    <3>3. \A q \in Process : q # p => ~Live(q) /\ Len(messages[q]) = 0
      BY <1>2, <1>5 DEF Talk
    <3>4. QED
      BY <1>5, <2>3, <2>5, <2>6, <3>2, <3>3 DEF Live
  <2>9. \A q \in Process : lisPc[q] # "execute"
    BY <1>5 DEF Live
  <2>10. \E q \in Process : Active(q)
    BY <1>2, <1>5, <1>11, <2>9 DEF Talk
  <2>11. Talk(s, n + 1)'
    BY <1>3, <1>5, <1>8, <1>9, <2>3, <2>8, <2>9, <2>10 DEF Talk, Active
  <2>12. n + 1 \in 0 .. Len(Argv[s])
    BY <1>3, <1>11
  <2>13. QED
    BY <2>7, <2>11, <2>12 DEF SerialInv
<1>12. QED
  BY <1>3, <1>10, <1>11

\* The command that is executed is the one the sender sent.
LEMMA SerialExecute ==
  ASSUME TypeInv, SerialInv, Serial, NEW p \in Process, Stop(p) \/ Parse(p)
  PROVE  SerialInv' /\ \E s \in Process : messages[p] = Command(s)
<1>1. PICK s \in Process : \E n \in 0 .. Len(Argv[s]) : Talk(s, n)
  BY DEF SerialInv
<1>2. PICK n \in 0 .. Len(Argv[s]) : Talk(s, n)
  BY <1>1
<1>3. Len(Argv[s]) \in Nat \ {0}
  BY ArgvLength
<1>4. Turns
  BY DEF SerialInv
<1>5. /\ lisPc[p] = "execute" /\ Live(p)
      /\ lisQ[p] = named /\ named \in Queue
      /\ \A q \in Process : Live(q) => q = p
  BY <1>4, NamedQueue DEF Stop, Parse, Turns, Live, TypeInv, ListenerType
<1>6. /\ n = Len(Argv[s])
      /\ \A k \in Queue : queue[k] = <<>>
      /\ \A q \in Process : ~Active(q)
  BY <1>2, <1>5 DEF Talk
<1>7. messages[p] = Command(s)
  <2>1. messages[p] \in Seq(Word) /\ Len(messages[p]) = n
    BY <1>2, <1>5 DEF Talk, TypeInv, ListenerType
  <2>2. \A i \in 1 .. n : messages[p][i] = <<s, i>>
    BY <1>2, <2>1 DEF Talk
  <2>3. messages[p] = [i \in 1 .. n |-> messages[p][i]]
    BY <2>1, LenProperties
  <2>4. QED
    BY <1>6, <2>2, <2>3 DEF Command
<1>8. /\ messages'[p] = <<>>
      /\ \A q \in Process : q # p => messages'[q] = messages[q]
      /\ UNCHANGED <<queue, mainPc, mainQ, count, lisQ>>
      /\ \E l \in {"open", "ended"} : lisPc' = [lisPc EXCEPT ![p] = l]
                                      /\ (l = "open" => named' = named)
      /\ named' \in {named, NoQueue}
  BY DEF Stop, Parse, ListenerGoto, queueVars, mainVars, TypeInv, ListenerType
<1>9. PICK l \in {"open", "ended"} : lisPc' = [lisPc EXCEPT ![p] = l]
                                     /\ (l = "open" => named' = named)
  BY <1>8
<1>10. named # NoQueue
  BY <1>5 DEF Queue, NoQueue
<1>11. Turns'
  BY <1>4, <1>5, <1>6, <1>8, <1>9, <1>10 DEF Turns, Active, Live, TypeInv, ListenerType
<1>12. Talk(s, 0)'
  <2>1. \A q \in Process : messages'[q] = <<>>
    BY <1>2, <1>5, <1>8, EmptySeq DEF Talk, TypeInv, ListenerType
  <2>2. \A q \in Process : lisPc'[q] # "execute"
    BY <1>5, <1>9 DEF Live, TypeInv, ListenerType
  <2>3. \A q \in Process : Active(q)' <=> Active(q)
    BY <1>8 DEF Active
  <2>4. QED
    BY <1>6, <1>8, <2>1, <2>2, <2>3, EmptySeq DEF Talk, Active
<1>13. 0 \in 0 .. Len(Argv[s])
  BY <1>3
<1>14. QED
  BY <1>7, <1>11, <1>12, <1>13 DEF SerialInv

\* Every step keeps the commands apart, and whole once they are executed.
LEMMA SerialStep ==
  ASSUME TypeInv, SerialInv, Serial, [Next]_vars
  PROVE  SerialInv' /\ (CommandWhole => CommandWhole')
<1> USE DEF queueVars, mainVars, lisVars, gpioVars
<1>1. ASSUME NEW p \in Process,
             Begin(p) \/ FoundListener(p) \/ NewListener(p) \/ ListenerReady(p) \/ OpenQueue(p)
               \/ Exit(p) \/ RemoveQueue(p) \/ RequestLine(p)
      PROVE  SerialInv' /\ executed' = executed
  BY <1>1, SerialQuiet
  DEF Begin, FoundListener, NewListener, ListenerReady, OpenQueue, Exit, RemoveQueue, RequestLine
<1>2. ASSUME NEW p \in Process, Send(p) PROVE SerialInv' /\ executed' = executed
  BY <1>2, SerialSend DEF Send
<1>3. ASSUME NEW p \in Process, ListenerOpen(p) PROVE SerialInv' /\ executed' = executed
  BY <1>3, SerialOpen DEF ListenerOpen
<1>4. ASSUME NEW p \in Process, Receive(p) PROVE SerialInv' /\ executed' = executed
  BY <1>4, SerialReceive DEF Receive
<1>5. ASSUME NEW p \in Process, Stop(p) \/ Parse(p)
      PROVE  SerialInv' /\ (CommandWhole => CommandWhole')
  <2>1. SerialInv' /\ \E s \in Process : messages[p] = Command(s)
    BY <1>5, SerialExecute
  <2>2. executed' = executed \cup {messages[p]}
    BY <1>5 DEF Stop, Parse
  <2>3. QED
    BY <2>1, <2>2 DEF CommandWhole
<1>6. ASSUME NEW p \in Process PROVE ~SendThrows(p) /\ ~Crash(p)
  <2>1. ~TooLong(p) \/ mainPc[p] # "send"
    <3>1. count[p] \in Nat /\ Len(Argv[p]) \in Nat
      BY ArgvLength DEF TypeInv, MainType
    <3>2. count[p] < Len(Argv[p]) => count[p] + 1 \in 1 .. Len(Argv[p])
      BY <3>1
    <3>3. QED
      BY <3>2 DEF TooLong, Serial
  <2>2. ~(crashes < MaxCrash)
    BY DEF TypeInv, Serial
  <2>3. QED
    BY <2>1, <2>2 DEF SendThrows, Crash
<1>7. CASE UNCHANGED vars
  <2>1. UNCHANGED <<named, queue, mainPc, mainQ, count, lisPc, lisQ, messages, executed>>
    BY <1>7 DEF vars
  <2>2. Turns'
    BY <2>1 DEF SerialInv, Turns, Active, Live
  <2>3. \A s \in Process : \A n \in Nat : Talk(s, n) => Talk(s, n)'
    BY <2>1 DEF Talk, Active, Live
  <2>4. \A s \in Process : \A n \in 0 .. Len(Argv[s]) : n \in Nat
    BY ArgvLength
  <2>5. SerialInv'
    BY <2>2, <2>3, <2>4 DEF SerialInv
  <2>6. QED
    BY <2>1, <2>5 DEF CommandWhole
<1>8. QED
  BY <1>1, <1>2, <1>3, <1>4, <1>5, <1>6, <1>7 DEF Next, MainStep, ListenerStep, CommandWhole

\* Where one command is given at a time, each is executed whole.
LEMMA SerialHolds == ASSUME Serial PROVE Spec => [](TypeInv /\ SerialInv /\ CommandWhole)
<1>1. Init => TypeInv /\ SerialInv /\ CommandWhole
  <2>1. Init => CommandWhole
    BY DEF Init, CommandWhole
  <2>2. QED
    BY <2>1, TypeInit, SerialInit
<1>2. TypeInv /\ SerialInv /\ CommandWhole /\ [Next]_vars
        => (TypeInv /\ SerialInv /\ CommandWhole)'
  BY TypeStep, SerialStep
<1>3. QED
  BY <1>1, <1>2, PTL DEF Spec

\* Processes that take turns, with words that fit into a message and without a
\* process being killed, have exactly their commands executed: threadListener()
\* neither mixes two command lines nor cuts one, daemons stopped and started in
\* between and threads that cannot be created included.
THEOREM CommandWholeHolds == ASSUME Serial PROVE Spec => []CommandWhole
<1>1. QED
  BY SerialHolds, PTL

\* A queue that has the name has a listener.
ServedInv == named # NoQueue => \E p \in Process : Live(p) /\ lisPc[p] # "remove"

\* No step leaves a named queue without a listener.
LEMMA ServedStep ==
  ASSUME TypeInv, SerialInv, ServedInv, "thread" \notin Faults, MaxCrash = 0, [Next]_vars
  PROVE  ServedInv'
<1> USE DEF MainGoto, ListenerGoto, queueVars, mainVars, lisVars, gpioVars
<1> DEFINE Same == UNCHANGED <<named, lisPc>>
<1>1. Same => ServedInv'
  BY DEF ServedInv, Live
<1>2. ASSUME NEW p \in Process,
             Begin(p) \/ FoundListener(p) \/ ListenerReady(p) \/ OpenQueue(p) \/ Send(p)
               \/ SendThrows(p) \/ Exit(p) \/ RequestLine(p)
      PROVE  Same
  BY <1>2
  DEF Begin, FoundListener, ListenerReady, OpenQueue, Send, SendThrows, Exit, RequestLine
<1>3. ASSUME NEW p \in Process, NewListener(p) \/ RemoveQueue(p) \/ Stop(p)
      PROVE  named' = NoQueue
  BY <1>3 DEF NewListener, RemoveQueue, Stop
<1>4. ASSUME NEW p \in Process, ListenerOpen(p) \/ Receive(p) \/ Parse(p) PROVE ServedInv'
  <2>1. \E l \in {"receive", "execute", "open"} : lisPc'[p] = l
    BY <1>4 DEF ListenerOpen, Receive, Parse, TypeInv, ListenerType
  <2>2. QED
    BY <2>1 DEF ServedInv, Live
<1>5. ASSUME NEW p \in Process PROVE ~Crash(p)
  BY DEF Crash, TypeInv
<1>6. CASE UNCHANGED vars
  BY <1>1, <1>6 DEF vars
<1>7. QED
  BY <1>1, <1>2, <1>3, <1>4, <1>5, <1>6 DEF Next, MainStep, ListenerStep, ServedInv

\* Where processes take turns and threads can be created, the name of the queue
\* never outlives the listener that serves it: a client that finds the queue is
\* heard (the stop command and the name it removes).
THEOREM QueueServedHolds ==
  ASSUME Serial, "thread" \notin Faults PROVE Spec => []QueueServed
<1>1. Init => ServedInv
  BY DEF Init, ServedInv
<1>2. TypeInv /\ SerialInv /\ ServedInv /\ [Next]_vars => ServedInv'
  BY ServedStep DEF Serial
<1>3. SerialInv /\ ServedInv => QueueServed
  BY DEF SerialInv, Turns, ServedInv, QueueServed, Live
<1>4. QED
  BY <1>1, <1>2, <1>3, SerialHolds, PTL DEF Spec

--------------------------------------------------------------------------------
(* What a command line asks for.                                           *)

\* The words of a list of messages are as many, in the same order.
LEMMA WordsSequence ==
  ASSUME NEW ms \in Seq(Word)
  PROVE  /\ Words(ms) \in Seq(STRING)
         /\ Len(Words(ms)) = Len(ms)
         /\ \A i \in 1 .. Len(ms) :
              \E q \in Process : \E j \in 1 .. Len(Argv[q]) :
                ms[i] = <<q, j>> /\ Words(ms)[i] = Argv[q][j]
<1>1. Len(ms) \in Nat /\ DOMAIN ms = 1 .. Len(ms)
  BY LenProperties
<1>2. ASSUME NEW i \in 1 .. Len(ms)
      PROVE  \E q \in Process : \E j \in 1 .. Len(Argv[q]) :
               ms[i] = <<q, j>> /\ Words(ms)[i] = Argv[q][j] /\ Argv[q][j] \in STRING
  <2>1. ms[i] \in Word
    BY ElementOfSeq
  <2>2. ms[i] \in Message /\ ~IsEnd(ms[i])
    BY <2>1 DEF Word
  <2>3. PICK q \in Process, j \in Nat : ms[i] = <<q, j>> /\ j \in 1 .. Len(Argv[q]) + 1
    BY <2>2 DEF Message
  <2>4. j \in 1 .. Len(Argv[q])
    BY <2>2, <2>3, ArgvLength DEF IsEnd
  <2>5. Words(ms)[i] = Argv[q][j]
    BY <1>1, <2>3 DEF Words
  <2>6. Argv[q][j] \in STRING
    <3>1. Argv[q] \in Seq(STRING)
      BY DaemonAssumption
    <3>2. QED
      BY <2>4, <3>1, ElementOfSeq
  <2>7. QED
    BY <2>3, <2>4, <2>5, <2>6
<1>3. Words(ms) = [i \in 1 .. Len(ms) |-> Words(ms)[i]]
  BY <1>1 DEF Words
<1>4. \A i \in 1 .. Len(ms) : Words(ms)[i] \in STRING
  BY <1>2
<1>5. Words(ms) \in Seq(STRING) /\ Len(Words(ms)) = Len(ms)
  BY <1>1, <1>3, <1>4, IsASeq, LenProperties
<1>6. QED
  BY <1>2, <1>5

\* The words of a whole command are the command line.
LEMMA WordsOfCommand == \A p \in Process : Words(Command(p)) = Argv[p]
<1> SUFFICES ASSUME NEW p \in Process PROVE Words(Command(p)) = Argv[p]
  OBVIOUS
<1>1. DOMAIN Command(p) = 1 .. Len(Argv[p])
  BY DEF Command
<1>2. Words(Command(p)) = [i \in 1 .. Len(Argv[p]) |-> Argv[p][i]]
  BY <1>1 DEF Words, Command
<1>3. Argv[p] \in Seq(STRING)
  BY DaemonAssumption
<1>4. QED
  BY <1>2, <1>3, LenProperties

\* The places before the n-th are places of the list.
LEMMA NotTheFirst == \A n \in Nat : \A k \in 1 .. n - 1 : k # 0 /\ k \in 1 .. n
OBVIOUS

\* A setting that is not empty follows its option.
LEMMA SettingAsked ==
  ASSUME NEW argv \in Seq(STRING), NEW option, GetCliSetting(argv, option) # ""
  PROVE  \E i \in 1 .. Len(argv) - 1 :
           argv[i] = option /\ argv[i + 1] = GetCliSetting(argv, option)
<1> DEFINE I == {i \in 1 .. Len(argv) : argv[i] = option}
<1>1. Len(argv) \in Nat
  BY LenProperties
<1>2. GetCliSetting(argv, option)
        = IF First(I) \in 1 .. Len(argv) - 1 THEN argv[First(I) + 1] ELSE ""
  BY DEF GetCliSetting, SelectInSeq, First
<1>3. First(I) \in 1 .. Len(argv) - 1
  BY <1>2
<1>4. I \in SUBSET (1 .. Len(argv))
  OBVIOUS
<1> HIDE DEF I
<1>5. (I = {} => First(I) = 0) /\ (I # {} => First(I) \in I)
  BY <1>1, <1>4, FirstIndex
<1>6. First(I) # 0
  BY <1>1, <1>3, NotTheFirst, Zenon
<1>7. First(I) \in I
  BY <1>5, <1>6, Zenon
<1> USE DEF I
<1>8. QED
  BY <1>2, <1>3, <1>7

OffIn(argv, flag) ==
  \E i \in 1 .. Len(argv) - 1 : argv[i] \in {"--all", Option(flag)} /\ argv[i + 1] = "off"

\* parseConfig() clears no flag unless it is told to.
LEMMA ParseClears ==
  ASSUME NEW argv \in Seq(STRING), NEW flags, NEW f \in AllFlags,
         f \in flags, f \notin ParseConfig(argv, flags)
  PROVE  OffIn(argv, f)
<1>1. \/ GetCliSetting(argv, "--all") = "off"
      \/ GetCliSetting(argv, Option(f)) = "off"
  BY DEF ParseConfig, SetFlagAll
<1>2. ASSUME NEW option \in {"--all", Option(f)}, GetCliSetting(argv, option) = "off"
      PROVE  OffIn(argv, f)
  <2>1. PICK i \in 1 .. Len(argv) - 1 : argv[i] = option /\ argv[i + 1] = "off"
    BY <1>2, SettingAsked
  <2>2. QED
    BY <2>1 DEF OffIn
<1>3. QED
  BY <1>1, <1>2

\* Attentions are turned off only at the word of a command.
LEMMA OffStep ==
  ASSUME TypeInv, SerialInv, Serial, OffAsked, [Next]_vars
  PROVE  OffAsked'
<1> USE DEF MainGoto, ListenerGoto, queueVars, mainVars, lisVars, gpioVars
<1>1. config' = config => OffAsked'
  BY DEF OffAsked
<1>2. ASSUME NEW p \in Process, Parse(p) PROVE OffAsked'
  <2>1. PICK s \in Process : messages[p] = Command(s)
    BY <1>2, SerialExecute
  <2>2. config' = [config EXCEPT ![p] = ParseConfig(Argv[s], config[p])]
    BY <1>2, <2>1, WordsOfCommand DEF Parse
  <2>3. ASSUME NEW f \in AllFlags \ config'[p]
        PROVE  \E q \in Process : OffIn(Argv[q], f)
    <3>1. CASE f \in config[p]
      <4>1. f \notin ParseConfig(Argv[s], config[p])
        BY <2>2, <2>3 DEF TypeInv, ListenerType
      <4>2. Argv[s] \in Seq(STRING)
        BY DaemonAssumption
      <4>3. QED
        BY <3>1, <4>1, <4>2, ParseClears
    <3>2. CASE f \notin config[p]
      BY <3>2 DEF OffAsked, OffIn
    <3>3. QED
      BY <3>1, <3>2
  <2>4. ASSUME NEW q \in Process, q # p PROVE config'[q] = config[q]
    BY <2>2, <2>4 DEF TypeInv, ListenerType
  <2>5. QED
    BY <2>3, <2>4 DEF OffAsked, OffIn
<1>3. ASSUME NEW p \in Process,
             \/ Begin(p) \/ FoundListener(p) \/ NewListener(p) \/ ListenerReady(p)
             \/ OpenQueue(p) \/ Send(p) \/ SendThrows(p) \/ Exit(p) \/ RemoveQueue(p)
             \/ ListenerOpen(p) \/ Receive(p) \/ Stop(p) \/ RequestLine(p) \/ Crash(p)
      PROVE  config' = config
  BY <1>3
  DEF Begin, FoundListener, NewListener, ListenerReady, OpenQueue, Send, SendThrows, Exit,
      RemoveQueue, ListenerOpen, Receive, Stop, RequestLine, Crash
<1>4. CASE UNCHANGED vars
  BY <1>1, <1>4 DEF vars
<1>5. QED
  BY <1>1, <1>2, <1>3, <1>4 DEF Next, MainStep, ListenerStep

\* Where processes take turns, no flag of the configuration is off unless a
\* command line turned it off with "--all" or with the option of that flag:
\* parseConfig() is given whole commands, and mistakes no other word for one.
THEOREM OffAskedHolds == ASSUME Serial PROVE Spec => []OffAsked
<1>1. Init => OffAsked
  BY DEF Init, OffAsked, DefaultConfig, SetFlagAll
<1>2. TypeInv /\ SerialInv /\ OffAsked /\ [Next]_vars => OffAsked'
  BY OffStep
<1>3. QED
  BY <1>1, <1>2, SerialHolds, PTL DEF Spec

--------------------------------------------------------------------------------
(* Clients of one daemon. *)

Clients ==
  /\ Overlap \in {"none", "clients"}
  /\ MaxCrash = 0
  /\ "thread" \notin Faults
  /\ \A p \in Process : \A i \in 1 .. Len(Argv[p]) : Argv[p][i] \notin LongWords \cup {"--stop"}

\* There is one listener at most, it serves the queue that has the name, and
\* the name appears before any client is past looking for it.
OneDaemon ==
  /\ \A p, q \in Process : Live(p) /\ Live(q) => p = q
  /\ \A p \in Process : Live(p) => mainPc[p] \in {"ready", "open", "send", "join"}
  /\ \A p \in Process : lisPc[p] = "remove" => named = NoQueue
  /\ \A p \in Process : lisPc[p] # "ended"
  /\ named = NoQueue => \A p, q \in Process : p # q => "new" \in {mainPc[p], mainPc[q]}
  /\ \A p \in Process : mainPc[p] \in {"open", "send", "join", "exited"} => named # NoQueue
  /\ \A p \in Process : mainPc[p] = "pending" /\ named = NoQueue => \A q \in Process : ~Live(q)
  /\ \A p \in Process : lisPc[p] \in {"receive", "execute"} => lisQ[p] = named
  /\ \A p \in Process : mainPc[p] = "send" => mainQ[p] = named

\* A word that is on its way or has been collected belongs to a process that is
\* still sending, unless the end of its command has come as well.
Pending ==
  /\ \A k \in Queue : queue[k] # <<>> => k = named
  /\ \A k \in Queue : \A m \in Word : queue[k] = <<m>> => mainPc[m[1]] = "send"
  /\ \A p \in Process : lisPc[p] \in {"remove", "open"} => messages[p] = <<>>
  /\ \A p \in Process : lisPc[p] = "receive" =>
       \A i \in 1 .. Len(messages[p]) :
         LET q == messages[p][i][1]
         IN  mainPc[q] = "send" \/ queue[named] = <<<<q, Len(Argv[q]) + 1>>>>

ClientInv == OneDaemon /\ Pending

\* Initially there is no daemon, and nothing is pending.
LEMMA ClientInit == Init => ClientInv
BY EmptySeq DEF Init, ClientInv, OneDaemon, Pending, Live, NoQueue

\* Nobody asks the daemon to stop, and nothing it is sent is too long.
LEMMA ClientNoStop ==
  ASSUME TypeInv, Clients, NEW p \in Process
  PROVE  ~Stop(p) /\ ~SendThrows(p) /\ ~Crash(p)
<1>1. ~GetCliOption(Words(messages[p]), "--stop")
  <2>1. messages[p] \in Seq(Word)
    BY DEF TypeInv, ListenerType
  <2>2. \A i \in 1 .. Len(Words(messages[p])) : Words(messages[p])[i] # "--stop"
    BY <2>1, WordsSequence DEF Clients
  <2>3. QED
    BY <2>2 DEF GetCliOption, Contains
<1>2. mainPc[p] = "send" => ~TooLong(p)
  <2>1. count[p] \in Nat /\ Len(Argv[p]) \in Nat
    BY ArgvLength DEF TypeInv, MainType
  <2>2. count[p] < Len(Argv[p]) => count[p] + 1 \in 1 .. Len(Argv[p])
    BY <2>1
  <2>3. QED
    BY <2>2 DEF TooLong, Clients
<1>3. ~(crashes < MaxCrash)
  BY DEF TypeInv, Clients
<1>4. QED
  BY <1>1, <1>2, <1>3 DEF Stop, SendThrows, Crash

\* No step makes a second daemon while one is alive.
LEMMA ClientDaemon ==
  ASSUME TypeInv, OneDaemon, Clients, [Next]_vars
  PROVE  OneDaemon'
<1> USE DEF MainGoto, ListenerGoto, queueVars, mainVars, lisVars, gpioVars, OneDaemon, Live
<1>1. ASSUME NEW p \in Process, Begin(p) PROVE OneDaemon'
  <2>1. named = NoQueue => \A q \in Process : q # p => mainPc[q] = "new"
    BY <1>1 DEF Begin, MayBegin, Quiet, Settled, Clients, TypeInv, MainType
  <2>2. mainPc' = [mainPc EXCEPT ![p] = "pending"] /\ UNCHANGED <<named, lisPc, lisQ, mainQ>>
    BY <1>1 DEF Begin
  <2>3. mainPc[p] = "new"
    BY <1>1 DEF Begin
  <2>4. QED
    BY <2>1, <2>2, <2>3 DEF TypeInv, MainType
<1>2. ASSUME NEW p \in Process, FoundListener(p) PROVE OneDaemon'
  BY <1>2 DEF FoundListener, TypeInv, MainType
<1>3. ASSUME NEW p \in Process, NewListener(p) PROVE OneDaemon'
  <2>1. /\ mainPc[p] = "pending" /\ named = NoQueue
        /\ mainPc' = [mainPc EXCEPT ![p] = "ready"]
        /\ lisPc' = [lisPc EXCEPT ![p] = "remove"]
        /\ UNCHANGED <<named, lisQ, mainQ>>
    BY <1>3 DEF NewListener, Clients
  <2>2. \A q \in Process : ~Live(q) /\ (q # p => mainPc[q] = "new")
    BY <2>1
  <2>3. QED
    BY <2>1, <2>2 DEF TypeInv, MainType, ListenerType
<1>4. ASSUME NEW p \in Process, ListenerReady(p) PROVE OneDaemon'
  BY <1>4 DEF ListenerReady, TypeInv, MainType
<1>5. ASSUME NEW p \in Process, OpenQueue(p) PROVE OneDaemon'
  BY <1>5 DEF OpenQueue, TypeInv, MainType
<1>6. ASSUME NEW p \in Process, Send(p) PROVE OneDaemon'
  BY <1>6 DEF Send, Leave, TypeInv, MainType
<1>7. ASSUME NEW p \in Process, Exit(p) PROVE OneDaemon'
  BY <1>7 DEF Exit
<1>8. ASSUME NEW p \in Process, RemoveQueue(p) PROVE OneDaemon'
  BY <1>8 DEF RemoveQueue, TypeInv, ListenerType
<1>9. ASSUME NEW p \in Process, ListenerOpen(p) PROVE OneDaemon'
  <2>1. named' # NoQueue
    BY <1>9 DEF ListenerOpen, TypeInv, QueueType, NoQueue
  <2>2. QED
    BY <1>9, <2>1 DEF ListenerOpen, TypeInv, ListenerType
<1>10. ASSUME NEW p \in Process, Receive(p) PROVE OneDaemon'
  <2>1. UNCHANGED <<named, mainPc, mainQ, lisQ>> /\ lisPc[p] = "receive"
    BY <1>10 DEF Receive
  <2>2. lisPc' \in {lisPc, [lisPc EXCEPT ![p] = "execute"]}
    BY <1>10 DEF Receive
  <2>3. QED
    BY <2>1, <2>2 DEF TypeInv, ListenerType
<1>11. ASSUME NEW p \in Process, Parse(p) PROVE OneDaemon'
  <2>1. UNCHANGED <<named, mainPc, mainQ, lisQ>> /\ lisPc[p] = "execute"
    BY <1>11 DEF Parse
  <2>2. lisPc' = [lisPc EXCEPT ![p] = "open"]
    BY <1>11 DEF Parse, Clients
  <2>3. QED
    BY <2>1, <2>2 DEF TypeInv, ListenerType
<1>12. ASSUME NEW p \in Process, RequestLine(p) PROVE OneDaemon'
  BY <1>12 DEF RequestLine
<1>13. CASE UNCHANGED vars
  BY <1>13 DEF vars
<1>14. QED
  BY <1>1, <1>2, <1>3, <1>4, <1>5, <1>6, <1>7, <1>8, <1>9, <1>10, <1>11, <1>12, <1>13,
     ClientNoStop
  DEF Next, MainStep, ListenerStep

\* A word was sent by a process.
LEMMA WordSender == \A m \in Word : m[1] \in Process
BY DEF Word, Message

\* What a listener has collected are words that processes sent.
LEMMA CollectedSender ==
  ASSUME TypeInv, NEW p \in Process, NEW i \in 1 .. Len(messages[p])
  PROVE  messages[p][i] \in Word /\ messages[p][i][1] \in Process
<1>1. messages[p] \in Seq(Word)
  BY DEF TypeInv, ListenerType
<1>2. messages[p][i] \in Word
  BY <1>1, ElementOfSeq
<1>3. QED
  BY <1>2, WordSender

\* Steps that leave the words where they are.
LEMMA PendingSame ==
  ASSUME TypeInv, Pending, UNCHANGED <<named, queue, messages>>,
         \A p \in Process : mainPc[p] = "send" => mainPc'[p] = "send",
         \A p \in Process : lisPc'[p] = lisPc[p] \/ messages[p] = <<>>
  PROVE  Pending'
<1>1. \A k \in Queue : queue'[k] # <<>> => k = named'
  BY DEF Pending
<1>2. \A k \in Queue : \A m \in Word : queue'[k] = <<m>> => mainPc'[m[1]] = "send"
  BY WordSender DEF Pending
<1>3. \A p \in Process : lisPc'[p] \in {"remove", "open"} => messages'[p] = <<>>
  BY DEF Pending
<1>4. ASSUME NEW p \in Process, lisPc'[p] = "receive", NEW i \in 1 .. Len(messages'[p])
      PROVE  LET q == messages'[p][i][1]
             IN  mainPc'[q] = "send" \/ queue'[named'] = <<<<q, Len(Argv[q]) + 1>>>>
  <2>1. i \in 1 .. Len(messages[p])
    BY <1>4
  <2>2. messages[p] # <<>>
    BY <2>1, EmptySeq
  <2>3. lisPc[p] = "receive"
    BY <1>4, <2>2
  <2>4. messages[p][i][1] \in Process
    BY <2>1, CollectedSender
  <2>5. QED
    BY <2>1, <2>3, <2>4 DEF Pending
<1>5. QED
  BY <1>1, <1>2, <1>3, <1>4 DEF Pending, Word, Message, IsEnd

\* What a client sends is pending.
LEMMA PendingSend ==
  ASSUME TypeInv, OneDaemon, Pending, NEW p \in Process, Send(p)
  PROVE  Pending'
<1> DEFINE n == count[p]
<1>1. n \in Nat /\ n <= Len(Argv[p]) /\ Len(Argv[p]) \in Nat
  BY ArgvLength DEF Send, TypeInv, MainType
<1>2. /\ mainPc[p] = "send" /\ mainQ[p] = named /\ named \in Queue
      /\ queue[named] = <<>>
      /\ UNCHANGED <<named, messages, lisPc>>
  <2>1. mainPc[p] = "send" /\ mainQ[p] = named
    BY DEF Send, OneDaemon
  <2>2. named \in Queue
    BY <2>1, NamedQueue DEF TypeInv, MainType, QueueType
  <2>3. QED
    BY <2>1, <2>2 DEF Send, lisVars
<1>3. /\ queue'[named] = <<<<p, n + 1>>>>
      /\ \A k \in Queue : k # named => queue'[k] = <<>>
  BY <1>2 DEF Send, Pending, TypeInv, QueueType
<1>4. \A q \in Process : q # p => mainPc'[q] = mainPc[q]
  BY DEF Send, Leave, MainGoto, TypeInv, MainType
<1>5. n < Len(Argv[p]) => mainPc'[p] = "send"
  BY <1>2 DEF Send
<1>6. ASSUME NEW r \in Process, lisPc[r] = "receive", NEW i \in 1 .. Len(messages[r])
      PROVE  LET q == messages[r][i][1]
             IN  mainPc'[q] = "send" \/ queue'[named] = <<<<q, Len(Argv[q]) + 1>>>>
  <2> DEFINE q == messages[r][i][1]
  <2>1. q \in Process
    BY CollectedSender
  <2>2. mainPc[q] = "send"
    BY <1>2, <1>6 DEF Pending
  <2>3. CASE q = p
    BY <1>1, <1>3, <1>5, <2>3
  <2>4. CASE q # p
    BY <1>4, <2>1, <2>2, <2>4
  <2>5. QED
    BY <2>3, <2>4
<1>7. ASSUME NEW k \in Queue, NEW m \in Word, queue'[k] = <<m>>
      PROVE  mainPc'[m[1]] = "send"
  <2>1. k = named /\ m = <<p, n + 1>>
    BY <1>3, <1>7, OneMessage
  <2>2. ~IsEnd(m)
    BY DEF Word
  <2>3. n < Len(Argv[p])
    BY <1>1, <2>1, <2>2 DEF IsEnd
  <2>4. QED
    BY <1>5, <2>1, <2>3
<1>8. \A k \in Queue : queue'[k] # <<>> => k = named
  BY <1>3
<1>9. \A r \in Process : lisPc[r] \in {"remove", "open"} => messages[r] = <<>>
  BY DEF Pending
<1>10. QED
  BY <1>2, <1>6, <1>7, <1>8, <1>9 DEF Pending, Word, Message, IsEnd

\* A listener that opens its queue leaves what is pending.
LEMMA PendingOpen ==
  ASSUME TypeInv, OneDaemon, Pending, NEW p \in Process, ListenerOpen(p)
  PROVE  Pending'
<1>1. /\ lisPc[p] = "open"
      /\ lisPc' = [lisPc EXCEPT ![p] = "receive"]
      /\ UNCHANGED <<queue, mainPc, messages>>
  BY DEF ListenerOpen, ListenerGoto, mainVars
<1>2. named' = named \/ named = NoQueue
  BY DEF ListenerOpen
<1>3. messages[p] = <<>> /\ 1 .. Len(messages[p]) = {}
  BY <1>1, EmptySeq DEF Pending
<1>4. \A r \in Process : r # p => lisPc'[r] \notin {"remove", "open", "receive"}
  BY <1>1 DEF OneDaemon, Live, TypeInv, ListenerType
<1>5. lisPc'[p] = "receive"
  BY <1>1 DEF TypeInv, ListenerType
<1>6. \A k \in Queue : queue[k] # <<>> => k = named /\ named' = named
  BY <1>2 DEF Pending, Queue, NoQueue
<1>7. QED
  BY <1>1, <1>3, <1>4, <1>5, <1>6 DEF Pending, Word, Message, IsEnd

\* A listener that receives a word has it pending still.
LEMMA PendingReceive ==
  ASSUME TypeInv, OneDaemon, Pending, NEW p \in Process, Receive(p)
  PROVE  Pending'
<1> DEFINE m == Head(queue[named])
<1>1. /\ lisPc[p] = "receive" /\ lisQ[p] = named /\ named \in Queue
      /\ queue[named] # <<>>
      /\ \A r \in Process : r # p => ~Live(r)
  BY NamedQueue DEF Receive, OneDaemon, Live, TypeInv, ListenerType
<1>2. queue[named] = <<m>> /\ m \in Message /\ Tail(queue[named]) = <<>>
  BY <1>1, ReceivedMessage DEF TypeInv
<1>3. /\ \A k \in Queue : queue'[k] = <<>>
      /\ UNCHANGED <<named, mainPc>>
  BY <1>1, <1>2 DEF Receive, Pending, TypeInv, QueueType, mainVars
<1>4. \A r \in Process : r # p => lisPc'[r] = lisPc[r] /\ messages'[r] = messages[r]
  BY DEF Receive, ListenerGoto, TypeInv, ListenerType
<1>5. CASE IsEnd(m)
  <2>1. lisPc'[p] = "execute"
    BY <1>1, <1>5 DEF Receive, ListenerGoto, TypeInv, ListenerType
  <2>2. QED
    BY <1>1, <1>3, <1>4, <2>1, OneMessage DEF Pending, Live
<1>6. CASE ~IsEnd(m)
  <2>1. m \in Word /\ m[1] \in Process
    BY <1>2, <1>6, WordSender DEF Word
  <2>2. messages'[p] = Append(messages[p], m) /\ lisPc'[p] = lisPc[p]
    BY <1>1, <1>6 DEF Receive, TypeInv, ListenerType
  <2>3. messages[p] \in Seq(Word)
    BY DEF TypeInv, ListenerType
  <2>4. \A i \in 1 .. Len(messages'[p]) :
          messages'[p][i] = m \/ (i \in 1 .. Len(messages[p]) /\ messages'[p][i] = messages[p][i])
    BY <2>1, <2>2, <2>3, AppendProperties, LenProperties
  <2>5. mainPc[m[1]] = "send"
    BY <1>1, <1>2, <2>1 DEF Pending
  <2>6. ASSUME NEW i \in 1 .. Len(messages[p]) PROVE mainPc[messages[p][i][1]] = "send"
    <3> DEFINE q == messages[p][i][1]
    <3>1. mainPc[q] = "send" \/ <<m>> = <<<<q, Len(Argv[q]) + 1>>>>
      BY <1>1, <1>2 DEF Pending
    <3>2. <<m>> # <<<<q, Len(Argv[q]) + 1>>>>
      BY <1>6 DEF IsEnd
    <3>3. QED
      BY <3>1, <3>2
  <2>7. \A i \in 1 .. Len(messages'[p]) : mainPc'[messages'[p][i][1]] = "send"
    BY <1>3, <2>4, <2>5, <2>6
  <2>8. QED
    BY <1>1, <1>3, <1>4, <2>2, <2>7, OneMessage DEF Pending, Live
<1>7. QED
  BY <1>5, <1>6

\* A command that is executed is no longer pending.
LEMMA PendingParse ==
  ASSUME TypeInv, OneDaemon, Pending, Clients, NEW p \in Process, Parse(p)
  PROVE  Pending'
<1>1. /\ lisPc[p] = "execute"
      /\ lisPc' = [lisPc EXCEPT ![p] = "open"]
      /\ messages' = [messages EXCEPT ![p] = <<>>]
      /\ UNCHANGED <<named, queue, mainPc>>
  BY DEF Parse, ListenerGoto, Clients, queueVars, mainVars
<1>2. \A r \in Process : r # p => lisPc'[r] \notin {"remove", "open", "receive"}
  BY <1>1 DEF OneDaemon, Live, TypeInv, ListenerType
<1>3. lisPc'[p] = "open" /\ messages'[p] = <<>>
  BY <1>1 DEF TypeInv, ListenerType
<1>4. QED
  BY <1>1, <1>2, <1>3 DEF Pending, Word, Message, IsEnd

\* Every step keeps what is said of the daemon and of its clients.
LEMMA ClientStep ==
  ASSUME TypeInv, ClientInv, Clients, [Next]_vars
  PROVE  ClientInv'
<1> USE DEF MainGoto, ListenerGoto, queueVars, mainVars, lisVars, gpioVars, ClientInv
<1>1. OneDaemon'
  BY ClientDaemon
<1>2. ASSUME NEW p \in Process,
             Begin(p) \/ FoundListener(p) \/ ListenerReady(p) \/ OpenQueue(p) \/ RequestLine(p)
      PROVE  Pending'
  <2>1. UNCHANGED <<named, queue, messages, lisPc>>
    BY <1>2 DEF Begin, FoundListener, ListenerReady, OpenQueue, RequestLine
  <2>2. \A q \in Process : mainPc[q] = "send" => mainPc'[q] = "send"
    BY <1>2 DEF Begin, FoundListener, ListenerReady, OpenQueue, Fail, Leave, RequestLine,
                TypeInv, MainType
  <2>3. QED
    BY <2>1, <2>2, PendingSame
<1>3. ASSUME NEW p \in Process, NewListener(p) \/ RemoveQueue(p) PROVE Pending'
  <2>1. messages[p] = <<>>
    BY <1>3 DEF NewListener, RemoveQueue, OneDaemon, Live, Pending, TypeInv, ListenerType,
                ListenerLabel
  <2>2. UNCHANGED <<named, queue, messages>>
    BY <1>3 DEF NewListener, RemoveQueue, OneDaemon
  <2>3. \A q \in Process : mainPc[q] = "send" => mainPc'[q] = "send"
    BY <1>3 DEF NewListener, RemoveQueue, Fail, Leave, TypeInv, MainType
  <2>4. \A q \in Process : lisPc'[q] = lisPc[q] \/ messages[q] = <<>>
    BY <1>3, <2>1 DEF NewListener, RemoveQueue, TypeInv, ListenerType
  <2>5. QED
    BY <2>2, <2>3, <2>4, PendingSame
<1>4. ASSUME NEW p \in Process PROVE ~Exit(p)
  BY DEF Exit, OneDaemon
<1>5. CASE UNCHANGED vars
  <2>1. UNCHANGED <<named, queue, messages>>
    BY <1>5 DEF vars
  <2>2. \A q \in Process : mainPc[q] = "send" => mainPc'[q] = "send"
    BY <1>5 DEF vars
  <2>3. \A q \in Process : lisPc'[q] = lisPc[q] \/ messages[q] = <<>>
    BY <1>5 DEF vars
  <2>4. Pending'
    BY <2>1, <2>2, <2>3, PendingSame
  <2>5. QED
    BY <1>1, <2>4
<1>6. QED
  BY <1>1, <1>2, <1>3, <1>4, <1>5, ClientNoStop, PendingSend, PendingOpen, PendingReceive,
     PendingParse
  DEF Next, MainStep, ListenerStep

\* When every client of a daemon has returned and the daemon waits with its queue
\* empty, it has executed all that was sent: however the words of concurrent
\* clients are mixed, the end of a command that comes last leaves nothing behind.
THEOREM NothingLeftHolds == ASSUME Clients PROVE Spec => []NothingLeft
<1>1. TypeInv /\ ClientInv /\ [Next]_vars => ClientInv'
  BY ClientStep
<1>2. TypeInv /\ ClientInv => NothingLeft
  <2> SUFFICES ASSUME TypeInv, ClientInv,
                      \A p \in Process : mainPc[p] = "join" =>
                        lisPc[p] = "receive" /\ queue[lisQ[p]] = <<>>,
                      \A p \in Process : mainPc[p] \in {"new", "join", "exited"},
                      NEW p \in Process, messages[p] # <<>>
               PROVE  FALSE
    BY DEF NothingLeft
  <2>1. messages[p] \in Seq(Word)
    BY DEF TypeInv, ListenerType
  <2>2. 1 \in 1 .. Len(messages[p])
    BY <2>1, EmptySeq, LenProperties
  <2>3. Live(p)
    BY DEF Live, TypeInv, ListenerType, ListenerLabel
  <2>4. lisPc[p] = "receive" /\ queue[named] = <<>>
    BY <2>3 DEF ClientInv, OneDaemon
  <2>5. messages[p][1][1] \in Process
    BY <2>2, CollectedSender
  <2>6. QED
    BY <2>2, <2>4, <2>5 DEF ClientInv, Pending
<1>3. QED
  BY <1>1, <1>2, ClientInit, TypeInvHolds, PTL DEF Spec

================================================================================
