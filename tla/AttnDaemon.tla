------------------------------- MODULE AttnDaemon ------------------------------
(***************************************************************************)
(* Processes of openpower-hw-diags in daemon mode, in the build that has a *)
(* listener (option nlmode disabled).  Each runs main(): it                *)
(* handles pending attentions, looks for the message queue of a running    *)
(* listener, becomes the daemon itself if there is none, and sends its     *)
(* command line to the listener, word by word.  The daemon's listener      *)
(* thread collects a command, executes it, and starts the thread that      *)
(* monitors the attention line.                                            *)
(*                                                                         *)
(* The queue is an object of the operating system: it outlives the         *)
(* processes, its name can be removed while it is in use, and it holds one *)
(* message.  What attnHandler() does is the subject of AttnHandler.        *)
(***************************************************************************)
EXTENDS Naturals, Sequences, FiniteSets, AttnConfig, Cli

CONSTANTS
  Process,    \* the processes that may be started, each once
  Argv,       \* the command line of each
  LongWords,  \* words longer than a message of the queue
  Overlap,    \* processes start "any" time, or only to find a daemon at work
              \* ("clients"), or only when every command is done ("none")
  Faults,     \* what may fail: "thread" (creating one), "line" (its request)
  MaxQueue,   \* bound on the number of queues created
  MaxCrash    \* bound on the number of processes killed

NoQueue == 0
Nobody == "nobody"

ASSUME DaemonAssumption ==
  /\ DOMAIN Argv = Process
  /\ \A p \in Process : Argv[p] \in Seq(STRING) /\ Argv[p] # <<>>
  /\ Overlap \in {"any", "clients", "none"}
  /\ Faults \subseteq {"thread", "line"}
  /\ MaxQueue \in Nat
  /\ MaxCrash \in Nat
  /\ Nobody \notin Process

Queue == 1 .. MaxQueue

\* Word i of the command line of process p; one more word marks its end.
Message == {m \in Process \X Nat : m[2] \in 1 .. Len(Argv[m[1]]) + 1}
IsEnd(m) == m[2] = Len(Argv[m[1]]) + 1
Words(messages) == [i \in DOMAIN messages |-> Argv[messages[i][1]][messages[i][2]]]
Command(p) == [i \in 1 .. Len(Argv[p]) |-> <<p, i>>]

MainLabel == {"new", "pending", "ready", "open", "send", "join", "exited"}
ListenerLabel == {"none", "remove", "open", "receive", "execute", "ended"}
Monitor == {"none", "starting", "monitoring", "ended"}

VARIABLES
  named,     \* the queue that has the name, if any
  queue,     \* contents of each queue
  made,      \* number of queues created
  mainPc,    \* control point of the main thread of each process
  mainQ,     \* queue its sendCmdLine() has opened
  count,     \* number of messages it has sent
  rc,        \* exit status
  lisPc,     \* control point of its listener thread
  lisQ,      \* queue the listener has opened
  messages,  \* messages the listener has collected
  config,    \* attnConfig of the listener
  monitor,   \* GPIO thread
  owner,     \* process whose request of the attention line was granted
  crashes,   \* number of processes killed
  executed   \* history: the commands that were executed

queueVars == <<named, queue, made>>
mainVars  == <<mainPc, mainQ, count, rc>>
lisVars   == <<lisPc, lisQ, messages, config>>
gpioVars  == <<monitor, owner>>
vars == <<queueVars, mainVars, lisVars, gpioVars, crashes, executed>>

Init ==
  /\ named = NoQueue
  /\ queue = [k \in Queue |-> <<>>]
  /\ made = 0
  /\ mainPc = [p \in Process |-> "new"]
  /\ mainQ = [p \in Process |-> NoQueue]
  /\ count = [p \in Process |-> 0]
  /\ rc = [p \in Process |-> 0]
  /\ lisPc = [p \in Process |-> "none"]
  /\ lisQ = [p \in Process |-> NoQueue]
  /\ messages = [p \in Process |-> <<>>]
  /\ config = [p \in Process |-> DefaultConfig]
  /\ monitor = [p \in Process |-> "none"]
  /\ owner = Nobody
  /\ crashes = 0
  /\ executed = {}

--------------------------------------------------------------------------------
(* Helpers *)

MainGoto(p, l) == mainPc' = [mainPc EXCEPT ![p] = l]
ListenerGoto(p, l) == lisPc' = [lisPc EXCEPT ![p] = l]

\* main() is done: it waits for its own listener, or returns.
Leave(p) == MainGoto(p, IF lisPc[p] = "none" THEN "exited" ELSE "join")

Fail(p) == rc' = [rc EXCEPT ![p] = 1] /\ Leave(p)

\* The kernel takes the line back when a process ends.
ReleaseLine(p) ==
  /\ monitor' = [monitor EXCEPT ![p] = "none"]
  /\ owner' = IF owner = p THEN Nobody ELSE owner

Waiting(p) ==
  /\ lisPc[p] = "receive"
  /\ messages[p] = <<>>
  /\ queue[lisQ[p]] = <<>>

\* Every process has finished, or is a daemon waiting for a command.
Quiet ==
  \A p \in Process :
    \/ mainPc[p] \in {"new", "exited"}
    \/ mainPc[p] = "join" /\ Waiting(p) /\ monitor[p] # "starting"

\* Some process has become the daemon and sent it its own command line.
Settled == \E p \in Process : mainPc[p] = "join" /\ lisPc[p] # "ended"

MayBegin == Overlap = "any" \/ Quiet \/ (Overlap = "clients" /\ Settled)

--------------------------------------------------------------------------------
(* Faulty variants of definitions below, each a slip the code could contain: *)
(* the properties must tell them from the code.                             *)

\* The end of the command line is not sent.
SendNoEnd(p) ==
  /\ mainPc[p] = "send"
  /\ queue[mainQ[p]] = <<>>
  /\ queue' = [queue EXCEPT ![mainQ[p]] = <<<<p, count[p] + 1>>>>]
  /\ count' = [count EXCEPT ![p] = @ + 1]
  /\ IF count'[p] < Len(Argv[p]) THEN UNCHANGED mainPc ELSE Leave(p)
  /\ UNCHANGED <<named, made, mainQ, rc, lisVars, gpioVars, crashes, executed>>

\* The name of the queue is not removed.
StopLeavesQueue(p) ==
  /\ lisPc[p] = "execute"
  /\ GetCliOption(Words(messages[p]), "--stop")
  /\ executed' = executed \cup {messages[p]}
  /\ messages' = [messages EXCEPT ![p] = <<>>]
  /\ ListenerGoto(p, "ended")
  /\ UNCHANGED <<queueVars, mainVars, lisQ, config, gpioVars, crashes>>

\* The listener waits for the GPIO thread as soon as it has created it.
ParseJoins(p) ==
  /\ lisPc[p] = "execute"
  /\ ~GetCliOption(Words(messages[p]), "--stop")
  /\ config' = [config EXCEPT ![p] = ParseConfig(Words(messages[p]), @)]
  /\ executed' = executed \cup {messages[p]}
  /\ messages' = [messages EXCEPT ![p] = <<>>]
  /\ IF GetCliOption(Words(messages[p]), "--start") /\ monitor[p] = "none"
       THEN monitor' = [monitor EXCEPT ![p] = "starting"] /\ UNCHANGED lisPc
       ELSE /\ monitor[p] \notin {"starting", "monitoring"}
            /\ ListenerGoto(p, "open")
            /\ UNCHANGED monitor
  /\ UNCHANGED <<queueVars, mainVars, lisQ, owner, crashes>>

\* The messages of a command are kept when the next one is collected.
ParseKeepsMessages(p) ==
  /\ lisPc[p] = "execute"
  /\ ~GetCliOption(Words(messages[p]), "--stop")
  /\ config' = [config EXCEPT ![p] = ParseConfig(Words(messages[p]), @)]
  /\ executed' = executed \cup {messages[p]}
  /\ ListenerGoto(p, "open")
  /\ IF GetCliOption(Words(messages[p]), "--start") /\ monitor[p] = "none"
       THEN monitor' = [monitor EXCEPT ![p] = "starting"]
       ELSE UNCHANGED monitor
  /\ UNCHANGED <<queueVars, mainVars, lisQ, messages, owner, crashes>>

\* The GPIO thread is never created.
ParseNeverStarts(p) ==
  /\ lisPc[p] = "execute"
  /\ ~GetCliOption(Words(messages[p]), "--stop")
  /\ config' = [config EXCEPT ![p] = ParseConfig(Words(messages[p]), @)]
  /\ executed' = executed \cup {messages[p]}
  /\ messages' = [messages EXCEPT ![p] = <<>>]
  /\ ListenerGoto(p, "open")
  /\ UNCHANGED <<queueVars, mainVars, lisQ, gpioVars, crashes>>

\* The listener looks at a command before its end has come.
ReceiveNoEnd(p) ==
  /\ lisPc[p] = "receive"
  /\ queue[lisQ[p]] # <<>>
  /\ queue' = [queue EXCEPT ![lisQ[p]] = Tail(@)]
  /\ LET m == Head(queue[lisQ[p]]) IN
       IF IsEnd(m)
         THEN UNCHANGED messages
         ELSE messages' = [messages EXCEPT ![p] = Append(@, m)]
  /\ ListenerGoto(p, "execute")
  /\ UNCHANGED <<named, made, mainVars, lisQ, config, gpioVars, crashes, executed>>

\* The main thread of a daemon returns without waiting for its listener.
ExitAtOnce(p) ==
  /\ mainPc[p] = "join"
  /\ MainGoto(p, "exited")
  /\ ListenerGoto(p, "none")
  /\ ReleaseLine(p)
  /\ UNCHANGED <<queueVars, mainQ, count, rc, lisQ, messages, config, crashes, executed>>

--------------------------------------------------------------------------------
(* main() and sendCmdLine() *)

\* Handle the pending attentions.
Begin(p) ==
  /\ mainPc[p] = "new"
  /\ MayBegin
  /\ MainGoto(p, "pending")
  /\ UNCHANGED <<queueVars, mainQ, count, rc, lisVars, gpioVars, crashes, executed>>

\* The queue exists: a listener is taken for running.
FoundListener(p) ==
  /\ mainPc[p] = "pending"
  /\ named # NoQueue
  /\ MainGoto(p, "open")
  /\ UNCHANGED <<queueVars, mainQ, count, rc, lisVars, gpioVars, crashes, executed>>

\* There is none: create the listener thread.
NewListener(p) ==
  /\ mainPc[p] = "pending"
  /\ named = NoQueue
  /\ \/ /\ MainGoto(p, "ready")
        /\ ListenerGoto(p, "remove")
        /\ UNCHANGED rc
     \/ "thread" \in Faults /\ Fail(p) /\ UNCHANGED lisPc
  /\ UNCHANGED <<queueVars, mainQ, count, lisQ, messages, config, gpioVars,
                 crashes, executed>>

\* Poll until the queue exists, whoever has created it.
ListenerReady(p) ==
  /\ mainPc[p] = "ready"
  /\ named # NoQueue
  /\ MainGoto(p, "open")
  /\ UNCHANGED <<queueVars, mainQ, count, rc, lisVars, gpioVars, crashes, executed>>

\* Open the queue again, to send to it.
OpenQueue(p) ==
  /\ mainPc[p] = "open"
  /\ IF named = NoQueue
       THEN Fail(p) /\ UNCHANGED mainQ
       ELSE /\ mainQ' = [mainQ EXCEPT ![p] = named]
            /\ MainGoto(p, "send")
            /\ UNCHANGED rc
  /\ UNCHANGED <<queueVars, count, lisVars, gpioVars, crashes, executed>>

TooLong(p) == count[p] < Len(Argv[p]) /\ Argv[p][count[p] + 1] \in LongWords

\* Send the next word, or the end of the command line, once the queue is empty.
Send(p) ==
  /\ mainPc[p] = "send"
  /\ ~TooLong(p)
  /\ queue[mainQ[p]] = <<>>
  /\ queue' = [queue EXCEPT ![mainQ[p]] = <<<<p, count[p] + 1>>>>]
  /\ count' = [count EXCEPT ![p] = @ + 1]
  /\ IF count[p] < Len(Argv[p]) THEN UNCHANGED mainPc ELSE Leave(p)
  /\ UNCHANGED <<named, made, mainQ, rc, lisVars, gpioVars, crashes, executed>>

\* send() throws; sendCmdLine() then says that nothing was sent.
SendThrows(p) ==
  /\ mainPc[p] = "send"
  /\ TooLong(p)
  /\ Fail(p)
  /\ UNCHANGED <<queueVars, mainQ, count, lisVars, gpioVars, crashes, executed>>

\* pthread_join() and the end of the process, with the GPIO thread in it.
Exit(p) ==
  /\ mainPc[p] = "join"
  /\ lisPc[p] = "ended"
  /\ MainGoto(p, "exited")
  /\ ReleaseLine(p)
  /\ UNCHANGED <<queueVars, mainQ, count, rc, lisVars, crashes, executed>>

--------------------------------------------------------------------------------
(* threadListener() *)

RemoveQueue(p) ==
  /\ lisPc[p] = "remove"
  /\ named' = NoQueue
  /\ ListenerGoto(p, "open")
  /\ UNCHANGED <<queue, made, mainVars, lisQ, messages, config, gpioVars, crashes,
                 executed>>

\* Open the queue that has the name, or create it.
ListenerOpen(p) ==
  /\ lisPc[p] = "open"
  /\ IF named = NoQueue
       THEN /\ made < MaxQueue
            /\ made' = made + 1
            /\ named' = made'
       ELSE UNCHANGED <<made, named>>
  /\ lisQ' = [lisQ EXCEPT ![p] = named']
  /\ ListenerGoto(p, "receive")
  /\ UNCHANGED <<queue, mainVars, messages, config, gpioVars, crashes, executed>>

Receive(p) ==
  /\ lisPc[p] = "receive"
  /\ queue[lisQ[p]] # <<>>
  /\ queue' = [queue EXCEPT ![lisQ[p]] = Tail(@)]
  /\ LET m == Head(queue[lisQ[p]]) IN
       IF IsEnd(m)
         THEN ListenerGoto(p, "execute") /\ UNCHANGED messages
         ELSE messages' = [messages EXCEPT ![p] = Append(@, m)] /\ UNCHANGED lisPc
  /\ UNCHANGED <<named, made, mainVars, lisQ, config, gpioVars, crashes, executed>>

\* "--stop": remove the queue and leave the loop; the GPIO thread is cancelled.
Stop(p) ==
  /\ lisPc[p] = "execute"
  /\ GetCliOption(Words(messages[p]), "--stop")
  /\ named' = NoQueue
  /\ executed' = executed \cup {messages[p]}
  /\ messages' = [messages EXCEPT ![p] = <<>>]
  /\ ListenerGoto(p, "ended")
  /\ UNCHANGED <<queue, made, mainVars, lisQ, config, gpioVars, crashes>>

\* Any other command: set the configuration, and create the GPIO thread on the
\* first "--start".  If that fails the loop is left, and the queue with it.
Parse(p) ==
  /\ lisPc[p] = "execute"
  /\ ~GetCliOption(Words(messages[p]), "--stop")
  /\ config' = [config EXCEPT ![p] = ParseConfig(Words(messages[p]), @)]
  /\ executed' = executed \cup {messages[p]}
  /\ messages' = [messages EXCEPT ![p] = <<>>]
  /\ IF GetCliOption(Words(messages[p]), "--start") /\ monitor[p] = "none"
       THEN \/ /\ monitor' = [monitor EXCEPT ![p] = "starting"]
               /\ ListenerGoto(p, "open")
            \/ "thread" \in Faults /\ ListenerGoto(p, "ended") /\ UNCHANGED monitor
       ELSE ListenerGoto(p, "open") /\ UNCHANGED monitor
  /\ UNCHANGED <<queueVars, mainVars, lisQ, owner, crashes>>

--------------------------------------------------------------------------------
(* The GPIO thread, and the end of a process *)

\* attnDaemon(): without the line, which one process can have at a time, there
\* is nothing to wait for and the thread ends.
RequestLine(p) ==
  /\ monitor[p] = "starting"
  /\ \/ /\ owner = Nobody
        /\ owner' = p
        /\ monitor' = [monitor EXCEPT ![p] = "monitoring"]
     \/ /\ owner # Nobody \/ "line" \in Faults
        /\ monitor' = [monitor EXCEPT ![p] = "ended"]
        /\ UNCHANGED owner
  /\ UNCHANGED <<queueVars, mainVars, lisVars, crashes, executed>>

\* The process is killed; the queue and its name stay.
Crash(p) ==
  /\ crashes < MaxCrash
  /\ mainPc[p] \notin {"new", "exited"}
  /\ crashes' = crashes + 1
  /\ MainGoto(p, "exited")
  /\ ListenerGoto(p, "none")
  /\ messages' = [messages EXCEPT ![p] = <<>>]
  /\ ReleaseLine(p)
  /\ UNCHANGED <<queueVars, mainQ, count, rc, lisQ, config, executed>>

--------------------------------------------------------------------------------

MainStep(p) ==
  \/ FoundListener(p) \/ NewListener(p) \/ ListenerReady(p) \/ OpenQueue(p)
  \/ Send(p) \/ SendThrows(p) \/ Exit(p)

ListenerStep(p) ==
  RemoveQueue(p) \/ ListenerOpen(p) \/ Receive(p) \/ Stop(p) \/ Parse(p)

Next ==
  \E p \in Process :
    Begin(p) \/ MainStep(p) \/ ListenerStep(p) \/ RequestLine(p) \/ Crash(p)

\* Each thread of a running process is scheduled; nobody has to start a process.
Fairness ==
  \A p \in Process :
    WF_vars(MainStep(p)) /\ WF_vars(ListenerStep(p)) /\ WF_vars(RequestLine(p))

Spec == Init /\ [][Next]_vars /\ Fairness

--------------------------------------------------------------------------------
(* Properties *)

\* A listener that collects commands until their end executes what one process
\* sent, all of it, in order and nothing else.
CommandWhole == executed \subseteq {Command(p) : p \in Process}

\* Whatever processes, daemons and clients, do to each other, a word that was
\* sent is kept in one place: a queue, the messages of one listener, or one
\* executed command.  Only the end of a process loses any.
Places ==
  executed \cup {messages[p] : p \in Process} \cup {queue[k] : k \in Queue}

OptionsOnce ==
  \A p \in Process : \A i \in 1 .. Len(Argv[p]) :
    LET m == <<p, i>>
        places == {s \in Places : \E j \in DOMAIN s : s[j] = m}
    IN /\ Cardinality(places) <= 1
       /\ \A s \in places : Cardinality({j \in DOMAIN s : s[j] = m}) = 1
       /\ crashes = 0 /\ i <= count[p] => places # {}

\* When all clients are done the listener has executed everything they sent.
NothingLeft ==
  (\A p \in Process : mainPc[p] = "join" => lisPc[p] = "receive" /\ queue[lisQ[p]] = <<>>)
    /\ (\A p \in Process : mainPc[p] \in {"new", "join", "exited"})
  => \A p \in Process : messages[p] = <<>>

\* As long as a queue has the name there is a listener to empty it.
QueueServed ==
  named # NoQueue =>
    \E p \in Process :
      \/ lisPc[p] = "open"
      \/ lisPc[p] \in {"receive", "execute"} /\ lisQ[p] = named

\* A flag that is off was turned off on some command line, by the option of the
\* flag itself or by "--all".
OffAsked ==
  \A p \in Process : \A f \in AllFlags \ config[p] :
    \E q \in Process : \E i \in 1 .. Len(Argv[q]) - 1 :
      Argv[q][i] \in {"--all", Option(f)} /\ Argv[q][i + 1] = "off"

\* A process either becomes the daemon or ends.
ProcessReturns ==
  \A p \in Process : mainPc[p] = "pending" ~> mainPc[p] \in {"join", "exited"}

\* A process that is blocked in send() for ever has a queue that nobody reads any
\* more, its name removed or its daemon gone: senders and listeners never block
\* each other, whoever else sends, stops or dies (sendCmdLine(), threadListener()).
BlockedUnread ==
  \A p \in Process :
    <>[](mainPc[p] = "send") =>
      <>[](\A l \in Process : lisPc[l] \in {"receive", "execute"} => lisQ[l] # mainQ[p])

\* What a process sends is executed in the end.
Delivered ==
  \A p \in Process : mainPc[p] = "pending" ~> Command(p) \in executed

\* "--stop" ends the daemon.
StopStops ==
  \A p \in Process :
    mainPc[p] = "send" /\ GetCliOption(Argv[p], "--stop") ~>
      \A q \in Process : mainPc[q] \in {"new", "exited"}

\* "--start" has the attention line monitored.
StartMonitors ==
  \A p \in Process :
    mainPc[p] = "send" /\ GetCliOption(Argv[p], "--start") ~> owner # Nobody

================================================================================
