------------------------------ MODULE AttnHandler ------------------------------
(***************************************************************************)
(* One invocation of attn::attnHandler() and everything it calls: the scan *)
(* of the processors, the choice of the attention to service, and the      *)
(* vital, checkstop, special (TI and breakpoint) handlers with the PELs    *)
(* they commit, the dumps they wait for and the systemd targets they start.*)
(*                                                                         *)
(* attnHandler() is run by the daemon for every falling edge of the        *)
(* attention line, and by main() of every process started in daemon mode.  *)
(* In the build with a listener several threads may be inside it at once;  *)
(* in the one without (option nlmode) a daemon has one thread, and sets    *)
(* its configuration before it enters.                                     *)
(*                                                                         *)
(* A value that another service owns and may change at any time (power     *)
(* good, host state, dump policy, the result of a D-Bus or SBE request) is *)
(* chosen when the code reads it.  Steps between which no variable of the  *)
(* model is read or written are one action.                                *)
(***************************************************************************)
EXTENDS Naturals, Sequences, AttnConfig

CONSTANTS
  Thread,      \* threads that run attnHandler()
  Daemon,      \* those of them that are a GPIO thread: they share attnConfig
               \* with the listener and may be cancelled by "--stop"
  Stops,       \* TRUE if "--stop" may arrive
  Faults,      \* what may go wrong besides what every run allows: "cfam" (an
               \* FSI register access fails), "watchdog" (the D-Bus write of
               \* the watchdog property fails)
  Proc,        \* processors whose PIB target is enabled
  Mask,        \* CFAM 0x100d of each processor: the attentions it reports
  Settings,    \* configurations that listener commands may leave behind
  MaxRaise     \* bound on the number of attentions raised by the hardware

AttnType == {"Vital", "Checkstop", "Special"}

\* Bits of the interrupt status register (CFAM 0x1007).
Signal == AttnType \cup {"Recoverable"}

ASSUME HandlerAssumption ==
  /\ Daemon \subseteq Thread
  /\ Stops \in BOOLEAN
  /\ Faults \subseteq {"cfam", "watchdog"}
  /\ Mask \in [Proc -> SUBSET AttnType]
  /\ Settings \subseteq SUBSET Flag
  /\ MaxRaise \in Nat

Attention == [type : AttnType, proc : Proc]

NoAttn == [type |-> "None"]

\* AttentionType is ordered by priority, low to high.
Priority(type) ==
  CASE type = "Special"   -> 0
    [] type = "Checkstop" -> 1
    [] type = "Vital"     -> 2

Rank == [a \in Attention |-> Priority(a.type)]

\* What the handlers tell apart in the TI data area: who filled it in, and for
\* hostboot the terminate type, the dump flag and the special reason codes.
TiKind == {"phyp", "eid", "eidDump", "src", "srcShutdown", "srcKey"}
TiInfo == [valid : BOOLEAN, kind : TiKind]

\* What an invocation sends out: the PELs it asks the logging service for, the
\* analysis of recoverable errors (with its predictive PEL), the raw PEL built
\* from the TI data, and the breakpoint signal.
Sent == {"attnFail", "vitalInfo", "vitalError", "checkstop", "terminate",
         "custom", "analysis", "sbeChipop", "brkpt"}

DumpType == {"SBE", "Hardware", "Hostboot"}

\* The dumps during which requestDump() keeps the watchdog disabled.
Watched == {"Hardware", "Hostboot"}

\* The dump of this invocation: "unknown" if an exception left nobody watching
\* it, "heard" and "missed" if it ended with and without this thread being told.
DumpState == {"none", "unknown", "inProgress", "heard", "missed"}

Target == {"quiesce", "crash", "poweroff"}

ServeLabel == {"vStart", "vCheck", "vHreset", "vVerify", "vFailed", "cStart",
               "sStart", "sDispatch", "ti", "tiPel"}
DumpLabel == {"dump", "dumpCall", "dumpMatch", "dumpWait", "dumpEnd"}
Label == {"idle", "dead", "clear", "scan", "pick", "transition"}
           \cup ServeLabel \cup DumpLabel

VARIABLES
  isr,       \* CFAM 0x1007: active attentions of each processor
  intr,      \* CFAM 0x100b: latched attention interrupts
  raised,    \* number of attentions raised so far
  watchdog,  \* Enabled property of the host watchdog
  config,    \* attention handler configuration each thread uses
  pc,        \* control point of each thread
  todo,      \* processors the current loop has still to visit
  cont,      \* control point after the clear loop or the dump
  attns,     \* active_attentions
  cur,       \* the attention whose handler was called last
  ti,        \* TI info in use
  recov,     \* recoverableErrors() was TRUE
  sent,      \* PELs and signals this invocation has sent
  log,       \* the log ID that goes with the dump is not 0
  dumpType,  \* type of the dump being requested
  dump,      \* state of the dump of this invocation
  timedOut,  \* the wait for that dump timed out
  targets    \* systemd targets this invocation started

hwVars   == <<isr, intr, raised>>
loopVars == <<todo, cont>>
tiVars   == <<ti, recov>>
dumpVars == <<dumpType, dump, timedOut>>
vars == <<hwVars, watchdog, config, pc, loopVars, attns, cur, tiVars, sent, log,
          dumpVars, targets>>

NoTi == [valid |-> FALSE, kind |-> "phyp"]

Init ==
  /\ isr = [p \in Proc |-> {}]
  /\ intr = [p \in Proc |-> {}]
  /\ raised = 0
  /\ watchdog = TRUE
  /\ config = [t \in Thread |-> DefaultConfig]
  /\ pc = [t \in Thread |-> "idle"]
  /\ todo = [t \in Thread |-> {}]
  /\ cont = [t \in Thread |-> "idle"]
  /\ attns = [t \in Thread |-> {}]
  /\ cur = [t \in Thread |-> NoAttn]
  /\ ti = [t \in Thread |-> NoTi]
  /\ recov = [t \in Thread |-> FALSE]
  /\ sent = [t \in Thread |-> {}]
  /\ log = [t \in Thread |-> FALSE]
  /\ dumpType = [t \in Thread |-> "SBE"]
  /\ dump = [t \in Thread |-> "none"]
  /\ timedOut = [t \in Thread |-> FALSE]
  /\ targets = [t \in Thread |-> <<>>]

--------------------------------------------------------------------------------
(* Helpers *)

At(t, l) == pc[t] = l
Goto(t, l) == pc' = [pc EXCEPT ![t] = l]

Send(t, kinds) == sent' = [sent EXCEPT ![t] = @ \cup kinds]

Enabled(t, flag) == flag \in config[t]

\* The attentions processor p reports: active and not masked (activeAttn()).
ActiveAttn(p) == isr[p] \cap Mask[p]

\* The handler of the current attention returns RC_SUCCESS: attnHandler() is
\* done, with the other attentions left as they are.
Handled(t) == Goto(t, "idle") /\ UNCHANGED attns

\* Faulty variant of the next one: the attention is not removed from the heap.
NotHandledKeeps(t) == Goto(t, "pick") /\ UNCHANGED attns

\* The handler returned an error: drop the attention, try the next one.
NotHandled(t) ==
  /\ attns' = [attns EXCEPT ![t] = @ \ {cur[t]}]
  /\ Goto(t, "pick")

\* Enter a loop over the processors, at label l.
EnterLoop(t, l) ==
  /\ todo' = [todo EXCEPT ![t] = Proc]
  /\ Goto(t, l)

\* Call clearAttnInterrupts(), to continue with the loop at label l.
CallClear(t, l) ==
  /\ cont' = [cont EXCEPT ![t] = l]
  /\ EnterLoop(t, "clear")

\* Call requestDump() for a dump of the given type, to continue at label l.
CallDump(t, type, l) ==
  /\ dumpType' = [dumpType EXCEPT ![t] = type]
  /\ cont' = [cont EXCEPT ![t] = l]
  /\ Goto(t, "dump")

\* enableWatchdog(value): the write may fail, the failure is only traced.
SetWatchdog(value) ==
  \/ watchdog' = value
  \/ "watchdog" \in Faults /\ UNCHANGED watchdog

--------------------------------------------------------------------------------
(* Faulty variants of definitions below, each a slip the code could contain: *)
(* the properties must tell them from the code.                             *)

\* The status bits are taken for attentions without looking at the mask.
ScanProcUnmasked(t, p) ==
  /\ At(t, "scan")
  /\ p \in todo[t]
  /\ todo' = [todo EXCEPT ![t] = @ \ {p}]
  /\ attns' = [attns EXCEPT ![t] = @ \cup [type : isr[p], proc : {p}]]
  /\ UNCHANGED <<hwVars, watchdog, config, pc, cont, cur, tiVars, sent, log,
                 dumpVars, targets>>

\* The vector is not made a heap: its front is any attention.
FrontUnordered(s) == s

\* Disabled checkstop handling falls through to the transition of the host.
CheckstopIgnoredTransitions(t) ==
  /\ At(t, "cStart")
  /\ Goto(t, "transition")
  /\ UNCHANGED <<hwVars, watchdog, config, loopVars, attns, cur, tiVars, sent,
                 log, dumpVars, targets>>

\* The ID of the TI's PEL is not checked before the dump is requested.
TiPelFailedDumps(t) ==
  /\ At(t, "tiPel")
  /\ Send(t, {"terminate"})
  /\ CallDump(t, "Hostboot", "transition")
  /\ UNCHANGED <<hwVars, watchdog, config, todo, attns, cur, tiVars, log, dump,
                 timedOut, targets>>

\* The dump is not monitored.
DumpMatchReturns(t) ==
  /\ At(t, "dumpMatch")
  /\ Goto(t, "dumpEnd")
  /\ UNCHANGED <<hwVars, watchdog, config, loopVars, attns, cur, tiVars, sent,
                 log, dumpVars, targets>>

\* An exception in CreateDump skips the end of requestDump().
DumpCreateReturns(t) ==
  /\ At(t, "dumpCall")
  /\ \/ Goto(t, "dumpMatch") /\ dump' = [dump EXCEPT ![t] = "inProgress"]
     \/ Goto(t, cont[t]) /\ dump' = [dump EXCEPT ![t] = "unknown"]
  /\ UNCHANGED <<hwVars, watchdog, config, loopVars, attns, cur, tiVars, sent,
                 log, dumpType, timedOut, targets>>

\* The wait for the dump has no limit.
DumpWaitForever(t) ==
  /\ At(t, "dumpWait")
  /\ dump[t] = "heard"
  /\ Goto(t, "dumpEnd")
  /\ UNCHANGED <<hwVars, watchdog, config, loopVars, attns, cur, tiVars, sent,
                 log, dumpVars, targets>>

\* The handler reports an error after it has transitioned the host.
TransitionNotHandled(t) ==
  /\ At(t, "transition")
  /\ targets' = [targets EXCEPT ![t] = Append(@, "quiesce")]
  /\ NotHandled(t)
  /\ UNCHANGED <<hwVars, watchdog, config, loopVars, cur, tiVars, sent, log,
                 dumpVars>>

--------------------------------------------------------------------------------
(* The hardware, the host and the listener *)

\* Processor p raises an attention; only a recoverable one is no interrupt.
Raise(p, s) ==
  /\ raised < MaxRaise
  /\ s \notin isr[p]
  /\ isr' = [isr EXCEPT ![p] = @ \cup {s}]
  /\ intr' = [intr EXCEPT ![p] = @ \cup ({s} \cap AttnType)]
  /\ raised' = raised + 1
  /\ UNCHANGED <<watchdog, config, pc, loopVars, attns, cur, tiVars, sent, log,
                 dumpVars, targets>>

\* A re-IPL, or the debug agent, clears the attentions of processor p.
HostClears(p) ==
  /\ isr[p] # {}
  /\ isr' = [isr EXCEPT ![p] = {}]
  /\ intr' = [intr EXCEPT ![p] = {}]
  /\ UNCHANGED <<raised, watchdog, config, pc, loopVars, attns, cur, tiVars,
                 sent, log, dumpVars, targets>>

\* The listener thread parses a command into the attnConfig that the GPIO
\* thread reads, at any time.
SetConfig(t, c) ==
  /\ t \in Daemon
  /\ config[t] # c
  /\ config' = [config EXCEPT ![t] = c]
  /\ UNCHANGED <<hwVars, watchdog, pc, loopVars, attns, cur, tiVars, sent, log,
                 dumpVars, targets>>

\* "--stop": the listener cancels the GPIO thread and the process exits.
Cancel(t) ==
  /\ Stops
  /\ t \in Daemon
  /\ ~At(t, "dead")
  /\ Goto(t, "dead")
  /\ UNCHANGED <<hwVars, watchdog, config, loopVars, attns, cur, tiVars, sent,
                 log, dumpVars, targets>>

\* The dump manager changes the status of the dump to anything but InProgress.
\* The signal reaches the thread only once its match rule is registered.
DumpCompletes(t) ==
  /\ dump[t] = "inProgress"
  /\ dump' = [dump EXCEPT ![t] = IF At(t, "dumpWait") THEN "heard" ELSE "missed"]
  /\ UNCHANGED <<hwVars, watchdog, config, pc, loopVars, attns, cur, tiVars,
                 sent, log, dumpType, timedOut, targets>>

--------------------------------------------------------------------------------
(* attnHandler(): clear, scan, pick *)

Start(t) ==
  /\ At(t, "idle")
  /\ attns' = [attns EXCEPT ![t] = {}]
  /\ cur' = [cur EXCEPT ![t] = NoAttn]
  /\ ti' = [ti EXCEPT ![t] = NoTi]
  /\ recov' = [recov EXCEPT ![t] = FALSE]
  /\ sent' = [sent EXCEPT ![t] = {}]
  /\ log' = [log EXCEPT ![t] = FALSE]
  /\ dumpType' = [dumpType EXCEPT ![t] = "SBE"]
  /\ dump' = [dump EXCEPT ![t] = "none"]
  /\ timedOut' = [timedOut EXCEPT ![t] = FALSE]
  /\ targets' = [targets EXCEPT ![t] = <<>>]
  /\ IF Enabled(t, "enClrAttnIntr")
       THEN CallClear(t, "scan")
       ELSE EnterLoop(t, "scan") /\ UNCHANGED cont
  /\ UNCHANGED <<hwVars, watchdog, config>>

\* clearAttnInterrupts(), one processor: every attention bit of the register is
\* cleared, unless the read or the write fails; it has no effect on the bit of an
\* attention that is active.
ClearIntr(t, p) ==
  /\ At(t, "clear")
  /\ p \in todo[t]
  /\ todo' = [todo EXCEPT ![t] = @ \ {p}]
  /\ \/ intr' = [intr EXCEPT ![p] = @ \cap isr[p]]
     \/ "cfam" \in Faults /\ UNCHANGED intr
  /\ UNCHANGED <<isr, raised, watchdog, config, pc, cont, attns, cur, tiVars,
                 sent, log, dumpVars, targets>>

ClearDone(t) ==
  /\ At(t, "clear")
  /\ todo[t] = {}
  /\ EnterLoop(t, cont[t])
  /\ UNCHANGED <<hwVars, watchdog, config, cont, attns, cur, tiVars, sent, log,
                 dumpVars, targets>>

\* Read the status and the mask of one processor.
ScanProc(t, p) ==
  /\ At(t, "scan")
  /\ p \in todo[t]
  /\ todo' = [todo EXCEPT ![t] = @ \ {p}]
  /\ attns' = [attns EXCEPT ![t] = @ \cup [type : ActiveAttn(p), proc : {p}]]
  /\ UNCHANGED <<hwVars, watchdog, config, pc, cont, cur, tiVars, sent, log,
                 dumpVars, targets>>

\* A CFAM read failed (logged in a PEL), or returned an invalid value.
ScanUnreadable(t, p) ==
  /\ "cfam" \in Faults
  /\ At(t, "scan")
  /\ p \in todo[t]
  /\ todo' = [todo EXCEPT ![t] = @ \ {p}]
  /\ \E pel \in SUBSET {"attnFail"} : Send(t, pel)
  /\ UNCHANGED <<hwVars, watchdog, config, pc, cont, attns, cur, tiVars, log,
                 dumpVars, targets>>

ScanDone(t) ==
  /\ At(t, "scan")
  /\ todo[t] = {}
  /\ Goto(t, "pick")
  /\ UNCHANGED <<hwVars, watchdog, config, loopVars, attns, cur, tiVars, sent,
                 log, dumpVars, targets>>

\* The front of the heap: any attention of the highest priority.
Front(s) == {a \in s : \A b \in s : Rank[b] <= Rank[a]}

FirstLabel(type) ==
  CASE type = "Vital"     -> "vStart"
    [] type = "Checkstop" -> "cStart"
    [] type = "Special"   -> "sStart"

\* Call the handler of the front of the heap.
Pick(t) ==
  /\ At(t, "pick")
  /\ \E a \in Front(attns[t]) :
       /\ cur' = [cur EXCEPT ![t] = a]
       /\ Goto(t, FirstLabel(a.type))
  /\ UNCHANGED <<hwVars, watchdog, config, loopVars, attns, tiVars, sent, log,
                 dumpVars, targets>>

AllAttempted(t) ==
  /\ At(t, "pick")
  /\ attns[t] = {}
  /\ Goto(t, "idle")
  /\ UNCHANGED <<hwVars, watchdog, config, loopVars, attns, cur, tiVars, sent,
                 log, dumpVars, targets>>

--------------------------------------------------------------------------------
(* handleVital() *)

\* Ten seconds after the attention the power must still be good.
VitalStart(t) ==
  /\ At(t, "vStart")
  /\ \/ ~Enabled(t, "enVital") /\ NotHandled(t)
     \/ Enabled(t, "enVital") /\ Handled(t)                  \* power fault
     \/ Enabled(t, "enVital") /\ Goto(t, "vCheck") /\ UNCHANGED attns
  /\ UNCHANGED <<hwVars, watchdog, config, loopVars, cur, tiVars, sent, log,
                 dumpVars, targets>>

\* Recovery is tried if the chip reports no checkstop (a register that cannot be
\* read reports none) and the host is running.
VitalCheck(t) ==
  /\ At(t, "vCheck")
  /\ \/ /\ "Checkstop" \notin ActiveAttn(cur[t].proc) \/ "cfam" \in Faults
        /\ Goto(t, "vHreset")
     \/ Goto(t, "vFailed")
  /\ UNCHANGED <<hwVars, watchdog, config, loopVars, attns, cur, tiVars, sent,
                 log, dumpVars, targets>>

\* hresetSbe(); a reset SBE may drop its attention.
VitalHreset(t) ==
  /\ At(t, "vHreset")
  /\ \/ /\ \E drop \in SUBSET {"Vital"} :
             isr' = [isr EXCEPT ![cur[t].proc] = @ \ drop]
        /\ CallClear(t, "vVerify")
     \/ Goto(t, "vFailed") /\ UNCHANGED <<isr, loopVars>>
  /\ UNCHANGED <<intr, raised, watchdog, config, attns, cur, tiVars, sent, log,
                 dumpVars, targets>>

\* No processor may still latch an SBE interrupt.
VitalVerify(t, p) ==
  /\ At(t, "vVerify")
  /\ p \in todo[t]
  /\ todo' = [todo EXCEPT ![t] = @ \ {p}]
  /\ \/ "Vital" \notin intr[p] /\ UNCHANGED pc
     \/ ("Vital" \in intr[p] \/ "cfam" \in Faults) /\ Goto(t, "vFailed")
  /\ UNCHANGED <<hwVars, watchdog, config, cont, attns, cur, tiVars, sent, log,
                 dumpVars, targets>>

VitalRecovered(t) ==
  /\ At(t, "vVerify")
  /\ todo[t] = {}
  /\ Send(t, {"vitalInfo"})
  /\ Handled(t)
  /\ UNCHANGED <<hwVars, watchdog, config, loopVars, cur, tiVars, log, dumpVars,
                 targets>>

\* The dump is requested even if the PEL was not created and its ID is 0.
VitalFailed(t) ==
  /\ At(t, "vFailed")
  /\ Send(t, {"vitalError"})
  /\ \E ok \in BOOLEAN : log' = [log EXCEPT ![t] = ok]
  /\ CallDump(t, "SBE", "transition")
  /\ UNCHANGED <<hwVars, watchdog, config, todo, attns, cur, tiVars, dump,
                 timedOut, targets>>

--------------------------------------------------------------------------------
(* handleCheckstop() *)

\* Handling is disabled, or there is a power fault: RC_SUCCESS either way.
CheckstopIgnored(t) ==
  /\ At(t, "cStart")
  /\ Handled(t)
  /\ UNCHANGED <<hwVars, watchdog, config, loopVars, cur, tiVars, sent, log,
                 dumpVars, targets>>

\* analyzeHardware() returns 0: it is not supported, or its PEL was not created.
CheckstopNoLog(t) ==
  /\ At(t, "cStart")
  /\ Enabled(t, "enCheckstop")
  /\ \E pel \in SUBSET {"checkstop"} : Send(t, pel)
  /\ NotHandled(t)
  /\ UNCHANGED <<hwVars, watchdog, config, loopVars, cur, tiVars, log, dumpVars,
                 targets>>

CheckstopLogged(t) ==
  /\ At(t, "cStart")
  /\ Enabled(t, "enCheckstop")
  /\ Send(t, {"checkstop"})
  /\ log' = [log EXCEPT ![t] = TRUE]
  /\ CallDump(t, "Hardware", "transition")
  /\ UNCHANGED <<hwVars, watchdog, config, todo, attns, cur, tiVars, dump,
                 timedOut, targets>>

--------------------------------------------------------------------------------
(* handleSpecial(), tiHandler(), bpHandler() *)

\* The static TI info stands in by host state: started or unknown, or not.
StaticTi == [valid : {TRUE}, kind : {"phyp", "src"}]

\* Get the TI info from the SBE, or use the static one; a failed chip operation
\* may come with FFDC, which is committed.
GetTiInfo(t) ==
  /\ At(t, "sStart")
  /\ \/ \E i \in TiInfo : ti' = [ti EXCEPT ![t] = i] /\ UNCHANGED sent
     \/ /\ \E i \in StaticTi : ti' = [ti EXCEPT ![t] = i]
        /\ Send(t, {"sbeChipop"})
  /\ Goto(t, "sDispatch")
  /\ UNCHANGED <<hwVars, watchdog, config, loopVars, attns, cur, recov, log,
                 dumpVars, targets>>

IsTi(t) == ti[t].valid \/ Enabled(t, "dfltTi")
WantsTi(t) == IsTi(t) /\ Enabled(t, "enTerminate")
WantsBp(t) == ~IsTi(t) /\ Enabled(t, "enBreakpoints")

SpecialTi(t) ==
  /\ At(t, "sDispatch")
  /\ WantsTi(t)
  /\ Goto(t, "ti")
  /\ UNCHANGED <<hwVars, watchdog, config, loopVars, attns, cur, tiVars, sent,
                 log, dumpVars, targets>>

\* Tell the debug agent.
SpecialBp(t) ==
  /\ At(t, "sDispatch")
  /\ WantsBp(t)
  /\ \/ Send(t, {"brkpt"}) /\ Handled(t)
     \/ NotHandled(t) /\ UNCHANGED sent
  /\ UNCHANGED <<hwVars, watchdog, config, loopVars, cur, tiVars, log, dumpVars,
                 targets>>

\* The kind of special attention at hand is disabled: RC_SUCCESS.
SpecialIgnored(t) ==
  /\ At(t, "sDispatch")
  /\ ~WantsTi(t) /\ ~WantsBp(t)
  /\ Handled(t)
  /\ UNCHANGED <<hwVars, watchdog, config, loopVars, cur, tiVars, sent, log,
                 dumpVars, targets>>

\* A TI that needs a PEL first looks for recoverable errors on the processors,
\* skipping those it cannot read (a failed read is logged).
PelKind == {"phyp", "src", "srcKey"}

TiRecoverables(t) ==
  /\ At(t, "ti")
  /\ ti[t].kind \in PelKind
  /\ \E skipped \in SUBSET Proc :
       /\ skipped = {} \/ "cfam" \in Faults
       /\ recov' = [recov EXCEPT ![t] =
            \E p \in Proc \ skipped : "Recoverable" \in isr[p]]
       /\ \E pel \in SUBSET {"attnFail"} :
            (pel # {} => skipped # {}) /\ Send(t, pel)
  /\ Goto(t, "tiPel")
  /\ UNCHANGED <<hwVars, watchdog, config, loopVars, attns, cur, ti, log,
                 dumpVars, targets>>

\* Hostboot has logged the error itself, or asks for a clean shutdown.
TiNoPel(t) ==
  /\ At(t, "ti")
  /\ ti[t].kind \notin PelKind
  /\ IF ti[t].kind = "eidDump"
       THEN CallDump(t, "Hostboot", "transition")
       ELSE Goto(t, "transition") /\ UNCHANGED <<dumpType, cont>>
  /\ UNCHANGED <<hwVars, watchdog, config, todo, attns, cur, tiVars, sent, log,
                 dump, timedOut, targets>>

\* A key transition of hostboot leaves the host alone.
AfterTi(t) == IF ti[t].kind = "srcKey" THEN "idle" ELSE "transition"

TiPelFailed(t) ==
  /\ At(t, "tiPel")
  /\ Send(t, {"terminate"})
  /\ Goto(t, AfterTi(t))
  /\ UNCHANGED <<hwVars, watchdog, config, loopVars, attns, cur, tiVars, log,
                 dumpVars, targets>>

\* The PEL is read back, if possible, as the base of a second one with the TI's
\* own SRC; recoverable errors are analyzed in between.  Hostboot gets a dump.
TiPelCreated(t) ==
  /\ At(t, "tiPel")
  /\ \E readBack \in BOOLEAN :
       Send(t, {"terminate"}
                 \cup (IF readBack THEN {"custom"} ELSE {})
                 \cup (IF readBack /\ recov[t] THEN {"analysis"} ELSE {}))
  /\ log' = [log EXCEPT ![t] = TRUE]
  /\ IF ti[t].kind = "phyp"
       THEN Goto(t, "transition") /\ UNCHANGED <<dumpType, cont>>
       ELSE CallDump(t, "Hostboot", AfterTi(t))
  /\ UNCHANGED <<hwVars, watchdog, config, todo, attns, cur, tiVars, dump,
                 timedOut, targets>>

--------------------------------------------------------------------------------
(* requestDump(), monitorDump(), transitionHost() *)

IsWatched(t) == dumpType[t] \in Watched

\* Look for the dump manager and turn the watchdog off; without a dump manager
\* there is no dump.
DumpRequest(t) ==
  /\ At(t, "dump")
  /\ \/ Goto(t, cont[t]) /\ UNCHANGED watchdog
     \/ /\ Goto(t, "dumpCall")
        /\ IF IsWatched(t) THEN SetWatchdog(FALSE) ELSE UNCHANGED watchdog
  /\ UNCHANGED <<hwVars, config, loopVars, attns, cur, tiVars, sent, log,
                 dumpVars, targets>>

\* CreateDump: a reply with the path of the dump, or an exception (the request
\* may have been served all the same).
DumpCreate(t) ==
  /\ At(t, "dumpCall")
  /\ \/ Goto(t, "dumpMatch") /\ dump' = [dump EXCEPT ![t] = "inProgress"]
     \/ Goto(t, "dumpEnd") /\ dump' = [dump EXCEPT ![t] = "unknown"]
  /\ UNCHANGED <<hwVars, watchdog, config, loopVars, attns, cur, tiVars, sent,
                 log, dumpType, timedOut, targets>>

\* Register the match rule for the status of the dump.
DumpMatch(t) ==
  /\ At(t, "dumpMatch")
  /\ \/ Goto(t, "dumpWait") /\ UNCHANGED dump
     \/ Goto(t, "dumpEnd") /\ dump' = [dump EXCEPT ![t] = "unknown"]
  /\ UNCHANGED <<hwVars, watchdog, config, loopVars, attns, cur, tiVars, sent,
                 log, dumpType, timedOut, targets>>

\* Wait until the dump has ended, for an hour at most; an exception ends the wait.
DumpWait(t) ==
  /\ At(t, "dumpWait")
  /\ Goto(t, "dumpEnd")
  /\ \/ dump[t] = "heard" /\ UNCHANGED <<dump, timedOut>>
     \/ dump[t] # "heard" /\ timedOut' = [timedOut EXCEPT ![t] = TRUE]
                          /\ UNCHANGED dump
     \/ dump' = [dump EXCEPT ![t] = "unknown"] /\ UNCHANGED timedOut
  /\ UNCHANGED <<hwVars, watchdog, config, loopVars, attns, cur, tiVars, sent,
                 log, dumpType, targets>>

\* Turn the watchdog back on and return.
DumpEnd(t) ==
  /\ At(t, "dumpEnd")
  /\ IF IsWatched(t) THEN SetWatchdog(TRUE) ELSE UNCHANGED watchdog
  /\ Goto(t, cont[t])
  /\ UNCHANGED <<hwVars, config, loopVars, attns, cur, tiVars, sent, log,
                 dumpVars, targets>>

\* MPIPL for a hypervisor TI if the dump policy allows it, else quiesce; power
\* off if the host is on its way off.
Wanted(t) ==
  {"quiesce", "poweroff"}
    \cup (IF cur[t].type = "Special" /\ ti[t].kind = "phyp" THEN {"crash"} ELSE {})

\* transitionHost(), the last call of every handler that makes it; an exception
\* is only traced.
Transition(t) ==
  /\ At(t, "transition")
  /\ \/ \E target \in Wanted(t) :
          targets' = [targets EXCEPT ![t] = Append(@, target)]
     \/ UNCHANGED targets
  /\ Handled(t)
  /\ UNCHANGED <<hwVars, watchdog, config, loopVars, cur, tiVars, sent, log,
                 dumpVars>>

--------------------------------------------------------------------------------

\* The steps of thread t inside attnHandler().
Step(t) ==
  \/ ClearDone(t) \/ ScanDone(t) \/ Pick(t) \/ AllAttempted(t)
  \/ \E p \in Proc :
       ClearIntr(t, p) \/ ScanProc(t, p) \/ ScanUnreadable(t, p) \/ VitalVerify(t, p)
  \/ VitalStart(t) \/ VitalCheck(t) \/ VitalHreset(t) \/ VitalRecovered(t)
  \/ VitalFailed(t)
  \/ CheckstopIgnored(t) \/ CheckstopNoLog(t) \/ CheckstopLogged(t)
  \/ GetTiInfo(t) \/ SpecialTi(t) \/ SpecialBp(t) \/ SpecialIgnored(t)
  \/ TiRecoverables(t) \/ TiNoPel(t) \/ TiPelFailed(t) \/ TiPelCreated(t)
  \/ DumpRequest(t) \/ DumpCreate(t) \/ DumpMatch(t) \/ DumpWait(t) \/ DumpEnd(t)
  \/ Transition(t)

Environment ==
  \/ \E p \in Proc : HostClears(p) \/ \E s \in Signal : Raise(p, s)
  \/ \E t \in Thread :
       Cancel(t) \/ DumpCompletes(t) \/ \E c \in Settings : SetConfig(t, c)

Next == Environment \/ \E t \in Thread : Start(t) \/ Step(t)

\* Every call the handler makes returns: D-Bus calls and register accesses have
\* time limits of their own, the waits for a dump and for an hreset are bounded.
\* Nothing obliges the hardware, the listener or a dump to act.
Fairness == \A t \in Thread : WF_vars(Step(t))

Spec == Init /\ [][Next]_vars /\ Fairness

--------------------------------------------------------------------------------
(* Properties *)

HwTypeOK ==
  /\ isr \in [Proc -> SUBSET Signal]
  /\ intr \in [Proc -> SUBSET AttnType]
  /\ raised \in 0 .. MaxRaise
  /\ watchdog \in BOOLEAN

ControlTypeOK ==
  /\ config \in [Thread -> SUBSET Flag]
  /\ pc \in [Thread -> Label]
  /\ todo \in [Thread -> SUBSET Proc]
  /\ cont \in [Thread -> Label]

AttentionTypeOK ==
  /\ attns \in [Thread -> SUBSET Attention]
  /\ cur \in [Thread -> Attention \cup {NoAttn}]
  /\ ti \in [Thread -> TiInfo]
  /\ recov \in [Thread -> BOOLEAN]

EffectTypeOK ==
  /\ sent \in [Thread -> SUBSET Sent]
  /\ log \in [Thread -> BOOLEAN]
  /\ dumpType \in [Thread -> DumpType]
  /\ dump \in [Thread -> DumpState]
  /\ timedOut \in [Thread -> BOOLEAN]
  /\ targets \in [Thread -> Seq(Target)]

TypeOK == HwTypeOK /\ ControlTypeOK /\ AttentionTypeOK /\ EffectTypeOK

\* An invocation starts at most one systemd target, whatever attentions it finds
\* and however its handlers fail; and it goes on to another attention only as
\* long as it has asked for no dump and started no target.
OneTransition ==
  \A t \in Thread :
    /\ Len(targets[t]) <= 1
    /\ At(t, "pick") => targets[t] = <<>> /\ dump[t] = "none"

\* A hardware or hostboot dump is always tied to an error log that exists: the
\* analyzer's, the terminate PEL, or the one hostboot has named.
DumpHasLog ==
  \A t \in Thread :
    dump[t] # "none" /\ IsWatched(t) => log[t] \/ ti[t].kind = "eidDump"

\* The host is not transitioned under a dump that is known to be in progress,
\* or whose end went unnoticed, unless the wait for it has timed out.
TransitionAfterDump ==
  \A t \in Thread :
    targets[t] # <<>> /\ dump[t] \in {"inProgress", "missed"} => timedOut[t]

\* The host is not transitioned unless a PEL was asked for first, or hostboot,
\* which ended by a TI with EID or a clean shutdown, is known to need none.
TransitionLogged ==
  \A t \in Thread :
    targets[t] # <<>> =>
      \/ sent[t] \cap {"vitalError", "checkstop", "terminate"} # {}
      \/ cur[t].type = "Special" /\ ti[t].kind \notin PelKind

\* The watchdog is disabled exactly while requestDump() has a hardware or
\* hostboot dump in hand: it is off for all of it, and on again afterwards.
WatchdogExact ==
  ~watchdog <=> \E t \in Thread : pc[t] \in DumpLabel \ {"dump"} /\ IsWatched(t)

\* Every invocation of attnHandler() returns, unless its thread is cancelled,
\* even if the end of a dump goes unnoticed.
Returns ==
  \A t \in Thread : ~At(t, "idle") ~> pc[t] \in {"idle", "dead"}

--------------------------------------------------------------------------------
(* The service attnHandler() provides, AttnService, in terms of its state.  *)

\* Interrupts are cleared before the scan, and again after an SBE hreset.
Collecting(t) == At(t, "scan") \/ (At(t, "clear") /\ cont[t] = "scan")

PhaseOf(t) ==
  CASE At(t, "idle") -> "idle"
    [] At(t, "dead") -> "dead"
    [] At(t, "pick") -> "choosing"
    [] Collecting(t) -> "collecting"
    [] OTHER         -> "serving"

PendingOf(t) == IF Collecting(t) \/ At(t, "dead") THEN {} ELSE attns[t]

AskedOf(t) ==
  IF targets[t] # <<>> THEN "transition"
  ELSE IF dump[t] # "none" THEN "dump" ELSE "nothing"

Phases   == [t \in Thread |-> PhaseOf(t)]
Pendings == [t \in Thread |-> PendingOf(t)]
Askeds   == [t \in Thread |-> AskedOf(t)]

Service == INSTANCE AttnService WITH
  phase <- Phases, pending <- Pendings, serving <- cur, asked <- Askeds

\* An invocation of attnHandler() collects the active attentions, tries them in
\* order of priority, gives one up only without consequences, and ends with one
\* dump and one transition of the host at most, in this order.
ImplementsService == Service!Spec

\* No attention is left pending that outranks the one that is or was served: an
\* invocation goes down in priority, two equal attentions in any order.
DownInPriority == Service!DownInPriority

\* An attention whose handler gave it up is not tried a second time in the same
\* invocation, and none is served that is not in the heap.
TriedOnce == Service!TriedOnce

--------------------------------------------------------------------------------
(* What the documents and comments say and the code does not do *)

\* attn_dump.cpp: "So disable the watchdog when the dump collection is in
\* progress."
WatchdogOffInDump ==
  \A t \in Thread : At(t, "dumpWait") /\ IsWatched(t) => ~watchdog

================================================================================
