------------------------------- MODULE AttnMonitor -------------------------------
(***************************************************************************)
(* The daemon of the build without a listener (option nlmode): it handles  *)
(* the attentions that are pending, requests the attention line, and runs  *)
(* attnHandler() for each falling edge of the line that finds it low.      *)
(*                                                                         *)
(* External are the hardware, which holds the line low as long as an       *)
(* interrupt is latched, the kernel, which queues falling edges of a line  *)
(* that was requested, and systemd.  What the handler does about the       *)
(* attentions it finds is the subject of AttnHandler; here it matters      *)
(* which ones it sees: those that are active and not masked, on processors *)
(* whose registers can be read.                                            *)
(***************************************************************************)
EXTENDS Integers, FiniteSets

CONSTANTS
  Proc,      \* active processors
  Kind,      \* types of attention
  Unmasked,  \* CFAM 0x100d: attentions that are not masked
  Clears,    \* values flag enClrAttnIntr may have when the handler starts
  Fifo,      \* edges the kernel can queue
  MaxRaise,  \* bound on the attentions raised
  MaxFault,  \* bound on the accesses to registers and line that fail
  MaxStart   \* bound on the starts of the daemon

ASSUME MonitorAssumption ==
  /\ IsFiniteSet(Proc)
  /\ Unmasked \subseteq Proc \X Kind
  /\ Clears \subseteq BOOLEAN
  /\ Fifo \in Nat \ {0}
  /\ MaxRaise \in Nat
  /\ MaxFault \in Nat
  /\ MaxStart \in Nat

Attention == Proc \X Kind
Of(p) == {p} \X Kind

VARIABLES
  isr,        \* CFAM 0x1007: attentions that are active
  intr,       \* CFAM 0x100b: attention interrupts that are latched
  phase,      \* what the daemon is doing
  todo,       \* processors the present loop has still to visit
  cont,       \* what comes after the clear loop
  found,      \* active_attentions of the present invocation
  requested,  \* the line was requested from the kernel
  events,     \* falling edges in the queue
  faults,     \* number of accesses to registers and line that failed
  raised,     \* number of attentions raised
  starts,     \* number of starts of the daemon
  falls,      \* history: falling edges that were queued
  runs,       \* history: invocations of attnHandler()
  unseen,     \* history: active attentions that no scan has found
  edges,      \* history: active attentions that made the line fall
  lost        \* history: unseen attentions that a failed access has passed over

hwVars == <<isr, intr, raised>>
loopVars == <<todo, cont, found>>
lineVars == <<requested, events>>
seenVars == <<unseen, edges, lost>>
vars == <<hwVars, phase, loopVars, lineVars, faults, starts, falls, runs, seenVars>>

Phase == {"off", "clear", "scan", "handle", "return", "request", "wait", "value", "ended"}

Init ==
  /\ isr = {}
  /\ intr = {}
  /\ phase = "off"
  /\ todo = {}
  /\ cont = "scan"
  /\ found = {}
  /\ requested = FALSE
  /\ events = 0
  /\ faults = 0
  /\ raised = 0
  /\ starts = 0
  /\ falls = 0
  /\ runs = 0
  /\ unseen = {}
  /\ edges = {}
  /\ lost = {}

Low == intr # {}

--------------------------------------------------------------------------------
(* The environment. *)

\* An attention pulls the line down, unless it is low already.  One that is masked
\* may be latched or not.
Raise(a) ==
  /\ raised < MaxRaise
  /\ a \notin isr
  /\ raised' = raised + 1
  /\ isr' = isr \cup {a}
  /\ intr' \in {intr \cup {a}} \cup (IF a \in Unmasked THEN {} ELSE {intr})
  /\ unseen' = unseen \cup {a}
  /\ IF requested /\ ~Low /\ Low'
       THEN /\ events' = IF events < Fifo THEN events + 1 ELSE events
            /\ falls' = falls + 1
            /\ edges' = edges \cup {a}
       ELSE UNCHANGED <<events, falls, edges>>
  /\ UNCHANGED <<phase, loopVars, requested, faults, starts, runs, lost>>

\* The host is restarted, or a debugger clears what it has caused; after a
\* memory preserving restart the interrupts may still be set.
HostClears(p) ==
  /\ isr \cap Of(p) # {}
  /\ isr' = isr \ Of(p)
  /\ intr' \in {intr, intr \ Of(p)}
  /\ unseen' = unseen \ Of(p)
  /\ edges' = edges \ Of(p)
  /\ lost' = lost \ Of(p)
  /\ UNCHANGED <<raised, phase, loopVars, lineVars, faults, starts, falls, runs>>

--------------------------------------------------------------------------------
(* Faulty variants of definitions below, which the properties must tell from them. *)

\* The line is read before there is an event.
ReadEventAtOnce ==
  /\ phase = "wait"
  /\ events' = events - 1
  /\ phase' = "value"
  /\ UNCHANGED <<hwVars, loopVars, requested, faults, starts, falls, runs, seenVars>>

\* An event whose value is looked at is left in the queue.
ReadEventPeeks ==
  /\ phase = "wait"
  /\ events > 0
  /\ phase' = "value"
  /\ UNCHANGED <<hwVars, loopVars, lineVars, faults, starts, falls, runs, seenVars>>

\* After a register that cannot be read no further processor is visited.
ScanUnreadableBreaks(p) ==
  /\ phase = "scan"
  /\ p \in todo
  /\ faults < MaxFault
  /\ faults' = faults + 1
  /\ todo' = {}
  /\ lost' = lost \cup (unseen \cap Of(p))
  /\ UNCHANGED <<hwVars, phase, cont, found, lineVars, starts, falls, runs, unseen, edges>>

\* An event is dropped as out of sync whether the line is high or low.
LineHighEither ==
  /\ phase = "value"
  /\ phase' = "wait"
  /\ UNCHANGED <<hwVars, loopVars, lineVars, faults, starts, falls, runs, seenVars>>

--------------------------------------------------------------------------------
(* attnHandler(). *)

\* Latched interrupts are cleared first, if the flag is set.
EnterHandler ==
  /\ runs' = runs + 1
  /\ \E clear \in Clears : phase' = IF clear THEN "clear" ELSE "scan"
  /\ todo' = Proc
  /\ cont' = "scan"
  /\ found' = {}

\* To clear an interrupt whose attention is active has no effect.
Clear(p) ==
  /\ phase = "clear"
  /\ p \in todo
  /\ todo' = todo \ {p}
  /\ intr' = intr \ (Of(p) \ isr)
  /\ UNCHANGED <<isr, raised, phase, cont, found, lineVars, faults, starts, falls, runs, seenVars>>

\* CFAM 0x100b can be read or written not at all: a trace is all there is.
ClearUnreadable(p) ==
  /\ phase = "clear"
  /\ p \in todo
  /\ faults < MaxFault
  /\ faults' = faults + 1
  /\ todo' = todo \ {p}
  /\ UNCHANGED <<hwVars, phase, cont, found, lineVars, starts, falls, runs, seenVars>>

Cleared ==
  /\ phase = "clear"
  /\ todo = {}
  /\ phase' = cont
  /\ todo' = IF cont = "scan" THEN Proc ELSE {}
  /\ UNCHANGED <<hwVars, cont, found, lineVars, faults, starts, falls, runs, seenVars>>

Scan(p) ==
  /\ phase = "scan"
  /\ p \in todo
  /\ todo' = todo \ {p}
  /\ found' = found \cup (isr \cap Of(p) \cap Unmasked)
  /\ unseen' = unseen \ (Of(p) \cap Unmasked)
  /\ lost' = lost \ (Of(p) \cap Unmasked)
  /\ UNCHANGED <<hwVars, phase, cont, lineVars, faults, starts, falls, runs, edges>>

\* CFAM 0x1007 or 0x100d cannot be read or is invalid: the loop goes on with the
\* next processor, and what is active on this one is not seen.
ScanUnreadable(p) ==
  /\ phase = "scan"
  /\ p \in todo
  /\ faults < MaxFault
  /\ faults' = faults + 1
  /\ todo' = todo \ {p}
  /\ lost' = lost \cup (unseen \cap Of(p))
  /\ UNCHANGED <<hwVars, phase, cont, found, lineVars, starts, falls, runs, unseen, edges>>

Scanned ==
  /\ phase = "scan"
  /\ todo = {}
  /\ phase' = "handle"
  /\ UNCHANGED <<hwVars, loopVars, lineVars, faults, starts, falls, runs, seenVars>>

\* The attention of highest priority is handled, whatever that takes.
Handle ==
  /\ phase = "handle"
  /\ phase' = "return"
  /\ found' = {}
  /\ UNCHANGED <<hwVars, todo, cont, lineVars, faults, starts, falls, runs, seenVars>>

\* An SBE has recovered: its attention is gone and interrupts are cleared again.
Recover(a) ==
  /\ phase = "handle"
  /\ a \in found
  /\ found' = {}
  /\ isr' = isr \ {a}
  /\ unseen' = unseen \ {a}
  /\ edges' = edges \ {a}
  /\ lost' = lost \ {a}
  /\ phase' = "clear"
  /\ todo' = Proc
  /\ cont' = "return"
  /\ UNCHANGED <<intr, raised, lineVars, faults, starts, falls, runs>>

\* The handler was called for what was pending, or by the monitor.
HandlerReturns ==
  /\ phase = "return"
  /\ phase' = IF requested THEN "wait" ELSE "request"
  /\ UNCHANGED <<hwVars, loopVars, lineVars, faults, starts, falls, runs, seenVars>>

--------------------------------------------------------------------------------
(* The daemon and its monitor. *)

Start ==
  /\ phase \in {"off", "ended"}
  /\ starts < MaxStart
  /\ starts' = starts + 1
  /\ EnterHandler
  /\ UNCHANGED <<hwVars, lineVars, faults, falls, seenVars>>

\* requestGPIOEvent(): the kernel queues the edges from now on.
RequestLine ==
  /\ phase = "request"
  /\ requested' = TRUE
  /\ phase' = "wait"
  /\ UNCHANGED <<hwVars, loopVars, events, faults, starts, falls, runs, seenVars>>

\* Without the line, or with an error of the wait, nothing keeps the I/O service
\* running and the process ends, with status 0 whatever attnDaemon() returns.
MonitorEnds ==
  /\ phase \in {"request", "wait"}
  /\ faults < MaxFault
  /\ faults' = faults + 1
  /\ phase' = "ended"
  /\ requested' = FALSE
  /\ events' = 0
  /\ UNCHANGED <<hwVars, loopVars, starts, falls, runs, seenVars>>

\* One event is read, then the line.
ReadEvent ==
  /\ phase = "wait"
  /\ events > 0
  /\ events' = events - 1
  /\ phase' = "value"
  /\ UNCHANGED <<hwVars, loopVars, requested, faults, starts, falls, runs, seenVars>>

\* The callback is registered again, with the event still in the queue.
ReadEventFails ==
  /\ phase = "wait"
  /\ events > 0
  /\ faults < MaxFault
  /\ faults' = faults + 1
  /\ UNCHANGED <<hwVars, phase, loopVars, lineVars, starts, falls, runs, seenVars>>

LineLow ==
  /\ phase = "value"
  /\ Low
  /\ EnterHandler
  /\ UNCHANGED <<hwVars, lineVars, faults, starts, falls, seenVars>>

\* Out of sync: the interrupt behind the event is gone.
LineHigh ==
  /\ phase = "value"
  /\ ~Low
  /\ phase' = "wait"
  /\ UNCHANGED <<hwVars, loopVars, lineVars, faults, starts, falls, runs, seenVars>>

\* An unexpected value, that of an error included: the event is dropped.
LineUnknown ==
  /\ phase = "value"
  /\ faults < MaxFault
  /\ faults' = faults + 1
  /\ lost' = unseen
  /\ phase' = "wait"
  /\ UNCHANGED <<hwVars, loopVars, lineVars, starts, falls, runs, unseen, edges>>

Step ==
  \/ \E p \in Proc : Clear(p) \/ ClearUnreadable(p) \/ Scan(p) \/ ScanUnreadable(p)
  \/ \E a \in Attention : Recover(a)
  \/ Cleared \/ Scanned \/ Handle \/ HandlerReturns
  \/ RequestLine \/ MonitorEnds \/ ReadEvent \/ ReadEventFails
  \/ LineLow \/ LineHigh \/ LineUnknown

Next ==
  \/ \E a \in Attention : Raise(a)
  \/ \E p \in Proc : HostClears(p)
  \/ Start
  \/ Step

\* Nobody is obliged to start the daemon, or to raise an attention.
Fairness == WF_vars(Step)

Spec == Init /\ [][Next]_vars /\ Fairness

--------------------------------------------------------------------------------
(* Properties. *)

\* The variables stay in their types; what is seen or unseen is active, and what
\* is active and not masked is latched.
TypeOK ==
  /\ isr \subseteq Attention
  /\ intr \subseteq Attention
  /\ isr \cap Unmasked \subseteq intr
  /\ phase \in Phase
  /\ todo \subseteq Proc
  /\ cont \in {"scan", "return"}
  /\ found \subseteq Unmasked
  /\ requested \in BOOLEAN
  /\ events \in 0 .. Fifo
  /\ faults \in 0 .. MaxFault
  /\ raised \in 0 .. MaxRaise
  /\ starts \in 0 .. MaxStart
  /\ falls \in Nat
  /\ runs \in Nat
  /\ unseen \subseteq isr
  /\ edges \subseteq isr
  /\ lost \subseteq unseen

\* Attentions that pulled the line down, are not masked, and have been neither
\* found nor passed over.
Due == (edges \cap unseen \cap Unmasked) \ lost

\* An attention that pulled the line down while the daemon had it is left unseen by
\* nothing but a failed access: when the monitor waits and no event is queued, a
\* scan has found it, or could not read the registers of its processor, or the
\* line's value was lost; however late its event was read, whatever else was
\* cleared in between, and whatever failed for another processor
\* (handleGPIOEvent(), attnHandler() and clearAttnInterrupts()).
EdgeServed ==
  phase = "wait" /\ events = 0 => Due = {}

\* attnHandler() runs once for a start, and at most once for a falling edge: an
\* event is not served again when the line stays low.
RunsBounded ==
  runs + events + (IF phase = "value" THEN 1 ELSE 0) <= falls + starts

\* The scan gets to an attention that pulled the line down and is not masked, unless
\* the host clears it first, an access to its registers or to the line fails, or
\* the monitoring ends with an error (handleGPIOEvent() and attnHandler()).
EdgeSeen ==
  \A a \in Unmasked :
    a \in Due ~> a \notin unseen \/ a \in lost \/ phase = "ended"

================================================================================
