------------------------------ MODULE AttnService ------------------------------
(***************************************************************************)
(* What one invocation of the attention handler promises, whatever the     *)
(* kinds of attention are and however they are serviced.  It collects the  *)
(* active attentions, tries them one at a time in order of priority, and   *)
(* gives one up only if it has asked for no dump and left the host alone.  *)
(* It asks for one dump at most, then for one host transition at most, and *)
(* the transition ends the invocation.  A thread may be cancelled at any   *)
(* point.  AttnHandler implements this specification.                      *)
(***************************************************************************)
EXTENDS Naturals

CONSTANTS
  Thread,     \* threads that run the handler
  Attention,  \* attentions that may be found
  Rank,       \* priority of each attention, a higher number is served first
  NoAttn      \* not an attention

VARIABLES
  phase,    \* what each thread is doing
  pending,  \* attentions found and not yet given up
  serving,  \* the attention serviced last
  asked     \* what has been asked of the rest of the BMC so far

vars == <<phase, pending, serving, asked>>

Phase == {"idle", "collecting", "choosing", "serving", "dead"}
Asked == {"nothing", "dump", "transition"}

Init ==
  /\ phase = [t \in Thread |-> "idle"]
  /\ pending = [t \in Thread |-> {}]
  /\ serving = [t \in Thread |-> NoAttn]
  /\ asked = [t \in Thread |-> "nothing"]

Enter(t, p) == phase' = [phase EXCEPT ![t] = p]

--------------------------------------------------------------------------------

Begin(t) ==
  /\ phase[t] = "idle"
  /\ Enter(t, "collecting")
  /\ pending' = [pending EXCEPT ![t] = {}]
  /\ serving' = [serving EXCEPT ![t] = NoAttn]
  /\ asked' = [asked EXCEPT ![t] = "nothing"]

Collect(t) ==
  /\ phase[t] = "collecting"
  /\ Enter(t, "choosing")
  /\ \E found \in SUBSET Attention : pending' = [pending EXCEPT ![t] = found]
  /\ UNCHANGED <<serving, asked>>

\* Serve an attention that no pending one outranks.
Choose(t) ==
  /\ phase[t] = "choosing"
  /\ \E a \in pending[t] :
       /\ \A b \in pending[t] : Rank[b] <= Rank[a]
       /\ serving' = [serving EXCEPT ![t] = a]
  /\ Enter(t, "serving")
  /\ UNCHANGED <<pending, asked>>

GiveUp(t) ==
  /\ phase[t] = "serving"
  /\ asked[t] = "nothing"
  /\ pending' = [pending EXCEPT ![t] = @ \ {serving[t]}]
  /\ Enter(t, "choosing")
  /\ UNCHANGED <<serving, asked>>

AskDump(t) ==
  /\ phase[t] = "serving"
  /\ asked[t] = "nothing"
  /\ asked' = [asked EXCEPT ![t] = "dump"]
  /\ UNCHANGED <<phase, pending, serving>>

AskTransition(t) ==
  /\ phase[t] = "serving"
  /\ asked' = [asked EXCEPT ![t] = "transition"]
  /\ Enter(t, "idle")
  /\ UNCHANGED <<pending, serving>>

\* The attention was serviced without a transition of the host.
Finish(t) ==
  /\ phase[t] = "serving"
  /\ Enter(t, "idle")
  /\ UNCHANGED <<pending, serving, asked>>

Exhausted(t) ==
  /\ phase[t] = "choosing"
  /\ pending[t] = {}
  /\ Enter(t, "idle")
  /\ UNCHANGED <<pending, serving, asked>>

Cancel(t) ==
  /\ phase[t] # "dead"
  /\ Enter(t, "dead")
  /\ pending' = [pending EXCEPT ![t] = {}]
  /\ UNCHANGED <<serving, asked>>

Next ==
  \E t \in Thread :
    \/ Begin(t) \/ Collect(t) \/ Choose(t) \/ GiveUp(t) \/ AskDump(t)
    \/ AskTransition(t) \/ Finish(t) \/ Exhausted(t) \/ Cancel(t)

Spec == Init /\ [][Next]_vars

--------------------------------------------------------------------------------
(* Properties *)

TypeOK ==
  /\ phase \in [Thread -> Phase]
  /\ pending \in [Thread -> SUBSET Attention]
  /\ serving \in [Thread -> Attention \cup {NoAttn}]
  /\ asked \in [Thread -> Asked]

\* Once an attention has been served nothing pending outranks it, so that an
\* invocation of attnHandler() goes down in priority and never up again.
DownInPriority ==
  \A t \in Thread :
    phase[t] \in {"choosing", "serving"} /\ serving[t] # NoAttn =>
      \A a \in pending[t] : Rank[a] <= Rank[serving[t]]

\* An attention that was given up is not tried again in the same invocation: it
\* is pending while it is served, and is not when the next one is chosen.
TriedOnce ==
  \A t \in Thread :
    /\ phase[t] = "serving" => serving[t] \in pending[t]
    /\ phase[t] = "choosing" => serving[t] \notin pending[t]

================================================================================
