---------------------------- MODULE AnalyzerProofs ----------------------------
(***************************************************************************)
(* What holds of an analysis for every device tree, every set of data      *)
(* files and every list of signatures. Of its callout list: no part and no *)
(* procedure is in it twice, nothing that was called out is lost, and an   *)
(* exception always leaves a call for next level support behind. What it   *)
(* may leave on the stack of the parser for the next one. That every call  *)
(* and every entry has its type, whatever plugin made it. And which chips  *)
(* it may guard for a step check fault of the TOD.                         *)
(***************************************************************************)
EXTENDS RootCauseProofs, SequenceTheorems, FiniteSetTheorems, TLAPS

--------------------------------------------------------------------------------
(* One callout *)

\* What is kept from one list to a later one: each entry has its place, is about
\* the same thing, and does not fall to a lower level.
Kept(list, later) ==
  \A i \in DOMAIN list :
    /\ i \in DOMAIN later
    /\ SameCallout(list[i], later[i])
    /\ Level(list[i].priority) <= Level(later[i].priority)

\* No two entries are about the same thing.
Unique(list) ==
  \A i, j \in DOMAIN list : SameCallout(list[i], list[j]) => i = j

\* An entry for a procedure is no more than its name and its priority.
Plain(list) ==
  \A i \in DOMAIN list :
    list[i].type = "Procedure" => list[i] = ProcedureCallout(list[i].key, list[i].priority)

Good(list) == IsList(list) /\ Unique(list) /\ Plain(list)

\* The shape of what AddCallout yields.
LEMMA AddShape ==
  ASSUME NEW list, IsList(list), NEW c
  PROVE  LET new == AddCallout(list, c)
             same == {i \in DOMAIN list : SameCallout(list[i], c)}
         IN /\ IsList(new)
            /\ same = {} => /\ DOMAIN new = DOMAIN list \cup {Len(list) + 1}
                            /\ Len(list) + 1 \notin DOMAIN list
                            /\ new[Len(list) + 1] = c
                            /\ \A i \in DOMAIN list : new[i] = list[i]
            /\ same # {} => /\ DOMAIN new = DOMAIN list
                            /\ \A i \in DOMAIN list :
                                 new[i] = IF /\ SameCallout(list[i], c)
                                             /\ Level(list[i].priority) < Level(c.priority)
                                            THEN c ELSE list[i]
<1> DEFINE new == AddCallout(list, c)
           same == {i \in DOMAIN list : SameCallout(list[i], c)}
<1>1. PICK S : list \in Seq(S)
  BY DEF IsList
<1> DEFINE T == S \cup {c}
<1>2. list \in Seq(T)
  BY <1>1
<1>3. Len(list) \in Nat /\ DOMAIN list = 1 .. Len(list) /\ \A i \in DOMAIN list : list[i] \in T
  BY <1>2
<1>4. CASE same = {}
  <2>1. new = Append(list, c)
    BY <1>4 DEF AddCallout
  <2>2. new \in Seq(T) /\ DOMAIN new = 1 .. (Len(list) + 1)
    BY <1>2, <2>1
  <2>3. new[Len(list) + 1] = c /\ \A i \in DOMAIN list : new[i] = list[i]
    BY <1>2, <1>3, <2>1
  <2>4. DOMAIN new = DOMAIN list \cup {Len(list) + 1} /\ Len(list) + 1 \notin DOMAIN list
    BY <1>3, <2>2
  <2>5. QED
    BY <1>4, <2>2, <2>3, <2>4 DEF IsList
<1>5. CASE same # {}
  <2> DEFINE At(i) == IF i \in same /\ Level(list[i].priority) < Level(c.priority)
                        THEN c ELSE list[i]
  <2>1. new = [i \in DOMAIN list |-> At(i)]
    BY <1>5 DEF AddCallout
  <2>2. \A i \in DOMAIN list : At(i) \in T
    BY <1>3
  <2>3. new \in [1 .. Len(list) -> T]
    BY <1>3, <2>1, <2>2
  <2>4. new \in Seq(T)
    BY <1>3, <2>3, SeqDef
  <2>5. QED
    BY <1>5, <2>1, <2>4 DEF IsList
<1>6. QED
  BY <1>4, <1>5

\* A level is a number.
LEMMA Levels ==
  ASSUME NEW priority
  PROVE  Level(priority) \in Nat /\ (Level(priority) >= 3 => priority = "HIGH")
  BY DEF Level

\* A callout is added without loss, whatever its priority and whatever is in the
\* list already.
LEMMA AddKeeps ==
  ASSUME NEW list, Good(list), NEW c,
         c.type = "Procedure" => c = ProcedureCallout(c.key, c.priority)
  PROVE  Good(AddCallout(list, c)) /\ Kept(list, AddCallout(list, c))
<1> DEFINE new == AddCallout(list, c)
           same == {i \in DOMAIN list : SameCallout(list[i], c)}
           n == Len(list) + 1
<1>1. IsList(list) /\ IsList(new)
  BY AddShape DEF Good
<1>2. CASE same = {}
  <2>1. /\ DOMAIN new = DOMAIN list \cup {n} /\ n \notin DOMAIN list
        /\ new[n] = c /\ \A i \in DOMAIN list : new[i] = list[i]
    BY <1>1, <1>2, AddShape
  <2>2. \A i \in DOMAIN list : ~SameCallout(list[i], c) /\ ~SameCallout(c, list[i])
    BY <1>2 DEF SameCallout
  <2>3. Unique(new)
    BY <2>1, <2>2 DEF Good, Unique
  <2>4. Plain(new)
    BY <2>1 DEF Good, Plain
  <2>5. Kept(list, new)
    BY <2>1, Levels DEF Kept, SameCallout
  <2>6. QED
    BY <1>1, <2>3, <2>4, <2>5 DEF Good
<1>3. CASE same # {}
  <2>1. /\ DOMAIN new = DOMAIN list
        /\ \A i \in DOMAIN list :
             \/ new[i] = list[i]
             \/ /\ new[i] = c /\ SameCallout(list[i], c)
                /\ Level(list[i].priority) < Level(c.priority)
    BY <1>1, <1>3, AddShape
  <2>2. \A i \in DOMAIN list : SameCallout(list[i], new[i])
    BY <2>1 DEF SameCallout
  <2>3. Unique(new)
    <3> SUFFICES ASSUME NEW i \in DOMAIN list, NEW j \in DOMAIN list,
                        SameCallout(new[i], new[j])
                 PROVE  i = j
      BY <2>1 DEF Unique
    <3>1. SameCallout(list[i], list[j])
      BY <2>2 DEF SameCallout
    <3>2. QED
      BY <3>1 DEF Good, Unique
  <2>4. Plain(new)
    BY <2>1 DEF Good, Plain
  <2>5. Kept(list, new)
    BY <2>1, <2>2, Levels DEF Kept
  <2>6. QED
    BY <1>1, <2>3, <2>4, <2>5 DEF Good
<1>4. QED
  BY <1>2, <1>3

\* A callout for next level support of the highest priority is in the list
\* afterwards as it was asked for.
LEMMA AddReports ==
  ASSUME NEW list, Good(list), NEW name
  PROVE  LET c == ProcedureCallout(name, "HIGH")
         IN \E i \in DOMAIN AddCallout(list, c) : AddCallout(list, c)[i] = c
<1> DEFINE c == ProcedureCallout(name, "HIGH")
           same == {i \in DOMAIN list : SameCallout(list[i], c)}
<1>1. CASE same = {}
  <2>1. Len(list) + 1 \in DOMAIN AddCallout(list, c)
        /\ AddCallout(list, c)[Len(list) + 1] = c
    BY <1>1, AddShape DEF Good
  <2>2. QED
    BY <2>1
<1>2. CASE same # {}
  <2>1. PICK i \in DOMAIN list : SameCallout(list[i], c)
    BY <1>2
  <2>2. i \in DOMAIN AddCallout(list, c)
        /\ AddCallout(list, c)[i] =
             IF Level(list[i].priority) < Level(c.priority) THEN c ELSE list[i]
    BY <1>2, <2>1, AddShape DEF Good
  <2>3. CASE Level(list[i].priority) < Level(c.priority)
    BY <2>2, <2>3
  <2>4. CASE ~(Level(list[i].priority) < Level(c.priority))
    <3>1. list[i].priority = "HIGH"
      BY <2>4, Levels DEF ProcedureCallout, Level
    <3>2. list[i].type = "Procedure" /\ list[i].key = name
      BY <2>1 DEF SameCallout, ProcedureCallout
    <3>3. list[i] = c
      BY <3>1, <3>2 DEF Good, Plain
    <3>4. QED
      BY <2>2, <2>4, <3>3
  <2>5. QED
    BY <2>3, <2>4
<1>3. QED
  BY <1>1, <1>2

\* Nothing is lost from list to list.
LEMMA KeptTransitive ==
  ASSUME NEW a, NEW b, NEW c, Kept(a, b), Kept(b, c)
  PROVE  Kept(a, c)
<1> SUFFICES ASSUME NEW i \in DOMAIN a
             PROVE  /\ i \in DOMAIN c
                    /\ SameCallout(a[i], c[i])
                    /\ Level(a[i].priority) <= Level(c[i].priority)
  BY DEF Kept
<1>1. /\ i \in DOMAIN b /\ SameCallout(a[i], b[i])
      /\ Level(a[i].priority) <= Level(b[i].priority)
  BY DEF Kept
<1>2. /\ i \in DOMAIN c /\ SameCallout(b[i], c[i])
      /\ Level(b[i].priority) <= Level(c[i].priority)
  BY <1>1 DEF Kept
<1>3. SameCallout(a[i], c[i])
  BY <1>1, <1>2 DEF SameCallout
<1>4. /\ Level(a[i].priority) \in Nat /\ Level(b[i].priority) \in Nat
      /\ Level(c[i].priority) \in Nat
  BY Levels
<1>5. QED
  BY <1>1, <1>2, <1>3, <1>4

\* Nothing is lost from a list to itself.
LEMMA KeptReflexive == \A list : Kept(list, list)
<1> SUFFICES ASSUME NEW list PROVE Kept(list, list)
  OBVIOUS
<1>1. \A p : Level(p) <= Level(p)
  BY Levels
<1>2. QED
  BY <1>1 DEF Kept, SameCallout

\* The entries a call makes are plain ones.
LEMMA PlainEntries ==
  /\ \A t, priority, guard, k : TargetCallout(t, priority, guard, k).type # "Procedure"
  /\ \A priority : BackplaneCallout(priority).type # "Procedure"
  /\ \A name, priority : LET c == ProcedureCallout(name, priority)
                         IN c = ProcedureCallout(c.key, c.priority)
  BY DEF TargetCallout, BackplaneCallout, ProcedureCallout

\* A call, whatever it is about, adds its callouts without loss.
LEMMA CallKeeps ==
  ASSUME NEW list, Good(list), NEW call, NEW k
  PROVE  Good(CalloutList(list, call, k)) /\ Kept(list, CalloutList(list, call, k))
<1> DEFINE One(t) == TargetCallout(t, call.priority, call.guard, k)
           Far == TxTarget(call)
           Board == BackplaneCallout(call.priority)
           Name == ProcedureCallout(call.name, call.priority)
           Card == TargetCallout(Bmc, call.priority, FALSE, k)
           first == AddCallout(list, One(call.target))
           second == AddCallout(first, One(Far))
           third == AddCallout(second, Board)
<1>1. /\ \A t : One(t).type # "Procedure"
      /\ Board.type # "Procedure" /\ Card.type # "Procedure"
      /\ Name = ProcedureCallout(Name.key, Name.priority)
  BY PlainEntries
<1> HIDE DEF One, Far, Board, Name, Card
<1>2. Good(first) /\ Kept(list, first)
  BY <1>1, AddKeeps
<1>3. Good(second) /\ Kept(first, second)
  BY <1>1, <1>2, AddKeeps
<1>4. Good(third) /\ Kept(second, third)
  BY <1>1, <1>3, AddKeeps
<1>5. Good(third) /\ Kept(list, third)
  BY <1>2, <1>3, <1>4, KeptTransitive
<1>6. /\ Good(AddCallout(list, One(Far))) /\ Kept(list, AddCallout(list, One(Far)))
      /\ Good(AddCallout(list, Board)) /\ Kept(list, AddCallout(list, Board))
      /\ Good(AddCallout(list, Name)) /\ Kept(list, AddCallout(list, Name))
      /\ Good(AddCallout(list, Card)) /\ Kept(list, AddCallout(list, Card))
  BY <1>1, AddKeeps
<1>7. CalloutList(list, call, k) \in
        {first, third, AddCallout(list, One(Far)), AddCallout(list, Board),
         AddCallout(list, Name), AddCallout(list, Card)}
  BY DEF CalloutList, One, Far, Board, Name, Card
<1>8. QED
  BY <1>2, <1>5, <1>6, <1>7

--------------------------------------------------------------------------------
(* An analysis *)

\* Next level support was asked for.
Reported == \E i \in DOMAIN callouts : callouts[i] = ProcedureCallout("next_level_support", "HIGH")

CalloutInv == Good(callouts) /\ (failed => Reported)

\* A step that extends the list and leaves nothing out; next level support is
\* asked for where an exception is caught.
Extended ==
  /\ Good(callouts')
  /\ Kept(callouts, callouts')
  /\ failed' => failed \/ Reported'

\* A step that gives the list up.
GivenUp == phase' = "idle" /\ callouts' = <<>> /\ failed' = FALSE

\* A call for next level support stays in the list.
LEMMA ReportStays ==
  ASSUME Reported, Kept(callouts, callouts'), Plain(callouts')
  PROVE  Reported'
<1> DEFINE c == ProcedureCallout("next_level_support", "HIGH")
<1>1. PICK i \in DOMAIN callouts : callouts[i] = c
  BY DEF Reported
<1>2. /\ i \in DOMAIN callouts' /\ SameCallout(c, callouts'[i])
      /\ Level("HIGH") <= Level(callouts'[i].priority)
  BY <1>1 DEF Kept, ProcedureCallout
<1>3. callouts'[i].priority = "HIGH"
  BY <1>2, Levels DEF Level
<1>4. callouts'[i].type = "Procedure" /\ callouts'[i].key = "next_level_support"
  BY <1>2 DEF SameCallout, ProcedureCallout
<1>5. callouts'[i] = c
  BY <1>2, <1>3, <1>4 DEF Plain
<1>6. QED
  BY <1>2, <1>5 DEF Reported

\* The effect of making a call.
LEMMA Making ==
  ASSUME CalloutInv, NEW call, MakeCall(call)
  PROVE  Good(callouts') /\ Kept(callouts, callouts')
  BY CallKeeps DEF CalloutInv, MakeCall

\* The effect of an exception.
LEMMA Catching ==
  ASSUME CalloutInv, CatchException
  PROVE  Extended
<1>1. MakeCall(NextLevel)
  BY DEF CatchException
<1>2. callouts' = AddCallout(callouts, ProcedureCallout("next_level_support", "HIGH"))
  BY <1>1 DEF MakeCall, NextLevel, ProcedureCall, CalloutList
<1>3. Reported'
  BY <1>2, AddReports DEF CalloutInv, Reported
<1>4. QED
  BY <1>1, <1>3, Making DEF Extended

\* Every step of an analysis extends the list; the last one gives it up.
LEMMA Steps == CalloutInv /\ [Next]_vars => Extended \/ GivenUp
<1> SUFFICES ASSUME CalloutInv, [Next]_vars PROVE Extended \/ GivenUp
  OBVIOUS
<1>a. ASSUME UNCHANGED <<callouts, failed>> PROVE Extended
  BY <1>a, KeptReflexive DEF Extended, CalloutInv
<1>b. ASSUME NEW call, MakeCall(call), UNCHANGED failed PROVE Extended
  BY <1>b, Making DEF Extended
<1>1. CASE UNCHANGED vars
  BY <1>1, <1>a DEF vars, data
<1>2. ASSUME NEW k \in AnalysisType, Analyze(k) PROVE Extended
  BY <1>2, <1>a DEF Analyze, data
<1>3. CASE Filter
  BY <1>3, <1>a, <1>b DEF Filter, data
<1>4. CASE Parse
  BY <1>4, <1>a, Catching DEF Parse, Abort, data
<1>5. CASE Resolve
  BY <1>5, <1>a, Catching DEF Resolve, Abort, data
<1>6. CASE Call
  BY <1>6, <1>a, <1>b, Catching DEF Call, Abort, data
<1>7. CASE Resolved
  BY <1>7, <1>a DEF Resolved, data
<1>8. CASE CommitPel
  BY <1>8, <1>a DEF CommitPel, data
<1>9. CASE Return
  BY <1>9 DEF Return, GivenUp
<1>10. QED
  BY <1>1, <1>2, <1>3, <1>4, <1>5, <1>6, <1>7, <1>8, <1>9 DEF Next

\* The empty list is good.
LEMMA EmptyGood == Good(<<>>)
<1>1. <<>> \in Seq({})
  OBVIOUS
<1>2. QED
  BY <1>1 DEF Good, IsList, Unique, Plain

\* Every step keeps the invariant of the list.
LEMMA CalloutStep == CalloutInv /\ [Next]_vars => CalloutInv'
<1> SUFFICES ASSUME CalloutInv, [Next]_vars PROVE CalloutInv'
  OBVIOUS
<1>1. CASE Extended
  BY <1>1, ReportStays DEF Extended, CalloutInv, Good
<1>2. CASE GivenUp
  BY <1>2, EmptyGood DEF GivenUp, CalloutInv
<1>3. QED
  BY <1>1, <1>2, Steps

\* The invariant of the list holds in every reachable state.
THEOREM CalloutInvHolds == Spec => []CalloutInv
<1>1. Init => CalloutInv
  BY EmptyGood DEF Init, NoData, CalloutInv
<1>2. QED
  BY <1>1, CalloutStep, PTL DEF Spec

\* While an analysis lasts no callout disappears, changes place or falls to a
\* lower level.
THEOREM CalloutsKeptHolds == Spec => CalloutsKept
<1>1. CalloutInv /\ [Next]_vars
        => [phase' # "idle" => \A i \in DOMAIN callouts :
              /\ i \in DOMAIN callouts'
              /\ SameCallout(callouts[i], callouts'[i])
              /\ Level(callouts[i].priority) <= Level(callouts'[i].priority)]_vars
  BY Steps DEF Extended, GivenUp, Kept
<1>2. QED
  BY <1>1, CalloutInvHolds, PTL DEF Spec, CalloutsKept

\* The callout list never names a part or a procedure twice.
THEOREM CalloutsUnique == Spec => []Unique(callouts)
<1>1. CalloutInv => Unique(callouts)
  BY DEF CalloutInv, Good
<1>2. QED
  BY <1>1, CalloutInvHolds, PTL

\* An analysis that caught an exception asks for next level support, with the
\* highest priority, for as long as it lasts.
THEOREM FailureReported ==
  Spec => [](failed => ProcedureCallout("next_level_support", "HIGH") \in Range(callouts))
<1>1. CalloutInv =>
        (failed => ProcedureCallout("next_level_support", "HIGH") \in Range(callouts))
  BY DEF CalloutInv, Reported, Range
<1>2. QED
  BY <1>1, CalloutInvHolds, PTL

--------------------------------------------------------------------------------
(* The list and the calls that were made *)

\* Entry m of a history says more of its part or procedure than any other one,
\* or the same and earlier.
Strongest(h, m) ==
  \A j \in DOMAIN h : SameCallout(h[m], h[j]) =>
    \/ Level(h[m].priority) > Level(h[j].priority)
    \/ Level(h[m].priority) = Level(h[j].priority) /\ m <= j

\* A list has what the strongest entries of a history say, and leaves nobody out.
Exact(list, h) ==
  /\ \A i \in DOMAIN list : \E m \in DOMAIN h : Strongest(h, m) /\ list[i] = h[m]
  /\ \A m \in DOMAIN h : \E i \in DOMAIN list : SameCallout(list[i], h[m])

\* What is added to an exact list is added to its history.
LEMMA AddExact ==
  ASSUME NEW list, Good(list), NEW h, IsList(h), Exact(list, h), NEW c
  PROVE  Exact(AddCallout(list, c), Append(h, c)) /\ IsList(Append(h, c))
<1> DEFINE new == AddCallout(list, c)
           g == Append(h, c)
           n == Len(h) + 1
           same == {i \in DOMAIN list : SameCallout(list[i], c)}
<1>1. /\ IsList(g) /\ DOMAIN g = DOMAIN h \cup {n} /\ n \notin DOMAIN h
      /\ g[n] = c /\ \A m \in DOMAIN h : g[m] = h[m]
      /\ \A m \in DOMAIN h : m \in Nat /\ m <= n /\ ~(n <= m)
  <2>1. PICK S : h \in Seq(S)
    BY DEF IsList
  <2>2. h \in Seq(S \cup {c}) /\ c \in S \cup {c}
    BY <2>1
  <2>3. g \in Seq(S \cup {c})
    BY <2>2
  <2>4. IsList(g)
    BY <2>3 DEF IsList
  <2>5. DOMAIN h = 1 .. Len(h) /\ Len(h) \in Nat /\ DOMAIN g = 1 .. n
    BY <2>2
  <2>6. g[n] = c /\ \A m \in DOMAIN h : g[m] = h[m]
    BY <2>2
  <2>7. QED
    BY <2>4, <2>5, <2>6
<1>2. \A p : Level(p) \in Nat
  BY Levels
<1>3. ASSUME NEW m \in DOMAIN h, Strongest(h, m), SameCallout(h[m], c) => Level(c.priority) <= Level(h[m].priority)
      PROVE  m \in DOMAIN g /\ Strongest(g, m)
  BY <1>1, <1>2, <1>3 DEF Strongest
<1>4. ASSUME \A m \in DOMAIN h : SameCallout(h[m], c) => Level(h[m].priority) < Level(c.priority)
      PROVE  n \in DOMAIN g /\ Strongest(g, n)
  <2>1. SUFFICES ASSUME NEW j \in DOMAIN g, SameCallout(g[n], g[j])
                 PROVE  \/ Level(g[n].priority) > Level(g[j].priority)
                        \/ Level(g[n].priority) = Level(g[j].priority) /\ n <= j
    BY <1>1 DEF Strongest
  <2>2. CASE j = n
    BY <1>1, <1>2, <2>2
  <2>3. CASE j \in DOMAIN h
    BY <1>1, <1>2, <1>4, <2>1, <2>3 DEF SameCallout
  <2>4. QED
    BY <1>1, <2>2, <2>3
<1>5. CASE same = {}
  <2>1. /\ DOMAIN new = DOMAIN list \cup {Len(list) + 1}
        /\ new[Len(list) + 1] = c /\ \A i \in DOMAIN list : new[i] = list[i]
    BY <1>5, AddShape DEF Good
  <2>2. \A m \in DOMAIN h : ~SameCallout(h[m], c)
    BY <1>5 DEF Exact, SameCallout
  <2>3. n \in DOMAIN g /\ Strongest(g, n)
    BY <1>4, <2>2
  <2>4. \A i \in DOMAIN new : \E m \in DOMAIN g : Strongest(g, m) /\ new[i] = g[m]
    BY <1>1, <1>3, <2>1, <2>2, <2>3 DEF Exact
  <2>5. \A m \in DOMAIN g : \E i \in DOMAIN new : SameCallout(new[i], g[m])
    BY <1>1, <2>1 DEF Exact, SameCallout
  <2>6. QED
    BY <1>1, <2>4, <2>5 DEF Exact
<1>6. CASE same # {}
  <2>1. /\ DOMAIN new = DOMAIN list
        /\ \A i \in DOMAIN list :
             new[i] = IF SameCallout(list[i], c) /\ Level(list[i].priority) < Level(c.priority)
                        THEN c ELSE list[i]
    BY <1>6, AddShape DEF Good
  <2>2. \A i \in DOMAIN list : SameCallout(list[i], new[i])
    BY <2>1 DEF SameCallout
  <2>3. \A m \in DOMAIN g : \E i \in DOMAIN new : SameCallout(new[i], g[m])
    BY <1>1, <1>6, <2>1, <2>2 DEF Exact, SameCallout
  <2>4. ASSUME NEW i \in DOMAIN list
        PROVE  \E m \in DOMAIN g : Strongest(g, m) /\ new[i] = g[m]
    <3>1. PICK m \in DOMAIN h : Strongest(h, m) /\ list[i] = h[m]
      BY DEF Exact
    <3>2. CASE SameCallout(list[i], c) /\ Level(list[i].priority) < Level(c.priority)
      <4>1. new[i] = c
        BY <2>1, <3>2
      <4>2. ASSUME NEW j \in DOMAIN h, SameCallout(h[j], c)
            PROVE  Level(h[j].priority) < Level(c.priority)
        <5>1. SameCallout(h[m], h[j])
          BY <3>1, <3>2, <4>2 DEF SameCallout
        <5>2. Level(h[j].priority) <= Level(h[m].priority)
          BY <1>2, <3>1, <5>1 DEF Strongest
        <5>3. QED
          BY <1>2, <3>1, <3>2, <5>2
      <4>3. n \in DOMAIN g /\ Strongest(g, n)
        BY <1>4, <4>2
      <4>4. QED
        BY <1>1, <4>1, <4>3
    <3>3. CASE ~(SameCallout(list[i], c) /\ Level(list[i].priority) < Level(c.priority))
      <4>1. new[i] = list[i]
        BY <2>1, <3>3
      <4>2. SameCallout(h[m], c) => Level(c.priority) <= Level(h[m].priority)
        BY <1>2, <3>1, <3>3
      <4>3. m \in DOMAIN g /\ Strongest(g, m)
        BY <1>3, <3>1, <4>2
      <4>4. QED
        BY <1>1, <3>1, <4>1, <4>3
    <3>4. QED
      BY <3>2, <3>3
  <2>5. QED
    BY <1>1, <2>1, <2>3, <2>4 DEF Exact
<1>7. QED
  BY <1>1, <1>5, <1>6

\* A call stands for one entry, or for the three of a bus.
LEMMA EntriesShape ==
  ASSUME NEW call, NEW k
  PROVE  \/ \E a : /\ EntriesOf(call, k) = <<a>>
                   /\ (a.type = "Procedure" => a = ProcedureCallout(a.key, a.priority))
                   /\ \A list : CalloutList(list, call, k) = AddCallout(list, a)
         \/ \E a, b, c : /\ EntriesOf(call, k) = <<a, b, c>>
                         /\ a.type # "Procedure" /\ b.type # "Procedure"
                         /\ \A list : CalloutList(list, call, k) =
                                        AddCallout(AddCallout(AddCallout(list, a), b), c)
<1> DEFINE One(t) == TargetCallout(t, call.priority, call.guard, k)
           Far == TxTarget(call)
           Board == BackplaneCallout(call.priority)
           Name == ProcedureCallout(call.name, call.priority)
           Card == TargetCallout(Bmc, call.priority, FALSE, k)
<1>1. /\ \A t : One(t).type # "Procedure"
      /\ Board.type # "Procedure" /\ Card.type # "Procedure"
      /\ Name = ProcedureCallout(Name.key, Name.priority)
  BY PlainEntries
<1>2. EntriesOf(call, k) = CASE call.op = "target"    -> <<One(call.target)>>
                             [] call.op = "connected" -> <<One(Far)>>
                             [] call.op = "bus"       -> <<One(call.target), One(Far), Board>>
                             [] call.op = "clock"     -> <<Board>>
                             [] call.op = "procedure" -> <<Name>>
                             [] OTHER                 -> <<Card>>
  BY DEF EntriesOf
<1>3. \A list : CalloutList(list, call, k) =
        CASE call.op = "target"    -> AddCallout(list, One(call.target))
          [] call.op = "connected" -> AddCallout(list, One(Far))
          [] call.op = "bus"       ->
               AddCallout(AddCallout(AddCallout(list, One(call.target)), One(Far)), Board)
          [] call.op = "clock"     -> AddCallout(list, Board)
          [] call.op = "procedure" -> AddCallout(list, Name)
          [] OTHER                 -> AddCallout(list, Card)
  BY DEF CalloutList
<1> HIDE DEF One, Far, Board, Name, Card
<1>4. CASE call.op = "target"
  BY <1>1, <1>2, <1>3, <1>4
<1>5. CASE call.op = "connected"
  BY <1>1, <1>2, <1>3, <1>5
<1>6. CASE call.op = "bus"
  BY <1>1, <1>2, <1>3, <1>6
<1>7. CASE call.op = "clock"
  BY <1>1, <1>2, <1>3, <1>7
<1>8. CASE call.op = "procedure"
  BY <1>1, <1>2, <1>3, <1>8
<1>9. CASE call.op \notin {"target", "connected", "bus", "clock", "procedure"}
  BY <1>1, <1>2, <1>3, <1>9
<1>10. QED
  BY <1>4, <1>5, <1>6, <1>7, <1>8, <1>9

\* A call is added with all of its entries.
LEMMA CallExact ==
  ASSUME NEW list, Good(list), NEW h, IsList(h), Exact(list, h), NEW call, NEW k
  PROVE  Exact(CalloutList(list, call, k), h \o EntriesOf(call, k))
<1>1. PICK S : h \in Seq(S)
  BY DEF IsList
<1>2. CASE \E a : /\ EntriesOf(call, k) = <<a>>
                  /\ (a.type = "Procedure" => a = ProcedureCallout(a.key, a.priority))
                  /\ CalloutList(list, call, k) = AddCallout(list, a)
  <2>1. PICK a : EntriesOf(call, k) = <<a>> /\ CalloutList(list, call, k) = AddCallout(list, a)
    BY <1>2
  <2>2. h \in Seq(S \cup {a}) /\ h \o <<a>> = Append(h, a)
    BY <1>1
  <2>3. QED
    BY <2>1, <2>2, AddExact
<1>3. CASE \E a, b, c : /\ EntriesOf(call, k) = <<a, b, c>>
                        /\ a.type # "Procedure" /\ b.type # "Procedure"
                        /\ CalloutList(list, call, k) =
                             AddCallout(AddCallout(AddCallout(list, a), b), c)
  <2>1. PICK a, b, c : /\ EntriesOf(call, k) = <<a, b, c>>
                       /\ a.type # "Procedure" /\ b.type # "Procedure"
                       /\ CalloutList(list, call, k) =
                            AddCallout(AddCallout(AddCallout(list, a), b), c)
    BY <1>3
  <2>2. h \o <<a, b, c>> = Append(Append(Append(h, a), b), c)
    <3>1. h \in Seq(S \cup {a, b, c})
      BY <1>1
    <3> DEFINE T == S \cup {a, b, c}
    <3>2. a \in T /\ b \in T /\ c \in T
      OBVIOUS
    <3> HIDE DEF T
    <3>3. QED
      BY <3>1, <3>2 DEF T
  <2>3. /\ Exact(AddCallout(list, a), Append(h, a)) /\ IsList(Append(h, a))
        /\ Good(AddCallout(list, a))
    BY <2>1, AddExact, AddKeeps
  <2>4. /\ Exact(AddCallout(AddCallout(list, a), b), Append(Append(h, a), b))
        /\ IsList(Append(Append(h, a), b))
        /\ Good(AddCallout(AddCallout(list, a), b))
    BY <2>1, <2>3, AddExact, AddKeeps
  <2>5. Exact(AddCallout(AddCallout(AddCallout(list, a), b), c),
              Append(Append(Append(h, a), b), c))
    BY <2>4, AddExact
  <2>6. QED
    BY <2>1, <2>2, <2>5
<1>4. QED
  BY <1>2, <1>3, EntriesShape

\* The entries of the calls f.
Said(f, k) == FlattenSeq([i \in DOMAIN f |-> EntriesOf(f[i], k)])

\* One more call adds its entries to those of the calls before.
LEMMA SaidAppend ==
  ASSUME NEW f, IsList(f), NEW call, NEW k
  PROVE  IsList(Said(f, k)) /\ Said(Append(f, call), k) = Said(f, k) \o EntriesOf(call, k)
<1>1. PICK S : f \in Seq(S)
  BY DEF IsList
<1> DEFINE C == S \cup {call}
           U == UNION {ToSet(EntriesOf(c, k)) : c \in C}
           s == [i \in DOMAIN f |-> EntriesOf(f[i], k)]
           x == EntriesOf(call, k)
           g == Append(f, call)
           t == [i \in DOMAIN g |-> EntriesOf(g[i], k)]
<1>2. /\ f \in Seq(C) /\ g \in Seq(C) /\ Len(g) = Len(f) + 1 /\ g[Len(f) + 1] = call
      /\ Len(f) \in Nat /\ DOMAIN f = 1 .. Len(f) /\ DOMAIN g = 1 .. Len(f) + 1
      /\ \A i \in DOMAIN f : g[i] = f[i] /\ f[i] \in C
  BY <1>1
<1>3. \A c \in C : EntriesOf(c, k) \in Seq(U)
  <2>1. SUFFICES ASSUME NEW c \in C PROVE EntriesOf(c, k) \in Seq(U)
    OBVIOUS
  <2>2. ToSet(EntriesOf(c, k)) \subseteq U
    OBVIOUS
  <2> HIDE DEF U
  <2>3. CASE \E a : EntriesOf(c, k) = <<a>>
    BY <2>2, <2>3 DEF ToSet
  <2>4. CASE \E a, b, d : EntriesOf(c, k) = <<a, b, d>>
    BY <2>2, <2>4 DEF ToSet
  <2>5. QED
    BY <2>3, <2>4, EntriesShape
<1> HIDE DEF U
<1>4. x \in Seq(U) /\ \A i \in DOMAIN f : s[i] \in Seq(U)
  BY <1>2, <1>3
<1>5. s \in [1 .. Len(f) -> Seq(U)]
  BY <1>2, <1>4
<1>6. s \in Seq(Seq(U)) /\ Len(s) = Len(f)
  BY <1>2, <1>5, SeqDef
<1>7. t = Append(s, x)
  <2> HIDE DEF s, x, g
  <2> DEFINE a == Append(s, x)
  <2>a. /\ a \in Seq(Seq(U)) /\ Len(a) = Len(f) + 1
        /\ \A i \in 1 .. Len(f) + 1 : a[i] = IF i = Len(f) + 1 THEN x ELSE s[i]
    BY <1>2, <1>4, <1>6
  <2>b. a \in [1 .. Len(a) -> Seq(U)]
    BY <2>a, LenProperties
  <2>1. a = [i \in 1 .. Len(f) + 1 |-> IF i = Len(f) + 1 THEN x ELSE s[i]]
    <3> HIDE DEF a
    <3>1. QED
      BY <2>a, <2>b
  <2>2. \A i \in 1 .. Len(f) + 1 :
          EntriesOf(g[i], k) = IF i = Len(f) + 1 THEN x ELSE s[i]
    BY <1>2 DEF s, x
  <2>3. t = [i \in 1 .. Len(f) + 1 |-> IF i = Len(f) + 1 THEN x ELSE s[i]]
    BY <1>2, <2>2
  <2>4. QED
    BY <2>1, <2>3
<1>8. FlattenSeq(s) \in Seq(U) /\ FlattenSeq(t) = FlattenSeq(s) \o x
  <2> HIDE DEF s, x, t
  <2>1. QED
    BY <1>4, <1>6, <1>7, FlattenAppend
<1>9. QED
  BY <1>8 DEF Said, IsList

\* A list that is exact has one entry for each of the strongest entries of its
\* history.
LEMMA ExactCount ==
  ASSUME NEW list, Good(list), NEW h, IsList(h), Exact(list, h)
  PROVE  LET strongest == {m \in DOMAIN h : Strongest(h, m)}
         IN /\ Range(list) = {h[m] : m \in strongest}
            /\ Len(list) = Cardinality(strongest)
<1> DEFINE strongest == {m \in DOMAIN h : Strongest(h, m)}
           At(i) == CHOOSE m \in strongest : list[i] = h[m]
           f == [i \in DOMAIN list |-> At(i)]
<1>1. \A m \in DOMAIN h : m \in Nat
  BY DEF IsList
<1>2. \A m, n \in strongest : SameCallout(h[m], h[n]) => m = n
  <2>1. SUFFICES ASSUME NEW m \in strongest, NEW n \in strongest, SameCallout(h[m], h[n])
                 PROVE  m = n
    OBVIOUS
  <2>2. SameCallout(h[n], h[m])
    BY <2>1 DEF SameCallout
  <2>3. m \in Nat /\ n \in Nat /\ Level(h[m].priority) \in Nat /\ Level(h[n].priority) \in Nat
    BY <1>1, Levels
  <2>4. QED
    BY <2>1, <2>2, <2>3 DEF Strongest
<1>3. \A i \in DOMAIN list : f[i] \in strongest /\ list[i] = h[f[i]]
  <2>1. \A i \in DOMAIN list : \E m \in strongest : list[i] = h[m]
    BY DEF Exact
  <2>2. QED
    BY <2>1
<1>4. \A m \in strongest : \E i \in DOMAIN list : f[i] = m
  <2>1. SUFFICES ASSUME NEW m \in strongest PROVE \E i \in DOMAIN list : f[i] = m
    OBVIOUS
  <2>2. PICK i \in DOMAIN list : SameCallout(list[i], h[m])
    BY DEF Exact
  <2>3. f[i] \in strongest /\ SameCallout(h[f[i]], h[m])
    BY <1>3, <2>2
  <2> HIDE DEF f
  <2>4. QED
    BY <1>2, <2>3
<1>5. \A i, j \in DOMAIN list : f[i] = f[j] => i = j
  <2> HIDE DEF f
  <2>1. QED
    BY <1>3 DEF Good, Unique, SameCallout
<1>6. f \in [DOMAIN list -> strongest]
  BY <1>3
<1> HIDE DEF f, strongest
<1>7. f \in Bijection(DOMAIN list, strongest)
  BY <1>4, <1>5, <1>6 DEF Bijection, Injection, IsInjective, Surjection
<1>8. DOMAIN list = 1 .. Len(list) /\ Len(list) \in Nat
  BY DEF Good, IsList
<1>9. IsFiniteSet(DOMAIN list) /\ Cardinality(DOMAIN list) = Len(list)
  <2> DEFINE n == Len(list)
  <2>1. 1 \in Int /\ n \in Int /\ (IF 1 > n THEN 0 ELSE n - 1 + 1) = n
    BY <1>8
  <2> HIDE DEF n
  <2>2. IsFiniteSet(1 .. n) /\ Cardinality(1 .. n) = IF 1 > n THEN 0 ELSE n - 1 + 1
    BY <2>1, FS_Interval
  <2>3. QED
    BY <1>8, <2>1, <2>2 DEF n
<1>10. Cardinality(strongest) = Len(list)
  BY <1>7, <1>9, FS_Bijection DEF ExistsBijection
<1>11. Range(list) = {h[m] : m \in strongest}
  BY <1>3, <1>4 DEF Range
<1>12. QED
  BY <1>10, <1>11 DEF strongest

--------------------------------------------------------------------------------
(* The subsystem and the calls that were made *)

\* A call that is not about the default subsystem at the lowest priority.
Weighs(call) == ~(CallSubsystem(call) = "CEC_HARDWARE" /\ call.priority = "LOW")

\* Call i is the first one of the highest level.
Leads(f, i) ==
  /\ Weighs(f[i])
  /\ \A j \in DOMAIN f : Weighs(f[j]) =>
       \/ Level(f[i].priority) > Level(f[j].priority)
       \/ Level(f[i].priority) = Level(f[j].priority) /\ i <= j

Named(call) == [name |-> CallSubsystem(call), priority |-> call.priority]

\* The subsystem follows the call that leads, or there is none.
Follows(sub, f) ==
  \/ sub = DefaultSubsystem /\ \A j \in DOMAIN f : ~Weighs(f[j])
  \/ \E i \in DOMAIN f : Leads(f, i) /\ sub = Named(f[i])

\* It still follows after one more call.
LEMMA FollowsNext ==
  ASSUME NEW f, IsList(f), NEW sub, Follows(sub, f), NEW call
  PROVE  Follows(SetSrcSubsystem(sub, CallSubsystem(call), call.priority), Append(f, call))
<1> DEFINE g == Append(f, call)
           n == Len(f) + 1
           next == SetSrcSubsystem(sub, CallSubsystem(call), call.priority)
<1>1. /\ DOMAIN g = DOMAIN f \cup {n} /\ g[n] = call /\ n \in Nat
      /\ \A i \in DOMAIN f : g[i] = f[i] /\ i \in Nat /\ i <= n
  <2>1. PICK S : f \in Seq(S)
    BY DEF IsList
  <2>2. f \in Seq(S \cup {call}) /\ call \in S \cup {call}
    BY <2>1
  <2>3. QED
    BY <2>2
<1>2. \A p : Level(p) \in Nat
  BY Levels
<1>3. next = IF Level(sub.priority) < Level(call.priority) \/ sub = DefaultSubsystem
               THEN Named(call) ELSE sub
  BY DEF SetSrcSubsystem, Named
<1>4. \A c : Named(c) = DefaultSubsystem <=> ~Weighs(c)
  BY DEF Named, DefaultSubsystem, Weighs
<1> HIDE DEF g, next
<1>5. CASE sub = DefaultSubsystem /\ \A j \in DOMAIN f : ~Weighs(f[j])
  <2>1. next = Named(call) /\ \A j \in DOMAIN f : ~Weighs(g[j])
    BY <1>1, <1>3, <1>5
  <2>2. CASE Weighs(call)
    <3>1. Leads(g, n)
      BY <1>1, <1>2, <2>1, <2>2 DEF Leads
    <3>2. QED
      BY <1>1, <2>1, <3>1 DEF Follows, g, next
  <2>3. CASE ~Weighs(call)
    BY <1>1, <1>4, <2>1, <2>3 DEF Follows, g, next
  <2>4. QED
    BY <2>2, <2>3
<1>6. ASSUME NEW i \in DOMAIN f, Leads(f, i), sub = Named(f[i])
      PROVE  Follows(next, g)
  <2>1. sub # DefaultSubsystem /\ sub.priority = f[i].priority
    BY <1>4, <1>6 DEF Leads, Named
  <2>2. CASE Level(sub.priority) < Level(call.priority)
    <3>1. next = Named(call)
      BY <1>3, <2>2
    <3>2. Weighs(call)
      <4>1. call.priority # "LOW"
        BY <2>2, Levels DEF Level
      <4>2. QED
        BY <4>1 DEF Weighs
    <3>3. \A j \in DOMAIN f : Weighs(g[j]) => Level(g[j].priority) < Level(call.priority)
      BY <1>1, <1>2, <1>6, <2>1, <2>2 DEF Leads
    <3>4. Leads(g, n)
      BY <1>1, <1>2, <3>2, <3>3 DEF Leads
    <3>5. QED
      BY <1>1, <3>1, <3>4 DEF Follows
  <2>3. CASE ~(Level(sub.priority) < Level(call.priority))
    <3>1. next = Named(g[i])
      BY <1>1, <1>3, <1>6, <2>1, <2>3
    <3>2. Leads(g, i)
      BY <1>1, <1>2, <1>6, <2>1, <2>3 DEF Leads
    <3>3. QED
      BY <1>1, <3>1, <3>2 DEF Follows
  <2>4. QED
    BY <2>2, <2>3
<1>7. \/ sub = DefaultSubsystem /\ \A j \in DOMAIN f : ~Weighs(f[j])
      \/ \E i \in DOMAIN f : Leads(f, i) /\ sub = Named(f[i])
  BY DEF Follows
<1>8. QED
  BY <1>5, <1>6, <1>7 DEF g, next

--------------------------------------------------------------------------------
(* The service data of an analysis *)

\* The callout list and the subsystem are what the calls that were made say, and
\* no call outlives its analysis.  The type of analysis changes only while
\* there is no call, so that the entries of a call stay what they were.
DataInv ==
  /\ IsList(ffdc)
  /\ Exact(callouts, Said(ffdc, kind))
  /\ Follows(subsystem, ffdc)
  /\ phase = "idle" => ffdc = <<>>

\* What a step can do to the service data.
Silent ==
  /\ UNCHANGED data
  /\ kind' # kind => phase = "idle"
  /\ phase' = "idle" => phase = "idle"

Cleared == callouts' = <<>> /\ ffdc' = <<>> /\ subsystem' = DefaultSubsystem

Calling(call) == MakeCall(call) /\ kind' = kind /\ phase' # "idle"

\* Each step does one of the three.
LEMMA DataSteps == [Next]_vars => Silent \/ Cleared \/ \E call : Calling(call)
<1> SUFFICES ASSUME [Next]_vars PROVE Silent \/ Cleared \/ \E call : Calling(call)
  OBVIOUS
<1>1. CASE UNCHANGED vars
  BY <1>1 DEF vars, Silent
<1>2. ASSUME CatchException PROVE \E call : Calling(call)
  BY <1>2 DEF CatchException, Calling
<1>3. ASSUME Abort PROVE Silent
  BY <1>3 DEF Abort, Silent
<1>4. ASSUME NEW k \in AnalysisType, Analyze(k) PROVE Silent
  BY <1>4 DEF Analyze, Silent
<1>5. CASE Filter
  BY <1>5 DEF Filter, Silent, Calling
<1>6. CASE Parse
  BY <1>2, <1>3, <1>6 DEF Parse, Silent
<1>7. CASE Resolve
  BY <1>2, <1>3, <1>7 DEF Resolve, Silent
<1>8. CASE Call
  BY <1>2, <1>3, <1>8 DEF Call, Calling
<1>9. CASE Resolved
  BY <1>9 DEF Resolved, Silent
<1>10. CASE CommitPel
  BY <1>10 DEF CommitPel, Silent
<1>11. CASE Return
  BY <1>11 DEF Return, Cleared
<1>12. QED
  BY <1>1, <1>4, <1>5, <1>6, <1>7, <1>8, <1>9, <1>10, <1>11 DEF Next

\* Nothing was said before the first call.
LEMMA NothingSaid ==
  ASSUME NEW k
  PROVE  IsList(<<>>) /\ Said(<<>>, k) = <<>> /\ Exact(<<>>, <<>>)
         /\ Follows(DefaultSubsystem, <<>>)
<1>1. <<>> \in Seq({}) /\ DOMAIN <<>> = {} /\ Len(<<>>) = 0
  OBVIOUS
<1>2. [i \in DOMAIN <<>> |-> EntriesOf(<<>>[i], k)] = <<>>
  BY <1>1
<1>3. Said(<<>>, k) = <<>>
  BY <1>1, <1>2 DEF Said, FlattenSeq
<1>4. QED
  BY <1>1, <1>3 DEF IsList, Exact, Follows

\* Every step keeps the invariant of the service data.
LEMMA DataStep == CalloutInv /\ DataInv /\ [Next]_vars => DataInv'
<1> SUFFICES ASSUME CalloutInv, DataInv, [Next]_vars PROVE DataInv'
  OBVIOUS
<1>1. CASE Silent
  <2>1. UNCHANGED <<callouts, ffdc, subsystem>>
    BY <1>1 DEF Silent, data
  <2>2. kind' = kind \/ ffdc = <<>>
    BY <1>1 DEF Silent, DataInv
  <2>3. Said(ffdc, kind') = Said(ffdc, kind)
    BY <2>2, NothingSaid
  <2>4. Said(ffdc, kind)' = Said(ffdc, kind)
    BY <2>1, <2>3 DEF Said, EntriesOf
  <2>5. phase' = "idle" => ffdc' = <<>>
    BY <1>1, <2>1 DEF Silent, DataInv
  <2>6. Follows(subsystem, ffdc)'
    BY <2>1 DEF DataInv, Follows, Leads, Weighs, Named
  <2>7. QED
    BY <2>1, <2>4, <2>5, <2>6 DEF DataInv, IsList, Exact, Strongest
<1>2. CASE Cleared
  BY <1>2, NothingSaid DEF Cleared, DataInv
<1>3. ASSUME NEW call, Calling(call) PROVE DataInv'
  <2>1. /\ callouts' = CalloutList(callouts, call, kind)
        /\ ffdc' = Append(ffdc, call)
        /\ subsystem' = SetSrcSubsystem(subsystem, CallSubsystem(call), call.priority)
        /\ kind' = kind /\ phase' # "idle"
    BY <1>3 DEF Calling, MakeCall
  <2>2. /\ IsList(Said(ffdc, kind))
        /\ Said(Append(ffdc, call), kind) = Said(ffdc, kind) \o EntriesOf(call, kind)
    BY SaidAppend DEF DataInv
  <2>3. Exact(CalloutList(callouts, call, kind), Said(ffdc, kind) \o EntriesOf(call, kind))
    BY <2>2, CallExact DEF CalloutInv, DataInv
  <2>4. Follows(subsystem', ffdc')
    BY <2>1, FollowsNext DEF DataInv
  <2>5. IsList(ffdc')
    <3>1. PICK S : ffdc \in Seq(S)
      BY DEF DataInv, IsList
    <3>2. ffdc' \in Seq(S \cup {call})
      BY <2>1, <3>1
    <3>3. QED
      BY <3>2 DEF IsList
  <2>6. Exact(callouts', Said(ffdc', kind'))
    BY <2>1, <2>2, <2>3
  <2>7. QED
    BY <2>1, <2>4, <2>5, <2>6 DEF DataInv
<1>4. QED
  BY <1>1, <1>2, <1>3, DataSteps

\* The invariant of the service data holds in every reachable state.
THEOREM DataInvHolds == Spec => []DataInv
<1>1. Init => DataInv
  BY NothingSaid DEF Init, NoData, DataInv
<1>2. QED
  BY <1>1, DataStep, CalloutInvHolds, PTL DEF Spec

\* The callout list says of each part and procedure what the first of the calls
\* of the highest level said of it, and nothing else, whatever the resolutions,
\* plugins and exceptions were (addCallout()).
THEOREM CalloutsExactHolds == Spec => []CalloutsExact
<1>1. CalloutInv /\ DataInv => CalloutsExact
  <2> SUFFICES ASSUME CalloutInv, DataInv PROVE CalloutsExact
    OBVIOUS
  <2>1. Entries = Said(ffdc, kind)
    BY DEF Entries, Said
  <2> DEFINE h == Said(ffdc, kind)
  <2>2. IsList(h) /\ Good(callouts) /\ Exact(callouts, h)
    BY SaidAppend DEF CalloutInv, DataInv
  <2> HIDE DEF h
  <2>3. LET strongest == {m \in DOMAIN h : Strongest(h, m)}
        IN /\ Range(callouts) = {h[m] : m \in strongest}
           /\ Len(callouts) = Cardinality(strongest)
    BY <2>2, ExactCount
  <2>4. QED
    BY <2>1, <2>3 DEF CalloutsExact, Strongest, h
<1>2. QED
  BY <1>1, CalloutInvHolds, DataInvHolds, PTL

\* The SRC names the subsystem of the first call of the highest level
\* (setSrcSubsystem()).
THEOREM SubsystemExactHolds == Spec => []SubsystemExact
<1>1. DataInv => SubsystemExact
  <2> SUFFICES ASSUME DataInv PROVE SubsystemExact
    OBVIOUS
  <2> DEFINE first == {i \in DOMAIN ffdc : Leads(ffdc, i)}
  <2>1. \A i \in DOMAIN ffdc : i \in Nat /\ Level(ffdc[i].priority) \in Nat
    BY Levels DEF DataInv, IsList
  <2>2. CASE subsystem = DefaultSubsystem /\ \A j \in DOMAIN ffdc : ~Weighs(ffdc[j])
    <3>1. first = {}
      BY <2>2 DEF Leads
    <3>2. QED
      BY <2>2, <3>1 DEF SubsystemExact, Leads, Weighs
  <2>3. ASSUME NEW i \in DOMAIN ffdc, Leads(ffdc, i), subsystem = Named(ffdc[i])
        PROVE  SubsystemExact
    <3>1. \A j \in first : j = i
      BY <2>1, <2>3 DEF Leads
    <3>2. first = {i}
      BY <2>3, <3>1
    <3>3. QED
      BY <2>3, <3>2 DEF SubsystemExact, Leads, Weighs, Named
  <2>4. QED
    BY <2>2, <2>3 DEF DataInv, Follows
<1>2. QED
  BY <1>1, DataInvHolds, PTL

--------------------------------------------------------------------------------
(* Somebody is called *)

\* What the walk for a signature yields, whatever is on the stack: resolutions in
\* order, the stack as it was if it succeeds, and nothing but broken actions left
\* on it if an exception ends it.  A walk that succeeds yields no other resolutions
\* than it does from an empty stack.
LEMMA ResolutionSound ==
  ASSUME NEW s, NEW held \in SUBSET Names
  PROVE  LET r == GetResolution(s, held)
             fresh == GetResolution(s, {})
         IN /\ r.leaves \in Seq(Range(r.leaves)) /\ r.stack \in SUBSET Names
            /\ r.outcome = "ok" => /\ r.stack = held
                                   /\ fresh.outcome = "ok" /\ fresh.leaves = r.leaves
            /\ r.outcome = Threw =>
                 \A name \in r.stack \ held : \E m \in DOMAIN Files : name \in Broken(m)
<1> DEFINE r == GetResolution(s, held)
           fresh == GetResolution(s, {})
<1>1. CASE HasData(s)
  <2> DEFINE m == Model[s.chip]
             name == ParseSignature(s)
  <2>1. m \in DOMAIN Files
    BY <1>1 DEF HasData
  <2>2. name \in Called(m)
    BY DEF ParseSignature, Called, DataOf, Range
  <2>3. r = ParseAction[<<m, name, held>>] /\ fresh = ParseAction[<<m, name, {}>>]
    BY <1>1 DEF GetResolution
  <2> HIDE DEF m, name, r, fresh
  <2>4. name \in Names /\ held \in Sets /\ {} \in Sets
    BY <2>1, <2>2, CalledNames DEF Sets
  <2>5. r \in Walks(m) /\ (r.outcome = "ok" => r.stack = held)
    BY <2>1, <2>3, <2>4, WalksSound DEF Sound
  <2>6. Like(fresh, r)
    BY <2>1, <2>3, <2>4, ShorterStack DEF AllLike
  <2>7. Leaving(m, held, r)
    BY <2>1, <2>2, <2>3, <2>4, WalkLeaves DEF AllLeaving
  <2>8. r.leaves \in Seq(Range(r.leaves)) /\ r.stack \in SUBSET Names
    <3>1. r.leaves \in Seq(Leaves(m)) /\ r.stack \in SUBSET Names
      BY <2>5 DEF Walks, Sets
    <3>2. QED
      BY <3>1 DEF Range
  <2>9. QED
    BY <2>1, <2>5, <2>6, <2>7, <2>8, Outcomes DEF Like, Leaving, r, fresh
<1>2. CASE ~HasData(s)
  <2>1. r = Result(Threw, held)
    BY <1>2 DEF GetResolution
  <2>2. /\ r.outcome = Threw /\ r.stack = held /\ r.leaves = <<>>
    BY <2>1 DEF Result
  <2> HIDE DEF r, fresh
  <2>3. r.leaves \in Seq(Range(r.leaves))
    BY <2>2
  <2>4. QED
    BY <2>2, <2>3, Outcomes DEF r, fresh
<1>3. QED
  BY <1>1, <1>2

\* Until something was called out for a checkstop there is a call left to make,
\* or a resolution that will make one.
Promise ==
  \/ callouts # <<>>
  \/ calls # <<>>
  \/ IsList(leaves) /\ \E n \in DOMAIN leaves : Speaks(leaves[n], sigs, root)

SpokenInv ==
  /\ active \in SUBSET Proc
  /\ stack \in SUBSET Names
  /\ kind = "SYSTEM_CHECKSTOP" =>
       /\ phase \in {"commit", "done"} => callouts # <<>>
       /\ phase = "resolve" => Promise

\* A list is not empty once something was added to it.
LEMMA CallNotEmpty ==
  ASSUME NEW list, Good(list), NEW call, NEW k
  PROVE  CalloutList(list, call, k) # <<>>
<1>1. ASSUME NEW l, Good(l), NEW c PROVE AddCallout(l, c) # <<>>
  <2>1. \E i : i \in DOMAIN AddCallout(l, c)
    BY <1>1, AddShape DEF Good
  <2>2. DOMAIN <<>> = {}
    OBVIOUS
  <2>3. QED
    BY <2>1, <2>2
<1>2. CASE \E a : /\ EntriesOf(call, k) = <<a>>
                  /\ (a.type = "Procedure" => a = ProcedureCallout(a.key, a.priority))
                  /\ \A l : CalloutList(l, call, k) = AddCallout(l, a)
  <2>1. PICK a : \A l : CalloutList(l, call, k) = AddCallout(l, a)
    BY <1>2
  <2>2. CalloutList(list, call, k) = AddCallout(list, a)
    BY <2>1
  <2>3. QED
    BY <1>1, <2>2
<1>3. CASE \E a, b, c : /\ EntriesOf(call, k) = <<a, b, c>>
                        /\ a.type # "Procedure" /\ b.type # "Procedure"
                        /\ \A l : CalloutList(l, call, k) =
                                     AddCallout(AddCallout(AddCallout(l, a), b), c)
  <2>1. PICK a, b, c : /\ a.type # "Procedure" /\ b.type # "Procedure"
                       /\ \A l : CalloutList(l, call, k) =
                                    AddCallout(AddCallout(AddCallout(l, a), b), c)
    BY <1>3
  <2>2. CalloutList(list, call, k) = AddCallout(AddCallout(AddCallout(list, a), b), c)
    BY <2>1
  <2>3. Good(AddCallout(list, a))
    BY <2>1, AddKeeps
  <2>4. Good(AddCallout(AddCallout(list, a), b))
    BY <2>1, <2>3, AddKeeps
  <2>5. QED
    BY <1>1, <2>2, <2>4
<1>4. QED
  BY <1>2, <1>3, EntriesShape

\* An exception leaves somebody called.
LEMMA CatchSpoken ==
  ASSUME CalloutInv, SpokenInv, CatchException, stack' \in SUBSET Names
  PROVE  SpokenInv'
<1>1. callouts' # <<>>
  BY CallNotEmpty DEF CatchException, MakeCall, CalloutInv
<1>2. QED
  BY <1>1 DEF CatchException, SpokenInv

\* A failed assertion leaves nothing to be reported.
LEMMA AbortSpoken ==
  ASSUME SpokenInv, Abort, stack' \in SUBSET Names
  PROVE  SpokenInv'
BY DEF Abort, SpokenInv

\* The resolutions of what is blamed for a checkstop hold the promise.
LEMMA ParseSpoken ==
  ASSUME CheckstopsCall, CalloutInv, RootInv, SpokenInv, Parse
  PROVE  SpokenInv'
<1> DEFINE r == GetResolution(sigs[root], stack)
<1>1. root > 0 /\ root # NotFound /\ root = FilterRootCause(kind, sigs)
  BY DEF Parse, RootInv
<1>2. sigs \in Isolated /\ IsList(sigs)
  BY <1>1, EmptyFilter, SigsList DEF RootInv
<1>3. root \in DOMAIN sigs
  BY <1>1, <1>2, FilterResult DEF NotFound, Thrown
<1>4. r.leaves \in Seq(Range(r.leaves)) /\ r.stack \in SUBSET Names
  BY ResolutionSound DEF SpokenInv
<1>5. kind = "SYSTEM_CHECKSTOP" /\ r.outcome = "ok" =>
        \E n \in DOMAIN r.leaves : Speaks(r.leaves[n], sigs, root)
  <2> DEFINE fresh == GetResolution(sigs[root], {})
  <2>1. r.outcome = "ok" => fresh.outcome = "ok" /\ fresh.leaves = r.leaves
    BY ResolutionSound DEF SpokenInv
  <2>2. kind = "SYSTEM_CHECKSTOP" /\ fresh.outcome = "ok" =>
          \E n \in DOMAIN fresh.leaves : Speaks(fresh.leaves[n], sigs, root)
    BY <1>1, <1>2 DEF CheckstopsCall
  <2> HIDE DEF r, fresh
  <2>3. QED
    BY <2>1, <2>2
<1>6. /\ phase = "parse" /\ stack' = r.stack
      /\ CASE r.outcome = "ok"    -> /\ phase' = "resolve"
                                     /\ leaves' = r.leaves
                                     /\ UNCHANGED <<kind, active, sigs, root, calls, seen,
                                                    failed, data, pel>>
           [] r.outcome = Threw   -> CatchException
           [] OTHER               -> Abort
  BY DEF Parse
<1> HIDE DEF r
<1>7. CASE r.outcome = "ok"
  <2>1. /\ phase' = "resolve" /\ leaves' = r.leaves
        /\ UNCHANGED <<kind, active, sigs, root, calls, seen, failed, data, pel>>
    BY <1>6, <1>7 DEF Threw
  <2>2. IsList(leaves')
    BY <1>4, <2>1 DEF IsList
  <2>3. kind = "SYSTEM_CHECKSTOP" => Promise'
    BY <1>5, <1>7, <2>1, <2>2 DEF Promise
  <2>4. QED
    BY <1>4, <1>6, <2>1, <2>3 DEF SpokenInv
<1>8. CASE r.outcome # "ok"
  BY <1>4, <1>6, <1>8, CatchSpoken, AbortSpoken
<1>9. QED
  BY <1>7, <1>8

\* A resolution that is taken from the list leaves the others or its calls.
LEMMA ResolveSpoken ==
  ASSUME CalloutInv, SpokenInv, Resolve
  PROVE  SpokenInv'
<1>1. PICK answer \in (IF Head(leaves).type = "plugin" THEN Readings ELSE {Quiet}) :
        LET Decided(r) ==
              CASE r.outcome = "ok"  -> /\ leaves' = Tail(leaves)
                                        /\ calls' = r.calls
                                        /\ seen' = answer
                                        /\ UNCHANGED <<phase, kind, active, sigs, root, failed,
                                                       data, pel>>
                [] r.outcome = Threw -> CatchException
                [] OTHER             -> Abort
        IN Decided(ResolutionCalls(Head(leaves), sigs[root].chip, sigs, active, answer))
  BY DEF Resolve
<1> DEFINE r == ResolutionCalls(Head(leaves), sigs[root].chip, sigs, active, answer)
<1>2. answer \in Readings
  BY AnalyzerAssumption
<1>3. Speaks(Head(leaves), sigs, root) /\ r.outcome = "ok" => r.calls # <<>>
  BY <1>2 DEF Speaks, SpokenInv
<1> HIDE DEF r
<1>4. /\ phase = "resolve" /\ calls = <<>> /\ leaves # <<>> /\ UNCHANGED stack
      /\ CASE r.outcome = "ok"  -> /\ leaves' = Tail(leaves)
                                   /\ calls' = r.calls
                                   /\ seen' = answer
                                   /\ UNCHANGED <<phase, kind, active, sigs, root, failed,
                                                  data, pel>>
           [] r.outcome = Threw -> CatchException
           [] OTHER             -> Abort
  BY <1>1 DEF Resolve, r
<1>5. CASE r.outcome = "ok"
  <2>1. /\ leaves' = Tail(leaves) /\ calls' = r.calls
        /\ UNCHANGED <<phase, kind, active, sigs, root, failed, callouts>>
    BY <1>4, <1>5 DEF Threw, data
  <2>2. ASSUME IsList(leaves), NEW n \in DOMAIN leaves, Speaks(leaves[n], sigs, root)
        PROVE  Promise'
    <3>1. PICK S : leaves \in Seq(S)
      BY <2>2 DEF IsList
    <3>2. CASE n = 1
      <4>1. leaves[n] = Head(leaves)
        BY <1>4, <3>1, <3>2
      <4>2. calls' # <<>>
        BY <1>3, <1>5, <2>1, <2>2, <4>1
      <4>3. QED
        BY <4>2 DEF Promise
    <3>3. CASE n # 1
      <4>1. /\ Tail(leaves) \in Seq(S) /\ n - 1 \in DOMAIN Tail(leaves)
            /\ Tail(leaves)[n - 1] = leaves[n]
        BY <1>4, <2>2, <3>1, <3>3
      <4>2. IsList(leaves') /\ n - 1 \in DOMAIN leaves' /\ leaves'[n - 1] = leaves[n]
        BY <2>1, <4>1 DEF IsList
      <4>3. Speaks(leaves'[n - 1], sigs', root')
        BY <2>1, <2>2, <4>2
      <4>4. QED
        BY <4>2, <4>3 DEF Promise
    <3>4. QED
      BY <3>2, <3>3
  <2>3. kind = "SYSTEM_CHECKSTOP" => Promise'
    BY <1>4, <2>1, <2>2 DEF SpokenInv, Promise
  <2>4. QED
    BY <1>4, <2>1, <2>3 DEF SpokenInv
<1>6. CASE r.outcome # "ok"
  <2>1. stack' \in SUBSET Names
    BY <1>4 DEF SpokenInv
  <2>2. QED
    BY <1>4, <1>6, <2>1, CatchSpoken, AbortSpoken
<1>7. QED
  BY <1>5, <1>6

\* Every step keeps the promise.
LEMMA SpokenStep ==
  ASSUME CheckstopsCall, CalloutInv, RootInv, SpokenInv, [Next]_vars
  PROVE  SpokenInv'
<1>1. CASE UNCHANGED vars
  BY <1>1 DEF vars, data, SpokenInv, Promise
<1>2. ASSUME NEW k \in AnalysisType, Analyze(k) PROVE SpokenInv'
  BY <1>2 DEF Analyze, SpokenInv, GetActiveProcessorChips
<1>3. CASE Filter
  <2> DEFINE r == FilterRootCause(kind, sigs)
  <2>1. (r > 0 \/ r <= 0) /\ ~(r > 0 /\ r <= 0)
    <3>1. r \in DOMAIN sigs \cup {NotFound, Thrown} /\ DOMAIN sigs = 1 .. Len(sigs)
      BY SigsList, FilterResult, Indices
    <3> HIDE DEF r
    <3>2. QED
      BY <3>1 DEF NotFound, Thrown
  <2>2. /\ phase' = CASE r > 0 /\ kind # "MANUAL"             -> "parse"
                      [] r > 0 /\ kind = "MANUAL"             -> "commit"
                      [] r <= 0 /\ kind = "SYSTEM_CHECKSTOP"  -> "commit"
                      [] OTHER                                -> "done"
        /\ r <= 0 /\ kind = "SYSTEM_CHECKSTOP" => MakeCall(NextLevel)
        /\ UNCHANGED <<kind, active, stack>>
    BY <1>3 DEF Filter
  <2> HIDE DEF r
  <2>3. MakeCall(NextLevel) => callouts' # <<>>
    BY CallNotEmpty DEF MakeCall, CalloutInv
  <2>4. r > 0 /\ kind = "SYSTEM_CHECKSTOP" => phase' = "parse"
    BY <2>1, <2>2
  <2>5. QED
    BY <2>1, <2>2, <2>3, <2>4 DEF SpokenInv
<1>4. CASE Parse
  BY <1>4, ParseSpoken
<1>5. CASE Resolve
  BY <1>5, ResolveSpoken
<1>6. CASE Call
  <2>1. UNCHANGED stack /\ stack' \in SUBSET Names
    BY <1>6 DEF Call, SpokenInv
  <2>2. CASE Outcome(Head(calls)) = "ok"
    <3>1. /\ MakeCall(Head(calls)) /\ phase = "resolve"
          /\ UNCHANGED <<phase, kind, active, sigs, root, leaves, seen, failed, pel>>
      BY <1>6, <2>2 DEF Call, Threw
    <3>2. callouts' # <<>>
      BY <3>1, CallNotEmpty DEF MakeCall, CalloutInv
    <3>3. QED
      BY <2>1, <3>1, <3>2 DEF SpokenInv, Promise
  <2>3. CASE Outcome(Head(calls)) # "ok"
    BY <1>6, <2>1, <2>3, CatchSpoken, AbortSpoken DEF Call
  <2>4. QED
    BY <2>2, <2>3
<1>7. CASE Resolved
  <2>1. /\ phase = "resolve" /\ calls = <<>> /\ leaves = <<>> /\ phase' = "commit"
        /\ UNCHANGED <<kind, active, stack, callouts>>
    BY <1>7 DEF Resolved, data
  <2>2. DOMAIN leaves = {}
    BY <2>1
  <2>3. kind = "SYSTEM_CHECKSTOP" => callouts # <<>>
    BY <2>1, <2>2 DEF SpokenInv, Promise
  <2>4. QED
    BY <2>1, <2>3 DEF SpokenInv
<1>8. CASE CommitPel
  BY <1>8 DEF CommitPel, data, SpokenInv
<1>9. CASE Return
  BY <1>9 DEF Return, SpokenInv
<1>10. QED
  BY <1>1, <1>2, <1>3, <1>4, <1>5, <1>6, <1>7, <1>8, <1>9 DEF Next

\* A system checkstop is never reported without a callout, and an analysis that
\* threw an exception asks for next level support whatever it called out before.
THEOREM SomebodyCalledHolds ==
  ASSUME CheckstopsCall
  PROVE  Spec => []SomebodyCalled
<1>1. Init => SpokenInv
  BY DEF Init, SpokenInv
<1>2. CalloutInv /\ RootInv /\ SpokenInv /\ [Next]_vars => SpokenInv'
  BY SpokenStep
<1>3. CalloutInv /\ SpokenInv => SomebodyCalled
  <2>1. SUFFICES ASSUME CalloutInv, SpokenInv, phase = "done", kind = "SYSTEM_CHECKSTOP" \/ failed
                 PROVE  /\ callouts # <<>>
                        /\ failed => ProcedureCallout("next_level_support", "HIGH") \in Range(callouts)
    BY DEF SomebodyCalled
  <2>2. failed => ProcedureCallout("next_level_support", "HIGH") \in Range(callouts)
    BY <2>1 DEF CalloutInv, Reported, Range
  <2>3. failed => callouts # <<>>
    BY <2>1 DEF CalloutInv, Reported
  <2>4. QED
    BY <2>1, <2>2, <2>3 DEF SpokenInv
<1>4. QED
  BY <1>1, <1>2, <1>3, CalloutInvHolds, RootInvHolds, PTL DEF Spec

--------------------------------------------------------------------------------
(* What stays on the stack *)

\* While the process lives, what is on the stack between the walks was put there
\* by one that an exception ended.
StackInv ==
  /\ stack \in SUBSET Names
  /\ phase # "aborted" => \A name \in stack : \E m \in DOMAIN Files : name \in Broken(m)

\* A walk adds nothing to the stack but broken actions, unless it is the last one.
LEMMA ParseStack ==
  ASSUME StackInv, Parse
  PROVE  StackInv'
<1> DEFINE r == GetResolution(sigs[root], stack)
<1>1. /\ phase = "parse" /\ stack' = r.stack
      /\ CASE r.outcome = "ok"    -> phase' = "resolve"
           [] r.outcome = Threw   -> phase' = "commit"
           [] OTHER               -> phase' = "aborted"
  BY DEF Parse, CatchException, Abort
<1>2. /\ r.stack \in SUBSET Names
      /\ r.outcome = "ok" => r.stack = stack
      /\ r.outcome = Threw => \A name \in r.stack \ stack : \E m \in DOMAIN Files : name \in Broken(m)
  BY ResolutionSound DEF StackInv
<1> HIDE DEF r
<1>3. phase' # "aborted" => r.outcome = "ok" \/ r.outcome = Threw
  BY <1>1
<1>4. ASSUME phase' # "aborted", NEW name \in stack'
      PROVE  \E m \in DOMAIN Files : name \in Broken(m)
  <2>1. CASE name \in stack
    BY <1>1, <2>1 DEF StackInv
  <2>2. CASE name \notin stack
    BY <1>1, <1>2, <1>3, <1>4, <2>2
  <2>3. QED
    BY <2>1, <2>2
<1>5. QED
  BY <1>1, <1>2, <1>4 DEF StackInv

\* No other step touches the stack, or brings the process back to life.
LEMMA StackStep == StackInv /\ [Next]_vars => StackInv'
<1> SUFFICES ASSUME StackInv, [Next]_vars PROVE StackInv'
  OBVIOUS
<1>1. CASE Parse
  BY <1>1, ParseStack
<1>2. ASSUME stack' = stack, phase # "aborted" \/ phase' = phase PROVE StackInv'
  BY <1>2 DEF StackInv
<1>3. ASSUME NEW k \in AnalysisType, Analyze(k) PROVE stack' = stack /\ phase # "aborted"
  BY <1>3 DEF Analyze
<1>4. Filter => stack' = stack /\ phase # "aborted"
  BY DEF Filter
<1>5. Resolve => stack' = stack /\ phase # "aborted"
  BY DEF Resolve
<1>6. Call => stack' = stack /\ phase # "aborted"
  BY DEF Call
<1>7. Resolved \/ CommitPel \/ Return => stack' = stack /\ phase # "aborted"
  BY DEF Resolved, CommitPel, Return
<1>8. UNCHANGED vars => stack' = stack /\ phase' = phase
  BY DEF vars
<1>9. QED
  BY <1>1, <1>2, <1>3, <1>4, <1>5, <1>6, <1>7, <1>8 DEF Next

\* Between analyses the static stack of parseAction() holds only actions that a
\* data file calls for and cannot resolve.
THEOREM StackHoldsBrokenHolds == Spec => []StackHoldsBroken
<1>1. Init => StackInv
  BY DEF Init, StackInv
<1>2. StackInv => StackHoldsBroken
  BY DEF StackInv, StackHoldsBroken, Broken
<1>3. QED
  BY <1>1, <1>2, StackStep, PTL DEF Spec

--------------------------------------------------------------------------------
(* Selecting from a list *)

\* What Selected asks of a function on 0 .. n.
Selecting(list, places, n, w) ==
  w = [i \in 0 .. n |->
         IF i = 0 THEN <<>>
         ELSE IF i \in places THEN Append(w[i - 1], list[i]) ELSE w[i - 1]]

\* There is a function for the recursion, however many places it has.
LEMMA SelectingExists ==
  ASSUME NEW list, NEW places, NEW n \in Nat
  PROVE  \E w : Selecting(list, places, n, w)
<1> DEFINE e(i, v) == IF i \in places THEN Append(v, list[i]) ELSE v
           Is(k, w) == w = [i \in 0 .. k |-> IF i = 0 THEN <<>> ELSE e(i, w[i - 1])]
           good == {k \in 0 .. n : \E w : Is(k, w)}
<1>1. SUFFICES good = 0 .. n
  <2>1. n \in 0 .. n
    OBVIOUS
  <2>2. ASSUME good = 0 .. n PROVE \E w : Is(n, w)
    BY <2>1, <2>2
  <2>3. QED
    BY <2>2 DEF Selecting
<1> HIDE DEF e
<1>2. 0 \in good
  <2> DEFINE w == [i \in 0 .. 0 |-> <<>>]
  <2>1. w = [i \in 0 .. 0 |-> IF i = 0 THEN <<>> ELSE e(i, w[i - 1])]
    OBVIOUS
  <2>2. Is(0, w)
    BY <2>1
  <2>3. 0 \in 0 .. n
    OBVIOUS
  <2> HIDE DEF w, Is
  <2>4. QED
    BY <2>2, <2>3
<1>3. ASSUME NEW k \in 1 .. n, k - 1 \in good PROVE k \in good
  <2>2. PICK w : Is(k - 1, w)
    BY <1>3
  <2> DEFINE g == [i \in 0 .. k |-> IF i = 0 THEN <<>> ELSE e(i, w[i - 1])]
  <2>3. \A i \in 0 .. k - 1 : g[i] = w[i]
    <3>1. \A i \in 0 .. k - 1 : w[i] = IF i = 0 THEN <<>> ELSE e(i, w[i - 1])
      BY <2>2
    <3>2. \A i \in 0 .. k - 1 : i \in 0 .. k
      OBVIOUS
    <3>3. QED
      BY <3>1, <3>2
  <2>4. \A i \in 0 .. k : g[i] = IF i = 0 THEN <<>> ELSE e(i, w[i - 1])
    OBVIOUS
  <2>5. \A i \in 0 .. k : i # 0 => i - 1 \in 0 .. k - 1
    OBVIOUS
  <2>6. g = [i \in 0 .. k |-> g[i]]
    OBVIOUS
  <2> HIDE DEF g
  <2>7. \A i \in 0 .. k : g[i] = IF i = 0 THEN <<>> ELSE e(i, g[i - 1])
    BY <2>3, <2>4, <2>5
  <2>8. Is(k, g)
    BY <2>6, <2>7
  <2>9. QED
    BY <2>8
<1> HIDE DEF Is
<1>4. QED
  BY <1>2, <1>3, Upwards

\* The elements that Selected takes are those at the places, and all of them.
LEMMA SelectedIs ==
  ASSUME NEW T, NEW list \in Seq(T), NEW places
  PROVE  LET taken == {i \in DOMAIN list : i \in places}
         IN /\ Selected(list, places) \in Seq({list[i] : i \in taken})
            /\ \A i \in taken : \E j \in DOMAIN Selected(list, places) :
                 Selected(list, places)[j] = list[i]
<1> DEFINE n == Len(list)
           w == CHOOSE w : w = [i \in 0 .. n |->
                  IF i = 0 THEN <<>>
                  ELSE IF i \in places THEN Append(w[i - 1], list[i]) ELSE w[i - 1]]
           taken == {i \in DOMAIN list : i \in places}
           S == {list[i] : i \in taken}
<1>1. Selected(list, places) = w[n]
  BY Zenon DEF Selected
<1>2. n \in Nat /\ DOMAIN list = 1 .. n
  OBVIOUS
<1>3. Selecting(list, places, n, w)
  <2> DEFINE k == n
  <2>1. k \in Nat
    BY <1>2
  <2> HIDE DEF k
  <2>2. \E v : Selecting(list, places, k, v)
    BY <2>1, SelectingExists
  <2>3. QED
    BY <2>2, Zenon DEF Selecting, k
<1> HIDE DEF w
<1>4. /\ w[0] = <<>>
      /\ \A i \in 1 .. n : w[i] = IF i \in places THEN Append(w[i - 1], list[i]) ELSE w[i - 1]
  <2>1. 0 \in 0 .. n /\ \A i \in 1 .. n : i \in 0 .. n /\ i # 0
    BY <1>2
  <2> HIDE DEF n
  <2>2. QED
    BY <1>3, <2>1 DEF Selecting
<1> DEFINE Has(v, k) == /\ v \in Seq(S)
                        /\ \A i \in taken : i <= k => \E j \in DOMAIN v : v[j] = list[i]
           I == {k \in 0 .. n : Has(w[k], k)}
<1>5. 0 \in I
  <2>1. w[0] \in Seq(S)
    BY <1>4
  <2>2. 0 \in 0 .. n /\ \A i \in taken : ~(i <= 0)
    BY <1>2
  <2> HIDE DEF S, taken
  <2>3. QED
    BY <2>1, <2>2
<1>6. ASSUME NEW k \in 1 .. n, k - 1 \in I PROVE k \in I
  <2>1. Has(w[k - 1], k - 1) /\ k \in 0 .. n
    BY <1>6
  <2>2. CASE k \in places
    <3>1. w[k] = Append(w[k - 1], list[k]) /\ list[k] \in S /\ k \in taken
      BY <1>2, <1>4, <2>2
    <3> DEFINE v == w[k - 1]
               m == Len(v) + 1
    <3>2. v \in Seq(S)
      BY <2>1
    <3> HIDE DEF v, S
    <3>3. /\ w[k] \in Seq(S) /\ m \in DOMAIN w[k] /\ w[k][m] = list[k]
          /\ \A j \in DOMAIN v : j \in DOMAIN w[k] /\ w[k][j] = v[j]
      BY <3>1, <3>2 DEF v
    <3>4. ASSUME NEW i \in taken, i <= k PROVE \E j \in DOMAIN w[k] : w[k][j] = list[i]
      <4>1. i = k \/ i <= k - 1
        BY <1>2, <3>4
      <4>2. CASE i = k
        BY <3>3, <4>2
      <4>3. CASE i <= k - 1
        <5>1. \E j \in DOMAIN v : v[j] = list[i]
          BY <2>1, <4>3 DEF v
        <5>2. QED
          BY <3>3, <5>1
      <4>4. QED
        BY <4>1, <4>2, <4>3
    <3>5. QED
      BY <2>1, <3>3, <3>4
  <2>3. CASE k \notin places
    <3>1. w[k] = w[k - 1]
      BY <1>4, <2>3
    <3>2. \A i \in taken : i <= k => i <= k - 1
      BY <1>2, <2>3
    <3> HIDE DEF S, taken
    <3>3. QED
      BY <2>1, <3>1, <3>2
  <2>4. QED
    BY <2>2, <2>3
<1>7. I = 0 .. n
  <2> HIDE DEF Has, n
  <2>1. QED
    BY <1>2, <1>5, <1>6, Upwards
<1>8. Has(w[n], n)
  <2>1. n \in 0 .. n
    BY <1>2
  <2> HIDE DEF Has, n
  <2>3. n \in I
    BY <1>7, <2>1, Zenon
  <2>2. QED
    BY <2>3
<1>9. \A i \in taken : i <= n
  BY <1>2
<1> HIDE DEF n
<1>10. QED
  BY <1>1, <1>8, <1>9

--------------------------------------------------------------------------------
(* The device tree *)

\* What is known of the order of the device tree.
LEMMA OrderIs ==
  /\ Len(Order) \in Nat /\ DOMAIN Order = 1 .. Len(Order)
  /\ \A i \in 1 .. Len(Order) : Order[i] \in Target
  /\ \A t \in Target : \E i \in 1 .. Len(Order) : Order[i] = t
  /\ \A i, j \in 1 .. Len(Order) :
       /\ Order[i] = Order[j] => i = j
       /\ Order[i] = Parent[Order[j]] => i < j
<1>1. Order \in Seq(Target)
  BY OrderAssumption
<1>2. Len(Order) \in Nat /\ DOMAIN Order = 1 .. Len(Order)
  BY <1>1
<1>3. \A i \in 1 .. Len(Order) : Order[i] \in Target
  BY <1>1
<1>4. QED
  BY <1>2, <1>3, OrderAssumption, Zenon

\* What a function on the targets has for a target follows from what it has for
\* the one above.
FromAbove(F, t, base, step) ==
  F[t] = IF Parent[t] = NoTarget THEN base[t] ELSE step[<<t, F[Parent[t]]>>]

\* There is a function for every recursion up the device tree.
LEMMA TreeRecursion ==
  ASSUME NEW R, NEW base \in [Target -> R], NEW step \in [Target \X R -> R]
  PROVE  \E F \in [Target -> R] : \A t \in Target : FromAbove(F, t, base, step)
<1> DEFINE n == Len(Order)
           Done(k) == \E F \in [Target -> R] : \A i \in 1 .. k : FromAbove(F, Order[i], base, step)
           I == {k \in 0 .. n : Done(k)}
<1>1. /\ n \in Nat /\ \A i \in 1 .. n : Order[i] \in Target
      /\ \A t \in Target : \E i \in 1 .. n : Order[i] = t
      /\ \A i, j \in 1 .. n : (Order[i] = Order[j] => i = j) /\ (Order[i] = Parent[Order[j]] => i < j)
  BY OrderIs
<1> HIDE DEF n
<1>2. 0 \in I
  <2>1. \A i \in 1 .. 0 : FromAbove(base, Order[i], base, step)
    OBVIOUS
  <2>2. 0 \in 0 .. n
    BY <1>1
  <2>3. QED
    BY <2>1, <2>2
<1>3. ASSUME NEW k \in 1 .. n, k - 1 \in I PROVE k \in I
  <2>1. k \in 0 .. n /\ Done(k - 1)
    BY <1>1, <1>3
  <2>2. PICK F \in [Target -> R] : \A i \in 1 .. k - 1 : FromAbove(F, Order[i], base, step)
    BY <2>1
  <2> DEFINE t == Order[k]
             v == IF Parent[t] = NoTarget THEN base[t] ELSE step[<<t, F[Parent[t]]>>]
             G == [F EXCEPT ![t] = v]
  <2>3. t \in Target /\ (Parent[t] = NoTarget \/ Parent[t] \in Target)
    BY <1>1, TreeAssumption
  <2>4. v \in R
    <3>1. base[t] \in R
      BY <2>3
    <3>2. ASSUME Parent[t] # NoTarget PROVE step[<<t, F[Parent[t]]>>] \in R
      <4>1. F[Parent[t]] \in R
        BY <2>3, <3>2
      <4>2. <<t, F[Parent[t]]>> \in Target \X R
        BY <2>3, <4>1
      <4>3. QED
        BY <4>2
    <3>3. QED
      BY <3>1, <3>2
  <2>5. G \in [Target -> R] /\ G[t] = v /\ \A u \in Target : u # t => G[u] = F[u]
    <3> HIDE DEF v
    <3>1. QED
      BY <2>3, <2>4
  <2>6. Parent[t] # t /\ \A i \in 1 .. k - 1 : Order[i] # t /\ Parent[Order[i]] # t
    <3>1. ASSUME Order[k] = Parent[Order[k]] PROVE FALSE
      <4>1. k < k
        BY <1>1, <3>1
      <4>2. QED
        BY <1>1, <4>1
    <3>2. ASSUME NEW i \in 1 .. k - 1 PROVE Order[i] # Order[k] /\ Order[k] # Parent[Order[i]]
      <4>1. i \in 1 .. n /\ i < k /\ ~(k < i) /\ i # k
        BY <1>1
      <4>2. QED
        BY <1>1, <4>1
    <3>3. QED
      BY <3>1, <3>2
  <2> HIDE DEF G, v
  <2>7. FromAbove(G, t, base, step)
    <3>1. Parent[t] # NoTarget => G[Parent[t]] = F[Parent[t]]
      BY <2>3, <2>5, <2>6
    <3>2. QED
      BY <2>5, <3>1 DEF v, FromAbove
  <2>8. ASSUME NEW i \in 1 .. k - 1 PROVE FromAbove(G, Order[i], base, step)
    <3>1. Order[i] \in Target /\ (Parent[Order[i]] = NoTarget \/ Parent[Order[i]] \in Target)
      <4>1. i \in 1 .. n
        BY <1>1
      <4>2. QED
        BY <1>1, <4>1, TreeAssumption
    <3>2. G[Order[i]] = F[Order[i]]
          /\ (Parent[Order[i]] # NoTarget => G[Parent[Order[i]]] = F[Parent[Order[i]]])
      BY <2>5, <2>6, <3>1
    <3>3. QED
      BY <2>2, <3>2 DEF FromAbove
  <2>9. \A i \in 1 .. k : FromAbove(G, Order[i], base, step)
    <3>1. \A i \in 1 .. k : i = k \/ i \in 1 .. k - 1
      BY <1>1
    <3>2. QED
      BY <2>7, <2>8, <3>1
  <2>10. QED
    BY <2>1, <2>5, <2>9
<1>4. n \in I
  <2>1. I = 0 .. n
    <3> HIDE DEF Done
    <3>1. QED
      BY <1>1, <1>2, <1>3, Upwards
  <2>2. QED
    BY <1>1, <2>1
<1>5. PICK F \in [Target -> R] : \A i \in 1 .. n : FromAbove(F, Order[i], base, step)
  BY <1>4
<1>6. ASSUME NEW t \in Target PROVE FromAbove(F, t, base, step)
  <2>1. PICK i \in 1 .. n : Order[i] = t
    BY <1>1
  <2>2. QED
    BY <1>5, <2>1
<1>7. QED
  BY <1>6

\* Induction down the device tree.
LEMMA TreeInduction ==
  ASSUME NEW S \in SUBSET Target,
         \A t \in Target : Parent[t] = NoTarget \/ Parent[t] \in S => t \in S
  PROVE  S = Target
<1> DEFINE n == Len(Order)
           I == {k \in 0 .. n : \A i \in 1 .. k : Order[i] \in S}
<1>1. /\ n \in Nat /\ \A i \in 1 .. n : Order[i] \in Target
      /\ \A t \in Target : \E i \in 1 .. n : Order[i] = t
      /\ \A i, j \in 1 .. n : Order[i] = Parent[Order[j]] => i < j
  BY OrderIs
<1> HIDE DEF n
<1>2. 0 \in I
  BY <1>1
<1>3. ASSUME NEW k \in 1 .. n, k - 1 \in I PROVE k \in I
  <2>1. k \in 0 .. n /\ \A i \in 1 .. k - 1 : Order[i] \in S
    BY <1>1, <1>3
  <2>2. Order[k] \in Target /\ (Parent[Order[k]] = NoTarget \/ Parent[Order[k]] \in Target)
    BY <1>1, TreeAssumption
  <2>3. ASSUME Parent[Order[k]] \in Target PROVE Parent[Order[k]] \in S
    <3>1. PICK i \in 1 .. n : Order[i] = Parent[Order[k]]
      BY <1>1, <2>3
    <3>2. i < k
      BY <1>1, <3>1
    <3>3. i \in 1 .. k - 1
      BY <1>1, <3>2
    <3>4. QED
      BY <2>1, <3>1, <3>3
  <2>4. Order[k] \in S
    BY <2>2, <2>3
  <2>5. \A i \in 1 .. k : i = k \/ i \in 1 .. k - 1
    BY <1>1
  <2>6. QED
    BY <2>1, <2>4, <2>5
<1>4. n \in I
  <2>1. I = 0 .. n
    BY <1>1, <1>2, <1>3, Upwards
  <2>2. QED
    BY <1>1, <2>1
<1>5. ASSUME NEW t \in Target PROVE t \in S
  <2>1. PICK i \in 1 .. n : Order[i] = t
    BY <1>1
  <2>2. QED
    BY <1>4, <2>1
<1>6. QED
  BY <1>5

\* The targets that contain a target are found by going up from it.
LEMMA AboveIs ==
  /\ Above \in [Target -> SUBSET Target]
  /\ \A t \in Target : Above[t] = IF Parent[t] = NoTarget THEN {} ELSE {Parent[t]} \cup Above[Parent[t]]
<1> DEFINE R == SUBSET Target
           base == [t \in Target |-> {}]
           step == [x \in Target \X R |->
                      IF Parent[x[1]] = NoTarget THEN {} ELSE {Parent[x[1]]} \cup x[2]]
           Is(F) == F = [t \in Target |->
                      IF Parent[t] = NoTarget THEN {} ELSE {Parent[t]} \cup F[Parent[t]]]
<1>1. \A t \in Target : Parent[t] = NoTarget \/ Parent[t] \in Target
  BY TreeAssumption
<1>2. base \in [Target -> R] /\ step \in [Target \X R -> R]
  <2>1. ASSUME NEW x \in Target \X R
        PROVE  (IF Parent[x[1]] = NoTarget THEN {} ELSE {Parent[x[1]]} \cup x[2]) \in R
    <3>1. x[1] \in Target /\ x[2] \in R
      OBVIOUS
    <3>2. QED
      BY <1>1, <3>1
  <2>2. QED
    BY <2>1
<1>3. PICK F \in [Target -> R] : \A t \in Target : FromAbove(F, t, base, step)
  <2> HIDE DEF base, step, R
  <2>1. QED
    BY <1>2, TreeRecursion
<1>4. ASSUME NEW t \in Target
      PROVE  F[t] = IF Parent[t] = NoTarget THEN {} ELSE {Parent[t]} \cup F[Parent[t]]
  <2>1. CASE Parent[t] = NoTarget
    BY <1>3, <2>1 DEF FromAbove
  <2>2. CASE Parent[t] # NoTarget
    <3>1. F[Parent[t]] \in R
      BY <1>1, <2>2
    <3>2. <<t, F[Parent[t]]>> \in Target \X R
      BY <3>1
    <3>3. step[<<t, F[Parent[t]]>>] = {Parent[t]} \cup F[Parent[t]]
      BY <2>2, <3>2
    <3> HIDE DEF step, base
    <3>4. QED
      BY <1>3, <2>2, <3>3 DEF FromAbove
  <2>3. QED
    BY <2>1, <2>2
<1>5. Is(F)
  BY <1>4
<1>6. Is(Above)
  <2>1. Above = CHOOSE G : Is(G)
    BY Zenon DEF Above
  <2> HIDE DEF Is
  <2>2. QED
    BY <1>5, <2>1, Zenon
<1> DEFINE S == {t \in Target : Above[t] \in R}
<1>7. \A t \in Target : Above[t] = IF Parent[t] = NoTarget THEN {} ELSE {Parent[t]} \cup Above[Parent[t]]
  BY <1>6
<1>8. S = Target
  <2>1. ASSUME NEW t \in Target, Parent[t] = NoTarget \/ Parent[t] \in S PROVE t \in S
    BY <1>1, <1>7, <2>1
  <2> HIDE DEF S
  <2>2. S \in SUBSET Target
    BY DEF S
  <2>3. QED
    BY <2>1, <2>2, TreeInduction
<1>9. Above \in [Target -> R]
  <2>1. \A t \in Target : Above[t] \in R
    BY <1>8
  <2>2. Above = [t \in Target |-> Above[t]]
    BY <1>6
  <2> HIDE DEF R
  <2>3. QED
    BY <2>1, <2>2
<1>10. QED
  BY <1>7, <1>9

\* The location code of a target is one that some target has, or there is none.
LEMMA LocationIs ==
  \A t \in Target \cup {NoTarget} : GetLocationCode[t] \in Range(Code) \cup {"none"}
<1> DEFINE R == Range(Code) \cup {"none"}
           D == Target \cup {NoTarget}
           base == [t \in Target |-> IF t \in DOMAIN Code THEN Code[t] ELSE "none"]
           step == [x \in Target \X R |-> IF x[1] \in DOMAIN Code THEN Code[x[1]] ELSE x[2]]
           Is(F) == F = [t \in D |->
                      CASE t = NoTarget      -> "none"
                        [] t \in DOMAIN Code -> Code[t]
                        [] OTHER             -> F[Parent[t]]]
<1>1. /\ \A t \in Target : Parent[t] = NoTarget \/ Parent[t] \in Target
      /\ NoTarget \notin Target /\ DOMAIN Code \subseteq Target
  BY TreeAssumption
<1>a. \A t \in DOMAIN Code : Code[t] \in R
  BY DEF Range
<1>b. "none" \in R
  OBVIOUS
<1>2. base \in [Target -> R] /\ step \in [Target \X R -> R]
  <2> HIDE DEF R
  <2>1. \A x \in Target \X R : x[2] \in R
    OBVIOUS
  <2>2. QED
    BY <1>a, <1>b, <2>1
<1>3. PICK F \in [Target -> R] : \A t \in Target : FromAbove(F, t, base, step)
  <2> HIDE DEF base, step, R
  <2>1. QED
    BY <1>2, TreeRecursion
<1> DEFINE G == [t \in D |-> IF t = NoTarget THEN "none" ELSE F[t]]
<1>4. ASSUME NEW t \in Target
      PROVE  F[t] = IF t \in DOMAIN Code THEN Code[t]
                    ELSE IF Parent[t] = NoTarget THEN "none" ELSE F[Parent[t]]
  <2>1. CASE Parent[t] = NoTarget
    BY <1>3, <2>1 DEF FromAbove
  <2>2. CASE Parent[t] # NoTarget
    <3>1. F[Parent[t]] \in R
      BY <1>1, <2>2
    <3> HIDE DEF R
    <3>2. <<t, F[Parent[t]]>> \in Target \X R
      BY <3>1
    <3>3. step[<<t, F[Parent[t]]>>] = IF t \in DOMAIN Code THEN Code[t] ELSE F[Parent[t]]
      BY <2>2, <3>2
    <3> HIDE DEF step, base
    <3>4. QED
      BY <1>3, <2>2, <3>3 DEF FromAbove
  <2>3. QED
    BY <2>1, <2>2
<1>5. Is(G)
  <2>1. ASSUME NEW t \in D
        PROVE  G[t] = CASE t = NoTarget      -> "none"
                        [] t \in DOMAIN Code -> Code[t]
                        [] OTHER             -> G[Parent[t]]
    <3>1. CASE t = NoTarget
      BY <1>1, <3>1
    <3>2. CASE t # NoTarget
      <4>1. t \in Target /\ Parent[t] \in D
        BY <1>1, <3>2
      <4>2. G[t] = F[t] /\ G[Parent[t]] = IF Parent[t] = NoTarget THEN "none" ELSE F[Parent[t]]
        BY <3>2, <4>1
      <4> HIDE DEF G
      <4>3. QED
        BY <1>4, <3>2, <4>1, <4>2
    <3>3. QED
      BY <3>1, <3>2
  <2>2. G = [t \in D |-> G[t]]
    OBVIOUS
  <2> HIDE DEF G
  <2>3. QED
    BY <2>1, <2>2
<1>6. Is(GetLocationCode)
  <2>1. GetLocationCode = CHOOSE H : Is(H)
    BY Zenon DEF GetLocationCode
  <2> HIDE DEF Is
  <2>2. QED
    BY <1>5, <2>1, Zenon
<1>7. /\ GetLocationCode[NoTarget] = "none"
      /\ \A t \in Target : GetLocationCode[t] = IF t \in DOMAIN Code THEN Code[t]
                                                ELSE GetLocationCode[Parent[t]]
  BY <1>1, <1>6
<1> DEFINE S == {t \in Target : GetLocationCode[t] \in R}
<1>8. S = Target
  <2>1. ASSUME NEW t \in Target, Parent[t] = NoTarget \/ Parent[t] \in S PROVE t \in S
    <3> HIDE DEF R
    <3>1. QED
      BY <1>a, <1>b, <1>7, <2>1
  <2> HIDE DEF S
  <2>2. S \in SUBSET Target
    BY DEF S
  <2>3. QED
    BY <2>1, <2>2, TreeInduction
<1>9. QED
  BY <1>7, <1>8

\* What the device tree answers is a target, or it is one of the failures.
LEMMA TreeAnswers ==
  ASSUME NEW t \in Target
  PROVE  /\ \A type : Ancestor(type, t) \in Target \cup {NoTarget}
         /\ GetParentChip(t) \in Target \cup {Threw}
         /\ GetParentProcessor(t) \in Target \cup {Threw}
         /\ \A type, pos : GetChipUnit(t, type, pos) \in Target \cup {NoTarget, Threw}
         /\ \A bus : GetConnectedTarget(t, bus) \in Target \cup {Threw, Aborted}
         /\ \A unit : UnitTarget(t, unit) \in Target \cup {Threw}
<1>1. \A type : Ancestor(type, t) \in Target \cup {NoTarget}
  <2>1. SUFFICES ASSUME NEW type PROVE Ancestor(type, t) \in Target \cup {NoTarget}
    OBVIOUS
  <2> DEFINE up == {u \in Above[t] : Type[u] = type}
  <2>2. up \subseteq Target
    BY AboveIs
  <2>3. Ancestor(type, t) = IF up = {} THEN NoTarget ELSE CHOOSE u \in up : TRUE
    BY DEF Ancestor
  <2>4. QED
    BY <2>2, <2>3
<1>2. GetParentChip(t) \in Target \cup {Threw}
  <2>1. Ancestor("ocmb", t) \in Target \cup {NoTarget} /\ Ancestor("proc", t) \in Target \cup {NoTarget}
    BY <1>1
  <2> DEFINE chips == {Ancestor("ocmb", t), Ancestor("proc", t)} \ {NoTarget}
  <2>2. GetParentChip(t) = IF t \in Chip THEN t
          ELSE CASE chips = {}                    -> Threw
                 [] Ancestor("ocmb", t) \in chips -> Ancestor("ocmb", t)
                 [] OTHER                         -> Ancestor("proc", t)
    BY DEF GetParentChip
  <2>3. CASE chips = {}
    <3>1. ~(Ancestor("ocmb", t) \in chips)
      BY <2>3
    <3> HIDE DEF chips
    <3>2. QED
      BY <2>2, <2>3, <3>1
  <2>4. CASE chips # {} /\ Ancestor("ocmb", t) \in chips
    <3>1. Ancestor("ocmb", t) \in Target
      BY <2>1, <2>4
    <3> HIDE DEF chips
    <3>2. QED
      BY <2>2, <2>4, <3>1
  <2>5. CASE chips # {} /\ Ancestor("ocmb", t) \notin chips
    <3>1. Ancestor("proc", t) \in Target
      BY <2>1, <2>5
    <3> HIDE DEF chips
    <3>2. QED
      BY <2>2, <2>5, <3>1
  <2>6. QED
    BY <2>3, <2>4, <2>5
<1>3. GetParentProcessor(t) \in Target \cup {Threw}
  BY <1>1 DEF GetParentProcessor
<1>4. ASSUME NEW type, NEW pos PROVE GetChipUnit(t, type, pos) \in Target \cup {NoTarget, Threw}
  <2> DEFINE units == {u \in Target : t \in Above[u] /\ Type[u] = type /\ Pos[u] = pos}
             unknown == type \notin (IF Type[t] = "proc" THEN ProcUnit ELSE OcmbUnit)
  <2>1. GetChipUnit(t, type, pos) = IF unknown THEN Threw
                                    ELSE IF units = {} THEN NoTarget
                                    ELSE CHOOSE u \in units : TRUE
    BY Zenon DEF GetChipUnit
  <2>2. units \subseteq Target
    OBVIOUS
  <2> HIDE DEF units, unknown
  <2>3. QED
    BY <2>1, <2>2
<1>5. ASSUME NEW bus PROVE GetConnectedTarget(t, bus) \in Target \cup {Threw, Aborted}
  <2> DEFINE ocmbs == {u \in Target : t \in Above[u] /\ Type[u] = "ocmb"}
             one == CHOOSE u \in ocmbs : TRUE
             smp == bus = "SMP_BUS" /\ Type[t] \in {"smpgroup", "iohs"}
             omi == bus = "OMI_BUS" /\ Type[t] = "omi"
             ocmb == bus = "OMI_BUS" /\ Type[t] = "ocmb"
             far == IF \E u \in ocmbs : ocmbs = {u} THEN one ELSE Threw
             near == IF Ancestor("omi", t) = NoTarget THEN Threw ELSE Ancestor("omi", t)
             tx == CASE smp  -> GetTargetAcrossBus(t)
                     [] omi  -> far
                     [] ocmb -> near
                     [] OTHER -> Threw
             V == Target \cup {NoTarget, Threw, Aborted}
  <2>1. GetConnectedTarget(t, bus) = IF tx = NoTarget THEN Aborted ELSE tx
    BY DEF GetConnectedTarget
  <2>2. GetTargetAcrossBus(t) \in V
    BY TreeAssumption DEF GetTargetAcrossBus
  <2>3. far \in V
    <3>1. ocmbs \subseteq Target
      OBVIOUS
    <3> HIDE DEF ocmbs
    <3>2. QED
      BY <3>1
  <2>4. near \in V
    BY <1>1
  <2>5. (~smp /\ ~omi) \/ (~smp /\ ~ocmb) \/ (~omi /\ ~ocmb)
    OBVIOUS
  <2>6. Threw \in V
    OBVIOUS
  <2> HIDE DEF smp, omi, ocmb, far, near, V
  <2>7. tx \in V
    BY <2>2, <2>3, <2>4, <2>5, <2>6
  <2> HIDE DEF tx
  <2>8. QED
    BY <2>1, <2>7 DEF V
<1>6. ASSUME NEW unit PROVE UnitTarget(t, unit) \in Target \cup {Threw}
  <2> DEFINE units == {u \in Target : t \in Above[u] /\ <<Type[u], Pos[u]>> = unit}
  <2>1. \/ UnitTarget(t, unit) \in {t, Threw}
        \/ units # {} /\ UnitTarget(t, unit) = CHOOSE u \in units : TRUE
    BY DEF UnitTarget
  <2>2. units \subseteq Target
    OBVIOUS
  <2> HIDE DEF units
  <2>3. QED
    BY <2>1, <2>2
<1>7. QED
  BY <1>1, <1>2, <1>3, <1>4, <1>5, <1>6

--------------------------------------------------------------------------------
(* Calls and entries *)

\* The calls that are made: those that are about a target have one, and those
\* about a procedure name one.
GoodCall ==
  {c \in CallSet : /\ c.op \in {"target", "connected", "bus"} => c.target \in Target
                   /\ c.op = "procedure" => c.name \in Procedure}

\* Each kind of call is one of them.
LEMMA CallsGood ==
  ASSUME NEW priority \in Priority
  PROVE  /\ \A t \in Target, guard \in BOOLEAN :
              /\ TargetCall(t, priority, guard) \in GoodCall
              /\ \A bus \in Bus : /\ ConnectedCall(t, bus, priority, guard) \in GoodCall
                                  /\ BusCall(t, bus, priority, guard) \in GoodCall
         /\ \A name \in Clock : ClockCall(name, priority) \in GoodCall
         /\ \A name \in Procedure : ProcedureCall(name, priority) \in GoodCall
         /\ \A name \in Part : PartCall(name, priority) \in GoodCall
<1> DEFINE Made(op, t, name, guard) ==
             [op |-> op, target |-> t, name |-> name, priority |-> priority, guard |-> guard]
           N == {""} \cup Bus \cup Clock \cup Procedure \cup Part
           Ops == {"target", "connected", "bus", "clock", "procedure", "part"}
<1>1. ASSUME NEW op \in Ops, NEW t \in Target \cup {NoTarget}, NEW name \in N, NEW guard \in BOOLEAN,
             op \in {"target", "connected", "bus"} => t \in Target,
             op = "procedure" => name \in Procedure
      PROVE  Made(op, t, name, guard) \in GoodCall
  <2> HIDE DEF N, Ops
  <2>1. Made(op, t, name, guard) \in [op : Ops, target : Target \cup {NoTarget}, name : N,
                                      priority : Priority, guard : BOOLEAN]
    BY <1>1
  <2>2. QED
    BY <1>1, <2>1 DEF GoodCall, CallSet, N, Ops
<1> HIDE DEF GoodCall, CallSet
<1>2. ASSUME NEW t \in Target, NEW guard \in BOOLEAN, NEW bus \in Bus
      PROVE  /\ TargetCall(t, priority, guard) \in GoodCall
             /\ ConnectedCall(t, bus, priority, guard) \in GoodCall
             /\ BusCall(t, bus, priority, guard) \in GoodCall
  <2>1. "" \in N /\ bus \in N /\ {"target", "connected", "bus"} \subseteq Ops
    OBVIOUS
  <2> HIDE DEF N, Ops, Made
  <2>2. /\ Made("target", t, "", guard) \in GoodCall
        /\ Made("connected", t, bus, guard) \in GoodCall
        /\ Made("bus", t, bus, guard) \in GoodCall
    BY <1>1, <2>1
  <2>3. QED
    BY <2>2 DEF Made, TargetCall, ConnectedCall, BusCall
<1>3. ASSUME NEW op \in {"clock", "procedure", "part"}, NEW name \in N,
             op = "procedure" => name \in Procedure
      PROVE  Made(op, NoTarget, name, FALSE) \in GoodCall
  <2>1. op \in Ops /\ op \notin {"target", "connected", "bus"}
    OBVIOUS
  <2> HIDE DEF N, Ops, Made
  <2>2. QED
    BY <1>1, <1>3, <2>1
<1>4. Clock \subseteq N /\ Procedure \subseteq N /\ Part \subseteq N /\ "SMP_BUS" \in Bus
  BY DEF Bus
<1> HIDE DEF N, Ops, Made
<1>5. /\ \A name \in Clock : Made("clock", NoTarget, name, FALSE) \in GoodCall
      /\ \A name \in Procedure : Made("procedure", NoTarget, name, FALSE) \in GoodCall
      /\ \A name \in Part : Made("part", NoTarget, name, FALSE) \in GoodCall
  BY <1>3, <1>4
<1>6. QED
  BY <1>2, <1>4, <1>5 DEF Made, ClockCall, ProcedureCall, PartCall

\* The entries that a call stands for.
LEMMA CalloutsGood ==
  ASSUME NEW priority \in Priority
  PROVE  /\ \A t \in Target \cup {NoTarget}, guard \in BOOLEAN : \A k :
              TargetCallout(t, priority, guard, k) \in CalloutSet
         /\ BackplaneCallout(priority) \in CalloutSet
         /\ \A name \in Procedure : ProcedureCallout(name, priority) \in CalloutSet
<1> DEFINE Keys == Range(Code) \cup {"P0", "none"} \cup Procedure
           Guards == {"GARD_NULL", "GARD_Predictive", "GARD_Unrecoverable"}
           Types == {"LocationCode", "Procedure"}
           Made(type, key, entity, guard) ==
             [type |-> type, key |-> key, priority |-> priority, entity |-> entity, guard |-> guard]
<1>1. ASSUME NEW type \in Types, NEW key \in Keys, NEW entity \in Target \cup {NoTarget}, NEW guard \in Guards
      PROVE  Made(type, key, entity, guard) \in CalloutSet
  <2> HIDE DEF Keys, Guards, Types
  <2>1. Made(type, key, entity, guard) \in [type : Types, key : Keys, priority : Priority,
                                            entity : Target \cup {NoTarget}, guard : Guards]
    OBVIOUS
  <2>2. QED
    BY <2>1 DEF CalloutSet, Keys, Guards, Types
<1>2. ASSUME NEW t \in Target \cup {NoTarget}, NEW guard \in BOOLEAN, NEW k
      PROVE  TargetCallout(t, priority, guard, k) \in CalloutSet
  <2> DEFINE guarded == guard /\ QueryGuardPolicy(k) # "GARD_NULL"
             e == IF guarded THEN t ELSE NoTarget
             g == IF guarded THEN QueryGuardPolicy(k) ELSE "GARD_NULL"
  <2>1. TargetCallout(t, priority, guard, k) = Made("LocationCode", GetLocationCode[t], e, g)
    BY DEF TargetCallout
  <2>2. e \in Target \cup {NoTarget} /\ g \in Guards
    BY DEF QueryGuardPolicy
  <2>3. GetLocationCode[t] \in Keys /\ "LocationCode" \in Types
    BY LocationIs
  <2> HIDE DEF e, g, Keys, Guards, Types, Made
  <2>4. QED
    BY <1>1, <2>1, <2>2, <2>3
<1>3. /\ "P0" \in Keys /\ Procedure \subseteq Keys /\ "GARD_NULL" \in Guards
      /\ "LocationCode" \in Types /\ "Procedure" \in Types
  OBVIOUS
<1> HIDE DEF Keys, Guards, Types
<1>4. QED
  BY <1>1, <1>2, <1>3 DEF BackplaneCallout, ProcedureCallout

\* What is added to a list of entries.
LEMMA AddTyped ==
  ASSUME NEW list \in Seq(CalloutSet), NEW c \in CalloutSet
  PROVE  AddCallout(list, c) \in Seq(CalloutSet)
<1> DEFINE At(i) == IF i \in {j \in DOMAIN list : SameCallout(list[j], c)}
                       /\ Level(list[i].priority) < Level(c.priority)
                      THEN c ELSE list[i]
<1>1. AddCallout(list, c) = Append(list, c) \/ AddCallout(list, c) = [i \in DOMAIN list |-> At(i)]
  BY DEF AddCallout
<1> HIDE DEF CalloutSet
<1>2. Append(list, c) \in Seq(CalloutSet)
  OBVIOUS
<1>3. Len(list) \in Nat /\ DOMAIN list = 1 .. Len(list) /\ \A i \in DOMAIN list : At(i) \in CalloutSet
  OBVIOUS
<1> HIDE DEF At
<1>4. [i \in DOMAIN list |-> At(i)] \in [1 .. Len(list) -> CalloutSet]
  BY <1>3
<1>5. [i \in DOMAIN list |-> At(i)] \in Seq(CalloutSet)
  BY <1>3, <1>4, SeqDef
<1>6. QED
  BY <1>1, <1>2, <1>5

\* What a call that does not fail adds to a list of entries.
LEMMA CallTyped ==
  ASSUME NEW list \in Seq(CalloutSet), NEW call \in GoodCall, Outcome(call) = "ok", NEW k
  PROVE  CalloutList(list, call, k) \in Seq(CalloutSet)
<1> DEFINE One(t) == TargetCallout(t, call.priority, call.guard, k)
           Far == TxTarget(call)
           Board == BackplaneCallout(call.priority)
           Name == ProcedureCallout(call.name, call.priority)
           Card == TargetCallout(Bmc, call.priority, FALSE, k)
<1>1. /\ call.op \in {"target", "connected", "bus", "clock", "procedure", "part"}
      /\ call.priority \in Priority /\ call.guard \in BOOLEAN
      /\ call.op \in {"target", "connected", "bus"} => call.target \in Target
      /\ call.op = "procedure" => call.name \in Procedure
  BY DEF GoodCall, CallSet
<1>2. call.op \in {"connected", "bus"} => Far \in Target
  BY <1>1, TreeAnswers DEF Outcome, TxTarget, Threw, Aborted
<1>3. Bmc \in Target \cup {NoTarget}
  BY DEF Bmc
<1>4. /\ call.op \in {"target", "bus"} => One(call.target) \in CalloutSet
      /\ call.op \in {"connected", "bus"} => One(Far) \in CalloutSet
      /\ call.op = "procedure" => Name \in CalloutSet
      /\ Board \in CalloutSet /\ Card \in CalloutSet
  <2> HIDE DEF CalloutSet, Far, GoodCall
  <2>1. FALSE \in BOOLEAN
    OBVIOUS
  <2>2. QED
    BY <1>1, <1>2, <1>3, <2>1, CalloutsGood
<1>5. CalloutList(list, call, k) =
        CASE call.op = "target"    -> AddCallout(list, One(call.target))
          [] call.op = "connected" -> AddCallout(list, One(Far))
          [] call.op = "bus"       ->
               AddCallout(AddCallout(AddCallout(list, One(call.target)), One(Far)), Board)
          [] call.op = "clock"     -> AddCallout(list, Board)
          [] call.op = "procedure" -> AddCallout(list, Name)
          [] OTHER                 -> AddCallout(list, Card)
  BY DEF CalloutList
<1> HIDE DEF One, Far, Board, Name, Card, CalloutSet, GoodCall
<1>6. CASE call.op = "bus"
  <2>1. CalloutList(list, call, k) =
          AddCallout(AddCallout(AddCallout(list, One(call.target)), One(Far)), Board)
    BY <1>5, <1>6
  <2>2. AddCallout(list, One(call.target)) \in Seq(CalloutSet)
    BY <1>4, <1>6, AddTyped
  <2>3. AddCallout(AddCallout(list, One(call.target)), One(Far)) \in Seq(CalloutSet)
    BY <1>4, <1>6, <2>2, AddTyped
  <2>4. QED
    BY <1>4, <2>1, <2>3, AddTyped
<1>7. CASE call.op = "target"
  BY <1>4, <1>5, <1>7, AddTyped
<1>8. CASE call.op = "connected"
  BY <1>4, <1>5, <1>8, AddTyped
<1>9. CASE call.op = "clock"
  BY <1>4, <1>5, <1>9, AddTyped
<1>10. CASE call.op = "procedure"
  BY <1>4, <1>5, <1>10, AddTyped
<1>11. CASE call.op = "part"
  BY <1>4, <1>5, <1>11, AddTyped
<1>12. QED
  BY <1>1, <1>6, <1>7, <1>8, <1>9, <1>10, <1>11

\* What is a list of some elements is one of more.
LEMMA SeqWider ==
  ASSUME NEW S, NEW T, S \subseteq T, NEW s \in Seq(S)
  PROVE  s \in Seq(T)
OBVIOUS

\* Targets in the order of the device tree: those, and all of those.
LEMMA InOrderIs ==
  ASSUME NEW targets \in SUBSET Target
  PROVE  /\ InOrder(targets) \in Seq(targets)
         /\ \A t \in targets : t \in ToSet(InOrder(targets))
<1> DEFINE places == {i \in DOMAIN Order : Order[i] \in targets}
           taken == {i \in DOMAIN Order : i \in places}
           S == {Order[i] : i \in taken}
<1>1. Order \in Seq(Target)
  BY OrderAssumption
<1>2. /\ Selected(Order, places) \in Seq(S)
      /\ \A i \in taken : \E j \in DOMAIN Selected(Order, places) : Selected(Order, places)[j] = Order[i]
  <2> HIDE DEF places
  <2>1. QED
    BY <1>1, SelectedIs
<1>3. S \subseteq targets
  OBVIOUS
<1>4. \A t \in targets : \E i \in taken : Order[i] = t
  BY OrderIs
<1>5. InOrder(targets) = Selected(Order, places)
  BY DEF InOrder
<1> HIDE DEF S, taken, places
<1>6. QED
  BY <1>2, <1>3, <1>4, <1>5, SeqWider DEF ToSet

\* A call for each of some targets.
LEMMA TargetCallsIs ==
  ASSUME NEW S \in SUBSET Target, NEW targets \in Seq(S), NEW priority, NEW guard
  PROVE  /\ TargetCalls(targets, priority, guard) \in Seq({TargetCall(t, priority, guard) : t \in S})
         /\ targets # <<>> => TargetCalls(targets, priority, guard) # <<>>
<1> DEFINE f == [i \in DOMAIN targets |-> TargetCall(targets[i], priority, guard)]
           C == {TargetCall(t, priority, guard) : t \in S}
<1>1. Len(targets) \in Nat /\ DOMAIN targets = 1 .. Len(targets) /\ \A i \in DOMAIN targets : targets[i] \in S
  OBVIOUS
<1>2. \A i \in DOMAIN targets : TargetCall(targets[i], priority, guard) \in C
  BY <1>1
<1> HIDE DEF C
<1>3. f \in [1 .. Len(targets) -> C]
  BY <1>1, <1>2
<1>4. f \in Seq(C)
  BY <1>1, <1>3, SeqDef
<1>5. targets # <<>> => DOMAIN f # {}
  BY <1>1
<1>6. DOMAIN <<>> = {}
  OBVIOUS
<1>7. QED
  BY <1>4, <1>5, <1>6 DEF TargetCalls, C

--------------------------------------------------------------------------------
(* The step check faults of the TOD *)

\* The calls of a topology that guard nothing, or a processor with an internal
\* fault where the network has none.
TopologyCall(top, procs, regs) ==
  {c \in GoodCall : c.guard =>
     /\ c.op = "target" /\ top = "ACTIVE"
     /\ c.target \in ToSet(procs) /\ InternalFault(regs[c.target])
     /\ \A p \in ToSet(procs) : ~PathFault(p, regs[p], "ACTIVE")}

\* The processors of a list that pass a test.
LEMMA TestedIs ==
  ASSUME NEW S, NEW procs \in Seq(S), NEW passed \in SUBSET DOMAIN procs
  PROVE  /\ Selected(procs, passed) \in Seq({procs[i] : i \in passed})
         /\ Selected(procs, passed) = <<>> => passed = {}
<1> DEFINE taken == {i \in DOMAIN procs : i \in passed}
<1>1. taken = passed
  OBVIOUS
<1>2. /\ Selected(procs, passed) \in Seq({procs[i] : i \in taken})
      /\ \A i \in taken : \E j \in DOMAIN Selected(procs, passed) : Selected(procs, passed)[j] = procs[i]
  BY SelectedIs
<1>3. DOMAIN <<>> = {}
  OBVIOUS
<1> HIDE DEF taken
<1>4. QED
  BY <1>1, <1>2, <1>3

\* The far ends of the paths at fault and the chips at the near ends are targets,
\* and there are some for each path.
LEMMA NetworkFaultsAre ==
  ASSUME NEW top, NEW source, NEW faulty \in Seq(Target),
         \A i \in DOMAIN faulty : source[<<faulty[i], top>>] \in Target
  PROVE  /\ NetworkFaults(faulty, source, top) \in Seq(Target)
         /\ NetworkFaults(faulty, source, top) = <<>> => faulty = <<>>
<1> DEFINE n == Len(faulty)
           At(i) == IF i % 2 = 1 THEN source[<<faulty[(i + 1) \div 2], top>>] ELSE faulty[i \div 2]
<1>1. n \in Nat /\ DOMAIN faulty = 1 .. n /\ 2 * n \in Nat /\ \A i \in 1 .. n : faulty[i] \in Target
  OBVIOUS
<1>2. ASSUME NEW i \in 1 .. 2 * n PROVE At(i) \in Target
  <2> HIDE DEF n
  <2>1. i % 2 = 1 => (i + 1) \div 2 \in 1 .. n
    BY <1>1
  <2>2. i % 2 # 1 => i \div 2 \in 1 .. n
    BY <1>1
  <2>3. QED
    BY <1>1, <2>1, <2>2
<1> HIDE DEF n, At
<1>3. [i \in 1 .. 2 * n |-> At(i)] \in [1 .. 2 * n -> Target]
  BY <1>2
<1>4. [i \in 1 .. 2 * n |-> At(i)] \in Seq(Target)
  BY <1>1, <1>3, SeqDef
<1>5. [i \in 1 .. 2 * n |-> At(i)] = <<>> => n = 0
  BY <1>1
<1>6. n = 0 => faulty = <<>>
  BY EmptySeq DEF n
<1>7. QED
  BY <1>4, <1>5, <1>6 DEF NetworkFaults, n, At

\* A path at fault has a source, be it one that cannot be told.
LEMMA PathSource ==
  ASSUME NEW p \in Target, NEW r, NEW top, PathFault(p, r, top), ~IsMdmt(r, top)
  PROVE  NetworkSource(p, r, PortInUse(r, top), top) # NoTarget
<1> DEFINE pos == r.port[PortInUse(r, top)]
           units == {u \in Target : p \in Above[u] /\ Type[u] = "iohs" /\ Pos[u] = pos}
           unit == GetChipUnit(p, "iohs", pos)
<1>1. units # {} /\ units \subseteq Target
  BY DEF PathFault
<1>2. unit \in Target \cup {Threw}
  <2>1. unit = IF "iohs" \notin (IF Type[p] = "proc" THEN ProcUnit ELSE OcmbUnit) THEN Threw
               ELSE IF units = {} THEN NoTarget
               ELSE CHOOSE u \in units : TRUE
    BY DEF GetChipUnit
  <2>2. (CHOOSE u \in units : TRUE) \in Target
    BY <1>1
  <2> HIDE DEF unit, units
  <2>3. QED
    BY <1>1, <2>1, <2>2
<1>3. \A far \in Target \cup {Threw, Aborted} : SourceAt(far) # NoTarget
  <2>1. {NoTarget, Threw, Aborted} \cap Target = {} /\ NoTarget \notin {Threw, Aborted}
    BY TreeAssumption DEF NoTarget, Threw, Aborted
  <2>2. QED
    BY <2>1, TreeAnswers DEF SourceAt
<1>4. \A u \in Target \cup {Threw} : GetChipSourcingClock(u) # NoTarget
  <2>1. \A u \in Target : GetConnectedTarget(u, "SMP_BUS") \in Target \cup {Threw, Aborted}
    BY TreeAnswers
  <2>2. Threw # NoTarget /\ NoTarget \notin Target
    BY TreeAssumption DEF NoTarget, Threw
  <2>3. QED
    BY <1>3, <2>1, <2>2 DEF GetChipSourcingClock
<1>5. NetworkFault(r, top) /\ PortInUse(r, top) \notin r.failed
  BY DEF PathFault, NetworkFault
<1> HIDE DEF unit
<1>6. NetworkSource(p, r, PortInUse(r, top), top) = GetChipSourcingClock(unit)
  BY <1>5 DEF NetworkSource, unit, pos
<1>7. QED
  BY <1>2, <1>4, <1>6

\* The calls for one topology.
LEMMA FaultCallsGood ==
  ASSUME NEW top \in {"ACTIVE", "BACKUP"}, NEW procs \in Seq(Target), NEW regs, NEW source,
         \A c \in ToSet(procs) :
           /\ source[<<c, top>>] \in Target \cup {NoTarget}
           /\ source[<<c, top>>] = NetworkSource(c, regs[c], PortInUse(regs[c], top), top)
  PROVE  LET f == FaultCalls(top, procs, regs, source)
         IN /\ f \in Seq(TopologyCall(top, procs, regs))
            /\ f = <<>> => \A p \in ToSet(procs) :
                 ~PathFault(p, regs[p], top) /\ (top = "ACTIVE" => ~InternalFault(regs[p]))
<1> DEFINE D == DOMAIN procs
           M == {i \in D : IsMdmt(regs[procs[i]], top) /\ StepCheckFault(regs[procs[i]], top)}
           N == {i \in D : source[<<procs[i], top>>] # NoTarget}
           J == {i \in D : top = "ACTIVE" /\ InternalFault(regs[procs[i]])}
           mdmt == Selected(procs, M)
           faulty == Selected(procs, N)
           network == NetworkFaults(faulty, source, top)
           internal == Selected(procs, J)
           C == TopologyCall(top, procs, regs)
           f == FaultCalls(top, procs, regs, source)
<1>1. f = TopologyCalls(top, mdmt, network, internal)
  BY DEF FaultCalls
<1>2. \A i \in D : procs[i] \in Target /\ procs[i] \in ToSet(procs)
  BY DEF ToSet
<1>3. /\ mdmt \in Seq({procs[i] : i \in M}) /\ (mdmt = <<>> => M = {})
      /\ faulty \in Seq({procs[i] : i \in N}) /\ (faulty = <<>> => N = {})
      /\ internal \in Seq({procs[i] : i \in J}) /\ (internal = <<>> => J = {})
  <2>1. M \in SUBSET D /\ N \in SUBSET D /\ J \in SUBSET D
    OBVIOUS
  <2>2. \A passed \in SUBSET D :
          /\ Selected(procs, passed) \in Seq({procs[i] : i \in passed})
          /\ Selected(procs, passed) = <<>> => passed = {}
    BY TestedIs
  <2> HIDE DEF M, N, J, D
  <2>3. QED
    BY <2>1, <2>2
<1>4. network \in Seq(Target) /\ (network = <<>> => faulty = <<>>)
  <2>1. {procs[i] : i \in N} \subseteq Target
    BY <1>2
  <2>2. \A i \in N : source[<<procs[i], top>>] \in Target
    BY <1>2
  <2> HIDE DEF N, faulty
  <2>3. \A j \in DOMAIN faulty : \E i \in N : faulty[j] = procs[i]
    BY <1>3
  <2>4. \A j \in DOMAIN faulty : source[<<faulty[j], top>>] \in Target
    BY <2>2, <2>3
  <2>5. faulty \in Seq(Target)
    BY <1>3, <2>1, SeqWider
  <2>6. QED
    BY <2>4, <2>5, NetworkFaultsAre
<1>5. "MED" \in Priority /\ "TOD_CLOCK" \in Clock /\ FALSE \in BOOLEAN /\ TRUE \in BOOLEAN
  BY DEF Priority, Clock
<1>6. /\ ClockCall("TOD_CLOCK", "MED") \in C
      /\ \A t \in Target : TargetCall(t, "MED", FALSE) \in C
  <2>1. /\ ClockCall("TOD_CLOCK", "MED") \in GoodCall
        /\ \A t \in Target : TargetCall(t, "MED", FALSE) \in GoodCall
    BY <1>5, CallsGood
  <2>2. /\ ClockCall("TOD_CLOCK", "MED").guard = FALSE
        /\ \A t \in Target : TargetCall(t, "MED", FALSE).guard = FALSE
    BY DEF ClockCall, TargetCall
  <2> HIDE DEF GoodCall
  <2>3. QED
    BY <2>1, <2>2 DEF TopologyCall
<1>7. CASE mdmt # <<>>
  <2>1. f = <<ClockCall("TOD_CLOCK", "MED"), TargetCall(mdmt[Len(mdmt)], "MED", FALSE)>>
    BY <1>1, <1>7 DEF TopologyCalls
  <2>2. mdmt[Len(mdmt)] \in Target
    <3>1. \A i \in M : procs[i] \in Target
      BY <1>2
    <3> HIDE DEF mdmt, M
    <3>2. mdmt[Len(mdmt)] \in {procs[i] : i \in M}
      BY <1>3, <1>7
    <3>3. QED
      BY <3>1, <3>2
  <2> DEFINE a == ClockCall("TOD_CLOCK", "MED")
             b == TargetCall(mdmt[Len(mdmt)], "MED", FALSE)
  <2>3. a \in C /\ b \in C
    BY <1>6, <2>2
  <2>4. f \in Seq(C) /\ f # <<>>
    <3>1. f = <<a, b>>
      BY <2>1
    <3> HIDE DEF f, C, a, b
    <3>2. QED
      BY <2>3, <3>1
  <2>5. QED
    BY <2>4 DEF f, C
<1>8. CASE mdmt = <<>> /\ network # <<>>
  <2>1. f = TargetCalls(network, "MED", FALSE)
    BY <1>1, <1>8 DEF TopologyCalls
  <2>2. {TargetCall(t, "MED", FALSE) : t \in Target} \subseteq C
    BY <1>6
  <2> HIDE DEF f, C, network
  <2>3. f \in Seq({TargetCall(t, "MED", FALSE) : t \in Target}) /\ f # <<>>
    <3>1. Target \in SUBSET Target
      OBVIOUS
    <3>2. /\ TargetCalls(network, "MED", FALSE) \in Seq({TargetCall(t, "MED", FALSE) : t \in Target})
          /\ network # <<>> => TargetCalls(network, "MED", FALSE) # <<>>
      BY <1>4, <3>1, TargetCallsIs, Zenon
    <3>3. QED
      BY <1>8, <2>1, <3>2
  <2>4. f \in Seq(C)
    BY <2>2, <2>3, SeqWider
  <2>5. QED
    BY <2>3, <2>4 DEF f, C
<1>9. CASE mdmt = <<>> /\ network = <<>>
  <2> DEFINE S == {procs[i] : i \in J}
  <2>1. f = TargetCalls(internal, "MED", TRUE)
    BY <1>1, <1>9 DEF TopologyCalls
  <2>2. M = {} /\ N = {} /\ S \in SUBSET Target
    BY <1>2, <1>3, <1>4, <1>9
  <2>3. ASSUME NEW p \in ToSet(procs) PROVE ~PathFault(p, regs[p], top)
    <3>1. ~(IsMdmt(regs[p], top) /\ StepCheckFault(regs[p], top)) /\ source[<<p, top>>] = NoTarget
      BY <2>2 DEF ToSet
    <3>2. source[<<p, top>>] = NetworkSource(p, regs[p], PortInUse(regs[p], top), top)
      OBVIOUS
    <3> HIDE DEF M, N, J, mdmt, faulty, network, internal, C, f
    <3>3. p \in Target
      BY DEF ToSet
    <3>4. PathFault(p, regs[p], top) => IsMdmt(regs[p], top)
      BY <3>1, <3>2, <3>3, PathSource
    <3>5. QED
      BY <3>1, <3>4 DEF PathFault
  <2>4. ASSUME NEW i \in J PROVE TargetCall(procs[i], "MED", TRUE) \in C
    <3>1. procs[i] \in Target /\ procs[i] \in ToSet(procs)
          /\ top = "ACTIVE" /\ InternalFault(regs[procs[i]])
      BY <1>2
    <3>2. TargetCall(procs[i], "MED", TRUE) \in GoodCall
      BY <1>5, <3>1, CallsGood
    <3>3. TargetCall(procs[i], "MED", TRUE).op = "target"
          /\ TargetCall(procs[i], "MED", TRUE).target = procs[i]
      BY DEF TargetCall
    <3> HIDE DEF GoodCall
    <3>4. QED
      BY <2>3, <3>1, <3>2, <3>3 DEF TopologyCall
  <2>5. {TargetCall(t, "MED", TRUE) : t \in S} \subseteq C
    BY <2>4
  <2>6. f \in Seq({TargetCall(t, "MED", TRUE) : t \in S}) /\ (internal # <<>> => f # <<>>)
    <3>1. internal \in Seq(S) /\ S \in SUBSET Target
      BY <1>3, <2>2
    <3> HIDE DEF f, S, internal, M
    <3>2. /\ TargetCalls(internal, "MED", TRUE) \in Seq({TargetCall(t, "MED", TRUE) : t \in S})
          /\ internal # <<>> => TargetCalls(internal, "MED", TRUE) # <<>>
      BY <3>1, TargetCallsIs, Zenon
    <3>3. QED
      BY <2>1, <3>2
  <2>7. f \in Seq(C)
    <3> HIDE DEF f, S, C
    <3>1. QED
      BY <2>5, <2>6, SeqWider
  <2>8. ASSUME f = <<>>, NEW p \in ToSet(procs)
        PROVE  ~PathFault(p, regs[p], top) /\ (top = "ACTIVE" => ~InternalFault(regs[p]))
    <3>1. J = {}
      BY <1>3, <2>6, <2>8
    <3>2. top = "ACTIVE" => ~InternalFault(regs[p])
      BY <3>1 DEF ToSet
    <3>3. QED
      BY <2>3, <2>8, <3>2
  <2>9. QED
    BY <2>7, <2>8
<1>10. QED
  BY <1>7, <1>8, <1>9

\* The source of the clock of a chip is a target, there is none, or it cannot be
\* told.
LEMMA NetworkSourceIs ==
  ASSUME NEW chip \in Target, NEW r, NEW port, NEW top
  PROVE  NetworkSource(chip, r, port, top) \in Target \cup {NoTarget, Threw, Aborted}
<1> DEFINE V == Target \cup {NoTarget, Threw, Aborted}
<1>1. \A far \in Target \cup {Threw, Aborted} : SourceAt(far) \in V
  BY TreeAnswers DEF SourceAt
<1>2. \A u \in Target \cup {NoTarget, Threw} : GetChipSourcingClock(u) \in V
  <2>1. \A u \in Target : GetConnectedTarget(u, "SMP_BUS") \in Target \cup {Threw, Aborted}
    BY TreeAnswers
  <2>2. QED
    BY <1>1, <2>1 DEF GetChipSourcingClock
<1>3. GetChipUnit(chip, "iohs", r.port[port]) \in Target \cup {NoTarget, Threw}
  BY TreeAnswers
<1>4. QED
  BY <1>2, <1>3 DEF NetworkSource

\* Where there was no trouble the source of the clock was told for every processor
\* and topology.
LEMMA NoTrouble ==
  ASSUME NEW procs \in Seq(Target), NEW source, Trouble(procs, source) = <<>>
  PROVE  \A c \in ToSet(procs), top \in {"ACTIVE", "BACKUP"} : source[<<c, top>>] \notin {Threw, Aborted}
<1> DEFINE n == Len(procs)
           At(i) == source[<<procs[(i + 1) \div 2], Topology[2 - (i % 2)]>>]
           found == [i \in 1 .. 2 * n |-> At(i)]
           S == {At(i) : i \in 1 .. 2 * n}
           I == {i \in DOMAIN found : found[i] \in {Threw, Aborted}}
<1>1. n \in Nat /\ 2 * n \in Nat /\ DOMAIN procs = 1 .. n
  OBVIOUS
<1>2. found \in Seq(S)
  <2>1. \A i \in 1 .. 2 * n : At(i) \in S
    OBVIOUS
  <2> HIDE DEF S, At, n
  <2>2. found \in [1 .. 2 * n -> S]
    BY <2>1
  <2>3. QED
    BY <1>1, <2>2, SeqDef
<1>3. I = {}
  <2>1. Selected(found, I) = <<>>
    BY DEF Trouble
  <2>2. I \in SUBSET DOMAIN found
    OBVIOUS
  <2> HIDE DEF I, found, S
  <2>3. QED
    BY <1>2, <2>1, <2>2, TestedIs
<1>4. \A i \in 1 .. 2 * n : At(i) \notin {Threw, Aborted}
  BY <1>3
<1>5. ASSUME NEW j \in 1 .. n, NEW top \in {"ACTIVE", "BACKUP"}
      PROVE  source[<<procs[j], top>>] \notin {Threw, Aborted}
  <2> HIDE DEF n
  <2>1. /\ 2 * j - 1 \in 1 .. 2 * n /\ ((2 * j - 1) + 1) \div 2 = j /\ 2 - ((2 * j - 1) % 2) = 1
        /\ 2 * j \in 1 .. 2 * n /\ (2 * j + 1) \div 2 = j /\ 2 - ((2 * j) % 2) = 2
    BY <1>1
  <2>2. Topology[1] = "ACTIVE" /\ Topology[2] = "BACKUP"
    BY DEF Topology
  <2>3. At(2 * j - 1) = source[<<procs[j], "ACTIVE">>]
    BY <2>1, <2>2
  <2>4. At(2 * j) = source[<<procs[j], "BACKUP">>]
    BY <2>1, <2>2
  <2> HIDE DEF At
  <2>5. At(2 * j - 1) \notin {Threw, Aborted} /\ At(2 * j) \notin {Threw, Aborted}
    BY <1>4, <2>1
  <2>6. QED
    BY <2>3, <2>4, <2>5
<1>6. \A c \in ToSet(procs) : \E j \in 1 .. n : c = procs[j]
  BY <1>1 DEF ToSet
<1>7. QED
  BY <1>5, <1>6

\* The calls for a step check fault: those that guard a processor guard one with an
\* internal fault where the active network has none, or the chip that reported the
\* error where there is no fault at all.
TodCall(chip, procs, regs) ==
  {c \in GoodCall : c.guard =>
     /\ c.op = "target"
     /\ \/ /\ c.target \in procs /\ InternalFault(regs[c.target])
           /\ \A p \in procs : ~PathFault(p, regs[p], "ACTIVE")
        \/ /\ c.target = chip
           /\ \A p \in procs : /\ ~InternalFault(regs[p])
                               /\ ~PathFault(p, regs[p], "ACTIVE")
                               /\ ~PathFault(p, regs[p], "BACKUP")}

\* The plugin makes no other calls.
LEMMA TodCallsAre ==
  ASSUME NEW chip \in Target, NEW among \in SUBSET Target, NEW regs
  PROVE  TodStepCheckFault(chip, among, regs).calls \in Seq(TodCall(chip, among, regs))
<1> DEFINE R == {c \in among : Readable(regs[c])}
           procs == InOrder(R)
           source == ClockSources(procs, regs)
           trouble == Trouble(procs, source)
           A == FaultCalls("ACTIVE", procs, regs, source)
           B == FaultCalls("BACKUP", procs, regs, source)
           C == TodCall(chip, among, regs)
           d == TodStepCheckFault(chip, among, regs)
<1>1. d = TodOutcome(chip, procs, regs, source, trouble)
  BY DEF TodStepCheckFault, TodWalk, TodFaults
<1>2. procs \in Seq(R) /\ procs \in Seq(Target) /\ R = ToSet(procs)
  <2>1. R \in SUBSET Target
    OBVIOUS
  <2> HIDE DEF R
  <2>2. procs \in Seq(R) /\ \A t \in R : t \in ToSet(procs)
    BY <2>1, InOrderIs
  <2> HIDE DEF procs
  <2>3. ToSet(procs) \subseteq R
    BY <2>2 DEF ToSet
  <2>4. QED
    BY <2>1, <2>2, <2>3, SeqWider
<1>3. \A c \in R, top \in {"ACTIVE", "BACKUP"} :
        /\ source[<<c, top>>] \in Target \cup {NoTarget, Threw, Aborted}
        /\ source[<<c, top>>] = NetworkSource(c, regs[c], PortInUse(regs[c], top), top)
  <2> SUFFICES ASSUME NEW c \in R, NEW top \in {"ACTIVE", "BACKUP"}
               PROVE  /\ source[<<c, top>>] \in Target \cup {NoTarget, Threw, Aborted}
                      /\ source[<<c, top>>] = NetworkSource(c, regs[c], PortInUse(regs[c], top), top)
    OBVIOUS
  <2>1. ToSet(Topology) = {"ACTIVE", "BACKUP"}
    BY DEF ToSet, Topology
  <2>2. <<c, top>> \in ToSet(procs) \X ToSet(Topology)
    BY <1>2, <2>1
  <2>3. source[<<c, top>>] = NetworkSource(c, regs[c], PortInUse(regs[c], top), top)
    <3> HIDE DEF procs
    <3>1. QED
      BY <2>2 DEF ClockSources
  <2>4. c \in Target
    OBVIOUS
  <2> HIDE DEF source
  <2>5. QED
    BY <2>3, <2>4, NetworkSourceIs
<1>4. CASE trouble # <<>>
  <2>1. d.calls = <<>>
    BY <1>1, <1>4 DEF TodOutcome, Fails
  <2>2. QED
    BY <2>1
<1>5. CASE trouble = <<>>
  <2>1. d.calls = DefaultCalls(chip, A \o B)
    BY <1>1, <1>5 DEF TodOutcome, Calls
  <2>2. \A c \in ToSet(procs), top \in {"ACTIVE", "BACKUP"} :
          /\ source[<<c, top>>] \in Target \cup {NoTarget}
          /\ source[<<c, top>>] = NetworkSource(c, regs[c], PortInUse(regs[c], top), top)
    <3> HIDE DEF procs, source
    <3>1. \A c \in ToSet(procs), top \in {"ACTIVE", "BACKUP"} : source[<<c, top>>] \notin {Threw, Aborted}
      BY <1>2, <1>5, NoTrouble
    <3> HIDE DEF R
    <3>2. QED
      BY <1>2, <1>3, <3>1
  <2>3. /\ A \in Seq(TopologyCall("ACTIVE", procs, regs))
        /\ B \in Seq(TopologyCall("BACKUP", procs, regs))
        /\ A = <<>> => \A p \in ToSet(procs) :
             ~PathFault(p, regs[p], "ACTIVE") /\ ~InternalFault(regs[p])
        /\ B = <<>> => \A p \in ToSet(procs) : ~PathFault(p, regs[p], "BACKUP")
    <3> HIDE DEF procs, source
    <3>1. QED
      BY <1>2, <2>2, FaultCallsGood
  <2>4. TopologyCall("BACKUP", procs, regs) \subseteq C
    BY DEF TopologyCall, TodCall
  <2>5. \A p \in among, top \in {"ACTIVE", "BACKUP"} : PathFault(p, regs[p], top) => p \in ToSet(procs)
    <3>1. \A p, top : PathFault(p, regs[p], top) => Readable(regs[p])
      BY DEF PathFault
    <3>2. \A p \in among : Readable(regs[p]) => p \in ToSet(procs)
      BY <1>2
    <3> HIDE DEF procs, R
    <3>3. QED
      BY <3>1, <3>2
  <2>6. TopologyCall("ACTIVE", procs, regs) \subseteq C
    <3>1. ToSet(procs) \subseteq among
      BY <1>2
    <3> HIDE DEF procs, GoodCall, R
    <3>2. QED
      BY <2>5, <3>1 DEF TopologyCall, TodCall
  <2>7. A \o B \in Seq(C) /\ (A \o B = <<>> => A = <<>> /\ B = <<>>)
    <3> HIDE DEF A, B, C
    <3>1. A \in Seq(C) /\ B \in Seq(C)
      BY <2>3, <2>4, <2>6, SeqWider
    <3>2. QED
      BY <3>1
  <2>8. A \o B = <<>> => TargetCall(chip, "MED", TRUE) \in C
    <3>1. "MED" \in Priority /\ TRUE \in BOOLEAN
      BY DEF Priority
    <3>2. TargetCall(chip, "MED", TRUE) \in GoodCall
      BY <3>1, CallsGood
    <3>3. TargetCall(chip, "MED", TRUE).op = "target" /\ TargetCall(chip, "MED", TRUE).target = chip
      BY DEF TargetCall
    <3>4. \A p \in among : InternalFault(regs[p]) => p \in ToSet(procs)
      BY <1>2 DEF InternalFault
    <3> HIDE DEF GoodCall, A, B, procs, R
    <3>5. QED
      BY <2>3, <2>5, <2>7, <3>2, <3>3, <3>4 DEF TodCall
  <2> DEFINE one == TargetCall(chip, "MED", TRUE)
             all == A \o B
  <2>9. d.calls = IF all = <<>> THEN <<one>> ELSE all
    BY <2>1 DEF DefaultCalls
  <2> HIDE DEF one, all, C, d
  <2>10. all \in Seq(C) /\ (all = <<>> => one \in C)
    BY <2>7, <2>8 DEF all, one
  <2>11. d.calls \in Seq(C)
    BY <2>9, <2>10
  <2>12. QED
    BY <2>11 DEF d, C
<1>6. QED
  BY <1>4, <1>5

--------------------------------------------------------------------------------
(* Resolutions *)

\* What is known of a resolution that a data file conforming to the schema makes.
LeafOK(leaf) ==
  /\ leaf.type \in {"plugin"} \cup CalloutType
  /\ leaf.type \in CalloutType => leaf.priority \in Priority
  /\ leaf.type \in TargetCalloutType => leaf.guard \in BOOLEAN
  /\ leaf.type \in {"callout_connected", "callout_bus"} => leaf.name \in Bus
  /\ leaf.type = "callout_clock" => leaf.name \in Clock
  /\ leaf.type = "callout_procedure" => leaf.name \in Procedure
  /\ leaf.type = "callout_part" => leaf.name \in Part

\* All resolutions are such.
LEMMA LeavesOK ==
  ASSUME NEW m \in DOMAIN Files, NEW leaf \in Leaves(m)
  PROVE  LeafOK(leaf)
<1>1. PICK e \in Elements(m) : /\ e.type \notin {"flag", "action"} /\ Defined(Files[m], e)
                               /\ leaf = Resolution(Files[m], e)
  BY DEF Leaves
<1> DEFINE bus == e.type \in {"callout_connected", "callout_bus"}
<1>2. /\ leaf.type = e.type /\ leaf.priority = e.priority /\ leaf.guard = e.guard
      /\ leaf.name = IF bus THEN Files[m].buses[e.name].type ELSE e.name
  BY <1>1 DEF Resolution
<1>3. /\ e.type \in {"action", "flag", "plugin"} \cup CalloutType
      /\ e.type \in CalloutType => e.priority \in Priority
      /\ e.type \in TargetCalloutType => e.guard \in BOOLEAN
      /\ e.type = "callout_clock" => e.name \in Clock
      /\ e.type = "callout_procedure" => e.name \in Procedure
      /\ e.type = "callout_part" => e.name \in Part
  BY SchemaAssumption, Zenon
<1>4. bus => leaf.name \in Bus
  <2>1. bus => e.name \in DOMAIN Files[m].buses
    BY <1>1 DEF Defined, ParseBus, Threw
  <2>2. QED
    BY <1>2, <2>1, SchemaAssumption
<1>5. e.type \in {"callout_clock", "callout_procedure", "callout_part"} => leaf.name = e.name
  BY <1>2
<1> HIDE DEF bus
<1>6. leaf.type \in {"plugin"} \cup CalloutType
  BY <1>1, <1>2, <1>3
<1>7. leaf.type \in {"callout_connected", "callout_bus"} => bus
  BY <1>2 DEF bus
<1>8. QED
  BY <1>2, <1>3, <1>4, <1>5, <1>6, <1>7 DEF LeafOK

\* Short lists of calls.
LEMMA Lists ==
  ASSUME NEW S
  PROVE  /\ <<>> \in Seq(S)
         /\ \A a \in S : <<a>> \in Seq(S)
         /\ \A a, b \in S : <<a, b>> \in Seq(S)
         /\ \A s, t \in Seq(S) : s \o t \in Seq(S)
OBVIOUS

\* Calls about targets.
LEMMA TargetCallsGood ==
  ASSUME NEW targets \in Seq(Target), NEW priority \in Priority, NEW guard \in BOOLEAN
  PROVE  TargetCalls(targets, priority, guard) \in Seq(GoodCall)
<1> DEFINE C == {TargetCall(t, priority, guard) : t \in Target}
           x == TargetCalls(targets, priority, guard)
<1>1. x \in Seq(C) /\ (targets # <<>> => x # <<>>)
  <2>1. Target \in SUBSET Target
    OBVIOUS
  <2>2. QED
    BY <2>1, TargetCallsIs, Zenon
<1>2. C \subseteq GoodCall
  BY CallsGood
<1> HIDE DEF C, x, GoodCall
<1>3. QED
  BY <1>1, <1>2, SeqWider DEF x

\* A list of signatures of chips that the device tree has.
OfTargets(list) == IsList(list) /\ \A i \in DOMAIN list : list[i].chip \in Target

\* The chips of the signatures at some places.
LEMMA ChipsAre ==
  ASSUME NEW list, OfTargets(list), NEW places
  PROVE  LET some == Selected(list, places)
         IN Chips(some) \in Seq(Target) /\ (Len(some) = 1 => some[1].chip \in Target)
<1> DEFINE taken == {i \in DOMAIN list : i \in places}
           S == {list[i] : i \in taken}
           some == Selected(list, places)
           f == [i \in DOMAIN some |-> some[i].chip]
<1>1. some \in Seq(S)
  <2>1. PICK T : list \in Seq(T)
    BY DEF OfTargets, IsList
  <2>2. QED
    BY <2>1, SelectedIs
<1>2. \A s \in S : s.chip \in Target
  BY DEF OfTargets
<1> HIDE DEF S, some
<1>3. Len(some) \in Nat /\ DOMAIN some = 1 .. Len(some) /\ \A i \in 1 .. Len(some) : some[i].chip \in Target
  BY <1>1, <1>2
<1>4. f \in [1 .. Len(some) -> Target]
  BY <1>3
<1>5. f \in Seq(Target)
  BY <1>3, <1>4, SeqDef
<1>6. Len(some) = 1 => some[1].chip \in Target
  BY <1>3
<1>7. QED
  BY <1>5, <1>6 DEF Chips, some

\* The calls for a chip that lost the lock of its PLL are good ones.
LEMMA PllUnlockGood ==
  ASSUME NEW inst, NEW list, OfTargets(list)
  PROVE  P10_PllUnlock(inst, list).calls \in Seq(GoodCall)
<1> DEFINE some == Selected(list, {i \in PllUnlocks(list) : list[i].bit = inst})
           shared == Len(some) > 1
           a == ClockCall(OscClock(inst), IF shared THEN "HIGH" ELSE "MED_A")
           b == TargetCalls(Chips(some), IF shared THEN "MED" ELSE "MED_A", ~shared)
<1>1. P10_PllUnlock(inst, list).calls = <<a>> \o b
  BY DEF P10_PllUnlock, Calls
<1>2. Chips(some) \in Seq(Target)
  BY ChipsAre
<1>3. /\ OscClock(inst) \in Clock
      /\ (IF shared THEN "HIGH" ELSE "MED_A") \in Priority
      /\ (IF shared THEN "MED" ELSE "MED_A") \in Priority
      /\ (~shared) \in BOOLEAN
  BY DEF OscClock, Clock, Priority
<1> HIDE DEF some
<1>4. a \in GoodCall
  <2> HIDE DEF GoodCall
  <2>1. QED
    BY <1>3, CallsGood
<1>5. b \in Seq(GoodCall)
  <2> DEFINE p == IF shared THEN "MED" ELSE "MED_A"
             g == ~shared
  <2>1. p \in Priority /\ g \in BOOLEAN
    BY <1>3
  <2> HIDE DEF GoodCall, p, g
  <2>2. TargetCalls(Chips(some), p, g) \in Seq(GoodCall)
    BY <1>2, <2>1, TargetCallsGood
  <2>3. QED
    BY <2>2 DEF p, g
<1> HIDE DEF a, b, GoodCall
<1>6. QED
  BY <1>1, <1>4, <1>5, Lists

\* So are those for a timeout of the LPC bus.
LEMMA LpcGood ==
  ASSUME NEW chip \in Target
  PROVE  /\ LpcTimeoutCallout(chip) \in Seq(GoodCall)
         /\ \A timedOut : LpcTimeout(chip, timedOut).calls \in Seq(GoodCall)
<1> DEFINE a == PartCall("PNOR", "MED")
           b == ClockCall(OscClock(Pos[chip]), "MED")
           c == TargetCall(chip, "MED", FALSE)
           d == ProcedureCall("next_level_support", "HIGH")
           low == Pos[chip] \in {0, 1}
<1>1. a \in GoodCall /\ b \in GoodCall /\ c \in GoodCall /\ d \in GoodCall
  <2>1. /\ "PNOR" \in Part /\ OscClock(Pos[chip]) \in Clock /\ "MED" \in Priority /\ "HIGH" \in Priority
        /\ "next_level_support" \in Procedure /\ FALSE \in BOOLEAN
    BY DEF Part, Clock, Priority, Procedure, OscClock
  <2> HIDE DEF GoodCall
  <2>2. QED
    BY <2>1, CallsGood
<1>2. LpcTimeoutCallout(chip) = <<a>> \o (IF low THEN <<b>> ELSE <<>>) \o <<c>>
  BY DEF LpcTimeoutCallout
<1>3. \A timedOut : \/ LpcTimeout(chip, timedOut).calls = LpcTimeoutCallout(chip)
                   \/ LpcTimeout(chip, timedOut).calls = <<d>>
  BY DEF LpcTimeout, Calls
<1> HIDE DEF a, b, c, d, low, GoodCall
<1>4. LpcTimeoutCallout(chip) \in Seq(GoodCall)
  <2>1. (IF low THEN <<b>> ELSE <<>>) \in Seq(GoodCall)
    BY <1>1
  <2>2. QED
    BY <1>1, <1>2, <2>1
<1>5. QED
  BY <1>1, <1>3, <1>4, Lists

\* So are those for the DIMMs behind an OMI.
LEMMA DimmsGood ==
  ASSUME NEW inst, NEW chip \in Target
  PROVE  CalloutAttachedDimms(inst, chip).calls \in Seq(GoodCall)
<1> DEFINE omi == GetChipUnit(chip, "omi", inst)
           ocmb == GetConnectedTarget(omi, "OMI_BUS")
           dimms == {t \in Target : Type[t] = "dimm" /\ ocmb \in Above[t]}
           x == TargetCalls(InOrder(dimms), "MED", TRUE)
<1>1. CalloutAttachedDimms(inst, chip).calls \in {<<>>, x}
  BY DEF CalloutAttachedDimms, Calls, Fails
<1>2. x \in Seq(GoodCall)
  <2>1. "MED" \in Priority /\ TRUE \in BOOLEAN
    BY DEF Priority
  <2>2. dimms \in SUBSET Target
    OBVIOUS
  <2> HIDE DEF dimms, GoodCall
  <2>3. InOrder(dimms) \in Seq(Target)
    BY <2>2, InOrderIs, SeqWider
  <2>4. QED
    BY <2>1, <2>3, TargetCallsGood
<1> HIDE DEF x, GoodCall
<1>3. QED
  BY <1>1, <1>2, Lists

\* So are those for a timeout of a memory channel.
LEMMA ChannelGood ==
  ASSUME NEW inst, NEW chip \in Target, NEW list
  PROVE  ChannelTimeout(inst, chip, list).calls \in Seq(GoodCall)
<1> DEFINE omi == GetChipUnit(chip, "omi", inst)
           a == BusCall(omi, "OMI_BUS", "LOW", FALSE)
           b == TargetCall(omi, "HIGH", TRUE)
           c == ConnectedCall(omi, "OMI_BUS", "HIGH", TRUE)
<1>1. omi \in Target \cup {NoTarget, Threw}
  BY TreeAnswers
<1>2. omi \in Target => a \in GoodCall /\ b \in GoodCall /\ c \in GoodCall
  <2>1. /\ "LOW" \in Priority /\ "HIGH" \in Priority /\ "OMI_BUS" \in Bus
        /\ TRUE \in BOOLEAN /\ FALSE \in BOOLEAN
    BY DEF Priority, Bus
  <2> HIDE DEF GoodCall, omi
  <2>2. QED
    BY <2>1, CallsGood
<1> DEFINE f == ChannelTimeout(inst, chip, list).calls
<1>3. /\ omi = Threw => f = <<>>
      /\ omi = NoTarget => f = <<>>
      /\ omi # Threw /\ omi # NoTarget => f = <<a, b>> \/ f = <<a, c>>
  <2> DEFINE IsTimeout(s) == s.chip = chip /\ s.id = "MC_DSTL_FIR" /\ s.bit \in {22, 23}
             several == \E i, j \in DOMAIN list : i # j /\ IsTimeout(list[i]) /\ IsTimeout(list[j])
  <2>1. ChannelTimeout(inst, chip, list) =
          CASE omi = Threw    -> Fails(Threw)
            [] omi = NoTarget -> Calls(<<>>)
            [] OTHER          -> Calls(<<a, IF several THEN b ELSE c>>)
    BY DEF ChannelTimeout
  <2> HIDE DEF a, b, c, omi, several
  <2>2. QED
    BY <2>1 DEF Calls, Fails, Threw, NoTarget
<1> HIDE DEF a, b, c, f, GoodCall, omi
<1>4. f \in Seq(GoodCall)
  BY <1>1, <1>2, <1>3, Lists
<1>5. QED
  BY <1>4 DEF f

\* So are those for a memory chip that lost the lock of its PLL.
LEMMA OdyGood ==
  ASSUME NEW chip \in Target, NEW list, OfTargets(list)
  PROVE  Ody_PllUnlock(chip, list).calls \in Seq(GoodCall)
<1> DEFINE proc == GetParentProcessor(chip)
           Below(i) == GetParentProcessor(list[i].chip)
           places == {i \in PllUnlocks(list) : Below(i) = proc}
           some == Selected(list, places)
           threw == Threw \in {proc} \cup {Below(i) : i \in PllUnlocks(list)}
           a == TargetCall(some[1].chip, "HIGH", TRUE)
           b == TargetCall(proc, "LOW", FALSE)
           c == TargetCall(proc, "HIGH", TRUE)
           d == TargetCalls(Chips(some), "LOW", FALSE)
           f == Ody_PllUnlock(chip, list)
<1>1. f = IF threw THEN Fails(Threw)
          ELSE CASE some = <<>>   -> Fails(Threw)
                 [] Len(some) = 1 -> Calls(<<a, b>>)
                 [] OTHER         -> Calls(<<c>> \o d)
  BY DEF Ody_PllUnlock
<1>2. f.calls = <<>> \/ (~threw /\ Len(some) = 1 /\ f.calls = <<a, b>>) \/ (~threw /\ f.calls = <<c>> \o d)
  <2>1. some = <<>> => Len(some) # 1
    OBVIOUS
  <2> HIDE DEF threw, a, b, c, d, some, f
  <2>2. QED
    BY <1>1, <2>1 DEF Calls, Fails
<1>3. Chips(some) \in Seq(Target) /\ (Len(some) = 1 => some[1].chip \in Target)
  <2> HIDE DEF places
  <2>1. QED
    BY ChipsAre
<1>4. ~threw => proc \in Target
  <2>1. proc \in Target \cup {Threw}
    BY TreeAnswers
  <2>2. QED
    BY <2>1
<1> HIDE DEF threw, some, proc
<1>5. "HIGH" \in Priority /\ "LOW" \in Priority /\ TRUE \in BOOLEAN /\ FALSE \in BOOLEAN
  BY DEF Priority
<1>6. /\ Len(some) = 1 => a \in GoodCall
      /\ ~threw => b \in GoodCall /\ c \in GoodCall
  <2> HIDE DEF GoodCall
  <2>1. QED
    BY <1>3, <1>4, <1>5, CallsGood
<1>7. d \in Seq(GoodCall)
  <2> HIDE DEF GoodCall
  <2>1. QED
    BY <1>3, <1>5, TargetCallsGood
<1> HIDE DEF a, b, c, d, f, GoodCall
<1>8. f.calls \in Seq(GoodCall)
  BY <1>2, <1>6, <1>7, Lists
<1>9. QED
  BY <1>8 DEF f

\* The calls of a resolution are good ones, whatever the other signatures, the
\* active processors and the answer of the hardware are.
LEMMA ResolutionGood ==
  ASSUME NEW leaf, LeafOK(leaf), NEW chip \in Target, NEW list, OfTargets(list),
         NEW among \in SUBSET Target, NEW answer
  PROVE  ResolutionCalls(leaf, chip, list, among, answer).calls \in Seq(GoodCall)
<1> DEFINE f == ResolutionCalls(leaf, chip, list, among, answer)
           t == UnitTarget(chip, leaf.unit)
<1>1. <<>> \in Seq(GoodCall) /\ Fails(Threw).calls = <<>>
  BY Lists DEF Fails
<1>2. TodStepCheckFault(chip, among, answer.tod).calls \in Seq(GoodCall)
  <2> DEFINE C == TodCall(chip, among, answer.tod)
             d == TodStepCheckFault(chip, among, answer.tod)
  <2>1. C \subseteq GoodCall
    BY DEF TodCall
  <2>2. d.calls \in Seq(C)
    BY TodCallsAre
  <2> HIDE DEF C, d, GoodCall
  <2>3. d.calls \in Seq(GoodCall)
    BY <2>1, <2>2, SeqWider
  <2>4. QED
    BY <2>3 DEF d
<1>3. PluginCalls(leaf, chip, list, among, answer).calls \in Seq(GoodCall)
  <2> DEFINE p == PluginCalls(leaf, chip, list, among, answer)
             G == Seq(GoodCall)
             a == Ody_PllUnlock(chip, list)
             b == P10_PllUnlock(leaf.instance, list)
             c == LpcTimeout(chip, answer.lpc)
             d == LpcTimeoutWorkaround(chip)
             e == CalloutAttachedDimms(leaf.instance, chip)
             g == ChannelTimeout(leaf.instance, chip, list)
             h == TodStepCheckFault(chip, among, answer.tod)
             model == Model[chip]
             name == leaf.name
             none == model \notin DOMAIN PluginMap \/ name \notin PluginMap[model]
  <2>1. p = IF none THEN Fails(Threw)
            ELSE CASE name = "pll_unlock" /\ model = "ODYSSEY_10" -> a
                   [] name = "pll_unlock" /\ model # "ODYSSEY_10" -> b
                   [] name = "lpc_timeout"            -> c
                   [] name = "lpc_timeout_workaround" -> d
                   [] name = "callout_attached_dimms" -> e
                   [] name = "channel_timeout"        -> g
                   [] OTHER                           -> h
    BY DEF PluginCalls
  <2>2. a.calls \in G /\ b.calls \in G /\ c.calls \in G /\ e.calls \in G /\ g.calls \in G /\ h.calls \in G
    <3> HIDE DEF GoodCall
    <3>1. QED
      BY <1>2, OdyGood, PllUnlockGood, LpcGood, DimmsGood, ChannelGood
  <2>3. d.calls = LpcTimeoutCallout(chip) /\ d.calls \in G
    BY LpcGood DEF LpcTimeoutWorkaround, Calls
  <2>4. Fails(Threw).calls \in G
    BY <1>1
  <2> HIDE DEF a, b, c, d, e, g, h, none, model, name, p, G
  <2>5. p \in {Fails(Threw), a, b, c, d, e, g, h}
    <3>1. CASE none
      BY <2>1, <3>1
    <3>2. CASE ~none /\ name = "pll_unlock"
      BY <2>1, <3>2
    <3>3. CASE ~none /\ name # "pll_unlock"
      BY <2>1, <3>3
    <3>4. QED
      BY <3>1, <3>2, <3>3
  <2>6. p.calls \in G
    BY <2>2, <2>3, <2>4, <2>5
  <2>7. QED
    BY <2>6 DEF p, G
<1>4. t \in Target \cup {Threw}
  BY TreeAnswers
<1>5. CASE leaf.type = "plugin"
  BY <1>3, <1>5 DEF ResolutionCalls
<1>6. CASE leaf.type # "plugin" /\ t = Threw
  <2>1. f.calls = <<>>
    BY <1>6 DEF ResolutionCalls, Fails
  <2> HIDE DEF f
  <2>2. QED
    BY <1>1, <2>1 DEF f
<1>7. CASE leaf.type # "plugin" /\ t # Threw
  <2> DEFINE a == ConnectedCall(t, leaf.name, leaf.priority, leaf.guard)
             b == BusCall(t, leaf.name, leaf.priority, leaf.guard)
             c == ClockCall(leaf.name, leaf.priority)
             d == ProcedureCall(leaf.name, leaf.priority)
             e == PartCall(leaf.name, leaf.priority)
             g == TargetCall(t, leaf.priority, leaf.guard)
  <2>1. f = CASE leaf.type = "callout_connected" -> Calls(<<a>>)
              [] leaf.type = "callout_bus"       -> Calls(<<b>>)
              [] leaf.type = "callout_clock"     -> Calls(<<c>>)
              [] leaf.type = "callout_procedure" -> Calls(<<d>>)
              [] leaf.type = "callout_part"      -> Calls(<<e>>)
              [] OTHER                           -> Calls(<<g>>)
    BY <1>7 DEF ResolutionCalls
  <2>2. /\ leaf.type \in CalloutType /\ leaf.priority \in Priority /\ t \in Target
        /\ leaf.type \in TargetCalloutType => leaf.guard \in BOOLEAN
    BY <1>4, <1>7 DEF LeafOK
  <2>3. /\ leaf.type = "callout_connected" => a \in GoodCall
        /\ leaf.type = "callout_bus" => b \in GoodCall
        /\ leaf.type = "callout_clock" => c \in GoodCall
        /\ leaf.type = "callout_procedure" => d \in GoodCall
        /\ leaf.type = "callout_part" => e \in GoodCall
        /\ leaf.type \in {"callout_self", "callout_unit"} => g \in GoodCall
    <3>1. /\ leaf.type \in {"callout_connected", "callout_bus"} => leaf.name \in Bus
          /\ leaf.type = "callout_clock" => leaf.name \in Clock
          /\ leaf.type = "callout_procedure" => leaf.name \in Procedure
          /\ leaf.type = "callout_part" => leaf.name \in Part
          /\ leaf.type \in {"callout_self", "callout_unit", "callout_connected", "callout_bus"} =>
               leaf.guard \in BOOLEAN
      BY <2>2 DEF LeafOK, TargetCalloutType
    <3> HIDE DEF GoodCall, t
    <3>2. QED
      BY <2>2, <3>1, CallsGood
  <2>4. leaf.type \in {"callout_self", "callout_unit", "callout_connected", "callout_bus",
                       "callout_clock", "callout_procedure", "callout_part"}
    BY <2>2 DEF CalloutType, TargetCalloutType
  <2> HIDE DEF a, b, c, d, e, g, f, GoodCall, t
  <2>5. \E x \in GoodCall : f = Calls(<<x>>)
    <3>1. CASE leaf.type = "callout_connected"
      BY <2>1, <2>3, <3>1
    <3>2. CASE leaf.type = "callout_bus"
      BY <2>1, <2>3, <3>2
    <3>3. CASE leaf.type = "callout_clock"
      BY <2>1, <2>3, <3>3
    <3>4. CASE leaf.type = "callout_procedure"
      BY <2>1, <2>3, <3>4
    <3>5. CASE leaf.type = "callout_part"
      BY <2>1, <2>3, <3>5
    <3>6. CASE leaf.type \in {"callout_self", "callout_unit"}
      BY <2>1, <2>3, <3>6
    <3>7. QED
      BY <2>4, <3>1, <3>2, <3>3, <3>4, <3>5, <3>6
  <2>6. f.calls \in Seq(GoodCall)
    BY <2>5, Lists DEF Calls
  <2>7. QED
    BY <2>6 DEF f
<1>8. QED
  BY <1>5, <1>6, <1>7

\* The resolutions of a signature conform to the schema.
LEMMA SignatureLeaves ==
  ASSUME NEW s, NEW held \in SUBSET Names
  PROVE  \A i \in DOMAIN GetResolution(s, held).leaves : LeafOK(GetResolution(s, held).leaves[i])
<1> DEFINE r == GetResolution(s, held)
<1>1. CASE HasData(s)
  <2> DEFINE m == Model[s.chip]
             name == ParseSignature(s)
  <2>1. m \in DOMAIN Files
    BY <1>1 DEF HasData
  <2>2. name \in Called(m)
    BY DEF ParseSignature, Called, DataOf, Range
  <2>3. r = ParseAction[<<m, name, held>>]
    BY <1>1 DEF GetResolution
  <2> HIDE DEF m, name, r
  <2>4. name \in Names /\ held \in Sets
    BY <2>1, <2>2, CalledNames DEF Sets
  <2>5. r \in Walks(m)
    BY <2>1, <2>3, <2>4, WalksSound DEF Sound
  <2>6. r.leaves \in Seq(Leaves(m))
    BY <2>5 DEF Walks
  <2>7. \A i \in DOMAIN r.leaves : r.leaves[i] \in Leaves(m)
    BY <2>6
  <2>8. \A i \in DOMAIN r.leaves : LeafOK(r.leaves[i])
    BY <2>1, <2>7, LeavesOK
  <2>9. QED
    BY <2>8 DEF r
<1>2. CASE ~HasData(s)
  <2>1. r.leaves = <<>>
    BY <1>2 DEF GetResolution, Result
  <2>2. DOMAIN <<>> = {}
    OBVIOUS
  <2>3. QED
    BY <2>1, <2>2
<1>3. QED
  BY <1>1, <1>2

--------------------------------------------------------------------------------
(* The types *)

\* The types of the variables: what is left to be done is about targets that the
\* device tree has.
TypeInv ==
  /\ phase \in Phase /\ kind \in AnalysisType
  /\ active \in SUBSET Proc
  /\ root \in 0 .. Len(sigs)
  /\ stack \in SUBSET Names
  /\ IsList(leaves) /\ \A i \in DOMAIN leaves : LeafOK(leaves[i])
  /\ calls \in Seq(GoodCall)
  /\ seen \in Readings
  /\ failed \in BOOLEAN
  /\ callouts \in Seq(CalloutSet) /\ ffdc \in Seq(CallSet) /\ subsystem.priority \in Priority
  /\ plid \in {0, 1} /\ dump \in BOOLEAN

\* The types of the service data.
DataTyped == callouts \in Seq(CalloutSet) /\ ffdc \in Seq(CallSet) /\ subsystem.priority \in Priority

\* Making a call.
LEMMA MakingTyped ==
  ASSUME DataTyped, NEW call \in GoodCall, Outcome(call) = "ok", MakeCall(call)
  PROVE  DataTyped'
<1>1. call \in CallSet /\ call.priority \in Priority
  BY DEF GoodCall, CallSet
<1>2. /\ callouts' = CalloutList(callouts, call, kind)
      /\ ffdc' = Append(ffdc, call)
      /\ subsystem' = SetSrcSubsystem(subsystem, CallSubsystem(call), call.priority)
  BY DEF MakeCall
<1>3. callouts' \in Seq(CalloutSet)
  BY <1>2, CallTyped DEF DataTyped
<1>4. ffdc' \in Seq(CallSet)
  <2> HIDE DEF CallSet
  <2>1. QED
    BY <1>1, <1>2 DEF DataTyped
<1>5. subsystem'.priority \in Priority
  BY <1>1, <1>2 DEF SetSrcSubsystem, DataTyped
<1>6. QED
  BY <1>3, <1>4, <1>5 DEF DataTyped

\* The call for next level support.
LEMMA NextLevelGood == NextLevel \in GoodCall /\ Outcome(NextLevel) = "ok"
<1>1. "HIGH" \in Priority /\ "next_level_support" \in Procedure
  BY DEF Priority, Procedure
<1>2. NextLevel \in GoodCall
  <2> HIDE DEF GoodCall
  <2>1. QED
    BY <1>1, CallsGood DEF NextLevel
<1>3. Outcome(NextLevel) = "ok"
  BY DEF NextLevel, ProcedureCall, Outcome, TxTarget, NoTarget, Threw, Aborted
<1>4. QED
  BY <1>2, <1>3

\* The empty list of anything.
LEMMA EmptyTyped ==
  /\ <<>> \in Seq(GoodCall) /\ <<>> \in Seq(CallSet) /\ <<>> \in Seq(CalloutSet)
  /\ IsList(<<>>) /\ \A i \in DOMAIN <<>> : LeafOK(<<>>[i])
  /\ Len(<<>>) = 0 /\ DefaultSubsystem.priority \in Priority
<1>1. <<>> \in Seq(GoodCall) /\ <<>> \in Seq(CallSet) /\ <<>> \in Seq(CalloutSet) /\ <<>> \in Seq({})
  BY Lists
<1>2. DOMAIN <<>> = {} /\ Len(<<>>) = 0
  OBVIOUS
<1>3. QED
  BY <1>1, <1>2 DEF IsList, DefaultSubsystem, Priority

\* An exception.
LEMMA CatchTyped ==
  ASSUME TypeInv, CatchException, stack' \in SUBSET Names
  PROVE  TypeInv'
<1>1. DataTyped'
  BY MakingTyped, NextLevelGood DEF CatchException, TypeInv, DataTyped
<1>2. /\ phase' = "commit" /\ failed' = TRUE /\ leaves' = <<>> /\ calls' = <<>>
      /\ UNCHANGED <<kind, active, sigs, root, seen, plid, dump>>
  BY DEF CatchException, pel
<1>3. "commit" \in Phase
  BY DEF Phase
<1> HIDE DEF GoodCall, CallSet, CalloutSet
<1>4. QED
  BY <1>1, <1>2, <1>3, EmptyTyped DEF TypeInv, DataTyped

\* A failed assertion.
LEMMA AbortTyped ==
  ASSUME TypeInv, Abort, stack' \in SUBSET Names
  PROVE  TypeInv'
<1>1. /\ phase' = "aborted"
      /\ UNCHANGED <<kind, active, sigs, root, leaves, calls, seen, failed, callouts, ffdc,
                     subsystem, plid, dump>>
  BY DEF Abort, data, pel
<1>2. "aborted" \in Phase
  BY DEF Phase
<1> HIDE DEF GoodCall, CallSet, CalloutSet
<1>3. QED
  BY <1>1, <1>2 DEF TypeInv

\* The signatures of an analysis, and the one that is blamed, are of chips.
LEMMA OfChips ==
  ASSUME RootInv
  PROVE  /\ OfTargets(sigs) /\ DOMAIN sigs = 1 .. Len(sigs) /\ Len(sigs) \in Nat
         /\ phase \in {"parse", "resolve"} => root \in DOMAIN sigs /\ sigs[root].chip \in Target
<1>1. IsList(sigs)
  BY SigsList
<1>2. \A i \in DOMAIN sigs : sigs[i].chip \in Target
  <2>1. Chip \subseteq Target
    BY TreeAssumption DEF Chip
  <2>2. CASE sigs \in Isolated
    BY <2>1, <2>2, AnalyzerAssumption
  <2>3. CASE sigs = <<>>
    <3>1. DOMAIN <<>> = {}
      OBVIOUS
    <3>2. QED
      BY <2>3, <3>1
  <2>4. QED
    BY <2>2, <2>3 DEF RootInv
<1>3. phase \in {"parse", "resolve"} => root \in DOMAIN sigs
  <2>1. phase \in {"parse", "resolve"} => root > 0 /\ root = FilterRootCause(kind, sigs)
    BY DEF RootInv
  <2>2. FilterRootCause(kind, sigs) \in DOMAIN sigs \cup {NotFound, Thrown}
    BY <1>1, FilterResult
  <2>3. ~(NotFound > 0) /\ ~(Thrown > 0)
    BY DEF NotFound, Thrown
  <2>4. QED
    BY <2>1, <2>2, <2>3
<1>4. QED
  BY <1>1, <1>2, <1>3, Indices DEF OfTargets

\* The rest of a list, and its head.
LEMMA HeadTail ==
  ASSUME NEW S, NEW s \in Seq(S), s # <<>>
  PROVE  Head(s) \in S /\ Tail(s) \in Seq(S)
OBVIOUS

\* A resolution that is taken from the list.
LEMMA ResolveTyped ==
  ASSUME TypeInv, RootInv, Resolve
  PROVE  TypeInv'
<1>1. PICK answer \in (IF Head(leaves).type = "plugin" THEN Readings ELSE {Quiet}) :
        LET Decided(r) ==
              CASE r.outcome = "ok"  -> /\ leaves' = Tail(leaves)
                                        /\ calls' = r.calls
                                        /\ seen' = answer
                                        /\ UNCHANGED <<phase, kind, active, sigs, root, failed,
                                                       data, pel>>
                [] r.outcome = Threw -> CatchException
                [] OTHER             -> Abort
        IN Decided(ResolutionCalls(Head(leaves), sigs[root].chip, sigs, active, answer))
  BY DEF Resolve
<1> DEFINE r == ResolutionCalls(Head(leaves), sigs[root].chip, sigs, active, answer)
<1>2. answer \in Readings
  BY AnalyzerAssumption
<1>3. /\ phase = "resolve" /\ leaves # <<>> /\ stack' \in SUBSET Names
      /\ CASE r.outcome = "ok"  -> /\ leaves' = Tail(leaves)
                                   /\ calls' = r.calls
                                   /\ seen' = answer
                                   /\ UNCHANGED <<phase, kind, active, sigs, root, failed,
                                                  data, pel>>
           [] r.outcome = Threw -> CatchException
           [] OTHER             -> Abort
  BY <1>1 DEF Resolve, TypeInv
<1>4. LeafOK(Head(leaves)) /\ IsList(Tail(leaves))
      /\ \A i \in DOMAIN Tail(leaves) : LeafOK(Tail(leaves)[i])
  <2> DEFINE S == {leaves[i] : i \in DOMAIN leaves}
  <2>1. leaves \in Seq(S)
    BY DEF TypeInv, IsList
  <2>2. \A l \in S : LeafOK(l)
    BY DEF TypeInv
  <2> HIDE DEF S
  <2>3. Head(leaves) \in S /\ Tail(leaves) \in Seq(S)
    BY <1>3, <2>1, HeadTail
  <2>4. \A i \in DOMAIN Tail(leaves) : Tail(leaves)[i] \in S
    BY <2>3
  <2>5. QED
    BY <2>2, <2>3, <2>4 DEF IsList
<1>5. r.calls \in Seq(GoodCall)
  <2>1. sigs[root].chip \in Target /\ OfTargets(sigs)
    BY <1>3, OfChips
  <2>2. active \in SUBSET Target
    BY TreeAssumption DEF TypeInv, Proc, Chip
  <2> HIDE DEF GoodCall
  <2>3. QED
    BY <1>4, <2>1, <2>2, ResolutionGood
<1> HIDE DEF r, GoodCall, CallSet, CalloutSet
<1>6. CASE r.outcome = "ok"
  <2>1. /\ leaves' = Tail(leaves) /\ calls' = r.calls /\ seen' = answer
        /\ UNCHANGED <<phase, kind, active, sigs, root, failed, callouts, ffdc, subsystem, plid, dump>>
    BY <1>3, <1>6 DEF Threw, data, pel
  <2>2. QED
    BY <1>2, <1>3, <1>4, <1>5, <2>1 DEF TypeInv
<1>7. CASE r.outcome # "ok"
  <2>1. CatchException \/ Abort
    BY <1>3, <1>7
  <2>2. QED
    BY <1>3, <2>1, CatchTyped, AbortTyped
<1>8. QED
  BY <1>6, <1>7

\* Every step keeps the types.
LEMMA TypeStep == TypeInv /\ RootInv /\ [Next]_vars => TypeInv'
<1> SUFFICES ASSUME TypeInv, RootInv, [Next]_vars PROVE TypeInv'
  OBVIOUS
<1> HIDE DEF GoodCall, CallSet, CalloutSet
<1>0. "idle" \in Phase /\ "filter" \in Phase /\ "parse" \in Phase /\ "resolve" \in Phase
      /\ "commit" \in Phase /\ "done" \in Phase /\ "aborted" \in Phase
  BY DEF Phase
<1>1. CASE UNCHANGED vars
  BY <1>1 DEF vars, data, pel, TypeInv
<1>2. ASSUME NEW k \in AnalysisType, Analyze(k) PROVE TypeInv'
  <2>1. /\ phase = "idle" /\ kind' = k /\ active' \in SUBSET Proc
        /\ phase' \in {"filter", "aborted"}
        /\ sigs' \in Isolated \/ sigs' = sigs
        /\ UNCHANGED <<root, stack, leaves, calls, seen, failed, callouts, ffdc, subsystem, plid, dump>>
    BY <1>2 DEF Analyze, GetActiveProcessorChips, data, pel
  <2>2. Len(sigs') \in Nat
    <3>1. \A list \in Isolated : IsList(list)
      BY AnalyzerAssumption DEF IsList
    <3>2. IsList(sigs')
      BY <2>1, <3>1, SigsList
    <3>3. QED
      BY <3>2, Indices
  <2>3. root' = 0 /\ 0 \in 0 .. Len(sigs')
    BY <2>1, <2>2 DEF RootInv, NotFound
  <2>4. QED
    BY <1>0, <2>1, <2>3 DEF TypeInv
<1>3. CASE Filter
  <2> DEFINE r == FilterRootCause(kind, sigs)
  <2>1. /\ root' = IF r > 0 THEN r ELSE NotFound
        /\ phase' = CASE r > 0 /\ kind # "MANUAL"             -> "parse"
                      [] r > 0 /\ kind = "MANUAL"             -> "commit"
                      [] r <= 0 /\ kind = "SYSTEM_CHECKSTOP"  -> "commit"
                      [] OTHER                                -> "done"
        /\ IF r <= 0 /\ kind = "SYSTEM_CHECKSTOP" THEN MakeCall(NextLevel) ELSE UNCHANGED data
        /\ UNCHANGED <<kind, active, sigs, stack, leaves, calls, seen, failed, plid, dump>>
    BY <1>3 DEF Filter, pel
  <2>2. r \in DOMAIN sigs \cup {NotFound, Thrown} /\ DOMAIN sigs = 1 .. Len(sigs) /\ Len(sigs) \in Nat
    BY SigsList, FilterResult, Indices
  <2> HIDE DEF r
  <2>3. (IF r > 0 THEN r ELSE NotFound) \in 0 .. Len(sigs) /\ (r > 0 \/ r <= 0) /\ ~(r > 0 /\ r <= 0)
    BY <2>2 DEF NotFound, Thrown
  <2>4. phase' \in Phase
    <3>1. phase' \in {"parse", "commit", "done"}
      BY <2>1, <2>3
    <3>2. QED
      BY <1>0, <3>1
  <2>5. DataTyped'
    <3>1. CASE MakeCall(NextLevel)
      BY <3>1, MakingTyped, NextLevelGood DEF TypeInv, DataTyped
    <3>2. CASE UNCHANGED data
      BY <3>2 DEF TypeInv, DataTyped, data
    <3>3. QED
      BY <2>1, <3>1, <3>2
  <2>6. root' \in 0 .. Len(sigs')
    BY <2>1, <2>3
  <2>7. QED
    BY <2>1, <2>4, <2>5, <2>6 DEF TypeInv, DataTyped
<1>4. CASE Parse
  <2> DEFINE r == GetResolution(sigs[root], stack)
  <2>1. /\ phase = "parse" /\ stack' = r.stack
        /\ CASE r.outcome = "ok"    -> /\ phase' = "resolve"
                                       /\ leaves' = r.leaves
                                       /\ UNCHANGED <<kind, active, sigs, root, calls, seen,
                                                      failed, data, pel>>
             [] r.outcome = Threw   -> CatchException
             [] OTHER               -> Abort
    BY <1>4 DEF Parse
  <2>2. r.stack \in SUBSET Names /\ IsList(r.leaves)
    BY ResolutionSound DEF TypeInv, IsList
  <2>3. \A i \in DOMAIN r.leaves : LeafOK(r.leaves[i])
    BY SignatureLeaves DEF TypeInv
  <2> HIDE DEF r
  <2>4. CASE r.outcome = "ok"
    <3>1. /\ phase' = "resolve" /\ leaves' = r.leaves
          /\ UNCHANGED <<kind, active, sigs, root, calls, seen, failed, callouts, ffdc, subsystem,
                         plid, dump>>
      BY <2>1, <2>4 DEF Threw, data, pel
    <3>2. QED
      BY <1>0, <2>1, <2>2, <2>3, <3>1 DEF TypeInv
  <2>5. CASE r.outcome # "ok"
    BY <2>1, <2>2, <2>5, CatchTyped, AbortTyped
  <2>6. QED
    BY <2>4, <2>5
<1>5. CASE Resolve
  BY <1>5, ResolveTyped
<1>6. CASE Call
  <2>1. stack' \in SUBSET Names /\ stack' = stack /\ calls # <<>>
    BY <1>6 DEF Call, TypeInv
  <2>2. Head(calls) \in GoodCall /\ Tail(calls) \in Seq(GoodCall)
    BY <2>1, HeadTail DEF TypeInv
  <2>3. CASE Outcome(Head(calls)) = "ok"
    <3>1. /\ MakeCall(Head(calls)) /\ calls' = Tail(calls)
          /\ UNCHANGED <<phase, kind, active, sigs, root, leaves, seen, failed, plid, dump>>
      BY <1>6, <2>3 DEF Call, Threw, pel
    <3>2. DataTyped'
      BY <2>2, <2>3, <3>1, MakingTyped DEF TypeInv, DataTyped
    <3>3. QED
      BY <2>1, <2>2, <3>1, <3>2 DEF TypeInv, DataTyped
  <2>4. CASE Outcome(Head(calls)) # "ok"
    BY <1>6, <2>1, <2>4, CatchTyped, AbortTyped DEF Call
  <2>5. QED
    BY <2>3, <2>4
<1>7. CASE Resolved
  BY <1>0, <1>7 DEF Resolved, TypeInv, data, pel
<1>8. CASE CommitPel
  <2>1. /\ plid' \in {0, 1} /\ dump' \in BOOLEAN /\ phase' = "done"
        /\ UNCHANGED <<kind, active, sigs, root, stack, leaves, calls, seen, failed, callouts, ffdc,
                       subsystem>>
    BY <1>8 DEF CommitPel, data
  <2>2. QED
    BY <1>0, <2>1 DEF TypeInv
<1>9. CASE Return
  <2>1. /\ phase' = "idle" /\ kind' = "MANUAL" /\ active' = {} /\ sigs' = <<>> /\ root' = NotFound
        /\ leaves' = <<>> /\ calls' = <<>> /\ seen' = Quiet /\ failed' = FALSE
        /\ callouts' = <<>> /\ ffdc' = <<>> /\ subsystem' = DefaultSubsystem
        /\ plid' = 0 /\ dump' = FALSE /\ stack' = stack
    BY <1>9 DEF Return
  <2>2. Quiet \in Readings /\ "MANUAL" \in AnalysisType
    BY AnalyzerAssumption DEF AnalysisType
  <2>3. root' \in 0 .. Len(sigs')
    BY <2>1, EmptyTyped DEF NotFound
  <2>4. QED
    BY <1>0, <2>1, <2>2, <2>3, EmptyTyped DEF TypeInv
<1>10. QED
  BY <1>1, <1>2, <1>3, <1>4, <1>5, <1>6, <1>7, <1>8, <1>9 DEF Next

\* The invariant of the types holds in every reachable state.
THEOREM TypeInvHolds == Spec => []TypeInv
<1>1. Init => TypeInv
  <2> SUFFICES ASSUME Init PROVE TypeInv
    OBVIOUS
  <2>1. "idle" \in Phase /\ "MANUAL" \in AnalysisType /\ Quiet \in Readings
    BY AnalyzerAssumption DEF Phase, AnalysisType
  <2>2. /\ phase = "idle" /\ kind = "MANUAL" /\ active = {} /\ sigs = <<>> /\ root = NotFound
        /\ leaves = <<>> /\ calls = <<>> /\ seen = Quiet /\ failed = FALSE
        /\ callouts = <<>> /\ ffdc = <<>> /\ subsystem = DefaultSubsystem
        /\ plid = 0 /\ dump = FALSE /\ stack = {}
    BY DEF Init, NoData
  <2>3. root \in 0 .. Len(sigs)
    BY <2>2, EmptyTyped DEF NotFound
  <2> HIDE DEF GoodCall, CallSet, CalloutSet
  <2>4. QED
    BY <2>1, <2>2, <2>3, EmptyTyped DEF TypeInv
<1>2. QED
  BY <1>1, TypeStep, RootInvHolds, PTL DEF Spec

\* The variables of an analysis stay in their types: every call is one of the
\* service data's and every entry one that a PEL may have, whatever the data files
\* that conform to the schema, the device tree and the hardware are.
THEOREM TypeOKHolds == Spec => []TypeOK
<1>1. TypeInv /\ RootInv => TypeOK
  <2> SUFFICES ASSUME TypeInv, RootInv PROVE TypeOK
    OBVIOUS
  <2>1. calls \in Seq(CallSet)
    <3>1. GoodCall \subseteq CallSet
      BY DEF GoodCall
    <3> HIDE DEF GoodCall, CallSet
    <3>2. QED
      BY <3>1, SeqWider DEF TypeInv
  <2> HIDE DEF GoodCall, CallSet, CalloutSet
  <2>2. QED
    BY <2>1 DEF TypeInv, RootInv, TypeOK
<1>2. QED
  BY <1>1, TypeInvHolds, RootInvHolds, PTL

--------------------------------------------------------------------------------
(* Who is guarded for a step check fault *)

\* The calls of the plugin for the signature that is blamed.
Planned == TodCall(sigs[root].chip, active, seen.tod)

\* For a step check fault nothing is called out but what the plugin decided on,
\* unless there was an exception: the plugin is the only resolution, it is asked
\* once, and neither the processors nor what they answered changes after that.
TodInv ==
  /\ phase \in {"idle", "filter", "parse"} => ffdc = <<>> /\ calls = <<>>
  /\ root # NotFound /\ StepChecked(sigs[root]) /\ ~failed =>
       \/ /\ ffdc = <<>> /\ calls = <<>>
          /\ phase = "resolve" => leaves = GetResolution(sigs[root], {}).leaves
       \/ /\ ffdc \in Seq(Planned) /\ calls \in Seq(Planned) /\ leaves = <<>>
          /\ phase # "parse"

\* An exception.
LEMMA CatchTod ==
  ASSUME CatchException
  PROVE  TodInv'
BY DEF CatchException, TodInv

\* A failed assertion.
LEMMA AbortTod ==
  ASSUME TodInv, Abort
  PROVE  TodInv'
<1>1. /\ phase' = "aborted"
      /\ UNCHANGED <<active, sigs, root, leaves, calls, seen, failed, ffdc>>
  BY DEF Abort, data
<1>2. Planned' = Planned /\ StepChecked(sigs[root])' = StepChecked(sigs[root])
  BY <1>1 DEF Planned
<1> HIDE DEF Planned
<1>3. QED
  BY <1>1, <1>2 DEF TodInv

\* The plugin is asked.
LEMMA ResolveTod ==
  ASSUME TypeInv, RootInv, TodInv, Resolve
  PROVE  TodInv'
<1>1. PICK answer \in (IF Head(leaves).type = "plugin" THEN Readings ELSE {Quiet}) :
        LET Decided(r) ==
              CASE r.outcome = "ok"  -> /\ leaves' = Tail(leaves)
                                        /\ calls' = r.calls
                                        /\ seen' = answer
                                        /\ UNCHANGED <<phase, kind, active, sigs, root, failed,
                                                       data, pel>>
                [] r.outcome = Threw -> CatchException
                [] OTHER             -> Abort
        IN Decided(ResolutionCalls(Head(leaves), sigs[root].chip, sigs, active, answer))
  BY DEF Resolve
<1> DEFINE r == ResolutionCalls(Head(leaves), sigs[root].chip, sigs, active, answer)
           C == TodCall(sigs[root].chip, active, answer.tod)
<1>2. /\ phase = "resolve" /\ leaves # <<>>
      /\ CASE r.outcome = "ok"  -> /\ leaves' = Tail(leaves)
                                   /\ calls' = r.calls
                                   /\ seen' = answer
                                   /\ UNCHANGED <<phase, kind, active, sigs, root, failed,
                                                  data, pel>>
           [] r.outcome = Threw -> CatchException
           [] OTHER             -> Abort
  BY <1>1 DEF Resolve
<1>3. ASSUME root # NotFound, StepChecked(sigs[root]), ~failed, r.outcome = "ok"
      PROVE  ffdc = <<>> /\ r.calls \in Seq(C) /\ Tail(leaves) = <<>>
  <2> DEFINE found == GetResolution(sigs[root], {}).leaves
  <2>1. leaves = found /\ ffdc = <<>>
    BY <1>2, <1>3 DEF TodInv
  <2>2. Len(found) = 1 /\ found[1].type = "plugin" /\ found[1].name = "tod_step_check_fault"
    BY <1>3 DEF StepChecked
  <2> HIDE DEF found
  <2>3. PICK S : leaves \in Seq(S)
    BY DEF TypeInv, IsList
  <2>4. Tail(leaves) = <<>> /\ Head(leaves) = found[1]
    <3>1. leaves \in Seq(S) /\ Len(leaves) = 1
      BY <2>1, <2>2, <2>3
    <3>2. Tail(leaves) \in Seq(S) /\ Len(Tail(leaves)) = 0 /\ Head(leaves) = leaves[1]
      BY <3>1
    <3>3. Tail(leaves) = <<>>
      BY <3>2, EmptySeq
    <3>4. QED
      BY <2>1, <3>2, <3>3
  <2>5. r = TodStepCheckFault(sigs[root].chip, active, answer.tod)
    <3>1. r = PluginCalls(Head(leaves), sigs[root].chip, sigs, active, answer)
      BY <2>2, <2>4 DEF ResolutionCalls
    <3>2. PluginCalls(Head(leaves), sigs[root].chip, sigs, active, answer)
            \in {Fails(Threw), TodStepCheckFault(sigs[root].chip, active, answer.tod)}
      BY <2>2, <2>4 DEF PluginCalls
    <3>3. Fails(Threw).outcome # "ok"
      BY DEF Fails, Threw
    <3> HIDE DEF r
    <3>4. QED
      BY <1>3, <3>1, <3>2, <3>3
  <2>6. sigs[root].chip \in Target
    BY <1>2, OfChips
  <2>7. active \in SUBSET Target
    BY TreeAssumption DEF TypeInv, Proc, Chip
  <2> HIDE DEF r
  <2>8. QED
    BY <2>1, <2>4, <2>5, <2>6, <2>7, TodCallsAre
<1> HIDE DEF r
<1>4. CASE r.outcome = "ok"
  <2>1. /\ leaves' = Tail(leaves) /\ calls' = r.calls /\ seen' = answer
        /\ UNCHANGED <<phase, active, sigs, root, failed, ffdc>>
    BY <1>2, <1>4 DEF Threw, data
  <2>2. Planned' = C /\ StepChecked(sigs[root])' = StepChecked(sigs[root])
    BY <2>1 DEF Planned
  <2> HIDE DEF C, Planned
  <2>3. \A T : <<>> \in Seq(T)
    OBVIOUS
  <2>4. QED
    BY <1>2, <1>3, <1>4, <2>1, <2>2, <2>3 DEF TodInv
<1>5. CASE r.outcome # "ok"
  BY <1>2, <1>5, CatchTod, AbortTod
<1>6. QED
  BY <1>4, <1>5

\* A call that was planned is made.
LEMMA CallTod ==
  ASSUME TypeInv, TodInv, Call
  PROVE  TodInv'
<1>1. phase = "resolve" /\ calls # <<>>
  BY DEF Call
<1>2. CASE Outcome(Head(calls)) = "ok"
  <2>1. /\ ffdc' = Append(ffdc, Head(calls)) /\ calls' = Tail(calls)
        /\ UNCHANGED <<phase, active, sigs, root, leaves, seen, failed>>
    BY <1>2 DEF Call, MakeCall, Threw
  <2>2. Planned' = Planned /\ StepChecked(sigs[root])' = StepChecked(sigs[root])
    BY <2>1 DEF Planned
  <2> HIDE DEF Planned
  <2>3. ASSUME ffdc \in Seq(Planned), calls \in Seq(Planned)
        PROVE  ffdc' \in Seq(Planned) /\ calls' \in Seq(Planned)
    BY <1>1, <2>1, <2>3, HeadTail
  <2>4. QED
    BY <1>1, <2>1, <2>2, <2>3 DEF TodInv
<1>3. CASE Outcome(Head(calls)) # "ok"
  BY <1>3, CatchTod, AbortTod DEF Call
<1>4. QED
  BY <1>2, <1>3

\* Every step keeps it.
LEMMA TodStep == TypeInv /\ RootInv /\ DataInv /\ TodInv /\ [Next]_vars => TodInv'
<1> SUFFICES ASSUME TypeInv, RootInv, DataInv, TodInv, [Next]_vars PROVE TodInv'
  OBVIOUS
<1>a. ASSUME UNCHANGED <<active, sigs, root, leaves, calls, seen, failed, ffdc>>,
             phase' = phase \/ phase' \notin {"idle", "filter", "parse", "resolve"}
      PROVE  TodInv'
  <2>1. Planned' = Planned /\ StepChecked(sigs[root])' = StepChecked(sigs[root])
    BY <1>a DEF Planned
  <2> HIDE DEF Planned
  <2>2. QED
    BY <1>a, <2>1 DEF TodInv
<1>1. CASE UNCHANGED vars
  BY <1>1, <1>a DEF vars, data
<1>2. ASSUME NEW k \in AnalysisType, Analyze(k) PROVE TodInv'
  <2>1. /\ phase = "idle" /\ UNCHANGED <<root, calls, ffdc>>
    BY <1>2 DEF Analyze, data
  <2>2. QED
    BY <2>1 DEF RootInv, TodInv
<1>3. CASE Filter
  <2> DEFINE r == FilterRootCause(kind, sigs)
  <2>1. /\ phase = "filter" /\ UNCHANGED calls
        /\ root' = IF r > 0 THEN r ELSE NotFound
        /\ phase' = CASE r > 0 /\ kind # "MANUAL"             -> "parse"
                      [] r > 0 /\ kind = "MANUAL"             -> "commit"
                      [] r <= 0 /\ kind = "SYSTEM_CHECKSTOP"  -> "commit"
                      [] OTHER                                -> "done"
        /\ IF r <= 0 /\ kind = "SYSTEM_CHECKSTOP" THEN MakeCall(NextLevel) ELSE UNCHANGED data
    BY <1>3 DEF Filter
  <2>2. r > 0 => ~(r <= 0)
    <3>1. r \in DOMAIN sigs \cup {NotFound, Thrown} /\ DOMAIN sigs = 1 .. Len(sigs)
      BY SigsList, FilterResult, Indices
    <3> HIDE DEF r
    <3>2. QED
      BY <3>1 DEF NotFound, Thrown
  <2> HIDE DEF r
  <2>3. r > 0 => UNCHANGED ffdc /\ phase' \in {"parse", "commit"}
    BY <2>1, <2>2 DEF data
  <2>4. ~(r > 0) => root' = NotFound /\ phase' \in {"commit", "done"}
    BY <2>1
  <2>5. QED
    BY <2>1, <2>3, <2>4 DEF TodInv
<1>4. CASE Parse
  <2> DEFINE r == GetResolution(sigs[root], stack)
             fresh == GetResolution(sigs[root], {})
  <2>1. /\ phase = "parse"
        /\ CASE r.outcome = "ok"    -> /\ phase' = "resolve"
                                       /\ leaves' = r.leaves
                                       /\ UNCHANGED <<kind, active, sigs, root, calls, seen,
                                                      failed, data, pel>>
             [] r.outcome = Threw   -> CatchException
             [] OTHER               -> Abort
    BY <1>4 DEF Parse
  <2>2. r.outcome = "ok" => fresh.leaves = r.leaves
    BY ResolutionSound DEF TypeInv
  <2>3. CASE r.outcome = "ok"
    <3>1. /\ phase' = "resolve" /\ leaves' = r.leaves
          /\ UNCHANGED <<sigs, root, calls, failed, ffdc>>
      BY <2>1, <2>3 DEF Threw, data
    <3>2. GetResolution(sigs[root], {})' = fresh
      BY <3>1
    <3> HIDE DEF r, fresh
    <3>3. QED
      BY <2>1, <2>2, <2>3, <3>1, <3>2 DEF TodInv
  <2>4. CASE r.outcome # "ok"
    <3> HIDE DEF r
    <3>1. QED
      BY <2>1, <2>4, CatchTod, AbortTod
  <2>5. QED
    BY <2>3, <2>4
<1>5. CASE Resolve
  BY <1>5, ResolveTod
<1>6. CASE Call
  BY <1>6, CallTod
<1>7. CASE Resolved
  BY <1>7, <1>a DEF Resolved, data
<1>8. CASE CommitPel
  BY <1>8, <1>a DEF CommitPel, data
<1>9. CASE Return
  BY <1>9 DEF Return, TodInv
<1>10. QED
  BY <1>1, <1>2, <1>3, <1>4, <1>5, <1>6, <1>7, <1>8, <1>9 DEF Next

\* The invariant of the step check faults holds in every reachable state.
THEOREM TodInvHolds == Spec => []TodInv
<1>1. Init => TodInv
  BY DEF Init, NoData, TodInv
<1>2. QED
  BY <1>1, TodStep, TypeInvHolds, RootInvHolds, DataInvHolds, PTL DEF Spec

\* What is said comes from the calls.
LEMMA SaidFrom ==
  ASSUME NEW S, NEW f \in Seq(S), NEW k
  PROVE  \A m \in DOMAIN Said(f, k) : \E call \in S :
           \E n \in DOMAIN EntriesOf(call, k) : Said(f, k)[m] = EntriesOf(call, k)[n]
<1> DEFINE U == UNION {ToSet(EntriesOf(c, k)) : c \in S}
           s == [i \in DOMAIN f |-> EntriesOf(f[i], k)]
<1>1. \A c \in S : EntriesOf(c, k) \in Seq(U)
  <2>1. SUFFICES ASSUME NEW c \in S PROVE EntriesOf(c, k) \in Seq(U)
    OBVIOUS
  <2>2. ToSet(EntriesOf(c, k)) \subseteq U
    OBVIOUS
  <2> HIDE DEF U
  <2>3. CASE \E a : EntriesOf(c, k) = <<a>>
    BY <2>2, <2>3 DEF ToSet
  <2>4. CASE \E a, b, d : EntriesOf(c, k) = <<a, b, d>>
    BY <2>2, <2>4 DEF ToSet
  <2>5. QED
    BY <2>3, <2>4, EntriesShape
<1>2. Len(f) \in Nat /\ DOMAIN f = 1 .. Len(f) /\ \A i \in DOMAIN f : f[i] \in S
  OBVIOUS
<1>3. \A x \in U : \E call \in S : \E n \in DOMAIN EntriesOf(call, k) : x = EntriesOf(call, k)[n]
  BY DEF ToSet
<1> HIDE DEF U
<1>4. s \in [1 .. Len(f) -> Seq(U)]
  BY <1>1, <1>2
<1>5. s \in Seq(Seq(U))
  BY <1>2, <1>4, SeqDef
<1>6. FlattenSeq(s) \in Seq(U)
  <2>1. <<>> \in Seq(U)
    OBVIOUS
  <2> HIDE DEF s
  <2>2. QED
    BY <1>5, <2>1, FlattenAppend
<1>7. Said(f, k) \in Seq(U)
  BY <1>6 DEF Said
<1>8. \A m \in DOMAIN Said(f, k) : Said(f, k)[m] \in U
  BY <1>7
<1>9. QED
  BY <1>3, <1>8

\* An entry guards something only where its call does, and it guards the target of
\* the call if that is a call about a target.
LEMMA GuardingEntry ==
  ASSUME NEW call, call.guard \in BOOLEAN, call.guard => call.op = "target", NEW k,
         NEW n \in DOMAIN EntriesOf(call, k), EntriesOf(call, k)[n].guard # "GARD_NULL"
  PROVE  call.guard /\ EntriesOf(call, k)[n].entity = call.target
<1> DEFINE One(t) == TargetCallout(t, call.priority, call.guard, k)
           Far == TxTarget(call)
           Board == BackplaneCallout(call.priority)
           Name == ProcedureCallout(call.name, call.priority)
           Card == TargetCallout(Bmc, call.priority, FALSE, k)
           e == EntriesOf(call, k)[n]
<1>1. EntriesOf(call, k) = CASE call.op = "target"    -> <<One(call.target)>>
                             [] call.op = "connected" -> <<One(Far)>>
                             [] call.op = "bus"       -> <<One(call.target), One(Far), Board>>
                             [] call.op = "clock"     -> <<Board>>
                             [] call.op = "procedure" -> <<Name>>
                             [] OTHER                 -> <<Card>>
  BY DEF EntriesOf
<1>2. /\ \A t : /\ ~call.guard => One(t).guard = "GARD_NULL"
                /\ One(t).guard # "GARD_NULL" => One(t).entity = t
      /\ Board.guard = "GARD_NULL" /\ Name.guard = "GARD_NULL" /\ Card.guard = "GARD_NULL"
  BY DEF TargetCallout, BackplaneCallout, ProcedureCallout
<1> HIDE DEF One, Far, Board, Name, Card
<1>3. CASE call.op = "target"
  <2>1. e = One(call.target)
    BY <1>1, <1>3
  <2>2. QED
    BY <1>2, <2>1
<1>4. CASE call.op # "target"
  <2>1. ~call.guard
    BY <1>4
  <2>2. e \in {One(call.target), One(Far), Board, Name, Card}
    <3>1. CASE call.op = "connected"
      BY <1>1, <3>1
    <3>2. CASE call.op = "bus"
      BY <1>1, <3>2
    <3>3. CASE call.op = "clock"
      BY <1>1, <3>3
    <3>4. CASE call.op = "procedure"
      BY <1>1, <3>4
    <3>5. CASE call.op \notin {"target", "connected", "bus", "clock", "procedure"}
      BY <1>1, <3>5
    <3>6. QED
      BY <1>4, <3>1, <3>2, <3>3, <3>4, <3>5
  <2>3. QED
    BY <1>2, <2>1, <2>2
<1>5. QED
  BY <1>3, <1>4

\* For a step check fault of the TOD a processor is guarded only for an internal
\* fault of its own while the active network shows none, or as the one that
\* reported the attention where no processor shows any fault
\* (tod_step_check_fault()).
THEOREM TodGuardsHolds == Spec => []TodGuards
<1>1. TypeInv /\ DataInv /\ TodInv => TodGuards
  <2> SUFFICES ASSUME TypeInv, DataInv, TodInv, root # NotFound, ~failed, StepChecked(sigs[root]),
                      NEW i \in DOMAIN callouts, callouts[i].guard # "GARD_NULL"
               PROVE  LET c == callouts[i].entity
                      IN \/ /\ c \in active /\ InternalFault(seen.tod[c])
                            /\ \A p \in active : ~PathFault(p, seen.tod[p], "ACTIVE")
                         \/ /\ c = sigs[root].chip
                            /\ \A p \in active : /\ ~InternalFault(seen.tod[p])
                                                 /\ ~PathFault(p, seen.tod[p], "ACTIVE")
                                                 /\ ~PathFault(p, seen.tod[p], "BACKUP")
    BY DEF TodGuards
  <2>1. ffdc \in Seq(Planned)
    <3>1. <<>> \in Seq(Planned)
      OBVIOUS
    <3> HIDE DEF Planned
    <3>2. QED
      BY <3>1 DEF TodInv
  <2>2. PICK m \in DOMAIN Said(ffdc, kind) : callouts[i] = Said(ffdc, kind)[m]
    BY DEF DataInv, Exact
  <2>3. PICK call \in Planned : \E n \in DOMAIN EntriesOf(call, kind) :
          callouts[i] = EntriesOf(call, kind)[n]
    <3> HIDE DEF Planned
    <3>1. QED
      BY <2>1, <2>2, SaidFrom
  <2>4. call.guard \in BOOLEAN /\ (call.guard => call.op = "target")
    BY DEF Planned, TodCall, GoodCall, CallSet
  <2>5. call.guard /\ callouts[i].entity = call.target
    BY <2>3, <2>4, GuardingEntry
  <2> HIDE DEF GoodCall
  <2>6. QED
    BY <2>5 DEF Planned, TodCall
<1>2. QED
  BY <1>1, TypeInvHolds, DataInvHolds, TodInvHolds, PTL

================================================================================
