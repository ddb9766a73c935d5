-------------------------- MODULE AttackLabProofs ---------------------------
(***************************************************************************)
(* For any requests and any lab runs among them: shutdown releases what    *)
(* the requests use only after every handler has ended.  For any runs of   *)
(* any scenarios: they leave nothing behind, and pass, unless they overlap *)
(* or the application shuts down.                                          *)
(***************************************************************************)
EXTENDS AttackLab, FiniteSetTheorems, SequenceTheorems, TLAPS

\* Only a lab run is in flight without being handled.
LabSends == InFlight \ Running \subseteq Lab

\* Once drain has begun nothing is let in.
Closed == draining # "no" => ~accepting

\* What is still handled when drain waits for cancelled tasks is among them, and nothing is when
\* drain is done.
Waited ==
  /\ draining = "gathering" => Running \subseteq targets
  /\ draining = "done" => Running = {}

\* Only then does lifespan release anything.
Ordered == released # <<>> => draining = "done"

IInv == TypeOK /\ LabSends /\ Closed /\ Waited /\ Ordered

-----------------------------------------------------------------------------

\* The invariant holds before the first request.
LEMMA InitIInv == Init => IInv
  BY LabAssumption DEF Init, IInv, TypeOK, LabSends, Closed, Waited, Ordered, Running, InFlight

\* Every step of a request keeps it.
LEMMA RequestKeepsIInv ==
  ASSUME IInv, NEW r \in Request,
         Accept(r) \/ Refuse(r) \/ Handled(r) \/ Leave(r)
  PROVE  IInv'
  <1> USE LabAssumption DEF IInv, TypeOK, LabSends, Closed, Waited, Ordered, Running, InFlight
  <1>1. CASE Accept(r)
    BY <1>1 DEF Accept
  <1>2. CASE Refuse(r)
    BY <1>2 DEF Refuse
  <1>3. CASE Handled(r)
    BY <1>3 DEF Handled
  <1>4. CASE Leave(r)
    BY <1>4 DEF Leave
  <1> QED BY <1>1, <1>2, <1>3, <1>4

\* So does every step of the lifespan handler.
LEMMA LifespanKeepsIInv ==
  ASSUME IInv, Lifespan
  PROVE  IInv'
  <1> USE LabAssumption DEF IInv, TypeOK, LabSends, Closed, Waited, Ordered, Running, InFlight
  <1>1. CASE BeginDrain
    BY <1>1 DEF BeginDrain
  <1>2. CASE Drained
    BY <1>2 DEF Drained
  <1>3. CASE GraceExpires
    BY <1>3 DEF GraceExpires
  <1>4. CASE Gathered
    BY <1>4 DEF Gathered
  <1>5. CASE Release
    BY <1>5 DEF Release, Resource
  <1> QED BY <1>1, <1>2, <1>3, <1>4, <1>5 DEF Lifespan

\* The invariant of the coordinator.
THEOREM ShutdownInvariance == Spec => []IInv
  <1>1. IInv /\ [Next]_vars => IInv'
    <2>1. ASSUME IInv, Next PROVE IInv'
      BY <2>1, RequestKeepsIInv, LifespanKeepsIInv DEF Next
    <2>2. ASSUME IInv, UNCHANGED vars PROVE IInv'
      BY <2>2 DEF IInv, TypeOK, LabSends, Closed, Waited, Ordered, Running, InFlight, vars
    <2> QED BY <2>1, <2>2
  <1> QED BY InitIInv, <1>1, PTL DEF Spec

\* No handler ever runs on what shutdown has released.
THEOREM ShutdownIsOrdered == Spec => []ReleasedAfterRequests
  <1>1. IInv => ReleasedAfterRequests
    BY DEF IInv, Waited, Ordered, ReleasedAfterRequests
  <1> QED BY <1>1, ShutdownInvariance, PTL

\* Where no request runs the Attack Lab, what the documentation says of shutdown is true of it.
THEOREM ShutdownWithoutLab ==
  ASSUME Lab = {}
  PROVE  Spec => []ReleasedAfterAll
  <1>1. IInv => ReleasedAfterAll
    BY DEF IInv, LabSends, Waited, Ordered, ReleasedAfterAll
  <1> QED BY <1>1, ShutdownInvariance, PTL

\* From the moment drain begins, what is running only gets less.
THEOREM ShutdownAdmitsNone == Spec => NoneEntersDraining
  <1>1. IInv /\ [Next]_vars
          => [draining # "no" => Running' \subseteq Running]_vars
    <2> SUFFICES ASSUME IInv, Next, draining # "no"
                 PROVE  Running' \subseteq Running
      OBVIOUS
    <2>1. ~accepting
      BY DEF IInv, Closed
    <2>2. CASE Lifespan
      BY <2>2 DEF Lifespan, BeginDrain, Drained, GraceExpires, Gathered, Release, Running
    <2>3. ASSUME NEW r \in Request,
                 Accept(r) \/ Refuse(r) \/ Handled(r) \/ Leave(r)
          PROVE  Running' \subseteq Running
      BY <2>1, <2>3 DEF IInv, TypeOK, Accept, Refuse, Handled, Leave, Running
    <2> QED BY <2>2, <2>3 DEF Next
  <1> QED BY <1>1, ShutdownInvariance, PTL DEF Spec, NoneEntersDraining

\* The state is what the module says it is.
THEOREM ShutdownTypes == Spec => []TypeOK
  <1>1. IInv => TypeOK
    BY DEF IInv
  <1> QED BY <1>1, ShutdownInvariance, PTL

-----------------------------------------------------------------------------
(* A run is a request                                                      *)

\* Every step of a run is a step of its request, or none of the coordinator's.
LEMMA RunSteps ==
  ASSUME NEW r \in Lab, Run(r)
  PROVE  Accept(r) \/ Handled(r) \/ UNCHANGED vars
  <1> USE DEF Proceed, Conclude
  <1>1. CASE Begin(r)
    BY <1>1 DEF Begin
  <1>2. CASE CountTools(r)
    BY <1>2 DEF CountTools
  <1>3. CASE PostTool(r)
    BY <1>3 DEF PostTool
  <1>4. CASE CountRules(r)
    BY <1>4 DEF CountRules
  <1>5. CASE PostRule(r)
    BY <1>5 DEF PostRule
  <1>6. CASE OpenSession(r)
    BY <1>6 DEF OpenSession
  <1>7. CASE DisableTool(r)
    BY <1>7 DEF DisableTool
  <1>8. CASE Call(r)
    BY <1>8 DEF Call
  <1>9. CASE Recover(r)
    BY <1>9 DEF Recover
  <1>10. CASE ReadEvents(r)
    BY <1>10 DEF ReadEvents
  <1>11. CASE EnableTool(r)
    BY <1>11 DEF EnableTool
  <1>12. CASE Cut(r)
    BY <1>12 DEF Cut
  <1> QED BY <1>1, <1>2, <1>3, <1>4, <1>5, <1>6, <1>7, <1>8, <1>9, <1>10, <1>11, <1>12 DEF Run

\* The runs of the lab use the coordinator as any request does: what is proved of it holds with
\* them.
THEOREM LabIsServed == LabSpec => Spec
  <1>1. LabInit => Init
    BY DEF LabInit
  <1>2. [LabNext]_<<vars, lab>> => [Next]_vars
    BY RunSteps, LabAssumption DEF LabNext, Other, Next
  <1> QED BY <1>1, <1>2, PTL DEF LabSpec, Spec

-----------------------------------------------------------------------------
(* The course of a run                                                     *)

\* The requests of a run come in this order.
Stage == [tools |-> 1, tool |-> 2, rules |-> 3, rule |-> 4, session |-> 5, disable |-> 6,
          call |-> 7, again |-> 8, recover |-> 9, events |-> 10, enable |-> 11]

Kinds == DOMAIN Stage

Has(t, k) == \E i \in 1..Len(t) : t[i] = k

\* Only the posts of the seed are repeated.
InOrder(t) ==
  \A i, j \in 1..Len(t) :
    i < j => Stage[t[i]] < Stage[t[j]] \/ (t[i] = t[j] /\ t[i] \in {"tool", "rule"})

\* The posts, and the reading of the events, are put in front when it is their turn.
InFront(t) == \A k \in {"tool", "rule", "events"} : Has(t, k) => t[1] = k

\* What no run of a scenario skips.
Mandatory(s) == {"rules", "session", "call"} \cup (IF s.setup = "disable" THEN {"disable"} ELSE {})

\* After the call comes the cleanup, and it comes last.
EndsWell(s, t) ==
  \/ t[Len(t)] \in {"call", "again"}
  \/ /\ t[1] \in {"recover", "events", "enable"}
     /\ t[Len(t)] \in {"recover", "events", "enable"}
     /\ s.cleanup = "enable" => t[Len(t)] = "enable"

\* What a run of scenario s may have before it.
Course(s, t) ==
  /\ t \in Seq(Kinds) /\ t # <<>>
  /\ InOrder(t) /\ InFront(t) /\ EndsWell(s, t)
  /\ \A k \in Mandatory(s) : Stage[t[1]] <= Stage[k] => Has(t, k)
  /\ Has(t, "disable") => s.setup = "disable"

\* The stages are numbers.
LEMMA StageNumbers ==
  /\ Kinds = {"tools", "tool", "rules", "rule", "session", "disable", "call", "again", "recover",
              "events", "enable"}
  /\ \A k \in Kinds : Stage[k] \in Int
  /\ \A k, l \in Kinds : Stage[k] = Stage[l] => k = l
  BY DEF Kinds, Stage

\* Each kind has its stage.
LEMMA StageValues ==
  /\ Stage["tools"] = 1 /\ Stage["tool"] = 2 /\ Stage["rules"] = 3 /\ Stage["rule"] = 4
  /\ Stage["session"] = 5 /\ Stage["disable"] = 6 /\ Stage["call"] = 7 /\ Stage["again"] = 8
  /\ Stage["recover"] = 9 /\ Stage["events"] = 10 /\ Stage["enable"] = 11
  BY DEF Stage

\* Every stage is a number.
LEMMA StagesAreNumbers == \A k \in Kinds : Stage[k] \in Int
  BY StageNumbers

\* What is mandatory is none of the posts.
LEMMA MandatoryKinds == \A s : \A k \in Mandatory(s) : k \in Kinds \ {"tool", "rule"}
<1> SUFFICES ASSUME NEW s, NEW k \in Mandatory(s) PROVE k \in Kinds \ {"tool", "rule"}
  OBVIOUS
<1>1. k \in {"rules", "session", "call", "disable"}
  BY DEF Mandatory
<1> QED
  BY <1>1, StageNumbers

\* The stages of what follows the call.
LEMMA LateStages ==
  /\ \A k \in {"recover", "events", "enable"} : 9 <= Stage[k]
  /\ \A k \in Kinds : 9 < Stage[k] => k \in {"recover", "events", "enable"}
  BY StageNumbers, StageValues

\* The tail of a sequence, by its elements.
LEMMA TailElements ==
  ASSUME NEW S, NEW t \in Seq(S), t # <<>>
  PROVE  /\ Tail(t) \in Seq(S) /\ Len(t) \in Nat \ {0} /\ Len(Tail(t)) = Len(t) - 1
         /\ Head(t) = t[1]
         /\ \A i \in 1..Len(Tail(t)) : Tail(t)[i] = t[i + 1]
         /\ \A i \in 1..Len(t) : t[i] \in S
         /\ Tail(t) # <<>> <=> Len(t) > 1
  <1>1. /\ Tail(t) \in Seq(S) /\ Len(t) \in Nat \ {0} /\ Len(Tail(t)) = Len(t) - 1
        /\ Head(t) = t[1]
    OBVIOUS
  <1>2. \A i \in 1..Len(Tail(t)) : Tail(t)[i] = t[i + 1]
    BY <1>1
  <1>3. \A i \in 1..Len(t) : t[i] \in S
    OBVIOUS
  <1>4. Tail(t) # <<>> <=> Len(t) > 1
    <2>1. \A u \in Seq(S) : u # <<>> <=> Len(u) > 0
      BY EmptySeq
    <2>2. Tail(t) # <<>> <=> Len(Tail(t)) > 0
      <3> HIDE <1>1
      <3>1. Tail(t) \in Seq(S)
        BY <1>1
      <3> QED BY <2>1, <3>1, Zenon
    <2> QED BY <1>1, <2>2
  <1> QED BY <1>1, <1>2, <1>3, <1>4

\* What follows the head of a course is a course, and comes later unless it is a repeated post.
LEMMA TailIsCourse ==
  ASSUME NEW s, NEW t, Course(s, t), Tail(t) # <<>>
  PROVE  /\ Course(s, Tail(t))
         /\ Stage[t[1]] < Stage[Tail(t)[1]] \/ (t[1] = Tail(t)[1] /\ t[1] \in {"tool", "rule"})
         /\ \A k \in Mandatory(s) : Stage[t[1]] < Stage[k] => Stage[Tail(t)[1]] <= Stage[k]
  <1> DEFINE u == Tail(t)
  <1>1. /\ t \in Seq(Kinds) /\ u \in Seq(Kinds) /\ u # <<>> /\ Len(t) \in Nat /\ Len(t) > 1
        /\ Len(u) = Len(t) - 1
        /\ \A i \in 1..Len(u) : u[i] = t[i + 1]
        /\ \A i \in 1..Len(t) : t[i] \in Kinds
    BY TailElements DEF Course
  <1> HIDE DEF u
  <1>2. InOrder(u)
    BY <1>1 DEF Course, InOrder
  <1>3. Stage[t[1]] < Stage[u[1]] \/ (t[1] = u[1] /\ t[1] \in {"tool", "rule"})
    BY <1>1 DEF Course, InOrder
  <1>4. \A k : Has(t, k) <=> t[1] = k \/ Has(u, k)
    <2>1. ASSUME NEW k, NEW i \in 1..Len(t), t[i] = k, t[1] # k PROVE Has(u, k)
      <3>1. i - 1 \in 1..Len(u) /\ u[i - 1] = t[i]
        BY <1>1, <2>1
      <3> QED BY <3>1, <2>1 DEF Has
    <2>2. ASSUME NEW k, NEW i \in 1..Len(u), u[i] = k PROVE Has(t, k)
      <3>1. i + 1 \in 1..Len(t) /\ t[i + 1] = k
        BY <1>1, <2>2
      <3> QED BY <3>1 DEF Has
    <2>3. \A k : t[1] = k => Has(t, k)
      BY <1>1 DEF Has
    <2> QED BY <2>1, <2>2, <2>3 DEF Has
  <1>5. InFront(u)
    <2> SUFFICES ASSUME NEW k \in {"tool", "rule", "events"}, NEW j \in 1..Len(u), u[j] = k
                 PROVE  u[1] = k
      BY DEF InFront, Has
    <2>1. t[1] = k
      BY <1>4 DEF Has, Course, InFront
    <2>2. t[1] \in Kinds /\ u[1] \in Kinds /\ u[j] \in Kinds
      BY <1>1
    <2>3. j = 1 \/ Stage[u[1]] < Stage[k] \/ u[1] = k
      BY <1>2 DEF InOrder
    <2>4. Stage[u[1]] \in Int /\ Stage[k] \in Int
      <3>1. u[1] \in Kinds /\ k \in Kinds
        BY <2>2
      <3> QED BY <3>1, StageNumbers
    <2>5. Stage[k] < Stage[u[1]] \/ u[1] = k
      BY <1>3, <2>1
    <2> QED BY <2>3, <2>4, <2>5
  <1>6. EndsWell(s, u)
    <2>1. u[Len(u)] = t[Len(t)]
      BY <1>1
    <2>2. t[1] \in {"recover", "events", "enable"} => u[1] \in {"recover", "events", "enable"}
      <3> SUFFICES ASSUME t[1] \in {"recover", "events", "enable"}
                   PROVE  u[1] \in {"recover", "events", "enable"}
        OBVIOUS
      <3>1. t[1] \in Kinds /\ u[1] \in Kinds
        BY <1>1
      <3>2. 9 < Stage[u[1]]
        <4>1. Stage[t[1]] \in Int /\ Stage[u[1]] \in Int
          BY <3>1, StagesAreNumbers
        <4>2. 9 <= Stage[t[1]]
          BY LateStages
        <4>3. Stage[t[1]] < Stage[u[1]]
          BY <1>3
        <4> QED BY <4>1, <4>2, <4>3
      <3> QED BY <3>1, <3>2, LateStages
    <2> QED BY <2>1, <2>2 DEF Course, EndsWell
  <1>7. \A k \in Mandatory(s) : Stage[u[1]] <= Stage[k] => Has(u, k)
    <2> SUFFICES ASSUME NEW k \in Mandatory(s), Stage[u[1]] <= Stage[k]
                 PROVE  Has(u, k)
      OBVIOUS
    <2>1. k \in Kinds \ {"tool", "rule"}
      BY MandatoryKinds
    <2>2. t[1] \in Kinds /\ u[1] \in Kinds
      BY <1>1
    <2>3. Stage[t[1]] \in Int /\ Stage[u[1]] \in Int /\ Stage[k] \in Int
      BY <2>1, <2>2, StagesAreNumbers
    <2>4. Stage[t[1]] < Stage[u[1]] \/ (t[1] = u[1] /\ t[1] # k)
      BY <1>3, <2>1
    <2>5. Stage[t[1]] <= Stage[k] /\ t[1] # k
      BY <2>3, <2>4
    <2> QED BY <1>4, <2>5 DEF Course
  <1>8. ASSUME NEW k \in Mandatory(s), Stage[t[1]] < Stage[k] PROVE Stage[u[1]] <= Stage[k]
    <2>1. k \in Kinds /\ t[1] \in Kinds /\ u[1] \in Kinds
      BY <1>1, MandatoryKinds
    <2>2. Stage[t[1]] \in Int /\ Stage[k] \in Int /\ Stage[u[1]] \in Int
      BY <2>1, StagesAreNumbers
    <2>3. Has(t, k) /\ t[1] # k
      BY <1>8, <2>2 DEF Course
    <2>4. PICK i \in 1..Len(u) : u[i] = k
      BY <1>4, <2>3 DEF Has
    <2>5. i = 1 \/ Stage[u[1]] < Stage[k] \/ u[1] = k
      BY <1>1, <1>2, <2>4 DEF InOrder
    <2> QED BY <2>2, <2>4, <2>5
  <1> QED BY <1>1, <1>2, <1>3, <1>4, <1>5, <1>6, <1>7, <1>8 DEF Course, u

\* The first n are the posts of the kind that are left.
Posting(t, k, n) == \A i \in 1..Len(t) : t[i] = k <=> i <= n

\* The posts of the seed, and what follows them.
PutInFront(t, k, n) == Times(n, k) \o Tail(t)

\* What becomes of a course when posts are put in front of its tail.
LEMMA PostsInFront ==
  ASSUME NEW s, NEW t, Course(s, t), NEW k, NEW n \in Nat \ {0},
         \/ t[1] = "tools" /\ k = "tool"
         \/ t[1] = "rules" /\ k = "rule"
  PROVE  LET u == PutInFront(t, k, n) IN Course(s, u) /\ u[1] = k /\ Posting(u, k, n)
  <1> DEFINE v == Tail(t)
             w == Times(n, k)
             u == w \o v
  <1> k \in Kinds
    BY StageNumbers
  <1> t \in Seq(Kinds) /\ t # <<>>
    BY DEF Course
  <1>1. Has(t, "call") /\ Len(t) \in Nat /\ t[1] # "call" /\ t[1] \in Kinds
    <2>1. Len(t) \in Nat \ {0} /\ t[1] \in Kinds
      BY TailElements
    <2>2. Stage[t[1]] <= Stage["call"] /\ t[1] # "call"
      BY StageValues
    <2> QED BY <2>1, <2>2 DEF Course, Mandatory
  <1>2. v # <<>>
    <2>1. PICK i \in 1..Len(t) : t[i] = "call"
      BY <1>1 DEF Has
    <2>2. Len(t) > 1
      BY <1>1, <2>1
    <2> QED BY <2>2, TailElements
  <1>3. Course(s, v) /\ Stage[t[1]] < Stage[v[1]]
    BY <1>2, TailIsCourse
  <1>4. v \in Seq(Kinds) /\ Len(v) \in Nat \ {0} /\ \A i \in 1..Len(v) : v[i] \in Kinds
    <2>1. v \in Seq(Kinds)
      BY <1>3 DEF Course
    <2> HIDE DEF v
    <2> QED BY <2>1, <1>2, EmptySeq
  <1>5. w \in Seq(Kinds) /\ Len(w) = n /\ \A i \in 1..n : w[i] = k
    BY DEF Times
  <1> HIDE DEF v, w
  <1>6. u \in Seq(Kinds) /\ Len(u) = n + Len(v)
    BY <1>4, <1>5
  <1>7. \A i \in 1..Len(u) : u[i] = IF i <= n THEN k ELSE v[i - n]
    BY <1>4, <1>5, <1>6
  <1>8. Len(u) \in Nat \ {0} /\ Len(u) > n /\ u[1] = k /\ u # <<>>
    BY <1>4, <1>6, <1>7, EmptySeq
  <1> HIDE DEF u
  \* What is in the tail comes after the posts.
  <1>9. \A i \in 1..Len(v) : Stage[k] < Stage[v[i]]
    <2> SUFFICES ASSUME NEW i \in 1..Len(v) PROVE Stage[k] < Stage[v[i]]
      OBVIOUS
    <2>1. Stage[t[1]] < Stage[v[i]]
      <3>1. i = 1 \/ Stage[v[1]] < Stage[v[i]] \/ v[1] = v[i]
        BY <1>3, <1>4 DEF Course, InOrder
      <3>2. Stage[t[1]] \in Int /\ Stage[v[1]] \in Int /\ Stage[v[i]] \in Int
        <4>1. v[1] \in Kinds /\ v[i] \in Kinds
          BY <1>4
        <4> QED BY <4>1, <1>1, StagesAreNumbers
      <3> QED BY <1>3, <3>1, <3>2
    <2>2. v[i] # k
      <3>1. v[i] = k => v[1] = k /\ Has(t, k)
        <4>1. v[i] = k => v[1] = k
          BY <1>3 DEF Course, InFront, Has
        <4>2. v[1] = t[2] /\ 2 \in 1..Len(t)
          BY <1>2, TailElements DEF v
        <4> QED BY <4>1, <4>2 DEF Has
      <3>2. Has(t, k) => t[1] = k
        BY DEF Course, InFront
      <3> QED BY <3>1, <3>2
    <2>3. /\ v[i] \in Kinds /\ Stage[v[i]] \in Int /\ Stage[k] \in Int
          /\ Stage[v[i]] = Stage[k] => v[i] = k
      <3>1. v[i] \in Kinds
        BY <1>4
      <3> QED BY <3>1, StageNumbers
    <2>4. Stage[k] = Stage[t[1]] + 1 /\ Stage[t[1]] \in Int
      BY StageValues
    <2> QED BY <2>1, <2>2, <2>3, <2>4
  <1>10. Posting(u, k, n)
    <2> SUFFICES ASSUME NEW i \in 1..Len(u), i > n PROVE u[i] # k
      BY <1>7 DEF Posting
    <2>1. i - n \in 1..Len(v) /\ u[i] = v[i - n]
      BY <1>4, <1>6, <1>7
    <2>2. Stage[k] \in Int /\ Stage[k] < Stage[u[i]]
      BY <2>1, <1>9, StageNumbers
    <2> QED BY <2>2
  <1>11. InOrder(u)
    <2> SUFFICES ASSUME NEW i \in 1..Len(u), NEW j \in 1..Len(u), i < j
                 PROVE  Stage[u[i]] < Stage[u[j]] \/ (u[i] = u[j] /\ u[i] \in {"tool", "rule"})
      BY DEF InOrder
    <2>1. CASE j <= n
      BY <2>1, <1>7
    <2>2. CASE i <= n /\ j > n
      BY <2>2, <1>4, <1>6, <1>7, <1>9
    <2>3. CASE i > n
      <3>1. i - n \in 1..Len(v) /\ j - n \in 1..Len(v) /\ i - n < j - n
        BY <2>3, <1>4, <1>6
      <3>2. u[i] = v[i - n] /\ u[j] = v[j - n]
        BY <2>3, <1>7
      <3> QED BY <3>1, <3>2, <1>3 DEF Course, InOrder
    <2> QED BY <2>1, <2>2, <2>3, <1>6, <1>4
  <1>12. \A l : Has(u, l) <=> l = k \/ Has(v, l)
    <2>1. ASSUME NEW l, NEW i \in 1..Len(u), u[i] = l, l # k PROVE Has(v, l)
      <3>1. i - n \in 1..Len(v) /\ v[i - n] = l
        BY <2>1, <1>4, <1>6, <1>7
      <3> QED BY <3>1 DEF Has
    <2>2. ASSUME NEW l, NEW i \in 1..Len(v), v[i] = l PROVE Has(u, l)
      <3>1. i + n \in 1..Len(u) /\ u[i + n] = v[i]
        BY <2>2, <1>4, <1>6, <1>7
      <3> QED BY <3>1, <2>2 DEF Has
    <2>3. Has(u, k)
      BY <1>8 DEF Has
    <2> QED BY <2>1, <2>2, <2>3 DEF Has
  <1>13. \A l : Has(v, l) <=> Has(t, l) /\ (l = t[1] => Has(v, l))
    <2>1. ASSUME NEW l, NEW i \in 1..Len(v), v[i] = l PROVE Has(t, l)
      <3>1. i + 1 \in 1..Len(t) /\ t[i + 1] = l
        BY <2>1, TailElements DEF v
      <3> QED BY <3>1 DEF Has
    <2>2. ASSUME NEW l, NEW i \in 1..Len(t), t[i] = l, l # t[1] PROVE Has(v, l)
      <3>1. i - 1 \in 1..Len(v) /\ v[i - 1] = l
        BY <2>2, <1>1, TailElements DEF v
      <3> QED BY <3>1 DEF Has
    <2> QED BY <2>1, <2>2 DEF Has
  <1>14. InFront(u)
    <2> SUFFICES ASSUME NEW l \in {"tool", "rule", "events"}, Has(u, l), l # k
                 PROVE  FALSE
      BY <1>8 DEF InFront
    <2>1. Has(v, l)
      BY <1>12
    <2>2. Has(t, l)
      BY <2>1, <1>13
    <2> QED BY <2>2 DEF Course, InFront
  <1>15. EndsWell(s, u)
    <2>1. u[Len(u)] = v[Len(v)]
      BY <1>4, <1>6, <1>7
    <2>2. v[Len(v)] = t[Len(t)]
      BY <1>2, TailElements DEF v
    <2> QED BY <2>1, <2>2 DEF Course, EndsWell
  <1>16. ASSUME NEW l \in Mandatory(s), Stage[u[1]] <= Stage[l] PROVE Has(u, l)
    <2>1. l \in {"rules", "session", "call", "disable"}
      BY DEF Mandatory
    <2>2. Stage[t[1]] <= Stage[l] /\ l # t[1]
      BY <1>8, <1>16, <2>1, StageValues
    <2>3. Has(t, l)
      BY <2>2 DEF Course
    <2> QED BY <2>2, <2>3, <1>12, <1>13
  <1>17. Has(u, "disable") => s.setup = "disable"
    BY <1>3, <1>12 DEF Course
  <1>18. Course(s, u)
    BY <1>6, <1>8, <1>11, <1>14, <1>15, <1>16, <1>17 DEF Course
  <1> QED BY <1>8, <1>10, <1>18 DEF u, v, w, PutInFront

\* How many posts of the kind are left.
NumberLeft(t, k) == Cardinality({i \in DOMAIN t : t[i] = k})

\* One post less is left when one has been answered.
LEMMA PostsGetLess ==
  ASSUME NEW s, NEW t, Course(s, t), NEW k \in {"tool", "rule"}, NEW n \in Nat \ {0},
         Posting(t, k, n), t[1] = k
  PROVE  /\ NumberLeft(t, k) = n
         /\ Tail(t) # <<>>
         /\ n > 1 => Posting(Tail(t), k, n - 1) /\ Tail(t)[1] = k
         /\ n = 1 => Tail(t)[1] # k
  <1> t \in Seq(Kinds) /\ t # <<>>
    BY DEF Course
  <1>1. Len(t) \in Nat \ {0} /\ DOMAIN t = 1..Len(t)
    BY TailElements
  <1>2. t[Len(t)] # k
    BY DEF Course, EndsWell
  <1>3. n < Len(t)
    BY <1>1, <1>2 DEF Posting
  <1>4. {i \in DOMAIN t : t[i] = k} = 1..n
    BY <1>1, <1>3 DEF Posting
  <1>5. Cardinality(1..n) = n
    <2>1. Cardinality(1..n) = IF 1 > n THEN 0 ELSE n - 1 + 1
      BY FS_Interval
    <2> QED BY <2>1
  <1>6. /\ Tail(t) # <<>> /\ Len(Tail(t)) = Len(t) - 1
        /\ \A i \in 1..Len(Tail(t)) : Tail(t)[i] = t[i + 1]
    BY <1>1, <1>3, TailElements
  <1> DEFINE u == Tail(t)
  <1>7. u # <<>> /\ Len(u) = Len(t) - 1 /\ \A i \in 1..Len(u) : u[i] = t[i + 1]
    BY <1>6
  <1> HIDE DEF u
  <1>8. n > 1 => Posting(u, k, n - 1)
    BY <1>1, <1>3, <1>7 DEF Posting
  <1>9. u[1] = t[2] /\ 2 \in 1..Len(t)
    BY <1>1, <1>3, <1>7
  <1>10. n > 1 => u[1] = k
    BY <1>9 DEF Posting
  <1>11. n = 1 => u[1] # k
    BY <1>9 DEF Posting
  <1> QED BY <1>4, <1>5, <1>7, <1>8, <1>10, <1>11 DEF u, NumberLeft

\* A run that has disabled the tool enables it again.
LEMMA DisableCleansUp == \A s \in SCENARIOS : s.setup = "disable" => s.cleanup = "enable"
  <1> USE DEF Attack, None
  <1>1. DisabledTool.cleanup = "enable"
    BY DEF DisabledTool
  <1>2. SafeGithubRead.setup # "disable"
    BY DEF SafeGithubRead
  <1>3. SensitiveEmailInput.setup # "disable"
    BY DEF SensitiveEmailInput
  <1>4. DestructiveSql.setup # "disable"
    BY DEF DestructiveSql
  <1>5. MultipleSqlStatements.setup # "disable"
    BY DEF MultipleSqlStatements
  <1>6. InvalidArguments.setup # "disable"
    BY DEF InvalidArguments
  <1>7. UnknownTool.setup # "disable"
    BY DEF UnknownTool
  <1>8. IndirectPromptInjection.setup # "disable"
    BY DEF IndirectPromptInjection
  <1>9. SecretInOutput.setup # "disable"
    BY DEF SecretInOutput
  <1>10. PersistentReplay.setup # "disable"
    BY DEF PersistentReplay
  <1>11. AdapterTimeout.setup # "disable"
    BY DEF AdapterTimeout
  <1>12. AdapterFailure.setup # "disable"
    BY DEF AdapterFailure
  <1> QED BY <1>1, <1>2, <1>3, <1>4, <1>5, <1>6, <1>7, <1>8, <1>9, <1>10, <1>11, <1>12 DEF SCENARIOS

\* A run begins with a course.
LEMMA ScriptIsCourse ==
  ASSUME NEW s \in SCENARIOS
  PROVE  Course(s, Script(s)) /\ Script(s)[1] = "tools"
  <1> DEFINE u == Script(s)
  <1>1. CASE s.setup = "disable" /\ s.id = "persistent-replay"
    <2>1. u = (<<"tools", "rules", "session">> \o <<"disable">>) \o <<"call", "again">>
      BY <1>1 DEF Script
    <2>2. /\ Len(u) = 6
          /\ u[1] = "tools" /\ u[2] = "rules" /\ u[3] = "session" /\ u[4] = "disable" /\ u[5] = "call" /\ u[6] = "again"
      BY <2>1
    <2>3. u \in Seq(Kinds) /\ u # <<>>
      BY <2>1, <2>2, StageNumbers
    <2> HIDE DEF u
    <2>4. 1..Len(u) = {1, 2, 3, 4, 5, 6}
      BY <2>2
    <2>5. InOrder(u)
      BY <2>2, <2>4, StageValues DEF InOrder
    <2>6. InFront(u) /\ EndsWell(s, u)
      BY <2>2, <2>4 DEF InFront, EndsWell, Has
    <2>7. \A k \in Mandatory(s) : Has(u, k)
      BY <1>1, <2>2, <2>4 DEF Mandatory, Has
    <2>8. Has(u, "disable") => s.setup = "disable"
      BY <1>1, <2>2, <2>4 DEF Has
    <2>9. Course(s, u) /\ u[1] = "tools"
      BY <2>2, <2>3, <2>5, <2>6, <2>7, <2>8 DEF Course
    <2> QED BY <2>9 DEF u
  <1>2. CASE s.setup = "disable" /\ s.id # "persistent-replay"
    <2>1. u = (<<"tools", "rules", "session">> \o <<"disable">>) \o <<"call">>
      BY <1>2 DEF Script
    <2>2. /\ Len(u) = 5
          /\ u[1] = "tools" /\ u[2] = "rules" /\ u[3] = "session" /\ u[4] = "disable" /\ u[5] = "call"
      BY <2>1
    <2>3. u \in Seq(Kinds) /\ u # <<>>
      BY <2>1, <2>2, StageNumbers
    <2> HIDE DEF u
    <2>4. 1..Len(u) = {1, 2, 3, 4, 5}
      BY <2>2
    <2>5. InOrder(u)
      BY <2>2, <2>4, StageValues DEF InOrder
    <2>6. InFront(u) /\ EndsWell(s, u)
      BY <2>2, <2>4 DEF InFront, EndsWell, Has
    <2>7. \A k \in Mandatory(s) : Has(u, k)
      BY <1>2, <2>2, <2>4 DEF Mandatory, Has
    <2>8. Has(u, "disable") => s.setup = "disable"
      BY <1>2, <2>2, <2>4 DEF Has
    <2>9. Course(s, u) /\ u[1] = "tools"
      BY <2>2, <2>3, <2>5, <2>6, <2>7, <2>8 DEF Course
    <2> QED BY <2>9 DEF u
  <1>3. CASE s.setup # "disable" /\ s.id = "persistent-replay"
    <2>1. u = (<<"tools", "rules", "session">> \o <<>>) \o <<"call", "again">>
      BY <1>3 DEF Script
    <2>2. /\ Len(u) = 5
          /\ u[1] = "tools" /\ u[2] = "rules" /\ u[3] = "session" /\ u[4] = "call" /\ u[5] = "again"
      BY <2>1
    <2>3. u \in Seq(Kinds) /\ u # <<>>
      BY <2>1, <2>2, StageNumbers
    <2> HIDE DEF u
    <2>4. 1..Len(u) = {1, 2, 3, 4, 5}
      BY <2>2
    <2>5. InOrder(u)
      BY <2>2, <2>4, StageValues DEF InOrder
    <2>6. InFront(u) /\ EndsWell(s, u)
      BY <2>2, <2>4 DEF InFront, EndsWell, Has
    <2>7. \A k \in Mandatory(s) : Has(u, k)
      BY <1>3, <2>2, <2>4 DEF Mandatory, Has
    <2>8. Has(u, "disable") => s.setup = "disable"
      BY <1>3, <2>2, <2>4 DEF Has
    <2>9. Course(s, u) /\ u[1] = "tools"
      BY <2>2, <2>3, <2>5, <2>6, <2>7, <2>8 DEF Course
    <2> QED BY <2>9 DEF u
  <1>4. CASE s.setup # "disable" /\ s.id # "persistent-replay"
    <2>1. u = (<<"tools", "rules", "session">> \o <<>>) \o <<"call">>
      BY <1>4 DEF Script
    <2>2. /\ Len(u) = 4
          /\ u[1] = "tools" /\ u[2] = "rules" /\ u[3] = "session" /\ u[4] = "call"
      BY <2>1
    <2>3. u \in Seq(Kinds) /\ u # <<>>
      BY <2>1, <2>2, StageNumbers
    <2> HIDE DEF u
    <2>4. 1..Len(u) = {1, 2, 3, 4}
      BY <2>2
    <2>5. InOrder(u)
      BY <2>2, <2>4, StageValues DEF InOrder
    <2>6. InFront(u) /\ EndsWell(s, u)
      BY <2>2, <2>4 DEF InFront, EndsWell, Has
    <2>7. \A k \in Mandatory(s) : Has(u, k)
      BY <1>4, <2>2, <2>4 DEF Mandatory, Has
    <2>8. Has(u, "disable") => s.setup = "disable"
      BY <1>4, <2>2, <2>4 DEF Has
    <2>9. Course(s, u) /\ u[1] = "tools"
      BY <2>2, <2>3, <2>5, <2>6, <2>7, <2>8 DEF Course
    <2> QED BY <2>9 DEF u
  <1> QED BY <1>1, <1>2, <1>3, <1>4

\* So it does after the call.
LEMMA AfterCallIsCourse ==
  ASSUME NEW s \in SCENARIOS, NEW answer
  PROVE  LET t == AfterCall(s, answer) IN
         /\ Course(s, t)
         /\ t[1] = IF answer.http \in {200, 403} THEN "events" ELSE "recover"
  <1> DEFINE first == IF answer.http \in {200, 403} THEN "events" ELSE "recover"
             u == AfterCall(s, answer)
  <1>1. CASE s.cleanup = "enable"
    <2> DEFINE v == <<first, "enable">>
    <2>1. u = <<first>> \o <<"enable">>
      BY <1>1 DEF AfterCall, Cleanup
    <2>2. Len(u) = 2 /\ u[1] = first /\ u[2] = "enable"
      BY <2>1
    <2>3. u \in Seq(Kinds) /\ u # <<>>
      BY <2>1, <2>2, StageNumbers
    <2> HIDE DEF u
    <2> QED BY <1>1, <2>2, <2>3, StageNumbers, StageValues
            DEF Course, InOrder, InFront, EndsWell, Mandatory, Has, u
  <1>2. CASE s.cleanup # "enable"
    <2>1. u = <<first>> \o <<>>
      BY <1>2 DEF AfterCall, Cleanup
    <2>2. Len(u) = 1 /\ u[1] = first
      BY <2>1
    <2>3. u \in Seq(Kinds) /\ u # <<>>
      BY <2>1, <2>2, StageNumbers
    <2> HIDE DEF u
    <2> QED BY <1>2, <2>2, <2>3, StageNumbers, StageValues
            DEF Course, InOrder, InFront, EndsWell, Mandatory, Has, u
  <1> QED BY <1>1, <1>2

\* The events are read when the call has been found.
LEMMA EventsInFront ==
  ASSUME NEW s, NEW t, Course(s, t), t[1] = "recover"
  PROVE  Course(s, <<"events">> \o Tail(t))
  <1> DEFINE v == Tail(t)
             u == <<"events">> \o v
  <1> t \in Seq(Kinds) /\ t # <<>>
    BY DEF Course
  <1>1. v \in Seq(Kinds) /\ Len(v) \in Nat /\ Len(v) = Len(t) - 1
        /\ \A i \in 1..Len(v) : v[i] = t[i + 1] /\ v[i] \in Kinds
        /\ Len(t) \in Nat \ {0}
    BY TailElements
  <1> HIDE DEF v
  <1>2. /\ u \in Seq(Kinds) /\ Len(u) = Len(t)
        /\ \A i \in 1..Len(u) : u[i] = IF i = 1 THEN "events" ELSE t[i]
    <2>1. <<"events">> \in Seq(Kinds)
      BY StageNumbers
    <2>2. u \in Seq(Kinds) /\ Len(u) = 1 + Len(v)
      BY <2>1, <1>1
    <2>3. \A i \in 1..Len(u) : u[i] = IF i = 1 THEN "events" ELSE v[i - 1]
      BY <2>1, <2>2, <1>1
    <2> HIDE DEF u
    <2>4. ASSUME NEW i \in 1..Len(u), i # 1 PROVE v[i - 1] = t[i]
      BY <2>2, <2>4, <1>1
    <2> QED BY <2>2, <2>3, <2>4, <1>1
  <1>3. u # <<>>
    BY <1>1, <1>2, EmptySeq
  <1> HIDE DEF u
  <1>4. ASSUME NEW i \in 1..Len(t), i > 1
        PROVE  t[i] = "enable"
    <2>1. t[1] \in Kinds /\ t[i] \in Kinds
      BY <1>1, TailElements
    <2>2. Stage[t[1]] < Stage[t[i]]
      BY <1>1, <1>4 DEF Course, InOrder
    <2>3. t[i] # "events"
      BY DEF Course, InFront, Has
    <2> QED BY <2>1, <2>2, <2>3, StageValues, StageNumbers
  <1>5. \A i \in 1..Len(u) : u[i] = IF i = 1 THEN "events" ELSE "enable"
    BY <1>1, <1>2, <1>4
  <1>6. Len(t) \in {1, 2}
    <2>1. ASSUME Len(t) > 2 PROVE FALSE
      <3>1. t[2] = "enable" /\ t[3] = "enable"
        BY <2>1, <1>1, <1>4
      <3>2. Stage[t[2]] < Stage[t[3]] \/ t[2] \in {"tool", "rule"}
        BY <2>1, <1>1 DEF Course, InOrder
      <3> QED BY <3>1, <3>2, StageValues
    <2> QED BY <2>1, <1>1
  <1>7. InOrder(u)
    <2> SUFFICES ASSUME NEW i \in 1..Len(u), NEW j \in 1..Len(u), i < j
                 PROVE  Stage[u[i]] < Stage[u[j]]
      BY DEF InOrder
    <2>1. i = 1 /\ j = 2
      BY <1>2, <1>6
    <2>2. u[i] = "events" /\ u[j] = "enable"
      BY <1>5, <2>1
    <2> QED BY <2>2, StageValues
  <1>8. InFront(u)
    BY <1>1, <1>2, <1>5 DEF InFront, Has
  <1>9. u[1] = "events"
    BY <1>1, <1>2
  <1>10. EndsWell(s, u)
    BY <1>1, <1>2, <1>5, <1>6, <1>9 DEF Course, EndsWell
  <1>11. ~Has(u, "disable")
    BY <1>1, <1>2, <1>5 DEF Has
  <1>12. \A k \in Mandatory(s) : ~(Stage[u[1]] <= Stage[k])
    BY <1>9, StageValues DEF Mandatory
  <1>13. Course(s, u)
    BY <1>2, <1>3, <1>7, <1>8, <1>10, <1>11, <1>12 DEF Course
  <1> QED BY <1>13 DEF u, v

-----------------------------------------------------------------------------
(* The invariant of the runs                                               *)

LabTypes ==
  /\ play \in [Lab -> SCENARIOS]
  /\ todo \in [Lab -> Seq(Kinds)]
  /\ DOMAIN original = Lab
  /\ enabled \in BOOLEAN
  /\ tools \in 0..3 /\ rules \in 0..4
  /\ DOMAIN row = Lab /\ DOMAIN seen = Lab
  /\ verdict \in [Lab -> {None, "error", "passed", "failed"}]

\* Before drain nothing is refused and no task is cancelled.
Open == draining = "no" => accepting /\ targets = {}

\* How far a run has come.
At(r) == Stage[todo[r][1]]

PostsLeft(t) ==
  /\ t[1] = "tool" => \E n \in 1..3 : Posting(t, "tool", n)
  /\ t[1] = "rule" => \E n \in 1..4 : Posting(t, "rule", n)

\* A run is in its course.  It has something to restore only once it has its session, and no call
\* is claimed before the call.
Courses ==
  \A r \in Lab :
    /\ pc[r] = "running" => Course(play[r], todo[r]) /\ PostsLeft(todo[r])
    /\ original[r] # None => pc[r] = "running" /\ Override(play[r]) # None /\ At(r) >= 5
    /\ pc[r] = "new" \/ (pc[r] = "running" /\ At(r) <= 7) => row[r].status = None

\* Runs that are under way together have overlapped.
Meetings ==
  /\ IsFiniteSet(LabRunning) /\ IsFiniteSet(overlapped)
  /\ \A r, q \in LabRunning : r # q => r \in overlapped

TwoReplace ==
  \E r, q \in overlapped : r # q /\ Override(play[r]) # None /\ Override(play[q]) # None

\* Unless two runs that replace the adapter have overlapped, the one that has done so will restore
\* the registry's own.
Restorable ==
  ~TwoReplace =>
    /\ \A r \in Lab : original[r] # None => original[r] = Default /\ adapter = r
    /\ adapter # Default => adapter \in Lab /\ original[adapter] # None

\* A disabled tool has a run that will enable it.
Reenabled == draining = "no" /\ ~enabled => \E r \in LabRunning : play[r].cleanup = "enable"

\* A run without a session is one that was refused.
NoErrors == draining = "no" => \A r \in Lab : verdict[r] # "error"

LabInv == LabTypes /\ Open /\ Courses /\ Meetings /\ Restorable /\ Reenabled /\ NoErrors

\* A request of a run is answered.
Handler(r) ==
  \/ CountTools(r) \/ PostTool(r) \/ CountRules(r) \/ PostRule(r)
  \/ OpenSession(r) \/ DisableTool(r) \/ Call(r) \/ Recover(r) \/ ReadEvents(r) \/ EnableTool(r)

\* What is common to all of them.
Answered(r, rest, observed) ==
  /\ r \in LabRunning /\ r \notin targets
  /\ Proceed(r, rest, observed)
  /\ UNCHANGED <<play, overlapped>>
  /\ rest # <<>> =>
       /\ Course(play[r], rest) /\ PostsLeft(rest)
       /\ At(r) <= Stage[rest[1]]
       /\ At(r) = Stage[rest[1]] => rest[1] \in {"tool", "rule"}
       /\ \A k \in Mandatory(play[r]) : At(r) < Stage[k] => Stage[rest[1]] <= Stage[k]
  /\ rest = <<>> => todo[r][1] = "enable" \/ play[r].cleanup # "enable"
  /\ tools' \in 0..3 /\ rules' \in 0..4
  /\ enabled' = IF todo[r][1] = "enable" THEN TRUE
                ELSE IF todo[r][1] = "disable" THEN FALSE ELSE enabled
  /\ DOMAIN row' = Lab /\ \A q \in Lab \ {r} : row'[q] = row[q]
  /\ At(r) <= 6 => row'[r] = row[r]

\* The tail of what a run has to do.
LEMMA RestOfRun ==
  ASSUME LabTypes, Courses, NEW r \in LabRunning
  PROVE  LET t == todo[r]
             u == Tail(todo[r])
         IN /\ Course(play[r], t) /\ PostsLeft(t) /\ Head(t) = t[1] /\ t[1] \in Kinds
            /\ At(r) \in Int
            /\ u # <<>> =>
                 /\ Course(play[r], u) /\ PostsLeft(u)
                 /\ At(r) < Stage[u[1]] \/ (t[1] = u[1] /\ t[1] \in {"tool", "rule"})
                 /\ At(r) <= Stage[u[1]]
                 /\ At(r) = Stage[u[1]] => u[1] \in {"tool", "rule"}
                 /\ \A k \in Mandatory(play[r]) : At(r) < Stage[k] => Stage[u[1]] <= Stage[k]
            /\ u = <<>> =>
                 /\ t[1] \in {"call", "again", "recover", "events", "enable"}
                 /\ t[1] \notin {"call", "again"} /\ play[r].cleanup = "enable" => t[1] = "enable"
  <1> DEFINE s == play[r]
             t == todo[r]
             u == Tail(t)
  <1>1. Course(s, t) /\ PostsLeft(t) /\ r \in Lab
    BY DEF Courses, LabRunning, Running
  <1>2. t \in Seq(Kinds) /\ t # <<>>
    BY <1>1 DEF Course
  <1> HIDE DEF s, t
  <1>3. Head(t) = t[1] /\ t[1] \in Kinds /\ Len(t) \in Nat \ {0}
    BY <1>2, TailElements
  <1>4. Stage[t[1]] \in Int
    BY <1>3, StageNumbers
  <1>5. ASSUME u # <<>>
        PROVE  /\ Course(s, u)
               /\ Stage[t[1]] < Stage[u[1]] \/ (t[1] = u[1] /\ t[1] \in {"tool", "rule"})
               /\ \A k \in Mandatory(s) : Stage[t[1]] < Stage[k] => Stage[u[1]] <= Stage[k]
    BY <1>1, <1>5, TailIsCourse
  <1>6. ASSUME u # <<>> PROVE PostsLeft(u) /\ Stage[u[1]] \in Int
    <2>1. u \in Seq(Kinds)
      BY <1>5, <1>6 DEF Course
    <2>2. u[1] \in Kinds
      <3> HIDE DEF u
      <3> QED BY <1>6, <2>1, TailElements
    <2>3. \A k \in {"tool", "rule"} : u[1] = k => t[1] = k
      <3>1. u[1] = t[2] /\ 2 \in 1..Len(t)
        BY <1>2, <1>6, TailElements
      <3> HIDE DEF u
      <3> QED BY <1>1, <3>1 DEF Course, InFront, Has
    <2>4. ASSUME u[1] = "tool" PROVE \E n \in 1..3 : Posting(u, "tool", n)
      <3>1. PICK n \in 1..3 : Posting(t, "tool", n)
        BY <1>1, <2>3, <2>4 DEF PostsLeft
      <3>2. t[1] = "tool"
        BY <2>3, <2>4
      <3>3. (n > 1 => Posting(u, "tool", n - 1)) /\ (n = 1 => u[1] # "tool")
        <4>1. n \in Nat \ {0} /\ "tool" \in {"tool", "rule"}
          OBVIOUS
        <4> QED BY <4>1, <1>1, <3>1, <3>2, PostsGetLess, Zenon
      <3> HIDE DEF u
      <3>4. n > 1 /\ n - 1 \in 1..4 /\ Posting(u, "tool", n - 1)
        BY <2>4, <3>3
      <3> QED BY <3>1, <3>4
    <2>5. ASSUME u[1] = "rule" PROVE \E n \in 1..4 : Posting(u, "rule", n)
      <3>1. PICK n \in 1..4 : Posting(t, "rule", n)
        BY <1>1, <2>3, <2>5 DEF PostsLeft
      <3>2. t[1] = "rule"
        BY <2>3, <2>5
      <3>3. (n > 1 => Posting(u, "rule", n - 1)) /\ (n = 1 => u[1] # "rule")
        <4>1. n \in Nat \ {0} /\ "rule" \in {"tool", "rule"}
          OBVIOUS
        <4> QED BY <4>1, <1>1, <3>1, <3>2, PostsGetLess, Zenon
      <3> HIDE DEF u
      <3>4. n > 1 /\ n - 1 \in 1..4 /\ Posting(u, "rule", n - 1)
        BY <2>5, <3>3
      <3> QED BY <3>1, <3>4
    <2> HIDE DEF u
    <2> QED BY <2>2, <2>4, <2>5, StageNumbers DEF PostsLeft
  <1>7. ASSUME u = <<>> PROVE t[Len(t)] = t[1]
    BY <1>2, <1>3, <1>7, TailElements
  <1> HIDE DEF u
  <1>8. u # <<>> => Stage[t[1]] <= Stage[u[1]]
                    /\ (Stage[t[1]] = Stage[u[1]] => u[1] \in {"tool", "rule"})
    BY <1>4, <1>5, <1>6
  <1>9. ASSUME u = <<>>
        PROVE  /\ t[1] \in {"call", "again", "recover", "events", "enable"}
               /\ t[1] \notin {"call", "again"} /\ s.cleanup = "enable" => t[1] = "enable"
    BY <1>1, <1>7, <1>9 DEF Course, EndsWell
  <1> QED BY <1>1, <1>3, <1>4, <1>5, <1>6, <1>8, <1>9 DEF At, s, t, u

\* What follows a request: the tail, or what is put in front of it.
LEMMA RestGoesOn ==
  ASSUME LabTypes, Courses, NEW r \in LabRunning, NEW rest,
         \/ rest = Tail(todo[r]) /\ todo[r][1] \notin {"call", "again"}
         \/ rest = Tail(todo[r]) /\ rest # <<>>
         \/ todo[r][1] = "tools" /\ rest = Times(3, "tool") \o Tail(todo[r])
         \/ todo[r][1] = "rules" /\ rest = Times(4, "rule") \o Tail(todo[r])
         \/ todo[r][1] = "recover" /\ rest = <<"events">> \o Tail(todo[r])
         \/ todo[r][1] \in {"call", "again"} /\ \E answer : rest = AfterCall(play[r], answer)
  PROVE  /\ rest # <<>> =>
              /\ Course(play[r], rest) /\ PostsLeft(rest)
              /\ At(r) <= Stage[rest[1]]
              /\ At(r) = Stage[rest[1]] => rest[1] \in {"tool", "rule"}
              /\ \A k \in Mandatory(play[r]) : At(r) < Stage[k] => Stage[rest[1]] <= Stage[k]
         /\ rest = <<>> => todo[r][1] = "enable" \/ play[r].cleanup # "enable"
  <1> DEFINE s == play[r]
             t == todo[r]
  <1>1. Course(s, t) /\ t[1] \in Kinds /\ At(r) \in Int /\ At(r) = Stage[t[1]]
    BY RestOfRun DEF At
  <1>2. s \in SCENARIOS
    BY DEF LabTypes, LabRunning
  <1>3. CASE rest = Tail(t) /\ (rest # <<>> \/ t[1] \notin {"call", "again"})
    <2> DEFINE u == Tail(t)
    <2>1. /\ u # <<>> =>
               /\ Course(s, u) /\ PostsLeft(u) /\ At(r) <= Stage[u[1]]
               /\ At(r) = Stage[u[1]] => u[1] \in {"tool", "rule"}
               /\ \A k \in Mandatory(s) : At(r) < Stage[k] => Stage[u[1]] <= Stage[k]
          /\ u = <<>> /\ t[1] \notin {"call", "again"} /\ s.cleanup = "enable" => t[1] = "enable"
      BY RestOfRun
    <2> HIDE DEF u, s, t
    <2>2. rest = u
      BY <1>3 DEF u
    <2> QED BY <1>3, <2>1, <2>2 DEF s, t
  <1>4. ASSUME NEW k, NEW n \in 3..4, rest = Times(n, k) \o Tail(t),
               (t[1] = "tools" /\ k = "tool" /\ n = 3) \/ (t[1] = "rules" /\ k = "rule" /\ n = 4)
        PROVE  /\ Course(s, rest) /\ PostsLeft(rest)
               /\ At(r) < Stage[rest[1]]
               /\ \A l \in Mandatory(s) : At(r) < Stage[l] => Stage[rest[1]] <= Stage[l]
    <2>1. n \in Nat \ {0} /\ rest = PutInFront(t, k, n)
      <3> HIDE DEF s, t
      <3>1. rest = PutInFront(t, k, n)
        BY <1>4, Zenon DEF PutInFront
      <3>2. n \in Nat \ {0}
        OBVIOUS
      <3> QED BY <3>1, <3>2
    <2>2. Course(s, t) /\ ((t[1] = "tools" /\ k = "tool" /\ n = 3)
                             \/ (t[1] = "rules" /\ k = "rule" /\ n = 4))
      BY <1>1, <1>4
    <2> HIDE <1>4
    <2>3. Course(s, rest) /\ rest[1] = k /\ Posting(rest, k, n)
      BY <2>1, <2>2, PostsInFront
    <2> HIDE DEF s, t
    <2>4. Stage[t[1]] < Stage[rest[1]]
      BY <2>2, <2>3, StageValues
    <2>5. PostsLeft(rest)
      BY <2>2, <2>3 DEF PostsLeft
    <2>6. \A l \in Mandatory(s) : Stage[t[1]] < Stage[l] => Stage[rest[1]] <= Stage[l]
      BY <2>2, <2>3, StageValues DEF Mandatory
    <2> QED BY <1>1, <2>3, <2>4, <2>5, <2>6
  <1>5. ASSUME t[1] = "recover", rest = <<"events">> \o Tail(t)
        PROVE  Course(s, rest) /\ PostsLeft(rest) /\ At(r) < Stage[rest[1]]
    <2> DEFINE u == <<"events">> \o Tail(t)
    <2>1. Course(s, u)
      BY <1>1, <1>5, EventsInFront
    <2>2. u[1] = "events"
      <3>1. Tail(t) \in Seq(Kinds)
        BY <1>1, TailElements DEF Course
      <3>2. <<"events">> \in Seq(Kinds) /\ Len(<<"events">>) = 1 /\ <<"events">>[1] = "events"
        BY StageNumbers
      <3>3. Len(Tail(t)) \in Nat
        BY <3>1
      <3> QED BY <3>1, <3>2, <3>3
    <2> HIDE DEF u, s, t
    <2>3. rest = u
      BY <1>5 DEF u
    <2>4. PostsLeft(rest)
      BY <2>2, <2>3 DEF PostsLeft
    <2>5. Stage[t[1]] = 9 /\ Stage[rest[1]] = 10
      BY <1>5, <2>2, <2>3, StageValues
    <2> QED BY <1>1, <2>1, <2>3, <2>4, <2>5
  <1>6. ASSUME NEW answer, t[1] \in {"call", "again"}, rest = AfterCall(s, answer)
        PROVE  Course(s, rest) /\ PostsLeft(rest) /\ At(r) < Stage[rest[1]]
    <2> HIDE DEF s, t
    <2>1. Course(s, rest) /\ rest[1] \in {"events", "recover"}
      BY <1>2, <1>6, AfterCallIsCourse
    <2>2. PostsLeft(rest)
      BY <2>1 DEF PostsLeft
    <2>3. Stage[t[1]] \in {7, 8} /\ Stage[rest[1]] \in {9, 10}
      BY <1>6, <2>1, StageValues
    <2> QED BY <1>1, <2>1, <2>2, <2>3
  <1>7. t[1] \in {"recover", "call", "again"} => \A k \in Mandatory(s) : ~(At(r) < Stage[k])
    BY <1>1, StageValues DEF Mandatory
  <1>8. ASSUME Course(s, rest) /\ PostsLeft(rest) /\ At(r) < Stage[rest[1]]
        PROVE  /\ rest # <<>> /\ At(r) <= Stage[rest[1]]
               /\ At(r) # Stage[rest[1]]
    <2>1. rest \in Seq(Kinds) /\ rest # <<>>
      BY <1>8 DEF Course
    <2>2. Stage[rest[1]] \in Int
      <3>1. rest[1] \in Kinds
        BY <2>1, TailElements
      <3> QED BY <3>1, StageNumbers
    <2> QED BY <1>1, <1>8, <2>1, <2>2
  <1> HIDE DEF s, t
  <1>9. CASE \/ t[1] = "tools" /\ rest = Times(3, "tool") \o Tail(t)
             \/ t[1] = "rules" /\ rest = Times(4, "rule") \o Tail(t)
    <2>1. /\ Course(s, rest) /\ PostsLeft(rest) /\ At(r) < Stage[rest[1]]
          /\ \A k \in Mandatory(s) : At(r) < Stage[k] => Stage[rest[1]] <= Stage[k]
      BY <1>4, <1>9
    <2> QED BY <1>8, <2>1 DEF s
  <1>10. CASE \/ t[1] = "recover" /\ rest = <<"events">> \o Tail(t)
              \/ t[1] \in {"call", "again"} /\ \E answer : rest = AfterCall(s, answer)
    <2>1. Course(s, rest) /\ PostsLeft(rest) /\ At(r) < Stage[rest[1]]
      BY <1>5, <1>6, <1>10
    <2> QED BY <1>8, <1>10, <1>7, <2>1 DEF s
  <1> QED BY <1>3, <1>9, <1>10 DEF s, t

\* Which of the posts is being handled.
LEMMA PostsCount ==
  ASSUME LabTypes, Courses, NEW r \in LabRunning, NEW k \in {"tool", "rule"},
         todo[r][1] = k, NEW m, m = IF k = "tool" THEN 3 ELSE 4
  PROVE  \E n \in 1..m : Posting(todo[r], k, n) /\ Posted(r, m, k) = m + 1 - n
  <1>1. PostsLeft(todo[r]) /\ Course(play[r], todo[r])
    BY RestOfRun
  <1>2. PICK n \in 1..m : Posting(todo[r], k, n)
    BY <1>1 DEF PostsLeft
  <1>3. n \in Nat \ {0}
    OBVIOUS
  <1>4. NumberLeft(todo[r], k) = n
    <2> DEFINE t == todo[r]
    <2>1. Course(play[r], t) /\ Posting(t, k, n) /\ t[1] = k
      BY <1>1, <1>2
    <2> HIDE DEF t
    <2>2. NumberLeft(t, k) = n
      BY <1>3, <2>1, PostsGetLess
    <2> QED BY <2>2 DEF t
  <1> QED BY <1>2, <1>4 DEF Posted, NumberLeft

\* What the handler of each kind does to it.
Details(r, rest, observed) ==
  LET t == todo[r]
      override == IF adapter = Default THEN None ELSE Override(play[adapter])
      on == enabled \/ play[r].tool # "github.list_issues"
      made == IF row[r].status # None THEN row[r] ELSE CallOf(play[r], tools, on, rules, override)
  IN /\ t[1] = "tools" => rest = IF tools < 3 THEN Times(3, "tool") \o Tail(t) ELSE Tail(t)
     /\ t[1] = "rules" => rest = IF rules < 1 THEN Times(4, "rule") \o Tail(t) ELSE Tail(t)
     /\ t[1] \in {"call", "again"} =>
          /\ row' = [row EXCEPT ![r] = made] /\ observed = Answer(made)
          /\ rest = IF Tail(t) # <<>> THEN Tail(t) ELSE AfterCall(play[r], made)
     /\ t[1] = "recover" =>
          IF row[r].status # None THEN rest = <<"events">> \o Tail(t) /\ observed = row[r]
          ELSE rest = Tail(t) /\ observed = seen[r]
     /\ t[1] \in {"tool", "rule", "session", "disable", "events", "enable"} =>
          rest = Tail(t) /\ observed = seen[r]
     /\ t[1] \notin {"call", "again"} => row' = row
     /\ tools' = IF t[1] = "tool" THEN Grown(tools, Posted(r, 3, "tool")) ELSE tools
     /\ rules' = IF t[1] = "rule" THEN Grown(rules, Posted(r, 4, "rule")) ELSE rules

\* The answer to every request of a run.
LEMMA HandlersAnswer ==
  ASSUME LabTypes, Courses, NEW r \in Lab, Handler(r)
  PROVE  \E rest, observed : Answered(r, rest, observed) /\ Details(r, rest, observed)
  <1> DEFINE t == todo[r]
  <1>1. r \in LabRunning /\ r \notin targets
    BY DEF Handler, CountTools, PostTool, CountRules, PostRule, OpenSession, DisableTool, Call,
           Recover, ReadEvents, EnableTool, Handling
  <1>2. Course(play[r], t) /\ Head(t) = t[1] /\ t[1] \in Kinds /\ Tail(t) \in Seq(Kinds)
    <2>1. Course(play[r], t) /\ Head(t) = t[1] /\ t[1] \in Kinds
      BY <1>1, RestOfRun
    <2> QED BY <2>1, TailElements DEF Course
  <1>3. <<>> \o Tail(t) = Tail(t)
    BY <1>2, ConcatEmptySeq
  \* The answers that leave the calls alone.
  <1>4. ASSUME NEW rest, NEW observed,
               \/ rest = Tail(t) /\ t[1] \notin {"call", "again"}
               \/ rest = Tail(t) /\ rest # <<>>
               \/ t[1] = "tools" /\ rest = Times(3, "tool") \o Tail(t)
               \/ t[1] = "rules" /\ rest = Times(4, "rule") \o Tail(t)
               \/ t[1] = "recover" /\ rest = <<"events">> \o Tail(t)
               \/ t[1] \in {"call", "again"} /\ \E answer : rest = AfterCall(play[r], answer),
               Proceed(r, rest, observed), UNCHANGED <<play, overlapped>>,
               tools' \in 0..3, rules' \in 0..4,
               enabled' = IF t[1] = "enable" THEN TRUE
                          ELSE IF t[1] = "disable" THEN FALSE ELSE enabled,
               row' = row \/ (t[1] \in {"call", "again"} /\ \E made : row' = [row EXCEPT ![r] = made])
        PROVE  Answered(r, rest, observed)
    <2>1. /\ rest # <<>> =>
               /\ Course(play[r], rest) /\ PostsLeft(rest)
               /\ At(r) <= Stage[rest[1]]
               /\ At(r) = Stage[rest[1]] => rest[1] \in {"tool", "rule"}
               /\ \A k \in Mandatory(play[r]) : At(r) < Stage[k] => Stage[rest[1]] <= Stage[k]
          /\ rest = <<>> => t[1] = "enable" \/ play[r].cleanup # "enable"
      BY <1>1, <1>4, RestGoesOn
    <2>2. DOMAIN row' = Lab /\ \A q \in Lab \ {r} : row'[q] = row[q]
      BY <1>4 DEF LabTypes
    <2>3. At(r) <= 6 => row'[r] = row[r]
      BY <1>4, StageValues DEF At
    <2> QED BY <1>1, <1>4, <2>1, <2>2, <2>3 DEF Answered
  <1>5. tools \in 0..3 /\ rules \in 0..4 /\ enabled \in BOOLEAN /\ r \in DOMAIN row
    BY DEF LabTypes
  <1>6. CASE CountTools(r)
    <2>1. t[1] = "tools"
      BY <1>2, <1>6 DEF CountTools, Handling
    <2> DEFINE rest == IF tools < 3 THEN Times(3, "tool") \o Tail(t) ELSE Tail(t)
    <2>2. Proceed(r, rest, seen[r])
      BY <1>3, <1>6 DEF CountTools
    <2>3. Answered(r, rest, seen[r])
      BY <1>4, <1>6, <1>5, <2>1, <2>2 DEF CountTools
    <2>4. Details(r, rest, seen[r])
      BY <1>6, <2>1 DEF CountTools, Details
    <2> QED BY <2>3, <2>4
  <1>7. CASE PostTool(r)
    <2>1. t[1] = "tool"
      BY <1>2, <1>7 DEF PostTool, Handling
    <2>2. tools' \in 0..3
      <3>1. Posted(r, 3, "tool") \in 1..3
        BY <1>1, <2>1, PostsCount
      <3> QED BY <1>5, <1>7, <3>1 DEF PostTool, Grown
    <2> DEFINE rest == Tail(t)
    <2>3. Proceed(r, rest, seen[r])
      BY <1>3, <1>7 DEF PostTool
    <2>4. Answered(r, rest, seen[r])
      BY <1>4, <1>7, <1>5, <2>1, <2>2, <2>3 DEF PostTool
    <2>5. Details(r, rest, seen[r])
      BY <1>7, <2>1 DEF PostTool, Details
    <2> QED BY <2>4, <2>5
  <1>8. CASE CountRules(r)
    <2>1. t[1] = "rules"
      BY <1>2, <1>8 DEF CountRules, Handling
    <2> DEFINE rest == IF rules < 1 THEN Times(4, "rule") \o Tail(t) ELSE Tail(t)
    <2>2. Proceed(r, rest, seen[r])
      BY <1>3, <1>8 DEF CountRules
    <2>3. Answered(r, rest, seen[r])
      BY <1>4, <1>8, <1>5, <2>1, <2>2 DEF CountRules
    <2>4. Details(r, rest, seen[r])
      BY <1>8, <2>1 DEF CountRules, Details
    <2> QED BY <2>3, <2>4
  <1>9. CASE PostRule(r)
    <2>1. t[1] = "rule"
      BY <1>2, <1>9 DEF PostRule, Handling
    <2>2. rules' \in 0..4
      <3>1. Posted(r, 4, "rule") \in 1..4
        BY <1>1, <2>1, PostsCount
      <3> QED BY <1>5, <1>9, <3>1 DEF PostRule, Grown
    <2> DEFINE rest == Tail(t)
    <2>3. Proceed(r, rest, seen[r])
      BY <1>3, <1>9 DEF PostRule
    <2>4. Answered(r, rest, seen[r])
      BY <1>4, <1>9, <1>5, <2>1, <2>2, <2>3 DEF PostRule
    <2>5. Details(r, rest, seen[r])
      BY <1>9, <2>1 DEF PostRule, Details
    <2> QED BY <2>4, <2>5
  <1>10. CASE OpenSession(r)
    <2>1. t[1] = "session"
      BY <1>2, <1>10 DEF OpenSession, Handling
    <2> DEFINE rest == Tail(t)
    <2>2. Proceed(r, rest, seen[r])
      BY <1>3, <1>10 DEF OpenSession
    <2>3. Answered(r, rest, seen[r])
      BY <1>4, <1>10, <1>5, <2>1, <2>2 DEF OpenSession
    <2>4. Details(r, rest, seen[r])
      BY <1>10, <2>1 DEF OpenSession, Details
    <2> QED BY <2>3, <2>4
  <1>11. CASE DisableTool(r)
    <2>1. t[1] = "disable"
      BY <1>2, <1>11 DEF DisableTool, Handling
    <2> DEFINE rest == Tail(t)
    <2>2. Proceed(r, rest, seen[r])
      BY <1>3, <1>11 DEF DisableTool
    <2>3. Answered(r, rest, seen[r])
      BY <1>4, <1>11, <1>5, <2>1, <2>2 DEF DisableTool
    <2>4. Details(r, rest, seen[r])
      BY <1>11, <2>1 DEF DisableTool, Details
    <2> QED BY <2>3, <2>4
  <1>12. CASE ReadEvents(r)
    <2>1. t[1] = "events"
      BY <1>2, <1>12 DEF ReadEvents, Handling
    <2> DEFINE rest == Tail(t)
    <2>2. Proceed(r, rest, seen[r])
      BY <1>3, <1>12 DEF ReadEvents
    <2>3. Answered(r, rest, seen[r])
      BY <1>4, <1>12, <1>5, <2>1, <2>2 DEF ReadEvents
    <2>4. Details(r, rest, seen[r])
      BY <1>12, <2>1 DEF ReadEvents, Details
    <2> QED BY <2>3, <2>4
  <1>13. CASE EnableTool(r)
    <2>1. t[1] = "enable"
      BY <1>2, <1>13 DEF EnableTool, Handling
    <2> DEFINE rest == Tail(t)
    <2>2. Proceed(r, rest, seen[r])
      BY <1>3, <1>13 DEF EnableTool
    <2>3. Answered(r, rest, seen[r])
      BY <1>4, <1>13, <1>5, <2>1, <2>2 DEF EnableTool
    <2>4. Details(r, rest, seen[r])
      BY <1>13, <2>1 DEF EnableTool, Details
    <2> QED BY <2>3, <2>4
  <1>14. CASE Call(r)
    <2>1. t[1] \in {"call", "again"}
      BY <1>2, <1>14 DEF Call, Handling
    <2> DEFINE override == IF adapter = Default THEN None ELSE Override(play[adapter])
               on == enabled \/ play[r].tool # "github.list_issues"
               made == IF row[r].status # None THEN row[r]
                       ELSE CallOf(play[r], tools, on, rules, override)
               rest == IF Tail(t) # <<>> THEN Tail(t) ELSE AfterCall(play[r], made)
    <2>2. row' = [row EXCEPT ![r] = made] /\ Proceed(r, rest, Answer(made))
      BY <1>14 DEF Call
    <2>3. UNCHANGED <<play, enabled, tools, rules, overlapped>>
      BY <1>14 DEF Call
    <2>4. Details(r, rest, Answer(made))
      BY <2>1, <2>2, <2>3 DEF Details
    <2> HIDE DEF made
    <2>5. Answered(r, rest, Answer(made))
      BY <1>4, <1>5, <2>1, <2>2, <2>3
    <2> QED BY <2>4, <2>5
  <1>15. CASE Recover(r)
    <2>1. t[1] = "recover"
      BY <1>2, <1>15 DEF Recover, Handling
    <2> DEFINE rest == IF row[r].status # None THEN <<"events">> \o Tail(t) ELSE Tail(t)
               observed == IF row[r].status # None THEN row[r] ELSE seen[r]
    <2>2. Proceed(r, rest, observed)
      BY <1>3, <1>15 DEF Recover
    <2>3. Answered(r, rest, observed)
      BY <1>4, <1>5, <1>15, <2>1, <2>2 DEF Recover
    <2>4. Details(r, rest, observed)
      BY <1>15, <2>1 DEF Recover, Details
    <2> QED BY <2>3, <2>4
  <1> QED BY <1>6, <1>7, <1>8, <1>9, <1>10, <1>11, <1>12, <1>13, <1>14, <1>15 DEF Handler

\* The run goes on with the rest.
GoesOn(r, rest) ==
  /\ accepting /\ rest # <<>>
  /\ todo' = [todo EXCEPT ![r] = rest]
  /\ \/ rest[1] = "session" /\ Install(r)
     \/ rest[1] = "enable" /\ TearDown(r)
     \/ rest[1] \notin {"session", "enable"} /\ UNCHANGED <<adapter, original>>
  /\ UNCHANGED vars /\ UNCHANGED verdict

\* The run ends.
Ends(r, rest) ==
  /\ accepting => rest = <<>>
  /\ TearDown(r) /\ Handled(r)
  /\ todo' = [todo EXCEPT ![r] = <<>>]
  /\ \E v \in {"error", "passed", "failed"} :
       verdict' = [verdict EXCEPT ![r] = v] /\ (v = "error" => ~accepting)

\* It does one or the other.
LEMMA AnswerForms ==
  ASSUME NEW r, NEW rest, NEW observed, Answered(r, rest, observed)
  PROVE  /\ GoesOn(r, rest) \/ Ends(r, rest)
         /\ \E x : seen' = [seen EXCEPT ![r] = x]
  <1>1. CASE accepting /\ rest # <<>>
    BY <1>1 DEF Answered, Proceed, GoesOn
  <1>2. CASE ~(accepting /\ rest # <<>>)
    <2> DEFINE left(kinds) == \E i \in DOMAIN rest : rest[i] \in kinds
               last == IF left({"call", "again"}) THEN Nothing(503) ELSE observed
               v == IF left({"session"}) THEN "error"
                    ELSE IF Passes(play[r], last) THEN "passed" ELSE "failed"
    <2>1. TearDown(r) /\ Conclude(r, ~left({"session"}), last)
      BY <1>2 DEF Answered, Proceed
    <2>2. /\ verdict' = [verdict EXCEPT ![r] = v] /\ Handled(r)
          /\ todo' = [todo EXCEPT ![r] = <<>>]
      BY <2>1 DEF Conclude
    <2>3. rest = <<>> => v # "error"
      OBVIOUS
    <2>4. v \in {"error", "passed", "failed"}
      OBVIOUS
    <2>5. seen' = [seen EXCEPT ![r] = last]
      BY <1>2 DEF Answered, Proceed
    <2> HIDE DEF v, last
    <2> QED BY <1>2, <2>1, <2>2, <2>3, <2>4, <2>5 DEF Ends
  <1> QED BY <1>1, <1>2

\* The tasks and the types that the runs share with the coordinator.
Inv == IInv /\ LabInv

\* A run begins.
LEMMA BeginKeepsLabInv ==
  ASSUME Inv, NEW r \in Lab, Begin(r)
  PROVE  LabInv'
  <1> USE LabAssumption
  <1>1. /\ pc[r] = "new" /\ pc' = [pc EXCEPT ![r] = "running"] /\ accepting /\ r \in Request
        /\ pc \in [Request -> {"new", "running", "sending", "done", "refused"}]
        /\ UNCHANGED <<accepting, draining, targets>>
        /\ todo' = [todo EXCEPT ![r] = Script(play[r])]
        /\ UNCHANGED <<play, adapter, original, enabled, tools, rules, row, seen, verdict>>
    BY DEF Inv, IInv, TypeOK, Begin, Accept
  <1>2. LabTypes /\ Open /\ Courses /\ Meetings /\ Restorable /\ Reenabled /\ NoErrors
    BY DEF Inv, LabInv
  <1>3. LabRunning' = LabRunning \cup {r} /\ r \notin LabRunning
    BY <1>1 DEF LabRunning, Running
  <1>4. Course(play[r], Script(play[r])) /\ Script(play[r])[1] = "tools"
    BY <1>2, ScriptIsCourse DEF LabTypes
  <1>5. Script(play[r]) \in Seq(Kinds)
    BY <1>4 DEF Course
  <1>6. LabTypes'
    BY <1>1, <1>2, <1>5 DEF LabTypes
  <1>7. Open'
    BY <1>1, <1>2 DEF Open
  <1>8. Courses'
    <2> SUFFICES ASSUME NEW q \in Lab
                 PROVE  /\ pc'[q] = "running" => Course(play[q], todo'[q]) /\ PostsLeft(todo'[q])
                        /\ original[q] # None =>
                             pc'[q] = "running" /\ Override(play[q]) # None /\ Stage[todo'[q][1]] >= 5
                        /\ pc'[q] = "new" \/ (pc'[q] = "running" /\ Stage[todo'[q][1]] <= 7)
                             => row[q].status = None
      BY <1>1 DEF Courses, At
    <2>1. CASE q = r
      <3>1. todo'[r] = Script(play[r]) /\ pc'[r] = "running"
        BY <1>1, <1>2 DEF LabTypes
      <3>2. original[r] = None /\ row[r].status = None
        BY <1>1, <1>2 DEF Courses
      <3>3. PostsLeft(Script(play[r]))
        BY <1>4 DEF PostsLeft
      <3> QED BY <1>4, <2>1, <3>1, <3>2, <3>3
    <2>2. CASE q # r
      BY <1>1, <1>2, <2>2 DEF Courses, LabTypes, At
    <2> QED BY <2>1, <2>2
  <1>9. Meetings'
    <2>1. IsFiniteSet(LabRunning')
      BY <1>2, <1>3, FS_AddElement DEF Meetings
    <2>2. IsFiniteSet(overlapped')
      <3>1. IsFiniteSet(LabRunning \cup {r}) /\ IsFiniteSet({})
        BY <1>2, FS_AddElement, FS_EmptySet DEF Meetings
      <3> QED BY <1>2, <3>1, FS_Union DEF Meetings, Begin
    <2>3. \A q, p \in LabRunning' : q # p => q \in overlapped'
      BY <1>2, <1>3 DEF Meetings, Begin
    <2> QED BY <2>1, <2>2, <2>3 DEF Meetings
  <1>10. Restorable'
    BY <1>1, <1>2 DEF Restorable, TwoReplace, Begin
  <1>11. Reenabled'
    BY <1>1, <1>2, <1>3 DEF Reenabled
  <1>12. NoErrors'
    BY <1>1, <1>2 DEF NoErrors
  <1> QED BY <1>6, <1>7, <1>8, <1>9, <1>10, <1>11, <1>12 DEF LabInv

\* Only one run that replaces the adapter has something to restore, as long as no two have
\* overlapped, and it is the one that runs.
LEMMA LoneReplacement ==
  ASSUME Courses, Meetings, ~TwoReplace, NEW r \in LabRunning, Override(play[r]) # None,
         NEW q \in Lab, original[q] # None
  PROVE  q = r
  <1>1. q \in LabRunning /\ Override(play[q]) # None
    BY LabAssumption DEF Courses, LabRunning, Running
  <1>2. q # r => q \in overlapped /\ r \in overlapped
    BY <1>1 DEF Meetings
  <1> QED BY <1>1, <1>2 DEF TwoReplace

\* A run goes on.
LEMMA GoingOnKeepsLabInv ==
  ASSUME Inv, NEW r \in Lab, NEW rest, NEW observed,
         Answered(r, rest, observed), GoesOn(r, rest)
  PROVE  LabInv'
  <1>1. LabTypes /\ Open /\ Courses /\ Meetings /\ Restorable /\ Reenabled /\ NoErrors
    BY DEF Inv, LabInv
  <1>2. /\ r \in LabRunning /\ Course(play[r], rest) /\ PostsLeft(rest)
        /\ At(r) <= Stage[rest[1]]
        /\ At(r) = Stage[rest[1]] => rest[1] \in {"tool", "rule"}
        /\ todo' = [todo EXCEPT ![r] = rest]
        /\ UNCHANGED <<accepting, tasks, pc, draining, targets, released, play, overlapped, verdict>>
    BY DEF Answered, GoesOn, vars
  <1>3. LabRunning' = LabRunning /\ DOMAIN original = Lab /\ pc[r] = "running"
    BY <1>1, <1>2 DEF LabRunning, Running, LabTypes
  <1>4. rest \in Seq(Kinds) /\ rest[1] \in Kinds
    <2>1. rest \in Seq(Kinds) /\ rest # <<>>
      BY <1>2 DEF Course
    <2> QED BY <2>1, TailElements
  <1>5. \/ rest[1] = "session" /\ Override(play[r]) # None
           /\ adapter' = r /\ original' = [original EXCEPT ![r] = adapter]
        \/ rest[1] = "enable" /\ adapter' = Restored(r) /\ original' = [original EXCEPT ![r] = None]
        \/ UNCHANGED <<adapter, original>>
    BY DEF GoesOn, Install, TearDown
  <1>6. LabTypes'
    <2>1. DOMAIN seen' = Lab
      BY <1>1, AnswerForms DEF LabTypes
    <2>2. todo' \in [Lab -> Seq(Kinds)]
      BY <1>1, <1>2, <1>4 DEF LabTypes
    <2>3. DOMAIN original' = Lab
      BY <1>3, <1>5
    <2>4. enabled' \in BOOLEAN /\ tools' \in 0..3 /\ rules' \in 0..4 /\ DOMAIN row' = Lab
      BY <1>1 DEF Answered, LabTypes
    <2> QED BY <1>1, <1>2, <2>1, <2>2, <2>3, <2>4 DEF LabTypes
  <1>7. Open'
    BY <1>1, <1>2 DEF Open
  <1>8. Stage[rest[1]] \in Int /\ At(r) \in Int
    BY <1>1, <1>2, <1>4, RestOfRun, StageNumbers
  <1>9. todo'[r] = rest /\ \A q \in Lab \ {r} : todo'[q] = todo[q]
    BY <1>1, <1>2 DEF LabTypes
  <1>10. Courses'
    <2> SUFFICES ASSUME NEW q \in Lab
                 PROVE  /\ pc[q] = "running" => Course(play[q], todo'[q]) /\ PostsLeft(todo'[q])
                        /\ original'[q] # None =>
                             pc[q] = "running" /\ Override(play[q]) # None /\ Stage[todo'[q][1]] >= 5
                        /\ pc[q] = "new" \/ (pc[q] = "running" /\ Stage[todo'[q][1]] <= 7)
                             => row'[q].status = None
      BY <1>2 DEF Courses, At
    <2>1. CASE q = r
      <3>1. original'[r] # None => Override(play[r]) # None /\ Stage[rest[1]] >= 5
        <4>1. CASE rest[1] = "session" /\ Override(play[r]) # None
          BY <4>1, StageValues
        <4>2. CASE original'[r] = None
          BY <4>2
        <4>3. CASE original' = original
          BY <1>1, <1>2, <1>8, <4>3 DEF Courses
        <4> QED BY <1>3, <1>5, <4>1, <4>2, <4>3
      <3>2. Stage[rest[1]] <= 7 => row'[r].status = None
        <4>1. Stage[rest[1]] <= 7 => At(r) <= 6
          <5>1. rest[1] \in {"tool", "rule"} => Stage[rest[1]] <= 6
            BY StageValues
          <5> QED BY <1>2, <1>8, <5>1
        <4>2. At(r) <= 6 => row'[r] = row[r] /\ row[r].status = None
          BY <1>1, <1>3, <1>8 DEF Answered, Courses
        <4> QED BY <4>1, <4>2
      <3> QED BY <1>2, <1>3, <1>9, <2>1, <3>1, <3>2
    <2>2. CASE q # r
      <3>1. todo'[q] = todo[q] /\ original'[q] = original[q] /\ row'[q] = row[q]
        BY <1>3, <1>5, <1>9, <2>2 DEF Answered
      <3> QED BY <1>1, <3>1 DEF Courses, At
    <2> QED BY <2>1, <2>2
  <1>11. Meetings'
    BY <1>1, <1>2, <1>3 DEF Meetings
  <1>12. Restorable'
    <2> SUFFICES ASSUME ~TwoReplace
                 PROVE  /\ \A q \in Lab : original'[q] # None => original'[q] = Default /\ adapter' = q
                        /\ adapter' # Default => adapter' \in Lab /\ original'[adapter'] # None
      BY <1>2 DEF Restorable, TwoReplace
    <2>1. /\ \A q \in Lab : original[q] # None => original[q] = Default /\ adapter = q
          /\ adapter # Default => adapter \in Lab /\ original[adapter] # None
      BY <1>1 DEF Restorable
    <2>2. CASE /\ rest[1] = "session" /\ Override(play[r]) # None
               /\ adapter' = r /\ original' = [original EXCEPT ![r] = adapter]
      <3>1. original[r] = None
        <4>1. Stage[rest[1]] = 5 /\ rest[1] \notin {"tool", "rule"}
          BY <2>2, StageValues
        <4>2. At(r) < 5
          BY <1>2, <1>8, <4>1
        <4> QED BY <1>1, <1>8, <4>2 DEF Courses
      <3>2. \A q \in Lab : original[q] = None
        BY <1>1, <1>2, <2>2, <3>1, LoneReplacement
      <3>3. adapter = Default
        BY <2>1, <3>2
      <3> QED BY <1>3, <2>2, <3>2, <3>3 DEF Default, None
    <2>3. CASE adapter' = Restored(r) /\ original' = [original EXCEPT ![r] = None]
      BY <1>3, <2>1, <2>3 DEF Restored
    <2> QED BY <1>5, <2>1, <2>2, <2>3
  <1>13. Reenabled'
    <2> SUFFICES ASSUME draining = "no", ~enabled'
                 PROVE  \E q \in LabRunning : play[q].cleanup = "enable"
      BY <1>2, <1>3 DEF Reenabled
    <2>1. CASE todo[r][1] = "disable"
      <3>1. Course(play[r], todo[r])
        BY <1>1, <1>2, RestOfRun
      <3>2. Has(todo[r], "disable")
        <4>1. Len(todo[r]) \in Nat \ {0}
          BY <3>1, TailElements DEF Course
        <4> QED BY <2>1, <4>1 DEF Has
      <3>3. play[r] \in SCENARIOS
        BY <1>1 DEF LabTypes
      <3> QED BY <1>2, <3>1, <3>2, <3>3, DisableCleansUp DEF Course
    <2>2. CASE todo[r][1] # "disable"
      BY <1>1, <2>2 DEF Answered, Reenabled
    <2> QED BY <2>1, <2>2
  <1>14. NoErrors'
    BY <1>1, <1>2 DEF NoErrors
  <1> QED BY <1>6, <1>7, <1>10, <1>11, <1>12, <1>13, <1>14 DEF LabInv

\* A run ends, by itself or because it is cut.
LEMMA StoppingKeepsLabInv ==
  ASSUME Inv, NEW r \in LabRunning, TearDown(r), Handled(r),
         todo' = [todo EXCEPT ![r] = <<>>], UNCHANGED <<play, overlapped>>,
         tools' \in 0..3, rules' \in 0..4, enabled' \in BOOLEAN, DOMAIN seen' = Lab,
         DOMAIN row' = Lab, \A q \in Lab \ {r} : row'[q] = row[q],
         verdict' \in [Lab -> {None, "error", "passed", "failed"}],
         draining = "no" =>
           /\ enabled' = TRUE \/ (enabled' = enabled /\ play[r].cleanup # "enable")
           /\ \A q \in Lab : verdict'[q] = "error" => verdict[q] = "error"
  PROVE  LabInv'
  <1>1. LabTypes /\ Open /\ Courses /\ Meetings /\ Restorable /\ Reenabled /\ NoErrors
    BY DEF Inv, LabInv
  <1>2. /\ r \in Lab /\ pc' = [pc EXCEPT ![r] = "sending"]
        /\ UNCHANGED <<accepting, draining, targets>>
        /\ pc \in [Request -> {"new", "running", "sending", "done", "refused"}]
    BY DEF Handled, Inv, IInv, TypeOK
  <1>3. LabRunning' = LabRunning \ {r}
    BY <1>2, LabAssumption DEF LabRunning, Running
  <1>4. /\ adapter' = Restored(r) /\ original' = [original EXCEPT ![r] = None]
        /\ DOMAIN original = Lab
    BY <1>1 DEF TearDown, LabTypes
  <1>5. LabTypes'
    <2>1. <<>> \in Seq(Kinds)
      BY EmptySeq
    <2>2. todo' \in [Lab -> Seq(Kinds)]
      BY <1>1, <2>1 DEF LabTypes
    <2> QED BY <1>1, <1>4, <2>2 DEF LabTypes
  <1>6. Open'
    BY <1>1, <1>2 DEF Open
  <1>7. Courses'
    <2> SUFFICES ASSUME NEW q \in Lab
                 PROVE  /\ pc'[q] = "running" => Course(play[q], todo'[q]) /\ PostsLeft(todo'[q])
                        /\ original'[q] # None =>
                             pc'[q] = "running" /\ Override(play[q]) # None /\ Stage[todo'[q][1]] >= 5
                        /\ pc'[q] = "new" \/ (pc'[q] = "running" /\ Stage[todo'[q][1]] <= 7)
                             => row'[q].status = None
      BY DEF Courses, At
    <2>1. CASE q = r
      <3>1. pc'[q] = "sending"
        BY <1>2, <2>1, LabAssumption
      <3>2. original'[q] = None
        BY <1>4, <2>1
      <3> QED BY <3>1, <3>2
    <2>2. CASE q # r
      <3>1. todo'[q] = todo[q] /\ original'[q] = original[q] /\ row'[q] = row[q] /\ pc'[q] = pc[q]
        BY <1>1, <1>2, <1>4, <2>2, LabAssumption DEF LabTypes
      <3> QED BY <1>1, <3>1 DEF Courses, At
    <2> QED BY <2>1, <2>2
  <1>8. Meetings'
    <2>1. IsFiniteSet(LabRunning')
      BY <1>1, <1>3, FS_Subset DEF Meetings
    <2> QED BY <1>1, <1>3, <2>1 DEF Meetings
  <1>9. Restorable'
    <2> SUFFICES ASSUME ~TwoReplace
                 PROVE  /\ \A q \in Lab : original'[q] # None => original'[q] = Default /\ adapter' = q
                        /\ adapter' # Default => adapter' \in Lab /\ original'[adapter'] # None
      BY DEF Restorable, TwoReplace
    <2>1. /\ \A q \in Lab : original[q] # None => original[q] = Default /\ adapter = q
          /\ adapter # Default => adapter \in Lab /\ original[adapter] # None
      BY <1>1 DEF Restorable
    <2> QED BY <1>2, <1>4, <2>1 DEF Restored
  <1>10. Reenabled'
    BY <1>1, <1>2, <1>3 DEF Reenabled
  <1>11. NoErrors'
    BY <1>1, <1>2 DEF NoErrors
  <1> QED BY <1>5, <1>6, <1>7, <1>8, <1>9, <1>10, <1>11 DEF LabInv

\* A run ends with an answer.
LEMMA EndingKeepsLabInv ==
  ASSUME Inv, NEW r \in Lab, NEW rest, NEW observed,
         Answered(r, rest, observed), Ends(r, rest)
  PROVE  LabInv'
  <1>1. LabTypes /\ Open /\ Courses
    BY DEF Inv, LabInv
  <1>2. r \in LabRunning /\ UNCHANGED <<play, overlapped>>
    BY DEF Answered
  <1>3. PICK v \in {"error", "passed", "failed"} :
          verdict' = [verdict EXCEPT ![r] = v] /\ (v = "error" => ~accepting)
    BY DEF Ends
  <1>4. /\ verdict' \in [Lab -> {None, "error", "passed", "failed"}]
        /\ \A q \in Lab : draining = "no" /\ verdict'[q] = "error" => verdict[q] = "error"
    BY <1>1, <1>3 DEF LabTypes, Open
  <1>5. draining = "no" => enabled' = TRUE \/ (enabled' = enabled /\ play[r].cleanup # "enable")
    <2> SUFFICES ASSUME draining = "no"
                 PROVE  enabled' = TRUE \/ (enabled' = enabled /\ play[r].cleanup # "enable")
      OBVIOUS
    <2>1. todo[r][1] = "enable" \/ play[r].cleanup # "enable"
      BY <1>1 DEF Open, Ends, Answered
    <2>2. todo[r][1] = "disable" => play[r].cleanup = "enable"
      <3>1. Course(play[r], todo[r])
        BY <1>1, <1>2, RestOfRun
      <3>2. todo[r][1] = "disable" => Has(todo[r], "disable")
        <4>1. Len(todo[r]) \in Nat \ {0}
          BY <3>1, TailElements DEF Course
        <4> QED BY <4>1 DEF Has
      <3>3. play[r] \in SCENARIOS
        BY <1>1 DEF LabTypes
      <3> QED BY <3>1, <3>2, <3>3, DisableCleansUp DEF Course
    <2> QED BY <2>1, <2>2 DEF Answered
  <1>6. DOMAIN seen' = Lab /\ enabled' \in BOOLEAN
    BY <1>1, AnswerForms DEF LabTypes, Answered
  <1>7. /\ tools' \in 0..3 /\ rules' \in 0..4
        /\ DOMAIN row' = Lab /\ \A q \in Lab \ {r} : row'[q] = row[q]
    BY DEF Answered
  <1>8. TearDown(r) /\ Handled(r) /\ todo' = [todo EXCEPT ![r] = <<>>]
    BY DEF Ends
  <1> QED BY <1>2, <1>4, <1>5, <1>6, <1>7, <1>8, StoppingKeepsLabInv

\* A run is cut.
LEMMA CutKeepsLabInv ==
  ASSUME Inv, NEW r \in Lab, Cut(r)
  PROVE  LabInv'
  <1>1. LabTypes /\ Open /\ Courses
    BY DEF Inv, LabInv
  <1>2. r \in LabRunning /\ draining # "no"
    BY <1>1 DEF Cut, Open
  <1>3. Head(todo[r]) = todo[r][1]
    BY <1>1, <1>2, RestOfRun
  <1>4. tools' \in 0..3
    <2>1. todo[r][1] = "tool" => Posted(r, 3, "tool") \in 1..3
      BY <1>1, <1>2, PostsCount
    <2> QED BY <1>1, <1>3, <2>1 DEF Cut, Grown, LabTypes
  <1>5. rules' \in 0..4
    <2>1. todo[r][1] = "rule" => Posted(r, 4, "rule") \in 1..4
      BY <1>1, <1>2, PostsCount
    <2> QED BY <1>1, <1>3, <2>1 DEF Cut, Grown, LabTypes
  <1>6. enabled' \in BOOLEAN
    BY <1>1 DEF Cut, LabTypes
  <1>7. /\ TearDown(r) /\ Handled(r) /\ todo' = [todo EXCEPT ![r] = <<>>]
        /\ UNCHANGED <<play, row, seen, verdict, overlapped>>
    BY DEF Cut
  <1> QED BY <1>1, <1>2, <1>4, <1>5, <1>6, <1>7, StoppingKeepsLabInv DEF LabTypes

\* A step of a run.
LEMMA RunKeepsLabInv ==
  ASSUME Inv, NEW r \in Lab, Run(r)
  PROVE  LabInv'
  <1>1. CASE Handler(r)
    <2>1. LabTypes /\ Courses
      BY DEF Inv, LabInv
    <2>2. PICK rest, observed : Answered(r, rest, observed)
      BY <1>1, <2>1, HandlersAnswer
    <2> QED BY <2>2, AnswerForms, GoingOnKeepsLabInv, EndingKeepsLabInv
  <1> QED BY <1>1, BeginKeepsLabInv, CutKeepsLabInv DEF Run, Handler

\* A request that is no run, and the lifespan handler, leave the runs alone.
LEMMA OtherKeepsLabInv ==
  ASSUME Inv, (\E r \in Request : Other(r)) \/ Lifespan, UNCHANGED lab
  PROVE  LabInv'
  <1>1. LabTypes /\ Open /\ Courses /\ Meetings /\ Restorable /\ Reenabled /\ NoErrors
    BY DEF Inv, LabInv
  <1>2. /\ \A r \in Lab : /\ pc'[r] = "running" <=> pc[r] = "running"
                          /\ pc'[r] = "new" => pc[r] = "new"
        /\ draining' = "no" => draining = "no" /\ UNCHANGED <<accepting, targets>>
    <2> USE LabAssumption DEF Inv, IInv, TypeOK
    <2>1. ASSUME NEW r \in Request, r \notin Lab /\ Accept(r)
          PROVE  /\ \A q \in Lab : pc'[q] = pc[q]
                 /\ UNCHANGED <<accepting, draining, targets>>
      BY <2>1 DEF Accept
    <2>2. ASSUME NEW r \in Request, Refuse(r)
          PROVE  /\ \A q \in Lab : /\ pc'[q] = "running" <=> pc[q] = "running"
                                   /\ pc'[q] = "new" => pc[q] = "new"
                 /\ UNCHANGED <<accepting, draining, targets>>
      BY <2>2 DEF Refuse
    <2>3. ASSUME NEW r \in Request, Leave(r)
          PROVE  /\ \A q \in Lab : /\ pc'[q] = "running" <=> pc[q] = "running"
                                   /\ pc'[q] = "new" => pc[q] = "new"
                 /\ UNCHANGED <<accepting, draining, targets>>
      BY <2>3 DEF Leave
    <2>4. CASE Lifespan
      BY <2>4 DEF Lifespan, BeginDrain, Drained, GraceExpires, Gathered, Release
    <2> QED BY <2>1, <2>2, <2>3, <2>4 DEF Other
  <1>3. LabRunning' = LabRunning
    BY <1>2, LabAssumption DEF LabRunning, Running
  <1>4. LabTypes' /\ Meetings' /\ Restorable'
    BY <1>1, <1>3 DEF lab, LabTypes, Meetings, Restorable, TwoReplace
  <1>5. Courses'
    BY <1>1, <1>2 DEF lab, Courses, At
  <1>6. Open' /\ Reenabled' /\ NoErrors'
    BY <1>1, <1>2, <1>3 DEF lab, Open, Reenabled, NoErrors
  <1> QED BY <1>4, <1>5, <1>6 DEF LabInv

\* The invariant of the runs.
THEOREM LabInvariance == LabSpec => [](IInv /\ LabInv)
  <1>1. LabInit => Inv
    <2> SUFFICES ASSUME LabInit PROVE LabInv
      BY InitIInv DEF LabInit, Inv
    <2>1. LabTypes
      <3>1. \A r \in Lab : <<>> \in Seq(Kinds)
        BY EmptySeq
      <3> QED BY <3>1 DEF LabInit, LabTypes
    <2>2. Running = {} /\ LabRunning = {}
      BY DEF LabInit, Init, Running, LabRunning
    <2>3. Courses
      BY LabAssumption DEF LabInit, Init, Courses, Nothing, Record
    <2>4. Meetings
      BY <2>2, FS_EmptySet DEF LabInit, Meetings
    <2> QED BY <2>1, <2>3, <2>4
            DEF LabInit, Init, LabInv, Open, Restorable, Reenabled, NoErrors, Default, None
  <1>2. Inv /\ [LabNext]_<<vars, lab>> => Inv'
    <2> SUFFICES ASSUME Inv, [LabNext]_<<vars, lab>> PROVE Inv'
      OBVIOUS
    <2>1. IInv'
      <3>1. [Next]_vars
        BY RunSteps, LabAssumption DEF LabNext, Other, Next
      <3>2. CASE Next
        BY <3>2, RequestKeepsIInv, LifespanKeepsIInv DEF Next, Inv
      <3>3. CASE UNCHANGED vars
        BY <3>3 DEF Inv, IInv, TypeOK, LabSends, Closed, Waited, Ordered, Running, InFlight, vars
      <3> QED BY <3>1, <3>2, <3>3
    <2>2. LabInv'
      <3>1. CASE \E r \in Lab : Run(r)
        BY <3>1, RunKeepsLabInv
      <3>2. CASE ((\E r \in Request : Other(r)) \/ Lifespan) /\ UNCHANGED lab
        BY <3>2, OtherKeepsLabInv
      <3>3. CASE UNCHANGED <<vars, lab>>
        BY <3>3 DEF Inv, LabInv, LabTypes, Open, Courses, Meetings, Restorable, TwoReplace,
             Reenabled, NoErrors, At, LabRunning, Running, vars, lab
      <3> QED BY <3>1, <3>2, <3>3 DEF LabNext
    <2> QED BY <2>1, <2>2 DEF Inv
  <1> QED BY <1>1, <1>2, PTL DEF LabSpec, Inv

\* Nothing of a run is left when it has ended, unless two that replace the adapter have overlapped
\* or the shutdown refused the cleanup.
THEOREM LabRunsCleanUp == LabSpec => []LabCleansUp
  <1>1. IInv /\ LabInv => LabCleansUp
    <2> SUFFICES ASSUME LabInv, LabRunning = {}
                 PROVE  /\ adapter # Default =>
                             Cardinality({r \in overlapped : Override(play[r]) # None}) >= 2
                        /\ ~enabled => draining # "no"
      BY DEF LabCleansUp
    <2>1. Courses /\ Meetings /\ Restorable /\ Reenabled
      BY DEF LabInv
    <2>2. ~enabled => draining # "no"
      BY <2>1 DEF Reenabled
    <2>3. ASSUME adapter # Default PROVE TwoReplace
      <3>1. \A r \in Lab : original[r] = None
        BY <2>1, LabAssumption DEF Courses, LabRunning, Running
      <3> QED BY <2>1, <2>3, <3>1 DEF Restorable
    <2>4. ASSUME TwoReplace
          PROVE  Cardinality({r \in overlapped : Override(play[r]) # None}) >= 2
      <3> DEFINE S == {r \in overlapped : Override(play[r]) # None}
      <3>1. PICK p, q \in S : p # q
        BY <2>4 DEF TwoReplace
      <3>2. IsFiniteSet(S)
        BY <2>1, FS_Subset DEF Meetings
      <3> HIDE DEF S
      <3>3. Cardinality(S) \in Nat /\ Cardinality({}) = 0 /\ IsFiniteSet({})
        BY <3>2, FS_CardinalityType, FS_EmptySet
      <3>4. Cardinality({p}) = 1 /\ IsFiniteSet({p})
        BY FS_Singleton
      <3>5. Cardinality({p} \cup {q}) = 2
        BY <3>1, <3>4, FS_AddElement
      <3>6. Cardinality({p} \cup {q}) <= Cardinality(S)
        BY <3>1, <3>2, FS_Subset
      <3>7. Cardinality(S) >= 2
        BY <3>3, <3>5, <3>6
      <3> QED BY <3>7 DEF S
    <2> QED BY <2>2, <2>3, <2>4
  <1> QED BY <1>1, LabInvariance, PTL

-----------------------------------------------------------------------------
(* A run that is alone                                                     *)

\* No two runs have overlapped, and drain has not begun.
Lone == overlapped = {} /\ draining = "no"

\* The seed is in place by the time it is needed.
Prepared(r) ==
  /\ todo[r][1] = "tool" => \E n \in 1..3 : Posting(todo[r], "tool", n) /\ tools >= 3 - n
  /\ At(r) >= 3 => tools = 3
  /\ todo[r][1] = "rule" => \E n \in 1..4 : Posting(todo[r], "rule", n) /\ rules = 4 - n
  /\ At(r) >= 5 => rules >= 1

\* The tool is as the setup leaves it, and the adapter is the one that the run asks for.
Placed(r) ==
  /\ At(r) <= 6 => enabled
  /\ At(r) \in 7..10 => (enabled <=> play[r].setup # "disable")
  /\ At(r) \in 5..10 => adapter = IF Override(play[r]) = None THEN Default ELSE r

\* The call is the one that the scenario was written for, and the run has seen what there is to see.
Recorded(r) ==
  rules = 4 =>
    /\ At(r) >= 8 => row[r] = Made(play[r])
    /\ todo[r][1] = "recover" =>
         seen[r] = Answer(Made(play[r])) /\ Made(play[r]).http \notin {200, 403}
    /\ todo[r][1] \in {"events", "enable"} => seen[r] = Observed(play[r])

\* A run that has failed found a seed that was cut short, and nobody completes it.
Judged ==
  \A q \in Lab : verdict[q] = "failed" =>
    \/ Untimed(play[q])
    \/ rules \in 1..3 /\ \A r \in LabRunning : todo[r][1] # "rule"

LoneInv == Lone => Judged /\ \A r \in LabRunning : Prepared(r) /\ Placed(r) /\ Recorded(r)

\* Whoever runs is alone.
LEMMA OnlyOneRuns ==
  ASSUME Meetings, Lone, NEW r \in LabRunning
  PROVE  LabRunning = {r}
  BY DEF Meetings, Lone

\* What was placed stays in place as a run goes on.
LEMMA StaysPlaced ==
  ASSUME Inv, LoneInv, Lone, NEW r \in LabRunning, NEW rest, NEW observed,
         Answered(r, rest, observed), GoesOn(r, rest)
  PROVE  Placed(r)'
  <1>1. LabTypes /\ Open /\ Courses /\ Meetings /\ Restorable /\ Reenabled /\ NoErrors
    BY DEF Inv, LabInv
  <1>2. Placed(r) /\ LabRunning = {r} /\ r \in Lab
    BY <1>1, OnlyOneRuns DEF LoneInv, LabRunning
  <1>3. /\ Course(play[r], rest) /\ Course(play[r], todo[r])
        /\ At(r) <= Stage[rest[1]]
        /\ At(r) = Stage[rest[1]] => rest[1] \in {"tool", "rule"}
        /\ \A k \in Mandatory(play[r]) : At(r) < Stage[k] => Stage[rest[1]] <= Stage[k]
        /\ todo'[r] = rest /\ UNCHANGED play
    BY <1>1, <1>2, RestOfRun DEF Answered, GoesOn, LabTypes
  <1>4. rest[1] \in Kinds /\ todo[r][1] \in Kinds /\ Stage[rest[1]] \in Int /\ At(r) \in Int
    <2>1. rest[1] \in Kinds
      BY <1>3, TailElements DEF Course
    <2>2. todo[r][1] \in Kinds
      BY <1>1, RestOfRun
    <2> QED BY <2>1, <2>2, StageNumbers DEF At
  <1>5. At(r)' = Stage[rest[1]]
    BY <1>3 DEF At
  <1>6. enabled' = IF At(r) = 11 THEN TRUE ELSE IF At(r) = 6 THEN FALSE ELSE enabled
    <2>1. (todo[r][1] = "enable" <=> At(r) = 11) /\ (todo[r][1] = "disable" <=> At(r) = 6)
      BY <1>4, StageNumbers, StageValues DEF At
    <2> QED BY <2>1 DEF Answered
  <1>7. At(r) = Stage[rest[1]] => At(r) \in {2, 4}
    BY <1>3, StageValues
  <1>8. Stage[rest[1]] <= 6 => enabled'
    BY <1>2, <1>3, <1>4, <1>6, <1>7 DEF Placed
  <1>9. Stage[rest[1]] \in 7..10 => (enabled' <=> play[r].setup # "disable")
    <2>1. CASE At(r) \in 7..10
      BY <1>2, <1>6, <2>1 DEF Placed
    <2>2. CASE At(r) = 6
      <3>1. todo[r][1] = "disable"
        BY <1>4, <2>2, StageNumbers, StageValues DEF At
      <3>2. Has(todo[r], "disable")
        <4>1. Len(todo[r]) \in Nat \ {0}
          BY <1>3, TailElements DEF Course
        <4> QED BY <3>1, <4>1 DEF Has
      <3>3. play[r].setup = "disable"
        BY <1>3, <3>2 DEF Course
      <3> QED BY <1>6, <2>2, <3>3
    <2>3. CASE At(r) < 6
      <3>1. play[r].setup = "disable" => Stage[rest[1]] <= 6
        BY <1>3, <2>3, StageValues DEF Mandatory
      <3> QED BY <1>2, <1>4, <1>6, <2>3, <3>1 DEF Placed
    <2> QED BY <1>3, <1>4, <2>1, <2>2, <2>3
  <1>10. Stage[rest[1]] \in 5..10 =>
           adapter' = IF Override(play[r]) = None THEN Default ELSE r
    <2> SUFFICES ASSUME Stage[rest[1]] \in 5..10
                 PROVE  adapter' = IF Override(play[r]) = None THEN Default ELSE r
      OBVIOUS
    <2>1. CASE rest[1] = "session"
      <3>1. At(r) < 5
        BY <1>3, <1>4, <1>7, <2>1, StageValues
      <3>2. \A q \in Lab : original[q] = None
        BY <1>1, <1>2, <1>4, <3>1, LabAssumption DEF Courses, LabRunning, Running
      <3>3. adapter = Default
        BY <1>1, <3>2 DEF Restorable, TwoReplace, Lone
      <3>4. Install(r)
        BY <2>1 DEF GoesOn
      <3> QED BY <3>3, <3>4 DEF Install
    <2>2. CASE rest[1] # "session"
      <3>1. rest[1] # "enable"
        BY StageValues
      <3>2. adapter' = adapter
        BY <2>2, <3>1 DEF GoesOn
      <3>3. Stage[rest[1]] # 5
        BY <1>4, <2>2, StageNumbers, StageValues
      <3>4. At(r) >= 5
        <4>1. At(r) < 5 => Stage[rest[1]] <= 5
          BY <1>3, StageValues DEF Mandatory
        <4> QED BY <1>4, <3>3, <4>1
      <3> QED BY <1>2, <1>3, <1>4, <3>2, <3>4 DEF Placed
    <2> QED BY <2>1, <2>2
  <1> QED BY <1>3, <1>5, <1>8, <1>9, <1>10 DEF Placed

\* The seed is prepared step by step.
LEMMA StaysPrepared ==
  ASSUME Inv, LoneInv, Lone, NEW r \in LabRunning, NEW rest, NEW observed,
         Answered(r, rest, observed), Details(r, rest, observed), GoesOn(r, rest)
  PROVE  /\ Prepared(r)'
         /\ rules' # rules => todo[r][1] = "rule"
         /\ rest[1] = "rule" => todo[r][1] = "rule" \/ rules = 0
         /\ At(r) >= 5 => rules' = rules /\ rules \in 1..4 /\ tools = 3
  <1> DEFINE t == todo[r]
  <1>1. LabTypes /\ Open /\ Courses /\ Meetings /\ Prepared(r) /\ r \in Lab
    BY DEF Inv, LabInv, LoneInv, LabRunning
  <1>2. /\ Course(play[r], rest) /\ Course(play[r], t)
        /\ At(r) <= Stage[rest[1]]
        /\ At(r) = Stage[rest[1]] => rest[1] \in {"tool", "rule"}
        /\ \A k \in Mandatory(play[r]) : At(r) < Stage[k] => Stage[rest[1]] <= Stage[k]
        /\ todo'[r] = rest
    BY <1>1, RestOfRun DEF Answered, GoesOn, LabTypes
  <1>3. rest[1] \in Kinds /\ t[1] \in Kinds /\ Stage[rest[1]] \in Int /\ At(r) \in Int
    <2>1. rest[1] \in Kinds
      BY <1>2, TailElements DEF Course
    <2>2. t[1] \in Kinds
      BY <1>1, RestOfRun
    <2> QED BY <2>1, <2>2, StageNumbers DEF At
  <1>4. /\ tools' = IF t[1] = "tool" THEN Grown(tools, Posted(r, 3, "tool")) ELSE tools
        /\ rules' = IF t[1] = "rule" THEN Grown(rules, Posted(r, 4, "rule")) ELSE rules
    BY DEF Details
  <1>5. tools \in 0..3 /\ rules \in 0..4
    BY <1>1 DEF LabTypes
  <1>6. At(r)' = Stage[rest[1]] /\ At(r) = Stage[t[1]]
    BY <1>2 DEF At
  <1>7. Course(play[r], t)
    BY <1>2
  <1>8. ASSUME NEW k, NEW n \in 3..4, rest = Times(n, k) \o Tail(t),
               (t[1] = "tools" /\ k = "tool" /\ n = 3) \/ (t[1] = "rules" /\ k = "rule" /\ n = 4)
        PROVE  rest[1] = k /\ Posting(rest, k, n)
    <2>1. n \in Nat \ {0} /\ rest = PutInFront(t, k, n)
      BY <1>8 DEF PutInFront
    <2>2. (t[1] = "tools" /\ k = "tool") \/ (t[1] = "rules" /\ k = "rule")
      BY <1>8
    <2> HIDE <1>8
    <2> QED BY <1>7, <2>1, <2>2, PostsInFront
  <1>9. ASSUME NEW k \in {"tool", "rule"}, t[1] = k, rest = Tail(t), NEW n \in 1..4,
                Posting(t, k, n)
         PROVE  (n # 1 => Posting(rest, k, n - 1) /\ rest[1] = k) /\ (n = 1 => rest[1] # k)
    <2> DEFINE u == Tail(t)
    <2>1. n \in Nat \ {0}
      OBVIOUS
    <2>2. (n > 1 => Posting(u, k, n - 1) /\ u[1] = k) /\ (n = 1 => u[1] # k)
      BY <1>9, <1>7, <2>1, PostsGetLess, Zenon
    <2> HIDE DEF u
    <2>3. rest = u
      BY <1>9 DEF u
    <2> QED BY <2>1, <2>2, <2>3
  <1>10. ASSUME NEW k \in {"tool", "rule"}, t[1] = k, NEW n \in 1..4, NEW m \in 1..4,
                Posting(t, k, n), Posting(t, k, m)
         PROVE  n = m
    <2>1. n \in Nat \ {0} /\ m \in Nat \ {0}
      OBVIOUS
    <2>2. \A i \in {n, m} : NumberLeft(t, k) = i
      <3> SUFFICES ASSUME NEW i \in {n, m} PROVE NumberLeft(t, k) = i
        OBVIOUS
      <3>1. i \in Nat \ {0} /\ Posting(t, k, i)
        BY <1>10, <2>1
      <3> HIDE DEF t
      <3> QED BY <1>10, <1>7, <3>1, PostsGetLess, Zenon
    <2>3. NumberLeft(t, k) = n /\ NumberLeft(t, k) = m
      BY <2>2
    <2> QED BY <2>3
  \* A post comes after a post of its kind, or when the seed is found missing.
  <1>11. \A k \in {"tool", "rule"} : rest[1] = k =>
          \/ t[1] = k /\ rest = Tail(t)
          \/ t[1] = "tools" /\ k = "tool" /\ tools < 3 /\ rest = Times(3, "tool") \o Tail(t)
          \/ t[1] = "rules" /\ k = "rule" /\ rules < 1 /\ rest = Times(4, "rule") \o Tail(t)
    <2> SUFFICES ASSUME NEW k \in {"tool", "rule"}, rest[1] = k
                 PROVE  \/ t[1] = k /\ rest = Tail(t)
                        \/ t[1] = "tools" /\ k = "tool" /\ tools < 3
                             /\ rest = Times(3, "tool") \o Tail(t)
                        \/ t[1] = "rules" /\ k = "rule" /\ rules < 1
                             /\ rest = Times(4, "rule") \o Tail(t)
      OBVIOUS
    <2>1. CASE rest = Tail(t)
      <3>1. rest[1] = t[2] /\ 2 \in 1..Len(t)
        BY <1>2, <2>1, TailElements DEF Course
      <3>2. t[1] = k
        BY <1>2, <3>1 DEF Course, InFront, Has
      <3> QED BY <2>1, <3>2
    <2>2. At(r) <= 4
      <3>1. Stage[rest[1]] \in {2, 4}
        BY StageValues
      <3> QED BY <1>2, <1>3, <3>1
    <2>3. t[1] \in {"tools", "tool", "rules", "rule"}
      BY <1>3, <1>6, <2>2, StageNumbers, StageValues
    <2>4. CASE t[1] = "tools" /\ tools < 3
      <3>1. rest = Times(3, "tool") \o Tail(t)
        BY <2>4 DEF Details
      <3>2. rest[1] = "tool"
        BY <1>8, <2>4, <3>1
      <3> QED BY <2>4, <3>1, <3>2
    <2>5. CASE t[1] = "rules" /\ rules < 1
      <3>1. rest = Times(4, "rule") \o Tail(t)
        BY <2>5 DEF Details
      <3>2. rest[1] = "rule"
        BY <1>8, <2>5, <3>1
      <3> QED BY <2>5, <3>1, <3>2
    <2> QED BY <2>1, <2>3, <2>4, <2>5 DEF Details
  <1>12. ASSUME rest[1] = "tool"
        PROVE  \E n \in 1..3 : Posting(rest, "tool", n) /\ tools' >= 3 - n
    <2>1. CASE t[1] = "tools" /\ tools < 3 /\ rest = Times(3, "tool") \o Tail(t)
      <3>1. Posting(rest, "tool", 3)
        BY <1>8, <2>1
      <3>2. tools' >= 3 - 3
        BY <1>4, <1>5, <2>1
      <3> QED BY <3>1, <3>2
    <2>2. CASE t[1] = "tool" /\ rest = Tail(t)
      <3>1. PICK n \in 1..3 : Posting(t, "tool", n) /\ Posted(r, 3, "tool") = 3 + 1 - n
        BY <1>1, <2>2, PostsCount
      <3>2. n # 1 /\ Posting(rest, "tool", n - 1)
        BY <1>2, <1>12, <1>9, <2>2, <3>1
      <3>3. tools' >= 3 - (n - 1)
        BY <1>4, <1>5, <2>2, <3>1 DEF Grown
      <3> QED BY <3>1, <3>2, <3>3
    <2> QED BY <1>11, <1>12, <2>1, <2>2
  <1>13. ASSUME rest[1] = "rule"
         PROVE  \E n \in 1..4 : Posting(rest, "rule", n) /\ rules' = 4 - n
    <2>1. CASE t[1] = "rules" /\ rules < 1 /\ rest = Times(4, "rule") \o Tail(t)
      <3>1. Posting(rest, "rule", 4)
        BY <1>8, <2>1
      <3>2. rules' = 4 - 4
        BY <1>4, <1>5, <2>1
      <3> QED BY <3>1, <3>2
    <2>2. CASE t[1] = "rule" /\ rest = Tail(t)
      <3>1. PICK n \in 1..4 : Posting(t, "rule", n) /\ rules = 4 - n
        BY <1>1, <2>2 DEF Prepared
      <3>2. PICK m \in 1..4 : Posting(t, "rule", m) /\ Posted(r, 4, "rule") = 4 + 1 - m
        BY <1>1, <2>2, PostsCount
      <3>3. n = m
        BY <1>2, <1>10, <2>2, <3>1, <3>2
      <3>4. n # 1 /\ Posting(rest, "rule", n - 1)
        BY <1>2, <1>9, <1>13, <2>2, <3>1
      <3>5. rules' = 4 - (n - 1)
        BY <1>4, <1>5, <2>2, <3>1, <3>2, <3>3 DEF Grown
      <3> QED BY <3>1, <3>4, <3>5
    <2> QED BY <1>11, <1>13, <2>1, <2>2
  <1>14. Stage[rest[1]] >= 3 => tools' = 3
    <2> SUFFICES ASSUME Stage[rest[1]] >= 3 PROVE tools' = 3
      OBVIOUS
    <2>1. CASE t[1] = "tools"
      <3>1. tools < 3 => rest[1] = "tool"
        BY <1>8, <2>1 DEF Details
      <3> QED BY <1>4, <1>5, <2>1, <3>1, StageValues
    <2>2. CASE t[1] = "tool"
      <3>1. PICK n \in 1..3 : Posting(t, "tool", n) /\ Posted(r, 3, "tool") = 3 + 1 - n
        BY <1>1, <2>2, PostsCount
      <3>2. rest = Tail(t)
        BY <2>2 DEF Details
      <3>3. rest[1] # "tool"
        BY StageValues
      <3>4. n \in 1..4 /\ "tool" \in {"tool", "rule"}
        OBVIOUS
      <3>5. n = 1
        BY <1>9, <2>2, <3>1, <3>2, <3>3, <3>4, Zenon
      <3> QED BY <1>4, <1>5, <2>2, <3>1, <3>5 DEF Grown
    <2>3. CASE t[1] \notin {"tools", "tool"}
      <3>1. At(r) >= 3
        BY <1>3, <1>6, <2>3, StageNumbers, StageValues
      <3> QED BY <1>1, <1>4, <2>3, <3>1 DEF Prepared
    <2> QED BY <2>1, <2>2, <2>3
  <1>15. Stage[rest[1]] >= 5 => rules' >= 1
    <2> SUFFICES ASSUME Stage[rest[1]] >= 5 PROVE rules' >= 1
      OBVIOUS
    <2>1. CASE t[1] = "rules"
      <3>1. rules < 1 => rest[1] = "rule"
        BY <1>8, <2>1 DEF Details
      <3> QED BY <1>4, <1>5, <2>1, <3>1, StageValues
    <2>2. CASE t[1] = "rule"
      <3>1. PICK n \in 1..4 : Posting(t, "rule", n) /\ Posted(r, 4, "rule") = 4 + 1 - n
        BY <1>1, <2>2, PostsCount
      <3> QED BY <1>4, <1>5, <2>2, <3>1 DEF Grown
    <2>3. CASE t[1] \notin {"rules", "rule"}
      <3>1. At(r) >= 3
        <4>1. At(r) < 3 => Stage[rest[1]] <= 3
          BY <1>2, StageValues DEF Mandatory
        <4> QED BY <1>3, <4>1
      <3>2. At(r) >= 5
        BY <1>3, <1>6, <2>3, <3>1, StageNumbers, StageValues
      <3> QED BY <1>1, <1>4, <2>3, <3>2 DEF Prepared
    <2> QED BY <2>1, <2>2, <2>3
  <1>16. Prepared(r)'
    BY <1>2, <1>6, <1>12, <1>13, <1>14, <1>15 DEF Prepared
  <1>17. At(r) >= 5 => t[1] # "rule" /\ rules \in 1..4 /\ tools = 3
    BY <1>1, <1>3, <1>5, <1>6, StageValues DEF Prepared
  <1> QED BY <1>4, <1>5, <1>11, <1>16, <1>17

\* The call of a run that is alone is the one that its scenario was written for.
LEMMA LoneCall ==
  ASSUME Inv, LoneInv, Lone, NEW r \in LabRunning, todo[r][1] \in {"call", "again"},
         rules = 4, tools = 3
  PROVE  LET override == IF adapter = Default THEN None ELSE Override(play[adapter])
             on == enabled \/ play[r].tool # "github.list_issues"
         IN (IF row[r].status # None THEN row[r] ELSE CallOf(play[r], tools, on, rules, override))
              = Made(play[r])
  <1>1. Courses /\ Placed(r) /\ Recorded(r) /\ r \in Lab /\ pc[r] = "running"
    BY DEF Inv, LabInv, LoneInv, LabRunning, Running
  <1>2. At(r) \in {7, 8} /\ (todo[r][1] = "again" => At(r) = 8) /\ (todo[r][1] = "call" => At(r) = 7)
    BY StageValues DEF At
  <1>3. CASE row[r].status # None
    <2>1. At(r) = 8
      BY <1>1, <1>2, <1>3 DEF Courses
    <2> QED BY <1>1, <1>3, <2>1 DEF Recorded
  <1>4. CASE row[r].status = None
    <2> DEFINE override == IF adapter = Default THEN None ELSE Override(play[adapter])
               on == enabled \/ play[r].tool # "github.list_issues"
               s == play[r]
    <2>1. override = Override(s)
      BY <1>1, <1>2, RunAssumption DEF Placed
    <2>2. on <=> (s.setup # "disable" \/ s.tool # "github.list_issues")
      BY <1>1, <1>2 DEF Placed
    <2>3. CASE on
      <3>1. on = TRUE /\ (s.setup # "disable" \/ s.tool # "github.list_issues") = TRUE
        BY <2>2, <2>3
      <3> QED BY <1>4, <2>1, <3>1 DEF Made
    <2>4. CASE ~on
      <3>1. on = FALSE /\ (s.setup # "disable" \/ s.tool # "github.list_issues") = FALSE
        BY <2>2, <2>4
      <3> QED BY <1>4, <2>1, <3>1 DEF Made
    <2> QED BY <2>3, <2>4
  <1> QED BY <1>3, <1>4

\* After a call there is the same call again, or nothing yet.
LEMMA AfterCallComesAgain ==
  ASSUME NEW s, NEW t, Course(s, t), t[1] \in {"call", "again"}, Tail(t) # <<>>
  PROVE  Tail(t)[1] = "again"
  <1> DEFINE u == Tail(t)
  <1>1. /\ Course(s, u)
        /\ Stage[t[1]] < Stage[u[1]] \/ (t[1] = u[1] /\ t[1] \in {"tool", "rule"})
    BY TailIsCourse
  <1>2. /\ Len(u) \in Nat \ {0} /\ u[Len(u)] = t[Len(t)] /\ u[1] \in Kinds /\ u[Len(u)] \in Kinds
        /\ t[Len(t)] \in {"call", "again"}
    <2>1. t \in Seq(Kinds) /\ t # <<>>
      BY DEF Course
    <2>2. /\ Len(u) = Len(t) - 1 /\ Len(t) \in Nat /\ Len(t) > 1
          /\ \A i \in 1..Len(u) : u[i] = t[i + 1]
          /\ \A i \in 1..Len(t) : t[i] \in Kinds
      BY <2>1, TailElements
    <2>3. t[Len(t)] \in {"call", "again"}
      BY DEF Course, EndsWell
    <2> HIDE DEF u
    <2> QED BY <2>2, <2>3
  <1> HIDE DEF u
  <1>3. Stage[u[1]] <= Stage[u[Len(u)]]
    <2>1. Len(u) = 1 \/ Stage[u[1]] < Stage[u[Len(u)]] \/ u[1] = u[Len(u)]
      BY <1>1, <1>2 DEF Course, InOrder
    <2>2. Stage[u[1]] \in Int /\ Stage[u[Len(u)]] \in Int
      BY <1>2, StageNumbers
    <2> QED BY <2>1, <2>2
  <1>4. 7 < Stage[u[1]] /\ Stage[u[1]] <= 8
    <2>1. Stage[t[1]] \in {7, 8} /\ Stage[u[Len(u)]] \in {7, 8} /\ Stage[u[1]] \in Int
      BY <1>2, StageNumbers, StageValues
    <2> QED BY <1>1, <1>3, <2>1
  <1>5. u[1] = "again"
    <2>1. Stage[u[1]] \in Int /\ "again" \in Kinds /\ Stage["again"] = 8
      BY <1>2, StageNumbers, StageValues
    <2>2. Stage[u[1]] = Stage["again"]
      BY <1>4, <2>1
    <2> QED BY <1>2, <2>1, <2>2, StageNumbers
  <1> QED BY <1>5 DEF u

\* What a run has recorded stays so, and it finds what there is to find.
LEMMA StaysRecorded ==
  ASSUME Inv, LoneInv, Lone, NEW r \in LabRunning, NEW rest, NEW observed,
         Answered(r, rest, observed), Details(r, rest, observed), GoesOn(r, rest)
  PROVE  Recorded(r)'
  <1> DEFINE t == todo[r]
             s == play[r]
  <1>1. /\ LabTypes /\ Courses /\ Recorded(r) /\ r \in Lab
        /\ todo'[r] = rest /\ play' = play /\ rest # <<>>
    BY DEF Inv, LabInv, LoneInv, LabRunning, GoesOn, Answered, LabTypes
  <1>2. /\ Course(s, rest) /\ Course(s, t) /\ At(r) = Stage[t[1]]
        /\ At(r) = Stage[rest[1]] => rest[1] \in {"tool", "rule"}
        /\ At(r) <= Stage[rest[1]]
        /\ At(r) < Stage["call"] => Stage[rest[1]] <= Stage["call"]
    BY <1>1, RestOfRun DEF Answered, Mandatory, At
  <1>3. rest[1] \in Kinds /\ t[1] \in Kinds /\ Stage[rest[1]] \in Int /\ At(r) \in Int
    <2>1. rest[1] \in Kinds
      BY <1>2, TailElements DEF Course
    <2>2. t[1] \in Kinds
      BY <1>1, RestOfRun
    <2> QED BY <2>1, <2>2, StageNumbers DEF At
  <1>4. seen' = [seen EXCEPT ![r] = observed] /\ DOMAIN seen = Lab /\ DOMAIN row = Lab
    BY <1>1 DEF Answered, Proceed, GoesOn, LabTypes
  <1>5. SUFFICES ASSUME rules' = 4
                 PROVE  /\ Stage[rest[1]] >= 8 => row'[r] = Made(s)
                        /\ rest[1] = "recover" =>
                             seen'[r] = Answer(Made(s)) /\ Made(s).http \notin {200, 403}
                        /\ rest[1] \in {"events", "enable"} => seen'[r] = Observed(s)
    BY <1>1 DEF Recorded, At
  <1>6. CASE At(r) <= 6
    BY <1>2, <1>3, <1>6, StageValues
  <1>7. ASSUME At(r) >= 7
        PROVE  /\ rules = 4 /\ tools = 3
               /\ t[1] \in {"call", "again", "recover", "events", "enable"}
               /\ Stage[rest[1]] > At(r)
    <2>1. rules = 4 /\ tools = 3
      BY <1>3, <1>5, <1>7, StaysPrepared
    <2>2. t[1] \in {"call", "again", "recover", "events", "enable"}
      BY <1>2, <1>3, <1>7, StageNumbers, StageValues
    <2>3. At(r) # Stage[rest[1]]
      BY <1>2, <1>7, StageValues
    <2> QED BY <1>2, <1>3, <2>1, <2>2, <2>3
  <1>8. CASE t[1] \in {"call", "again"}
    <2>1. At(r) >= 7
      BY <1>2, <1>8, StageValues
    <2>2. row' = [row EXCEPT ![r] = Made(s)] /\ observed = Answer(Made(s))
          /\ rest = IF Tail(t) # <<>> THEN Tail(t) ELSE AfterCall(s, Made(s))
      BY <1>7, <1>8, <2>1, LoneCall DEF Details
    <2>3. row'[r] = Made(s) /\ seen'[r] = Answer(Made(s))
      BY <1>1, <1>4, <2>2
    <2>4. CASE Tail(t) # <<>>
      <3>1. rest[1] = "again"
        BY <1>2, <1>8, <2>2, <2>4, AfterCallComesAgain
      <3> QED BY <2>3, <3>1
    <2>5. CASE Tail(t) = <<>>
      <3>1. s \in SCENARIOS
        BY <1>1 DEF LabTypes
      <3>2. rest[1] = IF Made(s).http \in {200, 403} THEN "events" ELSE "recover"
        BY <2>2, <2>5, <3>1, AfterCallIsCourse
      <3> QED BY <2>3, <3>2 DEF Answer, Observed
    <2> QED BY <2>4, <2>5
  <1>9. CASE t[1] = "recover"
    <2>1. At(r) = 9
      BY <1>2, <1>9, StageValues
    <2>2. row' = row /\ row[r] = Made(s) /\ seen[r] = Answer(Made(s)) /\ Made(s).http \notin {200, 403}
      BY <1>1, <1>7, <1>9, <2>1 DEF Recorded, Details
    <2>3. rest[1] # "recover"
      BY <1>7, <2>1, StageValues
    <2>4. seen'[r] = Observed(s)
      BY <1>1, <1>4, <1>9, <2>2 DEF Details, Observed, Answer
    <2> QED BY <2>2, <2>3, <2>4
  <1>10. CASE t[1] \in {"events", "enable"}
    <2>1. At(r) >= 10 /\ rest[1] # "recover"
      BY <1>2, <1>7, <1>10, StageValues
    <2>2. row' = row /\ row[r] = Made(s) /\ seen[r] = Observed(s) /\ observed = seen[r]
      BY <1>1, <1>3, <1>7, <1>10, <2>1 DEF Recorded, Details
    <2> QED BY <1>1, <1>4, <2>1, <2>2
  <1> QED BY <1>3, <1>6, <1>7, <1>8, <1>9, <1>10

\* A run that is alone ends with a verdict on what there was to see.
LEMMA LoneVerdict ==
  ASSUME Inv, LoneInv, Lone, NEW r \in LabRunning, NEW rest, NEW observed,
         Answered(r, rest, observed), Details(r, rest, observed), Ends(r, rest)
  PROVE  /\ verdict' = [verdict EXCEPT ![r] = IF Passes(play[r], observed) THEN "passed" ELSE "failed"]
         /\ rules' = rules /\ rules \in 1..4
         /\ rules = 4 => observed = Observed(play[r])
  <1> DEFINE t == todo[r]
             s == play[r]
  <1>1. LabTypes /\ Courses /\ Open /\ Prepared(r) /\ Recorded(r) /\ r \in Lab
    BY DEF Inv, LabInv, LoneInv, LabRunning
  <1>2. accepting /\ rest = <<>>
    BY <1>1 DEF Open, Lone, Ends
  <1>3. verdict' = [verdict EXCEPT ![r] = IF Passes(s, observed) THEN "passed" ELSE "failed"]
    <2> DEFINE left(kinds) == \E i \in DOMAIN rest : rest[i] \in kinds
               last == IF left({"call", "again"}) THEN Nothing(503) ELSE observed
    <2>1. ~left({"session"}) /\ last = observed
      BY <1>2
    <2>2. Conclude(r, ~left({"session"}), last)
      BY <1>2 DEF Answered, Proceed
    <2> HIDE DEF left, last
    <2> QED BY <2>1, <2>2 DEF Conclude
  <1>4. Course(s, t) /\ t[1] \in Kinds /\ At(r) = Stage[t[1]] /\ s \in SCENARIOS
    BY <1>1, RestOfRun DEF At, LabTypes
  <1>5. /\ t[1] \in {"recover", "events", "enable"}
        /\ t[1] = "recover" => row[r].status = None
    <2>1. ASSUME NEW u, Course(s, u) PROVE u # <<>>
      BY <2>1 DEF Course
    <2>2. t[1] \notin {"call", "again"}
      <3>1. ASSUME t[1] \in {"call", "again"}
            PROVE  \E made : rest = IF Tail(t) # <<>> THEN Tail(t) ELSE AfterCall(s, made)
        BY <3>1 DEF Details
      <3>2. \A made : AfterCall(s, made) # <<>>
        BY <1>4, <2>1, AfterCallIsCourse
      <3> QED BY <1>2, <3>1, <3>2
    <2>3. Tail(t) = <<>> => t[1] \in {"call", "again", "recover", "events", "enable"}
      BY <1>1, RestOfRun
    <2>4. t[1] \notin {"tools", "rules"}
      <3>1. ASSUME t[1] = "tools" PROVE PutInFront(t, "tool", 3) # <<>> /\ Tail(t) # <<>>
        BY <1>4, <2>1, <2>3, <3>1, PostsInFront
      <3>2. ASSUME t[1] = "rules" PROVE PutInFront(t, "rule", 4) # <<>> /\ Tail(t) # <<>>
        BY <1>4, <2>1, <2>3, <3>2, PostsInFront
      <3> QED BY <1>2, <3>1, <3>2 DEF Details, PutInFront
    <2>5. t[1] = "recover" => row[r].status = None
      <3>1. ASSUME t[1] = "recover" PROVE <<"events">> \o Tail(t) # <<>>
        BY <1>4, <2>1, <3>1, EventsInFront
      <3> QED BY <1>2, <3>1 DEF Details
    <2>6. t[1] \notin {"tool", "rule", "session", "disable"}
      BY <1>2, <2>3 DEF Details
    <2> QED BY <1>4, <2>2, <2>4, <2>5, <2>6, StageNumbers
  <1>6. At(r) >= 5 /\ At(r) >= 8
    BY <1>4, <1>5, StageValues
  <1>7. rules' = rules /\ rules \in 1..4
    BY <1>1, <1>5, <1>6 DEF Details, Prepared, LabTypes
  <1>8. rules = 4 => observed = Observed(s)
    BY <1>1, <1>5, <1>6 DEF Details, Recorded, Observed, Answer
  <1> QED BY <1>3, <1>7, <1>8

\* The invariant of runs that are alone.
LEMMA LoneInvKept ==
  ASSUME Inv, LoneInv, [LabNext]_<<vars, lab>>, PipelinePasses
  PROVE  LoneInv'
  <1> SUFFICES ASSUME Lone'
               PROVE  Judged' /\ \A r \in LabRunning' : (Prepared(r) /\ Placed(r) /\ Recorded(r))'
    BY DEF LoneInv
  <1>1. /\ LabTypes /\ Open /\ Courses /\ Meetings /\ Restorable /\ Reenabled /\ NoErrors
        /\ pc \in [Request -> {"new", "running", "sending", "done", "refused"}]
    BY DEF Inv, LabInv, IInv, TypeOK
  <1>2. ASSUME NEW r \in Lab, Begin(r)
        PROVE  Judged' /\ \A q \in LabRunning' : (Prepared(q) /\ Placed(q) /\ Recorded(q))'
    <2>1. /\ pc' = [pc EXCEPT ![r] = "running"]
          /\ UNCHANGED <<accepting, draining, targets>>
          /\ todo' = [todo EXCEPT ![r] = Script(play[r])]
          /\ UNCHANGED <<play, adapter, original, enabled, tools, rules, row, seen, verdict>>
      BY <1>2 DEF Begin, Accept
    <2>2. LabRunning = {}
      BY <1>2 DEF Begin, Lone
    <2>3. LabRunning' = {r}
      BY <1>1, <2>1, <2>2, LabAssumption DEF LabRunning, Running
    <2>4. Script(play[r])[1] = "tools"
      BY <1>1, ScriptIsCourse DEF LabTypes
    <2>5. Lone
      BY <1>2, <2>1 DEF Begin, Lone
    <2>6. enabled
      BY <1>1, <2>2, <2>5 DEF Reenabled, Lone
    <2>7. todo'[r][1] = "tools" /\ At(r)' = 1
      BY <1>1, <2>1, <2>4, StageValues DEF LabTypes, At
    <2>8. (Prepared(r) /\ Placed(r) /\ Recorded(r))'
      BY <2>1, <2>6, <2>7 DEF Prepared, Placed, Recorded
    <2>9. Judged'
      BY <2>1, <2>3, <2>5, <2>7 DEF Judged, LoneInv
    <2> QED BY <2>3, <2>8, <2>9
  <1>3. ASSUME NEW r \in Lab, Handler(r)
        PROVE  Judged' /\ \A q \in LabRunning' : (Prepared(q) /\ Placed(q) /\ Recorded(q))'
    <2>1. PICK rest, observed : Answered(r, rest, observed) /\ Details(r, rest, observed)
      BY <1>1, <1>3, HandlersAnswer
    <2>2. /\ GoesOn(r, rest) \/ Ends(r, rest)
          /\ r \in LabRunning /\ UNCHANGED <<play, overlapped>>
      BY <2>1, AnswerForms DEF Answered
    <2>3. UNCHANGED draining
      BY <2>2 DEF GoesOn, Ends, Handled, vars
    <2>4. Lone
      BY <2>2, <2>3 DEF Lone
    <2>5. LabRunning = {r} /\ Judged /\ Prepared(r)
      BY <1>1, <2>2, <2>4, OnlyOneRuns DEF LoneInv
    <2>6. CASE GoesOn(r, rest)
      <3>1. LabRunning' = {r} /\ todo'[r] = rest /\ verdict' = verdict
        BY <1>1, <2>5, <2>6 DEF GoesOn, vars, LabRunning, Running, LabTypes
      <3>2. (Prepared(r) /\ Placed(r) /\ Recorded(r))'
        BY <2>1, <2>2, <2>4, <2>6, StaysPrepared, StaysPlaced, StaysRecorded
      <3>3. /\ rules' # rules => todo[r][1] = "rule"
            /\ rest[1] = "rule" => todo[r][1] = "rule" \/ rules = 0
        BY <2>1, <2>2, <2>4, <2>6, StaysPrepared
      <3>4. Judged'
        BY <2>2, <2>5, <3>1, <3>3 DEF Judged
      <3> QED BY <3>1, <3>2, <3>4
    <2>7. CASE Ends(r, rest)
      <3>1. LabRunning' = {}
        BY <1>1, <2>5, <2>7 DEF Ends, Handled, LabRunning, Running
      <3>2. /\ verdict' = [verdict EXCEPT ![r] = IF Passes(play[r], observed) THEN "passed"
                                                  ELSE "failed"]
            /\ rules' = rules /\ rules \in 1..4
            /\ rules = 4 => observed = Observed(play[r])
        BY <2>1, <2>2, <2>4, <2>7, LoneVerdict
      <3>3. rules = 4 => Passes(play[r], observed) \/ Untimed(play[r])
        BY <1>1, <3>2 DEF PipelinePasses, LabTypes
      <3>4. rules \in 1..3 \/ rules = 4
        BY <3>2
      <3>5. ASSUME NEW q \in Lab, verdict'[q] = "failed"
            PROVE  Untimed(play[q]) \/ rules \in 1..3
        <4>1. CASE q = r
          BY <1>1, <3>2, <3>3, <3>4, <3>5, <4>1 DEF LabTypes
        <4>2. CASE q # r
          BY <1>1, <2>5, <3>2, <3>5, <4>2 DEF LabTypes, Judged
        <4> QED BY <4>1, <4>2
      <3>6. Judged'
        BY <2>2, <3>1, <3>2, <3>5 DEF Judged
      <3> QED BY <3>1, <3>6
    <2> QED BY <2>2, <2>6, <2>7
  <1>4. ASSUME NEW r \in Lab, Cut(r) PROVE FALSE
    BY <1>1, <1>4 DEF Cut, Handled, Open, Lone
  <1>5. ASSUME ((\E r \in Request : Other(r)) \/ Lifespan) \/ UNCHANGED vars, UNCHANGED lab
        PROVE  Judged' /\ \A q \in LabRunning' : (Prepared(q) /\ Placed(q) /\ Recorded(q))'
    <2>1. /\ \A r \in Lab : pc'[r] = "running" => pc[r] = "running"
          /\ draining = "no"
      <3> USE LabAssumption
      <3>1. ASSUME NEW r \in Request, (r \notin Lab /\ Accept(r)) \/ Refuse(r) \/ Leave(r)
            PROVE  (\A q \in Lab : pc'[q] = "running" => pc[q] = "running") /\ draining' = draining
        BY <1>1, <3>1 DEF Accept, Refuse, Leave
      <3>2. CASE Lifespan
        BY <3>2 DEF Lifespan, BeginDrain, Drained, GraceExpires, Gathered, Release, Lone
      <3>3. CASE UNCHANGED vars
        BY <3>3 DEF vars, Lone
      <3> QED BY <1>5, <3>1, <3>2, <3>3 DEF Other, Lone
    <2>2. LabRunning' \subseteq LabRunning /\ Lone
      BY <1>5, <2>1, LabAssumption DEF lab, LabRunning, Running, Lone
    <2> QED BY <1>5, <2>2 DEF lab, LoneInv, Judged, Prepared, Placed, Recorded, At
  <1>6. CASE \E r \in Lab : Run(r)
    BY <1>2, <1>3, <1>4, <1>6 DEF Run, Handler
  <1>7. CASE ((\E r \in Request : Other(r)) \/ Lifespan) /\ UNCHANGED lab
    BY <1>5, <1>7
  <1>8. CASE UNCHANGED <<vars, lab>>
    BY <1>5, <1>8
  <1> QED BY <1>6, <1>7, <1>8 DEF LabNext

\* Where the pipeline answers every scenario as its author expected, a run that is alone passes,
\* whatever runs came before it, and only the shutdown keeps a run from its verdict.
THEOREM LoneRunsPass ==
  ASSUME PipelinePasses
  PROVE  LabSpec => []LoneRunPasses
  <1>1. LabInit => LoneInv
    BY LabAssumption
       DEF LabInit, Init, LoneInv, Judged, LabRunning, Running, None
  <1>2. (Inv /\ LoneInv) /\ [LabNext]_<<vars, lab>> => LoneInv'
    BY LoneInvKept
  <1>3. Inv /\ LoneInv => LoneRunPasses
    BY DEF Inv, LabInv, NoErrors, LoneInv, Lone, Judged, LoneRunPasses, Untimed
  <1>4. LabSpec => []Inv
    BY LabInvariance DEF Inv
  <1>5. LabSpec => []LoneInv
    BY <1>1, <1>2, <1>4, PTL DEF LabSpec
  <1> QED BY <1>3, <1>4, <1>5, PTL

=============================================================================
