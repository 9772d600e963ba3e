---------------------------- MODULE HaloExchangeProofs ----------------------------
(* Proofs about the halo exchange, for any number of ranks, any tiles, edges and  *)
(* halo width, and any script of exchanges.                                    *)
EXTENDS HaloExchange, FiniteSetTheorems, SequenceTheorems, TLAPS

---------------------------------------------------------------------------------
(* What the operations of a host and the kernels of a device are made of.       *)
Axes == {"x", "y"}
Depths == {1, Halo}
Move(ops) == [op : ops, axis : Axes, depth : Depths, whole : BOOLEAN, always : BOOLEAN]
MpiMove(ops) == [op : ops, axis : Axes, depth : Depths, whole : BOOLEAN, always : BOOLEAN,
                 family : Families]
Stencils == [op : {"stencil"}, gen : Nat]
Places == {"send", "recv"} \X Slots
Copies == [op : {"copy"}, from : Places, to : Places]
Payloads == [peer : Int \X Int, slots : Seq(Slots)]
Groups == [op : {"group"}, sends : Seq(Payloads), recvs : Seq(Payloads)]

MpiOps == MpiMove({"fill", "pack", "post", "wait"}) \cup Stencils
NcclOps == Move({"fill", "periodic", "pack", "unpack"}) \cup Copies \cup Groups
             \cup [op : {"sync"}] \cup Stencils
OpsOf == IF layout.lib = "mpi" THEN MpiOps ELSE NcclOps
Kernels == MpiMove({"fill", "pack", "unpack"}) \cup Move({"fill", "periodic", "pack", "unpack"})
             \cup Copies \cup Groups \cup Stencils

Typed ==
  /\ layout \in Layouts
  /\ called \in [Ranks -> 0..Calls]
  /\ todo \in [Ranks -> Seq(OpsOf)]
  /\ queue \in [Ranks -> Seq(Kernels)]
  /\ DOMAIN field = Ranks
  /\ \A r \in Ranks : DOMAIN field[r] = Cells(r)
  /\ sending \in [Ranks -> SUBSET AllSides]
  /\ receiving \in [Ranks -> SUBSET AllSides]

LEMMA LayoutFacts ==
  ASSUME layout \in Layouts
  PROVE  /\ layout.px \in Nat \ {0} /\ layout.py \in Nat \ {0}
         /\ layout.script \in Seq(Kinds) /\ Calls \in Nat /\ layout.lib \in {"mpi", "nccl"}
         /\ \A g \in 1..Calls : layout.script[g] \in Kinds
BY HaloAssumption, LenProperties, ElementOfSeq DEF Libraries, Calls

LEMMA KernelsAreOps ==
  /\ \A k \in OpsOf : k.op \in KernelOps => k \in Kernels
  /\ \A k \in Kernels : /\ k.op \in KernelOps
                        /\ k.op \in {"pack", "unpack", "fill"} => k.axis \in Axes /\ k.depth \in Depths
BY DEF OpsOf, MpiOps, NcclOps, Kernels, KernelOps, Move, MpiMove, Stencils, Copies, Groups

LEMMA OneOp == ASSUME NEW S, NEW e \in S PROVE <<e>> \in Seq(S)
OBVIOUS

LEMMA TwoOps == ASSUME NEW S, NEW e \in S, NEW f \in S PROVE <<e, f>> \in Seq(S)
OBVIOUS

LEMMA Joined == ASSUME NEW S, NEW s \in Seq(S), NEW t \in Seq(S) PROVE s \o t \in Seq(S)
BY ConcatProperties

LEMMA NoOp == ASSUME NEW S PROVE <<>> \in Seq(S)
BY EmptySeq

---------------------------------------------------------------------------------
(* The operations a call leaves to the host, and where in it an axis is packed,   *)
(* posted (once) and waited for.                                               *)
At(s, o, a) == {i \in 1..Len(s) : s[i].op = o /\ s[i].axis = a}
Does(s, o) == {a \in Axes : At(s, o, a) # {}}
InOrder(s) == \A a \in Axes :
  /\ \A i \in At(s, "pack", a), j \in At(s, "post", a) : i < j
  /\ \A i \in At(s, "post", a), j \in At(s, "wait", a) : i < j
  /\ \A i, j \in At(s, "post", a) : i = j

Plan(s, packs, posts, waits) ==
  /\ s \in Seq(MpiOps) /\ InOrder(s)
  /\ Does(s, "pack") = packs /\ Does(s, "post") = posts /\ Does(s, "wait") = waits

LEMMA AtJoined ==
  ASSUME NEW S, NEW s \in Seq(S), NEW t \in Seq(S), NEW o, NEW a
  PROVE  At(s \o t, o, a) = At(s, o, a) \cup {Len(s) + i : i \in At(t, o, a)}
<1>1. /\ Len(s) \in Nat /\ Len(t) \in Nat /\ Len(s \o t) = Len(s) + Len(t)
      /\ \A i \in 1..Len(s) + Len(t) : (s \o t)[i] = IF i <= Len(s) THEN s[i] ELSE t[i - Len(s)]
  BY ConcatProperties, LenProperties
<1> DEFINE m == Len(s)
           n == Len(t)
           u == s \o t
<1>2. m \in Nat /\ n \in Nat /\ Len(u) = m + n
      /\ (\A i \in 1..m : i \in 1..m + n /\ u[i] = s[i])
      /\ (\A i \in 1..n : m + i \in 1..m + n /\ u[m + i] = t[i])
      /\ (\A i \in 1..m + n : i \in 1..m \/ \E j \in 1..n : i = m + j)
  <2>1. m \in Nat /\ n \in Nat /\ Len(u) = m + n
    BY <1>1
  <2>2. ASSUME NEW i \in 1..m PROVE i \in 1..m + n /\ u[i] = s[i]
    BY <1>1
  <2>3. ASSUME NEW i \in 1..n PROVE m + i \in 1..m + n /\ u[m + i] = t[i]
    <3>1. m + i \in 1..m + n /\ ~(m + i <= m) /\ (m + i) - m = i
      BY <2>1
    <3> QED
      BY <1>1, <3>1
  <2>4. ASSUME NEW i \in 1..m + n, i \notin 1..m PROVE \E j \in 1..n : i = m + j
    <3>1. i - m \in 1..n /\ i = m + (i - m)
      BY <2>1, <2>4
    <3> QED
      BY <3>1
  <2> QED
    BY <2>1, <2>2, <2>3, <2>4
<1> HIDE DEF m, n, u
<1>3. /\ \A i : i \in At(s, o, a) <=> i \in 1..m /\ s[i].op = o /\ s[i].axis = a
      /\ \A i : i \in At(t, o, a) <=> i \in 1..n /\ t[i].op = o /\ t[i].axis = a
      /\ \A i : i \in At(u, o, a) <=> i \in 1..m + n /\ u[i].op = o /\ u[i].axis = a
  BY <1>2 DEF At, m, n
<1>4. ASSUME NEW i \in At(u, o, a) PROVE i \in At(s, o, a) \/ \E j \in At(t, o, a) : i = m + j
  <2>1. CASE i \in 1..m
    BY <1>2, <1>3, <2>1
  <2>2. CASE i \notin 1..m
    <3>1. PICK j \in 1..n : i = m + j
      BY <1>2, <1>3, <2>2
    <3>2. u[i] = t[j]
      BY <1>2, <3>1, Zenon
    <3>3. j \in At(t, o, a)
      BY <1>3, <3>2, Zenon
    <3> QED
      BY <3>1, <3>3, Zenon
  <2> QED
    BY <2>1, <2>2
<1>5. ASSUME NEW i \in At(s, o, a) PROVE i \in At(u, o, a)
  BY <1>2, <1>3
<1>6. ASSUME NEW i \in At(t, o, a) PROVE m + i \in At(u, o, a)
  <2>1. m + i \in 1..m + n /\ u[m + i] = t[i]
    BY <1>2, <1>3
  <2>2. u[m + i].op = o /\ u[m + i].axis = a
    BY <1>3, <2>1, Zenon
  <2> QED
    BY <1>3, <2>1, <2>2, Zenon
<1>7. At(u, o, a) = At(s, o, a) \cup {m + i : i \in At(t, o, a)}
  BY <1>4, <1>5, <1>6
<1> QED
  BY <1>7 DEF m, u

LEMMA PlanJoin ==
  ASSUME NEW s, NEW t, NEW p1, NEW p2, NEW q1, NEW q2, NEW w1, NEW w2,
         Plan(s, p1, q1, w1), Plan(t, p2, q2, w2),
         q1 \cap p2 = {}, w1 \cap q2 = {}, q1 \cap q2 = {}
  PROVE  Plan(s \o t, p1 \cup p2, q1 \cup q2, w1 \cup w2)
<1> DEFINE n == Len(s)
           u == s \o t
<1>1. s \in Seq(MpiOps) /\ t \in Seq(MpiOps) /\ u \in Seq(MpiOps) /\ n \in Nat
  BY Joined, LenProperties DEF Plan
<1>2. \A o, a : At(u, o, a) = At(s, o, a) \cup {n + i : i \in At(t, o, a)}
  BY <1>1, AtJoined
<1>3. \A o, a : \A i \in At(s, o, a) : i \in 1..n
  BY DEF At
<1>4. \A o, a : \A i \in At(t, o, a) : i \in Nat /\ i > 0
  BY DEF At
<1> HIDE DEF n, u
<1>5. \A o : Does(u, o) = Does(s, o) \cup Does(t, o)
  BY <1>2 DEF Does
<1>6. ASSUME NEW a \in Axes, NEW o1, NEW o2, ~(a \in Does(s, o2) /\ a \in Does(t, o1)),
             \A i \in At(s, o1, a), j \in At(s, o2, a) : i < j,
             \A i \in At(t, o1, a), j \in At(t, o2, a) : i < j,
             NEW i \in At(u, o1, a), NEW j \in At(u, o2, a)
      PROVE  i < j
  <2>1. CASE i \in At(s, o1, a) /\ j \in At(s, o2, a)
    BY <1>6, <2>1
  <2>2. CASE i \in At(s, o1, a) /\ \E k \in At(t, o2, a) : j = n + k
    BY <1>1, <1>3, <1>4, <2>2
  <2>3. CASE (\E k \in At(t, o1, a) : i = n + k) /\ j \in At(s, o2, a)
    BY <1>6, <2>3 DEF Does
  <2>4. CASE (\E k \in At(t, o1, a) : i = n + k) /\ (\E k \in At(t, o2, a) : j = n + k)
    <3>1. PICK k \in At(t, o1, a), l \in At(t, o2, a) : i = n + k /\ j = n + l
      BY <2>4
    <3>2. k < l
      BY <1>6
    <3> QED
      BY <1>1, <1>4, <3>1, <3>2
  <2> QED
    BY <1>2, <2>1, <2>2, <2>3, <2>4
<1>7. InOrder(u)
  <2> SUFFICES ASSUME NEW a \in Axes
               PROVE  /\ \A i \in At(u, "pack", a), j \in At(u, "post", a) : i < j
                      /\ \A i \in At(u, "post", a), j \in At(u, "wait", a) : i < j
                      /\ \A i, j \in At(u, "post", a) : i = j
    BY DEF InOrder
  <2>1. ~(a \in Does(s, "post") /\ a \in Does(t, "pack"))
    BY DEF Plan
  <2>2. ~(a \in Does(s, "wait") /\ a \in Does(t, "post"))
    BY DEF Plan
  <2>3. \A i \in At(u, "pack", a), j \in At(u, "post", a) : i < j
    BY <1>6, <2>1 DEF Plan, InOrder
  <2>4. \A i \in At(u, "post", a), j \in At(u, "wait", a) : i < j
    BY <1>6, <2>2 DEF Plan, InOrder
  <2>5. ASSUME NEW i \in At(u, "post", a), NEW j \in At(u, "post", a) PROVE i = j
    <3>1. At(s, "post", a) = {} \/ At(t, "post", a) = {}
      BY DEF Plan, Does
    <3>2. CASE At(s, "post", a) = {}
      <4>1. PICK k \in At(t, "post", a), l \in At(t, "post", a) : i = n + k /\ j = n + l
        BY <1>2, <3>2
      <4>2. k = l
        BY DEF Plan, InOrder
      <4> QED
        BY <4>1, <4>2
    <3>3. CASE At(t, "post", a) = {}
      <4>1. i \in At(s, "post", a) /\ j \in At(s, "post", a)
        BY <1>2, <3>3
      <4> QED
        BY <4>1 DEF Plan, InOrder
    <3> QED
      BY <3>1, <3>2, <3>3
  <2> QED
    BY <2>3, <2>4, <2>5
<1> QED
  BY <1>1, <1>5, <1>7 DEF Plan, u

LEMMA PlanNothing == Plan(<<>>, {}, {}, {})
<1>1. <<>> \in Seq(MpiOps) /\ \A o, a : At(<<>>, o, a) = {}
  BY NoOp DEF At
<1> QED
  BY <1>1 DEF Plan, InOrder, Does

LEMMA PlanStencil == ASSUME NEW g \in Nat PROVE Plan(<<Stencil(g)>>, {}, {}, {})
<1>1. Stencil(g) \in MpiOps /\ Stencil(g).op = "stencil"
  BY DEF Stencil, MpiOps, Stencils
<1>2. <<Stencil(g)>> \in Seq(MpiOps)
  BY <1>1
<1>3. \A o \in {"pack", "post", "wait"} : \A a : At(<<Stencil(g)>>, o, a) = {}
  BY <1>1 DEF At
<1> QED
  BY <1>2, <1>3 DEF Plan, InOrder, Does

LEMMA PlanParts ==
  ASSUME NEW a \in Axes, NEW d \in Depths, NEW f \in Families
  PROVE  /\ Plan(Fill(a, d, f), {}, {}, {})
         /\ Plan(Start(a, d, f), {a}, {a}, {})
         /\ Plan(Finish(a, d, f), {}, {}, {a})
<1>1. ASSUME NEW o \in {"fill", "pack", "post", "wait"}
      PROVE  HostOpOf(o, a, d, f) \in MpiOps
  BY DEF HostOpOf, MpiOps, MpiMove
<1>2. \A o : HostOpOf(o, a, d, f).op = o /\ HostOpOf(o, a, d, f).axis = a
  BY DEF HostOpOf
<1>3. Plan(Fill(a, d, f), {}, {}, {})
  <2>1. Fill(a, d, f) \in Seq(MpiOps)
    BY <1>1 DEF Fill
  <2>2. \A o \in {"pack", "post", "wait"} : \A b : At(Fill(a, d, f), o, b) = {}
    BY <1>2 DEF At, Fill
  <2> QED
    BY <2>1, <2>2 DEF Plan, InOrder, Does
<1>4. Plan(Start(a, d, f), {a}, {a}, {})
  <2>1. Start(a, d, f) \in Seq(MpiOps)
    BY <1>1 DEF Start
  <2>2. /\ \A b : At(Start(a, d, f), "wait", b) = {}
        /\ \A b : At(Start(a, d, f), "pack", b) = IF b = a THEN {1} ELSE {}
        /\ \A b : At(Start(a, d, f), "post", b) = IF b = a THEN {2} ELSE {}
    BY <1>2 DEF At, Start
  <2>3. InOrder(Start(a, d, f))
    BY <2>2 DEF InOrder
  <2>4. /\ Does(Start(a, d, f), "pack") = {a} /\ Does(Start(a, d, f), "post") = {a}
        /\ Does(Start(a, d, f), "wait") = {}
    BY <2>2 DEF Does
  <2> QED
    BY <2>1, <2>3, <2>4 DEF Plan
<1>5. Plan(Finish(a, d, f), {}, {}, {a})
  <2>1. Finish(a, d, f) \in Seq(MpiOps)
    BY <1>1 DEF Finish
  <2>2. /\ \A b : At(Finish(a, d, f), "pack", b) = {} /\ At(Finish(a, d, f), "post", b) = {}
        /\ \A b : At(Finish(a, d, f), "wait", b) = IF b = a THEN {1} ELSE {}
    BY <1>2 DEF At, Finish
  <2> QED
    BY <2>1, <2>2 DEF Plan, InOrder, Does
<1> QED
  BY <1>3, <1>4, <1>5

(* Every exchange packs, posts and waits for each axis that is not a singleton, in  *)
(* this order.                                                                *)
Real(l, a) == IF Singleton(l, a) THEN {} ELSE {a}
RealAxes(l) == Real(l, "x") \cup Real(l, "y")

LEMMA PlanBegin ==
  ASSUME NEW l, NEW a \in Axes, NEW d \in Depths
  PROVE  /\ Plan(Begin(l, a, d), Real(l, a), Real(l, a), {})
         /\ Plan(End(l, a, d), {}, {}, Real(l, a))
<1>1. "SEND" \in Families
  BY DEF Families
<1> QED
  BY <1>1, PlanParts, PlanNothing DEF Begin, End, Real

LEMMA PlanActive ==
  ASSUME NEW l, NEW a \in Axes, NEW f \in Families
  PROVE  Plan(Active(l, a, f), Real(l, a), Real(l, a), Real(l, a))
<1>1. Halo \in Depths
  BY DEF Depths
<1>2. Plan(Start(a, Halo, f) \o Finish(a, Halo, f), {a} \cup {}, {a} \cup {}, {} \cup {a})
  <2>1. Plan(Start(a, Halo, f), {a}, {a}, {}) /\ Plan(Finish(a, Halo, f), {}, {}, {a})
    BY <1>1, PlanParts
  <2> QED
    BY <2>1, PlanJoin
<1>3. Plan(Start(a, Halo, f) \o Finish(a, Halo, f), {a}, {a}, {a})
  <2>1. {a} \cup {} = {a} /\ {} \cup {a} = {a}
    OBVIOUS
  <2> QED
    BY <1>2, <2>1
<1> QED
  BY <1>3, PlanNothing DEF Active, Real

LEMMA PlanSingletons ==
  ASSUME NEW l, NEW f \in Families
  PROVE  Plan(FillSingletons(l, f), {}, {}, {})
<1>1. \A a \in Axes : Plan(Fill(a, Halo, f), {}, {}, {})
  BY PlanParts DEF Depths
<1>2. \A s, t : Plan(s, {}, {}, {}) /\ Plan(t, {}, {}, {}) => Plan(s \o t, {}, {}, {})
  <2> SUFFICES ASSUME NEW s, NEW t, Plan(s, {}, {}, {}), Plan(t, {}, {}, {})
               PROVE  Plan(s \o t, {}, {}, {})
    OBVIOUS
  <2>1. Plan(s \o t, {} \cup {}, {} \cup {}, {} \cup {})
    BY PlanJoin
  <2> QED
    BY <2>1
<1>3. "x" \in Axes /\ "y" \in Axes
  BY DEF Axes
<1> QED
  BY <1>1, <1>2, <1>3, PlanNothing DEF FillSingletons

LEMMA RealApart == \A l : Real(l, "x") \cap Real(l, "y") = {}
BY DEF Real

LEMMA PlanFull ==
  ASSUME NEW l, NEW d \in Depths
  PROVE  Plan(FullExchange(l, d), RealAxes(l), RealAxes(l), RealAxes(l))
<1> DEFINE X == Real(l, "x")
           Y == Real(l, "y")
<1>1. /\ Plan(Begin(l, "y", d), Y, Y, {}) /\ Plan(End(l, "y", d), {}, {}, Y)
      /\ Plan(Begin(l, "x", d), X, X, {}) /\ Plan(End(l, "x", d), {}, {}, X)
  BY PlanBegin DEF Axes
<1>2. X \cap Y = {}
  BY RealApart
<1> HIDE DEF X, Y
<1>3. Plan(Begin(l, "y", d) \o End(l, "y", d), Y \cup {}, Y \cup {}, {} \cup Y)
  BY <1>1, PlanJoin
<1>4. Plan(Begin(l, "y", d) \o End(l, "y", d), Y, Y, Y)
  BY <1>3
<1>5. Plan(Begin(l, "y", d) \o End(l, "y", d) \o Begin(l, "x", d), Y \cup X, Y \cup X, Y \cup {})
  BY <1>1, <1>2, <1>4, PlanJoin
<1>6. Plan(FullExchange(l, d), Y \cup X \cup {}, Y \cup X \cup {}, (Y \cup {}) \cup X)
  <2>1. (Y \cup {}) \cap {} = {} /\ (Y \cup X) \cap {} = {}
    OBVIOUS
  <2> QED
    BY <1>1, <1>5, <2>1, PlanJoin DEF FullExchange
<1>7. Y \cup X \cup {} = RealAxes(l) /\ (Y \cup {}) \cup X = RealAxes(l)
  BY DEF RealAxes, X, Y
<1> QED
  BY <1>6, <1>7

LEMMA PlanFace ==
  ASSUME NEW l
  PROVE  Plan(FaceExchange(l), RealAxes(l), RealAxes(l), RealAxes(l))
<1> DEFINE X == Real(l, "x")
           Y == Real(l, "y")
<1>1. /\ Plan(Begin(l, "y", 1), Y, Y, {}) /\ Plan(End(l, "y", 1), {}, {}, Y)
      /\ Plan(Begin(l, "x", 1), X, X, {}) /\ Plan(End(l, "x", 1), {}, {}, X)
  BY PlanBegin DEF Axes, Depths
<1>2. X \cap Y = {}
  BY RealApart
<1> HIDE DEF X, Y
<1>3. Plan(Begin(l, "x", 1) \o Begin(l, "y", 1), X \cup Y, X \cup Y, {} \cup {})
  BY <1>1, <1>2, PlanJoin
<1>4. Plan(Begin(l, "x", 1) \o Begin(l, "y", 1) \o End(l, "x", 1),
           (X \cup Y) \cup {}, (X \cup Y) \cup {}, ({} \cup {}) \cup X)
  <2>1. (X \cup Y) \cap {} = {} /\ ({} \cup {}) \cap {} = {}
    OBVIOUS
  <2> QED
    BY <1>1, <1>3, <2>1, PlanJoin
<1>5. Plan(FaceExchange(l), (X \cup Y) \cup {} \cup {}, (X \cup Y) \cup {} \cup {}, ({} \cup {}) \cup X \cup Y)
  <2>1. ((X \cup Y) \cup {}) \cap {} = {} /\ (({} \cup {}) \cup X) \cap {} = {}
    OBVIOUS
  <2> QED
    BY <1>1, <1>4, <2>1, PlanJoin DEF FaceExchange
<1>6. (X \cup Y) \cup {} \cup {} = RealAxes(l) /\ ({} \cup {}) \cup X \cup Y = RealAxes(l)
  BY DEF RealAxes, X, Y
<1> QED
  BY <1>5, <1>6

(* The slice and the batch: singleton axes first, then one axis after the other.   *)
LEMMA PlanInTurn ==
  ASSUME NEW l, NEW f \in Families, NEW a \in Axes, NEW b \in Axes, a # b
  PROVE  Plan(FillSingletons(l, f) \o Active(l, a, f) \o Active(l, b, f),
              RealAxes(l), RealAxes(l), RealAxes(l))
<1> DEFINE A == Real(l, a)
           B == Real(l, b)
<1>1. /\ Plan(FillSingletons(l, f), {}, {}, {}) /\ Plan(Active(l, a, f), A, A, A)
      /\ Plan(Active(l, b, f), B, B, B)
  BY PlanSingletons, PlanActive
<1>2. A \cap B = {} /\ A \cup B = RealAxes(l)
  BY DEF Real, RealAxes, Axes
<1> HIDE DEF A, B
<1>3. Plan(FillSingletons(l, f) \o Active(l, a, f), {} \cup A, {} \cup A, {} \cup A)
  BY <1>1, PlanJoin
<1>4. Plan(FillSingletons(l, f) \o Active(l, a, f), A, A, A)
  BY <1>3
<1>5. Plan(FillSingletons(l, f) \o Active(l, a, f) \o Active(l, b, f), A \cup B, A \cup B, A \cup B)
  BY <1>1, <1>2, <1>4, PlanJoin
<1> QED
  BY <1>2, <1>5

LEMMA PlanMpi ==
  ASSUME NEW l, NEW kind \in Kinds
  PROVE  Plan(MpiExchange(l, kind), RealAxes(l), RealAxes(l), RealAxes(l))
<1>1. Halo \in Depths /\ 1 \in Depths /\ "SEND" \in Families /\ "SLICE_SEND" \in Families
      /\ "x" \in Axes /\ "y" \in Axes /\ "x" # "y"
  BY DEF Depths, Families, Axes
<1>2. CASE kind = "full"
  BY <1>1, <1>2, PlanFull DEF MpiExchange
<1>3. CASE kind = "shallow"
  BY <1>1, <1>3, PlanFull DEF MpiExchange
<1>4. CASE kind = "face"
  BY <1>1, <1>4, PlanFace DEF MpiExchange
<1>5. CASE kind = "slice"
  BY <1>1, <1>5, PlanInTurn DEF MpiExchange, SliceExchange
<1>6. CASE kind = "batch"
  BY <1>1, <1>6, PlanInTurn DEF MpiExchange, BatchExchange
<1> QED
  BY <1>2, <1>3, <1>4, <1>5, <1>6 DEF Kinds

LEMMA PlanTurn ==
  ASSUME layout \in Layouts, layout.lib = "mpi", NEW r, NEW g \in 1..Calls
  PROVE  Plan(Turn(r, g), RealAxes(layout), RealAxes(layout), RealAxes(layout))
<1> DEFINE R == RealAxes(layout)
           e == Exchange(r, layout.script[g])
           last == IF g = Calls THEN <<Stencil(g + 1)>> ELSE <<>>
<1>1. g \in Nat /\ g + 1 \in Nat
  BY LayoutFacts
<1>2. Plan(e, R, R, R)
  BY LayoutFacts, PlanMpi DEF Exchange
<1>3. Plan(<<Stencil(g)>>, {}, {}, {}) /\ Plan(last, {}, {}, {})
  BY <1>1, PlanStencil, PlanNothing
<1>4. Turn(r, g) = <<Stencil(g)>> \o e \o last
  BY DEF Turn
<1> HIDE DEF R, e, last
<1>5. Plan(<<Stencil(g)>> \o e, {} \cup R, {} \cup R, {} \cup R)
  BY <1>2, <1>3, PlanJoin
<1>6. Plan(<<Stencil(g)>> \o e, R, R, R)
  BY <1>5
<1>7. Plan(<<Stencil(g)>> \o e \o last, R \cup {}, R \cup {}, R \cup {})
  <2>1. R \cap {} = {}
    OBVIOUS
  <2> QED
    BY <1>3, <1>6, <2>1, PlanJoin
<1>8. Plan(<<Stencil(g)>> \o e \o last, R, R, R)
  BY <1>7
<1> QED
  BY <1>4, <1>8 DEF R

---------------------------------------------------------------------------------
(* The kernels NCCL's exchanges are made of.                                     *)
LEMMA RankFacts ==
  ASSUME layout \in Layouts, NEW r \in Ranks
  PROVE  /\ r[1] \in 0..layout.px - 1 /\ r[2] \in 0..layout.py - 1 /\ r = <<r[1], r[2]>>
         /\ \A s \in AllSides : Neighbour(r, s) \in Ranks
<1>1. layout.px \in Nat \ {0} /\ layout.py \in Nat \ {0}
  BY LayoutFacts
<1>2. r[1] \in 0..layout.px - 1 /\ r[2] \in 0..layout.py - 1 /\ r = <<r[1], r[2]>>
  BY DEF Ranks, RanksOf
<1>3. ASSUME NEW s \in AllSides PROVE Neighbour(r, s) \in Ranks
  <2>1. Shifted(r, s)[1] \in Int /\ Shifted(r, s)[2] \in Int
    BY <1>1, <1>2 DEF Shifted, Shift, AllSides
  <2>2. Shifted(r, s)[1] % layout.px \in 0..layout.px - 1 /\ Shifted(r, s)[2] % layout.py \in 0..layout.py - 1
    BY <1>1, <2>1
  <2> QED
    BY <2>2 DEF Neighbour, Ranks, RanksOf
<1> QED
  BY <1>2, <1>3

LEMMA NcclParts ==
  ASSUME layout \in Layouts, NEW r \in Ranks, NEW a \in Axes
  PROVE  /\ Prepare(r, a) \in Seq(NcclOps) /\ Split(r, a) \in Seq(NcclOps)
         /\ Sends(r, a) \in Seq(Payloads)
         /\ \A s, t \in Sides(a) : Recvs(r, a, s, t) \in Seq(Payloads)
<1>1. /\ Low(a) \in AllSides /\ High(a) \in AllSides /\ Sides(a) \subseteq AllSides
      /\ Low(a) \in Slots /\ High(a) \in Slots /\ Upper(a) \in Slots
  BY DEF Low, High, Upper, Slots, AllSides, Sides, Axes
<1>2. ASSUME NEW p \in {"send", "recv"}, NEW q \in {"send", "recv"}, NEW s \in Slots, NEW t \in Slots
      PROVE  Copy(<<p, s>>, <<q, t>>) \in NcclOps
  BY DEF Copy, NcclOps, Copies, Places
<1>3. \A s \in AllSides : Neighbour(r, s) \in Int \X Int
  BY RankFacts, LayoutFacts DEF Ranks, RanksOf
<1>4. ASSUME NEW s \in AllSides, NEW t \in Seq(Slots)
      PROVE  Payload(Neighbour(r, s), t) \in Payloads
  BY <1>3 DEF Payload, Payloads
<1>5. \A s \in Slots : <<s>> \in Seq(Slots)
  BY OneOp
<1>6. <<High(a), Upper(a)>> \in Seq(Slots)
  BY <1>1, TwoOps
<1>7. ASSUME NEW s \in AllSides PROVE ToSide(r, s) \in Seq(Payloads)
  <2>1. <<s>> \in Seq(Slots)
    BY <1>5 DEF Slots
  <2> QED
    BY <1>4, <2>1, OneOp, NoOp DEF ToSide
<1>8. Prepare(r, a) \in Seq(NcclOps)
  BY <1>1, <1>2, OneOp, TwoOps, NoOp DEF Prepare
<1>9. Split(r, a) \in Seq(NcclOps)
  BY <1>1, <1>2, TwoOps, NoOp DEF Split
<1>10. Sends(r, a) \in Seq(Payloads)
  <2>1. ToSide(r, High(a)) \o ToSide(r, Low(a)) \in Seq(Payloads)
    BY <1>1, <1>7, Joined
  <2>2. <<Payload(Neighbour(r, High(a)), <<High(a), Upper(a)>>)>> \in Seq(Payloads)
    BY <1>1, <1>4, <1>6, OneOp
  <2> QED
    BY <2>1, <2>2, NoOp DEF Sends
<1>11. ASSUME NEW s \in Sides(a), NEW t \in Sides(a) PROVE Recvs(r, a, s, t) \in Seq(Payloads)
  <2>1. ToSide(r, s) \o ToSide(r, t) \in Seq(Payloads)
    BY <1>1, <1>7, Joined
  <2>2. <<Payload(Neighbour(r, Low(a)), <<High(a), Upper(a)>>)>> \in Seq(Payloads)
    BY <1>1, <1>4, <1>6, OneOp
  <2> QED
    BY <2>1, <2>2, NoOp DEF Recvs
<1> QED
  BY <1>8, <1>9, <1>10, <1>11

LEMMA NcclMoves ==
  ASSUME NEW a \in Axes, NEW d \in Depths, NEW o \in {"fill", "periodic", "pack", "unpack"}
  PROVE  /\ Op(o, a, d) \in NcclOps /\ Interiorly(o, a) \in NcclOps
         /\ \A b \in BOOLEAN : [Op(o, a, d) EXCEPT !.always = b] \in NcclOps
BY DEF Op, Interiorly, NcclOps, Move, Depths

LEMMA GroupIsOp ==
  ASSUME NEW s \in Seq(Payloads), NEW t \in Seq(Payloads)
  PROVE  Group(s, t) \in Seq(NcclOps)
<1>1. [op |-> "group", sends |-> s, recvs |-> t] \in NcclOps
  BY DEF NcclOps, Groups
<1> QED
  BY <1>1, OneOp DEF Group

LEMMA NcclAxis ==
  ASSUME layout \in Layouts, NEW r \in Ranks, NEW a \in Axes, NEW d \in Depths, NEW always \in BOOLEAN
  PROVE  Axis(r, a, d, always) \in Seq(NcclOps)
<1>1. Low(a) \in Sides(a) /\ High(a) \in Sides(a)
  BY DEF Low, High, Sides
<1>2. Group(Sends(r, a), Recvs(r, a, Low(a), High(a))) \in Seq(NcclOps)
  BY <1>1, NcclParts, GroupIsOp
<1>3. <<Op("pack", a, d)>> \in Seq(NcclOps) /\ <<[Op("unpack", a, d) EXCEPT !.always = always]>> \in Seq(NcclOps)
  BY NcclMoves, OneOp
<1>4. <<Op("pack", a, d)>> \o Prepare(r, a) \in Seq(NcclOps)
  BY <1>3, NcclParts, Joined
<1>5. <<Op("pack", a, d)>> \o Prepare(r, a) \o Group(Sends(r, a), Recvs(r, a, Low(a), High(a))) \in Seq(NcclOps)
  BY <1>2, <1>4, Joined
<1>6. <<Op("pack", a, d)>> \o Prepare(r, a) \o Group(Sends(r, a), Recvs(r, a, Low(a), High(a)))
        \o Split(r, a) \in Seq(NcclOps)
  BY <1>5, NcclParts, Joined
<1>7. <<Op("pack", a, d)>> \o Prepare(r, a) \o Group(Sends(r, a), Recvs(r, a, Low(a), High(a)))
        \o Split(r, a) \o <<[Op("unpack", a, d) EXCEPT !.always = always]>> \in Seq(NcclOps)
  BY <1>3, <1>6, Joined
<1> QED
  BY <1>7, NoOp DEF Axis

LEMMA NcclWhole ==
  ASSUME layout \in Layouts, NEW r \in Ranks, NEW d \in Depths
  PROVE  /\ SingletonFills(d) \in Seq(NcclOps) /\ Periodic(d) \in Seq(NcclOps)
         /\ NcclFull(r, d) \in Seq(NcclOps)
         /\ \A a, b \in Axes, v \in BOOLEAN :
              SingletonFills(d) \o Axis(r, a, d, v) \o Axis(r, b, d, v) \in Seq(NcclOps)
<1>1. "x" \in Axes /\ "y" \in Axes /\ FALSE \in BOOLEAN
  BY DEF Axes
<1>2. \A a \in Axes : <<Op("fill", a, d)>> \in Seq(NcclOps) /\ Op("periodic", a, d) \in NcclOps
  BY NcclMoves, OneOp
<1>3. SingletonFills(d) \in Seq(NcclOps)
  BY <1>1, <1>2, NoOp, Joined DEF SingletonFills
<1>4. Periodic(d) \in Seq(NcclOps)
  BY <1>1, <1>2, TwoOps DEF Periodic
<1>5. ASSUME NEW a \in Axes, NEW b \in Axes, NEW v \in BOOLEAN
      PROVE  SingletonFills(d) \o Axis(r, a, d, v) \o Axis(r, b, d, v) \in Seq(NcclOps)
  <2>1. Axis(r, a, d, v) \in Seq(NcclOps) /\ Axis(r, b, d, v) \in Seq(NcclOps)
    BY NcclAxis
  <2>2. SingletonFills(d) \o Axis(r, a, d, v) \in Seq(NcclOps)
    BY <1>3, <2>1, Joined
  <2> QED
    BY <2>1, <2>2, Joined
<1>6. NcclFull(r, d) \in Seq(NcclOps)
  BY <1>1, <1>4, <1>5 DEF NcclFull
<1> QED
  BY <1>3, <1>4, <1>5, <1>6

LEMMA NcclFaceOps ==
  ASSUME layout \in Layouts, NEW r \in Ranks
  PROVE  NcclFace(r) \in Seq(NcclOps)
<1> DEFINE packs == <<Interiorly("pack", "x"), Interiorly("pack", "y")>>
           unpacks == <<Interiorly("unpack", "x"), Interiorly("unpack", "y")>>
           px == Prepare(r, "x")
           py == Prepare(r, "y")
           group == Group(Sends(r, "x") \o Sends(r, "y"),
                          Recvs(r, "x", "right", "left") \o Recvs(r, "y", "top", "bottom"))
           sx == Split(r, "x")
           sy == Split(r, "y")
<1>1. "x" \in Axes /\ "y" \in Axes /\ 1 \in Depths
  BY DEF Axes, Depths
<1>2. packs \in Seq(NcclOps) /\ unpacks \in Seq(NcclOps)
  BY <1>1, NcclMoves, TwoOps
<1>3. px \in Seq(NcclOps) /\ py \in Seq(NcclOps) /\ sx \in Seq(NcclOps) /\ sy \in Seq(NcclOps)
  BY <1>1, NcclParts
<1>4. group \in Seq(NcclOps)
  <2>1. "right" \in Sides("x") /\ "left" \in Sides("x") /\ "top" \in Sides("y") /\ "bottom" \in Sides("y")
    BY DEF Sides
  <2>2. Sends(r, "x") \o Sends(r, "y") \in Seq(Payloads)
    BY <1>1, NcclParts, Joined
  <2>3. Recvs(r, "x", "right", "left") \o Recvs(r, "y", "top", "bottom") \in Seq(Payloads)
    BY <1>1, <2>1, NcclParts, Joined
  <2> QED
    BY <2>2, <2>3, GroupIsOp
<1>5. NcclFace(r) = IF SingleRank \/ AnySingleton THEN NcclFull(r, 1)
                    ELSE packs \o px \o py \o group \o sx \o sy \o unpacks
  BY DEF NcclFace
<1> HIDE DEF packs, unpacks, px, py, group, sx, sy
<1>6. packs \o px \o py \in Seq(NcclOps)
  BY <1>2, <1>3, Joined
<1>7. packs \o px \o py \o group \o sx \in Seq(NcclOps)
  BY <1>3, <1>4, <1>6, Joined
<1>8. packs \o px \o py \o group \o sx \o sy \o unpacks \in Seq(NcclOps)
  BY <1>2, <1>3, <1>7, Joined
<1> QED
  BY <1>1, <1>5, <1>8, NcclWhole

LEMMA NcclTurn ==
  ASSUME layout \in Layouts, layout.lib # "mpi", NEW r \in Ranks, NEW g \in 1..Calls
  PROVE  Turn(r, g) \in Seq(NcclOps)
<1> DEFINE kind == layout.script[g]
           last == IF g = Calls THEN <<Stencil(g + 1)>> ELSE <<>>
           sync == IF Synchronizes(kind) THEN <<[op |-> "sync"]>> ELSE <<>>
<1>1. kind \in Kinds /\ Halo \in Depths /\ 1 \in Depths /\ "x" \in Axes /\ "y" \in Axes
      /\ SingleRank \in BOOLEAN /\ FALSE \in BOOLEAN
  BY LayoutFacts DEF Depths, Axes, SingleRank
<1>2. NcclKernels(r, kind) \in Seq(NcclOps)
  <2>1. CASE kind = "full"
    BY <1>1, <2>1, NcclWhole DEF NcclKernels
  <2>2. CASE kind = "shallow"
    BY <1>1, <2>2, NcclWhole DEF NcclKernels, NcclPlanes
  <2>3. CASE kind = "face"
    BY <2>3, NcclFaceOps DEF NcclKernels
  <2>4. CASE kind = "slice"
    <3>1. NcclSlice(r) \in Seq(NcclOps)
      BY <1>1, NcclWhole DEF NcclSlice
    <3> QED
      BY <2>4, <3>1 DEF NcclKernels
  <2>5. CASE kind = "batch"
    <3>1. NcclBatch(r) \in Seq(NcclOps)
      BY <1>1, NcclWhole DEF NcclBatch
    <3> QED
      BY <2>5, <3>1 DEF NcclKernels
  <2> QED
    BY <1>1, <2>1, <2>2, <2>3, <2>4, <2>5 DEF Kinds
<1>3. sync \in Seq(NcclOps)
  <2>1. [op |-> "sync"] \in NcclOps
    BY DEF NcclOps
  <2> QED
    BY <2>1, OneOp, NoOp
<1>4. \A n \in Nat : <<Stencil(n)>> \in Seq(NcclOps)
  <2>1. \A n \in Nat : Stencil(n) \in NcclOps
    BY DEF Stencil, NcclOps, Stencils
  <2> QED
    BY <2>1, OneOp
<1>5. last \in Seq(NcclOps) /\ <<Stencil(g)>> \in Seq(NcclOps)
  <2>1. g \in Nat /\ g + 1 \in Nat
    BY LayoutFacts
  <2> QED
    BY <1>4, <2>1, NoOp
<1>6. NcclKernels(r, kind) \o sync \in Seq(NcclOps)
  BY <1>2, <1>3, Joined
<1>7. Turn(r, g) = <<Stencil(g)>> \o (NcclKernels(r, kind) \o sync) \o last
  BY DEF Turn, Exchange, NcclExchange
<1> HIDE DEF sync, last
<1>8. <<Stencil(g)>> \o (NcclKernels(r, kind) \o sync) \in Seq(NcclOps)
  BY <1>5, <1>6, Joined
<1> QED
  BY <1>5, <1>7, <1>8, Joined

---------------------------------------------------------------------------------
(* The strengthening of BuffersNotRaced: what is left to the host packs an axis    *)
(* before it posts it and waits for it after that, and while a side of an axis    *)
(* has a request in flight the host is still to wait for the axis, and to pack    *)
(* nothing for it before that.                                                 *)
Flying(r) == sending[r] \cup receiving[r]

Orderly(s) == \A a \in Axes : \A j \in At(s, "post", a) :
  /\ \A i \in At(s, "pack", a) : i < j
  /\ \E k \in At(s, "wait", a) : j < k

HostOk(s, flying) ==
  /\ Orderly(s)
  /\ \A a \in Axes : flying \cap Sides(a) # {} => At(s, "pack", a) = {} /\ At(s, "wait", a) # {}

NotRaced(r) == \A i \in 1..Len(queue[r]) :
  /\ queue[r][i].op = "pack" => sending[r] \cap Sides(queue[r][i].axis) = {}
  /\ queue[r][i].op = "unpack" => receiving[r] \cap Sides(queue[r][i].axis) = {}

Local(r) ==
  /\ IF layout.lib = "mpi" THEN HostOk(todo[r], Flying(r)) ELSE Flying(r) = {}
  /\ NotRaced(r)

ExchangeInv == Typed /\ \A r \in Ranks : Local(r)

LEMMA PlanIsOrderly ==
  ASSUME NEW s, NEW p, NEW w, Plan(s, p, w, w)
  PROVE  Orderly(s)
<1> SUFFICES ASSUME NEW a \in Axes, NEW j \in At(s, "post", a)
             PROVE  /\ \A i \in At(s, "pack", a) : i < j
                    /\ \E k \in At(s, "wait", a) : j < k
  BY DEF Orderly
<1>1. \A i \in At(s, "pack", a) : i < j
  BY DEF Plan, InOrder
<1>2. a \in Does(s, "post") /\ a \in Does(s, "wait")
  BY DEF Plan, Does
<1>3. PICK k : k \in At(s, "wait", a)
  BY <1>2 DEF Does
<1>4. j < k
  BY <1>3 DEF Plan, InOrder
<1> QED
  BY <1>1, <1>3, <1>4

(* What is left after the first n operations.                                   *)
LEMMA AtRest ==
  ASSUME NEW S, NEW s \in Seq(S), NEW n \in 0..Len(s)
  PROVE  /\ SubSeq(s, n + 1, Len(s)) \in Seq(S)
         /\ \A o, a : \A i \in At(SubSeq(s, n + 1, Len(s)), o, a) : i \in Nat /\ i + n \in At(s, o, a)
         /\ \A o, a : \A i \in At(s, o, a) : i > n => i - n \in At(SubSeq(s, n + 1, Len(s)), o, a)
<1> DEFINE m == Len(s)
           t == SubSeq(s, n + 1, m)
<1>1. m \in Nat /\ n \in Nat /\ n <= m
  BY LenProperties
<1>2. \A i \in n + 1..m : s[i] \in S
  <2>1. \A i \in n + 1..m : i \in 1..m
    BY <1>1
  <2> QED
    BY <2>1, ElementOfSeq
<1>3. /\ t \in Seq(S) /\ Len(t) = (IF n + 1 <= m THEN m - (n + 1) + 1 ELSE 0)
      /\ \A i \in 1..m - (n + 1) + 1 : t[i] = s[(n + 1) + i - 1]
  <2> HIDE DEF m, t
  <2>1. n + 1 \in Int /\ m \in Int
    BY <1>1
  <2> QED
    BY <1>2, <2>1, SubSeqProperties DEF t
<1> HIDE DEF m, t
<1>4. Len(t) = m - n /\ \A i \in 1..m - n : i + n \in 1..m /\ t[i] = s[i + n]
  <2>1. m - (n + 1) + 1 = m - n
    BY <1>1
  <2>2. ASSUME NEW i \in 1..m - n PROVE i + n \in 1..m /\ (n + 1) + i - 1 = i + n
    BY <1>1
  <2>3. Len(t) = m - n
    BY <1>1, <1>3
  <2> QED
    BY <1>3, <2>1, <2>2, <2>3
<1>5. ASSUME NEW o, NEW a, NEW i \in At(t, o, a) PROVE i \in Nat /\ i + n \in At(s, o, a)
  <2>1. i \in 1..m - n /\ t[i].op = o /\ t[i].axis = a
    BY <1>4 DEF At
  <2>2. t[i] = s[i + n] /\ i + n \in 1..m
    BY <1>4, <2>1
  <2>3. s[i + n].op = o /\ s[i + n].axis = a
    BY <2>1, <2>2
  <2>4. i \in Nat
    BY <1>1, <2>1
  <2> QED
    BY <2>2, <2>3, <2>4 DEF At, m
<1>6. ASSUME NEW o, NEW a, NEW i \in At(s, o, a), i > n PROVE i - n \in At(t, o, a)
  <2>1. i \in 1..m /\ s[i].op = o /\ s[i].axis = a
    BY DEF At, m
  <2>2. i - n \in 1..m - n /\ (i - n) + n = i
    BY <1>1, <1>6, <2>1
  <2>3. t[i - n] = s[i]
    BY <1>4, <2>2
  <2>4. t[i - n].op = o /\ t[i - n].axis = a
    BY <2>1, <2>3
  <2>5. i - n \in 1..Len(t)
    BY <1>4, <2>2
  <2> QED
    BY <2>4, <2>5 DEF At
<1> QED
  BY <1>3, <1>5, <1>6 DEF t, m

(* A host that goes on, past operations none of which waits for a side in flight.  *)
LEMMA HostGoesOn ==
  ASSUME NEW S, NEW s \in Seq(S), NEW n \in 0..Len(s), NEW flying, HostOk(s, flying),
         \A i \in 1..n : s[i].op = "wait" => flying \cap Sides(s[i].axis) = {}
  PROVE  HostOk(SubSeq(s, n + 1, Len(s)), flying)
<1> DEFINE t == SubSeq(s, n + 1, Len(s))
<1>1. /\ \A o, a : \A i \in At(t, o, a) : i \in Nat /\ i + n \in At(s, o, a)
      /\ \A o, a : \A i \in At(s, o, a) : i > n => i - n \in At(t, o, a)
      /\ n \in Nat
  BY AtRest, LenProperties
<1> HIDE DEF t
<1>2. ASSUME NEW a \in Axes, NEW j \in At(t, "post", a)
      PROVE  /\ \A i \in At(t, "pack", a) : i < j
             /\ \E k \in At(t, "wait", a) : j < k
  <2>1. j \in Nat /\ j + n \in At(s, "post", a)
    BY <1>1
  <2>2. ASSUME NEW i \in At(t, "pack", a) PROVE i < j
    <3>1. i \in Nat /\ i + n \in At(s, "pack", a)
      BY <1>1
    <3>2. i + n < j + n
      BY <2>1, <3>1 DEF HostOk, Orderly
    <3> QED
      BY <1>1, <2>1, <3>1, <3>2
  <2>3. PICK k \in At(s, "wait", a) : j + n < k
    BY <2>1 DEF HostOk, Orderly
  <2>4. k \in Nat /\ k > n /\ j < k - n
    BY <1>1, <2>1, <2>3 DEF At
  <2>5. k - n \in At(t, "wait", a)
    BY <1>1, <2>4
  <2> QED
    BY <2>2, <2>4, <2>5
<1>3. ASSUME NEW a \in Axes, flying \cap Sides(a) # {}
      PROVE  At(t, "pack", a) = {} /\ At(t, "wait", a) # {}
  <2>1. At(s, "pack", a) = {} /\ At(s, "wait", a) # {}
    BY <1>3 DEF HostOk
  <2>2. At(t, "pack", a) = {}
    BY <1>1, <2>1
  <2>3. PICK k : k \in At(s, "wait", a)
    BY <2>1
  <2>4. k \in 1..Len(s) /\ s[k].op = "wait" /\ s[k].axis = a
    BY <2>3 DEF At
  <2>5. k > n
    <3>1. k \notin 1..n
      BY <1>3, <2>4
    <3> QED
      BY <1>1, <2>4, <3>1
  <2>6. k - n \in At(t, "wait", a)
    BY <1>1, <2>3, <2>5
  <2> QED
    BY <2>2, <2>6
<1>4. Orderly(t)
  BY <1>2 DEF Orderly
<1> QED
  BY <1>3, <1>4 DEF HostOk, t

---------------------------------------------------------------------------------
(* Steps.                                                                     *)
LEMMA Rigid ==
  ASSUME layout' = layout
  PROVE  Ranks' = Ranks /\ OpsOf' = OpsOf /\ Calls' = Calls /\ \A r : Cells(r)' = Cells(r)
BY DEF Ranks, OpsOf, Calls, Cells, SizeX, SizeY

(* A step of one rank that keeps the types keeps the invariant if it does so at    *)
(* that rank.                                                                  *)
LEMMA LocalStep ==
  ASSUME ExchangeInv, Typed', layout' = layout, NEW r \in Ranks, Local(r)',
         \A q \in Ranks : q # r => /\ todo'[q] = todo[q] /\ queue'[q] = queue[q]
                                   /\ sending'[q] = sending[q] /\ receiving'[q] = receiving[q]
  PROVE  ExchangeInv'
<1>1. Ranks' = Ranks
  BY Rigid
<1>2. ASSUME NEW q \in Ranks, q # r PROVE Local(q)'
  BY <1>2, ZenonT(40) DEF ExchangeInv, Local, Flying, NotRaced
<1> QED
  BY <1>1, <1>2 DEF ExchangeInv

LEMMA KernelFacts ==
  ASSUME ExchangeInv, NEW r \in Ranks, queue[r] # <<>>
  PROVE  /\ queue[r] \in Seq(Kernels) /\ Len(queue[r]) \in Nat \ {0}
         /\ Kernel(r) = queue[r][1] /\ Kernel(r) \in Kernels
         /\ Tail(queue[r]) \in Seq(Kernels) /\ Len(Tail(queue[r])) = Len(queue[r]) - 1
         /\ \A i \in 1..Len(queue[r]) - 1 : Tail(queue[r])[i] = queue[r][i + 1]
<1>1. queue[r] \in Seq(Kernels)
  BY DEF ExchangeInv, Typed
<1>2. Len(queue[r]) \in Nat \ {0}
  BY <1>1, EmptySeq
<1>3. Kernel(r) = queue[r][1] /\ Kernel(r) \in Kernels
  BY <1>1, HeadTailProperties DEF Kernel
<1> QED
  BY <1>1, <1>2, <1>3, HeadTailProperties

(* The device has run a kernel.                                                *)
LEMMA KernelRun ==
  ASSUME ExchangeInv, NEW r \in Ranks, queue[r] # <<>>,
         queue' = [queue EXCEPT ![r] = Tail(queue[r])],
         UNCHANGED <<layout, todo, sending, receiving, called>>,
         DOMAIN field' = DOMAIN field, \A q \in Ranks : DOMAIN field'[q] = Cells(q)
  PROVE  ExchangeInv'
<1>1. /\ queue'[r] = Tail(queue[r]) /\ queue' \in [Ranks -> Seq(Kernels)]
      /\ \A q \in Ranks : q # r => queue'[q] = queue[q]
  BY KernelFacts DEF ExchangeInv, Typed
<1>2. Typed'
  BY <1>1, Rigid DEF ExchangeInv, Typed
<1>3. NotRaced(r)'
  <2> SUFFICES ASSUME NEW i \in 1..Len(queue'[r])
               PROVE  /\ queue'[r][i].op = "pack" => sending[r] \cap Sides(queue'[r][i].axis) = {}
                      /\ queue'[r][i].op = "unpack" => receiving[r] \cap Sides(queue'[r][i].axis) = {}
    BY DEF NotRaced
  <2>1. i + 1 \in 1..Len(queue[r]) /\ queue'[r][i] = queue[r][i + 1]
    BY <1>1, KernelFacts
  <2> QED
    BY <2>1 DEF ExchangeInv, Local, NotRaced
<1>4. Local(r)'
  BY <1>3 DEF ExchangeInv, Local, Flying
<1> QED
  BY <1>1, <1>2, <1>4, LocalStep

LEMMA Device ==
  ASSUME ExchangeInv, NEW r \in Ranks, called' = called,
         RunStencil(r) \/ RunFill(r) \/ RunPack(r) \/ RunUnpack(r) \/ RunCopy(r) \/ GroupEnd(r)
  PROVE  ExchangeInv'
<1>1. /\ UNCHANGED <<layout, todo, sending, receiving>>
      /\ queue[r] # <<>> /\ queue' = [queue EXCEPT ![r] = Tail(queue[r])]
  <2>1. CASE RunStencil(r)
    BY <2>1, Zenon DEF RunStencil, Runs, AtHead
  <2>2. CASE RunFill(r)
    BY <2>2, Zenon DEF RunFill, Runs, AtHead
  <2>3. CASE RunPack(r)
    BY <2>3, Zenon DEF RunPack, Runs, AtHead
  <2>4. CASE RunUnpack(r)
    BY <2>4, Zenon DEF RunUnpack, Runs, AtHead
  <2>5. CASE RunCopy(r)
    BY <2>5, Zenon DEF RunCopy, Runs, AtHead
  <2>6. CASE GroupEnd(r)
    BY <2>6, Zenon DEF GroupEnd, Runs, AtHead
  <2> QED
    BY <2>1, <2>2, <2>3, <2>4, <2>5, <2>6
<1>2. field' = field \/ \E f : DOMAIN f = Cells(r) /\ field' = [field EXCEPT ![r] = f]
  <2>1. CASE RunStencil(r)
    <3> DEFINE f == [c \in Cells(r) |-> IF c \in Interior(r) THEN ValueAt(r, c, Kernel(r).gen)
                                                             ELSE field[r][c]]
    <3>1. field' = [field EXCEPT ![r] = f]
      BY <2>1, Zenon DEF RunStencil
    <3>2. DOMAIN f = Cells(r)
      OBVIOUS
    <3> QED
      BY <3>1, <3>2
  <2>2. CASE RunFill(r)
    <3> DEFINE d == Kernel(r).depth
               k == IF Kernel(r).axis = "x" THEN 1 ELSE 2
               size == IF Kernel(r).op = "fill" THEN 1 ELSE IF k = 1 THEN SizeX(r) ELSE SizeY(r)
               f == [c \in Cells(r) |->
                       IF c[k] - Halo \in (-d..size + d - 1) \ (0..size - 1)
                         THEN field[r][[c EXCEPT ![k] = Halo + ((c[k] - Halo) % size)]]
                         ELSE field[r][c]]
    <3>1. field' = [field EXCEPT ![r] = f]
      BY <2>2, Zenon DEF RunFill
    <3>2. DOMAIN f = Cells(r)
      OBVIOUS
    <3> QED
      BY <3>1, <3>2
  <2>3. CASE RunUnpack(r)
    <3> DEFINE k == IF Kernel(r).axis = "x" THEN 1 ELSE 2
               spot(s, c) == <<c[k] - HaloFrom(r, s, Kernel(r).depth), c[3 - k]>>
               landing(c) == {s \in Sides(Kernel(r).axis) :
                               (HasNeighbour(r, s) \/ Kernel(r).always) /\ Moves(r, spot(s, c))}
               f == [c \in Cells(r) |->
                       IF landing(c) = {} THEN field[r][c]
                       ELSE LET s == CHOOSE s \in landing(c) : TRUE IN recvbuf[r][s][spot(s, c)]]
    <3>1. field' = [field EXCEPT ![r] = f]
      BY <2>3, Zenon DEF RunUnpack
    <3>2. DOMAIN f = Cells(r)
      OBVIOUS
    <3> QED
      BY <3>1, <3>2
  <2>4. CASE RunPack(r) \/ RunCopy(r) \/ GroupEnd(r)
    BY <2>4, Zenon DEF RunPack, RunCopy, GroupEnd
  <2> QED
    BY <2>1, <2>2, <2>3, <2>4
<1>3. DOMAIN field' = DOMAIN field /\ \A q \in Ranks : DOMAIN field'[q] = Cells(q)
  BY <1>2 DEF ExchangeInv, Typed
<1> QED
  BY <1>1, <1>3, KernelRun

(* A message of a group has left or arrived.                                    *)
LEMMA GroupGoesOn ==
  ASSUME ExchangeInv, NEW r \in Ranks, called' = called, GroupSend(r) \/ GroupReceive(r)
  PROVE  ExchangeInv'
<1>1. UNCHANGED <<layout, todo, field, sending, receiving>> /\ queue[r] # <<>> /\ Kernel(r).op = "group"
  <2>1. CASE GroupSend(r)
    BY <2>1, Zenon DEF GroupSend, AtHead
  <2>2. CASE GroupReceive(r)
    BY <2>2, Zenon DEF GroupReceive, AtHead
  <2> QED
    BY <2>1, <2>2
<1>2. Kernel(r) \in Groups
  BY <1>1, KernelFacts DEF Kernels, MpiMove, Move, Copies, Stencils
<1>3. PICK g \in Groups : LeftOf(r, g)
  <2>1. \A ops \in Seq(Payloads) : \A k \in DOMAIN ops : RemoveAt(ops, k) \in Seq(Payloads)
    <3> SUFFICES ASSUME NEW ops \in Seq(Payloads), NEW k \in DOMAIN ops PROVE RemoveAt(ops, k) \in Seq(Payloads)
      OBVIOUS
    <3>1. k \in 1..Len(ops) /\ Len(ops) \in Nat
      BY LenProperties
    <3>2. \A j \in 1..k - 1 : ops[j] \in Payloads
      <4>1. \A j \in 1..k - 1 : j \in 1..Len(ops)
        BY <3>1
      <4> QED
        BY <4>1, ElementOfSeq
    <3>3. \A j \in k + 1..Len(ops) : ops[j] \in Payloads
      <4>1. \A j \in k + 1..Len(ops) : j \in 1..Len(ops)
        BY <3>1
      <4> QED
        BY <4>1, ElementOfSeq
    <3>4. k - 1 \in Int /\ k + 1 \in Int /\ 1 \in Int /\ Len(ops) \in Int
      BY <3>1
    <3>5. SubSeq(ops, 1, k - 1) \in Seq(Payloads)
      BY <3>2, <3>4, SubSeqProperties
    <3>6. SubSeq(ops, k + 1, Len(ops)) \in Seq(Payloads)
      BY <3>3, <3>4, SubSeqProperties
    <3> QED
      BY <3>5, <3>6, Joined DEF RemoveAt
  <2>2. \A t \in Seq(Payloads) : /\ [Kernel(r) EXCEPT !.sends = t] \in Groups
                                 /\ [Kernel(r) EXCEPT !.recvs = t] \in Groups
    BY <1>2 DEF Groups
  <2>3. Kernel(r).sends \in Seq(Payloads) /\ Kernel(r).recvs \in Seq(Payloads)
    BY <1>2 DEF Groups
  <2>4. CASE GroupSend(r)
    <3>1. PICK k \in DOMAIN Kernel(r).sends : LeftOf(r, [Kernel(r) EXCEPT !.sends = RemoveAt(Kernel(r).sends, k)])
      BY <2>4, Zenon DEF GroupSend
    <3> QED
      BY <2>1, <2>2, <2>3, <3>1
  <2>5. CASE GroupReceive(r)
    <3>1. PICK k \in DOMAIN Kernel(r).recvs : LeftOf(r, [Kernel(r) EXCEPT !.recvs = RemoveAt(Kernel(r).recvs, k)])
      BY <2>5, Zenon DEF GroupReceive
    <3> QED
      BY <2>1, <2>2, <2>3, <3>1
  <2> QED
    BY <2>4, <2>5
<1> DEFINE s == [queue[r] EXCEPT ![1] = g]
<1>4. s \in Seq(Kernels) /\ Len(s) = Len(queue[r]) /\ s[1] = g
      /\ \A k \in 1..Len(queue[r]) : k # 1 => s[k] = queue[r][k]
  <2>1. 1 \in 1..Len(queue[r]) /\ queue[r] \in Seq(Kernels) /\ g \in Kernels
    BY <1>1, <1>3, KernelFacts DEF Kernels
  <2>2. s \in Seq(Kernels) /\ Len(s) = Len(queue[r])
    BY <2>1, ExceptSeq
  <2> QED
    BY <2>1, <2>2
<1> HIDE DEF s
<1>5. queue' = [queue EXCEPT ![r] = s]
  BY <1>3 DEF LeftOf, s
<1>6. queue'[r] = s /\ queue' \in [Ranks -> Seq(Kernels)] /\ \A q \in Ranks : q # r => queue'[q] = queue[q]
  BY <1>4, <1>5 DEF ExchangeInv, Typed
<1>7. Typed'
  BY <1>1, <1>6, Rigid DEF ExchangeInv, Typed
<1>8. NotRaced(r)'
  <2> SUFFICES ASSUME NEW k \in 1..Len(s)
               PROVE  /\ s[k].op = "pack" => sending[r] \cap Sides(s[k].axis) = {}
                      /\ s[k].op = "unpack" => receiving[r] \cap Sides(s[k].axis) = {}
    BY <1>1, <1>6 DEF NotRaced
  <2>1. CASE k = 1
    BY <1>3, <1>4, <2>1 DEF Groups
  <2>2. CASE k # 1
    BY <1>4, <2>2 DEF ExchangeInv, Local, NotRaced
  <2> QED
    BY <2>1, <2>2
<1>9. Local(r)'
  BY <1>1, <1>8 DEF ExchangeInv, Local, Flying
<1> QED
  BY <1>1, <1>6, <1>7, <1>9, LocalStep

(* The host launches what it can of the operations before it.                     *)
LEMMA Launches ==
  ASSUME ExchangeInv, NEW r \in Ranks, NEW ops \in Seq(OpsOf), LaunchOf(r, ops),
         layout.lib = "mpi" => HostOk(ops, Flying(r)),
         called' \in [Ranks -> 0..Calls]
  PROVE  ExchangeInv'
<1>1. UNCHANGED <<layout, field, sending, receiving>>
  BY DEF LaunchOf
<1>2. PICK n \in 1..Len(ops) : /\ Launchable(ops, n)
                              /\ queue' = [queue EXCEPT ![r] = queue[r] \o SubSeq(ops, 1, n)]
                              /\ todo' = [todo EXCEPT ![r] = SubSeq(ops, n + 1, Len(ops))]
  BY DEF LaunchOf
<1> DEFINE u == SubSeq(ops, 1, n)
           t == SubSeq(ops, n + 1, Len(ops))
<1>3. n \in 0..Len(ops) /\ n \in Nat /\ Len(ops) \in Nat /\ n <= Len(ops)
  BY LenProperties
<1>4. \A i \in 1..n : i \in 1..Len(ops) /\ ops[i] \in OpsOf /\ ops[i].op \in KernelOps /\ ops[i] \in Kernels
  <2>1. \A i \in 1..n : i \in 1..Len(ops)
    BY <1>3
  <2>2. \A i \in 1..n : ops[i].op \in KernelOps
    BY <1>2 DEF Launchable
  <2> QED
    BY <2>1, <2>2, ElementOfSeq, KernelsAreOps
<1>5. u \in Seq(Kernels) /\ Len(u) = n /\ \A i \in 1..n : u[i] = ops[i]
  <2>1. n \in Int /\ 1 \in Int /\ \A i \in 1..n : ops[i] \in Kernels
    BY <1>3, <1>4
  <2>2. /\ u \in Seq(Kernels) /\ Len(u) = (IF 1 <= n THEN n - 1 + 1 ELSE 0)
        /\ \A i \in 1..n - 1 + 1 : u[i] = ops[1 + i - 1]
    <3> HIDE DEF u
    <3> QED
      BY <2>1, SubSeqProperties DEF u
  <2>3. n - 1 + 1 = n /\ \A i \in 1..n : 1 + i - 1 = i
    BY <1>3
  <2> HIDE DEF u
  <2> QED
    BY <1>3, <2>2, <2>3
<1>6. t \in Seq(OpsOf)
  BY <1>3, AtRest
<1> HIDE DEF u, t
<1>7. queue'[r] = queue[r] \o u /\ todo'[r] = t
      /\ \A q \in Ranks : q # r => queue'[q] = queue[q] /\ todo'[q] = todo[q]
  BY <1>2 DEF u, t, ExchangeInv, Typed
<1>8. queue[r] \in Seq(Kernels) /\ Len(queue[r]) \in Nat
  BY LenProperties DEF ExchangeInv, Typed
<1>9. Typed'
  <2>1. queue[r] \o u \in Seq(Kernels)
    BY <1>5, <1>8, Joined
  <2>2. queue' = [queue EXCEPT ![r] = queue[r] \o u] /\ todo' = [todo EXCEPT ![r] = t]
    BY <1>2 DEF u, t
  <2>3. queue' \in [Ranks -> Seq(Kernels)] /\ todo' \in [Ranks -> Seq(OpsOf)]
    BY <1>6, <2>1, <2>2 DEF ExchangeInv, Typed
  <2> QED
    BY <1>1, <2>3, Rigid DEF ExchangeInv, Typed
<1>10. ASSUME NEW i \in 1..n
       PROVE  /\ u[i].op = "pack" => sending[r] \cap Sides(u[i].axis) = {}
              /\ u[i].op = "unpack" => receiving[r] \cap Sides(u[i].axis) = {}
  <2>1. CASE layout.lib = "mpi"
    <3>1. u[i] \in MpiOps /\ u[i] \in Kernels /\ i \in 1..Len(ops) /\ u[i] = ops[i]
      BY <1>4, <1>5, <2>1 DEF OpsOf
    <3>2. u[i].op # "unpack"
      BY <3>1 DEF MpiOps, MpiMove, Stencils
    <3>3. u[i].op = "pack" => u[i].axis \in Axes /\ i \in At(ops, "pack", u[i].axis)
      BY <3>1, KernelsAreOps DEF At
    <3>4. u[i].op = "pack" => Flying(r) \cap Sides(u[i].axis) = {}
      BY <2>1, <3>3 DEF HostOk
    <3> QED
      BY <3>2, <3>4 DEF Flying
  <2>2. CASE layout.lib # "mpi"
    BY <2>2 DEF ExchangeInv, Local, Flying
  <2> QED
    BY <2>1, <2>2
<1>11. NotRaced(r)'
  <2> DEFINE s == queue[r] \o u
             m == Len(queue[r])
  <2>1. /\ Len(s) = m + n /\ m \in Nat
        /\ \A i \in 1..m + n : s[i] = IF i <= m THEN queue[r][i] ELSE u[i - m]
    BY <1>5, <1>8, ConcatProperties, ZenonT(40)
  <2> HIDE DEF s
  <2> SUFFICES ASSUME NEW i \in 1..m + n
               PROVE  /\ s[i].op = "pack" => sending[r] \cap Sides(s[i].axis) = {}
                      /\ s[i].op = "unpack" => receiving[r] \cap Sides(s[i].axis) = {}
    BY <1>1, <1>7, <2>1 DEF NotRaced, s
  <2>2. CASE i <= m
    <3>1. i \in 1..m /\ s[i] = queue[r][i]
      BY <2>1, <2>2
    <3> QED
      BY <3>1 DEF ExchangeInv, Local, NotRaced
  <2>3. CASE ~(i <= m)
    <3>1. i - m \in 1..n /\ s[i] = u[i - m]
      BY <1>3, <2>1, <2>3
    <3> QED
      BY <1>10, <3>1
  <2> QED
    BY <2>2, <2>3
<1>12. layout.lib = "mpi" => HostOk(t, Flying(r))
  <2>1. "wait" \notin KernelOps
    BY DEF KernelOps
  <2> QED
    BY <1>3, <1>4, <2>1, HostGoesOn DEF t
<1>13. Local(r)'
  <2>1. Flying(r)' = Flying(r) /\ layout' = layout
    BY <1>1 DEF Flying
  <2>2. IF layout'.lib = "mpi" THEN HostOk(todo'[r], Flying(r)') ELSE Flying(r)' = {}
    BY <1>7, <1>12, <2>1 DEF ExchangeInv, Local
  <2> QED
    BY <1>11, <2>2 DEF Local
<1> QED
  BY <1>1, <1>7, <1>9, <1>13, LocalStep

LEMMA Calling ==
  ASSUME ExchangeInv, NEW r \in Ranks, Call(r)
  PROVE  ExchangeInv'
<1>1. /\ todo[r] = <<>> /\ called[r] < Calls /\ called' = [called EXCEPT ![r] = called[r] + 1]
      /\ LaunchOf(r, Turn(r, called[r] + 1))
  BY DEF Call
<1>2. layout \in Layouts /\ Calls \in Nat /\ called \in [Ranks -> 0..Calls]
  BY LayoutFacts DEF ExchangeInv, Typed
<1>3. called[r] + 1 \in 1..Calls /\ called' \in [Ranks -> 0..Calls]
  BY <1>1, <1>2
<1>4. CASE layout.lib = "mpi"
  <2>1. Plan(Turn(r, called[r] + 1), RealAxes(layout), RealAxes(layout), RealAxes(layout))
    BY <1>2, <1>3, <1>4, PlanTurn
  <2>2. Turn(r, called[r] + 1) \in Seq(OpsOf)
    BY <1>4, <2>1 DEF Plan, OpsOf
  <2>3. \A a \in Axes : Flying(r) \cap Sides(a) = {}
    <3>1. \A a : At(todo[r], "wait", a) = {}
      BY <1>1 DEF At
    <3> QED
      BY <1>4, <3>1 DEF ExchangeInv, Local, HostOk
  <2>4. HostOk(Turn(r, called[r] + 1), Flying(r))
    BY <2>1, <2>3, PlanIsOrderly DEF HostOk
  <2> QED
    BY <1>1, <1>3, <2>2, <2>4, Launches
<1>5. CASE layout.lib # "mpi"
  <2>1. Turn(r, called[r] + 1) \in Seq(OpsOf)
    BY <1>2, <1>3, <1>5, NcclTurn DEF OpsOf
  <2> QED
    BY <1>1, <1>3, <1>5, <2>1, Launches
<1> QED
  BY <1>4, <1>5

(* The host has done an operation that is not a kernel.                            *)
LEMMA HostFacts ==
  ASSUME ExchangeInv, NEW r \in Ranks, todo[r] # <<>>
  PROVE  /\ todo[r] \in Seq(OpsOf) /\ Len(todo[r]) \in Nat \ {0} /\ 1 \in 0..Len(todo[r])
         /\ HostOp(r) = todo[r][1] /\ HostOp(r) \in OpsOf
         /\ Tail(todo[r]) = SubSeq(todo[r], 1 + 1, Len(todo[r])) /\ Tail(todo[r]) \in Seq(OpsOf)
         /\ HostOp(r).op \in {"post", "wait"} =>
              /\ layout.lib = "mpi" /\ HostOp(r) \in MpiMove({"fill", "pack", "post", "wait"})
              /\ HostOp(r).axis \in Axes /\ 1 \in At(todo[r], HostOp(r).op, HostOp(r).axis)
<1>1. todo[r] \in Seq(OpsOf)
  BY DEF ExchangeInv, Typed
<1>2. Len(todo[r]) \in Nat \ {0}
  BY <1>1, EmptySeq
<1>3. HostOp(r) = todo[r][1] /\ HostOp(r) \in OpsOf /\ Tail(todo[r]) \in Seq(OpsOf)
  BY <1>1, HeadTailProperties DEF HostOp
<1>4. Tail(todo[r]) = SubSeq(todo[r], 2, Len(todo[r]))
  BY <1>1, TailIsSubSeq
<1>5. ASSUME HostOp(r).op \in {"post", "wait"}
      PROVE  /\ layout.lib = "mpi" /\ HostOp(r) \in MpiMove({"fill", "pack", "post", "wait"})
             /\ HostOp(r).axis \in Axes /\ 1 \in At(todo[r], HostOp(r).op, HostOp(r).axis)
  <2>1. layout.lib = "mpi"
    BY <1>3, <1>5 DEF OpsOf, NcclOps, Move, Copies, Groups, Stencils
  <2>2. HostOp(r) \in MpiMove({"fill", "pack", "post", "wait"})
    BY <1>3, <1>5, <2>1 DEF OpsOf, MpiOps, Stencils
  <2>3. HostOp(r).axis \in Axes
    BY <2>2 DEF MpiMove
  <2>4. 1 \in At(todo[r], HostOp(r).op, HostOp(r).axis)
    BY <1>2, <1>3 DEF At
  <2> QED
    BY <2>1, <2>2, <2>3, <2>4
<1> QED
  BY <1>1, <1>2, <1>3, <1>4, <1>5

LEMMA Synchronizing ==
  ASSUME ExchangeInv, NEW r \in Ranks, called' = called, Synchronize(r)
  PROVE  ExchangeInv'
<1>1. /\ UNCHANGED <<layout, queue, field, sending, receiving>> /\ todo[r] # <<>>
      /\ HostOp(r).op = "sync" /\ todo' = [todo EXCEPT ![r] = Tail(todo[r])]
  BY DEF Synchronize, Doing, Done
<1>2. /\ todo'[r] = Tail(todo[r]) /\ todo' \in [Ranks -> Seq(OpsOf)]
      /\ \A q \in Ranks : q # r => todo'[q] = todo[q]
  BY <1>1, HostFacts DEF ExchangeInv, Typed
<1>3. Typed'
  BY <1>1, <1>2, Rigid DEF ExchangeInv, Typed
<1>4. layout.lib = "mpi" => HostOk(Tail(todo[r]), Flying(r))
  <2> SUFFICES ASSUME layout.lib = "mpi" PROVE HostOk(SubSeq(todo[r], 1 + 1, Len(todo[r])), Flying(r))
    BY <1>1, HostFacts
  <2>1. \A i \in 1..1 : todo[r][i].op # "wait"
    BY <1>1, HostFacts
  <2> QED
    BY <1>1, <2>1, HostFacts, HostGoesOn DEF ExchangeInv, Local
<1>5. Local(r)'
  BY <1>1, <1>2, <1>4 DEF ExchangeInv, Local, Flying, NotRaced
<1> QED
  BY <1>1, <1>2, <1>3, <1>5, LocalStep

(* A post: the queue is empty, so no kernel is left to pack or unpack a buffer.     *)
LEMMA Posting ==
  ASSUME ExchangeInv, NEW r \in Ranks, called' = called, Post(r)
  PROVE  ExchangeInv'
<1> DEFINE a == HostOp(r).axis
           sides == {s \in Sides(a) : HasNeighbour(r, s)}
<1>1. /\ UNCHANGED <<layout, queue, field>> /\ todo[r] # <<>> /\ queue[r] = <<>>
      /\ HostOp(r).op = "post" /\ todo' = [todo EXCEPT ![r] = Tail(todo[r])]
      /\ sending' = [sending EXCEPT ![r] = sending[r] \cup sides]
      /\ receiving' = [receiving EXCEPT ![r] = receiving[r] \cup sides]
  BY DEF Post, Doing, Done, Fenced
<1>2. sides \subseteq Sides(a) /\ sides \subseteq AllSides
  BY DEF Sides, AllSides
<1>3. layout.lib = "mpi" /\ a \in Axes /\ 1 \in At(todo[r], "post", a)
  BY <1>1, HostFacts
<1> HIDE DEF a, sides
<1>4. /\ todo'[r] = Tail(todo[r]) /\ todo' \in [Ranks -> Seq(OpsOf)]
      /\ sending'[r] = sending[r] \cup sides /\ sending' \in [Ranks -> SUBSET AllSides]
      /\ receiving'[r] = receiving[r] \cup sides /\ receiving' \in [Ranks -> SUBSET AllSides]
      /\ \A q \in Ranks : q # r => todo'[q] = todo[q] /\ sending'[q] = sending[q] /\ receiving'[q] = receiving[q]
  BY <1>1, <1>2, HostFacts DEF ExchangeInv, Typed
<1>5. Typed'
  BY <1>1, <1>4, Rigid DEF ExchangeInv, Typed
<1> DEFINE t == SubSeq(todo[r], 1 + 1, Len(todo[r]))
<1>6. HostOk(todo[r], Flying(r)) /\ Tail(todo[r]) = t
  BY <1>1, <1>3, HostFacts DEF ExchangeInv, Local
<1>7. HostOk(t, Flying(r))
  <2>1. \A i \in 1..1 : todo[r][i].op # "wait"
    BY <1>1, HostFacts
  <2> QED
    BY <1>1, <1>6, <2>1, HostFacts, HostGoesOn
<1>8. At(t, "pack", a) = {} /\ At(t, "wait", a) # {}
  <2>1. /\ \A o, b : \A i \in At(t, o, b) : i \in Nat /\ i + 1 \in At(todo[r], o, b)
        /\ \A o, b : \A i \in At(todo[r], o, b) : i > 1 => i - 1 \in At(t, o, b)
    BY <1>1, HostFacts, AtRest
  <2> HIDE DEF t
  <2>2. /\ \A i \in At(todo[r], "pack", a) : i < 1
        /\ \E k \in At(todo[r], "wait", a) : 1 < k
    BY <1>3, <1>6 DEF HostOk, Orderly
  <2>3. At(t, "pack", a) = {}
    <3> SUFFICES ASSUME NEW i \in At(t, "pack", a) PROVE FALSE
      OBVIOUS
    <3>1. i \in Nat /\ i + 1 < 1
      BY <2>1, <2>2
    <3> QED
      BY <3>1
  <2>4. PICK k \in At(todo[r], "wait", a) : 1 < k
    BY <2>2
  <2>5. k \in Int /\ k > 1
    BY <2>4 DEF At
  <2>6. k - 1 \in At(t, "wait", a)
    BY <2>1, <2>5
  <2> QED
    BY <2>3, <2>6
<1> HIDE DEF t
<1>9. HostOk(t, Flying(r) \cup sides)
  <2> SUFFICES ASSUME NEW b \in Axes, (Flying(r) \cup sides) \cap Sides(b) # {}
               PROVE  At(t, "pack", b) = {} /\ At(t, "wait", b) # {}
    BY <1>7 DEF HostOk
  <2>1. CASE b = a
    BY <1>8, <2>1
  <2>2. CASE b # a
    <3>1. sides \cap Sides(b) = {}
      BY <1>2, <1>3, <2>2 DEF Sides, Axes
    <3> QED
      BY <1>7, <3>1 DEF HostOk
  <2> QED
    BY <2>1, <2>2
<1>10. Local(r)'
  <2>1. Flying(r)' = Flying(r) \cup sides
    BY <1>4 DEF Flying
  <2>2. NotRaced(r)'
    BY <1>1 DEF NotRaced
  <2> QED
    BY <1>1, <1>3, <1>4, <1>6, <1>9, <2>1, <2>2 DEF Local
<1> QED
  BY <1>1, <1>4, <1>5, <1>10, LocalStep

(* A wait: the requests of the axis are done, and its unpack is queued.             *)
LEMMA Waiting ==
  ASSUME ExchangeInv, NEW r \in Ranks, called' = called, Wait(r)
  PROVE  ExchangeInv'
<1> DEFINE a == HostOp(r).axis
           k == [HostOp(r) EXCEPT !.op = "unpack"]
<1>1. /\ UNCHANGED <<layout, field, sending, receiving>> /\ todo[r] # <<>>
      /\ HostOp(r).op = "wait" /\ todo' = [todo EXCEPT ![r] = Tail(todo[r])]
      /\ Flying(r) \cap Sides(a) = {}
      /\ queue' = [queue EXCEPT ![r] = Append(queue[r], k)]
  BY DEF Wait, Doing, Done, Flying
<1>2. layout.lib = "mpi" /\ HostOp(r) \in MpiMove({"fill", "pack", "post", "wait"})
  BY <1>1, HostFacts
<1>3. k \in Kernels /\ k.op = "unpack" /\ k.axis = a
  <2>1. k \in MpiMove({"unpack"}) /\ k.op = "unpack" /\ k.axis = a
    BY <1>2 DEF MpiMove
  <2> HIDE DEF k
  <2>2. k \in MpiMove({"fill", "pack", "unpack"})
    BY <2>1 DEF MpiMove
  <2> QED
    BY <2>1, <2>2 DEF Kernels
<1> HIDE DEF a, k
<1>4. /\ todo'[r] = Tail(todo[r]) /\ todo' \in [Ranks -> Seq(OpsOf)]
      /\ \A q \in Ranks : q # r => todo'[q] = todo[q]
  BY <1>1, HostFacts DEF ExchangeInv, Typed
<1>5. /\ queue'[r] = Append(queue[r], k) /\ Append(queue[r], k) \in Seq(Kernels)
      /\ \A q \in Ranks : q # r => queue'[q] = queue[q]
  <2>1. queue[r] \in Seq(Kernels)
    BY DEF ExchangeInv, Typed
  <2>2. Append(queue[r], k) \in Seq(Kernels)
    BY <1>3, <2>1, AppendProperties
  <2> QED
    BY <1>1, <2>2 DEF ExchangeInv, Typed
<1>6. Typed'
  <2>1. queue' \in [Ranks -> Seq(Kernels)]
    BY <1>1, <1>5 DEF ExchangeInv, Typed
  <2> QED
    BY <1>1, <1>4, <2>1, Rigid DEF ExchangeInv, Typed
<1>7. HostOk(Tail(todo[r]), Flying(r))
  <2>1. HostOk(todo[r], Flying(r))
    BY <1>2 DEF ExchangeInv, Local
  <2>2. \A i \in 1..1 : Flying(r) \cap Sides(todo[r][i].axis) = {}
    BY <1>1, HostFacts DEF a
  <2>3. HostOk(SubSeq(todo[r], 1 + 1, Len(todo[r])), Flying(r))
    BY <1>1, <2>1, <2>2, HostFacts, HostGoesOn
  <2> QED
    BY <1>1, <2>3, HostFacts
<1>8. NotRaced(r)'
  <2>1. /\ Len(queue[r]) \in Nat /\ Len(queue'[r]) = Len(queue[r]) + 1
        /\ queue'[r][Len(queue[r]) + 1] = k
        /\ \A i \in 1..Len(queue[r]) : queue'[r][i] = queue[r][i]
    BY <1>3, <1>5, AppendProperties, LenProperties DEF ExchangeInv, Typed
  <2> SUFFICES ASSUME NEW i \in 1..Len(queue[r]) + 1
               PROVE  /\ queue'[r][i].op = "pack" => sending[r] \cap Sides(queue'[r][i].axis) = {}
                      /\ queue'[r][i].op = "unpack" => receiving[r] \cap Sides(queue'[r][i].axis) = {}
    BY <1>1, <2>1 DEF NotRaced
  <2>2. CASE i = Len(queue[r]) + 1
    BY <1>1, <1>3, <2>1, <2>2 DEF Flying
  <2>3. CASE i \in 1..Len(queue[r])
    BY <2>1, <2>3 DEF ExchangeInv, Local, NotRaced
  <2> QED
    BY <2>1, <2>2, <2>3
<1>9. Local(r)'
  <2>1. Flying(r)' = Flying(r)
    BY <1>1 DEF Flying
  <2> QED
    BY <1>1, <1>2, <1>4, <1>7, <1>8, <2>1 DEF Local
<1> QED
  BY <1>1, <1>4, <1>5, <1>6, <1>9, LocalStep

(* A message leaves or arrives: fewer requests are in flight.                      *)
LEMMA Messages ==
  ASSUME ExchangeInv, NEW r \in Ranks, called' = called, NEW side \in AllSides,
         Inject(r, side) \/ Deliver(r, side)
  PROVE  ExchangeInv'
<1>1. /\ UNCHANGED <<layout, todo, queue, field>>
      /\ \/ sending' = [sending EXCEPT ![r] = sending[r] \ {side}] /\ receiving' = receiving
         \/ receiving' = [receiving EXCEPT ![r] = receiving[r] \ {side}] /\ sending' = sending
  <2>1. CASE Inject(r, side)
    BY <2>1, Zenon DEF Inject
  <2>2. CASE Deliver(r, side)
    BY <2>2, Zenon DEF Deliver
  <2> QED
    BY <2>1, <2>2
<1>2. /\ sending' \in [Ranks -> SUBSET AllSides] /\ receiving' \in [Ranks -> SUBSET AllSides]
      /\ sending'[r] \subseteq sending[r] /\ receiving'[r] \subseteq receiving[r]
      /\ \A q \in Ranks : q # r => sending'[q] = sending[q] /\ receiving'[q] = receiving[q]
  BY <1>1, ZenonT(40) DEF ExchangeInv, Typed
<1>3. Typed'
  BY <1>1, <1>2, Rigid DEF ExchangeInv, Typed
<1>4. Flying(r)' \subseteq Flying(r)
  BY <1>2 DEF Flying
<1>5. HostOk(todo[r], Flying(r)) => HostOk(todo[r], Flying(r)')
  <2> DEFINE f == Flying(r)
             g == Flying(r)'
  <2>1. \A a : g \cap Sides(a) # {} => f \cap Sides(a) # {}
    BY <1>4
  <2> HIDE DEF f, g
  <2>2. HostOk(todo[r], f) => HostOk(todo[r], g)
    BY <2>1 DEF HostOk
  <2> QED
    BY <2>2 DEF f, g
<1>6. NotRaced(r)'
  <2>1. \A a : /\ sending[r] \cap Sides(a) = {} => sending'[r] \cap Sides(a) = {}
               /\ receiving[r] \cap Sides(a) = {} => receiving'[r] \cap Sides(a) = {}
    BY <1>2
  <2> QED
    BY <1>1, <2>1 DEF ExchangeInv, Local, NotRaced
<1>7. Local(r)'
  <2>1. IF layout.lib = "mpi" THEN HostOk(todo[r], Flying(r)') ELSE Flying(r)' = {}
    BY <1>4, <1>5 DEF ExchangeInv, Local
  <2> QED
    BY <1>1, <1>6, <2>1 DEF Local
<1> QED
  BY <1>1, <1>2, <1>3, <1>7, LocalStep

LEMMA ExchangeInvInitially == Init => ExchangeInv
<1> SUFFICES ASSUME Init PROVE ExchangeInv
  OBVIOUS
<1>1. layout \in Layouts /\ 0 \in 0..Calls
  BY LayoutFacts DEF Init
<1>2. <<>> \in Seq(OpsOf) /\ <<>> \in Seq(Kernels)
  BY NoOp
<1>3. Typed
  BY <1>1, <1>2 DEF Init, Typed
<1>4. ASSUME NEW r \in Ranks PROVE Local(r)
  <2>1. todo[r] = <<>> /\ queue[r] = <<>> /\ Flying(r) = {}
    BY DEF Init, Flying
  <2>2. \A o, a : At(<<>>, o, a) = {}
    BY DEF At
  <2> QED
    BY <2>1, <2>2 DEF Local, HostOk, Orderly, NotRaced
<1> QED
  BY <1>3, <1>4 DEF ExchangeInv

LEMMA ExchangeInvPreserved == ExchangeInv /\ [Next]_<<vars, called>> => ExchangeInv'
<1> SUFFICES ASSUME ExchangeInv, [Next]_<<vars, called>> PROVE ExchangeInv'
  OBVIOUS
<1>1. ASSUME NEW r \in Ranks, Run(r) PROVE ExchangeInv'
  <2>1. called' = called
    BY <1>1 DEF Run
  <2>2. CASE Launch(r)
    <3>1. todo[r] \in Seq(OpsOf) /\ LaunchOf(r, todo[r]) /\ called' \in [Ranks -> 0..Calls]
      BY <2>1, <2>2 DEF Launch, ExchangeInv, Typed
    <3>2. layout.lib = "mpi" => HostOk(todo[r], Flying(r))
      BY DEF ExchangeInv, Local
    <3> QED
      BY <3>1, <3>2, Launches
  <2>3. CASE RunStencil(r) \/ RunFill(r) \/ RunPack(r) \/ RunUnpack(r) \/ RunCopy(r) \/ GroupEnd(r)
    BY <2>1, <2>3, Device
  <2>4. CASE GroupSend(r) \/ GroupReceive(r)
    BY <2>1, <2>4, GroupGoesOn
  <2>5. CASE Synchronize(r)
    BY <2>1, <2>5, Synchronizing
  <2>6. CASE Post(r)
    BY <2>1, <2>6, Posting
  <2>7. CASE Wait(r)
    BY <2>1, <2>7, Waiting
  <2>8. CASE \E side \in AllSides : Inject(r, side) \/ Deliver(r, side)
    BY <2>1, <2>8, Messages
  <2> QED
    BY <1>1, <2>2, <2>3, <2>4, <2>5, <2>6, <2>7, <2>8 DEF Run, DeviceNext, MpiNext, NcclNext
<1>2. CASE Terminated \/ UNCHANGED <<vars, called>>
  <2>1. UNCHANGED <<layout, called, todo, queue, field, sending, receiving>>
    BY <1>2 DEF Terminated, vars
  <2> QED
    BY <2>1, Rigid DEF ExchangeInv, Typed, Local, Flying, NotRaced
<1> QED
  BY <1>1, <1>2, Calling DEF Next

(* Every exchange of either library is made of well-formed operations, and every   *)
(* rank stays within its script.                                               *)
THEOREM ExchangeTypeCorrect == Spec => []TypeOK
<1>1. ExchangeInv => TypeOK
  <2> SUFFICES ASSUME ExchangeInv PROVE TypeOK
    OBVIOUS
  <2>1. ASSUME NEW r \in Ranks, NEW i \in 1..Len(queue[r])
        PROVE  /\ queue[r][i].op \in KernelOps
               /\ queue[r][i].op \in {"pack", "unpack", "fill"} => queue[r][i].depth \in {1, Halo}
    <3>1. queue[r][i] \in Kernels
      BY ElementOfSeq DEF ExchangeInv, Typed
    <3> QED
      BY <3>1, KernelsAreOps DEF Depths
  <2> QED
    BY <2>1 DEF ExchangeInv, Typed, TypeOK
<1> QED
  BY <1>1, ExchangeInvInitially, ExchangeInvPreserved, PTL DEF Spec

(* One fence before each post is enough, in every exchange and across exchanges:   *)
(* MPI never sends a buffer that a kernel still has to pack, and never receives     *)
(* into one that a kernel still has to unpack.                                    *)
THEOREM OneFenceIsEnough == Spec => []BuffersNotRaced
<1>1. ExchangeInv => BuffersNotRaced
  BY DEF ExchangeInv, Local, NotRaced, BuffersNotRaced
<1> QED
  BY <1>1, ExchangeInvInitially, ExchangeInvPreserved, PTL DEF Spec

---------------------------------------------------------------------------------
(* The neighbour on a side has this rank on the opposite side.                   *)
LEMMA NextOnAxis ==
  ASSUME NEW p \in Nat \ {0}, NEW x \in 0..p - 1
  PROVE  /\ x % p = x
         /\ (x + 1) % p = IF x = p - 1 THEN 0 ELSE x + 1
         /\ (x - 1) % p = IF x = 0 THEN p - 1 ELSE x - 1
         /\ (x + -1) % p = IF x = 0 THEN p - 1 ELSE x - 1
         /\ (x + 0) % p = x
         /\ (x + 1) % p \in 0..p - 1 /\ (x - 1) % p \in 0..p - 1
         /\ (((x + 1) % p) - 1) % p = x /\ (((x - 1) % p) + 1) % p = x
<1>1. ASSUME NEW y \in Int, NEW q \in {-1, 0, 1}, NEW z \in 0..p - 1, y = q * p + z
      PROVE  y % p = z
  BY <1>1, Z3
<1>2. x % p = x
  BY <1>1
<1>3. (x + 1) % p = IF x = p - 1 THEN 0 ELSE x + 1
  <2>1. CASE x = p - 1
    BY <1>1, <2>1
  <2>2. CASE x # p - 1
    BY <1>1, <2>2
  <2> QED
    BY <2>1, <2>2
<1>4. (x - 1) % p = IF x = 0 THEN p - 1 ELSE x - 1
  <2>1. CASE x = 0
    BY <1>1, <2>1
  <2>2. CASE x # 0
    BY <1>1, <2>2
  <2> QED
    BY <2>1, <2>2
<1> DEFINE u == (x + 1) % p
           v == (x - 1) % p
<1>5. u \in 0..p - 1 /\ v \in 0..p - 1
  BY <1>3, <1>4
<1>6. (u - 1) % p = x
  <2>1. CASE x = p - 1
    <3>1. u = 0
      BY <1>3, <2>1
    <3>2. u - 1 = (-1) * p + x
      BY <2>1, <3>1
    <3> QED
      BY <1>1, <3>2
  <2>2. CASE x # p - 1
    <3>1. u - 1 = x
      BY <1>3, <2>2
    <3> QED
      BY <1>2, <3>1
  <2> QED
    BY <2>1, <2>2
<1>7. (v + 1) % p = x
  <2>1. CASE x = 0
    <3>1. v = p - 1
      BY <1>4, <2>1
    <3>2. v + 1 = 1 * p + x
      BY <2>1, <3>1
    <3>3. v + 1 \in Int
      BY <3>1
    <3> QED
      BY <1>1, <3>2, <3>3
  <2>2. CASE x # 0
    <3>1. v + 1 = x
      BY <1>4, <2>2
    <3> QED
      BY <1>2, <3>1
  <2> QED
    BY <2>1, <2>2
<1>8. x + -1 = x - 1 /\ x + 0 = x
  OBVIOUS
<1> QED
  BY <1>2, <1>3, <1>4, <1>5, <1>6, <1>7, <1>8

LEMMA Opposites ==
  ASSUME layout \in Layouts, NEW r \in Ranks, NEW s \in AllSides
  PROVE  /\ Opposite[s] \in AllSides /\ Opposite[Opposite[s]] = s
         /\ Neighbour(r, s) \in Ranks
         /\ Neighbour(Neighbour(r, s), Opposite[s]) = r
         /\ HasNeighbour(r, s) => HasNeighbour(Neighbour(r, s), Opposite[s])
<1> DEFINE n == Neighbour(r, s)
           o == Opposite[s]
<1>1. /\ layout.px \in Nat \ {0} /\ layout.py \in Nat \ {0} /\ n \in Ranks
      /\ r[1] \in 0..layout.px - 1 /\ r[2] \in 0..layout.py - 1 /\ r = <<r[1], r[2]>>
  BY LayoutFacts, RankFacts
<1>2. o \in AllSides /\ Opposite[o] = s
  BY DEF AllSides, Opposite
<1>3. /\ s = "right" => n = <<(r[1] + 1) % layout.px, r[2]>>
      /\ s = "left" => n = <<(r[1] - 1) % layout.px, r[2]>>
      /\ s = "top" => n = <<r[1], (r[2] + 1) % layout.py>>
      /\ s = "bottom" => n = <<r[1], (r[2] - 1) % layout.py>>
  <2>1. /\ Shift["right"] = <<1, 0>> /\ Shift["left"] = <<-1, 0>>
        /\ Shift["top"] = <<0, 1>> /\ Shift["bottom"] = <<0, -1>>
    BY DEF Shift
  <2>2. r[1] + 0 = r[1] /\ r[2] + 0 = r[2] /\ r[1] + -1 = r[1] - 1 /\ r[2] + -1 = r[2] - 1
    BY <1>1
  <2>3. r[1] % layout.px = r[1] /\ r[2] % layout.py = r[2]
    BY <1>1, NextOnAxis
  <2> QED
    BY <2>1, <2>2, <2>3 DEF Neighbour, Shifted
<1>4. ASSUME NEW q \in Ranks
      PROVE  /\ s = "left" => Neighbour(q, o) = <<(q[1] + 1) % layout.px, q[2]>>
             /\ s = "right" => Neighbour(q, o) = <<(q[1] - 1) % layout.px, q[2]>>
             /\ s = "bottom" => Neighbour(q, o) = <<q[1], (q[2] + 1) % layout.py>>
             /\ s = "top" => Neighbour(q, o) = <<q[1], (q[2] - 1) % layout.py>>
  <2>1. /\ Shift["right"] = <<1, 0>> /\ Shift["left"] = <<-1, 0>>
        /\ Shift["top"] = <<0, 1>> /\ Shift["bottom"] = <<0, -1>>
        /\ Opposite["left"] = "right" /\ Opposite["right"] = "left"
        /\ Opposite["top"] = "bottom" /\ Opposite["bottom"] = "top"
    BY DEF Shift, Opposite
  <2>2. q[1] \in 0..layout.px - 1 /\ q[2] \in 0..layout.py - 1
    BY RankFacts
  <2>3. q[1] + 0 = q[1] /\ q[2] + 0 = q[2] /\ q[1] + -1 = q[1] - 1 /\ q[2] + -1 = q[2] - 1
    BY <1>1, <2>2
  <2>4. q[1] % layout.px = q[1] /\ q[2] % layout.py = q[2]
    BY <1>1, <2>2, NextOnAxis
  <2> QED
    BY <2>1, <2>3, <2>4 DEF Neighbour, Shifted
<1>5. Neighbour(n, o) = r
  <2>1. /\ (((r[1] + 1) % layout.px) - 1) % layout.px = r[1] /\ (((r[1] - 1) % layout.px) + 1) % layout.px = r[1]
        /\ (((r[2] + 1) % layout.py) - 1) % layout.py = r[2] /\ (((r[2] - 1) % layout.py) + 1) % layout.py = r[2]
    BY <1>1, NextOnAxis
  <2> HIDE DEF n, o
  <2>2. CASE s = "right"
    BY <1>1, <1>3, <1>4, <2>1, <2>2
  <2>3. CASE s = "left"
    BY <1>1, <1>3, <1>4, <2>1, <2>3
  <2>4. CASE s = "top"
    BY <1>1, <1>3, <1>4, <2>1, <2>4
  <2>5. CASE s = "bottom"
    BY <1>1, <1>3, <1>4, <2>1, <2>5
  <2> QED
    BY <2>2, <2>3, <2>4, <2>5 DEF AllSides
<1>6. ASSUME HasNeighbour(r, s) PROVE HasNeighbour(n, o)
  <2>1. s \in Sides("x") <=> o \in Sides("x")
    BY DEF AllSides, Opposite, Sides
  <2>2. CASE IF s \in Sides("x") THEN layout.wrapx ELSE layout.wrapy
    BY <2>1, <2>2 DEF HasNeighbour
  <2>3. CASE Shifted(r, s) \in Ranks
    <3> DEFINE t == Shifted(r, s)
    <3>1. t[1] \in 0..layout.px - 1 /\ t[2] \in 0..layout.py - 1 /\ t = <<t[1], t[2]>>
      BY <2>3 DEF Ranks, RanksOf
    <3>2. t[1] % layout.px = t[1] /\ t[2] % layout.py = t[2]
      BY <1>1, <3>1, NextOnAxis, ZenonT(40)
    <3>3. n = t
      BY <3>1, <3>2 DEF Neighbour
    <3>4. Shifted(t, o) = r
      BY <1>1 DEF Shifted, Shift, Opposite, AllSides
    <3> QED
      BY <3>3, <3>4 DEF HasNeighbour
  <2> QED
    BY <1>6, <2>2, <2>3 DEF HasNeighbour
<1> QED
  BY <1>1, <1>2, <1>5, <1>6

---------------------------------------------------------------------------------
(* With MPI, the operations of an exchange are of one family, and each axis that is  *)
(* not a singleton is posted once.                                              *)
FamilyOf(kind) == IF kind = "slice" THEN "SLICE_SEND" ELSE "SEND"
FamilyOps(f) == {o \in MpiMove({"fill", "pack", "post", "wait"}) : o.family = f}
OfFamily(o, f) == o.op # "stencil" /\ o.family = f
AxisOf(side) == IF side \in Sides("x") THEN "x" ELSE "y"

(* What is left to a host that has entered an exchange of family f.                *)
HostLeft(s, f) ==
  /\ \A i \in 1..Len(s) : OfFamily(s[i], f) \/ (s[i].op = "stencil" /\ i = Len(s))
  /\ \A a \in Axes : \A i, j \in At(s, "post", a) : i = j
  /\ Does(s, "post") \subseteq RealAxes(layout)

LEMMA FamilyParts ==
  ASSUME NEW l, NEW a \in Axes, NEW d \in Depths, NEW f \in Families
  PROVE  /\ Fill(a, d, f) \in Seq(FamilyOps(f)) /\ Start(a, d, f) \in Seq(FamilyOps(f))
         /\ Finish(a, d, f) \in Seq(FamilyOps(f))
<1>1. \A o \in {"fill", "pack", "post", "wait"} : HostOpOf(o, a, d, f) \in FamilyOps(f)
  BY DEF HostOpOf, FamilyOps, MpiMove
<1> QED
  BY <1>1, OneOp, TwoOps DEF Fill, Start, Finish

LEMMA FamilyOfExchange ==
  ASSUME NEW l, NEW kind \in Kinds
  PROVE  MpiExchange(l, kind) \in Seq(FamilyOps(FamilyOf(kind)))
<1>1. Halo \in Depths /\ 1 \in Depths /\ "SEND" \in Families /\ "SLICE_SEND" \in Families
      /\ "x" \in Axes /\ "y" \in Axes
  BY DEF Depths, Families, Axes
<1>2. ASSUME NEW d \in Depths, NEW a \in Axes
      PROVE  /\ Begin(l, a, d) \in Seq(FamilyOps("SEND")) /\ End(l, a, d) \in Seq(FamilyOps("SEND"))
  BY <1>1, FamilyParts, NoOp DEF Begin, End
<1>3. ASSUME NEW f \in Families, NEW a \in Axes, NEW b \in Axes
      PROVE  FillSingletons(l, f) \o Active(l, a, f) \o Active(l, b, f) \in Seq(FamilyOps(f))
  <2>1. \A c \in Axes : Fill(c, Halo, f) \in Seq(FamilyOps(f))
    BY <1>1, FamilyParts
  <2>2. FillSingletons(l, f) \in Seq(FamilyOps(f))
    BY <1>1, <2>1, NoOp, Joined DEF FillSingletons
  <2>3. \A c \in Axes : Active(l, c, f) \in Seq(FamilyOps(f))
    BY <1>1, FamilyParts, NoOp, Joined DEF Active
  <2>4. FillSingletons(l, f) \o Active(l, a, f) \in Seq(FamilyOps(f))
    BY <2>2, <2>3, Joined
  <2> QED
    BY <2>3, <2>4, Joined
<1>4. ASSUME NEW d \in Depths PROVE FullExchange(l, d) \in Seq(FamilyOps("SEND"))
  <2>1. Begin(l, "y", d) \o End(l, "y", d) \in Seq(FamilyOps("SEND"))
    BY <1>1, <1>2, Joined
  <2>2. Begin(l, "y", d) \o End(l, "y", d) \o Begin(l, "x", d) \in Seq(FamilyOps("SEND"))
    BY <1>1, <1>2, <2>1, Joined
  <2> QED
    BY <1>1, <1>2, <2>2, Joined DEF FullExchange
<1>5. FaceExchange(l) \in Seq(FamilyOps("SEND"))
  <2>1. Begin(l, "x", 1) \o Begin(l, "y", 1) \in Seq(FamilyOps("SEND"))
    BY <1>1, <1>2, Joined
  <2>2. Begin(l, "x", 1) \o Begin(l, "y", 1) \o End(l, "x", 1) \in Seq(FamilyOps("SEND"))
    BY <1>1, <1>2, <2>1, Joined
  <2> QED
    BY <1>1, <1>2, <2>2, Joined DEF FaceExchange
<1>6. CASE kind = "full"
  BY <1>1, <1>4, <1>6 DEF MpiExchange, FamilyOf
<1>7. CASE kind = "shallow"
  BY <1>1, <1>4, <1>7 DEF MpiExchange, FamilyOf
<1>8. CASE kind = "face"
  BY <1>5, <1>8 DEF MpiExchange, FamilyOf
<1>9. CASE kind = "slice"
  BY <1>1, <1>3, <1>9 DEF MpiExchange, SliceExchange, FamilyOf
<1>10. CASE kind = "batch"
  BY <1>1, <1>3, <1>10 DEF MpiExchange, BatchExchange, FamilyOf
<1> QED
  BY <1>6, <1>7, <1>8, <1>9, <1>10 DEF Kinds

LEMMA FamilyOfTurn ==
  ASSUME layout \in Layouts, layout.lib = "mpi", NEW r, NEW g \in 1..Calls
  PROVE  /\ Len(Turn(r, g)) \in Nat
         /\ \A i \in 2..Len(Turn(r, g)) :
              \/ OfFamily(Turn(r, g)[i], FamilyOf(layout.script[g]))
              \/ (Turn(r, g)[i].op = "stencil" /\ i = Len(Turn(r, g)))
<1> DEFINE f == FamilyOf(layout.script[g])
           e == Exchange(r, layout.script[g])
           last == IF g = Calls THEN <<Stencil(g + 1)>> ELSE <<>>
           first == <<Stencil(g)>>
           O == UNION {Stencils, FamilyOps(f)}
<1>1. e \in Seq(FamilyOps(f))
  BY LayoutFacts, FamilyOfExchange DEF Exchange
<1>2. g \in Nat /\ g + 1 \in Nat
  BY LayoutFacts
<1>3. Stencil(g) \in Stencils /\ Stencil(g + 1) \in Stencils
  BY <1>2 DEF Stencil, Stencils
<1>4. first \in Seq(Stencils) /\ last \in Seq(Stencils) /\ Len(first) = 1 /\ Len(last) \in {0, 1}
  BY <1>3, OneOp, NoOp
<1>5. /\ \A i \in 1..Len(e) : OfFamily(e[i], f)
      /\ \A i \in 1..Len(last) : last[i].op = "stencil"
  <2>1. \A o \in FamilyOps(f) : OfFamily(o, f)
    BY DEF FamilyOps, OfFamily, MpiMove
  <2>2. \A i \in 1..Len(e) : e[i] \in FamilyOps(f)
    BY <1>1, ElementOfSeq
  <2>3. \A i \in 1..Len(last) : last[i] \in Stencils
    BY <1>4, ElementOfSeq
  <2> QED
    BY <2>1, <2>2, <2>3 DEF Stencils
<1>6. e \in Seq(O) /\ first \in Seq(O) /\ last \in Seq(O)
  <2>1. Stencils \subseteq O /\ FamilyOps(f) \subseteq O
    OBVIOUS
  <2> HIDE DEF O, e, first, last, f
  <2> QED
    BY <1>1, <1>4, <2>1, SeqMonotonic
<1>7. Turn(r, g) = first \o e \o last
  BY DEF Turn
<1> HIDE DEF first, e, last, O, f
<1>8. /\ Len(first \o e) = 1 + Len(e) /\ first \o e \in Seq(O) /\ Len(e) \in Nat
      /\ \A i \in 1..1 + Len(e) : (first \o e)[i] = IF i <= 1 THEN first[i] ELSE e[i - 1]
  BY <1>4, <1>6, ConcatProperties, LenProperties, SMTT(30)
<1> DEFINE u == first \o e
           m == 1 + Len(e)
           v == u \o last
<1>9. /\ Len(v) = m + Len(last) /\ m \in Nat
      /\ \A i \in 1..m + Len(last) : v[i] = IF i <= m THEN u[i] ELSE last[i - m]
  BY <1>4, <1>6, <1>8, ConcatProperties, LenProperties
<1>10. ASSUME NEW i \in 2..Len(v) PROVE OfFamily(v[i], f) \/ (v[i].op = "stencil" /\ i = Len(v))
  <2>1. i \in 1..m + Len(last) /\ i \in Nat /\ i >= 2
    BY <1>4, <1>9
  <2>2. CASE i <= m
    <3>1. v[i] = u[i] /\ i \in 1..1 + Len(e) /\ ~(i <= 1) /\ i - 1 \in 1..Len(e)
      BY <1>8, <1>9, <2>1, <2>2
    <3>2. v[i] = e[i - 1]
      BY <1>8, <3>1
    <3>3. OfFamily(e[i - 1], f)
      BY <1>5, <3>1
    <3> QED
      BY <3>2, <3>3
  <2>3. CASE ~(i <= m)
    <3>1. v[i] = last[i - m] /\ i - m \in 1..Len(last) /\ i = Len(v)
      BY <1>4, <1>9, <2>1, <2>3
    <3> QED
      BY <1>5, <3>1
  <2> QED
    BY <2>2, <2>3
<1> QED
  BY <1>4, <1>7, <1>9, <1>10 DEF f

LEMMA LeftRest ==
  ASSUME NEW S, NEW s \in Seq(S), NEW n \in 0..Len(s), NEW f,
         \A i \in n + 1..Len(s) : OfFamily(s[i], f) \/ (s[i].op = "stencil" /\ i = Len(s)),
         \A a \in Axes : \A i, j \in At(s, "post", a) : i = j,
         Does(s, "post") \subseteq RealAxes(layout)
  PROVE  HostLeft(SubSeq(s, n + 1, Len(s)), f)
<1> DEFINE m == Len(s)
           t == SubSeq(s, n + 1, m)
<1>1. m \in Nat /\ n \in Nat /\ n <= m /\ n + 1 \in Int
  BY LenProperties
<1>2. /\ \A o, a : \A i \in At(t, o, a) : i \in Nat /\ i + n \in At(s, o, a)
      /\ \A o, a : \A i \in At(s, o, a) : i > n => i - n \in At(t, o, a)
  BY AtRest
<1>3. \A i \in n + 1..m : s[i] \in S
  <2>1. \A i \in n + 1..m : i \in 1..m
    BY <1>1
  <2> QED
    BY <2>1, ElementOfSeq
<1>4. /\ Len(t) = (IF n + 1 <= m THEN m - (n + 1) + 1 ELSE 0)
      /\ \A i \in 1..m - (n + 1) + 1 : t[i] = s[(n + 1) + i - 1]
  <2> HIDE DEF m, t
  <2> QED
    BY <1>1, <1>3, SubSeqProperties DEF t
<1> HIDE DEF m, t
<1>5. ASSUME NEW i \in 1..Len(t) PROVE OfFamily(t[i], f) \/ (t[i].op = "stencil" /\ i = Len(t))
  <2>1. Len(t) = m - n /\ i \in 1..m - (n + 1) + 1 /\ (n + 1) + i - 1 = i + n /\ i + n \in n + 1..m
        /\ (i + n = m => i = Len(t))
    BY <1>1, <1>4
  <2>2. t[i] = s[i + n]
    BY <1>4, <2>1
  <2> QED
    BY <2>1, <2>2 DEF m
<1>6. ASSUME NEW a \in Axes, NEW i \in At(t, "post", a), NEW j \in At(t, "post", a) PROVE i = j
  <2>1. i \in Nat /\ j \in Nat /\ i + n = j + n
    BY <1>2
  <2> QED
    BY <1>1, <2>1
<1>7. Does(t, "post") \subseteq Does(s, "post")
  BY <1>2 DEF Does
<1> QED
  BY <1>5, <1>6, <1>7 DEF HostLeft, t, m

---------------------------------------------------------------------------------
(* How many messages have left a rank on a side, and how many have come in: one for  *)
(* each exchange of the family it has called, but for what the exchange it is in      *)
(* has not posted yet, and what is in flight.                                       *)
One(b) == IF b THEN 1 ELSE 0
Current(r) == FamilyOf(layout.script[called[r]])
CallsOf(n, f) == Cardinality({g \in 1..n : FamilyOf(layout.script[g]) = f})
Posts(r, a, f) ==
  IF Singleton(layout, a) THEN 0
  ELSE CallsOf(called[r], f) - One(f = Current(r) /\ a \in Does(todo[r], "post"))
Sent(r, s, f) == Posts(r, AxisOf(s), f) - One(f = Current(r) /\ s \in sending[r])
Got(r, s, f) == Posts(r, AxisOf(s), f) - One(f = Current(r) /\ s \in receiving[r])

MpiRank(r) ==
  /\ HostLeft(todo[r], Current(r))
  /\ \A s \in Flying(r) : /\ HasNeighbour(r, s) /\ ~Singleton(layout, AxisOf(s))
                          /\ At(todo[r], "post", AxisOf(s)) = {}
  /\ \A i \in 1..Len(queue[r]) : queue[r][i].op # "group"

(* A channel between neighbours holds what has left and not come in, any other none. *)
Channel(r, s, f) == <<r, Neighbour(r, s), <<f, s>>>>
MpiWires ==
  /\ DOMAIN wire = Ranks \X Ranks \X (Families \X AllSides)
  /\ \A ch \in DOMAIN wire : \E S : wire[ch] \in Seq(S)
  /\ \A r \in Ranks, s \in AllSides, f \in Families : HasNeighbour(r, s) =>
       Len(wire[Channel(r, s, f)]) = Sent(r, s, f) - Got(Neighbour(r, s), Opposite[s], f)
  /\ \A r, q \in Ranks, s \in AllSides, f \in Families :
       ~(HasNeighbour(r, s) /\ q = Neighbour(r, s)) => wire[<<r, q, <<f, s>>>>] = <<>>

MpiAhead == MpiWires /\ \A r \in Ranks : MpiRank(r)

LEMMA OneMoreCall ==
  ASSUME NEW n \in Nat, NEW f
  PROVE  /\ CallsOf(n, f) \in Nat
         /\ CallsOf(n + 1, f) = CallsOf(n, f) + One(f = FamilyOf(layout.script[n + 1]))
<1> DEFINE of(m) == {g \in 1..m : FamilyOf(layout.script[g]) = f}
           S == of(n)
           T == of(n + 1)
<1>1. IsFiniteSet(S)
  <2>1. IsFiniteSet(1..n) /\ S \in SUBSET (1..n)
    BY FS_Interval
  <2> HIDE DEF S
  <2> QED
    BY <2>1, FS_Subset
<1>2. Cardinality(S) \in Nat
  <2> HIDE DEF S
  <2> QED
    BY <1>1, FS_CardinalityType
<1>3. n + 1 \notin S
  OBVIOUS
<1>4. T = IF f = FamilyOf(layout.script[n + 1]) THEN S \cup {n + 1} ELSE S
  <2>1. \A g : g \in 1..n + 1 <=> (g \in 1..n \/ g = n + 1)
    OBVIOUS
  <2> QED
    BY <2>1
<1> HIDE DEF S, T
<1>5. Cardinality(T) = Cardinality(S) + One(f = FamilyOf(layout.script[n + 1]))
  <2>1. Cardinality(S \cup {n + 1}) = Cardinality(S) + 1
    BY <1>1, <1>3, FS_AddElement
  <2>2. CASE f = FamilyOf(layout.script[n + 1])
    <3>1. T = S \cup {n + 1} /\ One(f = FamilyOf(layout.script[n + 1])) = 1
      BY <1>4, <2>2 DEF One
    <3> QED
      BY <2>1, <3>1
  <2>3. CASE f # FamilyOf(layout.script[n + 1])
    <3>1. T = S /\ One(f = FamilyOf(layout.script[n + 1])) = 0
      BY <1>4, <2>3 DEF One
    <3> QED
      BY <1>2, <3>1
  <2> QED
    BY <2>2, <2>3
<1> QED
  BY <1>2, <1>5 DEF CallsOf, S, T

(* What leaves or enters a channel.                                              *)
LEMMA Longer ==
  ASSUME NEW q, NEW v, \E S : q \in Seq(S)
  PROVE  Len(q) \in Nat /\ Len(Append(q, v)) = Len(q) + 1 /\ \E S : Append(q, v) \in Seq(S)
<1>1. PICK S : q \in Seq(S)
  OBVIOUS
<1>2. q \in Seq(S \cup {v}) /\ v \in S \cup {v}
  BY <1>1, SeqMonotonic
<1>3. Append(q, v) \in Seq(S \cup {v}) /\ Len(Append(q, v)) = Len(q) + 1
  BY <1>2, AppendProperties
<1> QED
  BY <1>2, <1>3, LenProperties

LEMMA Shorter ==
  ASSUME NEW q, q # <<>>, \E S : q \in Seq(S)
  PROVE  Len(q) \in Nat /\ Len(Tail(q)) = Len(q) - 1 /\ \E S : Tail(q) \in Seq(S)
<1>1. PICK S : q \in Seq(S)
  OBVIOUS
<1>2. Tail(q) \in Seq(S) /\ Len(Tail(q)) = Len(q) - 1
  BY <1>1, HeadTailProperties
<1> QED
  BY <1>1, <1>2, LenProperties

LEMMA Unstirred ==
  ASSUME layout' = layout, NEW q, called'[q] = called[q], todo'[q] = todo[q],
         sending'[q] = sending[q], receiving'[q] = receiving[q]
  PROVE  \A s, f : Sent(q, s, f)' = Sent(q, s, f) /\ Got(q, s, f)' = Got(q, s, f)
BY DEF Sent, Got, Posts, Current, CallsOf, One

LEMMA CountsAreInt ==
  ASSUME ExchangeInv, NEW r \in Ranks, NEW a, NEW f
  PROVE  Posts(r, a, f) \in Int /\ \A s : Sent(r, s, f) \in Int /\ Got(r, s, f) \in Int
<1>1. called[r] \in Nat
  BY LayoutFacts DEF ExchangeInv, Typed
<1>2. CallsOf(called[r], f) \in Nat
  BY <1>1, OneMoreCall
<1>3. \A b : Posts(r, b, f) \in Int
  BY <1>2 DEF Posts, One
<1> QED
  BY <1>3 DEF Sent, Got, One

(* A step of one rank that sends nothing and receives nothing.                     *)
LEMMA NothingMoves ==
  ASSUME MpiAhead, layout' = layout, wire' = wire, NEW r \in Ranks, MpiRank(r)',
         \A q \in Ranks : q # r => /\ todo'[q] = todo[q] /\ queue'[q] = queue[q] /\ called'[q] = called[q]
                                   /\ sending'[q] = sending[q] /\ receiving'[q] = receiving[q],
         \A s \in AllSides, f \in Families :
           HasNeighbour(r, s) => Sent(r, s, f)' = Sent(r, s, f) /\ Got(r, s, f)' = Got(r, s, f),
         layout \in Layouts
  PROVE  MpiAhead'
<1>1. Ranks' = Ranks /\ \A q, s : HasNeighbour(q, s)' = HasNeighbour(q, s) /\ Neighbour(q, s)' = Neighbour(q, s)
  BY DEF Ranks, HasNeighbour, Neighbour
<1>2. ASSUME NEW q \in Ranks, q # r PROVE MpiRank(q)'
  <2>1. MpiRank(q)
    BY DEF MpiAhead
  <2>2. Current(q)' = Current(q) /\ Flying(q)' = Flying(q) /\ todo'[q] = todo[q] /\ queue'[q] = queue[q]
    BY <1>2 DEF Current, Flying
  <2> QED
    BY <1>1, <2>1, <2>2 DEF MpiRank, HostLeft
<1>3. ASSUME NEW q \in Ranks, NEW s \in AllSides, NEW f \in Families, HasNeighbour(q, s)
      PROVE  Sent(q, s, f)' = Sent(q, s, f) /\ Got(q, s, f)' = Got(q, s, f)
  BY <1>3, Unstirred
<1>4. ASSUME NEW q \in Ranks, NEW s \in AllSides, NEW f \in Families, HasNeighbour(q, s)
      PROVE  Len(wire[Channel(q, s, f)])' = Sent(q, s, f)' - Got(Neighbour(q, s), Opposite[s], f)'
  <2>1. Sent(q, s, f)' = Sent(q, s, f)
    BY <1>3, <1>4
  <2>2. Got(Neighbour(q, s), Opposite[s], f)' = Got(Neighbour(q, s), Opposite[s], f)
    <3> DEFINE p == Neighbour(q, s)
               o == Opposite[s]
    <3>1. p \in Ranks /\ o \in AllSides /\ HasNeighbour(p, o)
      BY <1>4, Opposites
    <3>2. PICK p1, o1 : p1 = p /\ o1 = o
      OBVIOUS
    <3>3. Got(p1, o1, f)' = Got(p1, o1, f)
      BY <1>3, <3>1, <3>2
    <3> QED
      BY <1>1, <3>2, <3>3
  <2>3. Channel(q, s, f)' = Channel(q, s, f)
    BY <1>1 DEF Channel
  <2> QED
    BY <1>4, <2>1, <2>2, <2>3 DEF MpiAhead, MpiWires
<1>5. MpiWires'
  BY <1>1, <1>4 DEF MpiAhead, MpiWires
<1> QED
  BY <1>1, <1>2, <1>5 DEF MpiAhead

---------------------------------------------------------------------------------
(* The steps of a rank, one after the other.                                       *)

(* What a host that goes on past operations that post nothing still has to post.    *)
LEMMA StillToPost ==
  ASSUME NEW S, NEW s \in Seq(S), NEW n \in 0..Len(s), \A i \in 1..n : s[i].op # "post"
  PROVE  \A a : At(SubSeq(s, n + 1, Len(s)), "post", a) = {} <=> At(s, "post", a) = {}
<1> DEFINE t == SubSeq(s, n + 1, Len(s))
<1>1. /\ \A a : \A i \in At(t, "post", a) : i + n \in At(s, "post", a)
      /\ \A a : \A i \in At(s, "post", a) : i > n => i - n \in At(t, "post", a)
  BY AtRest
<1>2. n \in Nat /\ Len(s) \in Nat
  BY LenProperties
<1>3. \A a : \A i \in At(s, "post", a) : i > n
  BY <1>2 DEF At
<1> HIDE DEF t
<1> QED
  BY <1>1, <1>3 DEF t

(* The host has launched kernels.                                               *)
LEMMA Launched ==
  ASSUME ExchangeInv, NEW r \in Ranks, NEW ops \in Seq(OpsOf), LaunchOf(r, ops)
  PROVE  /\ UNCHANGED <<layout, wire, sending, receiving>>
         /\ \A q \in Ranks : q # r => todo'[q] = todo[q] /\ queue'[q] = queue[q]
         /\ \E n \in 1..Len(ops) : /\ \A i \in 1..n : ops[i].op \in KernelOps
                                   /\ todo'[r] = SubSeq(ops, n + 1, Len(ops))
                                   /\ queue'[r] = queue[r] \o SubSeq(ops, 1, n)
         /\ \A i \in 1..Len(queue'[r]) : \/ \E j \in 1..Len(queue[r]) : queue'[r][i] = queue[r][j]
                                         \/ \E j \in 1..Len(ops) : queue'[r][i] = ops[j]
<1>1. UNCHANGED <<layout, wire, sending, receiving>>
  BY DEF LaunchOf
<1>2. PICK n \in 1..Len(ops) : /\ Launchable(ops, n)
                              /\ queue' = [queue EXCEPT ![r] = queue[r] \o SubSeq(ops, 1, n)]
                              /\ todo' = [todo EXCEPT ![r] = SubSeq(ops, n + 1, Len(ops))]
  BY DEF LaunchOf
<1> DEFINE u == SubSeq(ops, 1, n)
           t == SubSeq(ops, n + 1, Len(ops))
           m == Len(queue[r])
<1>3. n \in Nat /\ Len(ops) \in Nat /\ n <= Len(ops)
  BY LenProperties
<1>4. u \in Seq(OpsOf) /\ Len(u) = n /\ \A i \in 1..n : u[i] = ops[i]
  <2>1. n \in Int /\ 1 \in Int /\ \A i \in 1..n : ops[i] \in OpsOf
    <3>1. \A i \in 1..n : i \in 1..Len(ops)
      BY <1>3
    <3> QED
      BY <1>3, <3>1, ElementOfSeq
  <2>2. /\ u \in Seq(OpsOf) /\ Len(u) = (IF 1 <= n THEN n - 1 + 1 ELSE 0)
        /\ \A i \in 1..n - 1 + 1 : u[i] = ops[1 + i - 1]
    <3> HIDE DEF u
    <3> QED
      BY <2>1, SubSeqProperties DEF u
  <2>3. n - 1 + 1 = n /\ \A i \in 1..n : 1 + i - 1 = i
    BY <1>3
  <2> HIDE DEF u
  <2> QED
    BY <1>3, <2>2, <2>3
<1> HIDE DEF u, t
<1>5. queue'[r] = queue[r] \o u /\ todo'[r] = t
      /\ \A q \in Ranks : q # r => queue'[q] = queue[q] /\ todo'[q] = todo[q]
  BY <1>2 DEF u, t, ExchangeInv, Typed
<1>6. queue[r] \in Seq(Kernels) /\ m \in Nat
  BY LenProperties DEF ExchangeInv, Typed
<1>7. /\ Len(queue[r] \o u) = m + n
      /\ \A i \in 1..m + n : (queue[r] \o u)[i] = IF i <= m THEN queue[r][i] ELSE u[i - m]
  <2>1. queue[r] \in Seq(Kernels \cup OpsOf) /\ u \in Seq(Kernels \cup OpsOf)
    <3>1. Kernels \subseteq Kernels \cup OpsOf /\ OpsOf \subseteq Kernels \cup OpsOf
      OBVIOUS
    <3> QED
      BY <1>4, <1>6, <3>1, SeqMonotonic
  <2> QED
    BY <1>4, <1>6, <2>1, ConcatProperties, ZenonT(40)
<1>8. ASSUME NEW i \in 1..m + n
      PROVE  \/ \E j \in 1..m : (queue[r] \o u)[i] = queue[r][j]
             \/ \E j \in 1..Len(ops) : (queue[r] \o u)[i] = ops[j]
  <2>1. CASE i <= m
    <3>1. i \in 1..m /\ (queue[r] \o u)[i] = queue[r][i]
      BY <1>6, <1>7, <2>1
    <3> QED
      BY <3>1
  <2>2. CASE ~(i <= m)
    <3>1. i - m \in 1..n /\ i - m \in 1..Len(ops) /\ (queue[r] \o u)[i] = u[i - m]
      BY <1>3, <1>6, <1>7, <2>2
    <3>2. (queue[r] \o u)[i] = ops[i - m]
      BY <1>4, <3>1
    <3> QED
      BY <3>1, <3>2
  <2> QED
    BY <2>1, <2>2
<1>9. \A i \in 1..n : ops[i].op \in KernelOps
  BY <1>2 DEF Launchable
<1>10. \A i \in 1..Len(queue'[r]) : \/ \E j \in 1..Len(queue[r]) : queue'[r][i] = queue[r][j]
                                    \/ \E j \in 1..Len(ops) : queue'[r][i] = ops[j]
  BY <1>5, <1>7, <1>8, ZenonT(40)
<1> QED
  BY <1>1, <1>5, <1>9, <1>10 DEF u, t

LEMMA NoMpiGroup == layout.lib = "mpi" => \A o \in OpsOf : o.op # "group"
BY DEF OpsOf, MpiOps, MpiMove, Stencils

LEMMA MpiLaunch ==
  ASSUME ExchangeInv, MpiAhead, layout.lib = "mpi", NEW r \in Ranks, called' = called, Launch(r)
  PROVE  MpiAhead'
<1>1. todo[r] \in Seq(OpsOf) /\ LaunchOf(r, todo[r]) /\ layout \in Layouts
  BY DEF Launch, ExchangeInv, Typed
<1>2. /\ UNCHANGED <<layout, wire, sending, receiving>>
      /\ \A q \in Ranks : q # r => todo'[q] = todo[q] /\ queue'[q] = queue[q]
      /\ \A i \in 1..Len(queue'[r]) : \/ \E j \in 1..Len(queue[r]) : queue'[r][i] = queue[r][j]
                                      \/ \E j \in 1..Len(todo[r]) : queue'[r][i] = todo[r][j]
  BY <1>1, Launched
<1>3. PICK n \in 1..Len(todo[r]) : /\ \A i \in 1..n : todo[r][i].op \in KernelOps
                                   /\ todo'[r] = SubSeq(todo[r], n + 1, Len(todo[r]))
  BY <1>1, Launched
<1>4. n \in 0..Len(todo[r]) /\ \A i \in 1..n : todo[r][i].op # "post"
  <2>1. "post" \notin KernelOps
    BY DEF KernelOps
  <2>2. n \in 0..Len(todo[r])
    BY <1>1, LenProperties
  <2> QED
    BY <1>3, <2>1, <2>2
<1>5. \A a : At(todo'[r], "post", a) = {} <=> At(todo[r], "post", a) = {}
  BY <1>1, <1>3, <1>4, StillToPost
<1>6. MpiRank(r)
  BY DEF MpiAhead
<1>7. HostLeft(todo'[r], Current(r))
  <2>1. \A i \in n + 1..Len(todo[r]) : i \in 1..Len(todo[r])
    BY <1>1, LenProperties
  <2>2. \A i \in n + 1..Len(todo[r]) :
          OfFamily(todo[r][i], Current(r)) \/ (todo[r][i].op = "stencil" /\ i = Len(todo[r]))
    BY <1>6, <2>1 DEF MpiRank, HostLeft
  <2>3. PICK f : f = Current(r)
    OBVIOUS
  <2>4. \A i \in n + 1..Len(todo[r]) : OfFamily(todo[r][i], f) \/ (todo[r][i].op = "stencil" /\ i = Len(todo[r]))
    BY <2>2, <2>3
  <2>5. /\ \A a \in Axes : \A i, j \in At(todo[r], "post", a) : i = j
        /\ Does(todo[r], "post") \subseteq RealAxes(layout)
    BY <1>6 DEF MpiRank, HostLeft
  <2>6. HostLeft(SubSeq(todo[r], n + 1, Len(todo[r])), f)
    BY <1>1, <1>4, <2>4, <2>5, LeftRest
  <2> QED
    BY <1>3, <2>3, <2>6
<1>8. MpiRank(r)'
  <2>1. \A i \in 1..Len(queue'[r]) : queue'[r][i].op # "group"
    <3>1. \A j \in 1..Len(todo[r]) : todo[r][j].op # "group"
      BY <1>1, NoMpiGroup, ElementOfSeq
    <3> QED
      BY <1>2, <1>6, <3>1, SMTT(30) DEF MpiRank
  <2>2. Current(r)' = Current(r) /\ Flying(r)' = Flying(r)
    BY <1>2 DEF Current, Flying
  <2>3. \A s \in Flying(r) : /\ HasNeighbour(r, s)' /\ ~Singleton(layout, AxisOf(s))
                             /\ At(todo'[r], "post", AxisOf(s)) = {}
    BY <1>2, <1>5, <1>6 DEF MpiRank, HasNeighbour, Ranks
  <2>4. HostLeft(todo[r], Current(r))'
    BY <1>2, <1>7, <2>2 DEF HostLeft
  <2> QED
    BY <1>2, <2>1, <2>2, <2>3, <2>4 DEF MpiRank
<1>9. \A s, f : Sent(r, s, f)' = Sent(r, s, f) /\ Got(r, s, f)' = Got(r, s, f)
  <2>1. Does(todo'[r], "post") = Does(todo[r], "post")
    BY <1>5 DEF Does
  <2> QED
    BY <1>2, <2>1 DEF Sent, Got, Posts, Current, CallsOf, One
<1> QED
  BY <1>1, <1>2, <1>8, <1>9, NothingMoves

(* A rank that enters an exchange has nothing in flight, and everything to post.    *)
LEMMA NothingFlying ==
  ASSUME ExchangeInv, layout.lib = "mpi", NEW r \in Ranks, todo[r] = <<>>
  PROVE  Flying(r) = {} /\ sending[r] = {} /\ receiving[r] = {}
<1>1. \A a : At(todo[r], "wait", a) = {}
  BY DEF At
<1>2. \A a \in Axes : Flying(r) \cap Sides(a) = {}
  BY <1>1 DEF ExchangeInv, Local, HostOk
<1>3. Flying(r) \subseteq AllSides
  BY DEF Flying, ExchangeInv, Typed
<1>4. \A s \in AllSides : \E a \in Axes : s \in Sides(a)
  BY DEF AllSides, Axes, Sides
<1> QED
  BY <1>2, <1>3, <1>4 DEF Flying

LEMMA MpiCall ==
  ASSUME ExchangeInv, MpiAhead, layout.lib = "mpi", NEW r \in Ranks, Call(r)
  PROVE  MpiAhead'
<1> DEFINE c == called[r]
           ops == Turn(r, c + 1)
           g == FamilyOf(layout.script[c + 1])
<1>1. /\ todo[r] = <<>> /\ c < Calls /\ called' = [called EXCEPT ![r] = c + 1] /\ LaunchOf(r, ops)
  BY DEF Call
<1>2. /\ layout \in Layouts /\ Calls \in Nat /\ called \in [Ranks -> 0..Calls]
      /\ c \in Nat /\ c + 1 \in 1..Calls
  BY <1>1, LayoutFacts DEF ExchangeInv, Typed
<1>3. Plan(ops, RealAxes(layout), RealAxes(layout), RealAxes(layout))
  BY <1>2, PlanTurn
<1>4. ops \in Seq(OpsOf)
  BY <1>3 DEF Plan, OpsOf
<1>5. /\ Len(ops) \in Nat
      /\ \A i \in 2..Len(ops) : OfFamily(ops[i], g) \/ (ops[i].op = "stencil" /\ i = Len(ops))
  BY <1>2, FamilyOfTurn
<1>6. called'[r] = c + 1 /\ \A q \in Ranks : q # r => called'[q] = called[q]
  BY <1>1, <1>2
<1> HIDE DEF ops, g
<1>7. /\ UNCHANGED <<layout, wire, sending, receiving>>
      /\ \A q \in Ranks : q # r => todo'[q] = todo[q] /\ queue'[q] = queue[q]
      /\ \A i \in 1..Len(queue'[r]) : \/ \E j \in 1..Len(queue[r]) : queue'[r][i] = queue[r][j]
                                      \/ \E j \in 1..Len(ops) : queue'[r][i] = ops[j]
  BY <1>1, <1>4, Launched
<1>8. PICK n \in 1..Len(ops) : /\ \A i \in 1..n : ops[i].op \in KernelOps
                               /\ todo'[r] = SubSeq(ops, n + 1, Len(ops))
  BY <1>1, <1>4, Launched
<1>9. n \in 0..Len(ops) /\ (\A i \in 1..n : ops[i].op # "post") /\ n + 1..Len(ops) \subseteq 2..Len(ops)
  <2>1. "post" \notin KernelOps
    BY DEF KernelOps
  <2> QED
    BY <1>5, <1>8, <2>1
<1>10. Does(todo'[r], "post") = RealAxes(layout)
  <2>1. \A a : At(todo'[r], "post", a) = {} <=> At(ops, "post", a) = {}
    BY <1>4, <1>8, <1>9, StillToPost
  <2>2. Does(todo'[r], "post") = Does(ops, "post")
    BY <2>1 DEF Does
  <2> QED
    BY <1>3, <2>2 DEF Plan
<1>11. HostLeft(todo'[r], g)
  <2>1. \A i \in n + 1..Len(ops) : OfFamily(ops[i], g) \/ (ops[i].op = "stencil" /\ i = Len(ops))
    BY <1>5, <1>9
  <2>2. /\ \A a \in Axes : \A i, j \in At(ops, "post", a) : i = j
        /\ Does(ops, "post") \subseteq RealAxes(layout)
    BY <1>3 DEF Plan, InOrder
  <2>3. HostLeft(SubSeq(ops, n + 1, Len(ops)), g)
    BY <1>4, <1>9, <2>1, <2>2, LeftRest
  <2> QED
    BY <1>8, <2>3
<1>12. Flying(r) = {} /\ sending[r] = {} /\ receiving[r] = {}
  BY <1>1, NothingFlying
<1>13. MpiRank(r)'
  <2>1. \A i \in 1..Len(queue'[r]) : queue'[r][i].op # "group"
    <3>1. \A j \in 1..Len(ops) : ops[j].op # "group"
      BY <1>4, NoMpiGroup, ElementOfSeq
    <3> QED
      BY <1>7, <3>1 DEF MpiAhead, MpiRank
  <2>2. Current(r)' = g
    BY <1>6, <1>7 DEF Current, g
  <2>3. Flying(r)' = {}
    BY <1>7, <1>12 DEF Flying
  <2>4. HostLeft(todo[r], Current(r))'
    BY <1>7, <1>11, <2>2 DEF HostLeft
  <2> QED
    BY <1>7, <2>1, <2>3, <2>4 DEF MpiRank
<1>14. ASSUME NEW s \in AllSides, NEW f \in Families
       PROVE  Sent(r, s, f)' = Sent(r, s, f) /\ Got(r, s, f)' = Got(r, s, f)
  <2> DEFINE a == AxisOf(s)
  <2>1. a \in Axes
    BY DEF AxisOf, Axes
  <2>2. Posts(r, a, f)' = Posts(r, a, f)
    <3>1. CASE Singleton(layout, a)
      BY <1>7, <3>1 DEF Posts
    <3>2. CASE ~Singleton(layout, a)
      <4>1. a \in RealAxes(layout)
        BY <2>1, <3>2 DEF RealAxes, Real, Axes
      <4>2. a \notin Does(todo[r], "post")
        BY <1>1 DEF Does, At
      <4>3. Posts(r, a, f) = CallsOf(c, f) - 0
        BY <3>2, <4>2 DEF Posts, One
      <4>4. Posts(r, a, f)' = CallsOf(c + 1, f) - One(f = g)
        <5>1. CallsOf(called[r], f)' = CallsOf(c + 1, f)
          BY <1>6, <1>7 DEF CallsOf
        <5>2. Current(r)' = g
          BY <1>6, <1>7 DEF Current, g
        <5>3. One(f = Current(r) /\ a \in Does(todo[r], "post"))' = One(f = g)
          BY <1>10, <4>1, <5>2 DEF One
        <5> HIDE DEF c
        <5> QED
          BY <1>7, <3>2, <5>1, <5>3 DEF Posts
      <4>5. /\ CallsOf(c, f) \in Nat /\ One(f = g) \in Nat
            /\ CallsOf(c + 1, f) = CallsOf(c, f) + One(f = g)
        BY <1>2, OneMoreCall DEF g, One
      <4> QED
        BY <4>3, <4>4, <4>5
    <3> QED
      BY <3>1, <3>2
  <2>3. Sent(r, s, f) = Posts(r, a, f) - 0 /\ Got(r, s, f) = Posts(r, a, f) - 0
    BY <1>12 DEF Sent, Got, One
  <2>4. Sent(r, s, f)' = Posts(r, a, f)' - 0 /\ Got(r, s, f)' = Posts(r, a, f)' - 0
    BY <1>7, <1>12 DEF Sent, Got, One
  <2> QED
    BY <2>2, <2>3, <2>4
<1> QED
  <2>1. \A q \in Ranks : q # r => /\ todo'[q] = todo[q] /\ queue'[q] = queue[q] /\ called'[q] = called[q]
                                  /\ sending'[q] = sending[q] /\ receiving'[q] = receiving[q]
    BY <1>6, <1>7
  <2> QED
    BY <1>2, <1>7, <1>13, <1>14, <2>1, NothingMoves

(* The device runs a kernel.                                                    *)
LEMMA MpiDevice ==
  ASSUME ExchangeInv, MpiAhead, NEW r \in Ranks, called' = called,
         RunStencil(r) \/ RunFill(r) \/ RunPack(r) \/ RunUnpack(r) \/ RunCopy(r) \/ GroupEnd(r)
  PROVE  MpiAhead'
<1>1. /\ UNCHANGED <<layout, todo, sending, receiving, wire>>
      /\ queue[r] # <<>> /\ queue' = [queue EXCEPT ![r] = Tail(queue[r])]
  <2>1. CASE RunStencil(r)
    BY <2>1, Zenon DEF RunStencil, Runs, AtHead
  <2>2. CASE RunFill(r)
    BY <2>2, Zenon DEF RunFill, Runs, AtHead
  <2>3. CASE RunPack(r)
    BY <2>3, Zenon DEF RunPack, Runs, AtHead
  <2>4. CASE RunUnpack(r)
    BY <2>4, Zenon DEF RunUnpack, Runs, AtHead
  <2>5. CASE RunCopy(r)
    BY <2>5, Zenon DEF RunCopy, Runs, AtHead
  <2>6. CASE GroupEnd(r)
    BY <2>6, Zenon DEF GroupEnd, Runs, AtHead
  <2> QED
    BY <2>1, <2>2, <2>3, <2>4, <2>5, <2>6
<1>2. queue'[r] = Tail(queue[r]) /\ \A q \in Ranks : q # r => queue'[q] = queue[q]
  BY <1>1 DEF ExchangeInv, Typed
<1>3. MpiRank(r)'
  <2>1. MpiRank(r) /\ Current(r)' = Current(r) /\ Flying(r)' = Flying(r)
    BY <1>1 DEF MpiAhead, Current, Flying
  <2>2. \A i \in 1..Len(queue'[r]) : queue'[r][i].op # "group"
    <3>1. \A i \in 1..Len(queue'[r]) : i + 1 \in 1..Len(queue[r]) /\ queue'[r][i] = queue[r][i + 1]
      <4> DEFINE t == Tail(queue[r])
      <4>1. /\ Len(t) = Len(queue[r]) - 1 /\ Len(queue[r]) \in Nat
            /\ \A i \in 1..Len(queue[r]) - 1 : t[i] = queue[r][i + 1]
        BY <1>1, KernelFacts
      <4>2. queue'[r] = t
        BY <1>2
      <4> HIDE DEF t
      <4>3. \A i \in 1..Len(t) : i + 1 \in 1..Len(queue[r]) /\ t[i] = queue[r][i + 1]
        BY <4>1
      <4> QED
        BY <4>2, <4>3
    <3> QED
      BY <2>1, <3>1 DEF MpiRank
  <2> QED
    BY <1>1, <2>1, <2>2 DEF MpiRank, HostLeft, HasNeighbour, Ranks
<1>4. \A s, f : Sent(r, s, f)' = Sent(r, s, f) /\ Got(r, s, f)' = Got(r, s, f)
  BY <1>1 DEF Sent, Got, Posts, Current, CallsOf, One
<1> QED
  BY <1>1, <1>2, <1>3, <1>4, NothingMoves DEF ExchangeInv, Typed

(* A post: what was to be sent and received is in flight instead.                  *)
LEMMA MpiPost ==
  ASSUME ExchangeInv, MpiAhead, NEW r \in Ranks, called' = called, Post(r)
  PROVE  MpiAhead'
<1> DEFINE a == HostOp(r).axis
           sides == {s \in Sides(a) : HasNeighbour(r, s)}
           t == Tail(todo[r])
<1>1. /\ UNCHANGED <<layout, queue, wire>> /\ todo[r] # <<>>
      /\ HostOp(r).op = "post" /\ todo' = [todo EXCEPT ![r] = t]
      /\ sending' = [sending EXCEPT ![r] = sending[r] \cup sides]
      /\ receiving' = [receiving EXCEPT ![r] = receiving[r] \cup sides]
  BY DEF Post, Doing, Done
<1>2. sides \subseteq Sides(a) /\ sides \subseteq AllSides /\ \A s \in sides : HasNeighbour(r, s)
  BY DEF Sides, AllSides
<1>3. /\ layout.lib = "mpi" /\ a \in Axes /\ 1 \in At(todo[r], "post", a) /\ layout \in Layouts
      /\ todo[r] \in Seq(OpsOf) /\ 1 \in 0..Len(todo[r]) /\ Len(todo[r]) \in Nat
      /\ t = SubSeq(todo[r], 1 + 1, Len(todo[r]))
  BY <1>1, HostFacts DEF ExchangeInv, Typed
<1>4. \A s \in AllSides : HasNeighbour(r, s) => (s \in sides <=> AxisOf(s) = a)
  BY <1>3 DEF Axes, AllSides, Sides, AxisOf
<1> HIDE DEF a, sides, t
<1>5. /\ todo'[r] = t /\ sending'[r] = sending[r] \cup sides /\ receiving'[r] = receiving[r] \cup sides
      /\ \A q \in Ranks : q # r => todo'[q] = todo[q] /\ sending'[q] = sending[q] /\ receiving'[q] = receiving[q]
  BY <1>1 DEF ExchangeInv, Typed
<1>6. MpiRank(r) /\ Current(r)' = Current(r)
  BY <1>1 DEF MpiAhead, Current
<1>7. /\ \A b : \A i \in At(t, "post", b) : i \in Nat /\ i + 1 \in At(todo[r], "post", b)
      /\ \A b : \A i \in At(todo[r], "post", b) : i > 1 => i - 1 \in At(t, "post", b)
  BY <1>3, AtRest
<1>8. At(t, "post", a) = {}
  <2> SUFFICES ASSUME NEW i \in At(t, "post", a) PROVE FALSE
    OBVIOUS
  <2>1. i \in Nat /\ i + 1 \in At(todo[r], "post", a)
    BY <1>7
  <2>2. i + 1 = 1
    BY <1>3, <1>6, <2>1 DEF MpiRank, HostLeft
  <2>3. i \in 1..Len(t)
    BY DEF At
  <2> QED
    BY <2>1, <2>2, <2>3
<1>9. \A b \in Axes : b # a => (At(t, "post", b) = {} <=> At(todo[r], "post", b) = {})
  <2> SUFFICES ASSUME NEW b \in Axes, b # a PROVE At(t, "post", b) = {} <=> At(todo[r], "post", b) = {}
    OBVIOUS
  <2>1. \A i \in At(todo[r], "post", b) : i \in Int /\ i > 1
    <3> SUFFICES ASSUME NEW i \in At(todo[r], "post", b) PROVE i \in Int /\ i > 1
      OBVIOUS
    <3>1. i \in 1..Len(todo[r]) /\ todo[r][i].axis = b
      BY DEF At
    <3>2. todo[r][1].axis = a
      BY <1>3 DEF At
    <3>3. i # 1
      BY <3>1, <3>2
    <3> QED
      BY <1>3, <3>1, <3>3
  <2> QED
    BY <1>7, <2>1
<1>10. ~Singleton(layout, a)
  <2>1. a \in RealAxes(layout)
    BY <1>3, <1>6 DEF Does, MpiRank, HostLeft
  <2> QED
    BY <2>1 DEF RealAxes, Real
<1>11. HostLeft(t, Current(r))
  <2>1. PICK f : f = Current(r)
    OBVIOUS
  <2>2. \A i \in 1 + 1..Len(todo[r]) : OfFamily(todo[r][i], f) \/ (todo[r][i].op = "stencil" /\ i = Len(todo[r]))
    <3>1. \A i \in 1 + 1..Len(todo[r]) : i \in 1..Len(todo[r])
      BY <1>3
    <3> QED
      BY <1>6, <2>1, <3>1 DEF MpiRank, HostLeft
  <2>3. /\ \A b \in Axes : \A i, j \in At(todo[r], "post", b) : i = j
        /\ Does(todo[r], "post") \subseteq RealAxes(layout)
    BY <1>6 DEF MpiRank, HostLeft
  <2>4. HostLeft(SubSeq(todo[r], 1 + 1, Len(todo[r])), f)
    BY <1>3, <2>2, <2>3, LeftRest
  <2> QED
    BY <1>3, <2>1, <2>4
<1>12. \A s \in AllSides : AxisOf(s) \in Axes
  BY DEF AxisOf, Axes
<1>13. \A s \in Flying(r) : s \in AllSides /\ AxisOf(s) # a
  <2>1. Flying(r) \subseteq AllSides
    BY DEF Flying, ExchangeInv, Typed
  <2> QED
    BY <1>3, <1>6, <2>1 DEF MpiRank
<1>14. MpiRank(r)'
  <2>1. Flying(r)' = Flying(r) \cup sides
    BY <1>5 DEF Flying
  <2>2. \A s \in sides : AxisOf(s) = a
    BY <1>2, <1>4
  <2>3. \A s \in Flying(r) \cup sides : /\ HasNeighbour(r, s) /\ ~Singleton(layout, AxisOf(s))
                                        /\ At(t, "post", AxisOf(s)) = {}
    BY <1>2, <1>6, <1>8, <1>9, <1>10, <1>12, <1>13, <2>2 DEF MpiRank
  <2>4. HostLeft(todo[r], Current(r))'
    BY <1>1, <1>5, <1>6, <1>11 DEF HostLeft
  <2>5. \A s : HasNeighbour(r, s)' = HasNeighbour(r, s)
    BY <1>1 DEF HasNeighbour, Ranks
  <2> QED
    BY <1>1, <1>5, <1>6, <2>1, <2>3, <2>4, <2>5 DEF MpiRank
<1>15. ASSUME NEW s \in AllSides, NEW f \in Families, HasNeighbour(r, s)
       PROVE  Sent(r, s, f)' = Sent(r, s, f) /\ Got(r, s, f)' = Got(r, s, f)
  <2> DEFINE b == AxisOf(s)
             n == CallsOf(called[r], f)
             u == One(f = Current(r))
  <2>1. CallsOf(called[r], f)' = n
    BY <1>1 DEF CallsOf
  <2>2. n \in Nat /\ u \in Nat
    BY LayoutFacts, OneMoreCall DEF ExchangeInv, Typed, One
  <2>3. CASE b = a
    <3>1. a \in Does(todo[r], "post") /\ a \notin Does(t, "post")
      BY <1>3, <1>8 DEF Does
    <3>2. Posts(r, b, f) = n - u /\ Posts(r, b, f)' = n - 0
      <4>1. One(f = Current(r) /\ b \in Does(todo[r], "post")) = u
        BY <2>3, <3>1 DEF One
      <4>2. One(f = Current(r) /\ b \in Does(todo[r], "post"))' = 0
        BY <1>5, <2>3, <3>1 DEF One
      <4> QED
        BY <1>1, <1>10, <2>1, <2>3, <4>1, <4>2 DEF Posts
    <3>3. s \notin sending[r] /\ s \notin receiving[r] /\ s \in sending'[r] /\ s \in receiving'[r]
      BY <1>4, <1>5, <1>13, <1>15, <2>3 DEF Flying
    <3>4. Sent(r, s, f) = Posts(r, b, f) - 0 /\ Got(r, s, f) = Posts(r, b, f) - 0
      BY <3>3 DEF Sent, Got, One
    <3>5. Sent(r, s, f)' = Posts(r, b, f)' - u /\ Got(r, s, f)' = Posts(r, b, f)' - u
      BY <1>6, <3>3 DEF Sent, Got, One
    <3> QED
      BY <2>2, <3>2, <3>4, <3>5
  <2>4. CASE b # a
    <3>1. b \in Does(t, "post") <=> b \in Does(todo[r], "post")
      BY <1>9, <1>12, <2>4 DEF Does
    <3>2. Posts(r, b, f)' = Posts(r, b, f)
      BY <1>1, <1>5, <1>6, <2>1, <3>1 DEF Posts, One
    <3>3. (s \in sending'[r] <=> s \in sending[r]) /\ (s \in receiving'[r] <=> s \in receiving[r])
      BY <1>4, <1>5, <1>15, <2>4
    <3> QED
      BY <1>6, <3>2, <3>3 DEF Sent, Got, One
  <2> QED
    BY <2>3, <2>4
<1> QED
  <2>1. \A q \in Ranks : q # r => /\ todo'[q] = todo[q] /\ queue'[q] = queue[q] /\ called'[q] = called[q]
                                  /\ sending'[q] = sending[q] /\ receiving'[q] = receiving[q]
    BY <1>1, <1>5
  <2> QED
    BY <1>1, <1>3, <1>14, <1>15, <2>1, NothingMoves

(* A wait.                                                                      *)
LEMMA MpiWait ==
  ASSUME ExchangeInv, MpiAhead, NEW r \in Ranks, called' = called, Wait(r)
  PROVE  MpiAhead'
<1> DEFINE k == [HostOp(r) EXCEPT !.op = "unpack"]
           t == Tail(todo[r])
<1>1. /\ UNCHANGED <<layout, sending, receiving, wire>> /\ todo[r] # <<>>
      /\ HostOp(r).op = "wait" /\ todo' = [todo EXCEPT ![r] = t]
      /\ queue' = [queue EXCEPT ![r] = Append(queue[r], k)]
  BY DEF Wait, Doing, Done
<1>2. /\ layout.lib = "mpi" /\ layout \in Layouts /\ HostOp(r) = todo[r][1]
      /\ HostOp(r) \in MpiMove({"fill", "pack", "post", "wait"})
      /\ todo[r] \in Seq(OpsOf) /\ 1 \in 0..Len(todo[r]) /\ Len(todo[r]) \in Nat
      /\ t = SubSeq(todo[r], 1 + 1, Len(todo[r]))
  BY <1>1, HostFacts DEF ExchangeInv, Typed
<1>3. k.op = "unpack"
  BY <1>2 DEF MpiMove
<1> HIDE DEF k, t
<1>4. /\ todo'[r] = t /\ queue'[r] = Append(queue[r], k)
      /\ \A q \in Ranks : q # r => todo'[q] = todo[q] /\ queue'[q] = queue[q]
  BY <1>1 DEF ExchangeInv, Typed
<1>5. MpiRank(r) /\ Current(r)' = Current(r) /\ Flying(r)' = Flying(r)
  BY <1>1 DEF MpiAhead, Current, Flying
<1>6. \A b : At(t, "post", b) = {} <=> At(todo[r], "post", b) = {}
  <2>1. \A i \in 1..1 : todo[r][i].op # "post"
    BY <1>1, <1>2
  <2> QED
    BY <1>2, <2>1, StillToPost
<1>7. HostLeft(t, Current(r))
  <2>1. PICK f : f = Current(r)
    OBVIOUS
  <2>2. \A i \in 1 + 1..Len(todo[r]) : OfFamily(todo[r][i], f) \/ (todo[r][i].op = "stencil" /\ i = Len(todo[r]))
    <3>1. \A i \in 1 + 1..Len(todo[r]) : i \in 1..Len(todo[r])
      BY <1>2
    <3> QED
      BY <1>5, <2>1, <3>1 DEF MpiRank, HostLeft
  <2>3. /\ \A b \in Axes : \A i, j \in At(todo[r], "post", b) : i = j
        /\ Does(todo[r], "post") \subseteq RealAxes(layout)
    BY <1>5 DEF MpiRank, HostLeft
  <2>4. HostLeft(SubSeq(todo[r], 1 + 1, Len(todo[r])), f)
    BY <1>2, <2>2, <2>3, LeftRest
  <2> QED
    BY <1>2, <2>1, <2>4
<1>8. \A i \in 1..Len(Append(queue[r], k)) : Append(queue[r], k)[i].op # "group"
  <2>1. queue[r] \in Seq(Kernels) /\ Len(queue[r]) \in Nat
    BY LenProperties DEF ExchangeInv, Typed
  <2>2. queue[r] \in Seq(Kernels \cup {k}) /\ k \in Kernels \cup {k}
    BY <2>1, SeqMonotonic
  <2>3. /\ Len(Append(queue[r], k)) = Len(queue[r]) + 1 /\ Append(queue[r], k)[Len(queue[r]) + 1] = k
        /\ \A i \in 1..Len(queue[r]) : Append(queue[r], k)[i] = queue[r][i]
    BY <2>2, AppendProperties
  <2>4. \A i \in 1..Len(queue[r]) + 1 : i \in 1..Len(queue[r]) \/ i = Len(queue[r]) + 1
    BY <2>1
  <2> QED
    BY <1>3, <1>5, <2>3, <2>4 DEF MpiRank
<1>9. MpiRank(r)'
  <2>1. HostLeft(todo[r], Current(r))'
    BY <1>1, <1>4, <1>5, <1>7 DEF HostLeft
  <2>2. \A s : HasNeighbour(r, s)' = HasNeighbour(r, s)
    BY <1>1 DEF HasNeighbour, Ranks
  <2>3. \A s \in Flying(r) : /\ HasNeighbour(r, s) /\ ~Singleton(layout, AxisOf(s))
                             /\ At(t, "post", AxisOf(s)) = {}
    BY <1>5, <1>6 DEF MpiRank
  <2> QED
    BY <1>1, <1>4, <1>5, <1>8, <2>1, <2>2, <2>3 DEF MpiRank
<1>10. \A s, f : Sent(r, s, f)' = Sent(r, s, f) /\ Got(r, s, f)' = Got(r, s, f)
  <2>1. Does(todo'[r], "post") = Does(todo[r], "post")
    BY <1>4, <1>6 DEF Does
  <2> QED
    BY <1>1, <2>1 DEF Sent, Got, Posts, Current, CallsOf, One
<1> QED
  BY <1>1, <1>2, <1>4, <1>9, <1>10, NothingMoves

(* The step that moves messages of the channel of rank r on side s alone: it leaves   *)
(* the messages v there, and as many as have been sent and not yet received.           *)
OneChannelMoves(r, s, f, v) ==
  /\ r \in Ranks /\ s \in AllSides /\ HasNeighbour(r, s) /\ f \in Families
  /\ UNCHANGED <<layout, todo, queue, called>>
  /\ \E S : v \in Seq(S)
  /\ wire' = [wire EXCEPT ![Channel(r, s, f)] = v]
  /\ \A q \in Ranks : Flying(q)' \subseteq Flying(q)
  /\ \A n, o : n = Neighbour(r, s) /\ o = Opposite[s] => Len(v) = Sent(r, s, f)' - Got(n, o, f)'
  /\ \A q, n \in Ranks, t, o \in AllSides, g \in Families :
       n = Neighbour(q, t) /\ o = Opposite[t] /\ <<q, t, g>> # <<r, s, f>> =>
         Sent(q, t, g)' = Sent(q, t, g) /\ Got(n, o, g)' = Got(n, o, g)

(* A message enters or leaves the channel of one rank on one side.                 *)
LEMMA OneChannel ==
  ASSUME MpiAhead, layout \in Layouts, NEW r, NEW s, NEW f, NEW v, OneChannelMoves(r, s, f, v)
  PROVE  MpiAhead'
<1>0. /\ UNCHANGED <<layout, todo, queue, called>> /\ \E S : v \in Seq(S)
      /\ r \in Ranks /\ s \in AllSides /\ HasNeighbour(r, s) /\ f \in Families
      /\ wire' = [wire EXCEPT ![Channel(r, s, f)] = v]
      /\ \A q \in Ranks : Flying(q)' \subseteq Flying(q)
      /\ \A n, o : n = Neighbour(r, s) /\ o = Opposite[s] => Len(v) = Sent(r, s, f)' - Got(n, o, f)'
      /\ \A q, n \in Ranks, t, o \in AllSides, g \in Families :
           n = Neighbour(q, t) /\ o = Opposite[t] /\ <<q, t, g>> # <<r, s, f>> =>
             Sent(q, t, g)' = Sent(q, t, g) /\ Got(n, o, g)' = Got(n, o, g)
  BY DEF OneChannelMoves
<1> USE <1>0
<1> DEFINE ch == Channel(r, s, f)
<1>1. /\ Ranks' = Ranks
      /\ \A q, t : HasNeighbour(q, t)' = HasNeighbour(q, t) /\ Neighbour(q, t)' = Neighbour(q, t)
  BY DEF Ranks, HasNeighbour, Neighbour
<1>2. ASSUME NEW q \in Ranks PROVE MpiRank(q)'
  <2>1. MpiRank(q)
    BY DEF MpiAhead
  <2>2. Current(q)' = Current(q)
    BY DEF Current
  <2>3. \A t \in Flying(q)' : /\ HasNeighbour(q, t) /\ ~Singleton(layout, AxisOf(t))
                              /\ At(todo[q], "post", AxisOf(t)) = {}
    BY <2>1 DEF MpiRank
  <2> QED
    BY <1>1, <2>1, <2>2, <2>3 DEF MpiRank, HostLeft
<1>3. \A q \in Ranks, t \in AllSides, g \in Families : Channel(q, t, g) \in DOMAIN wire
  BY Opposites DEF MpiAhead, MpiWires, Channel
<1>4. /\ DOMAIN wire' = DOMAIN wire /\ wire'[ch] = v
      /\ \A c \in DOMAIN wire : c # ch => wire'[c] = wire[c]
  BY <1>3
<1>5. \A q, p, t, g : <<q, p, <<g, t>>>> = ch <=> q = r /\ t = s /\ g = f /\ p = Neighbour(r, s)
  BY DEF Channel
<1> HIDE DEF ch
<1>6. ASSUME NEW q \in Ranks, NEW t \in AllSides, NEW g \in Families, HasNeighbour(q, t)
      PROVE  Len(wire[Channel(q, t, g)])' = Sent(q, t, g)' - Got(Neighbour(q, t), Opposite[t], g)'
  <2>1. PICK n, o : n = Neighbour(q, t) /\ o = Opposite[t]
    OBVIOUS
  <2>2. n \in Ranks /\ o \in AllSides
    BY <2>1, Opposites
  <2>3. PICK c : c = Channel(q, t, g)
    OBVIOUS
  <2>4. Channel(q, t, g)' = c /\ Got(Neighbour(q, t), Opposite[t], g)' = Got(n, o, g)'
    BY <1>1, <2>1, <2>3 DEF Channel
  <2>5. Len(wire'[c]) = Sent(q, t, g)' - Got(n, o, g)'
    <3>1. CASE <<q, t, g>> = <<r, s, f>>
      <4>1. q = r /\ t = s /\ g = f
        BY <3>1
      <4>2. c = ch /\ n = Neighbour(r, s) /\ o = Opposite[s]
        BY <2>1, <2>3, <4>1 DEF ch
      <4>3. Len(v) = Sent(r, s, f)' - Got(n, o, f)'
        BY <4>2
      <4> QED
        BY <1>4, <4>1, <4>2, <4>3
    <3>2. CASE <<q, t, g>> # <<r, s, f>>
      <4>1. c # ch
        <5> SUFFICES ASSUME c = ch PROVE FALSE
          OBVIOUS
        <5>1. <<q, Neighbour(q, t), <<g, t>>>> = <<r, Neighbour(r, s), <<f, s>>>>
          BY <2>3 DEF Channel, ch
        <5>2. q = r /\ g = f /\ t = s
          BY <5>1
        <5> QED
          BY <3>2, <5>2
      <4>2. wire'[c] = wire[c]
        BY <1>3, <1>4, <2>3, <4>1
      <4>3. Len(wire[c]) = Sent(q, t, g) - Got(n, o, g)
        BY <1>6, <2>1, <2>3 DEF MpiAhead, MpiWires
      <4>4. Sent(q, t, g)' = Sent(q, t, g) /\ Got(n, o, g)' = Got(n, o, g)
        BY <2>1, <2>2, <3>2
      <4> QED
        BY <4>2, <4>3, <4>4
    <3> QED
      BY <3>1, <3>2
  <2> QED
    BY <2>4, <2>5
<1>7. MpiWires'
  <2>1. \A c \in DOMAIN wire : \E S : wire'[c] \in Seq(S)
    BY <1>4 DEF MpiAhead, MpiWires
  <2>2. ASSUME NEW q \in Ranks, NEW p \in Ranks, NEW t \in AllSides, NEW g \in Families,
               ~(HasNeighbour(q, t) /\ p = Neighbour(q, t))
        PROVE  wire'[<<q, p, <<g, t>>>>] = <<>>
    <3>1. <<q, p, <<g, t>>>> # ch
      BY <1>5, <2>2
    <3>2. <<q, p, <<g, t>>>> \in DOMAIN wire /\ wire[<<q, p, <<g, t>>>>] = <<>>
      BY <2>2 DEF MpiAhead, MpiWires
    <3> QED
      BY <1>4, <3>1, <3>2
  <2>3. DOMAIN wire' = Ranks \X Ranks \X (Families \X AllSides)
    BY <1>4 DEF MpiAhead, MpiWires
  <2> QED
    BY <1>1, <1>4, <1>6, <2>1, <2>2, <2>3 DEF MpiWires
<1> QED
  BY <1>1, <1>2, <1>7 DEF MpiAhead

(* A rank with a request in flight has a wait before it, so its next operation is    *)
(* of the exchange that posted the request.                                       *)
LEMMA InItsFamily ==
  ASSUME ExchangeInv, MpiAhead, layout.lib = "mpi", NEW r \in Ranks, NEW s \in Flying(r)
  PROVE  Family(r) = Current(r) /\ Current(r) \in Families /\ HasNeighbour(r, s) /\ s \in AllSides
<1>1. s \in AllSides /\ HostOk(todo[r], Flying(r)) /\ MpiRank(r)
  BY DEF Flying, ExchangeInv, Typed, Local, MpiAhead
<1>2. \E a \in Axes : s \in Sides(a)
  BY <1>1 DEF AllSides, Axes, Sides
<1>3. PICK a \in Axes : At(todo[r], "wait", a) # {}
  BY <1>1, <1>2 DEF HostOk
<1>4. PICK i : i \in At(todo[r], "wait", a)
  BY <1>3
<1>5. i \in 1..Len(todo[r]) /\ todo[r][i].op = "wait" /\ todo[r] \in Seq(OpsOf) /\ Len(todo[r]) \in Nat
  BY <1>4, LenProperties DEF At, ExchangeInv, Typed
<1>6. todo[r] # <<>> /\ 1 \in 1..Len(todo[r])
  BY <1>5
<1>7. OfFamily(todo[r][1], Current(r)) \/ (todo[r][1].op = "stencil" /\ 1 = Len(todo[r]))
  BY <1>1, <1>6 DEF MpiRank, HostLeft
<1>8. OfFamily(todo[r][1], Current(r))
  <2>1. CASE todo[r][1].op = "stencil" /\ 1 = Len(todo[r])
    <3>1. i = 1
      BY <1>5, <2>1
    <3> QED
      BY <1>5, <2>1, <3>1
  <2> QED
    BY <1>7, <2>1
<1>9. Family(r) = Current(r)
  BY <1>6, <1>8, HostFacts DEF Family, OfFamily
<1>10. Current(r) \in Families
  BY DEF Current, FamilyOf, Families
<1> QED
  BY <1>1, <1>9, <1>10 DEF MpiRank

LEMMA MpiInject ==
  ASSUME ExchangeInv, MpiAhead, layout.lib = "mpi", NEW r \in Ranks, called' = called,
         NEW s \in AllSides, Inject(r, s)
  PROVE  MpiAhead'
<1> DEFINE f == Current(r)
           ch == Channel(r, s, f)
           v == Append(wire[ch], sendbuf[r][s])
<1>1. s \in sending[r] /\ s \in Flying(r) /\ layout \in Layouts
  BY DEF Inject, Flying, ExchangeInv, Typed
<1>2. Family(r) = f /\ f \in Families /\ HasNeighbour(r, s)
  BY <1>1, InItsFamily
<1>3. /\ UNCHANGED <<layout, todo, queue, receiving>>
      /\ wire' = [wire EXCEPT ![ch] = v] /\ sending' = [sending EXCEPT ![r] = sending[r] \ {s}]
  BY <1>2 DEF Inject, Channel, SendTag
<1>4. ch \in DOMAIN wire /\ \E S : wire[ch] \in Seq(S)
  BY <1>2, Opposites, <1>1 DEF MpiAhead, MpiWires, Channel
<1>5. Len(wire[ch]) \in Nat /\ Len(v) = Len(wire[ch]) + 1 /\ \E S : v \in Seq(S)
  BY <1>4, Longer
<1>6. Len(wire[ch]) = Sent(r, s, f) - Got(Neighbour(r, s), Opposite[s], f)
  BY <1>2 DEF MpiAhead, MpiWires
<1> HIDE DEF ch, v
<1>7. /\ sending'[r] = sending[r] \ {s} /\ \A q \in Ranks : q # r => sending'[q] = sending[q]
      /\ \A q \in Ranks : Flying(q)' \subseteq Flying(q)
  BY <1>3 DEF Flying, ExchangeInv, Typed
<1>8. /\ \A q, t, g : Posts(q, t, g)' = Posts(q, t, g) /\ Got(q, t, g)' = Got(q, t, g)
      /\ \A q : Current(q)' = Current(q)
  BY <1>3 DEF Got, Posts, Current, CallsOf, One
<1>9. Sent(r, s, f)' = Sent(r, s, f) + 1
  <2>1. Sent(r, s, f) = Posts(r, AxisOf(s), f) - 1
    BY <1>1 DEF Sent, One
  <2>2. Sent(r, s, f)' = Posts(r, AxisOf(s), f)' - 0
    BY <1>7 DEF Sent, One
  <2>3. Posts(r, AxisOf(s), f) \in Int
    BY CountsAreInt
  <2> QED
    BY <1>8, <2>1, <2>2, <2>3
<1>10. \A q \in Ranks, t \in AllSides, g \in Families :
         <<q, t, g>> # <<r, s, f>> => Sent(q, t, g)' = Sent(q, t, g)
  <2> SUFFICES ASSUME NEW q \in Ranks, NEW t \in AllSides, NEW g \in Families, <<q, t, g>> # <<r, s, f>>
               PROVE  Sent(q, t, g)' = Sent(q, t, g)
    OBVIOUS
  <2>1. (g = Current(q) /\ t \in sending'[q]) <=> (g = Current(q) /\ t \in sending[q])
    BY <1>7
  <2> QED
    BY <1>8, <2>1 DEF Sent, One
<1>11. \A n, o : n = Neighbour(r, s) /\ o = Opposite[s] => Len(v) = Sent(r, s, f)' - Got(n, o, f)'
  <2>1. Neighbour(r, s) \in Ranks
    BY <1>1, Opposites
  <2>2. Sent(r, s, f) \in Int /\ Got(Neighbour(r, s), Opposite[s], f) \in Int
    BY <2>1, CountsAreInt
  <2> QED
    BY <1>5, <1>6, <1>8, <1>9, <2>2
<1>12. PICK g, w : g = f /\ w = v
  OBVIOUS
<1> HIDE DEF f
<1>13. /\ g \in Families /\ wire' = [wire EXCEPT ![Channel(r, s, g)] = w] /\ \E S : w \in Seq(S)
       /\ UNCHANGED <<layout, todo, queue, called>>
  BY <1>2, <1>3, <1>5, <1>12 DEF ch
<1>14. \A n, o : n = Neighbour(r, s) /\ o = Opposite[s] => Len(w) = Sent(r, s, g)' - Got(n, o, g)'
  <2>1. f' = f
    BY <1>8 DEF f
  <2> QED
    BY <1>11, <1>12, <2>1
<1>15. \A q, n \in Ranks, t, o \in AllSides, h \in Families :
         n = Neighbour(q, t) /\ o = Opposite[t] /\ <<q, t, h>> # <<r, s, g>> =>
           Sent(q, t, h)' = Sent(q, t, h) /\ Got(n, o, h)' = Got(n, o, h)
  BY <1>8, <1>10, <1>12
<1>16. OneChannelMoves(r, s, g, w)
  BY <1>2, <1>7, <1>13, <1>14, <1>15 DEF OneChannelMoves
<1> QED
  BY <1>1, <1>16, OneChannel

LEMMA MpiDeliver ==
  ASSUME ExchangeInv, MpiAhead, layout.lib = "mpi", NEW r \in Ranks, called' = called,
         NEW s \in AllSides, Deliver(r, s)
  PROVE  MpiAhead'
<1> DEFINE f == Current(r)
           n == Neighbour(r, s)
           o == Opposite[s]
           ch == Channel(n, o, f)
           v == Tail(wire[ch])
<1>1. s \in receiving[r] /\ s \in Flying(r) /\ layout \in Layouts
  BY DEF Deliver, Flying, ExchangeInv, Typed
<1>2. Family(r) = f /\ f \in Families /\ HasNeighbour(r, s)
  BY <1>1, InItsFamily
<1>3. /\ o \in AllSides /\ Opposite[o] = s /\ n \in Ranks /\ Neighbour(n, o) = r /\ HasNeighbour(n, o)
  BY <1>1, <1>2, Opposites
<1>4. /\ UNCHANGED <<layout, todo, queue, sending>> /\ wire[ch] # <<>>
      /\ wire' = [wire EXCEPT ![ch] = v] /\ receiving' = [receiving EXCEPT ![r] = receiving[r] \ {s}]
  <2>1. <<n, r, RecvTag(Family(r), s)>> = ch
    BY <1>2, <1>3 DEF Channel, RecvTag
  <2> QED
    BY <2>1 DEF Deliver
<1>5. ch \in DOMAIN wire /\ \E S : wire[ch] \in Seq(S)
  BY <1>1, <1>2, <1>3 DEF MpiAhead, MpiWires, Channel
<1>6. Len(wire[ch]) \in Nat /\ Len(v) = Len(wire[ch]) - 1 /\ \E S : v \in Seq(S)
  BY <1>4, <1>5, Shorter
<1>7. Len(wire[ch]) = Sent(n, o, f) - Got(r, s, f)
  BY <1>2, <1>3 DEF MpiAhead, MpiWires
<1> HIDE DEF ch, v, n, o
<1>8. /\ receiving'[r] = receiving[r] \ {s} /\ \A q \in Ranks : q # r => receiving'[q] = receiving[q]
      /\ \A q \in Ranks : Flying(q)' \subseteq Flying(q)
  BY <1>4 DEF Flying, ExchangeInv, Typed
<1>9. /\ \A q, t, g : Posts(q, t, g)' = Posts(q, t, g) /\ Sent(q, t, g)' = Sent(q, t, g)
      /\ \A q : Current(q)' = Current(q)
  BY <1>4 DEF Sent, Posts, Current, CallsOf, One
<1>10. Got(r, s, f)' = Got(r, s, f) + 1
  <2>1. Got(r, s, f) = Posts(r, AxisOf(s), f) - 1
    BY <1>1 DEF Got, One
  <2>2. Got(r, s, f)' = Posts(r, AxisOf(s), f)' - 0
    BY <1>8 DEF Got, One
  <2>3. Posts(r, AxisOf(s), f) \in Int
    BY CountsAreInt
  <2> QED
    BY <1>9, <2>1, <2>2, <2>3
<1>11. \A q, m \in Ranks, t, p \in AllSides, g \in Families :
         m = Neighbour(q, t) /\ p = Opposite[t] /\ <<q, t, g>> # <<n, o, f>> =>
           Got(m, p, g)' = Got(m, p, g)
  <2> SUFFICES ASSUME NEW q \in Ranks, NEW m \in Ranks, NEW t \in AllSides, NEW p \in AllSides,
                      NEW g \in Families, m = Neighbour(q, t), p = Opposite[t], <<q, t, g>> # <<n, o, f>>
               PROVE  Got(m, p, g)' = Got(m, p, g)
    OBVIOUS
  <2>1. <<m, p, g>> # <<r, s, f>>
    <3> SUFFICES ASSUME m = r, p = s, g = f PROVE FALSE
      OBVIOUS
    <3>1. q = Neighbour(r, s) /\ t = Opposite[s]
      BY <1>1, Opposites
    <3> QED
      BY <3>1 DEF n, o
  <2>2. (g = Current(m) /\ p \in receiving'[m]) <=> (g = Current(m) /\ p \in receiving[m])
    BY <1>8, <2>1
  <2> QED
    BY <1>9, <2>2 DEF Got, One
<1>12. PICK g, w, k, z : g = f /\ w = v /\ k = n /\ z = o
  OBVIOUS
<1>13. f' = f
  BY <1>9
<1> HIDE DEF f
<1>14. /\ g \in Families /\ wire' = [wire EXCEPT ![Channel(k, z, g)] = w] /\ \E S : w \in Seq(S)
       /\ UNCHANGED <<layout, todo, queue, called>> /\ k \in Ranks /\ z \in AllSides /\ HasNeighbour(k, z)
  BY <1>2, <1>3, <1>4, <1>6, <1>12 DEF ch
<1>15. \A m, p : m = Neighbour(k, z) /\ p = Opposite[z] => Len(w) = Sent(k, z, g)' - Got(m, p, g)'
  <2>1. Sent(k, z, g) \in Int /\ Got(r, s, g) \in Int
    BY <1>3, <1>12, CountsAreInt
  <2>2. Got(r, s, g)' = Got(r, s, g) + 1
    BY <1>10, <1>12, <1>13
  <2>3. Neighbour(k, z) = r /\ Opposite[z] = s
    BY <1>3, <1>12
  <2>4. Len(w) = Sent(k, z, g) - Got(r, s, g) - 1
    BY <1>6, <1>7, <1>12
  <2> QED
    BY <1>9, <2>1, <2>2, <2>3, <2>4
<1>16. \A q, m \in Ranks, t, p \in AllSides, h \in Families :
         m = Neighbour(q, t) /\ p = Opposite[t] /\ <<q, t, h>> # <<k, z, g>> =>
           Sent(q, t, h)' = Sent(q, t, h) /\ Got(m, p, h)' = Got(m, p, h)
  BY <1>9, <1>11, <1>12
<1>17. OneChannelMoves(k, z, g, w)
  BY <1>8, <1>14, <1>15, <1>16 DEF OneChannelMoves
<1> QED
  BY <1>1, <1>17, OneChannel

(* The count of MPI's messages holds at the start, and every step keeps it.           *)
LEMMA MpiInitially ==
  ASSUME Init, ExchangeInv, layout.lib = "mpi"
  PROVE  MpiAhead
<1>1. /\ layout \in Layouts
      /\ \A r \in Ranks : /\ called[r] = 0 /\ todo[r] = <<>> /\ queue[r] = <<>>
                          /\ sending[r] = {} /\ receiving[r] = {}
      /\ wire = [ch \in Ranks \X Ranks \X (Families \X AllSides) |-> <<>>]
  BY DEF Init, Tags
<1>2. ASSUME NEW r \in Ranks PROVE MpiRank(r)
  <2>1. (\A o, a : At(<<>>, o, a) = {}) /\ Len(<<>>) = 0
    BY DEF At
  <2> QED
    BY <1>1, <2>1 DEF MpiRank, HostLeft, Flying, Does
<1>3. \A f : CallsOf(0, f) = 0
  <2>1. \A f : {g \in 1..0 : FamilyOf(layout.script[g]) = f} = {}
    OBVIOUS
  <2> QED
    BY <2>1, FS_EmptySet DEF CallsOf
<1>4. ASSUME NEW r \in Ranks, NEW s, NEW f PROVE Sent(r, s, f) = 0 /\ Got(r, s, f) = 0
  <2>1. Does(<<>>, "post") = {}
    BY DEF Does, At
  <2> QED
    BY <1>1, <1>3, <2>1 DEF Sent, Got, Posts, One
<1>5. MpiWires
  <2>1. DOMAIN wire = Ranks \X Ranks \X (Families \X AllSides) /\ \A ch \in DOMAIN wire : wire[ch] = <<>>
    BY <1>1
  <2>2. \A ch \in DOMAIN wire : \E S : wire[ch] \in Seq(S)
    <3>1. <<>> \in Seq({})
      BY NoOp
    <3> QED
      BY <2>1, <3>1
  <2>3. ASSUME NEW r \in Ranks, NEW s \in AllSides, NEW f \in Families, HasNeighbour(r, s)
        PROVE  Len(wire[Channel(r, s, f)]) = Sent(r, s, f) - Got(Neighbour(r, s), Opposite[s], f)
    <3>1. Neighbour(r, s) \in Ranks
      BY <1>1, Opposites
    <3>2. Channel(r, s, f) \in DOMAIN wire
      BY <2>1, <3>1 DEF Channel
    <3>3. Sent(r, s, f) = 0 /\ Got(Neighbour(r, s), Opposite[s], f) = 0
      BY <1>4, <3>1
    <3> QED
      BY <2>1, <3>2, <3>3
  <2>4. \A r, q \in Ranks, s \in AllSides, f \in Families : <<r, q, <<f, s>>>> \in DOMAIN wire
    BY <2>1
  <2> QED
    BY <2>1, <2>2, <2>3, <2>4 DEF MpiWires
<1> QED
  BY <1>2, <1>5 DEF MpiAhead

LEMMA MpiStep ==
  ASSUME ExchangeInv, MpiAhead, layout.lib = "mpi", [Next]_<<vars, called>>
  PROVE  MpiAhead'
<1>1. ASSUME NEW r \in Ranks, Run(r) PROVE MpiAhead'
  <2>1. called' = called
    BY <1>1 DEF Run
  <2>2. CASE Launch(r)
    BY <2>1, <2>2, MpiLaunch
  <2>3. CASE RunStencil(r) \/ RunFill(r) \/ RunPack(r) \/ RunUnpack(r) \/ RunCopy(r) \/ GroupEnd(r)
    BY <2>1, <2>3, MpiDevice
  <2>4. ~(GroupSend(r) \/ GroupReceive(r))
    <3>1. ASSUME AtHead(r, "group") PROVE FALSE
      <4>1. queue[r] # <<>> /\ Kernel(r).op = "group"
        BY <3>1 DEF AtHead
      <4>2. 1 \in 1..Len(queue[r]) /\ Kernel(r) = queue[r][1]
        BY <4>1, KernelFacts
      <4> QED
        BY <4>1, <4>2 DEF MpiAhead, MpiRank
    <3> QED
      BY <3>1, Zenon DEF GroupSend, GroupReceive
  <2>5. ~Synchronize(r)
    <3>1. ASSUME Synchronize(r) PROVE FALSE
      <4>1. todo[r] # <<>> /\ HostOp(r).op = "sync"
        BY <3>1 DEF Synchronize, Doing
      <4>2. HostOp(r) \in MpiOps
        BY <4>1, HostFacts DEF OpsOf
      <4> QED
        BY <4>1, <4>2 DEF MpiOps, MpiMove, Stencils
    <3> QED
      BY <3>1
  <2>6. CASE Post(r)
    BY <2>1, <2>6, MpiPost
  <2>7. CASE Wait(r)
    BY <2>1, <2>7, MpiWait
  <2>8. CASE \E side \in AllSides : Inject(r, side) \/ Deliver(r, side)
    BY <2>1, <2>8, MpiInject, MpiDeliver
  <2> QED
    BY <1>1, <2>2, <2>3, <2>4, <2>5, <2>6, <2>7, <2>8 DEF Run, DeviceNext, MpiNext, NcclNext
<1>2. CASE Terminated \/ UNCHANGED <<vars, called>>
  <2>1. UNCHANGED <<layout, called, todo, queue, sending, receiving, wire>>
    BY <1>2 DEF Terminated, vars
  <2>2. /\ Ranks' = Ranks
        /\ \A q, s : HasNeighbour(q, s)' = HasNeighbour(q, s) /\ Neighbour(q, s)' = Neighbour(q, s)
    BY <2>1, SMTT(30) DEF Ranks, HasNeighbour, Neighbour
  <2>3. MpiAhead' <=> MpiAhead
    BY <2>1 DEF MpiAhead, MpiWires, MpiRank, HostLeft, Flying, Current, Channel, Sent, Got, Posts,
                CallsOf, One, Ranks, HasNeighbour, Neighbour, Shifted, Does, RealAxes, Real
  <2> QED
    BY <2>3
<1> QED
  BY <1>1, <1>2, MpiCall DEF Next

(* A channel holds at most two messages, because the neighbour has sent as many as   *)
(* this rank has received.                                                       *)
LEMMA MpiBounded ==
  ASSUME ExchangeInv, MpiAhead
  PROVE  OneExchangeAhead
<1>1. layout \in Layouts
  BY DEF ExchangeInv, Typed
<1> DEFINE bounds(c) == /\ Len(wire[c]) <= 2
                        /\ (\A r \in Ranks : Finished(r)) => wire[c] = <<>>
<1>2. ASSUME NEW r \in Ranks, NEW s \in AllSides, NEW f \in Families, HasNeighbour(r, s)
      PROVE  bounds(Channel(r, s, f))
  <2> DEFINE n == Neighbour(r, s)
             o == Opposite[s]
             a == AxisOf(s)
             ch == Channel(r, s, f)
             back == Channel(n, o, f)
  <2>1. n \in Ranks /\ o \in AllSides /\ Opposite[o] = s /\ Neighbour(n, o) = r /\ HasNeighbour(n, o)
    BY <1>1, <1>2, Opposites
  <2>2. AxisOf(o) = a
    BY DEF AxisOf, Opposite, Sides, AllSides
  <2>3. /\ ch \in DOMAIN wire /\ back \in DOMAIN wire
        /\ Len(wire[ch]) = Sent(r, s, f) - Got(n, o, f)
        /\ Len(wire[back]) = Sent(n, o, f) - Got(r, s, f)
    BY <1>2, <2>1 DEF MpiAhead, MpiWires, Channel
  <2>4. Len(wire[ch]) \in Nat /\ Len(wire[back]) \in Nat
    BY <2>3, LenProperties DEF MpiAhead, MpiWires
  <2>5. Posts(r, a, f) \in Int /\ Posts(n, a, f) \in Int
    BY <2>1, CountsAreInt
  <2>6. /\ Sent(r, s, f) \in {Posts(r, a, f), Posts(r, a, f) - 1}
        /\ Got(r, s, f) \in {Posts(r, a, f), Posts(r, a, f) - 1}
    BY <2>5 DEF Sent, Got, One
  <2>7. /\ Sent(n, o, f) \in {Posts(n, a, f), Posts(n, a, f) - 1}
        /\ Got(n, o, f) \in {Posts(n, a, f), Posts(n, a, f) - 1}
    BY <2>2, <2>5 DEF Sent, Got, One
  <2>8. Len(wire[ch]) <= 2
    <3> HIDE DEF n, o, a, ch, back
    <3> QED
      BY <2>3, <2>4, <2>5, <2>6, <2>7
  <2>9. ASSUME \A q \in Ranks : Finished(q) PROVE wire[ch] = <<>>
    <3>1. /\ called[r] = called[n] /\ todo[r] = <<>> /\ todo[n] = <<>>
      BY <2>1, <2>9 DEF Finished
    <3>2. Does(<<>>, "post") = {}
      BY DEF Does, At
    <3>3. Posts(r, a, f) = Posts(n, a, f)
      BY <3>1, <3>2 DEF Posts, One
    <3>4. \A q \in Ranks : todo[q] = <<>> => At(todo[q], "wait", a) = {}
      BY DEF At
    <3>5. sending[r] = {} /\ receiving[n] = {}
      <4>1. layout.lib = "mpi" \/ (Flying(r) = {} /\ Flying(n) = {})
        BY <2>1 DEF ExchangeInv, Local
      <4>2. CASE layout.lib = "mpi"
        BY <2>1, <3>1, <4>2, NothingFlying
      <4> QED
        BY <4>1, <4>2 DEF Flying
    <3>6. Sent(r, s, f) = Posts(r, a, f) - 0 /\ Got(n, o, f) = Posts(n, a, f) - 0
      BY <2>2, <3>5 DEF Sent, Got, One
    <3>7. Len(wire[ch]) = 0
      <4> HIDE DEF n, o, a, ch, back
      <4> QED
        BY <2>3, <2>5, <3>3, <3>6
    <3> QED
      BY <2>3, <3>7, EmptySeq DEF MpiAhead, MpiWires
  <2> QED
    BY <2>8, <2>9
<1>3. ASSUME NEW c \in DOMAIN wire PROVE bounds(c)
  <2>1. PICK r \in Ranks, q \in Ranks, f \in Families, s \in AllSides : c = <<r, q, <<f, s>>>>
    BY DEF MpiAhead, MpiWires
  <2>2. CASE HasNeighbour(r, s) /\ q = Neighbour(r, s)
    <3>1. c = Channel(r, s, f)
      BY <2>1, <2>2 DEF Channel
    <3> QED
      BY <1>2, <2>2, <3>1
  <2>3. CASE ~(HasNeighbour(r, s) /\ q = Neighbour(r, s))
    <3>1. wire[c] = <<>>
      BY <2>1, <2>3 DEF MpiAhead, MpiWires
    <3> QED
      BY <3>1
  <2> QED
    BY <2>2, <2>3
<1> QED
  BY <1>3 DEF OneExchangeAhead

---------------------------------------------------------------------------------
(* How many elements of a sequence are in a set.                                  *)
Count(s, X) == Cardinality({i \in 1..Len(s) : s[i] \in X})

LEMMA CountIsNat ==
  ASSUME NEW S, NEW s \in Seq(S), NEW X
  PROVE  IsFiniteSet({i \in 1..Len(s) : s[i] \in X}) /\ Count(s, X) \in Nat
<1> DEFINE T == {i \in 1..Len(s) : s[i] \in X}
<1>1. Len(s) \in Int
  BY LenProperties
<1>2. IsFiniteSet(1..Len(s)) /\ T \in SUBSET (1..Len(s))
  BY <1>1, FS_Interval
<1> HIDE DEF T
<1>3. IsFiniteSet(T)
  BY <1>2, FS_Subset
<1> QED
  BY <1>3, FS_CardinalityType DEF Count, T

LEMMA CountJoined ==
  ASSUME NEW S, NEW s \in Seq(S), NEW t \in Seq(S), NEW X
  PROVE  Count(s \o t, X) = Count(s, X) + Count(t, X)
<1> DEFINE m == Len(s)
           n == Len(t)
           u == s \o t
           A == {i \in 1..m : s[i] \in X}
           B == {i \in 1..n : t[i] \in X}
           C == {i \in 1..m + n : u[i] \in X}
           D == C \ A
           shift == [i \in B |-> m + i]
<1>1. /\ m \in Nat /\ n \in Nat /\ Len(u) = m + n /\ u \in Seq(S)
      /\ \A i \in 1..m + n : u[i] = IF i <= m THEN s[i] ELSE t[i - m]
  BY ConcatProperties, LenProperties
<1>2. \A i \in 1..m : i \in 1..m + n /\ u[i] = s[i]
  BY <1>1
<1>3. \A i \in 1..n : m + i \in 1..m + n /\ u[m + i] = t[i] /\ m + i \notin 1..m
  <2> SUFFICES ASSUME NEW i \in 1..n PROVE m + i \in 1..m + n /\ u[m + i] = t[i] /\ m + i \notin 1..m
    OBVIOUS
  <2>1. m + i \in 1..m + n /\ ~(m + i <= m) /\ (m + i) - m = i
    BY <1>1
  <2> QED
    BY <1>1, <2>1
<1>4. \A i \in 1..m + n : i \in 1..m \/ \E j \in 1..n : i = m + j
  <2> SUFFICES ASSUME NEW i \in 1..m + n, i \notin 1..m PROVE \E j \in 1..n : i = m + j
    OBVIOUS
  <2>1. i - m \in 1..n /\ i = m + (i - m)
    BY <1>1
  <2> QED
    BY <2>1
<1>5. IsFiniteSet(A) /\ IsFiniteSet(B) /\ IsFiniteSet(C)
  BY <1>1, CountIsNat
<1>6. \A i, j \in 1..n : m + i = m + j => i = j
  BY <1>1
<1> HIDE DEF m, n, u
<1>7. A \subseteq C /\ \A i \in B : m + i \in D
  BY <1>2, <1>3
<1>8. \A k \in D : \E i \in B : k = m + i
  <2> SUFFICES ASSUME NEW k \in D PROVE \E i \in B : k = m + i
    OBVIOUS
  <2>1. k \in 1..m + n /\ u[k] \in X /\ k \notin A
    OBVIOUS
  <2>2. k \notin 1..m
    BY <1>2, <2>1
  <2>3. PICK i \in 1..n : k = m + i
    BY <1>4, <2>1, <2>2
  <2> QED
    BY <1>3, <2>1, <2>3
<1>9. \A i, j \in B : m + i = m + j => i = j
  BY <1>6
<1>10. shift \in Bijection(B, D)
  <2> HIDE DEF B, D
  <2> QED
    BY <1>7, <1>8, <1>9 DEF Bijection, Injection, Surjection, IsInjective
<1>11. Cardinality(D) = Cardinality(B) /\ IsFiniteSet(D)
  <2>1. ExistsBijection(B, D)
    BY <1>10 DEF ExistsBijection
  <2> HIDE DEF B, D
  <2> QED
    BY <1>5, <2>1, FS_Bijection
<1>12. C = A \cup D /\ A \cap D = {}
  BY <1>7
<1>13. Cardinality(C) = Cardinality(A) + Cardinality(D)
  <2> HIDE DEF A, C, D
  <2>1. Cardinality(A \cup D) = Cardinality(A) + Cardinality(D) - Cardinality(A \cap D)
    BY <1>5, <1>11, FS_Union
  <2>2. Cardinality(A \cap D) = 0
    BY <1>12, FS_EmptySet
  <2>3. Cardinality(A) \in Nat /\ Cardinality(D) \in Nat
    BY <1>5, <1>11, FS_CardinalityType
  <2> QED
    BY <1>12, <2>1, <2>2, <2>3
<1> QED
  BY <1>1, <1>11, <1>13 DEF Count, m, n, u

LEMMA CountShort ==
  ASSUME NEW X
  PROVE  Count(<<>>, X) = 0 /\ \A e : Count(<<e>>, X) = One(e \in X)
<1>1. Count(<<>>, X) = 0
  <2>1. {i \in 1..Len(<<>>) : <<>>[i] \in X} = {}
    OBVIOUS
  <2> QED
    BY <2>1, FS_EmptySet DEF Count
<1>2. ASSUME NEW e PROVE Count(<<e>>, X) = One(e \in X)
  <2>1. {i \in 1..Len(<<e>>) : <<e>>[i] \in X} = IF e \in X THEN {1} ELSE {}
    OBVIOUS
  <2> QED
    BY <2>1, FS_EmptySet, FS_Singleton DEF Count, One
<1> QED
  BY <1>1, <1>2

LEMMA CountNone ==
  ASSUME NEW S, NEW s \in Seq(S), NEW X, \A i \in 1..Len(s) : s[i] \notin X
  PROVE  Count(s, X) = 0
<1>1. {i \in 1..Len(s) : s[i] \in X} = {}
  OBVIOUS
<1> QED
  BY <1>1, FS_EmptySet DEF Count

LEMMA CountHead ==
  ASSUME NEW S, NEW s \in Seq(S), s # <<>>, NEW X
  PROVE  Count(s, X) = One(s[1] \in X) + Count(Tail(s), X)
<1>1. Len(s) \in Nat \ {0} /\ 1 \in 1..Len(s) /\ Len(s) \in 1..Len(s) /\ s[1] \in S
  <2>1. Len(s) \in Nat \ {0}
    BY EmptySeq
  <2> QED
    BY <2>1, ElementOfSeq
<1>2. SubSeq(s, 1, Len(s)) = <<s[1]>> \o SubSeq(s, 1 + 1, Len(s))
  BY <1>1, SubSeqRecursiveFirst
<1>3. s = <<s[1]>> \o Tail(s)
  BY <1>2, SubSeqFull, TailIsSubSeq
<1>4. <<s[1]>> \in Seq(S) /\ Tail(s) \in Seq(S)
  BY <1>1, OneOp, HeadTailProperties
<1>5. Count(<<s[1]>> \o Tail(s), X) = Count(<<s[1]>>, X) + Count(Tail(s), X)
  BY <1>4, CountJoined
<1> QED
  BY <1>3, <1>5, CountShort

(* What is counted in two parts.                                                 *)
LEMMA CountParts ==
  ASSUME NEW S, NEW s \in Seq(S), NEW n \in 1..Len(s), NEW X
  PROVE  Count(s, X) = Count(SubSeq(s, 1, n), X) + Count(SubSeq(s, n + 1, Len(s)), X)
<1>1. Len(s) \in Nat /\ n \in Nat /\ 1 \in 1..Len(s) + 1 /\ n \in 1 - 1..Len(s) /\ Len(s) \in n..Len(s)
  BY LenProperties
<1>2. SubSeq(s, 1, n) \o SubSeq(s, n + 1, Len(s)) = SubSeq(s, 1, Len(s))
  BY <1>1, ConcatAdjacentSubSeq
<1>3. SubSeq(s, 1, n) \in Seq(S) /\ SubSeq(s, n + 1, Len(s)) \in Seq(S)
  <2>1. \A i \in 1..n : s[i] \in S
    <3>1. \A i \in 1..n : i \in 1..Len(s)
      BY <1>1
    <3> QED
      BY <3>1, ElementOfSeq
  <2>2. \A i \in n + 1..Len(s) : s[i] \in S
    <3>1. \A i \in n + 1..Len(s) : i \in 1..Len(s)
      BY <1>1
    <3> QED
      BY <3>1, ElementOfSeq
  <2>3. n \in Int /\ 1 \in Int /\ n + 1 \in Int /\ Len(s) \in Int
    BY <1>1
  <2> QED
    BY <2>1, <2>2, <2>3, SubSeqProperties
<1>4. Count(SubSeq(s, 1, n) \o SubSeq(s, n + 1, Len(s)), X)
        = Count(SubSeq(s, 1, n), X) + Count(SubSeq(s, n + 1, Len(s)), X)
  BY <1>3, CountJoined, ZenonT(40)
<1>5. SubSeq(s, 1, n) \o SubSeq(s, n + 1, Len(s)) = s
  BY <1>2, SubSeqFull
<1> QED
  BY <1>4, <1>5

---------------------------------------------------------------------------------
(* With NCCL, every exchange has one message to and one from each rank next to this  *)
(* one, in groups that send to the ranks they receive from.                        *)
Peers(ops) == {ops[i].peer : i \in 1..Len(ops)}
Single(ops) == \A i, j \in 1..Len(ops) : ops[i].peer = ops[j].peer => i = j
PeersOn(r, a) == {Neighbour(r, s) : s \in {t \in Sides(a) : HasNeighbour(r, t)}} \ {r}
Met(r) == PeersOn(r, "x") \cup PeersOn(r, "y")

SendsTo(q) == {o \in Groups : q \in Peers(o.sends)}
RecvsFrom(q) == {o \in Groups : q \in Peers(o.recvs)}
OncePerPeer(o) == Single(o.sends) /\ Single(o.recvs)
Mutual(o) == Peers(o.sends) = Peers(o.recvs)

Talk(s, P) ==
  /\ s \in Seq(NcclOps)
  /\ \A i \in 1..Len(s) : s[i] \in Groups => OncePerPeer(s[i]) /\ Mutual(s[i]) /\ Peers(s[i].sends) \subseteq P
  /\ \A q : Count(s, SendsTo(q)) = One(q \in P)

LEMMA TalkJoin ==
  ASSUME NEW s, NEW t, NEW P, NEW Q, Talk(s, P), Talk(t, Q), P \cap Q = {}
  PROVE  Talk(s \o t, P \cup Q)
<1>1. s \in Seq(NcclOps) /\ t \in Seq(NcclOps)
  BY DEF Talk
<1>2. /\ s \o t \in Seq(NcclOps) /\ Len(s) \in Nat /\ Len(t) \in Nat /\ Len(s \o t) = Len(s) + Len(t)
      /\ \A i \in 1..Len(s) + Len(t) : (s \o t)[i] = IF i <= Len(s) THEN s[i] ELSE t[i - Len(s)]
  BY <1>1, ConcatProperties, LenProperties
<1> DEFINE u == s \o t
           m == Len(s)
           n == Len(t)
<1>3. ASSUME NEW i \in 1..m + n, u[i] \in Groups
      PROVE  OncePerPeer(u[i]) /\ Mutual(u[i]) /\ Peers(u[i].sends) \subseteq P \cup Q
  <2>1. CASE i <= m
    <3>1. i \in 1..m /\ u[i] = s[i]
      BY <1>2, <2>1
    <3> HIDE DEF u
    <3> QED
      BY <1>3, <3>1 DEF Talk
  <2>2. CASE ~(i <= m)
    <3>1. i - m \in 1..n /\ u[i] = t[i - m]
      BY <1>2, <2>2
    <3> HIDE DEF u
    <3> QED
      BY <1>3, <3>1 DEF Talk
  <2> QED
    BY <2>1, <2>2
<1>4. ASSUME NEW q PROVE Count(s \o t, SendsTo(q)) = One(q \in P \cup Q)
  <2>1. Count(s \o t, SendsTo(q)) = Count(s, SendsTo(q)) + Count(t, SendsTo(q))
    BY <1>1, CountJoined
  <2>2. Count(s, SendsTo(q)) = One(q \in P) /\ Count(t, SendsTo(q)) = One(q \in Q)
    BY DEF Talk
  <2> QED
    BY <2>1, <2>2 DEF One
<1> QED
  BY <1>2, <1>3, <1>4 DEF Talk

Quiet == {o \in NcclOps : o.op # "group"}

LEMMA QuietTalk ==
  ASSUME NEW s \in Seq(Quiet)
  PROVE  Talk(s, {})
<1>1. \A i \in 1..Len(s) : s[i] \notin Groups
  <2>1. \A i \in 1..Len(s) : s[i] \in Quiet
    BY ElementOfSeq
  <2> QED
    BY <2>1 DEF Quiet, Groups
<1>2. s \in Seq(NcclOps)
  <2>1. Quiet \subseteq NcclOps
    BY DEF Quiet
  <2> QED
    BY <2>1, SeqMonotonic
<1>3. \A q : Count(s, SendsTo(q)) = 0
  <2>1. \A q : SendsTo(q) \subseteq Groups
    BY DEF SendsTo
  <2> QED
    BY <1>1, <2>1, CountNone
<1> QED
  BY <1>1, <1>2, <1>3 DEF Talk, One

LEMMA GroupTalks ==
  ASSUME NEW s \in Seq(Payloads), NEW t \in Seq(Payloads), Single(s), Single(t),
         NEW P, Peers(s) = P, Peers(t) = P
  PROVE  Talk(Group(s, t), P)
<1> DEFINE o == [op |-> "group", sends |-> s, recvs |-> t]
<1>1. o \in Groups /\ o.sends = s /\ o.recvs = t
  BY DEF Groups
<1>2. Group(s, t) = <<o>>
  BY DEF Group
<1>3. <<o>> \in Seq(NcclOps)
  BY <1>2, GroupIsOp
<1> HIDE DEF o
<1>4. \A q : Count(<<o>>, SendsTo(q)) = One(q \in P)
  <2>1. \A q : o \in SendsTo(q) <=> q \in P
    BY <1>1 DEF SendsTo
  <2>2. \A q : One(o \in SendsTo(q)) = One(q \in P)
    BY <2>1 DEF One
  <2> QED
    BY <2>2, CountShort
<1>5. \A i \in 1..Len(<<o>>) : <<o>>[i] = o
  OBVIOUS
<1> QED
  BY <1>1, <1>2, <1>3, <1>4, <1>5 DEF Talk, OncePerPeer, Mutual

LEMMA PeersJoined ==
  ASSUME NEW s \in Seq(Payloads), NEW t \in Seq(Payloads)
  PROVE  /\ Peers(s \o t) = Peers(s) \cup Peers(t)
         /\ Single(s) /\ Single(t) /\ Peers(s) \cap Peers(t) = {} => Single(s \o t)
<1> DEFINE m == Len(s)
           n == Len(t)
           u == s \o t
<1>1. /\ m \in Nat /\ n \in Nat /\ Len(u) = m + n
      /\ \A i \in 1..m + n : u[i] = IF i <= m THEN s[i] ELSE t[i - m]
  BY ConcatProperties, LenProperties
<1> HIDE DEF m, n, u
<1>2. \A i \in 1..m : i \in 1..m + n /\ u[i] = s[i]
  BY <1>1
<1>3. \A i \in 1..n : m + i \in 1..m + n /\ u[m + i] = t[i]
  <2> SUFFICES ASSUME NEW i \in 1..n PROVE m + i \in 1..m + n /\ u[m + i] = t[i]
    OBVIOUS
  <2>1. m + i \in 1..m + n /\ ~(m + i <= m) /\ (m + i) - m = i
    BY <1>1
  <2> QED
    BY <1>1, <2>1
<1>4. \A i \in 1..m + n : i \in 1..m \/ \E j \in 1..n : i = m + j
  <2> SUFFICES ASSUME NEW i \in 1..m + n, i \notin 1..m PROVE \E j \in 1..n : i = m + j
    OBVIOUS
  <2>1. i - m \in 1..n /\ i = m + (i - m)
    BY <1>1
  <2> QED
    BY <2>1
<1>5. /\ Peers(s) = {s[i].peer : i \in 1..m} /\ Peers(t) = {t[i].peer : i \in 1..n}
      /\ Peers(u) = {u[i].peer : i \in 1..m + n}
  BY <1>1 DEF Peers, m, n
<1>6. ASSUME NEW i \in 1..m + n
      PROVE  \/ i \in 1..m /\ u[i] = s[i]
             \/ \E j \in 1..n : i = m + j /\ u[i] = t[j]
  <2>1. CASE i \in 1..m
    BY <1>2, <2>1
  <2>2. CASE i \notin 1..m
    <3>1. PICK j \in 1..n : i = m + j
      BY <1>4, <2>2
    <3>2. u[i] = t[j]
      BY <1>3, <3>1, Zenon
    <3> QED
      BY <3>1, <3>2, Zenon
  <2> QED
    BY <2>1, <2>2
<1>7. Peers(u) = Peers(s) \cup Peers(t)
  <2>1. ASSUME NEW q \in Peers(u) PROVE q \in Peers(s) \cup Peers(t)
    <3>1. PICK i \in 1..m + n : q = u[i].peer
      BY <1>5
    <3>2. (\E k \in 1..m : q = s[k].peer) \/ \E j \in 1..n : q = t[j].peer
      BY <1>6, <3>1, Zenon
    <3> QED
      BY <1>5, <3>2, Zenon
  <2>2. ASSUME NEW q \in Peers(s) PROVE q \in Peers(u)
    <3>1. PICK i \in 1..m : q = s[i].peer
      BY <1>5
    <3>2. i \in 1..m + n /\ u[i] = s[i]
      BY <1>2
    <3> QED
      BY <1>5, <3>1, <3>2
  <2>3. ASSUME NEW q \in Peers(t) PROVE q \in Peers(u)
    <3>1. PICK i \in 1..n : q = t[i].peer
      BY <1>5
    <3>2. m + i \in 1..m + n /\ u[m + i].peer = q
      BY <1>3, <3>1, Zenon
    <3> QED
      BY <1>5, <3>2, Zenon
  <2> QED
    BY <2>1, <2>2, <2>3
<1>8. ASSUME Single(s), Single(t), Peers(s) \cap Peers(t) = {} PROVE Single(u)
  <2> SUFFICES ASSUME NEW i \in 1..m + n, NEW j \in 1..m + n, u[i].peer = u[j].peer PROVE i = j
    BY <1>1 DEF Single
  <2>1. CASE i \in 1..m /\ u[i] = s[i] /\ j \in 1..m /\ u[j] = s[j]
    BY <1>8, <2>1 DEF Single, m
  <2>2. CASE (\E k \in 1..n : i = m + k /\ u[i] = t[k]) /\ \E k \in 1..n : j = m + k /\ u[j] = t[k]
    <3>1. PICK k \in 1..n, l \in 1..n : i = m + k /\ j = m + l /\ u[i] = t[k] /\ u[j] = t[l]
      BY <2>2
    <3>2. t[k].peer = t[l].peer
      BY <3>1, Zenon
    <3>3. k = l
      BY <1>8, <3>2 DEF Single, n
    <3> QED
      BY <3>1, <3>3
  <2>3. CASE i \in 1..m /\ u[i] = s[i] /\ \E k \in 1..n : j = m + k /\ u[j] = t[k]
    <3>1. u[i].peer \in Peers(s) /\ u[j].peer \in Peers(t)
      BY <1>5, <2>3, Zenon
    <3> QED
      BY <1>8, <3>1
  <2>4. CASE (\E k \in 1..n : i = m + k /\ u[i] = t[k]) /\ j \in 1..m /\ u[j] = s[j]
    <3>1. u[i].peer \in Peers(t) /\ u[j].peer \in Peers(s)
      BY <1>5, <2>4, Zenon
    <3> QED
      BY <1>8, <3>1
  <2> QED
    BY <1>6, <2>1, <2>2, <2>3, <2>4
<1> QED
  BY <1>7, <1>8 DEF u

LEMMA PeersApart ==
  ASSUME layout \in Layouts, NEW r \in Ranks
  PROVE  /\ PeersOn(r, "x") \cap PeersOn(r, "y") = {}
         /\ \A a \in Axes : Singleton(layout, a) => PeersOn(r, a) = {}
         /\ SingleRank => \A a \in Axes : PeersOn(r, a) = {}
<1>1. /\ layout.px \in Nat \ {0} /\ layout.py \in Nat \ {0}
      /\ r[1] \in 0..layout.px - 1 /\ r[2] \in 0..layout.py - 1 /\ r = <<r[1], r[2]>>
  BY LayoutFacts, RankFacts
<1>2. /\ r[1] % layout.px = r[1] /\ r[2] % layout.py = r[2]
      /\ r[1] + 0 = r[1] /\ r[2] + 0 = r[2]
  <2>1. r[1] % layout.px = r[1] /\ r[2] % layout.py = r[2]
    BY <1>1, NextOnAxis
  <2>2. r[1] + 0 = r[1] /\ r[2] + 0 = r[2]
    BY <1>1
  <2> QED
    BY <2>1, <2>2
<1>3. \A s \in Sides("x") : Neighbour(r, s) = <<Neighbour(r, s)[1], r[2]>>
  BY <1>2 DEF Neighbour, Shifted, Shift, Sides
<1>4. \A s \in Sides("y") : Neighbour(r, s) = <<r[1], Neighbour(r, s)[2]>>
  BY <1>2 DEF Neighbour, Shifted, Shift, Sides
<1>5. ASSUME NEW q \in PeersOn(r, "x"), q \in PeersOn(r, "y") PROVE FALSE
  <2>1. q = <<q[1], r[2]>> /\ q = <<r[1], q[2]>> /\ q # r
    BY <1>3, <1>4, <1>5 DEF PeersOn
  <2>2. q = <<r[1], r[2]>>
    <3>1. q[1] = r[1]
      BY <2>1
    <3> QED
      BY <2>1, <3>1
  <2> QED
    BY <1>1, <2>1, <2>2
<1>6. ASSUME layout.px = 1 PROVE PeersOn(r, "x") = {}
  <2> SUFFICES ASSUME NEW s \in Sides("x") PROVE Neighbour(r, s) = r
    BY DEF PeersOn
  <2>1. s \in AllSides
    BY DEF Sides, AllSides
  <2>2. Neighbour(r, s) \in Ranks
    BY <2>1, RankFacts
  <2>3. Neighbour(r, s)[1] = 0 /\ r[1] = 0
    BY <1>1, <1>6, <2>2, RankFacts
  <2> QED
    BY <1>1, <1>3, <2>3
<1>7. ASSUME layout.py = 1 PROVE PeersOn(r, "y") = {}
  <2> SUFFICES ASSUME NEW s \in Sides("y") PROVE Neighbour(r, s) = r
    BY DEF PeersOn
  <2>1. s \in AllSides
    BY DEF Sides, AllSides
  <2>2. Neighbour(r, s) \in Ranks
    BY <2>1, RankFacts
  <2>3. Neighbour(r, s)[2] = 0 /\ r[2] = 0
    BY <1>1, <1>7, <2>2, RankFacts
  <2> QED
    BY <1>1, <1>4, <2>3
<1>8. ASSUME NEW a \in Axes, Singleton(layout, a) PROVE PeersOn(r, a) = {}
  <2>1. /\ layout.nx = 1 => layout.px = 1
        /\ layout.ny = 1 => layout.py = 1
    BY HaloAssumption
  <2> QED
    BY <1>6, <1>7, <1>8, <2>1 DEF Axes, Singleton
<1>9. ASSUME SingleRank, NEW a \in Axes PROVE PeersOn(r, a) = {}
  <2>1. \A m, n \in Nat \ {0} : m * n = 1 => m = 1 /\ n = 1
    BY Z3
  <2>2. layout.px = 1 /\ layout.py = 1
    BY <1>1, <1>9, <2>1 DEF SingleRank
  <2> QED
    BY <1>6, <1>7, <2>2 DEF Axes
<1> QED
  BY <1>5, <1>8, <1>9

(* On each axis a rank sends to, and receives from, each of its peers once.         *)
LEMMA PeersOfAxis ==
  ASSUME layout \in Layouts, NEW r \in Ranks, NEW a \in Axes,
         NEW first \in Sides(a), NEW second \in Sides(a), first # second
  PROVE  /\ Single(Sends(r, a)) /\ Peers(Sends(r, a)) = PeersOn(r, a)
         /\ Single(Recvs(r, a, first, second)) /\ Peers(Recvs(r, a, first, second)) = PeersOn(r, a)
<1> DEFINE lo == Low(a)
           hi == High(a)
           nl == Neighbour(r, lo)
           nh == Neighbour(r, hi)
<1>1. /\ lo \in AllSides /\ hi \in AllSides /\ Opposite[lo] = hi /\ Opposite[hi] = lo
      /\ Sides(a) = {lo, hi} /\ lo # hi /\ Sides(a) \subseteq AllSides
  BY DEF Axes, Low, High, AllSides, Opposite, Sides
<1>2. /\ nl = r => nh = r
      /\ HasNeighbour(r, hi) /\ nh = r => HasNeighbour(r, lo) /\ nl = r
  BY <1>1, Opposites
<1> DEFINE near(s) == IF HasNeighbour(r, s) THEN {Neighbour(r, s)} ELSE {}
<1>3. PeersOn(r, a) = (near(lo) \cup near(hi)) \ {r}
  BY <1>1 DEF PeersOn
<1>4. ASSUME NEW s \in AllSides
      PROVE  Peers(ToSide(r, s)) = near(s) /\ Single(ToSide(r, s)) /\ ToSide(r, s) \in Seq(Payloads)
  <2>1. ToSide(r, s) = IF HasNeighbour(r, s) THEN <<Payload(Neighbour(r, s), <<s>>)>> ELSE <<>>
    BY DEF ToSide
  <2>2. ToSide(r, s) \in Seq(Payloads)
    <3>1. Neighbour(r, s) \in Int \X Int
      BY RankFacts, LayoutFacts DEF Ranks, RanksOf
    <3>2. <<s>> \in Seq(Slots)
      <4>1. s \in Slots
        BY Zenon DEF Slots
      <4> QED
        BY <4>1, OneOp
    <3>3. Payload(Neighbour(r, s), <<s>>) \in Payloads
      BY <3>1, <3>2 DEF Payload, Payloads
    <3> QED
      BY <2>1, <3>3, OneOp, NoOp
  <2>3. CASE HasNeighbour(r, s)
    <3> DEFINE p == Payload(Neighbour(r, s), <<s>>)
    <3>1. p.peer = Neighbour(r, s) /\ ToSide(r, s) = <<p>>
      BY <2>1, <2>3 DEF Payload
    <3> HIDE DEF p
    <3>2. Len(<<p>>) = 1 /\ <<p>>[1] = p
      OBVIOUS
    <3>3. Peers(<<p>>) = {Neighbour(r, s)} /\ Single(<<p>>)
      BY <3>1, <3>2 DEF Peers, Single
    <3> QED
      BY <2>2, <2>3, <3>1, <3>3
  <2>4. CASE ~HasNeighbour(r, s)
    <3>1. Peers(<<>>) = {} /\ Single(<<>>)
      BY DEF Peers, Single
    <3> QED
      BY <2>1, <2>2, <2>4, <3>1
  <2> QED
    BY <2>3, <2>4
<1> HIDE DEF lo, hi, nl, nh
<1>5. CASE SelfNeighbour(r, a)
  <2>1. HasNeighbour(r, lo) /\ nl = r
    BY <1>5 DEF SelfNeighbour, lo, nl
  <2>2. PeersOn(r, a) = {}
    BY <1>2, <1>3, <2>1 DEF nl, nh
  <2>3. Sends(r, a) = <<>> /\ Recvs(r, a, first, second) = <<>>
    BY <1>5 DEF Sends, Recvs
  <2>4. Peers(<<>>) = {} /\ Single(<<>>)
    BY DEF Peers, Single
  <2> QED
    BY <2>2, <2>3, <2>4
<1>6. CASE ~SelfNeighbour(r, a) /\ SameRemote(r, a)
  <2>1. /\ HasNeighbour(r, lo) /\ HasNeighbour(r, hi) /\ nl = nh
    BY <1>1, <1>6 DEF SameRemote, lo, hi, nl, nh
  <2>2. nl # r
    BY <1>6, <2>1 DEF SelfNeighbour, lo, nl
  <2>3. PeersOn(r, a) = {nl}
    BY <1>3, <2>1, <2>2 DEF nl, nh
  <2> DEFINE p == Payload(nl, <<hi, Upper(a)>>)
  <2>4. Sends(r, a) = <<p>> /\ Recvs(r, a, first, second) = <<p>> /\ p.peer = nl
    BY <1>6, <2>1 DEF Sends, Recvs, Payload, lo, hi, nl, nh
  <2> HIDE DEF p
  <2>5. Len(<<p>>) = 1 /\ <<p>>[1] = p
    OBVIOUS
  <2>6. Peers(<<p>>) = {nl} /\ Single(<<p>>)
    BY <2>4, <2>5 DEF Peers, Single
  <2> QED
    BY <2>3, <2>4, <2>6
<1>7. CASE ~SelfNeighbour(r, a) /\ ~SameRemote(r, a)
  <2>1. \A s \in Sides(a) : HasNeighbour(r, s) => Neighbour(r, s) # r
    BY <1>1, <1>2, <1>7 DEF SelfNeighbour, lo, hi, nl, nh
  <2>2. HasNeighbour(r, lo) /\ HasNeighbour(r, hi) => nl # nh
    BY <1>1, <1>7 DEF SameRemote, lo, hi, nl, nh
  <2>3. near(lo) \cap near(hi) = {}
    BY <2>2 DEF nl, nh
  <2>4. r \notin near(lo) /\ r \notin near(hi)
    BY <1>1, <2>1
  <2> HIDE DEF near
  <2>5. ASSUME NEW s \in Sides(a), NEW t \in Sides(a), s # t
        PROVE  Single(ToSide(r, s) \o ToSide(r, t)) /\ Peers(ToSide(r, s) \o ToSide(r, t)) = PeersOn(r, a)
    <3>1. near(s) \cap near(t) = {} /\ near(s) \cup near(t) = PeersOn(r, a)
      BY <1>1, <1>3, <2>3, <2>4, <2>5
    <3>2. s \in AllSides /\ t \in AllSides
      BY <1>1
    <3> QED
      BY <1>4, <3>1, <3>2, PeersJoined
  <2>6. /\ Sends(r, a) = ToSide(r, hi) \o ToSide(r, lo)
        /\ Recvs(r, a, first, second) = ToSide(r, first) \o ToSide(r, second)
    BY <1>7 DEF Sends, Recvs, lo, hi
  <2> QED
    BY <1>1, <2>5, <2>6
<1> QED
  BY <1>5, <1>6, <1>7

LEMMA QuietParts ==
  ASSUME layout \in Layouts, NEW r \in Ranks, NEW a \in Axes, NEW d \in Depths
  PROVE  /\ Prepare(r, a) \in Seq(Quiet) /\ Split(r, a) \in Seq(Quiet)
         /\ SingletonFills(d) \in Seq(Quiet) /\ Periodic(d) \in Seq(Quiet)
         /\ <<Op("pack", a, d)>> \in Seq(Quiet)
         /\ \A v : [Op("unpack", a, d) EXCEPT !.always = v].op = "unpack"
         /\ Interiorly("pack", a) \in Quiet /\ Interiorly("unpack", a) \in Quiet
<1>1. /\ Low(a) \in Slots /\ High(a) \in Slots /\ Upper(a) \in Slots
  BY DEF Low, High, Upper, Slots, AllSides, Axes
<1>2. ASSUME NEW p \in {"send", "recv"}, NEW q \in {"send", "recv"}, NEW s \in Slots, NEW t \in Slots
      PROVE  Copy(<<p, s>>, <<q, t>>) \in Quiet
  BY DEF Copy, Quiet, NcclOps, Copies, Places
<1>3. Prepare(r, a) \in Seq(Quiet)
  BY <1>1, <1>2, OneOp, TwoOps, NoOp DEF Prepare
<1>4. Split(r, a) \in Seq(Quiet)
  BY <1>1, <1>2, TwoOps, NoOp DEF Split
<1>5. ASSUME NEW b \in Axes, NEW o \in {"fill", "periodic", "pack", "unpack"} PROVE Op(o, b, d) \in Quiet
  <2>1. Op(o, b, d).op = o
    BY DEF Op
  <2> QED
    BY <2>1, NcclMoves DEF Quiet
<1>6. "x" \in Axes /\ "y" \in Axes
  BY DEF Axes
<1>7. SingletonFills(d) \in Seq(Quiet)
  BY <1>5, <1>6, OneOp, NoOp, Joined DEF SingletonFills
<1>8. Periodic(d) \in Seq(Quiet)
  BY <1>5, <1>6, TwoOps DEF Periodic
<1>9. <<Op("pack", a, d)>> \in Seq(Quiet)
  BY <1>5, OneOp
<1>10. \A v : [Op("unpack", a, d) EXCEPT !.always = v].op = "unpack"
  BY DEF Op
<1>11. Interiorly("pack", a) \in Quiet /\ Interiorly("unpack", a) \in Quiet
  <2>1. \A o \in {"pack", "unpack"} : Interiorly(o, a).op = o
    BY DEF Interiorly, Op
  <2> QED
    BY <2>1, NcclMoves DEF Quiet
<1> QED
  BY <1>3, <1>4, <1>7, <1>8, <1>9, <1>10, <1>11

(* A talk between two quiet parts.                                               *)
LEMMA QuietAround ==
  ASSUME NEW s \in Seq(Quiet), NEW u, NEW P, Talk(u, P), NEW t \in Seq(Quiet)
  PROVE  Talk(s \o u, P) /\ Talk(u \o t, P)
<1>1. Talk(s, {}) /\ Talk(t, {})
  BY QuietTalk
<1>2. Talk(s \o u, {} \cup P)
  <2>1. {} \cap P = {}
    OBVIOUS
  <2> QED
    BY <1>1, <2>1, TalkJoin
<1>3. Talk(u \o t, P \cup {})
  <2>1. P \cap {} = {}
    OBVIOUS
  <2> QED
    BY <1>1, <2>1, TalkJoin
<1>4. {} \cup P = P /\ P \cup {} = P
  OBVIOUS
<1> QED
  BY <1>2, <1>3, <1>4

LEMMA TalkAxis ==
  ASSUME layout \in Layouts, NEW r \in Ranks, NEW a \in Axes, NEW d \in Depths, NEW v \in BOOLEAN
  PROVE  Talk(Axis(r, a, d, v), PeersOn(r, a))
<1> DEFINE pack == <<Op("pack", a, d)>>
           before == Prepare(r, a)
           group == Group(Sends(r, a), Recvs(r, a, Low(a), High(a)))
           after == Split(r, a)
           unpack == <<[Op("unpack", a, d) EXCEPT !.always = v]>>
           P == PeersOn(r, a)
<1>1. CASE Singleton(layout, a)
  <2>1. P = {} /\ Axis(r, a, d, v) = <<>>
    BY <1>1, PeersApart DEF Axis
  <2>2. Talk(<<>>, {})
    BY NoOp, QuietTalk
  <2> QED
    BY <2>1, <2>2
<1>2. CASE ~Singleton(layout, a)
  <2>1. Axis(r, a, d, v) = pack \o before \o group \o after \o unpack
    BY <1>2 DEF Axis
  <2>2. pack \in Seq(Quiet) /\ before \in Seq(Quiet) /\ after \in Seq(Quiet) /\ unpack \in Seq(Quiet)
    <3>1. [Op("unpack", a, d) EXCEPT !.always = v] \in Quiet
      BY NcclMoves, QuietParts DEF Quiet
    <3> QED
      BY <3>1, QuietParts, OneOp
  <2>3. Talk(group, P)
    <3>1. Low(a) \in Sides(a) /\ High(a) \in Sides(a) /\ Low(a) # High(a)
      BY DEF Low, High, Sides
    <3>2. Sends(r, a) \in Seq(Payloads) /\ Recvs(r, a, Low(a), High(a)) \in Seq(Payloads)
      BY <3>1, NcclParts
    <3> QED
      BY <3>1, <3>2, PeersOfAxis, GroupTalks
  <2> HIDE DEF pack, before, group, after, unpack, P
  <2>4. pack \o before \in Seq(Quiet)
    BY <2>2, Joined
  <2>5. Talk(pack \o before \o group, P)
    BY <2>3, <2>4, QuietAround
  <2>6. Talk(pack \o before \o group \o after, P)
    BY <2>2, <2>5, QuietAround
  <2>7. Talk(pack \o before \o group \o after \o unpack, P)
    BY <2>2, <2>6, QuietAround
  <2> QED
    BY <2>1, <2>7 DEF P
<1> QED
  BY <1>1, <1>2

(* One axis after the other.                                                     *)
LEMMA TalkWhole ==
  ASSUME layout \in Layouts, NEW r \in Ranks, NEW d \in Depths
  PROVE  /\ \A v \in BOOLEAN : Talk(SingletonFills(d) \o Axis(r, "x", d, v) \o Axis(r, "y", d, v), Met(r))
         /\ \A v \in BOOLEAN : Talk(SingletonFills(d) \o Axis(r, "y", d, v) \o Axis(r, "x", d, v), Met(r))
         /\ SingleRank => Talk(Periodic(d), Met(r))
         /\ Talk(NcclFull(r, d), Met(r))
<1> DEFINE X == PeersOn(r, "x")
           Y == PeersOn(r, "y")
<1>1. "x" \in Axes /\ "y" \in Axes
  BY DEF Axes
<1>2. SingletonFills(d) \in Seq(Quiet) /\ Periodic(d) \in Seq(Quiet)
  BY <1>1, QuietParts
<1>3. X \cap Y = {} /\ Y \cap X = {} /\ X \cup Y = Met(r) /\ Y \cup X = Met(r)
  BY PeersApart DEF Met
<1>4. ASSUME NEW v \in BOOLEAN
      PROVE  /\ Talk(SingletonFills(d) \o Axis(r, "x", d, v) \o Axis(r, "y", d, v), Met(r))
             /\ Talk(SingletonFills(d) \o Axis(r, "y", d, v) \o Axis(r, "x", d, v), Met(r))
  <2>1. Talk(Axis(r, "x", d, v), X) /\ Talk(Axis(r, "y", d, v), Y)
    BY <1>1, TalkAxis
  <2> HIDE DEF X, Y
  <2>2. /\ Talk(SingletonFills(d) \o Axis(r, "x", d, v), X)
        /\ Talk(SingletonFills(d) \o Axis(r, "y", d, v), Y)
    BY <1>2, <2>1, QuietAround
  <2>3. /\ Talk(SingletonFills(d) \o Axis(r, "x", d, v) \o Axis(r, "y", d, v), X \cup Y)
        /\ Talk(SingletonFills(d) \o Axis(r, "y", d, v) \o Axis(r, "x", d, v), Y \cup X)
    BY <1>3, <2>1, <2>2, TalkJoin
  <2> QED
    BY <1>3, <2>3
<1>5. ASSUME SingleRank PROVE Talk(Periodic(d), Met(r))
  <2>1. Met(r) = {}
    BY <1>1, <1>5, PeersApart DEF Met
  <2> QED
    BY <1>2, <2>1, QuietTalk
<1>6. Talk(NcclFull(r, d), Met(r))
  BY <1>4, <1>5 DEF NcclFull
<1> QED
  BY <1>4, <1>5, <1>6

LEMMA TalkFace ==
  ASSUME layout \in Layouts, NEW r \in Ranks
  PROVE  Talk(NcclFace(r), Met(r))
<1> DEFINE packs == <<Interiorly("pack", "x"), Interiorly("pack", "y")>>
           unpacks == <<Interiorly("unpack", "x"), Interiorly("unpack", "y")>>
           px == Prepare(r, "x")
           py == Prepare(r, "y")
           sx == Sends(r, "x")
           sy == Sends(r, "y")
           rx == Recvs(r, "x", "right", "left")
           ry == Recvs(r, "y", "top", "bottom")
           group == Group(sx \o sy, rx \o ry)
           ax == Split(r, "x")
           ay == Split(r, "y")
           M == Met(r)
<1>1. "x" \in Axes /\ "y" \in Axes /\ 1 \in Depths
  BY DEF Axes, Depths
<1>2. packs \in Seq(Quiet) /\ unpacks \in Seq(Quiet)
  BY <1>1, QuietParts, TwoOps
<1>3. px \in Seq(Quiet) /\ py \in Seq(Quiet) /\ ax \in Seq(Quiet) /\ ay \in Seq(Quiet)
  BY <1>1, QuietParts
<1>4. Talk(group, M)
  <2>1. /\ "right" \in Sides("x") /\ "left" \in Sides("x") /\ "top" \in Sides("y") /\ "bottom" \in Sides("y")
        /\ "right" # "left" /\ "top" # "bottom"
    BY DEF Sides
  <2>2. sx \in Seq(Payloads) /\ sy \in Seq(Payloads) /\ rx \in Seq(Payloads) /\ ry \in Seq(Payloads)
    BY <1>1, <2>1, NcclParts
  <2>3. /\ Single(sx) /\ Peers(sx) = PeersOn(r, "x") /\ Single(rx) /\ Peers(rx) = PeersOn(r, "x")
        /\ Single(sy) /\ Peers(sy) = PeersOn(r, "y") /\ Single(ry) /\ Peers(ry) = PeersOn(r, "y")
    BY <1>1, <2>1, PeersOfAxis
  <2>4. PeersOn(r, "x") \cap PeersOn(r, "y") = {} /\ PeersOn(r, "x") \cup PeersOn(r, "y") = M
    BY PeersApart DEF Met
  <2> HIDE DEF sx, sy, rx, ry, M
  <2>5. /\ Single(sx \o sy) /\ Peers(sx \o sy) = M /\ Single(rx \o ry) /\ Peers(rx \o ry) = M
    <3>1. Single(sx \o sy) /\ Peers(sx \o sy) = Peers(sx) \cup Peers(sy)
      BY <2>2, <2>3, <2>4, PeersJoined
    <3>2. Single(rx \o ry) /\ Peers(rx \o ry) = Peers(rx) \cup Peers(ry)
      BY <2>2, <2>3, <2>4, PeersJoined
    <3> QED
      BY <2>3, <2>4, <3>1, <3>2
  <2>6. sx \o sy \in Seq(Payloads) /\ rx \o ry \in Seq(Payloads)
    BY <2>2, Joined
  <2> QED
    BY <2>5, <2>6, GroupTalks
<1>5. NcclFace(r) = IF SingleRank \/ AnySingleton THEN NcclFull(r, 1)
                    ELSE packs \o px \o py \o group \o ax \o ay \o unpacks
  BY DEF NcclFace
<1> HIDE DEF packs, unpacks, px, py, group, ax, ay
<1>6. packs \o px \o py \in Seq(Quiet)
  BY <1>2, <1>3, Joined
<1>7. Talk(packs \o px \o py \o group, M)
  BY <1>4, <1>6, QuietAround
<1>8. Talk(packs \o px \o py \o group \o ax, M)
  BY <1>3, <1>7, QuietAround
<1>9. Talk(packs \o px \o py \o group \o ax \o ay, M)
  BY <1>3, <1>8, QuietAround
<1>10. Talk(packs \o px \o py \o group \o ax \o ay \o unpacks, M)
  BY <1>2, <1>9, QuietAround
<1> QED
  BY <1>1, <1>5, <1>10, TalkWhole

LEMMA TalkTurn ==
  ASSUME layout \in Layouts, layout.lib # "mpi", NEW r \in Ranks, NEW g \in 1..Calls
  PROVE  Talk(Turn(r, g), Met(r))
<1> DEFINE kind == layout.script[g]
           last == IF g = Calls THEN <<Stencil(g + 1)>> ELSE <<>>
           sync == IF Synchronizes(kind) THEN <<[op |-> "sync"]>> ELSE <<>>
           M == Met(r)
<1>1. kind \in Kinds /\ Halo \in Depths /\ 1 \in Depths /\ SingleRank \in BOOLEAN /\ FALSE \in BOOLEAN
  BY LayoutFacts DEF Depths, SingleRank
<1>2. Talk(NcclKernels(r, kind), M)
  <2>1. CASE kind = "full"
    BY <1>1, <2>1, TalkWhole DEF NcclKernels
  <2>2. CASE kind = "shallow"
    BY <1>1, <2>2, TalkWhole DEF NcclKernels, NcclPlanes
  <2>3. CASE kind = "face"
    BY <2>3, TalkFace DEF NcclKernels
  <2>4. CASE kind = "slice"
    <3>1. Talk(NcclSlice(r), M)
      BY <1>1, TalkWhole DEF NcclSlice
    <3> QED
      BY <2>4, <3>1 DEF NcclKernels
  <2>5. CASE kind = "batch"
    <3>1. Talk(NcclBatch(r), M)
      BY <1>1, TalkWhole DEF NcclBatch
    <3> QED
      BY <2>5, <3>1 DEF NcclKernels
  <2> QED
    BY <1>1, <2>1, <2>2, <2>3, <2>4, <2>5 DEF Kinds
<1>3. sync \in Seq(Quiet)
  <2>1. [op |-> "sync"] \in Quiet
    BY DEF NcclOps, Quiet
  <2> QED
    BY <2>1, OneOp, NoOp
<1>4. \A n \in Nat : <<Stencil(n)>> \in Seq(Quiet)
  <2>1. \A n \in Nat : Stencil(n) \in Quiet
    BY DEF Stencil, NcclOps, Stencils, Quiet
  <2> QED
    BY <2>1, OneOp
<1>5. last \in Seq(Quiet) /\ <<Stencil(g)>> \in Seq(Quiet)
  <2>1. g \in Nat /\ g + 1 \in Nat
    BY LayoutFacts
  <2> QED
    BY <1>4, <2>1, NoOp
<1>6. Talk(NcclKernels(r, kind) \o sync, M)
  BY <1>2, <1>3, QuietAround
<1>7. Turn(r, g) = <<Stencil(g)>> \o (NcclKernels(r, kind) \o sync) \o last
  BY DEF Turn, Exchange, NcclExchange
<1> HIDE DEF sync, last
<1>8. Talk(<<Stencil(g)>> \o (NcclKernels(r, kind) \o sync), M)
  BY <1>5, <1>6, QuietAround
<1>9. Talk(<<Stencil(g)>> \o (NcclKernels(r, kind) \o sync) \o last, M)
  BY <1>5, <1>8, QuietAround
<1> QED
  BY <1>7, <1>9

---------------------------------------------------------------------------------
(* How many messages have left a rank for another, and how many have come in: one    *)
(* for each exchange it has called, but for those its kernels and its host still      *)
(* have before them.                                                            *)
Owed(r, q) == Count(queue[r], SendsTo(q)) + Count(todo[r], SendsTo(q))
Awaited(r, q) == Count(queue[r], RecvsFrom(q)) + Count(todo[r], RecvsFrom(q))
OutOf(r, q) == called[r] - Owed(r, q)
Into(r, q) == called[r] - Awaited(r, q)

(* Only the group that runs can have sent to a rank it still has to hear from.        *)
Proper(o, M) == o \in Groups => /\ OncePerPeer(o)
                                /\ Peers(o.sends) \subseteq M /\ Peers(o.recvs) \subseteq M
Fair(o, M) == Proper(o, M) /\ (o \in Groups => Mutual(o))

NcclRank(r) ==
  /\ \A i \in 1..Len(todo[r]) : Fair(todo[r][i], Met(r))
  /\ \A i \in 1..Len(queue[r]) : Proper(queue[r][i], Met(r)) /\ (i # 1 => Fair(queue[r][i], Met(r)))

NcclWires ==
  /\ DOMAIN wire = Ranks \X Ranks \X {"nccl"}
  /\ \A ch \in DOMAIN wire : \E S : wire[ch] \in Seq(S)
  /\ \A r, q \in Ranks : IF q \in Met(r) THEN Len(wire[Untagged(r, q)]) = OutOf(r, q) - Into(q, r)
                                         ELSE wire[Untagged(r, q)] = <<>>

NcclAhead == NcclWires /\ \A r \in Ranks : NcclRank(r)

LEMMA MetBoth ==
  ASSUME layout \in Layouts, NEW r \in Ranks, NEW q \in Met(r)
  PROVE  q \in Ranks /\ q # r /\ r \in Met(q)
<1>1. PICK a \in Axes : q \in PeersOn(r, a)
  BY DEF Met, Axes
<1>2. PICK s \in Sides(a) : HasNeighbour(r, s) /\ q = Neighbour(r, s) /\ q # r
  BY <1>1 DEF PeersOn
<1>3. s \in AllSides /\ Opposite[s] \in Sides(a)
  BY <1>2 DEF Sides, AllSides, Opposite
<1>4. q \in Ranks /\ HasNeighbour(q, Opposite[s]) /\ Neighbour(q, Opposite[s]) = r
  BY <1>2, <1>3, Opposites
<1>5. r \in PeersOn(q, a)
  BY <1>2, <1>3, <1>4 DEF PeersOn
<1> QED
  BY <1>2, <1>4, <1>5 DEF Met, Axes

LEMMA FairCounts ==
  ASSUME NEW S, NEW s \in Seq(S), NEW M, \A i \in 1..Len(s) : Fair(s[i], M), NEW q
  PROVE  Count(s, SendsTo(q)) = Count(s, RecvsFrom(q))
<1>1. \A i \in 1..Len(s) : s[i] \in SendsTo(q) <=> s[i] \in RecvsFrom(q)
  BY DEF Fair, Mutual, SendsTo, RecvsFrom
<1>2. {i \in 1..Len(s) : s[i] \in SendsTo(q)} = {i \in 1..Len(s) : s[i] \in RecvsFrom(q)}
  BY <1>1
<1> QED
  BY <1>2 DEF Count

LEMMA TalkIsFair ==
  ASSUME NEW s, NEW M, Talk(s, M)
  PROVE  /\ s \in Seq(NcclOps) /\ \A i \in 1..Len(s) : Fair(s[i], M)
         /\ \A q : Count(s, SendsTo(q)) = One(q \in M) /\ Count(s, RecvsFrom(q)) = One(q \in M)
<1>1. s \in Seq(NcclOps) /\ \A i \in 1..Len(s) : Fair(s[i], M)
  BY DEF Talk, Fair, Proper, Mutual
<1>2. \A q : Count(s, SendsTo(q)) = Count(s, RecvsFrom(q))
  BY <1>1, FairCounts
<1> QED
  BY <1>1, <1>2 DEF Talk

(* A rank has sent, for each of its peers, at most one message more or less than it    *)
(* has received.                                                                *)
LEMMA OffByOne ==
  ASSUME ExchangeInv, NEW r \in Ranks, NcclRank(r), NEW q
  PROVE  /\ OutOf(r, q) \in Int /\ Into(r, q) \in Int /\ Owed(r, q) \in Nat /\ Awaited(r, q) \in Nat
         /\ OutOf(r, q) - Into(r, q) \in {-1, 0, 1}
<1> DEFINE X == SendsTo(q)
           Y == RecvsFrom(q)
           s == queue[r]
           t == todo[r]
<1>1. s \in Seq(Kernels) /\ t \in Seq(OpsOf) /\ called[r] \in Nat
  BY LayoutFacts DEF ExchangeInv, Typed
<1>2. Count(s, X) \in Nat /\ Count(s, Y) \in Nat /\ Count(t, X) \in Nat /\ Count(t, Y) \in Nat
  BY <1>1, CountIsNat
<1>3. Count(t, X) = Count(t, Y)
  BY <1>1, FairCounts DEF NcclRank
<1>4. Count(s, X) - Count(s, Y) \in {-1, 0, 1}
  <2>1. CASE s = <<>>
    <3>1. Count(<<>>, X) = 0 /\ Count(<<>>, Y) = 0
      BY CountShort
    <3> QED
      BY <2>1, <3>1
  <2>2. CASE s # <<>>
    <3> DEFINE u == Tail(s)
    <3>1. /\ Count(s, X) = One(s[1] \in X) + Count(u, X)
          /\ Count(s, Y) = One(s[1] \in Y) + Count(u, Y)
      BY <1>1, <2>2, CountHead
    <3>2. /\ u \in Seq(Kernels) /\ Len(u) = Len(s) - 1 /\ Len(s) \in Nat \ {0}
          /\ \A i \in 1..Len(s) - 1 : u[i] = s[i + 1]
      BY <2>2, KernelFacts
    <3>3. \A i \in 1..Len(u) : Fair(u[i], Met(r))
      <4>1. \A i \in 1..Len(u) : i + 1 \in 1..Len(s) /\ i + 1 # 1 /\ u[i] = s[i + 1]
        BY <3>2
      <4> QED
        BY <4>1 DEF NcclRank
    <3> HIDE DEF u
    <3>4. Count(u, X) = Count(u, Y) /\ Count(u, X) \in Nat
      BY <3>2, <3>3, FairCounts, CountIsNat
    <3>5. One(s[1] \in X) \in {0, 1} /\ One(s[1] \in Y) \in {0, 1}
      BY DEF One
    <3> QED
      BY <3>1, <3>4, <3>5
  <2> QED
    BY <2>1, <2>2
<1>5. PICK a, b, c, d, e : a = Count(s, X) /\ b = Count(t, X) /\ c = Count(s, Y) /\ d = Count(t, Y) /\ e = called[r]
  OBVIOUS
<1>6. Owed(r, q) = a + b /\ Awaited(r, q) = c + d /\ OutOf(r, q) = e - (a + b) /\ Into(r, q) = e - (c + d)
  BY <1>5 DEF OutOf, Into, Owed, Awaited
<1>7. a \in Nat /\ b \in Nat /\ c \in Nat /\ d \in Nat /\ e \in Nat /\ b = d /\ a - c \in {-1, 0, 1}
  BY <1>1, <1>2, <1>3, <1>4, <1>5
<1>8. (e - (a + b)) - (e - (c + d)) = c - a /\ c - a \in {-1, 0, 1}
  BY <1>7
<1> HIDE DEF X, Y, s, t
<1> QED
  BY <1>6, <1>7, <1>8

(* A step of one rank that sends nothing and receives nothing.                      *)
LEMMA NcclQuiet ==
  ASSUME NcclAhead, layout' = layout, wire' = wire, NEW r \in Ranks, NcclRank(r)',
         \A q \in Ranks : q # r => todo'[q] = todo[q] /\ queue'[q] = queue[q] /\ called'[q] = called[q],
         \A q \in Met(r) : OutOf(r, q)' = OutOf(r, q) /\ Into(r, q)' = Into(r, q),
         layout \in Layouts
  PROVE  NcclAhead'
<1>1. Ranks' = Ranks /\ \A q : Met(q)' = Met(q)
  BY DEF Ranks, Met, PeersOn, HasNeighbour, Neighbour
<1>2. ASSUME NEW q \in Ranks PROVE NcclRank(q)'
  <2>1. CASE q # r
    <3>1. NcclRank(q) /\ todo'[q] = todo[q] /\ queue'[q] = queue[q]
      BY <2>1 DEF NcclAhead
    <3> QED
      BY <1>1, <3>1 DEF NcclRank
  <2> QED
    BY <2>1
<1>3. ASSUME NEW q \in Ranks, NEW p \in Met(q)
      PROVE  OutOf(q, p)' = OutOf(q, p) /\ Into(q, p)' = Into(q, p)
  <2>1. CASE q # r
    <3>1. todo'[q] = todo[q] /\ queue'[q] = queue[q] /\ called'[q] = called[q]
      BY <2>1
    <3> QED
      BY <3>1 DEF OutOf, Into, Owed, Awaited
  <2> QED
    BY <2>1
<1>4. ASSUME NEW q \in Ranks, NEW p \in Ranks
      PROVE  IF p \in Met(q)' THEN Len(wire[Untagged(q, p)])' = OutOf(q, p)' - Into(p, q)'
                              ELSE wire[Untagged(q, p)]' = <<>>
  <2>1. p \in Met(q) => q \in Met(p)
    BY MetBoth
  <2>2. wire[Untagged(q, p)]' = wire[Untagged(q, p)]
    BY DEF Untagged
  <2> QED
    BY <1>1, <1>3, <2>1, <2>2 DEF NcclAhead, NcclWires
<1> QED
  BY <1>1, <1>2, <1>4 DEF NcclAhead, NcclWires

(* Launching moves operations from the host to the queue, and drops none.           *)
LEMMA NcclLaunched ==
  ASSUME ExchangeInv, NcclAhead, NEW r \in Ranks, NEW ops \in Seq(OpsOf), LaunchOf(r, ops),
         \A i \in 1..Len(ops) : Fair(ops[i], Met(r))
  PROVE  /\ layout' = layout /\ wire' = wire
         /\ \A q \in Ranks : q # r => todo'[q] = todo[q] /\ queue'[q] = queue[q]
         /\ NcclRank(r)'
         /\ \A X : Count(queue'[r], X) + Count(todo'[r], X) = Count(queue[r], X) + Count(ops, X)
<1>1. /\ layout' = layout /\ wire' = wire
      /\ \A q \in Ranks : q # r => todo'[q] = todo[q] /\ queue'[q] = queue[q]
  BY Launched
<1>2. PICK n \in 1..Len(ops) : /\ todo'[r] = SubSeq(ops, n + 1, Len(ops))
                              /\ queue'[r] = queue[r] \o SubSeq(ops, 1, n)
  BY Launched
<1> DEFINE u == SubSeq(ops, 1, n)
           t == SubSeq(ops, n + 1, Len(ops))
           s == queue[r]
           m == Len(s)
           O == Kernels \cup OpsOf
<1>3. n \in Nat /\ Len(ops) \in Nat /\ n <= Len(ops)
  BY LenProperties
<1>4. ops \in Seq(O) /\ s \in Seq(O) /\ m \in Nat
  <2>1. s \in Seq(Kernels) /\ Kernels \subseteq O /\ OpsOf \subseteq O
    BY DEF ExchangeInv, Typed
  <2> HIDE DEF O, s
  <2> QED
    BY <2>1, SeqMonotonic, LenProperties DEF m
<1> HIDE DEF O
<1>5. u \in Seq(O) /\ Len(u) = n /\ \A i \in 1..n : u[i] = ops[i]
  <2>1. n \in Int /\ 1 \in Int /\ \A i \in 1..n : ops[i] \in O
    <3>1. \A i \in 1..n : i \in 1..Len(ops)
      BY <1>3
    <3> QED
      BY <1>3, <1>4, <3>1, ElementOfSeq
  <2>2. /\ u \in Seq(O) /\ Len(u) = (IF 1 <= n THEN n - 1 + 1 ELSE 0)
        /\ \A i \in 1..n - 1 + 1 : u[i] = ops[1 + i - 1]
    <3> HIDE DEF u
    <3> QED
      BY <2>1, SubSeqProperties DEF u
  <2>3. n - 1 + 1 = n /\ \A i \in 1..n : 1 + i - 1 = i
    BY <1>3
  <2> HIDE DEF u
  <2> QED
    BY <1>3, <2>2, <2>3
<1>6. t \in Seq(O) /\ \A i \in 1..Len(t) : \E j \in 1..Len(ops) : t[i] = ops[j]
  <2>1. \A i \in n + 1..Len(ops) : i \in 1..Len(ops) /\ ops[i] \in O
    <3>1. \A i \in n + 1..Len(ops) : i \in 1..Len(ops)
      BY <1>3
    <3> QED
      BY <1>3, <1>4, <3>1, ElementOfSeq
  <2>2. n + 1 \in Int /\ Len(ops) \in Int
    BY <1>3
  <2>3. /\ t \in Seq(O) /\ Len(t) = (IF n + 1 <= Len(ops) THEN Len(ops) - (n + 1) + 1 ELSE 0)
        /\ \A i \in 1..Len(ops) - (n + 1) + 1 : t[i] = ops[(n + 1) + i - 1]
    <3> HIDE DEF t
    <3> QED
      BY <2>1, <2>2, SubSeqProperties DEF t
  <2> HIDE DEF t
  <2>4. \A i \in 1..Len(t) : i \in 1..Len(ops) - (n + 1) + 1 /\ (n + 1) + i - 1 \in 1..Len(ops)
    BY <1>3, <2>3
  <2> QED
    BY <2>3, <2>4
<1> HIDE DEF u, t
<1>7. queue'[r] = s \o u /\ todo'[r] = t
  BY <1>2 DEF u, t
<1>8. ASSUME NEW X PROVE Count(s \o u, X) + Count(t, X) = Count(s, X) + Count(ops, X)
  <2>1. Count(s \o u, X) = Count(s, X) + Count(u, X)
    BY <1>4, <1>5, CountJoined
  <2>2. Count(ops, X) = Count(u, X) + Count(t, X)
    BY CountParts DEF u, t
  <2>3. Count(s, X) \in Nat /\ Count(u, X) \in Nat /\ Count(t, X) \in Nat
    BY <1>4, <1>5, <1>6, CountIsNat
  <2> QED
    BY <2>1, <2>2, <2>3
<1>9. /\ Len(s \o u) = m + n
      /\ \A i \in 1..m + n : (s \o u)[i] = IF i <= m THEN s[i] ELSE u[i - m]
  BY <1>4, <1>5, ConcatProperties, ZenonT(40)
<1>10. PICK M : M = Met(r)
  OBVIOUS
<1>11. Met(r)' = M
  BY <1>1, <1>10 DEF Met, PeersOn, HasNeighbour, Neighbour, Ranks
<1>12. \A i \in 1..Len(s) : Proper(s[i], M) /\ (i # 1 => Fair(s[i], M))
  BY <1>10 DEF NcclAhead, NcclRank
<1>13. \A i \in 1..Len(ops) : Fair(ops[i], M) /\ Proper(ops[i], M)
  BY <1>10 DEF Fair
<1> HIDE DEF s
<1>14. ASSUME NEW i \in 1..m + n PROVE Proper((s \o u)[i], M) /\ (i # 1 => Fair((s \o u)[i], M))
  <2>1. CASE i <= m
    <3>1. i \in 1..Len(s) /\ (s \o u)[i] = s[i]
      BY <1>4, <1>9, <2>1
    <3> QED
      BY <1>12, <3>1
  <2>2. CASE ~(i <= m)
    <3>1. i - m \in 1..n /\ i - m \in 1..Len(ops) /\ (s \o u)[i] = u[i - m]
      BY <1>3, <1>4, <1>9, <2>2
    <3>2. (s \o u)[i] = ops[i - m]
      BY <1>5, <3>1
    <3> QED
      BY <1>13, <3>1, <3>2
  <2> QED
    BY <2>1, <2>2
<1>15. \A i \in 1..Len(t) : Fair(t[i], M)
  BY <1>6, <1>13
<1>16. NcclRank(r)'
  BY <1>7, <1>9, <1>11, <1>14, <1>15 DEF NcclRank
<1> QED
  BY <1>1, <1>7, <1>8, <1>16 DEF s

LEMMA NcclLaunch ==
  ASSUME ExchangeInv, NcclAhead, NEW r \in Ranks, called' = called, Launch(r)
  PROVE  NcclAhead'
<1>1. todo[r] \in Seq(OpsOf) /\ LaunchOf(r, todo[r]) /\ layout \in Layouts
  BY DEF Launch, ExchangeInv, Typed
<1>2. \A i \in 1..Len(todo[r]) : Fair(todo[r][i], Met(r))
  BY DEF NcclAhead, NcclRank
<1>3. /\ layout' = layout /\ wire' = wire
      /\ \A q \in Ranks : q # r => todo'[q] = todo[q] /\ queue'[q] = queue[q]
      /\ NcclRank(r)'
      /\ \A X : Count(queue'[r], X) + Count(todo'[r], X) = Count(queue[r], X) + Count(todo[r], X)
  BY <1>1, <1>2, NcclLaunched
<1>4. \A q : OutOf(r, q)' = OutOf(r, q) /\ Into(r, q)' = Into(r, q)
  BY <1>3 DEF OutOf, Into, Owed, Awaited, SendsTo, RecvsFrom
<1> QED
  BY <1>1, <1>3, <1>4, NcclQuiet

(* Entering an exchange adds one message for each peer, all still to be sent.       *)
LEMMA NcclCall ==
  ASSUME ExchangeInv, NcclAhead, layout.lib # "mpi", NEW r \in Ranks, Call(r)
  PROVE  NcclAhead'
<1> DEFINE g == called[r] + 1
           ops == Turn(r, g)
<1>1. /\ todo[r] = <<>> /\ called[r] < Calls /\ called' = [called EXCEPT ![r] = called[r] + 1]
      /\ LaunchOf(r, ops) /\ layout \in Layouts
  BY DEF Call, ExchangeInv, Typed
<1>2. called \in [Ranks -> 0..Calls] /\ Calls \in Nat
  BY LayoutFacts DEF ExchangeInv, Typed
<1>3. g \in 1..Calls /\ called[r] \in Nat
  BY <1>1, <1>2
<1>4. Talk(ops, Met(r))
  BY <1>1, <1>3, TalkTurn
<1> HIDE DEF ops, g
<1>5. /\ ops \in Seq(OpsOf) /\ \A i \in 1..Len(ops) : Fair(ops[i], Met(r))
      /\ \A q \in Met(r) : Count(ops, SendsTo(q)) = 1 /\ Count(ops, RecvsFrom(q)) = 1
  <2>1. ops \in Seq(NcclOps) /\ OpsOf = NcclOps
    BY <1>4, TalkIsFair DEF OpsOf
  <2> QED
    BY <1>4, <2>1, TalkIsFair DEF One
<1>6. /\ layout' = layout /\ wire' = wire
      /\ \A q \in Ranks : q # r => todo'[q] = todo[q] /\ queue'[q] = queue[q]
      /\ NcclRank(r)'
      /\ \A X : Count(queue'[r], X) + Count(todo'[r], X) = Count(queue[r], X) + Count(ops, X)
  BY <1>1, <1>5, NcclLaunched
<1>7. called'[r] = called[r] + 1 /\ \A q \in Ranks : q # r => called'[q] = called[q]
  BY <1>1, <1>2
<1>8. \A X : Count(queue[r], X) \in Nat /\ Count(todo[r], X) = 0
  BY <1>1, CountIsNat, CountShort DEF ExchangeInv, Typed
<1>9. ASSUME NEW q \in Met(r) PROVE OutOf(r, q)' = OutOf(r, q) /\ Into(r, q)' = Into(r, q)
  <2>1. Owed(r, q)' = Count(queue[r], SendsTo(q)) + 1 /\ Owed(r, q) = Count(queue[r], SendsTo(q)) + 0
    BY <1>5, <1>6, <1>8 DEF Owed, SendsTo
  <2>2. Awaited(r, q)' = Count(queue[r], RecvsFrom(q)) + 1 /\ Awaited(r, q) = Count(queue[r], RecvsFrom(q)) + 0
    BY <1>5, <1>6, <1>8 DEF Awaited, RecvsFrom
  <2>3. PICK a, b : a = Count(queue[r], SendsTo(q)) /\ b = Count(queue[r], RecvsFrom(q))
    OBVIOUS
  <2>4. a \in Nat /\ b \in Nat
    BY <1>8, <2>3
  <2>5. PICK c, d : c = called[r] /\ d = called'[r]
    OBVIOUS
  <2>6. c \in Nat /\ d = c + 1
    BY <1>3, <1>7, <2>5
  <2>7. OutOf(r, q) = c - Owed(r, q) /\ Into(r, q) = c - Awaited(r, q)
    BY <2>5 DEF OutOf, Into
  <2>8. OutOf(r, q)' = d - Owed(r, q)' /\ Into(r, q)' = d - Awaited(r, q)'
    BY <2>5 DEF OutOf, Into
  <2>9. Owed(r, q)' = a + 1 /\ Awaited(r, q)' = b + 1 /\ Owed(r, q) = a /\ Awaited(r, q) = b
    BY <2>1, <2>2, <2>3, <2>4
  <2>10. d - (a + 1) = c - a /\ d - (b + 1) = c - b
    BY <2>4, <2>6
  <2> QED
    BY <2>7, <2>8, <2>9, <2>10
<1> QED
  BY <1>1, <1>6, <1>7, <1>9, NcclQuiet

(* A kernel that is done had nothing left to send or to receive.                   *)
LEMMA NcclDevice ==
  ASSUME ExchangeInv, NcclAhead, NEW r \in Ranks, called' = called,
         RunStencil(r) \/ RunFill(r) \/ RunPack(r) \/ RunUnpack(r) \/ RunCopy(r) \/ GroupEnd(r)
  PROVE  NcclAhead'
<1> DEFINE s == queue[r]
           t == Tail(s)
<1>1. /\ UNCHANGED <<layout, todo, wire>> /\ s # <<>> /\ queue' = [queue EXCEPT ![r] = t]
      /\ Kernel(r).op # "group" \/ (Kernel(r).sends = <<>> /\ Kernel(r).recvs = <<>>)
  <2>1. CASE RunStencil(r)
    BY <2>1, Zenon DEF RunStencil, Runs, AtHead
  <2>2. CASE RunFill(r)
    BY <2>2, Zenon DEF RunFill, Runs, AtHead
  <2>3. CASE RunPack(r)
    BY <2>3, Zenon DEF RunPack, Runs, AtHead
  <2>4. CASE RunUnpack(r)
    BY <2>4, Zenon DEF RunUnpack, Runs, AtHead
  <2>5. CASE RunCopy(r)
    BY <2>5, Zenon DEF RunCopy, Runs, AtHead
  <2>6. CASE GroupEnd(r)
    BY <2>6, Zenon DEF GroupEnd, Runs, AtHead
  <2> QED
    BY <2>1, <2>2, <2>3, <2>4, <2>5, <2>6
<1>2. /\ s \in Seq(Kernels) /\ t \in Seq(Kernels) /\ s[1] = Kernel(r) /\ Len(s) \in Nat \ {0}
      /\ Len(t) = Len(s) - 1 /\ \A i \in 1..Len(s) - 1 : t[i] = s[i + 1]
  BY <1>1, KernelFacts
<1> HIDE DEF t
<1>3. queue'[r] = t /\ \A q \in Ranks : q # r => queue'[q] = queue[q]
  BY <1>1 DEF ExchangeInv, Typed
<1>4. \A q : s[1] \notin SendsTo(q) /\ s[1] \notin RecvsFrom(q)
  <2>1. s[1] \in Groups => Kernel(r).sends = <<>> /\ Kernel(r).recvs = <<>>
    BY <1>1, <1>2 DEF Groups
  <2>2. Peers(<<>>) = {}
    BY DEF Peers
  <2> QED
    BY <1>2, <2>1, <2>2 DEF SendsTo, RecvsFrom
<1>5. \A q : Count(t, SendsTo(q)) = Count(s, SendsTo(q)) /\ Count(t, RecvsFrom(q)) = Count(s, RecvsFrom(q))
  <2> SUFFICES ASSUME NEW X, s[1] \notin X PROVE Count(t, X) = Count(s, X)
    BY <1>4
  <2>1. Count(s, X) = One(s[1] \in X) + Count(t, X)
    BY <1>1, <1>2, CountHead DEF t
  <2>2. Count(t, X) \in Nat
    BY <1>2, CountIsNat
  <2> QED
    BY <2>1, <2>2 DEF One
<1>6. NcclRank(r)'
  <2>1. Met(r)' = Met(r)
    BY <1>1 DEF Met, PeersOn, HasNeighbour, Neighbour, Ranks
  <2>2. \A i \in 1..Len(t) : i + 1 \in 1..Len(s) /\ i + 1 # 1 /\ t[i] = s[i + 1]
    BY <1>2
  <2>3. \A i \in 1..Len(t) : Fair(t[i], Met(r)) /\ Proper(t[i], Met(r))
    BY <2>2 DEF NcclAhead, NcclRank, Fair
  <2>4. \A i \in 1..Len(todo[r]) : Fair(todo[r][i], Met(r))
    BY DEF NcclAhead, NcclRank
  <2> QED
    BY <1>1, <1>3, <2>1, <2>3, <2>4 DEF NcclRank
<1>7. \A q : OutOf(r, q)' = OutOf(r, q) /\ Into(r, q)' = Into(r, q)
  BY <1>1, <1>3, <1>5 DEF OutOf, Into, Owed, Awaited, SendsTo, RecvsFrom
<1> QED
  BY <1>1, <1>3, <1>6, <1>7, NcclQuiet DEF ExchangeInv, Typed

LEMMA NcclSync ==
  ASSUME ExchangeInv, NcclAhead, NEW r \in Ranks, called' = called, Synchronize(r)
  PROVE  NcclAhead'
<1> DEFINE s == todo[r]
           t == Tail(s)
<1>1. /\ UNCHANGED <<layout, queue, wire>> /\ s # <<>> /\ HostOp(r).op = "sync"
      /\ todo' = [todo EXCEPT ![r] = t]
  BY DEF Synchronize, Doing, Done
<1>2. s \in Seq(OpsOf) /\ t \in Seq(OpsOf) /\ s[1] = HostOp(r) /\ Len(s) \in Nat \ {0}
  BY <1>1, HostFacts
<1>3. Len(t) = Len(s) - 1 /\ \A i \in 1..Len(t) : t[i] = s[i + 1]
  BY <1>1, <1>2, HeadTailProperties
<1> HIDE DEF t
<1>4. todo'[r] = t /\ \A q \in Ranks : q # r => todo'[q] = todo[q]
  BY <1>1 DEF ExchangeInv, Typed
<1>5. \A q : s[1] \notin SendsTo(q) /\ s[1] \notin RecvsFrom(q)
  BY <1>1, <1>2 DEF SendsTo, RecvsFrom, Groups
<1>6. \A q : Count(t, SendsTo(q)) = Count(s, SendsTo(q)) /\ Count(t, RecvsFrom(q)) = Count(s, RecvsFrom(q))
  <2> SUFFICES ASSUME NEW X, s[1] \notin X PROVE Count(t, X) = Count(s, X)
    BY <1>5
  <2>1. Count(s, X) = One(s[1] \in X) + Count(t, X)
    BY <1>1, <1>2, CountHead DEF t
  <2>2. Count(t, X) \in Nat
    BY <1>2, CountIsNat
  <2> QED
    BY <2>1, <2>2 DEF One
<1>7. NcclRank(r)'
  <2>1. Met(r)' = Met(r)
    BY <1>1 DEF Met, PeersOn, HasNeighbour, Neighbour, Ranks
  <2>2. \A i \in 1..Len(t) : i + 1 \in 1..Len(s) /\ t[i] = s[i + 1]
    BY <1>2, <1>3
  <2>3. \A i \in 1..Len(t) : Fair(t[i], Met(r))
    BY <2>2 DEF NcclAhead, NcclRank
  <2>4. \A i \in 1..Len(queue[r]) : Proper(queue[r][i], Met(r)) /\ (i # 1 => Fair(queue[r][i], Met(r)))
    BY DEF NcclAhead, NcclRank
  <2> QED
    BY <1>1, <1>4, <2>1, <2>3, <2>4 DEF NcclRank
<1>8. \A q : OutOf(r, q)' = OutOf(r, q) /\ Into(r, q)' = Into(r, q)
  BY <1>1, <1>4, <1>6 DEF OutOf, Into, Owed, Awaited, SendsTo, RecvsFrom
<1> QED
  BY <1>1, <1>4, <1>7, <1>8, NcclQuiet DEF ExchangeInv, Typed

(* A group without one of its messages.                                            *)
LEMMA PeersLeft ==
  ASSUME NEW ops \in Seq(Payloads), Single(ops), NEW k \in DOMAIN ops
  PROVE  /\ RemoveAt(ops, k) \in Seq(Payloads) /\ Single(RemoveAt(ops, k))
         /\ Peers(RemoveAt(ops, k)) = Peers(ops) \ {ops[k].peer}
         /\ ops[k].peer \in Peers(ops)
<1> DEFINE n == Len(ops)
           a == SubSeq(ops, 1, k - 1)
           b == SubSeq(ops, k + 1, n)
<1>1. k \in 1..n /\ n \in Nat /\ k \in Nat
  BY LenProperties
<1>2. \A j \in 1..n : ops[j] \in Payloads
  BY ElementOfSeq
<1>3. a \in Seq(Payloads) /\ Len(a) = k - 1 /\ \A i \in 1..k - 1 : a[i] = ops[i]
  <2>1. 1 \in Int /\ k - 1 \in Int /\ \A j \in 1..k - 1 : ops[j] \in Payloads
    BY <1>1, <1>2
  <2>2. /\ a \in Seq(Payloads) /\ Len(a) = (IF 1 <= k - 1 THEN (k - 1) - 1 + 1 ELSE 0)
        /\ \A i \in 1..(k - 1) - 1 + 1 : a[i] = ops[1 + i - 1]
    <3> HIDE DEF a
    <3> QED
      BY <2>1, SubSeqProperties DEF a
  <2>3. (k - 1) - 1 + 1 = k - 1 /\ \A i \in 1..k - 1 : 1 + i - 1 = i
    BY <1>1
  <2> HIDE DEF a
  <2> QED
    BY <1>1, <2>2, <2>3
<1>4. b \in Seq(Payloads) /\ Len(b) = n - k /\ \A i \in 1..n - k : b[i] = ops[k + i]
  <2>1. k + 1 \in Int /\ n \in Int /\ \A j \in k + 1..n : ops[j] \in Payloads
    BY <1>1, <1>2
  <2>2. /\ b \in Seq(Payloads) /\ Len(b) = (IF k + 1 <= n THEN n - (k + 1) + 1 ELSE 0)
        /\ \A i \in 1..n - (k + 1) + 1 : b[i] = ops[(k + 1) + i - 1]
    <3> HIDE DEF b, n
    <3> QED
      BY <2>1, SubSeqProperties DEF b
  <2>3. n - (k + 1) + 1 = n - k /\ \A i \in 1..n - k : (k + 1) + i - 1 = k + i
    BY <1>1
  <2> HIDE DEF b, n
  <2> QED
    BY <1>1, <2>2, <2>3
<1>5. RemoveAt(ops, k) = a \o b
  BY DEF RemoveAt
<1> HIDE DEF a, b, n
<1>6. \A i, j \in 1..n : ops[i].peer = ops[j].peer => i = j
  BY DEF Single, n
<1>7. \A i \in 1..k - 1 : i \in 1..n /\ i # k
  BY <1>1
<1>8. \A i \in 1..n - k : k + i \in 1..n /\ k + i # k
  BY <1>1
<1>9. \A i \in 1..n : i # k => i \in 1..k - 1 \/ \E j \in 1..n - k : i = k + j
  <2> SUFFICES ASSUME NEW i \in 1..n, i # k, i \notin 1..k - 1 PROVE \E j \in 1..n - k : i = k + j
    OBVIOUS
  <2>1. i - k \in 1..n - k /\ i = k + (i - k)
    BY <1>1
  <2> QED
    BY <2>1
<1>10. /\ Peers(a) = {ops[i].peer : i \in 1..k - 1}
       /\ Peers(b) = {ops[k + i].peer : i \in 1..n - k}
       /\ Peers(ops) = {ops[i].peer : i \in 1..n}
  BY <1>3, <1>4, ZenonT(40) DEF Peers, n
<1>11. Single(a)
  <2>1. \A i, j \in 1..k - 1 : ops[i].peer = ops[j].peer => i = j
    BY <1>6, <1>7
  <2> QED
    BY <1>3, <2>1 DEF Single
<1>12. Single(b)
  <2> SUFFICES ASSUME NEW i \in 1..n - k, NEW j \in 1..n - k, ops[k + i].peer = ops[k + j].peer PROVE i = j
    BY <1>4 DEF Single
  <2>1. k + i = k + j
    BY <1>6, <1>8
  <2> QED
    BY <1>1, <2>1
<1>13. Peers(a) \cap Peers(b) = {}
  <2> SUFFICES ASSUME NEW i \in 1..k - 1, NEW j \in 1..n - k, ops[i].peer = ops[k + j].peer PROVE FALSE
    BY <1>10
  <2>1. i = k + j
    BY <1>6, <1>7, <1>8
  <2> QED
    BY <1>1, <2>1
<1>14. Peers(a) \cup Peers(b) = Peers(ops) \ {ops[k].peer}
  <2>1. ASSUME NEW q \in Peers(a) PROVE q \in Peers(ops) \ {ops[k].peer}
    <3>1. PICK i \in 1..k - 1 : q = ops[i].peer
      BY <1>10
    <3>2. i \in 1..n /\ i # k
      BY <1>7
    <3> QED
      BY <1>1, <1>6, <1>10, <3>1, <3>2
  <2>2. ASSUME NEW q \in Peers(b) PROVE q \in Peers(ops) \ {ops[k].peer}
    <3>1. PICK i \in 1..n - k : q = ops[k + i].peer
      BY <1>10
    <3>2. k + i \in 1..n /\ k + i # k
      BY <1>8
    <3>3. q \in Peers(ops)
      BY <1>10, <3>1, <3>2, Zenon
    <3>4. q # ops[k].peer
      BY <1>1, <1>6, <3>1, <3>2
    <3> QED
      BY <3>3, <3>4
  <2>3. ASSUME NEW q \in Peers(ops), q # ops[k].peer PROVE q \in Peers(a) \cup Peers(b)
    <3>1. PICK i \in 1..n : q = ops[i].peer
      BY <1>10
    <3>2. i # k
      BY <2>3, <3>1
    <3>3. CASE i \in 1..k - 1
      BY <1>10, <3>1, <3>3
    <3>4. CASE \E j \in 1..n - k : i = k + j
      BY <1>10, <3>1, <3>4, Zenon
    <3> QED
      BY <1>9, <3>2, <3>3, <3>4
  <2> QED
    BY <2>1, <2>2, <2>3
<1>15. Single(a \o b) /\ Peers(a \o b) = Peers(a) \cup Peers(b) /\ a \o b \in Seq(Payloads)
  BY <1>3, <1>4, <1>11, <1>12, <1>13, PeersJoined, Joined
<1>16. ops[k].peer \in Peers(ops)
  BY <1>1, <1>10
<1> QED
  BY <1>5, <1>14, <1>15, <1>16

LEMMA HeadReplaced ==
  ASSUME NEW S, NEW s \in Seq(S), s # <<>>, NEW g \in S
  PROVE  /\ [s EXCEPT ![1] = g] \in Seq(S) /\ Len([s EXCEPT ![1] = g]) = Len(s)
         /\ [s EXCEPT ![1] = g][1] = g
         /\ \A i \in 1..Len(s) : i # 1 => [s EXCEPT ![1] = g][i] = s[i]
         /\ \A X : Count([s EXCEPT ![1] = g], X) + One(s[1] \in X) = Count(s, X) + One(g \in X)
<1> DEFINE t == [s EXCEPT ![1] = g]
<1>1. 1 \in 1..Len(s) /\ Len(s) \in Nat \ {0}
  BY EmptySeq
<1>2. t \in Seq(S) /\ Len(t) = Len(s)
  BY <1>1, ExceptSeq
<1>3. t[1] = g /\ \A i \in 1..Len(s) : i # 1 => t[i] = s[i]
  BY <1>1, <1>2
<1> HIDE DEF t
<1>4. t # <<>>
  BY <1>1, <1>2
<1>5. /\ Tail(s) \in Seq(S) /\ Len(Tail(s)) = Len(s) - 1 /\ \A i \in 1..Len(Tail(s)) : Tail(s)[i] = s[i + 1]
      /\ Tail(t) \in Seq(S) /\ Len(Tail(t)) = Len(t) - 1 /\ \A i \in 1..Len(Tail(t)) : Tail(t)[i] = t[i + 1]
  BY <1>2, <1>4, HeadTailProperties, SMTT(30)
<1>6. Tail(t) = Tail(s)
  <2>1. \A i \in 1..Len(Tail(s)) : i + 1 \in 1..Len(s) /\ i + 1 # 1
    BY <1>1, <1>5
  <2>2. \A i \in 1..Len(Tail(s)) : Tail(t)[i] = Tail(s)[i]
    BY <1>2, <1>3, <1>5, <2>1
  <2>3. Len(Tail(t)) = Len(Tail(s))
    BY <1>2, <1>5
  <2> QED
    BY <1>5, <2>2, <2>3, SeqEqual
<1>7. ASSUME NEW X PROVE Count(t, X) + One(s[1] \in X) = Count(s, X) + One(g \in X)
  <2>1. Count(s, X) = One(s[1] \in X) + Count(Tail(s), X)
    BY CountHead
  <2>2. Count(t, X) = One(t[1] \in X) + Count(Tail(t), X)
    BY <1>2, <1>4, CountHead
  <2>3. PICK a, b, c : a = Count(Tail(s), X) /\ b = One(s[1] \in X) /\ c = One(g \in X)
    OBVIOUS
  <2>4. a \in Nat /\ b \in Nat /\ c \in Nat
    BY <1>5, <2>3, CountIsNat DEF One
  <2>5. Count(s, X) = b + a
    BY <2>1, <2>3
  <2>6. Count(t, X) = c + a
    BY <1>3, <1>6, <2>2, <2>3
  <2>7. (c + a) + b = (b + a) + c
    BY <2>4
  <2> QED
    BY <2>3, <2>5, <2>6, <2>7
<1> QED
  BY <1>2, <1>3, <1>7 DEF t

---------------------------------------------------------------------------------
(* A step of the group that runs on one rank changes one channel.                   *)
LEMMA OneWire ==
  ASSUME NcclAhead, layout \in Layouts, layout' = layout, NEW r \in Ranks, NEW q \in Met(r),
         NEW v, \E S : v \in Seq(S), wire' = [wire EXCEPT ![Untagged(r, q)] = v],
         \A n \in Ranks : NcclRank(n)',
         Len(v) = OutOf(r, q)' - Into(q, r)',
         \A n \in Ranks : \A p \in Met(n) : <<n, p>> # <<r, q>> =>
           OutOf(n, p)' = OutOf(n, p) /\ Into(p, n)' = Into(p, n)
  PROVE  NcclAhead'
<1> DEFINE ch == Untagged(r, q)
<1>1. Ranks' = Ranks /\ \A n : Met(n)' = Met(n)
  BY DEF Ranks, Met, PeersOn, HasNeighbour, Neighbour
<1>2. q \in Ranks
  BY MetBoth
<1>3. ch \in DOMAIN wire
  BY <1>2 DEF NcclAhead, NcclWires, Untagged
<1>4. DOMAIN wire' = DOMAIN wire /\ wire'[ch] = v /\ \A c \in DOMAIN wire : c # ch => wire'[c] = wire[c]
  BY <1>3
<1>5. \A n, p : Untagged(n, p) = ch <=> n = r /\ p = q
  BY DEF Untagged
<1> HIDE DEF ch
<1>6. ASSUME NEW n \in Ranks, NEW p \in Ranks
      PROVE  IF p \in Met(n)' THEN Len(wire[Untagged(n, p)])' = OutOf(n, p)' - Into(p, n)'
                              ELSE wire[Untagged(n, p)]' = <<>>
  <2>1. PICK c : c = Untagged(n, p)
    OBVIOUS
  <2>2. c \in DOMAIN wire /\ wire[Untagged(n, p)]' = wire'[c]
    BY <2>1 DEF NcclAhead, NcclWires, Untagged
  <2>3. IF p \in Met(n) THEN Len(wire[c]) = OutOf(n, p) - Into(p, n) ELSE wire[c] = <<>>
    BY <2>1 DEF NcclAhead, NcclWires
  <2>4. CASE n = r /\ p = q
    <3>1. c = ch /\ p \in Met(n)'
      BY <1>1, <1>5, <2>1, <2>4
    <3>2. Len(wire'[c]) = OutOf(n, p)' - Into(p, n)'
      BY <1>4, <2>4, <3>1
    <3> QED
      BY <2>2, <3>1, <3>2
  <2>5. CASE ~(n = r /\ p = q)
    <3>1. c # ch
      BY <1>5, <2>1, <2>5
    <3>2. wire'[c] = wire[c]
      BY <1>4, <2>2, <3>1
    <3>3. <<n, p>> # <<r, q>>
      BY <2>5
    <3>4. p \in Met(n) => OutOf(n, p)' = OutOf(n, p) /\ Into(p, n)' = Into(p, n)
      BY <3>3
    <3> QED
      BY <1>1, <2>2, <2>3, <3>2, <3>4
  <2> QED
    BY <2>4, <2>5
<1>7. \A c \in DOMAIN wire : \E S : wire'[c] \in Seq(S)
  BY <1>4 DEF NcclAhead, NcclWires
<1>8. DOMAIN wire' = Ranks \X Ranks \X {"nccl"}
  BY <1>4 DEF NcclAhead, NcclWires
<1> QED
  BY <1>1, <1>4, <1>6, <1>7, <1>8 DEF NcclAhead, NcclWires

(* The group at the head of the queue has become g.                                *)
LEMMA GroupLeft ==
  ASSUME ExchangeInv, NcclAhead, NEW r \in Ranks, queue[r] # <<>>, NEW g \in Groups, LeftOf(r, g),
         layout' = layout, todo' = todo, Proper(g, Met(r))
  PROVE  /\ \A q \in Ranks : queue'[q] = IF q = r THEN queue'[r] ELSE queue[q]
         /\ \A q \in Ranks : NcclRank(q)'
         /\ \A X : Count(queue'[r], X) + One(Kernel(r) \in X) = Count(queue[r], X) + One(g \in X)
<1> DEFINE s == queue[r]
           t == [s EXCEPT ![1] = g]
<1>1. s \in Seq(Kernels) /\ g \in Kernels /\ s[1] = Kernel(r) /\ Len(s) \in Nat
  BY KernelFacts DEF Kernels
<1>2. /\ Len(t) = Len(s) /\ t[1] = g /\ \A i \in 1..Len(s) : i # 1 => t[i] = s[i]
      /\ \A X : Count(t, X) + One(s[1] \in X) = Count(s, X) + One(g \in X)
  BY <1>1, HeadReplaced
<1>3. queue' = [queue EXCEPT ![r] = t]
  BY DEF LeftOf
<1> HIDE DEF t
<1>4. queue'[r] = t /\ \A q \in Ranks : q # r => queue'[q] = queue[q]
  BY <1>3 DEF ExchangeInv, Typed
<1>5. \A q : Met(q)' = Met(q)
  BY DEF Met, PeersOn, HasNeighbour, Neighbour, Ranks
<1>6. ASSUME NEW q \in Ranks PROVE NcclRank(q)'
  <2>1. NcclRank(q)
    BY DEF NcclAhead
  <2>2. CASE q # r
    BY <1>4, <1>5, <2>1, <2>2 DEF NcclRank
  <2>3. CASE q = r
    <3>1. \A i \in 1..Len(t) : Proper(t[i], Met(r)) /\ (i # 1 => Fair(t[i], Met(r)))
      BY <1>2, <2>1, <2>3 DEF NcclRank
    <3>2. \A i \in 1..Len(todo[r]) : Fair(todo[r][i], Met(r))
      BY <2>1, <2>3 DEF NcclRank
    <3> QED
      BY <1>4, <1>5, <2>3, <3>1, <3>2 DEF NcclRank
  <2> QED
    BY <2>2, <2>3
<1> QED
  BY <1>1, <1>2, <1>4, <1>6

(* What that changes in the counts.                                              *)
LEMMA GroupCounts ==
  ASSUME ExchangeInv, NcclAhead, called' = called, NEW r \in Ranks, queue[r] # <<>>, NEW g \in Groups, LeftOf(r, g),
         layout' = layout, todo' = todo, Proper(g, Met(r))
  PROVE  /\ \A n \in Ranks : \A q : OutOf(n, q) \in Int /\ Into(n, q) \in Int
         /\ \A n \in Ranks : n # r => \A q : OutOf(n, q)' = OutOf(n, q) /\ Into(n, q)' = Into(n, q)
         /\ \A q : OutOf(r, q)' = OutOf(r, q) + One(Kernel(r) \in SendsTo(q)) - One(g \in SendsTo(q))
         /\ \A q : Into(r, q)' = Into(r, q) + One(Kernel(r) \in RecvsFrom(q)) - One(g \in RecvsFrom(q))
<1>1. /\ \A n \in Ranks : n # r => queue'[n] = queue[n]
      /\ \A X : Count(queue'[r], X) + One(Kernel(r) \in X) = Count(queue[r], X) + One(g \in X)
      /\ \A n \in Ranks : NcclRank(n)'
  BY GroupLeft
<1>2. \A n \in Ranks : \A q : OutOf(n, q) \in Int /\ Into(n, q) \in Int
  BY OffByOne DEF NcclAhead
<1>3. \A n \in Ranks : n # r => \A q : OutOf(n, q)' = OutOf(n, q) /\ Into(n, q)' = Into(n, q)
  BY <1>1 DEF OutOf, Into, Owed, Awaited, SendsTo, RecvsFrom
<1>4. /\ called[r] \in Int
      /\ \A X : Count(queue[r], X) \in Nat /\ Count(todo[r], X) \in Nat
  <2>1. called[r] \in Int /\ queue[r] \in Seq(Kernels) /\ todo[r] \in Seq(OpsOf)
    BY LayoutFacts DEF ExchangeInv, Typed
  <2> QED
    BY <2>1, CountIsNat
<1>5. \A X : Count(queue'[r], X) \in Nat
  <2>1. Kernel(r) \in Kernels /\ queue[r] \in Seq(Kernels) /\ g \in Kernels
    BY KernelFacts DEF Kernels
  <2>2. [queue[r] EXCEPT ![1] = g] \in Seq(Kernels)
    BY <2>1, HeadReplaced
  <2>3. queue'[r] = [queue[r] EXCEPT ![1] = g]
    BY DEF LeftOf, ExchangeInv, Typed
  <2> QED
    BY <2>2, <2>3, CountIsNat
<1>6. ASSUME NEW X
      PROVE  called'[r] - (Count(queue'[r], X) + Count(todo'[r], X))
               = called[r] - (Count(queue[r], X) + Count(todo[r], X)) + One(Kernel(r) \in X) - One(g \in X)
  <2>1. PICK a, b, c, d, e, f :
          /\ a = called[r] /\ b = Count(queue[r], X) /\ c = Count(todo[r], X)
          /\ d = One(Kernel(r) \in X) /\ e = One(g \in X) /\ f = Count(queue'[r], X)
    OBVIOUS
  <2>2. a \in Int /\ b \in Nat /\ c \in Nat /\ d \in Nat /\ e \in Nat /\ f \in Nat /\ f + d = b + e
    <3>1. d \in Nat /\ e \in Nat
      BY <2>1 DEF One
    <3>2. a \in Int /\ b \in Nat /\ c \in Nat /\ f \in Nat
      BY <1>4, <1>5, <2>1
    <3>3. f + d = b + e
      BY <1>1, <2>1
    <3> QED
      BY <3>1, <3>2, <3>3
  <2>3. a - (f + c) = a - (b + c) + d - e
    BY <2>2
  <2> QED
    BY <2>1, <2>3
<1>7. \A q : OutOf(r, q)' = OutOf(r, q) + One(Kernel(r) \in SendsTo(q)) - One(g \in SendsTo(q))
  BY <1>6 DEF OutOf, Owed, SendsTo
<1>8. \A q : Into(r, q)' = Into(r, q) + One(Kernel(r) \in RecvsFrom(q)) - One(g \in RecvsFrom(q))
  BY <1>6 DEF Into, Awaited, RecvsFrom
<1> QED
  BY <1>2, <1>3, <1>7, <1>8

(* The group that runs.                                                           *)
LEMMA GroupAtHead ==
  ASSUME ExchangeInv, NcclAhead, NEW r \in Ranks, AtHead(r, "group")
  PROVE  queue[r] # <<>> /\ Kernel(r) \in Groups /\ Proper(Kernel(r), Met(r))
<1>1. queue[r] # <<>> /\ Kernel(r).op = "group"
  BY DEF AtHead
<1>2. Kernel(r) \in Groups
  BY <1>1, KernelFacts DEF Kernels, MpiMove, Move, Copies, Stencils
<1>3. 1 \in 1..Len(queue[r]) /\ Kernel(r) = queue[r][1]
  BY <1>1, KernelFacts
<1> QED
  BY <1>1, <1>2, <1>3 DEF NcclAhead, NcclRank

LEMMA Sums ==
  ASSUME NEW a \in Int, NEW b \in Int, NEW c \in Int, NEW d, b - c = d
  PROVE  a + b - c = a + d /\ (d = 0 => a + b - c = a)
OBVIOUS

(* A message leaves.                                                              *)
LEMMA NcclSend ==
  ASSUME ExchangeInv, NcclAhead, called' = called, NEW r \in Ranks, GroupSend(r)
  PROVE  NcclAhead'
<1>1. AtHead(r, "group") /\ UNCHANGED <<layout, todo>> /\ layout \in Layouts
  BY Zenon DEF GroupSend, ExchangeInv, Typed
<1>2. PICK o \in Groups : o = Kernel(r) /\ Proper(o, Met(r)) /\ queue[r] # <<>>
  BY <1>1, GroupAtHead
<1>3. o.sends \in Seq(Payloads) /\ o.recvs \in Seq(Payloads)
  BY DEF Groups
<1>4. PICK k \in DOMAIN o.sends :
        /\ \E m : wire' = [wire EXCEPT ![Untagged(r, o.sends[k].peer)] =
                             Append(wire[Untagged(r, o.sends[k].peer)], m)]
        /\ LeftOf(r, [o EXCEPT !.sends = RemoveAt(o.sends, k)])
  BY <1>2, Zenon DEF GroupSend
<1> PICK m : wire' = [wire EXCEPT ![Untagged(r, o.sends[k].peer)] =
                        Append(wire[Untagged(r, o.sends[k].peer)], m)]
  BY <1>4
<1>5. PICK p, g, v : /\ p = o.sends[k].peer /\ g = [o EXCEPT !.sends = RemoveAt(o.sends, k)]
                     /\ v = Append(wire[Untagged(r, p)], m)
  OBVIOUS
<1>6. LeftOf(r, g) /\ wire' = [wire EXCEPT ![Untagged(r, p)] = v]
  BY <1>4, <1>5
<1>7. OncePerPeer(o) /\ Peers(o.sends) \subseteq Met(r) /\ Peers(o.recvs) \subseteq Met(r)
  BY <1>2 DEF Proper
<1>8. /\ RemoveAt(o.sends, k) \in Seq(Payloads) /\ Single(RemoveAt(o.sends, k))
      /\ Peers(RemoveAt(o.sends, k)) = Peers(o.sends) \ {p} /\ p \in Peers(o.sends)
  BY <1>3, <1>5, <1>7, PeersLeft DEF OncePerPeer
<1>9. g \in Groups /\ g.sends = RemoveAt(o.sends, k) /\ g.recvs = o.recvs
  BY <1>3, <1>5, <1>8 DEF Groups
<1>10. Proper(g, Met(r))
  BY <1>7, <1>8, <1>9 DEF Proper, OncePerPeer
<1>11. p \in Met(r) /\ p \in Ranks /\ p # r
  BY <1>1, <1>7, <1>8, MetBoth
<1>12. /\ \A q : (o \in SendsTo(q)) <=> (g \in SendsTo(q) \/ q = p)
       /\ g \notin SendsTo(p)
       /\ \A q : (o \in RecvsFrom(q)) <=> (g \in RecvsFrom(q))
  BY <1>2, <1>8, <1>9 DEF SendsTo, RecvsFrom
<1>13. \A q : /\ One(o \in SendsTo(q)) - One(g \in SendsTo(q)) = One(q = p)
              /\ One(o \in RecvsFrom(q)) - One(g \in RecvsFrom(q)) = 0
              /\ One(o \in SendsTo(q)) \in Int /\ One(g \in SendsTo(q)) \in Int
              /\ One(o \in RecvsFrom(q)) \in Int /\ One(g \in RecvsFrom(q)) \in Int
  BY <1>12 DEF One
<1>14. /\ \A n \in Ranks : \A q : OutOf(n, q) \in Int /\ Into(n, q) \in Int
       /\ \A n \in Ranks : n # r => \A q : OutOf(n, q)' = OutOf(n, q) /\ Into(n, q)' = Into(n, q)
       /\ \A q : OutOf(r, q)' = OutOf(r, q) + One(o \in SendsTo(q)) - One(g \in SendsTo(q))
       /\ \A q : Into(r, q)' = Into(r, q) + One(o \in RecvsFrom(q)) - One(g \in RecvsFrom(q))
  <2>1. layout' = layout /\ todo' = todo
    BY <1>1
  <2> QED
    BY <1>2, <1>6, <1>9, <1>10, <2>1, GroupCounts
<1>15. ASSUME NEW q PROVE OutOf(r, q)' = OutOf(r, q) + One(q = p) /\ Into(r, q)' = Into(r, q)
  BY <1>13, <1>14, Sums
<1>16. OutOf(r, p)' = OutOf(r, p) + 1 /\ \A q : q # p => OutOf(r, q)' = OutOf(r, q)
  <2>1. OutOf(r, p)' = OutOf(r, p) + 1
    <3>1. One(p = p) = 1
      BY DEF One
    <3>2. OutOf(r, p)' = OutOf(r, p) + One(p = p)
      BY <1>15
    <3> QED
      BY <3>1, <3>2
  <2>2. ASSUME NEW q, q # p PROVE OutOf(r, q)' = OutOf(r, q)
    <3>1. One(q = p) = 0 /\ OutOf(r, q) \in Int
      BY <1>14, <2>2 DEF One
    <3>2. OutOf(r, q)' = OutOf(r, q) + One(q = p)
      BY <1>15
    <3>3. OutOf(r, q)' = OutOf(r, q) + 0
      BY <3>1, <3>2
    <3> QED
      BY <3>1, <3>3
  <2> QED
    BY <2>1, <2>2
<1>17. /\ Len(wire[Untagged(r, p)]) = OutOf(r, p) - Into(p, r)
       /\ \E S : wire[Untagged(r, p)] \in Seq(S)
  BY <1>11 DEF NcclAhead, NcclWires, Untagged
<1>18. Len(v) = Len(wire[Untagged(r, p)]) + 1 /\ \E S : v \in Seq(S)
  BY <1>5, <1>17, Longer
<1>19. Len(v) = OutOf(r, p)' - Into(p, r)'
  <2>1. Into(p, r)' = Into(p, r) /\ Into(p, r) \in Int /\ OutOf(r, p) \in Int
    BY <1>11, <1>14
  <2>2. PICK a, b : a = OutOf(r, p) /\ b = Into(p, r)
    OBVIOUS
  <2>3. a \in Int /\ b \in Int /\ Len(v) = a - b + 1 /\ OutOf(r, p)' = a + 1 /\ Into(p, r)' = b
    BY <1>16, <1>17, <1>18, <2>1, <2>2
  <2> QED
    BY <2>3
<1>20. \A n \in Ranks : \A q \in Met(n) : <<n, q>> # <<r, p>> =>
         OutOf(n, q)' = OutOf(n, q) /\ Into(q, n)' = Into(q, n)
  <2> SUFFICES ASSUME NEW n \in Ranks, NEW q \in Met(n), <<n, q>> # <<r, p>>
               PROVE  OutOf(n, q)' = OutOf(n, q) /\ Into(q, n)' = Into(q, n)
    OBVIOUS
  <2>1. q \in Ranks
    BY <1>1, MetBoth
  <2> QED
    BY <1>14, <1>15, <1>16, <2>1
<1>21. \A n \in Ranks : NcclRank(n)'
  BY <1>1, <1>2, <1>6, <1>9, <1>10, GroupLeft
<1> QED
  BY <1>1, <1>6, <1>11, <1>18, <1>19, <1>20, <1>21, OneWire

(* A message arrives.                                                             *)
LEMMA NcclReceive ==
  ASSUME ExchangeInv, NcclAhead, called' = called, NEW r \in Ranks, GroupReceive(r)
  PROVE  NcclAhead'
<1>1. AtHead(r, "group") /\ UNCHANGED <<layout, todo>> /\ layout \in Layouts
  BY Zenon DEF GroupReceive, ExchangeInv, Typed
<1>2. PICK o \in Groups : o = Kernel(r) /\ Proper(o, Met(r)) /\ queue[r] # <<>>
  BY <1>1, GroupAtHead
<1>3. o.sends \in Seq(Payloads) /\ o.recvs \in Seq(Payloads)
  BY DEF Groups
<1>4. PICK k \in DOMAIN o.recvs :
        /\ wire[Untagged(o.recvs[k].peer, r)] # <<>>
        /\ wire' = [wire EXCEPT ![Untagged(o.recvs[k].peer, r)] = Tail(wire[Untagged(o.recvs[k].peer, r)])]
        /\ LeftOf(r, [o EXCEPT !.recvs = RemoveAt(o.recvs, k)])
  BY <1>2, Zenon DEF GroupReceive
<1>5. PICK p, g, v : /\ p = o.recvs[k].peer /\ g = [o EXCEPT !.recvs = RemoveAt(o.recvs, k)]
                     /\ v = Tail(wire[Untagged(p, r)])
  OBVIOUS
<1>6. LeftOf(r, g) /\ wire[Untagged(p, r)] # <<>> /\ wire' = [wire EXCEPT ![Untagged(p, r)] = v]
  BY <1>4, <1>5
<1>7. OncePerPeer(o) /\ Peers(o.sends) \subseteq Met(r) /\ Peers(o.recvs) \subseteq Met(r)
  BY <1>2 DEF Proper
<1>8. /\ RemoveAt(o.recvs, k) \in Seq(Payloads) /\ Single(RemoveAt(o.recvs, k))
      /\ Peers(RemoveAt(o.recvs, k)) = Peers(o.recvs) \ {p} /\ p \in Peers(o.recvs)
  BY <1>3, <1>5, <1>7, PeersLeft DEF OncePerPeer
<1>9. g \in Groups /\ g.recvs = RemoveAt(o.recvs, k) /\ g.sends = o.sends
  BY <1>3, <1>5, <1>8 DEF Groups
<1>10. Proper(g, Met(r))
  BY <1>7, <1>8, <1>9 DEF Proper, OncePerPeer
<1>11. p \in Met(r) /\ p \in Ranks /\ p # r /\ r \in Met(p)
  BY <1>1, <1>7, <1>8, MetBoth
<1>12. /\ \A q : (o \in RecvsFrom(q)) <=> (g \in RecvsFrom(q) \/ q = p)
       /\ g \notin RecvsFrom(p)
       /\ \A q : (o \in SendsTo(q)) <=> (g \in SendsTo(q))
  BY <1>2, <1>8, <1>9 DEF SendsTo, RecvsFrom
<1>13. \A q : /\ One(o \in RecvsFrom(q)) - One(g \in RecvsFrom(q)) = One(q = p)
              /\ One(o \in SendsTo(q)) - One(g \in SendsTo(q)) = 0
              /\ One(o \in SendsTo(q)) \in Int /\ One(g \in SendsTo(q)) \in Int
              /\ One(o \in RecvsFrom(q)) \in Int /\ One(g \in RecvsFrom(q)) \in Int
  BY <1>12 DEF One
<1>14. /\ \A n \in Ranks : \A q : OutOf(n, q) \in Int /\ Into(n, q) \in Int
       /\ \A n \in Ranks : n # r => \A q : OutOf(n, q)' = OutOf(n, q) /\ Into(n, q)' = Into(n, q)
       /\ \A q : OutOf(r, q)' = OutOf(r, q) + One(o \in SendsTo(q)) - One(g \in SendsTo(q))
       /\ \A q : Into(r, q)' = Into(r, q) + One(o \in RecvsFrom(q)) - One(g \in RecvsFrom(q))
  <2>1. layout' = layout /\ todo' = todo
    BY <1>1
  <2> QED
    BY <1>2, <1>6, <1>9, <1>10, <2>1, GroupCounts
<1>15. ASSUME NEW q PROVE OutOf(r, q)' = OutOf(r, q) /\ Into(r, q)' = Into(r, q) + One(q = p)
  BY <1>13, <1>14, Sums
<1>16. Into(r, p)' = Into(r, p) + 1 /\ \A q : q # p => Into(r, q)' = Into(r, q)
  <2>1. Into(r, p)' = Into(r, p) + 1
    <3>1. One(p = p) = 1
      BY DEF One
    <3>2. Into(r, p)' = Into(r, p) + One(p = p)
      BY <1>15
    <3> QED
      BY <3>1, <3>2
  <2>2. ASSUME NEW q, q # p PROVE Into(r, q)' = Into(r, q)
    <3>1. One(q = p) = 0 /\ Into(r, q) \in Int
      BY <1>14, <2>2 DEF One
    <3>2. Into(r, q)' = Into(r, q) + One(q = p)
      BY <1>15
    <3>3. Into(r, q)' = Into(r, q) + 0
      BY <3>1, <3>2
    <3> QED
      BY <3>1, <3>3
  <2> QED
    BY <2>1, <2>2
<1>17. /\ Len(wire[Untagged(p, r)]) = OutOf(p, r) - Into(r, p)
       /\ \E S : wire[Untagged(p, r)] \in Seq(S)
  BY <1>11 DEF NcclAhead, NcclWires, Untagged
<1>18. Len(v) = Len(wire[Untagged(p, r)]) - 1 /\ \E S : v \in Seq(S)
  BY <1>5, <1>6, <1>17, Shorter
<1>19. Len(v) = OutOf(p, r)' - Into(r, p)'
  <2>1. OutOf(p, r)' = OutOf(p, r) /\ OutOf(p, r) \in Int /\ Into(r, p) \in Int
    BY <1>11, <1>14
  <2>2. PICK a, b : a = OutOf(p, r) /\ b = Into(r, p)
    OBVIOUS
  <2>3. a \in Int /\ b \in Int /\ Len(v) = a - b - 1 /\ OutOf(p, r)' = a /\ Into(r, p)' = b + 1
    BY <1>16, <1>17, <1>18, <2>1, <2>2
  <2> QED
    BY <2>3
<1>20. \A n \in Ranks : \A q \in Met(n) : <<n, q>> # <<p, r>> =>
         OutOf(n, q)' = OutOf(n, q) /\ Into(q, n)' = Into(q, n)
  <2> SUFFICES ASSUME NEW n \in Ranks, NEW q \in Met(n), <<n, q>> # <<p, r>>
               PROVE  OutOf(n, q)' = OutOf(n, q) /\ Into(q, n)' = Into(q, n)
    OBVIOUS
  <2>1. q \in Ranks
    BY <1>1, MetBoth
  <2> QED
    BY <1>14, <1>15, <1>16, <2>1
<1>21. \A n \in Ranks : NcclRank(n)'
  BY <1>1, <1>2, <1>6, <1>9, <1>10, GroupLeft
<1> QED
  BY <1>1, <1>6, <1>11, <1>18, <1>19, <1>20, <1>21, OneWire

(* The count of NCCL's messages holds at the start, and every step keeps it.         *)
LEMMA NcclInitially ==
  ASSUME Init, ExchangeInv, layout.lib # "mpi"
  PROVE  NcclAhead
<1>1. /\ layout \in Layouts
      /\ \A r \in Ranks : called[r] = 0 /\ todo[r] = <<>> /\ queue[r] = <<>>
      /\ wire = [ch \in Ranks \X Ranks \X {"nccl"} |-> <<>>]
  BY DEF Init, Tags
<1>2. \A r \in Ranks : NcclRank(r)
  <2>1. Len(<<>>) = 0
    OBVIOUS
  <2> QED
    BY <1>1, <2>1 DEF NcclRank
<1>3. \A r \in Ranks : \A q : OutOf(r, q) = 0 /\ Into(r, q) = 0
  <2>1. \A X : Count(<<>>, X) = 0
    BY CountShort
  <2> QED
    BY <1>1, <2>1 DEF OutOf, Into, Owed, Awaited
<1>4. \A ch \in DOMAIN wire : wire[ch] = <<>> /\ Len(wire[ch]) = 0 /\ \E S : wire[ch] \in Seq(S)
  <2>1. <<>> \in Seq({}) /\ Len(<<>>) = 0
    BY NoOp
  <2>2. \A ch \in DOMAIN wire : wire[ch] = <<>>
    BY <1>1
  <2> QED
    BY <2>1, <2>2
<1>5. DOMAIN wire = Ranks \X Ranks \X {"nccl"}
  BY <1>1
<1>6. \A r, q \in Ranks : Untagged(r, q) \in DOMAIN wire
  BY <1>5 DEF Untagged
<1>7. NcclWires
  BY <1>3, <1>4, <1>5, <1>6 DEF NcclWires
<1> QED
  BY <1>2, <1>7 DEF NcclAhead

LEMMA NcclStep ==
  ASSUME ExchangeInv, NcclAhead, layout.lib # "mpi", [Next]_<<vars, called>>
  PROVE  NcclAhead'
<1>1. ASSUME NEW r \in Ranks, Run(r) PROVE NcclAhead'
  <2>1. called' = called
    BY <1>1 DEF Run
  <2>2. CASE Launch(r)
    BY <2>1, <2>2, NcclLaunch
  <2>3. CASE RunStencil(r) \/ RunFill(r) \/ RunPack(r) \/ RunUnpack(r) \/ RunCopy(r) \/ GroupEnd(r)
    BY <2>1, <2>3, NcclDevice
  <2>4. CASE GroupSend(r)
    BY <2>1, <2>4, NcclSend
  <2>5. CASE GroupReceive(r)
    BY <2>1, <2>5, NcclReceive
  <2>6. CASE Synchronize(r)
    BY <2>1, <2>6, NcclSync
  <2>7. ~Post(r) /\ ~Wait(r)
    <3>1. ~(Doing(r, "post") \/ Doing(r, "wait"))
      BY HostFacts DEF Doing
    <3> QED
      BY <3>1 DEF Post, Wait
  <2>8. ASSUME NEW side \in AllSides PROVE ~Inject(r, side) /\ ~Deliver(r, side)
    <3>1. sending[r] = {} /\ receiving[r] = {}
      BY DEF ExchangeInv, Local, Flying
    <3> QED
      BY <3>1 DEF Inject, Deliver
  <2> QED
    BY <1>1, <2>2, <2>3, <2>4, <2>5, <2>6, <2>7, <2>8 DEF Run, DeviceNext, MpiNext, NcclNext
<1>2. CASE Terminated \/ UNCHANGED <<vars, called>>
  <2>1. UNCHANGED <<layout, called, todo, queue, wire>>
    BY <1>2 DEF Terminated, vars
  <2>2. Ranks' = Ranks /\ \A q : Met(q)' = Met(q)
    BY <2>1 DEF Ranks, Met, PeersOn, HasNeighbour, Neighbour
  <2>3. \A q, p : OutOf(q, p)' = OutOf(q, p) /\ Into(q, p)' = Into(q, p)
    BY <2>1 DEF OutOf, Into, Owed, Awaited, SendsTo, RecvsFrom
  <2> QED
    BY <2>1, <2>2, <2>3 DEF NcclAhead, NcclWires, NcclRank
<1> QED
  BY <1>1, <1>2, NcclCall DEF Next

(* A channel holds at most two messages: a rank has sent at most one more than it has *)
(* received from the same peer, and that peer likewise.                            *)
LEMMA NcclBounded ==
  ASSUME ExchangeInv, NcclAhead
  PROVE  OneExchangeAhead
<1>1. layout \in Layouts
  BY DEF ExchangeInv, Typed
<1>2. ASSUME NEW r \in Ranks, NEW q \in Met(r)
      PROVE  /\ Len(wire[Untagged(r, q)]) <= 2
             /\ (\A n \in Ranks : Finished(n)) => wire[Untagged(r, q)] = <<>>
  <2>1. q \in Ranks /\ r \in Met(q)
    BY <1>1, MetBoth
  <2>2. /\ Len(wire[Untagged(r, q)]) = OutOf(r, q) - Into(q, r)
        /\ Len(wire[Untagged(q, r)]) = OutOf(q, r) - Into(r, q)
    BY <2>1 DEF NcclAhead, NcclWires
  <2>3. Untagged(r, q) \in DOMAIN wire /\ Untagged(q, r) \in DOMAIN wire
    BY <2>1 DEF NcclAhead, NcclWires, Untagged
  <2>4. Len(wire[Untagged(r, q)]) \in Nat /\ Len(wire[Untagged(q, r)]) \in Nat
    BY <2>3, LenProperties DEF NcclAhead, NcclWires
  <2>5. /\ OutOf(r, q) \in Int /\ Into(r, q) \in Int /\ OutOf(r, q) - Into(r, q) \in {-1, 0, 1}
        /\ OutOf(q, r) \in Int /\ Into(q, r) \in Int /\ OutOf(q, r) - Into(q, r) \in {-1, 0, 1}
    BY <2>1, OffByOne DEF NcclAhead
  <2>6. PICK a, b, c, d, n : /\ a = OutOf(r, q) /\ b = Into(r, q) /\ c = OutOf(q, r) /\ d = Into(q, r)
                             /\ n = Len(wire[Untagged(r, q)])
    OBVIOUS
  <2>7. n <= 2
    <3>1. /\ a \in Int /\ b \in Int /\ c \in Int /\ d \in Int /\ n = a - d /\ c - b >= 0
          /\ a - b \in {-1, 0, 1} /\ c - d \in {-1, 0, 1}
      BY <2>2, <2>4, <2>5, <2>6
    <3>2. a - b <= 1 /\ c - d <= 1
      BY <3>1
    <3>3. a - d = (a - b) + (c - d) - (c - b)
      BY <3>1
    <3> QED
      BY <3>1, <3>2, <3>3
  <2>8. ASSUME \A m \in Ranks : Finished(m) PROVE wire[Untagged(r, q)] = <<>>
    <3>1. /\ called[r] = Calls /\ queue[r] = <<>> /\ todo[r] = <<>>
          /\ called[q] = Calls /\ queue[q] = <<>> /\ todo[q] = <<>>
      BY <2>1, <2>8 DEF Finished
    <3>2. \A X : Count(<<>>, X) = 0
      BY CountShort
    <3>3. OutOf(r, q) = Calls - 0 /\ Into(q, r) = Calls - 0
      BY <3>1, <3>2 DEF OutOf, Into, Owed, Awaited
    <3>4. Len(wire[Untagged(r, q)]) = 0
      BY <2>2, <2>5, <3>3
    <3> QED
      BY <2>3, <3>4, EmptySeq DEF NcclAhead, NcclWires
  <2> QED
    BY <2>6, <2>7, <2>8
<1>3. ASSUME NEW c \in DOMAIN wire
      PROVE  Len(wire[c]) <= 2 /\ ((\A n \in Ranks : Finished(n)) => wire[c] = <<>>)
  <2>1. PICK r \in Ranks, q \in Ranks : c = Untagged(r, q)
    BY DEF NcclAhead, NcclWires, Untagged
  <2>2. CASE q \in Met(r)
    BY <1>2, <2>1, <2>2
  <2>3. CASE q \notin Met(r)
    <3>1. wire[c] = <<>> /\ Len(<<>>) = 0
      BY <2>1, <2>3 DEF NcclAhead, NcclWires
    <3> QED
      BY <3>1
  <2> QED
    BY <2>2, <2>3
<1> QED
  BY <1>3 DEF OneExchangeAhead

(* A run keeps its layout, and with it its library.                                *)
LEMMA LayoutKept == [Next]_<<vars, called>> => layout' = layout
<1> SUFFICES ASSUME [Next]_<<vars, called>> PROVE layout' = layout
  OBVIOUS
<1>1. ASSUME NEW r \in Ranks, Run(r) PROVE layout' = layout
  <2>1. DeviceNext(r) => layout' = layout
    BY Zenon DEF DeviceNext, Launch, LaunchOf, RunStencil, RunFill, RunPack, RunUnpack
  <2>2. MpiNext(r) => layout' = layout
    BY Zenon DEF MpiNext, Post, Wait, Inject, Deliver
  <2>3. NcclNext(r) => layout' = layout
    BY Zenon DEF NcclNext, Synchronize, RunCopy, GroupSend, GroupReceive, GroupEnd
  <2> QED
    BY <1>1, <2>1, <2>2, <2>3 DEF Run
<1>2. ASSUME NEW r \in Ranks, Call(r) PROVE layout' = layout
  BY <1>2 DEF Call, LaunchOf
<1>3. Terminated \/ UNCHANGED <<vars, called>> => layout' = layout
  BY DEF Terminated, vars
<1> QED
  BY <1>1, <1>2, <1>3 DEF Next

(* Neither library lets a rank get more than one exchange ahead of a neighbour: at    *)
(* most two messages wait in a channel, and none when all ranks are done.  Along a   *)
(* behaviour every message is counted, against the exchanges each rank has called,   *)
(* its side, and what it still has to post, send or receive of the exchange it is in. *)
THEOREM NoMoreThanOneExchangeAhead == Spec => []OneExchangeAhead
<1> DEFINE Ahead == IF layout.lib = "mpi" THEN MpiAhead ELSE NcclAhead
<1>1. Init => ExchangeInv /\ Ahead
  BY ExchangeInvInitially, MpiInitially, NcclInitially
<1>2. ExchangeInv /\ Ahead /\ [Next]_<<vars, called>> => ExchangeInv' /\ Ahead'
  <2> SUFFICES ASSUME ExchangeInv, Ahead, [Next]_<<vars, called>> PROVE ExchangeInv' /\ Ahead'
    OBVIOUS
  <2>1. ExchangeInv'
    BY ExchangeInvPreserved
  <2>2. layout' = layout
    BY LayoutKept
  <2>3. ASSUME layout.lib = "mpi" PROVE MpiAhead'
    BY <2>3, MpiStep
  <2>4. ASSUME layout.lib # "mpi" PROVE NcclAhead'
    BY <2>4, NcclStep
  <2> QED
    BY <2>1, <2>2, <2>3, <2>4
<1>3. ExchangeInv /\ Ahead => OneExchangeAhead
  BY MpiBounded, NcclBounded
<1> QED
  BY <1>1, <1>2, <1>3, PTL DEF Spec

---------------------------------------------------------------------------------
(* HaloFill, however it is implemented.                                        *)
VARIABLES near, computed, filled
AnyFill == INSTANCE HaloFill

LEMMA FillInit == AnyFill!Init => AnyFill!FillTypeOK /\ AnyFill!FilledBehind
  BY DEF AnyFill!Init, AnyFill!FillTypeOK, AnyFill!FilledBehind

(* Every step keeps the invariant.                                          *)
LEMMA FillStep ==
  AnyFill!FillTypeOK /\ AnyFill!FilledBehind /\ [AnyFill!Next]_(AnyFill!fillVars)
    => (AnyFill!FillTypeOK /\ AnyFill!FilledBehind)'
<1> SUFFICES ASSUME AnyFill!FillTypeOK, AnyFill!FilledBehind, [AnyFill!Next]_(AnyFill!fillVars)
             PROVE  (AnyFill!FillTypeOK /\ AnyFill!FilledBehind)'
  OBVIOUS
<1>1. ASSUME NEW r \in DOMAIN near, AnyFill!Compute(r)
      PROVE  (AnyFill!FillTypeOK /\ AnyFill!FilledBehind)'
  <2>1. near' = near /\ filled' = filled
    BY <1>1 DEF AnyFill!Compute
  <2>2. computed' = [computed EXCEPT ![r] = computed[r] + 1] /\ computed[r] = filled[r]
    BY <1>1 DEF AnyFill!Compute
  <2>3. AnyFill!FillTypeOK'
    BY <2>1, <2>2 DEF AnyFill!FillTypeOK
  <2>4. \A s \in DOMAIN near : computed'[s] \in {computed[s], computed[s] + 1}
    BY <2>2 DEF AnyFill!FillTypeOK
  <2>5. AnyFill!FilledBehind'
    BY <2>1, <2>2, <2>4 DEF AnyFill!FilledBehind, AnyFill!FillTypeOK
  <2> QED
    BY <2>3, <2>5
<1>2. ASSUME NEW r \in DOMAIN near, AnyFill!Fill(r)
      PROVE  (AnyFill!FillTypeOK /\ AnyFill!FilledBehind)'
  <2>1. near' = near /\ computed' = computed
    BY <1>2 DEF AnyFill!Fill
  <2>2. filled' = [filled EXCEPT ![r] = computed[r]]
    BY <1>2 DEF AnyFill!Fill
  <2>3. AnyFill!FillTypeOK'
    BY <2>1, <2>2 DEF AnyFill!FillTypeOK
  <2>4. \A s \in near[r] : computed[s] >= computed[r]
    BY <1>2 DEF AnyFill!Fill
  <2>5. AnyFill!FilledBehind'
    BY <2>1, <2>2, <2>4 DEF AnyFill!FilledBehind, AnyFill!FillTypeOK
  <2> QED
    BY <2>3, <2>5
<1>3. CASE UNCHANGED AnyFill!fillVars
  BY <1>3 DEF AnyFill!fillVars, AnyFill!FillTypeOK, AnyFill!FilledBehind
<1> QED
  BY <1>1, <1>2, <1>3 DEF AnyFill!Next

(* Every implementation of the fill, over any number of ranks, with any        *)
(* neighbours and any number of exchanges, keeps neighbours within one         *)
(* generation of each other.                                                *)
THEOREM NeighboursWithinOneGeneration == AnyFill!Spec => []AnyFill!OneGenerationAhead
<1>1. AnyFill!FillTypeOK /\ AnyFill!FilledBehind => AnyFill!OneGenerationAhead
  BY DEF AnyFill!FillTypeOK, AnyFill!FilledBehind, AnyFill!OneGenerationAhead
<1> QED
  BY FillInit, FillStep, <1>1, PTL DEF AnyFill!Spec
=================================================================================
