----------------------------- MODULE ModelStepProofs ----------------------------
(* Proofs about the halos, the two copies of vorticity and wind, the mean wind, the sum  *)
(* of the condensates and the captured graphs, for every configuration the step is       *)
(* given and every number of its steps.                                             *)
(*                                                                         *)
(* A program is annotated: each place in it has a mark, which says what is known     *)
(* there of the state, and every operation leads from its mark to the next (Leads).   *)
(* What a routine does to a mark follows from its parts, as programs that meet in a   *)
(* mark make one (LeadsOn).                                                        *)
EXTENDS ModelStep, SequenceTheorems, WellFoundedInduction, TLAPS

ProgramOps ==
  [op : {"read", "write", "exchange"}, fields : SUBSET Fields, depth : Nat]
    \cup [op : {"derive"}, from : SUBSET Fields, fields : SUBSET Fields, depth : Nat]
    \cup [op : {"mean"}, variant : Variants]
    \cup [op : {"advect"}, fields : SUBSET Fields, depth : Nat, variant : Variants]
    \cup [op : {"swap"}, fields : SUBSET Fields]
    \cup [op : {"invalidate", "graph", "done"}]
    \cup [op : {"perhaps"}, skip : Nat]

(* An analysis has its marks; which of them is below another, which says no more; and    *)
(* where an operation leads from a mark.                                           *)
Below(A, M, N) == <<M, N>> \in A.below
Takes(A, k, M, N) == <<k, M, N>> \in A.takes

IsAnalysis(A) ==
  /\ \A M \in A.marks : Below(A, M, M)
  /\ \A M, N, O \in A.marks : Below(A, M, N) /\ Below(A, N, O) => Below(A, M, O)
  /\ \A k \in ProgramOps, M, N, O \in A.marks : Takes(A, k, M, N) /\ Below(A, N, O) => Takes(A, k, M, O)
  /\ \A k \in ProgramOps, M, N \in A.marks : k.op = "perhaps" /\ Below(A, M, N) => Takes(A, k, M, N)

Annotates(A, P, m) ==
  /\ m \in [1..Len(P) + 1 -> A.marks]
  /\ \A i \in 1..Len(P) :
       /\ Takes(A, P[i], m[i], m[i + 1])
       /\ P[i].op = "perhaps" =>
            i + 1 + P[i].skip \in 1..Len(P) + 1 /\ Below(A, m[i], m[i + 1 + P[i].skip])

Leads(A, P, M, N) ==
  /\ P \in Seq(ProgramOps) /\ M \in A.marks /\ N \in A.marks
  /\ \E m : Annotates(A, P, m) /\ Below(A, M, m[1]) /\ Below(A, m[Len(P) + 1], N)

---------------------------------------------------------------------------------
LEMMA BelowTwice ==
  ASSUME NEW A, IsAnalysis(A), NEW M \in A.marks, NEW N \in A.marks, NEW O \in A.marks,
         Below(A, M, N), Below(A, N, O)
  PROVE  Below(A, M, O)
BY DEF IsAnalysis

LEMMA BelowItself == \A A : IsAnalysis(A) => \A M \in A.marks : Below(A, M, M)
BY DEF IsAnalysis

LEMMA TakesBelow ==
  ASSUME NEW A, IsAnalysis(A), NEW k \in ProgramOps, NEW M \in A.marks, NEW N \in A.marks,
         NEW O \in A.marks, Takes(A, k, M, N), Below(A, N, O)
  PROVE  Takes(A, k, M, O)
BY DEF IsAnalysis

(* Two programs that meet in a mark: the mark at the place where they meet.          *)
LEMMA LeadsThrough ==
  ASSUME NEW A, IsAnalysis(A), NEW P, NEW Q, NEW M, NEW N, NEW O, Leads(A, P, M, N), Leads(A, Q, N, O)
  PROVE  \E m : /\ Annotates(A, P \o Q, m) /\ Below(A, M, m[1]) /\ Below(A, N, m[Len(P) + 1])
                /\ Below(A, m[Len(P \o Q) + 1], O)
<1>1. PICK mp : Annotates(A, P, mp) /\ Below(A, M, mp[1]) /\ Below(A, mp[Len(P) + 1], N)
  BY DEF Leads
<1>2. PICK mq : Annotates(A, Q, mq) /\ Below(A, N, mq[1]) /\ Below(A, mq[Len(Q) + 1], O)
  BY DEF Leads
<1>3. P \in Seq(ProgramOps) /\ Q \in Seq(ProgramOps) /\ M \in A.marks /\ N \in A.marks /\ O \in A.marks
  BY DEF Leads
<1> DEFINE p == Len(P)
           q == Len(Q)
           m == [i \in 1..p + q + 1 |-> IF i <= p THEN mp[i] ELSE mq[i - p]]
<1>4. /\ p \in Nat /\ q \in Nat /\ Len(P \o Q) = p + q /\ P \o Q \in Seq(ProgramOps)
      /\ \A i \in 1..p + q : (P \o Q)[i] = IF i <= p THEN P[i] ELSE Q[i - p]
      /\ \A i \in 1..p : P[i] \in ProgramOps
      /\ \A i \in 1..q : Q[i] \in ProgramOps
  BY <1>3, ConcatProperties, ElementOfSeq, LenProperties
<1>5. /\ \A i \in 1..p + 1 : mp[i] \in A.marks
      /\ \A i \in 1..q + 1 : mq[i] \in A.marks
      /\ \A i \in 1..p : /\ Takes(A, P[i], mp[i], mp[i + 1])
                         /\ P[i].op = "perhaps" => i + 1 + P[i].skip \in 1..p + 1 /\ Below(A, mp[i], mp[i + 1 + P[i].skip])
      /\ \A i \in 1..q : /\ Takes(A, Q[i], mq[i], mq[i + 1])
                         /\ Q[i].op = "perhaps" => i + 1 + Q[i].skip \in 1..q + 1 /\ Below(A, mq[i], mq[i + 1 + Q[i].skip])
  BY <1>1, <1>2 DEF Annotates
<1> HIDE DEF p, q
<1>6. Below(A, mp[p + 1], mq[1])
  BY <1>1, <1>2, <1>3, <1>4, <1>5, BelowTwice DEF p
<1>7. \A i \in 1..p + 1 : i \in 1..p + q + 1 /\ Below(A, mp[i], m[i]) /\ m[i] \in A.marks
  <2> TAKE i \in 1..p + 1
  <2>1. CASE i <= p
    BY <1>4, <1>5, <2>1, BelowItself
  <2>2. CASE i = p + 1
    <3>1. i \in 1..p + q + 1 /\ m[i] = mq[1]
      BY <1>4, <2>2
    <3> QED
      BY <1>4, <1>5, <1>6, <2>2, <3>1
  <2> QED
    BY <1>4, <2>1, <2>2
<1>8. \A j \in 1..q + 1 : p + j \in 1..p + q + 1 /\ m[p + j] = mq[j] /\ m[p + j] \in A.marks
  BY <1>4, <1>5
<1>9. m \in [1..p + q + 1 -> A.marks]
  <2>1. \A i \in 1..p + q + 1 : m[i] \in A.marks
    BY <1>4, <1>5
  <2> QED
    BY <2>1
<1> HIDE DEF m
<1>10. ASSUME NEW i \in 1..p + q
       PROVE  LET k == (P \o Q)[i]
              IN  /\ Takes(A, k, m[i], m[i + 1])
                  /\ k.op = "perhaps" => i + 1 + k.skip \in 1..p + q + 1 /\ Below(A, m[i], m[i + 1 + k.skip])
  <2>1. CASE i <= p
    <3>1. i \in 1..p /\ i + 1 \in 1..p + 1 /\ (P \o Q)[i] = P[i]
      BY <1>4, <2>1
    <3>2. m[i] = mp[i]
      BY <1>4, <2>1 DEF m
    <3>3. Takes(A, P[i], mp[i], m[i + 1])
      BY <1>4, <1>5, <1>7, <3>1, TakesBelow
    <3>4. ASSUME P[i].op = "perhaps"
          PROVE  i + 1 + P[i].skip \in 1..p + q + 1 /\ Below(A, m[i], m[i + 1 + P[i].skip])
      <4> DEFINE t == i + 1 + P[i].skip
      <4>1. t \in 1..p + 1 /\ Below(A, mp[i], mp[t])
        BY <1>5, <3>1, <3>4
      <4> HIDE DEF t
      <4>2. Below(A, mp[t], m[t]) /\ m[t] \in A.marks /\ mp[t] \in A.marks /\ mp[i] \in A.marks
        BY <1>4, <1>5, <1>7, <3>1, <4>1
      <4>3. Below(A, m[i], m[t])
        BY <3>2, <4>1, <4>2, BelowTwice
      <4>4. t \in 1..p + q + 1
        BY <1>4, <4>1
      <4> QED
        BY <4>3, <4>4 DEF t
    <3> QED
      BY <3>1, <3>2, <3>3, <3>4
  <2>2. CASE ~(i <= p)
    <3> DEFINE j == i - p
    <3>1. j \in 1..q /\ j + 1 \in 1..q + 1 /\ p + j = i /\ p + (j + 1) = i + 1 /\ (P \o Q)[i] = Q[j]
      BY <1>4, <2>2
    <3> HIDE DEF j
    <3>2. m[i] = mq[j] /\ m[i + 1] = mq[j + 1]
      <4>1. j \in 1..q + 1
        BY <1>4, <3>1
      <4> QED
        BY <1>8, <3>1, <4>1
    <3>3. ASSUME Q[j].op = "perhaps"
          PROVE  i + 1 + Q[j].skip \in 1..p + q + 1 /\ Below(A, m[i], m[i + 1 + Q[j].skip])
      <4> DEFINE t == j + 1 + Q[j].skip
      <4>1. t \in 1..q + 1 /\ Below(A, mq[j], mq[t])
        BY <1>5, <3>1, <3>3
      <4>2. Q[j].skip \in Nat
        <5>1. Q[j] \in ProgramOps
          BY <1>4, <3>1
        <5> QED
          BY <3>3, <5>1 DEF ProgramOps
      <4>3. p + t = i + 1 + Q[j].skip
        <5> DEFINE s == Q[j].skip
        <5>1. s \in Nat
          BY <4>2
        <5> HIDE DEF s
        <5>2. p + (j + 1 + s) = i + 1 + s
          BY <1>4, <3>1, <5>1
        <5> QED
          BY <5>2 DEF s
      <4> HIDE DEF t
      <4>4. p + t \in 1..p + q + 1 /\ m[p + t] = mq[t]
        BY <1>8, <4>1
      <4> QED
        BY <3>2, <4>1, <4>3, <4>4
    <3> QED
      BY <1>5, <3>1, <3>2, <3>3
  <2> QED
    BY <2>1, <2>2
<1>11. Annotates(A, P \o Q, m)
  BY <1>4, <1>9, <1>10 DEF Annotates
<1>12. Below(A, M, m[1])
  <2>1. 1 \in 1..p + 1
    BY <1>4
  <2> QED
    BY <1>1, <1>3, <1>5, <1>7, <2>1, BelowTwice
<1>13. Below(A, N, m[p + 1])
  <2>1. 1 \in 1..q + 1
    BY <1>4
  <2> QED
    BY <1>2, <1>8, <2>1
<1>14. Below(A, m[Len(P \o Q) + 1], O)
  <2>1. q + 1 \in 1..q + 1 /\ p + (q + 1) = Len(P \o Q) + 1
    BY <1>4
  <2>2. m[Len(P \o Q) + 1] = mq[q + 1]
    BY <1>8, <2>1
  <2> QED
    BY <1>2, <2>2 DEF q
<1> QED
  BY <1>11, <1>12, <1>13, <1>14 DEF p

LEMMA LeadsOn ==
  ASSUME NEW A, IsAnalysis(A), NEW P, NEW Q, NEW M, NEW N, NEW O, Leads(A, P, M, N), Leads(A, Q, N, O)
  PROVE  Leads(A, P \o Q, M, O)
<1>1. P \in Seq(ProgramOps) /\ Q \in Seq(ProgramOps) /\ M \in A.marks /\ O \in A.marks
  BY DEF Leads
<1>2. P \o Q \in Seq(ProgramOps)
  BY <1>1, ConcatProperties
<1> QED
  BY <1>1, <1>2, LeadsThrough DEF Leads

LEMMA LeadsNowhere ==
  \A A : IsAnalysis(A) => \A M, N \in A.marks : Below(A, M, N) => Leads(A, <<>>, M, N)
<1> SUFFICES ASSUME NEW A, IsAnalysis(A), NEW M \in A.marks, NEW N \in A.marks, Below(A, M, N)
             PROVE  Leads(A, <<>>, M, N)
  OBVIOUS
<1> DEFINE m == [i \in 1..1 |-> M]
<1>1. Len(<<>>) = 0 /\ <<>> \in Seq(ProgramOps)
  BY EmptySeq
<1>2. m \in [1..1 -> A.marks] /\ m[1] = M
  OBVIOUS
<1> HIDE DEF m
<1>3. Annotates(A, <<>>, m)
  BY <1>1, <1>2 DEF Annotates
<1> QED
  BY <1>1, <1>2, <1>3, BelowItself DEF Leads

LEMMA LeadsOnce ==
  ASSUME NEW A, IsAnalysis(A), NEW k \in ProgramOps, NEW M \in A.marks, NEW N \in A.marks,
         k.op # "perhaps", Takes(A, k, M, N)
  PROVE  Leads(A, <<k>>, M, N)
<1> DEFINE P == <<k>>
           m == [i \in 1..2 |-> IF i = 1 THEN M ELSE N]
<1>1. P \in Seq(ProgramOps) /\ Len(P) = 1 /\ P[1] = k
  OBVIOUS
<1>2. m \in [1..2 -> A.marks] /\ m[1] = M /\ m[2] = N
  OBVIOUS
<1> HIDE DEF P, m
<1>3. Annotates(A, P, m)
  BY <1>1, <1>2 DEF Annotates
<1>4. Leads(A, P, M, N)
  BY <1>1, <1>2, <1>3, BelowItself DEF Leads
<1> QED
  BY <1>4 DEF P

LEMMA LeadsPerhaps ==
  ASSUME NEW A, IsAnalysis(A), NEW P, NEW M, NEW N, Leads(A, P, M, N), Below(A, M, N)
  PROVE  Leads(A, Perhaps(P), M, N)
<1>1. PICK mp : Annotates(A, P, mp) /\ Below(A, M, mp[1]) /\ Below(A, mp[Len(P) + 1], N)
  BY DEF Leads
<1>2. P \in Seq(ProgramOps) /\ M \in A.marks /\ N \in A.marks
  BY DEF Leads
<1> DEFINE p == Len(P)
           k == [op |-> "perhaps", skip |-> p]
           Q == <<k>> \o P
           m == [i \in 1..p + 2 |-> IF i = 1 THEN M ELSE IF i = p + 2 THEN N ELSE mp[i - 1]]
<1>3. p \in Nat /\ \A i \in 1..p : P[i] \in ProgramOps
  BY <1>2, LenProperties, ElementOfSeq
<1>4. k \in ProgramOps
  BY <1>3 DEF ProgramOps
<1>5. <<k>> \in Seq(ProgramOps) /\ Len(<<k>>) = 1 /\ <<k>>[1] = k
  BY <1>4
<1>6. /\ Q \in Seq(ProgramOps) /\ Len(Q) = p + 1
      /\ \A i \in 1..p + 1 : Q[i] = IF i = 1 THEN k ELSE P[i - 1]
  <2> HIDE DEF k
  <2>1. /\ Q \in Seq(ProgramOps) /\ Len(Q) = 1 + p
        /\ \A i \in 1..1 + p : Q[i] = IF i <= 1 THEN <<k>>[i] ELSE P[i - 1]
    BY <1>2, <1>5, ConcatProperties
  <2> QED
    BY <1>3, <1>5, <2>1
<1>7. /\ \A i \in 1..p + 1 : mp[i] \in A.marks
      /\ \A i \in 1..p : /\ Takes(A, P[i], mp[i], mp[i + 1])
                         /\ P[i].op = "perhaps" => i + 1 + P[i].skip \in 1..p + 1 /\ Below(A, mp[i], mp[i + 1 + P[i].skip])
  BY <1>1 DEF Annotates
<1>8. k.op = "perhaps" /\ k.skip = p
  OBVIOUS
<1> HIDE DEF p, Q, k
<1>9. m[1] = M /\ m[p + 2] = N /\ \A i \in 2..p + 1 : m[i] = mp[i - 1]
  BY <1>3
<1>10. m \in [1..p + 2 -> A.marks]
  <2>1. \A i \in 1..p + 2 : m[i] \in A.marks
    BY <1>2, <1>3, <1>7
  <2> QED
    BY <2>1
<1> HIDE DEF m
<1>11. \A j \in 1..p + 1 : Below(A, mp[j], m[j + 1]) /\ j + 1 \in 1..p + 2
  <2> TAKE j \in 1..p + 1
  <2>1. CASE j = p + 1
    <3>1. m[j + 1] = N
      BY <1>3, <1>9, <2>1
    <3> QED
      BY <1>1, <1>3, <2>1, <3>1 DEF p
  <2>2. CASE j # p + 1
    <3>1. m[j + 1] = mp[j]
      BY <1>3, <1>9, <2>2
    <3> QED
      BY <1>3, <1>7, <3>1, BelowItself
  <2> QED
    BY <2>1, <2>2
<1>12. ASSUME NEW i \in 1..p + 1
       PROVE  /\ Takes(A, Q[i], m[i], m[i + 1])
              /\ Q[i].op = "perhaps" => i + 1 + Q[i].skip \in 1..p + 2 /\ Below(A, m[i], m[i + 1 + Q[i].skip])
  <2>1. CASE i = 1
    <3>1. Q[i] = k /\ m[i] = M
      BY <1>6, <1>9, <2>1
    <3>2. Below(A, M, m[2])
      <4>1. 1 \in 1..p + 1 /\ 1 + 1 = 2 /\ 2 \in 1..p + 2
        BY <1>3
      <4> QED
        BY <1>1, <1>2, <1>7, <1>10, <1>11, <4>1, BelowTwice
    <3>2a. m[2] \in A.marks /\ M \in A.marks
      BY <1>2, <1>3, <1>10
    <3>3. Takes(A, k, M, m[2])
      BY <1>4, <1>8, <3>2, <3>2a DEF IsAnalysis
    <3>4. i + 1 + k.skip = p + 2 /\ p + 2 \in 1..p + 2
      BY <1>3, <1>8, <2>1
    <3> QED
      BY <1>9, <2>1, <3>1, <3>3, <3>4
  <2>2. CASE i # 1
    <3> DEFINE j == i - 1
    <3>1. j \in 1..p /\ j \in 1..p + 1 /\ j + 1 \in 1..p + 1 /\ i = j + 1 /\ Q[i] = P[j] /\ m[i] = mp[j] /\ i \in 1..p + 2
      BY <1>3, <1>6, <1>9, <2>2
    <3> HIDE DEF j
    <3>2. P[j] \in ProgramOps /\ mp[j] \in A.marks /\ mp[j + 1] \in A.marks /\ Takes(A, P[j], mp[j], mp[j + 1])
      BY <1>3, <1>7, <3>1
    <3>3. Below(A, mp[j + 1], m[i + 1]) /\ m[i + 1] \in A.marks
      BY <1>10, <1>11, <3>1
    <3>4. Takes(A, P[j], mp[j], m[i + 1])
      BY <3>2, <3>3, TakesBelow
    <3>5. ASSUME P[j].op = "perhaps"
          PROVE  i + 1 + P[j].skip \in 1..p + 2 /\ Below(A, m[i], m[i + 1 + P[j].skip])
      <4> DEFINE s == P[j].skip
      <4>1. s \in Nat
        BY <3>2, <3>5 DEF ProgramOps
      <4>2. j + 1 + s \in 1..p + 1 /\ Below(A, mp[j], mp[j + 1 + s]) /\ mp[j + 1 + s] \in A.marks
        BY <1>7, <3>1, <3>5
      <4> HIDE DEF s
      <4>3. (j + 1 + s) + 1 = i + 1 + s
        BY <3>1, <4>1
      <4>4. Below(A, mp[j + 1 + s], m[i + 1 + s]) /\ i + 1 + s \in 1..p + 2
        BY <1>11, <4>2, <4>3
      <4>5. Below(A, mp[j], m[i + 1 + s])
        BY <1>10, <3>2, <4>2, <4>4, BelowTwice
      <4> QED
        BY <3>1, <4>4, <4>5 DEF s
    <3> QED
      BY <3>1, <3>4, <3>5
  <2> QED
    BY <2>1, <2>2
<1>13. Annotates(A, Q, m)
  <2>1. Len(Q) + 1 = p + 2
    BY <1>3, <1>6
  <2> QED
    BY <1>6, <1>10, <1>12, <2>1 DEF Annotates
<1>14. Len(Q) + 1 = p + 2
  BY <1>3, <1>6
<1>15. Leads(A, Q, M, N)
  BY <1>2, <1>6, <1>9, <1>13, <1>14, BelowItself DEF Leads
<1> QED
  BY <1>15 DEF Perhaps, Q, k, p

LEMMA LeadsWeakened ==
  ASSUME NEW A, IsAnalysis(A), NEW P, NEW L \in A.marks, NEW M, NEW N, NEW O \in A.marks,
         Below(A, L, M), Leads(A, P, M, N), Below(A, N, O)
  PROVE  Leads(A, P, L, O)
<1>1. PICK m : Annotates(A, P, m) /\ Below(A, M, m[1]) /\ Below(A, m[Len(P) + 1], N)
  BY DEF Leads
<1>2. P \in Seq(ProgramOps) /\ M \in A.marks /\ N \in A.marks /\ Len(P) \in Nat
  BY LenProperties DEF Leads
<1>3. 1 \in 1..Len(P) + 1 /\ Len(P) + 1 \in 1..Len(P) + 1
  BY <1>2
<1>4. m[1] \in A.marks /\ m[Len(P) + 1] \in A.marks
  BY <1>1, <1>3 DEF Annotates
<1>5. Below(A, L, m[1]) /\ Below(A, m[Len(P) + 1], O)
  BY <1>1, <1>2, <1>4, BelowTwice
<1> QED
  BY <1>1, <1>2, <1>5 DEF Leads

---------------------------------------------------------------------------------
(* Of the mean wind a mark knows nothing; or that there is none; or that one made in  *)
(* this step is that of the present wind; or that, and the location it was made for.  *)
(* Of the condensate it may know that its sum qp follows it.                       *)
Winds == {"unknown", "none", "sound"} \cup Variants
Marks == [wind : Winds, summed : BOOLEAN]

Weakens(M, N) ==
  /\ \/ M.wind = N.wind
     \/ N.wind = "unknown"
     \/ N.wind = "sound" /\ M.wind \in {"none"} \cup Variants
  /\ N.summed => M.summed

(* Where the sum must follow the condensate before it is read.                     *)
Refreshed(c) == ~Cartesian(c) /\ c.micro = "p3"

Blown(M, fs) == IF M.wind = "none" \/ \A f \in MeanOf : f \notin fs THEN M.wind ELSE "unknown"

(* Operation k of a run of c leads from M to N.                                    *)
Effect(c, k, M, N) ==
  /\ k.op \in {"read", "write", "exchange", "derive", "mean", "advect", "swap", "invalidate",
               "graph", "perhaps"}
  /\ k.op = "read" => (Refreshed(c) /\ "qp" \in k.fields => M.summed)
  /\ k.op = "mean" => M.wind # "unknown"
  /\ k.op = "advect" => M.wind = k.variant
  /\ k.op = "swap" => k.fields = c.swapped
  /\ k.op = "graph" => ~Cartesian(c)
  /\ k.op = "derive" => "condensate" \notin k.fields
  /\ Weakens([wind |-> CASE k.op \in {"write", "derive"} -> Blown(M, k.fields)
                         [] k.op = "mean" -> k.variant
                         [] k.op = "invalidate" -> "none"
                         [] OTHER -> M.wind,
              summed |-> CASE k.op = "write" -> M.summed /\ "condensate" \notin k.fields
                           [] k.op = "derive" -> M.summed \/ "qp" \in k.fields
                           [] OTHER -> M.summed], N)

MeanAnalysis(c) ==
  [marks |-> Marks,
   below |-> {p \in Marks \X Marks : Weakens(p[1], p[2])},
   takes |-> {t \in ProgramOps \X Marks \X Marks : Effect(c, t[1], t[2], t[3])}]

Flows(c, P, M, N) == Leads(MeanAnalysis(c), P, M, N)

LEMMA WeakensTwice ==
  ASSUME NEW M \in Marks, NEW N \in Marks, NEW O \in Marks, Weakens(M, N), Weakens(N, O)
  PROVE  Weakens(M, O)
BY DEF Weakens, Marks, Winds, Variants

LEMMA WeakensItself == \A M \in Marks : Weakens(M, M)
BY DEF Weakens

LEMMA EffectWeakened ==
  ASSUME NEW c, NEW k \in ProgramOps, NEW M \in Marks, NEW N \in Marks, NEW O \in Marks,
         Effect(c, k, M, N), Weakens(N, O)
  PROVE  Effect(c, k, M, O)
<1> DEFINE w == CASE k.op \in {"write", "derive"} -> Blown(M, k.fields)
                  [] k.op = "mean" -> k.variant
                  [] k.op = "invalidate" -> "none"
                  [] OTHER -> M.wind
           s == CASE k.op = "write" -> M.summed /\ "condensate" \notin k.fields
                  [] k.op = "derive" -> M.summed \/ "qp" \in k.fields
                  [] OTHER -> M.summed
<1>1. Weakens([wind |-> w, summed |-> s], N)
  BY DEF Effect
<1> HIDE DEF w, s
<1>2. Weakens([wind |-> w, summed |-> s], O)
  BY <1>1 DEF Weakens, Marks, Winds, Variants
<1> QED
  BY <1>2 DEF Effect, w, s

LEMMA MeansAnalysed ==
  \A c : /\ MeanAnalysis(c).marks = Marks /\ IsAnalysis(MeanAnalysis(c))
         /\ \A M, N \in Marks : Below(MeanAnalysis(c), M, N) <=> Weakens(M, N)
         /\ \A k \in ProgramOps, M, N \in Marks : Takes(MeanAnalysis(c), k, M, N) <=> Effect(c, k, M, N)
<1> TAKE c
<1> DEFINE A == MeanAnalysis(c)
<1>1. A.marks = Marks
  BY DEF MeanAnalysis
<1>2. \A M, N \in Marks : Below(A, M, N) <=> Weakens(M, N)
  BY DEF MeanAnalysis, Below
<1>3. \A k \in ProgramOps, M, N \in Marks : Takes(A, k, M, N) <=> Effect(c, k, M, N)
  BY DEF MeanAnalysis, Takes
<1>4. ASSUME NEW k \in ProgramOps, NEW M \in Marks, NEW N \in Marks, k.op = "perhaps", Weakens(M, N)
      PROVE  Effect(c, k, M, N)
  BY <1>4 DEF Effect, Weakens, Marks, Winds, Variants
<1> HIDE DEF A
<1>5. IsAnalysis(A)
  BY <1>1, <1>2, <1>3, <1>4, WeakensTwice, WeakensItself, EffectWeakened DEF IsAnalysis
<1> QED
  BY <1>1, <1>2, <1>3, <1>5 DEF A

LEMMA FlowsOn ==
  ASSUME NEW c, NEW P, NEW Q, NEW M, NEW N, NEW O, Flows(c, P, M, N), Flows(c, Q, N, O)
  PROVE  Flows(c, P \o Q, M, O)
BY MeansAnalysed, LeadsOn DEF Flows

LEMMA FlowsNowhere == \A c : \A M, N \in Marks : Weakens(M, N) => Flows(c, <<>>, M, N)
BY MeansAnalysed, LeadsNowhere DEF Flows

LEMMA FlowsOnce ==
  ASSUME NEW c, NEW k \in ProgramOps, NEW M \in Marks, NEW N \in Marks,
         k.op # "perhaps", Effect(c, k, M, N)
  PROVE  Flows(c, <<k>>, M, N)
BY MeansAnalysed, LeadsOnce DEF Flows

LEMMA FlowsPerhaps ==
  ASSUME NEW c, NEW P, NEW M \in Marks, NEW N \in Marks, Flows(c, P, M, N), Weakens(M, N)
  PROVE  Flows(c, Perhaps(P), M, N)
BY MeansAnalysed, LeadsPerhaps DEF Flows

LEMMA FlowsWeakened ==
  ASSUME NEW c, NEW P, NEW L \in Marks, NEW M \in Marks, NEW N \in Marks, NEW O \in Marks,
         Weakens(L, M), Flows(c, P, M, N), Weakens(N, O)
  PROVE  Flows(c, P, L, O)
BY MeansAnalysed, LeadsWeakened DEF Flows

LEMMA FlowsTypes ==
  \A c, P, M, N : Flows(c, P, M, N) => P \in Seq(ProgramOps) /\ M \in Marks /\ N \in Marks
BY MeansAnalysed DEF Flows, Leads

---------------------------------------------------------------------------------
(* What a program may do: nothing to any mark; lose track of the condensate; change   *)
(* the wind, which makes a mean wind outdated.                                     *)
Calm(c, P) == \A M \in Marks : Flows(c, P, M, M)

Behind(M) == [wind |-> M.wind, summed |-> FALSE]
Moist(c, P) == \A M \in Marks : Flows(c, P, M, Behind(M))

Swept(M) == [wind |-> IF M.wind = "none" THEN "none" ELSE "unknown", summed |-> M.summed]
Windy(c, P) == \A M \in Marks : Flows(c, P, M, Swept(M))

AnyFields == SUBSET Fields
StillFields == {fs \in AnyFields : \A f \in MeanOf : f \notin fs}
CalmFields == {fs \in StillFields : "condensate" \notin fs}

LEMMA MarksAreMarks ==
  \A M \in Marks : /\ Behind(M) \in Marks /\ Swept(M) \in Marks
                   /\ Weakens(M, Behind(M)) /\ Weakens(M, Swept(M)) /\ Weakens(M, M)
                   /\ Behind(Behind(M)) = Behind(M) /\ Swept(Swept(M)) = Swept(M)
BY DEF Marks, Winds, Variants, Behind, Swept, Weakens

LEMMA CalmIsEither == \A c, P : Calm(c, P) => Moist(c, P) /\ Windy(c, P)
<1> SUFFICES ASSUME NEW c, NEW P, Calm(c, P), NEW M \in Marks
             PROVE  Flows(c, P, M, Behind(M)) /\ Flows(c, P, M, Swept(M))
  BY DEF Moist, Windy
<1>1. Flows(c, P, M, M)
  BY DEF Calm
<1> QED
  BY <1>1, FlowsWeakened, MarksAreMarks

(* The classes are closed under sequence, conditions and what may be skipped.         *)
LEMMA Sequences ==
  \A c, P, Q : /\ Calm(c, P) /\ Calm(c, Q) => Calm(c, P \o Q)
               /\ Moist(c, P) /\ Moist(c, Q) => Moist(c, P \o Q)
               /\ Windy(c, P) /\ Windy(c, Q) => Windy(c, P \o Q)
<1> TAKE c, P, Q
<1>1. ASSUME Calm(c, P), Calm(c, Q), NEW M \in Marks PROVE Flows(c, P \o Q, M, M)
  <2>1. Flows(c, P, M, M) /\ Flows(c, Q, M, M)
    BY <1>1 DEF Calm
  <2> QED
    BY <2>1, FlowsOn
<1>2. ASSUME Moist(c, P), Moist(c, Q), NEW M \in Marks PROVE Flows(c, P \o Q, M, Behind(M))
  <2>1. Flows(c, P, M, Behind(M)) /\ Flows(c, Q, Behind(M), Behind(M))
    BY <1>2, MarksAreMarks DEF Moist
  <2> QED
    BY <2>1, FlowsOn
<1>3. ASSUME Windy(c, P), Windy(c, Q), NEW M \in Marks PROVE Flows(c, P \o Q, M, Swept(M))
  <2>1. Flows(c, P, M, Swept(M)) /\ Flows(c, Q, Swept(M), Swept(M))
    BY <1>3, MarksAreMarks DEF Windy
  <2> QED
    BY <2>1, FlowsOn
<1> QED
  BY <1>1, <1>2, <1>3 DEF Calm, Moist, Windy

LEMMA Nothing == \A c : Calm(c, <<>>)
BY FlowsNowhere, WeakensItself DEF Calm

LEMMA Conditions ==
  \A c, b, P : /\ (b => Calm(c, P)) => Calm(c, When(b, P))
               /\ (b => Moist(c, P)) => Moist(c, When(b, P))
               /\ (b => Windy(c, P)) => Windy(c, When(b, P))
BY Nothing, CalmIsEither DEF When

LEMMA Skips ==
  \A c, P : /\ Calm(c, P) => Calm(c, Perhaps(P))
            /\ Moist(c, P) => Moist(c, Perhaps(P))
BY FlowsPerhaps, MarksAreMarks DEF Calm, Moist

LEMMA CalmOnce ==
  ASSUME NEW c, NEW k \in ProgramOps, k.op # "perhaps", \A M \in Marks : Effect(c, k, M, M)
  PROVE  Calm(c, <<k>>)
BY FlowsOnce DEF Calm

(* Single operations.                                                        *)
LEMMA Reads == \A c : \A fs \in AnyFields, d \in Nat : "qp" \notin fs => Calm(c, Read(fs, d))
<1> SUFFICES ASSUME NEW c, NEW fs \in AnyFields, NEW d \in Nat, "qp" \notin fs
             PROVE  Calm(c, Read(fs, d))
  OBVIOUS
<1> DEFINE k == [op |-> "read", fields |-> fs, depth |-> d]
<1>1. k \in ProgramOps /\ k.op = "read" /\ k.fields = fs
  BY DEF ProgramOps, AnyFields
<1> HIDE DEF k
<1>2. \A M \in Marks : Effect(c, k, M, M)
  BY <1>1 DEF Effect, Weakens
<1>3. Calm(c, <<k>>)
  BY <1>1, <1>2, CalmOnce
<1> QED
  BY <1>3 DEF Read, k

LEMMA Writes ==
  \A c : \A fs \in AnyFields, d \in Nat :
    /\ fs \in CalmFields => Calm(c, Write(fs, d))
    /\ fs \in StillFields => Moist(c, Write(fs, d))
    /\ "condensate" \notin fs => Windy(c, Write(fs, d))
<1> SUFFICES ASSUME NEW c, NEW fs \in AnyFields, NEW d \in Nat
             PROVE  /\ fs \in CalmFields => Calm(c, Write(fs, d))
                    /\ fs \in StillFields => Moist(c, Write(fs, d))
                    /\ "condensate" \notin fs => Windy(c, Write(fs, d))
  OBVIOUS
<1> DEFINE k == [op |-> "write", fields |-> fs, depth |-> d]
<1>1. k \in ProgramOps /\ k.op = "write" /\ k.fields = fs
  BY DEF ProgramOps, AnyFields
<1>2. Write(fs, d) = <<k>>
  BY DEF Write
<1> HIDE DEF k
<1>3. ASSUME fs \in CalmFields PROVE \A M \in Marks : Effect(c, k, M, M)
  BY <1>1, <1>3 DEF Effect, Weakens, Blown, CalmFields, StillFields, Marks
<1>4. ASSUME fs \in StillFields PROVE \A M \in Marks : Effect(c, k, M, Behind(M))
  BY <1>1, <1>4 DEF Effect, Weakens, Blown, StillFields, Marks, Behind
<1>5. ASSUME "condensate" \notin fs PROVE \A M \in Marks : Effect(c, k, M, Swept(M))
  BY <1>1, <1>5 DEF Effect, Weakens, Blown, Marks, Swept
<1> QED
  BY <1>1, <1>2, <1>3, <1>4, <1>5, FlowsOnce, CalmOnce, MarksAreMarks DEF Moist, Windy

LEMMA Exchanges ==
  \A c : \A fs \in AnyFields : /\ Calm(c, Exchange(fs))
                               /\ \A d \in Nat : Calm(c, ExchangeTo(fs, d))
<1> SUFFICES ASSUME NEW c, NEW fs \in AnyFields, NEW d \in Nat PROVE Calm(c, ExchangeTo(fs, d))
  BY HaloAssumption DEF Exchange
<1> DEFINE k == [op |-> "exchange", fields |-> fs, depth |-> d]
<1>1. k \in ProgramOps /\ k.op = "exchange" /\ k.fields = fs
  BY DEF ProgramOps, AnyFields
<1> HIDE DEF k
<1>2. \A M \in Marks : Effect(c, k, M, M)
  BY <1>1 DEF Effect, Weakens
<1>3. Calm(c, <<k>>)
  BY <1>1, <1>2, CalmOnce
<1> QED
  BY <1>3 DEF ExchangeTo, k

LEMMA Derives ==
  \A c : \A from \in AnyFields, fs \in AnyFields, d \in Nat : "condensate" \notin fs =>
    /\ fs \in StillFields => Calm(c, Derive(from, fs, d))
    /\ Windy(c, Derive(from, fs, d))
<1> SUFFICES ASSUME NEW c, NEW from \in AnyFields, NEW fs \in AnyFields, NEW d \in Nat,
                    "condensate" \notin fs
             PROVE  /\ fs \in StillFields => Calm(c, Derive(from, fs, d))
                    /\ Windy(c, Derive(from, fs, d))
  OBVIOUS
<1> DEFINE k == [op |-> "derive", from |-> from, fields |-> fs, depth |-> d]
<1>1. k \in ProgramOps /\ k.op = "derive" /\ k.fields = fs
  BY DEF ProgramOps, AnyFields
<1>2. Derive(from, fs, d) = <<k>>
  BY DEF Derive
<1> HIDE DEF k
<1>3. ASSUME fs \in StillFields PROVE \A M \in Marks : Effect(c, k, M, M)
  BY <1>1, <1>3 DEF Effect, Weakens, Blown, StillFields, Marks
<1>4. \A M \in Marks : Effect(c, k, M, Swept(M))
  BY <1>1 DEF Effect, Weakens, Blown, Marks, Swept
<1> QED
  BY <1>1, <1>2, <1>3, <1>4, FlowsOnce, CalmOnce, MarksAreMarks DEF Windy

LEMMA Swaps == \A c : c.swapped \in AnyFields => Calm(c, SwapStorage(c.swapped))
<1> SUFFICES ASSUME NEW c, c.swapped \in AnyFields PROVE Calm(c, SwapStorage(c.swapped))
  OBVIOUS
<1> DEFINE k == [op |-> "swap", fields |-> c.swapped]
<1>1. k \in ProgramOps /\ k.op = "swap" /\ k.fields = c.swapped
  BY DEF ProgramOps, AnyFields
<1> HIDE DEF k
<1>2. \A M \in Marks : Effect(c, k, M, M)
  BY <1>1 DEF Effect, Weakens
<1>3. Calm(c, <<k>>)
  BY <1>1, <1>2, CalmOnce
<1> QED
  BY <1>3 DEF SwapStorage, k

LEMMA Graphs == \A c : ~Cartesian(c) => Calm(c, LaunchGraph)
<1> SUFFICES ASSUME NEW c, ~Cartesian(c) PROVE Calm(c, LaunchGraph)
  OBVIOUS
<1> DEFINE k == [op |-> "graph"]
<1>1. k \in ProgramOps /\ k.op = "graph"
  BY DEF ProgramOps
<1> HIDE DEF k
<1>2. \A M \in Marks : Effect(c, k, M, M)
  BY <1>1 DEF Effect, Weakens
<1>3. Calm(c, <<k>>)
  BY <1>1, <1>2, CalmOnce
<1> QED
  BY <1>3 DEF LaunchGraph, k

LEMMA Updates ==
  \A c : \A fs \in AnyFields : "qp" \notin fs =>
    /\ fs \in CalmFields => Calm(c, Update(fs))
    /\ fs \in StillFields => Moist(c, Update(fs))
    /\ "condensate" \notin fs => Windy(c, Update(fs))
BY Reads, Writes, Sequences, CalmIsEither DEF Update

---------------------------------------------------------------------------------
(* The routines.                                                             *)
LEMMA FieldNames ==
  /\ "xi" \in Fields /\ "eta" \in Fields /\ "zeta" \in Fields /\ "xi_con" \in Fields /\ "eta_con" \in Fields
  /\ "zeta_con" \in Fields /\ "th" \in Fields /\ "qv" \in Fields /\ "T" \in Fields /\ "condensate" \in Fields
  /\ "qp" \in Fields /\ "tracer" \in Fields /\ "u" \in Fields /\ "v" \in Fields /\ "w" \in Fields
  /\ "u_con" \in Fields /\ "v_con" \in Fields /\ "before" \in Fields /\ "wind_topo" \in Fields /\ "vorticity_topo" \in Fields
  /\ "W3DNM1" \in Fields /\ "w_guess" \in Fields /\ "psi" \in Fields /\ "psinm1" \in Fields /\ "psi_guess" \in Fields
  /\ "R" \in Fields /\ "RKM" \in Fields /\ "RKH" \in Fields /\ "VEN2D" \in Fields /\ "mean_wind" \in Fields
  /\ "covariant_wind" \in Fields
BY DEF Fields, Vorticity, CanonicalVorticity

LEMMA Shapes ==
  \A c \in Configurations :
    /\ Loss(c) \in Nat /\ c.swapped \in AnyFields
    /\ \A fs \in {P3Fields(c), Scalars(c), SingleStage(c), ThermodynamicsVars(c), c.nudged} :
         fs \in StillFields /\ "qp" \notin fs
<1> SUFFICES ASSUME NEW c \in Configurations
             PROVE  /\ Loss(c) \in Nat /\ c.swapped \in AnyFields
                    /\ \A fs \in {P3Fields(c), Scalars(c), SingleStage(c), ThermodynamicsVars(c), c.nudged} :
                         fs \in StillFields /\ "qp" \notin fs
  OBVIOUS
<1>1. Loss(c) \in Nat
  BY DEF Loss
<1>2. c.swapped \in AnyFields /\ c.nudged \subseteq {"th", "qv", "condensate", "tracer"}
  BY FieldNames DEF Configurations, Vorticity, AnyFields
<1>3. P3Fields(c) \subseteq {"condensate"}
  BY DEF P3Fields
<1>4. Scalars(c) \subseteq {"th", "qv", "condensate", "tracer"}
  BY <1>3 DEF Scalars
<1>5. SingleStage(c) \subseteq {"th", "qv", "condensate", "tracer"}
  BY <1>4 DEF SingleStage
<1>6. ThermodynamicsVars(c) \subseteq {"th", "qv", "condensate", "tracer"}
  BY <1>3, <1>4 DEF ThermodynamicsVars
<1>7. \A fs \in SUBSET {"th", "qv", "condensate", "tracer"} : fs \in StillFields /\ "qp" \notin fs
  BY FieldNames DEF StillFields, AnyFields, MeanOf
<1> QED
  BY <1>1, <1>2, <1>3, <1>4, <1>5, <1>6, <1>7

LEMMA CopiesCalm ==
  \A c \in Configurations :
    /\ Calm(c, SyncPhysical(c)) /\ Calm(c, CopyZeta) /\ Calm(c, SyncContravariant(c))
    /\ Calm(c, ZetaStructure(c)) /\ Calm(c, BeginPhysicalUpdate(c))
    /\ Calm(c, FinishPhysicalUpdate(c)) /\ Windy(c, ShadowWind(c)) /\ Calm(c, RefreshCondensate)
<1> SUFFICES ASSUME NEW c \in Configurations
             PROVE  /\ Calm(c, SyncPhysical(c)) /\ Calm(c, CopyZeta) /\ Calm(c, SyncContravariant(c))
                    /\ Calm(c, ZetaStructure(c)) /\ Calm(c, BeginPhysicalUpdate(c))
                    /\ Calm(c, FinishPhysicalUpdate(c)) /\ Windy(c, ShadowWind(c)) /\ Calm(c, RefreshCondensate)
  OBVIOUS
<1>1. Loss(c) \in Nat
  BY Shapes
<1>2. /\ {"xi_con", "eta_con"} \in AnyFields /\ {"xi", "eta"} \in AnyFields /\ {"u", "v"} \in AnyFields
      /\ {"xi", "eta", "before", "xi_con", "eta_con"} \in AnyFields /\ {"condensate"} \in AnyFields
      /\ \A fs \in {{"xi", "eta"}, {"xi_con", "eta_con"}, {"zeta_con"}, {"zeta"}, {"before"}, {"qp"}} : fs \in CalmFields
      /\ \A fs \in CalmFields : fs \in AnyFields /\ fs \in StillFields /\ "condensate" \notin fs
  BY FieldNames DEF CalmFields, StillFields, AnyFields, MeanOf
<1>3. Calm(c, SyncPhysical(c)) /\ Calm(c, CopyZeta)
  BY <1>1, <1>2, Derives DEF SyncPhysical, CopyZeta
<1>4. Calm(c, SyncContravariant(c))
  BY <1>1, <1>2, <1>3, Derives, Sequences DEF SyncContravariant
<1>5. Calm(c, ZetaStructure(c))
  BY <1>2, Reads, Updates, Exchanges, Sequences, Conditions DEF ZetaStructure
<1>6. Calm(c, BeginPhysicalUpdate(c)) /\ Calm(c, RefreshCondensate)
  BY <1>2, Derives, Conditions DEF BeginPhysicalUpdate, RefreshCondensate
<1>7. Calm(c, FinishPhysicalUpdate(c))
  BY <1>1, <1>2, <1>3, <1>4, Derives, Exchanges, Sequences DEF FinishPhysicalUpdate
<1>8. Windy(c, ShadowWind(c))
  <2>1. {"u_con", "v_con"} \in AnyFields
    BY FieldNames DEF AnyFields
  <2> QED
    BY <1>1, <1>2, <2>1, Derives DEF ShadowWind
<1> QED
  BY <1>3, <1>4, <1>5, <1>6, <1>7, <1>8

(* The mean wind: computing it needs one that is not outdated; transport needs that of *)
(* its own location.                                                         *)
LEMMA MeanWinds ==
  \A c : \A v \in Variants, M \in Marks :
    M.wind # "unknown" => Flows(c, MeanWind(v), M, [M EXCEPT !.wind = v])
<1> SUFFICES ASSUME NEW c, NEW v \in Variants, NEW M \in Marks, M.wind # "unknown"
             PROVE  Flows(c, MeanWind(v), M, [M EXCEPT !.wind = v])
  OBVIOUS
<1> DEFINE k == [op |-> "mean", variant |-> v]
           N == [M EXCEPT !.wind = v]
<1>1. k \in ProgramOps /\ k.op = "mean" /\ k.variant = v
  BY DEF ProgramOps
<1>2. N \in Marks /\ N.wind = v /\ N.summed = M.summed
  BY DEF Marks, Winds
<1> HIDE DEF k, N
<1>3. Effect(c, k, M, N)
  BY <1>1, <1>2 DEF Effect, Weakens
<1>4. Flows(c, <<k>>, M, N)
  BY <1>1, <1>2, <1>3, FlowsOnce
<1> QED
  BY <1>4 DEF MeanWind, k, N

LEMMA Transports ==
  \A c : \A fs \in AnyFields, d \in Nat, v \in Variants, M \in Marks :
    M.wind = v => Flows(c, Transport(fs, d, v), M, M)
<1> SUFFICES ASSUME NEW c, NEW fs \in AnyFields, NEW d \in Nat, NEW v \in Variants,
                    NEW M \in Marks, M.wind = v
             PROVE  Flows(c, Transport(fs, d, v), M, M)
  OBVIOUS
<1> DEFINE k == [op |-> "advect", fields |-> fs \cup {"mean_wind"}, depth |-> d, variant |-> v]
<1>1. k \in ProgramOps /\ k.op = "advect" /\ k.variant = v
  <2>1. fs \cup {"mean_wind"} \in SUBSET Fields
    BY FieldNames DEF AnyFields
  <2> QED
    BY <2>1 DEF ProgramOps
<1> HIDE DEF k
<1>2. Effect(c, k, M, M)
  BY <1>1 DEF Effect, Weakens
<1>3. Flows(c, <<k>>, M, M)
  BY <1>1, <1>2, FlowsOnce
<1> QED
  BY <1>3 DEF Transport, k

LEMMA Invalidates == \A c : \A M \in Marks : Flows(c, Invalidate, M, [M EXCEPT !.wind = "none"])
<1> SUFFICES ASSUME NEW c, NEW M \in Marks PROVE Flows(c, Invalidate, M, [M EXCEPT !.wind = "none"])
  OBVIOUS
<1> DEFINE k == [op |-> "invalidate"]
           N == [M EXCEPT !.wind = "none"]
<1>1. k \in ProgramOps /\ k.op = "invalidate"
  BY DEF ProgramOps
<1>2. N \in Marks /\ N.wind = "none" /\ N.summed = M.summed
  BY DEF Marks, Winds
<1> HIDE DEF k, N
<1>3. Effect(c, k, M, N)
  BY <1>1, <1>2 DEF Effect, Weakens
<1>4. Flows(c, <<k>>, M, N)
  BY <1>1, <1>2, <1>3, FlowsOnce
<1> QED
  BY <1>4 DEF Invalidate, k, N

(* A sequence whose first part leads to a mark the second one keeps.                  *)
LEMMA CalmAfter ==
  \A c, P, Q, M, N : Flows(c, P, M, N) /\ Calm(c, Q) => Flows(c, P \o Q, M, N)
<1> SUFFICES ASSUME NEW c, NEW P, NEW Q, NEW M, NEW N, Flows(c, P, M, N), Calm(c, Q)
             PROVE  Flows(c, P \o Q, M, N)
  OBVIOUS
<1>1. N \in Marks
  BY FlowsTypes
<1>2. Flows(c, Q, N, N)
  BY <1>1 DEF Calm
<1> QED
  BY <1>2, FlowsOn

LEMMA CalmBefore ==
  \A c, P, Q, M, N : Calm(c, P) /\ Flows(c, Q, M, N) => Flows(c, P \o Q, M, N)
<1> SUFFICES ASSUME NEW c, NEW P, NEW Q, NEW M, NEW N, Flows(c, Q, M, N), Calm(c, P)
             PROVE  Flows(c, P \o Q, M, N)
  OBVIOUS
<1>1. M \in Marks
  BY FlowsTypes
<1>2. Flows(c, P, M, M)
  BY <1>1 DEF Calm
<1> QED
  BY <1>2, FlowsOn

LEMMA TakacsFlows ==
  ASSUME NEW c, NEW fs \in AnyFields, NEW v \in Variants, NEW M \in Marks, M.wind = v
  PROVE  Flows(c, TakacsTransport(fs, v), M, M)
<1>1. Flows(c, Transport(fs, 2, v), M, M) /\ Flows(c, Transport(fs, 0, v), M, M)
  BY Transports
<1> QED
  BY <1>1, FlowsOn DEF TakacsTransport, FluxConvergenceZ

LEMMA AdvectFlows ==
  ASSUME NEW c, NEW fs \in AnyFields, NEW M \in Marks, M.wind # "unknown"
  PROVE  Flows(c, AdvectScalars(c, fs), M, [M EXCEPT !.wind = "Scalar"])
<1> DEFINE N == [M EXCEPT !.wind = "Scalar"]
<1>1. "Scalar" \in Variants /\ N \in Marks /\ N.wind = "Scalar"
  BY DEF Variants, Marks, Winds
<1>2. Flows(c, MeanWind("Scalar"), M, N)
  BY <1>1, MeanWinds
<1> HIDE DEF N
<1>3. Flows(c, TakacsTransport(fs, "Scalar"), N, N)
  BY <1>1, TakacsFlows
<1>4. Flows(c, GeneralizedTransport(fs), N, N)
  BY <1>1, Transports DEF GeneralizedTransport
<1>5. Flows(c, MeanWind("Scalar") \o IF Cartesian(c) THEN TakacsTransport(fs, "Scalar") ELSE GeneralizedTransport(fs), M, N)
  BY <1>2, <1>3, <1>4, FlowsOn
<1> QED
  BY <1>5 DEF AdvectScalars, N

LEMMA StageFlows ==
  ASSUME NEW c, NEW M \in Marks, M.wind # "unknown"
  PROVE  Flows(c, StageOfTracer, M, [M EXCEPT !.wind = "Scalar"])
<1> DEFINE N == [M EXCEPT !.wind = "Scalar"]
           fs == {"tracer"}
<1>1. "Scalar" \in Variants /\ N \in Marks /\ N.wind = "Scalar"
  BY DEF Variants, Marks, Winds
<1>2. Flows(c, MeanWind("Scalar"), M, N)
  BY <1>1, MeanWinds
<1> HIDE DEF N
<1>3. fs \in CalmFields /\ fs \in AnyFields /\ {} \in AnyFields /\ "qp" \notin fs
  BY FieldNames DEF CalmFields, StillFields, AnyFields, MeanOf
<1>4. Calm(c, MusclReconstruct(fs)) /\ Calm(c, Read(fs, 1)) /\ Calm(c, Update(fs)) /\ Calm(c, Exchange(fs))
  BY <1>3, Reads, Updates, Exchanges DEF MusclReconstruct
<1>5. Flows(c, MeanWind("Scalar") \o MusclReconstruct(fs), M, N)
  BY <1>2, <1>4, CalmAfter
<1>6. Flows(c, Transport({}, 2, "Scalar") \o Read(fs, 1), N, N)
  BY <1>1, <1>3, <1>4, Transports, CalmAfter
<1>7. Flows(c, MeanWind("Scalar") \o MusclReconstruct(fs) \o MusclDonorFactors(fs), M, N)
  BY <1>5, <1>6, FlowsOn DEF MusclDonorFactors
<1>8. Flows(c, MusclFluxes(fs), N, N)
  BY <1>1, <1>3, Transports DEF MusclFluxes
<1>9. Flows(c, MeanWind("Scalar") \o MusclReconstruct(fs) \o MusclDonorFactors(fs) \o MusclFluxes(fs), M, N)
  BY <1>7, <1>8, FlowsOn
<1>10. Flows(c, MeanWind("Scalar") \o MusclReconstruct(fs) \o MusclDonorFactors(fs) \o MusclFluxes(fs)
                 \o Update(fs) \o Exchange(fs), M, N)
  BY <1>4, <1>9, CalmAfter
<1> QED
  BY <1>10 DEF StageOfTracer, N

(* The scalars.                                                              *)
LEMMA ThermoFlows ==
  ASSUME NEW c \in Configurations, NEW M \in Marks, M.wind # "unknown"
  PROVE  /\ Flows(c, ThermoTendencies(c), M, [M EXCEPT !.wind = "Scalar"])
         /\ \E N \in Marks : Flows(c, UpdateThermo(c), M, N) /\ N.wind # "unknown"
<1>1. SingleStage(c) \in StillFields /\ SingleStage(c) \in AnyFields /\ "qp" \notin SingleStage(c)
  BY Shapes DEF StillFields
<1>2. Flows(c, ThermoTendencies(c), M, [M EXCEPT !.wind = "Scalar"])
  BY <1>1, AdvectFlows DEF ThermoTendencies
<1>3. \E N \in Marks : Flows(c, When(c.tracer = "ssprk2", StageOfTracer \o StageOfTracer), M, N) /\ N.wind # "unknown"
  <2>1. CASE c.tracer = "ssprk2"
    <3> DEFINE N == [M EXCEPT !.wind = "Scalar"]
    <3>1. N \in Marks /\ N.wind = "Scalar" /\ [N EXCEPT !.wind = "Scalar"] = N
      BY DEF Marks, Winds, Variants
    <3>2. Flows(c, StageOfTracer, M, N)
      BY StageFlows
    <3> HIDE DEF N
    <3>3. Flows(c, StageOfTracer, N, N)
      BY <3>1, StageFlows
    <3>4. Flows(c, StageOfTracer \o StageOfTracer, M, N)
      BY <3>2, <3>3, FlowsOn
    <3> QED
      BY <2>1, <3>1, <3>4 DEF When
  <2>2. CASE c.tracer # "ssprk2"
    BY <2>2, FlowsNowhere, WeakensItself DEF When
  <2> QED
    BY <2>1, <2>2
<1>4. PICK N \in Marks : /\ N.wind # "unknown"
                         /\ Flows(c, When(c.tracer = "ssprk2", StageOfTracer \o StageOfTracer), M, N)
  BY <1>3
<1>5. Moist(c, Update(SingleStage(c))) /\ Calm(c, Exchange(SingleStage(c)))
  BY <1>1, Updates, Exchanges
<1>6. Behind(N) \in Marks /\ Behind(N).wind = N.wind /\ Flows(c, Update(SingleStage(c)), N, Behind(N))
  BY <1>5, MarksAreMarks DEF Moist, Behind
<1>7. Flows(c, UpdateThermo(c), M, Behind(N))
  BY <1>4, <1>5, <1>6, FlowsOn, CalmAfter DEF UpdateThermo
<1> QED
  BY <1>2, <1>4, <1>6, <1>7

LEMMA PhysicsMoist ==
  ASSUME NEW c \in Configurations
  PROVE  /\ Calm(c, ApplyTracerSource(c)) /\ Calm(c, ApplyRandomForcing(c))
         /\ Moist(c, RunP3(c)) /\ Calm(c, RunCleo(c)) /\ Moist(c, PhysicsThermo(c))
<1>1. /\ {"tracer"} \in CalmFields /\ {"th"} \in CalmFields /\ {"th", "qv"} \in CalmFields /\ {"qp"} \in CalmFields
      /\ {"th", "qv", "condensate"} \in AnyFields /\ {"th", "qv", "condensate", "T"} \in StillFields
      /\ {"th", "qv", "condensate", "qp"} \in AnyFields /\ {"th", "qv", "qp"} \in AnyFields
      /\ {"RKM", "RKH"} \in CalmFields /\ {"u", "v"} \in AnyFields /\ {"VEN2D"} \in CalmFields /\ {"R"} \in CalmFields
      /\ {"u", "v", "R"} \in AnyFields /\ {"u_con", "v_con", "w"} \in AnyFields
      /\ \A fs \in CalmFields : fs \in AnyFields /\ fs \in StillFields
      /\ \A fs \in StillFields : fs \in AnyFields
  BY FieldNames DEF CalmFields, StillFields, AnyFields, MeanOf
<1>2. \A f \in {"tracer", "th", "qv", "condensate", "T", "RKM", "RKH", "u", "v", "VEN2D", "R", "u_con", "v_con", "w"} : f # "qp"
  OBVIOUS
<1>3. Calm(c, ApplyTracerSource(c)) /\ Calm(c, ApplyRandomForcing(c))
  BY <1>1, Updates, Exchanges, Sequences, Conditions DEF ApplyTracerSource, ApplyRandomForcing
<1>4. Moist(c, RunP3(c))
  <2>1. /\ Calm(c, Read({"th", "qv", "condensate"}, 0)) /\ Moist(c, Write({"th", "qv", "condensate", "T"}, 0))
        /\ Calm(c, RefreshCondensate) /\ Calm(c, Exchange({"th", "qv", "condensate", "qp"}))
    BY <1>1, Reads, Writes, Exchanges, CopiesCalm
  <2> QED
    BY <2>1, CalmIsEither, Sequences, Conditions DEF RunP3
<1>5. Calm(c, RunCleo(c))
  <2>1. Calm(c, Update({"th", "qv"})) /\ Calm(c, Write({"qp"}, 0)) /\ Calm(c, Exchange({"th", "qv", "qp"}))
    BY <1>1, Updates, Writes, Exchanges
  <2>2. Calm(c, Perhaps(Update({"th", "qv"}) \o Write({"qp"}, 0) \o Exchange({"th", "qv", "qp"})))
    BY <2>1, Sequences, Skips
  <2> QED
    BY <2>2, Conditions DEF RunCleo
<1>6. /\ P3Fields(c) \in StillFields /\ "qp" \notin P3Fields(c) /\ Scalars(c) \in StillFields /\ "qp" \notin Scalars(c)
      /\ c.nudged \in StillFields /\ "qp" \notin c.nudged /\ ThermodynamicsVars(c) \in AnyFields
      /\ {"th", "qv"} \cup P3Fields(c) \in StillFields /\ "qp" \notin {"th", "qv"} \cup P3Fields(c)
      /\ Scalars(c) \cup {"RKH"} \in AnyFields /\ "qp" \notin Scalars(c) \cup {"RKH"}
  BY FieldNames, Shapes DEF StillFields, AnyFields, MeanOf
<1>7. Calm(c, Coefficients(c))
  <2>1. Calm(c, Read({"u", "v", "R"}, 1)) /\ Calm(c, Read({"u_con", "v_con", "w"}, 2)) /\ Calm(c, Write({"R"}, 1)) /\ Calm(c, Read({"R"}, 1))
    BY <1>1, Reads, Writes
  <2>2. Calm(c, Write({"RKM", "RKH"}, 0)) /\ Calm(c, Exchange({"RKM", "RKH"}))
    BY <1>1, Writes, Exchanges
  <2>3. Calm(c, IF Cartesian(c) THEN Read({"u", "v", "R"}, 1) ELSE GeneralizedDeformation \o Read({"R"}, 1))
    BY <2>1, Sequences DEF GeneralizedDeformation
  <2> QED
    BY <2>2, <2>3, Sequences DEF Coefficients
<1>8. Calm(c, DiffuseScalars(c))
  BY <1>6, Reads DEF DiffuseScalars, CartesianDiffusion, GeneralizedScalarDiffusion
<1>9. Calm(c, Perhaps(SurfaceCoefficients))
  <2>1. /\ Calm(c, Read({"u", "v"}, 1)) /\ Calm(c, Read({"th", "qv"}, 0)) /\ Calm(c, Write({"VEN2D"}, 0))
        /\ Calm(c, Exchange({"VEN2D"})) /\ Calm(c, Read({"VEN2D"}, 1)) /\ Calm(c, Read({"u", "v"}, 0))
    BY <1>1, Reads, Writes, Exchanges
  <2> QED
    BY <2>1, Sequences, Skips DEF SurfaceCoefficients, SurfaceTransfer, SurfaceStress
<1>10. Moist(c, ForwardUpdateThermo(c)) /\ Moist(c, ApplySponge(c, {"th", "qv"} \cup P3Fields(c)))
       /\ Moist(c, ApplyLateralNudging(c)) /\ Calm(c, ThermoBoundary(c))
  <2>1. Moist(c, Update(Scalars(c))) /\ Moist(c, Update({"th", "qv"} \cup P3Fields(c))) /\ Moist(c, Update(c.nudged))
        /\ Moist(c, Update({"th", "qv"})) /\ Calm(c, Exchange(ThermodynamicsVars(c)))
    BY <1>1, <1>6, Updates, Exchanges
  <2> QED
    BY <2>1, Conditions DEF ForwardUpdateThermo, ApplySponge, ApplyLateralNudging, ThermoBoundary
<1>11. Moist(c, PhysicsThermo(c))
  <2>1. Calm(c, When(c.turbulence, Coefficients(c) \o DiffuseScalars(c)) \o When(c.surface, Perhaps(SurfaceCoefficients)))
    BY <1>7, <1>8, <1>9, Sequences, Conditions
  <2> QED
    BY <1>10, <2>1, CalmIsEither, Sequences DEF PhysicsThermo
<1> QED
  BY <1>3, <1>4, <1>5, <1>11

(* A derivation of qp makes it the sum of what the condensate is.                   *)
LEMMA Refreshes ==
  \A c : \A M \in Marks : Flows(c, RefreshCondensate, M, [M EXCEPT !.summed = TRUE])
<1> SUFFICES ASSUME NEW c, NEW M \in Marks PROVE Flows(c, RefreshCondensate, M, [M EXCEPT !.summed = TRUE])
  OBVIOUS
<1> DEFINE k == [op |-> "derive", from |-> {"condensate"}, fields |-> {"qp"}, depth |-> 0]
           N == [M EXCEPT !.summed = TRUE]
<1>1. k \in ProgramOps /\ k.op = "derive" /\ k.fields = {"qp"}
  BY FieldNames DEF ProgramOps
<1>2. N \in Marks /\ N.wind = M.wind /\ N.summed = TRUE
  BY DEF Marks
<1>3. RefreshCondensate = <<k>>
  BY DEF RefreshCondensate, Derive
<1> HIDE DEF k, N
<1>4. Effect(c, k, M, N)
  BY <1>1, <1>2 DEF Effect, Weakens, Blown, MeanOf
<1>5. Flows(c, <<k>>, M, N)
  BY <1>1, <1>2, <1>4, FlowsOnce
<1> QED
  BY <1>3, <1>5 DEF N

LEMMA RefreshFlows ==
  ASSUME NEW c \in Configurations, NEW M \in Marks
  PROVE  \E N \in Marks : /\ Flows(c, CondensateForBuoyancy(c), M, N) /\ N.wind = M.wind
                          /\ Refreshed(c) => N.summed
<1> DEFINE N == [M EXCEPT !.summed = TRUE]
<1>1. N \in Marks /\ N.wind = M.wind /\ N.summed = TRUE
  BY DEF Marks
<1>2. CASE Refreshed(c)
  BY <1>1, <1>2, Refreshes DEF CondensateForBuoyancy, When, Refreshed
<1>3. CASE ~Refreshed(c)
  BY <1>3, FlowsNowhere, WeakensItself DEF CondensateForBuoyancy, When, Refreshed
<1> QED
  BY <1>2, <1>3

(* The vorticity.                                                             *)
LEMMA BuoyancyFlows ==
  ASSUME NEW c, NEW M \in Marks, Refreshed(c) => M.summed
  PROVE  Flows(c, Read({"th", "qv", "qp"}, 1), M, M)
<1> DEFINE k == [op |-> "read", fields |-> {"th", "qv", "qp"}, depth |-> 1]
<1>1. k \in ProgramOps /\ k.op = "read"
  BY FieldNames DEF ProgramOps
<1> HIDE DEF k
<1>2. Effect(c, k, M, M)
  BY <1>1 DEF Effect, Weakens
<1>3. Flows(c, <<k>>, M, M)
  BY <1>1, <1>2, FlowsOnce
<1> QED
  BY <1>3 DEF Read, k

LEMMA TakacsVorticityFlows ==
  ASSUME NEW c, NEW q \in Fields, NEW v \in Variants, NEW M \in Marks, M.wind # "unknown"
  PROVE  Flows(c, TakacsVorticity(q, v), M, [M EXCEPT !.wind = v])
<1> DEFINE N == [M EXCEPT !.wind = v]
<1>1. N \in Marks /\ N.wind = v /\ {q} \in AnyFields
  BY DEF Marks, Winds, AnyFields
<1>2. Flows(c, MeanWind(v), M, N)
  BY MeanWinds
<1> HIDE DEF N
<1>3. Flows(c, TakacsTransport({q}, v), N, N)
  BY <1>1, TakacsFlows
<1>4. Flows(c, TakacsVorticity(q, v), M, N)
  BY <1>2, <1>3, FlowsOn DEF TakacsVorticity
<1> QED
  BY <1>4 DEF N

LEMMA TendenciesFlow ==
  ASSUME NEW c \in Configurations, NEW M \in Marks, M.wind # "unknown", Refreshed(c) => M.summed
  PROVE  \E N \in Marks : Flows(c, VorticityTendencies(c), M, N) /\ N.wind # "unknown"
<1>1. \A fs \in {{"u_con", "xi"}, {"v_con", "eta"}, {"w", "zeta"}, {"eta", "zeta", "R"}, {"xi", "zeta", "R"},
                 {"xi", "eta", "R"}, {"u_con"}, {"v_con"}, {"u_con", "v_con"}, {"w"}, {"u_con", "v_con", "zeta"},
                 {"w", "xi_con", "eta_con", "zeta"}, {"u_con", "v_con", "xi_con"}, {"u_con", "v_con", "eta_con"},
                 {"u_con", "xi_con", "eta_con", "zeta"}, {"v_con", "xi_con", "eta_con", "zeta"}} :
        fs \in AnyFields /\ "qp" \notin fs
  BY FieldNames DEF AnyFields
<1>2. Calm(c, SyncPhysical(c)) /\ Calm(c, SyncContravariant(c))
  BY CopiesCalm
<1>3. CASE Cartesian(c)
  <2> DEFINE X == [M EXCEPT !.wind = "Xi"]
             Y == [M EXCEPT !.wind = "Eta"]
             Z == [M EXCEPT !.wind = "Zeta"]
  <2>1. /\ X \in Marks /\ X.wind = "Xi" /\ X.summed = M.summed /\ Y = [X EXCEPT !.wind = "Eta"]
        /\ Y \in Marks /\ Y.wind = "Eta" /\ Y.summed = M.summed /\ Z = [Y EXCEPT !.wind = "Zeta"]
        /\ Z \in Marks /\ Z.wind = "Zeta" /\ "Xi" \in Variants /\ "Eta" \in Variants /\ "Zeta" \in Variants
    BY DEF Marks, Winds, Variants
  <2>2. Flows(c, TakacsVorticity("xi", "Xi"), M, X)
    BY <2>1, FieldNames, TakacsVorticityFlows
  <2>3. Flows(c, TakacsVorticity("eta", "Eta"), X, Y)
    <3> HIDE DEF X, Y, Z
    <3> QED
      BY <2>1, FieldNames, TakacsVorticityFlows
  <2>4. Flows(c, TakacsVorticity("zeta", "Zeta"), Y, Z)
    <3> HIDE DEF X, Y, Z
    <3> QED
      BY <2>1, FieldNames, TakacsVorticityFlows
  <2>5. /\ Calm(c, StretchXi) /\ Calm(c, TwistXi) /\ Calm(c, CoriolisXi)
        /\ Calm(c, StretchEta) /\ Calm(c, TwistEta) /\ Calm(c, CoriolisEta)
        /\ Calm(c, StretchZeta) /\ Calm(c, TwistZeta) /\ Calm(c, CoriolisZeta)
    BY <1>1, Reads DEF StretchXi, TwistXi, CoriolisXi, StretchEta, TwistEta, CoriolisEta,
                       StretchZeta, TwistZeta, CoriolisZeta
  <2>6. Flows(c, BuoyancyXi, X, X) /\ Flows(c, BuoyancyEta, Y, Y)
    BY <2>1, BuoyancyFlows DEF BuoyancyXi, BuoyancyEta
  <2> HIDE DEF X, Y, Z
  <2>7. Flows(c, TakacsVorticity("xi", "Xi") \o StretchXi \o TwistXi \o CoriolisXi \o BuoyancyXi, M, X)
    BY <2>2, <2>5, <2>6, CalmAfter, FlowsOn
  <2>8. Flows(c, TakacsVorticity("xi", "Xi") \o StretchXi \o TwistXi \o CoriolisXi \o BuoyancyXi
                   \o TakacsVorticity("eta", "Eta") \o StretchEta \o TwistEta \o CoriolisEta \o BuoyancyEta, M, Y)
    <3> DEFINE P == TakacsVorticity("xi", "Xi") \o StretchXi \o TwistXi \o CoriolisXi \o BuoyancyXi
    <3>1. Flows(c, P, M, X)
      BY <2>7
    <3> HIDE DEF P
    <3>2. Flows(c, P \o TakacsVorticity("eta", "Eta") \o StretchEta \o TwistEta \o CoriolisEta \o BuoyancyEta, M, Y)
      BY <2>3, <2>5, <2>6, <3>1, CalmAfter, FlowsOn
    <3> QED
      BY <3>2 DEF P
  <2>9. Flows(c, CartesianTendencies, M, Z)
    <3> DEFINE P == TakacsVorticity("xi", "Xi") \o StretchXi \o TwistXi \o CoriolisXi \o BuoyancyXi
                      \o TakacsVorticity("eta", "Eta") \o StretchEta \o TwistEta \o CoriolisEta \o BuoyancyEta
    <3>1. Flows(c, P, M, Y)
      BY <2>8
    <3> HIDE DEF P
    <3>2. Flows(c, P \o TakacsVorticity("zeta", "Zeta") \o StretchZeta \o TwistZeta \o CoriolisZeta, M, Z)
      BY <2>4, <2>5, <3>1, CalmAfter, FlowsOn
    <3> QED
      BY <3>2 DEF CartesianTendencies, P
  <2>10. Flows(c, SyncPhysical(c) \o CartesianTendencies \o SyncContravariant(c), M, Z)
    BY <1>2, <2>9, CalmBefore, CalmAfter
  <2> QED
    BY <1>3, <2>1, <2>10 DEF VorticityTendencies
<1>4. CASE ~Cartesian(c)
  <2>1. /\ Calm(c, TransportHorizontal("xi_con")) /\ Calm(c, TransportHorizontal("eta_con"))
        /\ Calm(c, DeformHorizontal("u_con")) /\ Calm(c, DeformHorizontal("v_con"))
        /\ Calm(c, TransportTop) /\ Calm(c, DeformTop)
    BY <1>1, Reads, Sequences DEF TransportHorizontal, DeformHorizontal, TransportTop, DeformTop
  <2>2. Calm(c, TransportHorizontal("xi_con") \o DeformHorizontal("u_con")
                  \o TransportHorizontal("eta_con") \o DeformHorizontal("v_con") \o TransportTop \o DeformTop)
    BY <2>1, Sequences
  <2>3. Flows(c, GeneralizedBuoyancy, M, M)
    BY BuoyancyFlows DEF GeneralizedBuoyancy
  <2>4. Flows(c, GeneralizedTendencies, M, M)
    BY <2>2, <2>3, CalmBefore DEF GeneralizedTendencies
  <2> QED
    BY <1>4, <2>4 DEF VorticityTendencies
<1> QED
  BY <1>3, <1>4

LEMMA VorticityCalm ==
  ASSUME NEW c \in Configurations
  PROVE  Calm(c, UpdateVorticity(c)) /\ Calm(c, PhysicsVorticity(c))
<1>1. /\ \A fs \in {{"xi_con"}, {"eta_con"}, {"zeta"}, Vorticity, {"xi", "eta"}} : fs \in CalmFields /\ "qp" \notin fs
      /\ \A fs \in {{"xi", "RKM"}, {"eta", "RKM"}, {"zeta", "RKM"}, Vorticity \cup {"RKM"}} : fs \in AnyFields /\ "qp" \notin fs
      /\ \A fs \in CalmFields : fs \in AnyFields
  BY FieldNames DEF CalmFields, StillFields, AnyFields, MeanOf, Vorticity
<1>2. Calm(c, SwapStorage(c.swapped))
  BY Shapes, Swaps
<1>3. /\ Calm(c, Update({"xi_con"})) /\ Calm(c, Exchange({"xi_con"})) /\ Calm(c, Update({"eta_con"})) /\ Calm(c, Exchange({"eta_con"}))
      /\ Calm(c, Update({"zeta"})) /\ Calm(c, Exchange({"zeta"}))
  BY <1>1, Updates, Exchanges
<1>4. Calm(c, SyncPhysical(c)) /\ Calm(c, When(c.idealized # "twisting", ZetaStructure(c))) /\ Calm(c, CopyZeta)
  BY CopiesCalm, Conditions
<1>5. Calm(c, UpdateVorticity(c))
  BY <1>2, <1>3, <1>4, Sequences DEF UpdateVorticity
<1>6. Calm(c, DiffuseVorticity(c))
  BY <1>1, Reads, Sequences DEF DiffuseVorticity, CartesianDiffusion, GeneralizedXiDiffusion, GeneralizedEtaDiffusion, GeneralizedZetaDiffusion
<1>7. Calm(c, ForwardUpdateVorticity(c)) /\ Calm(c, ApplySponge(c, Vorticity)) /\ Calm(c, ApplyAreaMean(c)) /\ Calm(c, Exchange(Vorticity))
  BY <1>1, Updates, Exchanges, Conditions DEF ForwardUpdateVorticity, ApplySponge, ApplyAreaMean
<1>8. Calm(c, PhysicsVorticity(c))
  BY <1>6, <1>7, CopiesCalm, Sequences, Conditions DEF PhysicsVorticity
<1> QED
  BY <1>5, <1>8

(* The wind.                                                                 *)
LEMMA CartesianWindy ==
  ASSUME NEW c \in Configurations
  PROVE  Windy(c, PrepareCartesianInputs \o SolveW \o RecoverCartesianWind)
<1>1. /\ \A fs \in {{"wind_topo"}, {"vorticity_topo"}, {"w_guess"}, {"W3DNM1"}, {"psi_guess"}, {"psi", "psinm1"}, {"u", "v"}} : fs \in CalmFields /\ "qp" \notin fs
      /\ \A fs \in {{"u", "v", "w"}, {"xi_con", "eta_con"}, {"w", "W3DNM1"}, {"w"}, {"zeta_con", "w"}, {"psi"}} : fs \in AnyFields /\ "qp" \notin fs /\ "condensate" \notin fs
      /\ \A fs \in CalmFields : fs \in AnyFields /\ fs \in StillFields /\ "condensate" \notin fs
  BY FieldNames DEF CalmFields, StillFields, AnyFields, MeanOf
<1>2. Calm(c, PrepareCartesianInputs)
  <2>1. /\ Calm(c, Derive({"u", "v", "w"}, {"wind_topo"}, 0)) /\ Calm(c, Read({"wind_topo"}, 1))
        /\ Calm(c, Read({"xi_con", "eta_con"}, 0)) /\ Calm(c, Write({"vorticity_topo"}, 0)) /\ Calm(c, Exchange({"vorticity_topo"}))
    BY <1>1, Derives, Reads, Writes, Exchanges
  <2> QED
    BY <2>1, Sequences DEF PrepareCartesianInputs
<1>3. Calm(c, Sweeps("w_guess")) /\ Calm(c, Sweeps("psi_guess"))
  <2>1. \A g \in {"w_guess", "psi_guess"} : Calm(c, Read({g}, 1) \o Write({g}, 0) \o ExchangeTo({g}, 1))
    BY <1>1, Reads, Writes, Exchanges, Sequences
  <2> QED
    BY <2>1, Sequences, Skips DEF Sweeps
<1>4. Windy(c, SolveW)
  <2>1. /\ Calm(c, Read({"vorticity_topo"}, 1)) /\ Calm(c, Derive({"w", "W3DNM1"}, {"w_guess"}, 0)) /\ Calm(c, Derive({"w"}, {"W3DNM1"}, 0))
        /\ Windy(c, Write({"w"}, 0)) /\ Calm(c, ExchangeTo({"w"}, 1))
    BY <1>1, Derives, Reads, Writes, Exchanges
  <2> QED
    BY <1>3, <2>1, CalmIsEither, Sequences DEF SolveW
<1>5. Calm(c, CartesianPotentials)
  <2>1. /\ Calm(c, Read({"zeta_con", "w"}, 0)) /\ Calm(c, Derive({"psi", "psinm1"}, {"psi_guess"}, 0))
        /\ Calm(c, Write({"psi", "psinm1"}, 0)) /\ Calm(c, Exchange({"psi", "psinm1"}))
    BY <1>1, Derives, Reads, Writes, Exchanges
  <2> QED
    BY <1>3, <2>1, Sequences DEF CartesianPotentials
<1>6. Calm(c, RecoverCartesianWind)
  <2>1. /\ Calm(c, Read({"psi"}, 1)) /\ Calm(c, Write({"u", "v"}, 0)) /\ Calm(c, Read({"w"}, 1))
        /\ Calm(c, Read({"vorticity_topo"}, 0)) /\ Calm(c, Exchange({"u", "v"}))
    BY <1>1, Reads, Writes, Exchanges
  <2> QED
    BY <1>5, <2>1, Sequences DEF RecoverCartesianWind
<1> QED
  BY <1>2, <1>4, <1>6, CalmIsEither, Sequences

LEMMA GeneralizedWindy ==
  ASSUME NEW c \in Configurations, NEW initial
  PROVE  /\ ~Cartesian(c) => Windy(c, SolveGeneralized(c, initial))
         /\ Calm(c, SeedFromPhysical) /\ Calm(c, SeedFromContravariant(c))
<1>1. /\ \A fs \in {{"wind_topo"}, {"vorticity_topo"}, {"w_guess"}, {"W3DNM1"}, {"psi_guess"}, {"psi", "psinm1"}, {"u", "v"},
                     {"zeta"}, {"covariant_wind"}, {"xi_con", "eta_con"}} : fs \in CalmFields /\ "qp" \notin fs
      /\ \A fs \in {{"u", "v", "w"}, {"xi", "eta"}, {"w", "W3DNM1"}, {"w"}, {"zeta", "w"}, {"psi"}, {"u_con", "v_con"},
                     {"psi", "w"} \cup {"vorticity_topo"}, {"psi", "w"} \cup {"xi_con", "eta_con"}} : fs \in AnyFields /\ "qp" \notin fs /\ "condensate" \notin fs
      /\ \A fs \in CalmFields : fs \in AnyFields /\ fs \in StillFields /\ "condensate" \notin fs
  BY FieldNames DEF CalmFields, StillFields, AnyFields, MeanOf
<1>2. Loss(c) \in Nat
  BY Shapes
<1>3. Calm(c, SeedFromPhysical) /\ Calm(c, SeedFromContravariant(c))
  BY <1>1, <1>2, Reads, Derives, Sequences DEF SeedFromPhysical, SeedFromContravariant
<1>4. Calm(c, AdaptTerrain)
  <2>1. /\ Calm(c, Derive({"xi_con", "eta_con"}, {"vorticity_topo"}, 0)) /\ Calm(c, Derive({"u", "v", "w"}, {"wind_topo"}, 0))
        /\ Calm(c, Exchange({"wind_topo"})) /\ Calm(c, Read({"wind_topo"}, 1)) /\ Calm(c, Write({"vorticity_topo"}, 0))
        /\ Calm(c, Exchange({"vorticity_topo"}))
    BY <1>1, Derives, Reads, Writes, Exchanges
  <2> QED
    BY <2>1, Sequences DEF AdaptTerrain
<1>5. Calm(c, Sweeps("w_guess")) /\ Calm(c, Sweeps("psi_guess"))
  <2>1. \A g \in {"w_guess", "psi_guess"} : Calm(c, Read({g}, 1) \o Write({g}, 0) \o ExchangeTo({g}, 1))
    BY <1>1, Reads, Writes, Exchanges, Sequences
  <2> QED
    BY <2>1, Sequences, Skips DEF Sweeps
<1>6. Calm(c, Read(ActiveVorticity(c), 1)) /\ Calm(c, Read({"psi", "w"} \cup ActiveVorticity(c), 1))
  BY <1>1, Reads DEF ActiveVorticity
<1>7. Windy(c, VerticalSolve(c))
  <2>1. /\ Calm(c, Derive({"w", "W3DNM1"}, {"w_guess"}, 0)) /\ Calm(c, Derive({"w"}, {"W3DNM1"}, 0))
        /\ Calm(c, ExchangeTo({"w_guess"}, 1)) /\ Calm(c, Exchange({"w_guess"})) /\ Windy(c, Derive({"w_guess"}, {"w"}, 0))
    BY <1>1, Derives, Exchanges
  <2> QED
    BY <1>5, <1>6, <2>1, CalmIsEither, Sequences DEF VerticalSolve
<1>8. Calm(c, GeneralizedPotentials)
  <2>1. /\ Calm(c, Read({"zeta", "w"}, 0)) /\ Calm(c, Derive({"psi", "psinm1"}, {"psi_guess"}, 0)) /\ Calm(c, ExchangeTo({"psi_guess"}, 1))
        /\ Calm(c, Write({"psi", "psinm1"}, 0)) /\ Calm(c, Exchange({"psi", "psinm1"}))
    BY <1>1, Derives, Reads, Writes, Exchanges
  <2> QED
    BY <1>5, <2>1, Sequences DEF GeneralizedPotentials
<1>9. Windy(c, Diagnose(c))
  <2>1. /\ Calm(c, When(c.bounded, Exchange({"w", "W3DNM1"}))) /\ Calm(c, Update({"zeta"})) /\ Calm(c, Exchange({"zeta"}))
        /\ Calm(c, Write({"covariant_wind"}, 0))
    BY <1>1, Updates, Writes, Exchanges, Conditions
  <2> QED
    BY <1>6, <1>7, <1>8, <2>1, CalmIsEither, Sequences DEF Diagnose
<1>10. Calm(c, PreserveCirculation) /\ Windy(c, CommitRecoveredWind) /\ Windy(c, CorrectCanonicalWind(c))
  <2>1. /\ Calm(c, Exchange({"covariant_wind"})) /\ Calm(c, Read({"covariant_wind"}, 1)) /\ Calm(c, Read({"covariant_wind"}, 0))
        /\ Windy(c, Write({"u_con", "v_con"}, 0)) /\ Calm(c, ExchangeTo({"psi"}, 2)) /\ Calm(c, Read({"psi"}, 2))
        /\ Windy(c, Update({"u_con", "v_con"})) /\ Calm(c, Update({"covariant_wind"}))
    BY <1>1, Updates, Reads, Writes, Exchanges
  <2> QED
    BY <2>1, CalmIsEither, Sequences, Conditions DEF PreserveCirculation, CommitRecoveredWind, CorrectCanonicalWind
<1>11. Windy(c, FinalizeGeneralizedWind(c))
  <2>1. /\ Calm(c, Exchange({"u_con", "v_con"})) /\ Calm(c, Derive({"u_con", "v_con"}, {"u", "v"}, Loss(c))) /\ Calm(c, Exchange({"u", "v"}))
        /\ Calm(c, Derive({"u", "v", "w"}, {"wind_topo"}, 0)) /\ Calm(c, Derive({"xi", "eta"}, {"vorticity_topo"}, 0))
    BY <1>1, <1>2, Derives, Exchanges
  <2> QED
    BY <1>4, <2>1, CalmIsEither, Sequences DEF FinalizeGeneralizedWind
<1>12. Windy(c, NudgeTopMean)
  <2>1. Calm(c, Read({"u", "v"}, 0)) /\ Windy(c, Derive({"u_con", "v_con"}, {"u_con", "v_con"}, 0))
    BY <1>1, Reads, Derives
  <2> QED
    BY <2>1, CalmIsEither, Sequences DEF NudgeTopMean
<1>13. Calm(c, When(initial, SeedFromPhysical)) /\ Calm(c, When(c.terrain, AdaptTerrain)) 
       /\ (~Cartesian(c) => Calm(c, When(~initial, LaunchGraph)))
  BY <1>3, <1>4, Graphs, Conditions
<1>14. Windy(c, When(c.areamn, NudgeTopMean \o FinalizeGeneralizedWind(c)))
  BY <1>11, <1>12, Sequences, Conditions
<1>15. ASSUME ~Cartesian(c) PROVE Windy(c, SolveGeneralized(c, initial))
  BY <1>15, <1>9, <1>10, <1>11, <1>13, <1>14, CalmIsEither, Sequences DEF SolveGeneralized
<1> QED
  BY <1>3, <1>15

(* After a solve there is no mean wind.                                           *)
LEMMA WindFlows ==
  ASSUME NEW c \in Configurations, NEW initial, NEW M \in Marks
  PROVE  Flows(c, ComputeWindFields(c, initial), M, [wind |-> "none", summed |-> M.summed])
<1> DEFINE N == [wind |-> "none", summed |-> M.summed]
<1>1. N \in Marks /\ N = [Swept(M) EXCEPT !.wind = "none"] /\ Swept(N) = N /\ Swept(M) \in Marks
  BY DEF Marks, Winds, Swept
<1>2. Flows(c, Invalidate, Swept(M), N)
  BY <1>1, Invalidates
<1> HIDE DEF N
<1>3. CASE Cartesian(c)
  <2>1. Flows(c, PrepareCartesianInputs \o SolveW \o RecoverCartesianWind, M, Swept(M))
    BY CartesianWindy DEF Windy
  <2>2. Flows(c, PrepareCartesianInputs \o SolveW \o RecoverCartesianWind \o Invalidate, M, N)
    BY <1>2, <2>1, FlowsOn
  <2>3. Flows(c, ShadowWind(c), N, N)
    BY <1>1, CopiesCalm DEF Windy
  <2>4. Flows(c, PrepareCartesianInputs \o SolveW \o RecoverCartesianWind \o Invalidate \o ShadowWind(c), M, N)
    BY <2>2, <2>3, FlowsOn
  <2> QED
    BY <1>3, <2>4 DEF ComputeWindFields, N
<1>4. CASE ~Cartesian(c)
  <2>1. Flows(c, SolveGeneralized(c, initial), M, Swept(M))
    BY <1>4, GeneralizedWindy DEF Windy
  <2>2. Flows(c, SolveGeneralized(c, initial) \o Invalidate \o CopyZeta, M, N)
    BY <1>2, <2>1, FlowsOn, CopiesCalm, CalmAfter
  <2> QED
    BY <1>4, <2>2 DEF ComputeWindFields, N
<1> QED
  BY <1>3, <1>4

LEMMA EndCalm ==
  ASSUME NEW c \in Configurations
  PROVE  Calm(c, PredictTopWind(c)) /\ Calm(c, DiagnosticFields(c))
<1>1. /\ \A fs \in {{"u_con", "v_con"}, {"w"}, {"RKM"}, {"R"}, {"v_con", "w"}, {"u_con", "w"}} : fs \in AnyFields /\ "qp" \notin fs
      /\ {"R"} \in CalmFields
  BY FieldNames DEF CalmFields, StillFields, AnyFields, MeanOf
<1>2. Calm(c, PredictTopWind(c))
  BY <1>1, Reads, Sequences, Conditions DEF PredictTopWind
<1>3. Calm(c, DiagnosticFields(c))
  BY <1>1, Reads, Writes, Exchanges, Sequences, Conditions
     DEF DiagnosticFields, DeformationXi, DeformationEta, DeformationZeta
<1> QED
  BY <1>2, <1>3

---------------------------------------------------------------------------------
(* The initialization starts without a mean wind and makes one only at its end.       *)
Start == [wind |-> "none", summed |-> FALSE]
Entry == [wind |-> "sound", summed |-> FALSE]
Early(c, P) == Flows(c, P, Start, Start)

LEMMA StartMarks == Start \in Marks /\ Entry \in Marks /\ Behind(Start) = Start /\ Swept(Start) = Start
BY DEF Start, Entry, Marks, Winds, Behind, Swept

LEMMA EarlyParts ==
  \A c : /\ \A P : Calm(c, P) \/ Moist(c, P) \/ Windy(c, P) => Early(c, P)
         /\ \A P, Q : Early(c, P) /\ Early(c, Q) => Early(c, P \o Q)
         /\ \A b, P : (b => Early(c, P)) => Early(c, When(b, P))
         /\ \A fs \in AnyFields, d \in Nat : Early(c, Write(fs, d))
<1> TAKE c
<1>1. \A P : Calm(c, P) \/ Moist(c, P) \/ Windy(c, P) => Early(c, P)
  BY StartMarks DEF Calm, Moist, Windy, Early
<1>2. \A P, Q : Early(c, P) /\ Early(c, Q) => Early(c, P \o Q)
  BY FlowsOn DEF Early
<1>3. \A b, P : (b => Early(c, P)) => Early(c, When(b, P))
  BY <1>1, Nothing DEF When
<1>4. ASSUME NEW fs \in AnyFields, NEW d \in Nat PROVE Early(c, Write(fs, d))
  <2> DEFINE k == [op |-> "write", fields |-> fs, depth |-> d]
  <2>1. k \in ProgramOps /\ k.op = "write" /\ k.fields = fs
    BY DEF ProgramOps, AnyFields
  <2> HIDE DEF k
  <2>2. Effect(c, k, Start, Start)
    BY <2>1 DEF Effect, Weakens, Blown, Start
  <2>3. Flows(c, <<k>>, Start, Start)
    BY <2>1, <2>2, StartMarks, FlowsOnce
  <2> QED
    BY <2>3 DEF Early, Write, k
<1> QED
  BY <1>1, <1>2, <1>3, <1>4

LEMMA StateEarly ==
  ASSUME NEW c \in Configurations
  PROVE  Early(c, InitializeState(c))
<1>1. \A fs \in {{"u", "v", "w", "th", "qv"}, {"xi", "eta"}, {"xi_con", "eta_con", "zeta"}, {"xi_con", "eta_con"}, {"th"} \cup Vorticity,
                 {"th"}, {"u", "v", "w"}} : fs \in AnyFields
  BY FieldNames DEF AnyFields, Vorticity
<1>2. Halo \in Nat
  BY HaloAssumption
<1>3. Early(c, SyncPhysical(c))
  BY CopiesCalm, EarlyParts
<1>4. \A fs \in AnyFields : Early(c, Write(fs, Halo)) /\ Early(c, Write(fs, 0)) /\ Early(c, Exchange(fs))
  BY <1>2, Exchanges, EarlyParts
<1>5. Early(c, AssignVars(c))
  BY <1>1, <1>3, <1>4, EarlyParts DEF AssignVars
<1>6. Early(c, InitializePerturbation(c))
  BY <1>1, <1>4, EarlyParts DEF InitializePerturbation
<1>7. Early(c, LoadRestart(c))
  <2>1. Scalars(c) \in AnyFields
    BY Shapes DEF StillFields
  <2>2. RestartFields(c) \in AnyFields
    BY <2>1, FieldNames DEF RestartFields, AnyFields, Vorticity
  <2> QED
    BY <1>4, <2>2, EarlyParts DEF LoadRestart, ReadAndInitialize
<1> QED
  BY <1>5, <1>6, <1>7, EarlyParts DEF InitializeState

(* A restart with P3 sums the condensate it has read.                              *)
LEMMA BoundariesFlow ==
  ASSUME NEW c \in Configurations
  PROVE  \E N \in Marks : /\ Flows(c, RestoreBoundaries(c), Start, N) /\ N.wind = "none"
                          /\ c.start = "restart" /\ c.micro = "p3" => N.summed
<1> DEFINE N == [Start EXCEPT !.summed = TRUE]
           P == Exchange(ThermodynamicsVars(c)) \o Exchange(Vorticity)
<1>1. N \in Marks /\ N.wind = "none" /\ N.summed = TRUE /\ Start \in Marks /\ Start.wind = "none"
  BY DEF Start, Marks, Winds
<1>2. Flows(c, P, Start, Start)
  <2>1. ThermodynamicsVars(c) \in AnyFields /\ Vorticity \in AnyFields
    BY FieldNames, Shapes DEF StillFields, AnyFields, Vorticity
  <2> QED
    BY <1>1, <2>1, Exchanges, Sequences DEF Calm
<1>3. Flows(c, RefreshCondensate, Start, N)
  BY <1>1, Refreshes
<1> HIDE DEF N, P
<1>4. CASE c.start = "restart" /\ c.micro = "p3"
  <2>1. Flows(c, P \o RefreshCondensate, Start, N)
    BY <1>2, <1>3, FlowsOn
  <2> QED
    BY <1>1, <1>4, <2>1 DEF RestoreBoundaries, When, P
<1>5. CASE c.start = "restart" /\ c.micro # "p3"
  <2>1. Flows(c, P \o <<>>, Start, Start)
    BY <1>2, Nothing, CalmAfter
  <2> QED
    BY <1>1, <1>5, <2>1 DEF RestoreBoundaries, When, P
<1>6. CASE c.start # "restart"
  BY <1>1, <1>6, FlowsNowhere, WeakensItself DEF RestoreBoundaries, When
<1> QED
  BY <1>4, <1>5, <1>6

LEMMA InitialWindFlows ==
  ASSUME NEW c \in Configurations, NEW M \in Marks, M.wind = "none"
  PROVE  Calm(c, AlignCopies(c)) /\ Flows(c, InitialWind(c), M, M)
<1>1. Calm(c, AlignCopies(c))
  <2>1. {"xi_con", "eta_con"} \in AnyFields
    BY FieldNames DEF AnyFields
  <2> QED
    BY <2>1, CopiesCalm, Exchanges, Sequences, Conditions DEF AlignCopies
<1>2. Swept(M) = M /\ [wind |-> "none", summed |-> M.summed] = M
  BY DEF Swept, Marks
<1>3. Flows(c, ShadowWind(c), M, M)
  BY <1>2, CopiesCalm DEF Windy
<1>4. Flows(c, ComputeWindFields(c, TRUE), M, M)
  BY <1>2, WindFlows
<1>5. Flows(c, <<>>, M, M)
  BY Nothing DEF Calm
<1>6. Flows(c, InitialWind(c), M, M)
  BY <1>3, <1>4, <1>5 DEF InitialWind, When
<1> QED
  BY <1>1, <1>6

LEMMA HistoryFlows ==
  ASSUME NEW c \in Configurations, NEW M \in Marks, M.wind = "none",
         c.start = "restart" /\ c.micro = "p3" => M.summed
  PROVE  \E N \in Marks : Flows(c, RestartHistory(c), M, N) /\ N.wind # "unknown"
<1>1. CASE c.start # "restart"
  BY <1>1, FlowsNowhere, WeakensItself DEF RestartHistory, When
<1>2. CASE c.start = "restart"
  <2> DEFINE S == IF Cartesian(c) THEN Read({"u", "v"}, 0)
                  ELSE IF c.canonical THEN SeedFromContravariant(c) ELSE SeedFromPhysical
             O == [M EXCEPT !.wind = "Scalar"]
  <2>1. Calm(c, S)
    <3>1. {"u", "v"} \in AnyFields
      BY FieldNames DEF AnyFields
    <3>2. Calm(c, Read({"u", "v"}, 0))
      BY <3>1, Reads
    <3> QED
      BY <3>2, GeneralizedWindy
  <2>2. SingleStage(c) \in AnyFields
    BY Shapes DEF StillFields
  <2>3. Flows(c, AdvectScalars(c, SingleStage(c)), M, O)
    BY <2>2, AdvectFlows
  <2>4. O \in Marks /\ O.wind # "unknown" /\ (Refreshed(c) => O.summed)
    BY <1>2 DEF Marks, Winds, Variants, Refreshed
  <2> HIDE DEF S, O
  <2>5. PICK N \in Marks : Flows(c, VorticityTendencies(c), O, N) /\ N.wind # "unknown"
    BY <2>4, TendenciesFlow
  <2>6. Flows(c, S \o AdvectScalars(c, SingleStage(c)) \o VorticityTendencies(c), M, N)
    BY <2>1, <2>3, <2>5, CalmBefore, FlowsOn
  <2> QED
    BY <1>2, <2>5, <2>6 DEF RestartHistory, When, S
<1> QED
  BY <1>1, <1>2

LEMMA InitializationFlows ==
  ASSUME NEW c \in Configurations
  PROVE  Flows(c, Initialization(c), Start, Entry)
<1>1. Flows(c, InitializeState(c), Start, Start)
  BY StateEarly DEF Early
<1>2. PICK M \in Marks : /\ Flows(c, RestoreBoundaries(c), Start, M) /\ M.wind = "none"
                         /\ c.start = "restart" /\ c.micro = "p3" => M.summed
  BY BoundariesFlow
<1>3. Calm(c, AlignCopies(c)) /\ Flows(c, InitialWind(c), M, M) /\ Calm(c, DiagnosticFields(c))
  BY <1>2, InitialWindFlows, EndCalm
<1>4. PICK N \in Marks : Flows(c, RestartHistory(c), M, N) /\ N.wind # "unknown"
  BY <1>2, HistoryFlows
<1>5. Weakens(N, Entry)
  BY <1>4 DEF Weakens, Entry, Marks, Winds
<1>6. Flows(c, InitializeState(c) \o RestoreBoundaries(c), Start, M)
  BY <1>1, <1>2, FlowsOn
<1>7. Flows(c, InitializeState(c) \o RestoreBoundaries(c) \o AlignCopies(c), Start, M)
  BY <1>3, <1>6, CalmAfter
<1>8. Flows(c, InitializeState(c) \o RestoreBoundaries(c) \o AlignCopies(c) \o InitialWind(c), Start, M)
  BY <1>3, <1>7, FlowsOn
<1>9. Flows(c, InitializeState(c) \o RestoreBoundaries(c) \o AlignCopies(c) \o InitialWind(c)
                 \o DiagnosticFields(c), Start, M)
  BY <1>3, <1>8, CalmAfter
<1>10. Flows(c, Initialization(c), Start, N)
  BY <1>4, <1>9, FlowsOn DEF Initialization
<1> QED
  BY <1>5, <1>10, StartMarks, FlowsWeakened, WeakensItself

(* The step without its end keeps a mean wind that is none or that of the present    *)
(* wind.                                                                      *)
StepBody(c) ==
  ThermoTendencies(c) \o UpdateThermo(c) \o ApplyTracerSource(c)
    \o ApplyRandomForcing(c) \o RunP3(c) \o RunCleo(c)
    \o PhysicsThermo(c) \o CondensateForBuoyancy(c)
    \o VorticityTendencies(c) \o UpdateVorticity(c) \o PhysicsVorticity(c)
    \o When(c.wind, PredictTopWind(c) \o ComputeWindFields(c, FALSE))
    \o DiagnosticFields(c)

LEMMA StepFlows ==
  ASSUME NEW c \in Configurations
  PROVE  \E N \in Marks : Flows(c, StepBody(c), Entry, N) /\ N.wind # "unknown"
<1> DEFINE S == [Entry EXCEPT !.wind = "Scalar"]
<1>1. S \in Marks /\ S.wind # "unknown" /\ Entry \in Marks /\ Entry.wind # "unknown"
  BY StartMarks DEF Entry, Marks, Winds, Variants
<1>2. Flows(c, ThermoTendencies(c), Entry, S)
  BY <1>1, ThermoFlows
<1> HIDE DEF S
<1>3. PICK T \in Marks : Flows(c, UpdateThermo(c), S, T) /\ T.wind # "unknown"
  BY <1>1, ThermoFlows
<1> DEFINE B == Behind(T)
<1>4. B \in Marks /\ B.wind # "unknown" /\ Behind(B) = B
  BY <1>3, MarksAreMarks DEF Behind
<1>5. Flows(c, RunP3(c), T, B)
  BY <1>3, PhysicsMoist DEF Moist
<1>6. Flows(c, PhysicsThermo(c), B, B)
  BY <1>4, PhysicsMoist DEF Moist
<1> HIDE DEF B
<1>7. PICK U \in Marks : /\ Flows(c, CondensateForBuoyancy(c), B, U) /\ U.wind = B.wind
                         /\ Refreshed(c) => U.summed
  BY <1>4, RefreshFlows
<1>8. PICK V \in Marks : Flows(c, VorticityTendencies(c), U, V) /\ V.wind # "unknown"
  BY <1>4, <1>7, TendenciesFlow
<1>9. PICK W \in Marks : /\ Flows(c, When(c.wind, PredictTopWind(c) \o ComputeWindFields(c, FALSE)), V, W)
                         /\ W.wind # "unknown"
  <2>1. CASE c.wind
    <3> DEFINE W == [wind |-> "none", summed |-> V.summed]
    <3>1. W \in Marks /\ W.wind # "unknown"
      BY DEF Marks, Winds
    <3>2. Flows(c, PredictTopWind(c) \o ComputeWindFields(c, FALSE), V, W)
      BY WindFlows, EndCalm, CalmBefore
    <3> QED
      BY <2>1, <3>1, <3>2 DEF When
  <2>2. CASE ~c.wind
    BY <1>8, <2>2, FlowsNowhere, WeakensItself DEF When
  <2> QED
    BY <2>1, <2>2
<1>10. /\ Calm(c, ApplyTracerSource(c)) /\ Calm(c, ApplyRandomForcing(c)) /\ Calm(c, RunCleo(c))
       /\ Calm(c, UpdateVorticity(c)) /\ Calm(c, PhysicsVorticity(c)) /\ Calm(c, DiagnosticFields(c))
  BY PhysicsMoist, VorticityCalm, EndCalm
<1>11. Flows(c, ThermoTendencies(c) \o UpdateThermo(c) \o ApplyTracerSource(c) \o ApplyRandomForcing(c), Entry, T)
  BY <1>2, <1>3, <1>10, FlowsOn, CalmAfter
<1>12. Flows(c, ThermoTendencies(c) \o UpdateThermo(c) \o ApplyTracerSource(c) \o ApplyRandomForcing(c)
                  \o RunP3(c) \o RunCleo(c) \o PhysicsThermo(c), Entry, B)
  <2> DEFINE P == ThermoTendencies(c) \o UpdateThermo(c) \o ApplyTracerSource(c) \o ApplyRandomForcing(c)
  <2>1. Flows(c, P, Entry, T)
    BY <1>11
  <2> HIDE DEF P
  <2>2. Flows(c, P \o RunP3(c) \o RunCleo(c) \o PhysicsThermo(c), Entry, B)
    BY <1>5, <1>6, <1>10, <2>1, FlowsOn, CalmAfter
  <2> QED
    BY <2>2 DEF P
<1>13. Flows(c, StepBody(c), Entry, W)
  <2> DEFINE P == ThermoTendencies(c) \o UpdateThermo(c) \o ApplyTracerSource(c) \o ApplyRandomForcing(c)
                    \o RunP3(c) \o RunCleo(c) \o PhysicsThermo(c)
             Q == P \o CondensateForBuoyancy(c) \o VorticityTendencies(c) \o UpdateVorticity(c) \o PhysicsVorticity(c)
  <2>1. Flows(c, P, Entry, B)
    BY <1>12
  <2> HIDE DEF P
  <2>2. Flows(c, Q, Entry, V)
    BY <1>7, <1>8, <1>10, <2>1, FlowsOn, CalmAfter
  <2> HIDE DEF Q
  <2>3. Flows(c, Q \o When(c.wind, PredictTopWind(c) \o ComputeWindFields(c, FALSE)) \o DiagnosticFields(c), Entry, W)
    BY <1>9, <1>10, <2>2, FlowsOn, CalmAfter
  <2> QED
    BY <2>3 DEF StepBody, Q, P
<1> QED
  BY <1>9, <1>13

---------------------------------------------------------------------------------
(* The whole code of run n, but for the end of its step, and an annotation of it.       *)
Body(n) == Initialization(Configuration[n]) \o StepBody(Configuration[n])

(* It starts at a mark S, and returns to a mark E for each step.                       *)
IsAnnotation(A, S, E, n, m) ==
  Annotates(A, Body(n), m) /\ Below(A, S, m[1]) /\ Below(A, E, m[FirstOfStep[n]])

LEMMA RunsRead ==
  ASSUME NEW n \in Runs
  PROVE  n \in DOMAIN Configuration /\ Configuration[n] \in Configurations
<1>1. n \in DOMAIN Configuration /\ Configuration \in Seq(Configurations)
  BY RunsAssumption
<1> QED
  BY <1>1, LenProperties, ElementOfSeq

LEMMA CodeShape ==
  ASSUME NEW n \in Runs
  PROVE  /\ Body(n) \in Seq(ProgramOps) /\ Len(Body(n)) \in Nat
         /\ FirstOfStep[n] = Len(Initialization(Configuration[n])) + 1
         /\ FirstOfStep[n] \in 1..Len(Body(n)) + 1
         /\ \A i \in 1..Len(Body(n)) : Code[n][i] = Body(n)[i] /\ Body(n)[i] \in ProgramOps
         /\ Code[n][Len(Body(n)) + 1] = [op |-> "done"]
<1> DEFINE c == Configuration[n]
           D == 1..Len(Configuration)
           programs == [j \in D |-> Initialization(Configuration[j]) \o Step(Configuration[j])]
           places == [j \in D |-> Len(Initialization(Configuration[j])) + 1]
           done == [op |-> "done"]
<1>1. Configuration \in Seq(Configurations) /\ DOMAIN Configuration = D /\ Len(Configuration) \in Nat
  BY RunsAssumption, LenProperties
<1>2. n \in D /\ c \in Configurations /\ \A j \in D : Configuration[j] \in Configurations
  BY <1>1, RunsRead, ElementOfSeq
<1>3. \A j \in D : /\ Initialization(Configuration[j]) \in Seq(ProgramOps)
                   /\ StepBody(Configuration[j]) \in Seq(ProgramOps)
  BY <1>2, InitializationFlows, StepFlows, FlowsTypes
<1>4. /\ StepDone \in Seq(ProgramOps) /\ Len(StepDone) = 1 /\ StepDone[1] = done
      /\ \A j \in D : Step(Configuration[j]) = StepBody(Configuration[j]) \o StepDone
  <2>1. done \in ProgramOps
    BY DEF ProgramOps
  <2> QED
    BY <2>1 DEF StepDone, Step, StepBody
<1>5. \A j \in D : Step(Configuration[j]) \in Seq(ProgramOps)
  BY <1>3, <1>4, ConcatProperties
<1>6. Code[n] = Initialization(c) \o Step(c)
  <2>1. programs \in Seq(Seq(ProgramOps))
    <3>1. \A j \in D : Initialization(Configuration[j]) \o Step(Configuration[j]) \in Seq(ProgramOps)
      BY <1>3, <1>5, ConcatProperties
    <3> HIDE DEF programs
    <3>2. programs \in [D -> Seq(ProgramOps)]
      BY <3>1 DEF programs
    <3> QED
      BY <1>1, <3>2, SeqDef
  <2>2. Code = <<>> \o programs
    BY <1>1 DEF Code
  <2>3. Code = programs
    <3> HIDE DEF programs
    <3> QED
      BY <2>1, <2>2, ConcatEmptySeq
  <2> QED
    BY <1>2, <2>3
<1>7. FirstOfStep[n] = Len(Initialization(c)) + 1
  <2>1. places \in Seq(Nat)
    <3>1. \A j \in D : Len(Initialization(Configuration[j])) + 1 \in Nat
      BY <1>3, LenProperties
    <3> HIDE DEF places
    <3>2. places \in [D -> Nat]
      BY <3>1 DEF places
    <3> QED
      BY <1>1, <3>2, SeqDef
  <2>2. FirstOfStep = <<>> \o places
    BY <1>1 DEF FirstOfStep
  <2>3. FirstOfStep = places
    <3> HIDE DEF places
    <3> QED
      BY <2>1, <2>2, ConcatEmptySeq
  <2> QED
    BY <1>2, <2>3
<1> DEFINE P == Initialization(c)
           Q == StepBody(c)
<1>8. P \in Seq(ProgramOps) /\ Q \in Seq(ProgramOps)
  BY <1>2, <1>3
<1>9. Code[n] = P \o (Q \o StepDone)
  BY <1>2, <1>4, <1>6
<1>10. Body(n) = P \o Q
  BY DEF Body
<1>11. FirstOfStep[n] = Len(P) + 1
  BY <1>7
<1> HIDE DEF P, Q, done
<1>12. Code[n] = Body(n) \o StepDone
  BY <1>4, <1>8, <1>9, <1>10, ConcatAssociative
<1>13. Body(n) \in Seq(ProgramOps) /\ Len(Body(n)) = Len(P) + Len(Q) /\ Len(P) \in Nat /\ Len(Q) \in Nat
  BY <1>8, <1>10, ConcatProperties, LenProperties
<1> DEFINE B == Body(n)
           b == Len(B)
<1>14. B \in Seq(ProgramOps) /\ b \in Nat /\ Code[n] = B \o StepDone /\ FirstOfStep[n] \in 1..b + 1
  BY <1>11, <1>12, <1>13
<1>15. /\ \A i \in 1..b : B[i] \in ProgramOps
       /\ \A i \in 1..b + 1 : (B \o StepDone)[i] = IF i <= b THEN B[i] ELSE StepDone[i - b]
  <2> HIDE DEF B
  <2>1. \A i \in 1..b : B[i] \in ProgramOps
    BY <1>14, ElementOfSeq
  <2>2. \A i \in 1..b + Len(StepDone) : (B \o StepDone)[i] = IF i <= b THEN B[i] ELSE StepDone[i - b]
    BY <1>4, <1>14, ConcatProperties
  <2> QED
    BY <1>4, <2>1, <2>2
<1> HIDE DEF B
<1>16. \A i \in 1..b : Code[n][i] = B[i]
  BY <1>14, <1>15
<1>17. Code[n][b + 1] = done
  <2>1. b + 1 \in 1..b + 1 /\ ~(b + 1 <= b) /\ (b + 1) - b = 1
    BY <1>14
  <2> QED
    BY <1>4, <1>14, <1>15, <2>1
<1> QED
  BY <1>7, <1>14, <1>15, <1>16, <1>17 DEF B, done

LEMMA RunIsAnnotated ==
  ASSUME NEW A, IsAnalysis(A), NEW n \in Runs, NEW S, NEW E, NEW N,
         Leads(A, Initialization(Configuration[n]), S, E), Leads(A, StepBody(Configuration[n]), E, N)
  PROVE  \E m : IsAnnotation(A, S, E, n, m) /\ Below(A, m[Len(Body(n)) + 1], N)
<1> DEFINE c == Configuration[n]
<1>1. PICK m : /\ Annotates(A, Initialization(c) \o StepBody(c), m) /\ Below(A, S, m[1])
               /\ Below(A, E, m[Len(Initialization(c)) + 1])
               /\ Below(A, m[Len(Initialization(c) \o StepBody(c)) + 1], N)
  BY LeadsThrough
<1>2. FirstOfStep[n] = Len(Initialization(c)) + 1
  BY CodeShape
<1> QED
  BY <1>1, <1>2 DEF IsAnnotation, Body

LEMMA AlongTheRun ==
  ASSUME NEW A, NEW n \in Runs, NEW S, NEW E, NEW m, IsAnnotation(A, S, E, n, m),
         NEW i \in 1..Len(Body(n)) + 1
  PROVE  LET k == Code[n][i]
         IN /\ m[1] \in A.marks /\ Below(A, S, m[1])
            /\ m[FirstOfStep[n]] \in A.marks /\ Below(A, E, m[FirstOfStep[n]])
            /\ m[i] \in A.marks
            /\ k.op # "done" => /\ k \in ProgramOps /\ Takes(A, k, m[i], m[i + 1])
                                /\ i + 1 \in 1..Len(Body(n)) + 1 /\ m[i + 1] \in A.marks
            /\ k.op = "perhaps" => LET to == i + 1 + k.skip
                                   IN  to \in 1..Len(Body(n)) + 1 /\ m[to] \in A.marks /\ Below(A, m[i], m[to])
<1> DEFINE k == Code[n][i]
           b == Len(Body(n))
<1>1. /\ m \in [1..b + 1 -> A.marks] /\ Below(A, S, m[1]) /\ Below(A, E, m[FirstOfStep[n]])
      /\ \A j \in 1..b : /\ Takes(A, Body(n)[j], m[j], m[j + 1])
                         /\ Body(n)[j].op = "perhaps" =>
                              j + 1 + Body(n)[j].skip \in 1..b + 1 /\ Below(A, m[j], m[j + 1 + Body(n)[j].skip])
  BY DEF IsAnnotation, Annotates
<1>2. /\ b \in Nat /\ FirstOfStep[n] \in 1..b + 1
      /\ \A j \in 1..b : Code[n][j] = Body(n)[j] /\ Body(n)[j] \in ProgramOps
      /\ Code[n][b + 1] = [op |-> "done"]
  BY CodeShape
<1>3. k = Code[n][i] /\ i \in 1..b + 1
  OBVIOUS
<1> HIDE DEF k, b
<1>4. /\ m[1] \in A.marks /\ Below(A, S, m[1])
      /\ m[FirstOfStep[n]] \in A.marks /\ Below(A, E, m[FirstOfStep[n]])
  BY <1>1, <1>2
<1>5. CASE i = b + 1
  <2>1. k.op = "done"
    BY <1>2, <1>3, <1>5
  <2> QED
    BY <1>1, <1>3, <1>4, <2>1 DEF k, b
<1>6. CASE i \in 1..b
  <2>1. /\ k = Body(n)[i] /\ k \in ProgramOps /\ Takes(A, k, m[i], m[i + 1])
        /\ i + 1 \in 1..b + 1 /\ m[i] \in A.marks /\ m[i + 1] \in A.marks
    BY <1>1, <1>2, <1>3, <1>6
  <2>2. ASSUME k.op = "perhaps"
        PROVE  i + 1 + k.skip \in 1..b + 1 /\ m[i + 1 + k.skip] \in A.marks /\ Below(A, m[i], m[i + 1 + k.skip])
    BY <1>1, <1>6, <2>1, <2>2
  <2> QED
    BY <1>4, <2>1, <2>2 DEF k, b
<1> QED
  BY <1>2, <1>3, <1>5, <1>6

---------------------------------------------------------------------------------
(* The program leads from a run without a mean wind to the entry of its step, and back.  *)
Annotation ==
  [n \in Runs |-> CHOOSE m : IsAnnotation(MeanAnalysis(Configuration[n]), Start, Entry, n, m)]

LEMMA Annotated ==
  ASSUME NEW n \in Runs
  PROVE  IsAnnotation(MeanAnalysis(Configuration[n]), Start, Entry, n, Annotation[n])
<1> DEFINE c == Configuration[n]
<1>1. c \in Configurations
  BY RunsRead
<1>2. PICK N \in Marks : Flows(c, StepBody(c), Entry, N)
  BY <1>1, StepFlows
<1>3. Flows(c, Initialization(c), Start, Entry)
  BY <1>1, InitializationFlows
<1>4. \E m : IsAnnotation(MeanAnalysis(c), Start, Entry, n, m)
  BY <1>2, <1>3, MeansAnalysed, RunIsAnnotated DEF Flows
<1> QED
  BY <1>4 DEF Annotation

(* What a mark says of a state.                                                   *)
MeetsWind(wind, made) ==
  /\ wind = "none" => made.variant = "None"
  /\ wind = "sound" => (made.variant # "None" /\ made.step = "this" => made.present)
  /\ wind \in Variants => made.variant = wind /\ made.present
Meets(M, made, changed) == MeetsWind(M.wind, made) /\ (M.summed => "condensate" \notin changed)

MeanTypes == [variant : Variants \cup {"None"}, step : {"this", "before"}, present : BOOLEAN]

MarkInv ==
  /\ number \in Runs
  /\ pc \in 1..Len(Body(number)) + 1
  /\ mean \in MeanTypes
  /\ Meets(Annotation[number][pc], mean, ahead)

LEMMA MeetsWeakened ==
  \A M, N \in Marks : \A made, changed :
    Meets(M, made, changed) /\ Weakens(M, N) => Meets(N, made, changed)
BY DEF Meets, MeetsWind, Weakens, Marks, Winds, Variants

(* The operation at pc, and the marks before it and after it.                         *)
LEMMA AtAnOperation ==
  ASSUME number \in Runs, pc \in 1..Len(Body(number)) + 1
  PROVE  LET m == Annotation[number]
             k == Instruction
         IN /\ m[1] \in Marks /\ Weakens(Start, m[1])
            /\ m[FirstOfStep[number]] \in Marks /\ Weakens(Entry, m[FirstOfStep[number]])
            /\ m[pc] \in Marks
            /\ k.op # "done" => /\ k \in ProgramOps /\ Effect(run, k, m[pc], m[pc + 1])
                                /\ pc + 1 \in 1..Len(Body(number)) + 1 /\ m[pc + 1] \in Marks
            /\ k.op = "perhaps" => LET to == pc + 1 + k.skip
                                   IN  to \in 1..Len(Body(number)) + 1 /\ m[to] \in Marks /\ Weakens(m[pc], m[to])
<1> DEFINE m == Annotation[number]
           k == Code[number][pc]
           A == MeanAnalysis(run)
<1>1. IsAnnotation(A, Start, Entry, number, m)
  BY Annotated DEF run
<1>2. /\ A.marks = Marks
      /\ \A M, N \in Marks : Below(A, M, N) <=> Weakens(M, N)
      /\ \A o \in ProgramOps, M, N \in Marks : Takes(A, o, M, N) <=> Effect(run, o, M, N)
  BY MeansAnalysed
<1> HIDE DEF A, m
<1>3. /\ m[1] \in A.marks /\ Below(A, Start, m[1])
      /\ m[FirstOfStep[number]] \in A.marks /\ Below(A, Entry, m[FirstOfStep[number]])
      /\ m[pc] \in A.marks
      /\ k.op # "done" => /\ k \in ProgramOps /\ Takes(A, k, m[pc], m[pc + 1])
                          /\ pc + 1 \in 1..Len(Body(number)) + 1 /\ m[pc + 1] \in A.marks
      /\ k.op = "perhaps" => LET to == pc + 1 + k.skip
                             IN  to \in 1..Len(Body(number)) + 1 /\ m[to] \in A.marks /\ Below(A, m[pc], m[to])
  BY <1>1, AlongTheRun
<1>4. Instruction = k
  BY DEF Instruction
<1> HIDE DEF k
<1> QED
  BY <1>2, <1>3, <1>4, StartMarks DEF m

(* A state that meets what the operation makes of a mark meets the mark that follows.     *)
LEMMA MarkReached ==
  ASSUME MarkInv, Instruction.op # "done", Advance, mean' \in MeanTypes,
         NEW M \in Marks, Meets(M, mean', ahead'), Weakens(M, Annotation[number][pc + 1])
  PROVE  MarkInv'
<1>1. /\ number \in Runs /\ pc + 1 \in 1..Len(Body(number)) + 1 /\ Annotation[number][pc + 1] \in Marks
      /\ number' = number /\ pc' = pc + 1
  BY AtAnOperation DEF MarkInv, Advance
<1>2. Meets(Annotation[number][pc + 1], mean', ahead')
  BY <1>1, MeetsWeakened
<1>3. (Len(Body(number)))' = Len(Body(number))
  BY <1>1 DEF Body
<1> QED
  BY <1>1, <1>2, <1>3 DEF MarkInv

(* Operations that neither the mean wind nor the condensate takes notice of.            *)
LEMMA MarkUnmoved ==
  ASSUME MarkInv, Advance, UNCHANGED <<ahead, mean>>,
         Instruction.op \in {"read", "exchange", "advect", "swap", "graph", "perhaps"}
  PROVE  MarkInv'
<1> DEFINE M == Annotation[number][pc]
<1>1. M \in Marks /\ Effect(run, Instruction, M, Annotation[number][pc + 1]) /\ Meets(M, mean, ahead) /\ mean \in MeanTypes
  BY AtAnOperation DEF MarkInv
<1> HIDE DEF M
<1>2. [wind |-> M.wind, summed |-> M.summed] = M
  BY <1>1 DEF Marks
<1>3. Weakens(M, Annotation[number][pc + 1])
  BY <1>1, <1>2 DEF Effect
<1>4. Meets(M, mean', ahead') /\ mean' \in MeanTypes
  BY <1>1 DEF Meets, MeetsWind
<1> QED
  BY <1>1, <1>3, <1>4, MarkReached

LEMMA MarkRenewed ==
  ASSUME MarkInv, NEW fs, fs = Instruction.fields, Renew(fs)
  PROVE  /\ mean' \in MeanTypes
         /\ Blown(Annotation[number][pc], fs) \in Winds
         /\ MeetsWind(Blown(Annotation[number][pc], fs), mean')
<1> DEFINE M == Annotation[number][pc]
<1>1. M \in Marks /\ Meets(M, mean, ahead) /\ mean \in MeanTypes
  BY AtAnOperation DEF MarkInv
<1> HIDE DEF M
<1>2. /\ mean'.variant = mean.variant /\ mean'.step = mean.step
      /\ mean'.present = (mean.present /\ fs \cap MeanOf = {}) /\ mean' \in MeanTypes
  BY <1>1 DEF Renew, MeanTypes
<1>3. CASE M.wind = "none"
  BY <1>1, <1>2, <1>3 DEF Blown, Meets, MeetsWind, Marks, Winds, Variants, M
<1>4. CASE M.wind # "none" /\ \A f \in MeanOf : f \notin fs
  <2>1. mean'.present = mean.present
    BY <1>1, <1>2, <1>4 DEF MeanTypes
  <2>2. Blown(M, fs) = M.wind
    BY <1>4 DEF Blown
  <2> QED
    BY <1>1, <1>2, <2>1, <2>2 DEF Meets, MeetsWind, Marks, M
<1>5. CASE M.wind # "none" /\ ~\A f \in MeanOf : f \notin fs
  BY <1>2, <1>5 DEF Blown, MeetsWind, Winds, Variants, M
<1> QED
  BY <1>3, <1>4, <1>5

LEMMA MarkWritten == ASSUME MarkInv, WriteFields PROVE MarkInv'
<1> DEFINE M == Annotation[number][pc]
           fs == Instruction.fields
           N == [wind |-> Blown(M, fs), summed |-> M.summed /\ "condensate" \notin fs]
<1>1. Instruction.op = "write" /\ Advance /\ Renew(fs)
      /\ ahead' = (ahead \ (fs \cup Partners(fs))) \cup {f \in fs : Partners({f}) \ fs # {}}
  BY DEF WriteFields, At
<1>2. M \in Marks /\ Meets(M, mean, ahead) /\ Effect(run, Instruction, M, Annotation[number][pc + 1])
  BY <1>1, AtAnOperation DEF MarkInv
<1>3. mean' \in MeanTypes /\ Blown(M, fs) \in Winds /\ MeetsWind(Blown(M, fs), mean')
  BY <1>1, MarkRenewed
<1>4. Weakens(N, Annotation[number][pc + 1])
  BY <1>1, <1>2 DEF Effect
<1> HIDE DEF M
<1>5. N \in Marks /\ N.wind = Blown(M, fs) /\ N.summed = (M.summed /\ "condensate" \notin fs)
  BY <1>2, <1>3 DEF Marks
<1> HIDE DEF N
<1>6. N.summed => "condensate" \notin ahead'
  BY <1>1, <1>2, <1>5 DEF Meets
<1>7. Meets(N, mean', ahead')
  BY <1>3, <1>5, <1>6 DEF Meets, MeetsWind
<1> QED
  BY <1>1, <1>3, <1>4, <1>5, <1>7, MarkReached

LEMMA MarkDerived == ASSUME MarkInv, DeriveFields PROVE MarkInv'
<1> DEFINE M == Annotation[number][pc]
           fs == Instruction.fields
           agreeing == {f \in fs : Partners({f}) \cap Instruction.from # {}}
           N == [wind |-> Blown(M, fs), summed |-> M.summed \/ "qp" \in fs]
<1>1. Instruction.op = "derive" /\ Advance /\ Renew(fs)
      /\ ahead' = (ahead \ (agreeing \cup Partners(fs))) \cup {f \in fs \ agreeing : Partners({f}) \ fs # {}}
  BY DEF DeriveFields, At
<1>2. M \in Marks /\ Meets(M, mean, ahead) /\ Effect(run, Instruction, M, Annotation[number][pc + 1])
  BY <1>1, AtAnOperation DEF MarkInv
<1>3. mean' \in MeanTypes /\ Blown(M, fs) \in Winds /\ MeetsWind(Blown(M, fs), mean')
  BY <1>1, MarkRenewed
<1>4. Weakens(N, Annotation[number][pc + 1]) /\ "condensate" \notin fs
  BY <1>1, <1>2 DEF Effect
<1> HIDE DEF M, agreeing
<1>5. N \in Marks /\ N.wind = Blown(M, fs) /\ N.summed = (M.summed \/ "qp" \in fs)
  BY <1>2, <1>3 DEF Marks
<1> HIDE DEF N
<1>6. "qp" \in fs => "condensate" \in Partners(fs)
  <2>1. {"condensate", "qp"} \in Copies
    BY DEF Copies
  <2>2. "qp" \in fs => {"condensate", "qp"} \in {d \in Copies : d \cap fs # {}}
    BY <2>1
  <2>3. "condensate" \in {"condensate", "qp"} \ fs
    BY <1>4
  <2> QED
    BY <2>2, <2>3 DEF Partners
<1>7. N.summed => "condensate" \notin ahead'
  BY <1>1, <1>2, <1>4, <1>5, <1>6 DEF Meets
<1>8. Meets(N, mean', ahead')
  BY <1>3, <1>5, <1>7 DEF Meets, MeetsWind
<1> QED
  BY <1>1, <1>3, <1>4, <1>5, <1>8, MarkReached

LEMMA MarkMeasured == ASSUME MarkInv, ComputeMeanWind PROVE MarkInv'
<1> DEFINE M == Annotation[number][pc]
           v == Instruction.variant
           N == [wind |-> v, summed |-> M.summed]
<1>1. /\ Instruction.op = "mean" /\ Advance /\ UNCHANGED ahead
      /\ IF Holds(v) THEN UNCHANGED mean
         ELSE mean' = [variant |-> v, step |-> "this", present |-> TRUE]
  BY DEF ComputeMeanWind, At
<1>2. M \in Marks /\ Meets(M, mean, ahead) /\ Effect(run, Instruction, M, Annotation[number][pc + 1]) /\ mean \in MeanTypes
      /\ Instruction \in ProgramOps
  BY <1>1, AtAnOperation DEF MarkInv
<1>3. v \in Variants
  BY <1>1, <1>2 DEF ProgramOps
<1>4. Weakens(N, Annotation[number][pc + 1]) /\ M.wind # "unknown"
  BY <1>1, <1>2 DEF Effect
<1> HIDE DEF M, v
<1>5. N \in Marks /\ N.wind = v /\ N.summed = M.summed
  BY <1>2, <1>3 DEF Marks, Winds
<1> HIDE DEF N
<1>6. mean'.variant = v /\ mean'.present /\ mean' \in MeanTypes
  <2>1. CASE Holds(v)
    BY <1>1, <1>2, <1>3, <1>4, <2>1 DEF Holds, Meets, MeetsWind, Marks, Winds, Variants
  <2>2. CASE ~Holds(v)
    <3>1. mean' = [variant |-> v, step |-> "this", present |-> TRUE]
      BY <1>1, <2>2
    <3> QED
      BY <1>3, <3>1 DEF MeanTypes
  <2> QED
    BY <2>1, <2>2
<1>7. Meets(N, mean', ahead')
  BY <1>1, <1>2, <1>3, <1>5, <1>6 DEF Meets, MeetsWind, Variants
<1> QED
  BY <1>1, <1>4, <1>5, <1>6, <1>7, MarkReached

LEMMA MarkForgotten == ASSUME MarkInv, InvalidateMeanWind PROVE MarkInv'
<1> DEFINE M == Annotation[number][pc]
           N == [wind |-> "none", summed |-> M.summed]
<1>1. Instruction.op = "invalidate" /\ Advance /\ UNCHANGED ahead /\ mean' = NoMean
  BY DEF InvalidateMeanWind, At
<1>2. M \in Marks /\ Meets(M, mean, ahead) /\ Effect(run, Instruction, M, Annotation[number][pc + 1])
  BY <1>1, AtAnOperation DEF MarkInv
<1>3. Weakens(N, Annotation[number][pc + 1])
  BY <1>1, <1>2 DEF Effect
<1> HIDE DEF M
<1>4. N \in Marks /\ N.wind = "none" /\ N.summed = M.summed
  BY <1>2 DEF Marks, Winds
<1> HIDE DEF N
<1>5. Meets(N, mean', ahead') /\ mean' \in MeanTypes
  BY <1>1, <1>2, <1>4 DEF Meets, MeetsWind, NoMean, MeanTypes, Variants
<1> QED
  BY <1>1, <1>3, <1>4, <1>5, MarkReached

LEMMA MarkSkipped == ASSUME MarkInv, Skip PROVE MarkInv'
<1> DEFINE M == Annotation[number][pc]
           to == pc + 1 + Instruction.skip
<1>1. Instruction.op = "perhaps" /\ pc' = to /\ number' = number /\ UNCHANGED <<ahead, mean>>
  BY DEF Skip, At
<1>2. /\ number \in Runs /\ to \in 1..Len(Body(number)) + 1 /\ M \in Marks /\ Meets(M, mean, ahead) /\ mean \in MeanTypes
      /\ Annotation[number][to] \in Marks /\ Weakens(M, Annotation[number][to])
  BY <1>1, AtAnOperation DEF MarkInv
<1>3. Meets(Annotation[number][to], mean, ahead)
  BY <1>2, MeetsWeakened
<1> HIDE DEF to
<1>4. (Len(Body(number)))' = Len(Body(number))
  BY <1>1 DEF Body
<1> QED
  BY <1>1, <1>2, <1>3, <1>4 DEF MarkInv

LEMMA MarkRestarted == ASSUME MarkInv, FinishStep PROVE MarkInv'
<1> DEFINE first == FirstOfStep[number]
           N == Annotation[number][first]
<1>1. pc' = first /\ number' = number /\ mean' = [mean EXCEPT !.step = "before"] /\ UNCHANGED ahead
  BY DEF FinishStep
<1>2. number \in Runs /\ first \in 1..Len(Body(number)) + 1 /\ mean \in MeanTypes
  BY CodeShape DEF MarkInv
<1>3. Weakens(Entry, N) /\ N \in Marks
  BY AtAnOperation DEF MarkInv
<1>4. mean'.step = "before" /\ mean' \in MeanTypes
  BY <1>1, <1>2 DEF MeanTypes
<1>5. Entry.wind = "sound" /\ Entry.summed = FALSE /\ N.wind \in {"sound", "unknown"} /\ N.summed = FALSE
  <2>1. Entry.wind = "sound" /\ Entry.summed = FALSE
    BY DEF Entry
  <2> HIDE DEF N
  <2> QED
    BY <1>3, <2>1 DEF Weakens, Marks, Variants
<1> HIDE DEF first
<1>6. (Len(Body(number)))' = Len(Body(number))
  BY <1>1 DEF Body
<1>7. Meets(N, mean', ahead')
  BY <1>1, <1>4, <1>5 DEF Meets, MeetsWind, Variants
<1> QED
  BY <1>1, <1>2, <1>4, <1>6, <1>7 DEF MarkInv

LEMMA MarkInit == Init => MarkInv
<1> SUFFICES ASSUME Init PROVE MarkInv
  OBVIOUS
<1> DEFINE N == Annotation[number][1]
<1>1. number \in Runs /\ pc = 1 /\ mean = NoMean /\ ahead = {}
  BY DEF Init
<1>2. Len(Body(number)) \in Nat
  BY <1>1, CodeShape
<1>3. 1 \in 1..Len(Body(number)) + 1
  BY <1>2
<1>4. Weakens(Start, N) /\ N \in Marks
  BY <1>1, <1>3, AtAnOperation
<1>5. Start.wind = "none" /\ N.wind \in {"none", "sound", "unknown"}
  <2>1. Start.wind = "none"
    BY DEF Start
  <2> HIDE DEF N
  <2> QED
    BY <1>4, <2>1 DEF Weakens
<1>6. mean \in MeanTypes /\ mean.variant = "None"
  BY <1>1 DEF NoMean, MeanTypes
<1>7. Meets(N, mean, ahead)
  BY <1>1, <1>5, <1>6 DEF Meets, MeetsWind, Variants
<1> QED
  BY <1>1, <1>3, <1>6, <1>7 DEF MarkInv

LEMMA MarkStep == MarkInv /\ [Next]_vars => MarkInv'
<1> SUFFICES ASSUME MarkInv, [Next]_vars PROVE MarkInv'
  OBVIOUS
<1>1. CASE WriteFields
  BY <1>1, MarkWritten
<1>2. CASE DeriveFields
  BY <1>2, MarkDerived
<1>3. CASE ComputeMeanWind
  BY <1>3, MarkMeasured
<1>4. CASE InvalidateMeanWind
  BY <1>4, MarkForgotten
<1>5. CASE Skip
  BY <1>5, MarkSkipped
<1>6. CASE FinishStep
  BY <1>6, MarkRestarted
<1>7. CASE ExchangeFields
  BY <1>7, MarkUnmoved DEF ExchangeFields, At
<1>8. CASE ReadFields
  BY <1>8, MarkUnmoved DEF ReadFields, At
<1>9. CASE AdvectFields
  BY <1>9, MarkUnmoved DEF AdvectFields, At
<1>10. CASE Enter
  BY <1>10, MarkUnmoved DEF Enter, At
<1>11. CASE SwapFields
  BY <1>11, MarkUnmoved DEF SwapFields, At
<1>12. CASE LaunchOrCapture
  BY <1>12, MarkUnmoved DEF LaunchOrCapture, At
<1>13. CASE UNCHANGED vars
  BY <1>13 DEF vars, MarkInv, Body
<1> QED
  BY <1>1, <1>2, <1>3, <1>4, <1>5, <1>6, <1>7, <1>8, <1>9, <1>10, <1>11, <1>12, <1>13 DEF Next

---------------------------------------------------------------------------------
LEMMA MarksHold == Spec => []MarkInv
BY MarkInit, MarkStep, PTL DEF Spec

(* A variable is transported by the mean wind of its own location, made of the wind the  *)
(* state holds, whatever the configuration and however many steps: the cached mean wind  *)
(* is not one of before the last solve (AdvectionTerm::compute_tendency_impl,          *)
(* MeanWindState::holds, invalidate_mean_wind).                                      *)
THEOREM MeanWindStaysPresent == Spec => []MeanWindIsPresent
<1>1. MarkInv => MeanWindIsPresent
  <2> SUFFICES ASSUME MarkInv, Instruction.op = "advect"
               PROVE  mean.present /\ mean.variant = Instruction.variant
    BY DEF MeanWindIsPresent, At
  <2> DEFINE M == Annotation[number][pc]
  <2>1. M \in Marks /\ Meets(M, mean, ahead) /\ Effect(run, Instruction, M, Annotation[number][pc + 1]) /\ Instruction \in ProgramOps
    BY AtAnOperation DEF MarkInv
  <2>2. M.wind = Instruction.variant
    BY <2>1 DEF Effect
  <2>3. Instruction.variant \in Variants
    BY <2>1 DEF ProgramOps
  <2> HIDE DEF M
  <2> QED
    BY <2>1, <2>2, <2>3 DEF Meets, MeetsWind
<1> QED
  BY <1>1, MarksHold, PTL

(* On a mapped grid with P3 the buoyancy reads the sum of the condensates that diffusion, *)
(* sponge, nudging and boundaries left, in the history a restart rebuilds and in every   *)
(* step (Model::run_step, refresh_total_condensate).                                 *)
THEOREM BuoyancySeesTheCondensate == Spec => []BuoyancySeesPresentCondensate
<1>1. MarkInv => BuoyancySeesPresentCondensate
  <2> SUFFICES ASSUME MarkInv, Instruction.op = "read", "qp" \in Instruction.fields, Refreshed(run)
               PROVE  "condensate" \notin ahead
    BY DEF BuoyancySeesPresentCondensate, At, Refreshed
  <2> DEFINE M == Annotation[number][pc]
  <2>1. M \in Marks /\ Meets(M, mean, ahead) /\ Effect(run, Instruction, M, Annotation[number][pc + 1])
    BY AtAnOperation DEF MarkInv
  <2> HIDE DEF M
  <2>2. M.summed
    BY <2>1 DEF Effect
  <2> QED
    BY <2>1, <2>2 DEF Meets
<1> QED
  BY <1>1, MarksHold, PTL

---------------------------------------------------------------------------------
(* Where graphs are captured, an exchange of the storage of the vorticity shows in that   *)
(* of zeta: the key of a graph.                                                    *)
SeenInZeta(c) == Cartesian(c) \/ c.terrain \/ c.swapped = {} \/ "zeta" \in c.swapped

StorageOf(c, key) ==
  IF key = "own" THEN {} ELSE IF c.terrain THEN c.swapped \cap {"zeta"} ELSE c.swapped

GraphInv ==
  /\ storage \in {{}, run.swapped}
  /\ DOMAIN graphs \subseteq {"own", "previous"}
  /\ Cartesian(run) => DOMAIN graphs = {}
  /\ \A key \in DOMAIN graphs : graphs[key] = StorageOf(run, key)

LEMMA CapturedByKey ==
  ASSUME MarkInv, GraphInv, SeenInZeta(run), ~Cartesian(run)
  PROVE  Captured = StorageOf(run, GraphKey) /\ GraphKey \in {"own", "previous"}
BY DEF GraphInv, SeenInZeta, StorageOf, GraphKey, Captured

LEMMA GraphStep ==
  ASSUME MarkInv, GraphInv, SeenInZeta(run), [Next]_vars
  PROVE  GraphInv'
<1>1. run' = run
  BY DEF Next, WriteFields, ExchangeFields, DeriveFields, ReadFields, ComputeMeanWind, AdvectFields,
         InvalidateMeanWind, Skip, Enter, SwapFields, LaunchOrCapture, FinishStep, Advance, vars, run
<1> DEFINE c == run
<1>2. GraphInv' = /\ storage' \in {{}, c.swapped}
                  /\ DOMAIN graphs' \subseteq {"own", "previous"}
                  /\ Cartesian(c) => DOMAIN graphs' = {}
                  /\ \A key \in DOMAIN graphs' : graphs'[key] = StorageOf(c, key)
  BY <1>1 DEF GraphInv
<1>3. CASE SwapFields
  <2>1. Instruction.op = "swap" /\ UNCHANGED graphs
        /\ storage' = (storage \ Instruction.fields) \cup (Instruction.fields \ storage)
    BY <1>3 DEF SwapFields, At
  <2>2. Instruction.fields = c.swapped
    BY <2>1, AtAnOperation DEF MarkInv, Effect
  <2>3. storage' \in {{}, c.swapped}
    BY <2>1, <2>2 DEF GraphInv
  <2> QED
    BY <1>2, <2>1, <2>3 DEF GraphInv
<1>4. CASE LaunchOrCapture
  <2>1. Instruction.op = "graph" /\ UNCHANGED storage
        /\ IF GraphKey \in DOMAIN graphs THEN UNCHANGED graphs
           ELSE graphs' = [k \in DOMAIN graphs \cup {GraphKey} |-> IF k = GraphKey THEN Captured ELSE graphs[k]]
    BY <1>4 DEF LaunchOrCapture, At
  <2>2. ~Cartesian(c)
    BY <2>1, AtAnOperation DEF MarkInv, Effect
  <2>3. Captured = StorageOf(c, GraphKey) /\ GraphKey \in {"own", "previous"}
    BY <2>2, CapturedByKey
  <2> HIDE DEF c
  <2>4. storage' \in {{}, c.swapped}
    BY <2>1 DEF GraphInv, c
  <2>5. DOMAIN graphs' \subseteq {"own", "previous"} /\ \A key \in DOMAIN graphs' : graphs'[key] = StorageOf(c, key)
    BY <2>1, <2>3 DEF GraphInv, c
  <2> QED
    BY <1>2, <2>2, <2>4, <2>5
<1>5. CASE UNCHANGED <<storage, graphs>>
  BY <1>2, <1>5 DEF GraphInv
<1> QED
  BY <1>3, <1>4, <1>5
     DEF Next, WriteFields, ExchangeFields, DeriveFields, ReadFields, ComputeMeanWind, AdvectFields,
         InvalidateMeanWind, Skip, Enter, FinishStep, vars

(* A graph of the wind solver that is replayed reads the storage the vorticity is in,    *)
(* at every step, if an exchange of storage always includes that of zeta               *)
(* (WindSolver::execute_generalized_wind_diagnostic).                                *)
THEOREM GraphsReadPresentState ==
  ASSUME \A n \in Runs : SeenInZeta(Configuration[n])
  PROVE  Spec => []GraphReadsPresentState
<1>1. Init => GraphInv
  BY DEF Init, GraphInv, run
<1>2. MarkInv => SeenInZeta(run)
  BY DEF MarkInv, run
<1>3. MarkInv /\ GraphInv /\ [Next]_vars => GraphInv'
  BY <1>2, GraphStep
<1>4. MarkInv /\ GraphInv => GraphReadsPresentState
  <2> SUFFICES ASSUME MarkInv, GraphInv, Instruction.op = "graph", GraphKey \in DOMAIN graphs
               PROVE  graphs[GraphKey] = Captured
    BY DEF GraphReadsPresentState, At
  <2>1. ~Cartesian(run)
    BY DEF GraphInv
  <2> QED
    BY <1>2, <2>1, CapturedByKey DEF GraphInv
<1> QED
  BY <1>1, <1>3, <1>4, MarksHold, PTL DEF Spec

---------------------------------------------------------------------------------
(* Copies of one quantity.  A mark is a set of fields that may have been changed alone.   *)
Paired == {"xi", "eta", "zeta", "xi_con", "eta_con", "zeta_con", "u", "v", "u_con", "v_con"}
Other ==
  [f \in Paired |-> CASE f = "xi" -> "xi_con" [] f = "eta" -> "eta_con" [] f = "zeta" -> "zeta_con"
                      [] f = "xi_con" -> "xi" [] f = "eta_con" -> "eta" [] f = "zeta_con" -> "zeta"
                      [] f = "u" -> "u_con" [] f = "v" -> "v_con" [] f = "u_con" -> "u" [] f = "v_con" -> "v"]

(* What changes alone: what is written while its copy is not.                         *)
Sees(M, fs) == \A f \in Paired : f \in fs /\ Other[f] \in M => Other[f] \in fs
AfterWrite(M, fs, N) ==
  \A f \in Paired : Other[f] \notin fs /\ (f \in M \/ f \in fs) => f \in N
AfterDerive(M, from, to, N) ==
  \A f \in Paired :
    \/ f \in M /\ (f \in to => Other[f] \notin from) /\ (Other[f] \in to => f \in to)
    \/ f \in to /\ Other[f] \notin from /\ Other[f] \notin to
    => f \in N

CopyEffect(k, M, N) ==
  /\ k.op \in {"read", "advect"} => Sees(M, k.fields)
  /\ k.op = "derive" => /\ Sees(M, k.from)
                        /\ \A f \in Paired : f \in k.fields /\ f \in M /\ Other[f] \in k.from => f \in k.from
                        /\ AfterDerive(M, k.from, k.fields, N)
  /\ k.op = "write" => AfterWrite(M, k.fields, N)
  /\ k.op \notin {"write", "derive"} => M \subseteq N
  /\ k.op = "done" => M = {}

CopyAnalysis ==
  [marks |-> SUBSET Paired,
   below |-> {p \in (SUBSET Paired) \X (SUBSET Paired) : p[1] \subseteq p[2]},
   takes |-> {t \in ProgramOps \X (SUBSET Paired) \X (SUBSET Paired) : CopyEffect(t[1], t[2], t[3])}]

Copied(P, M, N) == Leads(CopyAnalysis, P, M, N)

LEMMA OtherCopies ==
  /\ Other["xi"] = "xi_con" /\ Other["eta"] = "eta_con" /\ Other["zeta"] = "zeta_con"
  /\ Other["xi_con"] = "xi" /\ Other["eta_con"] = "eta" /\ Other["zeta_con"] = "zeta"
  /\ Other["u"] = "u_con" /\ Other["v"] = "v_con" /\ Other["u_con"] = "u" /\ Other["v_con"] = "v"
  /\ \A f \in Paired : Other[f] \in Paired /\ Other[f] # f /\ Other[Other[f]] = f
  /\ Paired \subseteq Fields
BY DEF Other, Paired, Fields, Vorticity, CanonicalVorticity

LEMMA CopiesAnalysed ==
  /\ CopyAnalysis.marks = SUBSET Paired /\ IsAnalysis(CopyAnalysis)
  /\ \A M, N \in SUBSET Paired : Below(CopyAnalysis, M, N) <=> M \subseteq N
  /\ \A k \in ProgramOps, M, N \in SUBSET Paired : Takes(CopyAnalysis, k, M, N) <=> CopyEffect(k, M, N)
<1> DEFINE A == CopyAnalysis
           S == SUBSET Paired
<1>1. A.marks = S
  BY DEF CopyAnalysis
<1>2. \A M, N \in S : Below(A, M, N) <=> M \subseteq N
  BY DEF CopyAnalysis, Below
<1>3. \A k \in ProgramOps, M, N \in S : Takes(A, k, M, N) <=> CopyEffect(k, M, N)
  BY DEF CopyAnalysis, Takes
<1>4. ASSUME NEW k \in ProgramOps, NEW M \in S, NEW N \in S, NEW O \in S, CopyEffect(k, M, N), N \subseteq O
      PROVE  CopyEffect(k, M, O)
  BY <1>4 DEF CopyEffect, AfterWrite, AfterDerive
<1>5. ASSUME NEW k \in ProgramOps, NEW M \in S, NEW N \in S, k.op = "perhaps", M \subseteq N
      PROVE  CopyEffect(k, M, N)
  BY <1>5 DEF CopyEffect
<1> HIDE DEF A, S
<1>6. IsAnalysis(A)
  BY <1>1, <1>2, <1>3, <1>4, <1>5 DEF IsAnalysis
<1> QED
  BY <1>1, <1>2, <1>3, <1>6 DEF A, S

LEMMA CopiedOn ==
  \A P, Q, M, N, O : Copied(P, M, N) /\ Copied(Q, N, O) => Copied(P \o Q, M, O)
BY CopiesAnalysed, LeadsOn DEF Copied

LEMMA CopiedOnce ==
  ASSUME NEW k \in ProgramOps, NEW M \in SUBSET Paired, NEW N \in SUBSET Paired,
         k.op # "perhaps", CopyEffect(k, M, N)
  PROVE  Copied(<<k>>, M, N)
BY CopiesAnalysed, LeadsOnce DEF Copied

LEMMA CopiedWeakened ==
  ASSUME NEW P, NEW L \in SUBSET Paired, NEW M \in SUBSET Paired, NEW N \in SUBSET Paired, NEW O \in SUBSET Paired,
         L \subseteq M, Copied(P, M, N), N \subseteq O
  PROVE  Copied(P, L, O)
BY CopiesAnalysed, LeadsWeakened DEF Copied

LEMMA CopiedWhen ==
  ASSUME NEW b, NEW P, NEW M \in SUBSET Paired, NEW N \in SUBSET Paired, M \subseteq N, b => Copied(P, M, N)
  PROVE  Copied(When(b, P), M, N)
<1>1. Copied(<<>>, M, N)
  BY CopiesAnalysed, LeadsNowhere DEF Copied
<1> QED
  BY <1>1 DEF When

(* What leaves alone every mark of fields of S.                                        *)
Quiet(S, P) == \A M \in SUBSET S : Copied(P, M, M)

LEMMA QuietParts ==
  ASSUME NEW S \in SUBSET Paired
  PROVE  /\ \A P, Q : Quiet(S, P) /\ Quiet(S, Q) => Quiet(S, P \o Q)
         /\ \A b, P : (b => Quiet(S, P)) => Quiet(S, When(b, P))
         /\ \A P : Quiet(S, P) => Quiet(S, Perhaps(P))
         /\ Quiet(S, <<>>)
<1>1. \A M \in SUBSET S : M \in SUBSET Paired
  OBVIOUS
<1>2. \A P, Q : Quiet(S, P) /\ Quiet(S, Q) => Quiet(S, P \o Q)
  BY CopiedOn DEF Quiet
<1>3. \A b, P : (b => Quiet(S, P)) => Quiet(S, When(b, P))
  BY <1>1, CopiedWhen DEF Quiet
<1>4. \A P : Quiet(S, P) => Quiet(S, Perhaps(P))
  BY <1>1, CopiesAnalysed, LeadsPerhaps DEF Quiet, Copied
<1>5. Quiet(S, <<>>)
  BY <1>1, CopiesAnalysed, LeadsNowhere DEF Quiet, Copied
<1> QED
  BY <1>2, <1>3, <1>4, <1>5

LEMMA QuietOnce ==
  ASSUME NEW S \in SUBSET Paired, NEW k \in ProgramOps, k.op # "perhaps",
         \A M \in SUBSET S : CopyEffect(k, M, M)
  PROVE  Quiet(S, <<k>>)
BY CopiedOnce DEF Quiet

(* Single operations.                                                        *)
LEMMA CopiedReads ==
  \A fs \in AnyFields, d \in Nat, M \in SUBSET Paired : Sees(M, fs) => Copied(Read(fs, d), M, M)
<1> SUFFICES ASSUME NEW fs \in AnyFields, NEW d \in Nat, NEW M \in SUBSET Paired, Sees(M, fs)
             PROVE  Copied(Read(fs, d), M, M)
  OBVIOUS
<1> DEFINE k == [op |-> "read", fields |-> fs, depth |-> d]
<1>1. k \in ProgramOps /\ k.op = "read" /\ k.fields = fs
  BY DEF ProgramOps, AnyFields
<1> HIDE DEF k
<1>2. CopyEffect(k, M, M)
  BY <1>1 DEF CopyEffect
<1>3. Copied(<<k>>, M, M)
  BY <1>1, <1>2, CopiedOnce
<1> QED
  BY <1>3 DEF Read, k

LEMMA CopiedWrites ==
  \A fs \in AnyFields, d \in Nat, M, N \in SUBSET Paired : AfterWrite(M, fs, N) => Copied(Write(fs, d), M, N)
<1> SUFFICES ASSUME NEW fs \in AnyFields, NEW d \in Nat, NEW M \in SUBSET Paired, NEW N \in SUBSET Paired,
                    AfterWrite(M, fs, N)
             PROVE  Copied(Write(fs, d), M, N)
  OBVIOUS
<1> DEFINE k == [op |-> "write", fields |-> fs, depth |-> d]
<1>1. k \in ProgramOps /\ k.op = "write" /\ k.fields = fs
  BY DEF ProgramOps, AnyFields
<1> HIDE DEF k
<1>2. CopyEffect(k, M, N)
  BY <1>1 DEF CopyEffect
<1>3. Copied(<<k>>, M, N)
  BY <1>1, <1>2, CopiedOnce
<1> QED
  BY <1>3 DEF Write, k

LEMMA CopiedUpdates ==
  \A fs \in AnyFields, M, N \in SUBSET Paired :
    Sees(M, fs) /\ AfterWrite(M, fs, N) => Copied(Update(fs), M, N)
BY CopiedReads, CopiedWrites, CopiedOn DEF Update

LEMMA CopiedDerives ==
  \A from \in AnyFields, fs \in AnyFields, d \in Nat, M, N \in SUBSET Paired :
    /\ Sees(M, from) /\ AfterDerive(M, from, fs, N)
    /\ \A f \in Paired : f \in fs /\ f \in M /\ Other[f] \in from => f \in from
    => Copied(Derive(from, fs, d), M, N)
<1> SUFFICES ASSUME NEW from \in AnyFields, NEW fs \in AnyFields, NEW d \in Nat,
                    NEW M \in SUBSET Paired, NEW N \in SUBSET Paired,
                    Sees(M, from), AfterDerive(M, from, fs, N),
                    \A f \in Paired : f \in fs /\ f \in M /\ Other[f] \in from => f \in from
             PROVE  Copied(Derive(from, fs, d), M, N)
  OBVIOUS
<1> DEFINE k == [op |-> "derive", from |-> from, fields |-> fs, depth |-> d]
<1>1. k \in ProgramOps /\ k.op = "derive" /\ k.fields = fs /\ k.from = from
  BY DEF ProgramOps, AnyFields
<1> HIDE DEF k
<1>2. CopyEffect(k, M, N)
  BY <1>1 DEF CopyEffect
<1>3. Copied(<<k>>, M, N)
  BY <1>1, <1>2, CopiedOnce
<1> QED
  BY <1>3 DEF Derive, k

LEMMA QuietExchanges ==
  \A S \in SUBSET Paired, fs \in AnyFields : /\ Quiet(S, Exchange(fs))
                                             /\ \A d \in Nat : Quiet(S, ExchangeTo(fs, d))
<1> SUFFICES ASSUME NEW S \in SUBSET Paired, NEW fs \in AnyFields, NEW d \in Nat
             PROVE  Quiet(S, ExchangeTo(fs, d))
  BY HaloAssumption DEF Exchange
<1> DEFINE k == [op |-> "exchange", fields |-> fs, depth |-> d]
<1>1. k \in ProgramOps /\ k.op = "exchange"
  BY DEF ProgramOps, AnyFields
<1> HIDE DEF k
<1>2. Quiet(S, <<k>>)
  BY <1>1, QuietOnce DEF CopyEffect
<1> QED
  BY <1>2 DEF ExchangeTo, k

LEMMA QuietMeanWinds ==
  \A S \in SUBSET Paired, v \in Variants : Quiet(S, MeanWind(v))
<1> SUFFICES ASSUME NEW S \in SUBSET Paired, NEW v \in Variants PROVE Quiet(S, MeanWind(v))
  OBVIOUS
<1> DEFINE k == [op |-> "mean", variant |-> v]
<1>1. k \in ProgramOps /\ k.op = "mean"
  BY DEF ProgramOps
<1> HIDE DEF k
<1>2. Quiet(S, <<k>>)
  BY <1>1, QuietOnce DEF CopyEffect
<1> QED
  BY <1>2 DEF MeanWind, k

LEMMA QuietLaunches ==
  \A S \in SUBSET Paired :
    Quiet(S, LaunchGraph) /\ Quiet(S, Invalidate) /\ \A fs \in AnyFields : Quiet(S, SwapStorage(fs))
<1> SUFFICES ASSUME NEW S \in SUBSET Paired, NEW fs \in AnyFields
             PROVE  Quiet(S, LaunchGraph) /\ Quiet(S, Invalidate) /\ Quiet(S, SwapStorage(fs))
  BY DEF AnyFields
<1> DEFINE j == [op |-> "graph"]
           k == [op |-> "invalidate"]
           l == [op |-> "swap", fields |-> fs]
<1>1. j \in ProgramOps /\ j.op = "graph" /\ k \in ProgramOps /\ k.op = "invalidate"
      /\ l \in ProgramOps /\ l.op = "swap"
  BY DEF ProgramOps, AnyFields
<1> HIDE DEF j, k, l
<1>2. Quiet(S, <<j>>) /\ Quiet(S, <<k>>) /\ Quiet(S, <<l>>)
  BY <1>1, QuietOnce DEF CopyEffect
<1> QED
  BY <1>2 DEF LaunchGraph, Invalidate, SwapStorage, j, k, l

(* While all copies agree anything may be read.                                     *)
Agreeing(P) == Quiet({}, P)
UnpairedFields == {fs \in AnyFields : \A f \in Paired : f \notin fs}

LEMMA QuietReads ==
  \A S \in SUBSET Paired, fs \in AnyFields, d \in Nat :
    (\A f \in S : Other[f] \notin fs) => Quiet(S, Read(fs, d))
<1> TAKE S \in SUBSET Paired, fs \in AnyFields, d \in Nat
<1> SUFFICES ASSUME \A f \in S : Other[f] \notin fs, NEW M \in SUBSET S
             PROVE  Copied(Read(fs, d), M, M)
  BY DEF Quiet
<1>1. M \in SUBSET Paired /\ Sees(M, fs)
  BY OtherCopies DEF Sees
<1> QED
  BY <1>1, CopiedReads

LEMMA QuietWrites ==
  \A S \in SUBSET Paired, fs \in UnpairedFields, d \in Nat :
    /\ Quiet(S, Write(fs, d)) /\ Quiet(S, Update(fs))
    /\ \A from \in AnyFields : (\A f \in S : Other[f] \notin from) => Quiet(S, Derive(from, fs, d))
<1> TAKE S \in SUBSET Paired, fs \in UnpairedFields, d \in Nat
<1>1. fs \in AnyFields /\ \A f \in Paired : f \notin fs /\ Other[f] \notin fs
  BY OtherCopies DEF UnpairedFields
<1>2. ASSUME NEW M \in SUBSET S PROVE Copied(Write(fs, d), M, M)
  <2>1. M \in SUBSET Paired /\ AfterWrite(M, fs, M)
    BY <1>1 DEF AfterWrite
  <2> QED
    BY <1>1, <2>1, CopiedWrites
<1>3. ASSUME NEW M \in SUBSET S PROVE Copied(Update(fs), M, M)
  <2>1. M \in SUBSET Paired /\ AfterWrite(M, fs, M) /\ Sees(M, fs)
    BY <1>1 DEF AfterWrite, Sees
  <2> QED
    BY <1>1, <2>1, CopiedUpdates
<1>4. ASSUME NEW from \in AnyFields, \A f \in S : Other[f] \notin from, NEW M \in SUBSET S
      PROVE  Copied(Derive(from, fs, d), M, M)
  <2>1. M \in SUBSET Paired /\ AfterDerive(M, from, fs, M) /\ Sees(M, from)
    BY <1>1, <1>4, OtherCopies DEF AfterDerive, Sees
  <2> QED
    BY <1>1, <2>1, CopiedDerives
<1> QED
  BY <1>2, <1>3, <1>4 DEF Quiet

LEMMA AgreeingTransports ==
  \A fs \in AnyFields, d \in Nat, v \in Variants : Agreeing(Transport(fs, d, v))
<1> TAKE fs \in AnyFields, d \in Nat, v \in Variants
<1> DEFINE k == [op |-> "advect", fields |-> fs \cup {"mean_wind"}, depth |-> d, variant |-> v]
<1>1. k \in ProgramOps /\ k.op = "advect"
  BY FieldNames DEF ProgramOps, AnyFields
<1> HIDE DEF k
<1>2. \A M \in SUBSET {} : CopyEffect(k, M, M)
  BY <1>1 DEF CopyEffect, Sees
<1>3. Quiet({}, <<k>>)
  BY <1>1, <1>2, QuietOnce
<1> QED
  BY <1>3 DEF Transport, k, Agreeing

(* The routines.                                                             *)
LEMMA ScalarsUnpaired ==
  \A c \in Configurations :
    \A fs \in {P3Fields(c), Scalars(c), SingleStage(c), ThermodynamicsVars(c), c.nudged, {"th", "qv"} \cup P3Fields(c)} :
      fs \in UnpairedFields /\ fs \in AnyFields
<1> SUFFICES ASSUME NEW c \in Configurations
             PROVE  \A fs \in {P3Fields(c), Scalars(c), SingleStage(c), ThermodynamicsVars(c), c.nudged, {"th", "qv"} \cup P3Fields(c)} :
                      fs \in UnpairedFields /\ fs \in AnyFields
  OBVIOUS
<1>1. \A fs : fs \subseteq {"th", "qv", "condensate", "tracer"} => fs \in UnpairedFields /\ fs \in AnyFields
  BY FieldNames DEF UnpairedFields, AnyFields, Paired
<1>2. c.nudged \subseteq {"th", "qv", "condensate", "tracer"}
  BY DEF Configurations
<1>3. P3Fields(c) \subseteq {"condensate"}
  BY DEF P3Fields
<1>4. Scalars(c) \subseteq {"th", "qv", "condensate", "tracer"}
  BY <1>3 DEF Scalars
<1>5. SingleStage(c) \subseteq Scalars(c) /\ ThermodynamicsVars(c) \subseteq Scalars(c)
  BY <1>3 DEF SingleStage, ThermodynamicsVars, Scalars
<1> QED
  BY <1>1, <1>2, <1>3, <1>4, <1>5

(* As long as copies agree, everything that neither writes nor derives one of them keeps   *)
(* them so.                                                                   *)
LEMMA AgreeingParts ==
  /\ \A fs \in AnyFields, d \in Nat : Agreeing(Read(fs, d)) /\ Agreeing(Exchange(fs)) /\ Agreeing(ExchangeTo(fs, d))
  /\ \A fs \in UnpairedFields, d \in Nat :
       /\ Agreeing(Write(fs, d)) /\ Agreeing(Update(fs))
       /\ \A from \in AnyFields : Agreeing(Derive(from, fs, d))
  /\ \A v \in Variants : Agreeing(MeanWind(v))
  /\ \A P, Q : Agreeing(P) /\ Agreeing(Q) => Agreeing(P \o Q)
  /\ \A b, P : (b => Agreeing(P)) => Agreeing(When(b, P))
  /\ \A P : Agreeing(P) => Agreeing(Perhaps(P))
  /\ Agreeing(<<>>)
<1>1. {} \in SUBSET Paired /\ \A x : x \notin {}
  OBVIOUS
<1> QED
  BY <1>1, QuietReads, QuietWrites, QuietExchanges, QuietMeanWinds, QuietParts DEF Agreeing

LEMMA ThermoAgreeing ==
  ASSUME NEW c \in Configurations
  PROVE  /\ \A fs \in AnyFields : Agreeing(AdvectScalars(c, fs))
         /\ Agreeing(ThermoTendencies(c)) /\ Agreeing(UpdateThermo(c)) /\ Agreeing(ApplyTracerSource(c))
         /\ Agreeing(ApplyRandomForcing(c)) /\ Agreeing(RunP3(c)) /\ Agreeing(RunCleo(c))
         /\ Agreeing(RefreshCondensate)
<1>1. "Scalar" \in Variants
  BY DEF Variants
<1>2. SingleStage(c) \in UnpairedFields /\ SingleStage(c) \in AnyFields
  BY ScalarsUnpaired
<1>3. /\ \A fs \in {{"tracer"}, {"th"}, {"th", "qv", "condensate", "T"}, {"qp"}, {"th", "qv"}} : fs \in UnpairedFields /\ fs \in AnyFields
      /\ \A fs \in {{}, {"th", "qv", "condensate"}, {"condensate"}, {"th", "qv", "condensate", "qp"}, {"th", "qv", "qp"}} : fs \in AnyFields
  BY FieldNames DEF UnpairedFields, AnyFields, Paired
<1>4. ASSUME NEW fs \in AnyFields PROVE Agreeing(AdvectScalars(c, fs))
  <2>1. Agreeing(TakacsTransport(fs, "Scalar")) /\ Agreeing(GeneralizedTransport(fs)) /\ Agreeing(MeanWind("Scalar"))
    BY <1>1, AgreeingTransports, AgreeingParts DEF TakacsTransport, FluxConvergenceZ, GeneralizedTransport
  <2> QED
    BY <2>1, AgreeingParts DEF AdvectScalars
<1>5. Agreeing(ThermoTendencies(c))
  BY <1>2, <1>4 DEF ThermoTendencies
<1>6. Agreeing(StageOfTracer)
  <2>1. /\ Agreeing(MeanWind("Scalar")) /\ Agreeing(Read({"tracer"}, 2)) /\ Agreeing(Transport({}, 2, "Scalar"))
        /\ Agreeing(Read({"tracer"}, 1)) /\ Agreeing(Transport({"tracer"}, 1, "Scalar")) /\ Agreeing(Update({"tracer"}))
        /\ Agreeing(Exchange({"tracer"}))
    BY <1>1, <1>3, AgreeingTransports, AgreeingParts
  <2> QED
    BY <2>1, AgreeingParts DEF StageOfTracer, MusclReconstruct, MusclDonorFactors, MusclFluxes
<1>7. Agreeing(UpdateThermo(c))
  BY <1>2, <1>6, AgreeingParts DEF UpdateThermo
<1>8. Agreeing(ApplyTracerSource(c)) /\ Agreeing(ApplyRandomForcing(c))
  BY <1>3, AgreeingParts DEF ApplyTracerSource, ApplyRandomForcing
<1>9. Agreeing(RefreshCondensate)
  BY <1>3, AgreeingParts DEF RefreshCondensate
<1>10. Agreeing(RunP3(c))
  BY <1>3, <1>9, AgreeingParts DEF RunP3
<1>11. Agreeing(RunCleo(c))
  BY <1>3, AgreeingParts DEF RunCleo
<1> QED
  BY <1>4, <1>5, <1>7, <1>8, <1>9, <1>10, <1>11

LEMMA PhysicsAgreeing ==
  ASSUME NEW c \in Configurations
  PROVE  Agreeing(PhysicsThermo(c)) /\ Agreeing(CondensateForBuoyancy(c))
<1>1. /\ \A fs \in {{"RKM", "RKH"}, {"VEN2D"}, {"R"}, {"th", "qv"}} : fs \in UnpairedFields /\ fs \in AnyFields
      /\ \A fs \in {{"u", "v"}, {"u_con", "v_con", "w"}, {"u", "v", "R"}} : fs \in AnyFields
  BY FieldNames DEF UnpairedFields, AnyFields, Paired
<1>2. \A fs \in {Scalars(c), {"th", "qv"} \cup P3Fields(c), c.nudged, ThermodynamicsVars(c)} : fs \in UnpairedFields /\ fs \in AnyFields
  BY ScalarsUnpaired
<1>3. Scalars(c) \cup {"RKH"} \in AnyFields
  BY <1>2, FieldNames DEF AnyFields
<1>4. Agreeing(Coefficients(c))
  <2>1. Agreeing(Read({"u", "v", "R"}, 1)) /\ Agreeing(GeneralizedDeformation) /\ Agreeing(Read({"R"}, 1))
    BY <1>1, AgreeingParts DEF GeneralizedDeformation
  <2>2. Agreeing(IF Cartesian(c) THEN Read({"u", "v", "R"}, 1) ELSE GeneralizedDeformation \o Read({"R"}, 1))
    BY <2>1, AgreeingParts
  <2> QED
    BY <1>1, <2>2, AgreeingParts DEF Coefficients
<1>5. Agreeing(DiffuseScalars(c))
  BY <1>3, AgreeingParts DEF DiffuseScalars, CartesianDiffusion, GeneralizedScalarDiffusion
<1>6. Agreeing(SurfaceCoefficients)
  BY <1>1, AgreeingParts DEF SurfaceCoefficients, SurfaceTransfer, SurfaceStress
<1>7. /\ Agreeing(When(c.turbulence, Coefficients(c) \o DiffuseScalars(c)))
      /\ Agreeing(When(c.surface, Perhaps(SurfaceCoefficients)))
  BY <1>4, <1>5, <1>6, AgreeingParts
<1>8. /\ Agreeing(ForwardUpdateThermo(c)) /\ Agreeing(ApplySponge(c, {"th", "qv"} \cup P3Fields(c)))
      /\ Agreeing(ApplyLateralNudging(c)) /\ Agreeing(ThermoBoundary(c))
  BY <1>1, <1>2, AgreeingParts DEF ForwardUpdateThermo, ApplySponge, ApplyLateralNudging, ThermoBoundary
<1>9. Agreeing(PhysicsThermo(c))
  BY <1>7, <1>8, AgreeingParts DEF PhysicsThermo
<1>10. Agreeing(CondensateForBuoyancy(c))
  BY ThermoAgreeing, AgreeingParts DEF CondensateForBuoyancy
<1> QED
  BY <1>9, <1>10

(* The copies of the vorticity and of the wind are made of what may have been changed alone. *)
LEMMA CopiedSyncs ==
  \A from \in AnyFields, fs \in AnyFields, d \in Nat, M \in SUBSET Paired :
    /\ \A f \in Paired : f \in fs <=> Other[f] \in from
    /\ \A f \in Paired : f \in fs => f \notin from /\ f \notin M
    => Copied(Derive(from, fs, d), M, {f \in M : f \notin from})
<1> TAKE from \in AnyFields, fs \in AnyFields, d \in Nat, M \in SUBSET Paired
<1> SUFFICES ASSUME \A f \in Paired : f \in fs <=> Other[f] \in from,
                    \A f \in Paired : f \in fs => f \notin from /\ f \notin M
             PROVE  Copied(Derive(from, fs, d), M, {f \in M : f \notin from})
  OBVIOUS
<1> DEFINE N == {f \in M : f \notin from}
<1>1. N \in SUBSET Paired /\ \A f : f \in N <=> f \in M /\ f \notin from
  OBVIOUS
<1> HIDE DEF N
<1>2. \A f \in Paired : Other[f] \in Paired /\ Other[Other[f]] = f
  BY OtherCopies
<1>3. \A f \in Paired : f \in from <=> Other[f] \in fs
  BY <1>2
<1>4. Sees(M, from)
  BY <1>2, <1>3 DEF Sees
<1>5. AfterDerive(M, from, fs, N)
  BY <1>1, <1>2, <1>3 DEF AfterDerive
<1>6. \A f \in Paired : f \in fs /\ f \in M /\ Other[f] \in from => f \in from
  OBVIOUS
<1> QED
  BY <1>1, <1>4, <1>5, <1>6, CopiedDerives DEF N

LEMMA CopiedRenewals ==
  \A fs \in AnyFields, d \in Nat, M \in SUBSET Paired, N \in SUBSET Paired :
    (\A f \in Paired : (f \in M \/ f \in fs) /\ Other[f] \notin fs => f \in N) =>
      /\ Copied(Write(fs, d), M, N)
      /\ (\A f \in Paired : f \in fs => Other[f] \notin M) => Copied(Update(fs), M, N)
BY CopiedWrites, CopiedUpdates DEF AfterWrite, Sees

LEMMA Syncs ==
  ASSUME NEW c \in Configurations, NEW M \in SUBSET Paired
  PROVE  /\ "xi" \notin M /\ "eta" \notin M => Copied(SyncPhysical(c), M, M \ {"xi_con", "eta_con"})
         /\ "zeta_con" \notin M => Copied(CopyZeta, M, M \ {"zeta"})
         /\ "xi_con" \notin M /\ "eta_con" \notin M /\ "zeta_con" \notin M =>
              Copied(SyncContravariant(c), M, M \ {"xi", "eta", "zeta"})
         /\ "u_con" \notin M /\ "v_con" \notin M => Copied(ShadowWind(c), M, M \ {"u", "v"})
<1>1. Loss(c) \in Nat /\ 0 \in Nat
  BY Shapes
<1>2. /\ {"xi", "eta"} \in AnyFields /\ {"xi_con", "eta_con"} \in AnyFields
      /\ {"zeta"} \in AnyFields /\ {"zeta_con"} \in AnyFields /\ {"u", "v"} \in AnyFields /\ {"u_con", "v_con"} \in AnyFields
  BY FieldNames DEF AnyFields
<1>3. /\ \A f \in Paired : f \in {"xi", "eta"} <=> Other[f] \in {"xi_con", "eta_con"}
      /\ \A f \in Paired : f \in {"xi_con", "eta_con"} <=> Other[f] \in {"xi", "eta"}
      /\ \A f \in Paired : f \in {"zeta_con"} <=> Other[f] \in {"zeta"}
      /\ \A f \in Paired : f \in {"u_con", "v_con"} <=> Other[f] \in {"u", "v"}
  BY OtherCopies DEF Paired
<1>4. ASSUME "xi" \notin M, "eta" \notin M PROVE Copied(SyncPhysical(c), M, M \ {"xi_con", "eta_con"})
  <2>1. M \ {"xi_con", "eta_con"} = {f \in M : f \notin {"xi_con", "eta_con"}}
    OBVIOUS
  <2>2. \A f \in Paired : f \in {"xi", "eta"} => f \notin {"xi_con", "eta_con"} /\ f \notin M
    BY <1>4
  <2> QED
    BY <1>1, <1>2, <1>3, <2>1, <2>2, CopiedSyncs DEF SyncPhysical
<1>5. ASSUME NEW L \in SUBSET Paired, "zeta_con" \notin L PROVE Copied(CopyZeta, L, L \ {"zeta"})
  <2>1. L \ {"zeta"} = {f \in L : f \notin {"zeta"}}
    OBVIOUS
  <2>2. \A f \in Paired : f \in {"zeta_con"} => f \notin {"zeta"} /\ f \notin L
    BY <1>5
  <2> QED
    BY <1>1, <1>2, <1>3, <2>1, <2>2, CopiedSyncs DEF CopyZeta
<1>6. ASSUME "xi_con" \notin M, "eta_con" \notin M, "zeta_con" \notin M
      PROVE  Copied(SyncContravariant(c), M, M \ {"xi", "eta", "zeta"})
  <2> DEFINE L == {f \in M : f \notin {"xi", "eta"}}
  <2>1. \A f \in Paired : f \in {"xi_con", "eta_con"} => f \notin {"xi", "eta"} /\ f \notin M
    BY <1>6
  <2>2. Copied(Derive({"xi", "eta"}, {"xi_con", "eta_con"}, Loss(c)), M, L)
    BY <1>1, <1>2, <1>3, <2>1, CopiedSyncs
  <2>3. L \in SUBSET Paired /\ "zeta_con" \notin L /\ L \ {"zeta"} = M \ {"xi", "eta", "zeta"}
    BY <1>6
  <2>4. Copied(CopyZeta, L, M \ {"xi", "eta", "zeta"})
    BY <1>5, <2>3
  <2> QED
    BY <2>2, <2>4, CopiedOn DEF SyncContravariant
<1>7. ASSUME "u_con" \notin M, "v_con" \notin M PROVE Copied(ShadowWind(c), M, M \ {"u", "v"})
  <2>1. M \ {"u", "v"} = {f \in M : f \notin {"u", "v"}}
    OBVIOUS
  <2>2. \A f \in Paired : f \in {"u_con", "v_con"} => f \notin {"u", "v"} /\ f \notin M
    BY <1>7
  <2> QED
    BY <1>1, <1>2, <1>3, <2>1, <2>2, CopiedSyncs DEF ShadowWind
<1> QED
  BY <1>4, <1>5, <1>6, <1>7

LEMMA AgreeingSyncs ==
  ASSUME NEW c \in Configurations
  PROVE  /\ Agreeing(SyncPhysical(c)) /\ Agreeing(SyncContravariant(c)) /\ Agreeing(CopyZeta)
         /\ \A P : Agreeing(P) <=> Copied(P, {}, {})
<1>1. {} \in SUBSET Paired /\ \A X : {} \ X = {}
  OBVIOUS
<1>2. \A P : Agreeing(P) <=> Copied(P, {}, {})
  BY DEF Agreeing, Quiet
<1>3. Copied(SyncPhysical(c), {}, {}) /\ Copied(SyncContravariant(c), {}, {}) /\ Copied(CopyZeta, {}, {})
  BY <1>1, Syncs
<1> QED
  BY <1>2, <1>3

LEMMA TendenciesAgreeing ==
  ASSUME NEW c \in Configurations
  PROVE  Agreeing(VorticityTendencies(c))
<1>1. \A fs \in {{"u_con", "xi"}, {"v_con", "eta"}, {"w", "zeta"}, {"eta", "zeta", "R"}, {"xi", "zeta", "R"}, {"xi", "eta", "R"},
                 {"u_con"}, {"v_con"}, {"u_con", "v_con"}, {"th", "qv", "qp"}, {"xi"}, {"eta"}, {"zeta"},
                 {"u_con", "v_con", "xi_con"}, {"u_con", "v_con", "eta_con"}, {"w"},
                 {"u_con", "xi_con", "eta_con", "zeta"}, {"v_con", "xi_con", "eta_con", "zeta"},
                 {"u_con", "v_con", "zeta"}, {"w", "xi_con", "eta_con", "zeta"}} : fs \in AnyFields
  BY FieldNames DEF AnyFields
<1>2. "Xi" \in Variants /\ "Eta" \in Variants /\ "Zeta" \in Variants
  BY DEF Variants
<1>3. \A q \in {"xi", "eta", "zeta"}, v \in Variants : Agreeing(TakacsVorticity(q, v))
  <2> TAKE q \in {"xi", "eta", "zeta"}, v \in Variants
  <2>1. {q} \in AnyFields
    BY <1>1
  <2> QED
    BY <2>1, AgreeingTransports, AgreeingParts DEF TakacsVorticity, TakacsTransport, FluxConvergenceZ
<1>4. /\ Agreeing(StretchXi) /\ Agreeing(StretchEta) /\ Agreeing(StretchZeta)
      /\ Agreeing(TwistXi) /\ Agreeing(TwistEta) /\ Agreeing(TwistZeta)
      /\ Agreeing(CoriolisXi) /\ Agreeing(CoriolisEta) /\ Agreeing(CoriolisZeta)
      /\ Agreeing(BuoyancyXi) /\ Agreeing(BuoyancyEta)
  BY <1>1, AgreeingParts DEF StretchXi, StretchEta, StretchZeta, TwistXi, TwistEta, TwistZeta,
     CoriolisXi, CoriolisEta, CoriolisZeta, BuoyancyXi, BuoyancyEta
<1>5. Agreeing(CartesianTendencies)
  BY <1>2, <1>3, <1>4, AgreeingParts DEF CartesianTendencies
<1>6. /\ Agreeing(TransportHorizontal("xi_con")) /\ Agreeing(TransportHorizontal("eta_con"))
      /\ Agreeing(DeformHorizontal("u_con")) /\ Agreeing(DeformHorizontal("v_con"))
      /\ Agreeing(TransportTop) /\ Agreeing(DeformTop) /\ Agreeing(GeneralizedBuoyancy)
  BY <1>1, AgreeingParts DEF TransportHorizontal, DeformHorizontal, TransportTop, DeformTop, GeneralizedBuoyancy
<1>7. Agreeing(GeneralizedTendencies)
  BY <1>6, AgreeingParts DEF GeneralizedTendencies
<1>8. Agreeing(SyncPhysical(c) \o CartesianTendencies \o SyncContravariant(c))
  BY <1>5, AgreeingSyncs, AgreeingParts
<1> QED
  BY <1>7, <1>8 DEF VorticityTendencies

LEMMA ZetaStructureCopied ==
  ASSUME NEW c \in Configurations, NEW M \in SUBSET Vorticity, "zeta" \in M
  PROVE  Copied(ZetaStructure(c), M, M)
<1>1. M \in SUBSET Paired /\ {"xi", "eta"} \in AnyFields /\ {"zeta"} \in AnyFields /\ Vorticity \in SUBSET Paired
  BY FieldNames DEF AnyFields, Paired, Vorticity
<1>2. Copied(Read({"xi", "eta"}, 1), M, M)
  <2>1. \A f \in Vorticity : Other[f] \notin {"xi", "eta"}
    BY OtherCopies DEF Vorticity
  <2> QED
    BY <1>1, <2>1, QuietReads DEF Quiet
<1>3. Copied(Update({"zeta"}), M, M)
  <2>1. \A f \in Paired : f \in {"zeta"} => f \in M /\ Other[f] \notin M
    BY OtherCopies DEF Vorticity
  <2> QED
    BY <1>1, <2>1, CopiedRenewals
<1>4. Copied(Exchange({"zeta"}), M, M)
  BY <1>1, QuietExchanges DEF Quiet
<1>5. Copied(Read({"xi", "eta"}, 1) \o Update({"zeta"}) \o Exchange({"zeta"}), M, M)
  BY <1>2, <1>3, <1>4, CopiedOn
<1> QED
  BY <1>1, <1>5, CopiedWhen DEF ZetaStructure

LEMMA UpdateVorticityCopied ==
  ASSUME NEW c \in Configurations
  PROVE  Agreeing(UpdateVorticity(c))
<1> DEFINE X == {"xi_con"}
           Y == {"xi_con", "eta_con"}
           Z == {"xi_con", "eta_con", "zeta"}
<1>1. /\ {} \in SUBSET Paired /\ X \in SUBSET Paired /\ Y \in SUBSET Paired /\ Z \in SUBSET Paired /\ {"zeta"} \in SUBSET Paired
      /\ {"xi_con"} \in AnyFields /\ {"eta_con"} \in AnyFields /\ {"zeta"} \in AnyFields /\ c.swapped \in AnyFields
  BY FieldNames, Shapes DEF AnyFields, Paired
<1>2. Copied(SwapStorage(c.swapped), {}, {})
  BY <1>1, QuietLaunches DEF Quiet
<1>3. Copied(Update({"xi_con"}), {}, X)
  BY <1>1, CopiedRenewals
<1>4. Copied(Update({"eta_con"}), X, Y)
  <2>1. \A f \in Paired : f \in {"eta_con"} => Other[f] \notin X
    BY OtherCopies
  <2> QED
    BY <1>1, <2>1, CopiedRenewals
<1>5. Copied(Update({"zeta"}), Y, Z)
  <2>1. \A f \in Paired : f \in {"zeta"} => Other[f] \notin Y
    BY OtherCopies
  <2> QED
    BY <1>1, <2>1, CopiedRenewals
<1>6. \A S \in {X, Y, Z} : Copied(Exchange({"xi_con"}), S, S) /\ Copied(Exchange({"eta_con"}), S, S) /\ Copied(Exchange({"zeta"}), S, S)
  BY <1>1, QuietExchanges DEF Quiet
<1>7. Copied(SyncPhysical(c), Z, {"zeta"})
  <2>1. Z \ {"xi_con", "eta_con"} = {"zeta"} /\ "xi" \notin Z /\ "eta" \notin Z
    OBVIOUS
  <2> QED
    BY <1>1, <2>1, Syncs
<1>8. Copied(When(c.idealized # "twisting", ZetaStructure(c)), {"zeta"}, {"zeta"})
  <2>1. {"zeta"} \in SUBSET Vorticity
    BY DEF Vorticity
  <2> QED
    BY <1>1, <2>1, ZetaStructureCopied, CopiedWhen
<1>9. Copied(CopyZeta, {"zeta"}, {})
  <2>1. {"zeta"} \ {"zeta"} = {} /\ "zeta_con" \notin {"zeta"}
    OBVIOUS
  <2> QED
    BY <1>1, <2>1, Syncs
<1> HIDE DEF X, Y, Z
<1>10. Copied(SwapStorage(c.swapped) \o Update({"xi_con"}) \o Exchange({"xi_con"}) \o Update({"eta_con"}) \o Exchange({"eta_con"}), {}, Y)
  BY <1>2, <1>3, <1>4, <1>6, CopiedOn
<1> DEFINE P == SwapStorage(c.swapped) \o Update({"xi_con"}) \o Exchange({"xi_con"}) \o Update({"eta_con"}) \o Exchange({"eta_con"})
<1>11. Copied(P, {}, Y)
  BY <1>10
<1> HIDE DEF P
<1>12. Copied(P \o Update({"zeta"}) \o Exchange({"zeta"}) \o SyncPhysical(c)
                \o When(c.idealized # "twisting", ZetaStructure(c)) \o CopyZeta, {}, {})
  BY <1>5, <1>6, <1>7, <1>8, <1>9, <1>11, CopiedOn
<1> QED
  BY <1>12, AgreeingSyncs DEF UpdateVorticity, P

(* The physical components are updated, then the canonical ones follow.                  *)
LEMMA FinishCopied ==
  ASSUME NEW c \in Configurations
  PROVE  Copied(FinishPhysicalUpdate(c), Vorticity, {})
<1>1. Vorticity \in SUBSET Paired /\ {"zeta"} \in SUBSET Paired /\ Loss(c) \in Nat
  BY Shapes DEF Paired, Vorticity
<1>2. Copied(SyncContravariant(c), Vorticity, {})
  <2>1. /\ Vorticity \ {"xi", "eta", "zeta"} = {}
        /\ "xi_con" \notin Vorticity /\ "eta_con" \notin Vorticity /\ "zeta_con" \notin Vorticity
    BY DEF Vorticity
  <2> QED
    BY <1>1, <2>1, Syncs
<1> DEFINE from == {"xi", "eta", "before", "xi_con", "eta_con"}
           to == {"xi_con", "eta_con"}
<1>3. from \in AnyFields /\ to \in AnyFields
  BY FieldNames DEF AnyFields
<1>4. Copied(Derive(from, to, Loss(c)), Vorticity, {"zeta"})
  <2>1. Sees(Vorticity, from)
    BY OtherCopies DEF Sees, Vorticity, Paired
  <2>2. AfterDerive(Vorticity, from, to, {"zeta"})
    BY OtherCopies DEF AfterDerive, Vorticity, Paired
  <2>3. \A f \in Paired : f \in to /\ f \in Vorticity /\ Other[f] \in from => f \in from
    OBVIOUS
  <2> QED
    BY <1>1, <1>3, <2>1, <2>2, <2>3, CopiedDerives
<1>5. Copied(Exchange(to), {"zeta"}, {"zeta"})
  BY <1>1, <1>3, QuietExchanges DEF Quiet
<1>6. Copied(CopyZeta, {"zeta"}, {})
  <2>1. {"zeta"} \ {"zeta"} = {} /\ "zeta_con" \notin {"zeta"}
    OBVIOUS
  <2> QED
    BY <1>1, <2>1, Syncs
<1>7. Copied(Derive(from, to, Loss(c)) \o Exchange(to) \o CopyZeta, Vorticity, {})
  BY <1>4, <1>5, <1>6, CopiedOn
<1> QED
  BY <1>2, <1>7 DEF FinishPhysicalUpdate

LEMMA PhysicsVorticityCopied ==
  ASSUME NEW c \in Configurations
  PROVE  Agreeing(PhysicsVorticity(c))
<1> DEFINE V == Vorticity
           W == {"xi", "eta"}
<1>1. /\ V \in SUBSET Paired /\ W \in SUBSET Paired /\ {} \in SUBSET Paired /\ V \in AnyFields /\ W \in AnyFields
      /\ W \subseteq V /\ {} \subseteq V
  BY FieldNames DEF Paired, Vorticity, AnyFields
<1>2. \A f \in Paired : f \in V => Other[f] \notin V
  BY OtherCopies DEF Vorticity
<1>3. Agreeing(BeginPhysicalUpdate(c))
  <2>1. {"before"} \in UnpairedFields /\ W \in AnyFields
    BY FieldNames DEF UnpairedFields, AnyFields, Paired
  <2> QED
    BY <2>1, AgreeingParts DEF BeginPhysicalUpdate
<1>4. Agreeing(When(c.turbulence, DiffuseVorticity(c)))
  <2>1. V \cup {"RKM"} \in AnyFields /\ {"xi", "RKM"} \in AnyFields /\ {"eta", "RKM"} \in AnyFields /\ {"zeta", "RKM"} \in AnyFields
    BY <1>1, FieldNames DEF AnyFields
  <2>2. Agreeing(DiffuseVorticity(c))
    BY <2>1, AgreeingParts DEF DiffuseVorticity, CartesianDiffusion, GeneralizedXiDiffusion,
       GeneralizedEtaDiffusion, GeneralizedZetaDiffusion
  <2> QED
    BY <2>2, AgreeingParts
<1>5. Copied(Update(V), {}, V) /\ Copied(Update(W), {}, V) /\ Copied(Update(V), V, V)
  BY <1>1, <1>2, CopiedRenewals
<1>6. Copied(ForwardUpdateVorticity(c), {}, V)
  BY <1>1, <1>5, CopiedWhen DEF ForwardUpdateVorticity
<1>7. Copied(ApplySponge(c, V), V, V) /\ Copied(ApplyAreaMean(c), V, V)
  BY <1>1, <1>5, CopiedWhen DEF ApplySponge, ApplyAreaMean
<1>8. Copied(Exchange(V), V, V)
  BY <1>1, QuietExchanges DEF Quiet
<1>9. Copied(ZetaStructure(c), V, V)
  <2>1. V \in SUBSET Vorticity /\ "zeta" \in V
    BY DEF Vorticity
  <2> QED
    BY <2>1, ZetaStructureCopied
<1>10. Copied(FinishPhysicalUpdate(c), V, {})
  BY FinishCopied
<1> HIDE DEF V
<1>11. Copied(BeginPhysicalUpdate(c) \o When(c.turbulence, DiffuseVorticity(c)) \o ForwardUpdateVorticity(c)
                \o ApplySponge(c, V) \o ApplyAreaMean(c), {}, V)
  BY <1>3, <1>4, <1>6, <1>7, AgreeingSyncs, CopiedOn
<1> DEFINE P == BeginPhysicalUpdate(c) \o When(c.turbulence, DiffuseVorticity(c)) \o ForwardUpdateVorticity(c)
                  \o ApplySponge(c, V) \o ApplyAreaMean(c)
<1>12. Copied(P, {}, V)
  BY <1>11
<1> HIDE DEF P
<1>13. Copied(P \o Exchange(V) \o ZetaStructure(c) \o FinishPhysicalUpdate(c), {}, {})
  BY <1>8, <1>9, <1>10, <1>12, CopiedOn
<1> QED
  BY <1>13, AgreeingSyncs, AgreeingParts DEF PhysicsVorticity, P, V

(* The wind: what the solvers compute of is left alone by them, and both copies follow.    *)
LEMMA SweepsQuiet ==
  \A S \in SUBSET Paired : \A g \in {"w_guess", "psi_guess"} : Quiet(S, Sweeps(g))
<1> TAKE S \in SUBSET Paired
<1> TAKE g \in {"w_guess", "psi_guess"}
<1>1. {g} \in UnpairedFields /\ {g} \in AnyFields /\ \A f \in S : Other[f] \notin {g}
  BY FieldNames, OtherCopies DEF UnpairedFields, AnyFields, Paired
<1>2. Quiet(S, Read({g}, 1)) /\ Quiet(S, Write({g}, 0)) /\ Quiet(S, ExchangeTo({g}, 1))
  BY <1>1, QuietReads, QuietWrites, QuietExchanges
<1> DEFINE sweep == Read({g}, 1) \o Write({g}, 0) \o ExchangeTo({g}, 1)
<1>3. Quiet(S, sweep)
  BY <1>2, QuietParts
<1> HIDE DEF sweep
<1>4. Quiet(S, sweep \o Perhaps(sweep))
  BY <1>3, QuietParts
<1> QED
  BY <1>4 DEF Sweeps, sweep

LEMMA WindQuiet ==
  ASSUME NEW S \in SUBSET {"u", "v", "zeta"}
  PROVE  /\ S \in SUBSET Paired
         /\ \A fs \in AnyFields : "u_con" \notin fs /\ "v_con" \notin fs /\ ("zeta_con" \in fs => "zeta" \notin S) =>
              /\ \A d \in Nat : Quiet(S, Read(fs, d))
              /\ \A to \in UnpairedFields, d \in Nat : Quiet(S, Derive(fs, to, d))
         /\ \A fs \in UnpairedFields, d \in Nat : Quiet(S, Write(fs, d)) /\ Quiet(S, Update(fs))
         /\ \A fs \in AnyFields, d \in Nat : Quiet(S, Exchange(fs)) /\ Quiet(S, ExchangeTo(fs, d))
         /\ Quiet(S, LaunchGraph) /\ Quiet(S, Invalidate)
         /\ \A P, Q : Quiet(S, P) /\ Quiet(S, Q) => Quiet(S, P \o Q)
         /\ \A b, P : (b => Quiet(S, P)) => Quiet(S, When(b, P))
         /\ \A g \in {"w_guess", "psi_guess"} : Quiet(S, Sweeps(g))
<1>1. S \in SUBSET Paired
  BY DEF Paired
<1>2. /\ \A f \in S : Other[f] \in {"u_con", "v_con", "zeta_con"}
      /\ \A f \in S : Other[f] = "zeta_con" => f = "zeta"
  BY OtherCopies
<1>3. ASSUME NEW fs \in AnyFields, "u_con" \notin fs, "v_con" \notin fs, "zeta_con" \in fs => "zeta" \notin S
      PROVE  \A f \in S : Other[f] \notin fs
  BY <1>2, <1>3
<1> QED
  BY <1>1, <1>3, QuietReads, QuietWrites, QuietExchanges, QuietLaunches, QuietParts, SweepsQuiet

LEMMA CartesianWindCopied ==
  ASSUME NEW c \in Configurations
  PROVE  Copied(PrepareCartesianInputs \o SolveW \o RecoverCartesianWind \o Invalidate \o ShadowWind(c), {"u", "v"}, {})
<1> DEFINE S == {"u", "v"}
<1>1. \A fs \in {{"wind_topo"}, {"vorticity_topo"}, {"w_guess"}, {"W3DNM1"}, {"w"}, {"psi_guess"}, {"psi", "psinm1"}, {"psi"}} :
        fs \in UnpairedFields /\ fs \in AnyFields
  BY FieldNames DEF UnpairedFields, AnyFields, Paired
<1>2. /\ {"u", "v", "w"} \in AnyFields /\ {"xi_con", "eta_con"} \in AnyFields /\ {"w", "W3DNM1"} \in AnyFields
      /\ {"zeta_con", "w"} \in AnyFields /\ S \in AnyFields
  BY FieldNames DEF AnyFields
<1>3. S \in SUBSET {"u", "v", "zeta"} /\ "zeta" \notin S /\ S \in SUBSET S
  OBVIOUS
<1> HIDE DEF S
<1>4. /\ Quiet(S, Derive({"u", "v", "w"}, {"wind_topo"}, 0)) /\ Quiet(S, Read({"wind_topo"}, 1))
      /\ Quiet(S, Read({"xi_con", "eta_con"}, 0)) /\ Quiet(S, Write({"vorticity_topo"}, 0))
      /\ Quiet(S, Exchange({"vorticity_topo"}))
  BY <1>1, <1>2, <1>3, WindQuiet
<1>5. Quiet(S, PrepareCartesianInputs)
  BY <1>3, <1>4, WindQuiet DEF PrepareCartesianInputs
<1>6. /\ Quiet(S, Read({"vorticity_topo"}, 1)) /\ Quiet(S, Derive({"w", "W3DNM1"}, {"w_guess"}, 0))
      /\ Quiet(S, Derive({"w"}, {"W3DNM1"}, 0)) /\ Quiet(S, Sweeps("w_guess"))
      /\ Quiet(S, Write({"w"}, 0)) /\ Quiet(S, ExchangeTo({"w"}, 1))
  BY <1>1, <1>2, <1>3, WindQuiet
<1>7. Quiet(S, SolveW)
  BY <1>3, <1>6, WindQuiet DEF SolveW
<1>8. /\ Quiet(S, Read({"zeta_con", "w"}, 0)) /\ Quiet(S, Derive({"psi", "psinm1"}, {"psi_guess"}, 0))
      /\ Quiet(S, Sweeps("psi_guess")) /\ Quiet(S, Write({"psi", "psinm1"}, 0)) /\ Quiet(S, Exchange({"psi", "psinm1"}))
  BY <1>1, <1>2, <1>3, WindQuiet
<1>9. Quiet(S, CartesianPotentials)
  BY <1>3, <1>8, WindQuiet DEF CartesianPotentials
<1>10. Quiet(S, Read({"psi"}, 1)) /\ Quiet(S, Read({"w"}, 1)) /\ Quiet(S, Read({"vorticity_topo"}, 0)) /\ Quiet(S, Exchange(S))
  BY <1>1, <1>2, <1>3, WindQuiet
<1>11. Copied(Write(S, 0), S, S)
  <2>1. S \in SUBSET Paired
    BY <1>3, WindQuiet
  <2> QED
    BY <1>2, <2>1, CopiedRenewals
<1>12. Copied(RecoverCartesianWind, S, S)
  <2>1. Copied(CartesianPotentials, S, S) /\ Copied(Read({"psi"}, 1), S, S) /\ Copied(Read({"w"}, 1), S, S)
        /\ Copied(Read({"vorticity_topo"}, 0), S, S) /\ Copied(Exchange(S), S, S)
    BY <1>3, <1>9, <1>10 DEF Quiet
  <2>2. Copied(CartesianPotentials \o Read({"psi"}, 1) \o Write(S, 0) \o Read({"w"}, 1) \o Read({"vorticity_topo"}, 0) \o Write(S, 0)
                 \o Exchange(S), S, S)
    BY <1>11, <2>1, CopiedOn
  <2> QED
    BY <2>2 DEF RecoverCartesianWind, S
<1>13. Copied(ShadowWind(c), S, {})
  <2>1. S \ {"u", "v"} = {} /\ "u_con" \notin S /\ "v_con" \notin S /\ S \in SUBSET Paired
    BY <1>3, WindQuiet DEF S
  <2> QED
    BY <2>1, Syncs
<1>14. Copied(PrepareCartesianInputs, S, S) /\ Copied(SolveW, S, S) /\ Copied(Invalidate, S, S)
  BY <1>3, <1>5, <1>7, WindQuiet DEF Quiet
<1>15. Copied(PrepareCartesianInputs \o SolveW \o RecoverCartesianWind \o Invalidate \o ShadowWind(c), S, {})
  BY <1>12, <1>13, <1>14, CopiedOn
<1> QED
  BY <1>15 DEF S

LEMMA GeneralizedQuiet ==
  ASSUME NEW c \in Configurations
  PROVE  LET S == {"u", "v", "zeta"}
         IN /\ Quiet(S, SeedFromPhysical) /\ Quiet(S, AdaptTerrain) /\ Quiet(S, VerticalSolve(c))
            /\ Quiet(S, GeneralizedPotentials) /\ Quiet(S, PreserveCirculation)
            /\ Quiet(S, Read(ActiveVorticity(c), 1))
            /\ Quiet(S, Read({"psi", "w"} \cup ActiveVorticity(c), 1))
            /\ Quiet(S, Derive({"u", "v", "w"}, {"wind_topo"}, 0))
            /\ Quiet(S, Derive({"xi", "eta"}, {"vorticity_topo"}, 0))
<1> DEFINE S == {"u", "v", "zeta"}
<1>1. \A fs \in {{"wind_topo"}, {"vorticity_topo"}, {"w_guess"}, {"W3DNM1"}, {"w"}, {"psi_guess"}, {"psi", "psinm1"}, {"covariant_wind"}} :
        fs \in UnpairedFields /\ fs \in AnyFields
  BY FieldNames DEF UnpairedFields, AnyFields, Paired
<1>2. \A fs \in {{"u", "v"}, {"u", "v", "w"}, {"xi_con", "eta_con"}, {"xi", "eta"}, {"w", "W3DNM1"}, {"zeta", "w"},
                 ActiveVorticity(c), {"psi", "w"} \cup ActiveVorticity(c)} :
        fs \in AnyFields /\ "u_con" \notin fs /\ "v_con" \notin fs /\ "zeta_con" \notin fs
  <2>1. ActiveVorticity(c) = {"vorticity_topo"} \/ ActiveVorticity(c) = {"xi_con", "eta_con"}
    BY DEF ActiveVorticity
  <2>2. /\ {"vorticity_topo"} \in AnyFields /\ {"xi_con", "eta_con"} \in AnyFields
        /\ {"psi", "w"} \cup {"vorticity_topo"} \in AnyFields /\ {"psi", "w"} \cup {"xi_con", "eta_con"} \in AnyFields
        /\ {"u", "v"} \in AnyFields /\ {"u", "v", "w"} \in AnyFields /\ {"xi", "eta"} \in AnyFields
        /\ {"w", "W3DNM1"} \in AnyFields /\ {"zeta", "w"} \in AnyFields
    BY FieldNames DEF AnyFields
  <2>3. ActiveVorticity(c) \in AnyFields /\ {"psi", "w"} \cup ActiveVorticity(c) \in AnyFields
    BY <2>1, <2>2
  <2>4. /\ "u_con" \notin ActiveVorticity(c) /\ "v_con" \notin ActiveVorticity(c) /\ "zeta_con" \notin ActiveVorticity(c)
    BY <2>1
  <2> QED
    BY <2>2, <2>3, <2>4
<1>3. S \in SUBSET S
  OBVIOUS
<1>4. /\ \A fs \in AnyFields : "u_con" \notin fs /\ "v_con" \notin fs /\ "zeta_con" \notin fs =>
           /\ \A d \in Nat : Quiet(S, Read(fs, d))
           /\ \A to \in UnpairedFields, d \in Nat : Quiet(S, Derive(fs, to, d))
      /\ \A fs \in UnpairedFields, d \in Nat : Quiet(S, Write(fs, d)) /\ Quiet(S, Update(fs))
      /\ \A fs \in AnyFields, d \in Nat : Quiet(S, Exchange(fs)) /\ Quiet(S, ExchangeTo(fs, d))
      /\ \A P, Q : Quiet(S, P) /\ Quiet(S, Q) => Quiet(S, P \o Q)
      /\ \A b, P : (b => Quiet(S, P)) => Quiet(S, When(b, P))
      /\ Quiet(S, Sweeps("w_guess")) /\ Quiet(S, Sweeps("psi_guess"))
  BY <1>3, WindQuiet
<1> HIDE DEF S
<1>5. \A fs \in {{"wind_topo"}, {"vorticity_topo"}, {"w_guess"}, {"w"}, {"covariant_wind"}} :
        Quiet(S, Read(fs, 0)) /\ Quiet(S, Read(fs, 1)) /\ Quiet(S, Derive(fs, {"W3DNM1"}, 0)) /\ Quiet(S, Derive(fs, {"w"}, 0))
  <2> TAKE fs \in {{"wind_topo"}, {"vorticity_topo"}, {"w_guess"}, {"w"}, {"covariant_wind"}}
  <2>1. fs \in AnyFields /\ "u_con" \notin fs /\ "v_con" \notin fs /\ "zeta_con" \notin fs
    BY <1>1
  <2> QED
    BY <1>1, <1>4, <2>1
<1>6. Quiet(S, SeedFromPhysical)
  BY <1>2, <1>4 DEF SeedFromPhysical
<1>7. Quiet(S, AdaptTerrain)
  <2>1. /\ Quiet(S, Derive({"xi_con", "eta_con"}, {"vorticity_topo"}, 0))
        /\ Quiet(S, Derive({"u", "v", "w"}, {"wind_topo"}, 0)) /\ Quiet(S, Exchange({"wind_topo"}))
        /\ Quiet(S, Read({"wind_topo"}, 1)) /\ Quiet(S, Write({"vorticity_topo"}, 0)) /\ Quiet(S, Exchange({"vorticity_topo"}))
    BY <1>1, <1>2, <1>4, <1>5
  <2> QED
    BY <1>4, <2>1 DEF AdaptTerrain
<1>8. Quiet(S, VerticalSolve(c))
  <2>1. /\ Quiet(S, Read(ActiveVorticity(c), 1)) /\ Quiet(S, Derive({"w", "W3DNM1"}, {"w_guess"}, 0))
        /\ Quiet(S, Derive({"w"}, {"W3DNM1"}, 0)) /\ Quiet(S, ExchangeTo({"w_guess"}, 1))
        /\ Quiet(S, Sweeps("w_guess")) /\ Quiet(S, Exchange({"w_guess"})) /\ Quiet(S, Derive({"w_guess"}, {"w"}, 0))
    BY <1>1, <1>2, <1>4, <1>5
  <2> QED
    BY <1>4, <2>1 DEF VerticalSolve
<1>9. Quiet(S, GeneralizedPotentials)
  <2>1. {"psi", "psinm1"} \in AnyFields /\ "u_con" \notin {"psi", "psinm1"} /\ "v_con" \notin {"psi", "psinm1"} /\ "zeta_con" \notin {"psi", "psinm1"}
    BY <1>1
  <2>2. /\ Quiet(S, Read({"zeta", "w"}, 0)) /\ Quiet(S, Derive({"psi", "psinm1"}, {"psi_guess"}, 0))
        /\ Quiet(S, ExchangeTo({"psi_guess"}, 1)) /\ Quiet(S, Sweeps("psi_guess"))
        /\ Quiet(S, Write({"psi", "psinm1"}, 0)) /\ Quiet(S, Exchange({"psi", "psinm1"}))
    BY <1>1, <1>2, <1>4, <2>1
  <2> QED
    BY <1>4, <2>2 DEF GeneralizedPotentials
<1>10. Quiet(S, PreserveCirculation)
  <2>1. Quiet(S, Read({"covariant_wind"}, 0)) /\ Quiet(S, Update({"covariant_wind"}))
    BY <1>1, <1>4, <1>5
  <2> QED
    BY <1>4, <2>1 DEF PreserveCirculation
<1>11. /\ Quiet(S, Read(ActiveVorticity(c), 1)) /\ Quiet(S, Read({"psi", "w"} \cup ActiveVorticity(c), 1))
       /\ Quiet(S, Derive({"u", "v", "w"}, {"wind_topo"}, 0)) /\ Quiet(S, Derive({"xi", "eta"}, {"vorticity_topo"}, 0))
  BY <1>1, <1>2, <1>4
<1> QED
  BY <1>6, <1>7, <1>8, <1>9, <1>10, <1>11 DEF S

LEMMA GeneralizedWindCopied ==
  ASSUME NEW c \in Configurations, NEW initial \in BOOLEAN
  PROVE  Copied(SolveGeneralized(c, initial) \o Invalidate \o CopyZeta, {"u", "v"}, {})
<1> DEFINE S == {"u", "v", "zeta"}
           T == {"zeta", "u_con", "v_con"}
           Z == {"zeta"}
           H == {"u_con", "v_con"}
<1>1. /\ S \in SUBSET Paired /\ T \in SUBSET Paired /\ Z \in SUBSET Paired /\ {"u", "v"} \in SUBSET Paired /\ {} \in SUBSET Paired
      /\ S \in SUBSET S /\ Z \in SUBSET S /\ Z \in SUBSET T /\ T \in SUBSET T
      /\ {"u", "v"} \subseteq S
      /\ H \in AnyFields /\ Z \in AnyFields /\ {"u", "v"} \in AnyFields /\ {"psi"} \in AnyFields /\ {"covariant_wind"} \in AnyFields
      /\ {"w", "W3DNM1"} \in AnyFields /\ {"covariant_wind"} \in UnpairedFields /\ Loss(c) \in Nat
  BY Shapes, FieldNames DEF Paired, AnyFields, UnpairedFields
<1>2. /\ Quiet(S, SeedFromPhysical) /\ Quiet(S, AdaptTerrain) /\ Quiet(S, VerticalSolve(c))
      /\ Quiet(S, GeneralizedPotentials) /\ Quiet(S, PreserveCirculation)
      /\ Quiet(S, Read(ActiveVorticity(c), 1))
      /\ Quiet(S, Read({"psi", "w"} \cup ActiveVorticity(c), 1))
      /\ Quiet(S, Derive({"u", "v", "w"}, {"wind_topo"}, 0))
      /\ Quiet(S, Derive({"xi", "eta"}, {"vorticity_topo"}, 0))
  BY GeneralizedQuiet
<1>3. /\ \A fs \in UnpairedFields : Quiet(S, Write(fs, 0))
      /\ \A P, Q : Quiet(S, P) /\ Quiet(S, Q) => Quiet(S, P \o Q)
      /\ \A b, P : (b => Quiet(S, P)) => Quiet(S, When(b, P))
      /\ Quiet(S, LaunchGraph)
  BY <1>1, WindQuiet
<1>4. \A M \in {S, T, Z, {}}, fs \in AnyFields : Copied(Exchange(fs), M, M) /\ Copied(ExchangeTo(fs, 2), M, M) /\ Copied(Invalidate, M, M)
  <2> TAKE M \in {S, T, Z, {}}, fs \in AnyFields
  <2>1. M \in SUBSET Paired /\ M \in SUBSET M
    BY <1>1
  <2> QED
    BY <2>1, QuietExchanges, QuietLaunches DEF Quiet
<1>5. Copied(Update({"zeta"}), S, S)
  <2>1. \A f \in Paired : f \in {"zeta"} => f \in S /\ Other[f] \notin S
    BY OtherCopies
  <2> QED
    BY <1>1, <2>1, CopiedRenewals
<1>6. Copied(Diagnose(c), S, S)
  <2>1. Copied(When(c.bounded, Exchange({"w", "W3DNM1"})), S, S)
    BY <1>1, <1>4, CopiedWhen
  <2>2. /\ Copied(VerticalSolve(c), S, S) /\ Copied(Read(ActiveVorticity(c), 1), S, S) /\ Copied(GeneralizedPotentials, S, S)
        /\ Copied(Read({"psi", "w"} \cup ActiveVorticity(c), 1), S, S) /\ Copied(Write({"covariant_wind"}, 0), S, S)
        /\ Copied(Exchange({"zeta"}), S, S)
    BY <1>1, <1>2, <1>3, <1>4 DEF Quiet
  <2> HIDE DEF S
  <2> QED
    BY <1>5, <2>1, <2>2, CopiedOn DEF Diagnose
<1>7. Copied(When(initial, SeedFromPhysical) \o When(c.terrain, AdaptTerrain) \o When(~initial, LaunchGraph) \o Diagnose(c)
               \o PreserveCirculation, S, S)
  <2>1. /\ Copied(When(initial, SeedFromPhysical), S, S) /\ Copied(When(c.terrain, AdaptTerrain), S, S)
        /\ Copied(When(~initial, LaunchGraph), S, S) /\ Copied(PreserveCirculation, S, S)
    BY <1>1, <1>2, <1>3 DEF Quiet
  <2> HIDE DEF S
  <2> QED
    BY <1>6, <2>1, CopiedOn
<1>8. Copied(Update(H), T, T) /\ Copied(Write(H, 0), S, T)
  <2>1. /\ \A f \in Paired : f \in H => f \in T /\ Other[f] \notin T
        /\ \A f \in Paired : (f \in S \/ f \in H) /\ Other[f] \notin H => f \in T
    BY OtherCopies DEF Paired
  <2> QED
    BY <1>1, <2>1, CopiedRenewals
<1>9. Copied(CommitRecoveredWind, S, T)
  <2>1. Copied(Read({"covariant_wind"}, 1), S, S) /\ Copied(Read({"psi"}, 2), T, T)
    <3>1. \A f \in Paired : Other[f] \notin {"covariant_wind"} /\ Other[f] \notin {"psi"}
      BY OtherCopies DEF Paired
    <3>2. Sees(S, {"covariant_wind"}) /\ Sees(T, {"psi"})
      BY DEF Sees, Paired
    <3> QED
      BY <1>1, <3>2, CopiedReads
  <2>2. Copied(Exchange({"covariant_wind"}), S, S) /\ Copied(ExchangeTo({"psi"}, 2), T, T)
    BY <1>1, <1>4
  <2> HIDE DEF S, T, H
  <2>3. Copied(Exchange({"covariant_wind"}) \o Read({"covariant_wind"}, 1) \o Write(H, 0) \o ExchangeTo({"psi"}, 2)
                 \o Read({"psi"}, 2) \o Update(H), S, T)
    BY <1>8, <2>1, <2>2, CopiedOn
  <2> QED
    BY <2>3 DEF CommitRecoveredWind, H
<1>10. Copied(CorrectCanonicalWind(c), T, T)
  BY <1>1, <1>8, CopiedWhen DEF CorrectCanonicalWind
<1>11. Copied(FinalizeGeneralizedWind(c), T, Z)
  <2>1. Copied(Derive(H, {"u", "v"}, Loss(c)), T, Z)
    <3>1. Z = {f \in T : f \notin H}
      OBVIOUS
    <3>2. /\ \A f \in Paired : f \in {"u", "v"} <=> Other[f] \in H
          /\ \A f \in Paired : f \in {"u", "v"} => f \notin H /\ f \notin T
      BY OtherCopies DEF Paired
    <3> QED
      BY <1>1, <3>1, <3>2, CopiedSyncs
  <2>2. Copied(Exchange(H), T, T) /\ Copied(Exchange({"u", "v"}), Z, Z)
    BY <1>1, <1>4
  <2>3. /\ Copied(AdaptTerrain, Z, Z) /\ Copied(Derive({"u", "v", "w"}, {"wind_topo"}, 0), Z, Z)
        /\ Copied(Derive({"xi", "eta"}, {"vorticity_topo"}, 0), Z, Z)
    BY <1>1, <1>2 DEF Quiet
  <2> HIDE DEF T, Z, H
  <2>4. Copied(IF c.terrain THEN AdaptTerrain
               ELSE Derive({"u", "v", "w"}, {"wind_topo"}, 0) \o Derive({"xi", "eta"}, {"vorticity_topo"}, 0), Z, Z)
    BY <2>3, CopiedOn
  <2>5. Copied(Exchange(H) \o Derive(H, {"u", "v"}, Loss(c)) \o Exchange({"u", "v"})
                 \o IF c.terrain THEN AdaptTerrain
                    ELSE Derive({"u", "v", "w"}, {"wind_topo"}, 0) \o Derive({"xi", "eta"}, {"vorticity_topo"}, 0), T, Z)
    BY <2>1, <2>2, <2>4, CopiedOn
  <2> QED
    BY <2>5 DEF FinalizeGeneralizedWind, H
<1>12. Copied(NudgeTopMean, Z, T)
  <2>1. Copied(Read({"u", "v"}, 0), Z, Z)
    <3>1. Sees(Z, {"u", "v"})
      BY OtherCopies DEF Sees, Paired
    <3> QED
      BY <1>1, <3>1, CopiedReads
  <2>2. Copied(Derive(H, H, 0), Z, T)
    <3>1. Sees(Z, H)
      BY OtherCopies DEF Sees, Paired
    <3>2. AfterDerive(Z, H, H, T)
      BY OtherCopies DEF AfterDerive, Paired
    <3> QED
      BY <1>1, <3>1, <3>2, CopiedDerives
  <2> QED
    BY <2>1, <2>2, CopiedOn DEF NudgeTopMean
<1>13. Copied(CopyZeta, Z, {})
  <2>1. Z \ {"zeta"} = {} /\ "zeta_con" \notin Z
    OBVIOUS
  <2> QED
    BY <1>1, <2>1, Syncs
<1> HIDE DEF S, T, Z, H
<1>14. Copied(When(c.areamn, NudgeTopMean \o FinalizeGeneralizedWind(c)), Z, Z)
  BY <1>1, <1>11, <1>12, CopiedOn, CopiedWhen
<1> DEFINE P == When(initial, SeedFromPhysical) \o When(c.terrain, AdaptTerrain) \o When(~initial, LaunchGraph) \o Diagnose(c)
                  \o PreserveCirculation
<1>15. Copied(P, S, S)
  BY <1>7
<1> HIDE DEF P
<1>16. Copied(P \o CommitRecoveredWind \o CorrectCanonicalWind(c) \o FinalizeGeneralizedWind(c)
                \o When(c.areamn, NudgeTopMean \o FinalizeGeneralizedWind(c)), S, Z)
  BY <1>9, <1>10, <1>11, <1>14, <1>15, CopiedOn
<1>17. Copied(SolveGeneralized(c, initial), S, Z)
  BY <1>16, QuietParts DEF SolveGeneralized, P
<1>18. Copied(SolveGeneralized(c, initial) \o Invalidate \o CopyZeta, S, {})
  BY <1>1, <1>4, <1>13, <1>17, CopiedOn
<1> QED
  BY <1>1, <1>18, CopiedWeakened

LEMMA WindCopied ==
  ASSUME NEW c \in Configurations, NEW initial \in BOOLEAN
  PROVE  Copied(ComputeWindFields(c, initial), {"u", "v"}, {}) /\ Agreeing(ComputeWindFields(c, initial))
<1>1. Copied(ComputeWindFields(c, initial), {"u", "v"}, {})
  BY CartesianWindCopied, GeneralizedWindCopied DEF ComputeWindFields
<1>2. {"u", "v"} \in SUBSET Paired /\ {} \in SUBSET Paired
  BY DEF Paired
<1>3. Copied(ComputeWindFields(c, initial), {}, {})
  BY <1>1, <1>2, CopiedWeakened
<1> QED
  BY <1>1, <1>3, AgreeingSyncs

LEMMA EndAgreeing ==
  ASSUME NEW c \in Configurations
  PROVE  Agreeing(PredictTopWind(c)) /\ Agreeing(DiagnosticFields(c)) /\ Agreeing(RestartHistory(c))
<1>1. /\ \A fs \in {{"u_con", "v_con"}, {"w"}, {"RKM"}, {"R"}, {"v_con", "w"}, {"u_con", "w"}, {"u", "v"}, {"covariant_wind"}} :
           fs \in AnyFields
      /\ {"R"} \in UnpairedFields /\ {"covariant_wind"} \in UnpairedFields /\ Loss(c) \in Nat
  BY FieldNames, Shapes DEF AnyFields, UnpairedFields, Paired
<1>2. Agreeing(PredictTopWind(c))
  BY <1>1, AgreeingParts DEF PredictTopWind
<1>3. Agreeing(DiagnosticFields(c))
  BY <1>1, AgreeingParts DEF DiagnosticFields, DeformationXi, DeformationEta, DeformationZeta
<1>4. Agreeing(SeedFromContravariant(c)) /\ Agreeing(SeedFromPhysical) /\ Agreeing(Read({"u", "v"}, 0))
  BY <1>1, AgreeingParts DEF SeedFromContravariant, SeedFromPhysical
<1>5. SingleStage(c) \in AnyFields
  BY ScalarsUnpaired
<1>6. Agreeing(AdvectScalars(c, SingleStage(c))) /\ Agreeing(VorticityTendencies(c))
  BY <1>5, ThermoAgreeing, TendenciesAgreeing
<1>7. Agreeing(IF Cartesian(c) THEN Read({"u", "v"}, 0)
               ELSE IF c.canonical THEN SeedFromContravariant(c) ELSE SeedFromPhysical)
  BY <1>4
<1>8. Agreeing(RestartHistory(c))
  BY <1>6, <1>7, AgreeingParts DEF RestartHistory
<1> QED
  BY <1>2, <1>3, <1>8

(* What the initial state has set of one copy alone.                                    *)
Alone == {"u", "v", "xi", "eta", "zeta"}
SetAlone(c) ==
  IF c.start = "restart" THEN IF c.canonical THEN {"zeta"} ELSE Alone
  ELSE IF ~Cartesian(c) /\ c.idealized = "none" THEN {"u", "v", "zeta"} ELSE Alone

LEMMA StateCopied ==
  ASSUME NEW c \in Configurations
  PROVE  Copied(InitializeState(c), {}, SetAlone(c)) /\ SetAlone(c) \in SUBSET Alone /\ Alone \in SUBSET Paired
<1> DEFINE Z == {"u", "v", "zeta"}
           fs == {"u", "v", "w", "th", "qv"}
           X == {"xi_con", "eta_con", "zeta"}
           Y == {"u", "v", "zeta", "xi_con", "eta_con"}
<1>1. /\ Alone \in SUBSET Paired /\ Z \in SUBSET Paired /\ {"u", "v"} \in SUBSET Paired /\ Y \in SUBSET Paired /\ {} \in SUBSET Paired
      /\ Z \subseteq Alone /\ {"zeta"} \in SUBSET Paired /\ {"zeta"} \subseteq Alone
  BY DEF Alone, Paired
<1>2. /\ fs \in AnyFields /\ X \in AnyFields /\ {"xi", "eta"} \in AnyFields /\ {"xi_con", "eta_con"} \in AnyFields
      /\ {"th"} \cup Vorticity \in AnyFields /\ {"th"} \in AnyFields /\ {"u", "v", "w"} \in AnyFields
      /\ Halo \in Nat
  BY FieldNames, HaloAssumption DEF AnyFields, Vorticity
<1>3. Copied(Write(fs, Halo), {}, {"u", "v"})
  <2>1. \A f \in Paired : (f \in {} \/ f \in fs) /\ Other[f] \notin fs => f \in {"u", "v"}
    BY DEF Paired
  <2> QED
    BY <1>1, <1>2, <2>1, CopiedRenewals
<1>4. Copied(Write({"xi", "eta"}, 0), {"u", "v"}, Alone)
  BY <1>1, <1>2, CopiedRenewals DEF Alone
<1>5. Copied(Write(X, 0) \o Exchange({"xi_con", "eta_con"}) \o SyncPhysical(c), {"u", "v"}, Z)
  <2>1. Copied(Write(X, 0), {"u", "v"}, Y)
    BY <1>1, <1>2, CopiedRenewals
  <2>2. Copied(Exchange({"xi_con", "eta_con"}), Y, Y)
    BY <1>1, <1>2, QuietExchanges DEF Quiet
  <2>3. Copied(SyncPhysical(c), Y, Z)
    <3>1. Y \ {"xi_con", "eta_con"} = Z /\ "xi" \notin Y /\ "eta" \notin Y
      OBVIOUS
    <3> QED
      BY <1>1, <3>1, Syncs
  <2> HIDE DEF X, Y, Z
  <2> QED
    BY <2>1, <2>2, <2>3, CopiedOn
<1>6. Copied(AssignVars(c), {}, IF Cartesian(c) THEN Alone ELSE Z)
  BY <1>3, <1>4, <1>5, CopiedOn DEF AssignVars
<1>7. \A S \in SUBSET Paired, gs \in AnyFields : Copied(Exchange(gs), S, S)
  BY QuietExchanges DEF Quiet
<1>8. Copied(LoadRestart(c), Alone, SetAlone(c)) \/ c.start # "restart"
  <2> SUFFICES ASSUME c.start = "restart" PROVE Copied(LoadRestart(c), Alone, SetAlone(c))
    OBVIOUS
  <2> DEFINE gs == RestartFields(c)
  <2>1. gs \in AnyFields
    <3>1. Scalars(c) \in AnyFields
      BY ScalarsUnpaired
    <3>2. /\ Vorticity \cup Scalars(c) \cup {"u", "v", "w", "psi", "psinm1", "W3DNM1"} \in AnyFields
          /\ {"xi_con", "eta_con", "u_con", "v_con"} \in AnyFields
      BY <3>1, FieldNames DEF AnyFields, Vorticity
    <3> QED
      BY <3>2 DEF RestartFields, AnyFields
  <2>2. /\ Vorticity \subseteq gs /\ "u" \in gs /\ "v" \in gs
        /\ c.canonical => "xi_con" \in gs /\ "eta_con" \in gs /\ "u_con" \in gs /\ "v_con" \in gs
        /\ "zeta_con" \notin gs
        /\ ~c.canonical => "xi_con" \notin gs /\ "eta_con" \notin gs /\ "u_con" \notin gs /\ "v_con" \notin gs
    <3>1. \A f \in Paired : f \notin Scalars(c)
      BY ScalarsUnpaired DEF UnpairedFields
    <3> QED
      BY <3>1 DEF RestartFields, Paired, Vorticity
  <2> HIDE DEF gs
  <2>3. SetAlone(c) = IF c.canonical THEN {"zeta"} ELSE Alone
    BY DEF SetAlone
  <2>4. \A f \in Paired : (f \in Alone \/ f \in gs) /\ Other[f] \notin gs => f \in SetAlone(c)
    <3>1. CASE c.canonical
      BY <2>2, <2>3, <3>1, OtherCopies DEF Paired, Alone, Vorticity
    <3>2. CASE ~c.canonical
      BY <2>2, <2>3, <3>2, OtherCopies DEF Paired, Alone, Vorticity
    <3> QED
      BY <3>1, <3>2
  <2>5. SetAlone(c) \in SUBSET Paired
    BY <1>1, <2>3
  <2>6. Copied(Write(gs, 0), Alone, SetAlone(c))
    BY <1>1, <2>1, <2>4, <2>5, CopiedRenewals
  <2> QED
    BY <1>7, <2>1, <2>5, <2>6, CopiedOn DEF LoadRestart, ReadAndInitialize, gs
<1>9. /\ Copied(InitializePerturbation(c), Alone, Alone)
      /\ c.idealized = "none" => Copied(InitializePerturbation(c), Z, Z)
      /\ c.idealized # "none" => Copied(InitializePerturbation(c), Z, Alone)
  <2>1. \A S \in {Z, Alone} : Copied(Write({"th"} \cup Vorticity, Halo), S, Alone)
    <3> TAKE S \in {Z, Alone}
    <3>1. \A f \in Paired : (f \in S \/ f \in {"th"} \cup Vorticity) /\ Other[f] \notin {"th"} \cup Vorticity => f \in Alone
      BY <1>1 DEF Alone, Vorticity, Paired
    <3> QED
      BY <1>1, <1>2, <3>1, CopiedRenewals
  <2>2. \A S \in {Z, Alone} : /\ Copied(Write({"th"}, Halo), S, S) /\ Copied(Exchange({"th"} \cup Vorticity), S, S)
                              /\ Copied(Exchange({"u", "v", "w"}), S, S)
    <3> TAKE S \in {Z, Alone}
    <3>1. S \in SUBSET Paired /\ S \in SUBSET S /\ {"th"} \in UnpairedFields
      BY <1>1, <1>2 DEF UnpairedFields, Paired
    <3>2. Quiet(S, Write({"th"}, Halo))
      BY <1>2, <3>1, QuietWrites
    <3>3. Copied(Write({"th"}, Halo), S, S)
      BY <3>1, <3>2 DEF Quiet
    <3> QED
      BY <1>2, <1>7, <3>1, <3>3
  <2>3. \A S \in {Z, Alone} : \A b : Copied(When(b, Exchange({"u", "v", "w"})), S, S)
    BY <1>1, <2>2, CopiedWhen
  <2> DEFINE rest == Write({"th"}, Halo) \o Exchange({"th"} \cup Vorticity)
  <2>4. \A S \in {Z, Alone} : Copied(rest, S, S)
    BY <2>2, CopiedOn
  <2>5. /\ Copied(When(c.idealized # "none", Write({"th"} \cup Vorticity, Halo)), Alone, Alone)
        /\ c.idealized = "none" => Copied(When(c.idealized # "none", Write({"th"} \cup Vorticity, Halo)), Z, Z)
        /\ Copied(When(c.idealized # "none", Write({"th"} \cup Vorticity, Halo)), Z, Alone)
    BY <1>1, <2>1, CopiedWhen
  <2> DEFINE head == When(c.idealized # "none", Write({"th"} \cup Vorticity, Halo))
  <2>6. /\ Copied(head, Alone, Alone)
        /\ c.idealized = "none" => Copied(head, Z, Z)
        /\ Copied(head, Z, Alone)
    BY <2>5
  <2> HIDE DEF head, Z
  <2>7. /\ Copied(head \o Write({"th"}, Halo) \o Exchange({"th"} \cup Vorticity)
                    \o When(c.idealized = "none", Exchange({"u", "v", "w"})), Alone, Alone)
        /\ c.idealized = "none" =>
             Copied(head \o Write({"th"}, Halo) \o Exchange({"th"} \cup Vorticity)
                      \o When(c.idealized = "none", Exchange({"u", "v", "w"})), Z, Z)
        /\ Copied(head \o Write({"th"}, Halo) \o Exchange({"th"} \cup Vorticity)
                    \o When(c.idealized = "none", Exchange({"u", "v", "w"})), Z, Alone)
    BY <2>2, <2>3, <2>6, CopiedOn
  <2> QED
    BY <1>1, <2>7, CopiedWhen DEF InitializePerturbation, head
<1>10. SetAlone(c) \in SUBSET Alone
  BY <1>1 DEF SetAlone
<1>11. CASE c.start = "restart"
  <2>1. Copied(AssignVars(c), {}, Alone)
    <3>1. (IF Cartesian(c) THEN Alone ELSE Z) \in SUBSET Paired /\ (IF Cartesian(c) THEN Alone ELSE Z) \subseteq Alone
      BY <1>1
    <3> QED
      BY <1>1, <1>6, <3>1, CopiedWeakened
  <2> QED
    BY <1>1, <1>8, <1>10, <1>11, <2>1, CopiedOn DEF InitializeState
<1>12. CASE c.start # "restart"
  <2>1. SetAlone(c) = IF ~Cartesian(c) /\ c.idealized = "none" THEN Z ELSE Alone
    BY <1>12 DEF SetAlone
  <2>2. Copied(InitializePerturbation(c), IF Cartesian(c) THEN Alone ELSE Z, SetAlone(c))
    BY <1>9, <2>1
  <2> HIDE DEF Z
  <2> QED
    BY <1>1, <1>6, <1>10, <1>12, <2>2, CopiedOn DEF InitializeState
<1> QED
  BY <1>11, <1>12, <1>10, <1>1

LEMMA RestoredCopied ==
  ASSUME NEW c \in Configurations
  PROVE  Copied(RestoreBoundaries(c), SetAlone(c), SetAlone(c))
<1> DEFINE S == SetAlone(c)
<1>1. S \in SUBSET Paired /\ S \in SUBSET S
  BY StateCopied
<1>2. ThermodynamicsVars(c) \in AnyFields /\ Vorticity \in AnyFields /\ {"qp"} \in UnpairedFields /\ {"condensate"} \in AnyFields
  BY ScalarsUnpaired, FieldNames DEF AnyFields, Vorticity, UnpairedFields, Paired
<1>3. \A f \in S : Other[f] \notin {"condensate"}
  BY <1>1, OtherCopies DEF Paired
<1> HIDE DEF S
<1>4. Quiet(S, Exchange(ThermodynamicsVars(c))) /\ Quiet(S, Exchange(Vorticity)) /\ Quiet(S, RefreshCondensate)
  BY <1>1, <1>2, <1>3, QuietExchanges, QuietWrites DEF RefreshCondensate
<1>5. Quiet(S, RestoreBoundaries(c))
  BY <1>1, <1>4, QuietParts DEF RestoreBoundaries
<1> QED
  BY <1>1, <1>5 DEF Quiet, S

LEMMA AlignedCopied ==
  ASSUME NEW c \in Configurations
  PROVE  Copied(AlignCopies(c), SetAlone(c), IF c.start = "restart" /\ c.canonical THEN {} ELSE {"u", "v"})
<1> DEFINE S == SetAlone(c)
           L == IF c.start = "restart" /\ c.canonical THEN {} ELSE {"u", "v"}
<1>1. /\ S \in SUBSET Paired /\ L \in SUBSET Paired /\ {"xi_con", "eta_con"} \in AnyFields
      /\ "xi" \notin L /\ "eta" \notin L /\ L \ {"xi_con", "eta_con"} = L
  BY StateCopied, FieldNames DEF AnyFields, Paired
<1>2. Copied(SyncPhysical(c), L, L)
  BY <1>1, Syncs
<1>3. HasCanonicalVorticity(c) => S \ {"zeta"} = L /\ "zeta_con" \notin S
  BY DEF HasCanonicalVorticity, SetAlone, Alone
<1>4. S \ {"xi", "eta", "zeta"} \subseteq L /\ "xi_con" \notin S /\ "eta_con" \notin S /\ "zeta_con" \notin S
  BY DEF SetAlone, Alone
<1> HIDE DEF S, L
<1>5. HasCanonicalVorticity(c) => Copied(Exchange({"xi_con", "eta_con"}) \o CopyZeta, S, L)
  <2>1. Copied(Exchange({"xi_con", "eta_con"}), S, S)
    BY <1>1, QuietExchanges DEF Quiet
  <2> QED
    BY <1>1, <1>3, <2>1, Syncs, CopiedOn
<1>6. Copied(SyncContravariant(c), S, L)
  <2>1. Copied(SyncContravariant(c), S, S \ {"xi", "eta", "zeta"})
    BY <1>1, <1>4, Syncs
  <2> QED
    BY <1>1, <1>4, <2>1, CopiedWeakened
<1>7. Copied(When(~Cartesian(c), SyncPhysical(c)), L, L)
  BY <1>1, <1>2, CopiedWhen
<1>8. Copied(IF HasCanonicalVorticity(c) THEN Exchange({"xi_con", "eta_con"}) \o CopyZeta ELSE SyncContravariant(c), S, L)
  BY <1>5, <1>6
<1>9. Copied(AlignCopies(c), S, L)
  BY <1>7, <1>8, CopiedOn DEF AlignCopies
<1> QED
  BY <1>9 DEF S, L

LEMMA InitializationCopied ==
  ASSUME NEW c \in Configurations
  PROVE  Copied(Initialization(c), {}, {})
<1> DEFINE L == IF c.start = "restart" /\ c.canonical THEN {} ELSE {"u", "v"}
<1>1. {"u", "v"} \in SUBSET Paired /\ {} \in SUBSET Paired
  BY DEF Paired
<1>2. Copied(InitialWind(c), L, {})
  <2>1. Copied(ShadowWind(c), {"u", "v"}, {})
    <3>1. {"u", "v"} \ {"u", "v"} = {} /\ "u_con" \notin {"u", "v"} /\ "v_con" \notin {"u", "v"}
      OBVIOUS
    <3> QED
      BY <1>1, <3>1, Syncs
  <2>2. CASE c.start = "restart" /\ c.canonical
    <3>1. Copied(When(~c.canonical, ShadowWind(c)), {}, {})
      BY <1>1, <2>2, CopiedWhen
    <3> QED
      BY <2>2, <3>1 DEF InitialWind
  <2>3. CASE c.start = "restart" /\ ~c.canonical
    <3>1. When(~c.canonical, ShadowWind(c)) = ShadowWind(c)
      BY <2>3 DEF When
    <3> QED
      BY <2>1, <2>3, <3>1 DEF InitialWind
  <2>4. CASE c.start # "restart"
    BY <2>1, <2>4, WindCopied DEF InitialWind
  <2> QED
    BY <2>2, <2>3, <2>4
<1>3. Copied(InitializeState(c), {}, SetAlone(c)) /\ Copied(RestoreBoundaries(c), SetAlone(c), SetAlone(c))
      /\ Copied(AlignCopies(c), SetAlone(c), L)
  BY StateCopied, RestoredCopied, AlignedCopied
<1>4. Copied(DiagnosticFields(c), {}, {}) /\ Copied(RestartHistory(c), {}, {})
  BY EndAgreeing, AgreeingSyncs
<1> HIDE DEF L
<1> QED
  BY <1>2, <1>3, <1>4, CopiedOn DEF Initialization

LEMMA StepCopied ==
  ASSUME NEW c \in Configurations
  PROVE  Copied(StepBody(c), {}, {})
<1>1. /\ Agreeing(ThermoTendencies(c)) /\ Agreeing(UpdateThermo(c)) /\ Agreeing(ApplyTracerSource(c))
      /\ Agreeing(ApplyRandomForcing(c)) /\ Agreeing(RunP3(c)) /\ Agreeing(RunCleo(c))
  BY ThermoAgreeing
<1>2. Agreeing(PhysicsThermo(c)) /\ Agreeing(CondensateForBuoyancy(c)) /\ Agreeing(VorticityTendencies(c))
  BY PhysicsAgreeing, TendenciesAgreeing
<1>3. Agreeing(UpdateVorticity(c)) /\ Agreeing(PhysicsVorticity(c))
  BY UpdateVorticityCopied, PhysicsVorticityCopied
<1>4. Agreeing(When(c.wind, PredictTopWind(c) \o ComputeWindFields(c, FALSE))) /\ Agreeing(DiagnosticFields(c))
  BY WindCopied, EndAgreeing, AgreeingParts
<1>5. Agreeing(StepBody(c))
  <2> DEFINE P == ThermoTendencies(c) \o UpdateThermo(c) \o ApplyTracerSource(c) \o ApplyRandomForcing(c) \o RunP3(c) \o RunCleo(c)
  <2>1. Agreeing(P)
    BY <1>1, AgreeingParts
  <2> HIDE DEF P
  <2>2. Agreeing(P \o PhysicsThermo(c) \o CondensateForBuoyancy(c) \o VorticityTendencies(c) \o UpdateVorticity(c))
    BY <1>2, <1>3, <2>1, AgreeingParts
  <2> DEFINE Q == P \o PhysicsThermo(c) \o CondensateForBuoyancy(c) \o VorticityTendencies(c) \o UpdateVorticity(c)
  <2>3. Agreeing(Q)
    BY <2>2
  <2> HIDE DEF Q
  <2>4. Agreeing(Q \o PhysicsVorticity(c) \o When(c.wind, PredictTopWind(c) \o ComputeWindFields(c, FALSE)) \o DiagnosticFields(c))
    BY <1>3, <1>4, <2>3, AgreeingParts
  <2> QED
    BY <2>4 DEF StepBody, Q, P
<1> QED
  BY <1>5, AgreeingSyncs

---------------------------------------------------------------------------------
(* The copies agree when a run starts and whenever it enters its step.                   *)
CopyAnnotation ==
  [n \in Runs |-> CHOOSE m : IsAnnotation(CopyAnalysis, {}, {}, n, m) /\ Below(CopyAnalysis, m[Len(Body(n)) + 1], {})]

(* A field that has been changed alone is in the mark of the place.                      *)
CopyInv ==
  /\ number \in Runs
  /\ pc \in 1..Len(Body(number)) + 1
  /\ \A f \in Paired : f \in ahead => f \in CopyAnnotation[number][pc]

LEMMA SomeCopyAnnotation ==
  ASSUME NEW n \in Runs
  PROVE  /\ IsAnnotation(CopyAnalysis, {}, {}, n, CopyAnnotation[n])
         /\ Below(CopyAnalysis, CopyAnnotation[n][Len(Body(n)) + 1], {})
<1> DEFINE c == Configuration[n]
           A == CopyAnalysis
<1>1. c \in Configurations
  BY RunsRead
<1>2. Leads(A, Initialization(c), {}, {}) /\ Leads(A, StepBody(c), {}, {})
  BY <1>1, InitializationCopied, StepCopied DEF Copied
<1>3. IsAnalysis(A)
  BY CopiesAnalysed
<1> HIDE DEF A
<1>4. \E m : IsAnnotation(A, {}, {}, n, m) /\ Below(A, m[Len(Body(n)) + 1], {})
  BY <1>2, <1>3, RunIsAnnotated
<1> QED
  BY <1>4 DEF CopyAnnotation, A

LEMMA CopyAnnotated ==
  ASSUME number \in Runs, pc \in 1..Len(Body(number)) + 1
  PROVE  LET m == CopyAnnotation[number]
             k == Instruction
         IN /\ m[1] \in SUBSET Paired /\ m[FirstOfStep[number]] \in SUBSET Paired
            /\ m[pc] \in SUBSET Paired
            /\ k.op = "done" => m[pc] = {}
            /\ k.op # "done" => /\ k \in ProgramOps /\ CopyEffect(k, m[pc], m[pc + 1])
                                /\ pc + 1 \in 1..Len(Body(number)) + 1 /\ m[pc + 1] \in SUBSET Paired
            /\ k.op = "perhaps" => LET to == pc + 1 + k.skip
                                   IN  to \in 1..Len(Body(number)) + 1 /\ m[to] \in SUBSET Paired /\ m[pc] \subseteq m[to]
<1> DEFINE m == CopyAnnotation[number]
           k == Code[number][pc]
           A == CopyAnalysis
           b == Len(Body(number))
<1>1. IsAnnotation(A, {}, {}, number, m) /\ Below(A, m[b + 1], {})
  BY SomeCopyAnnotation
<1>2. /\ A.marks = SUBSET Paired
      /\ \A M, N \in SUBSET Paired : Below(A, M, N) <=> M \subseteq N
      /\ \A o \in ProgramOps, M, N \in SUBSET Paired : Takes(A, o, M, N) <=> CopyEffect(o, M, N)
  BY CopiesAnalysed
<1> HIDE DEF A, m
<1>3. /\ m[1] \in A.marks /\ m[FirstOfStep[number]] \in A.marks /\ m[pc] \in A.marks
      /\ k.op # "done" => /\ k \in ProgramOps /\ Takes(A, k, m[pc], m[pc + 1])
                          /\ pc + 1 \in 1..b + 1 /\ m[pc + 1] \in A.marks
      /\ k.op = "perhaps" => LET to == pc + 1 + k.skip
                             IN  to \in 1..b + 1 /\ m[to] \in A.marks /\ Below(A, m[pc], m[to])
  BY <1>1, AlongTheRun
<1>4. Instruction = k
  BY DEF Instruction
<1>5. k.op = "done" => m[pc] = {}
  <2> SUFFICES ASSUME k.op = "done" PROVE m[pc] = {}
    OBVIOUS
  <2>1. m[pc] \in SUBSET Paired
    BY <1>2, <1>3
  <2>2. CASE pc = b + 1
    <3>1. Below(A, m[pc], {}) /\ {} \in SUBSET Paired
      BY <1>1, <2>2
    <3>2. m[pc] \subseteq {}
      BY <1>2, <2>1, <3>1
    <3> QED
      BY <3>2
  <2>3. CASE pc \in 1..b
    <3>1. k = Body(number)[pc] /\ k \in ProgramOps
      BY <2>3, CodeShape
    <3>2. Takes(A, k, m[pc], m[pc + 1]) /\ m[pc + 1] \in A.marks
      <4>1. m \in [1..b + 1 -> A.marks] /\ Takes(A, Body(number)[pc], m[pc], m[pc + 1])
        BY <1>1, <2>3 DEF IsAnnotation, Annotates
      <4>2. b \in Nat /\ pc + 1 \in 1..b + 1
        BY <2>3, CodeShape
      <4> QED
        BY <3>1, <4>1, <4>2
    <3> QED
      BY <1>2, <2>1, <3>1, <3>2 DEF CopyEffect
  <2> QED
    BY <2>2, <2>3, CodeShape
<1> HIDE DEF k
<1> QED
  BY <1>2, <1>3, <1>4, <1>5 DEF m

LEMMA PartnerCopies ==
  /\ \A f \in Paired : Partners({f}) = {Other[f]}
  /\ \A f \in Paired : \A fs : f \in Partners(fs) <=> Other[f] \in fs /\ f \notin fs
  /\ \A f : f \notin Paired /\ f \notin {"condensate", "qp"} => Partners({f}) = {}
<1>1. \A g, fs : g \in Partners(fs) <=> g \notin fs /\ \E d \in Copies : g \in d /\ \E h \in d : h \in fs
  BY DEF Partners
<1>2. \A f \in Paired : \A d \in Copies : f \in d <=> d = {f, Other[f]}
  BY OtherCopies DEF Copies, Paired
<1>3. \A f \in Paired : {f, Other[f]} \in Copies
  <2> TAKE f \in Paired
  <2>1. {"xi", "xi_con"} \in Copies /\ {"eta", "eta_con"} \in Copies /\ {"zeta", "zeta_con"} \in Copies
        /\ {"u", "u_con"} \in Copies /\ {"v", "v_con"} \in Copies
    BY DEF Copies
  <2>2. \E d \in Copies : f \in d
    BY <2>1 DEF Paired
  <2> QED
    BY <1>2, <2>2
<1>4. \A f \in Paired : \A fs : f \in Partners(fs) <=> Other[f] \in fs /\ f \notin fs
  <2> TAKE f \in Paired
  <2> TAKE fs
  <2>1. (\E d \in Copies : f \in d /\ \E h \in d : h \in fs) <=> (f \in fs \/ Other[f] \in fs)
    <3> DEFINE pair == {f, Other[f]}
    <3>1. pair \in Copies /\ \A d \in Copies : f \in d <=> d = pair
      BY <1>2, <1>3
    <3>2. f \in pair /\ \A h : h \in pair <=> h = f \/ h = Other[f]
      OBVIOUS
    <3> HIDE DEF pair
    <3> QED
      BY <3>1, <3>2
  <2> QED
    BY <1>1, <2>1
<1>5. \A f \in Paired : Partners({f}) = {Other[f]}
  <2> TAKE f \in Paired
  <2>1. Other[f] \in Paired /\ Other[Other[f]] = f /\ Other[f] # f
    BY OtherCopies
  <2>2. Other[f] \in Partners({f})
    BY <1>4, <2>1
  <2>3. ASSUME NEW g \in Partners({f}) PROVE g = Other[f]
    <3>1. g # f /\ \E d \in Copies : g \in d /\ f \in d
      BY <1>1, <2>3
    <3>2. g \in {f, Other[f]}
      BY <1>2, <3>1
    <3> QED
      BY <3>1, <3>2
  <2> QED
    BY <2>2, <2>3
<1>6. \A f : f \notin Paired /\ f \notin {"condensate", "qp"} => Partners({f}) = {}
  <2> SUFFICES ASSUME NEW f, f \notin Paired, f \notin {"condensate", "qp"}, NEW g \in Partners({f}) PROVE FALSE
    OBVIOUS
  <2>1. \E d \in Copies : f \in d
    BY <1>1
  <2> QED
    BY <2>1 DEF Copies, Paired
<1> QED
  BY <1>4, <1>5, <1>6

(* The next operation.                                                       *)
LEMMA CopyReached ==
  ASSUME CopyInv, Instruction.op # "done", Advance,
         \A f \in Paired : f \in ahead' => f \in CopyAnnotation[number][pc + 1]
  PROVE  CopyInv'
<1>1. number \in Runs /\ pc + 1 \in 1..Len(Body(number)) + 1 /\ number' = number /\ pc' = pc + 1
  BY CopyAnnotated DEF CopyInv, Advance
<1>2. (Len(Body(number)))' = Len(Body(number))
  BY <1>1 DEF Body
<1> QED
  BY <1>1, <1>2 DEF CopyInv

LEMMA CopyUnmoved ==
  ASSUME CopyInv, Advance, UNCHANGED ahead, Instruction.op \notin {"write", "derive", "done"}
  PROVE  CopyInv'
<1>1. CopyEffect(Instruction, CopyAnnotation[number][pc], CopyAnnotation[number][pc + 1])
  BY CopyAnnotated DEF CopyInv
<1>2. CopyAnnotation[number][pc] \subseteq CopyAnnotation[number][pc + 1]
  BY <1>1 DEF CopyEffect
<1>3. \A f \in Paired : f \in ahead' => f \in CopyAnnotation[number][pc + 1]
  BY <1>2 DEF CopyInv
<1> QED
  BY <1>3, CopyReached

LEMMA CopyWritten == ASSUME CopyInv, WriteFields PROVE CopyInv'
<1> DEFINE M == CopyAnnotation[number][pc]
           N == CopyAnnotation[number][pc + 1]
           fs == Instruction.fields
<1>1. Instruction.op = "write" /\ Advance
      /\ ahead' = (ahead \ (fs \cup Partners(fs))) \cup {f \in fs : Partners({f}) \ fs # {}}
  BY DEF WriteFields, At
<1>2. AfterWrite(M, fs, N)
  BY <1>1, CopyAnnotated DEF CopyInv, CopyEffect
<1>3. \A f \in Paired : f \in ahead => f \in M
  BY DEF CopyInv
<1> HIDE DEF M, N, fs
<1>4. ASSUME NEW f \in Paired, f \in ahead' PROVE f \in N
  <2>1. Partners({f}) = {Other[f]} /\ (f \in Partners(fs) <=> Other[f] \in fs /\ f \notin fs)
    BY PartnerCopies
  <2>2. CASE f \in ahead /\ f \notin fs /\ f \notin Partners(fs)
    BY <1>2, <1>3, <2>1, <2>2 DEF AfterWrite
  <2>3. CASE f \in fs /\ Partners({f}) \ fs # {}
    BY <1>2, <2>1, <2>3 DEF AfterWrite
  <2> QED
    BY <1>1, <1>4, <2>2, <2>3
<1> QED
  BY <1>1, <1>4, CopyReached DEF N

LEMMA CopyDerived == ASSUME CopyInv, DeriveFields PROVE CopyInv'
<1> DEFINE M == CopyAnnotation[number][pc]
           N == CopyAnnotation[number][pc + 1]
           from == Instruction.from
           to == Instruction.fields
           agreeing == {f \in to : Partners({f}) \cap from # {}}
<1>1. Instruction.op = "derive" /\ Advance
      /\ ahead' = (ahead \ (agreeing \cup Partners(to))) \cup {f \in to \ agreeing : Partners({f}) \ to # {}}
  BY DEF DeriveFields, At
<1>2. AfterDerive(M, from, to, N)
  BY <1>1, CopyAnnotated DEF CopyInv, CopyEffect
<1>3. \A f \in Paired : f \in ahead => f \in M
  BY DEF CopyInv
<1> HIDE DEF M, N, from, to
<1>4. ASSUME NEW f \in Paired, f \in ahead' PROVE f \in N
  <2>1. Partners({f}) = {Other[f]} /\ (f \in Partners(to) <=> Other[f] \in to /\ f \notin to)
    BY PartnerCopies
  <2>2. f \in agreeing <=> f \in to /\ Other[f] \in from
    BY <2>1
  <2> HIDE DEF agreeing
  <2>3. CASE f \in ahead /\ f \notin agreeing /\ f \notin Partners(to)
    BY <1>2, <1>3, <2>1, <2>2, <2>3 DEF AfterDerive
  <2>4. CASE f \in to /\ f \notin agreeing /\ Partners({f}) \ to # {}
    BY <1>2, <2>1, <2>2, <2>4 DEF AfterDerive
  <2> QED
    BY <1>1, <1>4, <2>3, <2>4
<1> QED
  BY <1>1, <1>4, CopyReached DEF N

LEMMA CopySkipped == ASSUME CopyInv, Skip PROVE CopyInv'
<1> DEFINE to == pc + 1 + Instruction.skip
<1>1. Instruction.op = "perhaps" /\ pc' = to /\ number' = number /\ UNCHANGED ahead
  BY DEF Skip, At
<1>2. /\ number \in Runs /\ to \in 1..Len(Body(number)) + 1
      /\ CopyAnnotation[number][pc] \subseteq CopyAnnotation[number][to]
  BY <1>1, CopyAnnotated DEF CopyInv
<1>3. \A f \in Paired : f \in ahead => f \in CopyAnnotation[number][to]
  BY <1>2 DEF CopyInv
<1> HIDE DEF to
<1>4. (Len(Body(number)))' = Len(Body(number))
  BY <1>1 DEF Body
<1> QED
  BY <1>1, <1>2, <1>3, <1>4 DEF CopyInv

LEMMA CopyRestarted == ASSUME CopyInv, FinishStep PROVE CopyInv'
<1>1. Instruction.op = "done" /\ pc' = FirstOfStep[number] /\ number' = number /\ UNCHANGED ahead
  BY DEF FinishStep, At
<1>2. number \in Runs /\ FirstOfStep[number] \in 1..Len(Body(number)) + 1
  BY CodeShape DEF CopyInv
<1>3. CopyAnnotation[number][pc] = {}
  BY <1>1, CopyAnnotated DEF CopyInv
<1>4. \A f \in Paired : f \notin ahead
  BY <1>3 DEF CopyInv
<1>5. (Len(Body(number)))' = Len(Body(number))
  BY <1>1 DEF Body
<1> QED
  BY <1>1, <1>2, <1>4, <1>5 DEF CopyInv

LEMMA CopyInit == Init => CopyInv
<1> SUFFICES ASSUME Init PROVE CopyInv
  OBVIOUS
<1>1. number \in Runs /\ pc = 1 /\ ahead = {}
  BY DEF Init
<1>2. 1 \in 1..Len(Body(number)) + 1
  BY <1>1, CodeShape
<1> QED
  BY <1>1, <1>2 DEF CopyInv

LEMMA CopyStep == CopyInv /\ [Next]_vars => CopyInv'
<1> SUFFICES ASSUME CopyInv, [Next]_vars PROVE CopyInv'
  OBVIOUS
<1>1. CASE WriteFields
  BY <1>1, CopyWritten
<1>2. CASE DeriveFields
  BY <1>2, CopyDerived
<1>3. CASE Skip
  BY <1>3, CopySkipped
<1>4. CASE FinishStep
  BY <1>4, CopyRestarted
<1>5. CASE ExchangeFields
  BY <1>5, CopyUnmoved DEF ExchangeFields, At
<1>6. CASE ReadFields
  BY <1>6, CopyUnmoved DEF ReadFields, At
<1>7. CASE AdvectFields
  BY <1>7, CopyUnmoved DEF AdvectFields, At
<1>8. CASE Enter
  BY <1>8, CopyUnmoved DEF Enter, At
<1>9. CASE SwapFields
  BY <1>9, CopyUnmoved DEF SwapFields, At
<1>10. CASE LaunchOrCapture
  BY <1>10, CopyUnmoved DEF LaunchOrCapture, At
<1>11. CASE ComputeMeanWind
  BY <1>11, CopyUnmoved DEF ComputeMeanWind, At
<1>12. CASE InvalidateMeanWind
  BY <1>12, CopyUnmoved DEF InvalidateMeanWind, At
<1>13. CASE UNCHANGED vars
  BY <1>13 DEF vars, CopyInv, Body
<1> QED
  BY <1>1, <1>2, <1>3, <1>4, <1>5, <1>6, <1>7, <1>8, <1>9, <1>10, <1>11, <1>12, <1>13 DEF Next

(* The physical and the canonical components of the vorticity and of the wind describe   *)
(* one state in every configuration: none is overwritten from its copy, nor read by the  *)
(* side of its copy, while only one of the two has been changed                        *)
(* (DynamicalCore::sync_*, finish_physical_vorticity_update).                         *)
THEOREM CopiesAgree == Spec => []CopiesNeverDiverge
<1>1. CopyInv => CopiesNeverDiverge
  <2> SUFFICES ASSUME CopyInv PROVE CopiesNeverDiverge
    OBVIOUS
  <2> DEFINE M == CopyAnnotation[number][pc]
             k == Instruction
  <2>1. k.op # "done" => \E N : CopyEffect(k, M, N)
    BY CopyAnnotated DEF CopyInv
  <2>2. \A f \in Paired : f \in ahead => f \in M
    BY DEF CopyInv
  <2> HIDE DEF M, k
  <2>3. ASSUME k.op = "derive", NEW f \in k.fields \ {"condensate", "qp"}, f \in ahead, Partners({f}) \cap k.from # {}
        PROVE  f \in k.from
    <3>1. f \in Paired
      BY <2>3, PartnerCopies
    <3>2. Partners({f}) = {Other[f]}
      BY <3>1, PartnerCopies
    <3> QED
      BY <2>1, <2>2, <2>3, <3>1, <3>2 DEF CopyEffect
  <2>4. ASSUME NEW used, Sees(M, used), NEW f \in Stale(used)
        PROVE  Partners({f}) \cap used # {}
    <3>1. f \in used /\ f \notin {"condensate", "qp"} /\ Partners({f}) \cap ahead # {}
      BY <2>4 DEF Stale
    <3>2. f \in Paired
      BY <3>1, PartnerCopies
    <3>3. Partners({f}) = {Other[f]} /\ Other[f] \in Paired
      BY <3>2, PartnerCopies, OtherCopies
    <3>4. Other[f] \in used
      BY <2>2, <2>4, <3>1, <3>2, <3>3 DEF Sees
    <3> QED
      BY <3>3, <3>4
  <2>5. k.op \in {"read", "advect"} => Sees(M, k.fields)
    BY <2>1 DEF CopyEffect
  <2>6. k.op = "derive" => Sees(M, k.from)
    BY <2>1 DEF CopyEffect
  <2> QED
    BY <2>3, <2>4, <2>5, <2>6 DEF CopiesNeverDiverge, At, k
<1> QED
  BY <1>1, CopyInit, CopyStep, PTL DEF Spec

---------------------------------------------------------------------------------
(* Halos.  A mark is a depth for each field, that its halo has at least: none is read     *)
(* deeper than two layers.                                                         *)
Depths == [Fields -> 0..2]

HaloEffect(k, M, N) ==
  /\ k.op # "done"
  /\ k.op \in {"read", "advect"} => \A f \in k.fields : k.depth <= M[f]
  /\ k.op = "mean" => \A f \in MeanOf : Needs(k.variant) <= M[f]
  /\ k.op = "write" => /\ k.depth <= Halo
                       /\ \A f \in Fields : N[f] <= IF f \in k.fields THEN k.depth ELSE M[f]
  /\ k.op = "exchange" => /\ k.depth <= Halo
                          /\ \A f \in Fields : N[f] <= M[f] \/ (f \in k.fields /\ N[f] <= k.depth)
  /\ k.op = "derive" => /\ k.from # {}
                        /\ \A f \in k.fields : N[f] = 0 \/ \A g \in k.from : N[f] + k.depth <= M[g]
                        /\ \A f \in Fields : f \in k.fields \/ N[f] <= M[f]
  /\ k.op \notin {"write", "exchange", "derive"} => \A f \in Fields : N[f] <= M[f]

Shallower(M, N) == \A f \in Fields : N[f] <= M[f]

HaloAnalysis ==
  [marks |-> Depths,
   below |-> {p \in Depths \X Depths : Shallower(p[1], p[2])},
   takes |-> {t \in ProgramOps \X Depths \X Depths : HaloEffect(t[1], t[2], t[3])}]

Reaches(P, M, N) == Leads(HaloAnalysis, P, M, N)
Keeps(M, P) == Reaches(P, M, M)

LEMMA DepthTypes == \A M \in Depths : \A f \in Fields : M[f] \in 0..2
BY DEF Depths

LEMMA OpFields ==
  \A k \in ProgramOps :
    /\ k.op \in {"read", "write", "exchange", "derive", "advect"} => k.fields \subseteq Fields /\ k.depth \in Nat
    /\ k.op = "derive" => k.from \subseteq Fields
    /\ k.op = "mean" => k.variant \in Variants
BY DEF ProgramOps

LEMMA HalosAnalysed ==
  /\ HaloAnalysis.marks = Depths /\ IsAnalysis(HaloAnalysis)
  /\ \A M, N \in Depths : Below(HaloAnalysis, M, N) <=> Shallower(M, N)
  /\ \A k \in ProgramOps, M, N \in Depths : Takes(HaloAnalysis, k, M, N) <=> HaloEffect(k, M, N)
<1> DEFINE A == HaloAnalysis
<1>1. A.marks = Depths
  BY DEF HaloAnalysis
<1>2. \A M, N \in Depths : Below(A, M, N) <=> Shallower(M, N)
  BY DEF HaloAnalysis, Below
<1>3. \A k \in ProgramOps, M, N \in Depths : Takes(A, k, M, N) <=> HaloEffect(k, M, N)
  BY DEF HaloAnalysis, Takes
<1>4. ASSUME NEW k \in ProgramOps, NEW M \in Depths, NEW N \in Depths, NEW O \in Depths, HaloEffect(k, M, N), Shallower(N, O)
      PROVE  HaloEffect(k, M, O)
  <2>1. \A f \in Fields : M[f] \in 0..2 /\ N[f] \in 0..2 /\ O[f] \in 0..2 /\ O[f] <= N[f]
    BY <1>4, DepthTypes DEF Shallower
  <2>2. Halo \in Nat
    BY HaloAssumption
  <2>3. k.op \in {"read", "advect"} => \A f \in k.fields : k.depth <= M[f]
    BY <1>4 DEF HaloEffect
  <2>4. k.op = "mean" => \A f \in MeanOf : Needs(k.variant) <= M[f]
    BY <1>4 DEF HaloEffect
  <2>5. k.op = "write" => /\ k.depth <= Halo
                          /\ \A f \in Fields : O[f] <= IF f \in k.fields THEN k.depth ELSE M[f]
    BY <1>4, <2>1, OpFields DEF HaloEffect
  <2>6. k.op = "exchange" => /\ k.depth <= Halo
                             /\ \A f \in Fields : O[f] <= M[f] \/ (f \in k.fields /\ O[f] <= k.depth)
    BY <1>4, <2>1, OpFields DEF HaloEffect
  <2>7. k.op = "derive" => /\ k.from # {}
                           /\ \A f \in k.fields : O[f] = 0 \/ \A g \in k.from : O[f] + k.depth <= M[g]
                           /\ \A f \in Fields : f \in k.fields \/ O[f] <= M[f]
    <3> SUFFICES ASSUME k.op = "derive"
                 PROVE  /\ k.from # {}
                        /\ \A f \in k.fields : O[f] = 0 \/ \A g \in k.from : O[f] + k.depth <= M[g]
                        /\ \A f \in Fields : f \in k.fields \/ O[f] <= M[f]
      OBVIOUS
    <3>1. /\ k.from # {} /\ k.from \subseteq Fields /\ k.fields \subseteq Fields /\ k.depth \in Nat
          /\ \A f \in k.fields : N[f] = 0 \/ \A g \in k.from : N[f] + k.depth <= M[g]
          /\ \A f \in Fields : f \in k.fields \/ N[f] <= M[f]
      BY <1>4, OpFields DEF HaloEffect
    <3>2. ASSUME NEW f \in k.fields, O[f] # 0, NEW g \in k.from PROVE O[f] + k.depth <= M[g]
      <4>1. f \in Fields /\ g \in Fields
        BY <3>1, <3>2
      <4>2. O[f] \in 0..2 /\ N[f] \in 0..2 /\ M[g] \in 0..2 /\ O[f] <= N[f] /\ k.depth \in Nat
        BY <2>1, <3>1, <4>1
      <4>3. N[f] # 0
        BY <3>2, <4>2
      <4>4. N[f] + k.depth <= M[g]
        BY <3>1, <4>3
      <4> QED
        BY <4>2, <4>4
    <3> QED
      BY <2>1, <3>1, <3>2
  <2>8. k.op \notin {"write", "exchange", "derive"} => \A f \in Fields : O[f] <= M[f]
    BY <1>4, <2>1 DEF HaloEffect
  <2> QED
    BY <1>4, <2>3, <2>4, <2>5, <2>6, <2>7, <2>8 DEF HaloEffect
<1>5. ASSUME NEW k \in ProgramOps, NEW M \in Depths, NEW N \in Depths, k.op = "perhaps", Shallower(M, N)
      PROVE  HaloEffect(k, M, N)
  BY <1>5 DEF HaloEffect, Shallower
<1>6. \A M \in Depths : Shallower(M, M)
  BY DepthTypes DEF Shallower
<1>7. \A M, N, O \in Depths : Shallower(M, N) /\ Shallower(N, O) => Shallower(M, O)
  <2> TAKE M, N, O \in Depths
  <2>1. \A f \in Fields : M[f] \in 0..2 /\ N[f] \in 0..2 /\ O[f] \in 0..2
    BY DepthTypes
  <2> QED
    BY <2>1 DEF Shallower
<1> HIDE DEF A
<1>8. IsAnalysis(A)
  BY <1>1, <1>2, <1>3, <1>4, <1>5, <1>6, <1>7 DEF IsAnalysis
<1> QED
  BY <1>1, <1>2, <1>3, <1>8 DEF A

LEMMA ReachesOn ==
  \A P, Q, M, N, O : Reaches(P, M, N) /\ Reaches(Q, N, O) => Reaches(P \o Q, M, O)
BY HalosAnalysed, LeadsOn DEF Reaches

LEMMA ReachesOnce ==
  ASSUME NEW k \in ProgramOps, NEW M \in Depths, NEW N \in Depths, k.op # "perhaps", HaloEffect(k, M, N)
  PROVE  Reaches(<<k>>, M, N)
BY HalosAnalysed, LeadsOnce DEF Reaches

LEMMA ReachesWeakened ==
  ASSUME NEW P, NEW L \in Depths, NEW M \in Depths, NEW N \in Depths, NEW O \in Depths,
         Shallower(L, M), Reaches(P, M, N), Shallower(N, O)
  PROVE  Reaches(P, L, O)
BY HalosAnalysed, LeadsWeakened DEF Reaches

LEMMA ShallowerItself == \A M \in Depths : Shallower(M, M)
BY DepthTypes DEF Shallower

LEMMA ReachesWhen ==
  ASSUME NEW b, NEW P, NEW M \in Depths, NEW N \in Depths, Shallower(M, N), b => Reaches(P, M, N)
  PROVE  Reaches(When(b, P), M, N)
<1>1. Reaches(<<>>, M, N)
  BY HalosAnalysed, LeadsNowhere DEF Reaches
<1> QED
  BY <1>1 DEF When

LEMMA KeepsParts ==
  ASSUME NEW M \in Depths
  PROVE  /\ \A P, Q : Keeps(M, P) /\ Keeps(M, Q) => Keeps(M, P \o Q)
         /\ \A b, P : (b => Keeps(M, P)) => Keeps(M, When(b, P))
         /\ \A P : Keeps(M, P) => Keeps(M, Perhaps(P))
         /\ Keeps(M, <<>>)
<1>1. Shallower(M, M)
  BY ShallowerItself
<1>2. \A P, Q : Keeps(M, P) /\ Keeps(M, Q) => Keeps(M, P \o Q)
  BY ReachesOn DEF Keeps
<1>3. \A b, P : (b => Keeps(M, P)) => Keeps(M, When(b, P))
  BY <1>1, ReachesWhen DEF Keeps
<1>4. \A P : Keeps(M, P) => Keeps(M, Perhaps(P))
  BY <1>1, HalosAnalysed, LeadsPerhaps DEF Keeps, Reaches
<1>5. Keeps(M, <<>>)
  BY <1>1, HalosAnalysed, LeadsNowhere DEF Keeps, Reaches
<1> QED
  BY <1>2, <1>3, <1>4, <1>5

(* Single operations.                                                        *)
LEMMA KeepReads ==
  \A fs \in AnyFields, d \in Nat, M \in Depths :
    (\A f \in fs : d <= M[f]) =>
      /\ Keeps(M, Read(fs, d))
      /\ \A v \in Variants : d <= M["mean_wind"] => Keeps(M, Transport(fs, d, v))
<1> TAKE fs \in AnyFields, d \in Nat, M \in Depths
<1> SUFFICES ASSUME \A f \in fs : d <= M[f], NEW v \in Variants
             PROVE  Keeps(M, Read(fs, d)) /\ (d <= M["mean_wind"] => Keeps(M, Transport(fs, d, v)))
  BY DEF Variants
<1> DEFINE j == [op |-> "read", fields |-> fs, depth |-> d]
           k == [op |-> "advect", fields |-> fs \cup {"mean_wind"}, depth |-> d, variant |-> v]
<1>1. /\ j \in ProgramOps /\ j.op = "read" /\ j.fields = fs /\ j.depth = d
      /\ k \in ProgramOps /\ k.op = "advect" /\ k.fields = fs \cup {"mean_wind"} /\ k.depth = d
  BY FieldNames DEF ProgramOps, AnyFields
<1> HIDE DEF j, k
<1>2. \A f \in Fields : M[f] <= M[f]
  BY DepthTypes
<1>3. HaloEffect(j, M, M)
  BY <1>1, <1>2 DEF HaloEffect
<1>4. d <= M["mean_wind"] => HaloEffect(k, M, M)
  BY <1>1, <1>2 DEF HaloEffect
<1>5. Reaches(<<j>>, M, M) /\ (d <= M["mean_wind"] => Reaches(<<k>>, M, M))
  BY <1>1, <1>3, <1>4, ReachesOnce
<1> QED
  BY <1>5 DEF Read, Transport, Keeps, j, k

LEMMA KeepMeans ==
  \A v \in Variants, M \in Depths : (\A f \in MeanOf : Needs(v) <= M[f]) => Keeps(M, MeanWind(v))
<1> TAKE v \in Variants, M \in Depths
<1> SUFFICES ASSUME \A f \in MeanOf : Needs(v) <= M[f] PROVE Keeps(M, MeanWind(v))
  OBVIOUS
<1> DEFINE k == [op |-> "mean", variant |-> v]
<1>1. k \in ProgramOps /\ k.op = "mean" /\ k.variant = v
  BY DEF ProgramOps
<1> HIDE DEF k
<1>2. \A f \in Fields : M[f] <= M[f]
  BY DepthTypes
<1>3. HaloEffect(k, M, M)
  BY <1>1, <1>2 DEF HaloEffect
<1>4. Reaches(<<k>>, M, M)
  BY <1>1, <1>3, ReachesOnce
<1> QED
  BY <1>4 DEF MeanWind, Keeps, k

LEMMA KeepLaunches ==
  \A M \in Depths : Keeps(M, LaunchGraph) /\ Keeps(M, Invalidate) /\ \A fs \in AnyFields : Keeps(M, SwapStorage(fs))
<1> SUFFICES ASSUME NEW M \in Depths, NEW fs \in AnyFields
             PROVE  Keeps(M, LaunchGraph) /\ Keeps(M, Invalidate) /\ Keeps(M, SwapStorage(fs))
  BY DEF AnyFields
<1> DEFINE j == [op |-> "graph"]
           k == [op |-> "invalidate"]
           l == [op |-> "swap", fields |-> fs]
<1>1. j \in ProgramOps /\ j.op = "graph" /\ k \in ProgramOps /\ k.op = "invalidate"
      /\ l \in ProgramOps /\ l.op = "swap"
  BY DEF ProgramOps, AnyFields
<1> HIDE DEF j, k, l
<1>2. \A f \in Fields : M[f] <= M[f]
  BY DepthTypes
<1>3. HaloEffect(j, M, M) /\ HaloEffect(k, M, M) /\ HaloEffect(l, M, M)
  BY <1>1, <1>2 DEF HaloEffect
<1>4. Reaches(<<j>>, M, M) /\ Reaches(<<k>>, M, M) /\ Reaches(<<l>>, M, M)
  BY <1>1, <1>3, ReachesOnce
<1> QED
  BY <1>4 DEF LaunchGraph, Invalidate, SwapStorage, Keeps, j, k, l

LEMMA ReachesByWriting ==
  \A fs \in AnyFields, d \in Nat, M, N \in Depths :
    d <= Halo /\ (\A f \in Fields : N[f] <= IF f \in fs THEN d ELSE M[f]) => Reaches(Write(fs, d), M, N)
<1> TAKE fs \in AnyFields, d \in Nat, M, N \in Depths
<1> SUFFICES ASSUME d <= Halo, \A f \in Fields : N[f] <= IF f \in fs THEN d ELSE M[f]
             PROVE  Reaches(Write(fs, d), M, N)
  OBVIOUS
<1> DEFINE k == [op |-> "write", fields |-> fs, depth |-> d]
<1>1. k \in ProgramOps /\ k.op = "write" /\ k.fields = fs /\ k.depth = d
  BY DEF ProgramOps, AnyFields
<1> HIDE DEF k
<1>2. HaloEffect(k, M, N)
  BY <1>1 DEF HaloEffect
<1>3. Reaches(<<k>>, M, N)
  BY <1>1, <1>2, ReachesOnce
<1> QED
  BY <1>3 DEF Write, k

LEMMA ReachesByExchange ==
  \A fs \in AnyFields, M, N \in Depths :
    /\ \A d \in Nat : d <= Halo /\ (\A f \in Fields : N[f] <= M[f] \/ (f \in fs /\ N[f] <= d)) => Reaches(ExchangeTo(fs, d), M, N)
    /\ (\A f \in Fields : N[f] <= M[f] \/ f \in fs) => Reaches(Exchange(fs), M, N)
<1> TAKE fs \in AnyFields, M, N \in Depths
<1>1. ASSUME NEW d \in Nat, d <= Halo, \A f \in Fields : N[f] <= M[f] \/ (f \in fs /\ N[f] <= d)
      PROVE  Reaches(ExchangeTo(fs, d), M, N)
  <2> DEFINE k == [op |-> "exchange", fields |-> fs, depth |-> d]
  <2>1. k \in ProgramOps /\ k.op = "exchange" /\ k.fields = fs /\ k.depth = d
    BY DEF ProgramOps, AnyFields
  <2> HIDE DEF k
  <2>2. HaloEffect(k, M, N)
    BY <1>1, <2>1 DEF HaloEffect
  <2>3. Reaches(<<k>>, M, N)
    BY <2>1, <2>2, ReachesOnce
  <2> QED
    BY <2>3 DEF ExchangeTo, k
<1>2. ASSUME \A f \in Fields : N[f] <= M[f] \/ f \in fs PROVE Reaches(Exchange(fs), M, N)
  <2>1. Halo \in Nat /\ Halo >= 2
    BY HaloAssumption
  <2>2. \A f \in Fields : N[f] <= Halo
    BY <2>1, DepthTypes
  <2> QED
    BY <1>1, <1>2, <2>1, <2>2 DEF Exchange
<1> QED
  BY <1>1, <1>2

LEMMA ReachesByDeriving ==
  \A from \in AnyFields, fs \in AnyFields, d \in Nat, M, N \in Depths :
    /\ from # {}
    /\ \A f \in fs : N[f] = 0 \/ \A g \in from : N[f] + d <= M[g]
    /\ \A f \in Fields : f \in fs \/ N[f] <= M[f]
    => Reaches(Derive(from, fs, d), M, N)
<1> TAKE from \in AnyFields, fs \in AnyFields, d \in Nat, M, N \in Depths
<1> SUFFICES ASSUME from # {}, \A f \in fs : N[f] = 0 \/ \A g \in from : N[f] + d <= M[g],
                    \A f \in Fields : f \in fs \/ N[f] <= M[f]
             PROVE  Reaches(Derive(from, fs, d), M, N)
  OBVIOUS
<1> DEFINE k == [op |-> "derive", from |-> from, fields |-> fs, depth |-> d]
<1>1. k \in ProgramOps /\ k.op = "derive" /\ k.fields = fs /\ k.from = from /\ k.depth = d
  BY DEF ProgramOps, AnyFields
<1> HIDE DEF k
<1>2. HaloEffect(k, M, N)
  BY <1>1 DEF HaloEffect
<1>3. Reaches(<<k>>, M, N)
  BY <1>1, <1>2, ReachesOnce
<1> QED
  BY <1>3 DEF Derive, k

(* What is not filled anew is not relied on: fs lose their halos.                       *)
Lower(M, fs) == [f \in Fields |-> IF f \in fs THEN 0 ELSE M[f]]

LEMMA Lowered ==
  \A M \in Depths : \A fs : /\ Lower(M, fs) \in Depths /\ Shallower(M, Lower(M, fs))
                            /\ \A f \in Fields : Lower(M, fs)[f] = IF f \in fs THEN 0 ELSE M[f]
<1> TAKE M \in Depths
<1> TAKE fs
<1> DEFINE L == Lower(M, fs)
<1>1. \A f \in Fields : M[f] \in 0..2
  BY DepthTypes
<1>2. L \in Depths /\ \A f \in Fields : L[f] = IF f \in fs THEN 0 ELSE M[f]
  BY <1>1 DEF Lower, Depths
<1> HIDE DEF L
<1>3. Shallower(M, L)
  BY <1>1, <1>2 DEF Shallower
<1> QED
  BY <1>2, <1>3 DEF L

LEMMA KeepExchanges ==
  \A M \in Depths, fs \in AnyFields : /\ Keeps(M, Exchange(fs))
                                      /\ \A d \in Nat : d <= Halo => Keeps(M, ExchangeTo(fs, d))
<1> TAKE M \in Depths, fs \in AnyFields
<1>1. \A f \in Fields : M[f] <= M[f]
  BY DepthTypes
<1> QED
  BY <1>1, ReachesByExchange DEF Keeps

LEMMA LowerByWriting ==
  \A M \in Depths, fs \in AnyFields : \A gs :
    (\A f \in fs : f \in gs \/ M[f] = 0) =>
      /\ \A d \in Nat : d <= Halo => Reaches(Write(fs, d), M, Lower(M, gs)) /\ Reaches(Write(fs, d), Lower(M, gs), Lower(M, gs))
      /\ Reaches(Update(fs), M, Lower(M, gs)) /\ Reaches(Update(fs), Lower(M, gs), Lower(M, gs))
<1> TAKE M \in Depths, fs \in AnyFields
<1> TAKE gs
<1> SUFFICES ASSUME \A f \in fs : f \in gs \/ M[f] = 0, NEW d \in Nat, d <= Halo
             PROVE  /\ Reaches(Write(fs, d), M, Lower(M, gs)) /\ Reaches(Write(fs, d), Lower(M, gs), Lower(M, gs))
                    /\ Reaches(Update(fs), M, Lower(M, gs)) /\ Reaches(Update(fs), Lower(M, gs), Lower(M, gs))
  BY HaloAssumption
<1> DEFINE L == Lower(M, gs)
<1>1. L \in Depths /\ \A f \in Fields : L[f] = IF f \in gs THEN 0 ELSE M[f]
  BY Lowered
<1> HIDE DEF L
<1>2. \A f \in Fields : M[f] \in 0..2 /\ L[f] \in 0..2
  BY <1>1, DepthTypes
<1>3. fs \subseteq Fields
  BY DEF AnyFields
<1>4. \A f \in fs : L[f] = 0
  BY <1>1, <1>2, <1>3
<1>5. \A e \in Nat : /\ \A f \in Fields : L[f] <= IF f \in fs THEN e ELSE M[f]
                     /\ \A f \in Fields : L[f] <= IF f \in fs THEN e ELSE L[f]
  BY <1>1, <1>2, <1>4
<1>6. 0 \in Nat /\ 0 <= Halo
  BY HaloAssumption
<1>7. \A e \in Nat : e <= Halo => Reaches(Write(fs, e), M, L) /\ Reaches(Write(fs, e), L, L)
  BY <1>1, <1>5, ReachesByWriting
<1>8. Keeps(M, Read(fs, 0)) /\ Keeps(L, Read(fs, 0))
  BY <1>1, <1>2, <1>3, <1>6, KeepReads
<1>9. Reaches(Update(fs), M, L) /\ Reaches(Update(fs), L, L)
  BY <1>6, <1>7, <1>8, ReachesOn DEF Update, Keeps
<1> QED
  BY <1>7, <1>9 DEF L

LEMMA RaiseByExchange ==
  \A M \in Depths, fs \in AnyFields : \A gs :
    (\A f \in gs \cap Fields : f \in fs \/ M[f] = 0) =>
      /\ Reaches(Exchange(fs), Lower(M, gs), M)
      /\ \A d \in Nat : d <= Halo /\ (\A f \in fs : M[f] <= d) => Reaches(ExchangeTo(fs, d), Lower(M, gs), M)
<1> TAKE M \in Depths, fs \in AnyFields
<1> TAKE gs
<1> SUFFICES ASSUME \A f \in gs \cap Fields : f \in fs \/ M[f] = 0
             PROVE  /\ Reaches(Exchange(fs), Lower(M, gs), M)
                    /\ \A d \in Nat : d <= Halo /\ (\A f \in fs : M[f] <= d) => Reaches(ExchangeTo(fs, d), Lower(M, gs), M)
  OBVIOUS
<1> DEFINE L == Lower(M, gs)
<1>1. L \in Depths /\ \A f \in Fields : L[f] = IF f \in gs THEN 0 ELSE M[f]
  BY Lowered
<1> HIDE DEF L
<1>2. \A f \in Fields : M[f] \in 0..2 /\ L[f] \in 0..2
  BY <1>1, DepthTypes
<1>3. \A f \in Fields : M[f] <= L[f] \/ f \in fs
  BY <1>1, <1>2
<1>4. \A d \in Nat : (\A f \in fs : M[f] <= d) => \A f \in Fields : M[f] <= L[f] \/ (f \in fs /\ M[f] <= d)
  BY <1>3
<1>5. Reaches(Exchange(fs), L, M)
  BY <1>1, <1>3, ReachesByExchange
<1>6. \A d \in Nat : d <= Halo /\ (\A f \in fs : M[f] <= d) => Reaches(ExchangeTo(fs, d), L, M)
  BY <1>1, <1>4, ReachesByExchange
<1> QED
  BY <1>5, <1>6 DEF L

(* A field that is written and exchanged is as it was.                                 *)
LEMMA KeepRefreshed ==
  \A M \in Depths, fs \in AnyFields :
    /\ Keeps(M, Update(fs) \o Exchange(fs)) /\ Keeps(M, Write(fs, 0) \o Exchange(fs))
    /\ (\A f \in fs : M[f] <= 1) => Keeps(M, Write(fs, 0) \o ExchangeTo(fs, 1))
<1> TAKE M \in Depths, fs \in AnyFields
<1>1. /\ Reaches(Write(fs, 0), M, Lower(M, fs)) /\ Reaches(Update(fs), M, Lower(M, fs))
      /\ Reaches(Exchange(fs), Lower(M, fs), M)
  BY HaloAssumption, LowerByWriting, RaiseByExchange
<1>2. (\A f \in fs : M[f] <= 1) => Reaches(ExchangeTo(fs, 1), Lower(M, fs), M)
  BY HaloAssumption, RaiseByExchange
<1> QED
  BY <1>1, <1>2, ReachesOn DEF Keeps

LEMMA KeepWrites ==
  \A M \in Depths, fs \in AnyFields, d \in Nat :
    /\ d <= Halo /\ (\A f \in fs : M[f] <= d) => Keeps(M, Write(fs, d))
    /\ \A from \in AnyFields : from # {} /\ (\A f \in fs : M[f] = 0 \/ \A g \in from : M[f] + d <= M[g]) => Keeps(M, Derive(from, fs, d))
<1> TAKE M \in Depths, fs \in AnyFields, d \in Nat
<1>1. \A f \in Fields : M[f] <= M[f]
  BY DepthTypes
<1>2. ASSUME d <= Halo, \A f \in fs : M[f] <= d PROVE Keeps(M, Write(fs, d))
  BY <1>1, <1>2, ReachesByWriting DEF Keeps
<1>3. ASSUME NEW from \in AnyFields, from # {}, \A f \in fs : M[f] = 0 \/ \A g \in from : M[f] + d <= M[g]
      PROVE  Keeps(M, Derive(from, fs, d))
  BY <1>1, <1>3, ReachesByDeriving DEF Keeps
<1> QED
  BY <1>2, <1>3

---------------------------------------------------------------------------------
(* How deep the halos are between the routines of a step: two layers of what is            *)
(* exchanged whole, one of what a relaxation leaves or what is derived once; on a skew grid *)
(* the physical components lose a layer, and a Cartesian relaxation refreshes one of w.     *)
Whole == {"th", "qv", "qp", "RKM", "RKH", "VEN2D", "xi_con", "eta_con", "zeta", "u_con", "v_con",
          "mean_wind", "psi", "psinm1"}
Partial == {"R", "W3DNM1", "w_guess", "psi_guess", "wind_topo", "vorticity_topo"}
Settled(c) ==
  [f \in Fields |->
     IF f \in Whole \/ f \in Scalars(c) THEN 2
     ELSE IF f \in {"xi", "eta", "u", "v"} THEN 2 - Loss(c)
     ELSE IF f = "w" THEN (IF Cartesian(c) THEN 1 ELSE 2)
     ELSE IF f \in Partial THEN 1 ELSE 0]
ZetaOpen(c) == Lower(Settled(c), {"zeta"})

(* What halos follow from: random perturbations of th are exchanged with the fields of P3;   *)
(* a nudged tracer with those of the turbulence; the curl of a profile by the solve of the    *)
(* mapped wind; and on a skew grid the canonical components are those the run has.           *)
HalosFollow(c) ==
  /\ c.random => c.micro = "p3"
  /\ "tracer" \in c.nudged => c.turbulence \/ c.tracer = "none"
  /\ c.start = "profile" => ~Cartesian(c) /\ c.wind
  /\ c.map = "skew" => IF c.start = "restart" THEN c.canonical ELSE c.wind /\ c.idealized = "none"

LEMMA ScalarFields ==
  \A c \in Configurations :
    /\ \A f : f \in Scalars(c) <=> \/ f \in {"th", "qv"}
                                   \/ f = "condensate" /\ c.micro = "p3"
                                   \/ f = "tracer" /\ c.tracer # "none"
    /\ \A f : f \in P3Fields(c) <=> f = "condensate" /\ c.micro = "p3"
    /\ \A fs \in {Scalars(c), SingleStage(c), ThermodynamicsVars(c), {"th", "qv"} \cup P3Fields(c)} :
         fs \in AnyFields /\ fs \subseteq Scalars(c)
    /\ c.nudged \in AnyFields /\ c.nudged \subseteq {"th", "qv", "condensate", "tracer"}
    /\ c.swapped \in AnyFields
<1> TAKE c \in Configurations
<1>1. c.nudged \subseteq {"th", "qv", "condensate", "tracer"} /\ c.swapped \in AnyFields
  BY Shapes DEF Configurations
<1>2. \A f : f \in P3Fields(c) <=> f = "condensate" /\ c.micro = "p3"
  BY DEF P3Fields
<1>3. \A f : f \in Scalars(c) <=> \/ f \in {"th", "qv"}
                                  \/ f = "condensate" /\ c.micro = "p3"
                                  \/ f = "tracer" /\ c.tracer # "none"
  BY <1>2 DEF Scalars
<1>4. Scalars(c) \in AnyFields /\ c.nudged \in AnyFields
  BY ScalarsUnpaired
<1>5. {"th", "qv"} \cup P3Fields(c) \subseteq Scalars(c) /\ SingleStage(c) \subseteq Scalars(c) /\ ThermodynamicsVars(c) \subseteq Scalars(c)
  BY <1>2, <1>3 DEF SingleStage, ThermodynamicsVars
<1>6. \A fs \in {Scalars(c), SingleStage(c), ThermodynamicsVars(c), {"th", "qv"} \cup P3Fields(c)} :
         fs \in AnyFields /\ fs \subseteq Scalars(c)
  BY <1>4, <1>5 DEF AnyFields
<1> QED
  BY <1>1, <1>2, <1>3, <1>4, <1>6

LEMMA LossIs == \A c \in Configurations : /\ Loss(c) = IF c.map = "skew" THEN 1 ELSE 0
                                          /\ Loss(c) \in 0..1 /\ Loss(c) \in Nat
                                          /\ Cartesian(c) => Loss(c) = 0
BY DEF Loss, Cartesian

LEMMA SettledDepths ==
  ASSUME NEW c \in Configurations, NEW M \in {Settled(c), ZetaOpen(c)}
  PROVE  /\ M \in Depths /\ Shallower(Settled(c), M)
         /\ \A f \in Whole : f = "zeta" \/ M[f] = 2
         /\ \A f \in Partial : M[f] = 1
         /\ \A f \in Scalars(c) : M[f] = 2
         /\ \A f \in {"xi", "eta", "u", "v"} : M[f] = 2 - Loss(c)
         /\ M["w"] = IF Cartesian(c) THEN 1 ELSE 2
         /\ \A f \in {"zeta_con", "T", "before", "covariant_wind"} : M[f] = 0
         /\ c.micro # "p3" => M["condensate"] = 0
         /\ c.tracer = "none" => M["tracer"] = 0
         /\ Settled(c) \in Depths /\ ZetaOpen(c) \in Depths
         /\ Settled(c)["zeta"] = 2 /\ M["zeta"] = IF M = Settled(c) THEN 2 ELSE 0
<1> DEFINE S == Settled(c)
<1>1. Loss(c) \in 0..1
  BY LossIs
<1>2. S \in Depths
  BY <1>1 DEF Settled, Depths
<1>3. ZetaOpen(c) = Lower(S, {"zeta"}) /\ ZetaOpen(c) \in Depths /\ Shallower(S, S) /\ Shallower(S, ZetaOpen(c))
      /\ \A f \in Fields : ZetaOpen(c)[f] = IF f \in {"zeta"} THEN 0 ELSE S[f]
  BY <1>2, Lowered, ShallowerItself DEF ZetaOpen
<1>4. S["zeta"] = 2
  BY FieldNames DEF Settled, Whole
<1>5. M \in Depths /\ Shallower(S, M) /\ (\A f \in Fields : f = "zeta" \/ M[f] = S[f]) /\ M["zeta"] = IF M = S THEN 2 ELSE 0
  BY <1>2, <1>3, <1>4, FieldNames
<1>6. /\ \A f \in Whole : f \in Fields /\ S[f] = 2
      /\ \A f \in Partial : f \in Fields /\ f # "zeta" /\ S[f] = 1
  BY FieldNames, ScalarFields DEF Settled, Whole, Partial
<1>7. \A f \in Scalars(c) : f \in Fields /\ f # "zeta" /\ S[f] = 2
  BY FieldNames, ScalarFields DEF Settled
<1>8. \A f \in {"xi", "eta", "u", "v"} : f \in Fields /\ f # "zeta" /\ S[f] = 2 - Loss(c)
  BY FieldNames, ScalarFields DEF Settled, Whole
<1>9. /\ S["w"] = IF Cartesian(c) THEN 1 ELSE 2
      /\ \A f \in {"zeta_con", "T", "before", "covariant_wind"} : f \in Fields /\ f # "zeta" /\ S[f] = 0
      /\ c.micro # "p3" => S["condensate"] = 0
      /\ c.tracer = "none" => S["tracer"] = 0
  <2>1. \A f \in {"w", "zeta_con", "T", "before", "covariant_wind"} : f \in Fields /\ f \notin Scalars(c)
    BY FieldNames, ScalarFields
  <2>2. c.micro # "p3" => "condensate" \in Fields /\ "condensate" \notin Scalars(c)
    BY FieldNames, ScalarFields
  <2>3. c.tracer = "none" => "tracer" \in Fields /\ "tracer" \notin Scalars(c)
    BY FieldNames, ScalarFields
  <2>4. S["w"] = IF Cartesian(c) THEN 1 ELSE 2
    BY <2>1 DEF Settled, Whole
  <2>5. \A f \in {"zeta_con", "T", "before", "covariant_wind"} : f \in Fields /\ f # "zeta" /\ S[f] = 0
    BY <2>1 DEF Settled, Whole, Partial
  <2>6. c.micro # "p3" => S["condensate"] = 0
    BY <2>2 DEF Settled, Whole, Partial
  <2>7. c.tracer = "none" => S["tracer"] = 0
    BY <2>3 DEF Settled, Whole, Partial
  <2> QED
    BY <2>4, <2>5, <2>6, <2>7
<1> HIDE DEF S
<1>10. M["w"] = S["w"] /\ M["condensate"] = S["condensate"] /\ M["tracer"] = S["tracer"]
  BY <1>5, FieldNames
<1>11. \A f \in {"zeta_con", "T", "before", "covariant_wind"} : M[f] = 0
  BY <1>5, <1>9
<1>12. \A f \in Whole : f = "zeta" \/ M[f] = 2
  BY <1>5, <1>6
<1>13. (\A f \in Partial : M[f] = 1) /\ \A f \in Scalars(c) : M[f] = 2
  BY <1>5, <1>6, <1>7
<1>14. \A f \in {"xi", "eta", "u", "v"} : M[f] = 2 - Loss(c)
  BY <1>5, <1>8
<1> QED
  BY <1>2, <1>3, <1>4, <1>5, <1>9, <1>10, <1>11, <1>12, <1>13, <1>14 DEF S

---------------------------------------------------------------------------------
(* The scalars.                                                              *)
LEMMA ShallowReads ==
  \A M \in Depths, fs \in AnyFields : /\ Keeps(M, Read(fs, 0))
                                      /\ \A v \in Variants : Keeps(M, Transport(fs, 0, v))
<1> TAKE M \in Depths, fs \in AnyFields
<1>1. "mean_wind" \in Fields /\ \A f \in fs : f \in Fields
  BY FieldNames DEF AnyFields
<1>2. \A f \in Fields : 0 <= M[f]
  BY DepthTypes
<1>3. 0 <= M["mean_wind"] /\ \A f \in fs : 0 <= M[f]
  BY <1>1, <1>2
<1> QED
  BY <1>3, KeepReads

LEMMA AdvectKeeps ==
  ASSUME NEW c \in Configurations
  PROVE  /\ \A fs \in AnyFields : fs \subseteq Scalars(c) => Keeps(Settled(c), AdvectScalars(c, fs))
         /\ c.tracer # "none" => Keeps(Settled(c), StageOfTracer)
<1> DEFINE M == Settled(c)
<1>1. /\ M \in Depths /\ \A f \in Scalars(c) : M[f] = 2
      /\ \A f \in {"mean_wind", "u_con", "v_con"} : M[f] = 2
      /\ M["w"] = IF Cartesian(c) THEN 1 ELSE 2
  BY SettledDepths DEF Whole
<1> HIDE DEF M
<1>2. "Scalar" \in Variants
  BY DEF Variants
<1>3. Keeps(M, MeanWind("Scalar"))
  <2>1. \A f \in MeanOf : Needs("Scalar") <= M[f]
    BY <1>1 DEF MeanOf, Needs
  <2> QED
    BY <1>1, <1>2, <2>1, KeepMeans
<1>4. ASSUME NEW fs \in AnyFields, fs \subseteq Scalars(c)
      PROVE  /\ Keeps(M, Transport(fs, 2, "Scalar")) /\ Keeps(M, Transport(fs, 1, "Scalar"))
             /\ Keeps(M, Read(fs, 2)) /\ Keeps(M, Read(fs, 1))
  <2>1. 2 <= M["mean_wind"] /\ 1 <= M["mean_wind"] /\ \A f \in fs : 2 <= M[f] /\ 1 <= M[f]
    BY <1>1, <1>4
  <2> QED
    BY <1>1, <1>2, <2>1, KeepReads
<1>5. ASSUME NEW fs \in AnyFields, fs \subseteq Scalars(c) PROVE Keeps(M, AdvectScalars(c, fs))
  <2>1. Keeps(M, Transport(fs, 2, "Scalar")) /\ Keeps(M, Transport(fs, 0, "Scalar"))
    BY <1>1, <1>2, <1>4, <1>5, ShallowReads
  <2>2. Keeps(M, TakacsTransport(fs, "Scalar")) /\ Keeps(M, GeneralizedTransport(fs))
    BY <1>1, <2>1, KeepsParts DEF TakacsTransport, FluxConvergenceZ, GeneralizedTransport
  <2> QED
    BY <1>1, <1>3, <2>2, KeepsParts DEF AdvectScalars
<1>6. ASSUME c.tracer # "none" PROVE Keeps(M, StageOfTracer)
  <2>1. {"tracer"} \in AnyFields /\ {"tracer"} \subseteq Scalars(c) /\ {} \in AnyFields /\ {} \subseteq Scalars(c)
    BY <1>6, FieldNames, ScalarFields DEF AnyFields
  <2>2. /\ Keeps(M, Read({"tracer"}, 2)) /\ Keeps(M, Transport({}, 2, "Scalar")) /\ Keeps(M, Read({"tracer"}, 1))
        /\ Keeps(M, Transport({"tracer"}, 1, "Scalar")) /\ Keeps(M, Update({"tracer"}) \o Exchange({"tracer"}))
    BY <1>1, <1>4, <2>1, KeepRefreshed
  <2>3. Keeps(M, MusclDonorFactors({"tracer"}))
    BY <1>1, <2>2, KeepsParts DEF MusclDonorFactors
  <2>4. Keeps(M, MeanWind("Scalar") \o MusclReconstruct({"tracer"}) \o MusclDonorFactors({"tracer"}) \o MusclFluxes({"tracer"}))
    BY <1>1, <1>3, <2>2, <2>3, KeepsParts DEF MusclReconstruct, MusclFluxes
  <2> DEFINE before == MeanWind("Scalar") \o MusclReconstruct({"tracer"}) \o MusclDonorFactors({"tracer"}) \o MusclFluxes({"tracer"})
  <2>5. Keeps(M, before)
    BY <2>4
  <2> HIDE DEF before
  <2>6. Keeps(M, before \o Update({"tracer"}) \o Exchange({"tracer"}))
    <3>1. Reaches(before, M, M) /\ Reaches(Update({"tracer"}), M, Lower(M, {"tracer"})) /\ Reaches(Exchange({"tracer"}), Lower(M, {"tracer"}), M)
      BY <1>1, <2>1, <2>5, LowerByWriting, RaiseByExchange DEF Keeps
    <3> QED
      BY <3>1, ReachesOn DEF Keeps
  <2> QED
    BY <2>6 DEF StageOfTracer, before
<1> QED
  BY <1>5, <1>6 DEF M

LEMMA ThermoKeeps ==
  ASSUME NEW c \in Configurations
  PROVE  /\ Keeps(Settled(c), ThermoTendencies(c)) /\ Keeps(Settled(c), UpdateThermo(c))
         /\ Keeps(Settled(c), ApplyTracerSource(c)) /\ Keeps(Settled(c), RunCleo(c))
         /\ c.micro = "p3" => Keeps(Settled(c), RefreshCondensate)
<1> DEFINE M == Settled(c)
<1>1. /\ M \in Depths /\ M["qp"] = 2 /\ (\A f \in Scalars(c) : M[f] = 2)
  BY SettledDepths DEF Whole
<1>2. SingleStage(c) \in AnyFields /\ SingleStage(c) \subseteq Scalars(c)
  BY ScalarFields
<1>3. /\ {"tracer"} \in AnyFields /\ {"th", "qv"} \in AnyFields /\ {"qp"} \in AnyFields /\ {"th", "qv", "qp"} \in AnyFields
      /\ {"condensate"} \in AnyFields
  BY FieldNames DEF AnyFields
<1>4. Keeps(M, AdvectScalars(c, SingleStage(c))) /\ (c.tracer # "none" => Keeps(M, StageOfTracer))
  BY <1>2, AdvectKeeps
<1> HIDE DEF M
<1>5. Keeps(M, ThermoTendencies(c))
  BY <1>4 DEF ThermoTendencies
<1>6. Keeps(M, UpdateThermo(c))
  <2>1. Keeps(M, When(c.tracer = "ssprk2", StageOfTracer \o StageOfTracer))
    BY <1>1, <1>4, KeepsParts
  <2>2. Reaches(Update(SingleStage(c)), M, Lower(M, SingleStage(c))) /\ Reaches(Exchange(SingleStage(c)), Lower(M, SingleStage(c)), M)
    BY <1>1, <1>2, LowerByWriting, RaiseByExchange
  <2> QED
    BY <2>1, <2>2, ReachesOn DEF UpdateThermo, Keeps
<1>7. Keeps(M, ApplyTracerSource(c))
  BY <1>1, <1>3, KeepRefreshed, KeepsParts DEF ApplyTracerSource
<1>8. Keeps(M, RunCleo(c))
  <2> DEFINE L == Lower(M, {"th", "qv", "qp"})
  <2>1. Reaches(Update({"th", "qv"}), M, L) /\ Reaches(Write({"qp"}, 0), L, L) /\ Reaches(Exchange({"th", "qv", "qp"}), L, M)
    BY <1>1, <1>3, HaloAssumption, LowerByWriting, RaiseByExchange
  <2> HIDE DEF L
  <2>2. Keeps(M, Update({"th", "qv"}) \o Write({"qp"}, 0) \o Exchange({"th", "qv", "qp"}))
    BY <2>1, ReachesOn DEF Keeps
  <2> QED
    BY <1>1, <2>2, KeepsParts DEF RunCleo
<1>9. ASSUME c.micro = "p3" PROVE Keeps(M, RefreshCondensate)
  <2>1. M["condensate"] = 2
    BY <1>1, <1>9, ScalarFields
  <2>2. {"condensate"} # {} /\ \A f \in {"qp"} : \A g \in {"condensate"} : M[f] + 0 <= M[g]
    BY <1>1, <2>1
  <2> QED
    BY <1>1, <1>3, <2>2, KeepWrites DEF RefreshCondensate
<1> QED
  BY <1>5, <1>6, <1>7, <1>8, <1>9 DEF M

LEMMA ForcedKeeps ==
  ASSUME NEW c \in Configurations, HalosFollow(c)
  PROVE  \E N \in Depths : /\ Reaches(ApplyRandomForcing(c), Settled(c), N)
                           /\ Reaches(RunP3(c), N, Settled(c))
<1> DEFINE M == Settled(c)
           fs == {"th", "qv", "condensate", "qp"}
           L == Lower(M, fs)
<1>1. M \in Depths /\ M["T"] = 0
  BY SettledDepths
<1>2. c.random => c.micro = "p3"
  BY DEF HalosFollow
<1>3. /\ fs \in AnyFields /\ {"th"} \in AnyFields /\ {"th", "qv", "condensate", "T"} \in AnyFields /\ {"th", "qv", "condensate"} \in AnyFields
      /\ {"condensate"} \in AnyFields /\ {"qp"} \in AnyFields
  BY FieldNames DEF AnyFields
<1>4. L \in Depths /\ Shallower(M, L) /\ L["qp"] = 0
  BY <1>1, FieldNames, Lowered
<1> HIDE DEF M
<1>5. /\ Reaches(Update({"th"}), M, L) /\ Reaches(Write({"th", "qv", "condensate", "T"}, 0), L, L) /\ Reaches(Exchange(fs), L, M)
  BY <1>1, <1>3, HaloAssumption, LowerByWriting, RaiseByExchange
<1> HIDE DEF L
<1>6. Reaches(Read({"th", "qv", "condensate"}, 0), L, L)
  BY <1>3, <1>4, ShallowReads DEF Keeps
<1>7. Reaches(RefreshCondensate, L, L)
  <2>1. {"condensate"} # {} /\ \A f \in {"qp"} : L[f] = 0
    BY <1>4
  <2> QED
    BY <1>3, <1>4, <2>1, KeepWrites DEF RefreshCondensate, Keeps
<1>8. CASE c.micro = "p3"
  <2>1. Reaches(ApplyRandomForcing(c), M, L)
    BY <1>1, <1>4, <1>5, ReachesWhen DEF ApplyRandomForcing
  <2>2. Reaches(Read({"th", "qv", "condensate"}, 0) \o Write({"th", "qv", "condensate", "T"}, 0) \o RefreshCondensate \o Exchange(fs), L, M)
    BY <1>5, <1>6, <1>7, ReachesOn
  <2>3. Reaches(RunP3(c), L, M)
    BY <1>8, <2>2 DEF RunP3, When, fs
  <2> QED
    BY <1>4, <2>1, <2>3 DEF M
<1>9. CASE c.micro # "p3"
  <2>1. Keeps(M, ApplyRandomForcing(c)) /\ Keeps(M, RunP3(c))
    BY <1>1, <1>2, <1>9, KeepsParts DEF ApplyRandomForcing, RunP3
  <2> QED
    BY <1>1, <2>1 DEF M, Keeps
<1> QED
  BY <1>8, <1>9

---------------------------------------------------------------------------------
(* What is read a layer deep is at least that deep.                                    *)
Deep == Whole \cup Partial \cup {"xi", "eta", "u", "v", "w"}

LEMMA SettledReads ==
  ASSUME NEW c \in Configurations, NEW M \in {Settled(c), ZetaOpen(c)}
  PROVE  \A fs \in AnyFields : fs \subseteq Deep /\ ("zeta" \notin fs \/ M = Settled(c)) => Keeps(M, Read(fs, 1))
<1> TAKE fs \in AnyFields
<1> SUFFICES ASSUME fs \subseteq Deep, "zeta" \notin fs \/ M = Settled(c) PROVE Keeps(M, Read(fs, 1))
  OBVIOUS
<1>1. /\ M \in Depths /\ (\A f \in Whole : f = "zeta" \/ M[f] = 2) /\ (\A f \in Partial : M[f] = 1)
      /\ \A f \in {"xi", "eta", "u", "v"} : M[f] = 2 - Loss(c)
      /\ M["w"] = IF Cartesian(c) THEN 1 ELSE 2
      /\ M["zeta"] = IF M = Settled(c) THEN 2 ELSE 0
  BY SettledDepths
<1>2. Loss(c) \in 0..1
  BY LossIs
<1>3. ASSUME NEW f \in fs PROVE 1 <= M[f]
  <2>1. f \in Whole \/ f \in Partial \/ f \in {"xi", "eta", "u", "v"} \/ f = "w"
    BY <1>3 DEF Deep
  <2>2. CASE f \in Whole
    BY <1>1, <1>3, <2>2
  <2>3. CASE f \in Partial
    BY <1>1, <2>3
  <2>4. CASE f \in {"xi", "eta", "u", "v"}
    BY <1>1, <1>2, <2>4
  <2>5. CASE f = "w"
    BY <1>1, <2>5
  <2> QED
    BY <2>1, <2>2, <2>3, <2>4, <2>5
<1> QED
  BY <1>1, <1>3, KeepReads

(* The copies, between routines.                                                      *)
LEMMA KeepSyncs ==
  ASSUME NEW c \in Configurations, NEW M \in {Settled(c), ZetaOpen(c)}
  PROVE  /\ Keeps(M, SyncPhysical(c)) /\ Keeps(M, CopyZeta)
         /\ Keeps(M, BeginPhysicalUpdate(c)) /\ Keeps(M, ZetaStructure(c))
         /\ Loss(c) = 0 => Keeps(M, ShadowWind(c)) /\ Keeps(M, SyncContravariant(c))
<1>1. /\ M \in Depths /\ M["xi_con"] = 2 /\ M["eta_con"] = 2 /\ M["u_con"] = 2 /\ M["v_con"] = 2
      /\ M["xi"] = 2 - Loss(c) /\ M["eta"] = 2 - Loss(c) /\ M["u"] = 2 - Loss(c) /\ M["v"] = 2 - Loss(c)
      /\ M["zeta_con"] = 0 /\ M["before"] = 0
  BY SettledDepths DEF Whole
<1>2. Loss(c) \in 0..1 /\ Loss(c) \in Nat
  BY LossIs
<1>3. /\ {"xi_con", "eta_con"} \in AnyFields /\ {"xi", "eta"} \in AnyFields /\ {"zeta"} \in AnyFields /\ {"zeta_con"} \in AnyFields
      /\ {"u", "v"} \in AnyFields /\ {"u_con", "v_con"} \in AnyFields /\ {"before"} \in AnyFields
      /\ {"xi_con", "eta_con"} # {} /\ {"xi", "eta"} # {} /\ {"zeta"} # {} /\ {"u", "v"} # {}
  BY FieldNames DEF AnyFields
<1>4. Keeps(M, SyncPhysical(c))
  <2>1. \A f \in {"xi", "eta"} : \A g \in {"xi_con", "eta_con"} : M[f] + Loss(c) <= M[g]
    BY <1>1, <1>2
  <2> QED
    BY <1>1, <1>2, <1>3, <2>1, KeepWrites DEF SyncPhysical
<1>5. Keeps(M, CopyZeta)
  <2>1. \A f \in {"zeta_con"} : M[f] = 0
    BY <1>1
  <2> QED
    BY <1>1, <1>3, <2>1, KeepWrites DEF CopyZeta
<1>6. Keeps(M, BeginPhysicalUpdate(c))
  <2>1. \A f \in {"before"} : M[f] = 0
    BY <1>1
  <2>2. Keeps(M, Derive({"xi", "eta"}, {"before"}, 0))
    BY <1>1, <1>3, <2>1, KeepWrites
  <2> QED
    BY <1>1, <2>2, KeepsParts DEF BeginPhysicalUpdate
<1>7. Keeps(M, ZetaStructure(c))
  <2>1. {"xi", "eta"} \subseteq Deep /\ "zeta" \notin {"xi", "eta"}
    BY DEF Deep
  <2>2. Keeps(M, Read({"xi", "eta"}, 1))
    BY <1>3, <2>1, SettledReads
  <2>3. Reaches(Update({"zeta"}), M, Lower(M, {"zeta"})) /\ Reaches(Exchange({"zeta"}), Lower(M, {"zeta"}), M)
    BY <1>1, <1>3, LowerByWriting, RaiseByExchange
  <2>4. Keeps(M, Read({"xi", "eta"}, 1) \o Update({"zeta"}) \o Exchange({"zeta"}))
    BY <2>2, <2>3, ReachesOn DEF Keeps
  <2> QED
    BY <1>1, <2>4, KeepsParts DEF ZetaStructure
<1>8. ASSUME Loss(c) = 0 PROVE Keeps(M, ShadowWind(c)) /\ Keeps(M, SyncContravariant(c))
  <2>1. /\ \A f \in {"u_con", "v_con"} : \A g \in {"u", "v"} : M[f] + Loss(c) <= M[g]
        /\ \A f \in {"xi_con", "eta_con"} : \A g \in {"xi", "eta"} : M[f] + Loss(c) <= M[g]
    BY <1>1, <1>8
  <2>2. /\ Keeps(M, Derive({"u", "v"}, {"u_con", "v_con"}, Loss(c)))
        /\ Keeps(M, Derive({"xi", "eta"}, {"xi_con", "eta_con"}, Loss(c)))
    BY <1>1, <1>2, <1>3, <2>1, KeepWrites
  <2> QED
    BY <1>1, <1>5, <2>2, KeepsParts DEF ShadowWind, SyncContravariant
<1> QED
  BY <1>4, <1>5, <1>6, <1>7, <1>8

(* Turbulence and surface.                                                            *)
LEMMA DiffusionKeeps ==
  ASSUME NEW c \in Configurations
  PROVE  /\ Keeps(Settled(c), Coefficients(c)) /\ Keeps(Settled(c), DiffuseScalars(c))
         /\ Keeps(Settled(c), SurfaceCoefficients) /\ Keeps(Settled(c), DiffuseVorticity(c))
<1> DEFINE M == Settled(c)
           K == {"RKM", "RKH"}
<1>1. /\ M \in Depths /\ M["u_con"] = 2 /\ M["v_con"] = 2 /\ M["R"] = 1 /\ M["RKH"] = 2
      /\ M["w"] = IF Cartesian(c) THEN 1 ELSE 2
      /\ \A f \in Scalars(c) : M[f] = 2
  BY SettledDepths DEF Whole, Partial
<1>2. \A fs \in AnyFields : fs \subseteq Deep => Keeps(M, Read(fs, 1))
  BY SettledReads
<1>3. \A fs \in {{"u", "v"}, {"u", "v", "R"}, {"R"}, {"VEN2D"}, {"xi", "RKM"}, {"eta", "RKM"}, {"zeta", "RKM"}, Vorticity \cup {"RKM"}} :
        fs \in AnyFields /\ fs \subseteq Deep
  BY FieldNames DEF AnyFields, Deep, Whole, Partial, Vorticity
<1>4. {"u_con", "v_con", "w"} \in AnyFields /\ K \in AnyFields /\ {"th", "qv"} \in AnyFields
  BY FieldNames DEF AnyFields
<1> HIDE DEF M
<1>5. \A fs \in {{"u", "v"}, {"u", "v", "R"}, {"R"}, {"VEN2D"}, {"xi", "RKM"}, {"eta", "RKM"}, {"zeta", "RKM"}, Vorticity \cup {"RKM"}} :
        Keeps(M, Read(fs, 1)) /\ Keeps(M, Read(fs, 0))
  BY <1>1, <1>2, <1>3, ShallowReads
<1>6. Reaches(Write(K, 0), M, Lower(M, K)) /\ Reaches(Exchange(K), Lower(M, K), M)
  BY <1>1, <1>4, HaloAssumption, LowerByWriting, RaiseByExchange
<1>7. ~Cartesian(c) => Keeps(M, GeneralizedDeformation)
  <2> SUFFICES ASSUME ~Cartesian(c) PROVE Keeps(M, GeneralizedDeformation)
    OBVIOUS
  <2>1. \A f \in {"u_con", "v_con", "w"} : 2 <= M[f]
    BY <1>1
  <2>2. Keeps(M, Read({"u_con", "v_con", "w"}, 2))
    BY <1>1, <1>4, <2>1, KeepReads
  <2>3. 1 \in Nat /\ 1 <= Halo /\ \A f \in {"R"} : M[f] <= 1
    BY <1>1, HaloAssumption
  <2>4. Keeps(M, Write({"R"}, 1))
    BY <1>1, <1>3, <2>3, KeepWrites
  <2> QED
    BY <1>1, <2>2, <2>4, KeepsParts DEF GeneralizedDeformation
<1>8. Keeps(M, IF Cartesian(c) THEN Read({"u", "v", "R"}, 1) ELSE GeneralizedDeformation \o Read({"R"}, 1))
  BY <1>1, <1>5, <1>7, KeepsParts
<1>9. Keeps(M, Coefficients(c))
  BY <1>6, <1>8, ReachesOn DEF Coefficients, Keeps, K
<1>10. Keeps(M, DiffuseScalars(c))
  <2>1. Scalars(c) \cup {"RKH"} \in AnyFields
    BY ScalarFields, FieldNames DEF AnyFields
  <2>2. \A f \in Scalars(c) \cup {"RKH"} : 1 <= M[f]
    BY <1>1
  <2>3. Keeps(M, Read(Scalars(c) \cup {"RKH"}, 1))
    BY <1>1, <2>1, <2>2, KeepReads
  <2> QED
    BY <2>3 DEF DiffuseScalars, CartesianDiffusion, GeneralizedScalarDiffusion
<1>11. Keeps(M, SurfaceCoefficients)
  <2>1. Reaches(Write({"VEN2D"}, 0), M, Lower(M, {"VEN2D"})) /\ Reaches(Exchange({"VEN2D"}), Lower(M, {"VEN2D"}), M)
    BY <1>1, <1>3, HaloAssumption, LowerByWriting, RaiseByExchange
  <2>2. Keeps(M, Read({"u", "v"}, 1)) /\ Keeps(M, Read({"th", "qv"}, 0)) /\ Keeps(M, Read({"VEN2D"}, 1)) /\ Keeps(M, Read({"u", "v"}, 0))
    BY <1>1, <1>4, <1>5, ShallowReads
  <2>3. Keeps(M, SurfaceTransfer)
    BY <2>1, <2>2, ReachesOn DEF SurfaceTransfer, Keeps
  <2> QED
    BY <1>1, <2>2, <2>3, KeepsParts DEF SurfaceCoefficients, SurfaceStress
<1>12. Keeps(M, DiffuseVorticity(c))
  BY <1>1, <1>5, KeepsParts DEF DiffuseVorticity, CartesianDiffusion, GeneralizedXiDiffusion, GeneralizedEtaDiffusion, GeneralizedZetaDiffusion
<1> QED
  BY <1>9, <1>10, <1>11, <1>12 DEF M

LEMMA PhysicsThermoKeeps ==
  ASSUME NEW c \in Configurations, HalosFollow(c)
  PROVE  Keeps(Settled(c), PhysicsThermo(c)) /\ Keeps(Settled(c), CondensateForBuoyancy(c))
<1> DEFINE M == Settled(c)
           tv == ThermodynamicsVars(c)
           p3 == {"th", "qv"} \cup P3Fields(c)
           L == Lower(M, tv)
           some == c.turbulence \/ c.sponge \/ c.surface \/ c.nudged # {}
           first == When(c.turbulence, Coefficients(c) \o DiffuseScalars(c)) \o When(c.surface, Perhaps(SurfaceCoefficients))
<1>1. /\ M \in Depths /\ (c.micro # "p3" => M["condensate"] = 0) /\ (c.tracer = "none" => M["tracer"] = 0)
  BY SettledDepths
<1>2. Keeps(M, first)
  <2>1. Keeps(M, Coefficients(c)) /\ Keeps(M, DiffuseScalars(c)) /\ Keeps(M, SurfaceCoefficients)
    BY DiffusionKeeps
  <2> HIDE DEF M
  <2> QED
    BY <1>1, <2>1, KeepsParts
<1>3. Keeps(M, CondensateForBuoyancy(c))
  <2>1. c.micro = "p3" => Keeps(M, RefreshCondensate)
    BY ThermoKeeps
  <2> QED
    BY <1>1, <2>1, KeepsParts DEF CondensateForBuoyancy
<1>4. L \in Depths /\ Shallower(M, L)
  BY <1>1, Lowered
<1>5. /\ tv \in AnyFields /\ Scalars(c) \in AnyFields /\ c.nudged \in AnyFields /\ p3 \in AnyFields /\ {"th", "qv"} \in AnyFields
  BY ScalarFields, FieldNames DEF AnyFields
<1>6. /\ c.turbulence => tv = Scalars(c)
      /\ "th" \in tv /\ "qv" \in tv /\ p3 \subseteq tv
      /\ \A f \in c.nudged : f \in tv \/ M[f] = 0
  <2>1. /\ c.turbulence => tv = Scalars(c)
        /\ ~c.turbulence => tv = p3
    BY DEF ThermodynamicsVars
  <2>2. \A f : f \in p3 <=> f \in {"th", "qv"} \/ (f = "condensate" /\ c.micro = "p3")
    BY ScalarFields
  <2>3. \A f : f \in Scalars(c) <=> \/ f \in {"th", "qv"}
                                    \/ f = "condensate" /\ c.micro = "p3"
                                    \/ f = "tracer" /\ c.tracer # "none"
    BY ScalarFields
  <2>4. c.nudged \subseteq {"th", "qv", "condensate", "tracer"} /\ ("tracer" \in c.nudged => c.turbulence \/ c.tracer = "none")
    BY ScalarFields DEF HalosFollow
  <2> HIDE DEF M, tv, p3
  <2>5. "th" \in tv /\ "qv" \in tv /\ p3 \subseteq tv
    BY <2>1, <2>2, <2>3
  <2>6. ASSUME NEW f \in c.nudged PROVE f \in tv \/ M[f] = 0
    BY <1>1, <2>1, <2>2, <2>3, <2>4, <2>5, <2>6
  <2> QED
    BY <2>1, <2>5, <2>6
<1> HIDE DEF M, tv, p3
<1>7. \A fs \in AnyFields : (\A f \in fs : f \in tv \/ M[f] = 0) => Reaches(Update(fs), M, L) /\ Keeps(L, Update(fs))
  BY <1>1, LowerByWriting DEF Keeps
<1>8. Reaches(Exchange(tv), L, M)
  BY <1>1, <1>5, RaiseByExchange
<1> HIDE DEF L
<1>9. Reaches(ForwardUpdateThermo(c), M, L)
  <2>1. CASE c.turbulence
    <3>1. Reaches(Update(Scalars(c)), M, L)
      BY <1>5, <1>6, <1>7, <2>1
    <3> QED
      BY <2>1, <3>1 DEF ForwardUpdateThermo
  <2>2. CASE ~c.turbulence
    <3>1. Reaches(Update({"th", "qv"}), M, L)
      BY <1>5, <1>6, <1>7
    <3> QED
      BY <1>1, <1>4, <2>2, <3>1, ReachesWhen DEF ForwardUpdateThermo
  <2> QED
    BY <2>1, <2>2
<1>10. Keeps(L, ApplySponge(c, p3)) /\ Keeps(L, ApplyLateralNudging(c))
  <2>1. Keeps(L, Update(p3)) /\ Keeps(L, Update(c.nudged))
    BY <1>5, <1>6, <1>7
  <2> QED
    BY <1>4, <2>1, KeepsParts DEF ApplySponge, ApplyLateralNudging
<1> HIDE DEF first
<1>11. CASE some
  <2>1. Reaches(ThermoBoundary(c), L, M)
    BY <1>8, <1>11 DEF ThermoBoundary, When, tv
  <2>2. Reaches(first \o ForwardUpdateThermo(c) \o ApplySponge(c, p3) \o ApplyLateralNudging(c) \o ThermoBoundary(c), M, M)
    BY <1>2, <1>9, <1>10, <2>1, ReachesOn DEF Keeps
  <2> QED
    BY <1>3, <2>2 DEF PhysicsThermo, first, p3, Keeps, M
<1>12. CASE ~some
  <2>1. Keeps(M, <<>>)
    BY <1>1, KeepsParts
  <2>2. /\ ForwardUpdateThermo(c) = <<>> /\ ApplySponge(c, p3) = <<>> /\ ApplyLateralNudging(c) = <<>>
        /\ ThermoBoundary(c) = <<>>
    BY <1>12 DEF ForwardUpdateThermo, ApplySponge, ApplyLateralNudging, ThermoBoundary, When
  <2>3. Keeps(M, first \o ForwardUpdateThermo(c) \o ApplySponge(c, p3) \o ApplyLateralNudging(c) \o ThermoBoundary(c))
    BY <1>1, <1>2, <2>1, <2>2, KeepsParts
  <2> QED
    BY <1>3, <2>3 DEF PhysicsThermo, first, p3, M
<1> QED
  BY <1>11, <1>12

LEMMA PhysicsVorticityKeeps ==
  ASSUME NEW c \in Configurations
  PROVE  Keeps(Settled(c), PhysicsVorticity(c))
<1> DEFINE M == Settled(c)
           L == Lower(M, Vorticity)
           C == {"xi_con", "eta_con"}
<1>1. /\ M \in Depths /\ Loss(c) \in Nat /\ (Cartesian(c) => Loss(c) = 0)
  BY SettledDepths, LossIs
<1>2. L \in Depths /\ Shallower(M, L)
  BY <1>1, Lowered
<1>3. /\ Vorticity \in AnyFields /\ {"xi", "eta"} \in AnyFields /\ C \in AnyFields
      /\ {"xi", "eta", "before", "xi_con", "eta_con"} \in AnyFields /\ {"xi", "eta", "before", "xi_con", "eta_con"} # {}
      /\ {"xi", "eta"} \subseteq Vorticity
  BY FieldNames DEF AnyFields, Vorticity
<1>4. /\ Keeps(M, CopyZeta) /\ Keeps(M, BeginPhysicalUpdate(c)) /\ Keeps(M, ZetaStructure(c))
      /\ Loss(c) = 0 => Keeps(M, SyncContravariant(c))
  BY KeepSyncs
<1>5. Keeps(M, DiffuseVorticity(c))
  BY DiffusionKeeps
<1> HIDE DEF M
<1>6. /\ Reaches(Update(Vorticity), M, L) /\ Keeps(L, Update(Vorticity)) /\ Reaches(Update({"xi", "eta"}), M, L)
      /\ Reaches(Exchange(Vorticity), L, M)
  BY <1>1, <1>3, LowerByWriting, RaiseByExchange DEF Keeps
<1> HIDE DEF L
<1>7. Reaches(ForwardUpdateVorticity(c), M, L)
  BY <1>1, <1>2, <1>6, ReachesWhen DEF ForwardUpdateVorticity
<1>8. Keeps(L, ApplySponge(c, Vorticity)) /\ Keeps(L, ApplyAreaMean(c))
  BY <1>2, <1>6, KeepsParts DEF ApplySponge, ApplyAreaMean
<1>9. Keeps(M, FinishPhysicalUpdate(c))
  <2>1. CASE Cartesian(c)
    BY <1>1, <1>4, <2>1 DEF FinishPhysicalUpdate
  <2>2. CASE ~Cartesian(c)
    <3> DEFINE H == Lower(M, C)
               from == {"xi", "eta", "before", "xi_con", "eta_con"}
    <3>1. H \in Depths /\ (\A f \in C : H[f] = 0) /\ \A f \in Fields : f \in C \/ H[f] <= M[f]
      <4>1. H \in Depths /\ \A f \in Fields : H[f] = IF f \in C THEN 0 ELSE M[f]
        BY <1>1, Lowered
      <4>2. \A f \in C : f \in Fields
        BY <1>3 DEF AnyFields
      <4> HIDE DEF H, C
      <4>3. \A f \in Fields : M[f] \in 0..2
        BY <1>1, DepthTypes
      <4> QED
        BY <4>1, <4>2, <4>3
    <3>2. Reaches(Exchange(C), H, M)
      BY <1>1, <1>3, RaiseByExchange
    <3> HIDE DEF H
    <3>3. Reaches(Derive(from, C, Loss(c)), M, H)
      BY <1>1, <1>3, <3>1, ReachesByDeriving
    <3>4. Reaches(Derive(from, C, Loss(c)) \o Exchange(C) \o CopyZeta, M, M)
      BY <1>4, <3>2, <3>3, ReachesOn DEF Keeps
    <3> QED
      BY <2>2, <3>4 DEF FinishPhysicalUpdate, Keeps
  <2> QED
    BY <2>1, <2>2
<1>10. Keeps(M, When(c.turbulence, DiffuseVorticity(c)))
  BY <1>1, <1>5, KeepsParts
<1>11. Keeps(M, BeginPhysicalUpdate(c) \o When(c.turbulence, DiffuseVorticity(c)) \o ForwardUpdateVorticity(c) \o ApplySponge(c, Vorticity)
                  \o ApplyAreaMean(c) \o Exchange(Vorticity) \o ZetaStructure(c) \o FinishPhysicalUpdate(c))
  BY <1>4, <1>6, <1>7, <1>8, <1>9, <1>10, ReachesOn DEF Keeps
<1>12. Keeps(M, PhysicsVorticity(c))
  BY <1>1, <1>11, KeepsParts DEF PhysicsVorticity
<1> QED
  BY <1>12 DEF M

---------------------------------------------------------------------------------
(* The vorticity.                                                             *)
LEMMA CartesianTendenciesKeep ==
  ASSUME NEW c \in Configurations, Cartesian(c)
  PROVE  Keeps(Settled(c), CartesianTendencies)
<1> DEFINE M == Settled(c)
<1>1. /\ M \in Depths /\ M["mean_wind"] = 2 /\ M["u_con"] = 2 /\ M["v_con"] = 2 /\ M["w"] = 1
      /\ M["xi"] = 2 /\ M["eta"] = 2 /\ M["zeta"] = 2 /\ M["th"] = 2 /\ M["qv"] = 2
  BY SettledDepths, LossIs DEF Whole
<1>2. \A fs \in AnyFields : fs \subseteq Deep => Keeps(M, Read(fs, 1))
  BY SettledReads
<1> HIDE DEF M
<1>3. /\ \A f \in {"u_con", "v_con"}, g \in {"xi", "eta", "zeta"} : {f, g} \in AnyFields /\ {f, g} \subseteq Deep
      /\ \A f, g \in {"xi", "eta", "zeta"} : {f, g, "R"} \in AnyFields /\ {f, g, "R"} \subseteq Deep
      /\ {"w", "zeta"} \in AnyFields /\ {"w", "zeta"} \subseteq Deep
      /\ {"u_con"} \in AnyFields /\ {"u_con"} \subseteq Deep
      /\ {"v_con"} \in AnyFields /\ {"v_con"} \subseteq Deep
      /\ {"u_con", "v_con"} \in AnyFields /\ {"u_con", "v_con"} \subseteq Deep
      /\ {"th", "qv", "qp"} \in AnyFields /\ {"th", "qv", "qp"} \subseteq Deep
  BY FieldNames DEF AnyFields, Deep, Whole, Partial
<1>4. Keeps(M, StretchXi) /\ Keeps(M, StretchEta) /\ Keeps(M, StretchZeta)
  BY <1>2, <1>3 DEF StretchXi, StretchEta, StretchZeta
<1>5. Keeps(M, TwistXi) /\ Keeps(M, TwistEta) /\ Keeps(M, TwistZeta)
  BY <1>2, <1>3 DEF TwistXi, TwistEta, TwistZeta
<1>6. Keeps(M, CoriolisXi) /\ Keeps(M, CoriolisEta) /\ Keeps(M, CoriolisZeta)
  BY <1>2, <1>3 DEF CoriolisXi, CoriolisEta, CoriolisZeta
<1>7. Keeps(M, BuoyancyXi) /\ Keeps(M, BuoyancyEta)
  BY <1>2, <1>3 DEF BuoyancyXi, BuoyancyEta
<1>8. ASSUME NEW q \in {"xi", "eta", "zeta"}, NEW v \in Variants PROVE Keeps(M, TakacsVorticity(q, v))
  <2>1. Needs(v) \in 0..1
    BY DEF Needs
  <2>2. \A f \in MeanOf : Needs(v) <= M[f]
    BY <1>1, <2>1 DEF MeanOf
  <2>3. Keeps(M, MeanWind(v))
    BY <1>1, <2>2, KeepMeans
  <2>4. {q} \in AnyFields /\ 2 <= M["mean_wind"] /\ \A f \in {q} : 2 <= M[f]
    BY <1>1, <1>8, FieldNames DEF AnyFields
  <2>5. Keeps(M, Transport({q}, 2, v)) /\ Keeps(M, Transport({q}, 0, v))
    BY <1>1, <2>4, KeepReads, ShallowReads
  <2> QED
    BY <1>1, <2>3, <2>5, KeepsParts DEF TakacsVorticity, TakacsTransport, FluxConvergenceZ
<1>9. Keeps(M, TakacsVorticity("xi", "Xi")) /\ Keeps(M, TakacsVorticity("eta", "Eta")) /\ Keeps(M, TakacsVorticity("zeta", "Zeta"))
  BY <1>8 DEF Variants
<1>10. Keeps(M, CartesianTendencies)
  BY <1>1, <1>4, <1>5, <1>6, <1>7, <1>9, KeepsParts DEF CartesianTendencies
<1> QED
  BY <1>10 DEF M

LEMMA TendenciesKeep ==
  ASSUME NEW c \in Configurations
  PROVE  Keeps(Settled(c), VorticityTendencies(c))
<1> DEFINE M == Settled(c)
<1>1. M \in Depths /\ Keeps(M, SyncPhysical(c)) /\ (Loss(c) = 0 => Keeps(M, SyncContravariant(c)))
  BY SettledDepths, KeepSyncs
<1>2. CASE Cartesian(c)
  <2>1. Keeps(M, CartesianTendencies) /\ Loss(c) = 0
    BY <1>2, CartesianTendenciesKeep, LossIs
  <2> HIDE DEF M
  <2>2. Keeps(M, SyncPhysical(c) \o CartesianTendencies \o SyncContravariant(c))
    BY <1>1, <2>1, KeepsParts
  <2> QED
    BY <1>2, <2>2 DEF VorticityTendencies, M
<1>3. CASE ~Cartesian(c)
  <2>1. /\ M["u_con"] = 2 /\ M["v_con"] = 2 /\ M["w"] = 2 /\ M["xi_con"] = 2 /\ M["eta_con"] = 2 /\ M["zeta"] = 2
    BY <1>3, SettledDepths DEF Whole
  <2>2. \A fs \in AnyFields : fs \subseteq Deep => Keeps(M, Read(fs, 1))
    BY SettledReads
  <2> HIDE DEF M
  <2>3. \A g \in {"xi_con", "eta_con", "zeta"} :
          {"u_con", "v_con", g} \in AnyFields /\ \A f \in {"u_con", "v_con", g} : 2 <= M[f]
    BY <2>1, FieldNames DEF AnyFields
  <2>4. \A g \in {"xi_con", "eta_con", "zeta"} : Keeps(M, Read({"u_con", "v_con", g}, 2))
    BY <1>1, <2>3, KeepReads
  <2>5. /\ \A g \in {"u_con", "v_con", "w"} : {g, "xi_con", "eta_con", "zeta"} \in AnyFields /\ {g, "xi_con", "eta_con", "zeta"} \subseteq Deep
        /\ {"w"} \in AnyFields /\ {"w"} \subseteq Deep /\ {"th", "qv", "qp"} \in AnyFields /\ {"th", "qv", "qp"} \subseteq Deep
    BY FieldNames DEF AnyFields, Deep, Whole, Partial
  <2>6. /\ \A g \in {"u_con", "v_con", "w"} : Keeps(M, Read({g, "xi_con", "eta_con", "zeta"}, 1))
        /\ Keeps(M, Read({"w"}, 1)) /\ Keeps(M, Read({"th", "qv", "qp"}, 1))
    BY <2>2, <2>5
  <2>7. Keeps(M, TransportHorizontal("xi_con")) /\ Keeps(M, TransportHorizontal("eta_con")) /\ Keeps(M, TransportTop)
    BY <1>1, <2>4, <2>6, KeepsParts DEF TransportHorizontal, TransportTop
  <2>8. Keeps(M, DeformHorizontal("u_con")) /\ Keeps(M, DeformHorizontal("v_con")) /\ Keeps(M, DeformTop) /\ Keeps(M, GeneralizedBuoyancy)
    BY <2>6 DEF DeformHorizontal, DeformTop, GeneralizedBuoyancy
  <2>9. Keeps(M, GeneralizedTendencies)
    BY <1>1, <2>7, <2>8, KeepsParts DEF GeneralizedTendencies
  <2> QED
    BY <1>3, <2>9 DEF VorticityTendencies, M
<1> QED
  BY <1>2, <1>3

LEMMA UpdateVorticityKeeps ==
  ASSUME NEW c \in Configurations
  PROVE  Keeps(Settled(c), UpdateVorticity(c))
<1> DEFINE M == Settled(c)
<1>1. M \in Depths /\ Keeps(M, SyncPhysical(c)) /\ Keeps(M, CopyZeta) /\ Keeps(M, ZetaStructure(c))
  BY SettledDepths, KeepSyncs
<1> HIDE DEF M
<1>2. c.swapped \in AnyFields /\ {"xi_con"} \in AnyFields /\ {"eta_con"} \in AnyFields /\ {"zeta"} \in AnyFields
  BY ScalarFields, FieldNames DEF AnyFields
<1>3. \A fs \in AnyFields : Reaches(Update(fs), M, Lower(M, fs)) /\ Reaches(Exchange(fs), Lower(M, fs), M)
  BY <1>1, LowerByWriting, RaiseByExchange
<1>4. Keeps(M, SwapStorage(c.swapped))
  BY <1>1, <1>2, KeepLaunches
<1>5. Keeps(M, SwapStorage(c.swapped) \o Update({"xi_con"}) \o Exchange({"xi_con"}) \o Update({"eta_con"}) \o Exchange({"eta_con"})
                \o Update({"zeta"}) \o Exchange({"zeta"}))
  BY <1>2, <1>3, <1>4, ReachesOn DEF Keeps
<1> DEFINE begin == SwapStorage(c.swapped) \o Update({"xi_con"}) \o Exchange({"xi_con"}) \o Update({"eta_con"}) \o Exchange({"eta_con"})
                      \o Update({"zeta"}) \o Exchange({"zeta"})
<1>6. Keeps(M, begin)
  BY <1>5
<1> HIDE DEF begin
<1>7. Keeps(M, begin \o SyncPhysical(c) \o When(c.idealized # "twisting", ZetaStructure(c)) \o CopyZeta)
  BY <1>1, <1>6, KeepsParts
<1> QED
  BY <1>7 DEF UpdateVorticity, begin, M

---------------------------------------------------------------------------------
(* The wind.                                                                 *)
LEMMA SweepsKeep ==
  ASSUME NEW M \in Depths, NEW g \in {"w_guess", "psi_guess"}, M[g] = 1
  PROVE  Keeps(M, Sweeps(g))
<1> DEFINE sweep == Read({g}, 1) \o Write({g}, 0) \o ExchangeTo({g}, 1)
<1>1. {g} \in AnyFields /\ \A f \in {g} : 1 <= M[f] /\ M[f] <= 1
  BY FieldNames DEF AnyFields
<1>2. 0 <= Halo /\ 1 <= Halo /\ 0 \in Nat /\ 1 \in Nat
  BY HaloAssumption
<1>3. Keeps(M, Read({g}, 1)) /\ Reaches(Write({g}, 0), M, Lower(M, {g}))
  BY <1>1, <1>2, KeepReads, LowerByWriting
<1>4. Reaches(ExchangeTo({g}, 1), Lower(M, {g}), M)
  BY <1>1, <1>2, RaiseByExchange
<1>5. Keeps(M, sweep)
  BY <1>3, <1>4, ReachesOn DEF Keeps
<1> HIDE DEF sweep
<1>6. Keeps(M, sweep \o Perhaps(sweep))
  BY <1>5, KeepsParts
<1> QED
  BY <1>6 DEF Sweeps, sweep

(* What both solves are made of, whether zeta is exchanged or not.                       *)
LEMMA SolveParts ==
  ASSUME NEW c \in Configurations, NEW M \in {Settled(c), ZetaOpen(c)}
  PROVE  /\ Keeps(M, Derive({"u", "v", "w"}, {"wind_topo"}, 0)) /\ Keeps(M, Derive({"xi", "eta"}, {"vorticity_topo"}, 0))
         /\ Keeps(M, Derive({"xi_con", "eta_con"}, {"vorticity_topo"}, 0))
         /\ Keeps(M, Derive({"w", "W3DNM1"}, {"w_guess"}, 0)) /\ Keeps(M, Derive({"w"}, {"W3DNM1"}, 0))
         /\ Keeps(M, Derive({"psi", "psinm1"}, {"psi_guess"}, 0))
         /\ Keeps(M, Sweeps("w_guess")) /\ Keeps(M, Sweeps("psi_guess"))
         /\ Reaches(Write({"vorticity_topo"}, 0), M, Lower(M, {"vorticity_topo"}))
         /\ Reaches(Exchange({"vorticity_topo"}), Lower(M, {"vorticity_topo"}), M)
         /\ Reaches(Write({"psi", "psinm1"}, 0), M, Lower(M, {"psi", "psinm1"}))
         /\ Reaches(Exchange({"psi", "psinm1"}), Lower(M, {"psi", "psinm1"}), M)
<1>1. /\ M \in Depths /\ M["psi"] = 2 /\ M["psinm1"] = 2 /\ M["xi_con"] = 2 /\ M["eta_con"] = 2
      /\ M["wind_topo"] = 1 /\ M["vorticity_topo"] = 1 /\ M["w_guess"] = 1 /\ M["W3DNM1"] = 1 /\ M["psi_guess"] = 1
      /\ M["u"] = 2 - Loss(c) /\ M["v"] = 2 - Loss(c) /\ M["xi"] = 2 - Loss(c) /\ M["eta"] = 2 - Loss(c)
      /\ M["w"] = IF Cartesian(c) THEN 1 ELSE 2
  BY SettledDepths DEF Whole, Partial
<1>2. Loss(c) \in 0..1
  BY LossIs
<1>3. /\ {"u", "v", "w"} \in AnyFields /\ {"wind_topo"} \in AnyFields /\ {"xi", "eta"} \in AnyFields /\ {"vorticity_topo"} \in AnyFields
      /\ {"xi_con", "eta_con"} \in AnyFields /\ {"w", "W3DNM1"} \in AnyFields /\ {"w_guess"} \in AnyFields /\ {"w"} \in AnyFields
      /\ {"W3DNM1"} \in AnyFields /\ {"psi", "psinm1"} \in AnyFields /\ {"psi_guess"} \in AnyFields
  BY FieldNames DEF AnyFields
<1>4. \A from, fs \in AnyFields : from # {} /\ (\A f \in fs : \A g \in from : M[f] + 0 <= M[g]) => Keeps(M, Derive(from, fs, 0))
  BY <1>1, KeepWrites
<1>5. /\ \A f \in {"wind_topo"} : \A g \in {"u", "v", "w"} : M[f] + 0 <= M[g]
      /\ \A f \in {"vorticity_topo"} : \A g \in {"xi", "eta"} : M[f] + 0 <= M[g]
      /\ \A f \in {"vorticity_topo"} : \A g \in {"xi_con", "eta_con"} : M[f] + 0 <= M[g]
      /\ \A f \in {"w_guess"} : \A g \in {"w", "W3DNM1"} : M[f] + 0 <= M[g]
      /\ \A f \in {"W3DNM1"} : \A g \in {"w"} : M[f] + 0 <= M[g]
      /\ \A f \in {"psi_guess"} : \A g \in {"psi", "psinm1"} : M[f] + 0 <= M[g]
  BY <1>1, <1>2
<1>6. Keeps(M, Derive({"u", "v", "w"}, {"wind_topo"}, 0)) /\ Keeps(M, Derive({"xi", "eta"}, {"vorticity_topo"}, 0))
      /\ Keeps(M, Derive({"xi_con", "eta_con"}, {"vorticity_topo"}, 0))
  BY <1>3, <1>4, <1>5
<1>7. Keeps(M, Derive({"w", "W3DNM1"}, {"w_guess"}, 0)) /\ Keeps(M, Derive({"w"}, {"W3DNM1"}, 0))
      /\ Keeps(M, Derive({"psi", "psinm1"}, {"psi_guess"}, 0))
  BY <1>3, <1>4, <1>5
<1>8. Keeps(M, Sweeps("w_guess")) /\ Keeps(M, Sweeps("psi_guess"))
  BY <1>1, SweepsKeep
<1>9. \A fs \in AnyFields : Reaches(Write(fs, 0), M, Lower(M, fs)) /\ Reaches(Exchange(fs), Lower(M, fs), M)
  BY <1>1, HaloAssumption, LowerByWriting, RaiseByExchange
<1> QED
  BY <1>3, <1>6, <1>7, <1>8, <1>9

LEMMA CartesianWindKeeps ==
  ASSUME NEW c \in Configurations, Cartesian(c)
  PROVE  Keeps(Settled(c), PrepareCartesianInputs \o SolveW \o RecoverCartesianWind \o Invalidate \o ShadowWind(c))
<1> DEFINE M == Settled(c)
           L == Lower(M, {"u", "v"})
<1>1. /\ M \in Depths /\ M["w"] = 1
  BY SettledDepths
<1>2. Keeps(M, ShadowWind(c))
  BY LossIs, KeepSyncs
<1>3. /\ Keeps(M, Derive({"u", "v", "w"}, {"wind_topo"}, 0))
      /\ Keeps(M, Derive({"w", "W3DNM1"}, {"w_guess"}, 0)) /\ Keeps(M, Derive({"w"}, {"W3DNM1"}, 0))
      /\ Keeps(M, Derive({"psi", "psinm1"}, {"psi_guess"}, 0))
      /\ Keeps(M, Sweeps("w_guess")) /\ Keeps(M, Sweeps("psi_guess"))
      /\ Reaches(Write({"vorticity_topo"}, 0), M, Lower(M, {"vorticity_topo"}))
      /\ Reaches(Exchange({"vorticity_topo"}), Lower(M, {"vorticity_topo"}), M)
      /\ Reaches(Write({"psi", "psinm1"}, 0), M, Lower(M, {"psi", "psinm1"}))
      /\ Reaches(Exchange({"psi", "psinm1"}), Lower(M, {"psi", "psinm1"}), M)
  BY SolveParts
<1>4. \A fs \in AnyFields : fs \subseteq Deep => Keeps(M, Read(fs, 1))
  BY SettledReads
<1>5. L \in Depths /\ L["w"] = 1
  BY <1>1, FieldNames, Lowered
<1>6. /\ \A fs \in {{"wind_topo"}, {"vorticity_topo"}, {"psi"}, {"w"}} : fs \in AnyFields /\ fs \subseteq Deep
      /\ {"xi_con", "eta_con"} \in AnyFields /\ {"zeta_con", "w"} \in AnyFields /\ {"u", "v"} \in AnyFields
  BY FieldNames DEF AnyFields, Deep, Whole, Partial
<1> HIDE DEF M
<1>7. Reaches(Write({"u", "v"}, 0), M, L) /\ Reaches(Write({"u", "v"}, 0), L, L) /\ Reaches(Exchange({"u", "v"}), L, M)
  BY <1>1, <1>6, HaloAssumption, LowerByWriting, RaiseByExchange
<1> HIDE DEF L
<1>8. \A fs \in {{"wind_topo"}, {"vorticity_topo"}, {"psi"}, {"w"}} : Keeps(M, Read(fs, 1))
  BY <1>4, <1>6
<1>9. Keeps(M, Read({"xi_con", "eta_con"}, 0)) /\ Keeps(M, Read({"zeta_con", "w"}, 0)) /\ Keeps(L, Read({"vorticity_topo"}, 0))
  BY <1>1, <1>5, <1>6, ShallowReads
<1>10. Keeps(L, Read({"w"}, 1))
  <2>1. \A f \in {"w"} : 1 <= L[f]
    BY <1>5
  <2> QED
    BY <1>5, <1>6, <2>1, KeepReads
<1>11. Keeps(M, PrepareCartesianInputs)
  BY <1>3, <1>8, <1>9, ReachesOn DEF PrepareCartesianInputs, Keeps
<1>12. Keeps(M, SolveW)
  <2>1. 0 <= Halo /\ 1 <= Halo /\ \A f \in {"w"} : M[f] <= 1
    BY <1>1, HaloAssumption
  <2>2. Reaches(Write({"w"}, 0), M, Lower(M, {"w"})) /\ Reaches(ExchangeTo({"w"}, 1), Lower(M, {"w"}), M)
    BY <1>1, <1>6, <2>1, LowerByWriting, RaiseByExchange
  <2> QED
    BY <1>3, <1>8, <2>2, ReachesOn DEF SolveW, Keeps
<1>13. Keeps(M, CartesianPotentials)
  BY <1>3, <1>9, ReachesOn DEF CartesianPotentials, Keeps
<1>14. Keeps(M, RecoverCartesianWind)
  BY <1>7, <1>8, <1>9, <1>10, <1>13, ReachesOn DEF RecoverCartesianWind, Keeps
<1>15. Keeps(M, Invalidate)
  BY <1>1, KeepLaunches
<1>16. Keeps(M, PrepareCartesianInputs \o SolveW \o RecoverCartesianWind \o Invalidate \o ShadowWind(c))
  BY <1>1, <1>2, <1>11, <1>12, <1>14, <1>15, KeepsParts
<1> QED
  BY <1>16 DEF M

LEMMA ActiveVorticityRead ==
  ASSUME NEW c \in Configurations, NEW M \in {Settled(c), ZetaOpen(c)}
  PROVE  Keeps(M, Read(ActiveVorticity(c), 1)) /\ Keeps(M, Read({"psi", "w"} \cup ActiveVorticity(c), 1))
<1>1. ActiveVorticity(c) = {"vorticity_topo"} \/ ActiveVorticity(c) = {"xi_con", "eta_con"}
  BY DEF ActiveVorticity
<1>2. \A fs \in {{"vorticity_topo"}, {"xi_con", "eta_con"}} :
        /\ fs \in AnyFields /\ fs \subseteq Deep /\ "zeta" \notin fs
        /\ {"psi", "w"} \cup fs \in AnyFields /\ {"psi", "w"} \cup fs \subseteq Deep /\ "zeta" \notin {"psi", "w"} \cup fs
  BY FieldNames DEF AnyFields, Deep, Whole, Partial
<1> QED
  BY <1>1, <1>2, SettledReads

LEMMA GeneralizedParts ==
  ASSUME NEW c \in Configurations, ~Cartesian(c), NEW M \in {Settled(c), ZetaOpen(c)}
  PROVE  /\ Keeps(M, SeedFromPhysical) /\ Keeps(M, AdaptTerrain) /\ Keeps(M, VerticalSolve(c))
         /\ Keeps(M, GeneralizedPotentials) /\ Keeps(M, PreserveCirculation)
<1>1. M \in Depths /\ M["w"] = 2 /\ M["covariant_wind"] = 0
  BY SettledDepths
<1>2. /\ Keeps(M, Derive({"u", "v", "w"}, {"wind_topo"}, 0))
      /\ Keeps(M, Derive({"xi_con", "eta_con"}, {"vorticity_topo"}, 0))
      /\ Keeps(M, Derive({"w", "W3DNM1"}, {"w_guess"}, 0)) /\ Keeps(M, Derive({"w"}, {"W3DNM1"}, 0))
      /\ Keeps(M, Derive({"psi", "psinm1"}, {"psi_guess"}, 0))
      /\ Keeps(M, Sweeps("w_guess")) /\ Keeps(M, Sweeps("psi_guess"))
      /\ Reaches(Write({"vorticity_topo"}, 0), M, Lower(M, {"vorticity_topo"}))
      /\ Reaches(Exchange({"vorticity_topo"}), Lower(M, {"vorticity_topo"}), M)
      /\ Reaches(Write({"psi", "psinm1"}, 0), M, Lower(M, {"psi", "psinm1"}))
      /\ Reaches(Exchange({"psi", "psinm1"}), Lower(M, {"psi", "psinm1"}), M)
  BY SolveParts
<1>3. /\ \A fs \in {{"u", "v"}, {"wind_topo"}} : fs \in AnyFields /\ fs \subseteq Deep /\ "zeta" \notin fs
      /\ {"w_guess"} \in AnyFields /\ {"psi_guess"} \in AnyFields /\ {"zeta", "w"} \in AnyFields /\ {"w"} \in AnyFields
      /\ {"covariant_wind"} \in AnyFields
  BY FieldNames DEF AnyFields, Deep, Whole, Partial
<1>4. Keeps(M, Read({"u", "v"}, 1)) /\ Keeps(M, Read({"wind_topo"}, 1)) /\ Keeps(M, Read(ActiveVorticity(c), 1))
  BY <1>3, SettledReads, ActiveVorticityRead
<1>5. Keeps(M, SeedFromPhysical)
  BY <1>4 DEF SeedFromPhysical
<1>6. \A fs \in AnyFields : Keeps(M, Exchange(fs)) /\ Keeps(M, ExchangeTo(fs, 1))
  BY <1>1, HaloAssumption, KeepExchanges
<1>7. Keeps(M, AdaptTerrain)
  BY <1>2, <1>3, <1>4, <1>6, ReachesOn DEF AdaptTerrain, Keeps
<1>8. Keeps(M, VerticalSolve(c))
  <2> DEFINE H == [f \in Fields |-> IF f = "w_guess" THEN 2 ELSE M[f]]
  <2>1. \A f \in Fields : M[f] \in 0..2
    BY <1>1, DepthTypes
  <2>2. H \in Depths /\ H["w_guess"] = 2 /\ \A f \in Fields : f # "w_guess" => H[f] = M[f]
    BY <2>1, FieldNames DEF Depths
  <2> HIDE DEF H
  <2>3. \A f \in Fields : H[f] <= M[f] \/ f \in {"w_guess"}
    BY <2>1, <2>2
  <2>4. Reaches(Exchange({"w_guess"}), M, H)
    BY <1>1, <1>3, <2>2, <2>3, ReachesByExchange
  <2> DEFINE from == {"w_guess"}
             to == {"w"}
  <2>5. /\ from # {} /\ from \in AnyFields /\ to \in AnyFields /\ 0 \in Nat
        /\ \A f \in to : M[f] = 0 \/ \A g \in from : M[f] + 0 <= H[g]
        /\ \A f \in Fields : f \in to \/ M[f] <= H[f]
    BY <1>1, <1>3, <2>1, <2>2
  <2> HIDE DEF from, to
  <2>6. Reaches(Derive(from, to, 0), H, M)
    BY <1>1, <2>2, <2>5, ReachesByDeriving
  <2>7. Keeps(M, ExchangeTo({"w_guess"}, 1))
    BY <1>3, <1>6
  <2> QED
    BY <1>2, <1>4, <2>4, <2>6, <2>7, ReachesOn DEF VerticalSolve, Keeps, from, to
<1>9. Keeps(M, GeneralizedPotentials)
  <2>1. Keeps(M, Read({"zeta", "w"}, 0)) /\ Keeps(M, ExchangeTo({"psi_guess"}, 1))
    BY <1>1, <1>3, <1>6, ShallowReads
  <2> QED
    BY <1>2, <2>1, ReachesOn DEF GeneralizedPotentials, Keeps
<1>10. Keeps(M, PreserveCirculation)
  <2>1. Keeps(M, Read({"covariant_wind"}, 0))
    BY <1>1, <1>3, ShallowReads
  <2>2. 0 \in Nat /\ 0 <= Halo /\ \A f \in {"covariant_wind"} : M[f] <= 0
    BY <1>1, HaloAssumption
  <2>3. Keeps(M, Write({"covariant_wind"}, 0))
    BY <1>1, <1>3, <2>2, KeepWrites
  <2> QED
    BY <1>1, <2>1, <2>3, KeepsParts DEF PreserveCirculation, Update
<1> QED
  BY <1>5, <1>7, <1>8, <1>9, <1>10

LEMMA DiagnoseExchangesZeta ==
  ASSUME NEW c \in Configurations, ~Cartesian(c)
  PROVE  Reaches(Diagnose(c), ZetaOpen(c), Settled(c))
<1> DEFINE M == Settled(c)
           Z == ZetaOpen(c)
<1>1. M \in Depths /\ Z \in Depths /\ M["covariant_wind"] = 0 /\ Z = Lower(M, {"zeta"})
  BY SettledDepths DEF ZetaOpen
<1>2. Keeps(Z, VerticalSolve(c)) /\ Keeps(M, GeneralizedPotentials)
  BY GeneralizedParts
<1>3. Keeps(Z, Read(ActiveVorticity(c), 1)) /\ Keeps(M, Read({"psi", "w"} \cup ActiveVorticity(c), 1))
  BY ActiveVorticityRead
<1> HIDE DEF M, Z
<1>4. {"zeta"} \in AnyFields /\ {"w", "W3DNM1"} \in AnyFields /\ {"covariant_wind"} \in AnyFields
  BY FieldNames DEF AnyFields
<1>5. Reaches(Update({"zeta"}), Z, Z) /\ Reaches(Exchange({"zeta"}), Z, M)
  BY <1>1, <1>4, LowerByWriting, RaiseByExchange
<1>6. Keeps(Z, When(c.bounded, Exchange({"w", "W3DNM1"})))
  BY <1>1, <1>4, KeepExchanges, KeepsParts
<1>7. Keeps(M, Write({"covariant_wind"}, 0))
  <2>1. 0 \in Nat /\ 0 <= Halo /\ \A f \in {"covariant_wind"} : M[f] <= 0
    BY <1>1, HaloAssumption
  <2> QED
    BY <1>1, <1>4, <2>1, KeepWrites
<1>8. Reaches(Diagnose(c), Z, M)
  BY <1>2, <1>3, <1>5, <1>6, <1>7, ReachesOn DEF Diagnose, Keeps
<1> QED
  BY <1>8 DEF M, Z

LEMMA RecoveryKeeps ==
  ASSUME NEW c \in Configurations, ~Cartesian(c)
  PROVE  LET M == Settled(c)
             L == Lower(M, {"u_con", "v_con"})
         IN  /\ Reaches(CommitRecoveredWind, M, L) /\ Keeps(L, CorrectCanonicalWind(c))
             /\ Reaches(FinalizeGeneralizedWind(c), L, M) /\ Keeps(M, FinalizeGeneralizedWind(c)) /\ Keeps(M, NudgeTopMean)
<1> DEFINE M == Settled(c)
           H == {"u_con", "v_con"}
           L == Lower(M, H)
           O == [f \in Fields |-> IF f = "covariant_wind" THEN 1 ELSE M[f]]
<1>1. /\ M \in Depths /\ M["psi"] = 2 /\ M["u_con"] = 2 /\ M["v_con"] = 2 /\ M["covariant_wind"] = 0
      /\ M["u"] = 2 - Loss(c) /\ M["v"] = 2 - Loss(c)
  BY SettledDepths DEF Whole
<1>2. Loss(c) \in 0..1 /\ Loss(c) \in Nat
  BY LossIs
<1>3. /\ H \in AnyFields /\ {"covariant_wind"} \in AnyFields /\ {"psi"} \in AnyFields /\ {"u", "v"} \in AnyFields
      /\ H # {}
  BY FieldNames DEF AnyFields
<1>4. Keeps(M, AdaptTerrain)
  BY GeneralizedParts
<1>5. Keeps(M, Derive({"u", "v", "w"}, {"wind_topo"}, 0)) /\ Keeps(M, Derive({"xi", "eta"}, {"vorticity_topo"}, 0))
  BY SolveParts
<1> HIDE DEF M
<1>6. \A f \in Fields : M[f] \in 0..2
  BY <1>1, DepthTypes
<1>7. L \in Depths /\ Shallower(M, L) /\ \A f \in Fields : L[f] = IF f \in H THEN 0 ELSE M[f]
  BY <1>1, Lowered
<1>8. O \in Depths /\ O["covariant_wind"] = 1 /\ \A f \in Fields : f # "covariant_wind" => O[f] = M[f]
  BY <1>6, FieldNames DEF Depths
<1>9. /\ Reaches(Update(H), L, L) /\ Reaches(Exchange(H), L, M)
  BY <1>1, <1>3, LowerByWriting, RaiseByExchange
<1> HIDE DEF L, O
<1>10. Reaches(CommitRecoveredWind, M, L)
  <2>1. 1 \in Nat /\ 2 \in Nat /\ 2 <= Halo /\ 0 <= Halo /\ 0 \in Nat
    BY HaloAssumption
  <2>2. \A f \in Fields : O[f] <= M[f] \/ f \in {"covariant_wind"}
    BY <1>6, <1>8
  <2>3. Reaches(Exchange({"covariant_wind"}), M, O)
    BY <1>1, <1>3, <1>8, <2>2, ReachesByExchange
  <2>4. \A f \in {"covariant_wind"} : 1 <= O[f]
    BY <1>8
  <2>5. Keeps(O, Read({"covariant_wind"}, 1))
    BY <1>3, <1>8, <2>1, <2>4, KeepReads
  <2>6. \A f \in Fields : L[f] <= IF f \in H THEN 0 ELSE O[f]
    BY <1>1, <1>6, <1>7, <1>8
  <2>7. Reaches(Write(H, 0), O, L)
    BY <1>3, <1>7, <1>8, <2>1, <2>6, ReachesByWriting
  <2>8. Keeps(L, ExchangeTo({"psi"}, 2))
    BY <1>3, <1>7, <2>1, KeepExchanges
  <2>9. \A f \in {"psi"} : 2 <= L[f]
    BY <1>1, <1>7, FieldNames
  <2>10. Keeps(L, Read({"psi"}, 2))
    BY <1>3, <1>7, <2>1, <2>9, KeepReads
  <2> QED
    BY <1>9, <2>3, <2>5, <2>7, <2>8, <2>10, ReachesOn DEF CommitRecoveredWind, Keeps, H
<1>11. Keeps(L, CorrectCanonicalWind(c))
  BY <1>7, <1>9, KeepsParts DEF CorrectCanonicalWind, Keeps
<1>12. Reaches(FinalizeGeneralizedWind(c), L, M)
  <2>1. \A f \in {"u", "v"} : \A g \in H : M[f] + Loss(c) <= M[g]
    BY <1>1, <1>2
  <2>2. Keeps(M, Derive(H, {"u", "v"}, Loss(c)))
    BY <1>1, <1>2, <1>3, <2>1, KeepWrites
  <2>3. Keeps(M, Exchange({"u", "v"}))
    BY <1>1, <1>3, KeepExchanges
  <2>4. Keeps(M, IF c.terrain THEN AdaptTerrain
                 ELSE Derive({"u", "v", "w"}, {"wind_topo"}, 0) \o Derive({"xi", "eta"}, {"vorticity_topo"}, 0))
    BY <1>1, <1>4, <1>5, KeepsParts
  <2>5. Reaches(Exchange(H) \o Derive(H, {"u", "v"}, Loss(c)) \o Exchange({"u", "v"})
                  \o IF c.terrain THEN AdaptTerrain
                     ELSE Derive({"u", "v", "w"}, {"wind_topo"}, 0) \o Derive({"xi", "eta"}, {"vorticity_topo"}, 0), L, M)
    BY <1>9, <2>2, <2>3, <2>4, ReachesOn DEF Keeps
  <2> QED
    BY <2>5 DEF FinalizeGeneralizedWind, H
<1>13. Keeps(M, FinalizeGeneralizedWind(c))
  BY <1>1, <1>7, <1>12, ShallowerItself, ReachesWeakened DEF Keeps
<1>14. Keeps(M, NudgeTopMean)
  <2>1. \A f \in H : \A g \in H : M[f] + 0 <= M[g]
    BY <1>1
  <2>2. Keeps(M, Derive(H, H, 0)) /\ Keeps(M, Read({"u", "v"}, 0))
    BY <1>1, <1>3, <2>1, KeepWrites, ShallowReads
  <2> QED
    BY <1>1, <2>2, KeepsParts DEF NudgeTopMean, H
<1> QED
  BY <1>10, <1>11, <1>12, <1>13, <1>14 DEF M, L, H

LEMMA GeneralizedWindReaches ==
  ASSUME NEW c \in Configurations, ~Cartesian(c), NEW initial \in BOOLEAN
  PROVE  Reaches(SolveGeneralized(c, initial) \o Invalidate \o CopyZeta, ZetaOpen(c), Settled(c))
<1> DEFINE M == Settled(c)
           Z == ZetaOpen(c)
           L == Lower(M, {"u_con", "v_con"})
<1>1. M \in Depths /\ Z \in Depths
  BY SettledDepths
<1>2. Keeps(Z, SeedFromPhysical) /\ Keeps(Z, AdaptTerrain) /\ Keeps(M, PreserveCirculation)
  BY GeneralizedParts
<1>3. Reaches(Diagnose(c), Z, M)
  BY DiagnoseExchangesZeta
<1>4. /\ Reaches(CommitRecoveredWind, M, L) /\ Keeps(L, CorrectCanonicalWind(c))
      /\ Reaches(FinalizeGeneralizedWind(c), L, M) /\ Keeps(M, FinalizeGeneralizedWind(c)) /\ Keeps(M, NudgeTopMean)
  BY RecoveryKeeps
<1>5. Keeps(M, CopyZeta)
  BY KeepSyncs
<1> HIDE DEF M, Z, L
<1>6. Keeps(Z, LaunchGraph) /\ Keeps(M, Invalidate)
  BY <1>1, KeepLaunches
<1>7. Keeps(Z, When(initial, SeedFromPhysical)) /\ Keeps(Z, When(c.terrain, AdaptTerrain)) /\ Keeps(Z, When(~initial, LaunchGraph))
  BY <1>1, <1>2, <1>6, KeepsParts
<1>8. Keeps(M, When(c.areamn, NudgeTopMean \o FinalizeGeneralizedWind(c)))
  BY <1>1, <1>4, KeepsParts
<1>9. Reaches(SolveGeneralized(c, initial), Z, M)
  <2> DEFINE begin == When(initial, SeedFromPhysical) \o When(c.terrain, AdaptTerrain) \o When(~initial, LaunchGraph) \o Diagnose(c)
                        \o PreserveCirculation
  <2>1. Reaches(begin, Z, M)
    BY <1>2, <1>3, <1>7, ReachesOn DEF Keeps
  <2> HIDE DEF begin
  <2>2. Reaches(begin \o CommitRecoveredWind \o CorrectCanonicalWind(c) \o FinalizeGeneralizedWind(c)
                  \o When(c.areamn, NudgeTopMean \o FinalizeGeneralizedWind(c)), Z, M)
    BY <1>4, <1>8, <2>1, ReachesOn DEF Keeps
  <2> QED
    BY <2>2 DEF SolveGeneralized, begin
<1>10. Reaches(SolveGeneralized(c, initial) \o Invalidate \o CopyZeta, Z, M)
  BY <1>5, <1>6, <1>9, ReachesOn DEF Keeps
<1> QED
  BY <1>10 DEF M, Z

LEMMA WindKeeps ==
  ASSUME NEW c \in Configurations, NEW initial \in BOOLEAN
  PROVE  /\ Keeps(Settled(c), ComputeWindFields(c, initial))
         /\ ~Cartesian(c) => Reaches(ComputeWindFields(c, initial), ZetaOpen(c), Settled(c))
         /\ Keeps(Settled(c), PredictTopWind(c)) /\ Keeps(Settled(c), DiagnosticFields(c))
<1> DEFINE M == Settled(c)
<1>1. M \in Depths /\ ZetaOpen(c) \in Depths /\ Shallower(M, ZetaOpen(c)) /\ Shallower(M, M)
  BY SettledDepths
<1>2. ~Cartesian(c) => Reaches(ComputeWindFields(c, initial), ZetaOpen(c), M)
  BY GeneralizedWindReaches DEF ComputeWindFields
<1>3. Keeps(M, ComputeWindFields(c, initial))
  <2>1. CASE Cartesian(c)
    BY <2>1, CartesianWindKeeps DEF ComputeWindFields
  <2>2. CASE ~Cartesian(c)
    <3> HIDE DEF M
    <3> QED
      BY <1>1, <1>2, <2>2, ReachesWeakened DEF Keeps
  <2> QED
    BY <2>1, <2>2
<1>4. \A fs \in AnyFields : fs \subseteq Deep => Keeps(M, Read(fs, 1))
  BY SettledReads
<1>5. /\ \A fs \in {{"w"}, {"RKM"}, {"v_con", "w"}, {"u_con", "w"}, {"u_con", "v_con"}} : fs \in AnyFields /\ fs \subseteq Deep
      /\ {"R"} \in AnyFields
  BY FieldNames DEF AnyFields, Deep, Whole, Partial
<1> HIDE DEF M
<1>6. \A fs \in {{"w"}, {"RKM"}, {"v_con", "w"}, {"u_con", "w"}, {"u_con", "v_con"}} : Keeps(M, Read(fs, 1))
  BY <1>4, <1>5
<1>7. Keeps(M, Read({"u_con", "v_con"}, 0)) /\ Keeps(M, Read({"R"}, 0))
  BY <1>1, <1>5, ShallowReads
<1>8. Keeps(M, PredictTopWind(c))
  BY <1>1, <1>6, <1>7, KeepsParts DEF PredictTopWind
<1>9. Keeps(M, DiagnosticFields(c))
  <2>1. Reaches(Write({"R"}, 0), M, Lower(M, {"R"})) /\ Reaches(Exchange({"R"}), Lower(M, {"R"}), M)
    BY <1>1, <1>5, HaloAssumption, LowerByWriting, RaiseByExchange
  <2>2. Keeps(M, DeformationXi) /\ Keeps(M, DeformationEta) /\ Keeps(M, DeformationZeta)
    BY <1>6 DEF DeformationXi, DeformationEta, DeformationZeta
  <2>3. Keeps(M, DeformationXi \o DeformationEta \o DeformationZeta \o Write({"R"}, 0) \o Exchange({"R"}))
    BY <2>1, <2>2, ReachesOn DEF Keeps
  <2> QED
    BY <1>1, <2>3, KeepsParts DEF DiagnosticFields
<1> QED
  BY <1>2, <1>3, <1>8, <1>9 DEF M

---------------------------------------------------------------------------------
(* Initialization.  A run starts with every halo filled; the curl of its profile is       *)
(* computed in the interior, on a mapped grid with the components of zeta still open.       *)
Full == [f \in Fields |-> 2]
Assigned(c) == IF Cartesian(c) THEN Lower(Settled(c), {"xi", "eta"}) ELSE ZetaOpen(c)
Initialized(c) == IF c.start = "profile" THEN ZetaOpen(c) ELSE Settled(c)

LEMMA FullDepths == Full \in Depths /\ \A f \in Fields : Full[f] = 2
BY DEF Full, Depths

LEMMA AssignReaches ==
  ASSUME NEW c \in Configurations
  PROVE  Assigned(c) \in Depths /\ Reaches(AssignVars(c), Full, Assigned(c))
<1> DEFINE M == Settled(c)
           Z == ZetaOpen(c)
           C == {"xi_con", "eta_con"}
<1>1. M \in Depths /\ Z \in Depths /\ Z["zeta"] = 0
  <2>1. Z = Lower(M, {"zeta"})
    BY DEF ZetaOpen
  <2> QED
    BY <2>1, FieldNames, SettledDepths, Lowered
<1>2. Keeps(Z, SyncPhysical(c))
  BY KeepSyncs
<1>3. /\ {"u", "v", "w", "th", "qv"} \in AnyFields /\ {"xi", "eta"} \in AnyFields /\ {"xi_con", "eta_con", "zeta"} \in AnyFields
      /\ C \in AnyFields
  BY FieldNames DEF AnyFields
<1> HIDE DEF M, Z
<1>4. Keeps(Full, Write({"u", "v", "w", "th", "qv"}, Halo))
  <2>1. Halo \in Nat /\ Halo <= Halo /\ \A f \in Fields : Full[f] <= Halo
    BY FullDepths, HaloAssumption
  <2>2. \A f \in {"u", "v", "w", "th", "qv"} : Full[f] <= Halo
    BY <2>1, FieldNames
  <2> QED
    BY <1>3, <2>1, <2>2, FullDepths, KeepWrites
<1>5. CASE Cartesian(c)
  <2> DEFINE L == Lower(M, {"xi", "eta"})
  <2>1. L \in Depths /\ \A f \in Fields : L[f] = IF f \in {"xi", "eta"} THEN 0 ELSE M[f]
    BY <1>1, Lowered
  <2> HIDE DEF L
  <2>2. 0 \in Nat /\ 0 <= Halo /\ \A f \in Fields : L[f] <= IF f \in {"xi", "eta"} THEN 0 ELSE Full[f]
    BY <2>1, DepthTypes, FullDepths, HaloAssumption
  <2>3. Reaches(Write({"xi", "eta"}, 0), Full, L)
    BY <1>3, <2>1, <2>2, FullDepths, ReachesByWriting
  <2>4. Reaches(Write({"u", "v", "w", "th", "qv"}, Halo) \o Write({"xi", "eta"}, 0), Full, L)
    BY <1>4, <2>3, ReachesOn DEF Keeps
  <2> QED
    BY <1>5, <2>1, <2>4 DEF AssignVars, Assigned, L, M
<1>6. CASE ~Cartesian(c)
  <2> DEFINE L == Lower(Z, C)
             fs == {"xi_con", "eta_con", "zeta"}
  <2>1. L \in Depths /\ \A f \in Fields : L[f] = IF f \in C THEN 0 ELSE Z[f]
    BY <1>1, Lowered
  <2>2. Reaches(Exchange(C), L, Z)
    BY <1>1, <1>3, RaiseByExchange
  <2> HIDE DEF L
  <2>3. 0 \in Nat /\ 0 <= Halo /\ \A f \in Fields : L[f] <= IF f \in fs THEN 0 ELSE Full[f]
    BY <1>1, <2>1, DepthTypes, FullDepths, HaloAssumption
  <2>4. Reaches(Write(fs, 0), Full, L)
    BY <1>3, <2>1, <2>3, FullDepths, ReachesByWriting
  <2>5. Reaches(Write(fs, 0) \o Exchange(C) \o SyncPhysical(c), Full, Z)
    BY <1>2, <2>2, <2>4, ReachesOn DEF Keeps
  <2>6. Reaches(Write({"u", "v", "w", "th", "qv"}, Halo) \o (Write(fs, 0) \o Exchange(C) \o SyncPhysical(c)), Full, Z)
    BY <1>4, <2>5, ReachesOn DEF Keeps
  <2> QED
    BY <1>1, <1>6, <2>6 DEF AssignVars, Assigned, Z
<1> QED
  BY <1>5, <1>6

LEMMA StateReaches ==
  ASSUME NEW c \in Configurations, HalosFollow(c)
  PROVE  Reaches(InitializeState(c), Full, Initialized(c))
<1> DEFINE M == Settled(c)
           A == Assigned(c)
           gs == IF Cartesian(c) THEN {"xi", "eta"} ELSE {"zeta"}
<1>1. M \in Depths /\ A \in Depths /\ Reaches(AssignVars(c), Full, A) /\ A = Lower(M, gs)
  BY SettledDepths, AssignReaches DEF Assigned, ZetaOpen
<1>2. gs \subseteq Vorticity
  BY DEF Vorticity
<1> HIDE DEF M, A, gs
<1>3. \A f \in Fields : M[f] \in 0..2 /\ A[f] = IF f \in gs THEN 0 ELSE M[f]
  BY <1>1, DepthTypes, Lowered
<1>4. CASE c.start = "restart"
  <2> DEFINE fs == RestartFields(c)
             L == Lower(M, fs)
  <2>1. fs \in AnyFields /\ Vorticity \subseteq fs
    <3>1. Scalars(c) \subseteq Fields
      BY ScalarFields DEF AnyFields
    <3> QED
      BY <3>1, FieldNames DEF RestartFields, Vorticity, AnyFields
  <2> HIDE DEF fs
  <2>2. L \in Depths /\ (\A f \in Fields : L[f] = IF f \in fs THEN 0 ELSE M[f]) /\ Reaches(Exchange(fs), L, M)
    BY <1>1, <2>1, Lowered, RaiseByExchange
  <2> HIDE DEF L
  <2>3. 0 \in Nat /\ 0 <= Halo /\ \A f \in Fields : L[f] <= IF f \in fs THEN 0 ELSE A[f]
    BY <1>2, <1>3, <2>1, <2>2, HaloAssumption
  <2>4. Reaches(Write(fs, 0), A, L)
    BY <1>1, <2>1, <2>2, <2>3, ReachesByWriting
  <2>5. Reaches(LoadRestart(c), A, M)
    BY <2>2, <2>4, ReachesOn DEF LoadRestart, ReadAndInitialize, fs
  <2>6. Reaches(InitializeState(c), Full, M)
    BY <1>1, <1>4, <2>5, ReachesOn DEF InitializeState
  <2> QED
    BY <1>4, <2>6 DEF Initialized, M
<1>5. CASE c.start = "bubble"
  <2> DEFINE fs == {"th"} \cup Vorticity
  <2>1. fs \in AnyFields /\ {"th"} \in AnyFields /\ {"u", "v", "w"} \in AnyFields /\ gs \subseteq fs
    BY <1>2, FieldNames DEF AnyFields, Vorticity
  <2> HIDE DEF fs
  <2>2. Halo \in Nat /\ Halo <= Halo /\ \A f \in Fields : A[f] <= Halo
    BY <1>1, DepthTypes, HaloAssumption
  <2>3. Keeps(A, Write(fs, Halo)) /\ Keeps(A, Write({"th"}, Halo))
    <3>1. \A gg \in AnyFields : \A f \in gg : A[f] <= Halo
      BY <2>2 DEF AnyFields
    <3> QED
      BY <1>1, <2>1, <2>2, <3>1, KeepWrites
  <2>4. Reaches(Exchange(fs), A, M)
    BY <1>1, <2>1, RaiseByExchange
  <2>5. Keeps(M, When(c.idealized = "none", Exchange({"u", "v", "w"})))
    BY <1>1, <2>1, KeepExchanges, KeepsParts
  <2>6. Keeps(A, When(c.idealized # "none", Write(fs, Halo)))
    BY <1>1, <2>3, KeepsParts
  <2>7. Reaches(When(c.idealized # "none", Write(fs, Halo)) \o Write({"th"}, Halo) \o Exchange(fs)
                  \o When(c.idealized = "none", Exchange({"u", "v", "w"})), A, M)
    BY <2>3, <2>4, <2>5, <2>6, ReachesOn DEF Keeps
  <2>8. Reaches(InitializePerturbation(c), A, M)
    BY <1>5, <2>7 DEF InitializePerturbation, When, fs
  <2>9. Reaches(InitializeState(c), Full, M)
    BY <1>1, <1>5, <2>8, ReachesOn DEF InitializeState
  <2> QED
    BY <1>5, <2>9 DEF Initialized, M
<1>6. CASE c.start = "profile"
  <2>1. ~Cartesian(c)
    BY <1>6 DEF HalosFollow
  <2>2. A = ZetaOpen(c)
    BY <2>1 DEF A, Assigned
  <2>3. Keeps(A, InitializePerturbation(c))
    BY <1>1, <1>6, KeepsParts DEF InitializePerturbation
  <2>4. Reaches(InitializeState(c), Full, A)
    BY <1>1, <1>6, <2>3, ReachesOn DEF InitializeState, Keeps
  <2> QED
    BY <1>6, <2>2, <2>4 DEF Initialized
<1>7. c.start \in {"profile", "bubble", "restart"}
  BY DEF Configurations
<1> QED
  BY <1>4, <1>5, <1>6, <1>7

LEMMA AlignKeeps ==
  ASSUME NEW c \in Configurations, HalosFollow(c)
  PROVE  Keeps(Initialized(c), RestoreBoundaries(c)) /\ Keeps(Initialized(c), AlignCopies(c))
<1> DEFINE M == Initialized(c)
<1>1. M \in {Settled(c), ZetaOpen(c)} /\ (c.start = "restart" => M = Settled(c))
  BY DEF Initialized
<1>2. (c.start = "restart" /\ c.micro = "p3") => Keeps(M, RefreshCondensate)
  BY <1>1, ThermoKeeps
<1> HIDE DEF M
<1>3. M \in Depths /\ Keeps(M, SyncPhysical(c)) /\ Keeps(M, CopyZeta) /\ (Loss(c) = 0 => Keeps(M, SyncContravariant(c)))
  BY <1>1, SettledDepths, KeepSyncs
<1>4. ThermodynamicsVars(c) \in AnyFields /\ Vorticity \in AnyFields /\ {"xi_con", "eta_con"} \in AnyFields
  BY ScalarFields, FieldNames DEF AnyFields, Vorticity
<1>5. \A fs \in AnyFields : Keeps(M, Exchange(fs))
  BY <1>3, KeepExchanges
<1>6. Keeps(M, RestoreBoundaries(c))
  <2>1. CASE c.start = "restart"
    <3>1. Keeps(M, When(c.micro = "p3", RefreshCondensate))
      BY <1>2, <1>3, <2>1, KeepsParts
    <3>2. Keeps(M, Exchange(ThermodynamicsVars(c)) \o Exchange(Vorticity) \o When(c.micro = "p3", RefreshCondensate))
      BY <1>3, <1>4, <1>5, <3>1, KeepsParts
    <3> QED
      BY <1>3, <3>2, KeepsParts DEF RestoreBoundaries
  <2>2. CASE c.start # "restart"
    BY <1>3, <2>2, KeepsParts DEF RestoreBoundaries
  <2> QED
    BY <2>1, <2>2
<1>7. Keeps(M, AlignCopies(c))
  <2>1. ~HasCanonicalVorticity(c) => Loss(c) = 0
    BY LossIs DEF HasCanonicalVorticity, HalosFollow, Cartesian
  <2>2. Keeps(M, Exchange({"xi_con", "eta_con"}) \o CopyZeta)
    BY <1>3, <1>4, <1>5, KeepsParts
  <2>3. Keeps(M, IF HasCanonicalVorticity(c) THEN Exchange({"xi_con", "eta_con"}) \o CopyZeta ELSE SyncContravariant(c))
    BY <1>3, <2>1, <2>2
  <2> QED
    BY <1>3, <2>3, KeepsParts DEF AlignCopies
<1> QED
  BY <1>6, <1>7 DEF M

LEMMA InitialWindReaches ==
  ASSUME NEW c \in Configurations, HalosFollow(c)
  PROVE  Reaches(InitialWind(c), Initialized(c), Settled(c))
<1> DEFINE M == Settled(c)
<1>1. M \in Depths /\ (Loss(c) = 0 => Keeps(M, ShadowWind(c)))
  BY SettledDepths, KeepSyncs
<1>2. Keeps(M, ComputeWindFields(c, TRUE)) /\ (~Cartesian(c) => Reaches(ComputeWindFields(c, TRUE), ZetaOpen(c), M))
  BY WindKeeps
<1>3. Loss(c) = IF c.map = "skew" THEN 1 ELSE 0
  BY LossIs
<1>4. Initialized(c) = IF c.start = "profile" THEN ZetaOpen(c) ELSE M
  BY DEF Initialized
<1> HIDE DEF M
<1>5. CASE c.start = "restart"
  <2>1. ~c.canonical => Keeps(M, ShadowWind(c))
    BY <1>1, <1>3, <1>5 DEF HalosFollow
  <2>2. Keeps(M, When(~c.canonical, ShadowWind(c)))
    BY <1>1, <2>1, KeepsParts
  <2> QED
    BY <1>4, <1>5, <2>2 DEF InitialWind, Keeps, M
<1>6. CASE c.start # "restart" /\ c.wind /\ (c.diagnose \/ ~Cartesian(c))
  <2>1. c.start = "profile" => ~Cartesian(c)
    BY DEF HalosFollow
  <2>2. Reaches(ComputeWindFields(c, TRUE), Initialized(c), M)
    BY <1>2, <1>4, <2>1 DEF Keeps
  <2> QED
    BY <1>6, <2>2 DEF InitialWind, M
<1>7. CASE c.start # "restart" /\ ~(c.wind /\ (c.diagnose \/ ~Cartesian(c)))
  <2>1. c.start # "profile" /\ Loss(c) = 0
    BY <1>3, <1>7 DEF HalosFollow, Cartesian
  <2> QED
    BY <1>1, <1>4, <1>7, <2>1 DEF InitialWind, Keeps, M
<1> QED
  BY <1>5, <1>6, <1>7

LEMMA HistoryKeeps ==
  ASSUME NEW c \in Configurations
  PROVE  Keeps(Settled(c), RestartHistory(c))
<1> DEFINE M == Settled(c)
<1>1. M \in Depths /\ M["covariant_wind"] = 0
  BY SettledDepths
<1>2. Keeps(M, AdvectScalars(c, SingleStage(c))) /\ Keeps(M, VorticityTendencies(c))
  BY AdvectKeeps, ScalarFields, TendenciesKeep
<1>3. \A fs \in AnyFields : fs \subseteq Deep => Keeps(M, Read(fs, 1))
  BY SettledReads
<1>4. /\ {"u", "v"} \in AnyFields /\ {"u", "v"} \subseteq Deep /\ {"u_con", "v_con"} \in AnyFields /\ {"u_con", "v_con"} # {}
      /\ {"covariant_wind"} \in AnyFields
  BY FieldNames DEF AnyFields, Deep
<1> HIDE DEF M
<1>5. Keeps(M, Read({"u", "v"}, 0)) /\ Keeps(M, SeedFromPhysical)
  BY <1>1, <1>3, <1>4, ShallowReads DEF SeedFromPhysical
<1>6. Keeps(M, SeedFromContravariant(c))
  <2>1. Loss(c) \in Nat /\ \A f \in {"covariant_wind"} : M[f] = 0
    BY <1>1, LossIs
  <2>2. Keeps(M, Derive({"u_con", "v_con"}, {"covariant_wind"}, Loss(c))) /\ Keeps(M, Read({"covariant_wind"}, 0))
    BY <1>1, <1>4, <2>1, KeepWrites, ShallowReads
  <2> QED
    BY <1>1, <2>2, KeepsParts DEF SeedFromContravariant
<1>7. Keeps(M, IF Cartesian(c) THEN Read({"u", "v"}, 0)
               ELSE IF c.canonical THEN SeedFromContravariant(c) ELSE SeedFromPhysical)
  BY <1>5, <1>6
<1>8. Keeps(M, RestartHistory(c))
  BY <1>1, <1>2, <1>7, KeepsParts DEF RestartHistory
<1> QED
  BY <1>8 DEF M

LEMMA InitializationReaches ==
  ASSUME NEW c \in Configurations, HalosFollow(c)
  PROVE  Reaches(Initialization(c), Full, Settled(c))
<1>1. Keeps(Settled(c), DiagnosticFields(c))
  BY WindKeeps
<1>2. Reaches(InitializeState(c), Full, Initialized(c)) /\ Reaches(InitialWind(c), Initialized(c), Settled(c))
      /\ Keeps(Settled(c), RestartHistory(c))
  BY StateReaches, InitialWindReaches, HistoryKeeps
<1>3. Keeps(Initialized(c), RestoreBoundaries(c)) /\ Keeps(Initialized(c), AlignCopies(c))
  BY AlignKeeps
<1> QED
  BY <1>1, <1>2, <1>3, ReachesOn DEF Initialization, Keeps

LEMMA StepKeeps ==
  ASSUME NEW c \in Configurations, HalosFollow(c)
  PROVE  Keeps(Settled(c), StepBody(c))
<1> DEFINE M == Settled(c)
<1>1. M \in Depths
  BY SettledDepths
<1>2. /\ Keeps(M, ThermoTendencies(c)) /\ Keeps(M, UpdateThermo(c)) /\ Keeps(M, ApplyTracerSource(c)) /\ Keeps(M, RunCleo(c))
  BY ThermoKeeps
<1>3. PICK N \in Depths : Reaches(ApplyRandomForcing(c), M, N) /\ Reaches(RunP3(c), N, M)
  BY ForcedKeeps
<1>4. Keeps(M, PhysicsThermo(c)) /\ Keeps(M, CondensateForBuoyancy(c))
  BY PhysicsThermoKeeps
<1>5. Keeps(M, VorticityTendencies(c)) /\ Keeps(M, UpdateVorticity(c)) /\ Keeps(M, PhysicsVorticity(c))
  BY TendenciesKeep, UpdateVorticityKeeps, PhysicsVorticityKeeps
<1>6. Keeps(M, PredictTopWind(c)) /\ Keeps(M, ComputeWindFields(c, FALSE)) /\ Keeps(M, DiagnosticFields(c))
  BY WindKeeps
<1> HIDE DEF M
<1>7. Keeps(M, When(c.wind, PredictTopWind(c) \o ComputeWindFields(c, FALSE)))
  BY <1>1, <1>6, KeepsParts
<1> DEFINE P == ThermoTendencies(c) \o UpdateThermo(c) \o ApplyTracerSource(c) \o ApplyRandomForcing(c) \o RunP3(c) \o RunCleo(c)
<1>8. Keeps(M, P)
  BY <1>2, <1>3, ReachesOn DEF Keeps
<1> HIDE DEF P
<1> DEFINE Q == P \o PhysicsThermo(c) \o CondensateForBuoyancy(c) \o VorticityTendencies(c) \o UpdateVorticity(c)
<1>9. Keeps(M, Q)
  BY <1>1, <1>4, <1>5, <1>8, KeepsParts
<1> HIDE DEF Q
<1>10. Keeps(M, Q \o PhysicsVorticity(c) \o When(c.wind, PredictTopWind(c) \o ComputeWindFields(c, FALSE)) \o DiagnosticFields(c))
  BY <1>1, <1>5, <1>6, <1>7, <1>9, KeepsParts
<1> QED
  BY <1>10 DEF StepBody, Q, P, M

---------------------------------------------------------------------------------
(* The halos of a run are at least as deep as the marks of its places.                     *)
HaloAnnotation ==
  [n \in Runs |-> CHOOSE m : /\ IsAnnotation(HaloAnalysis, Full, Settled(Configuration[n]), n, m)
                             /\ Below(HaloAnalysis, m[Len(Body(n)) + 1], Settled(Configuration[n]))]

HaloInv ==
  /\ number \in Runs /\ HalosFollow(Configuration[number])
  /\ pc \in 1..Len(Body(number)) + 1
  /\ halo \in [Fields -> 0..Halo]
  /\ \A f \in Fields : HaloAnnotation[number][pc][f] <= halo[f]

LEMMA SomeHaloAnnotation ==
  ASSUME NEW n \in Runs, HalosFollow(Configuration[n])
  PROVE  /\ IsAnnotation(HaloAnalysis, Full, Settled(Configuration[n]), n, HaloAnnotation[n])
         /\ Below(HaloAnalysis, HaloAnnotation[n][Len(Body(n)) + 1], Settled(Configuration[n]))
<1> DEFINE c == Configuration[n]
           A == HaloAnalysis
<1>1. c \in Configurations
  BY RunsRead
<1>2. Leads(A, Initialization(c), Full, Settled(c)) /\ Leads(A, StepBody(c), Settled(c), Settled(c))
  BY <1>1, InitializationReaches, StepKeeps DEF Keeps, Reaches
<1>3. IsAnalysis(A)
  BY HalosAnalysed
<1> HIDE DEF A
<1>4. \E m : IsAnnotation(A, Full, Settled(c), n, m) /\ Below(A, m[Len(Body(n)) + 1], Settled(c))
  BY <1>2, <1>3, RunIsAnnotated
<1> QED
  BY <1>4 DEF HaloAnnotation, A

LEMMA HaloAnnotated ==
  ASSUME number \in Runs, HalosFollow(Configuration[number]), pc \in 1..Len(Body(number)) + 1
  PROVE  LET m == HaloAnnotation[number]
             k == Instruction
         IN /\ m[1] \in Depths /\ m[FirstOfStep[number]] \in Depths /\ m[pc] \in Depths
            /\ k.op = "done" => Shallower(m[pc], m[FirstOfStep[number]])
            /\ k.op # "done" => /\ k \in ProgramOps /\ HaloEffect(k, m[pc], m[pc + 1])
                                /\ pc + 1 \in 1..Len(Body(number)) + 1 /\ m[pc + 1] \in Depths
            /\ k.op = "perhaps" => LET to == pc + 1 + k.skip
                                   IN  to \in 1..Len(Body(number)) + 1 /\ m[to] \in Depths /\ Shallower(m[pc], m[to])
<1> DEFINE m == HaloAnnotation[number]
           k == Code[number][pc]
           A == HaloAnalysis
           b == Len(Body(number))
           E == Settled(Configuration[number])
<1>1. IsAnnotation(A, Full, E, number, m) /\ Below(A, m[b + 1], E)
  BY SomeHaloAnnotation
<1>2. /\ A.marks = Depths /\ IsAnalysis(A)
      /\ \A M, N \in Depths : Below(A, M, N) <=> Shallower(M, N)
      /\ \A o \in ProgramOps, M, N \in Depths : Takes(A, o, M, N) <=> HaloEffect(o, M, N)
  BY HalosAnalysed
<1>3. E \in Depths
  BY RunsRead, SettledDepths
<1> HIDE DEF A, m, E
<1>4. /\ m[1] \in A.marks /\ m[FirstOfStep[number]] \in A.marks /\ m[pc] \in A.marks
      /\ Below(A, E, m[FirstOfStep[number]])
      /\ k.op # "done" => /\ k \in ProgramOps /\ Takes(A, k, m[pc], m[pc + 1])
                          /\ pc + 1 \in 1..b + 1 /\ m[pc + 1] \in A.marks
      /\ k.op = "perhaps" => LET to == pc + 1 + k.skip
                             IN  to \in 1..b + 1 /\ m[to] \in A.marks /\ Below(A, m[pc], m[to])
  BY <1>1, AlongTheRun
<1>5. Instruction = k
  BY DEF Instruction
<1>6. k.op = "done" => Shallower(m[pc], m[FirstOfStep[number]])
  <2> SUFFICES ASSUME k.op = "done" PROVE Shallower(m[pc], m[FirstOfStep[number]])
    OBVIOUS
  <2>1. m[pc] \in Depths /\ m[FirstOfStep[number]] \in Depths
    BY <1>2, <1>4
  <2>2. CASE pc = b + 1
    <3>1. Below(A, m[pc], m[FirstOfStep[number]])
      BY <1>1, <1>2, <1>3, <1>4, <2>1, <2>2, BelowTwice
    <3> QED
      BY <1>2, <2>1, <3>1
  <2>3. CASE pc \in 1..b
    <3>1. k = Body(number)[pc] /\ k \in ProgramOps
      BY <2>3, CodeShape
    <3>2. Takes(A, k, m[pc], m[pc + 1]) /\ m[pc + 1] \in A.marks
      <4>1. m \in [1..b + 1 -> A.marks] /\ Takes(A, Body(number)[pc], m[pc], m[pc + 1])
        BY <1>1, <2>3 DEF IsAnnotation, Annotates
      <4>2. b \in Nat /\ pc + 1 \in 1..b + 1
        BY <2>3, CodeShape
      <4> QED
        BY <3>1, <4>1, <4>2
    <3> QED
      BY <1>2, <2>1, <3>1, <3>2 DEF HaloEffect
  <2> QED
    BY <2>2, <2>3, CodeShape
<1> HIDE DEF k
<1> QED
  BY <1>2, <1>4, <1>5, <1>6 DEF m

(* A set of numbers that is not empty has a least one.                               *)
LEMMA LeastNumber ==
  ASSUME NEW S, S \subseteq Nat, S # {}
  PROVE  \E n \in S : \A m \in S : n <= m
<1> DEFINE Less == {e \in Nat \X Nat : e[1] < e[2]}
<1>1. IsWellFoundedOn(Less, Nat)
  BY NatLessThanWellFounded DEF OpToRel
<1> HIDE DEF Less
<1>2. PICK n \in S : \A m \in S : <<m, n>> \notin Less
  BY <1>1, WFMin
<1>3. ASSUME NEW m \in S PROVE n <= m
  <2>1. ~(m < n)
    BY <1>2 DEF Less
  <2> QED
    BY <2>1
<1> QED
  BY <1>3

(* The next operation.                                                       *)
LEMMA HaloReached ==
  ASSUME HaloInv, Instruction.op # "done", Advance, halo' \in [Fields -> 0..Halo],
         \A f \in Fields : HaloAnnotation[number][pc + 1][f] <= halo'[f]
  PROVE  HaloInv'
<1>1. number \in Runs /\ pc + 1 \in 1..Len(Body(number)) + 1 /\ number' = number /\ pc' = pc + 1
  BY HaloAnnotated DEF HaloInv, Advance
<1>2. (Len(Body(number)))' = Len(Body(number)) /\ HalosFollow(Configuration[number])'
  BY <1>1 DEF Body, HaloInv
<1> QED
  BY <1>1, <1>2 DEF HaloInv

LEMMA HaloUnmoved ==
  ASSUME HaloInv, Advance, UNCHANGED halo, Instruction.op \notin {"write", "exchange", "derive", "done"}
  PROVE  HaloInv'
<1> DEFINE M == HaloAnnotation[number][pc]
           N == HaloAnnotation[number][pc + 1]
<1>1. HaloEffect(Instruction, M, N) /\ M \in Depths /\ N \in Depths
  BY HaloAnnotated DEF HaloInv
<1>2. halo \in [Fields -> 0..Halo] /\ \A f \in Fields : M[f] <= halo[f]
  BY DEF HaloInv
<1> HIDE DEF M, N
<1>3. \A f \in Fields : N[f] <= M[f]
  BY <1>1 DEF HaloEffect
<1>4. Halo \in Nat /\ \A f \in Fields : M[f] \in 0..2 /\ N[f] \in 0..2 /\ halo[f] \in 0..Halo
  BY <1>1, <1>2, DepthTypes, HaloAssumption
<1>5. halo' \in [Fields -> 0..Halo] /\ \A f \in Fields : N[f] <= halo'[f]
  BY <1>2, <1>3, <1>4
<1> QED
  BY <1>5, HaloReached DEF N

LEMMA HaloWritten == ASSUME HaloInv, WriteFields PROVE HaloInv'
<1> DEFINE M == HaloAnnotation[number][pc]
           N == HaloAnnotation[number][pc + 1]
           k == Instruction
<1>1. k.op = "write" /\ Advance
      /\ halo' = [f \in Fields |-> IF f \in k.fields THEN k.depth ELSE halo[f]]
  BY DEF WriteFields, At
<1>2. HaloEffect(k, M, N) /\ M \in Depths /\ N \in Depths /\ k \in ProgramOps
  BY <1>1, HaloAnnotated DEF HaloInv
<1>3. halo \in [Fields -> 0..Halo] /\ \A f \in Fields : M[f] <= halo[f]
  BY DEF HaloInv
<1> HIDE DEF M, N, k
<1>4. k.depth \in Nat /\ k.depth <= Halo /\ \A f \in Fields : N[f] <= IF f \in k.fields THEN k.depth ELSE M[f]
  BY <1>1, <1>2, OpFields DEF HaloEffect
<1>5. Halo \in Nat /\ \A f \in Fields : M[f] \in 0..2 /\ N[f] \in 0..2 /\ halo[f] \in 0..Halo
  BY <1>2, <1>3, DepthTypes, HaloAssumption
<1>6. \A f \in Fields : halo'[f] \in 0..Halo /\ N[f] <= halo'[f]
  BY <1>1, <1>3, <1>4, <1>5
<1>7. halo' \in [Fields -> 0..Halo]
  BY <1>1, <1>6
<1> QED
  BY <1>1, <1>6, <1>7, HaloReached DEF N, k

LEMMA HaloExchanged == ASSUME HaloInv, ExchangeFields PROVE HaloInv'
<1> DEFINE M == HaloAnnotation[number][pc]
           N == HaloAnnotation[number][pc + 1]
           k == Instruction
<1>1. k.op = "exchange" /\ Advance
      /\ halo' = [f \in Fields |-> IF f \in k.fields /\ halo[f] < k.depth THEN k.depth ELSE halo[f]]
  BY DEF ExchangeFields, At
<1>2. HaloEffect(k, M, N) /\ M \in Depths /\ N \in Depths /\ k \in ProgramOps
  BY <1>1, HaloAnnotated DEF HaloInv
<1>3. halo \in [Fields -> 0..Halo] /\ \A f \in Fields : M[f] <= halo[f]
  BY DEF HaloInv
<1> HIDE DEF M, N, k
<1>4. k.depth \in Nat /\ k.depth <= Halo /\ \A f \in Fields : N[f] <= M[f] \/ (f \in k.fields /\ N[f] <= k.depth)
  BY <1>1, <1>2, OpFields DEF HaloEffect
<1>5. Halo \in Nat /\ \A f \in Fields : M[f] \in 0..2 /\ N[f] \in 0..2 /\ halo[f] \in 0..Halo
  BY <1>2, <1>3, DepthTypes, HaloAssumption
<1>6. \A f \in Fields : halo'[f] \in 0..Halo /\ N[f] <= halo'[f]
  BY <1>1, <1>3, <1>4, <1>5
<1>7. halo' \in [Fields -> 0..Halo]
  BY <1>1, <1>6
<1> QED
  BY <1>1, <1>6, <1>7, HaloReached DEF N, k

(* The shallowest source.                                                      *)
LEMMA ShallowestSource ==
  ASSUME halo \in [Fields -> 0..Halo], Instruction.from # {}, Instruction.from \subseteq Fields
  PROVE  /\ SourceDepth \in 0..Halo /\ \E f \in Instruction.from : halo[f] = SourceDepth
         /\ \A f \in Instruction.from : halo[f] >= SourceDepth
<1> DEFINE from == Instruction.from
           S == {halo[f] : f \in from}
<1>1. Halo \in Nat /\ \A f \in from : halo[f] \in 0..Halo
  BY HaloAssumption
<1>2. S \subseteq Nat /\ S # {}
  BY <1>1
<1>3. PICK n \in S : \A m \in S : n <= m
  BY <1>2, LeastNumber
<1>4. PICK g \in from : halo[g] = n
  BY <1>3
<1>5. n \in 0..Halo /\ \A f \in from : halo[f] >= n
  BY <1>1, <1>3, <1>4
<1>6. \E d \in 0..Halo : (\E f \in from : halo[f] = d) /\ \A f \in from : halo[f] >= d
  BY <1>4, <1>5
<1> QED
  BY <1>6 DEF SourceDepth

LEMMA HaloDerived == ASSUME HaloInv, DeriveFields PROVE HaloInv'
<1> DEFINE M == HaloAnnotation[number][pc]
           N == HaloAnnotation[number][pc + 1]
           k == Instruction
<1>1. k.op = "derive" /\ Advance
      /\ halo' = [f \in Fields |-> IF f \in k.fields THEN DerivedDepth ELSE halo[f]]
  BY DEF DeriveFields, At
<1>2. HaloEffect(k, M, N) /\ M \in Depths /\ N \in Depths /\ k \in ProgramOps
  BY <1>1, HaloAnnotated DEF HaloInv
<1>3. halo \in [Fields -> 0..Halo] /\ \A f \in Fields : M[f] <= halo[f]
  BY DEF HaloInv
<1>4. /\ k.depth \in Nat /\ k.from # {} /\ k.from \subseteq Fields /\ k.fields \subseteq Fields
      /\ \A f \in k.fields : N[f] = 0 \/ \A g \in k.from : N[f] + k.depth <= M[g]
      /\ \A f \in Fields : f \in k.fields \/ N[f] <= M[f]
  BY <1>1, <1>2, OpFields DEF HaloEffect
<1>5. /\ SourceDepth \in 0..Halo /\ \E f \in k.from : halo[f] = SourceDepth
      /\ DerivedDepth = IF SourceDepth > k.depth THEN SourceDepth - k.depth ELSE 0
  BY <1>3, <1>4, ShallowestSource DEF DerivedDepth
<1> HIDE DEF M, N, k
<1>6. Halo \in Nat /\ \A f \in Fields : M[f] \in 0..2 /\ N[f] \in 0..2 /\ halo[f] \in 0..Halo
  BY <1>2, <1>3, DepthTypes, HaloAssumption
<1>7. DerivedDepth \in 0..Halo
  BY <1>4, <1>5, <1>6
<1>8. ASSUME NEW f \in k.fields PROVE N[f] <= DerivedDepth
  <2>1. f \in Fields /\ N[f] \in 0..2
    BY <1>4, <1>6, <1>8
  <2>2. CASE N[f] = 0
    BY <1>7, <2>2
  <2>3. CASE N[f] # 0
    <3>1. PICK g \in k.from : halo[g] = SourceDepth
      BY <1>5
    <3>2. N[f] + k.depth <= M[g] /\ M[g] <= halo[g] /\ M[g] \in 0..2
      BY <1>3, <1>4, <1>6, <1>8, <2>3, <3>1
    <3> QED
      BY <1>4, <1>5, <1>6, <2>1, <3>1, <3>2
  <2> QED
    BY <2>2, <2>3
<1>9. \A f \in Fields : halo'[f] \in 0..Halo /\ N[f] <= halo'[f]
  BY <1>1, <1>3, <1>4, <1>6, <1>7, <1>8
<1>10. halo' \in [Fields -> 0..Halo]
  BY <1>1, <1>9
<1> QED
  BY <1>1, <1>9, <1>10, HaloReached DEF N, k

LEMMA HaloOfMean == ASSUME HaloInv, ComputeMeanWind PROVE HaloInv'
<1> DEFINE M == HaloAnnotation[number][pc]
           N == HaloAnnotation[number][pc + 1]
           k == Instruction
<1>1. k.op = "mean" /\ Advance /\ (UNCHANGED halo \/ halo' = [halo EXCEPT !["mean_wind"] = Halo])
  BY DEF ComputeMeanWind, At
<1>2. HaloEffect(k, M, N) /\ M \in Depths /\ N \in Depths
  BY <1>1, HaloAnnotated DEF HaloInv
<1>3. halo \in [Fields -> 0..Halo] /\ \A f \in Fields : M[f] <= halo[f]
  BY DEF HaloInv
<1> HIDE DEF M, N, k
<1>4. \A f \in Fields : N[f] <= M[f]
  BY <1>1, <1>2 DEF HaloEffect
<1>5. Halo \in Nat /\ 2 <= Halo /\ \A f \in Fields : M[f] \in 0..2 /\ N[f] \in 0..2 /\ halo[f] \in 0..Halo
  BY <1>2, <1>3, DepthTypes, HaloAssumption
<1>6. halo' \in [Fields -> 0..Halo] /\ \A f \in Fields : halo'[f] = halo[f] \/ halo'[f] = Halo
  BY <1>1, <1>3, <1>5
<1>7. \A f \in Fields : N[f] <= halo'[f]
  BY <1>3, <1>4, <1>5, <1>6
<1> QED
  BY <1>1, <1>6, <1>7, HaloReached DEF N, k

LEMMA HaloSkipped == ASSUME HaloInv, Skip PROVE HaloInv'
<1> DEFINE to == pc + 1 + Instruction.skip
           M == HaloAnnotation[number][pc]
           N == HaloAnnotation[number][to]
<1>1. Instruction.op = "perhaps" /\ pc' = to /\ number' = number /\ UNCHANGED halo
  BY DEF Skip, At
<1>2. number \in Runs /\ to \in 1..Len(Body(number)) + 1 /\ M \in Depths /\ N \in Depths /\ Shallower(M, N)
  BY <1>1, HaloAnnotated DEF HaloInv
<1>3. halo \in [Fields -> 0..Halo] /\ (\A f \in Fields : M[f] <= halo[f]) /\ HalosFollow(Configuration[number])
  BY DEF HaloInv
<1> HIDE DEF to, M, N
<1>4. Halo \in Nat /\ \A f \in Fields : M[f] \in 0..2 /\ N[f] \in 0..2 /\ halo[f] \in 0..Halo
  BY <1>2, <1>3, DepthTypes, HaloAssumption
<1>5. \A f \in Fields : N[f] <= halo[f]
  BY <1>2, <1>3, <1>4 DEF Shallower
<1>6. (Len(Body(number)))' = Len(Body(number)) /\ HalosFollow(Configuration[number])'
  BY <1>1, <1>3 DEF Body
<1> QED
  BY <1>1, <1>2, <1>3, <1>5, <1>6 DEF HaloInv, N

LEMMA HaloRestarted == ASSUME HaloInv, FinishStep PROVE HaloInv'
<1> DEFINE to == FirstOfStep[number]
           M == HaloAnnotation[number][pc]
           N == HaloAnnotation[number][to]
<1>1. Instruction.op = "done" /\ pc' = to /\ number' = number /\ UNCHANGED halo
  BY DEF FinishStep, At
<1>2. number \in Runs /\ M \in Depths /\ N \in Depths /\ Shallower(M, N)
  BY <1>1, HaloAnnotated DEF HaloInv
<1>3. to \in 1..Len(Body(number)) + 1
  BY <1>2, CodeShape
<1>4. halo \in [Fields -> 0..Halo] /\ (\A f \in Fields : M[f] <= halo[f]) /\ HalosFollow(Configuration[number])
  BY DEF HaloInv
<1> HIDE DEF to, M, N
<1>5. Halo \in Nat /\ \A f \in Fields : M[f] \in 0..2 /\ N[f] \in 0..2 /\ halo[f] \in 0..Halo
  BY <1>2, <1>4, DepthTypes, HaloAssumption
<1>6. \A f \in Fields : N[f] <= halo[f]
  BY <1>2, <1>4, <1>5 DEF Shallower
<1>7. (Len(Body(number)))' = Len(Body(number)) /\ HalosFollow(Configuration[number])'
  BY <1>1, <1>4 DEF Body
<1> QED
  BY <1>1, <1>2, <1>3, <1>4, <1>6, <1>7 DEF HaloInv, N

LEMMA HaloInit ==
  ASSUME \A n \in Runs : HalosFollow(Configuration[n]), Init
  PROVE  HaloInv
<1> DEFINE M == HaloAnnotation[number][1]
<1>1. number \in Runs /\ pc = 1 /\ halo = [f \in Fields |-> Halo] /\ HalosFollow(Configuration[number])
  BY DEF Init
<1>2. 1 \in 1..Len(Body(number)) + 1
  BY <1>1, CodeShape
<1>3. M \in Depths
  BY <1>1, <1>2, HaloAnnotated
<1> HIDE DEF M
<1>4. Halo \in Nat /\ 2 <= Halo /\ \A f \in Fields : M[f] \in 0..2
  BY <1>3, DepthTypes, HaloAssumption
<1>5. halo \in [Fields -> 0..Halo] /\ \A f \in Fields : M[f] <= halo[f]
  BY <1>1, <1>4
<1> QED
  BY <1>1, <1>2, <1>5 DEF HaloInv, M

LEMMA HaloStep == HaloInv /\ [Next]_vars => HaloInv'
<1> SUFFICES ASSUME HaloInv, [Next]_vars PROVE HaloInv'
  OBVIOUS
<1>1. CASE WriteFields
  BY <1>1, HaloWritten
<1>2. CASE ExchangeFields
  BY <1>2, HaloExchanged
<1>3. CASE DeriveFields
  BY <1>3, HaloDerived
<1>4. CASE ComputeMeanWind
  BY <1>4, HaloOfMean
<1>5. CASE Skip
  BY <1>5, HaloSkipped
<1>6. CASE FinishStep
  BY <1>6, HaloRestarted
<1>7. CASE ReadFields
  BY <1>7, HaloUnmoved DEF ReadFields, At
<1>8. CASE AdvectFields
  BY <1>8, HaloUnmoved DEF AdvectFields, At
<1>9. CASE Enter
  BY <1>9, HaloUnmoved DEF Enter, At
<1>10. CASE SwapFields
  BY <1>10, HaloUnmoved DEF SwapFields, At
<1>11. CASE LaunchOrCapture
  BY <1>11, HaloUnmoved DEF LaunchOrCapture, At
<1>12. CASE InvalidateMeanWind
  BY <1>12, HaloUnmoved DEF InvalidateMeanWind, At
<1>13. CASE UNCHANGED vars
  BY <1>13 DEF vars, HaloInv, Body
<1> QED
  BY <1>1, <1>2, <1>3, <1>4, <1>5, <1>6, <1>7, <1>8, <1>9, <1>10, <1>11, <1>12, <1>13 DEF Next

(* No stencil of the step reads a layer of a halo that does not follow the interior of the  *)
(* neighbour, in every configuration whose halos follow (HalosFollow): this is what makes a  *)
(* result independent of the decomposition (DynamicalCore, Model::run_step).               *)
THEOREM StencilsReadFollowingHalos ==
  ASSUME \A n \in Runs : HalosFollow(Configuration[n])
  PROVE  Spec => []HalosFreshWhereRead
<1>1. Init => HaloInv
  BY HaloInit
<1>2. HaloInv => HalosFreshWhereRead
  <2> SUFFICES ASSUME HaloInv PROVE HalosFreshWhereRead
    OBVIOUS
  <2> DEFINE M == HaloAnnotation[number][pc]
             k == Instruction
  <2>1. k.op # "done" => k \in ProgramOps /\ \E N : HaloEffect(k, M, N)
    BY HaloAnnotated DEF HaloInv
  <2>2. M \in Depths
    BY HaloAnnotated DEF HaloInv
  <2>3. halo \in [Fields -> 0..Halo] /\ \A f \in Fields : M[f] <= halo[f]
    BY DEF HaloInv
  <2> HIDE DEF M, k
  <2>4. Halo \in Nat /\ \A f \in Fields : M[f] \in 0..2 /\ halo[f] \in 0..Halo
    BY <2>2, <2>3, DepthTypes, HaloAssumption
  <2>5. ASSUME k.op \in {"read", "advect"}, NEW f \in k.fields PROVE halo[f] >= k.depth
    <3>1. k.depth \in Nat /\ f \in Fields /\ k.depth <= M[f]
      BY <2>1, <2>5, OpFields DEF HaloEffect
    <3> QED
      BY <2>3, <2>4, <3>1
  <2>6. ASSUME k.op = "mean", NEW f \in MeanOf PROVE halo[f] >= Needs(k.variant)
    <3>1. Needs(k.variant) \in 0..1 /\ f \in Fields /\ Needs(k.variant) <= M[f]
      BY <2>1, <2>6, FieldNames DEF HaloEffect, Needs, MeanOf
    <3> QED
      BY <2>3, <2>4, <3>1
  <2> QED
    BY <2>5, <2>6 DEF HalosFreshWhereRead, At, k
<1> QED
  BY <1>1, <1>2, HaloStep, PTL DEF Spec
=================================================================================
