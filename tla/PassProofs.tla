------------------------------ MODULE PassProofs ------------------------------
(***************************************************************************)
(* Proofs about LCMPass with its database, for any number of processes,    *)
(* any modules and any call graph, and about the attacker-taint pass, for  *)
(* any function.                                                           *)
(***************************************************************************)
EXTENDS LCMPass, AttackerTaint, WellFoundedInduction, NaturalsInduction, TLAPS

-----------------------------------------------------------------------------
(* The attacker-taint pass. *)

\* One instruction in the meet over the predecessors of B.
MeetStep(p, B, out, n, v) == IF n \in TTerminators(p, B) THEN meet(p, v, out[n]) ELSE v

\* f is that meet up to each of the first k instructions.
UpTo(p, B, out, k, f) ==
  f = [n \in 0 .. k |-> IF n = 0 THEN top(p) ELSE MeetStep(p, B, out, n, f[n - 1])]

\* The meet over the first k instructions can be computed, for every k; a
\* least k for which it could not would have a predecessor.
LEMMA MeetPrefix ==
  ASSUME NEW p, NEW B, NEW out, NEW k \in Nat
  PROVE  \E f : UpTo(p, B, out, k, f)
<1> DEFINE Bad == {n \in Nat : ~\E f : UpTo(p, B, out, n, f)}
<1>1. SUFFICES ASSUME Bad # {} PROVE FALSE
  BY Zenon
<1>2. PICK n \in Bad : \A m \in Bad : ~(<<m, n>> \in OpToRel(<, Nat))
  BY <1>1, NatLessThanWellFounded, WFMin, Zenon
<1>3. n # 0
  <2> DEFINE f == [m \in 0 .. 0 |-> top(p)]
  <2>1. UpTo(p, B, out, 0, f)
    BY DEF UpTo
  <2> QED
    BY <2>1, Zenon
<1>4. n - 1 \in Nat /\ n - 1 < n
  BY <1>3
<1>5. <<n - 1, n>> \in OpToRel(<, Nat)
  BY <1>4, Zenon DEF OpToRel
<1>6. PICK f : UpTo(p, B, out, n - 1, f)
  BY <1>2, <1>4, <1>5, Zenon
<1> DEFINE g == [m \in 0 .. n |-> IF m = n THEN MeetStep(p, B, out, n, f[n - 1]) ELSE f[m]]
<1>7. UpTo(p, B, out, n, g)
  <2> SUFFICES ASSUME NEW m \in 0 .. n
               PROVE  g[m] = IF m = 0 THEN top(p) ELSE MeetStep(p, B, out, m, g[m - 1])
    BY Zenon DEF UpTo
  <2>1. CASE m = n
    <3>1. g[m] = MeetStep(p, B, out, n, f[n - 1]) /\ g[m - 1] = f[n - 1]
      BY <1>4, <2>1
    <3> QED
      BY <1>3, <2>1, <3>1, Zenon
  <2>2. CASE m # n
    <3>1. m \in 0 .. n - 1 /\ g[m] = f[m]
      BY <1>4, <2>2
    <3>2. f[m] = IF m = 0 THEN top(p) ELSE MeetStep(p, B, out, m, f[m - 1])
      BY <1>6, <3>1, Zenon DEF UpTo
    <3>3. m # 0 => g[m - 1] = f[m - 1]
      BY <3>1
    <3> QED
      BY <3>1, <3>2, <3>3, Zenon
  <2> QED
    BY <2>1, <2>2, Zenon
<1> QED
  BY <1>2, <1>7, Zenon

\* MeetPreds goes over the instructions from the start of the function and
\* meets the value of each terminator of a predecessor (attacker-taint.cc:363-367).
LEMMA MeetPredsStep ==
  ASSUME NEW p, Len(p.inst) \in Nat, NEW B, NEW out
  PROVE  /\ MeetPreds(p, B, out)[0] = top(p)
         /\ \A n \in 1 .. Len(p.inst) :
              MeetPreds(p, B, out)[n] = MeetStep(p, B, out, n, MeetPreds(p, B, out)[n - 1])
<1> DEFINE Last == Len(p.inst)
<1> DEFINE F == MeetPreds(p, B, out)
<1>1. \E f : UpTo(p, B, out, Last, f)
  BY MeetPrefix, Zenon
<1>2. UpTo(p, B, out, Last, F)
  <2> DEFINE G(f) ==
        [n \in 0 .. Last |-> IF n = 0 THEN top(p)
                         ELSE IF n \in TTerminators(p, B) THEN meet(p, f[n - 1], out[n])
                         ELSE f[n - 1]]
  <2>1. \E f : f = G(f)
    BY <1>1, Zenon DEF UpTo, MeetStep
  <2>2. F = CHOOSE f : f = G(f)
    BY Zenon DEF MeetPreds
  <2>3. F = G(F)
    BY <2>1, <2>2, Zenon
  <2> QED
    BY <2>3, Zenon DEF UpTo, MeetStep
<1> HIDE DEF F
<1>3. F[0] = top(p)
  BY <1>2 DEF UpTo
<1>4. ASSUME NEW n \in 1 .. Last
      PROVE  F[n] = MeetStep(p, B, out, n, F[n - 1])
  <2>1. n \in 0 .. Last /\ n # 0
    OBVIOUS
  <2>2. F[n] = IF n = 0 THEN top(p) ELSE MeetStep(p, B, out, n, F[n - 1])
    BY <1>2, <2>1, Zenon DEF UpTo
  <2> QED
    BY <2>1, <2>2, Zenon
<1> QED
  BY <1>3, <1>4, Zenon DEF F

\* The meet covers what either of two values covers: a pointer that it keeps
\* must alias one of each (attacker-taint.cc:58-81).  C is any property of
\* pointers that two which must alias share.
LEMMA MeetCovers ==
  ASSUME NEW p, NEW a \in Values(p), NEW b \in Values(p), NEW R, NEW C,
         \A P, Q \in Pointers(p) : AA(p, P, Q) = "Must" => (P \in C <=> Q \in C),
         \/ R \subseteq a.insts /\ a.stores \subseteq C
         \/ R \subseteq b.insts /\ b.stores \subseteq C
  PROVE  R \subseteq meet(p, a, b).insts /\ meet(p, a, b).stores \subseteq C
<1> DEFINE Found(VA) == {VB \in b.stores : AA(p, VA, VB) = "Must"}
<1> DEFINE c == meet(p, a, b)
<1>1. c.insts = a.insts \cup b.insts
  BY Zenon DEF meet
<1>2. ASSUME NEW P \in c.stores
      PROVE  \E VA \in a.stores, VB \in b.stores : AA(p, VA, VB) = "Must" /\ P \in {VA, VB}
  <2>1. PICK VA \in a.stores : Found(VA) # {} /\ P \in {VA, CHOOSE VB \in Found(VA) : TRUE}
    BY Zenon DEF meet
  <2>2. (CHOOSE VB \in Found(VA) : TRUE) \in Found(VA)
    BY <2>1, Zenon
  <2> QED
    BY <2>1, <2>2, Zenon
<1> HIDE DEF c
<1>3. ASSUME NEW P \in c.stores
      PROVE  P \in C
  <2>1. PICK VA \in a.stores, VB \in b.stores : AA(p, VA, VB) = "Must" /\ P \in {VA, VB}
    BY <1>2, Zenon
  <2>2. VA \in Pointers(p) /\ VB \in Pointers(p)
    BY Zenon DEF Values
  <2> QED
    BY <2>1, <2>2, Zenon
<1>4. R \subseteq c.insts
  BY <1>1, Zenon
<1> QED
  BY <1>3, <1>4, Zenon DEF c

\* meet keeps to the instructions and the pointers of the function.
LEMMA MeetType ==
  ASSUME NEW p, NEW a \in Values(p), NEW b \in Values(p)
  PROVE  meet(p, a, b) \in Values(p)
<1> DEFINE Found(VA) == {VB \in b.stores : AA(p, VA, VB) = "Must"}
<1> DEFINE S == UNION {{VA, CHOOSE VB \in Found(VA) : TRUE} :
                           VA \in {V \in a.stores : Found(V) # {}}}
<1>1. meet(p, a, b) = [insts |-> a.insts \cup b.insts, stores |-> S]
  BY Zenon DEF meet
<1>2. ASSUME NEW P \in S
      PROVE  P \in Pointers(p)
  <2>1. PICK VA \in a.stores : Found(VA) # {} /\ P \in {VA, CHOOSE VB \in Found(VA) : TRUE}
    BY Zenon
  <2>2. (CHOOSE VB \in Found(VA) : TRUE) \in Found(VA)
    BY <2>1, Zenon
  <2> QED
    BY <2>1, <2>2, Zenon DEF Values
<1>3. a.insts \cup b.insts \subseteq TInsts(p)
  BY Zenon DEF Values
<1> HIDE DEF S
<1> QED
  BY <1>1, <1>2, <1>3 DEF Values

\* So do the values that runOnFunction starts with (attacker-taint.cc:281-303).
LEMMA TopType ==
  ASSUME NEW p, WellFormed(p)
  PROVE  top(p) \in Values(p) /\ Unknown \in Values(p)
<1>1. {p.inst[I].ptr : I \in {J \in TInsts(p) : p.inst[J].op = "store"}} \subseteq Pointers(p)
  BY DEF WellFormed
<1> QED
  BY <1>1, Zenon DEF top, Unknown, Values

\* And so does the meet over the predecessors of a block.
LEMMA MeetPredsType ==
  ASSUME NEW p, WellFormed(p), NEW B, NEW out \in [TInsts(p) -> Values(p)],
         NEW k \in 0 .. Len(p.inst)
  PROVE  MeetPreds(p, B, out)[k] \in Values(p)
<1> DEFINE Last == Len(p.inst)
<1> DEFINE F == MeetPreds(p, B, out)
<1> DEFINE Bad == {n \in 0 .. Last : F[n] \notin Values(p)}
<1>1. Last \in Nat /\ TInsts(p) = 1 .. Last
  BY Zenon DEF WellFormed
<1>2. /\ F[0] = top(p)
      /\ \A n \in 1 .. Last : F[n] = MeetStep(p, B, out, n, F[n - 1])
  BY <1>1, MeetPredsStep, Zenon
<1> HIDE DEF F
<1> SUFFICES ASSUME Bad # {} PROVE FALSE
  BY Zenon DEF F
<1>3. Bad \subseteq Nat
  BY <1>1
<1> HIDE DEF Bad
<1>4. PICK n \in Bad : \A m \in Bad : <<m, n>> \notin OpToRel(<, Nat)
  BY <1>3, NatLessThanWellFounded, WFMin, Zenon
<1>5. n \in 0 .. Last /\ F[n] \notin Values(p)
  BY Zenon DEF Bad
<1>6. n # 0
  BY <1>2, <1>5, TopType, Zenon
<1>7. n \in 1 .. Last /\ n \in Nat /\ n - 1 \in 0 .. Last /\ n - 1 \in Nat /\ n - 1 < n
  BY <1>1, <1>5, <1>6
<1>8. n - 1 \notin Bad
  BY <1>4, <1>7, Zenon DEF OpToRel
<1>9. F[n - 1] \in Values(p)
  BY <1>7, <1>8, Zenon DEF Bad
<1>10. out[n] \in Values(p)
  BY <1>1, <1>7, Zenon
<1>11. MeetStep(p, B, out, n, F[n - 1]) \in Values(p)
  BY <1>9, <1>10, MeetType, Zenon DEF MeetStep
<1> QED
  BY <1>2, <1>5, <1>7, <1>11, Zenon

\* Once the value of one predecessor that covers an execution has been met,
\* the result covers the execution, whatever the others are.
LEMMA MeetPredsCovers ==
  ASSUME NEW p, WellFormed(p), NEW B, NEW out \in [TInsts(p) -> Values(p)], NEW R, NEW C,
         \A P, Q \in Pointers(p) : AA(p, P, Q) = "Must" => (P \in C <=> Q \in C),
         NEW I \in TTerminators(p, B), R \subseteq out[I].insts, out[I].stores \subseteq C
  PROVE  /\ R \subseteq MeetPreds(p, B, out)[Len(p.inst)].insts
         /\ MeetPreds(p, B, out)[Len(p.inst)].stores \subseteq C
<1> DEFINE Last == Len(p.inst)
<1> DEFINE F == MeetPreds(p, B, out)
<1> DEFINE Good(v) == R \subseteq v.insts /\ v.stores \subseteq C
<1> DEFINE Bad == {n \in I .. Last : ~Good(F[n])}
<1>1. Last \in Nat /\ TInsts(p) = 1 .. Last
  BY Zenon DEF WellFormed
<1>2. I \in 1 .. Last
  BY <1>1, Zenon DEF TTerminators
<1>3. \A n \in 1 .. Last : F[n] = MeetStep(p, B, out, n, F[n - 1])
  BY <1>1, MeetPredsStep, Zenon
<1>4. \A n \in 0 .. Last : F[n] \in Values(p)
  BY MeetPredsType, Zenon
<1> HIDE DEF F
<1>a. Last \in I .. Last
  BY <1>1, <1>2
<1> SUFFICES ASSUME Bad # {} PROVE FALSE
  BY <1>a, Zenon DEF F
<1>5. Bad \subseteq Nat
  BY <1>1, <1>2
<1> HIDE DEF Bad
<1>6. PICK n \in Bad : \A m \in Bad : <<m, n>> \notin OpToRel(<, Nat)
  BY <1>5, NatLessThanWellFounded, WFMin, Zenon
<1>7. n \in I .. Last /\ ~Good(F[n])
  BY Zenon DEF Bad
<1>8. /\ n \in 1 .. Last /\ n \in Nat /\ n - 1 \in 0 .. Last /\ n - 1 \in Nat /\ n - 1 < n
      /\ n # I => n - 1 \in I .. Last
  BY <1>1, <1>2, <1>7
<1>9. F[n - 1] \in Values(p) /\ out[n] \in Values(p)
  BY <1>1, <1>4, <1>8, Zenon
<1>10. n = I \/ Good(F[n - 1])
  <2>1. n - 1 \notin Bad
    BY <1>6, <1>8, Zenon DEF OpToRel
  <2> QED
    BY <1>8, <2>1, Zenon DEF Bad
<1>11. n \in TTerminators(p, B) => Good(meet(p, F[n - 1], out[n]))
  BY <1>9, <1>10, MeetCovers, Zenon
<1>12. Good(MeetStep(p, B, out, n, F[n - 1]))
  BY <1>10, <1>11, Zenon DEF MeetStep
<1> QED
  BY <1>3, <1>7, <1>8, <1>12, Zenon

\* The front of a block is its first instruction.
LEMMA FrontOf ==
  ASSUME NEW p, WellFormed(p), NEW B, \E I \in TInsts(p) : p.block[I] = B
  PROVE  /\ TFront(p, B) \in TInsts(p) /\ p.block[TFront(p, B)] = B
         /\ \A J \in 1 .. TFront(p, B) - 1 : p.block[J] # B
<1> DEFINE In == {I \in TInsts(p) : p.block[I] = B}
<1>1. TInsts(p) = 1 .. Len(p.inst) /\ Len(p.inst) \in Nat
  BY Zenon DEF WellFormed
<1>2. In \subseteq Nat /\ In # {}
  BY <1>1
<1> HIDE DEF In
<1>3. PICK I \in In : \A J \in In : <<J, I>> \notin OpToRel(<, Nat)
  BY <1>2, NatLessThanWellFounded, WFMin, Zenon
<1>4. I \in 1 .. Len(p.inst) /\ p.block[I] = B
  BY <1>1, Zenon DEF In
<1>5. ASSUME NEW J \in 1 .. I - 1
      PROVE  p.block[J] # B
  <2>1. J \in TInsts(p) /\ J \in Nat /\ I \in Nat /\ J < I
    BY <1>1, <1>4
  <2>2. J \notin In
    BY <1>3, <2>1, Zenon DEF OpToRel
  <2> QED
    BY <2>1, <2>2, Zenon DEF In
<1>6. \E K \in TInsts(p) : p.block[K] = B /\ \A J \in 1 .. K - 1 : p.block[J] # B
  BY <1>1, <1>4, <1>5, Zenon
<1> QED
  BY <1>6, Zenon DEF TFront

\* transfer keeps to the instructions and the pointers of the function
\* (attacker-taint.cc:137-228).
LEMMA TransferType ==
  ASSUME NEW p, WellFormed(p), NEW I \in TInsts(p), NEW in \in Values(p)
  PROVE  transfer(p, I, in) \in Values(p)
<1> DEFINE instr == p.inst[I]
<1> DEFINE stores == CASE instr.op = "store" -> TransferStore(p, instr, in)
                       [] instr.op = "call" /\ ~OnlyLocalStores(instr.callee) -> {}
                       [] OTHER -> in.stores
<1>1. in.stores \subseteq Pointers(p) /\ in.insts \subseteq TInsts(p)
  BY Zenon DEF Values
<1>a. instr.op = "store" => instr.ptr \in Pointers(p)
  BY DEF WellFormed
<1>2. instr.op = "store" => TransferStore(p, instr, in) \subseteq Pointers(p)
  BY <1>1, <1>a, Zenon DEF TransferStore
<1>3. stores \subseteq Pointers(p)
  BY <1>1, <1>2, Zenon
<1>4. p.annotated \subseteq Pointers(p)
  BY Zenon DEF WellFormed
<1>5. /\ transfer(p, I, in).insts \subseteq TInsts(p)
      /\ transfer(p, I, in) = [insts  |-> transfer(p, I, in).insts,
                               stores |-> stores \cup p.annotated]
  BY <1>1, Zenon DEF transfer
<1> HIDE DEF stores
<1> QED
  BY <1>3, <1>4, <1>5 DEF Values

\* So does the value a sweep finds before an instruction.
LEMMA NewInType ==
  ASSUME NEW p, WellFormed(p), NEW I \in TInsts(p),
         NEW in \in [TInsts(p) -> Values(p)], NEW out \in [TInsts(p) -> Values(p)]
  PROVE  NewIn(p, I, in, out) \in Values(p)
<1>1. TInsts(p) = 1 .. Len(p.inst) /\ Len(p.inst) \in Nat \ {0}
  BY Zenon DEF WellFormed
<1>2. MeetPreds(p, p.block[I], out)[Len(p.inst)] \in Values(p)
  BY <1>1, MeetPredsType
<1>3. I # 1 => I - 1 \in TInsts(p)
  BY <1>1
<1>4. I # 1 => I > 1
  BY <1>1
<1> QED
  BY <1>1, <1>2, <1>3, <1>4, Zenon DEF NewIn

\* The initial values satisfy the invariant (attacker-taint.cc:281-303).
LEMMA TaintInitInv == TaintInit => TaintInv
<1> SUFFICES ASSUME TaintInit PROVE TaintInv
  BY Zenon
<1>1. WellFormed(fn)
  BY TaintAssumption, Zenon DEF TaintInit
<1>2. 1 \in TInsts(fn) /\ \A J \in TInsts(fn) : ~(J < 1)
  BY <1>1 DEF WellFormed
<1>3. top(fn) \in Values(fn) /\ Unknown \in Values(fn)
  BY <1>1, TopType, Zenon
<1>4. /\ ins \in [TInsts(fn) -> Values(fn)] /\ outs \in [TInsts(fn) -> Values(fn)]
      /\ ins[1] = Unknown
  BY <1>2, <1>3, Zenon DEF TaintInit
<1> QED
  BY <1>2, <1>4, Zenon DEF TaintInit, TaintInv

\* Visiting an instruction keeps the invariant: when nothing has changed, the
\* values are those the equations give (attacker-taint.cc:354-391).
LEMMA VisitInv == TaintInv /\ VisitInst => TaintInv'
<1> SUFFICES ASSUME TaintInv, VisitInst PROVE TaintInv'
  BY Zenon
<1> DEFINE newIn == NewIn(fn, at, ins, outs)
<1> DEFINE newOut == transfer(fn, at, newIn)
<1>1. /\ WellFormed(fn) /\ fn \in Functions /\ tpc = "sweep" /\ at \in TInsts(fn) /\ at \in Nat
      /\ ins \in [TInsts(fn) -> Values(fn)] /\ outs \in [TInsts(fn) -> Values(fn)]
      /\ ins[1] = Unknown
  BY TaintAssumption, Zenon DEF TaintInv, VisitInst
<1>2. newIn \in Values(fn) /\ newOut \in Values(fn)
  BY <1>1, NewInType, TransferType, Zenon
<1>3. /\ ins' = [ins EXCEPT ![at] = newIn] /\ outs' = [outs EXCEPT ![at] = newOut] /\ at' = at + 1
      /\ changed' = (changed \/ newIn # ins[at] \/ newOut # outs[at])
      /\ fn' = fn /\ tpc' = tpc
  BY Zenon DEF VisitInst
<1>4. at = 1 => newIn = Unknown
  BY <1>1 DEF NewIn
<1>5. changed \in BOOLEAN
  BY Zenon DEF TaintInv
<1>6. ~changed => \A J \in TInsts(fn) : J < at => Solved(J)
  BY <1>1, Zenon DEF TaintInv
<1>7. ASSUME ~changed'
      PROVE  ~changed /\ newIn = ins[at] /\ newOut = outs[at]
  BY <1>3, <1>7, Zenon
<1> HIDE DEF newIn, newOut
<1>8. /\ ins' \in [TInsts(fn) -> Values(fn)] /\ outs' \in [TInsts(fn) -> Values(fn)]
      /\ ins'[1] = Unknown
  BY <1>1, <1>2, <1>3, <1>4
<1>9. ASSUME ~changed', NEW J \in TInsts(fn), J < at + 1
      PROVE  Solved(J)'
  <2>1. ~changed /\ newIn = ins[at] /\ newOut = outs[at]
    BY <1>7, <1>9, Zenon
  <2>2. ins' = ins /\ outs' = outs
    BY <1>1, <1>3, <2>1, Zenon
  <2>3. Solved(J)
    <3>1. CASE J = at
      BY <2>1, <3>1, Zenon DEF Solved, newIn, newOut
    <3>2. CASE J # at
      <4>1. J < at
        BY <1>1, <1>9, <3>2 DEF WellFormed
      <4> QED
        BY <1>6, <2>1, <4>1, Zenon
    <3> QED
      BY <3>1, <3>2, Zenon
  <2> QED
    BY <1>3, <2>2, <2>3, Zenon DEF Solved
<1>10. changed' \in BOOLEAN
  BY <1>3, <1>5, Zenon
<1>11. at' \in Nat /\ fn' \in Functions /\ tpc' = "sweep"
  BY <1>1, <1>3
<1> QED
  BY <1>3, <1>8, <1>9, <1>10, <1>11, Zenon DEF TaintInv

\* So does the end of a sweep, whether there is another one or not: the values
\* of a sweep without a change solve the equations (attacker-taint.cc:351-393).
LEMMA SweepEndInv == TaintInv /\ (Again \/ Finish) => TaintInv'
<1> SUFFICES ASSUME TaintInv, Again \/ Finish PROVE TaintInv'
  BY Zenon
<1>1. /\ WellFormed(fn) /\ fn \in Functions /\ tpc = "sweep" /\ at = Len(fn.inst) + 1
      /\ ins \in [TInsts(fn) -> Values(fn)] /\ outs \in [TInsts(fn) -> Values(fn)]
      /\ ins[1] = Unknown
      /\ fn' = fn /\ ins' = ins /\ outs' = outs
  BY TaintAssumption, Zenon DEF TaintInv, Again, Finish
<1>2. TInsts(fn) = 1 .. Len(fn.inst) /\ Len(fn.inst) \in Nat
  BY <1>1, Zenon DEF WellFormed
<1>3. CASE Again
  <2>1. \A J \in TInsts(fn) : ~(J < 1)
    BY <1>2
  <2> QED
    BY <1>1, <1>3, <2>1, Zenon DEF Again, TaintInv
<1>4. CASE Finish
  <2>1. \A J \in TInsts(fn) : J < at
    BY <1>1, <1>2
  <2>2. \A J \in TInsts(fn) : Solved(J)
    BY <1>1, <1>4, <2>1, Zenon DEF Finish, TaintInv
  <2>3. \A J \in TInsts(fn) : Solved(J)'
    BY <1>1, <2>2, Zenon DEF Solved
  <2>4. /\ results' = {I \in TInsts(fn) : I \in outs[I].insts} /\ tpc' = "done"
        /\ at' = at /\ at \in Nat /\ changed' = changed /\ changed \in BOOLEAN
    BY <1>4, Zenon DEF Finish, TaintInv
  <2> QED
    BY <1>1, <2>3, <2>4, Zenon DEF TaintInv
<1> QED
  BY <1>3, <1>4, Zenon

\* Dominance is a strict order (Dominance).
LEMMA DominanceOrder ==
  ASSUME NEW p, WellFormed(p)
  PROVE  /\ \A I : ~Dominates(p, I, I) /\ ~Dominates(p, I, 1)
         /\ \A I, J, K : Dominates(p, I, J) /\ Dominates(p, J, K) => Dominates(p, I, K)
         /\ \A I, J : Dominates(p, I, J) => I \in TInsts(p) /\ J \in TInsts(p)
<1>1. \A I, J : Dominates(p, I, J) => I \in TInsts(p) /\ J \in TInsts(p)
  BY Zenon DEF Dominates
<1>2. Dominance(p)
  BY Zenon DEF WellFormed
<1> QED
  BY <1>1, <1>2, Zenon DEF Dominance

\* What dominates the next instruction is or dominates the one before it.
LEMMA DominanceNext ==
  ASSUME NEW p, WellFormed(p), NEW I \in TInsts(p), NEW J \in Following(p, I),
         NEW P, Dominates(p, P, J)
  PROVE  P = I \/ Dominates(p, P, I)
<1>1. P \in TInsts(p)
  BY DominanceOrder, Zenon
<1>2. Dominance(p)
  BY Zenon DEF WellFormed
<1> QED
  BY <1>1, <1>2, Zenon DEF Dominance

\* Among instructions there is one that no other dominates: a last one that
\* spoilt this would itself be that one.
LEMMA Topmost ==
  ASSUME NEW p, WellFormed(p), NEW L \in SUBSET TInsts(p), L # {}
  PROVE  \E P \in L : \A Q \in L : ~Dominates(p, Q, P)
<1> DEFINE Top(M) == \E P \in M : \A Q \in M : ~Dominates(p, Q, P)
<1> DEFINE Bad == {k \in Nat : \E M \in SUBSET (1 .. k) : M # {} /\ ~Top(M)}
<1>1. TInsts(p) = 1 .. Len(p.inst) /\ Len(p.inst) \in Nat
  BY Zenon DEF WellFormed
<1> SUFFICES ASSUME Bad # {} PROVE FALSE
  BY <1>1, Zenon
<1> HIDE DEF Top
<1>a. Bad \subseteq Nat
  BY Zenon
<1> HIDE DEF Bad
<1>2. PICK k \in Bad : \A m \in Bad : ~(<<m, k>> \in OpToRel(<, Nat))
  BY <1>a, NatLessThanWellFounded, WFMin, Zenon
<1>3. k \in Nat
  BY <1>a, Zenon
<1>4. PICK M \in SUBSET (1 .. k) : M # {} /\ ~Top(M)
  BY <1>2, Zenon DEF Bad
<1>5. k # 0
  <2>1. 1 .. 0 = {}
    OBVIOUS
  <2> QED
    BY <1>4, <2>1, Zenon
<1>6. k - 1 \in Nat /\ k - 1 < k /\ M \ {k} \in SUBSET (1 .. k - 1)
  BY <1>3, <1>4, <1>5
<1>7. k - 1 \notin Bad
  BY <1>2, <1>3, <1>6, Zenon DEF OpToRel
<1>8. M \ {k} = {} \/ Top(M \ {k})
  BY <1>6, <1>7, Zenon DEF Bad
<1>9. CASE M \ {k} = {}
  <2>1. k \in M /\ \A Q \in M : Q = k
    BY <1>4, <1>9, Zenon
  <2>2. \A Q \in M : ~Dominates(p, Q, k)
    <3>1. ~Dominates(p, k, k)
      BY DominanceOrder, Zenon
    <3> QED
      BY <2>1, <3>1, Zenon
  <2> QED
    BY <1>4, <2>1, <2>2, Zenon DEF Top
<1>10. CASE Top(M \ {k})
  <2>1. PICK m \in M \ {k} : \A Q \in M \ {k} : ~Dominates(p, Q, m)
    BY <1>10, Zenon DEF Top
  <2>2. CASE ~Dominates(p, k, m) \/ k \notin M
    BY <1>4, <2>1, <2>2, Zenon DEF Top
  <2>3. CASE Dominates(p, k, m) /\ k \in M
    <3>1. \A Q \in M : ~Dominates(p, Q, k)
      BY <2>1, <2>3, DominanceOrder, Zenon
    <3> QED
      BY <1>4, <2>3, <3>1, Zenon DEF Top
  <2> QED
    BY <2>2, <2>3, Zenon
<1> QED
  BY <1>8, <1>9, <1>10, Zenon

\* Being tied is an equivalence, and what must alias is tied.
LEMMA TiedFacts ==
  ASSUME NEW p
  PROVE  /\ \A S : Tied(p, S, S)
         /\ \A S, V : Tied(p, S, V) => Tied(p, V, S)
         /\ \A S, V, W : Tied(p, S, V) /\ Tied(p, V, W) => Tied(p, S, W)
         /\ \A S, V \in Pointers(p) : AA(p, S, V) = "Must" => Tied(p, S, V)
<1>1. \A S, V \in Pointers(p) : AA(p, S, V) = "Must" => Tied(p, S, V)
  BY Zenon DEF Tied, Places
<1> QED
  BY <1>1, Zenon DEF Tied

\* So what is held, and what is marked, of a pointer is so of one tied to it.
LEMMA TiedShare ==
  ASSUME NEW p, NEW in, NEW S, NEW V, Tied(p, S, V)
  PROVE  /\ \A P : Held(p, in, P, S) <=> Held(p, in, P, V)
         /\ Marked(p, S) <=> Marked(p, V)
<1>1. \A W : Tied(p, S, W) <=> Tied(p, V, W)
  BY TiedFacts, Zenon
<1> QED
  BY <1>1, Zenon DEF Held, Marked

\* The pointers that are alive after I.
After(p, A, I) == IF I \in Pointers(p) THEN Standing(p, A, I) \cup {I} ELSE A

\* The dominators of what comes next are alive after I.
LEMMA LivesNext ==
  ASSUME NEW p, WellFormed(p), NEW A, NEW I \in TInsts(p), Lives(p, A, I),
         NEW J \in Following(p, I)
  PROVE  Lives(p, After(p, A, I), J)
<1> DEFINE A1 == After(p, A, I)
<1>1. A \subseteq Pointers(p) /\ Pointers(p) \cap {PtrArg} \subseteq A
  BY Zenon DEF Lives
<1>2. ASSUME NEW Q \in A, ~Dominates(p, I, Q)
      PROVE  Q \in A1
  BY <1>2, Zenon DEF After, Standing
<1>3. A1 \subseteq A \cup {I} /\ (I \in Pointers(p) => I \in A1) /\ (I \notin Pointers(p) => A1 = A)
  BY Zenon DEF After, Standing
<1>4. A1 \subseteq Pointers(p)
  BY <1>1, <1>3, Zenon
<1>5. Pointers(p) \cap {PtrArg} \subseteq A1
  <2>1. ~Dominates(p, I, PtrArg)
    <3>1. PtrArg \notin TInsts(p)
      BY DEF WellFormed, PtrArg
    <3> QED
      BY <3>1, DominanceOrder, Zenon
  <2> QED
    BY <1>1, <1>2, <2>1, Zenon
<1>6. ASSUME NEW P \in Pointers(p), Dominates(p, P, I)
      PROVE  P \in A1
  <2>1. P \in A
    BY <1>6, Zenon DEF Lives
  <2>2. ~Dominates(p, I, P)
    BY <1>6, DominanceOrder, Zenon
  <2> QED
    BY <1>2, <2>1, <2>2, Zenon
<1>7. ASSUME NEW P \in Pointers(p), Dominates(p, P, J)
      PROVE  P \in A1
  <2>1. P = I \/ Dominates(p, P, I)
    BY <1>7, DominanceNext, Zenon
  <2> QED
    BY <1>3, <1>6, <2>1, Zenon
<1>8. ASSUME NEW P \in Pointers(p), NEW Q \in A1, Dominates(p, P, Q)
      PROVE  P \in A1
  <2>1. CASE Q = I
    BY <1>6, <1>8, <2>1, Zenon
  <2>2. CASE Q # I
    <3>1. Q \in A
      BY <1>3, <2>2, Zenon
    <3>2. P \in A
      BY <1>8, <3>1, Zenon DEF Lives
    <3>3. CASE I \notin Pointers(p)
      BY <1>3, <3>2, <3>3, Zenon
    <3>4. CASE I \in Pointers(p)
      <4>1. ~Dominates(p, I, Q)
        BY <2>2, <3>4, Zenon DEF After, Standing
      <4>2. ~Dominates(p, I, P)
        BY <1>8, <4>1, DominanceOrder, Zenon
      <4> QED
        BY <1>2, <3>2, <4>2, Zenon
    <3> QED
      BY <3>3, <3>4, Zenon
  <2> QED
    BY <2>1, <2>2, Zenon
<1> HIDE DEF A1
<1>9. Lives(p, A1, J)
  BY <1>4, <1>5, <1>7, <1>8, Zenon DEF Lives
<1> QED
  BY <1>9, Zenon DEF A1

\* Computing I again leaves an anchor of I, or of what dominates I, alone.
LEMMA AnchorStands ==
  ASSUME NEW p, WellFormed(p), NEW in, NEW A, NEW I \in TInsts(p), Lives(p, A, I),
         NEW n \in TInsts(p), n = I \/ (n \in A /\ Dominates(p, n, I)),
         NEW S \in in[n].stores, NEW V, Anchor(p, in, A, n, S, V)
  PROVE  /\ I \in Pointers(p) => V \in Standing(p, A, I)
         /\ Anchor(p, in, After(p, A, I), n, S, V)
<1>1. /\ V \in A /\ Tied(p, S, V)
      /\ \A P \in A : ~Dominates(p, P, n) /\ Held(p, in, P, S) => V # P /\ ~Dominates(p, P, V)
  BY Zenon DEF Anchor
<1>2. Held(p, in, n, S)
  BY TiedFacts, Zenon DEF Held
<1>3. ASSUME I \in Pointers(p)
      PROVE  V # I /\ ~Dominates(p, I, V)
  <2>1. CASE n = I /\ I \in A
    BY <1>1, <1>2, <2>1, DominanceOrder, Zenon
  <2>2. CASE n = I /\ I \notin A
    BY <1>1, <1>3, <2>2, Zenon DEF Lives
  <2>3. CASE n \in A /\ Dominates(p, n, I)
    <3>1. ~Dominates(p, n, V)
      BY <1>1, <1>2, <2>3, DominanceOrder, Zenon
    <3> QED
      BY <2>3, <3>1, DominanceOrder, Zenon
  <2> QED
    BY <2>1, <2>2, <2>3, Zenon
<1>4. I \in Pointers(p) => V \in Standing(p, A, I)
  BY <1>1, <1>3, Zenon DEF Standing
<1>5. V \in After(p, A, I)
  BY <1>1, <1>4, Zenon DEF After
<1>6. \A P \in After(p, A, I) : P \in A \/ (P = I /\ I \in Pointers(p))
  BY Zenon DEF After, Standing
<1> QED
  BY <1>1, <1>3, <1>4, <1>5, <1>6, Zenon DEF Anchor

\* The facts before the next instruction have anchors.  Where a way out of the
\* region that P dominates leads there, the anchor is that of the topmost such
\* P: the fact was there already when P was computed.
LEMMA AnchoredNext ==
  ASSUME NEW p, WellFormed(p), NEW in, NEW A, NEW I \in TInsts(p), NEW J \in Following(p, I),
         Anchored(p, in, A, I),
         \A P \in A : P = I \/ Dominates(p, P, I) => Anchored(p, in, A, P),
         NEW S, ~Marked(p, S), \E W \in in[I].stores : Tied(p, S, W)
  PROVE  \E V \in A : Anchor(p, in, A, J, S, V)
<1> DEFINE Left == {P \in A : /\ ~Dominates(p, P, J) /\ Held(p, in, P, S)
                              /\ P = I \/ Dominates(p, P, I)}
<1>1. CASE Left = {}
  <2>1. PICK W \in in[I].stores : Tied(p, S, W)
    BY Zenon
  <2>2. ~Marked(p, W) /\ \A P : Held(p, in, P, S) <=> Held(p, in, P, W)
    BY <2>1, TiedShare, Zenon
  <2>3. PICK V \in A : Anchor(p, in, A, I, W, V)
    BY <2>1, <2>2, Zenon DEF Anchored
  <2>4. Tied(p, S, V)
    BY <2>1, <2>3, TiedFacts, Zenon DEF Anchor
  <2>5. ASSUME NEW P \in A, ~Dominates(p, P, J), Held(p, in, P, S)
        PROVE  V # P /\ ~Dominates(p, P, V)
    <3>1. ~Dominates(p, P, I)
      BY <1>1, <2>5, Zenon
    <3> QED
      BY <2>2, <2>3, <2>5, <3>1, Zenon DEF Anchor
  <2> QED
    BY <2>4, <2>5, Zenon DEF Anchor
<1>2. CASE Left # {}
  <2>1. Left \in SUBSET TInsts(p)
    BY Zenon DEF Held
  <2>2. PICK P0 \in Left : \A Q \in Left : ~Dominates(p, Q, P0)
    BY <1>2, <2>1, Topmost, Zenon
  <2>3. PICK W \in in[P0].stores : Tied(p, S, W)
    BY <2>2, Zenon DEF Held
  <2>4. ~Marked(p, W) /\ \A P : Held(p, in, P, S) <=> Held(p, in, P, W)
    BY <2>3, TiedShare, Zenon
  <2>5. Anchored(p, in, A, P0)
    BY <2>2, Zenon
  <2>6. PICK V \in A : Anchor(p, in, A, P0, W, V)
    BY <2>3, <2>4, <2>5, Zenon DEF Anchored
  <2>7. Tied(p, S, V)
    BY <2>3, <2>6, TiedFacts, Zenon DEF Anchor
  <2>8. ASSUME NEW P \in A, ~Dominates(p, P, J), Held(p, in, P, S)
        PROVE  V # P /\ ~Dominates(p, P, V)
    <3>1. ~Dominates(p, P, P0)
      <4>1. SUFFICES ASSUME Dominates(p, P, P0) PROVE FALSE
        BY Zenon
      <4>2. Dominates(p, P, I)
        BY <2>2, <4>1, DominanceOrder, Zenon
      <4> QED
        BY <2>2, <2>8, <4>1, <4>2, Zenon
    <3> QED
      BY <2>4, <2>6, <2>8, <3>1, Zenon DEF Anchor
  <2> QED
    BY <2>7, <2>8, Zenon DEF Anchor
<1> QED
  BY <1>1, <1>2, Zenon

\* The fact that a store adds has the pointer of the store for its anchor: a
\* store stays in its block, and so in every region that it is in.
LEMMA AnchoredStore ==
  ASSUME NEW p, WellFormed(p), NEW in, NEW A, NEW I \in TInsts(p), p.inst[I].op = "store",
         NEW J \in Following(p, I), Lives(p, A, J)
  PROVE  \E V \in A : Anchor(p, in, A, J, p.inst[I].ptr, V)
<1> DEFINE X == p.inst[I].ptr
<1>1. /\ X \in Pointers(p) /\ (X = PtrArg \/ Dominates(p, X, I))
      /\ I + 1 \in TInsts(p) /\ p.block[I + 1] = p.block[I]
      /\ TInsts(p) = 1 .. Len(p.inst) /\ Len(p.inst) \in Nat
  BY Zenon DEF WellFormed
<1>2. J = I + 1 /\ I < I + 1
  BY <1>1 DEF Following
<1>3. Dominates(p, I, J)
  BY <1>1, <1>2, Zenon DEF Dominates
<1>4. X = PtrArg \/ Dominates(p, X, J)
  BY <1>1, <1>3, DominanceOrder, Zenon
<1>5. X \in A
  BY <1>1, <1>4, Zenon DEF Lives
<1>6. PtrArg \notin TInsts(p)
  BY <1>1 DEF PtrArg
<1> HIDE DEF X
<1>7. ASSUME NEW P \in A, ~Dominates(p, P, J), Held(p, in, P, X)
      PROVE  X # P /\ ~Dominates(p, P, X)
  <2>1. P \in TInsts(p)
    BY <1>7, Zenon DEF Held
  <2>2. CASE X = PtrArg
    BY <1>6, <2>1, <2>2, DominanceOrder, Zenon
  <2>3. CASE Dominates(p, X, J)
    BY <1>7, <2>3, DominanceOrder, Zenon
  <2> QED
    BY <1>4, <2>2, <2>3, Zenon
<1>8. Anchor(p, in, A, J, X, X)
  BY <1>5, <1>7, TiedFacts, Zenon DEF Anchor
<1> QED
  BY <1>5, <1>8, Zenon DEF X

\* transfer adds the pointer of a store and the annotated ones, and no other
\* (attacker-taint.cc:137-228).
LEMMA TransferAdds ==
  ASSUME NEW p, NEW I, NEW v, NEW P \in transfer(p, I, v).stores
  PROVE  \/ P \in v.stores \/ P \in p.annotated
         \/ p.inst[I].op = "store" /\ P = p.inst[I].ptr
<1> DEFINE instr == p.inst[I]
<1> DEFINE stores == CASE instr.op = "store" -> TransferStore(p, instr, v)
                       [] instr.op = "call" /\ ~OnlyLocalStores(instr.callee) -> {}
                       [] OTHER -> v.stores
<1>1. P \in stores \/ P \in p.annotated
  BY Zenon DEF transfer
<1>2. ASSUME instr.op = "store", P \in TransferStore(p, instr, v)
      PROVE  P \in v.stores \/ P = instr.ptr
  BY <1>2, Zenon DEF TransferStore
<1>3. CASE instr.op = "store"
  BY <1>1, <1>2, <1>3, Zenon
<1>4. CASE instr.op # "store"
  BY <1>1, <1>4, Zenon
<1> QED
  BY <1>3, <1>4, Zenon

\* An execution starts with nothing controlled but memory, as Unknown says of
\* the first instruction (attacker-taint.cc:299-303).
LEMMA EnterInv == TaintInv /\ Enter => TaintInv'
<1> SUFFICES ASSUME TaintInv, Enter PROVE TaintInv'
  BY Zenon
<1>1. /\ WellFormed(fn) /\ fn \in Functions /\ tpc = "done" /\ tpc' = "run"
      /\ ins \in [TInsts(fn) -> Values(fn)] /\ outs \in [TInsts(fn) -> Values(fn)]
      /\ ins[1] = Unknown
      /\ at \in Nat /\ changed \in BOOLEAN
      /\ results = {I \in TInsts(fn) : I \in outs[I].insts}
      /\ \A J \in TInsts(fn) : Solved(J)
  BY TaintAssumption, Zenon DEF TaintInv, Enter
<1>2. /\ fn' = fn /\ ins' = ins /\ outs' = outs /\ at' = at
      /\ changed' = changed /\ results' = results /\ hidden' = FALSE
      /\ place' \in Places(fn) /\ ip' = 1 /\ regs' = {} /\ alive' = Pointers(fn) \cap {PtrArg}
  BY Zenon DEF Enter
<1>3. \A J \in TInsts(fn) : Solved(J)'
  BY <1>1, <1>2, Zenon DEF Solved
<1>4. 1 \in TInsts(fn) /\ PtrArg \notin TInsts(fn)
  BY <1>1 DEF WellFormed, PtrArg
<1>5. Unknown.stores = {} /\ Unknown.insts = {}
  BY DEF Unknown
<1>6. \A P : ~Dominates(fn, P, 1) /\ ~Dominates(fn, P, PtrArg)
  BY <1>1, <1>4, DominanceOrder, Zenon
<1>7. Lives(fn, alive', 1)
  BY <1>2, <1>6, Zenon DEF Lives
<1>8. Anchored(fn, ins, alive', 1)
  BY <1>1, <1>5, Zenon DEF Anchored
<1>9. CoversRun(ins[ip], regs, place, memory)'
  BY <1>1, <1>2, <1>5, Zenon DEF CoversRun
<1>10. RunInv'
  BY <1>2, <1>6, <1>7, <1>8, <1>9, Zenon DEF RunInv
<1> QED
  BY <1>1, <1>2, <1>3, <1>4, <1>10, Zenon DEF TaintInv

\* One instruction of an execution: what is controlled after it is covered by
\* what transfer makes of a value that covers what is controlled before it
\* (attacker-taint.cc:137-228), if the places of that value stand.
LEMMA TransferCovers ==
  ASSUME WellFormed(fn), place \in Places(fn), ip \in TInsts(fn),
         NEW v \in Values(fn), NEW w, w = transfer(fn, ip, v),
         CoversRun(v, regs, place, memory), Execute, ~hidden',
         \A S \in v.stores : place'[S] = place[S] \/ place'[S] \in Safe(fn, place')
  PROVE  /\ CoversRun(w, regs', place', memory')
         /\ regs' \subseteq regs \cup {I \in {ip} : I \in w.insts}
<1> DEFINE instr == fn.inst[ip]
<1>1. /\ regs' = IF Hot(instr) THEN regs \cup {ip} ELSE regs \ {ip}
      /\ memory' = MemoryAfter(instr) \ Safe(fn, place') /\ fn' = fn
      /\ ~(instr.op = "call" /\ OnlyLocalStores(instr.callee) /\ WritesMemory(instr.callee))
  BY Zenon DEF Execute
<1>2. ASSUME NEW V, IsControlled(V)
      PROVE  in_taint(V, v)
  BY <1>2, Zenon DEF IsControlled, in_taint, CoversRun
<1>3. \A P, Q \in Pointers(fn) : /\ AA(fn, P, Q) = "Must" => place[P] = place[Q]
                                 /\ alias(fn, P, Q) = "No" => place[P] # place[Q]
  BY Zenon DEF Places
<1>4. v.stores \subseteq Pointers(fn)
  BY Zenon DEF Values
<1>5. instr.op \in {"load", "store"} => instr.ptr \in Pointers(fn)
  BY Zenon DEF WellFormed
<1>6. ASSUME Hot(instr)
      PROVE  TaintedBy(fn, instr, v)
  <2>1. CASE instr.op = "load"
    <3>1. place[instr.ptr] \in memory
      BY <1>6, <2>1, Zenon DEF Hot
    <3>2. \A S \in v.stores : AA(fn, instr.ptr, S) # "Must"
      BY <1>3, <1>4, <1>5, <2>1, <3>1, Zenon DEF CoversRun
    <3> QED
      BY <2>1, <3>2, Zenon DEF TaintedBy
  <2>2. CASE instr.op # "load"
    BY <1>2, <1>6, <2>2, Zenon DEF Hot, TaintedBy
  <2> QED
    BY <2>1, <2>2, Zenon
<1>7. w.insts = IF TaintedBy(fn, instr, v) THEN v.insts \cup {ip} ELSE v.insts
  BY Zenon DEF transfer
<1>8. /\ regs' \subseteq w.insts
      /\ regs' \subseteq regs \cup {I \in {ip} : I \in w.insts}
  BY <1>1, <1>6, <1>7, Zenon DEF CoversRun
<1>9. ASSUME NEW P \in w.stores
      PROVE  place'[P] \notin memory'
  <2> DEFINE stores == CASE instr.op = "store" -> TransferStore(fn, instr, v)
                         [] instr.op = "call" /\ ~OnlyLocalStores(instr.callee) -> {}
                         [] OTHER -> v.stores
  <2>1. P \in stores \/ P \in fn.annotated
    BY Zenon DEF transfer
  <2>2. CASE P \in fn.annotated
    BY <1>1, <2>2, Zenon DEF Safe
  <2>3. CASE P \in stores /\ instr.op = "store"
    <3>1. P \in TransferStore(fn, instr, v)
      BY <2>3, Zenon
    <3>2. MemoryAfter(instr) = IF IsControlled(instr.val) THEN memory \cup {place[instr.ptr]}
                                                          ELSE memory \ {place[instr.ptr]}
      BY <2>3, Zenon DEF MemoryAfter
    <3>3. place' = place
      <4>1. ip \notin Pointers(fn)
        BY <2>3, Zenon DEF WellFormed
      <4> QED
        BY <4>1, Zenon DEF Execute, Compute
    <3>4. CASE in_taint(instr.val, v)
      <4>1. P \in v.stores /\ alias(fn, instr.ptr, P) = "No"
        BY <3>1, <3>4, Zenon DEF TransferStore
      <4>2. place[instr.ptr] # place[P] /\ place[P] \notin memory
        BY <1>3, <1>4, <1>5, <2>3, <4>1, Zenon DEF CoversRun
      <4> QED
        BY <1>1, <3>2, <3>3, <4>2, Zenon
    <3>5. CASE ~in_taint(instr.val, v)
      <4>1. P \in v.stores \/ P = instr.ptr
        BY <3>1, <3>5, Zenon DEF TransferStore
      <4>2. MemoryAfter(instr) = memory \ {place[instr.ptr]}
        BY <1>2, <3>2, <3>5, Zenon
      <4> QED
        BY <1>1, <3>3, <4>1, <4>2, Zenon DEF CoversRun
    <3> QED
      BY <3>4, <3>5, Zenon
  <2>4. CASE P \in stores /\ instr.op # "store"
    <3>1. P \in v.stores /\ ~(instr.op = "call" /\ ~OnlyLocalStores(instr.callee))
      BY <2>4, Zenon
    <3>2. MemoryAfter(instr) = memory
      BY <1>1, <2>4, <3>1, Zenon DEF MemoryAfter
    <3> QED
      BY <1>1, <3>1, <3>2, Zenon DEF CoversRun
  <2> QED
    BY <2>1, <2>2, <2>3, <2>4, Zenon
<1> QED
  BY <1>1, <1>8, <1>9, Zenon DEF CoversRun

\* Execution goes on at an instruction or returns.
LEMMA FollowingType ==
  ASSUME NEW p, WellFormed(p), NEW I \in TInsts(p), NEW J \in Following(p, I), J # 0
  PROVE  J \in TInsts(p)
<1>1. CASE I < Len(p.inst) /\ p.block[I + 1] = p.block[I]
  BY <1>1 DEF WellFormed, Following
<1>2. CASE ~(I < Len(p.inst) /\ p.block[I + 1] = p.block[I])
  <2>1. PICK B \in p.succ[p.block[I]] : J = TFront(p, B)
    BY <1>2, Zenon DEF Following
  <2>2. \E K \in TInsts(p) : p.block[K] = B
    <3>1. p.block[I] \in DOMAIN p.succ
      BY Zenon DEF WellFormed
    <3>2. \A D \in DOMAIN p.succ : \A E \in p.succ[D] :
            E # p.block[1] /\ \E K \in TInsts(p) : p.block[K] = E
      BY Zenon DEF WellFormed
    <3> QED
      BY <3>1, <3>2, Zenon
  <2> QED
    BY <2>1, <2>2, FrontOf, Zenon
<1> QED
  BY <1>1, <1>2, Zenon

\* What comes before the next instruction: the value after this one, or the
\* meet with it at the front of a block (attacker-taint.cc:357-381).
LEMMA NextCovers ==
  ASSUME NEW p, WellFormed(p), NEW in \in [TInsts(p) -> Values(p)],
         NEW out \in [TInsts(p) -> Values(p)],
         NEW I \in TInsts(p), NEW J \in Following(p, I), J # 0,
         in[J] = NewIn(p, J, in, out), NEW C,
         \A P, Q \in Pointers(p) : AA(p, P, Q) = "Must" => (P \in C <=> Q \in C),
         out[I].stores \subseteq C
  PROVE  out[I].insts \subseteq in[J].insts /\ in[J].stores \subseteq C
<1>1. TInsts(p) = 1 .. Len(p.inst) /\ Len(p.inst) \in Nat
  BY Zenon DEF WellFormed
<1>2. CASE I < Len(p.inst) /\ p.block[I + 1] = p.block[I]
  <2>1. J = I + 1 /\ J \in TInsts(p) /\ J > 1 /\ J # 1 /\ J - 1 = I
    BY <1>1, <1>2 DEF Following
  <2>2. J # TFront(p, p.block[J])
    <3>1. \A K \in 1 .. TFront(p, p.block[J]) - 1 : p.block[K] # p.block[J]
      BY <2>1, FrontOf, Zenon
    <3>2. I \in 1 .. J - 1 /\ p.block[I] = p.block[J]
      BY <1>1, <1>2, <2>1
    <3> QED
      BY <3>1, <3>2, Zenon
  <2>3. in[J] = out[I]
    BY <2>1, <2>2, Zenon DEF NewIn
  <2> QED
    BY <2>1, <2>3, Zenon
<1>3. CASE ~(I < Len(p.inst) /\ p.block[I + 1] = p.block[I])
  <2>1. PICK B \in p.succ[p.block[I]] : J = TFront(p, B)
    BY <1>3, Zenon DEF Following
  <2>2. /\ p.block[I] \in DOMAIN p.succ /\ B # p.block[1]
        /\ \E K \in TInsts(p) : p.block[K] = B
    BY Zenon DEF WellFormed
  <2>3. J \in TInsts(p) /\ p.block[J] = B
    BY <2>1, <2>2, FrontOf, Zenon
  <2>4. J > 1 /\ J # 1 /\ J = TFront(p, p.block[J])
    BY <1>1, <2>1, <2>2, <2>3
  <2>5. in[J] = MeetPreds(p, B, out)[Len(p.inst)]
    BY <2>3, <2>4, Zenon DEF NewIn
  <2>6. I \in TTerminators(p, B)
    <3>1. ASSUME NEW K \in I + 1 .. Len(p.inst), p.block[K] = p.block[I]
          PROVE  FALSE
      <4>1. K \in TInsts(p) /\ I < K /\ I < Len(p.inst)
        BY <1>1
      <4> QED
        BY <1>3, <3>1, <4>1, Zenon DEF WellFormed
    <3> QED
      BY <2>2, <3>1, Zenon DEF TTerminators
  <2>7. out[I].insts \subseteq out[I].insts
    BY Zenon
  <2>8. /\ out[I].insts \subseteq MeetPreds(p, B, out)[Len(p.inst)].insts
        /\ MeetPreds(p, B, out)[Len(p.inst)].stores \subseteq C
    BY <2>6, <2>7, MeetPredsCovers, Zenon
  <2> QED
    BY <2>5, <2>8, Zenon
<1> QED
  BY <1>2, <1>3, Zenon

\* A step from I to J keeps the facts anchored.
LEMMA StepAnchored ==
  ASSUME NEW p, WellFormed(p), NEW in \in [TInsts(p) -> Values(p)],
         NEW out \in [TInsts(p) -> Values(p)],
         NEW I \in TInsts(p), NEW J \in Following(p, I), J # 0,
         in[J] = NewIn(p, J, in, out), out[I] = transfer(p, I, in[I]),
         NEW A, Lives(p, A, I), Anchored(p, in, A, I),
         \A P \in A : Dominates(p, P, I) => Anchored(p, in, A, P)
  PROVE  /\ Lives(p, After(p, A, I), J)
         /\ Anchored(p, in, After(p, A, I), J)
         /\ \A P \in After(p, A, I) : Dominates(p, P, J) => Anchored(p, in, After(p, A, I), P)
<1> DEFINE A1 == After(p, A, I)
<1>1. Lives(p, A1, J)
  BY LivesNext, Zenon
<1>2. A1 \subseteq A \cup {I}
  BY Zenon DEF After, Standing
<1>3. ASSUME NEW n \in TInsts(p), n = I \/ (n \in A /\ Dominates(p, n, I))
      PROVE  Anchored(p, in, A1, n)
  <2> SUFFICES ASSUME NEW S \in in[n].stores, ~Marked(p, S)
               PROVE  \E V \in A1 : Anchor(p, in, A1, n, S, V)
    BY Zenon DEF Anchored
  <2>1. PICK V \in A : Anchor(p, in, A, n, S, V)
    BY <1>3, Zenon DEF Anchored
  <2>2. Anchor(p, in, A1, n, S, V)
    BY <1>3, <2>1, AnchorStands, Zenon
  <2> QED
    BY <2>2, Zenon DEF Anchor
<1> HIDE DEF A1
<1>4. ASSUME NEW P \in A1, P = I \/ Dominates(p, P, I)
      PROVE  Anchored(p, in, A1, P)
  BY <1>2, <1>3, <1>4, DominanceOrder, Zenon
<1>5. ASSUME NEW P \in A1, Dominates(p, P, J)
      PROVE  Anchored(p, in, A1, P)
  BY <1>4, <1>5, DominanceNext, Zenon
<1>6. ASSUME NEW S \in in[J].stores, ~Marked(p, S)
      PROVE  \E V \in A1 : Anchor(p, in, A1, J, S, V)
  <2> DEFINE C == {P \in Pointers(p) : \E W \in out[I].stores : Tied(p, P, W)}
  <2>1. out[I].stores \subseteq C
    BY TiedFacts, Zenon DEF Values
  <2>2. \A P, Q \in Pointers(p) : AA(p, P, Q) = "Must" => (P \in C <=> Q \in C)
    BY TiedFacts, Zenon
  <2> HIDE DEF C
  <2>3. S \in C
    BY <1>6, <2>1, <2>2, NextCovers, Zenon
  <2>4. PICK W \in out[I].stores : Tied(p, S, W)
    BY <2>3, Zenon DEF C
  <2>5. ~Marked(p, W) /\ \A P : Held(p, in, P, S) <=> Held(p, in, P, W)
    BY <1>6, <2>4, TiedShare, Zenon
  <2>6. \/ W \in in[I].stores \/ W \in p.annotated
        \/ p.inst[I].op = "store" /\ W = p.inst[I].ptr
    BY TransferAdds, Zenon
  <2>7. CASE W \in in[I].stores
    <3>1. Anchored(p, in, A1, I)
      BY <1>3, Zenon
    <3> QED
      BY <1>4, <1>6, <2>4, <2>7, <3>1, AnchoredNext, Zenon
  <2>8. CASE W \in p.annotated
    BY <2>5, <2>8, TiedFacts, Zenon DEF Marked
  <2>9. CASE p.inst[I].op = "store" /\ W = p.inst[I].ptr
    <3>1. PICK V \in A1 : Anchor(p, in, A1, J, W, V)
      BY <1>1, <2>9, AnchoredStore, Zenon
    <3>2. Tied(p, S, V)
      BY <2>4, <3>1, TiedFacts, Zenon DEF Anchor
    <3> QED
      BY <2>5, <3>1, <3>2, Zenon DEF Anchor
  <2> QED
    BY <2>6, <2>7, <2>8, <2>9, Zenon
<1>7. Anchored(p, in, A1, J)
  BY <1>6, Zenon DEF Anchored
<1> QED
  BY <1>1, <1>5, <1>7, Zenon DEF A1

\* The place of a fact stands when a pointer is computed: its anchor's does.
LEMMA PlacesStand ==
  ASSUME NEW p, WellFormed(p), NEW in, NEW A, NEW I \in TInsts(p), Lives(p, A, I),
         Anchored(p, in, A, I), I \in Pointers(p),
         NEW loc \in Places(p), NEW next \in Places(p),
         \A Q \in Standing(p, A, I) : next[Q] = loc[Q],
         NEW S \in in[I].stores
  PROVE  next[S] = loc[S] \/ next[S] \in Safe(p, next)
<1>1. CASE Marked(p, S)
  BY <1>1, Zenon DEF Marked, Tied, Safe
<1>2. CASE ~Marked(p, S)
  <2>1. PICK V \in A : Anchor(p, in, A, I, S, V)
    BY <1>2, Zenon DEF Anchored
  <2>2. V \in Standing(p, A, I)
    BY <2>1, AnchorStands, Zenon
  <2>3. Tied(p, S, V)
    BY <2>1, Zenon DEF Anchor
  <2> QED
    BY <2>2, <2>3, Zenon DEF Tied
<1> QED
  BY <1>1, <1>2, Zenon

\* Every step of an execution keeps the invariant (attacker-taint.cc:357-381).
LEMMA ExecuteInv == TaintInv /\ Execute => TaintInv'
<1> SUFFICES ASSUME TaintInv, Execute PROVE TaintInv'
  BY Zenon
<1>1. /\ WellFormed(fn) /\ fn \in Functions /\ tpc = "run"
      /\ ins \in [TInsts(fn) -> Values(fn)] /\ outs \in [TInsts(fn) -> Values(fn)]
      /\ ins[1] = Unknown
      /\ at \in Nat /\ changed \in BOOLEAN
      /\ results = {I \in TInsts(fn) : I \in outs[I].insts}
      /\ \A J \in TInsts(fn) : Solved(J)
      /\ place \in Places(fn) /\ (~hidden => regs \subseteq results) /\ hidden \in BOOLEAN
      /\ ip \in TInsts(fn) /\ RunInv
  BY TaintAssumption, Zenon DEF TaintInv, Execute
<1>2. /\ fn' = fn /\ ins' = ins /\ outs' = outs /\ at' = at
      /\ changed' = changed /\ results' = results
      /\ tpc' = tpc /\ ip' \in Following(fn, ip) /\ hidden' \in BOOLEAN
      /\ ~hidden' => ~hidden
  BY <1>1, Zenon DEF Execute
<1>3. outs[ip] = transfer(fn, ip, ins[ip]) /\ ins[ip] \in Values(fn)
  BY <1>1, Zenon DEF Solved
<1>4. /\ alive' = After(fn, alive, ip) /\ place' \in Places(fn)
      /\ ip \notin Pointers(fn) => place' = place
      /\ ip \in Pointers(fn) => \A Q \in Standing(fn, alive, ip) : place'[Q] = place[Q]
  BY <1>1, Zenon DEF Execute, Compute, After
<1>5. /\ Lives(fn, alive, ip) /\ Anchored(fn, ins, alive, ip)
      /\ \A P \in alive : Dominates(fn, P, ip) => Anchored(fn, ins, alive, P)
  BY <1>1, Zenon DEF RunInv
<1>6. ASSUME NEW S \in ins[ip].stores
      PROVE  place'[S] = place[S] \/ place'[S] \in Safe(fn, place')
  <2>1. CASE ip \in Pointers(fn)
    <3>1. \A Q \in Standing(fn, alive, ip) : place'[Q] = place[Q]
      BY <1>4, <2>1, Zenon
    <3>2. WellFormed(fn) /\ ip \in TInsts(fn) /\ place \in Places(fn) /\ place' \in Places(fn)
      BY <1>1, <1>4, Zenon
    <3>3. Lives(fn, alive, ip) /\ Anchored(fn, ins, alive, ip)
      BY <1>5, Zenon
    <3> QED
      BY <2>1, <3>1, <3>2, <3>3, PlacesStand, Zenon
  <2>2. CASE ip \notin Pointers(fn)
    BY <1>4, <2>2, Zenon
  <2> QED
    BY <2>1, <2>2, Zenon
<1>7. ASSUME ~hidden'
      PROVE  /\ CoversRun(outs[ip], regs', place', memory')
             /\ regs' \subseteq regs \cup {I \in {ip} : I \in outs[ip].insts}
  <2>1. CoversRun(ins[ip], regs, place, memory)
    BY <1>1, <1>2, <1>7, Zenon DEF RunInv
  <2> QED
    BY <1>1, <1>3, <1>6, <1>7, <2>1, TransferCovers, Zenon
<1>8. ~hidden' => regs' \subseteq results
  BY <1>1, <1>2, <1>7, Zenon
<1>9. ASSUME ip' # 0
      PROVE  ip' \in TInsts(fn) /\ ins[ip'] = NewIn(fn, ip', ins, outs)
  <2>1. ip' \in TInsts(fn)
    BY <1>1, <1>2, <1>9, FollowingType, Zenon
  <2> QED
    BY <1>1, <2>1, Zenon DEF Solved
<1>10. ASSUME ip' # 0
       PROVE  RunInv'
  <2>1. ins[ip'] = NewIn(fn, ip', ins, outs)
    BY <1>9, <1>10, Zenon
  <2>2. /\ Lives(fn, alive', ip') /\ Anchored(fn, ins, alive', ip')
        /\ \A P \in alive' : Dominates(fn, P, ip') => Anchored(fn, ins, alive', P)
    BY <1>1, <1>2, <1>3, <1>4, <1>5, <1>10, <2>1, StepAnchored, Zenon
  <2>3. ASSUME ~hidden'
        PROVE  CoversRun(ins[ip'], regs', place', memory')
    <3> DEFINE C == {P \in Pointers(fn) : place'[P] \notin memory'}
    <3>1. outs[ip].stores \subseteq C /\ regs' \subseteq outs[ip].insts
      BY <1>1, <1>7, <2>3, Zenon DEF CoversRun, Values
    <3>2. \A P, Q \in Pointers(fn) : AA(fn, P, Q) = "Must" => (P \in C <=> Q \in C)
      BY <1>4, Zenon DEF Places
    <3> HIDE DEF C
    <3>3. outs[ip].insts \subseteq ins[ip'].insts /\ ins[ip'].stores \subseteq C
      BY <1>1, <1>2, <1>10, <2>1, <3>1, <3>2, NextCovers, Zenon
    <3> QED
      BY <3>1, <3>3, Zenon DEF CoversRun, C
  <2> QED
    BY <1>2, <2>2, <2>3, Zenon DEF RunInv
<1>11. \A J \in TInsts(fn) : Solved(J)'
  BY <1>1, <1>2, Zenon DEF Solved
<1> QED
  BY <1>1, <1>2, <1>4, <1>8, <1>9, <1>10, <1>11, Zenon DEF TaintInv

\* The invariant of runOnFunction and of the executions of the function holds,
\* for every function, alias analysis and set of places (attacker-taint.cc:260-474).
THEOREM TaintInvariant == TaintSpec => []TaintInv
<1>1. TaintInv /\ [TaintNext]_taintVars => TaintInv'
  <2>1. ASSUME TaintInv, UNCHANGED taintVars PROVE TaintInv'
    BY <2>1, Zenon DEF TaintInv, taintVars, runVars, Solved, RunInv
  <2> QED
    BY <2>1, VisitInv, SweepEndInv, EnterInv, ExecuteInv, Zenon DEF TaintNext
<1> QED
  BY <1>1, TaintInitInv, PTL DEF TaintSpec

\* No execution of the function controls an instruction that the pass calls
\* untainted (AttackerTaintResults::get, attacker-taint.cc:246-258).
THEOREM TaintSoundness == TaintSpec => []TaintSound
<1>1. TaintInv => TaintSound
  BY Zenon DEF TaintInv, TaintSound, get
<1> QED
  BY <1>1, TaintInvariant, PTL

-----------------------------------------------------------------------------
(* The pass and its database, for every number of processes, every module    *)
(* and every call graph.                                                      *)

\* The initial state has the right types.
LEMMA PassTypeInit == Init => TypeOK
<1> SUFFICES ASSUME Init PROVE TypeOK
  BY Zenon
<1> USE PassAssumption DEF Init
<1>1. damaged \in BOOLEAN
  BY Zenon
<1>2. pc \in [Proc -> PC] /\ runs \in [Proc -> 0 .. MaxRuns]
  BY DEF PC
<1>3. \A p \in Proc : flock = p <=> pc[p] \in {"exists", "store"}
  BY Zenon
<1>4. /\ fun \in [Proc -> Func \cup {None}]
      /\ unseen \in [Proc -> SUBSET Func] /\ list \in [Proc -> SUBSET Func]
      /\ frontier \in [Proc -> SUBSET Func] /\ visited \in [Proc -> SUBSET Func]
      /\ toInsert \in [Proc -> SUBSET Func]
  BY Zenon
<1> QED BY <1>1, <1>2, <1>3, <1>4, Zenon DEF TypeOK

\* Every step keeps the types.
LEMMA PassTypeStep == TypeOK /\ [Next]_vars => TypeOK'
<1> SUFFICES ASSUME TypeOK, [Next]_vars PROVE TypeOK'
  BY Zenon
<1> USE PassAssumption
<1>1. ASSUME NEW p \in Proc, Start(p) PROVE TypeOK'
  BY <1>1 DEF TypeOK, Start, Known, Called, PC
<1>2. ASSUME NEW p \in Proc, Kill(p) PROVE TypeOK'
  BY <1>2, Zenon DEF TypeOK, Kill, Dead, PC
<1>3. ASSUME NEW p \in Proc, PickFunction(p) PROVE TypeOK'
  BY <1>3 DEF TypeOK, PickFunction, PC
<1>4. ASSUME NEW p \in Proc, Lock(p, "contains", "exists") PROVE TypeOK'
  BY <1>4 DEF TypeOK, Lock, Dead, PC
<1>5. ASSUME NEW p \in Proc, Contains(p) PROVE TypeOK'
  BY <1>5 DEF TypeOK, Contains, PC
<1>6. ASSUME NEW p \in Proc, ListDone(p) PROVE TypeOK'
  BY <1>6, Zenon DEF TypeOK, ListDone, PC
<1>7. ASSUME NEW p \in Proc, Closure(p) PROVE TypeOK'
  BY <1>7 DEF TypeOK, Closure, Called, PC
<1>8. ASSUME NEW p \in Proc, Visit(p) PROVE TypeOK'
  BY <1>8 DEF TypeOK, Visit, PC
<1>9. ASSUME NEW p \in Proc, Analyse(p) PROVE TypeOK'
  BY <1>9 DEF TypeOK, Analyse, Inlinable, PC
<1>10. ASSUME NEW p \in Proc, Lock(p, "record", "store") PROVE TypeOK'
  BY <1>10 DEF TypeOK, Lock, Dead, PC
<1>11. ASSUME NEW p \in Proc, Insert(p) PROVE TypeOK'
  BY <1>11 DEF TypeOK, Insert, PC
<1>12. ASSUME NEW p \in Proc, FunctionDone(p) PROVE TypeOK'
  BY <1>12 DEF TypeOK, FunctionDone, PC
<1>13. ASSUME NEW p \in Proc, ModuleDone(p) PROVE TypeOK'
  BY <1>13, Zenon DEF TypeOK, ModuleDone, PC
<1>14. CASE UNCHANGED vars
  BY <1>14, Zenon DEF vars, procVars, TypeOK, PC
<1> QED BY <1>1, <1>2, <1>3, <1>4, <1>5, <1>6, <1>7, <1>8, <1>9, <1>10, <1>11, <1>12, <1>13, <1>14, Zenon DEF Next, Step

\* The initial state satisfies the invariant.
LEMMA PassInvInit == Init => PassInv
  BY PassAssumption, Zenon DEF Init, PassInv

\* Every step keeps the invariant.
LEMMA PassInvStep == TypeOK /\ PassInv /\ [Next]_vars => PassInv'
<1> SUFFICES ASSUME TypeOK, PassInv, [Next]_vars PROVE PassInv'
  BY Zenon
<1> USE PassAssumption
<1>1. ASSUME NEW p \in Proc, Start(p) PROVE PassInv'
  BY <1>1 DEF TypeOK, PassInv, Start, Known
<1>2. ASSUME NEW p \in Proc, Kill(p) PROVE PassInv'
  BY <1>2 DEF TypeOK, PassInv, Kill, Dead
<1>3. ASSUME NEW p \in Proc, PickFunction(p) PROVE PassInv'
  BY <1>3 DEF TypeOK, PassInv, PickFunction
<1>4. ASSUME NEW p \in Proc, Lock(p, "contains", "exists") PROVE PassInv'
  BY <1>4 DEF TypeOK, PassInv, Lock, Dead
<1>5. ASSUME NEW p \in Proc, Contains(p) PROVE PassInv'
  BY <1>5 DEF TypeOK, PassInv, Contains
<1>6. ASSUME NEW p \in Proc, ListDone(p) PROVE PassInv'
  BY <1>6 DEF TypeOK, PassInv, ListDone
<1>7. ASSUME NEW p \in Proc, Closure(p) PROVE PassInv'
  BY <1>7 DEF TypeOK, PassInv, Closure
<1>8. ASSUME NEW p \in Proc, Visit(p) PROVE PassInv'
  BY <1>8 DEF TypeOK, PassInv, Visit
<1>9. ASSUME NEW p \in Proc, Analyse(p) PROVE PassInv'
  BY <1>9 DEF TypeOK, PassInv, Analyse
<1>10. ASSUME NEW p \in Proc, Lock(p, "record", "store") PROVE PassInv'
  BY <1>10 DEF TypeOK, PassInv, Lock, Dead
<1>11. ASSUME NEW p \in Proc, Insert(p) PROVE PassInv'
  BY <1>11 DEF TypeOK, PassInv, Insert
<1>12. ASSUME NEW p \in Proc, FunctionDone(p) PROVE PassInv'
  BY <1>12 DEF TypeOK, PassInv, FunctionDone
<1>13. ASSUME NEW p \in Proc, ModuleDone(p) PROVE PassInv'
  BY <1>13 DEF TypeOK, PassInv, ModuleDone
<1>14. CASE UNCHANGED vars
  BY <1>14, Zenon DEF vars, procVars, PassInv
<1> QED BY <1>1, <1>2, <1>3, <1>4, <1>5, <1>6, <1>7, <1>8, <1>9, <1>10, <1>11, <1>12, <1>13, <1>14, Zenon DEF Next, Step

\* The types and the invariant hold in every reachable state.
THEOREM PassInvariant == Spec => [](TypeOK /\ PassInv)
  BY PassTypeInit, PassTypeStep, PassInvInit, PassInvStep, PTL DEF Spec

\* A function is in the database only if a report that covers it has been
\* written (lcm.cc:384, 422).
THEOREM PassRecordedMeansReported == Spec => []RecordedMeansReported
<1>1. PassInv => RecordedMeansReported
  BY Zenon DEF PassInv, RecordedMeansReported
<1> QED BY <1>1, PassInvariant, PTL

\* A compilation that ends has every selected function of its module covered
\* by a written report (lcm.cc:107-208).
THEOREM PassCoverage == Spec => []Coverage
<1>1. TypeOK /\ PassInv => Coverage
  BY PassAssumption, SMTT(30) DEF TypeOK, PassInv, Coverage
<1> QED BY <1>1, PassInvariant, PTL

\* Every step keeps the closure's invariant.
LEMMA ClosureInvStep == TypeOK /\ ClosureInv /\ [Next]_vars => ClosureInv'
<1> SUFFICES ASSUME TypeOK, ClosureInv, [Next]_vars PROVE ClosureInv'
  BY Zenon
<1> USE PassAssumption
<1>1. ASSUME NEW p \in Proc, Start(p) PROVE ClosureInv'
  BY <1>1 DEF TypeOK, ClosureInv, CalleesListed, Start
<1>2. ASSUME NEW p \in Proc, Kill(p) PROVE ClosureInv'
  BY <1>2 DEF TypeOK, ClosureInv, CalleesListed, Kill, Dead
<1>3. ASSUME NEW p \in Proc, PickFunction(p) PROVE ClosureInv'
  BY <1>3 DEF TypeOK, ClosureInv, CalleesListed, PickFunction
<1>4. ASSUME NEW p \in Proc, Lock(p, "contains", "exists") PROVE ClosureInv'
  BY <1>4 DEF TypeOK, ClosureInv, CalleesListed, Lock, Dead
<1>5. ASSUME NEW p \in Proc, Contains(p) PROVE ClosureInv'
  BY <1>5 DEF TypeOK, ClosureInv, CalleesListed, Contains
<1>6. ASSUME NEW p \in Proc, ListDone(p) PROVE ClosureInv'
  BY <1>6 DEF TypeOK, ClosureInv, CalleesListed, ListDone, Called
<1>7. ASSUME NEW p \in Proc, Closure(p) PROVE ClosureInv'
  BY <1>7 DEF TypeOK, ClosureInv, CalleesListed, Closure, Called
<1>8. ASSUME NEW p \in Proc, Visit(p) PROVE ClosureInv'
  BY <1>8 DEF TypeOK, ClosureInv, CalleesListed, Visit
<1>9. ASSUME NEW p \in Proc, Analyse(p) PROVE ClosureInv'
  BY <1>9 DEF TypeOK, ClosureInv, CalleesListed, Analyse
<1>10. ASSUME NEW p \in Proc, Lock(p, "record", "store") PROVE ClosureInv'
  BY <1>10 DEF TypeOK, ClosureInv, CalleesListed, Lock, Dead
<1>11. ASSUME NEW p \in Proc, Insert(p) PROVE ClosureInv'
  BY <1>11 DEF TypeOK, ClosureInv, CalleesListed, Insert
<1>12. ASSUME NEW p \in Proc, FunctionDone(p) PROVE ClosureInv'
  BY <1>12 DEF TypeOK, ClosureInv, CalleesListed, FunctionDone
<1>13. ASSUME NEW p \in Proc, ModuleDone(p) PROVE ClosureInv'
  BY <1>13 DEF TypeOK, ClosureInv, CalleesListed, ModuleDone
<1>14. CASE UNCHANGED vars
  BY <1>14, Zenon DEF vars, procVars, ClosureInv, CalleesListed
<1> QED BY <1>1, <1>2, <1>3, <1>4, <1>5, <1>6, <1>7, <1>8, <1>9, <1>10, <1>11, <1>12, <1>13, <1>14, Zenon DEF Next, Step

\* With --callees the list is closed under calls (lcm.cc:121-139).
THEOREM PassCalleesListed == Spec => []CalleesListed
<1>1. Init => ClosureInv
  BY Zenon DEF Init, ClosureInv, CalleesListed
<1>2. ClosureInv => CalleesListed
  BY Zenon DEF ClosureInv
<1> QED BY <1>1, <1>2, PassTypeInit, PassTypeStep, ClosureInvStep, PTL DEF Spec
=============================================================================
