-------------------------- MODULE ContainerProofs ---------------------------
(***************************************************************************)
(* One instance of a service is kept, what is disposable is disposed of    *)
(* once and in order, and no scoped service is built in the root while     *)
(* scopes are validated, for any goroutines, scopes and registrations.     *)
(*                                                                         *)
(* Each action has one lemma per invariant, named after both: GetShape is  *)
(* about Get and ShapeInv.  Actions that neither build nor dispose have    *)
(* one lemma for KeepInv and DisposeInv, that they are Calm.               *)
(***************************************************************************)
EXTENDS ContainerInvariants, Extremes, FiniteSetTheorems, TLAPS

-----------------------------------------------------------------------------
(* Records, sequences and stacks                                           *)

\* The domain and the length of a sequence.
LEMMA SeqFacts ==
  ASSUME NEW s, IsSeq(s)
  PROVE  Len(s) \in Nat /\ DOMAIN s = 1..Len(s) /\ (s = <<>> <=> Len(s) = 0)
BY DEF IsSeq

\* The empty sequence is one.
LEMMA EmptySeq == IsSeq(<<>>) /\ Len(<<>>) = 0
BY DEF IsSeq

\* Append adds one element at the end.
LEMMA AppendFacts ==
  ASSUME NEW s, IsSeq(s), NEW e
  PROVE  /\ IsSeq(Append(s, e)) /\ Len(Append(s, e)) = Len(s) + 1
         /\ \A n \in 1..Len(s) : Append(s, e)[n] = s[n]
         /\ Append(s, e)[Len(s) + 1] = e
<1> DEFINE S == {s[n] : n \in DOMAIN s} \union {e}
           r == Append(s, e)
<1>1. s \in Seq(S)
  BY DEF IsSeq
<1>2. r \in Seq(S) /\ Len(r) = Len(s) + 1 /\ (\A n \in 1..Len(s) : r[n] = s[n]) /\ r[Len(s) + 1] = e
  BY <1>1
<1>3. r \in Seq({r[n] : n \in DOMAIN r})
  BY <1>2
<1> QED
  BY <1>2, <1>3 DEF IsSeq

\* All of a sequence over S but its last element.
LEMMA FrontOf ==
  ASSUME NEW S, NEW s \in Seq(S), NEW n, n = Len(s), n # 0, NEW b, b = SubSeq(s, 1, n - 1)
  PROVE  b \in Seq(S) /\ Len(b) = n - 1 /\ \A k \in 1..n - 1 : b[k] = s[k]
<1>1. n \in Nat \ {0}
  OBVIOUS
<1> QED
  BY <1>1

\* All of a sequence but its last element.
LEMMA FrontFacts ==
  ASSUME NEW s, IsSeq(s), s # <<>>
  PROVE  LET b == SubSeq(s, 1, Len(s) - 1)
         IN  IsSeq(b) /\ Len(b) = Len(s) - 1 /\ \A n \in 1..Len(s) - 1 : b[n] = s[n]
<1>1. PICK S : s \in Seq(S)
  BY DEF IsSeq
<1>2. PICK n : n = Len(s)
  OBVIOUS
<1>3. PICK b : b = SubSeq(s, 1, n - 1)
  OBVIOUS
<1>4. n # 0
  BY <1>2, SeqFacts
<1>5. b \in Seq(S) /\ Len(b) = n - 1 /\ \A k \in 1..n - 1 : b[k] = s[k]
  BY <1>1, <1>2, <1>3, <1>4, FrontOf
<1>6. b \in Seq({b[k] : k \in DOMAIN b})
  BY <1>5
<1> QED
  BY <1>2, <1>3, <1>5, <1>6 DEF IsSeq

\* Arithmetic of stack heights, for Zenon.
LEMMA NatFacts ==
  /\ \A n \in Nat \ {0} : n - 1 \in Nat /\ (n - 1) + 1 = n /\ (n - 1) + 2 = n + 1 /\ n - 1 <= n /\ (n - 1 = 0 <=> n = 1)
  /\ \A k \in Nat \ {0} : k \in 1..k /\ 1 \in 1..k
OBVIOUS

\* A sequence of one element.
LEMMA OneFacts ==
  ASSUME NEW e
  PROVE  IsSeq(<<e>>) /\ Len(<<e>>) = 1 /\ <<e>>[1] = e
BY DEF IsSeq

\* g's frames up to k stay, and m others come to be above them.
Moves(g, k, m) ==
    /\ DOMAIN stack' = Goroutines
    /\ \A h \in Goroutines \ {g} : stack'[h] = stack[h]
    /\ IsSeq(stack'[g]) /\ k \in Nat /\ m \in 0..2 /\ Len(stack'[g]) = k + m
    /\ \A n \in 1..k : stack'[g][n] = stack[g][n]

\* Goto leaves the frames below the top and puts one above them.
LEMMA GotoMoves ==
  ASSUME StacksAre, NEW g \in Goroutines, stack[g] # <<>>, NEW f, Goto(g, f)
  PROVE  /\ Moves(g, Len(stack[g]) - 1, 1) /\ stack'[g][Len(stack[g])] = f
         /\ DOMAIN ret' = Goroutines /\ ret'[g] = NoRet /\ \A h \in Goroutines \ {g} : ret'[h] = ret[h]
<1> DEFINE s == stack[g] b == Below(g)
<1>1. IsSeq(s) /\ s # <<>> /\ Len(s) \in Nat \ {0}
  BY SeqFacts DEF StacksAre
<1>2. IsSeq(b) /\ Len(b) = Len(s) - 1 /\ \A n \in 1..Len(s) - 1 : b[n] = s[n]
  BY <1>1, FrontFacts DEF Below
<1>3. stack'[g] = Append(b, f) /\ DOMAIN stack' = Goroutines /\ \A h \in Goroutines \ {g} : stack'[h] = stack[h]
  BY DEF Goto, StacksAre
<1>4. DOMAIN ret' = Goroutines /\ ret'[g] = NoRet /\ \A h \in Goroutines \ {g} : ret'[h] = ret[h]
  BY DEF Goto, StacksAre
<1> HIDE DEF b, s
<1>5. IsSeq(stack'[g]) /\ Len(stack'[g]) = Len(s) /\ (\A n \in 1..Len(s) - 1 : stack'[g][n] = s[n]) /\ stack'[g][Len(s)] = f
  BY <1>1, <1>2, <1>3, AppendFacts
<1>6. Len(s) - 1 \in Nat /\ Len(s) = (Len(s) - 1) + 1
  BY <1>1
<1> QED
  BY <1>1, <1>3, <1>4, <1>5, <1>6 DEF Moves, s

\* Call leaves the frames below the top and puts two above them.
LEMMA CallMoves ==
  ASSUME StacksAre, NEW g \in Goroutines, stack[g] # <<>>, NEW f, NEW f2, Call(g, f, f2)
  PROVE  /\ Moves(g, Len(stack[g]) - 1, 2) /\ stack'[g][Len(stack[g])] = f /\ stack'[g][Len(stack[g]) + 1] = f2
         /\ DOMAIN ret' = Goroutines /\ ret'[g] = NoRet /\ \A h \in Goroutines \ {g} : ret'[h] = ret[h]
<1> DEFINE s == stack[g] b == Below(g) a == Append(b, f)
<1>1. IsSeq(s) /\ s # <<>> /\ Len(s) \in Nat \ {0}
  BY SeqFacts DEF StacksAre
<1>2. IsSeq(b) /\ Len(b) = Len(s) - 1 /\ \A n \in 1..Len(s) - 1 : b[n] = s[n]
  BY <1>1, FrontFacts DEF Below
<1>3. stack'[g] = Append(a, f2) /\ DOMAIN stack' = Goroutines /\ \A h \in Goroutines \ {g} : stack'[h] = stack[h]
  BY DEF Call, StacksAre
<1>4. DOMAIN ret' = Goroutines /\ ret'[g] = NoRet /\ \A h \in Goroutines \ {g} : ret'[h] = ret[h]
  BY DEF Call, StacksAre
<1> HIDE DEF b, s
<1>5. IsSeq(a) /\ Len(a) = Len(s) /\ (\A n \in 1..Len(s) - 1 : a[n] = s[n]) /\ a[Len(s)] = f
  BY <1>1, <1>2, AppendFacts
<1> HIDE DEF a
<1>6. /\ IsSeq(stack'[g]) /\ Len(stack'[g]) = Len(s) + 1 /\ (\A n \in 1..Len(s) - 1 : stack'[g][n] = s[n])
      /\ stack'[g][Len(s)] = f /\ stack'[g][Len(s) + 1] = f2
  BY <1>1, <1>3, <1>5, AppendFacts
<1>7. Len(s) - 1 \in Nat /\ Len(s) + 1 = (Len(s) - 1) + 2
  BY <1>1
<1> QED
  BY <1>1, <1>3, <1>4, <1>6, <1>7 DEF Moves, s

\* Return leaves the frames below the top.
LEMMA ReturnMoves ==
  ASSUME StacksAre, NEW g \in Goroutines, stack[g] # <<>>, NEW r, Return(g, r)
  PROVE  /\ Moves(g, Len(stack[g]) - 1, 0)
         /\ DOMAIN ret' = Goroutines /\ ret'[g] = r /\ \A h \in Goroutines \ {g} : ret'[h] = ret[h]
<1> DEFINE s == stack[g] b == Below(g)
<1>1. IsSeq(s) /\ s # <<>> /\ Len(s) \in Nat \ {0}
  BY SeqFacts DEF StacksAre
<1>2. IsSeq(b) /\ Len(b) = Len(s) - 1 /\ \A n \in 1..Len(s) - 1 : b[n] = s[n]
  BY <1>1, FrontFacts DEF Below
<1>3. stack'[g] = b /\ DOMAIN stack' = Goroutines /\ \A h \in Goroutines \ {g} : stack'[h] = stack[h]
  BY DEF Return, StacksAre
<1>4. DOMAIN ret' = Goroutines /\ ret'[g] = r /\ \A h \in Goroutines \ {g} : ret'[h] = ret[h]
  BY DEF Return, StacksAre
<1>5. Len(s) - 1 \in Nat /\ Len(s) - 1 = (Len(s) - 1) + 0
  BY <1>1
<1> QED
  BY <1>1, <1>2, <1>3, <1>4, <1>5 DEF Moves, s

\* A goroutine that was idle has one frame.
LEMMA StartMoves ==
  ASSUME StacksAre, NEW g \in Goroutines, NEW f, stack' = [stack EXCEPT ![g] = <<f>>]
  PROVE  Moves(g, 0, 1) /\ stack'[g][1] = f
BY OneFacts DEF StacksAre, Moves

-----------------------------------------------------------------------------
(* Who calls whom, and what a frame knows                                  *)

\* What grows, and what stays once Build is done.
Grows ==
    /\ descriptors' = descriptors /\ Types' = Types
    /\ DOMAIN sites \subseteq DOMAIN sites' /\ DOMAIN realized \subseteq DOMAIN realized'
    /\ disposed \subseteq disposed'

\* A frame stays right while the state only grows.
LEMMA FrameStays ==
  ASSUME NEW f, FrameOK(f), Grows
  PROVE  FrameOK(f)'
BY DEF FrameOK, Grows

\* The frame that takes top's place has been called by whoever called top.
Replaces(f, old) == f.fn = old.fn \/ (old.fn = "get" /\ f.fn = "visit")

\* What may be called from below may still be when it goes on.
LEMMA ReplacedIsCalled ==
  ASSUME NEW lo, NEW old, NEW f, CalledBy(lo, old), Replaces(f, old)
  PROVE  CalledBy(lo, f)
BY DEF CalledBy, Replaces

\* The top frame of a stack that is not empty.
LEMMA TopFacts ==
  ASSUME ShapeStacks, NEW g \in Goroutines, stack[g] # <<>>
  PROVE  /\ IsSeq(stack[g]) /\ Len(stack[g]) \in Nat \ {0} /\ DOMAIN stack[g] = 1..Len(stack[g])
         /\ Len(stack[g]) \in DOMAIN stack[g] /\ top(g) = stack[g][Len(stack[g])]
         /\ FrameOK(top(g))
         /\ Len(stack[g]) = 1 => top(g).fn \in Bottoms
         /\ Len(stack[g]) # 1 => CalledBy(stack[g][Len(stack[g]) - 1], top(g))
<1>1. IsSeq(stack[g]) /\ Len(stack[g]) \in Nat \ {0} /\ DOMAIN stack[g] = 1..Len(stack[g])
  BY SeqFacts DEF ShapeStacks, StacksAre
<1>2. Len(stack[g]) \in DOMAIN stack[g]
  BY <1>1
<1> QED
  BY <1>1, <1>2 DEF ShapeStacks, FramesOK, CallsOK, top

\* Stacks stay right if the frames above the k-th are.
LEMMA StackStep ==
  ASSUME ShapeStacks, NEW g \in Goroutines, NEW k, NEW m, Moves(g, k, m), Grows,
         k <= Len(stack[g]), DOMAIN ret' = Goroutines,
         m >= 1 => /\ FrameOK(stack[g][k + 1])'
                   /\ k = 0 => stack'[g][1].fn \in Bottoms
                   /\ k # 0 => CalledBy(stack'[g][k], stack'[g][k + 1]),
         m = 2 => FrameOK(stack[g][k + 2])' /\ CalledBy(stack'[g][k + 1], stack'[g][k + 2])
  PROVE  StacksAre' /\ FramesOK' /\ CallsOK'
<1>1. StacksAre'
  BY DEF ShapeStacks, StacksAre, Moves
<1>2. k \in Nat /\ m \in 0..2 /\ DOMAIN stack'[g] = 1..(k + m) /\ Len(stack[g]) \in Nat /\ DOMAIN stack[g] = 1..Len(stack[g])
  BY SeqFacts DEF Moves, ShapeStacks, StacksAre
<1>3. ASSUME NEW h \in Goroutines, NEW n \in DOMAIN stack'[h] PROVE FrameOK(stack[h][n])'
  <2>1. CASE h # g
    <3>1. FrameOK(stack[h][n]) /\ stack'[h][n] = stack[h][n]
      BY <1>3, <2>1 DEF ShapeStacks, FramesOK, Moves
    <3> QED
      BY <3>1, FrameStays
  <2>2. CASE h = g /\ n \in 1..k
    <3>1. FrameOK(stack[h][n]) /\ stack'[h][n] = stack[h][n]
      BY <1>2, <2>2 DEF ShapeStacks, FramesOK, Moves
    <3> QED
      BY <3>1, FrameStays
  <2>3. CASE h = g /\ n \notin 1..k
    <3>1. (n = k + 1 /\ m >= 1) \/ (n = k + 2 /\ m = 2)
      BY <1>2, <1>3, <2>3
    <3> QED
      BY <2>3, <3>1
  <2> QED
    BY <2>1, <2>2, <2>3
<1>4. ASSUME NEW h \in Goroutines, NEW n \in DOMAIN stack'[h]
      PROVE  /\ n = 1 => stack'[h][n].fn \in Bottoms
             /\ n # 1 => CalledBy(stack'[h][n - 1], stack'[h][n])
  <2>1. CASE h # g
    BY <1>4, <2>1 DEF ShapeStacks, CallsOK, Moves
  <2>2. CASE h = g /\ n \in 1..k
    <3>1. n \in DOMAIN stack[g] /\ stack'[g][n] = stack[g][n] /\ (n # 1 => n - 1 \in 1..k)
      BY <1>2, <2>2 DEF Moves
    <3>2. n # 1 => stack'[g][n - 1] = stack[g][n - 1]
      BY <3>1 DEF Moves
    <3> QED
      BY <2>2, <3>1, <3>2 DEF ShapeStacks, CallsOK
  <2>3. CASE h = g /\ n \notin 1..k
    <3>1. (n = k + 1 /\ m >= 1 /\ n - 1 = k) \/ (n = k + 2 /\ m = 2 /\ n - 1 = k + 1 /\ n # 1)
      BY <1>2, <1>4, <2>3
    <3>2. n = 1 /\ n = k + 1 => k = 0
      BY <1>2
    <3>3. n # 1 /\ n = k + 1 => k # 0
      BY <1>2
    <3> QED
      BY <2>3, <3>1, <3>2, <3>3
  <2> QED
    BY <2>1, <2>2, <2>3
<1> QED
  BY <1>1, <1>3, <1>4 DEF FramesOK, CallsOK

\* The validating frame is the only one of its stack that nobody called.
LEMMA ValidateIsBottom ==
  ASSUME ShapeStacks, NEW g \in Goroutines, NEW n \in DOMAIN stack[g], stack[g][n].fn = "validate"
  PROVE  n = 1
BY DEF ShapeStacks, CallsOK, CalledBy

\* Only Build starts to validate, and nobody starts meanwhile.
LEMMA AloneStays ==
  ASSUME ShapeStacks, NEW g \in Goroutines, stack[g] # <<>>, NEW k, NEW m, Moves(g, k, m), phase' = phase,
         k = Len(stack[g]) - 1, CallsOK',
         k = 0 /\ m >= 1 => (stack'[g][1].fn = "validate" => top(g).fn = "validate")
  PROVE  Alone'
<1>1. /\ k \in Nat /\ m \in 0..2 /\ DOMAIN stack'[g] = 1..(k + m) /\ Len(stack[g]) \in Nat
      /\ DOMAIN stack[g] = 1..Len(stack[g]) /\ top(g) = stack[g][k + 1] /\ k + 1 \in DOMAIN stack[g]
  BY SeqFacts, TopFacts DEF Moves
<1>2. SUFFICES ASSUME NEW h \in Goroutines, NEW n \in DOMAIN stack'[h], stack'[h][n].fn = "validate"
               PROVE  phase = "validating" /\ \A e \in Goroutines \ {h} : stack'[e] = <<>>
  BY DEF Alone
<1>3. CASE h # g
  <2>1. n \in DOMAIN stack[h] /\ stack[h][n].fn = "validate"
    BY <1>2, <1>3 DEF Moves
  <2> QED
    BY <1>3, <2>1 DEF ShapeStacks, Alone
<1>4. CASE h = g
  <2>1. n = 1
    BY <1>2 DEF CallsOK, CalledBy
  <2>2. 1 \in DOMAIN stack[g] /\ stack[g][1].fn = "validate"
    <3>1. CASE k = 0
      BY <1>1, <1>2, <1>4, <2>1, <3>1
    <3>2. CASE k # 0
      <4>1. 1 \in 1..k
        BY <1>1, <3>2, NatFacts, Zenon
      <4> QED
        BY <1>1, <1>2, <1>4, <2>1, <4>1 DEF Moves
    <3> QED
      BY <3>1, <3>2
  <2> QED
    BY <1>4, <2>2 DEF ShapeStacks, Alone, Moves
<1> QED
  BY <1>3, <1>4

\* Stacks after Goto.
LEMMA GotoStep ==
  ASSUME ShapeStacks, NEW g \in Goroutines, stack[g] # <<>>, NEW f, Goto(g, f), Grows, phase' = phase,
         FrameOK(f)', Replaces(f, top(g))
  PROVE  ShapeStacks'
<1>0. PICK n : n = Len(stack[g])
  OBVIOUS
<1>1. Moves(g, n - 1, 1) /\ stack'[g][n] = f /\ DOMAIN ret' = Goroutines
  BY <1>0, GotoMoves DEF ShapeStacks
<1>2. n \in Nat \ {0} /\ (n = 1 => top(g).fn \in Bottoms) /\ (n # 1 => CalledBy(stack[g][n - 1], top(g)))
  BY <1>0, TopFacts
<1>3. PICK k : k = n - 1
  OBVIOUS
<1>4. k \in Nat /\ k + 1 = n /\ k <= Len(stack[g]) /\ (k = 0 <=> n = 1) /\ (k # 0 => k \in 1..k)
  BY <1>0, <1>2, <1>3, NatFacts, Zenon
<1>5. FrameOK(stack[g][k + 1])'
  BY <1>1, <1>4
<1>6. k # 0 => stack'[g][k] = stack[g][k] /\ CalledBy(stack[g][k], top(g))
  BY <1>1, <1>2, <1>3, <1>4 DEF Moves
<1>7. (k = 0 => f.fn \in Bottoms) /\ (k # 0 => CalledBy(stack'[g][k], f))
  BY <1>2, <1>4, <1>6, ReplacedIsCalled DEF Replaces, Bottoms
<1>8. StacksAre' /\ FramesOK' /\ CallsOK'
  BY <1>1, <1>3, <1>4, <1>5, <1>7, StackStep
<1>9. Alone'
  BY <1>0, <1>1, <1>3, <1>4, <1>8, AloneStays DEF Replaces
<1> QED
  BY <1>8, <1>9 DEF ShapeStacks

\* Stacks after Call.
LEMMA CallStep ==
  ASSUME ShapeStacks, NEW g \in Goroutines, stack[g] # <<>>, NEW f, NEW f2, Call(g, f, f2), Grows,
         phase' = phase, FrameOK(f)', FrameOK(f2)', f.fn = top(g).fn, CalledBy(f, f2)
  PROVE  ShapeStacks'
<1>0. PICK n : n = Len(stack[g])
  OBVIOUS
<1>1. Moves(g, n - 1, 2) /\ stack'[g][n] = f /\ stack'[g][n + 1] = f2 /\ DOMAIN ret' = Goroutines
  BY <1>0, CallMoves DEF ShapeStacks
<1>2. n \in Nat \ {0} /\ (n = 1 => top(g).fn \in Bottoms) /\ (n # 1 => CalledBy(stack[g][n - 1], top(g)))
  BY <1>0, TopFacts
<1>3. PICK k : k = n - 1
  OBVIOUS
<1>4. /\ k \in Nat /\ k + 1 = n /\ k + 2 = n + 1 /\ k <= Len(stack[g]) /\ (k = 0 <=> n = 1)
      /\ (k # 0 => k \in 1..k)
  BY <1>0, <1>2, <1>3, NatFacts, Zenon
<1>5. FrameOK(stack[g][k + 1])' /\ FrameOK(stack[g][k + 2])'
  BY <1>1, <1>4
<1>6. k # 0 => stack'[g][k] = stack[g][k] /\ CalledBy(stack[g][k], top(g))
  BY <1>1, <1>2, <1>3, <1>4 DEF Moves
<1>7. (k = 0 => f.fn \in Bottoms) /\ (k # 0 => CalledBy(stack'[g][k], f))
  BY <1>2, <1>4, <1>6, ReplacedIsCalled DEF Replaces, Bottoms
<1>8. StacksAre' /\ FramesOK' /\ CallsOK'
  BY <1>1, <1>3, <1>4, <1>5, <1>7, StackStep
<1>9. Alone'
  BY <1>0, <1>1, <1>3, <1>4, <1>8, AloneStays
<1> QED
  BY <1>8, <1>9 DEF ShapeStacks

\* Stacks after Return.
LEMMA ReturnStep ==
  ASSUME ShapeStacks, NEW g \in Goroutines, stack[g] # <<>>, NEW r, Return(g, r), Grows
  PROVE  StacksAre' /\ FramesOK' /\ CallsOK' /\ (phase' = phase => ShapeStacks')
<1>0. PICK n : n = Len(stack[g])
  OBVIOUS
<1>1. Moves(g, n - 1, 0) /\ DOMAIN ret' = Goroutines
  BY <1>0, ReturnMoves DEF ShapeStacks
<1>2. n \in Nat \ {0}
  BY <1>0, TopFacts
<1>3. PICK k : k = n - 1
  OBVIOUS
<1>4. k \in Nat /\ k <= Len(stack[g]) /\ ~(0 >= 1) /\ 0 # 2
  BY <1>0, <1>2, <1>3
<1>8. StacksAre' /\ FramesOK' /\ CallsOK'
  BY <1>1, <1>3, <1>4, StackStep
<1>9. ASSUME phase' = phase PROVE Alone'
  BY <1>0, <1>1, <1>3, <1>4, <1>8, <1>9, AloneStays
<1> QED
  BY <1>8, <1>9 DEF ShapeStacks

\* A goroutine that does nothing makes a call.
LEMMA StartStep ==
  ASSUME ShapeStacks, NEW g \in Goroutines, NEW f, stack' = [stack EXCEPT ![g] = <<f>>], Grows,
         DOMAIN ret' = Goroutines, FrameOK(f)', f.fn \in Bottoms
  PROVE  StacksAre' /\ FramesOK' /\ CallsOK'
<1>1. Moves(g, 0, 1) /\ stack'[g][1] = f
  BY StartMoves DEF ShapeStacks
<1>2. 0 <= Len(stack[g]) /\ 0 + 1 = 1 /\ 1 # 2
  BY SeqFacts DEF ShapeStacks, StacksAre
<1>3. FrameOK(stack[g][1])'
  BY <1>1
<1> QED
  BY <1>1, <1>2, <1>3, StackStep

-----------------------------------------------------------------------------
(* The shape of the state                                                  *)

\* Call sites that do not change.
LEMMA SitesStay ==
  ASSUME SitesOK, UNCHANGED <<descriptors, callSiteCache, sites, realized>>,
         IsSeq(siteLock'), Len(siteLock') = Len(siteLock)
  PROVE  SitesOK'
BY DEF SitesOK, SiteOK

\* The builder when its variables do not change.
LEMMA BuildingStays ==
  ASSUME BuildingOK, phase # "building", UNCHANGED <<plan, descriptors>>, DOMAIN typeLock' = DOMAIN typeLock,
         phase' \in {"validating", "built", "panicked"}
  PROVE  BuildingOK'
BY DEF BuildingOK, Types

\* Scopes that do not change.
LEMMA ScopesStay ==
  ASSUME ScopesOK, DOMAIN scopeLock' = DOMAIN scopeLock, DOMAIN resolved' = DOMAIN resolved,
         DOMAIN disposables' = AllScopes, \A s \in AllScopes : IsSeq(disposables'[s]),
         UNCHANGED <<created, disposed, cleared>>
  PROVE  ScopesOK'
BY DEF ScopesOK

\* A goroutine with a frame runs after Build has begun.
LEMMA Running ==
  ASSUME ShapeInv, NEW g \in Goroutines, stack[g] # <<>>
  PROVE  phase # "building" /\ phase \in {"validating", "built", "panicked"}
BY DEF ShapeInv, BuildingOK

\* A step that changes no more than stacks and results.
LEMMA RestStays ==
  ASSUME ShapeInv, NEW g \in Goroutines, stack[g] # <<>>,
         UNCHANGED <<plan, phase, descriptors, callSites, realized, created, disposed, cleared>>,
         DOMAIN typeLock' = DOMAIN typeLock, DOMAIN scopeLock' = DOMAIN scopeLock,
         DOMAIN resolved' = DOMAIN resolved, UNCHANGED disposables, IsSeq(siteLock'), Len(siteLock') = Len(siteLock)
  PROVE  BuildingOK' /\ SitesOK' /\ ScopesOK' /\ Grows /\ phase' = phase
<1>1. BuildingOK'
  BY Running, BuildingStays DEF ShapeInv
<1>2. SitesOK' /\ ScopesOK'
  BY SitesStay, ScopesStay DEF ShapeInv, callSites, ScopesOK
<1>3. Grows
  BY DEF Grows, callSites, Types
<1> QED
  BY <1>1, <1>2, <1>3

\* A step that leaves builder, call sites and scopes alone.
LEMMA QuietStays ==
  ASSUME ShapeInv, NEW g \in Goroutines, stack[g] # <<>>,
         UNCHANGED <<builder, callSites, locks, accessors, scopeVars>>
  PROVE  BuildingOK' /\ SitesOK' /\ ScopesOK' /\ Grows /\ phase' = phase
BY RestStays DEF builder, locks, accessors, scopeVars, ShapeInv, SitesOK

\* The shape after Goto.
LEMMA GotoShape ==
  ASSUME ShapeInv, NEW g \in Goroutines, stack[g] # <<>>, NEW f, Goto(g, f), Grows, phase' = phase,
         FrameOK(f)', Replaces(f, top(g)), f.pc \notin Awaiting
  PROVE  ShapeStacks' /\ ReturnsSite'
<1>0. PICK n : n = Len(stack[g])
  OBVIOUS
<1>1. ShapeStacks'
  BY GotoStep DEF ShapeInv
<1>2. /\ Moves(g, n - 1, 1) /\ stack'[g][n] = f /\ (\A h \in Goroutines \ {g} : ret'[h] = ret[h])
      /\ n \in Nat \ {0}
  BY <1>0, GotoMoves, TopFacts DEF ShapeInv, ShapeStacks
<1>3. top(g)' = f
  BY <1>2, NatFacts DEF top, Moves
<1>4. \A h \in Goroutines \ {g} : top(h)' = top(h) /\ stack'[h] = stack[h]
  BY <1>2 DEF top, Moves
<1> QED
  BY <1>1, <1>2, <1>3, <1>4 DEF ReturnsSite, ShapeInv, Grows

\* The shape after Call.
LEMMA CallShape ==
  ASSUME ShapeInv, NEW g \in Goroutines, stack[g] # <<>>, NEW f, NEW f2, Call(g, f, f2), Grows,
         phase' = phase, FrameOK(f)', FrameOK(f2)', f.fn = top(g).fn, CalledBy(f, f2), f2.pc = "enter"
  PROVE  ShapeStacks' /\ ReturnsSite'
<1>0. PICK n : n = Len(stack[g])
  OBVIOUS
<1>1. ShapeStacks'
  BY CallStep DEF ShapeInv
<1>2. /\ Moves(g, n - 1, 2) /\ stack'[g][n + 1] = f2 /\ (\A h \in Goroutines \ {g} : ret'[h] = ret[h])
      /\ n \in Nat \ {0}
  BY <1>0, CallMoves, TopFacts DEF ShapeInv, ShapeStacks
<1>3. top(g)' = f2
  BY <1>2, NatFacts DEF top, Moves
<1>4. \A h \in Goroutines \ {g} : top(h)' = top(h) /\ stack'[h] = stack[h]
  BY <1>2 DEF top, Moves
<1> QED
  BY <1>1, <1>2, <1>3, <1>4 DEF ReturnsSite, ShapeInv, Grows, Awaiting

\* The shape after Return.
LEMMA ReturnShape ==
  ASSUME ShapeInv, NEW g \in Goroutines, stack[g] # <<>>, NEW r, Return(g, r), Grows,
         top(g).fn \in {"site", "exact", "slice"} => (r.ok => r.site \in DOMAIN sites')
  PROVE  (phase' = phase => ShapeStacks') /\ ReturnsSite' /\ StacksAre' /\ FramesOK' /\ CallsOK'
<1>0. PICK n : n = Len(stack[g])
  OBVIOUS
<1>1. (phase' = phase => ShapeStacks') /\ StacksAre' /\ FramesOK' /\ CallsOK'
  BY ReturnStep DEF ShapeInv
<1>2. /\ Moves(g, n - 1, 0) /\ ret'[g] = r /\ (\A h \in Goroutines \ {g} : ret'[h] = ret[h])
      /\ n \in Nat \ {0} /\ (n # 1 => CalledBy(stack[g][n - 1], top(g)))
  BY <1>0, ReturnMoves, TopFacts DEF ShapeInv, ShapeStacks
<1>3. n - 1 \in Nat /\ (n - 1) + 0 = n - 1 /\ (n # 1 => n - 1 \in 1..n - 1) /\ (n = 1 => n - 1 = 0)
  BY <1>2
<1>4. (n # 1 => top(g)' = stack[g][n - 1]) /\ (n = 1 => stack'[g] = <<>>)
  BY <1>2, <1>3, SeqFacts DEF top, Moves
<1>5. \A h \in Goroutines \ {g} : top(h)' = top(h) /\ stack'[h] = stack[h]
  BY <1>2 DEF top, Moves
<1>6. ASSUME stack'[g] # <<>>, top(g)'.pc \in Awaiting, r.ok PROVE r.site \in DOMAIN sites'
  <2>1. CalledBy(stack[g][n - 1], top(g)) /\ stack[g][n - 1].pc \in Awaiting
    BY <1>2, <1>4, <1>6
  <2>2. top(g).fn \in {"site", "exact", "slice"}
    BY <2>1 DEF CalledBy, Awaiting
  <2> QED
    BY <1>6, <2>2
<1> QED
  BY <1>1, <1>2, <1>5, <1>6 DEF ReturnsSite, ShapeInv, Grows

\* What a new frame looks like.
LEMMA SiteFrame ==
  ASSUME NEW t, NEW f, f = siteFrame(t)
  PROVE  /\ IsFrame(f) /\ f.fn = "site" /\ f.pc = "enter" /\ f.t = t /\ f.acc = <<>> /\ f.scope = Root
         /\ t \in Types => FrameOK(f)
<1>1. /\ IsFrame(f) /\ f.fn = "site" /\ f.pc = "enter" /\ f.t = t /\ f.acc = <<>> /\ f.scope = Root
      /\ f.held = FALSE /\ f.nilMap = FALSE
  BY DEF siteFrame, Frame, IsFrame
<1>2. IsSeq(f.acc) /\ DOMAIN f.acc = {} /\ f.scope \in AllScopes
  BY <1>1, EmptySeq DEF AllScopes
<1> QED
  BY <1>1, <1>2 DEF FrameOK

\* The fields of a new frame of createSlice.
LEMMA SliceFrame ==
  ASSUME NEW t, NEW f, f = sliceFrame(t)
  PROVE  /\ IsFrame(f) /\ f.fn = "slice" /\ f.pc = "enter" /\ f.t = t /\ f.acc = <<>> /\ f.scope = Root
         /\ t \in DOMAIN Elem => FrameOK(f)
<1>1. /\ IsFrame(f) /\ f.fn = "slice" /\ f.pc = "enter" /\ f.t = t /\ f.acc = <<>> /\ f.scope = Root
      /\ f.held = FALSE /\ f.nilMap = FALSE /\ f.d = 0
  BY DEF sliceFrame, Frame, IsFrame
<1>2. IsSeq(f.acc) /\ DOMAIN f.acc = {} /\ f.scope \in AllScopes /\ f.d \in Nat
  BY <1>1, EmptySeq DEF AllScopes
<1> QED
  BY <1>1, <1>2 DEF FrameOK

\* The fields of a new frame of tryCreateExact.
LEMMA ExactFrame ==
  ASSUME NEW d, NEW slot, NEW f, f = exactFrame(d, slot)
  PROVE  /\ IsFrame(f) /\ f.fn = "exact" /\ f.pc = "enter" /\ f.d = d /\ f.slot = slot /\ f.acc = <<>>
         /\ f.scope = Root
         /\ d \in DOMAIN descriptors => FrameOK(f)
<1>1. /\ IsFrame(f) /\ f.fn = "exact" /\ f.pc = "enter" /\ f.d = d /\ f.slot = slot /\ f.acc = <<>>
      /\ f.scope = Root /\ f.held = FALSE /\ f.nilMap = FALSE
  BY DEF exactFrame, Frame, IsFrame
<1>2. IsSeq(f.acc) /\ DOMAIN f.acc = {} /\ f.scope \in AllScopes
  BY <1>1, EmptySeq DEF AllScopes
<1> QED
  BY <1>1, <1>2 DEF FrameOK

\* The fields of a new frame of visitCallSite.
LEMMA VisitFrame ==
  ASSUME NEW c, NEW s, NEW f, f = visitFrame(c, s)
  PROVE  /\ IsFrame(f) /\ f.fn = "visit" /\ f.pc = "enter" /\ f.site = c /\ f.scope = s /\ ~f.held
         /\ f.acc = <<>>
         /\ c \in DOMAIN sites /\ s \in AllScopes => FrameOK(f)
<1>1. /\ IsFrame(f) /\ f.fn = "visit" /\ f.pc = "enter" /\ f.site = c /\ f.scope = s /\ f.held = FALSE
      /\ f.acc = <<>> /\ f.nilMap = FALSE
  BY DEF visitFrame, Frame, IsFrame
<1>2. IsSeq(f.acc) /\ DOMAIN f.acc = {}
  BY <1>1, EmptySeq
<1> QED
  BY <1>1, <1>2 DEF FrameOK

\* The fields of a new frame of GetWithScope.
LEMMA GetFrame ==
  ASSUME NEW t, NEW key, NEW s, NEW f, f = getFrame(t, key, s)
  PROVE  /\ IsFrame(f) /\ f.fn = "get" /\ f.pc = "enter" /\ f.t = t /\ f.key = key /\ f.scope = s /\ f.acc = <<>>
         /\ t \in Types /\ s \in AllScopes => FrameOK(f)
<1>1. /\ IsFrame(f) /\ f.fn = "get" /\ f.pc = "enter" /\ f.t = t /\ f.key = key /\ f.scope = s
      /\ f.acc = <<>> /\ f.held = FALSE /\ f.nilMap = FALSE
  BY DEF getFrame, Frame, IsFrame
<1>2. IsSeq(f.acc) /\ DOMAIN f.acc = {}
  BY <1>1, EmptySeq
<1> QED
  BY <1>1, <1>2 DEF FrameOK

\* A frame that goes on elsewhere, with nothing else changed.
Goes(f, e, pc) ==
    /\ IsFrame(f) /\ f.pc = pc /\ f.fn = e.fn /\ f.t = e.t /\ f.key = e.key /\ f.d = e.d /\ f.slot = e.slot
    /\ f.site = e.site /\ f.scope = e.scope /\ f.held = e.held /\ f.nilMap = e.nilMap /\ f.acc = e.acc

\* A frame whose pc alone changes stays right.
LEMMA GoesOK ==
  ASSUME NEW f, NEW e, NEW pc, FrameOK(e), Goes(f, e, pc), pc \notin {"value", "access"}
  PROVE  FrameOK(f) /\ f.fn = e.fn /\ f.pc = pc
BY DEF FrameOK, Goes

\* A goroutine at some place has a top frame, and it is right.
LEMMA AtFacts ==
  ASSUME ShapeInv, NEW g \in Goroutines, NEW fn, NEW pc, At(g, fn, pc)
  PROVE  stack[g] # <<>> /\ FrameOK(top(g)) /\ IsFrame(top(g)) /\ top(g).fn = fn /\ top(g).pc = pc
BY TopFacts DEF At, ShapeInv, FrameOK

\* GetCallSite keeps the shape of the state.
LEMMA GetCallSiteShape ==
  ASSUME ShapeInv, NEW g \in Goroutines, GetCallSite(g)
  PROVE  ShapeInv'
<1>1. PICK f : f = top(g)
  OBVIOUS
<1>2. stack[g] # <<>> /\ FrameOK(f) /\ IsFrame(f) /\ f.fn = "site" /\ f.pc = "enter"
  BY <1>1, AtFacts DEF GetCallSite
<1>3. BuildingOK' /\ SitesOK' /\ ScopesOK' /\ Grows /\ phase' = phase
  BY <1>2, QuietStays DEF GetCallSite
<1>4. CASE Return(g, Site(callSiteCache[<<f.t, 0>>])) /\ <<f.t, 0>> \in DOMAIN callSiteCache
  <2>1. PICK r : r = Site(callSiteCache[<<f.t, 0>>])
    OBVIOUS
  <2>2. r.site \in DOMAIN sites'
    BY <1>3, <1>4, <2>1 DEF ShapeInv, SitesOK, Site, Grows
  <2> QED
    BY <1>2, <1>3, <1>4, <2>1, <2>2, ReturnShape DEF ShapeInv
<1>5. CASE Return(g, Err)
  <2>1. Err.ok = FALSE
    BY DEF Err
  <2> QED
    BY <1>2, <1>3, <1>5, <2>1, ReturnShape DEF ShapeInv
<1>6. CASE Goto(g, [f EXCEPT !.pc = "lock"])
  <2>1. PICK e : e = [f EXCEPT !.pc = "lock"]
    OBVIOUS
  <2>a. Goes(e, f, "lock")
    BY <1>2, <2>1 DEF IsFrame, Goes
  <2>2. FrameOK(e) /\ e.fn = "site" /\ e.pc = "lock"
    BY <1>2, <2>a, GoesOK
  <2>3. FrameOK(e)'
    BY <1>3, <2>2, FrameStays
  <2> QED
    BY <1>1, <1>2, <1>3, <1>6, <2>1, <2>2, <2>3, GotoShape DEF ShapeInv, Awaiting, Replaces
<1> QED
  BY <1>1, <1>4, <1>5, <1>6 DEF GetCallSite

\* Every type of a constructor's parameter is a known type.
LEMMA TypesHave ==
  /\ \A r \in plan.ask : r.type \in Types
  /\ \A i \in DOMAIN descriptors : \A n \in DOMAIN descriptors[i].in : descriptors[i].in[n] \in Types
BY DEF Types

\* Last is the greatest descriptor of a set.
LEMMA LastFacts ==
  ASSUME IsSeq(descriptors), NEW ds \in SUBSET DOMAIN descriptors, ds # {}
  PROVE  Last(ds) \in ds /\ \A j \in ds : j <= Last(ds)
<1>1. ds \in SUBSET (1..Len(descriptors)) /\ Len(descriptors) \in Nat
  BY SeqFacts
<1>2. \E i \in ds : \A j \in ds : j <= i
  BY <1>1, GreatestExists
<1> QED
  BY <1>2 DEF Last

\* createCallSite keeps the shape of the state.
LEMMA createCallSiteShape ==
  ASSUME ShapeInv, NEW g \in Goroutines, createCallSite(g)
  PROVE  ShapeInv'
<1>1. PICK f : f = top(g)
  OBVIOUS
<1>2. stack[g] # <<>> /\ FrameOK(f) /\ IsFrame(f) /\ f.fn = "site" /\ f.pc = "lock"
  BY <1>1, AtFacts DEF createCallSite
<1>3. BuildingOK' /\ SitesOK' /\ ScopesOK' /\ Grows /\ phase' = phase
  <2>1. DOMAIN typeLock' = DOMAIN typeLock
    BY DEF createCallSite
  <2> QED
    BY <1>2, <2>1, RestStays DEF createCallSite, builder, locks, accessors, scopeVars, ShapeInv, SitesOK
<1>4. CASE Return(g, Err)
  <2>1. Err.ok = FALSE
    BY DEF Err
  <2> QED
    BY <1>2, <1>3, <1>4, <2>1, ReturnShape DEF ShapeInv
<1>5. ASSUME NEW e, e = [f EXCEPT !.pc = "made"], NEW e2, Call(g, e, e2), FrameOK(e2),
             e2.fn \in {"exact", "slice"}, e2.pc = "enter"
      PROVE  ShapeInv'
  <2>a. Goes(e, f, "made")
    BY <1>2, <1>5 DEF IsFrame, Goes
  <2>1. FrameOK(e) /\ e.fn = "site" /\ e.pc = "made"
    BY <1>2, <2>a, GoesOK
  <2>2. FrameOK(e)' /\ FrameOK(e2)'
    BY <1>3, <1>5, <2>1, FrameStays
  <2>3. CalledBy(e, e2)
    BY <1>5, <2>1 DEF CalledBy
  <2> QED
    BY <1>1, <1>2, <1>3, <1>5, <2>1, <2>2, <2>3, CallShape DEF ShapeInv
<1>6. PICK ds : ds = Registered(f.t)
  OBVIOUS
<1>7. CASE ds # {} /\ Call(g, [f EXCEPT !.pc = "made"], exactFrame(Last(ds), 0))
  <2>1. Last(ds) \in DOMAIN descriptors
    BY <1>6, <1>7, LastFacts DEF ShapeInv, BuildingOK, Registered
  <2>2. PICK e2 : e2 = exactFrame(Last(ds), 0)
    OBVIOUS
  <2> QED
    BY <1>5, <1>7, <2>1, <2>2, ExactFrame
<1>8. CASE f.t \in DOMAIN Elem /\ Call(g, [f EXCEPT !.pc = "made"], sliceFrame(f.t))
  BY <1>5, <1>8, SliceFrame
<1> QED
  BY <1>1, <1>4, <1>6, <1>7, <1>8 DEF createCallSite

\* createCallSiteReturns keeps the shape of the state.
LEMMA createCallSiteReturnsShape ==
  ASSUME ShapeInv, NEW g \in Goroutines, createCallSiteReturns(g)
  PROVE  ShapeInv'
<1>2. stack[g] # <<>> /\ top(g).pc = "made"
  BY AtFacts DEF createCallSiteReturns
<1>3. BuildingOK' /\ SitesOK' /\ ScopesOK' /\ Grows /\ phase' = phase
  <2>1. DOMAIN typeLock' = DOMAIN typeLock
    BY DEF createCallSiteReturns
  <2> QED
    BY <1>2, <2>1, RestStays DEF createCallSiteReturns, builder, locks, accessors, scopeVars, ShapeInv, SitesOK
<1>4. ret[g].ok => ret[g].site \in DOMAIN sites'
  BY <1>2, <1>3 DEF ShapeInv, ReturnsSite, Awaiting, Grows
<1> QED
  BY <1>2, <1>3, <1>4, ReturnShape DEF ShapeInv, createCallSiteReturns

\* NextArgument keeps the shape of the state.
LEMMA NextArgumentShape ==
  ASSUME ShapeInv, NEW g \in Goroutines, stack[g] # <<>>, NEW f, FrameOK(f), f.fn = "exact", top(g).fn = "exact",
         NextArgument(g, f), Grows, phase' = phase
  PROVE  ShapeStacks' /\ ReturnsSite'
<1>0. IsFrame(f) /\ f.d \in DOMAIN descriptors /\ IsSeq(f.acc)
  BY DEF FrameOK
<1>1. CASE Call(g, [f EXCEPT !.pc = "arg"], siteFrame(descriptors[f.d].in[Len(f.acc) + 1]))
           /\ Len(f.acc) < Len(descriptors[f.d].in)
  <2>1. PICK e : e = [f EXCEPT !.pc = "arg"]
    OBVIOUS
  <2>2. PICK t : t = descriptors[f.d].in[Len(f.acc) + 1]
    OBVIOUS
  <2>3. PICK e2 : e2 = siteFrame(t)
    OBVIOUS
  <2>4. t \in Types
    <3>1. IsSeq(descriptors[f.d].in)
      BY <1>0 DEF ShapeInv, BuildingOK, DescriptorOK, IsSeq
    <3>2. Len(f.acc) + 1 \in DOMAIN descriptors[f.d].in
      BY <1>0, <1>1, <3>1, SeqFacts
    <3> QED
      BY <1>0, <2>2, <3>2, TypesHave
  <2>a. Goes(e, f, "arg")
    BY <1>0, <2>1 DEF IsFrame, Goes
  <2>5. FrameOK(e) /\ e.fn = "exact" /\ e.pc = "arg" /\ FrameOK(e2) /\ e2.fn = "site" /\ e2.pc = "enter"
    BY <2>3, <2>4, <2>a, GoesOK, SiteFrame
  <2>6. FrameOK(e)' /\ FrameOK(e2)' /\ CalledBy(e, e2)
    BY <2>5, FrameStays DEF CalledBy
  <2> QED
    BY <1>1, <2>1, <2>2, <2>3, <2>5, <2>6, CallShape
<1>2. CASE Goto(g, [f EXCEPT !.pc = "store"])
  <2>1. PICK e : e = [f EXCEPT !.pc = "store"]
    OBVIOUS
  <2>a. Goes(e, f, "store")
    BY <1>0, <2>1 DEF IsFrame, Goes
  <2>2. FrameOK(e) /\ e.fn = "exact" /\ e.pc = "store"
    BY <2>a, GoesOK
  <2>3. FrameOK(e)' /\ Replaces(e, top(g))
    BY <2>2, FrameStays DEF Replaces
  <2> QED
    BY <1>2, <2>1, <2>2, <2>3, GotoShape DEF Awaiting
<1> QED
  BY <1>1, <1>2 DEF NextArgument

\* A frame with one more result.
LEMMA AccFrame ==
  ASSUME NEW e, FrameOK(e), NEW v, NEW f, f = [e EXCEPT !.acc = Append(@, v)],
         e.fn \in {"exact", "slice"} => v \in DOMAIN sites
  PROVE  FrameOK(f) /\ f.fn = e.fn /\ f.pc = e.pc /\ f.acc = Append(e.acc, v) /\ f.d = e.d /\ f.slot = e.slot /\ f.t = e.t
<1>1. IsFrame(e) /\ IsSeq(e.acc)
  BY DEF FrameOK
<1>2. /\ IsFrame(f) /\ f.pc = e.pc /\ f.fn = e.fn /\ f.t = e.t /\ f.key = e.key /\ f.d = e.d /\ f.slot = e.slot
      /\ f.site = e.site /\ f.scope = e.scope /\ f.held = e.held /\ f.nilMap = e.nilMap /\ f.acc = Append(e.acc, v)
  BY <1>1 DEF IsFrame
<1>3. IsSeq(f.acc) /\ \A n \in DOMAIN f.acc : (n \in DOMAIN e.acc /\ f.acc[n] = e.acc[n]) \/ f.acc[n] = v
  BY <1>1, <1>2, AppendFacts, SeqFacts
<1> QED
  BY <1>2, <1>3 DEF FrameOK

\* tryCreateExact keeps the shape of the state.
LEMMA tryCreateExactShape ==
  ASSUME ShapeInv, NEW g \in Goroutines, tryCreateExact(g)
  PROVE  ShapeInv'
<1>1. PICK f : f = top(g)
  OBVIOUS
<1>2. stack[g] # <<>> /\ FrameOK(f) /\ f.fn = "exact"
  BY <1>1, AtFacts DEF tryCreateExact
<1>3. BuildingOK' /\ SitesOK' /\ ScopesOK' /\ Grows /\ phase' = phase
  BY <1>2, QuietStays DEF tryCreateExact
<1>4. ASSUME NEW r, Return(g, r), r.ok => r.site \in DOMAIN sites PROVE ShapeInv'
  BY <1>2, <1>3, <1>4, ReturnShape DEF ShapeInv, Grows
<1>5. CASE Return(g, Err)
  BY <1>4, <1>5 DEF Err
<1>6. ASSUME NEW key \in DOMAIN callSiteCache, Return(g, Site(callSiteCache[key])) PROVE ShapeInv'
  <2>1. PICK r : r = Site(callSiteCache[key])
    OBVIOUS
  <2>2. r.site \in DOMAIN sites
    BY <1>6, <2>1 DEF ShapeInv, SitesOK, Site
  <2> QED
    BY <1>4, <1>6, <2>1, <2>2
<1>7. CASE NextArgument(g, f)
  BY <1>1, <1>2, <1>3, <1>7, NextArgumentShape DEF ShapeInv
<1>8. CASE At(g, "exact", "arg") /\ ret[g].ok /\ NextArgument(g, [f EXCEPT !.acc = Append(@, ret[g].site)])
  <2>1. PICK v : v = ret[g].site
    OBVIOUS
  <2>2. PICK e : e = [f EXCEPT !.acc = Append(@, v)]
    OBVIOUS
  <2>3. v \in DOMAIN sites
    BY <1>2, <1>8, <2>1 DEF ShapeInv, ReturnsSite, Awaiting, At
  <2>4. FrameOK(e) /\ e.fn = "exact"
    BY <1>2, <2>2, <2>3, AccFrame
  <2> QED
    BY <1>1, <1>2, <1>3, <1>8, <2>1, <2>2, <2>4, NextArgumentShape DEF ShapeInv
<1> QED
  BY <1>1, <1>5, <1>6, <1>7, <1>8 DEF tryCreateExact

\* A call site is added.
LEMMA SiteAdded ==
  ASSUME ShapeInv, NEW c, sites' = Append(sites, c), siteLock' = Append(siteLock, None), IsSite(c),
         c.kind \in OfDescriptor \union {"slice"}, IsSeq(c.params),
         \A n \in DOMAIN c.params : c.params[n] \in DOMAIN sites,
         c.kind \in OfDescriptor =>
           /\ c.d \in DOMAIN descriptors /\ c.kind = descriptors[c.d].kind
           /\ c.type = descriptors[c.d].type /\ c.loc = CacheLocation(descriptors[c.d]),
         UNCHANGED <<descriptors, realized>>,
         \A k \in DOMAIN callSiteCache' : callSiteCache'[k] \in DOMAIN sites \union {Len(sites) + 1}
  PROVE  /\ SitesOK' /\ DOMAIN sites \subseteq DOMAIN sites' /\ Len(sites) + 1 \in DOMAIN sites'
         /\ \A e \in DOMAIN sites : sites'[e] = sites[e] /\ siteLock'[e] = siteLock[e]
         /\ sites'[Len(sites) + 1] = c /\ siteLock'[Len(sites) + 1] = None
         /\ DOMAIN sites' = DOMAIN sites \union {Len(sites) + 1} /\ Len(sites) + 1 \notin DOMAIN sites
<1>1. /\ IsSeq(sites) /\ IsSeq(siteLock) /\ Len(siteLock) = Len(sites) /\ Len(sites) \in Nat /\ DOMAIN sites = 1..Len(sites)
      /\ DOMAIN siteLock = 1..Len(sites)
  BY SeqFacts DEF ShapeInv, SitesOK
<1>2. /\ IsSeq(sites') /\ Len(sites') = Len(sites) + 1 /\ DOMAIN sites' = 1..Len(sites) + 1
      /\ (\A e \in 1..Len(sites) : sites'[e] = sites[e]) /\ sites'[Len(sites) + 1] = c
  BY <1>1, AppendFacts, SeqFacts
<1>3. /\ IsSeq(siteLock') /\ Len(siteLock') = Len(siteLock) + 1
      /\ (\A e \in 1..Len(sites) : siteLock'[e] = siteLock[e]) /\ siteLock'[Len(sites) + 1] = None
  BY <1>1, AppendFacts
<1>4. DOMAIN sites' = DOMAIN sites \union {Len(sites) + 1} /\ Len(sites) + 1 \notin DOMAIN sites
  BY <1>1, <1>2
<1>5. ASSUME NEW e \in DOMAIN sites' PROVE SiteOK(e)'
  <2>1. CASE e \in DOMAIN sites
    <3>1. SiteOK(e) /\ sites'[e] = sites[e]
      BY <1>1, <1>2, <2>1 DEF ShapeInv, SitesOK
    <3> QED
      BY <3>1 DEF SiteOK
  <2>2. CASE e = Len(sites) + 1
    <3>1. sites'[e] = c /\ 1..e-1 = DOMAIN sites
      BY <1>1, <1>2, <2>2
    <3> QED
      BY <3>1 DEF SiteOK
  <2> QED
    BY <1>4, <2>1, <2>2
<1>6. SitesOK'
  BY <1>1, <1>2, <1>3, <1>4, <1>5 DEF SitesOK, ShapeInv
<1> QED
  BY <1>1, <1>2, <1>3, <1>4, <1>6

\* storeCallSite keeps the shape of the state.
LEMMA storeCallSiteShape ==
  ASSUME ShapeInv, NEW g \in Goroutines, storeCallSite(g)
  PROVE  ShapeInv'
<1>1. PICK f : f = top(g)
  OBVIOUS
<1>2. stack[g] # <<>> /\ FrameOK(f) /\ f.fn = "exact"
  BY <1>1, AtFacts DEF storeCallSite
<1>3. PICK d : d = descriptors[f.d]
  OBVIOUS
<1>4. PICK c : c = newCallSite(d.kind, d.type, f.d, f.acc, CacheLocation(d), f.slot)
  OBVIOUS
<1>5. /\ sites' = Append(sites, c) /\ siteLock' = Append(siteLock, None)
      /\ callSiteCache' = With(callSiteCache, <<d.type, f.slot>>, Len(sites) + 1)
      /\ Return(g, Site(Len(sites) + 1))
      /\ UNCHANGED <<builder, typeLock, scopeLock, accessors, scopeVars, instances, calls>>
  BY <1>1, <1>3, <1>4 DEF storeCallSite
<1>6. /\ IsSite(c) /\ c.kind = d.kind /\ c.type = d.type /\ c.d = f.d /\ c.params = f.acc /\ c.loc = CacheLocation(d)
  BY <1>4 DEF newCallSite, IsSite
<1>7. f.d \in DOMAIN descriptors /\ d.kind \in OfDescriptor /\ IsSeq(f.acc) /\ \A n \in DOMAIN f.acc : f.acc[n] \in DOMAIN sites
  BY <1>2, <1>3 DEF FrameOK, ShapeInv, BuildingOK, DescriptorOK, OfDescriptor
<1>8. \A k \in DOMAIN callSiteCache' : callSiteCache'[k] \in DOMAIN sites \union {Len(sites) + 1}
  BY <1>5 DEF With, ShapeInv, SitesOK
<1>9. SitesOK' /\ DOMAIN sites \subseteq DOMAIN sites' /\ Len(sites) + 1 \in DOMAIN sites'
  BY <1>3, <1>5, <1>6, <1>7, <1>8, SiteAdded DEF builder, accessors
<1>10. Grows /\ phase' = phase /\ ScopesOK' /\ BuildingOK'
  <2>1. Grows
    BY <1>5, <1>9 DEF Grows, Types, builder, accessors, scopeVars
  <2>2. ScopesOK'
    BY <1>5, ScopesStay DEF ShapeInv, ScopesOK, scopeVars
  <2>3. BuildingOK' /\ phase' = phase
    BY <1>2, <1>5, BuildingStays, Running DEF ShapeInv, builder
  <2> QED
    BY <2>1, <2>2, <2>3
<1>11. PICK r : r = Site(Len(sites) + 1)
  OBVIOUS
<1>12. r.site \in DOMAIN sites'
  BY <1>9, <1>11 DEF Site
<1> QED
  BY <1>2, <1>5, <1>9, <1>10, <1>11, <1>12, ReturnShape DEF ShapeInv

\* createSlice keeps the shape of the state.
LEMMA createSliceShape ==
  ASSUME ShapeInv, NEW g \in Goroutines, createSlice(g)
  PROVE  ShapeInv'
<1>1. PICK f : f = top(g)
  OBVIOUS
<1>2. stack[g] # <<>> /\ FrameOK(f) /\ IsFrame(f) /\ f.fn = "slice" /\ f.pc = "enter"
  BY <1>1, AtFacts DEF createSlice
<1>3. PICK ds : ds = {i \in Registered(Elem[f.t]) : i > f.d}
  OBVIOUS
<1>4. PICK d : d = CHOOSE i \in ds : \A j \in ds : i <= j
  OBVIOUS
<1>5. PICK c : c = newCallSite("slice", f.t, 0, f.acc, sliceLocation(f.acc), 0)
  OBVIOUS
<1>6. UNCHANGED <<builder, callSiteCache, typeLock, scopeLock, accessors, scopeVars, instances, calls>>
  BY DEF createSlice
<1>7. CASE /\ ds # {} /\ Call(g, [f EXCEPT !.pc = "elem", !.d = d], exactFrame(d, SlotIn(ds, d)))
           /\ UNCHANGED <<sites, siteLock>>
  <2>1. d \in ds /\ ds \subseteq DOMAIN descriptors /\ d \in Nat
    <3>1. ds \in SUBSET Nat /\ ds \subseteq DOMAIN descriptors
      BY <1>3, SeqFacts DEF Registered, ShapeInv, BuildingOK
    <3>2. \E i \in ds : \A j \in ds : i <= j
      BY <1>7, <3>1, LeastExists
    <3> QED
      BY <1>4, <3>1, <3>2
  <2>2. PICK e : e = [f EXCEPT !.pc = "elem", !.d = d]
    OBVIOUS
  <2>3. PICK e2 : e2 = exactFrame(d, SlotIn(ds, d))
    OBVIOUS
  <2>4. /\ IsFrame(e) /\ e.pc = "elem" /\ e.fn = "slice" /\ e.t = f.t /\ e.d = d /\ e.scope = f.scope
        /\ e.held = f.held /\ e.nilMap = f.nilMap /\ e.acc = f.acc
    BY <1>2, <2>2 DEF IsFrame
  <2>5. FrameOK(e)
    BY <1>2, <2>1, <2>4 DEF FrameOK
  <2>6. FrameOK(e2) /\ e2.fn = "exact" /\ e2.pc = "enter"
    BY <2>1, <2>3, ExactFrame
  <2>7. BuildingOK' /\ SitesOK' /\ ScopesOK' /\ Grows /\ phase' = phase
    BY <1>2, <1>6, <1>7, QuietStays DEF locks, callSites
  <2>8. FrameOK(e)' /\ FrameOK(e2)' /\ CalledBy(e, e2)
    BY <2>4, <2>5, <2>6, <2>7, FrameStays DEF CalledBy
  <2> QED
    BY <1>1, <1>2, <1>7, <2>2, <2>3, <2>4, <2>6, <2>7, <2>8, CallShape DEF ShapeInv
<1>8. CASE sites' = Append(sites, c) /\ siteLock' = Append(siteLock, None) /\ Return(g, Site(Len(sites) + 1))
  <2>1. IsSite(c) /\ c.kind = "slice" /\ c.params = f.acc
    BY <1>5 DEF newCallSite, IsSite
  <2>2. IsSeq(f.acc) /\ \A n \in DOMAIN f.acc : f.acc[n] \in DOMAIN sites
    BY <1>2 DEF FrameOK
  <2>3. \A k \in DOMAIN callSiteCache' : callSiteCache'[k] \in DOMAIN sites \union {Len(sites) + 1}
    BY <1>6 DEF ShapeInv, SitesOK
  <2>4. SitesOK' /\ DOMAIN sites \subseteq DOMAIN sites' /\ Len(sites) + 1 \in DOMAIN sites'
    <3>1. "slice" \notin OfDescriptor
      BY DEF OfDescriptor
    <3> QED
      BY <1>6, <1>8, <2>1, <2>2, <2>3, <3>1, SiteAdded DEF builder, accessors
  <2>5. Grows
    BY <1>6, <2>4 DEF Grows, Types, builder, accessors, scopeVars
  <2>6. ScopesOK'
    BY <1>6, ScopesStay DEF ShapeInv, ScopesOK, scopeVars
  <2>7. BuildingOK' /\ phase' = phase
    BY <1>2, <1>6, BuildingStays, Running DEF ShapeInv, builder
  <2>8. PICK r : r = Site(Len(sites) + 1)
    OBVIOUS
  <2>9. r.site \in DOMAIN sites'
    BY <2>4, <2>8 DEF Site
  <2> QED
    BY <1>2, <1>8, <2>4, <2>5, <2>6, <2>7, <2>8, <2>9, ReturnShape DEF ShapeInv
<1> QED
  BY <1>1, <1>3, <1>4, <1>5, <1>7, <1>8 DEF createSlice

\* createSliceElement keeps the shape of the state.
LEMMA createSliceElementShape ==
  ASSUME ShapeInv, NEW g \in Goroutines, createSliceElement(g)
  PROVE  ShapeInv'
<1>1. PICK f : f = top(g)
  OBVIOUS
<1>2. stack[g] # <<>> /\ FrameOK(f) /\ IsFrame(f) /\ f.fn = "slice" /\ f.pc = "elem"
  BY <1>1, AtFacts DEF createSliceElement
<1>3. BuildingOK' /\ SitesOK' /\ ScopesOK' /\ Grows /\ phase' = phase
  BY <1>2, QuietStays DEF createSliceElement
<1>4. CASE Return(g, Err)
  <2>1. Err.ok = FALSE
    BY DEF Err
  <2> QED
    BY <1>2, <1>3, <1>4, <2>1, ReturnShape DEF ShapeInv
<1>5. CASE ret[g].ok /\ Goto(g, [f EXCEPT !.pc = "enter", !.acc = Append(@, ret[g].site)])
  <2>1. PICK v : v = ret[g].site
    OBVIOUS
  <2>2. PICK e : e = [f EXCEPT !.pc = "enter", !.acc = Append(@, v)]
    OBVIOUS
  <2>3. v \in DOMAIN sites
    BY <1>1, <1>2, <1>5, <2>1 DEF ShapeInv, ReturnsSite, Awaiting
  <2>4. /\ IsFrame(e) /\ e.pc = "enter" /\ e.fn = "slice" /\ e.t = f.t /\ e.d = f.d /\ e.scope = f.scope
        /\ e.held = f.held /\ e.nilMap = f.nilMap /\ e.acc = Append(f.acc, v)
    BY <1>2, <2>2 DEF IsFrame
  <2>5. IsSeq(e.acc) /\ \A n \in DOMAIN e.acc : (n \in DOMAIN f.acc /\ e.acc[n] = f.acc[n]) \/ e.acc[n] = v
    BY <1>2, <2>4, AppendFacts, SeqFacts DEF FrameOK
  <2>6. FrameOK(e)
    BY <1>2, <2>3, <2>4, <2>5 DEF FrameOK
  <2>7. FrameOK(e)' /\ Replaces(e, top(g))
    BY <1>1, <1>2, <1>3, <2>4, <2>6, FrameStays DEF Replaces
  <2> QED
    BY <1>2, <1>3, <1>5, <2>1, <2>2, <2>4, <2>7, GotoShape DEF ShapeInv, Awaiting
<1> QED
  BY <1>1, <1>4, <1>5 DEF createSliceElement

\* validateService keeps the shape of the state.
LEMMA validateServiceShape ==
  ASSUME ShapeInv, NEW g \in Goroutines, validateService(g)
  PROVE  ShapeInv'
<1>1. PICK f : f = top(g)
  OBVIOUS
<1>2. stack[g] # <<>> /\ FrameOK(f) /\ IsFrame(f) /\ f.fn = "validate" /\ f.pc = "enter"
  BY <1>1, AtFacts DEF validateService
<1>3. UNCHANGED <<plan, descriptors, options, callSites, locks, accessors, scopeVars, instances, calls>>
  BY DEF validateService
<1>4. CASE /\ f.d < Len(descriptors) /\ UNCHANGED phase
           /\ Call(g, [f EXCEPT !.pc = "made", !.d = @ + 1], exactFrame(f.d + 1, GetSlot(f.d + 1)))
  <2>1. f.d + 1 \in DOMAIN descriptors /\ f.d + 1 \in 0..Len(descriptors)
    BY <1>2, <1>4, SeqFacts DEF FrameOK, ShapeInv, BuildingOK
  <2>2. PICK e : e = [f EXCEPT !.pc = "made", !.d = @ + 1]
    OBVIOUS
  <2>3. PICK e2 : e2 = exactFrame(f.d + 1, GetSlot(f.d + 1))
    OBVIOUS
  <2>4. /\ IsFrame(e) /\ e.pc = "made" /\ e.fn = "validate" /\ e.d = f.d + 1 /\ e.scope = f.scope
        /\ e.held = f.held /\ e.nilMap = f.nilMap /\ e.acc = f.acc
    BY <1>2, <2>2 DEF IsFrame
  <2>5. FrameOK(e)
    BY <1>2, <2>1, <2>4 DEF FrameOK
  <2>6. FrameOK(e2) /\ e2.fn = "exact" /\ e2.pc = "enter"
    BY <2>1, <2>3, ExactFrame
  <2>7. BuildingOK' /\ SitesOK' /\ ScopesOK' /\ Grows /\ phase' = phase
    BY <1>2, <1>3, <1>4, QuietStays DEF builder
  <2>8. FrameOK(e)' /\ FrameOK(e2)' /\ CalledBy(e, e2)
    BY <2>4, <2>5, <2>6, <2>7, FrameStays DEF CalledBy
  <2> QED
    BY <1>1, <1>2, <1>4, <2>2, <2>3, <2>4, <2>6, <2>7, <2>8, CallShape DEF ShapeInv
<1>5. CASE Return(g, IF f.held THEN Err ELSE NoRet) /\ phase' = IF f.held THEN "panicked" ELSE "built"
  <2>1. Grows
    BY <1>3 DEF Grows, Types, callSites, accessors, scopeVars
  <2>2. SitesOK' /\ ScopesOK'
    BY <1>3, SitesStay, ScopesStay DEF ShapeInv, SitesOK, ScopesOK, callSites, accessors, scopeVars, locks
  <2>3. BuildingOK'
    BY <1>2, <1>3, <1>5, BuildingStays, Running DEF ShapeInv, locks
  <2>4. top(g).fn \notin {"site", "exact", "slice"}
    BY <1>1, <1>2
  <2>5. ReturnsSite' /\ StacksAre' /\ FramesOK' /\ CallsOK'
    BY <1>2, <1>5, <2>1, <2>4, ReturnShape
  <2>6. Len(stack[g]) = 1
    BY <1>1, <1>2, TopFacts, ValidateIsBottom DEF ShapeInv
  <2>7. stack'[g] = <<>> /\ \A h \in Goroutines \ {g} : stack'[h] = <<>>
    <3>a. 1 - 1 = 0
      OBVIOUS
    <3>b. Moves(g, Len(stack[g]) - 1, 0)
      BY <1>2, <1>5, ReturnMoves DEF ShapeInv, ShapeStacks
    <3>1. Moves(g, 0, 0)
      BY <2>6, <3>a, <3>b
    <3>2. \A h \in Goroutines \ {g} : stack[h] = <<>>
      BY <1>1, <1>2, TopFacts DEF ShapeInv, ShapeStacks, Alone
    <3> QED
      BY <3>1, <3>2, SeqFacts DEF Moves
  <2>8. Alone'
    BY <2>7, EmptySeq DEF Alone
  <2> QED
    BY <2>2, <2>3, <2>5, <2>8 DEF ShapeInv, ShapeStacks
<1> QED
  BY <1>1, <1>4, <1>5 DEF validateService

\* validatedService keeps the shape of the state.
LEMMA validatedServiceShape ==
  ASSUME ShapeInv, NEW g \in Goroutines, validatedService(g)
  PROVE  ShapeInv'
<1>1. PICK f : f = top(g)
  OBVIOUS
<1>2. stack[g] # <<>> /\ FrameOK(f) /\ IsFrame(f) /\ f.fn = "validate" /\ f.pc = "made"
  BY <1>1, AtFacts DEF validatedService
<1>3. BuildingOK' /\ SitesOK' /\ ScopesOK' /\ Grows /\ phase' = phase
  BY <1>2, RestStays DEF validatedService, builder, locks, scopeVars, ShapeInv, SitesOK
<1>4. PICK ok \in BOOLEAN : Goto(g, [f EXCEPT !.pc = "enter", !.held = @ \/ ~ok])
  <2>1. PICK ok : ok = (ret[g].ok /\ ValidateCallSite(ret[g].site))
    OBVIOUS
  <2> QED
    BY <1>1, <2>1 DEF validatedService
<1>5. PICK e : e = [f EXCEPT !.pc = "enter", !.held = @ \/ ~ok]
  OBVIOUS
<1>6. /\ IsFrame(e) /\ e.pc = "enter" /\ e.fn = "validate" /\ e.d = f.d /\ e.scope = f.scope
      /\ e.held = (f.held \/ ~ok) /\ e.nilMap = f.nilMap /\ e.acc = f.acc
  BY <1>2, <1>5 DEF IsFrame
<1>7. FrameOK(e)
  BY <1>2, <1>6 DEF FrameOK
<1>8. FrameOK(e)' /\ Replaces(e, top(g))
  BY <1>1, <1>2, <1>3, <1>6, <1>7, FrameStays DEF Replaces
<1> QED
  BY <1>2, <1>3, <1>4, <1>5, <1>6, <1>8, GotoShape DEF ShapeInv, Awaiting

\* GetWithScope keeps the shape of the state.
LEMMA GetWithScopeShape ==
  ASSUME ShapeInv, NEW g \in Goroutines, GetWithScope(g)
  PROVE  ShapeInv'
<1>1. PICK f : f = top(g)
  OBVIOUS
<1>2. stack[g] # <<>> /\ FrameOK(f) /\ IsFrame(f) /\ f.fn = "get" /\ f.pc = "enter"
  BY <1>1, AtFacts DEF GetWithScope
<1>3. BuildingOK' /\ SitesOK' /\ ScopesOK' /\ Grows /\ phase' = phase
  BY <1>2, QuietStays DEF GetWithScope
<1>4. CASE Return(g, Err)
  <2>1. top(g).fn \notin {"site", "exact", "slice"}
    BY <1>1, <1>2
  <2> QED
    BY <1>2, <1>3, <1>4, <2>1, ReturnShape DEF ShapeInv
<1>5. CASE <<f.t, f.key>> \in DOMAIN realized /\ Goto(g, [f EXCEPT !.pc = "access"])
  <2>1. PICK e : e = [f EXCEPT !.pc = "access"]
    OBVIOUS
  <2>2. Goes(e, f, "access")
    BY <1>2, <2>1 DEF Goes, IsFrame
  <2>3. FrameOK(e)
    BY <1>2, <1>5, <2>2 DEF FrameOK, Goes
  <2>4. FrameOK(e)' /\ Replaces(e, top(g)) /\ e.pc = "access"
    BY <1>1, <1>2, <1>3, <2>2, <2>3, FrameStays DEF Replaces, Goes
  <2> QED
    BY <1>2, <1>3, <1>5, <2>1, <2>4, GotoShape DEF ShapeInv, Awaiting
<1>6. ASSUME NEW e, e = [f EXCEPT !.pc = "made"], NEW e2, Call(g, e, e2), FrameOK(e2),
             e2.fn \in {"exact", "site"}, e2.pc = "enter"
      PROVE  ShapeInv'
  <2>1. Goes(e, f, "made")
    BY <1>2, <1>6 DEF IsFrame, Goes
  <2>2. FrameOK(e) /\ e.fn = "get" /\ e.pc = "made"
    BY <1>2, <2>1, GoesOK
  <2>3. FrameOK(e)' /\ FrameOK(e2)'
    BY <1>3, <1>6, <2>2, FrameStays
  <2>4. CalledBy(e, e2)
    BY <1>6, <2>2 DEF CalledBy
  <2> QED
    BY <1>1, <1>2, <1>3, <1>6, <2>2, <2>3, <2>4, CallShape DEF ShapeInv
<1>7. CASE Call(g, [f EXCEPT !.pc = "made"], siteFrame(f.t))
  <2>1. PICK e2 : e2 = siteFrame(f.t)
    OBVIOUS
  <2>2. FrameOK(e2) /\ e2.fn = "site" /\ e2.pc = "enter"
    BY <1>2, <2>1, SiteFrame DEF FrameOK
  <2> QED
    BY <1>6, <1>7, <2>1, <2>2
<1>8. PICK ds : ds = KeyRegistered(f.t, f.key)
  OBVIOUS
<1>9. CASE ds # {} /\ Call(g, [f EXCEPT !.pc = "made"], exactFrame(Last(ds), GetSlot(Last(ds))))
  <2>1. Last(ds) \in DOMAIN descriptors
    BY <1>8, <1>9, LastFacts DEF ShapeInv, BuildingOK, Registered, KeyRegistered
  <2>2. PICK e2 : e2 = exactFrame(Last(ds), GetSlot(Last(ds)))
    OBVIOUS
  <2>3. FrameOK(e2) /\ e2.fn = "exact" /\ e2.pc = "enter"
    BY <2>1, <2>2, ExactFrame
  <2> QED
    BY <1>6, <1>9, <2>2, <2>3
<1> QED
  BY <1>1, <1>4, <1>5, <1>7, <1>8, <1>9 DEF GetWithScope

\* What LoadOrStore stores refers to a call site.
LEMMA Realizing ==
  ASSUME ShapeInv, NEW g \in Goroutines, stack[g] # <<>>, NEW f, NEW c \in DOMAIN sites, NEW a, a.site = c,
         LoadOrStore(f, a), UNCHANGED <<builder, callSites, locks, scopeVars>>
  PROVE  /\ BuildingOK' /\ SitesOK' /\ ScopesOK' /\ Grows /\ phase' = phase
         /\ <<f.t, f.key>> \in DOMAIN realized'
         /\ \A k \in DOMAIN realized' : (k \in DOMAIN realized /\ realized'[k] = realized[k]) \/ realized'[k] = a
<1>1. /\ DOMAIN realized \subseteq DOMAIN realized' /\ <<f.t, f.key>> \in DOMAIN realized'
      /\ \A k \in DOMAIN realized' : (k \in DOMAIN realized /\ realized'[k] = realized[k]) \/ realized'[k] = a
  BY DEF LoadOrStore, With
<1>2. SitesOK'
  <2>1. \A k \in DOMAIN realized' : realized'[k].site \in DOMAIN sites
    BY <1>1 DEF ShapeInv, SitesOK
  <2> QED
    BY <2>1 DEF ShapeInv, SitesOK, SiteOK, builder, callSites, locks
<1>3. ScopesOK'
  BY ScopesStay DEF ShapeInv, ScopesOK, scopeVars, locks
<1>4. BuildingOK' /\ phase' = phase
  BY BuildingStays, Running DEF ShapeInv, builder, locks
<1>5. Grows
  BY <1>1 DEF Grows, Types, builder, callSites, scopeVars
<1> QED
  BY <1>1, <1>2, <1>3, <1>4, <1>5

\* createServiceAccessor keeps the shape of the state.
LEMMA createServiceAccessorShape ==
  ASSUME ShapeInv, NEW g \in Goroutines, createServiceAccessor(g)
  PROVE  ShapeInv'
<1>1. PICK f, c : f = top(g) /\ c = ret[g].site
  OBVIOUS
<1>2. stack[g] # <<>> /\ FrameOK(f) /\ IsFrame(f) /\ f.fn = "get" /\ f.pc = "made"
  BY <1>1, AtFacts DEF createServiceAccessor
<1>3. UNCHANGED <<builder, callSites, locks, scopeVars, instances, calls>>
  BY DEF createServiceAccessor
<1>4. ret[g].ok => c \in DOMAIN sites
  BY <1>1, <1>2 DEF ShapeInv, ReturnsSite, Awaiting
<1>5. CASE Return(g, Err) /\ UNCHANGED accessors
  <2>1. top(g).fn \notin {"site", "exact", "slice"}
    BY <1>1, <1>2
  <2>2. BuildingOK' /\ SitesOK' /\ ScopesOK' /\ Grows /\ phase' = phase
    BY <1>2, <1>3, <1>5, QuietStays
  <2> QED
    BY <1>2, <1>5, <2>1, <2>2, ReturnShape DEF ShapeInv
<1>6. CASE /\ c \in DOMAIN sites /\ UNCHANGED realized
           /\ Call(g, [f EXCEPT !.pc = "value", !.site = c], visitFrame(c, Root))
  <2>1. BuildingOK' /\ SitesOK' /\ ScopesOK' /\ Grows /\ phase' = phase
    BY <1>2, <1>3, <1>6, RestStays DEF builder, locks, scopeVars, ShapeInv, SitesOK
  <2>2. PICK e : e = [f EXCEPT !.pc = "value", !.site = c]
    OBVIOUS
  <2>3. PICK e2 : e2 = visitFrame(c, Root)
    OBVIOUS
  <2>4. /\ IsFrame(e) /\ e.pc = "value" /\ e.fn = "get" /\ e.t = f.t /\ e.site = c /\ e.scope = f.scope
        /\ e.held = f.held /\ e.nilMap = f.nilMap /\ e.acc = f.acc
    BY <1>2, <2>2 DEF IsFrame
  <2>5. FrameOK(e)
    BY <1>2, <1>6, <2>4 DEF FrameOK
  <2>6. FrameOK(e2) /\ e2.fn = "visit" /\ e2.pc = "enter"
    <3>1. Root \in AllScopes
      BY DEF AllScopes
    <3> QED
      BY <1>6, <2>3, <3>1, VisitFrame
  <2>7. FrameOK(e)' /\ FrameOK(e2)' /\ CalledBy(e, e2)
    BY <2>1, <2>4, <2>5, <2>6, FrameStays DEF CalledBy
  <2> QED
    BY <1>1, <1>2, <1>6, <2>1, <2>2, <2>3, <2>4, <2>6, <2>7, CallShape DEF ShapeInv
<1>7. CASE /\ c \in DOMAIN sites /\ LoadOrStore(f, [site |-> c, value |-> NoValue])
           /\ Goto(g, [f EXCEPT !.pc = "access"])
  <2>1. PICK a : a = [site |-> c, value |-> NoValue]
    OBVIOUS
  <2>2. BuildingOK' /\ SitesOK' /\ ScopesOK' /\ Grows /\ phase' = phase /\ <<f.t, f.key>> \in DOMAIN realized'
    <3>1. a.site = c
      BY <2>1
    <3> QED
      BY <1>2, <1>3, <1>7, <2>1, <3>1, Realizing
  <2>3. PICK e : e = [f EXCEPT !.pc = "access"]
    OBVIOUS
  <2>4. Goes(e, f, "access")
    BY <1>2, <2>3 DEF Goes, IsFrame
  <2>5. FrameOK(f)'
    BY <1>2, <2>2, FrameStays
  <2>6. FrameOK(e)'
    BY <1>2, <2>2, <2>4, <2>5 DEF FrameOK, Goes
  <2>7. Replaces(e, top(g)) /\ e.pc = "access"
    BY <1>1, <1>2, <2>4 DEF Replaces, Goes
  <2> QED
    BY <1>2, <1>7, <2>2, <2>3, <2>6, <2>7, GotoShape DEF ShapeInv, Awaiting
<1> QED
  BY <1>1, <1>4, <1>5, <1>6, <1>7 DEF createServiceAccessor

\* createRootAccessor keeps the shape of the state.
LEMMA createRootAccessorShape ==
  ASSUME ShapeInv, NEW g \in Goroutines, createRootAccessor(g)
  PROVE  ShapeInv'
<1>1. PICK f : f = top(g)
  OBVIOUS
<1>2. stack[g] # <<>> /\ FrameOK(f) /\ IsFrame(f) /\ f.fn = "get" /\ f.pc = "value"
  BY <1>1, AtFacts DEF createRootAccessor
<1>3. UNCHANGED <<builder, callSites, locks, scopeVars, instances, calls>>
  BY DEF createRootAccessor
<1>5. CASE Return(g, Err) /\ UNCHANGED realized
  <2>1. top(g).fn \notin {"site", "exact", "slice"}
    BY <1>1, <1>2
  <2>2. BuildingOK' /\ SitesOK' /\ ScopesOK' /\ Grows /\ phase' = phase
    BY <1>2, <1>3, <1>5, RestStays DEF builder, locks, scopeVars, ShapeInv, SitesOK
  <2> QED
    BY <1>2, <1>5, <2>1, <2>2, ReturnShape DEF ShapeInv
<1>7. CASE LoadOrStore(f, [site |-> f.site, value |-> ret[g].v]) /\ Goto(g, [f EXCEPT !.pc = "access"])
  <2>1. PICK a : a = [site |-> f.site, value |-> ret[g].v]
    OBVIOUS
  <2>2. BuildingOK' /\ SitesOK' /\ ScopesOK' /\ Grows /\ phase' = phase /\ <<f.t, f.key>> \in DOMAIN realized'
    <3>1. a.site = f.site /\ f.site \in DOMAIN sites
      BY <1>2, <2>1 DEF FrameOK
    <3> QED
      BY <1>2, <1>3, <1>7, <2>1, <3>1, Realizing
  <2>3. PICK e : e = [f EXCEPT !.pc = "access"]
    OBVIOUS
  <2>4. Goes(e, f, "access")
    BY <1>2, <2>3 DEF Goes, IsFrame
  <2>5. FrameOK(f)'
    BY <1>2, <2>2, FrameStays
  <2>6. FrameOK(e)'
    BY <1>2, <2>2, <2>4, <2>5 DEF FrameOK, Goes
  <2>7. Replaces(e, top(g)) /\ e.pc = "access"
    BY <1>1, <1>2, <2>4 DEF Replaces, Goes
  <2> QED
    BY <1>2, <1>7, <2>2, <2>3, <2>6, <2>7, GotoShape DEF ShapeInv, Awaiting
<1> QED
  BY <1>1, <1>5, <1>7 DEF createRootAccessor

\* access keeps the shape of the state.
LEMMA accessShape ==
  ASSUME ShapeInv, NEW g \in Goroutines, access(g)
  PROVE  ShapeInv'
<1>1. PICK f, a : f = top(g) /\ a = realized[<<f.t, f.key>>]
  OBVIOUS
<1>2. stack[g] # <<>> /\ FrameOK(f) /\ f.fn = "get" /\ f.pc = "access"
  BY <1>1, AtFacts DEF access
<1>3. BuildingOK' /\ SitesOK' /\ ScopesOK' /\ Grows /\ phase' = phase
  BY <1>2, QuietStays DEF access
<1>4. ASSUME NEW r, Return(g, r) PROVE ShapeInv'
  <2>1. top(g).fn \notin {"site", "exact", "slice"}
    BY <1>1, <1>2
  <2> QED
    BY <1>2, <1>3, <1>4, <2>1, ReturnShape DEF ShapeInv
<1>5. CASE Goto(g, visitFrame(a.site, f.scope))
  <2>1. PICK e : e = visitFrame(a.site, f.scope)
    OBVIOUS
  <2>2. a.site \in DOMAIN sites /\ f.scope \in AllScopes
    BY <1>1, <1>2 DEF FrameOK, ShapeInv, SitesOK
  <2>3. FrameOK(e) /\ e.fn = "visit" /\ e.pc = "enter"
    BY <2>1, <2>2, VisitFrame
  <2>4. FrameOK(e)' /\ Replaces(e, top(g))
    BY <1>1, <1>2, <1>3, <2>3, FrameStays DEF Replaces
  <2> QED
    BY <1>2, <1>3, <1>5, <2>1, <2>3, <2>4, GotoShape DEF ShapeInv, Awaiting
<1> QED
  BY <1>1, <1>4, <1>5 DEF access

\* Steps of a visiting frame.
LEMMA VisitGoto ==
  ASSUME ShapeInv, NEW g \in Goroutines, stack[g] # <<>>, top(g).fn = "visit", NEW e, Goto(g, e), Grows,
         phase' = phase, FrameOK(e), e.fn = "visit", e.pc \notin Awaiting
  PROVE  ShapeStacks' /\ ReturnsSite'
<1>1. FrameOK(e)' /\ Replaces(e, top(g))
  BY FrameStays DEF Replaces
<1> QED
  BY <1>1, GotoShape

\* The shape when a visit returns.
LEMMA VisitReturn ==
  ASSUME ShapeInv, NEW g \in Goroutines, stack[g] # <<>>, top(g).fn = "visit", NEW r, Return(g, r), Grows,
         phase' = phase
  PROVE  ShapeStacks' /\ ReturnsSite'
<1>1. top(g).fn \notin {"site", "exact", "slice"}
  OBVIOUS
<1> QED
  BY <1>1, ReturnShape

\* A visiting frame needs a call site and a scope only.
LEMMA VisitIsOK ==
  ASSUME NEW f, IsFrame(f), f.fn = "visit", f.site \in DOMAIN sites, f.scope \in AllScopes, f.held \in BOOLEAN,
         f.nilMap \in BOOLEAN, IsSeq(f.acc)
  PROVE  FrameOK(f)
BY DEF FrameOK

\* A sequence with one element replaced.
LEMMA ExceptFacts ==
  ASSUME NEW s, IsSeq(s), NEW i, NEW v
  PROVE  /\ IsSeq([s EXCEPT ![i] = v]) /\ Len([s EXCEPT ![i] = v]) = Len(s)
         /\ DOMAIN [s EXCEPT ![i] = v] = DOMAIN s
<1>1. PICK S : s \in Seq(S) /\ v \in S
  <2>1. s \in Seq({s[n] : n \in DOMAIN s} \union {v})
    BY DEF IsSeq
  <2> QED
    BY <2>1
<1>2. PICK r : r = [s EXCEPT ![i] = v]
  OBVIOUS
<1>3. PICK n \in Nat : s \in [1..n -> S] /\ Len(s) = n
  BY <1>1
<1>4. r \in [1..n -> S]
  BY <1>1, <1>2, <1>3
<1>5. r \in Seq(S) /\ Len(r) = n /\ DOMAIN r = DOMAIN s
  BY <1>3, <1>4
<1>6. r \in Seq({r[k] : k \in DOMAIN r})
  BY <1>5
<1> QED
  BY <1>2, <1>3, <1>5, <1>6 DEF IsSeq

\* The lock of a call site is taken or given back.
LEMMA SiteLockSet ==
  ASSUME IsSeq(siteLock), NEW i, NEW v, siteLock' = [siteLock EXCEPT ![i] = v]
  PROVE  IsSeq(siteLock') /\ Len(siteLock') = Len(siteLock)
BY ExceptFacts

\* Unlock leaves the locks as many as they were.
LEMMA UnlockShape ==
  ASSUME ShapeInv, NEW f, Unlock(f)
  PROVE  IsSeq(siteLock') /\ Len(siteLock') = Len(siteLock) /\ DOMAIN scopeLock' = DOMAIN scopeLock
BY ExceptFacts DEF Unlock, ShapeInv, SitesOK

\* visitCallSite keeps the shape of the state.
LEMMA visitCallSiteShape ==
  ASSUME ShapeInv, NEW g \in Goroutines, visitCallSite(g)
  PROVE  ShapeInv'
<1>1. PICK f : f = top(g)
  OBVIOUS
<1>2. stack[g] # <<>> /\ FrameOK(f) /\ IsFrame(f) /\ f.fn = "visit" /\ f.pc = "enter"
  BY <1>1, AtFacts DEF visitCallSite
<1>3. BuildingOK' /\ SitesOK' /\ ScopesOK' /\ Grows /\ phase' = phase
  BY <1>2, QuietStays DEF visitCallSite
<1>4. ASSUME NEW r, Return(g, r) PROVE ShapeInv'
  BY <1>1, <1>2, <1>3, <1>4, VisitReturn DEF ShapeInv
<1>5. ASSUME NEW pc \in {"lockSite", "build"}, Goto(g, [f EXCEPT !.pc = pc]) PROVE ShapeInv'
  <2>1. PICK e : e = [f EXCEPT !.pc = pc]
    OBVIOUS
  <2>2. Goes(e, f, pc)
    BY <1>2, <2>1 DEF IsFrame, Goes
  <2>3. FrameOK(e) /\ e.fn = "visit" /\ e.pc = pc
    BY <1>2, <1>5, <2>2, GoesOK
  <2> QED
    BY <1>1, <1>2, <1>3, <1>5, <2>1, <2>3, VisitGoto DEF ShapeInv, Awaiting
<1>6. ASSUME NEW b \in BOOLEAN, NEW pc \in {"lookup", "lockScope"}, Goto(g, [f EXCEPT !.nilMap = b, !.pc = pc])
      PROVE  ShapeInv'
  <2>1. PICK e : e = [f EXCEPT !.nilMap = b, !.pc = pc]
    OBVIOUS
  <2>2. /\ IsFrame(e) /\ e.pc \in {"lookup", "lockScope"} /\ e.fn = "visit" /\ e.site = f.site
        /\ e.scope = f.scope /\ e.held = f.held /\ e.nilMap \in BOOLEAN /\ e.acc = f.acc
    BY <1>2, <1>6, <2>1 DEF IsFrame
  <2>3. FrameOK(e)
    BY <1>2, <2>2, VisitIsOK DEF FrameOK
  <2> QED
    BY <1>1, <1>2, <1>3, <1>6, <2>1, <2>2, <2>3, VisitGoto DEF ShapeInv, Awaiting
<1>7. CASE atRoot(f)
  BY <1>1, <1>4, <1>5, <1>7 DEF visitCallSite
<1>8. CASE ~atRoot(f) /\ inScope(f)
  <2>0. PICK b : b = (f.scope \in cleared)
    OBVIOUS
  <2>1. b \in BOOLEAN
    BY <2>0
  <2>2. PICK pc \in {"lookup", "lockScope"} : pc = IF f.held THEN "lookup" ELSE "lockScope"
    OBVIOUS
  <2> QED
    BY <1>1, <1>6, <1>8, <2>0, <2>1, <2>2 DEF visitCallSite
<1>9. CASE ~atRoot(f) /\ ~inScope(f)
  BY <1>1, <1>5, <1>9 DEF visitCallSite
<1> QED
  BY <1>7, <1>8, <1>9

\* visitRootCache keeps the shape of the state.
LEMMA visitRootCacheShape ==
  ASSUME ShapeInv, NEW g \in Goroutines, visitRootCache(g)
  PROVE  ShapeInv'
<1>1. PICK f : f = top(g)
  OBVIOUS
<1>2. stack[g] # <<>> /\ FrameOK(f) /\ IsFrame(f) /\ f.fn = "visit" /\ f.pc = "lockSite"
  BY <1>1, AtFacts DEF visitRootCache
<1>3. BuildingOK' /\ SitesOK' /\ ScopesOK' /\ Grows /\ phase' = phase
  <2>1. IsSeq(siteLock') /\ Len(siteLock') = Len(siteLock)
    <3>1. siteLock' = siteLock \/ siteLock' = [siteLock EXCEPT ![f.site] = g]
      BY <1>1 DEF visitRootCache
    <3>2. IsSeq(siteLock)
      BY DEF ShapeInv, SitesOK
    <3> QED
      BY <3>1, <3>2, SiteLockSet
  <2> QED
    BY <1>2, <2>1, RestStays DEF visitRootCache, builder, accessors, scopeVars
<1>4. ASSUME NEW r, Return(g, r) PROVE ShapeInv'
  BY <1>1, <1>2, <1>3, <1>4, VisitReturn DEF ShapeInv
<1>5. CASE Goto(g, [f EXCEPT !.pc = "build", !.scope = Root])
  <2>1. PICK e : e = [f EXCEPT !.pc = "build", !.scope = Root]
    OBVIOUS
  <2>2. /\ IsFrame(e) /\ e.pc = "build" /\ e.fn = "visit" /\ e.site = f.site
        /\ e.scope = Root /\ e.held = f.held /\ e.nilMap = f.nilMap /\ e.acc = f.acc
    BY <1>2, <2>1 DEF IsFrame
  <2>3. FrameOK(e)
    BY <1>2, <2>2, VisitIsOK DEF FrameOK, AllScopes
  <2> QED
    BY <1>1, <1>2, <1>3, <1>5, <2>1, <2>2, <2>3, VisitGoto DEF ShapeInv, Awaiting
<1> QED
  BY <1>1, <1>4, <1>5 DEF visitRootCache

\* visitScopeCache keeps the shape of the state.
LEMMA visitScopeCacheShape ==
  ASSUME ShapeInv, NEW g \in Goroutines, visitScopeCache(g)
  PROVE  ShapeInv'
<1>1. PICK f : f = top(g)
  OBVIOUS
<1>2. stack[g] # <<>> /\ FrameOK(f) /\ IsFrame(f) /\ f.fn = "visit"
  BY <1>1, AtFacts DEF visitScopeCache
<1>3. BuildingOK' /\ SitesOK' /\ ScopesOK' /\ Grows /\ phase' = phase
  <2>1. DOMAIN scopeLock' = DOMAIN scopeLock
    BY DEF visitScopeCache
  <2> QED
    BY <1>2, <2>1, RestStays DEF visitScopeCache, builder, accessors, scopeVars, ShapeInv, SitesOK
<1>4. ASSUME NEW r, Return(g, r) PROVE ShapeInv'
  BY <1>1, <1>2, <1>3, <1>4, VisitReturn DEF ShapeInv
<1>5. CASE Goto(g, [f EXCEPT !.pc = "build"])
  <2>1. PICK e : e = [f EXCEPT !.pc = "build"]
    OBVIOUS
  <2>2. Goes(e, f, "build")
    BY <1>2, <2>1 DEF IsFrame, Goes
  <2>3. FrameOK(e) /\ e.fn = "visit" /\ e.pc = "build"
    BY <1>2, <2>2, GoesOK
  <2> QED
    BY <1>1, <1>2, <1>3, <1>5, <2>1, <2>3, VisitGoto DEF ShapeInv, Awaiting
<1> QED
  BY <1>1, <1>4, <1>5 DEF visitScopeCache

\* next keeps the shape of the state.
LEMMA nextShape ==
  ASSUME ShapeInv, NEW g \in Goroutines, stack[g] # <<>>, NEW f, f = top(g), FrameOK(f), f.fn = "visit",
         Len(f.acc) < Len(parts(sites[f.site])), next(g, f), Grows, phase' = phase
  PROVE  ShapeStacks' /\ ReturnsSite'
<1>1. PICK c, n : c = sites[f.site] /\ n = Len(f.acc) + 1
  OBVIOUS
<1>2. f.site \in DOMAIN sites /\ SiteOK(f.site) /\ IsFrame(f) /\ f.scope \in AllScopes /\ f.held \in BOOLEAN
  BY DEF FrameOK, ShapeInv, SitesOK
<1>3. IsSeq(parts(c)) /\ n \in DOMAIN parts(c)
  <2>a. c.kind = "factory" => DescriptorOK(descriptors[c.d])
    BY <1>1, <1>2 DEF SiteOK, ShapeInv, BuildingOK, OfDescriptor
  <2>b. c.kind = "factory" => IsSeq(descriptors[c.d].in)
    BY <2>a DEF DescriptorOK, IsSeq
  <2>1. IsSeq(parts(c))
    BY <1>1, <1>2, <2>b DEF parts, SiteOK
  <2>2. Len(f.acc) \in Nat
    BY SeqFacts DEF FrameOK
  <2> QED
    BY <1>1, <2>1, <2>2, SeqFacts
<1>4. PICK e : e = [f EXCEPT !.pc = "part"]
  OBVIOUS
<1>5. Goes(e, f, "part")
  BY <1>2, <1>4 DEF IsFrame, Goes
<1>6. FrameOK(e) /\ e.fn = "visit" /\ e.pc = "part"
  BY <1>5, GoesOK
<1>7. ASSUME NEW e2, Call(g, e, e2), FrameOK(e2), e2.fn \in {"get", "visit"}, e2.pc = "enter"
      PROVE  ShapeStacks' /\ ReturnsSite'
  <2>1. FrameOK(e)' /\ FrameOK(e2)' /\ CalledBy(e, e2)
    BY <1>6, <1>7, FrameStays DEF CalledBy
  <2> QED
    BY <1>6, <1>7, <2>1, CallShape
<1>8. CASE c.kind = "factory"
  <2>1. PICK e2 : e2 = getFrame(parts(c)[n], NoKey, f.scope)
    OBVIOUS
  <2>2. parts(c)[n] \in Types
    BY <1>1, <1>2, <1>3, <1>8, TypesHave DEF parts, SiteOK, OfDescriptor
  <2>3. FrameOK(e2) /\ e2.fn = "get" /\ e2.pc = "enter"
    BY <1>2, <2>1, <2>2, GetFrame
  <2> QED
    BY <1>1, <1>4, <1>7, <1>8, <2>1, <2>3 DEF next
<1>9. CASE c.kind # "factory"
  <2>1. PICK v : v = visitFrame(parts(c)[n], f.scope)
    OBVIOUS
  <2>2. PICK e2 : e2 = [v EXCEPT !.held = f.held \/ inScope(f)]
    OBVIOUS
  <2>3. parts(c)[n] \in DOMAIN sites
    <3>1. parts(c) = c.params /\ c.params[n] \in 1..f.site - 1
      BY <1>1, <1>2, <1>3, <1>9 DEF parts, SiteOK
    <3> QED
      BY <1>2, <3>1, SeqFacts DEF ShapeInv, SitesOK
  <2>4. FrameOK(v) /\ v.fn = "visit" /\ v.pc = "enter" /\ IsFrame(v)
    BY <1>2, <2>1, <2>3, VisitFrame
  <2>5. /\ IsFrame(e2) /\ e2.fn = "visit" /\ e2.pc = "enter" /\ e2.site = v.site /\ e2.scope = v.scope
        /\ e2.held \in BOOLEAN /\ e2.nilMap = v.nilMap /\ e2.acc = v.acc
    BY <2>2, <2>4 DEF IsFrame
  <2>6. FrameOK(e2)
    BY <2>4, <2>5, VisitIsOK DEF FrameOK
  <2> QED
    BY <1>1, <1>4, <1>7, <1>9, <2>1, <2>2, <2>5, <2>6 DEF next
<1> QED
  BY <1>8, <1>9

\* visitPart keeps the shape of the state.
LEMMA visitPartShape ==
  ASSUME ShapeInv, NEW g \in Goroutines, visitPart(g)
  PROVE  ShapeInv'
<1>1. PICK f : f = top(g)
  OBVIOUS
<1>2. stack[g] # <<>> /\ FrameOK(f) /\ IsFrame(f) /\ f.fn = "visit"
  BY <1>1, AtFacts DEF visitPart
<1>3. IsSeq(siteLock') /\ Len(siteLock') = Len(siteLock) /\ DOMAIN scopeLock' = DOMAIN scopeLock
  BY UnlockShape DEF visitPart, ShapeInv, SitesOK
<1>4. BuildingOK' /\ SitesOK' /\ ScopesOK' /\ Grows /\ phase' = phase
  BY <1>2, <1>3, RestStays DEF visitPart, builder, accessors, scopeVars
<1>5. CASE Len(f.acc) < Len(parts(sites[f.site])) /\ next(g, f)
  BY <1>1, <1>2, <1>4, <1>5, nextShape DEF ShapeInv
<1>6. CASE Return(g, Err)
  BY <1>1, <1>2, <1>4, <1>6, VisitReturn DEF ShapeInv
<1>7. CASE Goto(g, [f EXCEPT !.pc = "build", !.acc = Append(@, ret[g].v)])
  <2>1. PICK e : e = [f EXCEPT !.pc = "build", !.acc = Append(@, ret[g].v)]
    OBVIOUS
  <2>2. /\ IsFrame(e) /\ e.pc = "build" /\ e.fn = "visit" /\ e.site = f.site
        /\ e.scope = f.scope /\ e.held = f.held /\ e.nilMap = f.nilMap /\ e.acc = Append(f.acc, ret[g].v)
    BY <1>2, <2>1 DEF IsFrame
  <2>3. FrameOK(e)
    BY <1>2, <2>2, VisitIsOK, AppendFacts DEF FrameOK
  <2> QED
    BY <1>1, <1>2, <1>4, <1>7, <2>1, <2>2, <2>3, VisitGoto DEF ShapeInv, Awaiting
<1> QED
  BY <1>1, <1>5, <1>6, <1>7 DEF visitPart

\* construct keeps the shape of the state.
LEMMA constructShape ==
  ASSUME ShapeInv, NEW g \in Goroutines, construct(g)
  PROVE  ShapeInv'
<1>1. PICK f : f = top(g)
  OBVIOUS
<1>2. stack[g] # <<>> /\ FrameOK(f) /\ IsFrame(f) /\ f.fn = "visit"
  BY <1>1, AtFacts DEF construct
<1>3. IsSeq(siteLock') /\ Len(siteLock') = Len(siteLock) /\ DOMAIN scopeLock' = DOMAIN scopeLock
  BY UnlockShape DEF construct, ShapeInv, SitesOK
<1>4. BuildingOK' /\ SitesOK' /\ ScopesOK' /\ Grows /\ phase' = phase
  BY <1>2, <1>3, RestStays DEF construct, builder, accessors, scopeVars
<1>5. CASE Return(g, Err)
  BY <1>1, <1>2, <1>4, <1>5, VisitReturn DEF ShapeInv
<1>6. ASSUME NEW e, NEW v, Goto(g, e), e.acc = <<v>>,
             IsFrame(e) /\ e.pc = "capture" /\ e.fn = "visit" /\ e.site = f.site /\ e.scope = f.scope,
             e.held = f.held /\ e.nilMap = f.nilMap
      PROVE  ShapeInv'
  <2>1. FrameOK(e)
    BY <1>2, <1>6, VisitIsOK, OneFacts DEF FrameOK
  <2> QED
    BY <1>1, <1>2, <1>4, <1>6, <2>1, VisitGoto DEF ShapeInv, Awaiting
<1>7. ASSUME NEW id, NEW v, Goto(g, [f EXCEPT !.pc = "capture", !.d = id, !.acc = <<v>>]) PROVE ShapeInv'
  <2>1. PICK e : e = [f EXCEPT !.pc = "capture", !.d = id, !.acc = <<v>>]
    OBVIOUS
  <2>2. /\ IsFrame(e) /\ e.pc = "capture" /\ e.fn = "visit" /\ e.site = f.site /\ e.scope = f.scope
        /\ e.held = f.held /\ e.nilMap = f.nilMap /\ e.acc = <<v>>
    BY <1>2, <2>1 DEF IsFrame
  <2> QED
    BY <1>6, <1>7, <2>1, <2>2
<1>8. ASSUME NEW v, Goto(g, [f EXCEPT !.pc = "capture", !.acc = <<v>>]) PROVE ShapeInv'
  <2>1. PICK e : e = [f EXCEPT !.pc = "capture", !.acc = <<v>>]
    OBVIOUS
  <2>2. /\ IsFrame(e) /\ e.pc = "capture" /\ e.fn = "visit" /\ e.site = f.site /\ e.scope = f.scope
        /\ e.held = f.held /\ e.nilMap = f.nilMap /\ e.acc = <<v>>
    BY <1>2, <2>1 DEF IsFrame
  <2> QED
    BY <1>6, <1>8, <2>1, <2>2
<1> QED
  BY <1>1, <1>5, <1>7, <1>8 DEF construct

\* A call site is replaced.
LEMMA SitesSet ==
  ASSUME IsSeq(sites), NEW i, NEW v, sites' = [sites EXCEPT ![i] = v]
  PROVE  IsSeq(sites') /\ Len(sites') = Len(sites) /\ DOMAIN sites' = DOMAIN sites
BY ExceptFacts

\* The value of one call site is set.
LEMMA ValueSet ==
  ASSUME ShapeInv, NEW c \in DOMAIN sites, NEW v, sites' = [sites EXCEPT ![c].value = v],
         UNCHANGED <<descriptors, callSiteCache, realized>>, IsSeq(siteLock'), Len(siteLock') = Len(siteLock)
  PROVE  /\ SitesOK' /\ DOMAIN sites' = DOMAIN sites /\ sites'[c].value = v
         /\ \A e \in DOMAIN sites :
              /\ sites'[e].kind = sites[e].kind /\ sites'[e].type = sites[e].type /\ sites'[e].d = sites[e].d
              /\ sites'[e].params = sites[e].params /\ sites'[e].loc = sites[e].loc /\ sites'[e].slot = sites[e].slot
              /\ e # c => sites'[e] = sites[e]
<1>1. PICK r : r = [sites[c] EXCEPT !.value = v]
  OBVIOUS
<1>2. sites' = [sites EXCEPT ![c] = r]
  BY <1>1
<1>3. IsSeq(sites) /\ IsSite(sites[c]) /\ (\A e \in DOMAIN sites : SiteOK(e))
  BY DEF ShapeInv, SitesOK, SiteOK
<1>4. IsSeq(sites') /\ Len(sites') = Len(sites) /\ DOMAIN sites' = DOMAIN sites
  BY <1>2, <1>3, SitesSet
<1>5. /\ IsSite(r) /\ r.kind = sites[c].kind /\ r.type = sites[c].type /\ r.d = sites[c].d /\ r.params = sites[c].params
      /\ r.loc = sites[c].loc /\ r.slot = sites[c].slot /\ r.value = v
  BY <1>1, <1>3 DEF IsSite
<1>6. sites'[c] = r /\ \A e \in DOMAIN sites : e # c => sites'[e] = sites[e]
  BY <1>2
<1>7. ASSUME NEW e \in DOMAIN sites PROVE SiteOK(e)'
  <2>1. CASE e # c
    BY <1>3, <1>6, <2>1 DEF SiteOK
  <2>2. CASE e = c
    BY <1>3, <1>5, <1>6, <2>2 DEF SiteOK
  <2> QED
    BY <2>1, <2>2
<1>8. SitesOK'
  BY <1>4, <1>7 DEF SitesOK, ShapeInv
<1> QED
  BY <1>4, <1>5, <1>6, <1>8

\* capture keeps the shape of the state.
LEMMA captureShape ==
  ASSUME ShapeInv, NEW g \in Goroutines, capture(g)
  PROVE  ShapeInv'
<1>1. PICK f : f = top(g)
  OBVIOUS
<1>2. stack[g] # <<>> /\ FrameOK(f) /\ f.fn = "visit" /\ f.site \in DOMAIN sites
  BY <1>1, AtFacts DEF capture, FrameOK
<1>3. /\ UNCHANGED <<builder, callSiteCache, typeLock, accessors, cDisposed, created, disposed, cleared, calls>>
      /\ Unlock(f) /\ \E r : Return(g, r)
  BY <1>1 DEF capture
<1>4. IsSeq(siteLock') /\ Len(siteLock') = Len(siteLock) /\ DOMAIN scopeLock' = DOMAIN scopeLock
  BY <1>3, UnlockShape
<1>5. /\ DOMAIN resolved' = DOMAIN resolved /\ DOMAIN disposables' = AllScopes
      /\ \A s \in AllScopes : IsSeq(disposables'[s])
  <2>1. /\ DOMAIN resolved' = DOMAIN resolved
        /\ \/ disposables' = disposables
           \/ disposables' = [disposables EXCEPT ![f.scope] = Append(@, f.d)]
    BY <1>1 DEF capture
  <2>2. DOMAIN disposables = AllScopes /\ \A s \in AllScopes : IsSeq(disposables[s])
    BY DEF ShapeInv, ScopesOK
  <2>3. CASE disposables' = disposables
    BY <2>1, <2>2, <2>3
  <2>4. CASE disposables' = [disposables EXCEPT ![f.scope] = Append(@, f.d)]
    <3>1. PICK l : l = Append(disposables[f.scope], f.d)
      OBVIOUS
    <3>2. f.scope \in AllScopes
      BY <1>2 DEF FrameOK
    <3>3. IsSeq(l)
      BY <2>2, <3>1, <3>2, AppendFacts
    <3>4. disposables' = [disposables EXCEPT ![f.scope] = l]
      BY <2>4, <3>1
    <3> QED
      BY <2>1, <2>2, <3>3, <3>4
  <2> QED
    BY <2>1, <2>3, <2>4
<1>6. sites' = sites \/ sites' = [sites EXCEPT ![f.site].value = f.acc[1]]
  BY <1>1 DEF capture
<1>7. SitesOK' /\ DOMAIN sites' = DOMAIN sites
  BY <1>2, <1>3, <1>4, <1>6, SitesStay, ValueSet DEF ShapeInv, builder, accessors
<1>8. ScopesOK'
  BY <1>3, <1>4, <1>5, ScopesStay DEF ShapeInv
<1>9. BuildingOK' /\ phase' = phase
  BY <1>2, <1>3, BuildingStays, Running DEF ShapeInv, builder
<1>10. Grows
  BY <1>3, <1>7 DEF Grows, Types, builder, accessors
<1>11. ShapeStacks' /\ ReturnsSite'
  BY <1>1, <1>2, <1>3, <1>9, <1>10, VisitReturn
<1> QED
  BY <1>7, <1>8, <1>9, <1>11 DEF ShapeInv

\* BeginDispose keeps the shape of the state.
LEMMA BeginDisposeShape ==
  ASSUME ShapeInv, NEW g \in Goroutines, BeginDispose(g)
  PROVE  ShapeInv'
<1>1. PICK f : f = top(g)
  OBVIOUS
<1>2. stack[g] # <<>> /\ FrameOK(f) /\ IsFrame(f) /\ f.fn = "dispose" /\ f.scope \in disposed
  BY <1>1, AtFacts DEF BeginDispose, FrameOK
<1>3. PICK l : l = disposables[f.scope]
  OBVIOUS
<1>4. /\ Goto(g, [f EXCEPT !.pc = "list", !.acc = l]) /\ disposables' = [disposables EXCEPT ![f.scope] = <<>>]
      /\ cleared' = cleared \union {f.scope}
      /\ UNCHANGED <<builder, callSites, locks, accessors, cDisposed, created, disposed, resolved, instances, calls>>
  BY <1>1, <1>3 DEF BeginDispose
<1>5. BuildingOK' /\ phase' = phase /\ SitesOK' /\ ScopesOK' /\ Grows
  <2>1. BuildingOK' /\ phase' = phase
    BY <1>2, <1>4, BuildingStays, Running DEF ShapeInv, builder, locks
  <2>2. SitesOK'
    BY <1>4, SitesStay DEF ShapeInv, SitesOK, builder, callSites, accessors, locks
  <2>3. ScopesOK'
    BY <1>2, <1>4, EmptySeq DEF ShapeInv, ScopesOK, locks
  <2>4. Grows
    BY <1>4 DEF Grows, Types, builder, callSites, accessors
  <2> QED
    BY <2>1, <2>2, <2>3, <2>4
<1>6. PICK e : e = [f EXCEPT !.pc = "list", !.acc = l]
  OBVIOUS
<1>7. /\ IsFrame(e) /\ e.pc = "list" /\ e.fn = "dispose" /\ e.scope = f.scope /\ e.held = f.held
      /\ e.nilMap = f.nilMap /\ e.acc = l
  BY <1>2, <1>6 DEF IsFrame
<1>8. FrameOK(e)
  BY <1>2, <1>3, <1>7 DEF FrameOK, ShapeInv, ScopesOK
<1>9. FrameOK(e)' /\ Replaces(e, top(g))
  BY <1>1, <1>2, <1>5, <1>7, <1>8, FrameStays DEF Replaces
<1> QED
  BY <1>2, <1>4, <1>5, <1>6, <1>7, <1>9, GotoShape DEF ShapeInv, Awaiting

\* disposeNext keeps the shape of the state.
LEMMA disposeNextShape ==
  ASSUME ShapeInv, NEW g \in Goroutines, disposeNext(g)
  PROVE  ShapeInv'
<1>1. PICK f : f = top(g)
  OBVIOUS
<1>2. stack[g] # <<>> /\ FrameOK(f) /\ IsFrame(f) /\ f.fn = "dispose" /\ IsSeq(f.acc)
  BY <1>1, AtFacts DEF disposeNext, FrameOK
<1>3. BuildingOK' /\ SitesOK' /\ ScopesOK' /\ Grows /\ phase' = phase
  BY <1>2, QuietStays DEF disposeNext
<1>4. CASE Return(g, NoRet)
  <2>1. top(g).fn \notin {"site", "exact", "slice"}
    BY <1>1, <1>2
  <2> QED
    BY <1>2, <1>3, <1>4, <2>1, ReturnShape DEF ShapeInv
<1>5. PICK l : l = SubSeq(f.acc, 1, Len(f.acc) - 1)
  OBVIOUS
<1>6. CASE f.acc # <<>> /\ Goto(g, [f EXCEPT !.acc = l])
  <2>1. PICK e : e = [f EXCEPT !.acc = l]
    OBVIOUS
  <2>2. /\ IsFrame(e) /\ e.pc = f.pc /\ e.fn = "dispose" /\ e.scope = f.scope /\ e.held = f.held
        /\ e.nilMap = f.nilMap /\ e.acc = l
    BY <1>2, <2>1 DEF IsFrame
  <2>3. IsSeq(l)
    BY <1>2, <1>5, <1>6, FrontFacts
  <2>4. FrameOK(e)
    BY <1>2, <2>2, <2>3 DEF FrameOK
  <2>5. FrameOK(e)' /\ Replaces(e, top(g)) /\ e.pc = "list"
    BY <1>1, <1>2, <1>3, <2>2, <2>4, FrameStays DEF Replaces, disposeNext, At
  <2> QED
    BY <1>2, <1>3, <1>6, <2>1, <2>5, GotoShape DEF ShapeInv, Awaiting
<1> QED
  BY <1>1, <1>4, <1>5, <1>6 DEF disposeNext

\* CreateScope keeps the shape of the state.
LEMMA CreateScopeShape ==
  ASSUME ShapeInv, NEW g \in Goroutines, NEW s \in Scopes, CreateScope(g, s)
  PROVE  ShapeInv'
<1>1. UNCHANGED <<builder, callSites, locks, accessors, disposed, cleared, resolved, disposables, instances, stack, ret>>
      /\ created' = created \union {s}
  BY DEF CreateScope
<1>2. ScopesOK'
  BY <1>1 DEF ShapeInv, ScopesOK, AllScopes, locks
<1>3. BuildingOK'
  BY <1>1 DEF ShapeInv, BuildingOK, Types, builder, callSites, accessors, locks
<1>4. SitesOK'
  BY <1>1, SitesStay DEF ShapeInv, SitesOK, builder, callSites, accessors, locks
<1>5. Grows /\ phase' = phase
  BY <1>1 DEF Grows, Types, builder, callSites, accessors
<1>6. FramesOK'
  BY <1>1, <1>5, FrameStays DEF ShapeInv, ShapeStacks, FramesOK
<1>7. ShapeStacks'
  BY <1>1, <1>5, <1>6 DEF ShapeInv, ShapeStacks, StacksAre, CallsOK, Alone
<1>8. ReturnsSite'
  BY <1>1 DEF ShapeInv, ReturnsSite, top, callSites
<1> QED
  BY <1>2, <1>3, <1>4, <1>7, <1>8 DEF ShapeInv

\* A goroutine that did nothing starts a call.
LEMMA StartShape ==
  ASSUME ShapeInv, NEW g \in Goroutines, phase = "built", NEW f, stack' = [stack EXCEPT ![g] = <<f>>], Grows,
         phase' = phase, DOMAIN ret' = Goroutines, \A h \in Goroutines \ {g} : ret'[h] = ret[h],
         FrameOK(f)', f.fn \in {"get", "dispose"}, f.pc = "enter"
  PROVE  ShapeStacks' /\ ReturnsSite'
<1>1. StacksAre' /\ FramesOK' /\ CallsOK'
  BY StartStep DEF ShapeInv, Bottoms
<1>2. Moves(g, 0, 1) /\ stack'[g][1] = f
  BY StartMoves DEF ShapeInv, ShapeStacks
<1>3. \A h \in Goroutines \ {g} : stack'[h] = stack[h]
  BY <1>2 DEF Moves
<1>4. top(g)' = f /\ DOMAIN stack'[g] = {1}
  <2>1. Len(stack'[g]) = 1 /\ IsSeq(stack'[g])
    BY <1>2 DEF Moves
  <2> QED
    BY <1>2, <2>1, SeqFacts DEF top
<1>5. Alone'
  <2>1. SUFFICES ASSUME NEW h \in Goroutines, NEW n \in DOMAIN stack'[h], stack'[h][n].fn = "validate" PROVE FALSE
    BY DEF Alone
  <2>2. CASE h = g
    BY <1>2, <1>4, <2>1, <2>2
  <2>3. CASE h # g
    BY <1>3, <2>1, <2>3 DEF ShapeInv, ShapeStacks, Alone
  <2> QED
    BY <2>2, <2>3
<1>6. ReturnsSite'
  BY <1>3, <1>4 DEF ReturnsSite, ShapeInv, top, Grows, Awaiting
<1> QED
  BY <1>1, <1>5, <1>6 DEF ShapeStacks

\* Dispose keeps the shape of the state.
LEMMA DisposeShape ==
  ASSUME ShapeInv, NEW g \in Goroutines, NEW s \in AllScopes, Dispose(g, s)
  PROVE  ShapeInv'
<1>1. /\ UNCHANGED <<builder, callSites, locks, accessors, created, cleared, resolved, disposables, instances, ret>>
      /\ disposed' = disposed \union {s} /\ phase = "built"
  BY DEF Dispose, idle
<1>2. ScopesOK'
  BY <1>1 DEF ShapeInv, ScopesOK, AllScopes, locks
<1>3. BuildingOK'
  BY <1>1 DEF ShapeInv, BuildingOK, Types, builder, callSites, accessors, locks
<1>4. SitesOK'
  BY <1>1, SitesStay DEF ShapeInv, SitesOK, builder, callSites, accessors, locks
<1>5. Grows /\ phase' = phase
  BY <1>1 DEF Grows, Types, builder, callSites, accessors
<1>6. CASE stack' = stack
  <2>1. FramesOK'
    BY <1>5, <1>6, FrameStays DEF ShapeInv, ShapeStacks, FramesOK
  <2>2. ShapeStacks'
    BY <1>1, <1>5, <1>6, <2>1 DEF ShapeInv, ShapeStacks, StacksAre, CallsOK, Alone
  <2>3. ReturnsSite'
    BY <1>1, <1>6 DEF ShapeInv, ReturnsSite, top, callSites
  <2> QED
    BY <1>2, <1>3, <1>4, <2>2, <2>3 DEF ShapeInv
<1>7. CASE stack' = [stack EXCEPT ![g] = <<[Frame EXCEPT !.fn = "dispose", !.scope = s]>>]
  <2>1. PICK f : f = [Frame EXCEPT !.fn = "dispose", !.scope = s]
    OBVIOUS
  <2>2. /\ IsFrame(f) /\ f.fn = "dispose" /\ f.pc = "enter" /\ f.scope = s /\ f.held = FALSE /\ f.nilMap = FALSE
        /\ f.acc = <<>>
    BY <2>1 DEF Frame, IsFrame
  <2>3. IsSeq(f.acc)
    BY <2>2, EmptySeq
  <2>4. FrameOK(f)'
    BY <1>1, <2>2, <2>3 DEF FrameOK, AllScopes
  <2>5. ShapeStacks' /\ ReturnsSite'
    <3>1. DOMAIN ret' = Goroutines /\ \A h \in Goroutines \ {g} : ret'[h] = ret[h]
      BY <1>1 DEF ShapeInv, ShapeStacks, StacksAre
    <3>2. stack' = [stack EXCEPT ![g] = <<f>>]
      BY <1>7, <2>1
    <3> QED
      BY <1>1, <1>5, <2>2, <2>4, <3>1, <3>2, StartShape
  <2> QED
    BY <1>2, <1>3, <1>4, <2>5 DEF ShapeInv
<1> QED
  BY <1>6, <1>7 DEF Dispose

\* Get keeps the shape of the state.
LEMMA GetShape ==
  ASSUME ShapeInv, NEW g \in Goroutines, NEW r \in plan.ask, NEW s \in AllScopes, Get(g, r, s)
  PROVE  ShapeInv'
<1>1. /\ UNCHANGED <<builder, callSites, locks, accessors, scopeVars, instances>> /\ phase = "built"
      /\ stack' = [stack EXCEPT ![g] = <<getFrame(r.type, r.key, s)>>] /\ ret' = [ret EXCEPT ![g] = NoRet]
  BY DEF Get, idle
<1>2. ScopesOK'
  BY <1>1 DEF ShapeInv, ScopesOK, AllScopes, locks, scopeVars
<1>3. BuildingOK'
  BY <1>1 DEF ShapeInv, BuildingOK, Types, builder, callSites, accessors, locks
<1>4. SitesOK'
  BY <1>1, SitesStay DEF ShapeInv, SitesOK, builder, callSites, accessors, locks
<1>5. Grows /\ phase' = phase
  BY <1>1 DEF Grows, Types, builder, callSites, accessors, scopeVars
<1>6. PICK f : f = getFrame(r.type, r.key, s)
  OBVIOUS
<1>7. FrameOK(f) /\ f.fn = "get" /\ f.pc = "enter"
  BY <1>6, GetFrame, TypesHave
<1>8. FrameOK(f)'
  BY <1>5, <1>7, FrameStays
<1>9. ShapeStacks' /\ ReturnsSite'
  <2>1. DOMAIN ret' = Goroutines /\ \A h \in Goroutines \ {g} : ret'[h] = ret[h]
    BY <1>1 DEF ShapeInv, ShapeStacks, StacksAre
  <2>2. stack' = [stack EXCEPT ![g] = <<f>>]
    BY <1>1, <1>6
  <2> QED
    BY <1>1, <1>5, <1>7, <1>8, <2>1, <2>2, StartShape
<1> QED
  BY <1>2, <1>3, <1>4, <1>9 DEF ShapeInv

\* Build keeps the shape of the state.
LEMMA BuildShape ==
  ASSUME ShapeInv, NEW g \in Goroutines, Build(g)
  PROVE  ShapeInv'
<1>1. PICK c : c = newCallSite("container", "Container", 0, <<>>, "none", 0)
  OBVIOUS
<1>2. /\ phase = "building" /\ phase' \in {"panicked", "validating", "built"}
      /\ sites' = <<c>> /\ callSiteCache' = With(<<>>, <<"Container", 0>>, 1) /\ typeLock' = [t \in Types |-> None]
      /\ siteLock' = <<None>> /\ UNCHANGED <<plan, descriptors, options, scopeLock, accessors, scopeVars, instances, ret, calls>>
  BY <1>1 DEF Build
<1>3. (\A h \in Goroutines : stack[h] = <<>>) /\ sites = <<>> /\ realized = <<>>
  BY <1>2 DEF ShapeInv, BuildingOK
<1>4. Types' = Types
  BY <1>2 DEF Types
<1>5. BuildingOK'
  BY <1>2, <1>4 DEF ShapeInv, BuildingOK
<1>6. SitesOK'
  <2>1. IsSite(c) /\ c.kind = "container" /\ c.params = <<>>
    BY <1>1 DEF newCallSite, IsSite
  <2>2. IsSeq(sites') /\ Len(sites') = 1 /\ sites'[1] = c /\ IsSeq(siteLock') /\ Len(siteLock') = 1
    BY <1>2, OneFacts
  <2>3. DOMAIN sites' = {1}
    BY <2>2, SeqFacts
  <2>4. SiteOK(1)'
    BY <2>1, <2>2, EmptySeq DEF SiteOK, OfDescriptor
  <2>5. \A k \in DOMAIN callSiteCache' : callSiteCache'[k] = 1
    BY <1>2 DEF With
  <2>6. DOMAIN realized' = {}
    BY <1>2, <1>3 DEF accessors
  <2> QED
    BY <2>2, <2>3, <2>4, <2>5, <2>6 DEF SitesOK
<1>7. ScopesOK'
  BY <1>2 DEF ShapeInv, ScopesOK, scopeVars
<1>8. Grows
  BY <1>2, <1>3, <1>4 DEF Grows, accessors, scopeVars
<1>9. StacksAre' /\ FramesOK' /\ CallsOK' /\ Alone' /\ ReturnsSite'
  <2>1. CASE stack' = stack
    <3>1. \A h \in Goroutines : DOMAIN stack'[h] = {} /\ stack'[h] = <<>>
      BY <1>3, <2>1
    <3>2. StacksAre'
      BY <1>2, <2>1 DEF ShapeInv, ShapeStacks, StacksAre
    <3> QED
      BY <3>1, <3>2 DEF FramesOK, CallsOK, Alone, ReturnsSite
  <2>2. CASE phase' = "validating" /\ stack' = [stack EXCEPT ![g] = <<[Frame EXCEPT !.fn = "validate"]>>]
    <3>1. PICK f : f = [Frame EXCEPT !.fn = "validate"]
      OBVIOUS
    <3>2. /\ IsFrame(f) /\ f.fn = "validate" /\ f.pc = "enter" /\ f.scope = Root /\ f.held = FALSE /\ f.nilMap = FALSE
          /\ f.acc = <<>> /\ f.d = 0
      BY <3>1 DEF Frame, IsFrame
    <3>3. IsSeq(f.acc) /\ 0 \in 0..Len(descriptors)
      BY <3>2, EmptySeq, SeqFacts DEF ShapeInv, BuildingOK
    <3>4. FrameOK(f)'
      BY <1>2, <3>2, <3>3 DEF FrameOK, AllScopes
    <3>5. stack' = [stack EXCEPT ![g] = <<f>>]
      BY <2>2, <3>1
    <3>6. StacksAre' /\ FramesOK' /\ CallsOK'
      BY <1>2, <1>8, <3>2, <3>4, <3>5, StartStep DEF ShapeInv, ShapeStacks, StacksAre, Bottoms
    <3>7. \A h \in Goroutines \ {g} : stack'[h] = <<>> /\ DOMAIN stack'[h] = {}
      BY <1>3, <3>5 DEF ShapeInv, ShapeStacks, StacksAre
    <3>8. top(g)' = f /\ stack'[g] = <<f>>
      BY <3>5, OneFacts DEF top, ShapeInv, ShapeStacks, StacksAre
    <3>9. Alone'
      BY <2>2, <3>7 DEF Alone
    <3>10. ReturnsSite'
      BY <3>2, <3>7, <3>8 DEF ReturnsSite, Awaiting
    <3> QED
      BY <3>6, <3>9, <3>10
  <2> QED
    BY <2>1, <2>2 DEF Build
<1> QED
  BY <1>5, <1>6, <1>7, <1>9 DEF ShapeInv, ShapeStacks

\* The tail of a sequence.
LEMMA TailFacts ==
  ASSUME NEW s, IsSeq(s), s # <<>>
  PROVE  IsSeq(Tail(s)) /\ \A n \in DOMAIN Tail(s) : \E m \in DOMAIN s : Tail(s)[n] = s[m]
<1>1. PICK S : s \in Seq(S)
  BY DEF IsSeq
<1>2. PICK r : r = Tail(s)
  OBVIOUS
<1>3. r \in Seq(S) /\ Len(r) = Len(s) - 1 /\ \A n \in 1..Len(r) : r[n] = s[n + 1]
  BY <1>1, <1>2
<1>4. r \in Seq({r[k] : k \in DOMAIN r})
  BY <1>3
<1>5. \A n \in DOMAIN r : n + 1 \in DOMAIN s /\ r[n] = s[n + 1]
  BY <1>1, <1>3
<1> QED
  BY <1>2, <1>4, <1>5 DEF IsSeq

\* Configure keeps the shape of the state.
LEMMA ConfigureShape ==
  ASSUME ShapeInv, Configure
  PROVE  ShapeInv'
<1>1. PICK call : call = Head(plan.build)
  OBVIOUS
<1>2. /\ phase = "building" /\ plan.build # <<>> /\ plan' = [build |-> Tail(plan.build), ask |-> plan.ask]
      /\ UNCHANGED <<phase, callSites, locks, accessors, scopeVars, instances, stack, ret, calls>>
  BY DEF Configure
<1>3. (\A h \in Goroutines : stack[h] = <<>>) /\ sites = <<>> /\ realized = <<>> /\ callSiteCache = <<>>
  BY <1>2 DEF ShapeInv, BuildingOK
<1>4. IsSeq(plan.build) /\ PlanOK(plan)
  BY DEF ShapeInv, BuildingOK, PlanOK, IsSeq
<1>5. call.op = "add" => DescriptorOK(call.d)
  <2>1. 1 \in DOMAIN plan.build /\ call = plan.build[1]
    BY <1>1, <1>2, <1>4, SeqFacts
  <2> QED
    BY <1>4, <2>1 DEF PlanOK
<1>6. PlanOK(plan')
  <2>1. plan'.build = Tail(plan.build)
    BY <1>2
  <2>2. IsSeq(plan'.build) /\ \A n \in DOMAIN plan'.build : \E m \in DOMAIN plan.build : plan'.build[n] = plan.build[m]
    BY <1>2, <1>4, <2>1, TailFacts
  <2> QED
    BY <1>4, <2>2 DEF PlanOK, IsSeq
<1>7. IsSeq(descriptors) /\ \A i \in DOMAIN descriptors : DescriptorOK(descriptors[i])
  BY DEF ShapeInv, BuildingOK
<1>8. IsSeq(descriptors') /\ \A i \in DOMAIN descriptors' : DescriptorOK(descriptors'[i])
  <2>1. CASE descriptors' = descriptors
    BY <1>7, <2>1
  <2>2. CASE call.op = "add" /\ descriptors' = Append(descriptors, call.d)
    <3>1. IsSeq(descriptors') /\ Len(descriptors') = Len(descriptors) + 1
          /\ (\A n \in 1..Len(descriptors) : descriptors'[n] = descriptors[n])
          /\ descriptors'[Len(descriptors) + 1] = call.d
      BY <1>7, <2>2, AppendFacts
    <3>2. \A i \in DOMAIN descriptors' : i \in 1..Len(descriptors) \/ i = Len(descriptors) + 1
      BY <1>7, <3>1, SeqFacts
    <3> QED
      BY <1>5, <1>7, <2>2, <3>1, <3>2, SeqFacts
  <2>3. PICK others : others = {i \in DOMAIN descriptors : ~Provides(descriptors[i], call.t)}
    OBVIOUS
  <2>4. ASSUME NEW left \in [1..Cardinality(others) -> others],
               descriptors' = [i \in 1..Cardinality(others) |-> descriptors[left[i]]]
        PROVE  IsSeq(descriptors') /\ \A i \in DOMAIN descriptors' : DescriptorOK(descriptors'[i])
    <3>1. Cardinality(others) \in Nat
      <4>1. IsFiniteSet(1..Len(descriptors)) /\ others \in SUBSET (1..Len(descriptors))
        <5>1. Len(descriptors) \in Nat /\ DOMAIN descriptors = 1..Len(descriptors)
          BY <1>7, SeqFacts
        <5>2. 1 \in Int /\ Len(descriptors) \in Int
          BY <5>1
        <5> QED
          BY <2>3, <5>1, <5>2, FS_Interval
      <4>2. IsFiniteSet(others)
        BY <4>1, FS_Subset
      <4> QED
        BY <4>2, FS_CardinalityType
    <3>2. PICK n : n = Cardinality(others)
      OBVIOUS
    <3>3. n \in Nat /\ descriptors' = [i \in 1..n |-> descriptors[left[i]]] /\ left \in [1..n -> others]
      BY <2>4, <3>1, <3>2
    <3>4. DOMAIN descriptors' = 1..n /\ \A i \in 1..n : descriptors'[i] = descriptors[left[i]] /\ left[i] \in DOMAIN descriptors
      BY <2>3, <3>3
    <3>5. descriptors' \in [1..n -> {descriptors'[i] : i \in DOMAIN descriptors'}]
      BY <3>3, <3>4
    <3>6. IsSeq(descriptors')
      BY <3>3, <3>5 DEF IsSeq
    <3> QED
      BY <1>7, <3>4, <3>6
  <2> QED
    BY <1>1, <2>1, <2>2, <2>3, <2>4 DEF Configure
<1>9. BuildingOK'
  BY <1>2, <1>3, <1>6, <1>8 DEF BuildingOK, ShapeInv, callSites, accessors
<1>10. SitesOK'
  <2>1. DOMAIN sites' = {} /\ DOMAIN realized' = {} /\ DOMAIN callSiteCache' = {}
    BY <1>2, <1>3 DEF callSites, accessors
  <2> QED
    BY <1>2, <2>1 DEF SitesOK, ShapeInv, callSites, locks
<1>11. ScopesOK'
  BY <1>2 DEF ShapeInv, ScopesOK, scopeVars, locks
<1>12. ShapeStacks' /\ ReturnsSite'
  <2>1. \A h \in Goroutines : DOMAIN stack'[h] = {} /\ stack'[h] = <<>>
    BY <1>2, <1>3
  <2>2. StacksAre'
    BY <1>2 DEF ShapeInv, ShapeStacks, StacksAre
  <2> QED
    BY <2>1, <2>2 DEF ShapeStacks, FramesOK, CallsOK, Alone, ReturnsSite
<1> QED
  BY <1>9, <1>10, <1>11, <1>12 DEF ShapeInv

\* The initial state has the shape.
LEMMA InitShape == Init => ShapeInv
<1> SUFFICES ASSUME Init PROVE ShapeInv
  OBVIOUS
<1>1. BuildingOK
  BY EmptySeq, DIAssumption DEF Init, BuildingOK
<1>2. ShapeStacks /\ ReturnsSite
  <2>1. \A h \in Goroutines : DOMAIN stack[h] = {} /\ stack[h] = <<>>
    BY DEF Init
  <2>2. StacksAre
    BY EmptySeq DEF Init, StacksAre
  <2> QED
    BY <2>1, <2>2 DEF ShapeStacks, FramesOK, CallsOK, Alone, ReturnsSite
<1>3. SitesOK
  <2>1. DOMAIN sites = {} /\ DOMAIN realized = {} /\ DOMAIN callSiteCache = {} /\ sites = <<>> /\ siteLock = <<>>
    BY DEF Init
  <2> QED
    BY <2>1, EmptySeq DEF SitesOK
<1>4. ScopesOK
  BY EmptySeq DEF Init, ScopesOK, AllScopes
<1> QED
  BY <1>1, <1>2, <1>3, <1>4 DEF ShapeInv

\* Every step keeps the shape.
LEMMA ShapeStep ==
  ASSUME ShapeInv, [Next]_vars
  PROVE  ShapeInv'
<1>1. CASE UNCHANGED vars
  <2>1. UNCHANGED <<plan, phase, descriptors, options, callSiteCache, sites, typeLock, siteLock, scopeLock, realized>>
        /\ UNCHANGED <<created, disposed, cleared, resolved, disposables, instances, stack, ret>>
    BY <1>1 DEF vars, builder, callSites, locks, accessors, scopeVars
  <2>2. BuildingOK' /\ SitesOK' /\ ScopesOK' /\ ReturnsSite'
    BY <2>1 DEF ShapeInv, BuildingOK, SitesOK, SiteOK, ScopesOK, ReturnsSite, top, Types
  <2>3. Grows
    BY <2>1 DEF Grows, Types
  <2>4. FramesOK'
    BY <2>1, <2>3, FrameStays DEF ShapeInv, ShapeStacks, FramesOK
  <2>5. ShapeStacks'
    BY <2>1, <2>4 DEF ShapeInv, ShapeStacks, StacksAre, CallsOK, Alone
  <2> QED
    BY <2>2, <2>5 DEF ShapeInv
<1>2. CASE Configure
  BY <1>2, ConfigureShape
<1>3. ASSUME NEW g \in Goroutines, Build(g) \/ Start(g) PROVE ShapeInv'
  BY <1>3, BuildShape, GetShape, CreateScopeShape, DisposeShape DEF Start
<1>4. ASSUME NEW g \in Goroutines, Step(g) PROVE ShapeInv'
  BY <1>4, GetCallSiteShape, createCallSiteShape, createCallSiteReturnsShape, tryCreateExactShape,
     storeCallSiteShape, createSliceShape, createSliceElementShape, validateServiceShape, validatedServiceShape,
     GetWithScopeShape, createServiceAccessorShape, createRootAccessorShape, accessShape, visitCallSiteShape,
     visitRootCacheShape, visitScopeCacheShape, visitPartShape, constructShape, captureShape, BeginDisposeShape,
     disposeNextShape DEF Step
<1> QED
  BY <1>1, <1>2, <1>3, <1>4 DEF Next

\* The shape is an invariant, the type invariant of the container.
LEMMA ShapeInvariant == Spec => []ShapeInv
<1>1. Init => ShapeInv
  BY InitShape
<1>2. ShapeInv /\ [Next]_vars => ShapeInv'
  BY ShapeStep
<1> QED
  BY <1>1, <1>2, PTL DEF Spec

-----------------------------------------------------------------------------
(* One call site for a descriptor that is reached by its type only         *)

\* What a step of g that leaves its frames up to k has to show.
LEMMA SiteMoves ==
  ASSUME ShapeInv, SiteStacks, NEW g \in Goroutines, NEW k, NEW m, Moves(g, k, m), k <= Len(stack[g]),
         descriptors' = descriptors,
         \A h \in Goroutines : \A n \in DOMAIN stack[h] :
           (h # g \/ n <= k) /\ stack[h][n].fn = "site" /\ stack[h][n].pc = "made" => typeLock'[stack[h][n].t] = h,
         \A h \in Goroutines : \A n \in DOMAIN stack[h] :
           (h # g \/ n <= k) /\ stack[h][n].fn = "exact" /\ ~aliased(stack[h][n].d) /\ stack[h][n].pc \in {"arg", "store"}
           => \A c \in DOMAIN sites' : sites'[c].kind \in OfDescriptor => sites'[c].d # stack[h][n].d,
         m >= 1 => /\ OwnOK(g, stack[g][k + 1])'
                   /\ \A i \in 1..k : SitePair(stack[g][i], stack'[g][k + 1])
                   /\ k # 0 => ExactOK(stack[g][k], stack[g][k + 1])',
         m = 2 => /\ OwnOK(g, stack[g][k + 2])'
                  /\ \A i \in 1..k : SitePair(stack[g][i], stack'[g][k + 2])
                  /\ SitePair(stack'[g][k + 1], stack'[g][k + 2])
                  /\ ExactOK(stack[g][k + 1], stack[g][k + 2])'
  PROVE  SiteStacks'
<1>1. k \in Nat /\ m \in 0..2 /\ DOMAIN stack'[g] = 1..(k + m) /\ Len(stack[g]) \in Nat /\ DOMAIN stack[g] = 1..Len(stack[g])
  BY SeqFacts DEF Moves, ShapeInv, ShapeStacks, StacksAre
<1>2. \A n \in 1..k : n \in DOMAIN stack[g] /\ n <= k /\ stack'[g][n] = stack[g][n]
  BY <1>1 DEF Moves
<1>3. \A h \in Goroutines \ {g} : stack'[h] = stack[h]
  BY DEF Moves
<1>4. ASSUME NEW lo, NEW hi, SitePair(lo, hi) PROVE SitePair(lo, hi)'
  BY <1>4 DEF SitePair, MakesSite
<1>5. ASSUME NEW d, aliased(d)' PROVE aliased(d)
  BY <1>5 DEF aliased
<1>6. ASSUME NEW lo, NEW f, ExactOK(lo, f), f.fn = "exact" /\ ~aliased(f.d) /\ f.pc \in {"arg", "store"} => NoSiteOf(f.d)'
      PROVE  ExactOK(lo, f)'
  <2>1. aliased(f.d)' <=> aliased(f.d)
    BY DEF aliased
  <2>2. GetSlot(f.d)' = GetSlot(f.d)
    BY DEF GetSlot, SlotIn, Registered
  <2> QED
    BY <1>6, <2>1, <2>2 DEF ExactOK
<1>7. ASSUME NEW h \in Goroutines, NEW j \in DOMAIN stack'[h] PROVE OwnOK(h, stack[h][j])'
  <2>1. CASE h # g
    BY <1>3, <1>7, <2>1 DEF OwnOK
  <2>2. CASE h = g /\ j \in 1..k
    BY <1>2, <2>2 DEF OwnOK
  <2>3. CASE h = g /\ j \notin 1..k
    <3>1. (j = k + 1 /\ m >= 1) \/ (j = k + 2 /\ m = 2)
      BY <1>1, <1>7, <2>3
    <3> QED
      BY <2>3, <3>1
  <2> QED
    BY <2>1, <2>2, <2>3
<1>8. ASSUME NEW h \in Goroutines, NEW j \in DOMAIN stack'[h], NEW i \in DOMAIN stack'[h], i < j
      PROVE  SitePair(stack[h][i], stack[h][j])'
  <2>1. CASE h # g
    <3>1. SitePair(stack[h][i], stack[h][j])
      BY <1>3, <1>8, <2>1 DEF SiteStacks
    <3>2. PICK lo, hi : lo = stack[h][i] /\ hi = stack[h][j]
      OBVIOUS
    <3>3. stack'[h][i] = lo /\ stack'[h][j] = hi
      BY <1>3, <2>1, <3>2
    <3>4. SitePair(lo, hi)'
      BY <1>4, <3>1, <3>2
    <3> QED
      BY <3>3, <3>4
  <2>2. CASE h = g /\ j \in 1..k
    <3>0. i \in 1..k
      BY <1>1, <1>8, <2>2
    <3>1. SitePair(stack[g][i], stack[g][j])
      BY <1>2, <1>8, <2>2, <3>0 DEF SiteStacks
    <3>2. PICK lo, hi : lo = stack[h][i] /\ hi = stack[h][j]
      OBVIOUS
    <3>3. stack'[h][i] = lo /\ stack'[h][j] = hi
      BY <1>2, <2>2, <3>0, <3>2
    <3>4. SitePair(lo, hi)'
      BY <1>4, <2>2, <3>1, <3>2
    <3> QED
      BY <3>3, <3>4
  <2>3. CASE h = g /\ j \notin 1..k /\ i \in 1..k
    <3>1. (j = k + 1 /\ m >= 1) \/ (j = k + 2 /\ m = 2)
      BY <1>1, <1>8, <2>3
    <3>2. SitePair(stack[g][i], stack'[g][j])
      BY <2>3, <3>1
    <3>3. PICK lo, hi : lo = stack[g][i] /\ hi = stack'[g][j]
      OBVIOUS
    <3>4. stack'[h][i] = lo /\ stack'[h][j] = hi
      BY <1>2, <2>3, <3>3
    <3>5. SitePair(lo, hi)'
      BY <1>4, <3>2, <3>3
    <3> QED
      BY <3>4, <3>5
  <2>4. CASE h = g /\ j \notin 1..k /\ i \notin 1..k
    <3>1. j = k + 2 /\ m = 2 /\ i = k + 1
      BY <1>1, <1>8, <2>4
    <3>2. PICK lo, hi : lo = stack'[g][i] /\ hi = stack'[g][j]
      OBVIOUS
    <3>3. SitePair(lo, hi)'
      BY <1>4, <3>1, <3>2
    <3> QED
      BY <2>4, <3>2, <3>3
  <2> QED
    BY <2>1, <2>2, <2>3, <2>4
<1>9. ASSUME NEW h \in Goroutines, NEW j \in DOMAIN stack'[h], j # 1 PROVE ExactOK(stack[h][j - 1], stack[h][j])'
  <2>1. CASE h # g
    <3>1. PICK lo, f : lo = stack[h][j - 1] /\ f = stack[h][j]
      OBVIOUS
    <3>2. stack'[h][j - 1] = lo /\ stack'[h][j] = f /\ ExactOK(lo, f) /\ j \in DOMAIN stack[h]
      BY <1>3, <1>9, <2>1, <3>1 DEF SiteStacks
    <3>3. f.fn = "exact" /\ ~aliased(f.d) /\ f.pc \in {"arg", "store"} => NoSiteOf(f.d)'
      BY <2>1, <3>1, <3>2 DEF NoSiteOf
    <3> QED
      BY <1>6, <3>2, <3>3
  <2>2. CASE h = g /\ j \in 1..k
    <3>0. j - 1 \in 1..k /\ j \in DOMAIN stack[g] /\ j <= k
      BY <1>1, <1>9, <2>2
    <3>1. PICK lo, f : lo = stack[g][j - 1] /\ f = stack[g][j]
      OBVIOUS
    <3>2. stack'[g][j - 1] = lo /\ stack'[g][j] = f /\ ExactOK(lo, f)
      BY <1>2, <1>9, <2>2, <3>0, <3>1 DEF SiteStacks
    <3>3. f.fn = "exact" /\ ~aliased(f.d) /\ f.pc \in {"arg", "store"} => NoSiteOf(f.d)'
      BY <2>2, <3>0, <3>1, <3>2 DEF NoSiteOf
    <3> QED
      BY <1>6, <2>2, <3>2, <3>3
  <2>3. CASE h = g /\ j \notin 1..k
    <3>1. (j = k + 1 /\ m >= 1 /\ j - 1 = k /\ k # 0) \/ (j = k + 2 /\ m = 2 /\ j - 1 = k + 1)
      BY <1>1, <1>9, <2>3
    <3>2. CASE j = k + 1 /\ m >= 1 /\ j - 1 = k /\ k # 0
      <4>1. stack'[g][k] = stack[g][k]
        BY <1>1, <1>2, <3>2
      <4> QED
        BY <2>3, <3>2, <4>1
    <3> QED
      BY <2>3, <3>1, <3>2
  <2> QED
    BY <2>1, <2>2, <2>3
<1> QED
  BY <1>7, <1>8, <1>9 DEF SiteStacks

\* What the call sites are is the same, whatever value one of them gets.
SameSites ==
    /\ UNCHANGED <<descriptors, callSiteCache, typeLock>> /\ DOMAIN sites' = DOMAIN sites
    /\ \A c \in DOMAIN sites : sites'[c].kind = sites[c].kind /\ sites'[c].d = sites[c].d /\ sites'[c].type = sites[c].type

\* What is known of call sites when none is made.
LEMMA SameSitesKeep ==
  ASSUME OneSite, SiteIsCached, SameSites
  PROVE  OneSite' /\ SiteIsCached' /\ \A d : NoSiteOf(d) => NoSiteOf(d)'
<1>1. ASSUME NEW d PROVE (aliased(d)' <=> aliased(d)) /\ GetSlot(d)' = GetSlot(d)
  BY DEF aliased, GetSlot, SlotIn, Registered, SameSites
<1>2. OneSite'
  BY <1>1 DEF OneSite, SameSites
<1>3. SiteIsCached'
  BY <1>1 DEF SiteIsCached, SameSites
<1>4. \A d : NoSiteOf(d) => NoSiteOf(d)'
  BY DEF NoSiteOf, SameSites
<1> QED
  BY <1>2, <1>3, <1>4

\* The frames under one that makes no call site make none either.
LEMMA BelowOff ==
  ASSUME ShapeInv, SiteStacks, NEW g \in Goroutines, stack[g] # <<>>, ~MakesSite(top(g))
  PROVE  \A i \in 1..Len(stack[g]) : ~MakesSite(stack[g][i])
<1>1. Len(stack[g]) \in Nat /\ DOMAIN stack[g] = 1..Len(stack[g]) /\ Len(stack[g]) \in DOMAIN stack[g] /\ top(g) = stack[g][Len(stack[g])]
  BY TopFacts DEF ShapeInv
<1>2. \A i \in 1..Len(stack[g]) : i < Len(stack[g]) \/ i = Len(stack[g])
  BY <1>1
<1> QED
  BY <1>1, <1>2 DEF SiteStacks, SitePair

\* A descriptor whose call site is being made has none yet.
LEMMA NoSiteYet ==
  ASSUME ShapeInv, SiteStacks, NEW h \in Goroutines, NEW n \in DOMAIN stack[h], stack[h][n].fn = "exact",
         ~aliased(stack[h][n].d), stack[h][n].pc \in {"arg", "store"}
  PROVE  n # 1 /\ NoSiteOf(stack[h][n].d) /\ ExactOK(stack[h][n - 1], stack[h][n])
<1>1. n # 1
  BY DEF ShapeInv, ShapeStacks, CallsOK, Bottoms
<1> QED
  BY <1>1 DEF SiteStacks, ExactOK

\* SiteMoves where no call site and no lock of a type changes.
LEMMA SameSitesMoves ==
  ASSUME ShapeInv, SiteInv, NEW g \in Goroutines, NEW k, NEW m, Moves(g, k, m), k <= Len(stack[g]), SameSites,
         m >= 1 => /\ OwnOK(g, stack[g][k + 1])'
                   /\ \A i \in 1..k : SitePair(stack[g][i], stack'[g][k + 1])
                   /\ k # 0 => ExactOK(stack[g][k], stack[g][k + 1])',
         m = 2 => /\ OwnOK(g, stack[g][k + 2])'
                  /\ \A i \in 1..k : SitePair(stack[g][i], stack'[g][k + 2])
                  /\ SitePair(stack'[g][k + 1], stack'[g][k + 2])
                  /\ ExactOK(stack[g][k + 1], stack[g][k + 2])'
  PROVE  SiteInv'
<1>1. OneSite' /\ SiteIsCached' /\ \A d : NoSiteOf(d) => NoSiteOf(d)'
  BY SameSitesKeep DEF SiteInv
<1>2. descriptors' = descriptors /\ typeLock' = typeLock
  BY DEF SameSites
<1>3. SiteStacks
  BY DEF SiteInv
<1>4. \A h \in Goroutines : \A n \in DOMAIN stack[h] :
           (h # g \/ n <= k) /\ stack[h][n].fn = "site" /\ stack[h][n].pc = "made" => typeLock'[stack[h][n].t] = h
  BY <1>2, <1>3 DEF SiteStacks, OwnOK
<1>5. \A h \in Goroutines : \A n \in DOMAIN stack[h] :
        (h # g \/ n <= k) /\ stack[h][n].fn = "exact" /\ ~aliased(stack[h][n].d) /\ stack[h][n].pc \in {"arg", "store"}
        => \A c \in DOMAIN sites' : sites'[c].kind \in OfDescriptor => sites'[c].d # stack[h][n].d
  <2>1. SUFFICES ASSUME NEW h \in Goroutines, NEW n \in DOMAIN stack[h], stack[h][n].fn = "exact",
                        ~aliased(stack[h][n].d), stack[h][n].pc \in {"arg", "store"}
                 PROVE  \A c \in DOMAIN sites' : sites'[c].kind \in OfDescriptor => sites'[c].d # stack[h][n].d
    OBVIOUS
  <2>2. PICK d : d = stack[h][n].d
    OBVIOUS
  <2>3. NoSiteOf(d)
    BY <1>3, <2>1, <2>2, NoSiteYet
  <2>4. NoSiteOf(d)'
    BY <1>1, <2>3
  <2> QED
    BY <2>2, <2>4 DEF NoSiteOf
<1>8. SiteStacks'
  BY <1>2, <1>3, <1>4, <1>5, SiteMoves
<1> QED
  BY <1>1, <1>8 DEF SiteInv

\* A step of a goroutine that makes no call site.
LEMMA OffSite ==
  ASSUME ShapeInv, SiteInv, NEW g \in Goroutines, NEW k, NEW m, Moves(g, k, m), k <= Len(stack[g]), SameSites,
         \A i \in 1..k : ~MakesSite(stack[g][i]),
         m >= 1 => ~MakesSite(stack'[g][k + 1]),
         m = 2 => ExactOK(stack[g][k + 1], stack[g][k + 2])' /\ stack'[g][k + 2].pc = "enter"
  PROVE  SiteInv'
<1>6. m >= 1 => /\ OwnOK(g, stack[g][k + 1])'
                /\ \A i \in 1..k : SitePair(stack[g][i], stack'[g][k + 1])
                /\ k # 0 => ExactOK(stack[g][k], stack[g][k + 1])'
  BY DEF OwnOK, SitePair, ExactOK, MakesSite, Makes
<1>7. m = 2 => /\ OwnOK(g, stack[g][k + 2])'
               /\ \A i \in 1..k : SitePair(stack[g][i], stack'[g][k + 2])
               /\ SitePair(stack'[g][k + 1], stack'[g][k + 2])
               /\ ExactOK(stack[g][k + 1], stack[g][k + 2])'
  BY <1>6 DEF OwnOK, SitePair, MakesSite, Makes
<1> QED
  BY <1>6, <1>7, SameSitesMoves

\* ... when it goes on.
LEMMA OffGoto ==
  ASSUME ShapeInv, SiteInv, NEW g \in Goroutines, stack[g] # <<>>, ~MakesSite(top(g)), SameSites,
         NEW f, Goto(g, f), ~MakesSite(f)
  PROVE  SiteInv'
<1>1. PICK n : n = Len(stack[g])
  OBVIOUS
<1>2. Moves(g, n - 1, 1) /\ stack'[g][n] = f /\ n \in Nat \ {0}
  BY <1>1, GotoMoves, TopFacts DEF ShapeInv, ShapeStacks
<1>3. PICK k : k = n - 1
  OBVIOUS
<1>4. k + 1 = n /\ k <= n /\ \A i \in 1..k : i \in 1..n
  BY <1>2, <1>3
<1>5. \A i \in 1..k : ~MakesSite(stack[g][i])
  BY <1>1, <1>4, BelowOff DEF SiteInv
<1>6. 1 # 2
  OBVIOUS
<1> QED
  BY <1>1, <1>2, <1>3, <1>4, <1>5, <1>6, OffSite

\* ... when it returns.
LEMMA OffReturn ==
  ASSUME ShapeInv, SiteInv, NEW g \in Goroutines, stack[g] # <<>>, ~MakesSite(top(g)), SameSites,
         NEW r, Return(g, r)
  PROVE  SiteInv'
<1>1. PICK n : n = Len(stack[g])
  OBVIOUS
<1>2. Moves(g, n - 1, 0) /\ n \in Nat \ {0}
  BY <1>1, ReturnMoves, TopFacts DEF ShapeInv, ShapeStacks
<1>3. PICK k : k = n - 1
  OBVIOUS
<1>4. k <= n /\ (\A i \in 1..k : i \in 1..n) /\ 0 # 2 /\ ~(0 >= 1)
  BY <1>2, <1>3
<1>5. \A i \in 1..k : ~MakesSite(stack[g][i])
  BY <1>1, <1>4, BelowOff DEF SiteInv
<1> QED
  BY <1>1, <1>2, <1>3, <1>4, <1>5, OffSite

\* ... when it calls.
LEMMA OffCall ==
  ASSUME ShapeInv, SiteInv, NEW g \in Goroutines, stack[g] # <<>>, ~MakesSite(top(g)), SameSites,
         NEW f, NEW f2, Call(g, f, f2), ~MakesSite(f), ExactOK(f, f2)', f2.pc = "enter"
  PROVE  SiteInv'
<1>1. PICK n : n = Len(stack[g])
  OBVIOUS
<1>2. Moves(g, n - 1, 2) /\ stack'[g][n] = f /\ stack'[g][n + 1] = f2 /\ n \in Nat \ {0}
  BY <1>1, CallMoves, TopFacts DEF ShapeInv, ShapeStacks
<1>3. PICK k : k = n - 1
  OBVIOUS
<1>4. k + 1 = n /\ k + 2 = n + 1 /\ k <= n /\ \A i \in 1..k : i \in 1..n
  BY <1>2, <1>3
<1>5. \A i \in 1..k : ~MakesSite(stack[g][i])
  BY <1>1, <1>4, BelowOff DEF SiteInv
<1>6. ExactOK(stack[g][k + 1], stack[g][k + 2])'
  BY <1>2, <1>4
<1> QED
  BY <1>1, <1>2, <1>3, <1>4, <1>5, <1>6, OffSite

\* A step that makes no call site.
LEMMA QuietSites ==
  ASSUME UNCHANGED <<descriptors, callSites, typeLock>>
  PROVE  SameSites
BY DEF SameSites, callSites

\* The top frame of a goroutine that makes no call site.
LEMMA AtOff ==
  ASSUME ShapeInv, NEW g \in Goroutines, NEW fn, NEW pc, At(g, fn, pc), fn \notin Makes
  PROVE  stack[g] # <<>> /\ ~MakesSite(top(g)) /\ IsFrame(top(g)) /\ top(g).fn = fn /\ FrameOK(top(g))
BY AtFacts DEF MakesSite

\* validateService keeps one call site for each such descriptor.
LEMMA validateServiceSite ==
  ASSUME ShapeInv, SiteInv, NEW g \in Goroutines, validateService(g)
  PROVE  SiteInv'
<1>1. PICK f : f = top(g)
  OBVIOUS
<1>2. stack[g] # <<>> /\ ~MakesSite(top(g)) /\ IsFrame(f) /\ f.fn = "validate"
  BY <1>1, AtOff DEF validateService, Makes
<1>3. SameSites
  BY QuietSites DEF validateService, locks
<1>4. CASE Call(g, [f EXCEPT !.pc = "made", !.d = @ + 1], exactFrame(f.d + 1, GetSlot(f.d + 1)))
  <2>1. PICK e, e2 : e = [f EXCEPT !.pc = "made", !.d = @ + 1] /\ e2 = exactFrame(f.d + 1, GetSlot(f.d + 1))
    OBVIOUS
  <2>2. e.fn = "validate" /\ ~MakesSite(e)
    BY <1>2, <2>1 DEF IsFrame, MakesSite, Makes
  <2>3. e2.pc = "enter" /\ e2.d = f.d + 1 /\ e2.slot = GetSlot(f.d + 1)
    BY <2>1, ExactFrame
  <2>4. GetSlot(f.d + 1)' = GetSlot(f.d + 1)
    BY <1>3 DEF GetSlot, SlotIn, Registered, SameSites
  <2>5. ExactOK(e, e2)'
    BY <1>3, <2>2, <2>3, <2>4 DEF ExactOK
  <2> QED
    BY <1>2, <1>3, <1>4, <2>1, <2>2, <2>3, <2>5, OffCall
<1>5. ASSUME NEW r, Return(g, r) PROVE SiteInv'
  BY <1>2, <1>3, <1>5, OffReturn
<1> QED
  BY <1>1, <1>4, <1>5 DEF validateService

\* validatedService keeps one call site for each such descriptor.
LEMMA validatedServiceSite ==
  ASSUME ShapeInv, SiteInv, NEW g \in Goroutines, validatedService(g)
  PROVE  SiteInv'
<1>1. PICK f : f = top(g)
  OBVIOUS
<1>2. stack[g] # <<>> /\ ~MakesSite(top(g)) /\ IsFrame(f) /\ f.fn = "validate"
  BY <1>1, AtOff DEF validatedService, Makes
<1>3. SameSites
  BY QuietSites DEF validatedService, locks, builder
<1>4. PICK ok : Goto(g, [f EXCEPT !.pc = "enter", !.held = @ \/ ~ok])
  <2>1. PICK ok : ok = (ret[g].ok /\ ValidateCallSite(ret[g].site))
    OBVIOUS
  <2> QED
    BY <1>1, <2>1 DEF validatedService
<1>5. PICK e : e = [f EXCEPT !.pc = "enter", !.held = @ \/ ~ok]
  OBVIOUS
<1>6. ~MakesSite(e)
  BY <1>2, <1>5 DEF IsFrame, MakesSite, Makes
<1> QED
  BY <1>2, <1>3, <1>4, <1>5, <1>6, OffGoto

\* GetWithScope keeps one call site for each such descriptor.
LEMMA GetWithScopeSite ==
  ASSUME ShapeInv, SiteInv, NEW g \in Goroutines, GetWithScope(g)
  PROVE  SiteInv'
<1>1. PICK f : f = top(g)
  OBVIOUS
<1>2. stack[g] # <<>> /\ ~MakesSite(top(g)) /\ IsFrame(f) /\ f.fn = "get"
  BY <1>1, AtOff DEF GetWithScope, Makes
<1>3. SameSites
  BY QuietSites DEF GetWithScope, locks, builder
<1>4. CASE Return(g, Err)
  BY <1>2, <1>3, <1>4, OffReturn
<1>5. CASE Goto(g, [f EXCEPT !.pc = "access"])
  <2>1. PICK e : e = [f EXCEPT !.pc = "access"]
    OBVIOUS
  <2>2. ~MakesSite(e)
    BY <1>2, <2>1 DEF IsFrame, MakesSite, Makes
  <2> QED
    BY <1>2, <1>3, <1>5, <2>1, <2>2, OffGoto
<1>6. PICK e : e = [f EXCEPT !.pc = "made"]
  OBVIOUS
<1>7. ~MakesSite(e)
  BY <1>2, <1>6 DEF IsFrame, MakesSite, Makes
<1>8. CASE Call(g, e, siteFrame(f.t))
  <2>1. PICK e2 : e2 = siteFrame(f.t)
    OBVIOUS
  <2>2. e2.fn = "site" /\ e2.pc = "enter"
    BY <2>1, SiteFrame
  <2>3. ExactOK(e, e2)'
    BY <2>2 DEF ExactOK
  <2> QED
    BY <1>2, <1>3, <1>7, <1>8, <2>1, <2>2, <2>3, OffCall
<1>9. PICK ds : ds = KeyRegistered(f.t, f.key)
  OBVIOUS
<1>10. CASE ds # {} /\ Call(g, e, exactFrame(Last(ds), GetSlot(Last(ds))))
  <2>1. PICK e2 : e2 = exactFrame(Last(ds), GetSlot(Last(ds)))
    OBVIOUS
  <2>2. e2.pc = "enter" /\ e2.d = Last(ds)
    BY <2>1, ExactFrame
  <2>3. Last(ds) \in ds
    BY <1>9, <1>10, LastFacts DEF ShapeInv, BuildingOK, KeyRegistered, Registered
  <2>4. f.key \in descriptors[e2.d].keys
    BY <1>9, <2>2, <2>3 DEF KeyRegistered
  <2>5. aliased(e2.d)'
    BY <1>3, <2>4 DEF aliased, SameSites
  <2>6. ExactOK(e, e2)'
    BY <2>5 DEF ExactOK
  <2> QED
    BY <1>2, <1>3, <1>7, <1>10, <2>1, <2>2, <2>6, OffCall
<1> QED
  BY <1>1, <1>4, <1>5, <1>6, <1>8, <1>9, <1>10 DEF GetWithScope

\* createServiceAccessor keeps one call site for each such descriptor.
LEMMA createServiceAccessorSite ==
  ASSUME ShapeInv, SiteInv, NEW g \in Goroutines, createServiceAccessor(g)
  PROVE  SiteInv'
<1>1. PICK f, c : f = top(g) /\ c = ret[g].site
  OBVIOUS
<1>2. stack[g] # <<>> /\ ~MakesSite(top(g)) /\ IsFrame(f) /\ f.fn = "get"
  BY <1>1, AtOff DEF createServiceAccessor, Makes
<1>3. SameSites
  BY QuietSites DEF createServiceAccessor, locks, builder
<1>4. CASE Return(g, Err)
  BY <1>2, <1>3, <1>4, OffReturn
<1>5. CASE Goto(g, [f EXCEPT !.pc = "access"])
  <2>1. PICK e : e = [f EXCEPT !.pc = "access"]
    OBVIOUS
  <2>2. ~MakesSite(e)
    BY <1>2, <2>1 DEF IsFrame, MakesSite, Makes
  <2> QED
    BY <1>2, <1>3, <1>5, <2>1, <2>2, OffGoto
<1>6. CASE Call(g, [f EXCEPT !.pc = "value", !.site = c], visitFrame(c, Root))
  <2>1. PICK e, e2 : e = [f EXCEPT !.pc = "value", !.site = c] /\ e2 = visitFrame(c, Root)
    OBVIOUS
  <2>2. ~MakesSite(e)
    BY <1>2, <2>1 DEF IsFrame, MakesSite, Makes
  <2>3. e2.fn = "visit" /\ e2.pc = "enter"
    BY <2>1, VisitFrame
  <2>4. ExactOK(e, e2)'
    BY <2>3 DEF ExactOK
  <2> QED
    BY <1>2, <1>3, <1>6, <2>1, <2>2, <2>3, <2>4, OffCall
<1> QED
  BY <1>1, <1>4, <1>5, <1>6 DEF createServiceAccessor

\* createRootAccessor keeps one call site for each such descriptor.
LEMMA createRootAccessorSite ==
  ASSUME ShapeInv, SiteInv, NEW g \in Goroutines, createRootAccessor(g)
  PROVE  SiteInv'
<1>1. PICK f : f = top(g)
  OBVIOUS
<1>2. stack[g] # <<>> /\ ~MakesSite(top(g)) /\ IsFrame(f) /\ f.fn = "get"
  BY <1>1, AtOff DEF createRootAccessor, Makes
<1>3. SameSites
  BY QuietSites DEF createRootAccessor, locks, builder
<1>4. CASE Return(g, Err)
  BY <1>2, <1>3, <1>4, OffReturn
<1>5. CASE Goto(g, [f EXCEPT !.pc = "access"])
  <2>1. PICK e : e = [f EXCEPT !.pc = "access"]
    OBVIOUS
  <2>2. ~MakesSite(e)
    BY <1>2, <2>1 DEF IsFrame, MakesSite, Makes
  <2> QED
    BY <1>2, <1>3, <1>5, <2>1, <2>2, OffGoto
<1> QED
  BY <1>1, <1>4, <1>5 DEF createRootAccessor

\* access keeps one call site for each such descriptor.
LEMMA accessSite ==
  ASSUME ShapeInv, SiteInv, NEW g \in Goroutines, access(g)
  PROVE  SiteInv'
<1>1. PICK f, a : f = top(g) /\ a = realized[<<f.t, f.key>>]
  OBVIOUS
<1>2. stack[g] # <<>> /\ ~MakesSite(top(g))
  BY AtOff DEF access, Makes
<1>3. SameSites
  BY QuietSites DEF access, locks, builder
<1>4. ASSUME NEW r, Return(g, r) PROVE SiteInv'
  BY <1>2, <1>3, <1>4, OffReturn
<1>5. CASE Goto(g, visitFrame(a.site, f.scope))
  <2>1. PICK e : e = visitFrame(a.site, f.scope)
    OBVIOUS
  <2>2. ~MakesSite(e)
    BY <2>1, VisitFrame DEF MakesSite, Makes
  <2> QED
    BY <1>2, <1>3, <1>5, <2>1, <2>2, OffGoto
<1> QED
  BY <1>1, <1>4, <1>5 DEF access

\* visitCallSite keeps one call site for each such descriptor.
LEMMA visitCallSiteSite ==
  ASSUME ShapeInv, SiteInv, NEW g \in Goroutines, visitCallSite(g)
  PROVE  SiteInv'
<1>1. PICK f : f = top(g)
  OBVIOUS
<1>2. stack[g] # <<>> /\ ~MakesSite(top(g)) /\ IsFrame(f) /\ f.fn = "visit"
  BY <1>1, AtOff DEF visitCallSite, Makes
<1>3. SameSites
  BY QuietSites DEF visitCallSite, locks, builder
<1>4. ASSUME NEW r, Return(g, r) PROVE SiteInv'
  BY <1>2, <1>3, <1>4, OffReturn
<1>5. ASSUME NEW e, Goto(g, e), e.fn = "visit" PROVE SiteInv'
  BY <1>2, <1>3, <1>5, OffGoto DEF MakesSite, Makes
<1>6. ASSUME NEW pc PROVE [f EXCEPT !.pc = pc].fn = "visit"
  BY <1>2 DEF IsFrame
<1>7. ASSUME NEW pc, NEW b PROVE [f EXCEPT !.nilMap = b, !.pc = pc].fn = "visit"
  BY <1>2 DEF IsFrame
<1>8. CASE atRoot(f) \/ ~inScope(f)
  BY <1>1, <1>4, <1>5, <1>6, <1>8 DEF visitCallSite
<1>9. CASE ~atRoot(f) /\ inScope(f)
  <2>1. PICK b, pc : b = (f.scope \in cleared) /\ pc = IF f.held THEN "lookup" ELSE "lockScope"
    OBVIOUS
  <2> QED
    BY <1>1, <1>5, <1>7, <1>9, <2>1 DEF visitCallSite
<1> QED
  BY <1>8, <1>9

\* visitRootCache keeps one call site for each such descriptor.
LEMMA visitRootCacheSite ==
  ASSUME ShapeInv, SiteInv, NEW g \in Goroutines, visitRootCache(g)
  PROVE  SiteInv'
<1>1. PICK f : f = top(g)
  OBVIOUS
<1>2. stack[g] # <<>> /\ ~MakesSite(top(g)) /\ IsFrame(f) /\ f.fn = "visit"
  BY <1>1, AtOff DEF visitRootCache, Makes
<1>3. SameSites
  BY QuietSites DEF visitRootCache, builder
<1>4. ASSUME NEW r, Return(g, r) PROVE SiteInv'
  BY <1>2, <1>3, <1>4, OffReturn
<1>5. ASSUME NEW e, Goto(g, e), e.fn = "visit" PROVE SiteInv'
  BY <1>2, <1>3, <1>5, OffGoto DEF MakesSite, Makes
<1>6. [f EXCEPT !.pc = "build", !.scope = Root].fn = "visit"
  BY <1>2 DEF IsFrame
<1> QED
  BY <1>1, <1>4, <1>5, <1>6 DEF visitRootCache

\* visitScopeCache keeps one call site for each such descriptor.
LEMMA visitScopeCacheSite ==
  ASSUME ShapeInv, SiteInv, NEW g \in Goroutines, visitScopeCache(g)
  PROVE  SiteInv'
<1>1. PICK f : f = top(g)
  OBVIOUS
<1>2. stack[g] # <<>> /\ ~MakesSite(top(g)) /\ IsFrame(f) /\ f.fn = "visit"
  BY <1>1, AtOff DEF visitScopeCache, Makes
<1>3. SameSites
  BY QuietSites DEF visitScopeCache, builder
<1>4. ASSUME NEW r, Return(g, r) PROVE SiteInv'
  BY <1>2, <1>3, <1>4, OffReturn
<1>5. ASSUME NEW e, Goto(g, e), e.fn = "visit" PROVE SiteInv'
  BY <1>2, <1>3, <1>5, OffGoto DEF MakesSite, Makes
<1>6. [f EXCEPT !.pc = "build"].fn = "visit"
  BY <1>2 DEF IsFrame
<1> QED
  BY <1>1, <1>4, <1>5, <1>6 DEF visitScopeCache

\* visitPart keeps one call site for each such descriptor.
LEMMA visitPartSite ==
  ASSUME ShapeInv, SiteInv, NEW g \in Goroutines, visitPart(g)
  PROVE  SiteInv'
<1>1. PICK f : f = top(g)
  OBVIOUS
<1>2. stack[g] # <<>> /\ ~MakesSite(top(g)) /\ IsFrame(f) /\ f.fn = "visit"
  BY <1>1, AtOff DEF visitPart, Makes
<1>3. SameSites
  BY QuietSites DEF visitPart, builder
<1>4. ASSUME NEW r, Return(g, r) PROVE SiteInv'
  BY <1>2, <1>3, <1>4, OffReturn
<1>5. CASE Goto(g, [f EXCEPT !.pc = "build", !.acc = Append(@, ret[g].v)])
  <2>1. PICK e : e = [f EXCEPT !.pc = "build", !.acc = Append(@, ret[g].v)]
    OBVIOUS
  <2>2. ~MakesSite(e)
    BY <1>2, <2>1 DEF IsFrame, MakesSite, Makes
  <2> QED
    BY <1>2, <1>3, <1>5, <2>1, <2>2, OffGoto
<1>6. CASE next(g, f)
  <2>1. PICK e, p : e = [f EXCEPT !.pc = "part"] /\ p = parts(sites[f.site])[Len(f.acc) + 1]
    OBVIOUS
  <2>2. ~MakesSite(e)
    BY <1>2, <2>1 DEF IsFrame, MakesSite, Makes
  <2>3. ASSUME NEW e2, Call(g, e, e2), e2.fn \in {"get", "visit"}, e2.pc = "enter" PROVE SiteInv'
    <3>1. ExactOK(e, e2)'
      BY <2>3 DEF ExactOK
    <3> QED
      BY <1>2, <1>3, <2>2, <2>3, <3>1, OffCall
  <2>4. CASE Call(g, e, getFrame(p, NoKey, f.scope))
    BY <2>3, <2>4, GetFrame
  <2>5. CASE Call(g, e, [visitFrame(p, f.scope) EXCEPT !.held = f.held \/ inScope(f)])
    <3>1. PICK v : v = visitFrame(p, f.scope)
      OBVIOUS
    <3>2. PICK e2 : e2 = [v EXCEPT !.held = f.held \/ inScope(f)]
      OBVIOUS
    <3>3. v.fn = "visit" /\ v.pc = "enter" /\ IsFrame(v)
      BY <3>1, VisitFrame
    <3>4. e2.fn = "visit" /\ e2.pc = "enter"
      BY <3>2, <3>3 DEF IsFrame
    <3> QED
      BY <2>3, <2>5, <3>1, <3>2, <3>4
  <2> QED
    BY <1>6, <2>1, <2>4, <2>5 DEF next
<1> QED
  BY <1>1, <1>4, <1>5, <1>6 DEF visitPart

\* construct keeps one call site for each such descriptor.
LEMMA constructSite ==
  ASSUME ShapeInv, SiteInv, NEW g \in Goroutines, construct(g)
  PROVE  SiteInv'
<1>1. PICK f : f = top(g)
  OBVIOUS
<1>2. stack[g] # <<>> /\ ~MakesSite(top(g)) /\ IsFrame(f) /\ f.fn = "visit"
  BY <1>1, AtOff DEF construct, Makes
<1>3. SameSites
  BY QuietSites DEF construct, builder
<1>4. ASSUME NEW r, Return(g, r) PROVE SiteInv'
  BY <1>2, <1>3, <1>4, OffReturn
<1>5. ASSUME NEW e, Goto(g, e), e.fn = "visit" PROVE SiteInv'
  BY <1>2, <1>3, <1>5, OffGoto DEF MakesSite, Makes
<1>6. ASSUME NEW id, NEW l, Goto(g, [f EXCEPT !.pc = "capture", !.d = id, !.acc = l]) PROVE SiteInv'
  <2>1. [f EXCEPT !.pc = "capture", !.d = id, !.acc = l].fn = "visit"
    BY <1>2 DEF IsFrame
  <2> QED
    BY <1>5, <1>6, <2>1
<1>7. ASSUME NEW l, Goto(g, [f EXCEPT !.pc = "capture", !.acc = l]) PROVE SiteInv'
  <2>1. [f EXCEPT !.pc = "capture", !.acc = l].fn = "visit"
    BY <1>2 DEF IsFrame
  <2> QED
    BY <1>5, <1>7, <2>1
<1> QED
  BY <1>1, <1>4, <1>6, <1>7 DEF construct

\* capture keeps one call site for each such descriptor.
LEMMA captureSite ==
  ASSUME ShapeInv, SiteInv, NEW g \in Goroutines, capture(g)
  PROVE  SiteInv'
<1>1. PICK f : f = top(g)
  OBVIOUS
<1>2. stack[g] # <<>> /\ ~MakesSite(top(g)) /\ f.fn = "visit" /\ f.site \in DOMAIN sites
  BY <1>1, AtOff DEF capture, Makes, FrameOK
<1>3. /\ UNCHANGED <<builder, callSiteCache, typeLock, accessors, cDisposed, created, disposed, cleared, calls>>
      /\ Unlock(f) /\ \E r : Return(g, r)
  BY <1>1 DEF capture
<1>4. sites' = sites \/ sites' = [sites EXCEPT ![f.site].value = f.acc[1]]
  BY <1>1 DEF capture
<1>5. SameSites
  <2>1. CASE sites' = sites
    BY <1>3, <2>1 DEF SameSites, builder
  <2>2. CASE sites' = [sites EXCEPT ![f.site].value = f.acc[1]]
    BY <1>2, <1>3, <2>2, ValueSet, UnlockShape DEF SameSites, builder, accessors
  <2> QED
    BY <1>4, <2>1, <2>2
<1> QED
  BY <1>2, <1>3, <1>5, OffReturn

\* BeginDispose keeps one call site for each such descriptor.
LEMMA BeginDisposeSite ==
  ASSUME ShapeInv, SiteInv, NEW g \in Goroutines, BeginDispose(g)
  PROVE  SiteInv'
<1>1. PICK f : f = top(g)
  OBVIOUS
<1>2. stack[g] # <<>> /\ ~MakesSite(top(g)) /\ IsFrame(f) /\ f.fn = "dispose"
  BY <1>1, AtOff DEF BeginDispose, Makes
<1>3. SameSites
  BY QuietSites DEF BeginDispose, builder, locks
<1>4. PICK l : Goto(g, [f EXCEPT !.pc = "list", !.acc = l])
  BY <1>1 DEF BeginDispose
<1>5. PICK e : e = [f EXCEPT !.pc = "list", !.acc = l]
  OBVIOUS
<1>6. ~MakesSite(e)
  BY <1>2, <1>5 DEF IsFrame, MakesSite, Makes
<1> QED
  BY <1>2, <1>3, <1>4, <1>5, <1>6, OffGoto

\* disposeNext keeps one call site for each such descriptor.
LEMMA disposeNextSite ==
  ASSUME ShapeInv, SiteInv, NEW g \in Goroutines, disposeNext(g)
  PROVE  SiteInv'
<1>1. PICK f : f = top(g)
  OBVIOUS
<1>2. stack[g] # <<>> /\ ~MakesSite(top(g)) /\ IsFrame(f) /\ f.fn = "dispose"
  BY <1>1, AtOff DEF disposeNext, Makes
<1>3. SameSites
  BY QuietSites DEF disposeNext, builder, locks
<1>4. CASE Return(g, NoRet)
  BY <1>2, <1>3, <1>4, OffReturn
<1>5. ASSUME NEW l, Goto(g, [f EXCEPT !.acc = l]) PROVE SiteInv'
  <2>1. PICK e : e = [f EXCEPT !.acc = l]
    OBVIOUS
  <2>2. ~MakesSite(e)
    BY <1>2, <2>1 DEF IsFrame, MakesSite, Makes
  <2> QED
    BY <1>2, <1>3, <1>5, <2>1, <2>2, OffGoto
<1> QED
  BY <1>1, <1>4, <1>5 DEF disposeNext

\* A goroutine starts.
LEMMA StartSite ==
  ASSUME ShapeInv, SiteInv, NEW g \in Goroutines, NEW f, stack' = [stack EXCEPT ![g] = <<f>>], ~MakesSite(f),
         UNCHANGED <<descriptors, callSites, typeLock>>
  PROVE  SiteInv'
<1>1. Moves(g, 0, 1) /\ stack'[g][1] = f
  BY StartMoves DEF ShapeInv, ShapeStacks
<1>2. 0 <= Len(stack[g]) /\ 0 + 1 = 1 /\ 1 # 2 /\ 1..0 = {}
  BY SeqFacts DEF ShapeInv, ShapeStacks, StacksAre
<1> QED
  BY <1>1, <1>2, QuietSites, OffSite

\* Get keeps one call site for each such descriptor.
LEMMA GetSite ==
  ASSUME ShapeInv, SiteInv, NEW g \in Goroutines, NEW r \in plan.ask, NEW s \in AllScopes, Get(g, r, s)
  PROVE  SiteInv'
<1>1. PICK f : f = getFrame(r.type, r.key, s)
  OBVIOUS
<1>2. ~MakesSite(f)
  BY <1>1, GetFrame DEF MakesSite, Makes
<1> QED
  BY <1>1, <1>2, StartSite DEF Get, builder, locks

\* Nothing of this changes.
LEMMA UnchangedSite ==
  ASSUME SiteInv, UNCHANGED <<descriptors, callSites, typeLock, stack>>
  PROVE  SiteInv'
BY DEF SiteInv, OneSite, SiteIsCached, SiteStacks, OwnOK, SitePair, MakesSite, ExactOK, NoSiteOf, aliased, GetSlot, SlotIn,
       Registered, callSites

\* Dispose keeps one call site for each such descriptor.
LEMMA DisposeSite ==
  ASSUME ShapeInv, SiteInv, NEW g \in Goroutines, NEW s \in AllScopes, Dispose(g, s)
  PROVE  SiteInv'
<1>1. PICK f : f = [Frame EXCEPT !.fn = "dispose", !.scope = s]
  OBVIOUS
<1>2. ~MakesSite(f)
  BY <1>1 DEF Frame, MakesSite, Makes
<1>3. UNCHANGED <<descriptors, callSites, typeLock>>
  BY DEF Dispose, builder, locks
<1>4. CASE stack' = stack
  BY <1>3, <1>4, UnchangedSite
<1>5. CASE stack' = [stack EXCEPT ![g] = <<f>>]
  BY <1>2, <1>3, <1>5, StartSite
<1> QED
  BY <1>1, <1>4, <1>5 DEF Dispose

\* CreateScope keeps one call site for each such descriptor.
LEMMA CreateScopeSite ==
  ASSUME SiteInv, NEW g \in Goroutines, NEW s \in Scopes, CreateScope(g, s)
  PROVE  SiteInv'
BY UnchangedSite DEF CreateScope, builder, locks

\* Steps of a goroutine that is making a call site.
LEMMA SiteReturn ==
  ASSUME ShapeInv, SiteInv, NEW g \in Goroutines, stack[g] # <<>>, SameSites, NEW r, Return(g, r)
  PROVE  SiteInv'
<1>1. PICK n : n = Len(stack[g])
  OBVIOUS
<1>2. Moves(g, n - 1, 0) /\ n \in Nat \ {0}
  BY <1>1, ReturnMoves, TopFacts DEF ShapeInv, ShapeStacks
<1>3. PICK k : k = n - 1
  OBVIOUS
<1>4. k <= n /\ 0 # 2 /\ ~(0 >= 1)
  BY <1>2, <1>3
<1> QED
  BY <1>1, <1>2, <1>3, <1>4, SameSitesMoves

\* A frame that makes a call site goes on.
LEMMA SiteGoto ==
  ASSUME ShapeInv, SiteInv, NEW g \in Goroutines, stack[g] # <<>>, SameSites, NEW f, Goto(g, f), OwnOK(g, f)',
         \A i \in DOMAIN stack[g] : i < Len(stack[g]) => SitePair(stack[g][i], f),
         Len(stack[g]) # 1 => ExactOK(stack[g][Len(stack[g]) - 1], f)
  PROVE  SiteInv'
<1>1. PICK n : n = Len(stack[g])
  OBVIOUS
<1>2. Moves(g, n - 1, 1) /\ stack'[g][n] = f /\ n \in Nat \ {0} /\ DOMAIN stack[g] = 1..n
  BY <1>1, GotoMoves, TopFacts DEF ShapeInv, ShapeStacks
<1>3. PICK k : k = n - 1
  OBVIOUS
<1>4. k + 1 = n /\ k <= n /\ (\A i \in 1..k : i \in 1..n /\ i < n) /\ 1 # 2 /\ (k # 0 => n # 1) /\ (k # 0 => k \in 1..k)
  BY <1>2, <1>3
<1>5. \A i \in 1..k : SitePair(stack[g][i], stack'[g][k + 1])
  BY <1>1, <1>2, <1>4
<1>6. OwnOK(g, stack[g][k + 1])'
  BY <1>2, <1>4
<1>7. ASSUME k # 0 PROVE ExactOK(stack[g][k], stack[g][k + 1])'
  <2>1. PICK lo : lo = stack[g][k]
    OBVIOUS
  <2>2. ExactOK(lo, f)
    BY <1>1, <1>3, <1>4, <1>7, <2>1
  <2>3. stack'[g][k] = lo
    BY <1>2, <1>3, <1>4, <1>7, <2>1 DEF Moves
  <2>4. ExactOK(lo, f)'
    <3>1. (aliased(f.d)' <=> aliased(f.d)) /\ GetSlot(f.d)' = GetSlot(f.d)
      BY DEF aliased, GetSlot, SlotIn, Registered, SameSites
    <3>2. NoSiteOf(f.d) => NoSiteOf(f.d)'
      BY SameSitesKeep DEF SiteInv
    <3> QED
      BY <2>2, <3>1, <3>2 DEF ExactOK, SameSites
  <2> QED
    BY <1>2, <1>4, <2>3, <2>4
<1> QED
  BY <1>1, <1>2, <1>3, <1>4, <1>5, <1>6, <1>7, SameSitesMoves

\* What is known of top and the frames under it.
LEMMA TopSite ==
  ASSUME ShapeInv, SiteInv, NEW g \in Goroutines, stack[g] # <<>>
  PROVE  /\ \A i \in DOMAIN stack[g] : i < Len(stack[g]) => SitePair(stack[g][i], top(g))
         /\ Len(stack[g]) # 1 => ExactOK(stack[g][Len(stack[g]) - 1], top(g)) /\ CalledBy(stack[g][Len(stack[g]) - 1], top(g))
         /\ OwnOK(g, top(g)) /\ Len(stack[g]) \in DOMAIN stack[g] /\ Len(stack[g]) \in Nat \ {0} /\ DOMAIN stack[g] = 1..Len(stack[g])
         /\ top(g).fn \in Makes => Len(stack[g]) # 1 /\ Len(stack[g]) - 1 \in DOMAIN stack[g]
<1>1. /\ Len(stack[g]) \in DOMAIN stack[g] /\ top(g) = stack[g][Len(stack[g])] /\ (Len(stack[g]) = 1 => top(g).fn \in Bottoms)
      /\ (Len(stack[g]) # 1 => CalledBy(stack[g][Len(stack[g]) - 1], top(g)))
      /\ Len(stack[g]) \in Nat \ {0} /\ DOMAIN stack[g] = 1..Len(stack[g])
  BY TopFacts DEF ShapeInv
<1>2. Len(stack[g]) # 1 => Len(stack[g]) - 1 \in DOMAIN stack[g]
  <2>1. PICK n : n = Len(stack[g])
    OBVIOUS
  <2>2. n \in Nat \ {0} /\ DOMAIN stack[g] = 1..n
    BY <1>1, <2>1
  <2>3. n # 1 => n - 1 \in 1..n
    BY <2>2
  <2> QED
    BY <2>1, <2>2, <2>3
<1> QED
  BY <1>1, <1>2 DEF SiteInv, SiteStacks, Bottoms, Makes

\* A frame of a call site under way is in the chain.
LEMMA InChain ==
  ASSUME ShapeInv, SiteInv, NEW g \in Goroutines, stack[g] # <<>>, top(g).fn = "site", NEW i \in DOMAIN stack[g],
         i < Len(stack[g]), stack[g][i].fn = "exact"
  PROVE  descriptors[stack[g][i].d].type \in chain(g)
<1>1. \A j \in i..Len(stack[g]) : j \in DOMAIN stack[g] /\ (j = i \/ i < j)
  BY SeqFacts DEF ShapeInv, ShapeStacks, StacksAre
<1>2. \A j \in i..Len(stack[g]) : stack[g][j].fn # "get"
  BY <1>1 DEF SiteInv, SiteStacks, SitePair, MakesSite, Makes
<1>3. stack[g][i].pc = "arg"
  <2>1. i + 1 \in DOMAIN stack[g] /\ i + 1 # 1 /\ (i + 1) - 1 = i /\ i < i + 1
    BY SeqFacts DEF ShapeInv, ShapeStacks, StacksAre
  <2>2. CalledBy(stack[g][i], stack[g][i + 1])
    BY <2>1 DEF ShapeInv, ShapeStacks, CallsOK
  <2> QED
    BY <2>2 DEF CalledBy
<1> QED
  BY <1>2, <1>3 DEF chain

\* GetCallSite keeps one call site for each such descriptor.
LEMMA GetCallSiteSite ==
  ASSUME ShapeInv, SiteInv, NEW g \in Goroutines, GetCallSite(g)
  PROVE  SiteInv'
<1>1. PICK f : f = top(g)
  OBVIOUS
<1>2. stack[g] # <<>> /\ IsFrame(f) /\ f.fn = "site" /\ f.pc = "enter"
  BY <1>1, AtFacts DEF GetCallSite
<1>3. SameSites
  BY QuietSites DEF GetCallSite, builder, locks
<1>4. ASSUME NEW r, Return(g, r) PROVE SiteInv'
  BY <1>2, <1>3, <1>4, SiteReturn
<1>5. CASE f.t \notin chain(g) /\ Goto(g, [f EXCEPT !.pc = "lock"])
  <2>1. PICK e : e = [f EXCEPT !.pc = "lock"]
    OBVIOUS
  <2>2. e.fn = "site" /\ e.pc = "lock" /\ e.t = f.t
    BY <1>2, <2>1 DEF IsFrame
  <2>3. ASSUME NEW i \in DOMAIN stack[g], i < Len(stack[g]) PROVE SitePair(stack[g][i], e)
    <3>1. stack[g][i].fn = "exact" => descriptors[stack[g][i].d].type # f.t
      BY <1>1, <1>2, <1>5, <2>3, InChain
    <3> QED
      BY <2>2, <3>1 DEF SitePair, MakesSite, Makes
  <2>4. OwnOK(g, e)' /\ ExactOK(stack[g][Len(stack[g]) - 1], e)
    BY <2>2 DEF OwnOK, ExactOK
  <2> QED
    BY <1>2, <1>3, <1>5, <2>1, <2>3, <2>4, SiteGoto
<1> QED
  BY <1>1, <1>4, <1>5 DEF GetCallSite

\* The last descriptor of a type has slot 0.
LEMMA LastSlot ==
  ASSUME ShapeInv, NEW t, Registered(t) # {}, NEW d, d = Last(Registered(t)), ~aliased(d)
  PROVE  d \in DOMAIN descriptors /\ descriptors[d].type = t /\ GetSlot(d) = 0
<1>1. PICK ds : ds = Registered(t)
  OBVIOUS
<1>2. ds \in SUBSET DOMAIN descriptors /\ IsSeq(descriptors)
  BY <1>1 DEF Registered, ShapeInv, BuildingOK
<1>3. d \in ds /\ \A j \in ds : j <= d
  BY <1>1, <1>2, LastFacts
<1>4. descriptors[d].type = t
  BY <1>1, <1>3 DEF Registered, Provides, descriptorImplements, aliased
<1>5. {j \in ds : j > d} = {}
  <2>1. \A j \in ds : j \in Nat
    BY <1>2, SeqFacts
  <2> QED
    BY <1>3, <2>1
<1>6. GetSlot(d) = 0
  BY <1>1, <1>4, <1>5, FS_EmptySet DEF GetSlot, SlotIn
<1> QED
  BY <1>2, <1>3, <1>4, <1>6

\* No call site changes.
LEMMA NoSiteStays ==
  ASSUME ShapeInv, SiteInv, UNCHANGED <<descriptors, callSites>>
  PROVE  /\ OneSite' /\ SiteIsCached'
         /\ \A h \in Goroutines : \A n \in DOMAIN stack[h] :
              stack[h][n].fn = "exact" /\ ~aliased(stack[h][n].d) /\ stack[h][n].pc \in {"arg", "store"}
              => \A c \in DOMAIN sites' : sites'[c].kind \in OfDescriptor => sites'[c].d # stack[h][n].d
<1>1. OneSite' /\ SiteIsCached'
  BY DEF SiteInv, OneSite, SiteIsCached, aliased, GetSlot, SlotIn, Registered, callSites
<1>2. ASSUME NEW h \in Goroutines, NEW n \in DOMAIN stack[h], stack[h][n].fn = "exact",
             ~aliased(stack[h][n].d), stack[h][n].pc \in {"arg", "store"}
      PROVE  \A c \in DOMAIN sites' : sites'[c].kind \in OfDescriptor => sites'[c].d # stack[h][n].d
  <2>1. NoSiteOf(stack[h][n].d)
    BY <1>2, NoSiteYet DEF SiteInv
  <2> QED
    BY <2>1 DEF NoSiteOf, callSites
<1> QED
  BY <1>1, <1>2

\* createCallSite keeps one call site for each such descriptor.
LEMMA createCallSiteSite ==
  ASSUME ShapeInv, SiteInv, NEW g \in Goroutines, createCallSite(g)
  PROVE  SiteInv'
<1>1. PICK f : f = top(g)
  OBVIOUS
<1>2. stack[g] # <<>> /\ IsFrame(f) /\ FrameOK(f) /\ f.fn = "site" /\ f.pc = "lock" /\ f.t \in Types
  BY <1>1, AtFacts DEF createCallSite, FrameOK
<1>3. UNCHANGED <<descriptors, callSites>> /\ typeLock[f.t] = None
  BY <1>1 DEF createCallSite, builder
<1>4. CASE Return(g, Err) /\ UNCHANGED typeLock
  BY <1>2, <1>3, <1>4, SiteReturn, QuietSites
<1>5. PICK ds, e : ds = Registered(f.t) /\ e = [f EXCEPT !.pc = "made"]
  OBVIOUS
<1>6. e.fn = "site" /\ e.pc = "made" /\ e.t = f.t
  BY <1>2, <1>5 DEF IsFrame
<1>7. ASSUME NEW e2, Call(g, e, e2), typeLock' = [typeLock EXCEPT ![f.t] = g], MakesSite(e2), e2.fn # "site",
             e2.pc = "enter", ExactOK(e, e2)
      PROVE  SiteInv'
  <2>1. PICK n : n = Len(stack[g])
    OBVIOUS
  <2>2. Moves(g, n - 1, 2) /\ stack'[g][n] = e /\ stack'[g][n + 1] = e2 /\ n \in Nat \ {0} /\ DOMAIN stack[g] = 1..n
    BY <1>2, <1>7, <2>1, CallMoves, TopFacts DEF ShapeInv, ShapeStacks
  <2>3. PICK k : k = n - 1
    OBVIOUS
  <2>4. k + 1 = n /\ k + 2 = n + 1 /\ k <= n /\ \A i \in 1..k : i \in 1..n /\ i < n
    BY <2>2, <2>3
  <2>5. f.t \in DOMAIN typeLock
    BY <1>2, Running DEF ShapeInv, BuildingOK
  <2>6. ASSUME NEW h \in Goroutines, NEW j \in DOMAIN stack[h], stack[h][j].fn = "site", stack[h][j].pc = "made"
        PROVE  typeLock[stack[h][j].t] = h /\ stack[h][j].t # f.t /\ typeLock'[stack[h][j].t] = h
    <3>1. typeLock[stack[h][j].t] = h
      BY <2>6 DEF SiteInv, SiteStacks, OwnOK
    <3>2. stack[h][j].t # f.t
      BY <1>3, <3>1, DIAssumption
    <3> QED
      BY <1>7, <3>1, <3>2
  <2>7. OneSite' /\ SiteIsCached'
    BY <1>3, NoSiteStays
  <2>8. OwnOK(g, stack[g][k + 1])' /\ OwnOK(g, stack[g][k + 2])'
    <3>1. OwnOK(g, e)' /\ OwnOK(g, e2)'
      BY <1>6, <1>7, <2>5 DEF OwnOK
    <3> QED
      BY <2>2, <2>4, <3>1
  <2>9. ASSUME NEW i \in 1..k PROVE SitePair(stack[g][i], e) /\ SitePair(stack[g][i], e2)
    <3>1. SitePair(stack[g][i], f) /\ i \in DOMAIN stack[g]
      BY <1>1, <1>2, <2>1, <2>2, <2>4, TopSite
    <3>2. stack[g][i].fn = "site" /\ stack[g][i].pc = "made" => stack[g][i].t # f.t
      BY <2>6, <3>1
    <3> QED
      BY <1>2, <1>6, <1>7, <3>1, <3>2 DEF SitePair, MakesSite, Makes
  <2>10. SitePair(e, e2)
    BY <1>7 DEF SitePair
  <2>11. ExactOK(stack[g][k + 1], stack[g][k + 2])'
    <3>1. aliased(e2.d)' = aliased(e2.d) /\ GetSlot(e2.d)' = GetSlot(e2.d) /\ descriptors' = descriptors
      BY <1>3 DEF aliased, GetSlot, SlotIn, Registered
    <3>2. ExactOK(e, e2)'
      BY <1>7, <3>1 DEF ExactOK
    <3> QED
      BY <2>2, <2>4, <3>2
  <2>12. ExactOK(stack[g][k], stack[g][k + 1])'
    BY <1>6, <2>2, <2>4 DEF ExactOK
  <2>13. SiteStacks'
    <3>1. SiteStacks /\ descriptors' = descriptors /\ Moves(g, k, 2) /\ k <= Len(stack[g])
      BY <1>3, <2>1, <2>2, <2>3, <2>4 DEF SiteInv
    <3>2. \A i \in 1..k : SitePair(stack[g][i], stack'[g][k + 1]) /\ SitePair(stack[g][i], stack'[g][k + 2])
      BY <2>2, <2>4, <2>9
    <3>3. SitePair(stack'[g][k + 1], stack'[g][k + 2])
      BY <2>2, <2>4, <2>10
    <3>4. \A h \in Goroutines : \A j \in DOMAIN stack[h] :
            (h # g \/ j <= k) /\ stack[h][j].fn = "site" /\ stack[h][j].pc = "made" => typeLock'[stack[h][j].t] = h
      BY <2>6
    <3>5. \A h \in Goroutines : \A j \in DOMAIN stack[h] :
           (h # g \/ j <= k) /\ stack[h][j].fn = "exact" /\ ~aliased(stack[h][j].d) /\ stack[h][j].pc \in {"arg", "store"}
           => \A c \in DOMAIN sites' : sites'[c].kind \in OfDescriptor => sites'[c].d # stack[h][j].d
      BY <1>3, NoSiteStays
    <3> QED
      BY <2>8, <2>11, <2>12, <3>1, <3>2, <3>3, <3>4, <3>5, SiteMoves
  <2> QED
    BY <2>7, <2>13 DEF SiteInv
<1>8. CASE ds # {} /\ Call(g, e, exactFrame(Last(ds), 0)) /\ typeLock' = [typeLock EXCEPT ![f.t] = g]
  <2>1. PICK e2 : e2 = exactFrame(Last(ds), 0)
    OBVIOUS
  <2>2. e2.fn = "exact" /\ e2.pc = "enter" /\ e2.d = Last(ds) /\ e2.slot = 0
    BY <2>1, ExactFrame
  <2>3. ExactOK(e, e2)
    BY <1>5, <1>6, <1>8, <2>2, LastSlot DEF ExactOK
  <2> QED
    BY <1>7, <1>8, <2>1, <2>2, <2>3 DEF MakesSite, Makes
<1>9. CASE Call(g, e, sliceFrame(f.t)) /\ typeLock' = [typeLock EXCEPT ![f.t] = g]
  <2>1. PICK e2 : e2 = sliceFrame(f.t)
    OBVIOUS
  <2>2. e2.fn = "slice" /\ e2.pc = "enter"
    BY <2>1, SliceFrame
  <2>3. ExactOK(e, e2)
    BY <2>2 DEF ExactOK
  <2> QED
    BY <1>7, <1>9, <2>1, <2>2, <2>3 DEF MakesSite, Makes
<1> QED
  BY <1>1, <1>4, <1>5, <1>8, <1>9 DEF createCallSite

\* createCallSiteReturns keeps one call site for each such descriptor.
LEMMA createCallSiteReturnsSite ==
  ASSUME ShapeInv, SiteInv, NEW g \in Goroutines, createCallSiteReturns(g)
  PROVE  SiteInv'
<1>1. PICK f : f = top(g)
  OBVIOUS
<1>2. stack[g] # <<>> /\ FrameOK(f) /\ f.fn = "site" /\ f.pc = "made"
  BY <1>1, AtFacts DEF createCallSiteReturns
<1>3. UNCHANGED <<descriptors, callSites>> /\ typeLock' = [typeLock EXCEPT ![f.t] = None] /\ Return(g, ret[g])
  BY <1>1 DEF createCallSiteReturns, builder
<1>4. PICK n : n = Len(stack[g])
  OBVIOUS
<1>5. Moves(g, n - 1, 0) /\ n \in Nat \ {0} /\ DOMAIN stack[g] = 1..n
  BY <1>2, <1>3, <1>4, ReturnMoves, TopFacts DEF ShapeInv, ShapeStacks
<1>6. PICK k : k = n - 1
  OBVIOUS
<1>7. k <= n /\ 0 # 2 /\ ~(0 >= 1) /\ \A j \in 1..n : j <= k => j < n
  BY <1>5, <1>6
<1>8. typeLock[f.t] = g
  BY <1>1, <1>2, TopSite DEF OwnOK
<1>9. ASSUME NEW h \in Goroutines, NEW j \in DOMAIN stack[h], h # g \/ j <= k, stack[h][j].fn = "site", stack[h][j].pc = "made"
      PROVE  typeLock'[stack[h][j].t] = h
  <2>1. typeLock[stack[h][j].t] = h
    BY <1>9 DEF SiteInv, SiteStacks, OwnOK
  <2>2. stack[h][j].t # f.t
    <3>1. CASE h # g
      BY <1>8, <2>1, <3>1
    <3>2. CASE h = g
      <4>1. j < Len(stack[g]) /\ j \in DOMAIN stack[g]
        BY <1>4, <1>5, <1>7, <1>9, <3>2
      <4>2. SitePair(stack[g][j], f)
        BY <1>1, <1>2, <4>1, TopSite
      <4> QED
        BY <1>2, <1>9, <3>2, <4>2 DEF SitePair
    <3> QED
      BY <3>1, <3>2
  <2> QED
    BY <1>3, <2>1, <2>2
<1>10. OneSite' /\ SiteIsCached'
  BY <1>3, NoSiteStays
<1>11. SiteStacks'
  <2>1. SiteStacks /\ descriptors' = descriptors /\ Moves(g, k, 0) /\ k <= Len(stack[g])
    BY <1>3, <1>4, <1>5, <1>6, <1>7 DEF SiteInv
  <2>2. \A h \in Goroutines : \A j \in DOMAIN stack[h] :
         (h # g \/ j <= k) /\ stack[h][j].fn = "exact" /\ ~aliased(stack[h][j].d) /\ stack[h][j].pc \in {"arg", "store"}
         => \A c \in DOMAIN sites' : sites'[c].kind \in OfDescriptor => sites'[c].d # stack[h][j].d
    BY <1>3, NoSiteStays
  <2> QED
    BY <1>7, <1>9, <2>1, <2>2, SiteMoves
<1> QED
  BY <1>10, <1>11 DEF SiteInv

\* The frame of tryCreateExact while no call site is made.
LEMMA ExactStays ==
  ASSUME SiteInv, SameSites, NEW lo, NEW f, ExactOK(lo, f)
  PROVE  ExactOK(lo, f)'
<1>1. (aliased(f.d)' <=> aliased(f.d)) /\ GetSlot(f.d)' = GetSlot(f.d)
  BY DEF aliased, GetSlot, SlotIn, Registered, SameSites
<1>2. NoSiteOf(f.d) => NoSiteOf(f.d)'
  BY SameSitesKeep DEF SiteInv
<1> QED
  BY <1>1, <1>2 DEF ExactOK, SameSites

\* A frame that makes a call site calls another one.
LEMMA SiteCall ==
  ASSUME ShapeInv, SiteInv, NEW g \in Goroutines, stack[g] # <<>>, SameSites, NEW f, NEW f2, Call(g, f, f2),
         f.fn # "site", f2.pc = "enter", MakesSite(f2), ExactOK(f, f2),
         \A i \in DOMAIN stack[g] : i < Len(stack[g]) => SitePair(stack[g][i], f),
         Len(stack[g]) # 1 => ExactOK(stack[g][Len(stack[g]) - 1], f)
  PROVE  SiteInv'
<1>1. PICK n : n = Len(stack[g])
  OBVIOUS
<1>2. Moves(g, n - 1, 2) /\ stack'[g][n] = f /\ stack'[g][n + 1] = f2 /\ n \in Nat \ {0} /\ DOMAIN stack[g] = 1..n
  BY <1>1, CallMoves, TopFacts DEF ShapeInv, ShapeStacks
<1>3. PICK k : k = n - 1
  OBVIOUS
<1>4. k + 1 = n /\ k + 2 = n + 1 /\ k <= n /\ (\A i \in 1..k : i \in 1..n /\ i < n) /\ (k # 0 => n # 1) /\ (k # 0 => k \in 1..k)
  BY <1>2, <1>3
<1>5. \A i \in 1..k : SitePair(stack[g][i], stack'[g][k + 1])
  BY <1>1, <1>2, <1>4
<1>6. OwnOK(g, stack[g][k + 1])' /\ OwnOK(g, stack[g][k + 2])'
  BY <1>2, <1>4 DEF OwnOK
<1>7. ASSUME k # 0 PROVE ExactOK(stack[g][k], stack[g][k + 1])'
  <2>1. PICK lo : lo = stack[g][k]
    OBVIOUS
  <2>2. ExactOK(lo, f)
    BY <1>1, <1>3, <1>4, <1>7, <2>1
  <2>3. stack'[g][k] = lo
    BY <1>2, <1>3, <1>4, <1>7, <2>1 DEF Moves
  <2>4. ExactOK(lo, f)'
    BY <2>2, ExactStays
  <2> QED
    BY <1>2, <1>4, <2>3, <2>4
<1>8. SitePair(stack'[g][k + 1], stack'[g][k + 2]) /\ \A i \in 1..k : SitePair(stack[g][i], stack'[g][k + 2])
  BY <1>2, <1>4 DEF SitePair
<1>9. ExactOK(stack[g][k + 1], stack[g][k + 2])'
  <2>1. ExactOK(f, f2)'
    BY ExactStays
  <2> QED
    BY <1>2, <1>4, <2>1
<1> QED
  BY <1>1, <1>2, <1>3, <1>4, <1>5, <1>6, <1>7, <1>8, <1>9, SameSitesMoves

\* NextArgument keeps one call site for each such descriptor.
LEMMA NextArgumentSite ==
  ASSUME ShapeInv, SiteInv, NEW g \in Goroutines, stack[g] # <<>>, SameSites, NEW f, IsFrame(f), f.fn = "exact",
         NextArgument(g, f), \A i \in DOMAIN stack[g] : i < Len(stack[g]) => SitePair(stack[g][i], f),
         Len(stack[g]) # 1 => ExactOK(stack[g][Len(stack[g]) - 1], f), ~aliased(f.d) => NoSiteOf(f.d)
  PROVE  SiteInv'
<1>1. ASSUME NEW pc, NEW e, e = [f EXCEPT !.pc = pc]
      PROVE  /\ e.fn = "exact" /\ e.pc = pc
             /\ \A i \in DOMAIN stack[g] : i < Len(stack[g]) => SitePair(stack[g][i], e)
             /\ Len(stack[g]) # 1 => ExactOK(stack[g][Len(stack[g]) - 1], e)
  <2>1. e.fn = "exact" /\ e.pc = pc /\ e.d = f.d /\ e.slot = f.slot
    BY <1>1 DEF IsFrame
  <2>2. \A i \in DOMAIN stack[g] : i < Len(stack[g]) => SitePair(stack[g][i], e)
    BY <2>1 DEF SitePair, MakesSite
  <2>3. Len(stack[g]) # 1 => ExactOK(stack[g][Len(stack[g]) - 1], e)
    BY <2>1 DEF ExactOK
  <2> QED
    BY <2>1, <2>2, <2>3
<1>2. CASE Call(g, [f EXCEPT !.pc = "arg"], siteFrame(descriptors[f.d].in[Len(f.acc) + 1]))
  <2>1. PICK e, e2 : e = [f EXCEPT !.pc = "arg"] /\ e2 = siteFrame(descriptors[f.d].in[Len(f.acc) + 1])
    OBVIOUS
  <2>2. e2.fn = "site" /\ e2.pc = "enter"
    BY <2>1, SiteFrame
  <2>3. ExactOK(e, e2) /\ MakesSite(e2)
    BY <2>2 DEF ExactOK, MakesSite, Makes
  <2> QED
    BY <1>1, <1>2, <2>1, <2>2, <2>3, SiteCall
<1>3. CASE Goto(g, [f EXCEPT !.pc = "store"])
  <2>1. PICK e : e = [f EXCEPT !.pc = "store"]
    OBVIOUS
  <2>2. OwnOK(g, e)'
    BY <1>1, <2>1 DEF OwnOK
  <2> QED
    BY <1>1, <1>3, <2>1, <2>2, SiteGoto
<1> QED
  BY <1>2, <1>3 DEF NextArgument

\* tryCreateExact keeps one call site for each such descriptor.
LEMMA tryCreateExactSite ==
  ASSUME ShapeInv, SiteInv, NEW g \in Goroutines, tryCreateExact(g)
  PROVE  SiteInv'
<1>1. PICK f : f = top(g)
  OBVIOUS
<1>2. stack[g] # <<>> /\ FrameOK(f) /\ IsFrame(f) /\ f.fn = "exact"
  BY <1>1, AtFacts DEF tryCreateExact
<1>3. SameSites
  BY QuietSites DEF tryCreateExact, builder, locks
<1>4. ASSUME NEW r, Return(g, r) PROVE SiteInv'
  BY <1>2, <1>3, <1>4, SiteReturn
<1>5. /\ \A i \in DOMAIN stack[g] : i < Len(stack[g]) => SitePair(stack[g][i], f)
      /\ Len(stack[g]) # 1 /\ ExactOK(stack[g][Len(stack[g]) - 1], f) 
  BY <1>1, <1>2, TopSite DEF Makes
<1>6. CASE <<descriptors[f.d].type, f.slot>> \notin DOMAIN callSiteCache /\ NextArgument(g, f)
  <2>1. ASSUME ~aliased(f.d) PROVE NoSiteOf(f.d)
    <3>1. f.slot = GetSlot(f.d)
      BY <1>2, <1>5, <2>1 DEF ExactOK
    <3>2. SUFFICES ASSUME NEW c \in DOMAIN sites, sites[c].kind \in OfDescriptor, sites[c].d = f.d PROVE FALSE
      BY DEF NoSiteOf
    <3>3. sites[c].type = descriptors[f.d].type
      BY <3>2 DEF ShapeInv, SitesOK, SiteOK
    <3> QED
      BY <1>6, <2>1, <3>1, <3>2, <3>3 DEF SiteInv, SiteIsCached
  <2> QED
    BY <1>2, <1>3, <1>5, <1>6, <2>1, NextArgumentSite
<1>7. CASE At(g, "exact", "arg") /\ NextArgument(g, [f EXCEPT !.acc = Append(@, ret[g].site)])
  <2>1. PICK e : e = [f EXCEPT !.acc = Append(@, ret[g].site)]
    OBVIOUS
  <2>2. IsFrame(e) /\ e.fn = "exact" /\ e.pc = f.pc /\ e.d = f.d /\ e.slot = f.slot
    BY <1>2, <2>1 DEF IsFrame
  <2>3. \A i \in DOMAIN stack[g] : i < Len(stack[g]) => SitePair(stack[g][i], e)
    BY <1>2, <1>5, <2>2 DEF SitePair, MakesSite
  <2>4. ExactOK(stack[g][Len(stack[g]) - 1], e)
    BY <1>2, <1>5, <2>2 DEF ExactOK
  <2>5. ~aliased(e.d) => NoSiteOf(e.d)
    BY <1>1, <1>2, <1>5, <1>7, <2>2 DEF ExactOK, At
  <2> QED
    BY <1>2, <1>3, <1>7, <2>1, <2>2, <2>3, <2>4, <2>5, NextArgumentSite
<1> QED
  BY <1>1, <1>4, <1>6, <1>7 DEF tryCreateExact

\* createSliceElement keeps one call site for each such descriptor.
LEMMA createSliceElementSite ==
  ASSUME ShapeInv, SiteInv, NEW g \in Goroutines, createSliceElement(g)
  PROVE  SiteInv'
<1>1. PICK f : f = top(g)
  OBVIOUS
<1>2. stack[g] # <<>> /\ FrameOK(f) /\ IsFrame(f) /\ f.fn = "slice"
  BY <1>1, AtFacts DEF createSliceElement
<1>3. SameSites
  BY QuietSites DEF createSliceElement, builder, locks
<1>4. CASE Return(g, Err)
  BY <1>2, <1>3, <1>4, SiteReturn
<1>5. CASE Goto(g, [f EXCEPT !.pc = "enter", !.acc = Append(@, ret[g].site)])
  <2>1. PICK e : e = [f EXCEPT !.pc = "enter", !.acc = Append(@, ret[g].site)]
    OBVIOUS
  <2>2. e.fn = "slice"
    BY <1>2, <2>1 DEF IsFrame
  <2>3. OwnOK(g, e)' /\ ExactOK(stack[g][Len(stack[g]) - 1], e)
    BY <2>2 DEF OwnOK, ExactOK
  <2>4. \A i \in DOMAIN stack[g] : i < Len(stack[g]) => SitePair(stack[g][i], e)
    BY <2>2 DEF SitePair, MakesSite, Makes
  <2> QED
    BY <1>2, <1>3, <1>5, <2>1, <2>3, <2>4, SiteGoto
<1> QED
  BY <1>1, <1>4, <1>5 DEF createSliceElement

\* A call site comes to be, and its maker returns.
LEMMA SiteMade ==
  ASSUME ShapeInv, SiteInv, NEW g \in Goroutines, stack[g] # <<>>, NEW r, Return(g, r), NEW c,
         UNCHANGED <<descriptors, typeLock>>, DOMAIN callSiteCache \subseteq DOMAIN callSiteCache',
         DOMAIN sites' = DOMAIN sites \union {Len(sites) + 1}, \A e \in DOMAIN sites : sites'[e] = sites[e],
         sites'[Len(sites) + 1] = c,
         c.kind \in OfDescriptor /\ ~aliased(c.d) =>
            /\ NoSiteOf(c.d) /\ <<c.type, GetSlot(c.d)>> \in DOMAIN callSiteCache'
            /\ \A h \in Goroutines : \A j \in DOMAIN stack[h] :
                 /\ h # g \/ j < Len(stack[g])
                 /\ stack[h][j].fn = "exact" /\ stack[h][j].pc \in {"arg", "store"}
                 => stack[h][j].d # c.d
  PROVE  SiteInv'
<1>1. ASSUME NEW d PROVE (aliased(d)' <=> aliased(d)) /\ GetSlot(d)' = GetSlot(d)
  BY DEF aliased, GetSlot, SlotIn, Registered
<1>2. \A e \in DOMAIN sites' : (e \in DOMAIN sites /\ sites'[e] = sites[e]) \/ (e = Len(sites) + 1 /\ sites'[e] = c)
  OBVIOUS
<1>3. OneSite'
  BY <1>1, <1>2 DEF SiteInv, OneSite, NoSiteOf
<1>4. SiteIsCached'
  BY <1>1, <1>2 DEF SiteInv, SiteIsCached
<1>5. PICK n : n = Len(stack[g])
  OBVIOUS
<1>6. Moves(g, n - 1, 0) /\ n \in Nat \ {0} /\ DOMAIN stack[g] = 1..n
  BY <1>5, ReturnMoves, TopFacts DEF ShapeInv, ShapeStacks
<1>7. PICK k : k = n - 1
  OBVIOUS
<1>8. k <= n /\ 0 # 2 /\ ~(0 >= 1) /\ \A j \in 1..n : j <= k => j < n
  BY <1>6, <1>7
<1>9. ASSUME NEW h \in Goroutines, NEW j \in DOMAIN stack[h], h # g \/ j <= k, stack[h][j].fn = "exact",
             ~aliased(stack[h][j].d), stack[h][j].pc \in {"arg", "store"}
      PROVE  \A e \in DOMAIN sites' : sites'[e].kind \in OfDescriptor => sites'[e].d # stack[h][j].d
  <2>1. NoSiteOf(stack[h][j].d)
    BY <1>9, NoSiteYet DEF SiteInv
  <2>2. h # g \/ j < Len(stack[g])
    BY <1>5, <1>6, <1>8, <1>9
  <2>3. c.kind \in OfDescriptor => c.d # stack[h][j].d
    BY <1>9, <2>2
  <2> QED
    BY <1>2, <2>1, <2>3 DEF NoSiteOf
<1>10. SiteStacks'
  <2>1. SiteStacks /\ Moves(g, k, 0) /\ k <= Len(stack[g]) /\ descriptors' = descriptors
    BY <1>5, <1>6, <1>7, <1>8 DEF SiteInv
  <2>2. \A h \in Goroutines : \A j \in DOMAIN stack[h] :
          (h # g \/ j <= k) /\ stack[h][j].fn = "site" /\ stack[h][j].pc = "made" => typeLock'[stack[h][j].t] = h
    BY DEF SiteInv, SiteStacks, OwnOK
  <2> QED
    BY <1>8, <1>9, <2>1, <2>2, SiteMoves
<1> QED
  BY <1>3, <1>4, <1>10 DEF SiteInv

\* storeCallSite keeps one call site for each such descriptor.
LEMMA storeCallSiteSite ==
  ASSUME ShapeInv, SiteInv, NEW g \in Goroutines, storeCallSite(g)
  PROVE  SiteInv'
<1>1. PICK f : f = top(g)
  OBVIOUS
<1>2. stack[g] # <<>> /\ FrameOK(f) /\ f.fn = "exact" /\ f.pc = "store"
  BY <1>1, AtFacts DEF storeCallSite
<1>3. PICK d : d = descriptors[f.d]
  OBVIOUS
<1>4. PICK c : c = newCallSite(d.kind, d.type, f.d, f.acc, CacheLocation(d), f.slot)
  OBVIOUS
<1>5. /\ sites' = Append(sites, c)
      /\ callSiteCache' = With(callSiteCache, <<d.type, f.slot>>, Len(sites) + 1)
      /\ Return(g, Site(Len(sites) + 1)) /\ UNCHANGED <<descriptors, typeLock>>
  BY <1>1, <1>3, <1>4 DEF storeCallSite, builder
<1>6. c.kind = d.kind /\ c.type = d.type /\ c.d = f.d
  BY <1>4 DEF newCallSite
<1>7. /\ DOMAIN sites' = DOMAIN sites \union {Len(sites) + 1} /\ (\A e \in DOMAIN sites : sites'[e] = sites[e])
      /\ sites'[Len(sites) + 1] = c
  <2>1. IsSeq(sites)
    BY DEF ShapeInv, SitesOK
  <2>2. IsSeq(sites') /\ Len(sites') = Len(sites) + 1 /\ (\A n \in 1..Len(sites) : sites'[n] = sites[n]) /\ sites'[Len(sites) + 1] = c
    BY <1>5, <2>1, AppendFacts
  <2> QED
    BY <2>1, <2>2, SeqFacts
<1>8. DOMAIN callSiteCache \subseteq DOMAIN callSiteCache' /\ <<d.type, f.slot>> \in DOMAIN callSiteCache'
  BY <1>5 DEF With
<1>9. PICK n : n = Len(stack[g])
  OBVIOUS
<1>10. /\ n \in Nat \ {0} /\ DOMAIN stack[g] = 1..n /\ n # 1 /\ n - 1 \in DOMAIN stack[g] /\ n \in DOMAIN stack[g]
       /\ ExactOK(stack[g][n - 1], f) /\ CalledBy(stack[g][n - 1], f)
  BY <1>1, <1>2, <1>9, TopSite DEF Makes
<1>11. ASSUME ~aliased(f.d)
       PROVE  /\ NoSiteOf(f.d) /\ f.slot = GetSlot(f.d)
              /\ \A h \in Goroutines : \A j \in DOMAIN stack[h] :
                   /\ h # g \/ j < Len(stack[g])
                   /\ stack[h][j].fn = "exact" /\ stack[h][j].pc \in {"arg", "store"}
                   => stack[h][j].d # f.d
  <2>1. NoSiteOf(f.d) /\ f.slot = GetSlot(f.d)
    BY <1>2, <1>10, <1>11 DEF ExactOK
  <2>2. PICK lo : lo = stack[g][n - 1]
    OBVIOUS
  <2>3. lo.fn = "validate" \/ (lo.fn = "site" /\ lo.pc = "made" /\ lo.t = d.type)
    BY <1>2, <1>3, <1>10, <1>11, <2>2 DEF ExactOK, CalledBy
  <2>4. SUFFICES ASSUME NEW h \in Goroutines, NEW j \in DOMAIN stack[h], h # g \/ j < n,
                        stack[h][j].fn = "exact", stack[h][j].pc \in {"arg", "store"}, stack[h][j].d = f.d
                 PROVE  FALSE
    BY <1>9, <2>1
  <2>5. j # 1 /\ ExactOK(stack[h][j - 1], stack[h][j])
    BY <1>11, <2>4, NoSiteYet DEF SiteInv
  <2>6. PICK lo2 : lo2 = stack[h][j - 1]
    OBVIOUS
  <2>7. j - 1 \in DOMAIN stack[h] /\ CalledBy(lo2, stack[h][j])
    <3>1. DOMAIN stack[h] = 1..Len(stack[h]) /\ Len(stack[h]) \in Nat
      BY SeqFacts DEF ShapeInv, ShapeStacks, StacksAre
    <3>2. j - 1 \in DOMAIN stack[h]
      BY <2>4, <2>5, <3>1
    <3> QED
      BY <2>5, <2>6, <3>2 DEF ShapeInv, ShapeStacks, CallsOK
  <2>8. lo2.fn = "validate" \/ (lo2.fn = "site" /\ lo2.pc = "made" /\ lo2.t = d.type)
    BY <1>3, <1>11, <2>4, <2>5, <2>6, <2>7 DEF ExactOK, CalledBy
  <2>9. CASE h # g
    <3>1. DOMAIN stack[h] # {} /\ DOMAIN stack[g] # {} /\ DOMAIN <<>> = {}
      BY <1>10, <2>4
    <3>2. lo.fn # "validate"
      BY <1>10, <2>2, <2>9, <3>1 DEF ShapeInv, ShapeStacks, Alone
    <3>3. lo2.fn # "validate"
      BY <2>6, <2>7, <2>9, <3>1 DEF ShapeInv, ShapeStacks, Alone
    <3>4. typeLock[lo.t] = g /\ typeLock[lo2.t] = h
      BY <1>10, <2>2, <2>3, <2>6, <2>7, <2>8, <3>2, <3>3 DEF SiteInv, SiteStacks, OwnOK
    <3> QED
      BY <2>3, <2>8, <2>9, <3>2, <3>3, <3>4
  <2>10. CASE h = g
    <3>1. j < n /\ j \in 1..n
      BY <1>10, <2>4, <2>10
    <3>2. lo.fn # "validate"
      <4>1. ASSUME lo.fn = "validate" PROVE FALSE
        <5>1. n - 1 = 1
          BY <1>10, <2>2, <4>1, ValidateIsBottom DEF ShapeInv
        <5> QED
          BY <1>10, <2>5, <3>1, <5>1
      <4> QED
        BY <4>1
    <3>3. j # n - 1
      BY <2>2, <2>3, <2>4, <2>10, <3>2
    <3>4. j < n - 1 /\ j \in DOMAIN stack[g]
      BY <1>10, <3>1, <3>3
    <3>5. SitePair(stack[g][j], lo)
      BY <1>10, <2>2, <3>4 DEF SiteInv, SiteStacks
    <3> QED
      BY <1>3, <2>3, <2>4, <2>10, <3>2, <3>5 DEF SitePair
  <2> QED
    BY <2>9, <2>10
<1>12. ASSUME ~aliased(c.d)
       PROVE  /\ NoSiteOf(c.d) /\ <<c.type, GetSlot(c.d)>> \in DOMAIN callSiteCache'
              /\ \A h \in Goroutines : \A j \in DOMAIN stack[h] :
                   /\ h # g \/ j < Len(stack[g])
                   /\ stack[h][j].fn = "exact" /\ stack[h][j].pc \in {"arg", "store"}
                   => stack[h][j].d # c.d
  <2>1. ~aliased(f.d)
    BY <1>6, <1>12
  <2>2. NoSiteOf(c.d) /\ <<c.type, GetSlot(c.d)>> \in DOMAIN callSiteCache'
    BY <1>6, <1>8, <1>11, <2>1
  <2> QED
    BY <1>6, <1>11, <2>1, <2>2
<1>13. PICK r : r = Site(Len(sites) + 1)
  OBVIOUS
<1>14. Return(g, r)
  BY <1>5, <1>13
<1> QED
  BY <1>2, <1>5, <1>7, <1>8, <1>12, <1>14, SiteMade

\* createSlice keeps one call site for each such descriptor.
LEMMA createSliceSite ==
  ASSUME ShapeInv, SiteInv, NEW g \in Goroutines, createSlice(g)
  PROVE  SiteInv'
<1>1. PICK f : f = top(g)
  OBVIOUS
<1>2. stack[g] # <<>> /\ FrameOK(f) /\ IsFrame(f) /\ f.fn = "slice" /\ f.t \in DOMAIN Elem
  BY <1>1, AtFacts DEF createSlice, FrameOK
<1>3. PICK ds : ds = {i \in Registered(Elem[f.t]) : i > f.d}
  OBVIOUS
<1>4. PICK d : d = CHOOSE i \in ds : \A j \in ds : i <= j
  OBVIOUS
<1>5. PICK c : c = newCallSite("slice", f.t, 0, f.acc, sliceLocation(f.acc), 0)
  OBVIOUS
<1>6. UNCHANGED <<descriptors, callSiteCache, typeLock>>
  BY DEF createSlice, builder
<1>7. CASE /\ ds # {} /\ Call(g, [f EXCEPT !.pc = "elem", !.d = d], exactFrame(d, SlotIn(ds, d)))
           /\ UNCHANGED <<sites, siteLock>>
  <2>1. d \in ds
    <3>1. ds \in SUBSET Nat
      BY <1>3, SeqFacts DEF Registered, ShapeInv, BuildingOK
    <3>2. \E i \in ds : \A j \in ds : i <= j
      BY <1>7, <3>1, LeastExists
    <3> QED
      BY <1>4, <3>2
  <2>2. PICK e, e2 : e = [f EXCEPT !.pc = "elem", !.d = d] /\ e2 = exactFrame(d, SlotIn(ds, d))
    OBVIOUS
  <2>3. e.fn = "slice"
    BY <1>2, <2>2 DEF IsFrame
  <2>4. e2.fn = "exact" /\ e2.pc = "enter" /\ e2.d = d
    BY <2>2, ExactFrame
  <2>5. aliased(d)
    BY <1>2, <1>3, <2>1 DEF aliased, Registered, Provides, descriptorImplements
  <2>6. ExactOK(e, e2) /\ MakesSite(e2) /\ ExactOK(stack[g][Len(stack[g]) - 1], e)
    BY <2>3, <2>4, <2>5 DEF ExactOK, MakesSite, Makes
  <2>7. \A i \in DOMAIN stack[g] : i < Len(stack[g]) => SitePair(stack[g][i], e)
    BY <2>3 DEF SitePair, MakesSite, Makes
  <2>8. SameSites
    BY <1>6, <1>7, QuietSites DEF callSites
  <2> QED
    BY <1>2, <1>7, <2>2, <2>3, <2>4, <2>6, <2>7, <2>8, SiteCall
<1>8. CASE sites' = Append(sites, c) /\ siteLock' = Append(siteLock, None) /\ Return(g, Site(Len(sites) + 1))
  <2>1. c.kind = "slice"
    BY <1>5 DEF newCallSite
  <2>2. /\ DOMAIN sites' = DOMAIN sites \union {Len(sites) + 1} /\ (\A e \in DOMAIN sites : sites'[e] = sites[e])
        /\ sites'[Len(sites) + 1] = c
    <3>1. IsSeq(sites)
      BY DEF ShapeInv, SitesOK
    <3>2. IsSeq(sites') /\ Len(sites') = Len(sites) + 1 /\ (\A n \in 1..Len(sites) : sites'[n] = sites[n]) /\ sites'[Len(sites) + 1] = c
      BY <1>8, <3>1, AppendFacts
    <3> QED
      BY <3>1, <3>2, SeqFacts
  <2>3. c.kind \notin OfDescriptor
    BY <2>1 DEF OfDescriptor
  <2> QED
    BY <1>2, <1>6, <1>8, <2>2, <2>3, SiteMade
<1> QED
  BY <1>1, <1>3, <1>4, <1>5, <1>7, <1>8 DEF createSlice

\* Build keeps one call site for each such descriptor.
LEMMA BuildSite ==
  ASSUME ShapeInv, NEW g \in Goroutines, Build(g)
  PROVE  SiteInv'
<1>1. PICK c : c = newCallSite("container", "Container", 0, <<>>, "none", 0)
  OBVIOUS
<1>2. phase = "building" /\ sites' = <<c>> /\ UNCHANGED descriptors
  BY <1>1 DEF Build
<1>3. c.kind \notin OfDescriptor
  BY <1>1 DEF newCallSite, OfDescriptor
<1>4. \A e \in DOMAIN sites' : sites'[e].kind \notin OfDescriptor
  BY <1>2, <1>3, OneFacts, SeqFacts
<1>5. OneSite' /\ SiteIsCached'
  BY <1>4 DEF OneSite, SiteIsCached
<1>6. \A h \in Goroutines : stack[h] = <<>>
  BY <1>2 DEF ShapeInv, BuildingOK
<1>7. PICK f : f = [Frame EXCEPT !.fn = "validate"]
  OBVIOUS
<1>8. f.fn = "validate"
  BY <1>7 DEF Frame
<1>9. \A h \in Goroutines : stack'[h] = <<>> \/ stack'[h] = <<f>>
  BY <1>6, <1>7 DEF Build, ShapeInv, ShapeStacks, StacksAre
<1>10. \A h \in Goroutines : \A j \in DOMAIN stack'[h] : j = 1 /\ stack'[h][j] = f
  <2>1. DOMAIN <<>> = {} /\ DOMAIN <<f>> = {1} /\ <<f>>[1] = f
    BY OneFacts, SeqFacts
  <2> QED
    BY <1>9, <2>1
<1>11. SiteStacks'
  BY <1>8, <1>10 DEF SiteStacks, OwnOK, SitePair, MakesSite, Makes
<1> QED
  BY <1>5, <1>11 DEF SiteInv

\* Configure keeps one call site for each such descriptor.
LEMMA ConfigureSite ==
  ASSUME ShapeInv, Configure
  PROVE  SiteInv'
<1>1. phase = "building" /\ UNCHANGED <<callSites, stack>>
  BY DEF Configure
<1>2. (\A h \in Goroutines : stack[h] = <<>>) /\ sites = <<>>
  BY <1>1 DEF ShapeInv, BuildingOK
<1>3. (\A h \in Goroutines : DOMAIN stack'[h] = {}) /\ DOMAIN sites' = {}
  BY <1>1, <1>2 DEF callSites
<1> QED
  BY <1>3 DEF SiteInv, OneSite, SiteIsCached, SiteStacks

\* There is no call site initially.
LEMMA InitSite == Init => SiteInv
<1> SUFFICES ASSUME Init PROVE SiteInv
  OBVIOUS
<1>1. (\A h \in Goroutines : DOMAIN stack[h] = {}) /\ DOMAIN sites = {}
  BY DEF Init
<1> QED
  BY <1>1 DEF SiteInv, OneSite, SiteIsCached, SiteStacks

\* Every step keeps one call site for each such descriptor.
LEMMA SiteStep ==
  ASSUME ShapeInv, SiteInv, [Next]_vars
  PROVE  SiteInv'
<1>1. CASE UNCHANGED vars
  BY <1>1, UnchangedSite DEF vars, builder, locks
<1>2. CASE Configure
  BY <1>2, ConfigureSite
<1>3. ASSUME NEW g \in Goroutines, Build(g) \/ Start(g) PROVE SiteInv'
  BY <1>3, BuildSite, GetSite, CreateScopeSite, DisposeSite DEF Start
<1>4. ASSUME NEW g \in Goroutines, Step(g) PROVE SiteInv'
  BY <1>4, GetCallSiteSite, createCallSiteSite, createCallSiteReturnsSite, tryCreateExactSite,
     storeCallSiteSite, createSliceSite, createSliceElementSite, validateServiceSite, validatedServiceSite,
     GetWithScopeSite, createServiceAccessorSite, createRootAccessorSite, accessSite, visitCallSiteSite,
     visitRootCacheSite, visitScopeCacheSite, visitPartSite, constructSite, captureSite, BeginDisposeSite,
     disposeNextSite DEF Step
<1> QED
  BY <1>1, <1>2, <1>3, <1>4 DEF Next

-----------------------------------------------------------------------------
(* One instance of a call site is kept, in the container or in a scope     *)

SameLocs == \A c \in DOMAIN sites : c \in DOMAIN sites' /\ sites'[c].loc = sites[c].loc

\* Two frames of a stack while locations do not change.
LEMMA PairStays ==
  ASSUME NEW lo, NEW hi, SameLocs, FrameOK(lo), FrameOK(hi), VisitPair(lo, hi)
  PROVE  VisitPair(lo, hi)'
BY DEF VisitPair, SameLocs, FrameOK, atRoot, inScope, Building

\* What a step of g that leaves its frames up to k has to show.
LEMMA KeepMoves ==
  ASSUME ShapeInv, KeepStacks, NEW g \in Goroutines, NEW k, NEW m, Moves(g, k, m), k <= Len(stack[g]), SameLocs,
         \A h \in Goroutines : \A n \in DOMAIN stack[h] : h # g \/ n <= k => VisitOK(h, stack[h][n])',
         m >= 1 => /\ VisitOK(g, stack[g][k + 1])'
                   /\ \A i \in 1..k : VisitPair(stack[g][i], stack[g][k + 1])',
         m = 2 => /\ VisitOK(g, stack[g][k + 2])'
                  /\ \A i \in 1..k : VisitPair(stack[g][i], stack[g][k + 2])'
                  /\ VisitPair(stack[g][k + 1], stack[g][k + 2])'
  PROVE  KeepStacks'
<1>1. k \in Nat /\ m \in 0..2 /\ DOMAIN stack'[g] = 1..(k + m) /\ Len(stack[g]) \in Nat /\ DOMAIN stack[g] = 1..Len(stack[g])
  BY SeqFacts DEF Moves, ShapeInv, ShapeStacks, StacksAre
<1>2. \A n \in 1..k : n \in DOMAIN stack[g] /\ n <= k /\ stack'[g][n] = stack[g][n]
  BY <1>1 DEF Moves
<1>3. \A h \in Goroutines \ {g} : stack'[h] = stack[h]
  BY DEF Moves
<1>4. \A h \in Goroutines : \A n \in DOMAIN stack[h] : FrameOK(stack[h][n])
  BY DEF ShapeInv, ShapeStacks, FramesOK
<1>7. ASSUME NEW h \in Goroutines, NEW j \in DOMAIN stack'[h] PROVE VisitOK(h, stack[h][j])'
  <2>1. CASE h # g
    BY <1>3, <1>7, <2>1
  <2>2. CASE h = g /\ j \in 1..k
    BY <1>2, <2>2
  <2>3. CASE h = g /\ j \notin 1..k
    <3>1. (j = k + 1 /\ m >= 1) \/ (j = k + 2 /\ m = 2)
      BY <1>1, <1>7, <2>3
    <3> QED
      BY <2>3, <3>1
  <2> QED
    BY <2>1, <2>2, <2>3
<1>8. ASSUME NEW h \in Goroutines, NEW j \in DOMAIN stack'[h], NEW i \in DOMAIN stack'[h], i < j
      PROVE  VisitPair(stack[h][i], stack[h][j])'
  <2>1. CASE h # g
    <3>1. VisitPair(stack[h][i], stack[h][j]) /\ FrameOK(stack[h][i]) /\ FrameOK(stack[h][j])
      BY <1>3, <1>4, <1>8, <2>1 DEF KeepStacks
    <3>2. PICK lo, hi : lo = stack[h][i] /\ hi = stack[h][j]
      OBVIOUS
    <3>3. stack'[h][i] = lo /\ stack'[h][j] = hi
      BY <1>3, <2>1, <3>2
    <3>4. VisitPair(lo, hi)'
      BY <3>1, <3>2, PairStays
    <3> QED
      BY <3>3, <3>4
  <2>2. CASE h = g /\ j \in 1..k
    <3>0. i \in 1..k
      BY <1>1, <1>8, <2>2
    <3>1. VisitPair(stack[g][i], stack[g][j]) /\ FrameOK(stack[g][i]) /\ FrameOK(stack[g][j])
      BY <1>2, <1>4, <1>8, <2>2, <3>0 DEF KeepStacks
    <3>2. PICK lo, hi : lo = stack[h][i] /\ hi = stack[h][j]
      OBVIOUS
    <3>3. stack'[h][i] = lo /\ stack'[h][j] = hi
      BY <1>2, <2>2, <3>0, <3>2
    <3>4. VisitPair(lo, hi)'
      BY <2>2, <3>1, <3>2, PairStays
    <3> QED
      BY <3>3, <3>4
  <2>3. CASE h = g /\ j \notin 1..k /\ i \in 1..k
    <3>1. (j = k + 1 /\ m >= 1) \/ (j = k + 2 /\ m = 2)
      BY <1>1, <1>8, <2>3
    <3> QED
      BY <2>3, <3>1
  <2>4. CASE h = g /\ j \notin 1..k /\ i \notin 1..k
    <3>1. j = k + 2 /\ m = 2 /\ i = k + 1
      BY <1>1, <1>8, <2>4
    <3> QED
      BY <2>4, <3>1
  <2> QED
    BY <2>1, <2>2, <2>3, <2>4
<1> QED
  BY <1>7, <1>8 DEF KeepStacks

\* What the visits know is the same: locks, values and instances, but for
\* what has been disposed of.
Still ==
    /\ \A c \in DOMAIN sites : c \in DOMAIN sites' /\ sites'[c] = sites[c] /\ siteLock'[c] = siteLock[c]
    /\ scopeLock' = scopeLock /\ resolved' = resolved
    /\ IsSeq(instances') /\ DOMAIN instances' = DOMAIN instances
    /\ \A i \in DOMAIN instances :
         /\ IsInstance(instances'[i]) /\ instances'[i].d = instances[i].d /\ instances'[i].site = instances[i].site
         /\ instances'[i].scope = instances[i].scope /\ instances'[i].kept = instances[i].kept

\* A visiting frame while nothing it knows of changes.
LEMMA StillVisit ==
  ASSUME NEW g, NEW f, Still, FrameOK(f), VisitOK(g, f)
  PROVE  VisitOK(g, f)'
<1>1. SUFFICES ASSUME f.fn = "visit" PROVE VisitLocks(g, f)' /\ VisitInstance(f)'
  BY DEF VisitOK
<1>2. f.site \in DOMAIN sites /\ sites'[f.site] = sites[f.site] /\ siteLock'[f.site] = siteLock[f.site]
  BY <1>1 DEF FrameOK, Still
<1>3. VisitLocks(g, f) /\ VisitInstance(f)
  BY <1>1 DEF VisitOK
<1>4. VisitLocks(g, f)'
  BY <1>2, <1>3 DEF VisitLocks, Still, atRoot, inScope, Building
<1>5. VisitInstance(f)'
  BY <1>2, <1>3 DEF VisitInstance, Still, inScope, Building, NoneKept, Made
<1> QED
  BY <1>4, <1>5

\* Instances while nothing about them changes.
LEMMA StillInstances ==
  ASSUME InstancesOK, OneKept, Still
  PROVE  InstancesOK' /\ OneKept'
<1>1. ASSUME NEW i \in DOMAIN instances PROVE InstanceOK(i)'
  <2>1. InstanceOK(i)
    BY DEF InstancesOK
  <2>2. PICK c : c = instances[i].site
    OBVIOUS
  <2>3. c \in DOMAIN sites /\ c \in DOMAIN sites' /\ sites'[c] = sites[c] /\ instances'[i].site = c
    BY <2>1, <2>2 DEF InstanceOK, Still
  <2>4. /\ IsInstance(instances'[i]) /\ instances'[i].d = instances[i].d /\ instances'[i].scope = instances[i].scope
        /\ instances'[i].kept = instances[i].kept /\ resolved' = resolved
    BY DEF Still
  <2> QED
    BY <2>1, <2>2, <2>3, <2>4 DEF InstanceOK, Made, AllScopes
<1>2. \A i \in DOMAIN instances : /\ sites'[instances[i].site] = sites[instances[i].site]
                                 /\ instances'[i].site = instances[i].site /\ instances'[i].scope = instances[i].scope
                                 /\ instances'[i].kept = instances[i].kept
  BY DEF InstancesOK, InstanceOK, Still
<1>3. DOMAIN instances' = DOMAIN instances /\ IsSeq(instances')
  BY DEF Still
<1>4. OneKept'
  BY <1>2, <1>3 DEF OneKept
<1> QED
  BY <1>1, <1>3, <1>4 DEF InstancesOK

\* A frame that starts with nothing held.
Plain(f) == f.fn = "visit" => f.pc = "enter" /\ ~f.held

\* A frame with nothing to know keeps VisitOK.
LEMMA PlainFacts ==
  ASSUME NEW f, Plain(f)
  PROVE  (\A g : VisitOK(g, f)') /\ (\A lo : VisitPair(lo, f)')
BY DEF Plain, VisitOK, VisitLocks, VisitInstance, VisitPair, Building

\* A step that changes nothing but the stack of g.
LEMMA StillMoves ==
  ASSUME ShapeInv, KeepInv, NEW g \in Goroutines, NEW k, NEW m, Moves(g, k, m), k <= Len(stack[g]), Still,
         m >= 1 => Plain(stack'[g][k + 1]),
         m = 2 => Plain(stack'[g][k + 2])
  PROVE  KeepInv'
<1>1. InstancesOK' /\ OneKept'
  BY StillInstances DEF KeepInv
<1>2. SameLocs
  BY DEF SameLocs, Still
<1>3. KeepStacks
  BY DEF KeepInv
<1>4. ASSUME NEW h \in Goroutines, NEW n \in DOMAIN stack[h], h # g \/ n <= k PROVE VisitOK(h, stack[h][n])'
  <2>1. PICK f : f = stack[h][n]
    OBVIOUS
  <2>2. VisitOK(h, f) /\ FrameOK(f)
    BY <1>3, <2>1 DEF KeepStacks, ShapeInv, ShapeStacks, FramesOK
  <2>3. stack'[h][n] = f
    BY <1>4, <2>1, SeqFacts DEF Moves, ShapeInv, ShapeStacks, StacksAre
  <2> QED
    BY <2>2, <2>3, StillVisit
<1>6. ASSUME m >= 1
      PROVE  /\ VisitOK(g, stack[g][k + 1])'
             /\ \A i \in 1..k : VisitPair(stack[g][i], stack[g][k + 1])'
  <2>2. PICK f : f = stack'[g][k + 1]
    OBVIOUS
  <2>4. VisitOK(g, f)' /\ \A lo : VisitPair(lo, f)'
    BY <1>6, <2>2, PlainFacts
  <2> QED
    BY <2>2, <2>4
<1>7. ASSUME m = 2
      PROVE  /\ VisitOK(g, stack[g][k + 2])'
             /\ \A i \in 1..k : VisitPair(stack[g][i], stack[g][k + 2])'
             /\ VisitPair(stack[g][k + 1], stack[g][k + 2])'
  <2>2. PICK f : f = stack'[g][k + 2]
    OBVIOUS
  <2>4. VisitOK(g, f)' /\ \A lo : VisitPair(lo, f)'
    BY <1>7, <2>2, PlainFacts
  <2> QED
    BY <2>2, <2>4
<1>8. KeepStacks'
  BY <1>2, <1>3, <1>4, <1>6, <1>7, KeepMoves
<1> QED
  BY <1>1, <1>8 DEF KeepInv

-----------------------------------------------------------------------------
(* Steps that neither build a service nor dispose of one                   *)

\* A frame that has nothing to hand on or to dispose of.
Fresh(f) == Plain(f) /\ f.fn # "dispose" /\ (f.fn = "visit" => f.acc = <<>>)

\* Frames that are left build and dispose of nothing, frames that come are fresh.
CalmMoves(g) ==
    \E k, m :
      /\ Moves(g, k, m) /\ k <= Len(stack[g])
      /\ \A n \in DOMAIN stack[g] : n <= k \/ stack[g][n].fn \notin {"visit", "dispose"}
      /\ m >= 1 => Fresh(stack'[g][k + 1])
      /\ m = 2 => Fresh(stack'[g][k + 2])

CalmRet(g) ==
    /\ \A h \in Goroutines \ {g} : ret'[h] = ret[h]
    /\ \/ ret'[g] = ret[g] \/ ~ret'[g].ok \/ ret'[g].v = {}
       \/ \E x \in DOMAIN realized : ret'[g].v = realized[x].value /\ realized[x].value # NoValue

CalmRealized(g) ==
    \A x \in DOMAIN realized' :
      \/ realized'[x].value = NoValue
      \/ x \in DOMAIN realized /\ realized'[x] = realized[x]
      \/ ret[g].ok /\ realized'[x].value = ret[g].v

CalmRest == descriptors' = descriptors /\ Still /\ UNCHANGED <<instances, disposables, cleared, disposed>>

Calm(g) == CalmMoves(g) /\ CalmRet(g) /\ CalmRealized(g) /\ CalmRest

\* A calm step that goes on.
LEMMA CalmGoto ==
  ASSUME ShapeInv, KeepInv, NEW g \in Goroutines, stack[g] # <<>>, top(g).fn \notin {"visit", "dispose"}, NEW f, Goto(g, f),
         f.fn # "dispose", f.fn = "visit" => f.pc = "enter" /\ ~f.held /\ f.acc = <<>>
  PROVE  CalmMoves(g) /\ CalmRet(g)
<1>1. PICK n : n = Len(stack[g])
  OBVIOUS
<1>2. /\ Moves(g, n - 1, 1) /\ stack'[g][n] = f /\ n \in Nat \ {0} /\ DOMAIN stack[g] = 1..n /\ top(g) = stack[g][n]
      /\ ret'[g] = NoRet /\ \A h \in Goroutines \ {g} : ret'[h] = ret[h]
  BY <1>1, GotoMoves, TopFacts DEF ShapeInv, ShapeStacks
<1>3. PICK k : k = n - 1
  OBVIOUS
<1>4. k + 1 = n /\ k <= n /\ 1 # 2 /\ n \in 1..n /\ \A i \in 1..n : i <= k \/ i = n
  BY <1>2, <1>3
<1>6. Fresh(f)
  BY DEF Fresh, Plain
<1>7. \A i \in DOMAIN stack[g] : i <= k \/ stack[g][i].fn \notin {"visit", "dispose"}
  BY <1>2, <1>4
<1>8. CalmMoves(g)
  BY <1>1, <1>2, <1>3, <1>4, <1>6, <1>7 DEF CalmMoves
<1>9. CalmRet(g)
  BY <1>2 DEF CalmRet, NoRet, Ok
<1> QED
  BY <1>8, <1>9

\* A calm step that calls.
LEMMA CalmCall ==
  ASSUME ShapeInv, KeepInv, NEW g \in Goroutines, stack[g] # <<>>, top(g).fn \notin {"visit", "dispose"},
         NEW f, NEW f2, Call(g, f, f2), f.fn = top(g).fn,
         f2.fn # "dispose", f2.fn = "visit" => f2.pc = "enter" /\ ~f2.held /\ f2.acc = <<>>
  PROVE  CalmMoves(g) /\ CalmRet(g)
<1>1. PICK n : n = Len(stack[g])
  OBVIOUS
<1>2. /\ Moves(g, n - 1, 2) /\ stack'[g][n] = f /\ stack'[g][n + 1] = f2 /\ n \in Nat \ {0} /\ DOMAIN stack[g] = 1..n
      /\ top(g) = stack[g][n] /\ ret'[g] = NoRet /\ \A h \in Goroutines \ {g} : ret'[h] = ret[h]
  BY <1>1, CallMoves, TopFacts DEF ShapeInv, ShapeStacks
<1>3. PICK k : k = n - 1
  OBVIOUS
<1>4. k + 1 = n /\ k + 2 = n + 1 /\ k <= n /\ n \in 1..n /\ \A i \in 1..n : i <= k \/ i = n
  BY <1>2, <1>3
<1>6. Fresh(f) /\ Fresh(f2)
  BY DEF Fresh, Plain
<1>7. \A i \in DOMAIN stack[g] : i <= k \/ stack[g][i].fn \notin {"visit", "dispose"}
  BY <1>2, <1>4
<1>8. CalmMoves(g)
  BY <1>1, <1>2, <1>3, <1>4, <1>6, <1>7 DEF CalmMoves
<1>9. CalmRet(g)
  BY <1>2 DEF CalmRet, NoRet, Ok
<1> QED
  BY <1>8, <1>9

\* A calm step that returns.
LEMMA CalmReturn ==
  ASSUME ShapeInv, NEW g \in Goroutines, stack[g] # <<>>, top(g).fn \notin {"visit", "dispose"}, NEW r, Return(g, r),
         \/ r = ret[g] \/ ~r.ok \/ r.v = {}
         \/ \E x \in DOMAIN realized : r.v = realized[x].value /\ realized[x].value # NoValue
  PROVE  CalmMoves(g) /\ CalmRet(g)
<1>1. PICK n : n = Len(stack[g])
  OBVIOUS
<1>2. /\ Moves(g, n - 1, 0) /\ n \in Nat \ {0} /\ DOMAIN stack[g] = 1..n
      /\ top(g) = stack[g][n] /\ ret'[g] = r /\ \A h \in Goroutines \ {g} : ret'[h] = ret[h]
  BY <1>1, ReturnMoves, TopFacts DEF ShapeInv, ShapeStacks
<1>3. PICK k : k = n - 1
  OBVIOUS
<1>4. k <= n /\ 0 # 2 /\ ~(0 >= 1) /\ \A i \in 1..n : i <= k \/ i = n
  BY <1>2, <1>3
<1>7. \A i \in DOMAIN stack[g] : i <= k \/ stack[g][i].fn \notin {"visit", "dispose"}
  BY <1>2, <1>4
<1>8. CalmMoves(g)
  BY <1>1, <1>2, <1>3, <1>4, <1>7 DEF CalmMoves
<1>9. CalmRet(g)
  BY <1>2 DEF CalmRet
<1> QED
  BY <1>8, <1>9

\* A calm step that starts.
LEMMA CalmStart ==
  ASSUME ShapeInv, NEW g \in Goroutines, stack[g] = <<>>, NEW f, stack' = [stack EXCEPT ![g] = <<f>>],
         f.fn \notin {"visit", "dispose"}
  PROVE  CalmMoves(g)
<1>1. Moves(g, 0, 1) /\ stack'[g][1] = f
  BY StartMoves DEF ShapeInv, ShapeStacks
<1>2. 0 <= Len(stack[g]) /\ 0 + 1 = 1 /\ 1 # 2 /\ DOMAIN stack[g] = {}
  BY SeqFacts DEF ShapeInv, ShapeStacks, StacksAre
<1>3. Fresh(f)
  BY <1>2 DEF Fresh, Plain
<1> QED
  BY <1>1, <1>2, <1>3 DEF CalmMoves

\* A calm step that leaves the stacks alone.
LEMMA CalmIdle ==
  ASSUME ShapeInv, NEW g \in Goroutines, stack' = stack
  PROVE  CalmMoves(g)
<1>1. PICK n : n = Len(stack[g])
  OBVIOUS
<1>2. n \in Nat /\ DOMAIN stack[g] = 1..n /\ n + 0 = n
  BY <1>1, SeqFacts DEF ShapeInv, ShapeStacks, StacksAre
<1>3. Moves(g, n, 0)
  BY <1>1, <1>2 DEF Moves, ShapeInv, ShapeStacks, StacksAre
<1>4. n <= n /\ 0 # 2 /\ ~(0 >= 1) /\ \A i \in 1..n : i <= n
  BY <1>2
<1> QED
  BY <1>1, <1>2, <1>3, <1>4 DEF CalmMoves

\* A calm step keeps one instance of a call site in a scope.
LEMMA CalmKeep ==
  ASSUME ShapeInv, KeepInv, NEW g \in Goroutines, CalmMoves(g), Still
  PROVE  KeepInv'
BY StillMoves DEF CalmMoves, Fresh

\* Nothing changes but stacks, results and locks of types.
LEMMA QuietRest ==
  ASSUME ShapeInv, KeepInv, NEW g \in Goroutines,
         UNCHANGED <<descriptors, sites, siteLock, scopeLock, resolved, instances, disposables, cleared, disposed>>
  PROVE  CalmRest /\ (realized' = realized => CalmRealized(g))
<1>1. IsSeq(instances) /\ \A i \in DOMAIN instances : IsInstance(instances[i])
  BY DEF KeepInv, InstancesOK, InstanceOK
<1> QED
  BY <1>1 DEF CalmRest, Still, CalmRealized

\* GetCallSite builds, keeps and disposes of nothing.
LEMMA GetCallSiteCalm ==
  ASSUME ShapeInv, KeepInv, NEW g \in Goroutines, GetCallSite(g)
  PROVE  Calm(g)
<1>1. PICK f : f = top(g)
  OBVIOUS
<1>2. stack[g] # <<>> /\ IsFrame(f) /\ f.fn = "site"
  BY <1>1, AtFacts DEF GetCallSite, FrameOK
<1>3. CalmRest /\ CalmRealized(g)
  BY QuietRest DEF GetCallSite, builder, callSites, locks, accessors, scopeVars
<1>4. ASSUME NEW r, Return(g, r), r.v = {} PROVE CalmMoves(g) /\ CalmRet(g)
  BY <1>1, <1>2, <1>4, CalmReturn
<1>5. Err.v = {} /\ \A c : Site(c).v = {}
  BY DEF Err, Site
<1>6. PICK e : e = [f EXCEPT !.pc = "lock"]
  OBVIOUS
<1>7. e.fn = "site"
  BY <1>2, <1>6 DEF IsFrame
<1>8. ASSUME Goto(g, e) PROVE CalmMoves(g) /\ CalmRet(g)
  BY <1>1, <1>2, <1>7, <1>8, CalmGoto
<1>9. CalmMoves(g) /\ CalmRet(g)
  BY <1>1, <1>4, <1>5, <1>6, <1>8 DEF GetCallSite
<1> QED
  BY <1>3, <1>9 DEF Calm

\* createCallSite builds, keeps and disposes of nothing.
LEMMA createCallSiteCalm ==
  ASSUME ShapeInv, KeepInv, NEW g \in Goroutines, createCallSite(g)
  PROVE  Calm(g)
<1>1. PICK f : f = top(g)
  OBVIOUS
<1>2. stack[g] # <<>> /\ IsFrame(f) /\ f.fn = "site"
  BY <1>1, AtFacts DEF createCallSite, FrameOK
<1>3. CalmRest /\ CalmRealized(g)
  BY QuietRest DEF createCallSite, builder, callSites, accessors, scopeVars
<1>4. ASSUME Return(g, Err) PROVE CalmMoves(g) /\ CalmRet(g)
  BY <1>1, <1>2, <1>4, CalmReturn DEF Err
<1>5. PICK e : e = [f EXCEPT !.pc = "made"]
  OBVIOUS
<1>6. e.fn = "site" /\ e.scope = f.scope
  BY <1>2, <1>5 DEF IsFrame
<1>7. ASSUME NEW e2, Call(g, e, e2), e2.fn \in {"exact", "slice"} PROVE CalmMoves(g) /\ CalmRet(g)
  BY <1>1, <1>2, <1>6, <1>7, CalmCall
<1>8. ASSUME Call(g, e, exactFrame(Last(Registered(f.t)), 0)) PROVE CalmMoves(g) /\ CalmRet(g)
  <2>1. PICK e2 : e2 = exactFrame(Last(Registered(f.t)), 0)
    OBVIOUS
  <2>2. e2.fn = "exact"
    BY <2>1, ExactFrame
  <2> QED
    BY <1>7, <1>8, <2>1, <2>2
<1>9. ASSUME Call(g, e, sliceFrame(f.t)) PROVE CalmMoves(g) /\ CalmRet(g)
  <2>1. PICK e2 : e2 = sliceFrame(f.t)
    OBVIOUS
  <2>2. e2.fn = "slice"
    BY <2>1, SliceFrame
  <2> QED
    BY <1>7, <1>9, <2>1, <2>2
<1>10. CalmMoves(g) /\ CalmRet(g)
  BY <1>1, <1>4, <1>5, <1>8, <1>9 DEF createCallSite
<1> QED
  BY <1>3, <1>10 DEF Calm

\* createCallSiteReturns builds, keeps and disposes of nothing.
LEMMA createCallSiteReturnsCalm ==
  ASSUME ShapeInv, KeepInv, NEW g \in Goroutines, createCallSiteReturns(g)
  PROVE  Calm(g)
<1>2. stack[g] # <<>> /\ top(g).fn = "site"
  BY AtFacts DEF createCallSiteReturns
<1>3. CalmRest /\ CalmRealized(g)
  BY QuietRest DEF createCallSiteReturns, builder, callSites, accessors, scopeVars
<1>4. PICK r : r = ret[g]
  OBVIOUS
<1>5. Return(g, r)
  BY <1>4 DEF createCallSiteReturns
<1>6. CalmMoves(g) /\ CalmRet(g)
  BY <1>2, <1>4, <1>5, CalmReturn
<1> QED
  BY <1>3, <1>6 DEF Calm

\* NextArgument builds, keeps and disposes of nothing.
LEMMA NextArgumentCalm ==
  ASSUME ShapeInv, KeepInv, NEW g \in Goroutines, stack[g] # <<>>, top(g).fn = "exact",
         NEW f, IsFrame(f), f.fn = "exact", f.scope = top(g).scope, NextArgument(g, f)
  PROVE  CalmMoves(g) /\ CalmRet(g)
<1>1. PICK e : e = [f EXCEPT !.pc = "arg"]
  OBVIOUS
<1>2. PICK e1 : e1 = [f EXCEPT !.pc = "store"]
  OBVIOUS
<1>3. e.fn = "exact" /\ e1.fn = "exact" /\ e.scope = top(g).scope
  BY <1>1, <1>2 DEF IsFrame
<1>4. ASSUME Goto(g, e1) PROVE CalmMoves(g) /\ CalmRet(g)
  BY <1>3, <1>4, CalmGoto
<1>5. ASSUME NEW t, Call(g, e, siteFrame(t)) PROVE CalmMoves(g) /\ CalmRet(g)
  <2>1. PICK e2 : e2 = siteFrame(t)
    OBVIOUS
  <2>2. e2.fn = "site"
    BY <2>1, SiteFrame
  <2> QED
    BY <1>3, <1>5, <2>1, <2>2, CalmCall
<1> QED
  BY <1>1, <1>2, <1>4, <1>5 DEF NextArgument

\* tryCreateExact builds, keeps and disposes of nothing.
LEMMA tryCreateExactCalm ==
  ASSUME ShapeInv, KeepInv, NEW g \in Goroutines, tryCreateExact(g)
  PROVE  Calm(g)
<1>1. PICK f : f = top(g)
  OBVIOUS
<1>2. stack[g] # <<>> /\ IsFrame(f) /\ f.fn = "exact"
  BY <1>1, AtFacts DEF tryCreateExact, FrameOK
<1>3. CalmRest /\ CalmRealized(g)
  BY QuietRest DEF tryCreateExact, builder, callSites, locks, accessors, scopeVars
<1>4. ASSUME NEW r, Return(g, r), r.v = {} PROVE CalmMoves(g) /\ CalmRet(g)
  BY <1>1, <1>2, <1>4, CalmReturn
<1>5. Err.v = {} /\ \A c : Site(c).v = {}
  BY DEF Err, Site
<1>6. ASSUME NextArgument(g, f) PROVE CalmMoves(g) /\ CalmRet(g)
  BY <1>1, <1>2, <1>6, NextArgumentCalm
<1>7. ASSUME NextArgument(g, [f EXCEPT !.acc = Append(@, ret[g].site)]) PROVE CalmMoves(g) /\ CalmRet(g)
  <2>1. PICK e : e = [f EXCEPT !.acc = Append(@, ret[g].site)]
    OBVIOUS
  <2>2. IsFrame(e) /\ e.fn = "exact" /\ e.scope = f.scope
    BY <1>2, <2>1 DEF IsFrame
  <2> QED
    BY <1>1, <1>2, <1>7, <2>1, <2>2, NextArgumentCalm
<1>8. CalmMoves(g) /\ CalmRet(g)
  BY <1>1, <1>4, <1>5, <1>6, <1>7 DEF tryCreateExact
<1> QED
  BY <1>3, <1>8 DEF Calm

\* One more call site.
LEMMA AddedRest ==
  ASSUME ShapeInv, KeepInv, NEW g \in Goroutines, NEW c, sites' = Append(sites, c), siteLock' = Append(siteLock, None),
         UNCHANGED <<descriptors, scopeLock, realized, resolved, instances, disposables, cleared, disposed>>
  PROVE  CalmRest /\ CalmRealized(g)
<1>1. IsSeq(instances) /\ \A i \in DOMAIN instances : IsInstance(instances[i])
  BY DEF KeepInv, InstancesOK, InstanceOK
<1>2. /\ IsSeq(sites) /\ IsSeq(siteLock) /\ Len(siteLock) = Len(sites) /\ Len(sites) \in Nat /\ DOMAIN sites = 1..Len(sites)
  BY SeqFacts DEF ShapeInv, SitesOK
<1>3. /\ IsSeq(sites') /\ Len(sites') = Len(sites) + 1 /\ \A e \in 1..Len(sites) : sites'[e] = sites[e]
  BY <1>2, AppendFacts
<1>4. \A e \in 1..Len(sites) : siteLock'[e] = siteLock[e]
  BY <1>2, AppendFacts
<1>5. DOMAIN sites' = 1..Len(sites) + 1
  BY <1>2, <1>3, SeqFacts
<1>6. \A e \in 1..Len(sites) : e \in 1..Len(sites) + 1
  BY <1>2
<1> QED
  BY <1>1, <1>2, <1>3, <1>4, <1>5, <1>6 DEF CalmRest, Still, CalmRealized

\* storeCallSite builds, keeps and disposes of nothing.
LEMMA storeCallSiteCalm ==
  ASSUME ShapeInv, KeepInv, NEW g \in Goroutines, storeCallSite(g)
  PROVE  Calm(g)
<1>2. stack[g] # <<>> /\ top(g).fn = "exact"
  BY AtFacts DEF storeCallSite
<1>3. PICK c : sites' = Append(sites, c)
  BY DEF storeCallSite
<1>4. CalmRest /\ CalmRealized(g)
  BY <1>3, AddedRest DEF storeCallSite, builder, accessors, scopeVars
<1>5. PICK r : r = Site(Len(sites) + 1)
  OBVIOUS
<1>6. Return(g, r) /\ r.v = {}
  BY <1>5 DEF storeCallSite, Site
<1>7. CalmMoves(g) /\ CalmRet(g)
  BY <1>2, <1>6, CalmReturn
<1> QED
  BY <1>4, <1>7 DEF Calm

\* createSlice builds, keeps and disposes of nothing.
LEMMA createSliceCalm ==
  ASSUME ShapeInv, KeepInv, NEW g \in Goroutines, createSlice(g)
  PROVE  Calm(g)
<1>1. PICK f : f = top(g)
  OBVIOUS
<1>2. stack[g] # <<>> /\ IsFrame(f) /\ f.fn = "slice"
  BY <1>1, AtFacts DEF createSlice, FrameOK
<1>3. UNCHANGED <<builder, callSiteCache, typeLock, scopeLock, accessors, scopeVars, instances, calls>>
  BY DEF createSlice
<1>4. ASSUME NEW d, NEW slot, Call(g, [f EXCEPT !.pc = "elem", !.d = d], exactFrame(d, slot)), UNCHANGED <<sites, siteLock>>
      PROVE  Calm(g)
  <2>1. PICK e, e2 : e = [f EXCEPT !.pc = "elem", !.d = d] /\ e2 = exactFrame(d, slot)
    OBVIOUS
  <2>2. e.fn = "slice" /\ e.scope = f.scope /\ e2.fn = "exact"
    BY <1>2, <2>1, ExactFrame DEF IsFrame
  <2>3. CalmMoves(g) /\ CalmRet(g)
    BY <1>1, <1>2, <1>4, <2>1, <2>2, CalmCall
  <2>4. CalmRest /\ CalmRealized(g)
    BY <1>3, <1>4, QuietRest DEF builder, accessors, scopeVars
  <2> QED
    BY <2>3, <2>4 DEF Calm
<1>5. ASSUME NEW c, sites' = Append(sites, c), siteLock' = Append(siteLock, None), Return(g, Site(Len(sites) + 1))
      PROVE  Calm(g)
  <2>1. CalmRest /\ CalmRealized(g)
    BY <1>3, <1>5, AddedRest DEF builder, accessors, scopeVars
  <2>2. PICK r : r = Site(Len(sites) + 1)
    OBVIOUS
  <2>3. Return(g, r) /\ r.v = {}
    BY <1>5, <2>2 DEF Site
  <2>4. CalmMoves(g) /\ CalmRet(g)
    BY <1>1, <1>2, <2>3, CalmReturn
  <2> QED
    BY <2>1, <2>4 DEF Calm
<1>6. PICK ds : ds = {i \in Registered(Elem[f.t]) : i > f.d}
  OBVIOUS
<1>7. PICK d : d = CHOOSE i \in ds : \A j \in ds : i <= j
  OBVIOUS
<1>8. \/ /\ Call(g, [f EXCEPT !.pc = "elem", !.d = d], exactFrame(d, SlotIn(ds, d))) /\ UNCHANGED <<sites, siteLock>>
      \/ \E c : sites' = Append(sites, c) /\ siteLock' = Append(siteLock, None) /\ Return(g, Site(Len(sites) + 1))
  BY <1>1, <1>6, <1>7 DEF createSlice
<1> QED
  BY <1>4, <1>5, <1>8

\* createSliceElement builds, keeps and disposes of nothing.
LEMMA createSliceElementCalm ==
  ASSUME ShapeInv, KeepInv, NEW g \in Goroutines, createSliceElement(g)
  PROVE  Calm(g)
<1>1. PICK f : f = top(g)
  OBVIOUS
<1>2. stack[g] # <<>> /\ IsFrame(f) /\ f.fn = "slice"
  BY <1>1, AtFacts DEF createSliceElement, FrameOK
<1>3. CalmRest /\ CalmRealized(g)
  BY QuietRest DEF createSliceElement, builder, callSites, locks, accessors, scopeVars
<1>4. ASSUME Return(g, Err) PROVE CalmMoves(g) /\ CalmRet(g)
  BY <1>1, <1>2, <1>4, CalmReturn DEF Err
<1>5. PICK e : e = [f EXCEPT !.pc = "enter", !.acc = Append(@, ret[g].site)]
  OBVIOUS
<1>6. e.fn = "slice"
  BY <1>2, <1>5 DEF IsFrame
<1>7. ASSUME Goto(g, e) PROVE CalmMoves(g) /\ CalmRet(g)
  BY <1>1, <1>2, <1>6, <1>7, CalmGoto
<1>8. CalmMoves(g) /\ CalmRet(g)
  BY <1>1, <1>4, <1>5, <1>7 DEF createSliceElement
<1> QED
  BY <1>3, <1>8 DEF Calm

\* validateService builds, keeps and disposes of nothing.
LEMMA validateServiceCalm ==
  ASSUME ShapeInv, KeepInv, NEW g \in Goroutines, validateService(g)
  PROVE  Calm(g)
<1>1. PICK f : f = top(g)
  OBVIOUS
<1>2. stack[g] # <<>> /\ IsFrame(f) /\ f.fn = "validate"
  BY <1>1, AtFacts DEF validateService, FrameOK
<1>3. CalmRest /\ CalmRealized(g)
  BY QuietRest DEF validateService, callSites, locks, accessors, scopeVars
<1>4. ASSUME Call(g, [f EXCEPT !.pc = "made", !.d = @ + 1], exactFrame(f.d + 1, GetSlot(f.d + 1))) PROVE CalmMoves(g) /\ CalmRet(g)
  <2>1. PICK e, e2 : e = [f EXCEPT !.pc = "made", !.d = @ + 1] /\ e2 = exactFrame(f.d + 1, GetSlot(f.d + 1))
    OBVIOUS
  <2>2. e.fn = "validate" /\ e.scope = f.scope /\ e2.fn = "exact"
    BY <1>2, <2>1, ExactFrame DEF IsFrame
  <2> QED
    BY <1>1, <1>2, <1>4, <2>1, <2>2, CalmCall
<1>5. ASSUME Return(g, Err) \/ Return(g, NoRet) PROVE CalmMoves(g) /\ CalmRet(g)
  <2>1. Err.v = {} /\ NoRet.v = {}
    BY DEF Err, NoRet, Ok
  <2> QED
    BY <1>1, <1>2, <1>5, <2>1, CalmReturn
<1>6. CalmMoves(g) /\ CalmRet(g)
  BY <1>1, <1>4, <1>5 DEF validateService
<1> QED
  BY <1>3, <1>6 DEF Calm

\* validatedService builds, keeps and disposes of nothing.
LEMMA validatedServiceCalm ==
  ASSUME ShapeInv, KeepInv, NEW g \in Goroutines, validatedService(g)
  PROVE  Calm(g)
<1>1. PICK f : f = top(g)
  OBVIOUS
<1>2. stack[g] # <<>> /\ IsFrame(f) /\ f.fn = "validate"
  BY <1>1, AtFacts DEF validatedService, FrameOK
<1>3. CalmRest /\ CalmRealized(g)
  BY QuietRest DEF validatedService, builder, callSites, locks, scopeVars
<1>4. PICK ok : Goto(g, [f EXCEPT !.pc = "enter", !.held = @ \/ ~ok])
  <2>1. PICK ok : ok = (ret[g].ok /\ ValidateCallSite(ret[g].site))
    OBVIOUS
  <2> QED
    BY <1>1, <2>1 DEF validatedService
<1>5. PICK e : e = [f EXCEPT !.pc = "enter", !.held = @ \/ ~ok]
  OBVIOUS
<1>6. e.fn = "validate"
  BY <1>2, <1>5 DEF IsFrame
<1>7. CalmMoves(g) /\ CalmRet(g)
  BY <1>1, <1>2, <1>4, <1>5, <1>6, CalmGoto
<1> QED
  BY <1>3, <1>7 DEF Calm

\* GetWithScope builds, keeps and disposes of nothing.
LEMMA GetWithScopeCalm ==
  ASSUME ShapeInv, KeepInv, NEW g \in Goroutines, GetWithScope(g)
  PROVE  Calm(g)
<1>1. PICK f : f = top(g)
  OBVIOUS
<1>2. stack[g] # <<>> /\ IsFrame(f) /\ f.fn = "get"
  BY <1>1, AtFacts DEF GetWithScope, FrameOK
<1>3. CalmRest /\ CalmRealized(g)
  BY QuietRest DEF GetWithScope, builder, callSites, locks, accessors, scopeVars
<1>4. ASSUME Return(g, Err) PROVE CalmMoves(g) /\ CalmRet(g)
  BY <1>1, <1>2, <1>4, CalmReturn DEF Err
<1>5. PICK e, e1 : e = [f EXCEPT !.pc = "made"] /\ e1 = [f EXCEPT !.pc = "access"]
  OBVIOUS
<1>6. e.fn = "get" /\ e.scope = f.scope /\ e1.fn = "get" /\ e1.scope = f.scope
  BY <1>2, <1>5 DEF IsFrame
<1>7. ASSUME Goto(g, e1) PROVE CalmMoves(g) /\ CalmRet(g)
  BY <1>1, <1>2, <1>6, <1>7, CalmGoto
<1>8. ASSUME NEW e2, Call(g, e, e2), e2.fn \in {"exact", "site"} PROVE CalmMoves(g) /\ CalmRet(g)
  BY <1>1, <1>2, <1>6, <1>8, CalmCall
<1>9. ASSUME NEW d, NEW slot, Call(g, e, exactFrame(d, slot)) PROVE CalmMoves(g) /\ CalmRet(g)
  <2>1. PICK e2 : e2 = exactFrame(d, slot)
    OBVIOUS
  <2>2. e2.fn = "exact"
    BY <2>1, ExactFrame
  <2> QED
    BY <1>8, <1>9, <2>1, <2>2
<1>10. ASSUME Call(g, e, siteFrame(f.t)) PROVE CalmMoves(g) /\ CalmRet(g)
  <2>1. PICK e2 : e2 = siteFrame(f.t)
    OBVIOUS
  <2>2. e2.fn = "site"
    BY <2>1, SiteFrame
  <2> QED
    BY <1>8, <1>10, <2>1, <2>2
<1>11. CalmMoves(g) /\ CalmRet(g)
  BY <1>1, <1>4, <1>5, <1>7, <1>9, <1>10 DEF GetWithScope
<1> QED
  BY <1>3, <1>11 DEF Calm

\* The value of a new accessor.
LEMMA Stored ==
  ASSUME NEW g, NEW f, NEW a, LoadOrStore(f, a), a.value = NoValue \/ (ret[g].ok /\ a.value = ret[g].v)
  PROVE  CalmRealized(g)
BY DEF LoadOrStore, With, CalmRealized

\* createServiceAccessor builds, keeps and disposes of nothing.
LEMMA createServiceAccessorCalm ==
  ASSUME ShapeInv, KeepInv, NEW g \in Goroutines, createServiceAccessor(g)
  PROVE  Calm(g)
<1>1. PICK f : f = top(g)
  OBVIOUS
<1>2. stack[g] # <<>> /\ IsFrame(f) /\ f.fn = "get"
  BY <1>1, AtFacts DEF createServiceAccessor, FrameOK
<1>3. CalmRest /\ (realized' = realized => CalmRealized(g))
  BY QuietRest DEF createServiceAccessor, builder, callSites, locks, scopeVars
<1>4. ASSUME Return(g, Err), realized' = realized PROVE Calm(g)
  <2>1. CalmMoves(g) /\ CalmRet(g)
    BY <1>1, <1>2, <1>4, CalmReturn DEF Err
  <2> QED
    BY <1>3, <1>4, <2>1 DEF Calm
<1>5. PICK c : c = ret[g].site
  OBVIOUS
<1>6. ASSUME Call(g, [f EXCEPT !.pc = "value", !.site = c], visitFrame(c, Root)), realized' = realized PROVE Calm(g)
  <2>1. PICK e, e2 : e = [f EXCEPT !.pc = "value", !.site = c] /\ e2 = visitFrame(c, Root)
    OBVIOUS
  <2>2. e.fn = "get" /\ e.scope = f.scope
    BY <1>2, <2>1 DEF IsFrame
  <2>3. e2.fn = "visit" /\ e2.pc = "enter" /\ ~e2.held /\ e2.acc = <<>> /\ e2.scope = Root
    BY <2>1, VisitFrame
  <2>4. CalmMoves(g) /\ CalmRet(g)
    BY <1>1, <1>2, <1>6, <2>1, <2>2, <2>3, CalmCall
  <2> QED
    BY <1>3, <1>6, <2>4 DEF Calm
<1>7. ASSUME Goto(g, [f EXCEPT !.pc = "access"]), LoadOrStore(f, [site |-> c, value |-> NoValue]) PROVE Calm(g)
  <2>1. PICK e, a : e = [f EXCEPT !.pc = "access"] /\ a = [site |-> c, value |-> NoValue]
    OBVIOUS
  <2>2. e.fn = "get" /\ e.scope = f.scope /\ a.value = NoValue
    BY <1>2, <2>1 DEF IsFrame
  <2>3. CalmMoves(g) /\ CalmRet(g)
    BY <1>1, <1>2, <1>7, <2>1, <2>2, CalmGoto
  <2>4. CalmRealized(g)
    BY <1>7, <2>1, <2>2, Stored
  <2> QED
    BY <1>3, <2>3, <2>4 DEF Calm
<1> QED
  BY <1>1, <1>4, <1>5, <1>6, <1>7 DEF createServiceAccessor, accessors

\* createRootAccessor builds, keeps and disposes of nothing.
LEMMA createRootAccessorCalm ==
  ASSUME ShapeInv, KeepInv, NEW g \in Goroutines, createRootAccessor(g)
  PROVE  Calm(g)
<1>1. PICK f : f = top(g)
  OBVIOUS
<1>2. stack[g] # <<>> /\ IsFrame(f) /\ f.fn = "get"
  BY <1>1, AtFacts DEF createRootAccessor, FrameOK
<1>3. CalmRest /\ (realized' = realized => CalmRealized(g))
  BY QuietRest DEF createRootAccessor, builder, callSites, locks, scopeVars
<1>4. ASSUME Return(g, Err), realized' = realized PROVE Calm(g)
  <2>1. CalmMoves(g) /\ CalmRet(g)
    BY <1>1, <1>2, <1>4, CalmReturn DEF Err
  <2> QED
    BY <1>3, <1>4, <2>1 DEF Calm
<1>7. ASSUME ret[g].ok, Goto(g, [f EXCEPT !.pc = "access"]), LoadOrStore(f, [site |-> f.site, value |-> ret[g].v]) PROVE Calm(g)
  <2>1. PICK e, a : e = [f EXCEPT !.pc = "access"] /\ a = [site |-> f.site, value |-> ret[g].v]
    OBVIOUS
  <2>2. e.fn = "get" /\ e.scope = f.scope /\ a.value = ret[g].v
    BY <1>2, <2>1 DEF IsFrame
  <2>3. CalmMoves(g) /\ CalmRet(g)
    BY <1>1, <1>2, <1>7, <2>1, <2>2, CalmGoto
  <2>4. CalmRealized(g)
    BY <1>7, <2>1, <2>2, Stored
  <2> QED
    BY <1>3, <2>3, <2>4 DEF Calm
<1> QED
  BY <1>1, <1>4, <1>7 DEF createRootAccessor

\* access builds, keeps and disposes of nothing.
LEMMA accessCalm ==
  ASSUME ShapeInv, KeepInv, NEW g \in Goroutines, access(g)
  PROVE  Calm(g)
<1>1. PICK f : f = top(g)
  OBVIOUS
<1>2. stack[g] # <<>> /\ IsFrame(f) /\ f.fn = "get" /\ f.pc = "access" /\ <<f.t, f.key>> \in DOMAIN realized
  BY <1>1, AtFacts DEF access, FrameOK
<1>3. CalmRest /\ CalmRealized(g)
  BY QuietRest DEF access, builder, callSites, locks, accessors, scopeVars
<1>4. ASSUME Return(g, Err) PROVE CalmMoves(g) /\ CalmRet(g)
  BY <1>1, <1>2, <1>4, CalmReturn DEF Err
<1>5. PICK x, a : x = <<f.t, f.key>> /\ a = realized[x]
  OBVIOUS
<1>6. ASSUME a.value # NoValue, Return(g, Ok(a.value)) PROVE CalmMoves(g) /\ CalmRet(g)
  <2>1. PICK r : r = Ok(a.value)
    OBVIOUS
  <2>2. r.v = realized[x].value /\ realized[x].value # NoValue /\ x \in DOMAIN realized
    BY <1>2, <1>5, <1>6, <2>1 DEF Ok
  <2> QED
    BY <1>1, <1>2, <1>6, <2>1, <2>2, CalmReturn
<1>7. ASSUME Goto(g, visitFrame(a.site, f.scope)) PROVE CalmMoves(g) /\ CalmRet(g)
  <2>1. PICK e : e = visitFrame(a.site, f.scope)
    OBVIOUS
  <2>2. e.fn = "visit" /\ e.pc = "enter" /\ ~e.held /\ e.acc = <<>> /\ e.scope = f.scope
    BY <2>1, VisitFrame
  <2> QED
    BY <1>1, <1>2, <1>7, <2>1, <2>2, CalmGoto
<1>8. CalmMoves(g) /\ CalmRet(g)
  BY <1>1, <1>4, <1>5, <1>6, <1>7 DEF access
<1> QED
  BY <1>3, <1>8 DEF Calm

\* Get builds, keeps and disposes of nothing.
LEMMA GetCalm ==
  ASSUME ShapeInv, KeepInv, NEW g \in Goroutines, NEW r \in plan.ask, NEW s \in AllScopes, Get(g, r, s)
  PROVE  Calm(g)
<1>1. PICK f : f = getFrame(r.type, r.key, s)
  OBVIOUS
<1>2. f.fn = "get"
  BY <1>1, GetFrame
<1>3. CalmRest /\ CalmRealized(g)
  BY QuietRest DEF Get, builder, callSites, locks, accessors, scopeVars
<1>4. CalmMoves(g)
  BY <1>1, <1>2, CalmStart DEF Get, idle
<1>5. CalmRet(g)
  BY DEF Get, CalmRet, NoRet, Ok, ShapeInv, ShapeStacks, StacksAre
<1> QED
  BY <1>3, <1>4, <1>5 DEF Calm

\* CreateScope builds, keeps and disposes of nothing.
LEMMA CreateScopeCalm ==
  ASSUME ShapeInv, KeepInv, NEW g \in Goroutines, NEW s \in Scopes, CreateScope(g, s)
  PROVE  Calm(g)
<1>3. CalmRest /\ CalmRealized(g)
  BY QuietRest DEF CreateScope, builder, callSites, locks, accessors
<1>4. CalmMoves(g)
  BY CalmIdle DEF CreateScope
<1>5. CalmRet(g)
  BY DEF CreateScope, CalmRet
<1> QED
  BY <1>3, <1>4, <1>5 DEF Calm

\* Build builds, keeps and disposes of nothing.
LEMMA BuildCalm ==
  ASSUME ShapeInv, KeepInv, NEW g \in Goroutines, Build(g)
  PROVE  Calm(g)
<1>1. sites = <<>> /\ realized = <<>> /\ instances = <<>> /\ \A h \in Goroutines : stack[h] = <<>>
  BY DEF ShapeInv, BuildingOK, Build
<1>2. UNCHANGED <<plan, descriptors, options, scopeLock, accessors, scopeVars, instances, ret, calls>>
  BY DEF Build
<1>3. CalmRest
  <2>1. IsSeq(instances) /\ DOMAIN instances = {} /\ DOMAIN sites = {}
    BY <1>1, EmptySeq, SeqFacts
  <2> QED
    BY <1>2, <2>1 DEF CalmRest, Still, scopeVars
<1>4. CalmRealized(g) /\ CalmRet(g)
  BY <1>2 DEF CalmRealized, CalmRet, accessors
<1>5. ASSUME stack' = stack PROVE CalmMoves(g)
  BY <1>5, CalmIdle
<1>6. ASSUME stack' = [stack EXCEPT ![g] = <<[Frame EXCEPT !.fn = "validate"]>>] PROVE CalmMoves(g)
  <2>1. PICK f : f = [Frame EXCEPT !.fn = "validate"]
    OBVIOUS
  <2>2. f.fn = "validate"
    BY <2>1 DEF Frame
  <2> QED
    BY <1>1, <1>6, <2>1, <2>2, CalmStart
<1>7. CalmMoves(g)
  BY <1>5, <1>6 DEF Build
<1> QED
  BY <1>3, <1>4, <1>7 DEF Calm

\* Scopes and their disposal change nothing a visit knows.
LEMMA DisposeKeep ==
  ASSUME ShapeInv, KeepInv, NEW g \in Goroutines, NEW s \in AllScopes, Dispose(g, s)
  PROVE  KeepInv'
<1>1. Still
  <2>1. IsSeq(instances) /\ \A i \in DOMAIN instances : IsInstance(instances[i])
    BY DEF KeepInv, InstancesOK, InstanceOK
  <2> QED
    BY <2>1 DEF Dispose, Still, callSites, locks
<1>2. CASE stack' = stack
  BY <1>1, <1>2, CalmIdle, CalmKeep
<1>3. CASE stack' = [stack EXCEPT ![g] = <<[Frame EXCEPT !.fn = "dispose", !.scope = s]>>]
  <2>1. PICK f : f = [Frame EXCEPT !.fn = "dispose", !.scope = s]
    OBVIOUS
  <2>2. f.fn = "dispose"
    BY <2>1 DEF Frame
  <2>3. Moves(g, 0, 1) /\ stack'[g][1] = f
    BY <1>3, <2>1, StartMoves DEF ShapeInv, ShapeStacks
  <2>4. 0 <= Len(stack[g]) /\ 0 + 1 = 1 /\ 1 # 2
    BY SeqFacts DEF ShapeInv, ShapeStacks, StacksAre
  <2>5. Plain(f)
    BY <2>2, <2>4 DEF Plain
  <2> QED
    BY <1>1, <2>3, <2>4, <2>5, StillMoves
<1> QED
  BY <1>2, <1>3 DEF Dispose

\* A disposing frame goes on.
LEMMA GotoDisposing ==
  ASSUME ShapeInv, KeepInv, NEW g \in Goroutines, stack[g] # <<>>, NEW f, f.fn = "dispose", Goto(g, f), Still
  PROVE  KeepInv'
<1>1. PICK n : n = Len(stack[g])
  OBVIOUS
<1>2. Moves(g, n - 1, 1) /\ stack'[g][n] = f /\ n \in Nat \ {0}
  BY <1>1, GotoMoves, TopFacts DEF ShapeInv, ShapeStacks
<1>3. PICK k : k = n - 1
  OBVIOUS
<1>4. k + 1 = n /\ k <= n /\ 1 # 2
  BY <1>2, <1>3
<1>5. Plain(f)
  BY DEF Plain
<1> QED
  BY <1>1, <1>2, <1>3, <1>4, <1>5, StillMoves

\* A frame returns and nothing else changes.
LEMMA ReturnStill ==
  ASSUME ShapeInv, KeepInv, NEW g \in Goroutines, stack[g] # <<>>, NEW r, Return(g, r), Still
  PROVE  KeepInv'
<1>1. PICK n : n = Len(stack[g])
  OBVIOUS
<1>2. Moves(g, n - 1, 0) /\ n \in Nat \ {0}
  BY <1>1, ReturnMoves, TopFacts DEF ShapeInv, ShapeStacks
<1>3. PICK k : k = n - 1
  OBVIOUS
<1>4. k <= n /\ 0 # 2 /\ ~(0 >= 1)
  BY <1>2, <1>3
<1> QED
  BY <1>1, <1>2, <1>3, <1>4, StillMoves

\* BeginDispose keeps one instance of a call site in a scope.
LEMMA BeginDisposeKeep ==
  ASSUME ShapeInv, KeepInv, NEW g \in Goroutines, BeginDispose(g)
  PROVE  KeepInv'
<1>1. PICK f : f = top(g)
  OBVIOUS
<1>2. stack[g] # <<>> /\ IsFrame(f) /\ f.fn = "dispose"
  BY <1>1, AtFacts DEF BeginDispose, FrameOK
<1>3. Still
  <2>1. IsSeq(instances) /\ \A i \in DOMAIN instances : IsInstance(instances[i])
    BY DEF KeepInv, InstancesOK, InstanceOK
  <2> QED
    BY <2>1 DEF BeginDispose, Still, callSites, locks
<1>4. PICK e : e = [f EXCEPT !.pc = "list", !.acc = disposables[f.scope]]
  OBVIOUS
<1>5. e.fn = "dispose" /\ Goto(g, e)
  BY <1>1, <1>2, <1>4 DEF IsFrame, BeginDispose
<1> QED
  BY <1>2, <1>3, <1>5, GotoDisposing

\* An instance is replaced.
LEMMA InstancesSet ==
  ASSUME IsSeq(instances), NEW i, NEW v, instances' = [instances EXCEPT ![i] = v]
  PROVE  IsSeq(instances') /\ Len(instances') = Len(instances) /\ DOMAIN instances' = DOMAIN instances
BY ExceptFacts

\* One instance is disposed of.
LEMMA DisposedOne ==
  ASSUME IsSeq(instances), \A i \in DOMAIN instances : IsInstance(instances[i]), NEW x,
         instances' = [instances EXCEPT ![x].disposed = @ + 1]
  PROVE  /\ IsSeq(instances') /\ DOMAIN instances' = DOMAIN instances
         /\ \A i \in DOMAIN instances :
              /\ IsInstance(instances'[i]) /\ instances'[i].d = instances[i].d /\ instances'[i].site = instances[i].site
              /\ instances'[i].scope = instances[i].scope /\ instances'[i].kept = instances[i].kept
              /\ instances'[i].deps = instances[i].deps
              /\ instances'[i].disposed = IF i = x THEN instances[i].disposed + 1 ELSE instances[i].disposed
<1>1. PICK v : v = [instances[x] EXCEPT !.disposed = @ + 1]
  OBVIOUS
<1>2. instances' = [instances EXCEPT ![x] = v]
  BY <1>1
<1>3. IsSeq(instances') /\ DOMAIN instances' = DOMAIN instances
  BY <1>2, InstancesSet
<1>4. x \in DOMAIN instances => /\ IsInstance(v) /\ v.d = instances[x].d /\ v.site = instances[x].site /\ v.scope = instances[x].scope
            /\ v.kept = instances[x].kept /\ v.deps = instances[x].deps /\ v.disposed = instances[x].disposed + 1
  BY <1>1 DEF IsInstance
<1>5. \A i \in DOMAIN instances : instances'[i] = IF i = x THEN v ELSE instances[i]
  BY <1>2
<1> QED
  BY <1>3, <1>4, <1>5

\* disposeNext keeps one instance of a call site in a scope.
LEMMA disposeNextKeep ==
  ASSUME ShapeInv, KeepInv, NEW g \in Goroutines, disposeNext(g)
  PROVE  KeepInv'
<1>1. PICK f : f = top(g)
  OBVIOUS
<1>2. stack[g] # <<>> /\ IsFrame(f) /\ f.fn = "dispose"
  BY <1>1, AtFacts DEF disposeNext, FrameOK
<1>3. IsSeq(instances) /\ \A i \in DOMAIN instances : IsInstance(instances[i])
  BY DEF KeepInv, InstancesOK, InstanceOK
<1>4. UNCHANGED <<callSites, locks, scopeVars>>
  BY DEF disposeNext
<1>5. CASE Return(g, NoRet) /\ UNCHANGED instances
  <2>1. Still
    BY <1>3, <1>4, <1>5 DEF Still, callSites, locks, scopeVars
  <2> QED
    BY <1>2, <1>5, <2>1, ReturnStill
<1>6. PICK l, x : l = SubSeq(f.acc, 1, Len(f.acc) - 1) /\ x = f.acc[Len(f.acc)]
  OBVIOUS
<1>7. CASE Goto(g, [f EXCEPT !.acc = l]) /\ instances' = [instances EXCEPT ![x].disposed = @ + 1]
  <2>1. PICK e : e = [f EXCEPT !.acc = l]
    OBVIOUS
  <2>2. e.fn = "dispose"
    BY <1>2, <2>1 DEF IsFrame
  <2>3. Still
    BY <1>3, <1>4, <1>7, DisposedOne DEF Still, callSites, locks, scopeVars
  <2> QED
    BY <1>2, <1>7, <2>1, <2>2, <2>3, GotoDisposing
<1> QED
  BY <1>1, <1>5, <1>6, <1>7 DEF disposeNext

-----------------------------------------------------------------------------
(* Steps of a visit                                                        *)

\* d is a frame of h other than the top frame of g.
Kept(g, h, d) == \E n \in DOMAIN stack[h] : (h # g \/ n < Len(stack[g])) /\ stack[h][n] = d

\* What is known of a frame that stays.
LEMMA KeptFacts ==
  ASSUME ShapeInv, KeepInv, NEW g \in Goroutines, stack[g] # <<>>, NEW h \in Goroutines, NEW d, Kept(g, h, d)
  PROVE  /\ FrameOK(d) /\ VisitOK(h, d)
         /\ h = g => VisitPair(d, top(g)) /\ (d.fn = "visit" => d.pc = "part")
<1>1. PICK n \in DOMAIN stack[h] : (h # g \/ n < Len(stack[g])) /\ stack[h][n] = d
  BY DEF Kept
<1>2. FrameOK(d) /\ VisitOK(h, d)
  BY <1>1 DEF ShapeInv, ShapeStacks, FramesOK, KeepInv, KeepStacks
<1>3. ASSUME h = g PROVE VisitPair(d, top(g)) /\ (d.fn = "visit" => d.pc = "part")
  <2>1. PICK m : m = Len(stack[g])
    OBVIOUS
  <2>2. m \in Nat /\ DOMAIN stack[g] = 1..m /\ m \in 1..m /\ top(g) = stack[g][m]
    BY <2>1, TopFacts DEF ShapeInv
  <2>3. n + 1 \in 1..m /\ n + 1 # 1 /\ (n + 1) - 1 = n /\ n < m /\ n \in 1..m
    BY <1>1, <1>3, <2>1, <2>2
  <2>4. VisitPair(stack[g][n], stack[g][m])
    BY <2>2, <2>3 DEF KeepInv, KeepStacks
  <2>5. CalledBy(stack[g][n], stack[g][n + 1])
    BY <2>2, <2>3 DEF ShapeInv, ShapeStacks, CallsOK
  <2> QED
    BY <1>1, <1>3, <2>2, <2>4, <2>5 DEF CalledBy
<1> QED
  BY <1>2, <1>3

\* Which frames a step of g keeps.
LEMMA KeptMoves ==
  ASSUME ShapeInv, NEW g \in Goroutines, NEW k, NEW m, Moves(g, k, m), k = Len(stack[g]) - 1, stack[g] # <<>>,
         \A h \in Goroutines : \A d : Kept(g, h, d) => VisitOK(h, d)'
  PROVE  /\ \A h \in Goroutines : \A n \in DOMAIN stack[h] : h # g \/ n <= k => VisitOK(h, stack[h][n])'
         /\ \A i \in 1..k : Kept(g, g, stack[g][i]) /\ stack'[g][i] = stack[g][i]
         /\ k <= Len(stack[g])
<1>1. Len(stack[g]) \in Nat \ {0} /\ DOMAIN stack[g] = 1..Len(stack[g])
  BY TopFacts DEF ShapeInv
<1>2. k \in Nat /\ k <= Len(stack[g]) /\ (\A n \in 1..Len(stack[g]) : n <= k <=> n < Len(stack[g])) /\ \A i \in 1..k : i \in 1..Len(stack[g]) /\ i <= k
  BY <1>1
<1>3. ASSUME NEW h \in Goroutines, NEW n \in DOMAIN stack[h], h # g \/ n <= k PROVE VisitOK(h, stack[h][n])'
  <2>1. PICK d : d = stack[h][n]
    OBVIOUS
  <2>2. Kept(g, h, d)
    BY <1>1, <1>2, <1>3, <2>1 DEF Kept
  <2>3. CASE h # g
    BY <2>1, <2>2, <2>3 DEF Moves
  <2>4. CASE h = g
    <3>1. n \in 1..k
      BY <1>1, <1>2, <1>3, <2>4
    <3>2. stack'[h][n] = d
      BY <2>1, <2>4, <3>1 DEF Moves
    <3> QED
      BY <2>2, <3>2
  <2> QED
    BY <2>3, <2>4
<1>4. ASSUME NEW i \in 1..k PROVE Kept(g, g, stack[g][i]) /\ stack'[g][i] = stack[g][i]
  BY <1>1, <1>2 DEF Kept, Moves
<1> QED
  BY <1>2, <1>3, <1>4

\* What a visit that goes on has to show.
LEMMA GotoKeep ==
  ASSUME ShapeInv, KeepInv, NEW g \in Goroutines, stack[g] # <<>>, SameLocs, InstancesOK', OneKept',
         \A h \in Goroutines : \A d : Kept(g, h, d) => VisitOK(h, d)',
         NEW f, Goto(g, f), f.fn = "visit", VisitOK(g, f)', \A lo : Kept(g, g, lo) => VisitPair(lo, f)'
  PROVE  KeepInv'
<1>1. PICK n : n = Len(stack[g])
  OBVIOUS
<1>2. Moves(g, n - 1, 1) /\ stack'[g][n] = f /\ n \in Nat \ {0}
  BY <1>1, GotoMoves, TopFacts DEF ShapeInv, ShapeStacks
<1>3. PICK k : k = n - 1
  OBVIOUS
<1>4. k + 1 = n /\ 1 # 2 /\ 1 >= 1
  BY <1>2, <1>3
<1>5. /\ \A h \in Goroutines : \A j \in DOMAIN stack[h] : h # g \/ j <= k => VisitOK(h, stack[h][j])'
      /\ \A i \in 1..k : Kept(g, g, stack[g][i]) /\ stack'[g][i] = stack[g][i]
      /\ k <= Len(stack[g])
  BY <1>1, <1>2, <1>3, KeptMoves
<1>6. VisitOK(g, stack[g][k + 1])'
  BY <1>2, <1>4
<1>7. ASSUME NEW i \in 1..k PROVE VisitPair(stack[g][i], stack[g][k + 1])'
  <2>1. PICK lo : lo = stack[g][i]
    OBVIOUS
  <2>2. VisitPair(lo, f)' /\ stack'[g][i] = lo
    BY <1>5, <2>1
  <2> QED
    BY <1>2, <1>4, <2>2
<1>9. KeepStacks'
  BY <1>2, <1>3, <1>4, <1>5, <1>6, <1>7, KeepMoves DEF KeepInv
<1> QED
  BY <1>9 DEF KeepInv

\* What a visit that calls has to show.
LEMMA CallKeep ==
  ASSUME ShapeInv, KeepInv, NEW g \in Goroutines, stack[g] # <<>>, SameLocs, InstancesOK', OneKept',
         \A h \in Goroutines : \A d : Kept(g, h, d) => VisitOK(h, d)',
         NEW f, NEW f2, Call(g, f, f2), f.fn = "visit", VisitOK(g, f)', \A lo : Kept(g, g, lo) => VisitPair(lo, f)',
         VisitOK(g, f2)', \A lo : Kept(g, g, lo) => VisitPair(lo, f2)', VisitPair(f, f2)'
  PROVE  KeepInv'
<1>1. PICK n : n = Len(stack[g])
  OBVIOUS
<1>2. Moves(g, n - 1, 2) /\ stack'[g][n] = f /\ stack'[g][n + 1] = f2 /\ n \in Nat \ {0}
  BY <1>1, CallMoves, TopFacts DEF ShapeInv, ShapeStacks
<1>3. PICK k : k = n - 1
  OBVIOUS
<1>4. k + 1 = n /\ k + 2 = n + 1
  BY <1>2, <1>3
<1>5. /\ \A h \in Goroutines : \A j \in DOMAIN stack[h] : h # g \/ j <= k => VisitOK(h, stack[h][j])'
      /\ \A i \in 1..k : Kept(g, g, stack[g][i]) /\ stack'[g][i] = stack[g][i]
      /\ k <= Len(stack[g])
  BY <1>1, <1>2, <1>3, KeptMoves
<1>6. VisitOK(g, stack[g][k + 1])' /\ VisitOK(g, stack[g][k + 2])' /\ VisitPair(stack[g][k + 1], stack[g][k + 2])'
  BY <1>2, <1>4
<1>7. ASSUME NEW i \in 1..k PROVE VisitPair(stack[g][i], stack[g][k + 1])' /\ VisitPair(stack[g][i], stack[g][k + 2])'
  <2>1. PICK lo : lo = stack[g][i]
    OBVIOUS
  <2>2. VisitPair(lo, f)' /\ VisitPair(lo, f2)' /\ stack'[g][i] = lo
    BY <1>5, <2>1
  <2> QED
    BY <1>2, <1>4, <2>2
<1>9. KeepStacks'
  BY <1>2, <1>3, <1>5, <1>6, <1>7, KeepMoves DEF KeepInv
<1> QED
  BY <1>9 DEF KeepInv

\* What a visit that returns has to show.
LEMMA ReturnKeep ==
  ASSUME ShapeInv, KeepInv, NEW g \in Goroutines, stack[g] # <<>>, SameLocs, InstancesOK', OneKept',
         \A h \in Goroutines : \A d : Kept(g, h, d) => VisitOK(h, d)', NEW r, Return(g, r)
  PROVE  KeepInv'
<1>1. PICK n : n = Len(stack[g])
  OBVIOUS
<1>2. Moves(g, n - 1, 0) /\ n \in Nat \ {0}
  BY <1>1, ReturnMoves, TopFacts DEF ShapeInv, ShapeStacks
<1>3. PICK k : k = n - 1
  OBVIOUS
<1>4. ~(0 >= 1) /\ 0 # 2
  OBVIOUS
<1>5. /\ \A h \in Goroutines : \A j \in DOMAIN stack[h] : h # g \/ j <= k => VisitOK(h, stack[h][j])'
      /\ k <= Len(stack[g])
  BY <1>1, <1>2, <1>3, KeptMoves
<1>9. KeepStacks'
  BY <1>2, <1>3, <1>4, <1>5, KeepMoves DEF KeepInv
<1> QED
  BY <1>9 DEF KeepInv

\* Where locks, values and instances stay.
LEMMA StillKept ==
  ASSUME ShapeInv, KeepInv, NEW g \in Goroutines, stack[g] # <<>>, Still
  PROVE  SameLocs /\ InstancesOK' /\ OneKept' /\ \A h \in Goroutines : \A d : Kept(g, h, d) => VisitOK(h, d)'
<1>1. SameLocs
  BY DEF SameLocs, Still
<1>2. InstancesOK' /\ OneKept'
  BY StillInstances DEF KeepInv
<1>3. ASSUME NEW h \in Goroutines, NEW d, Kept(g, h, d) PROVE VisitOK(h, d)'
  BY <1>3, KeptFacts, StillVisit
<1> QED
  BY <1>1, <1>2, <1>3

\* A step that leaves locks, values and instances alone.
LEMMA StillNow ==
  ASSUME KeepInv, UNCHANGED <<sites, siteLock, scopeLock, resolved, instances>>
  PROVE  Still
<1>1. IsSeq(instances) /\ \A i \in DOMAIN instances : IsInstance(instances[i])
  BY DEF KeepInv, InstancesOK, InstanceOK
<1> QED
  BY <1>1 DEF Still

\* The top frame goes on: the same site, scope and lock, and builds only if it
\* did before, or if it needs no lock of its own.
LEMMA PairOn ==
  ASSUME NEW lo, NEW old, NEW f, SameLocs, FrameOK(lo), FrameOK(old), VisitPair(lo, old), f.fn = "visit", old.fn = "visit",
         f.site = old.site, f.scope = old.scope, f.held = old.held, Building(f) => Building(old) \/ (~atRoot(old) /\ (inScope(old) => old.held))
  PROVE  VisitPair(lo, f)'
BY DEF VisitPair, SameLocs, FrameOK, atRoot, inScope, Building

\* What the top frame of a visit holds and knows.
LEMMA TopVisit ==
  ASSUME ShapeInv, KeepInv, NEW g \in Goroutines, stack[g] # <<>>, NEW f, f = top(g), f.fn = "visit"
  PROVE  /\ FrameOK(f) /\ IsFrame(f) /\ VisitLocks(g, f) /\ VisitInstance(f) /\ f.site \in DOMAIN sites
         /\ \A lo : Kept(g, g, lo) => VisitPair(lo, f) /\ FrameOK(lo)
<1>1. Len(stack[g]) \in DOMAIN stack[g] /\ top(g) = stack[g][Len(stack[g])] /\ FrameOK(top(g))
  BY TopFacts DEF ShapeInv
<1>2. VisitOK(g, f)
  BY <1>1 DEF KeepInv, KeepStacks
<1> QED
  BY <1>1, <1>2, KeptFacts DEF VisitOK, FrameOK

\* Nothing changes but the frame itself.
LEMMA StillGoto ==
  ASSUME ShapeInv, KeepInv, NEW g \in Goroutines, stack[g] # <<>>, NEW f, f = top(g), f.fn = "visit", Still,
         NEW e, Goto(g, e), FrameOK(e), e.fn = "visit", e.site = f.site, e.scope = f.scope, e.held = f.held,
         VisitLocks(g, e), VisitInstance(e), Building(e) => Building(f) \/ (~atRoot(f) /\ ~inScope(f))
  PROVE  KeepInv'
<1>1. SameLocs /\ InstancesOK' /\ OneKept' /\ \A h \in Goroutines : \A d : Kept(g, h, d) => VisitOK(h, d)'
  BY StillKept
<1>2. VisitOK(g, e)'
  BY StillVisit DEF VisitOK
<1>3. ASSUME NEW lo, Kept(g, g, lo) PROVE VisitPair(lo, e)'
  <2>1. VisitPair(lo, f) /\ FrameOK(lo) /\ FrameOK(f)
    BY <1>3, TopVisit
  <2> QED
    BY <1>1, <2>1, PairOn
<1> QED
  BY <1>1, <1>2, <1>3, GotoKeep

\* visitCallSite keeps one instance of a call site in a scope.
LEMMA visitCallSiteKeep ==
  ASSUME ShapeInv, KeepInv, NEW g \in Goroutines, visitCallSite(g)
  PROVE  KeepInv'
<1>1. PICK f : f = top(g)
  OBVIOUS
<1>2. stack[g] # <<>> /\ FrameOK(f) /\ IsFrame(f) /\ f.fn = "visit" /\ f.pc = "enter"
  BY <1>1, AtFacts DEF visitCallSite
<1>3. Still
  BY StillNow DEF visitCallSite, callSites, locks, scopeVars
<1>4. ASSUME NEW r, Return(g, r) PROVE KeepInv'
  BY <1>2, <1>3, <1>4, ReturnStill
<1>5. VisitLocks(g, f) /\ VisitInstance(f)
  BY <1>1, <1>2, TopVisit
<1>6. ASSUME NEW e, Goto(g, e), IsFrame(e), e.fn = "visit", e.site = f.site, e.scope = f.scope, e.held = f.held, e.acc = f.acc,
             e.nilMap \in BOOLEAN,
             \/ e.pc = "lockSite" /\ atRoot(f)
             \/ e.pc = "lookup" /\ inScope(f) /\ f.held
             \/ e.pc = "lockScope" /\ inScope(f) /\ ~f.held
             \/ e.pc = "build" /\ ~atRoot(f) /\ ~inScope(f)
      PROVE  KeepInv'
  <2>1. FrameOK(e)
    BY <1>2, <1>6, VisitIsOK DEF FrameOK
  <2>2. VisitLocks(g, e) /\ VisitInstance(e) /\ (Building(e) => ~atRoot(f) /\ ~inScope(f))
    BY <1>2, <1>5, <1>6 DEF VisitLocks, VisitInstance, Building, atRoot, inScope
  <2> QED
    BY <1>1, <1>2, <1>3, <1>6, <2>1, <2>2, StillGoto
<1>7. CASE atRoot(f) /\ Goto(g, [f EXCEPT !.pc = "lockSite"])
  <2>1. PICK e : e = [f EXCEPT !.pc = "lockSite"]
    OBVIOUS
  <2>2. /\ IsFrame(e) /\ e.fn = "visit" /\ e.site = f.site /\ e.scope = f.scope /\ e.held = f.held /\ e.acc = f.acc
        /\ e.nilMap \in BOOLEAN /\ e.pc = "lockSite"
    BY <1>2, <2>1 DEF IsFrame, FrameOK
  <2> QED
    BY <1>6, <1>7, <2>1, <2>2
<1>8. CASE ~atRoot(f) /\ ~inScope(f) /\ Goto(g, [f EXCEPT !.pc = "build"])
  <2>1. PICK e : e = [f EXCEPT !.pc = "build"]
    OBVIOUS
  <2>2. /\ IsFrame(e) /\ e.fn = "visit" /\ e.site = f.site /\ e.scope = f.scope /\ e.held = f.held /\ e.acc = f.acc
        /\ e.nilMap \in BOOLEAN /\ e.pc = "build"
    BY <1>2, <2>1 DEF IsFrame, FrameOK
  <2> QED
    BY <1>6, <1>8, <2>1, <2>2
<1>9. CASE inScope(f) /\ Goto(g, [f EXCEPT !.nilMap = f.scope \in cleared, !.pc = IF f.held THEN "lookup" ELSE "lockScope"])
  <2>0. PICK b : b = (f.scope \in cleared)
    OBVIOUS
  <2>1. PICK pc : pc = IF f.held THEN "lookup" ELSE "lockScope"
    OBVIOUS
  <2>2. PICK e : e = [f EXCEPT !.nilMap = b, !.pc = pc]
    OBVIOUS
  <2>3. /\ IsFrame(e) /\ e.fn = "visit" /\ e.site = f.site /\ e.scope = f.scope /\ e.held = f.held /\ e.acc = f.acc
        /\ e.nilMap = b /\ e.pc = pc
    BY <1>2, <2>2 DEF IsFrame
  <2>4. b \in BOOLEAN /\ Goto(g, e)
    BY <1>9, <2>0, <2>1, <2>2
  <2> QED
    BY <1>6, <1>9, <2>1, <2>3, <2>4
<1> QED
  BY <1>1, <1>4, <1>7, <1>8, <1>9 DEF visitCallSite

\* visitRootCache keeps one instance of a call site in a scope.
LEMMA visitRootCacheKeep ==
  ASSUME ShapeInv, KeepInv, NEW g \in Goroutines, visitRootCache(g)
  PROVE  KeepInv'
<1>1. PICK f : f = top(g)
  OBVIOUS
<1>2. stack[g] # <<>> /\ FrameOK(f) /\ IsFrame(f) /\ f.fn = "visit" /\ f.pc = "lockSite"
  BY <1>1, AtFacts DEF visitRootCache
<1>3. UNCHANGED <<sites, scopeLock, resolved, instances>> /\ siteLock[f.site] = None
  BY <1>1 DEF visitRootCache, callSites, scopeVars
<1>4. CASE Return(g, Ok(sites[f.site].value)) /\ UNCHANGED siteLock
  BY <1>2, <1>3, <1>4, StillNow, ReturnStill
<1>5. PICK e : e = [f EXCEPT !.pc = "build", !.scope = Root]
  OBVIOUS
<1>6. CASE sites[f.site].value = NoValue /\ Goto(g, e) /\ siteLock' = [siteLock EXCEPT ![f.site] = g]
  <2>1. /\ IsFrame(e) /\ e.pc = "build" /\ e.fn = "visit" /\ e.site = f.site
        /\ e.scope = Root /\ e.held = f.held /\ e.nilMap = f.nilMap /\ e.acc = f.acc
    BY <1>2, <1>5 DEF IsFrame
  <2>2. VisitLocks(g, f) /\ f.site \in DOMAIN sites /\ f.site \in DOMAIN siteLock
    BY <1>1, <1>2, TopVisit, SeqFacts DEF ShapeInv, SitesOK
  <2>3. siteLock'[f.site] = g /\ \A c : c # f.site => siteLock'[c] = siteLock[c]
    BY <1>6, <2>2
  <2>4. atRoot(f)
    BY <1>2, <2>2 DEF VisitLocks
  <2>5. None \notin Goroutines
    BY DIAssumption
  <2>6. ASSUME NEW h \in Goroutines, NEW d, Kept(g, h, d) PROVE VisitOK(h, d)'
    <3>1. VisitOK(h, d) /\ FrameOK(d)
      BY <1>2, <2>6, KeptFacts
    <3>2. Building(d) /\ atRoot(d) => d.site # f.site /\ siteLock'[d.site] = siteLock[d.site]
      BY <1>3, <2>3, <2>5, <3>1 DEF VisitOK, VisitLocks, Building
    <3>3. d.fn = "visit" => VisitLocks(h, d)'
      BY <1>3, <3>1, <3>2 DEF VisitOK, VisitLocks, atRoot, inScope, Building
    <3>4. d.fn = "visit" => VisitInstance(d)'
      BY <1>3, <3>1 DEF VisitOK, VisitInstance, inScope, Building, NoneKept, Made
    <3> QED
      BY <3>3, <3>4 DEF VisitOK
  <2>7. SameLocs
    BY <1>3 DEF SameLocs
  <2>8. InstancesOK' /\ OneKept'
    BY <1>3 DEF KeepInv, InstancesOK, InstanceOK, OneKept, Made
  <2>9. VisitOK(g, e)'
    BY <1>3, <1>6, <2>1, <2>3, <2>4 DEF VisitOK, VisitLocks, VisitInstance, Building, atRoot, inScope
  <2>10. ASSUME NEW lo, Kept(g, g, lo) PROVE VisitPair(lo, e)'
    <3>1. VisitOK(g, lo) /\ FrameOK(lo) /\ (lo.fn = "visit" => lo.pc = "part")
      BY <1>2, <2>10, KeptFacts
    <3>2. lo.fn = "visit" /\ atRoot(lo) => lo.site # f.site
      BY <1>3, <2>5, <3>1 DEF VisitOK, VisitLocks, Building
    <3> QED
      BY <1>3, <2>1, <3>1, <3>2 DEF VisitPair, atRoot
  <2> QED
    BY <1>2, <1>6, <2>1, <2>6, <2>7, <2>8, <2>9, <2>10, GotoKeep
<1> QED
  BY <1>1, <1>4, <1>5, <1>6 DEF visitRootCache

\* visitScopeCache keeps one instance of a call site in a scope.
LEMMA visitScopeCacheKeep ==
  ASSUME ShapeInv, KeepInv, NEW g \in Goroutines, visitScopeCache(g)
  PROVE  KeepInv'
<1>1. PICK f : f = top(g)
  OBVIOUS
<1>2. stack[g] # <<>> /\ FrameOK(f) /\ IsFrame(f) /\ f.fn = "visit" /\ f.pc \in {"lockScope", "lookup"}
  BY <1>1, AtFacts DEF visitScopeCache
<1>3. UNCHANGED <<sites, siteLock, resolved, instances>> /\ (f.pc = "lockScope" => scopeLock[f.scope] = None)
  BY <1>1 DEF visitScopeCache, callSites, scopeVars
<1>4. CASE Return(g, Ok(resolved[f.scope][cacheKey(f)])) /\ UNCHANGED scopeLock
  BY <1>2, <1>3, <1>4, StillNow, ReturnStill
<1>5. PICK e : e = [f EXCEPT !.pc = "build"]
  OBVIOUS
<1>6. CASE /\ f.nilMap \/ cacheKey(f) \notin DOMAIN resolved[f.scope]
           /\ Goto(g, e)
           /\ scopeLock' = IF f.pc = "lockScope" THEN [scopeLock EXCEPT ![f.scope] = g] ELSE scopeLock
  <2>0. Goes(e, f, "build")
    BY <1>2, <1>5 DEF IsFrame, Goes
  <2>1. /\ e.pc = "build" /\ e.fn = "visit" /\ e.site = f.site
        /\ e.scope = f.scope /\ e.held = f.held /\ e.nilMap = f.nilMap /\ e.acc = f.acc
    BY <1>2, <2>0 DEF Goes
  <2>2. VisitLocks(g, f) /\ f.site \in DOMAIN sites /\ f.scope \in DOMAIN scopeLock
    BY <1>1, <1>2, TopVisit DEF FrameOK, ShapeInv, ScopesOK
  <2>3. inScope(f)
    BY <1>2, <2>2 DEF VisitLocks
  <2>4. None \notin Goroutines
    BY DIAssumption
  <2>5. scopeLock'[f.scope] = g
    BY <1>2, <1>6, <2>2, <2>3 DEF VisitLocks, inScope
  <2>6. \A s : scopeLock[s] # None => scopeLock'[s] = scopeLock[s]
    BY <1>3, <1>6
  <2>7. ASSUME NEW h \in Goroutines, NEW d, Kept(g, h, d) PROVE VisitOK(h, d)'
    <3>1. VisitOK(h, d) /\ FrameOK(d)
      BY <1>2, <2>7, KeptFacts
    <3>2. d.fn = "visit" => VisitLocks(h, d)'
      BY <1>3, <2>4, <2>6, <3>1 DEF VisitOK, VisitLocks, atRoot, inScope, Building
    <3>3. d.fn = "visit" => VisitInstance(d)'
      BY <1>3, <3>1 DEF VisitOK, VisitInstance, inScope, Building, NoneKept, Made
    <3> QED
      BY <3>2, <3>3 DEF VisitOK
  <2>8. SameLocs
    BY <1>3 DEF SameLocs
  <2>9. InstancesOK' /\ OneKept'
    BY <1>3 DEF KeepInv, InstancesOK, InstanceOK, OneKept, Made
  <2>10. ~f.nilMap => NoneKept(f.site, f.scope)
    <3>1. SUFFICES ASSUME ~f.nilMap, NEW i \in DOMAIN instances, instances[i].kept, instances[i].site = f.site,
                          instances[i].scope = f.scope
                   PROVE  FALSE
      BY DEF NoneKept
    <3>2. InstanceOK(i)
      BY DEF KeepInv, InstancesOK
    <3>3. cacheKey(f) \in DOMAIN resolved[f.scope]
      BY <2>3, <3>1, <3>2 DEF InstanceOK, cacheKey, inScope
    <3> QED
      BY <1>6, <3>1, <3>3
  <2>11. VisitLocks(g, e)'
    BY <1>3, <2>1, <2>3, <2>5 DEF VisitLocks, Building, atRoot, inScope
  <2>12. VisitInstance(e)'
    BY <1>3, <2>1, <2>10 DEF VisitInstance, Building, inScope, NoneKept
  <2>13. ASSUME NEW lo, Kept(g, g, lo) PROVE VisitPair(lo, e)'
    <3>1. VisitPair(lo, f) /\ FrameOK(lo)
      BY <1>1, <1>2, <2>13, TopVisit
    <3>2. ~atRoot(f) /\ f.scope # Root
      BY <2>3 DEF atRoot, inScope
    <3>3. CASE f.pc = "lookup"
      BY <1>2, <2>1, <2>2, <2>8, <3>1, <3>2, <3>3, PairOn DEF VisitLocks
    <3>4. CASE f.pc = "lockScope"
      <4>1. lo.fn = "visit" => VisitLocks(g, lo) /\ Building(lo) /\ lo.site \in DOMAIN sites
        BY <1>2, <2>13, KeptFacts DEF VisitOK, Building, FrameOK
      <4>2. lo.fn = "visit" /\ lo.scope = f.scope => ~lo.held /\ ~inScope(lo)
        BY <1>3, <2>4, <3>2, <3>4, <4>1 DEF VisitLocks
      <4>3. ~atRoot(e)' /\ (lo.fn = "visit" => (inScope(lo)' <=> inScope(lo)))
        BY <1>3, <2>1, <3>2, <4>1 DEF atRoot, inScope
      <4> QED
        BY <2>1, <4>2, <4>3 DEF VisitPair
    <3> QED
      BY <1>2, <3>3, <3>4
  <2> QED
    BY <1>2, <1>6, <2>1, <2>7, <2>8, <2>9, <2>11, <2>12, <2>13, GotoKeep DEF VisitOK
<1> QED
  BY <1>1, <1>4, <1>5, <1>6 DEF visitScopeCache

\* What the defers of g's top frame give back, nobody else has.
LEMMA UnlockLocks ==
  ASSUME ShapeInv, KeepInv, NEW g \in Goroutines, stack[g] # <<>>, NEW f, f = top(g), Building(f), Unlock(f), SameLocs,
         \A c \in DOMAIN sites : (c = f.site /\ atRoot(f)) \/ sites'[c].value = sites[c].value,
         NEW h \in Goroutines, NEW d, Kept(g, h, d), d.fn = "visit"
  PROVE  VisitLocks(h, d)'
<1>1. f.fn = "visit" /\ VisitLocks(g, f) /\ f.site \in DOMAIN sites
  BY TopVisit DEF Building
<1>2. FrameOK(d) /\ VisitLocks(h, d) /\ (h = g => VisitPair(d, f)) /\ d.site \in DOMAIN sites
  BY KeptFacts DEF VisitOK, FrameOK
<1>3. (atRoot(d)' <=> atRoot(d)) /\ (inScope(d)' <=> inScope(d))
  BY <1>2 DEF atRoot, inScope, SameLocs
<1>4. Building(d) /\ atRoot(d) => siteLock'[d.site] = h /\ sites'[d.site].value = NoValue
  <2>1. SUFFICES ASSUME Building(d), atRoot(d) PROVE siteLock'[d.site] = h /\ sites'[d.site].value = NoValue
    OBVIOUS
  <2>2. siteLock[d.site] = h /\ sites[d.site].value = NoValue
    BY <1>2, <2>1 DEF VisitLocks
  <2>3. ~atRoot(f) \/ d.site # f.site
    <3>1. CASE h = g
      BY <1>1, <1>2, <2>1, <3>1 DEF VisitPair
    <3>2. CASE h # g
      BY <1>1, <2>2, <3>2 DEF VisitLocks
    <3> QED
      BY <3>1, <3>2
  <2> QED
    BY <1>2, <2>2, <2>3 DEF Unlock
<1>5. (d.held \/ inScope(d)) /\ d.scope # Root /\ scopeLock[d.scope] = h => scopeLock'[d.scope] = h
  <2>1. SUFFICES ASSUME d.held \/ inScope(d), d.scope # Root, scopeLock[d.scope] = h PROVE scopeLock'[d.scope] = h
    OBVIOUS
  <2>2. ~(inScope(f) /\ ~f.held) \/ d.scope # f.scope
    <3>1. CASE h = g
      BY <1>1, <1>2, <2>1, <3>1 DEF VisitPair
    <3>2. CASE h # g
      BY <1>1, <2>1, <3>2 DEF VisitLocks
    <3> QED
      BY <3>1, <3>2
  <2> QED
    BY <2>1, <2>2 DEF Unlock
<1>6. inScope(d) => d.scope # Root
  BY DEF inScope
<1> QED
  BY <1>2, <1>3, <1>4, <1>5, <1>6 DEF VisitLocks

\* A visit fails, and gives back its locks.
LEMMA FailKeep ==
  ASSUME ShapeInv, KeepInv, NEW g \in Goroutines, stack[g] # <<>>, NEW f, f = top(g), Building(f), Unlock(f),
         UNCHANGED <<sites, resolved, instances>>, NEW r, Return(g, r)
  PROVE  KeepInv'
<1>1. SameLocs
  BY DEF SameLocs
<1>2. InstancesOK' /\ OneKept'
  BY DEF KeepInv, InstancesOK, InstanceOK, OneKept, Made
<1>3. ASSUME NEW h \in Goroutines, NEW d, Kept(g, h, d) PROVE VisitOK(h, d)'
  <2>1. VisitOK(h, d)
    BY <1>3, KeptFacts
  <2>2. d.fn = "visit" => VisitLocks(h, d)'
    BY <1>1, <1>3, UnlockLocks
  <2>3. d.fn = "visit" => VisitInstance(d)'
    BY <2>1 DEF VisitOK, VisitInstance, inScope, Building, NoneKept, Made
  <2> QED
    BY <2>2, <2>3 DEF VisitOK
<1> QED
  BY <1>1, <1>2, <1>3, ReturnKeep

\* next keeps one instance of a call site in a scope.
LEMMA nextKeep ==
  ASSUME ShapeInv, KeepInv, NEW g \in Goroutines, stack[g] # <<>>, NEW f, f = top(g), f.fn = "visit", f.pc = "build",
         Len(f.acc) < Len(parts(sites[f.site])), next(g, f), Still
  PROVE  KeepInv'
<1>1. PICK c, n : c = sites[f.site] /\ n = Len(f.acc) + 1
  OBVIOUS
<1>2. /\ FrameOK(f) /\ IsFrame(f) /\ VisitLocks(g, f) /\ VisitInstance(f) /\ f.site \in DOMAIN sites /\ SiteOK(f.site)
      /\ \A lo : Kept(g, g, lo) => VisitPair(lo, f) /\ FrameOK(lo)
  BY TopVisit DEF ShapeInv, SitesOK
<1>3. SameLocs /\ InstancesOK' /\ OneKept' /\ \A h \in Goroutines : \A d : Kept(g, h, d) => VisitOK(h, d)'
  BY StillKept
<1>4. PICK e : e = [f EXCEPT !.pc = "part"]
  OBVIOUS
<1>5. Goes(e, f, "part")
  BY <1>2, <1>4 DEF IsFrame, Goes
<1>6. /\ FrameOK(e) /\ e.fn = "visit" /\ e.pc = "part" /\ e.site = f.site /\ e.scope = f.scope /\ e.held = f.held
      /\ e.nilMap = f.nilMap
  BY <1>2, <1>5, GoesOK DEF Goes
<1>7. VisitLocks(g, e) /\ VisitInstance(e) /\ Building(f)
  BY <1>2, <1>6 DEF VisitLocks, VisitInstance, Building, atRoot, inScope
<1>8. VisitOK(g, e)'
  BY <1>6, <1>7, StillVisit DEF VisitOK
<1>9. \A lo : Kept(g, g, lo) => VisitPair(lo, e)'
  BY <1>2, <1>3, <1>6, <1>7, PairOn
<1>10. CASE c.kind = "factory"
  <2>1. PICK e2 : e2 = getFrame(parts(c)[n], NoKey, f.scope)
    OBVIOUS
  <2>2. e2.fn = "get" /\ e2.scope = f.scope
    BY <2>1, GetFrame
  <2>4. VisitOK(g, e2)' /\ VisitPair(e, e2)' /\ \A lo : VisitPair(lo, e2)'
    BY <2>2 DEF VisitOK, VisitPair
  <2>5. Call(g, e, e2)
    BY <1>1, <1>4, <1>10, <2>1 DEF next
  <2> QED
    BY <1>3, <1>6, <1>8, <1>9, <2>4, <2>5, CallKeep
<1>11. CASE c.kind # "factory"
  <2>1. PICK v : v = visitFrame(parts(c)[n], f.scope)
    OBVIOUS
  <2>2. PICK b : b = (f.held \/ inScope(f))
    OBVIOUS
  <2>3. PICK e2 : e2 = [v EXCEPT !.held = b]
    OBVIOUS
  <2>4. IsFrame(v) /\ v.fn = "visit" /\ v.pc = "enter" /\ v.site = parts(c)[n] /\ v.scope = f.scope
    BY <2>1, VisitFrame
  <2>5. e2.fn = "visit" /\ e2.pc = "enter" /\ e2.site = parts(c)[n] /\ e2.scope = f.scope /\ e2.held = b
    BY <2>3, <2>4 DEF IsFrame
  <2>6. Call(g, e, e2)
    BY <1>1, <1>4, <1>11, <2>1, <2>2, <2>3 DEF next
  <2>7. parts(c)[n] \in 1..f.site - 1 /\ f.site \in Nat
    <3>1. parts(c) = c.params /\ IsSeq(c.params) /\ \A x \in DOMAIN c.params : c.params[x] \in 1..f.site - 1
      BY <1>1, <1>2, <1>11 DEF parts, SiteOK
    <3>2. Len(f.acc) \in Nat /\ Len(parts(c)) \in Nat /\ DOMAIN parts(c) = 1..Len(parts(c))
      BY <1>2, <3>1, SeqFacts DEF FrameOK
    <3>3. n \in DOMAIN parts(c)
      BY <1>1, <3>2
    <3>4. f.site \in Nat
      BY <1>2, SeqFacts DEF ShapeInv, SitesOK
    <3> QED
      BY <3>1, <3>3, <3>4
  <2>8. e2.site < f.site /\ e2.site \in Nat
    BY <2>5, <2>7
  <2>9. b /\ f.scope # Root => scopeLock[f.scope] = g
    BY <1>2, <1>7, <2>2 DEF VisitLocks
  <2>10. VisitOK(g, e2)'
    BY <2>5, <2>9 DEF VisitOK, VisitLocks, VisitInstance, Building, Still
  <2>11. inScope(f)' <=> inScope(f)
    BY <1>2, <1>3 DEF inScope, SameLocs
  <2>12. VisitPair(e, e2)'
    BY <1>6, <2>2, <2>5, <2>8, <2>11 DEF VisitPair, Building, inScope
  <2>13. ASSUME NEW lo, Kept(g, g, lo) PROVE VisitPair(lo, e2)'
    <3>1. VisitPair(lo, f) /\ FrameOK(lo)
      BY <1>2, <2>13
    <3>2. lo.fn = "visit" => lo.site \in Nat /\ (inScope(lo)' <=> inScope(lo))
      BY <1>3, <3>1, SeqFacts DEF ShapeInv, SitesOK, FrameOK, inScope, SameLocs
    <3>3. ASSUME lo.fn = "visit", lo.scope # Root, e2.scope = lo.scope, lo.held \/ inScope(lo)', e2.held
          PROVE  e2.site < lo.site
      <4>1. (f.held => f.site < lo.site) /\ (inScope(f) => f.held)
        BY <1>7, <2>5, <3>1, <3>2, <3>3 DEF VisitPair, Building
      <4>2. f.site < lo.site
        BY <2>2, <2>5, <3>3, <4>1
      <4> QED
        BY <2>7, <2>8, <3>2, <3>3, <4>2
    <3> QED
      BY <2>5, <3>3 DEF VisitPair, Building
  <2> QED
    BY <1>3, <1>6, <1>8, <1>9, <2>5, <2>6, <2>10, <2>12, <2>13, CallKeep
<1> QED
  BY <1>10, <1>11

\* visitPart keeps one instance of a call site in a scope.
LEMMA visitPartKeep ==
  ASSUME ShapeInv, KeepInv, NEW g \in Goroutines, visitPart(g)
  PROVE  KeepInv'
<1>1. PICK f : f = top(g)
  OBVIOUS
<1>2. stack[g] # <<>> /\ FrameOK(f) /\ IsFrame(f) /\ f.fn = "visit"
  BY <1>1, AtFacts DEF visitPart
<1>3. UNCHANGED <<sites, resolved, instances>>
  BY DEF visitPart, callSites, scopeVars
<1>5. CASE f.pc = "build" /\ Len(f.acc) < Len(parts(sites[f.site])) /\ next(g, f) /\ UNCHANGED <<siteLock, scopeLock>>
  BY <1>1, <1>2, <1>3, <1>5, StillNow, nextKeep
<1>6. CASE f.pc = "part" /\ Return(g, Err) /\ Unlock(f)
  BY <1>1, <1>2, <1>3, <1>6, FailKeep DEF Building
<1>7. CASE f.pc = "part" /\ Goto(g, [f EXCEPT !.pc = "build", !.acc = Append(@, ret[g].v)]) /\ UNCHANGED <<siteLock, scopeLock>>
  <2>1. PICK e : e = [f EXCEPT !.pc = "build", !.acc = Append(@, ret[g].v)]
    OBVIOUS
  <2>2. /\ IsFrame(e) /\ e.pc = "build" /\ e.fn = "visit" /\ e.site = f.site
        /\ e.scope = f.scope /\ e.held = f.held /\ e.nilMap = f.nilMap /\ e.acc = Append(f.acc, ret[g].v)
    BY <1>2, <2>1 DEF IsFrame
  <2>3. FrameOK(e)
    BY <1>2, <2>2, VisitIsOK, AppendFacts DEF FrameOK
  <2>4. VisitLocks(g, f) /\ VisitInstance(f)
    BY <1>1, <1>2, TopVisit
  <2>5. VisitLocks(g, e) /\ VisitInstance(e) /\ Building(f)
    BY <1>2, <1>7, <2>2, <2>4 DEF VisitLocks, VisitInstance, Building, atRoot, inScope
  <2>6. Still
    BY <1>3, <1>7, StillNow
  <2> QED
    BY <1>1, <1>2, <1>7, <2>1, <2>2, <2>3, <2>5, <2>6, StillGoto
<1> QED
  BY <1>1, <1>5, <1>6, <1>7 DEF visitPart, At

\* One more instance, of f's call site.
Constructed(f, id) ==
    /\ IsSeq(instances') /\ DOMAIN instances' = DOMAIN instances \union {id} /\ id \notin DOMAIN instances /\ id # 0
    /\ \A i \in DOMAIN instances : instances'[i] = instances[i]
    /\ IsInstance(instances'[id]) /\ instances'[id].d = sites[f.site].d /\ instances'[id].site = f.site
    /\ instances'[id].scope = f.scope /\ instances'[id].deps = together(f.acc)
    /\ instances'[id].kept = FALSE /\ instances'[id].disposed = 0

Capturing(e, f) ==
    /\ IsFrame(e) /\ e.fn = "visit" /\ e.pc = "capture" /\ e.site = f.site /\ e.scope = f.scope /\ e.held = f.held
    /\ e.nilMap = f.nilMap

\* The three things construct does.
Constructs(g, f) ==
    \E e, id :
      /\ Made(f.site) /\ Constructed(f, id) /\ Goto(g, e) /\ Capturing(e, f) /\ e.d = id /\ e.acc = <<{id}>>
      /\ UNCHANGED <<siteLock, scopeLock>>
Gives(g, f) ==
    \E e : /\ ~Made(f.site) /\ UNCHANGED <<instances, siteLock, scopeLock>> /\ Goto(g, e) /\ Capturing(e, f)
           /\ e.acc = <<together(f.acc)>>
Fails(g, f) == Return(g, Err) /\ Unlock(f) /\ UNCHANGED instances

\* One more instance.
LEMMA InstanceAdded ==
  ASSUME IsSeq(instances), NEW v, instances' = Append(instances, v), NEW id, id = Len(instances) + 1
  PROVE  /\ IsSeq(instances') /\ DOMAIN instances' = DOMAIN instances \union {id} /\ id \notin DOMAIN instances /\ id # 0
         /\ (\A i \in DOMAIN instances : instances'[i] = instances[i]) /\ instances'[id] = v
<1>1. Len(instances) \in Nat /\ DOMAIN instances = 1..Len(instances)
  BY SeqFacts
<1>2. /\ IsSeq(instances') /\ Len(instances') = Len(instances) + 1
      /\ (\A i \in 1..Len(instances) : instances'[i] = instances[i]) /\ instances'[Len(instances) + 1] = v
  BY AppendFacts
<1>3. DOMAIN instances' = 1..Len(instances) + 1
  BY <1>2, SeqFacts
<1> QED
  BY <1>1, <1>2, <1>3

\* The cases of construct.
LEMMA constructIs ==
  ASSUME ShapeInv, KeepInv, NEW g \in Goroutines, construct(g), NEW f, f = top(g)
  PROVE  /\ stack[g] # <<>> /\ FrameOK(f) /\ f.fn = "visit" /\ f.pc = "build"
         /\ UNCHANGED <<descriptors, sites, resolved, realized, disposables, disposed, cleared>>
         /\ Constructs(g, f) \/ Gives(g, f) \/ Fails(g, f)
<1>1. stack[g] # <<>> /\ FrameOK(f) /\ IsFrame(f) /\ f.fn = "visit" /\ f.pc = "build"
  BY AtFacts DEF construct
<1>2. UNCHANGED <<descriptors, sites, resolved, realized, disposables, disposed, cleared>>
  BY DEF construct, builder, callSites, accessors, scopeVars
<1>3. PICK id : id = Len(instances) + 1
  OBVIOUS
<1>4. PICK v : v = [d |-> sites[f.site].d, site |-> f.site, scope |-> f.scope,
                    deps |-> together(f.acc), kept |-> FALSE, disposed |-> 0]
  OBVIOUS
<1>5. ASSUME Made(f.site), instances' = Append(instances, v), UNCHANGED <<siteLock, scopeLock>>,
             Goto(g, [f EXCEPT !.pc = "capture", !.d = id, !.acc = <<{id}>>])
      PROVE  Constructs(g, f)
  <2>1. PICK e : e = [f EXCEPT !.pc = "capture", !.d = id, !.acc = <<{id}>>]
    OBVIOUS
  <2>2. Capturing(e, f) /\ e.d = id /\ e.acc = <<{id}>>
    BY <1>1, <2>1 DEF IsFrame, Capturing
  <2>3. IsSeq(instances)
    BY DEF KeepInv, InstancesOK
  <2>4. /\ IsSeq(instances') /\ DOMAIN instances' = DOMAIN instances \union {id} /\ id \notin DOMAIN instances /\ id # 0
        /\ (\A i \in DOMAIN instances : instances'[i] = instances[i]) /\ instances'[id] = v
    BY <1>3, <1>5, <2>3, InstanceAdded
  <2>5. /\ IsInstance(v) /\ v.d = sites[f.site].d /\ v.site = f.site /\ v.scope = f.scope /\ v.deps = together(f.acc)
        /\ v.kept = FALSE /\ v.disposed = 0
    BY <1>4 DEF IsInstance
  <2>6. Constructed(f, id)
    BY <2>4, <2>5 DEF Constructed
  <2> QED
    BY <1>5, <2>1, <2>2, <2>6 DEF Constructs
<1>6. ASSUME ~Made(f.site), UNCHANGED <<instances, siteLock, scopeLock>>,
             Goto(g, [f EXCEPT !.pc = "capture", !.acc = <<together(f.acc)>>])
      PROVE  Gives(g, f)
  <2>1. PICK e : e = [f EXCEPT !.pc = "capture", !.acc = <<together(f.acc)>>]
    OBVIOUS
  <2>2. Capturing(e, f) /\ e.acc = <<together(f.acc)>>
    BY <1>1, <2>1 DEF IsFrame, Capturing
  <2> QED
    BY <1>6, <2>1, <2>2 DEF Gives
<1>7. Constructs(g, f) \/ Gives(g, f) \/ Fails(g, f)
  BY <1>3, <1>4, <1>5, <1>6 DEF construct, Made, Fails
<1> QED
  BY <1>1, <1>2, <1>7

\* construct keeps one instance of a call site in a scope.
LEMMA constructKeep ==
  ASSUME ShapeInv, KeepInv, NEW g \in Goroutines, construct(g)
  PROVE  KeepInv'
<1>1. PICK f : f = top(g)
  OBVIOUS
<1>2. /\ stack[g] # <<>> /\ FrameOK(f) /\ f.fn = "visit" /\ f.pc = "build" /\ UNCHANGED <<sites, resolved>>
      /\ Constructs(g, f) \/ Gives(g, f) \/ Fails(g, f)
  BY <1>1, constructIs
<1>3. /\ VisitLocks(g, f) /\ VisitInstance(f) /\ f.site \in DOMAIN sites /\ Building(f)
      /\ \A lo : Kept(g, g, lo) => VisitPair(lo, f) /\ FrameOK(lo)
  BY <1>1, <1>2, TopVisit DEF Building
<1>4. ASSUME NEW e, Capturing(e, f), e.acc = <<together(f.acc)>> \/ e.acc = <<{e.d}>> PROVE FrameOK(e)
  BY <1>2, <1>4, VisitIsOK, OneFacts DEF FrameOK, Capturing
<1>5. CASE Fails(g, f)
  <2>1. PICK r : r = Err
    OBVIOUS
  <2> QED
    BY <1>1, <1>2, <1>3, <1>5, <2>1, FailKeep DEF Fails
<1>6. CASE Gives(g, f)
  <2>1. PICK e : /\ ~Made(f.site) /\ UNCHANGED <<instances, siteLock, scopeLock>> /\ Goto(g, e) /\ Capturing(e, f)
                 /\ e.acc = <<together(f.acc)>>
    BY <1>6 DEF Gives
  <2>2. FrameOK(e) /\ Still
    BY <1>2, <1>4, <2>1, StillNow
  <2>3. VisitLocks(g, e) /\ VisitInstance(e)
    BY <1>2, <1>3, <2>1 DEF VisitLocks, VisitInstance, Capturing, Building, atRoot, inScope
  <2> QED
    BY <1>1, <1>2, <1>3, <2>1, <2>2, <2>3, StillGoto DEF Capturing
<1>7. CASE Constructs(g, f)
  <2>1. PICK e, id : /\ Made(f.site) /\ Constructed(f, id) /\ Goto(g, e) /\ Capturing(e, f) /\ e.d = id /\ e.acc = <<{id}>>
                     /\ UNCHANGED <<siteLock, scopeLock>>
    BY <1>7 DEF Constructs
  <2>2. SameLocs
    BY <1>2 DEF SameLocs
  <2>3. \A c, s : NoneKept(c, s) => NoneKept(c, s)'
    BY <2>1 DEF NoneKept, Constructed
  <2>4. ASSUME NEW h \in Goroutines, NEW d, Kept(g, h, d) PROVE VisitOK(h, d)'
    <3>1. VisitOK(h, d)
      BY <1>2, <2>4, KeptFacts
    <3>2. d.fn = "visit" => VisitLocks(h, d)'
      BY <1>2, <2>1, <3>1 DEF VisitOK, VisitLocks, atRoot, inScope, Building
    <3>3. d.fn = "visit" => VisitInstance(d)'
      BY <1>2, <2>1, <2>3, <3>1 DEF VisitOK, VisitInstance, inScope, Building, Made, Constructed
    <3> QED
      BY <3>2, <3>3 DEF VisitOK
  <2>5. ASSUME NEW i \in DOMAIN instances' PROVE InstanceOK(i)'
    <3>1. CASE i \in DOMAIN instances
      <4>1. InstanceOK(i) /\ instances'[i] = instances[i]
        BY <2>1, <3>1 DEF KeepInv, InstancesOK, Constructed
      <4> QED
        BY <1>2, <4>1 DEF InstanceOK, Made, AllScopes
    <3>2. CASE i = id
      <4>1. sites[f.site].loc = "root" => f.scope = Root
        BY <1>3 DEF VisitLocks, atRoot
      <4> QED
        BY <1>2, <1>3, <2>1, <3>2, <4>1 DEF InstanceOK, Made, Constructed, FrameOK, AllScopes
    <3> QED
      BY <2>1, <3>1, <3>2 DEF Constructed
  <2>6. InstancesOK'
    BY <2>1, <2>5 DEF InstancesOK, Constructed
  <2>7. OneKept'
    BY <1>2, <2>1 DEF KeepInv, OneKept, Constructed
  <2>8. VisitLocks(g, e)'
    BY <1>2, <1>3, <2>1 DEF VisitLocks, Capturing, Building, atRoot, inScope
  <2>9. VisitInstance(e)'
    <3>1. e.acc[1] = {id}
      BY <2>1, OneFacts
    <3>2. Building(e) /\ inScope(e)' /\ ~e.nilMap => NoneKept(e.site, e.scope)'
      <4>1. PICK c, s : c = e.site /\ s = e.scope
        OBVIOUS
      <4>2. inScope(e)' /\ ~e.nilMap => NoneKept(c, s)
        BY <1>2, <1>3, <2>1, <4>1 DEF VisitInstance, Capturing, inScope
      <4> QED
        BY <2>3, <4>1, <4>2
    <3> QED
      BY <2>1, <3>1, <3>2 DEF VisitInstance, Capturing, Constructed
  <2>10. \A lo : Kept(g, g, lo) => VisitPair(lo, e)'
    BY <1>2, <1>3, <2>1, <2>2, PairOn DEF Capturing
  <2> QED
    BY <1>2, <2>1, <2>2, <2>4, <2>6, <2>7, <2>8, <2>9, <2>10, GotoKeep DEF Capturing, VisitOK
<1> QED
  BY <1>2, <1>5, <1>6, <1>7

Captures(f) == Made(f.site) /\ sites[f.site].loc # "none" /\ descriptors[sites[f.site].d].disposable
Late(f) == f.scope \in disposed
Fine(f) == ~(Captures(f) /\ Late(f)) /\ ~(inScope(f) /\ f.nilMap)

\* What capture makes of the instance, of the call site and of the scope.
CapturedInstances(f) ==
    /\ IsSeq(instances') /\ DOMAIN instances' = DOMAIN instances
    /\ \A i \in DOMAIN instances :
         /\ IsInstance(instances'[i]) /\ instances'[i].d = instances[i].d /\ instances'[i].site = instances[i].site
         /\ instances'[i].scope = instances[i].scope /\ instances'[i].deps = instances[i].deps
    /\ \A i \in DOMAIN instances : i # f.d \/ ~Made(f.site) => instances'[i] = instances[i]
    /\ Made(f.site) =>
         IF Captures(f) /\ Late(f)
           THEN instances'[f.d].disposed = instances[f.d].disposed + 1 /\ instances'[f.d].kept = instances[f.d].kept
           ELSE instances'[f.d].disposed = instances[f.d].disposed /\ instances'[f.d].kept = Fine(f)
CapturedSites(f) ==
    /\ DOMAIN sites' = DOMAIN sites
    /\ \A e \in DOMAIN sites :
         /\ sites'[e].kind = sites[e].kind /\ sites'[e].type = sites[e].type /\ sites'[e].d = sites[e].d
         /\ sites'[e].loc = sites[e].loc /\ sites'[e].slot = sites[e].slot
         /\ sites'[e].value = IF e = f.site /\ atRoot(f) /\ Fine(f) THEN f.acc[1] ELSE sites[e].value
CapturedScopes(f) ==
    /\ DOMAIN resolved' = AllScopes
    /\ \A s \in AllScopes :
         resolved'[s] = IF s = f.scope /\ inScope(f) /\ Fine(f) THEN With(resolved[s], cacheKey(f), f.acc[1]) ELSE resolved[s]
    /\ DOMAIN disposables' = AllScopes
    /\ \A s \in AllScopes :
         disposables'[s] = IF s = f.scope /\ Captures(f) /\ ~Late(f) THEN Append(disposables[s], f.d) ELSE disposables[s]

\* The cases of capture.
LEMMA captureIs ==
  ASSUME ShapeInv, KeepInv, NEW g \in Goroutines, capture(g), NEW f, f = top(g)
  PROVE  /\ stack[g] # <<>> /\ FrameOK(f) /\ f.fn = "visit" /\ f.pc = "capture" /\ f.site \in DOMAIN sites
         /\ UNCHANGED <<descriptors, realized, disposed, cleared>>
         /\ CapturedInstances(f) /\ CapturedSites(f) /\ CapturedScopes(f) /\ Unlock(f)
         /\ Captures(f) /\ ~inScope(f) => scopeLock[f.scope] = None
         /\ IF Fine(f) THEN Return(g, Ok(f.acc[1])) ELSE Return(g, Err)
<1>1. stack[g] # <<>> /\ FrameOK(f) /\ IsFrame(f) /\ f.fn = "visit" /\ f.pc = "capture" /\ f.site \in DOMAIN sites
  BY AtFacts DEF capture, FrameOK
<1>2. UNCHANGED <<descriptors, callSiteCache, realized, disposed, cleared>> /\ Unlock(f)
  BY DEF capture, builder, accessors
<1>3. PICK ok : ok = Fine(f)
  OBVIOUS
<1>4. ok \in BOOLEAN
  BY <1>3 DEF Fine
<1>5. /\ instances' = IF ~Made(f.site) THEN instances
                      ELSE IF Captures(f) /\ Late(f) THEN [instances EXCEPT ![f.d].disposed = @ + 1]
                      ELSE [instances EXCEPT ![f.d].kept = ok]
      /\ disposables' = IF Captures(f) /\ ~Late(f) THEN [disposables EXCEPT ![f.scope] = Append(@, f.d)] ELSE disposables
      /\ sites' = IF atRoot(f) /\ Fine(f) THEN [sites EXCEPT ![f.site].value = f.acc[1]] ELSE sites
      /\ resolved' = IF inScope(f) /\ Fine(f) THEN [resolved EXCEPT ![f.scope] = With(@, cacheKey(f), f.acc[1])] ELSE resolved
      /\ Return(g, IF Fine(f) THEN Ok(f.acc[1]) ELSE Err)
      /\ Captures(f) /\ ~inScope(f) => scopeLock[f.scope] = None
  BY <1>3 DEF capture, Captures, Late, Fine, Made
<1>6. IsSeq(instances) /\ \A i \in DOMAIN instances : IsInstance(instances[i])
  BY DEF KeepInv, InstancesOK, InstanceOK
<1>7. Made(f.site) => f.d \in DOMAIN instances
  BY <1>1, TopVisit DEF VisitInstance
<1>8. CapturedInstances(f)
  <2>1. CASE ~Made(f.site)
    BY <1>5, <1>6, <2>1 DEF CapturedInstances
  <2>2. CASE Made(f.site) /\ Captures(f) /\ Late(f)
    <3>1. PICK x : x = f.d
      OBVIOUS
    <3>2. instances' = [instances EXCEPT ![x].disposed = @ + 1] /\ x \in DOMAIN instances
      BY <1>5, <1>7, <2>2, <3>1
    <3>3. /\ IsSeq(instances') /\ DOMAIN instances' = DOMAIN instances
          /\ \A i \in DOMAIN instances :
               /\ IsInstance(instances'[i]) /\ instances'[i].d = instances[i].d /\ instances'[i].site = instances[i].site
               /\ instances'[i].scope = instances[i].scope /\ instances'[i].kept = instances[i].kept
               /\ instances'[i].deps = instances[i].deps
               /\ instances'[i].disposed = IF i = x THEN instances[i].disposed + 1 ELSE instances[i].disposed
      BY <1>6, <3>2, DisposedOne
    <3>4. \A i \in DOMAIN instances : i # x => instances'[i] = instances[i]
      BY <3>2
    <3> QED
      BY <2>2, <3>1, <3>2, <3>3, <3>4 DEF CapturedInstances
  <2>3. CASE Made(f.site) /\ ~(Captures(f) /\ Late(f))
    <3>1. PICK x, v : x = f.d /\ v = [instances[x] EXCEPT !.kept = ok]
      OBVIOUS
    <3>2. instances' = [instances EXCEPT ![x] = v] /\ x \in DOMAIN instances
      BY <1>5, <1>7, <2>3, <3>1
    <3>3. IsSeq(instances') /\ DOMAIN instances' = DOMAIN instances
      BY <1>6, <3>2, InstancesSet
    <3>4. /\ IsInstance(v) /\ v.d = instances[x].d /\ v.site = instances[x].site /\ v.scope = instances[x].scope
          /\ v.kept = ok /\ v.deps = instances[x].deps /\ v.disposed = instances[x].disposed
      BY <1>6, <3>1, <3>2 DEF IsInstance
    <3>5. instances'[x] = v /\ \A i \in DOMAIN instances : i # x => instances'[i] = instances[i]
      BY <3>2
    <3>6. \A i \in DOMAIN instances :
            /\ IsInstance(instances'[i]) /\ instances'[i].d = instances[i].d /\ instances'[i].site = instances[i].site
            /\ instances'[i].scope = instances[i].scope /\ instances'[i].deps = instances[i].deps
      BY <1>6, <3>4, <3>5
    <3> QED
      BY <1>3, <2>3, <3>1, <3>3, <3>4, <3>5, <3>6 DEF CapturedInstances
  <2> QED
    BY <2>1, <2>2, <2>3
<1>9. CapturedSites(f)
  <2>1. CASE ~(atRoot(f) /\ Fine(f))
    BY <1>5, <2>1 DEF CapturedSites
  <2>2. CASE atRoot(f) /\ Fine(f)
    <3>1. PICK c, v : c = f.site /\ v = f.acc[1]
      OBVIOUS
    <3>3. sites' = [sites EXCEPT ![c].value = v] /\ c \in DOMAIN sites
      BY <1>1, <1>5, <2>2, <3>1
    <3>4. UNCHANGED <<descriptors, callSiteCache, realized>>
      BY <1>2
    <3>5. IsSeq(siteLock') /\ Len(siteLock') = Len(siteLock)
      BY <1>1, <1>2, UnlockShape
    <3>2. /\ DOMAIN sites' = DOMAIN sites /\ sites'[c].value = v
          /\ \A e \in DOMAIN sites :
              /\ sites'[e].kind = sites[e].kind /\ sites'[e].type = sites[e].type /\ sites'[e].d = sites[e].d
              /\ sites'[e].loc = sites[e].loc /\ sites'[e].slot = sites[e].slot
              /\ e # c => sites'[e] = sites[e]
      BY <3>3, <3>4, <3>5, ValueSet
    <3> QED
      BY <2>2, <3>1, <3>2 DEF CapturedSites
  <2> QED
    BY <2>1, <2>2
<1>10. CapturedScopes(f)
  <2>1. DOMAIN resolved = AllScopes /\ DOMAIN disposables = AllScopes
    BY DEF ShapeInv, ScopesOK
  <2>2. /\ DOMAIN resolved' = AllScopes
        /\ \A s \in AllScopes :
             resolved'[s] = IF s = f.scope /\ inScope(f) /\ Fine(f) THEN With(resolved[s], cacheKey(f), f.acc[1]) ELSE resolved[s]
    BY <1>5, <2>1
  <2>3. /\ DOMAIN disposables' = AllScopes
        /\ \A s \in AllScopes :
             disposables'[s] = IF s = f.scope /\ Captures(f) /\ ~Late(f) THEN Append(disposables[s], f.d) ELSE disposables[s]
    BY <1>5, <2>1
  <2> QED
    BY <2>2, <2>3 DEF CapturedScopes
<1>11. IF Fine(f) THEN Return(g, Ok(f.acc[1])) ELSE Return(g, Err)
  BY <1>5
<1> QED
  BY <1>1, <1>2, <1>5, <1>8, <1>9, <1>10, <1>11

\* capture keeps one instance of a call site in a scope.
LEMMA captureKeep ==
  ASSUME ShapeInv, KeepInv, NEW g \in Goroutines, capture(g)
  PROVE  KeepInv'
<1>1. PICK f : f = top(g)
  OBVIOUS
<1>2. /\ stack[g] # <<>> /\ FrameOK(f) /\ f.fn = "visit" /\ f.pc = "capture" /\ f.site \in DOMAIN sites
      /\ CapturedInstances(f) /\ CapturedSites(f) /\ CapturedScopes(f) /\ Unlock(f) /\ \E r : Return(g, r)
  BY <1>1, captureIs
<1>3. /\ VisitLocks(g, f) /\ VisitInstance(f) /\ Building(f)
      /\ \A lo : Kept(g, g, lo) => VisitPair(lo, f) /\ FrameOK(lo)
  BY <1>1, <1>2, TopVisit DEF Building
<1>4. SameLocs
  BY <1>2 DEF SameLocs, CapturedSites
<1>5. Made(f.site) => /\ f.d \in DOMAIN instances /\ f.acc[1] = {f.d} /\ instances[f.d].site = f.site
                      /\ instances[f.d].scope = f.scope
  BY <1>2, <1>3 DEF VisitInstance
<1>6. \A i \in DOMAIN instances : Made(instances[i].site) /\ instances[i].site \in DOMAIN sites
  BY DEF KeepInv, InstancesOK, InstanceOK
<1>7. ASSUME NEW i \in DOMAIN instances, instances'[i].kept, ~(instances[i].kept)
      PROVE  Made(f.site) /\ i = f.d /\ Fine(f)
  BY <1>2, <1>7 DEF CapturedInstances
<1>8. \A i \in DOMAIN instances : instances[i].kept \in BOOLEAN /\ instances'[i].kept \in BOOLEAN
  <2>1. \A i \in DOMAIN instances : instances[i].kept \in BOOLEAN
    BY DEF KeepInv, InstancesOK, InstanceOK
  <2>2. Fine(f) \in BOOLEAN
    BY DEF Fine
  <2> QED
    BY <1>2, <2>1, <2>2 DEF CapturedInstances
<1>9. \A i \in DOMAIN instances : instances'[i].site = instances[i].site /\ instances'[i].scope = instances[i].scope
  BY <1>2 DEF CapturedInstances
<1>10. ASSUME NEW i \in DOMAIN instances', NEW j \in DOMAIN instances', i # j, instances'[i].kept, instances'[j].kept,
              instances'[i].site = instances'[j].site, instances'[i].scope = instances'[j].scope,
              sites'[instances'[i].site].loc \in {"root", "scope"}
       PROVE  FALSE
  <2>1. i \in DOMAIN instances /\ j \in DOMAIN instances
    BY <1>10, <1>2 DEF CapturedInstances
  <2>2. /\ instances[i].site = instances[j].site /\ instances[i].scope = instances[j].scope
        /\ sites[instances[i].site].loc \in {"root", "scope"}
    BY <1>6, <1>9, <1>10, <2>1, <1>4 DEF SameLocs
  <2>3. ~(instances[i].kept /\ instances[j].kept)
    BY <1>10, <2>1, <2>2 DEF KeepInv, OneKept
  <2>4. PICK x, y \in DOMAIN instances : /\ x # y /\ ~instances[x].kept /\ instances'[x].kept /\ instances'[y].kept
                          /\ instances[x].site = instances[y].site /\ instances[x].scope = instances[y].scope
                          /\ sites[instances[x].site].loc \in {"root", "scope"}
    BY <1>10, <2>1, <2>2, <2>3
  <2>5. x = f.d /\ Made(f.site) /\ Fine(f)
    BY <1>7, <2>4
  <2>6. instances[y].kept /\ InstanceOK(y) /\ instances[y].site = f.site /\ instances[y].scope = f.scope
    BY <1>2, <1>5, <2>4, <2>5 DEF CapturedInstances, KeepInv, InstancesOK
  <2>7. atRoot(f) \/ inScope(f)
    BY <1>5, <2>4, <2>5 DEF atRoot, inScope
  <2>8. CASE atRoot(f)
    <3>1. sites[f.site].value = NoValue
      BY <1>3, <2>8 DEF VisitLocks
    <3>2. sites[f.site].value # NoValue
      BY <2>6, <2>8 DEF InstanceOK, atRoot
    <3> QED
      BY <3>1, <3>2
  <2>9. CASE inScope(f)
    <3>1. ~f.nilMap
      BY <2>5, <2>9, <1>2 DEF Fine, FrameOK
    <3>2. NoneKept(f.site, f.scope)
      BY <1>3, <2>9, <3>1 DEF VisitInstance
    <3> QED
      BY <2>6, <3>2 DEF NoneKept
  <2> QED
    BY <2>7, <2>8, <2>9
<1>11. OneKept'
  BY <1>10 DEF OneKept
<1>12. ASSUME NEW i \in DOMAIN instances PROVE InstanceOK(i)'
  <2>1. PICK c, s : c = instances[i].site /\ s = instances[i].scope
    OBVIOUS
  <2>2. InstanceOK(i) /\ c \in DOMAIN sites /\ s \in AllScopes /\ Made(c)
    BY <2>1 DEF KeepInv, InstancesOK, InstanceOK
  <2>3. /\ c \in DOMAIN sites' /\ sites'[c].kind = sites[c].kind /\ sites'[c].type = sites[c].type /\ sites'[c].d = sites[c].d
        /\ sites'[c].loc = sites[c].loc /\ sites'[c].slot = sites[c].slot
        /\ sites'[c].value = IF c = f.site /\ atRoot(f) /\ Fine(f) THEN f.acc[1] ELSE sites[c].value
    BY <1>2, <2>2 DEF CapturedSites
  <2>4. /\ IsInstance(instances'[i]) /\ instances'[i].d = instances[i].d /\ instances'[i].site = c
        /\ instances'[i].scope = s /\ instances'[i].kept \in BOOLEAN
    BY <1>2, <1>8, <2>1 DEF CapturedInstances
  <2>5. c = f.site => f.acc[1] # NoValue
    <3>1. SUFFICES ASSUME c = f.site PROVE f.acc[1] # NoValue
      OBVIOUS
    <3>2. f.d \in DOMAIN instances /\ f.acc[1] = {f.d}
      BY <1>5, <2>2, <3>1
    <3>3. f.d # 0
      BY <3>2, SeqFacts DEF KeepInv, InstancesOK
    <3> QED
      BY <3>2, <3>3 DEF NoValue
  <2>6. DOMAIN resolved[s] \subseteq DOMAIN resolved'[s]
    BY <1>2, <2>2 DEF CapturedScopes, With
  <2>7. ASSUME instances'[i].kept, sites[c].loc = "root" \/ (sites[c].loc = "scope" /\ s = Root) PROVE sites'[c].value # NoValue
    <3>1. CASE instances[i].kept
      BY <2>1, <2>2, <2>3, <2>5, <2>7, <3>1 DEF InstanceOK
    <3>2. CASE ~instances[i].kept
      <4>1. i = f.d /\ Made(f.site) /\ Fine(f)
        BY <1>7, <2>7, <3>2
      <4>2. c = f.site /\ s = f.scope
        BY <1>5, <2>1, <4>1
      <4>3. atRoot(f)
        BY <2>7, <4>2 DEF atRoot
      <4> QED
        BY <2>3, <2>5, <4>1, <4>2, <4>3
    <3> QED
      BY <3>1, <3>2
  <2>8. ASSUME instances'[i].kept, sites[c].loc = "scope", s # Root PROVE <<sites[c].type, sites[c].slot>> \in DOMAIN resolved'[s]
    <3>1. CASE instances[i].kept
      BY <2>1, <2>2, <2>6, <2>8, <3>1 DEF InstanceOK
    <3>2. CASE ~instances[i].kept
      <4>1. i = f.d /\ Made(f.site) /\ Fine(f)
        BY <1>7, <2>8, <3>2
      <4>2. c = f.site /\ s = f.scope
        BY <1>5, <2>1, <4>1
      <4>3. inScope(f)
        BY <2>8, <4>2 DEF inScope
      <4>4. resolved'[s] = With(resolved[s], cacheKey(f), f.acc[1])
        BY <1>2, <2>2, <4>1, <4>2, <4>3 DEF CapturedScopes
      <4> QED
        BY <4>2, <4>4 DEF With, cacheKey
    <3> QED
      BY <3>1, <3>2
  <2>9. sites[c].loc = "root" => s = Root
    BY <2>1, <2>2 DEF InstanceOK
  <2>10. Made(c)'
    BY <2>2, <2>3 DEF Made
  <2>11. instances'[i].d = sites'[c].d
    BY <2>1, <2>2, <2>3, <2>4 DEF InstanceOK
  <2> QED
    BY <2>2, <2>3, <2>4, <2>7, <2>8, <2>9, <2>10, <2>11 DEF InstanceOK, AllScopes
<1>13. InstancesOK'
  BY <1>2, <1>12 DEF InstancesOK, CapturedInstances
<1>14. ASSUME NEW h \in Goroutines, NEW d, Kept(g, h, d) PROVE VisitOK(h, d)'
  <2>1. SUFFICES ASSUME d.fn = "visit" PROVE VisitLocks(h, d)' /\ VisitInstance(d)'
    BY DEF VisitOK
  <2>2. VisitLocks(h, d)'
    BY <1>1, <1>2, <1>3, <1>4, <1>14, <2>1, UnlockLocks DEF CapturedSites
  <2>3. VisitLocks(h, d) /\ VisitInstance(d) /\ d.site \in DOMAIN sites /\ (h = g => VisitPair(d, f))
    BY <1>1, <1>2, <1>14, <2>1, KeptFacts DEF VisitOK, FrameOK
  <2>4. ASSUME Building(d), inScope(d), ~d.nilMap PROVE NoneKept(d.site, d.scope)'
    <3>1. SUFFICES ASSUME NEW i \in DOMAIN instances', instances'[i].kept, instances'[i].site = d.site, instances'[i].scope = d.scope
                   PROVE  FALSE
      BY DEF NoneKept
    <3>2. i \in DOMAIN instances /\ instances[i].site = d.site /\ instances[i].scope = d.scope
      BY <1>2, <1>9, <3>1 DEF CapturedInstances
    <3>3. ~instances[i].kept
      BY <2>3, <2>4, <3>2 DEF VisitInstance, NoneKept
    <3>4. d.site = f.site /\ d.scope = f.scope
      BY <1>5, <1>7, <3>1, <3>2, <3>3
    <3>5. inScope(f) /\ f.scope # Root
      BY <2>4, <3>4 DEF inScope
    <3>6. CASE h = g
      <4>1. f.site < d.site
        BY <1>2, <1>3, <2>1, <2>3, <2>4, <3>4, <3>5, <3>6 DEF VisitPair
      <4>2. f.site \in Nat
        BY <1>2, SeqFacts DEF ShapeInv, SitesOK
      <4> QED
        BY <3>4, <4>1, <4>2
    <3>7. CASE h # g
      BY <1>3, <2>3, <2>4, <3>4, <3>5, <3>7 DEF VisitLocks
    <3> QED
      BY <3>6, <3>7
  <2>5. inScope(d)' <=> inScope(d)
    BY <1>4, <2>3 DEF inScope, SameLocs
  <2>6. Made(d.site)' <=> Made(d.site)
    BY <1>2, <2>3 DEF Made, CapturedSites
  <2>7. DOMAIN instances' = DOMAIN instances
    BY <1>2 DEF CapturedInstances
  <2>8. VisitInstance(d)'
    BY <1>9, <2>3, <2>4, <2>5, <2>6, <2>7 DEF VisitInstance
  <2> QED
    BY <2>2, <2>8
<1> QED
  BY <1>2, <1>4, <1>11, <1>13, <1>14, ReturnKeep

-----------------------------------------------------------------------------
(* Every step keeps the invariant; at most one instance is kept            *)

CalmActs(g) ==
    \/ Build(g) \/ (\E r \in plan.ask, s \in AllScopes : Get(g, r, s)) \/ (\E s \in Scopes : CreateScope(g, s))
    \/ GetCallSite(g) \/ createCallSite(g) \/ createCallSiteReturns(g)
    \/ tryCreateExact(g) \/ storeCallSite(g) \/ createSlice(g) \/ createSliceElement(g)
    \/ validateService(g) \/ validatedService(g)
    \/ GetWithScope(g) \/ createServiceAccessor(g) \/ createRootAccessor(g) \/ access(g)

VisitActs(g) ==
    visitCallSite(g) \/ visitRootCache(g) \/ visitScopeCache(g) \/ visitPart(g) \/ construct(g) \/ capture(g)

DisposeActs(g) == (\E s \in AllScopes : Dispose(g, s)) \/ BeginDispose(g) \/ disposeNext(g)

\* The steps: of the builder, calm ones, of a visit, of a disposal.
LEMMA Acts ==
  ASSUME Next
  PROVE  Configure \/ \E g \in Goroutines : CalmActs(g) \/ VisitActs(g) \/ DisposeActs(g)
BY DEF Next, Start, Step, CalmActs, VisitActs, DisposeActs

\* The actions named calm are.
LEMMA CalmStep ==
  ASSUME ShapeInv, KeepInv, NEW g \in Goroutines, CalmActs(g)
  PROVE  Calm(g)
BY BuildCalm, GetCalm, CreateScopeCalm, GetCallSiteCalm, createCallSiteCalm, createCallSiteReturnsCalm, tryCreateExactCalm,
   storeCallSiteCalm, createSliceCalm, createSliceElementCalm, validateServiceCalm, validatedServiceCalm,
   GetWithScopeCalm, createServiceAccessorCalm, createRootAccessorCalm, accessCalm DEF CalmActs

\* Nothing of this changes.
LEMMA UnchangedKeep ==
  ASSUME KeepInv, UNCHANGED <<sites, siteLock, scopeLock, resolved, instances, stack>>
  PROVE  KeepInv'
<1>1. InstancesOK' /\ OneKept'
  BY DEF KeepInv, InstancesOK, InstanceOK, OneKept, Made
<1>2. ASSUME NEW g, NEW f, VisitOK(g, f) PROVE VisitOK(g, f)'
  BY <1>2 DEF VisitOK, VisitLocks, VisitInstance, atRoot, inScope, Building, NoneKept, Made
<1>3. ASSUME NEW lo, NEW hi, VisitPair(lo, hi) PROVE VisitPair(lo, hi)'
  BY <1>3 DEF VisitPair, atRoot, inScope, Building
<1>4. KeepStacks'
  BY <1>2, <1>3 DEF KeepInv, KeepStacks
<1> QED
  BY <1>1, <1>4 DEF KeepInv

\* There is no instance initially.
LEMMA InitKeep == Init => KeepInv
<1> SUFFICES ASSUME Init PROVE KeepInv
  OBVIOUS
<1>1. (\A h \in Goroutines : DOMAIN stack[h] = {}) /\ DOMAIN instances = {} /\ IsSeq(instances)
  BY EmptySeq DEF Init
<1> QED
  BY <1>1 DEF KeepInv, InstancesOK, OneKept, KeepStacks

\* Every step keeps one instance of a call site in a scope.
LEMMA KeepStep ==
  ASSUME ShapeInv, KeepInv, [Next]_vars
  PROVE  KeepInv'
<1>1. CASE UNCHANGED vars
  BY <1>1, UnchangedKeep DEF vars, callSites, locks, scopeVars
<1>2. CASE Configure
  BY <1>2, UnchangedKeep DEF Configure, callSites, locks, scopeVars
<1>3. ASSUME NEW g \in Goroutines, CalmActs(g) PROVE KeepInv'
  BY <1>3, CalmStep, CalmKeep DEF Calm, CalmRest
<1>4. ASSUME NEW g \in Goroutines, VisitActs(g) PROVE KeepInv'
  BY <1>4, visitCallSiteKeep, visitRootCacheKeep, visitScopeCacheKeep, visitPartKeep, constructKeep, captureKeep DEF VisitActs
<1>5. ASSUME NEW g \in Goroutines, DisposeActs(g) PROVE KeepInv'
  BY <1>5, DisposeKeep, BeginDisposeKeep, disposeNextKeep DEF DisposeActs
<1> QED
  BY <1>1, <1>2, <1>3, <1>4, <1>5, Acts

\* The three invariants give the property.
LEMMA OneInstance ==
  ASSUME ShapeInv, SiteInv, KeepInv
  PROVE  OneInstanceEach
<1>1. SUFFICES ASSUME NEW i \in DOMAIN instances, NEW j \in DOMAIN instances, i # j, instances[i].d = instances[j].d,
                      instances[i].kept, instances[j].kept, ~aliased(instances[i].d)
               PROVE  \/ descriptors[instances[i].d].life = "transient"
                      \/ descriptors[instances[i].d].life = "scoped" /\ instances[i].scope # instances[j].scope
  BY DEF OneInstanceEach, Inst, Desc
<1>2. PICK c, d : c = instances[i].site /\ d = descriptors[instances[i].d]
  OBVIOUS
<1>3. /\ InstanceOK(i) /\ InstanceOK(j) /\ c \in DOMAIN sites /\ Made(c) /\ SiteOK(c) /\ sites[c].kind \in OfDescriptor
      /\ instances[j].site \in DOMAIN sites /\ Made(instances[j].site) /\ sites[instances[j].site].kind \in OfDescriptor
  BY <1>2 DEF KeepInv, InstancesOK, InstanceOK, Made, OfDescriptor, ShapeInv, SitesOK
<1>4. instances[j].site = c
  BY <1>1, <1>2, <1>3 DEF InstanceOK, SiteInv, OneSite
<1>5. sites[c].loc = CacheLocation(d) /\ d.kind \in {"ctor", "factory"} /\ DescriptorOK(d)
  BY <1>2, <1>3 DEF SiteOK, InstanceOK, Made, ShapeInv, BuildingOK
<1>6. CASE d.life = "transient"
  BY <1>2, <1>6
<1>7. CASE d.life = "scoped"
  BY <1>1, <1>2, <1>3, <1>4, <1>5, <1>7 DEF CacheLocation, KeepInv, OneKept
<1>8. CASE d.life = "singleton"
  BY <1>1, <1>2, <1>3, <1>4, <1>5, <1>8 DEF CacheLocation, KeepInv, OneKept, InstanceOK
<1> QED
  BY <1>5, <1>6, <1>7, <1>8 DEF DescriptorOK

\* A singleton that is reached by its service type only is kept once, and a
\* scoped service once per scope, whatever the goroutines, the scopes, the
\* registrations and the order of calls (createCallSite, visitRootCache,
\* visitScopeCache).
THEOREM OneInstanceTheorem == Spec => []OneInstanceEach
<1>1. Init => ShapeInv /\ SiteInv /\ KeepInv
  BY InitShape, InitSite, InitKeep
<1>2. ShapeInv /\ SiteInv /\ KeepInv /\ [Next]_vars => (ShapeInv /\ SiteInv /\ KeepInv)'
  BY ShapeStep, SiteStep, KeepStep
<1>3. ShapeInv /\ SiteInv /\ KeepInv => OneInstanceEach
  BY OneInstance
<1> QED
  BY <1>1, <1>2, <1>3, PTL DEF Spec

-----------------------------------------------------------------------------
(* What is disposed of                                                     *)

\* The invariants give the property.
LEMMA DisposedInOrder ==
  ASSUME ShapeInv, KeepInv, DisposeInv
  PROVE  DisposedOnceInOrder
<1>1. SUFFICES ASSUME NEW i \in DOMAIN instances
               PROVE  /\ instances[i].disposed <= 1
                      /\ ended(instances[i].scope) /\ descriptors[instances[i].d].disposable => instances[i].disposed = 1
                      /\ instances[i].disposed = 1 =>
                           \A j \in DOMAIN instances :
                             /\ i \in instances[j].deps /\ instances[j].scope = instances[i].scope
                             /\ instances[j].kept /\ descriptors[instances[j].d].disposable
                             => instances[j].disposed = 1
  BY DEF DisposedOnceInOrder, Inst, Desc
<1>2. instances[i].disposed <= 1
  BY DEF DisposeInv, Disposing, DisposalsOK
<1>3. ASSUME ended(instances[i].scope), descriptors[instances[i].d].disposable PROVE instances[i].disposed = 1
  <2>1. instances[i].scope \in disposed /\ \A g \in Goroutines : stack[g] = <<>>
    BY <1>3 DEF ended
  <2>2. \A g \in Goroutines : Held(g) = {} /\ Entered(g) = {} /\ Listed(g) = {}
    BY <2>1 DEF Held, Entered, Listed, At
  <2>3. instances[i].scope \in cleared
    BY <2>1, <2>2 DEF DisposeInv, Disposing, ScopeListsOK
  <2>4. instances[i].scope \in AllScopes
    BY DEF KeepInv, InstancesOK, InstanceOK
  <2>5. disposables[instances[i].scope] = <<>>
    BY <2>3, <2>4 DEF DisposeInv, Disposing, ScopeListsOK
  <2>6. ~InList(i, disposables[instances[i].scope])
    BY <2>5 DEF InList
  <2>7. Placed(i)
    BY <1>3 DEF DisposeInv, Disposing, DisposalsOK
  <2> QED
    BY <2>2, <2>6, <2>7 DEF Placed
<1>4. instances[i].disposed = 1 =>
         \A j \in DOMAIN instances :
           /\ i \in instances[j].deps /\ instances[j].scope = instances[i].scope
           /\ instances[j].kept /\ descriptors[instances[j].d].disposable
           => instances[j].disposed = 1
  BY DEF DisposeInv, Disposing, DisposalsOK
<1> QED
  BY <1>2, <1>3, <1>4

\* There is nothing to dispose of initially.
LEMMA InitDispose == Init => DisposeInv
<1> SUFFICES ASSUME Init PROVE DisposeInv
  OBVIOUS
<1>1. /\ \A g \in Goroutines : stack[g] = <<>> /\ DOMAIN stack[g] = {} /\ ret[g].v = {}
      /\ DOMAIN instances = {} /\ DOMAIN sites = {} /\ DOMAIN realized = {} /\ disposed = {} /\ cleared = {}
      /\ \A s \in AllScopes : DOMAIN resolved[s] = {} /\ DOMAIN disposables[s] = {}
  BY DEF Init
<1>2. \A g \in Goroutines : Held(g) = {} /\ Entered(g) = {} /\ Listed(g) = {}
  BY <1>1 DEF Held, Entered, Listed, At
<1>3. Values
  BY <1>1 DEF Values, CachesOK, ReturnsOK, HandsOnAll, ValueOK
<1>4. PendingOK /\ TakenListsOK /\ DisposalsOK
  BY <1>1, <1>2 DEF PendingOK, TakenListsOK, DisposalsOK
<1>5. ScopeListsOK
  BY <1>1 DEF ScopeListsOK, ListOK
<1> QED
  BY <1>3, <1>4, <1>5 DEF DisposeInv, Disposing

\* What a goroutine has in hand is the same; it has nothing in hand.
SameHand(g) == Held(g)' = Held(g) /\ Entered(g)' = Entered(g) /\ Listed(g)' = Listed(g) /\ List(g)' = List(g)
Empty(g) == Held(g) = {} /\ Entered(g) = {} /\ Listed(g) = {} /\ List(g) = <<>>

SameKinds == \A c \in DOMAIN sites : c \in DOMAIN sites' /\ sites'[c].kind = sites[c].kind

\* A goroutine whose stack does not change has the same in hand.
LEMMA HandStays ==
  ASSUME ShapeInv, SameKinds, NEW h \in Goroutines, stack'[h] = stack[h]
  PROVE  SameHand(h)
<1>1. CASE stack[h] = <<>>
  BY <1>1 DEF SameHand, Held, Entered, Listed, List, At
<1>2. CASE stack[h] # <<>>
  <2>1. FrameOK(top(h)) /\ top(h)' = top(h)
    BY <1>2, TopFacts DEF ShapeInv, top
  <2>2. top(h).fn = "visit" => (Made(top(h).site)' <=> Made(top(h).site))
    BY <2>1 DEF FrameOK, Made, SameKinds
  <2>3. At(h, "dispose", "enter")' <=> At(h, "dispose", "enter")
    BY <1>2, <2>1 DEF At
  <2>4. At(h, "dispose", "list")' <=> At(h, "dispose", "list")
    BY <1>2, <2>1 DEF At
  <2>5. At(h, "visit", "capture")' <=> At(h, "visit", "capture")
    BY <1>2, <2>1 DEF At
  <2>6. At(h, "visit", "capture") => top(h).fn = "visit"
    BY DEF At
  <2>7. Held(h)' = Held(h)
    BY <2>1, <2>2, <2>5, <2>6 DEF Held
  <2> QED
    BY <2>1, <2>3, <2>4, <2>7 DEF SameHand, Entered, Listed, List
<1> QED
  BY <1>1, <1>2

\* Frames that leave nothing in hand.
Plainly(f) == f.fn # "dispose" /\ (f.fn = "visit" /\ f.pc = "capture" => ~Made(f.site))

\* A goroutine at a plain frame has nothing in hand.
LEMMA PlainHand ==
  ASSUME NEW g, stack[g] = <<>> \/ Plainly(top(g))
  PROVE  Empty(g)
BY DEF Empty, Plainly, Held, Entered, Listed, List, At

\* The frames below the top are plain.
LEMMA BelowFacts ==
  ASSUME ShapeInv, NEW g \in Goroutines, NEW n \in DOMAIN stack[g], n < Len(stack[g])
  PROVE  Plainly(stack[g][n])
<1>1. PICK m : m = Len(stack[g])
  OBVIOUS
<1>2. m \in Nat /\ DOMAIN stack[g] = 1..m
  BY <1>1, SeqFacts DEF ShapeInv, ShapeStacks, StacksAre
<1>3. n + 1 \in 1..m /\ n + 1 # 1 /\ (n + 1) - 1 = n
  BY <1>1, <1>2
<1>4. CalledBy(stack[g][n], stack[g][n + 1])
  BY <1>2, <1>3 DEF ShapeInv, ShapeStacks, CallsOK
<1> QED
  BY <1>4 DEF CalledBy, Plainly

\* A plain frame stays one.
LEMMA PlainlyStays ==
  ASSUME SameKinds, NEW f, FrameOK(f), Plainly(f)
  PROVE  Plainly(f)'
BY DEF Plainly, SameKinds, FrameOK, Made

\* What g's top frame becomes.
LEMMA GotoHand ==
  ASSUME ShapeInv, SameKinds, NEW g \in Goroutines, stack[g] # <<>>, NEW f, Goto(g, f)
  PROVE  stack'[g] # <<>> /\ top(g)' = f /\ \A h \in Goroutines \ {g} : SameHand(h)
<1>1. PICK n : n = Len(stack[g])
  OBVIOUS
<1>2. Moves(g, n - 1, 1) /\ stack'[g][n] = f /\ n \in Nat \ {0}
  BY <1>1, GotoMoves, TopFacts DEF ShapeInv, ShapeStacks
<1>3. Len(stack'[g]) = n /\ IsSeq(stack'[g])
  BY <1>2 DEF Moves
<1>4. stack'[g] # <<>>
  BY <1>2, <1>3, SeqFacts
<1>5. \A h \in Goroutines \ {g} : stack'[h] = stack[h]
  BY <1>2 DEF Moves
<1> QED
  BY <1>2, <1>3, <1>4, <1>5, HandStays DEF top

\* What g's top frame calls.
LEMMA CallHand ==
  ASSUME ShapeInv, SameKinds, NEW g \in Goroutines, stack[g] # <<>>, NEW f, NEW f2, Call(g, f, f2)
  PROVE  stack'[g] # <<>> /\ top(g)' = f2 /\ \A h \in Goroutines \ {g} : SameHand(h)
<1>1. PICK n : n = Len(stack[g])
  OBVIOUS
<1>2. Moves(g, n - 1, 2) /\ stack'[g][n + 1] = f2 /\ n \in Nat \ {0}
  BY <1>1, CallMoves, TopFacts DEF ShapeInv, ShapeStacks
<1>3. Len(stack'[g]) = n + 1 /\ IsSeq(stack'[g])
  BY <1>2 DEF Moves
<1>4. stack'[g] # <<>>
  BY <1>2, <1>3, SeqFacts
<1>5. \A h \in Goroutines \ {g} : stack'[h] = stack[h]
  BY <1>2 DEF Moves
<1> QED
  BY <1>2, <1>3, <1>4, <1>5, HandStays DEF top

\* A return leaves nothing in hand.
LEMMA ReturnHand ==
  ASSUME ShapeInv, SameKinds, NEW g \in Goroutines, stack[g] # <<>>, NEW r, Return(g, r)
  PROVE  Empty(g)' /\ \A h \in Goroutines \ {g} : SameHand(h)
<1>1. PICK n : n = Len(stack[g])
  OBVIOUS
<1>2. Moves(g, n - 1, 0) /\ n \in Nat \ {0} /\ DOMAIN stack[g] = 1..n
  BY <1>1, ReturnMoves, TopFacts DEF ShapeInv, ShapeStacks
<1>3. PICK k : k = n - 1
  OBVIOUS
<1>4. k \in Nat /\ k < n /\ Len(stack'[g]) = k /\ IsSeq(stack'[g]) /\ (k # 0 => k \in 1..n /\ k \in 1..k)
  BY <1>2, <1>3 DEF Moves
<1>5. \A h \in Goroutines \ {g} : stack'[h] = stack[h]
  BY <1>2 DEF Moves
<1>6. CASE k = 0
  <2>1. stack'[g] = <<>>
    BY <1>4, <1>6, SeqFacts
  <2>2. Empty(g)'
    BY <2>1 DEF Empty, Held, Entered, Listed, List, At
  <2> QED
    BY <1>5, <2>2, HandStays
<1>7. CASE k # 0
  <2>1. PICK f : f = stack[g][k]
    OBVIOUS
  <2>2. Plainly(f) /\ FrameOK(f)
    BY <1>1, <1>2, <1>4, <1>7, <2>1, BelowFacts DEF ShapeInv, ShapeStacks, FramesOK
  <2>3. top(g)' = f
    BY <1>2, <1>3, <1>4, <1>7, <2>1 DEF top, Moves
  <2>4. Plainly(f)'
    BY <2>2, PlainlyStays
  <2>5. Empty(g)'
    BY <2>3, <2>4 DEF Empty, Plainly, Held, Entered, Listed, List, At
  <2> QED
    BY <1>5, <2>5, HandStays
<1> QED
  BY <1>6, <1>7

\* Nothing changes hands, and nothing is built, listed or disposed of.
LEMMA QuietDisposing ==
  ASSUME Disposing, UNCHANGED <<descriptors, instances, disposables, disposed, cleared>>,
         \A h \in Goroutines : SameHand(h)
  PROVE  Disposing'
<1>1. \A h \in Goroutines : Held(h)' = Held(h) /\ Entered(h)' = Entered(h) /\ Listed(h)' = Listed(h) /\ List(h)' = List(h)
  BY DEF SameHand
<1>2. PendingOK'
  BY <1>1 DEF Disposing, PendingOK
<1>3. \A l, s : ListOK(l, s)' <=> ListOK(l, s)
  BY <1>1 DEF ListOK
<1>4. ScopeListsOK'
  BY <1>1, <1>3 DEF Disposing, ScopeListsOK, AllScopes
<1>5. TakenListsOK'
  BY <1>1, <1>3 DEF Disposing, TakenListsOK
<1>6. \A i : Placed(i)' <=> Placed(i)
  BY <1>1 DEF Placed, InList
<1>7. DisposalsOK'
  BY <1>6 DEF Disposing, DisposalsOK
<1> QED
  BY <1>2, <1>4, <1>5, <1>7 DEF Disposing

\* What has been handed out stays so.
HandedOut == \A i \in DOMAIN instances : i \in DOMAIN instances' /\ (instances[i].kept => instances'[i].kept)

\* Values that have been handed out stay so.
LEMMA ValueStays ==
  ASSUME HandedOut, NEW v, ValueOK(v)
  PROVE  ValueOK(v)'
BY DEF HandedOut, ValueOK

\* A frame holds such values while what is kept stays kept.
LEMMA FrameHandsOn ==
  ASSUME HandedOut, SameKinds, NEW f, FrameOK(f), HandsOn(f)
  PROVE  HandsOn(f)'
<1>1. f.fn = "visit" => (Made(f.site) => Made(f.site)')
  BY DEF Made, SameKinds, FrameOK
<1>2. ValueOK(f.acc[1]) => ValueOK(f.acc[1])'
  BY ValueStays
<1>3. \A n \in DOMAIN f.acc : ValueOK(f.acc[n]) => ValueOK(f.acc[n])'
  BY ValueStays
<1> QED
  BY <1>1, <1>2, <1>3 DEF HandsOn

\* What a step of g that leaves its frames up to k has to show.
LEMMA HandsOnMoves ==
  ASSUME ShapeInv, HandsOnAll, HandedOut, SameKinds, NEW g \in Goroutines, NEW k, NEW m, Moves(g, k, m), k <= Len(stack[g]),
         m >= 1 => HandsOn(stack[g][k + 1])', m = 2 => HandsOn(stack[g][k + 2])'
  PROVE  HandsOnAll'
<1>1. k \in Nat /\ m \in 0..2 /\ DOMAIN stack'[g] = 1..(k + m) /\ Len(stack[g]) \in Nat /\ DOMAIN stack[g] = 1..Len(stack[g])
  BY SeqFacts DEF Moves, ShapeInv, ShapeStacks, StacksAre
<1>2. \A n \in 1..k : n \in DOMAIN stack[g] /\ stack'[g][n] = stack[g][n]
  BY <1>1 DEF Moves
<1>3. \A h \in Goroutines \ {g} : stack'[h] = stack[h]
  BY DEF Moves
<1>4. \A h \in Goroutines : \A n \in DOMAIN stack[h] : FrameOK(stack[h][n]) /\ HandsOn(stack[h][n])
  BY DEF ShapeInv, ShapeStacks, FramesOK, HandsOnAll
<1>5. ASSUME NEW h \in Goroutines, NEW j \in DOMAIN stack'[h] PROVE HandsOn(stack[h][j])'
  <2>1. CASE h # g \/ j \in 1..k
    <3>1. PICK f : f = stack[h][j]
      OBVIOUS
    <3>2. FrameOK(f) /\ HandsOn(f) /\ stack'[h][j] = f
      BY <1>2, <1>3, <1>4, <1>5, <2>1, <3>1
    <3>3. HandsOn(f)'
      BY <3>2, FrameHandsOn
    <3> QED
      BY <3>2, <3>3
  <2>2. CASE h = g /\ j \notin 1..k
    <3>1. (j = k + 1 /\ m >= 1) \/ (j = k + 2 /\ m = 2)
      BY <1>1, <1>5, <2>2
    <3> QED
      BY <2>2, <3>1
  <2> QED
    BY <2>1, <2>2
<1> QED
  BY <1>5 DEF HandsOnAll

\* A call site that is made has no value yet.
NewSites == \A c \in DOMAIN sites' : c \in DOMAIN sites \/ sites'[c].value = NoValue

\* A new call site has no value.
LEMMA NewSiteAdded ==
  ASSUME IsSeq(sites), NEW r, sites' = Append(sites, r), r.value = NoValue
  PROVE  NewSites
<1>1. Len(sites) \in Nat /\ DOMAIN sites = 1..Len(sites)
  BY SeqFacts
<1>2. IsSeq(sites') /\ Len(sites') = Len(sites) + 1 /\ sites'[Len(sites) + 1] = r
  BY AppendFacts
<1>3. DOMAIN sites' = 1..Len(sites) + 1
  BY <1>2, SeqFacts
<1> QED
  BY <1>1, <1>2, <1>3 DEF NewSites

\* Calm actions make call sites without a value.
LEMMA NewSitesStep ==
  ASSUME ShapeInv, NEW g \in Goroutines, CalmActs(g)
  PROVE  NewSites
<1>0. IsSeq(sites)
  BY DEF ShapeInv, SitesOK
<1>1. \A kind, t, d, params, loc, slot : newCallSite(kind, t, d, params, loc, slot).value = NoValue
  BY DEF newCallSite
<1>2. CASE UNCHANGED sites
  BY <1>2 DEF NewSites
<1>3. ASSUME NEW r, sites' = Append(sites, r), r.value = NoValue PROVE NewSites
  BY <1>0, <1>3, NewSiteAdded
<1>4. CASE storeCallSite(g)
  BY <1>1, <1>3, <1>4 DEF storeCallSite
<1>5. CASE createSlice(g)
  BY <1>1, <1>2, <1>3, <1>5 DEF createSlice
<1>6. CASE Build(g)
  <2>1. PICK r : sites' = <<r>> /\ r.value = NoValue
    BY <1>1, <1>6 DEF Build
  <2>2. DOMAIN sites' = {1} /\ sites'[1] = r
    BY <2>1
  <2> QED
    BY <2>1, <2>2 DEF NewSites
<1>7. CASE (\E r \in plan.ask, s \in AllScopes : Get(g, r, s)) \/ (\E s \in Scopes : CreateScope(g, s))
  BY <1>2, <1>7 DEF Get, CreateScope, callSites
<1>8. CASE GetCallSite(g) \/ createCallSite(g) \/ createCallSiteReturns(g) \/ tryCreateExact(g) \/ createSliceElement(g)
  BY <1>2, <1>8 DEF GetCallSite, createCallSite, createCallSiteReturns, tryCreateExact, createSliceElement, callSites
<1>9. CASE validateService(g) \/ validatedService(g) \/ GetWithScope(g)
  BY <1>2, <1>9 DEF validateService, validatedService, GetWithScope, callSites
<1>10. CASE createServiceAccessor(g) \/ createRootAccessor(g) \/ access(g)
  BY <1>2, <1>10 DEF createServiceAccessor, createRootAccessor, access, callSites
<1> QED
  BY <1>4, <1>5, <1>6, <1>7, <1>8, <1>9, <1>10 DEF CalmActs

\* A calm step leaves in hand what was.
LEMMA CalmHand ==
  ASSUME ShapeInv, ShapeInv', SameKinds, NEW g \in Goroutines, CalmMoves(g)
  PROVE  \A h \in Goroutines : SameHand(h)
<1>1. PICK k, m :
        /\ Moves(g, k, m) /\ k <= Len(stack[g])
        /\ \A n \in DOMAIN stack[g] : n <= k \/ stack[g][n].fn \notin {"visit", "dispose"}
        /\ m >= 1 => Fresh(stack'[g][k + 1])
        /\ m = 2 => Fresh(stack'[g][k + 2])
  BY DEF CalmMoves
<1>2. PICK n : n = Len(stack[g])
  OBVIOUS
<1>3. /\ k \in Nat /\ m \in 0..2 /\ IsSeq(stack'[g]) /\ Len(stack'[g]) = k + m /\ n \in Nat /\ DOMAIN stack[g] = 1..n /\ k <= n
      /\ IsSeq(stack[g]) /\ DOMAIN stack'[g] = 1..(k + m)
  BY <1>1, <1>2, SeqFacts DEF Moves, ShapeInv, ShapeStacks, StacksAre
<1>4. \A h \in Goroutines \ {g} : SameHand(h)
  BY <1>1, HandStays DEF Moves
<1>5. ASSUME Empty(g), Empty(g)' PROVE SameHand(g)
  BY <1>5 DEF Empty, SameHand
<1>6. k < n => Empty(g)
  <2>1. SUFFICES ASSUME k < n PROVE Empty(g)
    OBVIOUS
  <2>2. n \in 1..n /\ ~(n <= k)
    BY <1>3, <2>1
  <2>3. top(g).fn \notin {"visit", "dispose"}
    BY <1>1, <1>2, <1>3, <2>2 DEF top
  <2> QED
    BY <2>3, PlainHand DEF Plainly
<1>7. CASE m = 0 /\ k = n
  <2>1. \A i \in 1..n : stack'[g][i] = stack[g][i]
    BY <1>1, <1>7 DEF Moves
  <2>2. Len(stack'[g]) = n
    BY <1>3, <1>7
  <2>3. (stack'[g] = <<>> <=> stack[g] = <<>>) /\ (stack[g] # <<>> => n \in 1..n)
    BY <1>2, <1>3, <2>2, SeqFacts
  <2>4. stack[g] # <<>> => top(g)' = top(g)
    BY <1>2, <2>1, <2>2, <2>3 DEF top
  <2>5. stack[g] # <<>> => FrameOK(top(g))
    BY TopFacts DEF ShapeInv
  <2>6. stack[g] # <<>> /\ top(g).fn = "visit" => (Made(top(g).site)' <=> Made(top(g).site))
    BY <2>4, <2>5 DEF FrameOK, Made, SameKinds
  <2>7. /\ At(g, "dispose", "enter")' <=> At(g, "dispose", "enter")
        /\ At(g, "dispose", "list")' <=> At(g, "dispose", "list")
        /\ At(g, "visit", "capture")' <=> At(g, "visit", "capture")
    BY <2>3, <2>4 DEF At
  <2>8. /\ At(g, "visit", "capture") => stack[g] # <<>> /\ top(g).fn = "visit"
        /\ At(g, "dispose", "enter") => stack[g] # <<>>
        /\ At(g, "dispose", "list") => stack[g] # <<>>
    BY DEF At
  <2>9. Held(g)' = Held(g)
    BY <2>4, <2>6, <2>7, <2>8 DEF Held
  <2>10. SameHand(g)
    BY <2>4, <2>7, <2>8, <2>9 DEF SameHand, Entered, Listed, List
  <2> QED
    BY <1>4, <2>10
<1>8. CASE m = 0 /\ k < n
  <2>1. CASE k = 0
    <3>1. stack'[g] = <<>>
      BY <1>3, <1>8, <2>1, SeqFacts
    <3>2. Empty(g)'
      BY <3>1 DEF Empty, Held, Entered, Listed, List, At
    <3> QED
      BY <1>4, <1>5, <1>6, <1>8, <3>2
  <2>2. CASE k # 0
    <3>1. PICK f : f = stack[g][k]
      OBVIOUS
    <3>2. k \in 1..n /\ k \in 1..k /\ Len(stack'[g]) = k
      BY <1>3, <1>8, <2>2
    <3>3. Plainly(f) /\ FrameOK(f) /\ stack'[g][k] = f
      BY <1>1, <1>2, <1>3, <1>8, <3>1, <3>2, BelowFacts DEF ShapeInv, ShapeStacks, FramesOK, Moves
    <3>4. Plainly(f)' /\ top(g)' = f
      BY <3>2, <3>3, PlainlyStays DEF top
    <3>5. Empty(g)'
      BY <3>4 DEF Empty, Plainly, Held, Entered, Listed, List, At
    <3> QED
      BY <1>4, <1>5, <1>6, <1>8, <3>5
  <2> QED
    BY <2>1, <2>2
<1>9. CASE m # 0
  <2>1. PICK f : f = top(g)'
    OBVIOUS
  <2>2. f.fn # "dispose" /\ (f.fn = "visit" => f.pc = "enter")
    <3>1. CASE m = 1
      <4>1. f = stack'[g][k + 1] /\ m >= 1
        BY <1>3, <2>1, <3>1 DEF top
      <4> QED
        BY <1>1, <4>1 DEF Fresh, Plain
    <3>2. CASE m = 2
      <4>1. f = stack'[g][k + 2]
        BY <1>3, <2>1, <3>2 DEF top
      <4> QED
        BY <1>1, <3>2, <4>1 DEF Fresh, Plain
    <3> QED
      BY <1>3, <1>9, <3>1, <3>2
  <2>3. Empty(g)'
    BY <2>1, <2>2 DEF Empty, Held, Entered, Listed, List, At
  <2>4. k = n => Empty(g)
    <3>1. SUFFICES ASSUME k = n, stack[g] # <<>> PROVE Empty(g)
      BY PlainHand
    <3>2. k # 0 /\ n \in 1..n /\ k \in 1..k
      BY <1>2, <1>3, <3>1, SeqFacts
    <3>3. k \in DOMAIN stack'[g] /\ k < Len(stack'[g])
      BY <1>3, <1>9, <3>2
    <3>4. CalledBy(stack'[g][k], stack'[g][k + 1])
      <4>1. k + 1 \in DOMAIN stack'[g] /\ k + 1 # 1 /\ (k + 1) - 1 = k
        BY <1>3, <1>9, <3>2
      <4> QED
        BY <4>1 DEF ShapeInv, ShapeStacks, CallsOK
    <3>5. stack'[g][k] = top(g)
      BY <1>1, <1>2, <3>1, <3>2 DEF Moves, top
    <3>6. Plainly(top(g))
      BY <3>4, <3>5 DEF CalledBy, Plainly
    <3> QED
      BY <3>6, PlainHand
  <2> QED
    BY <1>3, <1>4, <1>5, <1>6, <2>3, <2>4
<1> QED
  BY <1>3, <1>7, <1>8, <1>9

\* A calm step hands on values that have been handed out.
LEMMA CalmValues ==
  ASSUME ShapeInv, Values, NEW g \in Goroutines, Calm(g), NewSites
  PROVE  Values'
<1>1. Still /\ UNCHANGED instances
  BY DEF Calm, CalmRest
<1>2. HandedOut /\ SameKinds
  BY <1>1 DEF HandedOut, SameKinds, Still
<1>3. \A v : ValueOK(v) => ValueOK(v)'
  BY <1>2, ValueStays
<1>4. CachesOK /\ ReturnsOK /\ HandsOnAll
  BY DEF Values
<1>5. \A c \in DOMAIN sites' : sites'[c].value = NoValue \/ ValueOK(sites[c].value)'
  <2>1. SUFFICES ASSUME NEW c \in DOMAIN sites', c \in DOMAIN sites PROVE sites'[c].value = NoValue \/ ValueOK(sites[c].value)'
    BY DEF NewSites
  <2>2. PICK v : v = sites[c].value
    OBVIOUS
  <2>3. v = NoValue \/ ValueOK(v)
    BY <1>4, <2>1, <2>2 DEF CachesOK
  <2>4. sites'[c].value = v
    BY <1>1, <2>1, <2>2 DEF Still
  <2> QED
    BY <1>3, <2>3, <2>4 DEF NoValue
<1>6. \A s \in AllScopes : \A k \in DOMAIN resolved'[s] : ValueOK(resolved[s][k])'
  <2>1. SUFFICES ASSUME NEW s \in AllScopes, NEW k \in DOMAIN resolved'[s] PROVE ValueOK(resolved[s][k])'
    OBVIOUS
  <2>2. PICK v : v = resolved[s][k]
    OBVIOUS
  <2>3. ValueOK(v) /\ resolved'[s][k] = v
    BY <1>1, <1>4, <2>1, <2>2 DEF CachesOK, Still
  <2> QED
    BY <1>3, <2>3
<1>7. \A x \in DOMAIN realized' : realized'[x].value = NoValue \/ ValueOK(realized[x].value)'
  <2>1. SUFFICES ASSUME NEW x \in DOMAIN realized', realized'[x].value # NoValue PROVE ValueOK(realized[x].value)'
    OBVIOUS
  <2>2. PICK v : v = realized'[x].value
    OBVIOUS
  <2>3. (x \in DOMAIN realized /\ realized'[x] = realized[x]) \/ (ret[g].ok /\ v = ret[g].v)
    BY <2>1, <2>2 DEF Calm, CalmRealized
  <2>4. ValueOK(v)
    BY <1>4, <2>1, <2>2, <2>3 DEF CachesOK, ReturnsOK
  <2> QED
    BY <1>3, <2>2, <2>4
<1>8. \A i \in DOMAIN instances' : ValueOK(instances[i].deps)'
  <2>1. SUFFICES ASSUME NEW i \in DOMAIN instances' PROVE ValueOK(instances[i].deps)'
    OBVIOUS
  <2>2. PICK v : v = instances[i].deps
    OBVIOUS
  <2>3. ValueOK(v) /\ instances'[i].deps = v
    BY <1>1, <1>4, <2>1, <2>2 DEF CachesOK
  <2> QED
    BY <1>3, <2>3
<1>9. CachesOK'
  BY <1>5, <1>6, <1>7, <1>8 DEF CachesOK, AllScopes, NoValue
<1>10. ReturnsOK'
  <2>1. SUFFICES ASSUME NEW h \in Goroutines, ret'[h].ok PROVE ValueOK(ret[h].v)'
    BY DEF ReturnsOK
  <2>2. PICK v : v = ret'[h].v
    OBVIOUS
  <2>3. \/ ret'[h] = ret[h] \/ v = {}
        \/ \E x \in DOMAIN realized : v = realized[x].value /\ realized[x].value # NoValue
    BY <2>1, <2>2 DEF Calm, CalmRet
  <2>4. ValueOK(v)
    BY <1>4, <2>1, <2>2, <2>3 DEF CachesOK, ReturnsOK, ValueOK
  <2> QED
    BY <1>3, <2>2, <2>4
<1>11. HandsOnAll'
  <2>1. PICK k, m :
          /\ Moves(g, k, m) /\ k <= Len(stack[g])
          /\ m >= 1 => Fresh(stack'[g][k + 1])
          /\ m = 2 => Fresh(stack'[g][k + 2])
    BY DEF Calm, CalmMoves
  <2>2. ASSUME NEW f, Fresh(f) PROVE HandsOn(f)'
    BY <2>2 DEF Fresh, Plain, HandsOn
  <2>3. (m >= 1 => HandsOn(stack[g][k + 1])') /\ (m = 2 => HandsOn(stack[g][k + 2])')
    BY <2>1, <2>2
  <2> QED
    BY <1>2, <1>4, <2>1, <2>3, HandsOnMoves
<1> QED
  BY <1>9, <1>10, <1>11 DEF Values

\* A calm step keeps what is known of the disposables.
LEMMA CalmDispose ==
  ASSUME ShapeInv, ShapeInv', DisposeInv, NEW g \in Goroutines, Calm(g), NewSites
  PROVE  DisposeInv'
<1>1. Values' 
  BY CalmValues DEF DisposeInv
<1>2. CalmMoves(g) /\ SameKinds /\ UNCHANGED <<descriptors, instances, disposables, disposed, cleared>>
  BY DEF Calm, CalmRest, Still, SameKinds
<1>3. \A h \in Goroutines : SameHand(h)
  BY <1>2, CalmHand
<1>4. Disposing'
  BY <1>2, <1>3, QuietDisposing DEF DisposeInv
<1> QED
  BY <1>1, <1>4 DEF DisposeInv

\* A step of a visit that builds nothing and hands nothing out.
VisitsOn(g) ==
    /\ stack[g] # <<>> /\ Plainly(top(g))
    /\ UNCHANGED <<descriptors, sites, resolved, realized, instances, disposables, disposed, cleared>>

\* What a visit leaves alone that only goes on.
LEMMA VisitsOnFacts ==
  ASSUME NEW g, VisitsOn(g), DisposeInv
  PROVE  /\ HandedOut /\ SameKinds /\ CachesOK' /\ Empty(g)
         /\ \A v : ValueOK(v) => ValueOK(v)'
         /\ \A f : HandsOn(f) => HandsOn(f)'
<1>1. HandedOut /\ SameKinds
  BY DEF VisitsOn, HandedOut, SameKinds
<1>2. CachesOK'
  BY DEF DisposeInv, Values, CachesOK, VisitsOn, ValueOK
<1>3. \A f : HandsOn(f) => HandsOn(f)'
  BY DEF HandsOn, Made, ValueOK, VisitsOn
<1>4. Empty(g)
  BY PlainHand DEF VisitsOn
<1> QED
  BY <1>1, <1>2, <1>3, <1>4, ValueStays

\* A visit returns a value that has been handed out.
LEMMA ReturnQuiet ==
  ASSUME ShapeInv, DisposeInv, NEW g \in Goroutines, VisitsOn(g), NEW r, Return(g, r), r.ok => ValueOK(r.v)
  PROVE  DisposeInv'
<1>0. stack[g] # <<>> /\ UNCHANGED <<descriptors, instances, disposables, disposed, cleared>>
  BY DEF VisitsOn
<1>1. HandedOut /\ SameKinds /\ CachesOK' /\ Empty(g) /\ \A v : ValueOK(v) => ValueOK(v)'
  BY VisitsOnFacts
<1>2. Empty(g)' /\ \A h \in Goroutines \ {g} : SameHand(h)
  BY <1>0, <1>1, ReturnHand
<1>3. \A h \in Goroutines : SameHand(h)
  BY <1>1, <1>2 DEF SameHand, Empty
<1>4. Disposing'
  BY <1>0, <1>3, QuietDisposing DEF DisposeInv
<1>5. PICK n : n = Len(stack[g])
  OBVIOUS
<1>6. Moves(g, n - 1, 0) /\ n \in Nat \ {0} /\ ret'[g] = r /\ \A h \in Goroutines \ {g} : ret'[h] = ret[h]
  BY <1>0, <1>5, ReturnMoves, TopFacts DEF ShapeInv, ShapeStacks
<1>7. PICK k : k = n - 1
  OBVIOUS
<1>8. k <= n /\ 0 # 2 /\ ~(0 >= 1)
  BY <1>6, <1>7
<1>9. HandsOnAll'
  BY <1>1, <1>5, <1>6, <1>7, <1>8, HandsOnMoves DEF DisposeInv, Values
<1>10. ReturnsOK'
  <2>1. SUFFICES ASSUME NEW h \in Goroutines, ret'[h].ok PROVE ValueOK(ret[h].v)'
    BY DEF ReturnsOK
  <2>2. PICK v : v = ret'[h].v
    OBVIOUS
  <2>3. ValueOK(v)
    BY <1>6, <2>1, <2>2 DEF DisposeInv, Values, ReturnsOK
  <2> QED
    BY <1>1, <2>2, <2>3
<1> QED
  BY <1>1, <1>4, <1>9, <1>10 DEF DisposeInv, Values

\* A visit goes on.
LEMMA GotoQuiet ==
  ASSUME ShapeInv, DisposeInv, NEW g \in Goroutines, VisitsOn(g), NEW f, Goto(g, f), Plainly(f), HandsOn(f)
  PROVE  DisposeInv'
<1>0. stack[g] # <<>> /\ UNCHANGED <<descriptors, sites, instances, disposables, disposed, cleared>>
  BY DEF VisitsOn
<1>1. HandedOut /\ SameKinds /\ CachesOK' /\ Empty(g) /\ (\A v : ValueOK(v) => ValueOK(v)') /\ HandsOn(f)'
  BY VisitsOnFacts
<1>2. stack'[g] # <<>> /\ top(g)' = f /\ \A h \in Goroutines \ {g} : SameHand(h)
  BY <1>0, <1>1, GotoHand
<1>3. Empty(g)'
  <2>1. Plainly(f)'
    BY <1>0 DEF Plainly, Made
  <2> QED
    BY <1>2, <2>1 DEF Empty, Plainly, Held, Entered, Listed, List, At
<1>4. \A h \in Goroutines : SameHand(h)
  BY <1>1, <1>2, <1>3 DEF SameHand, Empty
<1>5. Disposing'
  BY <1>0, <1>4, QuietDisposing DEF DisposeInv
<1>6. PICK n : n = Len(stack[g])
  OBVIOUS
<1>7. /\ Moves(g, n - 1, 1) /\ n \in Nat \ {0} /\ stack'[g][n] = f /\ ret'[g] = NoRet
      /\ \A h \in Goroutines \ {g} : ret'[h] = ret[h]
  BY <1>0, <1>6, GotoMoves, TopFacts DEF ShapeInv, ShapeStacks
<1>8. PICK k : k = n - 1
  OBVIOUS
<1>9. k <= n /\ k + 1 = n /\ 1 # 2 /\ 1 >= 1
  BY <1>7, <1>8
<1>10. HandsOnAll'
  BY <1>1, <1>6, <1>7, <1>8, <1>9, HandsOnMoves DEF DisposeInv, Values
<1>11. ReturnsOK'
  <2>1. SUFFICES ASSUME NEW h \in Goroutines, ret'[h].ok PROVE ValueOK(ret[h].v)'
    BY DEF ReturnsOK
  <2>2. PICK v : v = ret'[h].v
    OBVIOUS
  <2>3. ValueOK(v)
    BY <1>7, <2>1, <2>2 DEF DisposeInv, Values, ReturnsOK, NoRet, Ok, ValueOK
  <2> QED
    BY <1>1, <2>2, <2>3
<1> QED
  BY <1>1, <1>5, <1>10, <1>11 DEF DisposeInv, Values

\* A visit calls.
LEMMA CallQuiet ==
  ASSUME ShapeInv, DisposeInv, NEW g \in Goroutines, VisitsOn(g), NEW f, NEW f2, Call(g, f, f2), HandsOn(f),
         Plainly(f2), HandsOn(f2)
  PROVE  DisposeInv'
<1>0. stack[g] # <<>> /\ UNCHANGED <<descriptors, sites, instances, disposables, disposed, cleared>>
  BY DEF VisitsOn
<1>1. /\ HandedOut /\ SameKinds /\ CachesOK' /\ Empty(g) /\ (\A v : ValueOK(v) => ValueOK(v)')
      /\ HandsOn(f)' /\ HandsOn(f2)'
  BY VisitsOnFacts
<1>2. stack'[g] # <<>> /\ top(g)' = f2 /\ \A h \in Goroutines \ {g} : SameHand(h)
  BY <1>0, <1>1, CallHand
<1>3. Empty(g)'
  <2>1. Plainly(f2)'
    BY <1>0 DEF Plainly, Made
  <2> QED
    BY <1>2, <2>1 DEF Empty, Plainly, Held, Entered, Listed, List, At
<1>4. \A h \in Goroutines : SameHand(h)
  BY <1>1, <1>2, <1>3 DEF SameHand, Empty
<1>5. Disposing'
  BY <1>0, <1>4, QuietDisposing DEF DisposeInv
<1>6. PICK n : n = Len(stack[g])
  OBVIOUS
<1>7. /\ Moves(g, n - 1, 2) /\ n \in Nat \ {0} /\ stack'[g][n] = f /\ stack'[g][n + 1] = f2 /\ ret'[g] = NoRet
      /\ \A h \in Goroutines \ {g} : ret'[h] = ret[h]
  BY <1>0, <1>6, CallMoves, TopFacts DEF ShapeInv, ShapeStacks
<1>8. PICK k : k = n - 1
  OBVIOUS
<1>9. k <= n /\ k + 1 = n /\ k + 2 = n + 1
  BY <1>7, <1>8
<1>10. HandsOnAll'
  BY <1>1, <1>6, <1>7, <1>8, <1>9, HandsOnMoves DEF DisposeInv, Values
<1>11. ReturnsOK'
  <2>1. SUFFICES ASSUME NEW h \in Goroutines, ret'[h].ok PROVE ValueOK(ret[h].v)'
    BY DEF ReturnsOK
  <2>2. PICK v : v = ret'[h].v
    OBVIOUS
  <2>3. ValueOK(v)
    BY <1>7, <2>1, <2>2 DEF DisposeInv, Values, ReturnsOK, NoRet, Ok, ValueOK
  <2> QED
    BY <1>1, <2>2, <2>3
<1> QED
  BY <1>1, <1>5, <1>10, <1>11 DEF DisposeInv, Values

\* What the top frame of a visit has collected.
LEMMA TopHandsOn ==
  ASSUME ShapeInv, DisposeInv, NEW g \in Goroutines, stack[g] # <<>>, NEW f, f = top(g), f.fn = "visit", f.pc # "capture"
  PROVE  Plainly(f) /\ HandsOn(f) /\ \A n \in DOMAIN f.acc : ValueOK(f.acc[n])
<1>1. Len(stack[g]) \in DOMAIN stack[g] /\ top(g) = stack[g][Len(stack[g])]
  BY TopFacts DEF ShapeInv
<1>2. HandsOn(f)
  BY <1>1 DEF DisposeInv, Values, HandsOnAll
<1> QED
  BY <1>2 DEF Plainly, HandsOn

\* A visit that only goes on.
LEMMA GoesOnDispose ==
  ASSUME ShapeInv, DisposeInv, NEW g \in Goroutines, VisitsOn(g), NEW f, f = top(g), f.fn = "visit", f.pc # "capture",
         NEW e, Goto(g, e), e.fn = "visit", e.pc # "capture", e.acc = f.acc
  PROVE  DisposeInv'
<1>1. \A n \in DOMAIN f.acc : ValueOK(f.acc[n])
  BY TopHandsOn DEF VisitsOn
<1>2. Plainly(e) /\ HandsOn(e)
  BY <1>1 DEF Plainly, HandsOn
<1> QED
  BY <1>2, GotoQuiet

\* visitCallSite keeps what is known of the disposables.
LEMMA visitCallSiteDispose ==
  ASSUME ShapeInv, DisposeInv, NEW g \in Goroutines, visitCallSite(g)
  PROVE  DisposeInv'
<1>1. PICK f : f = top(g)
  OBVIOUS
<1>2. stack[g] # <<>> /\ FrameOK(f) /\ IsFrame(f) /\ f.fn = "visit" /\ f.pc = "enter" /\ f.site \in DOMAIN sites
  BY <1>1, AtFacts DEF visitCallSite, FrameOK
<1>3. VisitsOn(g)
  BY <1>1, <1>2 DEF visitCallSite, VisitsOn, Plainly, builder, callSites, accessors, scopeVars
<1>4. CASE sites[f.site].value # NoValue /\ Return(g, Ok(sites[f.site].value))
  <2>1. PICK r : r = Ok(sites[f.site].value)
    OBVIOUS
  <2>2. ValueOK(r.v)
    BY <1>2, <1>4, <2>1 DEF Ok, DisposeInv, Values, CachesOK
  <2> QED
    BY <1>3, <1>4, <2>1, <2>2, ReturnQuiet
<1>5. ASSUME NEW e, Goto(g, e), e.fn = "visit", e.pc # "capture", e.acc = f.acc PROVE DisposeInv'
  BY <1>1, <1>2, <1>3, <1>5, GoesOnDispose
<1>6. CASE Goto(g, [f EXCEPT !.pc = "lockSite"])
  <2>1. PICK e : e = [f EXCEPT !.pc = "lockSite"]
    OBVIOUS
  <2>2. e.fn = "visit" /\ e.pc = "lockSite" /\ e.acc = f.acc
    BY <1>2, <2>1 DEF IsFrame
  <2> QED
    BY <1>5, <1>6, <2>1, <2>2
<1>7. CASE Goto(g, [f EXCEPT !.pc = "build"])
  <2>1. PICK e : e = [f EXCEPT !.pc = "build"]
    OBVIOUS
  <2>2. e.fn = "visit" /\ e.pc = "build" /\ e.acc = f.acc
    BY <1>2, <2>1 DEF IsFrame
  <2> QED
    BY <1>5, <1>7, <2>1, <2>2
<1>8. CASE Goto(g, [f EXCEPT !.nilMap = f.scope \in cleared, !.pc = IF f.held THEN "lookup" ELSE "lockScope"])
  <2>0. PICK b : b = (f.scope \in cleared)
    OBVIOUS
  <2>1. PICK pc : pc = IF f.held THEN "lookup" ELSE "lockScope"
    OBVIOUS
  <2>2. PICK e : e = [f EXCEPT !.nilMap = b, !.pc = pc]
    OBVIOUS
  <2>3. e.fn = "visit" /\ e.pc = pc /\ e.acc = f.acc
    BY <1>2, <2>2 DEF IsFrame
  <2>4. Goto(g, e) /\ pc # "capture"
    BY <1>8, <2>0, <2>1, <2>2
  <2> QED
    BY <1>5, <2>3, <2>4
<1> QED
  BY <1>1, <1>4, <1>6, <1>7, <1>8 DEF visitCallSite

\* visitRootCache keeps what is known of the disposables.
LEMMA visitRootCacheDispose ==
  ASSUME ShapeInv, DisposeInv, NEW g \in Goroutines, visitRootCache(g)
  PROVE  DisposeInv'
<1>1. PICK f : f = top(g)
  OBVIOUS
<1>2. stack[g] # <<>> /\ IsFrame(f) /\ f.fn = "visit" /\ f.pc = "lockSite" /\ f.site \in DOMAIN sites
  BY <1>1, AtFacts DEF visitRootCache, FrameOK
<1>3. VisitsOn(g)
  BY <1>1, <1>2 DEF visitRootCache, VisitsOn, Plainly, builder, callSites, accessors, scopeVars
<1>4. CASE sites[f.site].value # NoValue /\ Return(g, Ok(sites[f.site].value))
  <2>1. PICK r : r = Ok(sites[f.site].value)
    OBVIOUS
  <2>2. ValueOK(r.v)
    BY <1>2, <1>4, <2>1 DEF Ok, DisposeInv, Values, CachesOK
  <2> QED
    BY <1>3, <1>4, <2>1, <2>2, ReturnQuiet
<1>5. PICK e : e = [f EXCEPT !.pc = "build", !.scope = Root]
  OBVIOUS
<1>6. CASE Goto(g, e)
  <2>1. e.fn = "visit" /\ e.pc = "build" /\ e.acc = f.acc
    BY <1>2, <1>5 DEF IsFrame
  <2> QED
    BY <1>1, <1>2, <1>3, <1>6, <2>1, GoesOnDispose
<1> QED
  BY <1>1, <1>4, <1>5, <1>6 DEF visitRootCache

\* visitScopeCache keeps what is known of the disposables.
LEMMA visitScopeCacheDispose ==
  ASSUME ShapeInv, DisposeInv, NEW g \in Goroutines, visitScopeCache(g)
  PROVE  DisposeInv'
<1>1. PICK f : f = top(g)
  OBVIOUS
<1>2. stack[g] # <<>> /\ FrameOK(f) /\ IsFrame(f) /\ f.fn = "visit" /\ f.pc \in {"lockScope", "lookup"}
  BY <1>1, AtFacts DEF visitScopeCache
<1>3. VisitsOn(g)
  BY <1>1, <1>2 DEF visitScopeCache, VisitsOn, Plainly, builder, callSites, accessors, scopeVars
<1>4. CASE cacheKey(f) \in DOMAIN resolved[f.scope] /\ Return(g, Ok(resolved[f.scope][cacheKey(f)]))
  <2>1. PICK r : r = Ok(resolved[f.scope][cacheKey(f)])
    OBVIOUS
  <2>2. f.scope \in AllScopes
    BY <1>2 DEF FrameOK
  <2>3. ValueOK(r.v)
    BY <1>4, <2>1, <2>2 DEF Ok, DisposeInv, Values, CachesOK
  <2> QED
    BY <1>3, <1>4, <2>1, <2>3, ReturnQuiet
<1>5. PICK e : e = [f EXCEPT !.pc = "build"]
  OBVIOUS
<1>6. CASE Goto(g, e)
  <2>1. e.fn = "visit" /\ e.pc = "build" /\ e.acc = f.acc
    BY <1>2, <1>5 DEF IsFrame
  <2> QED
    BY <1>1, <1>2, <1>3, <1>6, <2>1, GoesOnDispose
<1> QED
  BY <1>1, <1>4, <1>5, <1>6 DEF visitScopeCache

\* visitPart keeps what is known of the disposables.
LEMMA visitPartDispose ==
  ASSUME ShapeInv, DisposeInv, NEW g \in Goroutines, visitPart(g)
  PROVE  DisposeInv'
<1>1. PICK f : f = top(g)
  OBVIOUS
<1>2. stack[g] # <<>> /\ FrameOK(f) /\ IsFrame(f) /\ f.fn = "visit" /\ f.pc \in {"build", "part"}
  BY <1>1, AtFacts DEF visitPart, At
<1>3. VisitsOn(g)
  BY <1>1, <1>2 DEF visitPart, VisitsOn, Plainly, builder, callSites, accessors, scopeVars
<1>4. \A n \in DOMAIN f.acc : ValueOK(f.acc[n])
  BY <1>1, <1>2, TopHandsOn
<1>5. CASE f.pc = "part" /\ Return(g, Err)
  <2>1. PICK r : r = Err
    OBVIOUS
  <2>2. ~r.ok
    BY <2>1 DEF Err
  <2> QED
    BY <1>3, <1>5, <2>1, <2>2, ReturnQuiet
<1>6. CASE f.pc = "part" /\ ret[g].ok /\ Goto(g, [f EXCEPT !.pc = "build", !.acc = Append(@, ret[g].v)])
  <2>1. PICK e : e = [f EXCEPT !.pc = "build", !.acc = Append(@, ret[g].v)]
    OBVIOUS
  <2>2. e.pc = "build" /\ e.fn = "visit" /\ e.acc = Append(f.acc, ret[g].v)
    BY <1>2, <2>1 DEF IsFrame
  <2>3. ValueOK(ret[g].v)
    BY <1>6 DEF DisposeInv, Values, ReturnsOK
  <2>4. Len(f.acc) \in Nat /\ DOMAIN f.acc = 1..Len(f.acc)
    BY <1>2, SeqFacts DEF FrameOK
  <2>5. /\ IsSeq(e.acc) /\ Len(e.acc) = Len(f.acc) + 1 /\ e.acc[Len(f.acc) + 1] = ret[g].v
        /\ \A n \in 1..Len(f.acc) : e.acc[n] = f.acc[n]
    BY <1>2, <2>2, AppendFacts DEF FrameOK
  <2>6. DOMAIN e.acc = 1..Len(f.acc) + 1
    BY <2>5, SeqFacts
  <2>7. \A n \in DOMAIN e.acc : n \in 1..Len(f.acc) \/ n = Len(f.acc) + 1
    BY <2>4, <2>6
  <2>8. \A n \in DOMAIN e.acc : ValueOK(e.acc[n])
    BY <1>4, <2>3, <2>4, <2>5, <2>7
  <2>9. Plainly(e) /\ HandsOn(e)
    BY <2>2, <2>8 DEF Plainly, HandsOn
  <2> QED
    BY <1>3, <1>6, <2>1, <2>9, GotoQuiet
<1>7. CASE next(g, f)
  <2>1. PICK c, n : c = sites[f.site] /\ n = Len(f.acc) + 1
    OBVIOUS
  <2>2. PICK e : e = [f EXCEPT !.pc = "part"]
    OBVIOUS
  <2>3. e.fn = "visit" /\ e.pc = "part" /\ e.acc = f.acc
    BY <1>2, <2>2 DEF IsFrame
  <2>4. HandsOn(e)
    BY <1>4, <2>3 DEF HandsOn
  <2>5. ASSUME NEW e2, Call(g, e, e2), e2.fn = "get" \/ (e2.fn = "visit" /\ e2.pc = "enter" /\ e2.acc = <<>>) PROVE DisposeInv'
    <3>1. Plainly(e2) /\ HandsOn(e2)
      BY <2>5 DEF Plainly, HandsOn
    <3> QED
      BY <1>3, <2>4, <2>5, <3>1, CallQuiet
  <2>6. CASE c.kind = "factory"
    <3>1. PICK e2 : e2 = getFrame(parts(c)[n], NoKey, f.scope)
      OBVIOUS
    <3>2. e2.fn = "get"
      BY <3>1, GetFrame
    <3>3. Call(g, e, e2)
      BY <1>7, <2>1, <2>2, <2>6, <3>1 DEF next
    <3> QED
      BY <2>5, <3>2, <3>3
  <2>7. CASE c.kind # "factory"
    <3>1. PICK v : v = visitFrame(parts(c)[n], f.scope)
      OBVIOUS
    <3>2. PICK b : b = (f.held \/ inScope(f))
      OBVIOUS
    <3>3. PICK e2 : e2 = [v EXCEPT !.held = b]
      OBVIOUS
    <3>4. IsFrame(v) /\ v.fn = "visit" /\ v.pc = "enter" /\ v.acc = <<>>
      BY <3>1, VisitFrame
    <3>5. e2.fn = "visit" /\ e2.pc = "enter" /\ e2.acc = <<>>
      BY <3>3, <3>4 DEF IsFrame
    <3>6. Call(g, e, e2)
      BY <1>7, <2>1, <2>2, <2>7, <3>1, <3>2, <3>3 DEF next
    <3> QED
      BY <2>5, <3>5, <3>6
  <2> QED
    BY <2>6, <2>7
<1> QED
  BY <1>1, <1>5, <1>6, <1>7 DEF visitPart, At

\* One more instance, in g's hand.
LEMMA BuiltDisposing ==
  ASSUME Disposing, UNCHANGED <<descriptors, disposables, disposed, cleared>>, NEW g \in Goroutines, NEW id,
         DOMAIN instances' = DOMAIN instances \union {id}, id \notin DOMAIN instances,
         \A i \in DOMAIN instances : instances'[i] = instances[i],
         instances'[id].kept = FALSE, instances'[id].disposed = 0,
         \A h \in Goroutines \ {g} : SameHand(h), Empty(g),
         Held(g)' = {id}, Entered(g)' = {}, Listed(g)' = {}, List(g)' = <<>>
  PROVE  Disposing'
<1>1. \A h \in Goroutines : Entered(h)' = Entered(h) /\ Listed(h)' = Listed(h) /\ List(h)' = List(h)
  BY DEF SameHand, Empty
<1>2. \A h \in Goroutines : Held(h)' = IF h = g THEN {id} ELSE Held(h)
  BY DEF SameHand
<1>3. Held(g) = {} /\ \A h \in Goroutines : \A i \in Held(h) : i \in DOMAIN instances
  BY DEF Empty, Disposing, PendingOK
<1>4. PendingOK'
  BY <1>2, <1>3 DEF Disposing, PendingOK
<1>5. ASSUME NEW l, NEW s, ListOK(l, s) PROVE ListOK(l, s)'
  <2>1. \A n \in DOMAIN l : l[n] \in DOMAIN instances /\ l[n] # id /\ instances'[l[n]] = instances[l[n]]
    BY <1>5 DEF ListOK
  <2>2. \A n \in DOMAIN l : \A h \in Goroutines : l[n] \notin Held(h)'
    BY <1>2, <1>5, <2>1 DEF ListOK
  <2> QED
    BY <1>5, <2>1, <2>2 DEF ListOK
<1>6. ScopeListsOK'
  BY <1>1, <1>5 DEF Disposing, ScopeListsOK, AllScopes
<1>7. TakenListsOK'
  <2>1. ASSUME NEW h \in Goroutines, NEW s \in Listed(h) PROVE ListOK(List(h), s)'
    <3>1. PICK l : l = List(h)
      OBVIOUS
    <3>2. ListOK(l, s) /\ List(h)' = l
      BY <1>1, <2>1, <3>1 DEF Disposing, TakenListsOK
    <3>3. ListOK(l, s)'
      BY <1>5, <3>2
    <3> QED
      BY <3>2, <3>3
  <2> QED
    BY <1>1, <2>1 DEF Disposing, TakenListsOK
<1>8. ASSUME NEW i \in DOMAIN instances, Placed(i) PROVE Placed(i)'
  <2>1. instances'[i] = instances[i]
    OBVIOUS
  <2>2. ASSUME NEW h \in Goroutines, i \in Held(h) PROVE i \in Held(h)'
    BY <1>2, <1>3, <2>2
  <2> QED
    BY <1>1, <1>8, <2>1, <2>2 DEF Placed, InList
<1>9. Placed(id)'
  BY <1>2 DEF Placed
<1>10. DisposalsOK'
  <2>1. ASSUME NEW i \in DOMAIN instances'
        PROVE  /\ instances'[i].disposed \in {0, 1}
               /\ instances'[i].kept /\ instances'[i].disposed = 1 => instances'[i].scope \in cleared'
               /\ descriptors'[instances'[i].d].disposable => Placed(i)'
               /\ instances'[i].disposed = 1 =>
                    \A j \in DOMAIN instances' :
                      /\ i \in instances'[j].deps /\ instances'[j].scope = instances'[i].scope
                      /\ instances'[j].kept /\ descriptors'[instances'[j].d].disposable
                      => instances'[j].disposed = 1
    <3>1. CASE i = id
      BY <1>9, <3>1
    <3>2. CASE i \in DOMAIN instances
      BY <1>8, <3>2 DEF Disposing, DisposalsOK
    <3> QED
      BY <2>1, <3>1, <3>2
  <2> QED
    BY <2>1 DEF DisposalsOK
<1> QED
  BY <1>4, <1>6, <1>7, <1>10 DEF Disposing

\* The parts of a value have been handed out.
LEMMA Together ==
  ASSUME NEW acc, \A n \in DOMAIN acc : ValueOK(acc[n])
  PROVE  ValueOK(together(acc))
BY DEF ValueOK, together

\* construct keeps what is known of the disposables.
LEMMA constructDispose ==
  ASSUME ShapeInv, KeepInv, DisposeInv, NEW g \in Goroutines, construct(g)
  PROVE  DisposeInv'
<1>1. PICK f : f = top(g)
  OBVIOUS
<1>2. /\ stack[g] # <<>> /\ FrameOK(f) /\ f.fn = "visit" /\ f.pc = "build"
      /\ UNCHANGED <<descriptors, sites, resolved, realized, disposables, disposed, cleared>>
      /\ Constructs(g, f) \/ Gives(g, f) \/ Fails(g, f)
  BY <1>1, constructIs
<1>3. Plainly(f) /\ \A n \in DOMAIN f.acc : ValueOK(f.acc[n])
  BY <1>1, <1>2, TopHandsOn
<1>4. PICK v : v = together(f.acc)
  OBVIOUS
<1>5. ValueOK(v)
  BY <1>3, <1>4, Together
<1>6. CASE Fails(g, f)
  <2>1. PICK r : r = Err
    OBVIOUS
  <2>2. ~r.ok /\ Return(g, r)
    BY <1>6, <2>1 DEF Err, Fails
  <2>3. VisitsOn(g)
    BY <1>1, <1>2, <1>3, <1>6 DEF VisitsOn, Fails
  <2> QED
    BY <2>2, <2>3, ReturnQuiet
<1>7. CASE Gives(g, f)
  <2>1. PICK e : /\ ~Made(f.site) /\ UNCHANGED instances /\ Goto(g, e) /\ Capturing(e, f) /\ e.acc = <<v>>
    BY <1>4, <1>7 DEF Gives
  <2>2. VisitsOn(g)
    BY <1>1, <1>2, <1>3, <2>1 DEF VisitsOn
  <2>3. e.acc[1] = v
    BY <2>1
  <2>4. Plainly(e) /\ HandsOn(e)
    BY <1>5, <2>1, <2>3 DEF Plainly, HandsOn, Capturing
  <2> QED
    BY <2>1, <2>2, <2>4, GotoQuiet
<1>8. CASE Constructs(g, f)
  <2>1. PICK e, id : Made(f.site) /\ Constructed(f, id) /\ Goto(g, e) /\ Capturing(e, f) /\ e.d = id
    BY <1>8 DEF Constructs
  <2>2. /\ DOMAIN instances' = DOMAIN instances \union {id} /\ id \notin DOMAIN instances
        /\ (\A i \in DOMAIN instances : instances'[i] = instances[i])
        /\ instances'[id].kept = FALSE /\ instances'[id].disposed = 0 /\ instances'[id].deps = v
    BY <1>4, <2>1 DEF Constructed
  <2>3. HandedOut /\ SameKinds
    BY <1>2, <2>2 DEF HandedOut, SameKinds
  <2>4. \A x : ValueOK(x) => ValueOK(x)'
    BY <2>3, ValueStays
  <2>5. stack'[g] # <<>> /\ top(g)' = e /\ \A h \in Goroutines \ {g} : SameHand(h)
    BY <1>2, <2>1, <2>3, GotoHand
  <2>6. Empty(g)
    BY <1>1, <1>3, PlainHand
  <2>7. Held(g)' = {id} /\ Entered(g)' = {} /\ Listed(g)' = {} /\ List(g)' = <<>>
    <3>1. e.fn = "visit" /\ e.pc = "capture" /\ Made(e.site)'
      BY <1>2, <2>1 DEF Capturing, Made
    <3>2. At(g, "visit", "capture")' /\ ~At(g, "dispose", "enter")' /\ ~At(g, "dispose", "list")' /\ Made(top(g).site)'
      BY <2>5, <3>1 DEF At
    <3> QED
      BY <2>1, <2>5, <3>2 DEF Held, Entered, Listed, List
  <2>8. Disposing'
    BY <1>2, <2>2, <2>5, <2>6, <2>7, BuiltDisposing DEF DisposeInv
  <2>9. CachesOK'
    <3>1. CachesOK
      BY DEF DisposeInv, Values
    <3>2. ASSUME NEW i \in DOMAIN instances' PROVE ValueOK(instances[i].deps)'
      <4>1. PICK x : x = instances'[i].deps
        OBVIOUS
      <4>2. ValueOK(x)
        BY <1>5, <2>2, <3>1, <3>2, <4>1 DEF CachesOK
      <4> QED
        BY <2>4, <4>1, <4>2
    <3>3. \A c \in DOMAIN sites : sites[c].value = NoValue \/ ValueOK(sites[c].value)'
      BY <1>2, <2>4, <3>1 DEF CachesOK
    <3>4. \A s \in AllScopes : \A k \in DOMAIN resolved[s] : ValueOK(resolved[s][k])'
      BY <1>2, <2>4, <3>1 DEF CachesOK
    <3>5. \A k \in DOMAIN realized : realized[k].value = NoValue \/ ValueOK(realized[k].value)'
      BY <1>2, <2>4, <3>1 DEF CachesOK
    <3> QED
      BY <1>2, <3>2, <3>3, <3>4, <3>5 DEF CachesOK, AllScopes, NoValue
  <2>10. PICK n : n = Len(stack[g])
    OBVIOUS
  <2>11. /\ Moves(g, n - 1, 1) /\ n \in Nat \ {0} /\ stack'[g][n] = e /\ ret'[g] = NoRet
         /\ \A h \in Goroutines \ {g} : ret'[h] = ret[h]
    BY <1>2, <2>1, <2>10, GotoMoves, TopFacts DEF ShapeInv, ShapeStacks
  <2>12. PICK k : k = n - 1
    OBVIOUS
  <2>13. k <= n /\ k + 1 = n /\ 1 # 2 /\ 1 >= 1
    BY <2>11, <2>12
  <2>14. HandsOn(e)'
    BY <1>2, <2>1 DEF HandsOn, Capturing, Made
  <2>15. HandsOnAll'
    BY <2>3, <2>10, <2>11, <2>12, <2>13, <2>14, HandsOnMoves DEF DisposeInv, Values
  <2>16. ReturnsOK'
    <3>1. SUFFICES ASSUME NEW h \in Goroutines, ret'[h].ok PROVE ValueOK(ret[h].v)'
      BY DEF ReturnsOK
    <3>2. PICK x : x = ret'[h].v
      OBVIOUS
    <3>3. ValueOK(x)
      BY <2>11, <3>1, <3>2 DEF DisposeInv, Values, ReturnsOK, NoRet, Ok, ValueOK
    <3> QED
      BY <2>4, <3>2, <3>3
  <2> QED
    BY <2>8, <2>9, <2>15, <2>16 DEF DisposeInv, Values
<1> QED
  BY <1>2, <1>6, <1>7, <1>8

\* The instance x leaves g's hand, for the list of scope s or for none.
LEMMA CapturedDisposing ==
  ASSUME CachesOK, Disposing, UNCHANGED <<descriptors, disposed, cleared>>, cleared \subseteq disposed,
         NEW g \in Goroutines, NEW x, NEW s \in AllScopes, NEW captures \in BOOLEAN, NEW ok \in BOOLEAN,
         x \in DOMAIN instances, instances[x].scope = s,
         DOMAIN instances' = DOMAIN instances,
         \A i \in DOMAIN instances : instances'[i].d = instances[i].d /\ instances'[i].scope = instances[i].scope
                                     /\ instances'[i].deps = instances[i].deps,
         \A i \in DOMAIN instances : i # x => instances'[i] = instances[i],
         captures /\ s \in disposed => instances'[x].disposed = instances[x].disposed + 1 /\ instances'[x].kept = instances[x].kept,
         ~(captures /\ s \in disposed) => instances'[x].disposed = instances[x].disposed /\ instances'[x].kept = ok,
         captures <=> descriptors[instances[x].d].disposable,
         \A c \in AllScopes : IsSeq(disposables[c]),
         \A c \in AllScopes :
           disposables'[c] = IF c = s /\ captures /\ s \notin disposed THEN Append(disposables[c], x) ELSE disposables[c],
         \A i \in DOMAIN instances : instances[i].scope \in AllScopes,
         \A h \in Goroutines \ {g} : SameHand(h), Held(g) = {x}, Entered(g) = {}, Listed(g) = {}, Empty(g)'
  PROVE  Disposing'
<1>1. /\ \A h \in Goroutines : Entered(h)' = Entered(h) /\ Listed(h)' = Listed(h)
      /\ \A h \in Goroutines \ {g} : List(h)' = List(h)
  BY DEF SameHand, Empty
<1>2. \A h \in Goroutines : Held(h)' = IF h = g THEN {} ELSE Held(h)
  BY DEF SameHand, Empty
<1>3. instances[x].disposed = 0 /\ ~instances[x].kept /\ \A h \in Goroutines \ {g} : x \notin Held(h)
  BY DEF Disposing, PendingOK
<1>4. \A j \in DOMAIN instances : x \notin instances[j].deps
  BY <1>3 DEF CachesOK, ValueOK
<1>5. PendingOK'
  BY <1>2, <1>3 DEF Disposing, PendingOK
<1>6. ASSUME NEW l, NEW c, ListOK(l, c) PROVE ListOK(l, c)' /\ \A n \in DOMAIN l : l[n] # x
  <2>1. \A n \in DOMAIN l : l[n] \in DOMAIN instances /\ l[n] # x /\ instances'[l[n]] = instances[l[n]]
    BY <1>6 DEF ListOK
  <2>2. \A n \in DOMAIN l : \A h \in Goroutines : l[n] \notin Held(h)'
    BY <1>2, <1>6 DEF ListOK
  <2> QED
    BY <1>6, <2>1, <2>2 DEF ListOK
<1>7. ASSUME captures, s \notin disposed PROVE ListOK(disposables[s], s)'
  <2>1. PICK l, r : l = disposables[s] /\ r = Append(l, x)
    OBVIOUS
  <2>2. ListOK(l, s) /\ IsSeq(l) /\ disposables'[s] = r
    BY <1>7, <2>1 DEF Disposing, ScopeListsOK
  <2>3. ListOK(l, s)' /\ \A n \in DOMAIN l : l[n] # x
    BY <1>6, <2>2
  <2>4. Len(l) \in Nat /\ DOMAIN l = 1..Len(l)
    BY <2>2, SeqFacts
  <2>5. IsSeq(r) /\ Len(r) = Len(l) + 1 /\ r[Len(l) + 1] = x /\ \A n \in 1..Len(l) : r[n] = l[n]
    BY <2>1, <2>2, AppendFacts
  <2>6. DOMAIN r = 1..Len(l) + 1
    BY <2>5, SeqFacts
  <2>7. PICK z : z = Len(l) + 1
    OBVIOUS
  <2>8. /\ \A n \in DOMAIN r : n \in DOMAIN l \/ n = z
        /\ \A n \in DOMAIN l : r[n] = l[n]
        /\ r[z] = x
        /\ \A m, n \in DOMAIN r : m < n => m \in DOMAIN l /\ (n \in DOMAIN l \/ n = z)
    BY <2>4, <2>5, <2>6, <2>7
  <2>9. instances'[x].disposed = 0 /\ instances'[x].scope = s /\ \A h \in Goroutines : x \notin Held(h)'
    BY <1>2, <1>3, <1>7
  <2>10. \A n \in DOMAIN r :
           /\ r[n] \in DOMAIN instances' /\ instances'[r[n]].disposed = 0 /\ instances'[r[n]].scope = s
           /\ \A h \in Goroutines : r[n] \notin Held(h)'
    BY <2>3, <2>8, <2>9 DEF ListOK
  <2>11. ASSUME NEW m \in DOMAIN r, NEW n \in DOMAIN r, m < n PROVE r[m] # r[n] /\ r[n] \notin instances'[r[m]].deps
    <3>1. m \in DOMAIN l /\ r[m] = l[m]
      BY <2>8, <2>11
    <3>2. CASE n \in DOMAIN l
      BY <2>3, <2>8, <2>11, <3>1, <3>2 DEF ListOK
    <3>3. CASE n = z
      <4>1. l[m] \in DOMAIN instances /\ l[m] # x
        BY <2>2, <2>3, <3>1 DEF ListOK
      <4> QED
        BY <1>4, <2>8, <3>1, <3>3, <4>1
    <3> QED
      BY <2>8, <2>11, <3>2, <3>3
  <2>12. ListOK(r, s)'
    BY <2>10, <2>11 DEF ListOK
  <2> QED
    BY <2>2, <2>12
<1>8. ScopeListsOK'
  <2>1. ASSUME NEW c \in AllScopes PROVE ListOK(disposables[c], c)' /\ (c \in cleared' => disposables'[c] = <<>>)
    <3>1. ListOK(disposables[c], c) /\ (c \in cleared => disposables[c] = <<>>)
      BY DEF Disposing, ScopeListsOK
    <3>2. CASE c = s /\ captures /\ s \notin disposed
      BY <1>7, <3>2
    <3>3. CASE ~(c = s /\ captures /\ s \notin disposed)
      <4>1. PICK l : l = disposables[c]
        OBVIOUS
      <4>2. disposables'[c] = l /\ ListOK(l, c)'
        BY <1>6, <3>1, <3>3, <4>1
      <4> QED
        BY <3>1, <4>1, <4>2
    <3> QED
      BY <3>2, <3>3
  <2> QED
    BY <1>1, <2>1 DEF Disposing, ScopeListsOK, AllScopes
<1>9. TakenListsOK'
  <2>1. ASSUME NEW h \in Goroutines, NEW c \in Listed(h) PROVE ListOK(List(h), c)'
    <3>1. PICK l : l = List(h)
      OBVIOUS
    <3>2. ListOK(l, c) /\ List(h)' = l
      BY <1>1, <2>1, <3>1 DEF Disposing, TakenListsOK
    <3>3. ListOK(l, c)'
      BY <1>6, <3>2
    <3> QED
      BY <3>2, <3>3
  <2> QED
    BY <1>1, <2>1 DEF Disposing, TakenListsOK
<1>10. ASSUME NEW i, NEW c \in AllScopes, InList(i, disposables[c]) PROVE InList(i, disposables[c])'
  <2>1. PICK n \in DOMAIN disposables[c] : disposables[c][n] = i
    BY <1>10 DEF InList
  <2>2. CASE disposables'[c] = disposables[c]
    BY <2>1, <2>2 DEF InList
  <2>3. CASE disposables'[c] = Append(disposables[c], x)
    <3>1. PICK l, r : l = disposables[c] /\ r = Append(l, x)
      OBVIOUS
    <3>2. IsSeq(l) /\ n \in DOMAIN l /\ l[n] = i /\ disposables'[c] = r
      BY <2>1, <2>3, <3>1
    <3>3. IsSeq(r) /\ Len(r) = Len(l) + 1 /\ (\A k \in 1..Len(l) : r[k] = l[k]) /\ Len(l) \in Nat /\ DOMAIN l = 1..Len(l)
      BY <3>1, <3>2, AppendFacts, SeqFacts
    <3>4. DOMAIN r = 1..Len(l) + 1
      BY <3>3, SeqFacts
    <3>5. n \in DOMAIN r /\ r[n] = i
      BY <3>2, <3>3, <3>4
    <3> QED
      BY <3>2, <3>5 DEF InList
  <2> QED
    BY <2>2, <2>3
<1>11. ASSUME NEW i \in DOMAIN instances, i # x, Placed(i) PROVE Placed(i)'
  <2>1. instances'[i] = instances[i] /\ instances[i].scope \in AllScopes
    BY <1>11
  <2>2. CASE instances[i].disposed = 1
    BY <2>1, <2>2 DEF Placed
  <2>3. CASE InList(i, disposables[instances[i].scope])
    <3>1. PICK c : c = instances[i].scope
      OBVIOUS
    <3>2. InList(i, disposables[c])' /\ instances'[i].scope = c
      BY <1>10, <2>1, <2>3, <3>1
    <3> QED
      BY <3>2 DEF Placed
  <2>4. CASE \E h \in Goroutines : i \in Held(h) \/ (instances[i].scope \in Listed(h) /\ InList(i, List(h)))
    <3>1. PICK h \in Goroutines : i \in Held(h) \/ (instances[i].scope \in Listed(h) /\ InList(i, List(h)))
      BY <2>4
    <3>2. h # g
      BY <1>11, <3>1
    <3>3. CASE i \in Held(h)
      BY <1>2, <3>2, <3>3 DEF Placed
    <3>4. CASE instances[i].scope \in Listed(h) /\ InList(i, List(h))
      <4>1. instances'[i].scope \in Listed(h)' /\ InList(i, List(h))'
        BY <1>1, <2>1, <3>2, <3>4 DEF InList
      <4> QED
        BY <4>1 DEF Placed
    <3> QED
      BY <3>1, <3>3, <3>4
  <2> QED
    BY <1>11, <2>2, <2>3, <2>4 DEF Placed
<1>12. captures => Placed(x)'
  <2>1. SUFFICES ASSUME captures PROVE Placed(x)'
    OBVIOUS
  <2>2. CASE s \in disposed
    BY <1>3, <2>1, <2>2 DEF Placed
  <2>3. CASE s \notin disposed
    <3>1. PICK l, r : l = disposables[s] /\ r = Append(l, x)
      OBVIOUS
    <3>2. IsSeq(l) /\ disposables'[s] = r /\ Len(l) \in Nat
      BY <2>1, <2>3, <3>1, SeqFacts
    <3>3. IsSeq(r) /\ Len(r) = Len(l) + 1 /\ r[Len(l) + 1] = x
      BY <3>1, <3>2, AppendFacts
    <3>4. Len(l) + 1 \in DOMAIN r
      BY <3>2, <3>3, SeqFacts
    <3>5. InList(x, disposables[s])' /\ instances'[x].scope = s
      BY <3>2, <3>3, <3>4 DEF InList
    <3> QED
      BY <3>5 DEF Placed
  <2> QED
    BY <2>2, <2>3
<1>13. ASSUME NEW i \in DOMAIN instances, instances'[i].disposed = 1, NEW j \in DOMAIN instances, i \in instances[j].deps,
              instances[j].scope = instances[i].scope, instances'[j].kept, descriptors[instances[j].d].disposable
       PROVE  instances'[j].disposed = 1
  <2>1. i # x /\ instances'[i] = instances[i] /\ instances[i].disposed = 1 /\ instances[i].kept
    BY <1>4, <1>13 DEF CachesOK, ValueOK
  <2>2. CASE j # x
    BY <1>13, <2>1, <2>2 DEF Disposing, DisposalsOK
  <2>3. CASE j = x
    <3>1. captures /\ instances[i].scope = s
      BY <1>13, <2>3
    <3>2. instances[i].scope \in cleared
      BY <2>1 DEF Disposing, DisposalsOK
    <3>3. s \in disposed
      BY <3>1, <3>2
    <3> QED
      BY <1>3, <2>3, <3>1, <3>3
  <2> QED
    BY <2>2, <2>3
<1>14. DisposalsOK'
  <2>1. ASSUME NEW i \in DOMAIN instances
        PROVE  /\ instances'[i].disposed \in {0, 1}
               /\ instances'[i].kept /\ instances'[i].disposed = 1 => instances'[i].scope \in cleared'
               /\ descriptors'[instances'[i].d].disposable => Placed(i)'
    <3>1. CASE i = x
      BY <1>3, <1>12, <3>1
    <3>2. CASE i # x
      BY <1>11, <3>2 DEF Disposing, DisposalsOK
    <3> QED
      BY <3>1, <3>2
  <2> QED
    BY <1>13, <2>1 DEF DisposalsOK
<1> QED
  BY <1>5, <1>8, <1>9, <1>14 DEF Disposing

\* The value captured has been handed out.
LEMMA CapturedValues ==
  ASSUME ShapeInv, KeepInv, DisposeInv, NEW g \in Goroutines, capture(g), NEW f, f = top(g),
         HandedOut, Fine(f) => ValueOK(f.acc[1])'
  PROVE  Values'
<1>1. /\ stack[g] # <<>> /\ FrameOK(f) /\ f.fn = "visit" /\ f.pc = "capture" /\ f.site \in DOMAIN sites /\ UNCHANGED realized
      /\ CapturedInstances(f) /\ CapturedSites(f) /\ CapturedScopes(f)
      /\ IF Fine(f) THEN Return(g, Ok(f.acc[1])) ELSE Return(g, Err)
  BY captureIs
<1>2. SameKinds
  BY <1>1 DEF CapturedSites, SameKinds
<1>3. \A w : ValueOK(w) => ValueOK(w)'
  BY ValueStays
<1>4. CachesOK /\ ReturnsOK /\ HandsOnAll
  BY DEF DisposeInv, Values
<1>5. PICK v : v = f.acc[1]
  OBVIOUS
<1>6. Fine(f) => ValueOK(v)'
  BY <1>5
<1>7. ASSUME NEW c \in DOMAIN sites' PROVE sites'[c].value = NoValue \/ ValueOK(sites[c].value)'
  <2>1. c \in DOMAIN sites /\ sites'[c].value = IF c = f.site /\ atRoot(f) /\ Fine(f) THEN v ELSE sites[c].value
    BY <1>1, <1>5, <1>7 DEF CapturedSites
  <2>2. CASE sites'[c].value = v /\ Fine(f)
    BY <1>6, <2>2
  <2>3. CASE sites'[c].value = sites[c].value
    <3>1. PICK w : w = sites[c].value
      OBVIOUS
    <3>2. w = NoValue \/ ValueOK(w)
      BY <1>4, <2>1, <3>1 DEF CachesOK
    <3> QED
      BY <1>3, <2>3, <3>1, <3>2 DEF NoValue
  <2> QED
    BY <2>1, <2>2, <2>3
<1>8. ASSUME NEW s \in AllScopes, NEW k \in DOMAIN resolved'[s] PROVE ValueOK(resolved[s][k])'
  <2>1. resolved'[s] = IF s = f.scope /\ inScope(f) /\ Fine(f) THEN With(resolved[s], cacheKey(f), v) ELSE resolved[s]
    BY <1>1, <1>5 DEF CapturedScopes
  <2>2. PICK w : w = resolved'[s][k]
    OBVIOUS
  <2>3. (w = v /\ Fine(f)) \/ (k \in DOMAIN resolved[s] /\ w = resolved[s][k])
    BY <1>8, <2>1, <2>2 DEF With
  <2>4. ValueOK(w)'
    BY <1>3, <1>4, <1>6, <2>3 DEF CachesOK
  <2> QED
    BY <2>2, <2>4
<1>9. \A k \in DOMAIN realized : realized[k].value = NoValue \/ ValueOK(realized[k].value)'
  BY <1>1, <1>3, <1>4 DEF CachesOK
<1>10. ASSUME NEW i \in DOMAIN instances' PROVE ValueOK(instances[i].deps)'
  <2>1. PICK w : w = instances[i].deps
    OBVIOUS
  <2>2. ValueOK(w) /\ instances'[i].deps = w
    BY <1>1, <1>4, <1>10, <2>1 DEF CachesOK, CapturedInstances
  <2> QED
    BY <1>3, <2>2
<1>11. CachesOK'
  BY <1>1, <1>7, <1>8, <1>9, <1>10 DEF CachesOK, AllScopes, NoValue
<1>12. PICK r : Return(g, r) /\ (r.ok => Fine(f) /\ r.v = v)
  BY <1>1, <1>5 DEF Ok, Err
<1>13. PICK n : n = Len(stack[g])
  OBVIOUS
<1>14. Moves(g, n - 1, 0) /\ n \in Nat \ {0} /\ ret'[g] = r /\ \A h \in Goroutines \ {g} : ret'[h] = ret[h]
  BY <1>1, <1>12, <1>13, ReturnMoves, TopFacts DEF ShapeInv, ShapeStacks
<1>15. PICK k : k = n - 1
  OBVIOUS
<1>16. k <= n /\ 0 # 2 /\ ~(0 >= 1)
  BY <1>14, <1>15
<1>17. HandsOnAll'
  BY <1>2, <1>4, <1>13, <1>14, <1>15, <1>16, HandsOnMoves
<1>18. ReturnsOK'
  <2>1. SUFFICES ASSUME NEW h \in Goroutines, ret'[h].ok PROVE ValueOK(ret[h].v)'
    BY DEF ReturnsOK
  <2>2. PICK w : w = ret'[h].v
    OBVIOUS
  <2>3. CASE h = g
    BY <1>6, <1>12, <1>14, <2>1, <2>2, <2>3
  <2>4. CASE h # g
    <3>1. ValueOK(w)
      BY <1>4, <1>14, <2>1, <2>2, <2>4 DEF ReturnsOK
    <3> QED
      BY <1>3, <2>2, <3>1
  <2> QED
    BY <2>3, <2>4
<1> QED
  BY <1>11, <1>17, <1>18 DEF Values

\* capture keeps what is known of the disposables.
LEMMA captureDispose ==
  ASSUME ShapeInv, KeepInv, DisposeInv, NEW g \in Goroutines, capture(g)
  PROVE  DisposeInv'
<1>1. PICK f : f = top(g)
  OBVIOUS
<1>2. /\ stack[g] # <<>> /\ FrameOK(f) /\ f.fn = "visit" /\ f.pc = "capture" /\ f.site \in DOMAIN sites
      /\ UNCHANGED <<descriptors, realized, disposed, cleared>>
      /\ CapturedInstances(f) /\ CapturedSites(f) /\ CapturedScopes(f) /\ \E r : Return(g, r)
  BY <1>1, captureIs
<1>3. SameKinds
  BY <1>2 DEF CapturedSites, SameKinds
<1>4. Empty(g)' /\ \A h \in Goroutines \ {g} : SameHand(h)
  BY <1>2, <1>3, ReturnHand
<1>5. CASE ~Made(f.site)
  <2>1. UNCHANGED <<instances, disposables>>
    BY <1>1, <1>5 DEF capture, Made
  <2>2. Empty(g)
    BY <1>1, <1>5, <1>2, PlainHand DEF Plainly
  <2>3. \A h \in Goroutines : SameHand(h)
    BY <1>4, <2>2 DEF Empty, SameHand
  <2>4. Disposing'
    BY <1>2, <2>1, <2>3, QuietDisposing DEF DisposeInv
  <2>5. HandedOut
    BY <2>1 DEF HandedOut
  <2>6. HandsOn(f)
    <3>1. Len(stack[g]) \in DOMAIN stack[g] /\ top(g) = stack[g][Len(stack[g])]
      BY <1>2, TopFacts DEF ShapeInv
    <3> QED
      BY <1>1, <3>1 DEF DisposeInv, Values, HandsOnAll
  <2>7. ValueOK(f.acc[1])
    BY <1>2, <1>5, <2>6 DEF HandsOn
  <2>8. Values'
    BY <1>1, <2>5, <2>7, ValueStays, CapturedValues
  <2> QED
    BY <2>4, <2>8 DEF DisposeInv
<1>6. CASE Made(f.site)
  <2>1. PICK x, s : x = f.d /\ s = f.scope
    OBVIOUS
  <2>2. PICK ok : ok = Fine(f)
    OBVIOUS
  <2>3. PICK captures : captures = Captures(f)
    OBVIOUS
  <2>4. ok \in BOOLEAN /\ captures \in BOOLEAN
    BY <2>2, <2>3 DEF Fine, Captures
  <2>5. x \in DOMAIN instances /\ f.acc[1] = {x} /\ instances[x].site = f.site /\ instances[x].scope = s /\ s \in AllScopes
    BY <1>1, <1>2, <1>6, <2>1, TopVisit DEF VisitInstance, FrameOK
  <2>6. /\ At(g, "visit", "capture") /\ ~At(g, "dispose", "enter") /\ ~At(g, "dispose", "list")
    BY <1>1, <1>2 DEF At
  <2>7. Held(g) = {x} /\ Entered(g) = {} /\ Listed(g) = {}
    BY <1>1, <1>6, <2>1, <2>6 DEF Held, Entered, Listed
  <2>8. instances[x].disposed = 0 /\ ~instances[x].kept
    BY <2>7 DEF DisposeInv, Disposing, PendingOK
  <2>9. captures <=> descriptors[instances[x].d].disposable
    <3>1. SiteOK(f.site) /\ instances[x].d = sites[f.site].d
      BY <1>2, <2>5 DEF ShapeInv, SitesOK, KeepInv, InstancesOK, InstanceOK
    <3>2. sites[f.site].kind \in OfDescriptor
      BY <1>6 DEF Made, OfDescriptor
    <3>3. /\ sites[f.site].d \in DOMAIN descriptors /\ descriptors[sites[f.site].d].kind \in {"ctor", "factory"}
          /\ sites[f.site].loc = CacheLocation(descriptors[sites[f.site].d])
      BY <1>6, <3>1, <3>2 DEF SiteOK, Made
    <3>4. DescriptorOK(descriptors[sites[f.site].d])
      BY <3>3 DEF ShapeInv, BuildingOK
    <3>5. sites[f.site].loc # "none"
      BY <3>3, <3>4 DEF CacheLocation, DescriptorOK
    <3> QED
      BY <1>6, <2>3, <3>1, <3>4, <3>5 DEF Captures, DescriptorOK
  <2>10. /\ DOMAIN instances' = DOMAIN instances
         /\ \A i \in DOMAIN instances : instances'[i].d = instances[i].d /\ instances'[i].scope = instances[i].scope
                                        /\ instances'[i].deps = instances[i].deps
         /\ \A i \in DOMAIN instances : i # x => instances'[i] = instances[i]
    BY <1>2, <2>1 DEF CapturedInstances
  <2>11. captures /\ s \in disposed => instances'[x].disposed = instances[x].disposed + 1 /\ instances'[x].kept = instances[x].kept
    BY <1>2, <1>6, <2>1, <2>3 DEF CapturedInstances, Late
  <2>12. ~(captures /\ s \in disposed) => instances'[x].disposed = instances[x].disposed /\ instances'[x].kept = ok
    BY <1>2, <1>6, <2>1, <2>2, <2>3 DEF CapturedInstances, Late
  <2>13. \A c \in AllScopes :
           disposables'[c] = IF c = s /\ captures /\ s \notin disposed THEN Append(disposables[c], x) ELSE disposables[c]
    BY <1>2, <2>1, <2>3 DEF CapturedScopes, Late
  <2>14. /\ cleared \subseteq disposed /\ (\A c \in AllScopes : IsSeq(disposables[c]))
         /\ \A i \in DOMAIN instances : instances[i].scope \in AllScopes
    BY DEF ShapeInv, ScopesOK, KeepInv, InstancesOK, InstanceOK
  <2>15. CachesOK /\ Disposing
    BY DEF DisposeInv, Values
  <2>16. Disposing'
    BY <1>2, <1>4, <2>4, <2>5, <2>7, <2>9, <2>10, <2>11, <2>12, <2>13, <2>14, <2>15, CapturedDisposing
  <2>17. HandedOut
    BY <2>8, <2>10 DEF HandedOut
  <2>18. Fine(f) => ValueOK(f.acc[1])'
    <3>1. SUFFICES ASSUME Fine(f) PROVE ValueOK(f.acc[1])'
      OBVIOUS
    <3>2. ~(captures /\ s \in disposed) /\ ok
      BY <2>1, <2>2, <2>3, <3>1 DEF Fine, Late
    <3> QED
      BY <2>5, <2>10, <2>12, <3>2 DEF ValueOK
  <2>19. Values'
    BY <1>1, <2>17, <2>18, CapturedValues
  <2> QED
    BY <2>16, <2>19 DEF DisposeInv
<1> QED
  BY <1>5, <1>6

\* A disposing step hands out nothing.
LEMMA SameValues ==
  ASSUME ShapeInv, Values, NEW g \in Goroutines, UNCHANGED <<sites, resolved, realized>>, DOMAIN instances' = DOMAIN instances,
         \A i \in DOMAIN instances : instances'[i].kept = instances[i].kept /\ instances'[i].deps = instances[i].deps,
         \A h \in Goroutines : ret'[h] = ret[h] \/ ret'[h].v = {},
         NEW k, NEW m, Moves(g, k, m), k <= Len(stack[g]), m # 2, m >= 1 => stack'[g][k + 1].fn = "dispose"
  PROVE  Values'
<1>1. CachesOK /\ ReturnsOK /\ HandsOnAll
  BY DEF Values
<1>2. HandedOut /\ SameKinds
  BY DEF HandedOut, SameKinds
<1>3. \A v : ValueOK(v) => ValueOK(v)'
  BY <1>2, ValueStays
<1>4. CachesOK'
  <2>1. ASSUME NEW i \in DOMAIN instances' PROVE ValueOK(instances[i].deps)'
    <3>1. PICK w : w = instances[i].deps
      OBVIOUS
    <3>2. ValueOK(w) /\ instances'[i].deps = w
      BY <1>1, <2>1, <3>1 DEF CachesOK
    <3> QED
      BY <1>3, <3>2
  <2>2. \A c \in DOMAIN sites : sites[c].value = NoValue \/ ValueOK(sites[c].value)'
    BY <1>1, <1>3 DEF CachesOK
  <2>3. \A s \in AllScopes : \A x \in DOMAIN resolved[s] : ValueOK(resolved[s][x])'
    BY <1>1, <1>3 DEF CachesOK
  <2>4. \A x \in DOMAIN realized : realized[x].value = NoValue \/ ValueOK(realized[x].value)'
    BY <1>1, <1>3 DEF CachesOK
  <2> QED
    BY <2>1, <2>2, <2>3, <2>4 DEF CachesOK, AllScopes, NoValue
<1>5. ReturnsOK'
  <2>1. SUFFICES ASSUME NEW h \in Goroutines, ret'[h].ok PROVE ValueOK(ret[h].v)'
    BY DEF ReturnsOK
  <2>2. PICK w : w = ret'[h].v
    OBVIOUS
  <2>3. ValueOK(w)
    BY <1>1, <2>1, <2>2 DEF ReturnsOK, ValueOK
  <2> QED
    BY <1>3, <2>2, <2>3
<1>6. m >= 1 => HandsOn(stack[g][k + 1])'
  BY DEF HandsOn
<1>7. HandsOnAll'
  BY <1>1, <1>2, <1>6, HandsOnMoves
<1> QED
  BY <1>4, <1>5, <1>7 DEF Values

\* No stack changes.
LEMMA SameStack ==
  ASSUME ShapeInv, NEW g \in Goroutines, UNCHANGED stack
  PROVE  \E k : Moves(g, k, 0) /\ k <= Len(stack[g])
<1>1. PICK n : n = Len(stack[g])
  OBVIOUS
<1>2. n \in Nat /\ DOMAIN stack[g] = 1..n /\ n + 0 = n /\ n <= n
  BY <1>1, SeqFacts DEF ShapeInv, ShapeStacks, StacksAre
<1>3. Moves(g, n, 0)
  BY <1>1, <1>2 DEF Moves, ShapeInv, ShapeStacks, StacksAre
<1> QED
  BY <1>1, <1>2, <1>3

\* A step that leaves all of this alone.
LEMMA UnchangedDispose ==
  ASSUME ShapeInv, DisposeInv, NEW g \in Goroutines,
         UNCHANGED <<descriptors, sites, resolved, realized, instances, disposables, disposed, cleared, stack, ret>>
  PROVE  DisposeInv'
<1>1. SameKinds
  BY DEF SameKinds
<1>2. \A h \in Goroutines : SameHand(h)
  BY <1>1, HandStays
<1>3. Disposing'
  BY <1>2, QuietDisposing DEF DisposeInv
<1>4. PICK k : Moves(g, k, 0) /\ k <= Len(stack[g])
  BY SameStack
<1>5. 0 # 2 /\ ~(0 >= 1)
  OBVIOUS
<1>6. Values'
  BY <1>4, <1>5, SameValues DEF DisposeInv
<1> QED
  BY <1>3, <1>6 DEF DisposeInv

\* g is to dispose of s.
LEMMA EnteredDisposing ==
  ASSUME Disposing, UNCHANGED <<descriptors, instances, disposables, cleared>>, NEW s, disposed' = disposed \union {s},
         s \notin disposed, cleared \subseteq disposed, NEW g \in Goroutines, \A h \in Goroutines \ {g} : SameHand(h), Empty(g),
         Held(g)' = {}, Entered(g)' = {s}, Listed(g)' = {}, List(g)' = <<>>
  PROVE  Disposing'
<1>1. /\ \A h \in Goroutines : Held(h)' = Held(h) /\ Listed(h)' = Listed(h) /\ List(h)' = List(h)
      /\ \A h \in Goroutines : Entered(h)' = IF h = g THEN {s} ELSE Entered(h)
      /\ Entered(g) = {} /\ Listed(g) = {}
  BY DEF SameHand, Empty
<1>2. PendingOK'
  BY <1>1 DEF Disposing, PendingOK
<1>3. \A l, c : ListOK(l, c)' <=> ListOK(l, c)
  BY <1>1 DEF ListOK
<1>4. ScopeListsOK'
  <2>1. ASSUME NEW c \in disposed' \ cleared' PROVE \E h \in Goroutines : c \in Entered(h)'
    BY <1>1, <2>1 DEF Disposing, ScopeListsOK
  <2> QED
    BY <1>3, <2>1 DEF Disposing, ScopeListsOK, AllScopes
<1>5. TakenListsOK'
  <2>1. ASSUME NEW h \in Goroutines, NEW c \in Entered(h)' PROVE c \notin cleared'
    BY <1>1, <2>1 DEF Disposing, TakenListsOK
  <2>2. ASSUME NEW h \in Goroutines, NEW c \in Listed(h)' PROVE c \in cleared' /\ ListOK(List(h), c)'
    BY <1>1, <1>3, <2>2 DEF Disposing, TakenListsOK
  <2>3. ASSUME NEW h \in Goroutines, NEW c \in Entered(h)' \union Listed(h)'
        PROVE  c \in disposed' /\ \A j \in Goroutines \ {h} : c \notin Entered(j)' \union Listed(j)'
    BY <1>1, <2>3 DEF Disposing, TakenListsOK
  <2> QED
    BY <2>1, <2>2, <2>3 DEF TakenListsOK
<1>6. \A i : Placed(i)' <=> Placed(i)
  BY <1>1 DEF Placed, InList
<1>7. DisposalsOK'
  BY <1>6 DEF Disposing, DisposalsOK
<1> QED
  BY <1>2, <1>4, <1>5, <1>7 DEF Disposing

\* Dispose keeps what is known of the disposables.
LEMMA DisposeDispose ==
  ASSUME ShapeInv, DisposeInv, NEW g \in Goroutines, NEW s \in AllScopes, Dispose(g, s)
  PROVE  DisposeInv'
<1>1. stack[g] = <<>> /\ disposed' = disposed \union {s}
  BY DEF Dispose, idle
<1>2. UNCHANGED <<descriptors, sites, resolved, realized, instances, disposables, cleared, ret>>
  BY DEF Dispose, builder, callSites, accessors
<1>3. CASE s \in disposed
  <2>1. disposed' = disposed /\ UNCHANGED stack
    BY <1>1, <1>3 DEF Dispose
  <2> QED
    BY <1>2, <2>1, UnchangedDispose
<1>4. CASE s \notin disposed
  <2>1. PICK f : f = [Frame EXCEPT !.fn = "dispose", !.scope = s]
    OBVIOUS
  <2>2. f.fn = "dispose" /\ f.pc = "enter" /\ f.scope = s
    BY <2>1 DEF Frame
  <2>3. stack' = [stack EXCEPT ![g] = <<f>>]
    BY <1>4, <2>1 DEF Dispose
  <2>4. Moves(g, 0, 1) /\ stack'[g][1] = f
    BY <2>3, StartMoves DEF ShapeInv, ShapeStacks
  <2>5. 0 <= Len(stack[g]) /\ 0 + 1 = 1 /\ 1 # 2
    BY SeqFacts DEF ShapeInv, ShapeStacks, StacksAre
  <2>6. Values'
    BY <1>2, <2>2, <2>4, <2>5, SameValues DEF DisposeInv
  <2>7. SameKinds
    BY <1>2 DEF SameKinds
  <2>8. \A h \in Goroutines \ {g} : SameHand(h)
    BY <2>4, <2>7, HandStays DEF Moves
  <2>9. Empty(g)
    BY <1>1, PlainHand
  <2>10. IsSeq(stack'[g]) /\ Len(stack'[g]) = 1 /\ 1 # 0
    BY <2>4 DEF Moves
  <2>11. stack'[g] # <<>> /\ top(g)' = f
    BY <2>4, <2>10, SeqFacts DEF top
  <2>12. At(g, "dispose", "enter")' /\ ~At(g, "dispose", "list")' /\ ~At(g, "visit", "capture")'
    BY <2>2, <2>11 DEF At
  <2>13. Held(g)' = {} /\ Entered(g)' = {s} /\ Listed(g)' = {} /\ List(g)' = <<>>
    BY <2>2, <2>11, <2>12 DEF Held, Entered, Listed, List
  <2>14. Disposing'
    BY <1>1, <1>2, <1>4, <2>8, <2>9, <2>13, EnteredDisposing DEF DisposeInv, ShapeInv, ScopesOK
  <2> QED
    BY <2>6, <2>14 DEF DisposeInv
<1> QED
  BY <1>3, <1>4

\* A disposing step that goes on hands out nothing.
LEMMA GotoSameValues ==
  ASSUME ShapeInv, Values, NEW g \in Goroutines, UNCHANGED <<sites, resolved, realized>>, DOMAIN instances' = DOMAIN instances,
         \A i \in DOMAIN instances : instances'[i].kept = instances[i].kept /\ instances'[i].deps = instances[i].deps,
         stack[g] # <<>>, NEW f, f.fn = "dispose", Goto(g, f)
  PROVE  Values'
<1>1. PICK n : n = Len(stack[g])
  OBVIOUS
<1>2. Moves(g, n - 1, 1) /\ stack'[g][n] = f /\ n \in Nat \ {0}
  BY <1>1, GotoMoves, TopFacts DEF ShapeInv, ShapeStacks
<1>3. PICK k : k = n - 1
  OBVIOUS
<1>4. k + 1 = n /\ k <= n /\ 1 # 2
  BY <1>2, <1>3
<1>5. \A h \in Goroutines : ret'[h] = ret[h] \/ ret'[h].v = {}
  BY DEF Goto, NoRet, Ok, ShapeInv, ShapeStacks, StacksAre
<1> QED
  BY <1>1, <1>2, <1>3, <1>4, <1>5, SameValues

\* A disposing step that returns hands out nothing.
LEMMA ReturnSameValues ==
  ASSUME ShapeInv, Values, NEW g \in Goroutines, UNCHANGED <<sites, resolved, realized, instances>>,
         stack[g] # <<>>, Return(g, NoRet)
  PROVE  Values'
<1>1. PICK n : n = Len(stack[g])
  OBVIOUS
<1>2. Moves(g, n - 1, 0) /\ n \in Nat \ {0}
  BY <1>1, ReturnMoves, TopFacts DEF ShapeInv, ShapeStacks
<1>3. PICK k : k = n - 1
  OBVIOUS
<1>4. k <= n /\ 0 # 2 /\ ~(0 >= 1)
  BY <1>2, <1>3
<1>5. \A h \in Goroutines : ret'[h] = ret[h] \/ ret'[h].v = {}
  BY DEF Return, NoRet, Ok, ShapeInv, ShapeStacks, StacksAre
<1> QED
  BY <1>1, <1>2, <1>3, <1>4, <1>5, SameValues

\* g takes the list of s.
LEMMA TakenDisposing ==
  ASSUME ShapeInv, KeepInv, Disposing, UNCHANGED <<descriptors, instances, disposed>>, NEW s \in AllScopes,
         disposables' = [disposables EXCEPT ![s] = <<>>], cleared' = cleared \union {s},
         NEW g \in Goroutines, \A h \in Goroutines \ {g} : SameHand(h), Held(g) = {}, Entered(g) = {s}, Listed(g) = {},
         Held(g)' = {}, Entered(g)' = {}, Listed(g)' = {s}, List(g)' = disposables[s]
  PROVE  Disposing'
<1>1. /\ \A h \in Goroutines : Held(h)' = Held(h)
      /\ \A h \in Goroutines \ {g} : Entered(h)' = Entered(h) /\ Listed(h)' = Listed(h) /\ List(h)' = List(h)
  BY DEF SameHand
<1>2. PendingOK'
  BY <1>1 DEF Disposing, PendingOK
<1>3. \A l, c : ListOK(l, c)' <=> ListOK(l, c)
  BY <1>1 DEF ListOK
<1>4. /\ \A c \in AllScopes : disposables'[c] = IF c = s THEN <<>> ELSE disposables[c]
      /\ ListOK(disposables[s], s) /\ ListOK(<<>>, s)
  BY DEF ShapeInv, ScopesOK, Disposing, ScopeListsOK, ListOK
<1>5. ScopeListsOK'
  <2>1. ASSUME NEW c \in disposed' \ cleared' PROVE \E h \in Goroutines : c \in Entered(h)'
    BY <1>1, <2>1 DEF Disposing, ScopeListsOK
  <2>2. ASSUME NEW c \in AllScopes PROVE ListOK(disposables[c], c)' /\ (c \in cleared' => disposables'[c] = <<>>)
    <3>1. PICK l : l = disposables'[c]
      OBVIOUS
    <3>2. ListOK(l, c) /\ (c \in cleared' => l = <<>>)
      BY <1>4, <2>2, <3>1 DEF Disposing, ScopeListsOK
    <3> QED
      BY <1>3, <3>1, <3>2
  <2> QED
    BY <2>1, <2>2 DEF ScopeListsOK, AllScopes
<1>6. TakenListsOK'
  <2>1. s \in disposed /\ s \notin cleared /\ \A h \in Goroutines \ {g} : s \notin Entered(h) /\ s \notin Listed(h)
    BY DEF Disposing, TakenListsOK
  <2>2. ASSUME NEW h \in Goroutines, NEW c \in Entered(h)' PROVE c \notin cleared'
    BY <1>1, <2>1, <2>2 DEF Disposing, TakenListsOK
  <2>3. ASSUME NEW h \in Goroutines, NEW c \in Listed(h)' PROVE c \in cleared' /\ ListOK(List(h), c)'
    <3>1. PICK l : l = List(h)'
      OBVIOUS
    <3>2. ListOK(l, c)
      BY <1>1, <1>4, <2>3, <3>1 DEF Disposing, TakenListsOK
    <3>3. c \in cleared'
      BY <1>1, <2>3 DEF Disposing, TakenListsOK
    <3> QED
      BY <1>3, <3>1, <3>2, <3>3
  <2>4. ASSUME NEW h \in Goroutines, NEW c \in Entered(h)' \union Listed(h)'
        PROVE  c \in disposed' /\ \A j \in Goroutines \ {h} : c \notin Entered(j)' \union Listed(j)'
    BY <1>1, <2>1, <2>4 DEF Disposing, TakenListsOK
  <2> QED
    BY <2>2, <2>3, <2>4 DEF TakenListsOK
<1>7. ASSUME NEW i \in DOMAIN instances, Placed(i) PROVE Placed(i)'
  <2>1. instances[i].scope \in AllScopes
    BY <1>7 DEF KeepInv, InstancesOK, InstanceOK
  <2>2. CASE instances[i].scope = s /\ InList(i, disposables[s])
    <3>1. InList(i, List(g))'
      BY <2>2 DEF InList
    <3> QED
      BY <2>2, <3>1 DEF Placed
  <2>3. CASE instances[i].scope # s /\ InList(i, disposables[instances[i].scope])
    <3>1. disposables'[instances[i].scope] = disposables[instances[i].scope]
      BY <1>4, <2>1, <2>3
    <3> QED
      BY <2>3, <3>1 DEF Placed, InList
  <2>4. CASE \E h \in Goroutines : i \in Held(h) \/ (instances[i].scope \in Listed(h) /\ InList(i, List(h)))
    <3>1. PICK h \in Goroutines : i \in Held(h) \/ (instances[i].scope \in Listed(h) /\ InList(i, List(h)))
      BY <2>4
    <3>2. h # g
      BY <3>1
    <3> QED
      BY <1>1, <3>1, <3>2 DEF Placed, InList
  <2> QED
    BY <1>7, <2>2, <2>3, <2>4 DEF Placed
<1>8. DisposalsOK'
  BY <1>7 DEF Disposing, DisposalsOK
<1> QED
  BY <1>2, <1>5, <1>6, <1>8 DEF Disposing

\* What a disposing goroutine has in hand.
LEMMA AtDispose ==
  ASSUME NEW g, stack[g] # <<>>, top(g).fn = "dispose"
  PROVE  /\ Held(g) = {}
         /\ top(g).pc = "enter" => Entered(g) = {top(g).scope} /\ Listed(g) = {} /\ List(g) = <<>>
         /\ top(g).pc = "list" => Entered(g) = {} /\ Listed(g) = {top(g).scope} /\ List(g) = top(g).acc
BY DEF Held, Entered, Listed, List, At

\* BeginDispose keeps what is known of the disposables.
LEMMA BeginDisposeDispose ==
  ASSUME ShapeInv, KeepInv, DisposeInv, NEW g \in Goroutines, BeginDispose(g)
  PROVE  DisposeInv'
<1>1. PICK f : f = top(g)
  OBVIOUS
<1>2. stack[g] # <<>> /\ FrameOK(f) /\ IsFrame(f) /\ f.fn = "dispose" /\ f.pc = "enter" /\ f.scope \in AllScopes
  BY <1>1, AtFacts DEF BeginDispose, FrameOK
<1>3. PICK s : s = f.scope
  OBVIOUS
<1>4. /\ disposables' = [disposables EXCEPT ![s] = <<>>] /\ cleared' = cleared \union {s}
      /\ UNCHANGED <<descriptors, sites, resolved, realized, instances, disposed>>
  BY <1>1, <1>3 DEF BeginDispose, builder, callSites, accessors
<1>5. PICK e : e = [f EXCEPT !.pc = "list", !.acc = disposables[s]]
  OBVIOUS
<1>6. Goto(g, e) /\ e.fn = "dispose" /\ e.pc = "list" /\ e.scope = s /\ e.acc = disposables[s]
  BY <1>1, <1>2, <1>3, <1>5 DEF BeginDispose, IsFrame
<1>7. SameKinds
  BY <1>4 DEF SameKinds
<1>8. stack'[g] # <<>> /\ top(g)' = e /\ \A h \in Goroutines \ {g} : SameHand(h)
  BY <1>2, <1>6, <1>7, GotoHand
<1>9. Held(g) = {} /\ Entered(g) = {s} /\ Listed(g) = {}
  BY <1>1, <1>2, <1>3, AtDispose
<1>10. At(g, "dispose", "list")' /\ ~At(g, "dispose", "enter")' /\ ~At(g, "visit", "capture")'
  BY <1>6, <1>8 DEF At
<1>11. Held(g)' = {} /\ Entered(g)' = {} /\ Listed(g)' = {s} /\ List(g)' = disposables[s]
  BY <1>6, <1>8, <1>10 DEF Held, Entered, Listed, List
<1>12. Disposing'
  BY <1>2, <1>3, <1>4, <1>8, <1>9, <1>11, TakenDisposing DEF DisposeInv
<1>13. Values'
  BY <1>2, <1>4, <1>6, GotoSameValues DEF DisposeInv
<1> QED
  BY <1>12, <1>13 DEF DisposeInv

\* g has come to the end of its list.
LEMMA EndedDisposing ==
  ASSUME Disposing, UNCHANGED <<descriptors, instances, disposables, disposed, cleared>>,
         NEW g \in Goroutines, \A h \in Goroutines \ {g} : SameHand(h), Held(g) = {}, Entered(g) = {}, List(g) = <<>>, Empty(g)'
  PROVE  Disposing'
<1>1. /\ \A h \in Goroutines : Held(h)' = Held(h) /\ Entered(h)' = Entered(h) /\ List(h)' = List(h)
      /\ \A h \in Goroutines \ {g} : Listed(h)' = Listed(h)
      /\ Listed(g)' = {}
  BY DEF SameHand, Empty
<1>2. PendingOK'
  BY <1>1 DEF Disposing, PendingOK
<1>3. \A l, s : ListOK(l, s)' <=> ListOK(l, s)
  BY <1>1 DEF ListOK
<1>4. ScopeListsOK'
  BY <1>1, <1>3 DEF Disposing, ScopeListsOK, AllScopes
<1>5. TakenListsOK'
  <2>1. ASSUME NEW h \in Goroutines, NEW c \in Entered(h)' PROVE c \notin cleared'
    BY <1>1, <2>1 DEF Disposing, TakenListsOK
  <2>2. ASSUME NEW h \in Goroutines, NEW c \in Listed(h)' PROVE c \in cleared' /\ ListOK(List(h), c)'
    BY <1>1, <1>3, <2>2 DEF Disposing, TakenListsOK
  <2>3. ASSUME NEW h \in Goroutines, NEW c \in Entered(h)' \union Listed(h)'
        PROVE  c \in disposed' /\ \A j \in Goroutines \ {h} : c \notin Entered(j)' \union Listed(j)'
    BY <1>1, <2>3 DEF Disposing, TakenListsOK
  <2> QED
    BY <2>1, <2>2, <2>3 DEF TakenListsOK
<1>6. ASSUME NEW i, Placed(i) PROVE Placed(i)'
  <2>1. ~InList(i, List(g))
    BY DEF InList
  <2> QED
    BY <1>1, <1>6, <2>1 DEF Placed, InList
<1>7. DisposalsOK'
  BY <1>6 DEF Disposing, DisposalsOK
<1> QED
  BY <1>2, <1>4, <1>5, <1>7 DEF Disposing

\* x is disposed of; b is l without its n-th and last element.
DisposesOf(x) ==
    /\ DOMAIN instances' = DOMAIN instances
    /\ \A i \in DOMAIN instances :
         /\ instances'[i].d = instances[i].d /\ instances'[i].scope = instances[i].scope
         /\ instances'[i].kept = instances[i].kept /\ instances'[i].deps = instances[i].deps
         /\ instances'[i].disposed = IF i = x THEN instances[i].disposed + 1 ELSE instances[i].disposed
Shorter(b, l, n) == n \in Nat \ {0} /\ DOMAIN l = 1..n /\ DOMAIN b = 1..n - 1 /\ \A k \in 1..n - 1 : b[k] = l[k]

\* g disposes of the last instance x of its list l, and b is left of it.
LEMMA LastDisposing ==
  ASSUME Disposing, UNCHANGED <<descriptors, disposables, disposed, cleared>>, NEW x, NEW s \in AllScopes,
         DisposesOf(x), NEW n, NEW l, NEW b, Shorter(b, l, n), l[n] = x,
         NEW g \in Goroutines, \A h \in Goroutines \ {g} : SameHand(h),
         Held(g) = {}, Entered(g) = {}, Listed(g) = {s}, List(g) = l,
         Held(g)' = {}, Entered(g)' = {}, Listed(g)' = {s}, List(g)' = b
  PROVE  Disposing'
<1>0. /\ DOMAIN instances' = DOMAIN instances
      /\ \A i \in DOMAIN instances :
           /\ instances'[i].d = instances[i].d /\ instances'[i].scope = instances[i].scope
           /\ instances'[i].kept = instances[i].kept /\ instances'[i].deps = instances[i].deps
           /\ instances'[i].disposed = IF i = x THEN instances[i].disposed + 1 ELSE instances[i].disposed
      /\ n \in Nat \ {0} /\ DOMAIN l = 1..n /\ DOMAIN b = 1..n - 1 /\ \A k \in 1..n - 1 : b[k] = l[k]
  BY DEF DisposesOf, Shorter
<1> USE <1>0
<1>1. /\ \A h \in Goroutines : Held(h)' = Held(h) /\ Entered(h)' = Entered(h) /\ Listed(h)' = Listed(h)
      /\ \A h \in Goroutines \ {g} : List(h)' = List(h)
  BY DEF SameHand
<1>2. /\ s \in cleared /\ s \in disposed /\ ListOK(l, s) /\ disposables[s] = <<>>
      /\ \A h \in Goroutines \ {g} : s \notin Listed(h)
  BY DEF Disposing, TakenListsOK, ScopeListsOK
<1>3. n \in DOMAIN l
  OBVIOUS
<1>4. x \in DOMAIN instances /\ instances[x].disposed = 0 /\ instances[x].scope = s /\ \A h \in Goroutines : x \notin Held(h)
  BY <1>2, <1>3 DEF ListOK
<1>5. /\ \A i \in DOMAIN instances : i # x => instances'[i].disposed = instances[i].disposed
      /\ instances'[x].disposed = 1
  BY <1>4
<1>6. PendingOK'
  <2>1. ASSUME NEW h \in Goroutines, NEW i \in Held(h)'
        PROVE  /\ i \in DOMAIN instances' /\ instances'[i].disposed = 0 /\ ~instances'[i].kept
               /\ \A j \in Goroutines \ {h} : i \notin Held(j)'
    <3>1. i \in Held(h) /\ i # x
      BY <1>1, <1>4, <2>1
    <3>2. i \in DOMAIN instances /\ instances[i].disposed = 0 /\ ~instances[i].kept /\ \A j \in Goroutines \ {h} : i \notin Held(j)
      BY <3>1 DEF Disposing, PendingOK
    <3> QED
      BY <1>1, <1>5, <3>1, <3>2
  <2> QED
    BY <2>1 DEF PendingOK
<1>7. ASSUME NEW m, NEW c, ListOK(m, c), ~InList(x, m) PROVE ListOK(m, c)'
  <2>1. ASSUME NEW k \in DOMAIN m
        PROVE  /\ m[k] \in DOMAIN instances' /\ instances'[m[k]].disposed = 0 /\ instances'[m[k]].scope = c
               /\ \A h \in Goroutines : m[k] \notin Held(h)'
    BY <1>1, <1>5, <1>7, <2>1 DEF ListOK, InList
  <2>2. ASSUME NEW j \in DOMAIN m, NEW k \in DOMAIN m, j < k PROVE m[j] # m[k] /\ m[k] \notin instances'[m[j]].deps
    BY <1>7, <2>2 DEF ListOK
  <2> QED
    BY <2>1, <2>2 DEF ListOK
<1>8. ASSUME NEW m, NEW c, c # s, ListOK(m, c) PROVE ListOK(m, c)'
  <2>1. \A k \in DOMAIN m : instances[m[k]].scope = c
    BY <1>8 DEF ListOK
  <2>2. ~InList(x, m)
    BY <1>4, <1>8, <2>1 DEF InList
  <2> QED
    BY <1>7, <1>8, <2>2
<1>9. ListOK(b, s)'
  <2>1. \A k \in DOMAIN b : k \in DOMAIN l /\ k < n /\ b[k] = l[k]
    OBVIOUS
  <2>2. \A k \in DOMAIN b : b[k] # x
    BY <1>2, <1>3, <2>1 DEF ListOK
  <2>3. ListOK(b, s)
    BY <1>2, <2>1 DEF ListOK
  <2> QED
    BY <1>7, <2>2, <2>3 DEF InList
<1>10. ScopeListsOK'
  <2>1. ASSUME NEW c \in AllScopes PROVE ListOK(disposables[c], c)' /\ (c \in cleared' => disposables'[c] = <<>>)
    <3>1. PICK m : m = disposables[c]
      OBVIOUS
    <3>2. ListOK(m, c) /\ (c \in cleared => m = <<>>)
      BY <2>1, <3>1 DEF Disposing, ScopeListsOK
    <3>3. c = s => ~InList(x, m)
      BY <1>2, <3>1 DEF InList
    <3>4. ListOK(m, c)'
      BY <1>7, <1>8, <3>2, <3>3
    <3> QED
      BY <3>1, <3>2, <3>4
  <2>2. ASSUME NEW c \in disposed' \ cleared' PROVE \E h \in Goroutines : c \in Entered(h)'
    BY <1>1, <2>2 DEF Disposing, ScopeListsOK
  <2> QED
    BY <2>1, <2>2 DEF ScopeListsOK, AllScopes
<1>11. TakenListsOK'
  <2>1. ASSUME NEW h \in Goroutines, NEW c \in Entered(h)' PROVE c \notin cleared'
    BY <1>1, <2>1 DEF Disposing, TakenListsOK
  <2>2. ASSUME NEW h \in Goroutines, NEW c \in Listed(h)' PROVE c \in cleared' /\ ListOK(List(h), c)'
    <3>1. CASE h = g
      <4>1. c = s
        BY <2>2, <3>1
      <4> QED
        BY <1>2, <1>9, <3>1, <4>1
    <3>2. CASE h # g
      <4>1. PICK m : m = List(h)
        OBVIOUS
      <4>2. c \in Listed(h) /\ c # s /\ List(h)' = m
        BY <1>1, <1>2, <2>2, <3>2, <4>1
      <4>3. ListOK(m, c) /\ c \in cleared
        BY <4>1, <4>2 DEF Disposing, TakenListsOK
      <4> QED
        BY <1>8, <4>2, <4>3
    <3> QED
      BY <3>1, <3>2
  <2>3. ASSUME NEW h \in Goroutines, NEW c \in Entered(h)' \union Listed(h)'
        PROVE  c \in disposed' /\ \A j \in Goroutines \ {h} : c \notin Entered(j)' \union Listed(j)'
    BY <1>1, <2>3 DEF Disposing, TakenListsOK
  <2> QED
    BY <2>1, <2>2, <2>3 DEF TakenListsOK
<1>12. ASSUME NEW i \in DOMAIN instances, Placed(i) PROVE Placed(i)'
  <2>1. CASE i = x
    BY <1>5, <2>1 DEF Placed
  <2>2. CASE i # x
    <3>1. InList(i, l) => InList(i, b)
      <4>1. ASSUME NEW k \in DOMAIN l, l[k] = i PROVE k \in DOMAIN b /\ b[k] = i
        BY <2>2, <4>1
      <4> QED
        BY <4>1 DEF InList
    <3>2. instances'[i].disposed = instances[i].disposed /\ instances'[i].scope = instances[i].scope
      BY <1>5, <2>2
    <3>3. CASE \E h \in Goroutines : i \in Held(h) \/ (instances[i].scope \in Listed(h) /\ InList(i, List(h)))
      <4>1. PICK h \in Goroutines : i \in Held(h) \/ (instances[i].scope \in Listed(h) /\ InList(i, List(h)))
        BY <3>3
      <4>2. InList(i, List(h)) => InList(i, List(h))'
        BY <1>1, <3>1 DEF InList
      <4> QED
        BY <1>1, <3>2, <4>1, <4>2 DEF Placed
    <3>4. CASE instances[i].disposed = 1 \/ InList(i, disposables[instances[i].scope])
      BY <3>2, <3>4 DEF Placed, InList
    <3> QED
      BY <1>12, <3>3, <3>4 DEF Placed
  <2> QED
    BY <2>1, <2>2
<1>13. ASSUME NEW j \in DOMAIN instances, x \in instances[j].deps, instances[j].scope = s, instances[j].kept,
              descriptors[instances[j].d].disposable, j # x
       PROVE  instances[j].disposed = 1
  <2>1. Placed(j)
    BY <1>13 DEF Disposing, DisposalsOK
  <2>2. ~InList(j, disposables[s])
    BY <1>2 DEF InList
  <2>3. \A h \in Goroutines : j \notin Held(h)
    BY <1>13 DEF Disposing, PendingOK
  <2>4. ~InList(j, l)
    <3>1. ASSUME NEW k \in DOMAIN l, l[k] = j PROVE FALSE
      <4>1. k < n
        BY <1>13, <3>1
      <4> QED
        BY <1>2, <1>3, <1>13, <3>1, <4>1 DEF ListOK
    <3> QED
      BY <3>1 DEF InList
  <2> QED
    BY <1>2, <1>13, <2>1, <2>2, <2>3, <2>4 DEF Placed
<1>14. DisposalsOK'
  <2>1. ASSUME NEW i \in DOMAIN instances
        PROVE  /\ instances'[i].disposed \in {0, 1}
               /\ instances'[i].kept /\ instances'[i].disposed = 1 => instances'[i].scope \in cleared'
    BY <1>2, <1>4, <1>5, <2>1 DEF Disposing, DisposalsOK
  <2>2. ASSUME NEW i \in DOMAIN instances, descriptors'[instances'[i].d].disposable PROVE Placed(i)'
    BY <1>12, <2>2 DEF Disposing, DisposalsOK
  <2>3. ASSUME NEW i \in DOMAIN instances, instances'[i].disposed = 1, NEW j \in DOMAIN instances,
               i \in instances'[j].deps, instances'[j].scope = instances'[i].scope, instances'[j].kept,
               descriptors'[instances'[j].d].disposable
        PROVE  instances'[j].disposed = 1
    <3>1. /\ i \in instances[j].deps /\ instances[j].scope = instances[i].scope /\ instances[j].kept
          /\ descriptors[instances[j].d].disposable
      BY <2>3
    <3>2. CASE i = x
      BY <1>4, <1>5, <1>13, <3>1, <3>2
    <3>3. CASE i # x
      <4>1. instances[i].disposed = 1
        BY <1>5, <2>3, <3>3
      <4>2. instances[j].disposed = 1
        BY <3>1, <4>1 DEF Disposing, DisposalsOK
      <4> QED
        BY <1>5, <4>2
    <3> QED
      BY <3>2, <3>3
  <2> QED
    BY <2>1, <2>2, <2>3 DEF DisposalsOK
<1> QED
  BY <1>6, <1>10, <1>11, <1>14 DEF Disposing

\* disposeNext keeps what is known of the disposables.
LEMMA disposeNextDispose ==
  ASSUME ShapeInv, KeepInv, DisposeInv, NEW g \in Goroutines, disposeNext(g)
  PROVE  DisposeInv'
<1>1. PICK f : f = top(g)
  OBVIOUS
<1>2. stack[g] # <<>> /\ FrameOK(f) /\ IsFrame(f) /\ f.fn = "dispose" /\ f.pc = "list" /\ f.scope \in AllScopes /\ IsSeq(f.acc)
  BY <1>1, AtFacts DEF disposeNext, FrameOK
<1>3. UNCHANGED <<descriptors, sites, resolved, realized, disposables, disposed, cleared>>
  BY DEF disposeNext, builder, callSites, accessors, scopeVars
<1>4. SameKinds
  BY <1>3 DEF SameKinds
<1>5. PICK l, s, n : l = f.acc /\ s = f.scope /\ n = Len(l)
  OBVIOUS
<1>6. Held(g) = {} /\ Entered(g) = {} /\ Listed(g) = {s} /\ List(g) = l
  BY <1>1, <1>2, <1>5, AtDispose
<1>7. CASE l = <<>>
  <2>1. Return(g, NoRet) /\ UNCHANGED instances
    BY <1>1, <1>5, <1>7 DEF disposeNext
  <2>2. Empty(g)' /\ \A h \in Goroutines \ {g} : SameHand(h)
    BY <1>2, <1>4, <2>1, ReturnHand
  <2>3. Disposing'
    BY <1>3, <1>6, <1>7, <2>1, <2>2, EndedDisposing DEF DisposeInv
  <2>4. Values'
    BY <1>2, <1>3, <2>1, ReturnSameValues DEF DisposeInv
  <2> QED
    BY <2>3, <2>4 DEF DisposeInv
<1>8. CASE l # <<>>
  <2>1. PICK b, x : b = SubSeq(l, 1, n - 1) /\ x = l[n]
    OBVIOUS
  <2>2. n \in Nat \ {0} /\ DOMAIN l = 1..n
    BY <1>2, <1>5, <1>8, SeqFacts
  <2>3. DOMAIN b = 1..n - 1 /\ \A k \in 1..n - 1 : b[k] = l[k]
    <3>1. IsSeq(b) /\ Len(b) = n - 1 /\ \A k \in 1..n - 1 : b[k] = l[k]
      BY <1>2, <1>5, <1>8, <2>1, FrontFacts
    <3> QED
      BY <3>1, SeqFacts
  <2>4. PICK e : e = [f EXCEPT !.acc = b]
    OBVIOUS
  <2>5. Goto(g, e) /\ instances' = [instances EXCEPT ![x].disposed = @ + 1]
    BY <1>1, <1>5, <1>8, <2>1, <2>4 DEF disposeNext
  <2>6. e.fn = "dispose" /\ e.pc = "list" /\ e.scope = s /\ e.acc = b
    BY <1>2, <1>5, <2>4 DEF IsFrame
  <2>7. /\ DOMAIN instances' = DOMAIN instances
        /\ \A i \in DOMAIN instances :
             /\ instances'[i].d = instances[i].d /\ instances'[i].scope = instances[i].scope
             /\ instances'[i].kept = instances[i].kept /\ instances'[i].deps = instances[i].deps
             /\ instances'[i].disposed = IF i = x THEN instances[i].disposed + 1 ELSE instances[i].disposed
    <3>1. IsSeq(instances) /\ \A i \in DOMAIN instances : IsInstance(instances[i])
      BY DEF KeepInv, InstancesOK, InstanceOK
    <3> QED
      BY <2>5, <3>1, DisposedOne
  <2>8. stack'[g] # <<>> /\ top(g)' = e /\ \A h \in Goroutines \ {g} : SameHand(h)
    BY <1>2, <1>4, <2>5, GotoHand
  <2>9. At(g, "dispose", "list")' /\ ~At(g, "dispose", "enter")' /\ ~At(g, "visit", "capture")'
    BY <2>6, <2>8 DEF At
  <2>10. Held(g)' = {} /\ Entered(g)' = {} /\ Listed(g)' = {s} /\ List(g)' = b
    BY <2>6, <2>8, <2>9 DEF Held, Entered, Listed, List
  <2>11. Disposing'
    <3>1. Disposing /\ s \in AllScopes /\ l[n] = x
      BY <1>2, <1>5, <2>1 DEF DisposeInv
    <3>2. UNCHANGED <<descriptors, disposables, disposed, cleared>>
      BY <1>3
    <3>3. DisposesOf(x) /\ Shorter(b, l, n)
      BY <2>2, <2>3, <2>7 DEF DisposesOf, Shorter
    <3> QED
      BY <1>6, <2>8, <2>10, <3>1, <3>2, <3>3, LastDisposing
  <2>12. Values'
    BY <1>2, <1>3, <2>5, <2>6, <2>7, GotoSameValues DEF DisposeInv
  <2> QED
    BY <2>11, <2>12 DEF DisposeInv
<1> QED
  BY <1>7, <1>8

\* The builder's calls: nothing is built yet.
LEMMA ConfigureDispose ==
  ASSUME ShapeInv, DisposeInv, Configure
  PROVE  DisposeInv'
<1>1. /\ UNCHANGED <<sites, resolved, realized, instances, disposables, disposed, cleared, stack, ret>>
      /\ DOMAIN instances = {} /\ DOMAIN sites = {} /\ DOMAIN realized = {} /\ \A g \in Goroutines : stack[g] = <<>>
  BY DEF Configure, callSites, accessors, scopeVars, ShapeInv, BuildingOK
<1>2. \A g \in Goroutines : Held(g) = {} /\ Entered(g) = {} /\ Listed(g) = {} /\ DOMAIN stack[g] = {}
  BY <1>1 DEF Held, Entered, Listed, At
<1>3. \A g \in Goroutines : Held(g)' = {} /\ Entered(g)' = {} /\ Listed(g)' = {} /\ DOMAIN stack'[g] = {}
  BY <1>1 DEF Held, Entered, Listed, At
<1>4. \A v : ValueOK(v)' <=> ValueOK(v)
  BY <1>1 DEF ValueOK
<1>5. Values'
  <2>1. \A s \in AllScopes : \A k \in DOMAIN resolved[s] : ValueOK(resolved[s][k])'
    BY <1>1, <1>4 DEF DisposeInv, Values, CachesOK
  <2>2. CachesOK'
    BY <1>1, <2>1 DEF CachesOK, AllScopes, NoValue
  <2>3. \A g \in Goroutines : ret[g].ok => ValueOK(ret[g].v)'
    BY <1>1, <1>4 DEF DisposeInv, Values, ReturnsOK
  <2>4. ReturnsOK' /\ HandsOnAll'
    BY <1>1, <1>3, <2>3 DEF ReturnsOK, HandsOnAll
  <2> QED
    BY <2>2, <2>4 DEF Values
<1>6. PendingOK' /\ TakenListsOK' /\ DisposalsOK'
  BY <1>1, <1>3 DEF PendingOK, TakenListsOK, DisposalsOK
<1>7. \A l, s : ListOK(l, s)' <=> ListOK(l, s)
  BY <1>1, <1>2, <1>3 DEF ListOK
<1>8. ScopeListsOK'
  BY <1>1, <1>2, <1>3, <1>7 DEF DisposeInv, Disposing, ScopeListsOK, AllScopes
<1> QED
  BY <1>5, <1>6, <1>8 DEF DisposeInv, Disposing

\* A stuttering step.
LEMMA StutterDispose ==
  ASSUME ShapeInv, DisposeInv, UNCHANGED vars
  PROVE  DisposeInv'
<1>1. UNCHANGED <<descriptors, sites, resolved, realized, instances, disposables, disposed, cleared, stack, ret>>
  BY DEF vars, builder, callSites, accessors, scopeVars
<1>2. SameKinds
  BY <1>1 DEF SameKinds
<1>3. \A h \in Goroutines : SameHand(h)
  BY <1>1, <1>2, HandStays
<1>4. Disposing'
  BY <1>1, <1>3, QuietDisposing DEF DisposeInv
<1>5. CASE Goroutines = {}
  <2>1. CachesOK' /\ ReturnsOK' /\ HandsOnAll'
    BY <1>1, <1>5 DEF DisposeInv, Values, CachesOK, ReturnsOK, HandsOnAll, ValueOK, AllScopes, NoValue
  <2> QED
    BY <1>4, <2>1 DEF DisposeInv, Values
<1>6. CASE Goroutines # {}
  BY <1>1, <1>6, UnchangedDispose
<1> QED
  BY <1>5, <1>6

\* Every step keeps what is known of the disposables.
LEMMA DisposeStep ==
  ASSUME ShapeInv, KeepInv, DisposeInv, [Next]_vars
  PROVE  DisposeInv'
<1>1. CASE UNCHANGED vars
  BY <1>1, StutterDispose
<1>2. CASE Configure
  BY <1>2, ConfigureDispose
<1>3. ASSUME NEW g \in Goroutines, CalmActs(g) PROVE DisposeInv'
  <2>1. ShapeInv'
    BY ShapeStep
  <2>2. Calm(g) /\ NewSites
    BY <1>3, CalmStep, NewSitesStep
  <2> QED
    BY <2>1, <2>2, CalmDispose
<1>4. ASSUME NEW g \in Goroutines, VisitActs(g) PROVE DisposeInv'
  BY <1>4, visitCallSiteDispose, visitRootCacheDispose, visitScopeCacheDispose, visitPartDispose, constructDispose,
     captureDispose DEF VisitActs
<1>5. ASSUME NEW g \in Goroutines, DisposeActs(g) PROVE DisposeInv'
  BY <1>5, DisposeDispose, BeginDisposeDispose, disposeNextDispose DEF DisposeActs
<1> QED
  BY <1>1, <1>2, <1>3, <1>4, <1>5, Acts

\* Whatever is built in a scope and disposable is disposed of at most once,
\* exactly once when the scope has been disposed of and nobody runs, and never
\* before a kept instance of the same scope that was built on it, whatever the
\* goroutines, the scopes and the order of calls; a service built while its
\* scope is being disposed of included (BeginDispose, CaptureDisposable,
\* CaptureDisposableWithoutLock).
THEOREM DisposedTheorem == Spec => []DisposedOnceInOrder
<1>1. Init => ShapeInv /\ KeepInv /\ DisposeInv
  BY InitShape, InitKeep, InitDispose
<1>2. ShapeInv /\ KeepInv /\ DisposeInv /\ [Next]_vars => (ShapeInv /\ KeepInv /\ DisposeInv)'
  BY ShapeStep, KeepStep, DisposeStep
<1>3. ShapeInv /\ KeepInv /\ DisposeInv => DisposedOnceInOrder
  BY DisposedInOrder
<1> QED
  BY <1>1, <1>2, <1>3, PTL DEF Spec

-----------------------------------------------------------------------------
(* What the validator finds                                                *)

\* What the validator's sets start from, and along what they are closed.
argsOf == [c \in DOMAIN sites |-> args(c)]
scopedSites == {c \in DOMAIN sites : sites[c].loc = "scope"}
consumers == {c \in DOMAIN sites : sites[c].loc = "root" /\ args(c) \intersect findsScoped # {}}

\* The validator's sets are least ones.
LEMMA Finds ==
  findsScoped = Least(DOMAIN sites, argsOf, scopedSites) /\ refuses = Least(DOMAIN sites, argsOf, consumers)
<1>1. ASSUME NEW base PROVE Needing(base) = Least(DOMAIN sites, argsOf, base)
  <2>1. \A x \in DOMAIN sites : argsOf[x] = args(x)
    BY DEF argsOf
  <2> QED
    BY <2>1 DEF Needing, Least
<1>2. findsScoped = Least(DOMAIN sites, argsOf, scopedSites)
  BY <1>1 DEF findsScoped, scopedSites
<1>3. refuses = Needing(consumers)
  BY DEF refuses, consumers
<1> QED
  BY <1>1, <1>2, <1>3

\* What the validator refuses and what it finds.
LEMMA FindsFacts ==
  ASSUME NEW c \in DOMAIN sites
  PROVE  /\ sites[c].loc = "scope" => c \in findsScoped
         /\ sites[c].loc = "root" /\ c \in findsScoped => c \in refuses
         /\ \A p \in args(c) : (p \in findsScoped => c \in findsScoped) /\ (p \in refuses => c \in refuses)
<1>1. argsOf[c] = args(c)
  BY DEF argsOf
<1>2. PICK D, A, base, cons : D = DOMAIN sites /\ A = argsOf /\ base = scopedSites /\ cons = consumers
  OBVIOUS
<1>3. findsScoped = Least(D, A, base) /\ refuses = Least(D, A, cons)
  BY <1>2, Finds
<1>4. /\ c \in base => c \in findsScoped
      /\ A[c] \intersect findsScoped # {} => c \in findsScoped
      /\ c \in findsScoped => c \in base \/ A[c] \intersect findsScoped # {}
  BY <1>2, <1>3, LeastFacts
<1>5. /\ c \in cons => c \in refuses
      /\ A[c] \intersect refuses # {} => c \in refuses
  BY <1>2, <1>3, LeastFacts
<1>6. sites[c].loc = "scope" => c \in findsScoped
  BY <1>2, <1>4 DEF scopedSites
<1>7. ASSUME sites[c].loc = "root", c \in findsScoped PROVE c \in refuses
  <2>1. c \notin base
    BY <1>2, <1>7 DEF scopedSites
  <2>2. args(c) \intersect findsScoped # {}
    BY <1>1, <1>2, <1>4, <1>7, <2>1
  <2> QED
    BY <1>2, <1>5, <1>7, <2>2 DEF consumers
<1> QED
  BY <1>1, <1>2, <1>4, <1>5, <1>6, <1>7

\* Call sites stay as they are, but for their values.
Settled ==
    /\ descriptors' = descriptors /\ options' = options
    /\ \A c \in DOMAIN sites :
         /\ c \in DOMAIN sites' /\ sites'[c].type = sites[c].type /\ sites'[c].loc = sites[c].loc
         /\ sites'[c].params = sites[c].params

\* What the validator makes of a call site never changes.
LEMMA FindsStay ==
  ASSUME ShapeInv, Settled, NEW c \in DOMAIN sites
  PROVE  (c \in findsScoped' <=> c \in findsScoped) /\ (c \in refuses' <=> c \in refuses)
<1>1. PICK D, A, base, cons, D2, A2, base2, cons2 :
        /\ D = DOMAIN sites /\ A = argsOf /\ base = scopedSites /\ cons = consumers
        /\ D2 = DOMAIN sites' /\ A2 = argsOf' /\ base2 = scopedSites' /\ cons2 = consumers'
  OBVIOUS
<1>2. findsScoped = Least(D, A, base) /\ refuses = Least(D, A, cons)
  BY <1>1, Finds
<1>3. findsScoped' = Least(D2, A2, base2) /\ refuses' = Least(D2, A2, cons2)
  <2>1. (findsScoped = Least(DOMAIN sites, argsOf, scopedSites) /\ refuses = Least(DOMAIN sites, argsOf, consumers))'
    BY Finds, PTL
  <2> QED
    BY <1>1, <2>1 DEF Least
<1>4. D \subseteq D2
  BY <1>1 DEF Settled
<1>5. ASSUME NEW x \in D PROVE A2[x] = A[x] /\ A[x] \subseteq D /\ A[x] = args(x) /\ (args(x)' = args(x)) /\ (x \in base2 <=> x \in base)
  <2>1. A[x] = args(x) /\ A2[x] = args(x)'
    BY <1>1, <1>4 DEF argsOf
  <2>2. args(x)' = args(x)
    BY <1>1 DEF args, Settled
  <2>3. args(x) \subseteq D
    <3>1. SiteOK(x) /\ DOMAIN sites = 1..Len(sites) /\ Len(sites) \in Nat
      BY <1>1, SeqFacts DEF ShapeInv, SitesOK
    <3>2. \A p \in 1..x - 1 : p \in D
      BY <1>1, <3>1
    <3> QED
      BY <3>1, <3>2 DEF SiteOK, args
  <2> QED
    BY <1>1, <1>4, <2>1, <2>2, <2>3 DEF scopedSites, Settled
<1>6. \A x \in D : x \in findsScoped' <=> x \in findsScoped
  BY <1>2, <1>3, <1>4, <1>5, LeastStays
<1>7. \A x \in D : x \in cons2 <=> x \in cons
  <2>1. ASSUME NEW x \in D PROVE x \in cons2 <=> x \in cons
    <3>1. args(x)' \intersect findsScoped' # {} <=> args(x) \intersect findsScoped # {}
      BY <1>5, <1>6
    <3> QED
      BY <1>1, <1>4, <3>1 DEF consumers, Settled
  <2> QED
    BY <2>1
<1>8. \A x \in D : x \in refuses' <=> x \in refuses
  BY <1>2, <1>3, <1>4, <1>5, <1>7, LeastStays
<1> QED
  BY <1>1, <1>6, <1>8
-----------------------------------------------------------------------------
(* What is asked for, and what may be resolved where                       *)

\* What a frame may return to one that waits for a call site.
Fits(f, r) ==
    r.ok =>
      /\ f.fn = "exact" => r.site \in DOMAIN sites /\ sites[r.site].type = descriptors[f.d].type
      /\ f.fn \in {"site", "slice"} => Answers(r.site, f.t)

\* What is known of call sites stays.
LEMMA SafeStays ==
  ASSUME ShapeInv, Settled
  PROVE  /\ Guarded' => Guarded
         /\ \A c \in DOMAIN sites : \A s : Safe(c, s) => Safe(c, s)'
         /\ \A c, t : Answers(c, t) => Answers(c, t)'
<1>1. validateScopes' = validateScopes
  BY DEF validateScopes, Settled
<1>2. ASSUME ownTypeOnly' PROVE ownTypeOnly
  <2>1. SUFFICES ASSUME NEW c \in findsScoped, NEW d \in DOMAIN descriptors, descriptors[d].type = sites[c].type
                 PROVE  descriptors[d].impl = {}
    BY DEF ownTypeOnly
  <2>2. c \in DOMAIN sites
    BY <2>1 DEF findsScoped, Needing
  <2>3. c \in findsScoped' /\ sites'[c].type = sites[c].type /\ descriptors' = descriptors
    BY <2>1, <2>2, FindsStay DEF Settled
  <2> QED
    BY <1>2, <2>1, <2>3 DEF ownTypeOnly
<1>3. Guarded' => Guarded
  BY <1>1, <1>2 DEF Guarded
<1>4. \A c \in DOMAIN sites : \A s : Safe(c, s) => Safe(c, s)'
  BY <1>3, FindsStay DEF Safe
<1>5. \A c, t : Answers(c, t) => Answers(c, t)'
  BY DEF Answers, Settled
<1> QED
  BY <1>3, <1>4, <1>5

\* A frame stays safe.
LEMMA FrameSafeStays ==
  ASSUME ShapeInv, Settled, NEW f, FrameOK(f), FrameSafe(f)
  PROVE  FrameSafe(f)'
<1>1. /\ f.fn = "visit" => f.site \in DOMAIN sites
      /\ f.fn = "get" /\ f.pc = "value" => f.site \in DOMAIN sites
  BY DEF FrameOK
<1>2. PICK c, s, z : c = f.site /\ s = f.scope /\ z = Root
  OBVIOUS
<1>3. c \in DOMAIN sites => (Safe(c, s) => Safe(c, s)') /\ (Safe(c, z) => Safe(c, z)')
  BY SafeStays
<1> QED
  BY <1>1, <1>2, <1>3 DEF FrameSafe

\* Stacks stay safe if the frames above the k-th are.
LEMMA SafeMoves ==
  ASSUME ShapeInv, AskStacks, FramesSafe, NEW g \in Goroutines, NEW k, NEW m, Moves(g, k, m), k <= Len(stack[g]), Settled,
         m >= 1 => /\ FrameSafe(stack[g][k + 1])'
                   /\ k # 0 => AskPair(stack[g][k], stack'[g][k + 1]),
         m = 2 => FrameSafe(stack[g][k + 2])' /\ AskPair(stack'[g][k + 1], stack'[g][k + 2])
  PROVE  AskStacks' /\ FramesSafe'
<1>1. k \in Nat /\ m \in 0..2 /\ DOMAIN stack'[g] = 1..(k + m) /\ Len(stack[g]) \in Nat /\ DOMAIN stack[g] = 1..Len(stack[g])
  BY SeqFacts DEF Moves, ShapeInv, ShapeStacks, StacksAre
<1>2. ASSUME NEW h \in Goroutines, NEW n \in DOMAIN stack'[h] PROVE FrameSafe(stack[h][n])'
  <2>1. CASE (h # g \/ n \in 1..k)
    <3>1. n \in DOMAIN stack[h] /\ stack'[h][n] = stack[h][n]
      BY <1>1, <1>2, <2>1 DEF Moves
    <3>2. PICK f : f = stack[h][n]
      OBVIOUS
    <3>3. FrameSafe(f) /\ FrameOK(f)
      BY <3>1, <3>2 DEF FramesSafe, ShapeInv, ShapeStacks, FramesOK
    <3>4. FrameSafe(f)'
      BY <3>3, FrameSafeStays
    <3> QED
      BY <3>1, <3>2, <3>4
  <2>2. CASE h = g /\ n \notin 1..k
    <3>1. (n = k + 1 /\ m >= 1) \/ (n = k + 2 /\ m = 2)
      BY <1>1, <1>2, <2>2
    <3> QED
      BY <2>2, <3>1
  <2> QED
    BY <2>1, <2>2
<1>3. \A lo, hi : AskPair(lo, hi)' <=> AskPair(lo, hi)
  BY DEF AskPair, Provides, descriptorImplements, Settled
<1>4. ASSUME NEW h \in Goroutines, NEW n \in DOMAIN stack'[h], n # 1 PROVE AskPair(stack'[h][n - 1], stack'[h][n])
  <2>1. CASE h # g
    BY <1>4, <2>1 DEF AskStacks, Moves
  <2>2. CASE h = g /\ n \in 1..k
    <3>1. n \in DOMAIN stack[g] /\ stack'[g][n] = stack[g][n] /\ n - 1 \in 1..k
      BY <1>1, <1>4, <2>2 DEF Moves
    <3>2. stack'[g][n - 1] = stack[g][n - 1]
      BY <3>1 DEF Moves
    <3> QED
      BY <1>4, <2>2, <3>1, <3>2 DEF AskStacks
  <2>3. CASE h = g /\ n \notin 1..k
    <3>1. (n = k + 1 /\ m >= 1 /\ n - 1 = k /\ k # 0 /\ k \in 1..k) \/ (n = k + 2 /\ m = 2 /\ n - 1 = k + 1)
      BY <1>1, <1>4, <2>3
    <3>2. k \in 1..k => stack'[g][k] = stack[g][k]
      BY DEF Moves
    <3> QED
      BY <2>3, <3>1, <3>2
  <2> QED
    BY <2>1, <2>2, <2>3
<1>5. AskStacks'
  <2>1. ASSUME NEW h \in Goroutines, NEW n \in DOMAIN stack'[h], n # 1 PROVE AskPair(stack[h][n - 1], stack[h][n])'
    <3>1. PICK lo, hi : lo = stack'[h][n - 1] /\ hi = stack'[h][n]
      OBVIOUS
    <3>2. AskPair(lo, hi)'
      BY <1>3, <1>4, <2>1, <3>1
    <3> QED
      BY <3>1, <3>2
  <2> QED
    BY <2>1 DEF AskStacks
<1> QED
  BY <1>2, <1>5 DEF FramesSafe

\* f takes old's place: whoever asked old for something still asks for it.
Keeps(f, old) ==
    f.fn \in {"site", "exact", "slice"} => f.fn = old.fn /\ f.t = old.t /\ (f.fn = "exact" => f.d = old.d)

\* A step of g goes on, calls or returns, safely.
Turn(g) ==
    \/ \E f : Goto(g, f) /\ Keeps(f, top(g)) /\ ~Awaits(f) /\ FrameSafe(f)'
    \/ \E f, f2 : /\ Call(g, f, f2) /\ Keeps(f, top(g)) /\ ~Awaits(f2) /\ AskPair(f, f2)
                  /\ FrameSafe(f)' /\ FrameSafe(f2)'
    \/ \E f, r : Return(g, r) /\ f = top(g) /\ Fits(f, r)'

\* g's step leaves the answers of the others.
LEMMA AnswersStay ==
  ASSUME ShapeInv, RetAnswers, Settled, NEW g \in Goroutines, NEW k, NEW m, Moves(g, k, m),
         \A h \in Goroutines \ {g} : ret'[h] = ret[h],
         NEW f, NEW r, stack'[g] # <<>> => top(g)' = f, ret'[g] = r,
         stack'[g] # <<>> /\ Awaits(f) /\ r.ok => Answers(r.site, f.t)'
  PROVE  RetAnswers'
<1>1. SUFFICES ASSUME NEW h \in Goroutines, stack'[h] # <<>>, Awaits(top(h)'), ret'[h].ok
               PROVE  Answers(ret[h].site, top(h).t)'
  BY DEF RetAnswers, Awaits
<1>2. CASE h = g
  BY <1>1, <1>2
<1>3. CASE h # g
  <2>1. stack'[h] = stack[h] /\ ret'[h] = ret[h] /\ top(h)' = top(h)
    BY <1>3 DEF Moves, top
  <2>2. PICK c, t : c = ret[h].site /\ t = top(h).t
    OBVIOUS
  <2>3. Answers(c, t)
    BY <1>1, <2>1, <2>2 DEF RetAnswers
  <2>4. Answers(c, t)'
    BY <2>3, SafeStays
  <2> QED
    BY <2>1, <2>2, <2>4
<1> QED
  BY <1>2, <1>3

\* Stacks after such a step.
LEMMA TurnSafe ==
  ASSUME ShapeInv, StacksSafe, Settled, NEW g \in Goroutines, stack[g] # <<>>, Turn(g)
  PROVE  StacksSafe'
<1>0. PICK n, k : n = Len(stack[g]) /\ k = n - 1
  OBVIOUS
<1>1. /\ n \in Nat \ {0} /\ DOMAIN stack[g] = 1..n /\ n \in DOMAIN stack[g] /\ top(g) = stack[g][n] /\ StacksAre
      /\ n # 1 => CalledBy(stack[g][n - 1], top(g))
  BY <1>0, TopFacts DEF ShapeInv, ShapeStacks
<1>2. k \in Nat /\ k + 1 = n /\ k + 2 = n + 1 /\ k <= Len(stack[g]) /\ (k = 0 <=> n = 1) /\ k + 0 = k /\ 1 # 2 /\ ~(0 >= 1) /\ 0 # 2
  BY <1>0, <1>1
<1>3. k # 0 => AskPair(stack[g][k], top(g)) /\ CalledBy(stack[g][k], top(g))
  BY <1>0, <1>1, <1>2 DEF StacksSafe, AskStacks
<1>4. ASSUME NEW f, Keeps(f, top(g)), k # 0 PROVE AskPair(stack[g][k], f)
  BY <1>3, <1>4 DEF Keeps, AskPair
<1>5. AskStacks /\ RetAnswers /\ FramesSafe
  BY DEF StacksSafe
<1>6. ASSUME NEW f, Goto(g, f), Keeps(f, top(g)), ~Awaits(f), FrameSafe(f)' PROVE StacksSafe'
  <2>1. Moves(g, k, 1) /\ stack'[g][n] = f /\ ret'[g] = NoRet /\ \A h \in Goroutines \ {g} : ret'[h] = ret[h]
    BY <1>0, <1>1, <1>6, GotoMoves
  <2>2. FrameSafe(stack[g][k + 1])' /\ (k # 0 => AskPair(stack[g][k], stack'[g][k + 1]))
    BY <1>2, <1>4, <1>6, <2>1
  <2>3. AskStacks' /\ FramesSafe'
    BY <1>2, <1>5, <2>1, <2>2, SafeMoves
  <2>4. top(g)' = f
    BY <1>2, <2>1 DEF top, Moves
  <2>5. RetAnswers'
    BY <1>5, <1>6, <2>1, <2>4, AnswersStay
  <2> QED
    BY <2>3, <2>5 DEF StacksSafe
<1>7. ASSUME NEW f, NEW f2, Call(g, f, f2), Keeps(f, top(g)), ~Awaits(f2), AskPair(f, f2), FrameSafe(f)', FrameSafe(f2)'
      PROVE  StacksSafe'
  <2>1. /\ Moves(g, k, 2) /\ stack'[g][n] = f /\ stack'[g][n + 1] = f2 /\ ret'[g] = NoRet
        /\ \A h \in Goroutines \ {g} : ret'[h] = ret[h]
    BY <1>0, <1>1, <1>7, CallMoves
  <2>2. FrameSafe(stack[g][k + 1])' /\ (k # 0 => AskPair(stack[g][k], stack'[g][k + 1]))
    BY <1>2, <1>4, <1>7, <2>1
  <2>3. FrameSafe(stack[g][k + 2])' /\ AskPair(stack'[g][k + 1], stack'[g][k + 2])
    BY <1>2, <1>7, <2>1
  <2>4. AskStacks' /\ FramesSafe'
    BY <1>2, <1>5, <2>1, <2>2, <2>3, SafeMoves
  <2>5. top(g)' = f2
    BY <1>2, <2>1 DEF top, Moves
  <2>6. RetAnswers'
    BY <1>5, <1>7, <2>1, <2>5, AnswersStay
  <2> QED
    BY <2>4, <2>6 DEF StacksSafe
<1>8. ASSUME NEW e, NEW r, Return(g, r), e = top(g), Fits(e, r)' PROVE StacksSafe'
  <2>1. Moves(g, k, 0) /\ ret'[g] = r /\ \A h \in Goroutines \ {g} : ret'[h] = ret[h]
    BY <1>0, <1>1, <1>8, ReturnMoves
  <2>2. AskStacks' /\ FramesSafe'
    BY <1>2, <1>5, <2>1, SafeMoves
  <2>3. (k # 0 => top(g)' = stack[g][k]) /\ (k = 0 => stack'[g] = <<>>)
    <3>1. Len(stack'[g]) = k /\ (k # 0 => k \in 1..k)
      BY <1>2, <2>1 DEF Moves
    <3> QED
      BY <2>1, <3>1, SeqFacts DEF top, Moves
  <2>4. PICK f : f = stack[g][k]
    OBVIOUS
  <2>5. ASSUME k # 0, Awaits(f), r.ok PROVE Answers(r.site, f.t)'
    <3>2. AskPair(f, e) /\ CalledBy(f, e) /\ e.fn \in {"site", "exact", "slice"} /\ FrameOK(e)
      <4>1. AskPair(f, e) /\ CalledBy(f, e)
        BY <1>3, <1>8, <2>4, <2>5
      <4>2. FrameOK(e)
        BY <1>8, TopFacts DEF ShapeInv
      <4> QED
        BY <2>5, <4>1, <4>2 DEF CalledBy, Awaits
    <3>3. Fits(e, r)'
      BY <1>8
    <3>4. CASE e.fn \in {"site", "slice"}
      BY <2>5, <3>2, <3>3, <3>4 DEF Fits, AskPair, Awaits
    <3>5. CASE e.fn = "exact"
      <4>1. Provides(descriptors[e.d], f.t) /\ e.d \in DOMAIN descriptors
        BY <2>5, <3>2, <3>5 DEF AskPair, Awaits, FrameOK
      <4>2. r.site \in DOMAIN sites' /\ sites'[r.site].type = descriptors[e.d].type /\ descriptors' = descriptors
        BY <2>5, <3>3, <3>5 DEF Fits, Settled
      <4> QED
        BY <4>1, <4>2 DEF Answers, Provides, descriptorImplements
    <3> QED
      BY <3>2, <3>4, <3>5
  <2>6. RetAnswers'
    BY <1>5, <2>1, <2>3, <2>4, <2>5, AnswersStay
  <2> QED
    BY <2>2, <2>6 DEF StacksSafe
<1> QED
  BY <1>6, <1>7, <1>8 DEF Turn

\* The validator has nothing against a frame that resolves nothing.
LEMMA IdleFrame ==
  ASSUME NEW f, f.fn # "visit", f.fn # "get" \/ f.pc # "value"
  PROVE  FrameSafe(f)'
BY DEF FrameSafe

\* What is returned to nobody who waits for a call site, or with an error.
LEMMA ReturnTurn ==
  ASSUME NEW g, NEW r, Return(g, r), ~r.ok \/ top(g).fn \notin {"site", "exact", "slice"}
  PROVE  Turn(g)
<1>1. PICK f : f = top(g)
  OBVIOUS
<1>2. Fits(f, r)'
  BY <1>1 DEF Fits
<1> QED
  BY <1>1, <1>2 DEF Turn

\* A frame that resolves nothing goes on.
LEMMA GotoTurn ==
  ASSUME NEW g, NEW f, Goto(g, f), f.fn # "visit", f.pc \notin {"made", "value"}, Keeps(f, top(g))
  PROVE  Turn(g)
<1>1. FrameSafe(f)' /\ ~Awaits(f)
  BY IdleFrame DEF Awaits
<1> QED
  BY <1>1 DEF Turn

\* A frame that resolves nothing calls another one.
LEMMA CallTurn ==
  ASSUME NEW g, NEW f, NEW f2, Call(g, f, f2), f.fn # "visit", f.pc # "value", f2.fn # "visit", f2.pc = "enter",
         Keeps(f, top(g)), AskPair(f, f2)
  PROVE  Turn(g)
<1>1. FrameSafe(f)' /\ FrameSafe(f2)' /\ ~Awaits(f2)
  BY IdleFrame DEF Awaits
<1> QED
  BY <1>1 DEF Turn

\* GetCallSite finds a call site of the type, or goes on.
LEMMA GetCallSiteTurn ==
  ASSUME ShapeInv, CaptiveInv, Settled, NEW g \in Goroutines, GetCallSite(g)
  PROVE  Turn(g)
<1>1. PICK f : f = top(g)
  OBVIOUS
<1>2. stack[g] # <<>> /\ IsFrame(f) /\ f.fn = "site"
  BY <1>1, AtFacts DEF GetCallSite
<1>3. ASSUME <<f.t, 0>> \in DOMAIN callSiteCache, Return(g, Site(callSiteCache[<<f.t, 0>>])) PROVE Turn(g)
  <2>1. PICK k, c, r, t : k = <<f.t, 0>> /\ c = callSiteCache[k] /\ r = Site(c) /\ t = f.t
    OBVIOUS
  <2>2. k[1] = t /\ r.site = c
    BY <2>1 DEF Site
  <2>3. Answers(c, t)
    BY <1>3, <2>1, <2>2 DEF Answers, ShapeInv, SitesOK, CaptiveInv, CacheTyped
  <2>4. Answers(c, t)'
    BY <2>3, SafeStays
  <2>5. Fits(f, r)'
    BY <1>2, <2>1, <2>2, <2>4 DEF Fits
  <2> QED
    BY <1>1, <1>3, <2>1, <2>5 DEF Turn
<1>4. ASSUME Return(g, Err) PROVE Turn(g)
  BY <1>4, ReturnTurn DEF Err
<1>5. ASSUME Goto(g, [f EXCEPT !.pc = "lock"]) PROVE Turn(g)
  <2>1. PICK e : e = [f EXCEPT !.pc = "lock"]
    OBVIOUS
  <2>2. e.fn = "site" /\ e.pc = "lock" /\ e.t = f.t
    BY <1>2, <2>1 DEF IsFrame
  <2> QED
    BY <1>1, <1>2, <1>5, <2>1, <2>2, GotoTurn DEF Keeps
<1> QED
  BY <1>1, <1>3, <1>4, <1>5 DEF GetCallSite

\* A descriptor that was registered for a type.
LEMMA LastProvides ==
  ASSUME ShapeInv, NEW t, NEW ds \in SUBSET Registered(t), ds # {}
  PROVE  Last(ds) \in DOMAIN descriptors /\ Provides(descriptors[Last(ds)], t)
<1>1. ds \in SUBSET DOMAIN descriptors /\ IsSeq(descriptors)
  BY DEF Registered, ShapeInv, BuildingOK
<1>2. Last(ds) \in ds
  BY <1>1, LastFacts
<1> QED
  BY <1>2 DEF Registered

\* createCallSite asks for a registration for the type, or a slice of it.
LEMMA createCallSiteTurn ==
  ASSUME ShapeInv, NEW g \in Goroutines, createCallSite(g)
  PROVE  Turn(g)
<1>1. PICK f : f = top(g)
  OBVIOUS
<1>2. stack[g] # <<>> /\ IsFrame(f) /\ f.fn = "site"
  BY <1>1, AtFacts DEF createCallSite
<1>3. ASSUME Return(g, Err) PROVE Turn(g)
  BY <1>3, ReturnTurn DEF Err
<1>4. PICK e, ds : e = [f EXCEPT !.pc = "made"] /\ ds = Registered(f.t)
  OBVIOUS
<1>5. e.fn = "site" /\ e.pc = "made" /\ e.t = f.t /\ Keeps(e, top(g))
  BY <1>1, <1>2, <1>4 DEF IsFrame, Keeps
<1>6. ASSUME ds # {}, Call(g, e, exactFrame(Last(ds), 0)) PROVE Turn(g)
  <2>1. PICK e2 : e2 = exactFrame(Last(ds), 0)
    OBVIOUS
  <2>2. e2.fn = "exact" /\ e2.pc = "enter" /\ e2.d = Last(ds)
    BY <2>1, ExactFrame
  <2>3. Provides(descriptors[Last(ds)], f.t)
    BY <1>4, <1>6, LastProvides
  <2>4. AskPair(e, e2)
    BY <1>5, <2>2, <2>3 DEF AskPair
  <2> QED
    BY <1>5, <1>6, <2>1, <2>2, <2>4, CallTurn
<1>7. ASSUME Call(g, e, sliceFrame(f.t)) PROVE Turn(g)
  <2>1. PICK e2 : e2 = sliceFrame(f.t)
    OBVIOUS
  <2>2. e2.fn = "slice" /\ e2.pc = "enter" /\ e2.t = f.t
    BY <2>1, SliceFrame
  <2>3. AskPair(e, e2)
    BY <1>5, <2>2 DEF AskPair
  <2> QED
    BY <1>5, <1>7, <2>1, <2>2, <2>3, CallTurn
<1> QED
  BY <1>1, <1>3, <1>4, <1>6, <1>7 DEF createCallSite

\* createCallSiteReturns hands on the call site it was given.
LEMMA createCallSiteReturnsTurn ==
  ASSUME ShapeInv, CaptiveInv, Settled, NEW g \in Goroutines, createCallSiteReturns(g)
  PROVE  Turn(g)
<1>1. PICK f, r : f = top(g) /\ r = ret[g]
  OBVIOUS
<1>2. stack[g] # <<>> /\ f.fn = "site" /\ f.pc = "made" /\ Return(g, r)
  BY <1>1, AtFacts DEF createCallSiteReturns
<1>3. PICK c, t : c = r.site /\ t = f.t
  OBVIOUS
<1>4. r.ok => Answers(c, t)
  BY <1>1, <1>2, <1>3 DEF CaptiveInv, StacksSafe, RetAnswers, Awaits
<1>5. r.ok => Answers(c, t)'
  BY <1>4, SafeStays
<1>6. Fits(f, r)'
  BY <1>2, <1>3, <1>5 DEF Fits
<1> QED
  BY <1>1, <1>2, <1>6 DEF Turn

\* NextArgument asks for a parameter, or goes on.
LEMMA NextArgumentTurn ==
  ASSUME NEW g, NEW f, IsFrame(f), f.fn = "exact", top(g).fn = "exact", f.t = top(g).t, f.d = top(g).d, NextArgument(g, f)
  PROVE  Turn(g)
<1>1. PICK e, e1, t : e = [f EXCEPT !.pc = "arg"] /\ e1 = [f EXCEPT !.pc = "store"] /\ t = descriptors[f.d].in[Len(f.acc) + 1]
  OBVIOUS
<1>2. /\ e.fn = "exact" /\ e.pc = "arg" /\ Keeps(e, top(g))
      /\ e1.fn = "exact" /\ e1.pc = "store" /\ Keeps(e1, top(g))
  BY <1>1 DEF IsFrame, Keeps
<1>3. PICK e2 : e2 = siteFrame(t)
  OBVIOUS
<1>4. e2.fn = "site" /\ e2.pc = "enter" /\ AskPair(e, e2)
  BY <1>2, <1>3, SiteFrame DEF AskPair
<1>5. Call(g, e, e2) \/ Goto(g, e1)
  BY <1>1, <1>3 DEF NextArgument
<1> QED
  BY <1>2, <1>4, <1>5, CallTurn, GotoTurn

\* tryCreateExact finds the call site of its descriptor, or goes on.
LEMMA tryCreateExactTurn ==
  ASSUME ShapeInv, CaptiveInv, Settled, NEW g \in Goroutines, tryCreateExact(g)
  PROVE  Turn(g)
<1>1. PICK f : f = top(g)
  OBVIOUS
<1>2. stack[g] # <<>> /\ IsFrame(f) /\ f.fn = "exact"
  BY <1>1, AtFacts DEF tryCreateExact
<1>3. PICK k : k = <<descriptors[f.d].type, f.slot>>
  OBVIOUS
<1>4. ASSUME k \in DOMAIN callSiteCache, Return(g, Site(callSiteCache[k])) PROVE Turn(g)
  <2>1. PICK c, r : c = callSiteCache[k] /\ r = Site(c)
    OBVIOUS
  <2>2. k[1] = descriptors[f.d].type /\ r.site = c
    BY <1>3, <2>1 DEF Site
  <2>3. c \in DOMAIN sites /\ sites[c].type = descriptors[f.d].type
    BY <1>4, <2>1, <2>2 DEF ShapeInv, SitesOK, CaptiveInv, CacheTyped
  <2>4. Fits(f, r)'
    BY <1>2, <2>2, <2>3 DEF Fits, Settled
  <2> QED
    BY <1>1, <1>4, <2>1, <2>4 DEF Turn
<1>5. ASSUME Return(g, Err) PROVE Turn(g)
  BY <1>5, ReturnTurn DEF Err
<1>6. ASSUME NextArgument(g, f) PROVE Turn(g)
  BY <1>1, <1>2, <1>6, NextArgumentTurn
<1>7. ASSUME NextArgument(g, [f EXCEPT !.acc = Append(@, ret[g].site)]) PROVE Turn(g)
  <2>1. PICK e : e = [f EXCEPT !.acc = Append(@, ret[g].site)]
    OBVIOUS
  <2>2. IsFrame(e) /\ e.fn = "exact" /\ e.t = f.t /\ e.d = f.d
    BY <1>2, <2>1 DEF IsFrame
  <2> QED
    BY <1>1, <1>2, <1>7, <2>1, <2>2, NextArgumentTurn
<1> QED
  BY <1>1, <1>3, <1>4, <1>5, <1>6, <1>7 DEF tryCreateExact

\* A call site more leaves the others as they are.
LEMMA AddedSettled ==
  ASSUME ShapeInv, NEW c, sites' = Append(sites, c), UNCHANGED <<descriptors, options>>, NEW id, id = Len(sites) + 1
  PROVE  Settled /\ id \in DOMAIN sites' /\ sites'[id] = c
<1>1. IsSeq(sites) /\ Len(sites) \in Nat /\ DOMAIN sites = 1..Len(sites)
  BY SeqFacts DEF ShapeInv, SitesOK
<1>2. /\ IsSeq(sites') /\ Len(sites') = Len(sites) + 1 /\ (\A e \in 1..Len(sites) : sites'[e] = sites[e])
      /\ sites'[Len(sites) + 1] = c
  BY <1>1, AppendFacts
<1>3. DOMAIN sites' = 1..Len(sites) + 1
  BY <1>1, <1>2, SeqFacts
<1>4. \A e \in 1..Len(sites) : e \in 1..Len(sites) + 1
  BY <1>1
<1>5. id \in 1..Len(sites) + 1
  BY <1>1
<1> QED
  BY <1>1, <1>2, <1>3, <1>4, <1>5 DEF Settled

\* storeCallSite returns a call site of the descriptor's type, and caches it.
LEMMA storeCallSiteTurn ==
  ASSUME ShapeInv, CaptiveInv, NEW g \in Goroutines, storeCallSite(g)
  PROVE  Turn(g) /\ Settled /\ CacheTyped'
<1>1. PICK f, d, id : f = top(g) /\ d = descriptors[f.d] /\ id = Len(sites) + 1
  OBVIOUS
<1>2. stack[g] # <<>> /\ f.fn = "exact"
  BY <1>1, AtFacts DEF storeCallSite
<1>3. PICK c : c = newCallSite(d.kind, d.type, f.d, f.acc, CacheLocation(d), f.slot)
  OBVIOUS
<1>4. /\ sites' = Append(sites, c) /\ UNCHANGED <<descriptors, options>> /\ Return(g, Site(id))
      /\ callSiteCache' = With(callSiteCache, <<d.type, f.slot>>, id)
  BY <1>1, <1>3 DEF storeCallSite, builder
<1>5. Settled /\ id \in DOMAIN sites' /\ sites'[id] = c /\ c.type = d.type
  BY <1>1, <1>3, <1>4, AddedSettled DEF newCallSite
<1>6. PICK r : r = Site(id)
  OBVIOUS
<1>7. r.site = id
  BY <1>6 DEF Site
<1>8. Fits(f, r)'
  BY <1>1, <1>2, <1>4, <1>5, <1>7 DEF Fits
<1>9. Turn(g)
  BY <1>1, <1>4, <1>6, <1>8 DEF Turn
<1>10. CacheTyped'
  <2>1. PICK k : k = <<d.type, f.slot>>
    OBVIOUS
  <2>2. k[1] = d.type
    BY <2>1
  <2>3. ASSUME NEW x \in DOMAIN callSiteCache' PROVE sites'[callSiteCache'[x]].type = x[1]
    <3>1. CASE x = k
      BY <1>4, <1>5, <2>1, <2>2, <3>1 DEF With
    <3>2. CASE x # k
      <4>1. x \in DOMAIN callSiteCache /\ callSiteCache'[x] = callSiteCache[x]
        BY <1>4, <2>1, <2>3, <3>2 DEF With
      <4> QED
        BY <1>5, <4>1 DEF ShapeInv, SitesOK, CaptiveInv, CacheTyped, Settled
    <3> QED
      BY <3>1, <3>2
  <2> QED
    BY <2>3 DEF CacheTyped
<1> QED
  BY <1>5, <1>9, <1>10

\* createSlice asks for the next element, or returns a call site of the slice.
LEMMA createSliceTurn ==
  ASSUME ShapeInv, NEW g \in Goroutines, createSlice(g)
  PROVE  Turn(g) /\ Settled
<1>1. PICK f, id : f = top(g) /\ id = Len(sites) + 1
  OBVIOUS
<1>2. stack[g] # <<>> /\ IsFrame(f) /\ f.fn = "slice"
  BY <1>1, AtFacts DEF createSlice
<1>3. UNCHANGED <<descriptors, options>>
  BY DEF createSlice, builder
<1>4. PICK c : c = newCallSite("slice", f.t, 0, f.acc, sliceLocation(f.acc), 0)
  OBVIOUS
<1>5. ASSUME NEW d, NEW slot, Call(g, [f EXCEPT !.pc = "elem", !.d = d], exactFrame(d, slot)), UNCHANGED sites
      PROVE  Turn(g) /\ Settled
  <2>1. PICK e, e2 : e = [f EXCEPT !.pc = "elem", !.d = d] /\ e2 = exactFrame(d, slot)
    OBVIOUS
  <2>2. e.fn = "slice" /\ e.pc = "elem" /\ e.t = f.t /\ e2.fn = "exact" /\ e2.pc = "enter"
    BY <1>2, <2>1, ExactFrame DEF IsFrame
  <2>3. Keeps(e, top(g)) /\ AskPair(e, e2)
    BY <1>1, <1>2, <2>2 DEF Keeps, AskPair
  <2> QED
    BY <1>3, <1>5, <2>1, <2>2, <2>3, CallTurn DEF Settled
<1>6. ASSUME sites' = Append(sites, c), Return(g, Site(id)) PROVE Turn(g) /\ Settled
  <2>1. Settled /\ id \in DOMAIN sites' /\ sites'[id] = c /\ c.type = f.t
    BY <1>1, <1>3, <1>4, <1>6, AddedSettled DEF newCallSite
  <2>2. PICK r : r = Site(id)
    OBVIOUS
  <2>3. Fits(f, r)'
    BY <1>2, <2>1, <2>2 DEF Fits, Answers, Site
  <2> QED
    BY <1>1, <1>6, <2>1, <2>2, <2>3 DEF Turn
<1>7. PICK ds : ds = {i \in Registered(Elem[f.t]) : i > f.d}
  OBVIOUS
<1>8. PICK d : d = CHOOSE i \in ds : \A j \in ds : i <= j
  OBVIOUS
<1>9. \/ Call(g, [f EXCEPT !.pc = "elem", !.d = d], exactFrame(d, SlotIn(ds, d))) /\ UNCHANGED sites
      \/ sites' = Append(sites, c) /\ Return(g, Site(id))
  BY <1>1, <1>4, <1>7, <1>8 DEF createSlice
<1> QED
  BY <1>5, <1>6, <1>9

\* createSliceElement goes on with one element more.
LEMMA createSliceElementTurn ==
  ASSUME ShapeInv, NEW g \in Goroutines, createSliceElement(g)
  PROVE  Turn(g)
<1>1. PICK f : f = top(g)
  OBVIOUS
<1>2. stack[g] # <<>> /\ IsFrame(f) /\ f.fn = "slice"
  BY <1>1, AtFacts DEF createSliceElement
<1>3. PICK e : e = [f EXCEPT !.pc = "enter", !.acc = Append(@, ret[g].site)]
  OBVIOUS
<1>4. e.fn = "slice" /\ e.pc = "enter" /\ e.t = f.t
  BY <1>2, <1>3 DEF IsFrame
<1>5. ASSUME Goto(g, e) PROVE Turn(g)
  BY <1>1, <1>2, <1>4, <1>5, GotoTurn DEF Keeps
<1>6. ASSUME Return(g, Err) PROVE Turn(g)
  BY <1>6, ReturnTurn DEF Err
<1> QED
  BY <1>1, <1>3, <1>5, <1>6 DEF createSliceElement

\* validateService asks for a call site of the next descriptor.
LEMMA validateServiceTurn ==
  ASSUME ShapeInv, NEW g \in Goroutines, validateService(g)
  PROVE  Turn(g)
<1>1. PICK f : f = top(g)
  OBVIOUS
<1>2. stack[g] # <<>> /\ IsFrame(f) /\ f.fn = "validate"
  BY <1>1, AtFacts DEF validateService
<1>3. PICK e, e2 : e = [f EXCEPT !.pc = "made", !.d = @ + 1] /\ e2 = exactFrame(f.d + 1, GetSlot(f.d + 1))
  OBVIOUS
<1>4. e.fn = "validate" /\ e.pc = "made" /\ e2.fn = "exact" /\ e2.pc = "enter"
  BY <1>2, <1>3, ExactFrame DEF IsFrame
<1>5. Keeps(e, top(g)) /\ AskPair(e, e2)
  BY <1>4 DEF Keeps, AskPair
<1>6. ASSUME Call(g, e, e2) PROVE Turn(g)
  BY <1>4, <1>5, <1>6, CallTurn
<1>7. ASSUME NEW r, Return(g, r) PROVE Turn(g)
  BY <1>1, <1>2, <1>7, ReturnTurn
<1> QED
  BY <1>1, <1>3, <1>6, <1>7 DEF validateService

\* validatedService notes an error and goes on.
LEMMA validatedServiceTurn ==
  ASSUME ShapeInv, NEW g \in Goroutines, validatedService(g)
  PROVE  Turn(g) /\ scopedServices \subseteq scopedServices'
<1>1. PICK f : f = top(g)
  OBVIOUS
<1>2. stack[g] # <<>> /\ IsFrame(f) /\ f.fn = "validate"
  BY <1>1, AtFacts DEF validatedService
<1>3. PICK ok : /\ Goto(g, [f EXCEPT !.pc = "enter", !.held = @ \/ ~ok])
                /\ scopedServices' = IF ok THEN scopedBy(ret[g].site) ELSE scopedServices
  <2>1. PICK ok : ok = (ret[g].ok /\ ValidateCallSite(ret[g].site))
    OBVIOUS
  <2> QED
    BY <1>1, <2>1 DEF validatedService
<1>4. PICK e : e = [f EXCEPT !.pc = "enter", !.held = @ \/ ~ok]
  OBVIOUS
<1>5. e.fn = "validate" /\ e.pc = "enter"
  BY <1>2, <1>4 DEF IsFrame
<1>6. Turn(g)
  BY <1>3, <1>4, <1>5, GotoTurn DEF Keeps
<1> QED
  BY <1>3, <1>6 DEF scopedBy

\* GetWithScope asks for a call site of the type, or of a registration for it.
LEMMA GetWithScopeTurn ==
  ASSUME ShapeInv, NEW g \in Goroutines, GetWithScope(g)
  PROVE  Turn(g)
<1>1. PICK f : f = top(g)
  OBVIOUS
<1>2. stack[g] # <<>> /\ IsFrame(f) /\ f.fn = "get"
  BY <1>1, AtFacts DEF GetWithScope
<1>3. ASSUME Return(g, Err) PROVE Turn(g)
  BY <1>3, ReturnTurn DEF Err
<1>4. PICK e, e1, ds : e = [f EXCEPT !.pc = "made"] /\ e1 = [f EXCEPT !.pc = "access"] /\ ds = KeyRegistered(f.t, f.key)
  OBVIOUS
<1>5. /\ e.fn = "get" /\ e.pc = "made" /\ e.t = f.t /\ Keeps(e, top(g))
      /\ e1.fn = "get" /\ e1.pc = "access" /\ Keeps(e1, top(g))
  BY <1>2, <1>4 DEF IsFrame, Keeps
<1>6. ASSUME Goto(g, e1) PROVE Turn(g)
  BY <1>5, <1>6, GotoTurn
<1>7. ASSUME Call(g, e, siteFrame(f.t)) PROVE Turn(g)
  <2>1. PICK e2 : e2 = siteFrame(f.t)
    OBVIOUS
  <2>2. e2.fn = "site" /\ e2.pc = "enter" /\ e2.t = f.t
    BY <2>1, SiteFrame
  <2>3. AskPair(e, e2)
    BY <1>5, <2>2 DEF AskPair
  <2> QED
    BY <1>5, <1>7, <2>1, <2>2, <2>3, CallTurn
<1>8. ASSUME ds # {}, Call(g, e, exactFrame(Last(ds), GetSlot(Last(ds)))) PROVE Turn(g)
  <2>1. PICK e2 : e2 = exactFrame(Last(ds), GetSlot(Last(ds)))
    OBVIOUS
  <2>2. e2.fn = "exact" /\ e2.pc = "enter" /\ e2.d = Last(ds)
    BY <2>1, ExactFrame
  <2>3. ds \in SUBSET Registered(f.t)
    BY <1>4 DEF KeyRegistered
  <2>4. Provides(descriptors[Last(ds)], f.t)
    BY <1>8, <2>3, LastProvides
  <2>5. AskPair(e, e2)
    BY <1>5, <2>2, <2>4 DEF AskPair
  <2> QED
    BY <1>5, <1>8, <2>1, <2>2, <2>5, CallTurn
<1> QED
  BY <1>1, <1>3, <1>4, <1>6, <1>7, <1>8 DEF GetWithScope

\* An accessor is stored for what was asked for.
LEMMA StoredSafe ==
  ASSUME ShapeInv, CaptiveInv, Settled, NEW f, NEW a, NEW c \in DOMAIN sites, a.site = c, LoadOrStore(f, a),
         scopedServices \subseteq scopedServices',
         Guarded => c \notin refuses /\ (c \in findsScoped => f.t \in scopedServices')
  PROVE  RealizedSafe'
<1>1. SUFFICES ASSUME Guarded', NEW x \in DOMAIN realized'
               PROVE  realized'[x].site \notin refuses' /\ (realized'[x].site \in findsScoped' => x[1] \in scopedServices')
  BY DEF RealizedSafe
<1>2. Guarded
  BY <1>1, SafeStays
<1>3. PICK k : k = <<f.t, f.key>>
  OBVIOUS
<1>4. k[1] = f.t
  BY <1>3
<1>5. CASE x \in DOMAIN realized
  <2>1. realized'[x] = realized[x]
    BY <1>5 DEF LoadOrStore, With
  <2>2. PICK e : e = realized[x].site
    OBVIOUS
  <2>3. e \in DOMAIN sites /\ e \notin refuses /\ (e \in findsScoped => x[1] \in scopedServices)
    BY <1>2, <1>5, <2>2 DEF ShapeInv, SitesOK, CaptiveInv, RealizedSafe
  <2> QED
    BY <2>1, <2>2, <2>3, FindsStay
<1>6. CASE x \notin DOMAIN realized
  <2>1. x = k /\ realized'[x] = a
    BY <1>1, <1>3, <1>6 DEF LoadOrStore, With
  <2> QED
    BY <1>2, <1>4, <2>1, FindsStay
<1> QED
  BY <1>5, <1>6

\* createServiceAccessor resolves at the root only what needs no scope, and
\* knows by the type asked for what does.
LEMMA createServiceAccessorTurn ==
  ASSUME ShapeInv, CaptiveInv, Settled, NEW g \in Goroutines, createServiceAccessor(g)
  PROVE  /\ Turn(g) /\ scopedServices \subseteq scopedServices'
         /\ realized' = realized \/ RealizedSafe'
<1>1. PICK f, c : f = top(g) /\ c = ret[g].site
  OBVIOUS
<1>2. stack[g] # <<>> /\ IsFrame(f) /\ f.fn = "get" /\ f.pc = "made"
  BY <1>1, AtFacts DEF createServiceAccessor
<1>3. ret[g].ok => Answers(c, f.t)
  BY <1>1, <1>2 DEF CaptiveInv, StacksSafe, RetAnswers, Awaits
<1>4. CASE Return(g, Err) /\ UNCHANGED accessors
  <2>1. Turn(g)
    BY <1>4, ReturnTurn DEF Err
  <2> QED
    BY <1>4, <2>1 DEF accessors
<1>5. CASE /\ ret[g].ok /\ ValidateCallSite(c) /\ scopedServices' = scopedBy(c) /\ sites[c].loc = "root"
           /\ Call(g, [f EXCEPT !.pc = "value", !.site = c], visitFrame(c, Root)) /\ UNCHANGED realized
  <2>1. PICK e, e2, z : e = [f EXCEPT !.pc = "value", !.site = c] /\ e2 = visitFrame(c, Root) /\ z = Root
    OBVIOUS
  <2>2. e.fn = "get" /\ e.pc = "value" /\ e.site = c
    BY <1>2, <2>1 DEF IsFrame
  <2>3. e2.fn = "visit" /\ e2.pc = "enter" /\ e2.site = c /\ e2.scope = Root
    BY <2>1, VisitFrame
  <2>4. c \in DOMAIN sites
    BY <1>3, <1>5 DEF Answers
  <2>5. Safe(c, z)
    BY <1>5, <2>4, FindsFacts DEF Safe, Guarded, ValidateCallSite
  <2>6. Safe(c, z)'
    BY <2>4, <2>5, SafeStays
  <2>7. FrameSafe(e)' /\ FrameSafe(e2)'
    BY <2>1, <2>2, <2>3, <2>6 DEF FrameSafe
  <2>8. Keeps(e, top(g)) /\ ~Awaits(e2) /\ AskPair(e, e2)
    BY <2>2, <2>3 DEF Keeps, Awaits, AskPair
  <2>9. Turn(g)
    BY <1>5, <2>1, <2>7, <2>8 DEF Turn
  <2> QED
    BY <1>5, <2>9 DEF scopedBy
<1>6. CASE /\ ret[g].ok /\ ValidateCallSite(c) /\ scopedServices' = scopedBy(c)
           /\ LoadOrStore(f, [site |-> c, value |-> NoValue]) /\ Goto(g, [f EXCEPT !.pc = "access"])
  <2>1. PICK e, a : e = [f EXCEPT !.pc = "access"] /\ a = [site |-> c, value |-> NoValue]
    OBVIOUS
  <2>2. e.fn = "get" /\ e.pc = "access" /\ a.site = c
    BY <1>2, <2>1 DEF IsFrame
  <2>3. Turn(g)
    BY <1>6, <2>1, <2>2, GotoTurn DEF Keeps
  <2>4. c \in DOMAIN sites /\ Answers(c, f.t)
    BY <1>3, <1>6 DEF Answers
  <2>5. ASSUME Guarded PROVE c \notin refuses /\ (c \in findsScoped => f.t \in scopedServices')
    <3>1. c \notin refuses
      BY <1>6, <2>5 DEF Guarded, ValidateCallSite
    <3>2. ASSUME c \in findsScoped PROVE f.t = sites[c].type
      BY <2>4, <2>5, <3>2 DEF Answers, Guarded, ownTypeOnly
    <3>3. c \in findsScoped => sites[c].type \in scopedServices'
      BY <1>6, <2>5 DEF scopedBy, Guarded
    <3> QED
      BY <3>1, <3>2, <3>3
  <2>6. scopedServices \subseteq scopedServices'
    BY <1>6 DEF scopedBy
  <2>7. RealizedSafe'
    BY <1>6, <2>1, <2>2, <2>4, <2>5, <2>6, StoredSafe
  <2> QED
    BY <2>3, <2>6, <2>7
<1> QED
  BY <1>1, <1>4, <1>5, <1>6 DEF createServiceAccessor

\* The top frame is safe.
LEMMA TopSafe ==
  ASSUME ShapeInv, CaptiveInv, NEW g \in Goroutines, stack[g] # <<>>
  PROVE  FrameSafe(top(g)) /\ FrameOK(top(g))
<1>1. Len(stack[g]) \in DOMAIN stack[g] /\ top(g) = stack[g][Len(stack[g])] /\ FrameOK(top(g))
  BY TopFacts DEF ShapeInv
<1> QED
  BY <1>1 DEF CaptiveInv, StacksSafe, FramesSafe

\* createRootAccessor stores what was resolved at the root.
LEMMA createRootAccessorTurn ==
  ASSUME ShapeInv, CaptiveInv, Settled, NEW g \in Goroutines, createRootAccessor(g)
  PROVE  Turn(g) /\ (realized' = realized \/ RealizedSafe')
<1>1. PICK f, c : f = top(g) /\ c = f.site
  OBVIOUS
<1>2. stack[g] # <<>> /\ IsFrame(f) /\ FrameOK(f) /\ f.fn = "get" /\ f.pc = "value" /\ FrameSafe(f)
  BY <1>1, AtFacts, TopSafe DEF createRootAccessor
<1>3. CASE Return(g, Err) /\ UNCHANGED realized
  <2>1. Turn(g)
    BY <1>3, ReturnTurn DEF Err
  <2> QED
    BY <1>3, <2>1
<1>4. CASE LoadOrStore(f, [site |-> c, value |-> ret[g].v]) /\ Goto(g, [f EXCEPT !.pc = "access"])
  <2>1. PICK e, a : e = [f EXCEPT !.pc = "access"] /\ a = [site |-> c, value |-> ret[g].v]
    OBVIOUS
  <2>2. e.fn = "get" /\ e.pc = "access" /\ a.site = c
    BY <1>2, <2>1 DEF IsFrame
  <2>3. Turn(g)
    BY <1>4, <2>1, <2>2, GotoTurn DEF Keeps
  <2>4. c \in DOMAIN sites /\ (Guarded => c \notin refuses /\ c \notin findsScoped)
    BY <1>1, <1>2 DEF FrameOK, FrameSafe, Safe
  <2>5. scopedServices \subseteq scopedServices'
    BY DEF createRootAccessor
  <2>6. RealizedSafe'
    BY <1>4, <2>1, <2>2, <2>4, <2>5, StoredSafe
  <2> QED
    BY <2>3, <2>6
<1> QED
  BY <1>1, <1>3, <1>4 DEF createRootAccessor

\* access resolves at the root only what no scope is known to be needed for.
LEMMA accessTurn ==
  ASSUME ShapeInv, CaptiveInv, Settled, NEW g \in Goroutines, access(g)
  PROVE  Turn(g)
<1>1. PICK f : f = top(g)
  OBVIOUS
<1>2. stack[g] # <<>> /\ FrameOK(f) /\ f.fn = "get" /\ f.pc = "access"
  BY <1>1, AtFacts DEF access
<1>3. PICK x : x = <<f.t, f.key>>
  OBVIOUS
<1>4. PICK c, s : c = realized[x].site /\ s = f.scope
  OBVIOUS
<1>5. x \in DOMAIN realized /\ x[1] = f.t /\ c \in DOMAIN sites
  BY <1>2, <1>3, <1>4 DEF FrameOK, ShapeInv, SitesOK
<1>6. ASSUME NEW r, Return(g, r) PROVE Turn(g)
  BY <1>1, <1>2, <1>6, ReturnTurn
<1>7. ASSUME ValidateResolution(f.t, f.scope), Goto(g, visitFrame(c, s)) PROVE Turn(g)
  <2>1. PICK e : e = visitFrame(c, s)
    OBVIOUS
  <2>2. e.fn = "visit" /\ e.pc = "enter" /\ e.site = c /\ e.scope = s
    BY <2>1, VisitFrame
  <2>3. Safe(c, s)
    BY <1>4, <1>5, <1>7 DEF Safe, CaptiveInv, RealizedSafe, ValidateResolution, Guarded
  <2>4. Safe(c, s)'
    BY <1>5, <2>3, SafeStays
  <2>5. FrameSafe(e)' /\ Keeps(e, top(g)) /\ ~Awaits(e)
    BY <2>2, <2>4 DEF FrameSafe, Keeps, Awaits
  <2> QED
    BY <1>7, <2>1, <2>5 DEF Turn
<1> QED
  BY <1>1, <1>3, <1>4, <1>6, <1>7 DEF access

\* A visit goes on in its scope.
LEMMA VisitTurn ==
  ASSUME ShapeInv, CaptiveInv, Settled, NEW g \in Goroutines, stack[g] # <<>>, NEW f, f = top(g), f.fn = "visit",
         NEW e, Goto(g, e), e.fn = "visit", e.site = f.site, e.scope = f.scope
  PROVE  Turn(g)
<1>1. FrameOK(f) /\ FrameSafe(f)
  BY TopSafe
<1>2. FrameSafe(f)'
  BY <1>1, FrameSafeStays
<1>3. FrameSafe(e)' /\ Keeps(e, top(g)) /\ ~Awaits(e)
  BY <1>2 DEF FrameSafe, Keeps, Awaits
<1> QED
  BY <1>3 DEF Turn

\* visitCallSite goes on in the same scope.
LEMMA visitCallSiteTurn ==
  ASSUME ShapeInv, CaptiveInv, Settled, NEW g \in Goroutines, visitCallSite(g)
  PROVE  Turn(g)
<1>1. PICK f : f = top(g)
  OBVIOUS
<1>2. stack[g] # <<>> /\ IsFrame(f) /\ f.fn = "visit"
  BY <1>1, AtFacts DEF visitCallSite
<1>3. ASSUME NEW r, Return(g, r) PROVE Turn(g)
  BY <1>1, <1>2, <1>3, ReturnTurn
<1>4. ASSUME NEW pc, Goto(g, [f EXCEPT !.pc = pc]) PROVE Turn(g)
  <2>1. PICK e : e = [f EXCEPT !.pc = pc]
    OBVIOUS
  <2>2. e.fn = "visit" /\ e.site = f.site /\ e.scope = f.scope
    BY <1>2, <2>1 DEF IsFrame
  <2> QED
    BY <1>1, <1>2, <1>4, <2>1, <2>2, VisitTurn
<1>5. ASSUME NEW b, NEW pc, Goto(g, [f EXCEPT !.nilMap = b, !.pc = pc]) PROVE Turn(g)
  <2>1. PICK e : e = [f EXCEPT !.nilMap = b, !.pc = pc]
    OBVIOUS
  <2>2. e.fn = "visit" /\ e.site = f.site /\ e.scope = f.scope
    BY <1>2, <2>1 DEF IsFrame
  <2> QED
    BY <1>1, <1>2, <1>5, <2>1, <2>2, VisitTurn
<1>6. PICK b, pc : b = (f.scope \in cleared) /\ pc = IF f.held THEN "lookup" ELSE "lockScope"
  OBVIOUS
<1> QED
  BY <1>1, <1>3, <1>4, <1>5, <1>6 DEF visitCallSite

\* visitRootCache builds at the root what needs no scope.
LEMMA visitRootCacheTurn ==
  ASSUME ShapeInv, KeepInv, CaptiveInv, Settled, NEW g \in Goroutines, visitRootCache(g)
  PROVE  Turn(g)
<1>1. PICK f, c, z : f = top(g) /\ c = f.site /\ z = Root
  OBVIOUS
<1>2. stack[g] # <<>> /\ IsFrame(f) /\ FrameOK(f) /\ f.fn = "visit" /\ f.pc = "lockSite" /\ FrameSafe(f)
  BY <1>1, AtFacts, TopSafe DEF visitRootCache
<1>3. ASSUME NEW r, Return(g, r) PROVE Turn(g)
  BY <1>1, <1>2, <1>3, ReturnTurn
<1>4. ASSUME Goto(g, [f EXCEPT !.pc = "build", !.scope = Root]) PROVE Turn(g)
  <2>1. PICK e : e = [f EXCEPT !.pc = "build", !.scope = Root]
    OBVIOUS
  <2>2. e.fn = "visit" /\ e.site = c /\ e.scope = z
    BY <1>1, <1>2, <2>1 DEF IsFrame
  <2>3. c \in DOMAIN sites /\ atRoot(f)
    BY <1>1, <1>2, TopVisit DEF VisitLocks
  <2>4. Safe(c, z)
    <3>1. CASE sites[c].loc = "root"
      BY <1>1, <1>2, <2>3, <3>1, FindsFacts DEF FrameSafe, Safe
    <3>2. CASE f.scope = Root
      BY <1>1, <1>2, <3>2 DEF FrameSafe
    <3> QED
      BY <1>1, <2>3, <3>1, <3>2 DEF atRoot
  <2>5. Safe(c, z)'
    BY <2>3, <2>4, SafeStays
  <2>6. FrameSafe(e)' /\ Keeps(e, top(g)) /\ ~Awaits(e)
    BY <2>2, <2>5 DEF FrameSafe, Keeps, Awaits
  <2> QED
    BY <1>4, <2>1, <2>6 DEF Turn
<1> QED
  BY <1>1, <1>3, <1>4 DEF visitRootCache

\* visitScopeCache builds in the same scope.
LEMMA visitScopeCacheTurn ==
  ASSUME ShapeInv, CaptiveInv, Settled, NEW g \in Goroutines, visitScopeCache(g)
  PROVE  Turn(g)
<1>1. PICK f : f = top(g)
  OBVIOUS
<1>2. stack[g] # <<>> /\ IsFrame(f) /\ f.fn = "visit"
  BY <1>1, AtFacts DEF visitScopeCache
<1>3. ASSUME NEW r, Return(g, r) PROVE Turn(g)
  BY <1>1, <1>2, <1>3, ReturnTurn
<1>4. PICK e : e = [f EXCEPT !.pc = "build"]
  OBVIOUS
<1>5. e.fn = "visit" /\ e.site = f.site /\ e.scope = f.scope
  BY <1>2, <1>4 DEF IsFrame
<1>6. ASSUME Goto(g, e) PROVE Turn(g)
  BY <1>1, <1>2, <1>5, <1>6, VisitTurn
<1> QED
  BY <1>1, <1>3, <1>4, <1>6 DEF visitScopeCache

\* next asks for a part in the same scope.
LEMMA nextTurn ==
  ASSUME ShapeInv, CaptiveInv, Settled, NEW g \in Goroutines, stack[g] # <<>>, NEW f, f = top(g), f.fn = "visit",
         Len(f.acc) < Len(parts(sites[f.site])), next(g, f)
  PROVE  Turn(g)
<1>1. PICK c, n, i : i = f.site /\ c = sites[i] /\ n = Len(f.acc) + 1
  OBVIOUS
<1>2. FrameOK(f) /\ IsFrame(f) /\ FrameSafe(f) /\ i \in DOMAIN sites /\ SiteOK(i)
  BY <1>1, TopSafe DEF FrameOK, ShapeInv, SitesOK
<1>3. FrameSafe(f)'
  BY <1>2, FrameSafeStays
<1>4. PICK e : e = [f EXCEPT !.pc = "part"]
  OBVIOUS
<1>5. e.fn = "visit" /\ e.pc = "part" /\ e.site = f.site /\ e.scope = f.scope
  BY <1>2, <1>4 DEF IsFrame
<1>6. FrameSafe(e)' /\ Keeps(e, top(g))
  BY <1>3, <1>5 DEF FrameSafe, Keeps
<1>7. ASSUME NEW e2, e2.pc = "enter", Call(g, e, e2), FrameSafe(e2)' PROVE Turn(g)
  <2>1. ~Awaits(e2) /\ AskPair(e, e2)
    BY <1>5, <1>7 DEF Awaits, AskPair
  <2> QED
    BY <1>6, <1>7, <2>1 DEF Turn
<1>8. CASE c.kind = "factory"
  <2>1. PICK e2 : e2 = getFrame(parts(c)[n], NoKey, f.scope)
    OBVIOUS
  <2>2. e2.fn = "get" /\ e2.pc = "enter" /\ Call(g, e, e2)
    BY <1>1, <1>4, <1>8, <2>1, GetFrame DEF next
  <2> QED
    BY <1>7, <2>2, IdleFrame
<1>9. CASE c.kind # "factory"
  <2>1. PICK v : v = visitFrame(parts(c)[n], f.scope)
    OBVIOUS
  <2>2. PICK b, p, s : b = (f.held \/ inScope(f)) /\ p = parts(c)[n] /\ s = f.scope
    OBVIOUS
  <2>3. PICK e2 : e2 = [v EXCEPT !.held = b]
    OBVIOUS
  <2>4. IsFrame(v) /\ v.fn = "visit" /\ v.pc = "enter" /\ v.site = p /\ v.scope = s
    BY <2>1, <2>2, VisitFrame
  <2>5. e2.fn = "visit" /\ e2.pc = "enter" /\ e2.site = p /\ e2.scope = s
    BY <2>3, <2>4 DEF IsFrame
  <2>6. Call(g, e, e2)
    BY <1>1, <1>4, <1>9, <2>1, <2>2, <2>3 DEF next
  <2>7. p \in args(i) /\ p \in DOMAIN sites
    <3>1. parts(c) = c.params /\ IsSeq(c.params) /\ \A x \in DOMAIN c.params : c.params[x] \in 1..i - 1
      BY <1>1, <1>2, <1>9 DEF parts, SiteOK
    <3>2. Len(f.acc) \in Nat /\ Len(parts(c)) \in Nat /\ DOMAIN parts(c) = 1..Len(parts(c))
      BY <1>2, <3>1, SeqFacts DEF FrameOK
    <3>3. n \in DOMAIN c.params
      BY <1>1, <3>1, <3>2
    <3>4. DOMAIN sites = 1..Len(sites) /\ Len(sites) \in Nat
      BY SeqFacts DEF ShapeInv, SitesOK
    <3>5. p = c.params[n] /\ p \in 1..i - 1
      BY <2>2, <3>1, <3>3
    <3> QED
      BY <1>1, <1>2, <3>3, <3>4, <3>5 DEF args
  <2>8. Safe(p, s)
    BY <1>1, <1>2, <2>2, <2>7, FindsFacts DEF Safe, FrameSafe
  <2>9. Safe(p, s)'
    BY <2>7, <2>8, SafeStays
  <2>10. FrameSafe(e2)'
    BY <2>5, <2>9 DEF FrameSafe
  <2> QED
    BY <1>7, <2>5, <2>6, <2>10
<1> QED
  BY <1>8, <1>9

\* visitPart asks for a part, or goes on with it.
LEMMA visitPartTurn ==
  ASSUME ShapeInv, CaptiveInv, Settled, NEW g \in Goroutines, visitPart(g)
  PROVE  Turn(g)
<1>1. PICK f : f = top(g)
  OBVIOUS
<1>2. stack[g] # <<>> /\ IsFrame(f) /\ f.fn = "visit"
  BY <1>1, AtFacts DEF visitPart
<1>3. ASSUME NEW r, Return(g, r) PROVE Turn(g)
  BY <1>1, <1>2, <1>3, ReturnTurn
<1>4. PICK e : e = [f EXCEPT !.pc = "build", !.acc = Append(@, ret[g].v)]
  OBVIOUS
<1>5. e.fn = "visit" /\ e.site = f.site /\ e.scope = f.scope
  BY <1>2, <1>4 DEF IsFrame
<1>6. ASSUME Goto(g, e) PROVE Turn(g)
  BY <1>1, <1>2, <1>5, <1>6, VisitTurn
<1>7. ASSUME Len(f.acc) < Len(parts(sites[f.site])), next(g, f) PROVE Turn(g)
  BY <1>1, <1>2, <1>7, nextTurn
<1> QED
  BY <1>1, <1>3, <1>4, <1>6, <1>7 DEF visitPart

\* Instances keep their call site and their scope.
SameInstances ==
    /\ DOMAIN instances' = DOMAIN instances
    /\ \A i \in DOMAIN instances : instances'[i].site = instances[i].site /\ instances'[i].scope = instances[i].scope

\* What is cached, realized and built stays safe.
LEMMA RestSafe ==
  ASSUME ShapeInv, KeepInv, CaptiveInv, Settled
  PROVE  /\ callSiteCache' = callSiteCache => CacheTyped'
         /\ realized' = realized /\ scopedServices \subseteq scopedServices' => RealizedSafe'
         /\ SameInstances => InstancesSafe'
<1>1. Guarded' => Guarded
  BY SafeStays
<1>2. callSiteCache' = callSiteCache => CacheTyped'
  BY DEF CaptiveInv, CacheTyped, Settled, ShapeInv, SitesOK
<1>3. ASSUME realized' = realized, scopedServices \subseteq scopedServices' PROVE RealizedSafe'
  <2>1. SUFFICES ASSUME Guarded, NEW x \in DOMAIN realized
                 PROVE  realized[x].site \notin refuses' /\ (realized[x].site \in findsScoped' => x[1] \in scopedServices')
    BY <1>1, <1>3 DEF RealizedSafe
  <2>2. PICK c : c = realized[x].site
    OBVIOUS
  <2>3. c \in DOMAIN sites /\ c \notin refuses /\ (c \in findsScoped => x[1] \in scopedServices)
    BY <2>1, <2>2 DEF ShapeInv, SitesOK, CaptiveInv, RealizedSafe
  <2> QED
    BY <1>3, <2>2, <2>3, FindsStay
<1>4. ASSUME SameInstances PROVE InstancesSafe'
  <2>1. \A i \in DOMAIN instances : instances[i].site \in DOMAIN sites
    BY DEF KeepInv, InstancesOK, InstanceOK
  <2> QED
    BY <1>1, <1>4, <2>1 DEF CaptiveInv, InstancesSafe, SameInstances, Settled
<1> QED
  BY <1>2, <1>3, <1>4

\* Where no call site, accessor or instance comes to be, the stack is enough.
LEMMA QuietTurn ==
  ASSUME ShapeInv, KeepInv, CaptiveInv, NEW g \in Goroutines, stack[g] # <<>>, Settled, Turn(g),
         callSiteCache' = callSiteCache, realized' = realized, scopedServices \subseteq scopedServices', SameInstances
  PROVE  CaptiveInv'
<1>1. CacheTyped' /\ RealizedSafe' /\ InstancesSafe'
  BY RestSafe
<1>2. StacksSafe'
  BY TurnSafe DEF CaptiveInv
<1> QED
  BY <1>1, <1>2 DEF CaptiveInv

\* Nothing the validator knows of changes.
Untouched == UNCHANGED <<descriptors, options, sites, callSiteCache, realized, scopedServices, instances>>

\* The graph and the instances are then as they were.
LEMMA UntouchedFacts ==
  ASSUME Untouched
  PROVE  Settled /\ SameInstances /\ callSiteCache' = callSiteCache /\ realized' = realized /\ scopedServices \subseteq scopedServices'
BY DEF Untouched, Settled, SameInstances

\* Steps that leave all that alone.
StackActs(g) ==
    \/ GetCallSite(g) \/ createCallSite(g) \/ createCallSiteReturns(g) \/ tryCreateExact(g) \/ createSliceElement(g)
    \/ validateService(g) \/ GetWithScope(g) \/ access(g)
    \/ visitCallSite(g) \/ visitRootCache(g) \/ visitScopeCache(g) \/ visitPart(g)

\* They move one stack only, each as its Turn lemma says.
LEMMA StackActsCaptive ==
  ASSUME ShapeInv, KeepInv, CaptiveInv, NEW g \in Goroutines, StackActs(g)
  PROVE  CaptiveInv'
<1>1. stack[g] # <<>>
  BY DEF StackActs, GetCallSite, createCallSite, createCallSiteReturns, tryCreateExact, createSliceElement, validateService,
     GetWithScope, access, visitCallSite, visitRootCache, visitScopeCache, visitPart, At
<1>2. Untouched
  BY DEF Untouched, StackActs, GetCallSite, createCallSite, createCallSiteReturns, tryCreateExact, createSliceElement,
     validateService, GetWithScope, access, visitCallSite, visitRootCache, visitScopeCache, visitPart,
     builder, callSites, accessors
<1>3. Settled
  BY <1>2, UntouchedFacts
<1>4. Turn(g)
  BY <1>3, GetCallSiteTurn, createCallSiteTurn, createCallSiteReturnsTurn, tryCreateExactTurn, createSliceElementTurn,
     validateServiceTurn, GetWithScopeTurn, accessTurn, visitCallSiteTurn, visitRootCacheTurn, visitScopeCacheTurn,
     visitPartTurn DEF StackActs
<1> QED
  BY <1>1, <1>2, <1>4, UntouchedFacts, QuietTurn

\* A call site is made.
LEMMA MakesCaptive ==
  ASSUME ShapeInv, KeepInv, CaptiveInv, NEW g \in Goroutines, storeCallSite(g) \/ createSlice(g)
  PROVE  CaptiveInv'
<1>1. stack[g] # <<>> /\ UNCHANGED <<realized, scopedServices, instances>>
  BY DEF storeCallSite, createSlice, At, accessors
<1>2. Settled /\ Turn(g) /\ (callSiteCache' = callSiteCache \/ CacheTyped')
  BY storeCallSiteTurn, createSliceTurn DEF createSlice
<1>3. SameInstances
  BY <1>1 DEF SameInstances
<1>4. CacheTyped' /\ RealizedSafe' /\ InstancesSafe'
  BY <1>1, <1>2, <1>3, RestSafe
<1>5. StacksSafe'
  BY <1>1, <1>2, TurnSafe DEF CaptiveInv
<1> QED
  BY <1>4, <1>5 DEF CaptiveInv

\* A call site is validated.
LEMMA ValidatesCaptive ==
  ASSUME ShapeInv, KeepInv, CaptiveInv, NEW g \in Goroutines,
         validatedService(g) \/ createServiceAccessor(g) \/ createRootAccessor(g)
  PROVE  CaptiveInv'
<1>1. stack[g] # <<>> /\ UNCHANGED <<descriptors, options, sites, callSiteCache, instances>>
  BY DEF validatedService, createServiceAccessor, createRootAccessor, At, builder, callSites
<1>2. Settled /\ SameInstances
  BY <1>1 DEF Settled, SameInstances
<1>3. Turn(g) /\ scopedServices \subseteq scopedServices' /\ (realized' = realized \/ RealizedSafe')
  <2>1. CASE validatedService(g)
    BY <2>1, validatedServiceTurn DEF validatedService
  <2>2. CASE createServiceAccessor(g)
    BY <1>2, <2>2, createServiceAccessorTurn
  <2>3. CASE createRootAccessor(g)
    BY <1>2, <2>3, createRootAccessorTurn DEF createRootAccessor
  <2> QED
    BY <2>1, <2>2, <2>3
<1>4. CacheTyped' /\ RealizedSafe' /\ InstancesSafe'
  BY <1>1, <1>2, <1>3, RestSafe
<1>5. StacksSafe'
  BY <1>1, <1>2, <1>3, TurnSafe DEF CaptiveInv
<1> QED
  BY <1>4, <1>5 DEF CaptiveInv

\* construct makes no scoped service at the root.
LEMMA constructCaptive ==
  ASSUME ShapeInv, KeepInv, CaptiveInv, NEW g \in Goroutines, construct(g)
  PROVE  CaptiveInv'
<1>1. PICK f : f = top(g)
  OBVIOUS
<1>2. /\ stack[g] # <<>> /\ FrameOK(f) /\ f.fn = "visit" /\ FrameSafe(f) /\ f.site \in DOMAIN sites
      /\ Constructs(g, f) \/ Gives(g, f) \/ Fails(g, f)
  <2>1. stack[g] # <<>> /\ FrameOK(f) /\ f.fn = "visit" /\ (Constructs(g, f) \/ Gives(g, f) \/ Fails(g, f))
    BY <1>1, constructIs
  <2> QED
    BY <1>1, <2>1, TopSafe DEF FrameOK
<1>3. UNCHANGED <<descriptors, options, sites, callSiteCache, realized, scopedServices>>
  BY DEF construct, builder, callSites, accessors
<1>4. Settled
  BY <1>3 DEF Settled
<1>5. CacheTyped' /\ RealizedSafe' /\ (SameInstances => InstancesSafe')
  BY <1>3, <1>4, RestSafe
<1>6. CASE Fails(g, f)
  <2>1. Turn(g) /\ SameInstances
    BY <1>6, ReturnTurn DEF Fails, Err, SameInstances
  <2> QED
    BY <1>2, <1>4, <1>5, <2>1, TurnSafe DEF CaptiveInv
<1>7. CASE Gives(g, f)
  <2>1. PICK e : UNCHANGED instances /\ Goto(g, e) /\ Capturing(e, f)
    BY <1>7 DEF Gives
  <2>2. Turn(g) /\ SameInstances
    BY <1>1, <1>2, <1>4, <2>1, VisitTurn DEF Capturing, SameInstances
  <2> QED
    BY <1>2, <1>4, <1>5, <2>2, TurnSafe DEF CaptiveInv
<1>8. CASE Constructs(g, f)
  <2>1. PICK e, id : Constructed(f, id) /\ Goto(g, e) /\ Capturing(e, f)
    BY <1>8 DEF Constructs
  <2>2. Turn(g)
    BY <1>1, <1>2, <1>4, <2>1, VisitTurn DEF Capturing
  <2>3. Guarded' => Guarded
    BY <1>4, SafeStays
  <2>4. Guarded /\ f.scope = Root => sites[f.site].loc # "scope"
    BY <1>2, FindsFacts DEF FrameSafe, Safe
  <2>5. InstancesSafe'
    BY <1>3, <2>1, <2>3, <2>4 DEF InstancesSafe, CaptiveInv, Constructed
  <2> QED
    BY <1>2, <1>4, <1>5, <2>2, <2>5, TurnSafe DEF CaptiveInv
<1> QED
  BY <1>2, <1>6, <1>7, <1>8

\* capture leaves call sites and instances where they are.
LEMMA captureCaptive ==
  ASSUME ShapeInv, KeepInv, CaptiveInv, NEW g \in Goroutines, capture(g)
  PROVE  CaptiveInv'
<1>1. PICK f, c, v : f = top(g) /\ c = f.site /\ v = f.acc[1]
  OBVIOUS
<1>2. /\ stack[g] # <<>> /\ f.fn = "visit" /\ c \in DOMAIN sites /\ CapturedInstances(f) /\ Unlock(f)
      /\ UNCHANGED <<descriptors, realized>> /\ (IF Fine(f) THEN Return(g, Ok(f.acc[1])) ELSE Return(g, Err))
  BY <1>1, captureIs
<1>3. UNCHANGED <<options, callSiteCache, scopedServices>>
  BY DEF capture, builder, accessors
<1>4. sites' = sites \/ sites' = [sites EXCEPT ![c].value = v]
  BY <1>1 DEF capture
<1>5. Settled
  <2>1. CASE sites' = sites
    BY <1>2, <1>3, <2>1 DEF Settled
  <2>2. CASE sites' = [sites EXCEPT ![c].value = v]
    <3>1. IsSeq(siteLock') /\ Len(siteLock') = Len(siteLock)
      BY <1>2, UnlockShape
    <3>2. /\ DOMAIN sites' = DOMAIN sites
          /\ \A e \in DOMAIN sites : /\ sites'[e].type = sites[e].type /\ sites'[e].params = sites[e].params
                                     /\ sites'[e].loc = sites[e].loc
      BY <1>2, <1>3, <2>2, <3>1, ValueSet
    <3> QED
      BY <1>2, <1>3, <3>2 DEF Settled
  <2> QED
    BY <1>4, <2>1, <2>2
<1>6. SameInstances
  BY <1>2 DEF CapturedInstances, SameInstances
<1>7. Turn(g)
  <2>1. PICK r : Return(g, r)
    BY <1>2
  <2> QED
    BY <1>1, <1>2, <2>1, ReturnTurn
<1> QED
  BY <1>2, <1>3, <1>5, <1>6, <1>7, QuietTurn

\* Disposal leaves all that alone.
LEMMA DisposesCaptive ==
  ASSUME ShapeInv, KeepInv, CaptiveInv, NEW g \in Goroutines, BeginDispose(g) \/ disposeNext(g)
  PROVE  CaptiveInv'
<1>1. PICK f : f = top(g)
  OBVIOUS
<1>2. stack[g] # <<>> /\ IsFrame(f) /\ f.fn = "dispose" /\ f.pc \in {"enter", "list"}
  BY <1>1, AtFacts DEF BeginDispose, disposeNext
<1>3. UNCHANGED <<descriptors, options, sites, callSiteCache, realized, scopedServices>>
  BY DEF BeginDispose, disposeNext, builder, callSites, accessors
<1>4. Settled
  BY <1>3 DEF Settled
<1>5. SameInstances
  <2>1. IsSeq(instances) /\ \A i \in DOMAIN instances : IsInstance(instances[i])
    BY DEF KeepInv, InstancesOK, InstanceOK
  <2>2. instances' = instances \/ \E x : instances' = [instances EXCEPT ![x].disposed = @ + 1]
    BY DEF BeginDispose, disposeNext
  <2>3. CASE instances' = instances
    BY <2>3 DEF SameInstances
  <2>4. ASSUME NEW x, instances' = [instances EXCEPT ![x].disposed = @ + 1] PROVE SameInstances
    <3>1. CASE x \in DOMAIN instances
      BY <2>1, <2>4, <3>1, DisposedOne DEF SameInstances
    <3>2. CASE x \notin DOMAIN instances
      BY <2>4, <3>2 DEF SameInstances
    <3> QED
      BY <3>1, <3>2
  <2> QED
    BY <2>2, <2>3, <2>4
<1>6. ASSUME NEW l, Goto(g, [f EXCEPT !.pc = "list", !.acc = l]) PROVE Turn(g)
  <2>1. PICK e : e = [f EXCEPT !.pc = "list", !.acc = l]
    OBVIOUS
  <2>2. e.fn = "dispose" /\ e.pc = "list"
    BY <1>2, <2>1 DEF IsFrame
  <2> QED
    BY <1>6, <2>1, <2>2, GotoTurn DEF Keeps
<1>7. ASSUME NEW l, Goto(g, [f EXCEPT !.acc = l]) PROVE Turn(g)
  <2>1. PICK e : e = [f EXCEPT !.acc = l]
    OBVIOUS
  <2>2. e.fn = "dispose" /\ e.pc \in {"enter", "list"}
    BY <1>2, <2>1 DEF IsFrame
  <2> QED
    BY <1>7, <2>1, <2>2, GotoTurn DEF Keeps
<1>8. ASSUME NEW r, Return(g, r) PROVE Turn(g)
  BY <1>1, <1>2, <1>8, ReturnTurn
<1>9. Turn(g)
  BY <1>1, <1>6, <1>7, <1>8 DEF BeginDispose, disposeNext
<1> QED
  BY <1>2, <1>3, <1>4, <1>5, <1>9, QuietTurn

\* Stacks and results that do not change.
LEMMA SameStacksSafe ==
  ASSUME ShapeInv, StacksSafe, Settled, UNCHANGED <<stack, ret>>
  PROVE  StacksSafe'
<1>1. ASSUME NEW g \in Goroutines, NEW n \in DOMAIN stack[g] PROVE FrameSafe(stack[g][n])'
  <2>1. PICK f : f = stack[g][n]
    OBVIOUS
  <2>2. FrameSafe(f) /\ FrameOK(f) /\ f = stack'[g][n]
    BY <2>1 DEF StacksSafe, FramesSafe, ShapeInv, ShapeStacks, FramesOK
  <2>3. FrameSafe(f)'
    BY <2>2, FrameSafeStays
  <2> QED
    BY <2>2, <2>3
<1>2. ASSUME NEW g \in Goroutines, stack[g] # <<>>, Awaits(top(g)), ret[g].ok PROVE Answers(ret[g].site, top(g).t)'
  <2>1. PICK c, t : c = ret[g].site /\ t = top(g).t
    OBVIOUS
  <2>2. Answers(c, t)
    BY <1>2, <2>1 DEF StacksSafe, RetAnswers
  <2>3. Answers(c, t)'
    BY <2>2, SafeStays
  <2>4. top(g)' = top(g) /\ ret'[g] = ret[g]
    BY DEF top
  <2> QED
    BY <2>1, <2>3, <2>4
<1>3. RetAnswers'
  BY <1>2 DEF RetAnswers, Awaits, top
<1>4. AskStacks' /\ FramesSafe'
  BY <1>1 DEF StacksSafe, AskStacks, AskPair, Provides, descriptorImplements, Settled, FramesSafe
<1> QED
  BY <1>3, <1>4 DEF StacksSafe

\* A goroutine begins with a frame that resolves nothing yet.
LEMMA BeginsSafe ==
  ASSUME ShapeInv, StacksSafe, Settled, NEW g \in Goroutines, NEW f, stack' = [stack EXCEPT ![g] = <<f>>],
         \A h \in Goroutines \ {g} : ret'[h] = ret[h], f.fn # "visit", f.pc = "enter"
  PROVE  StacksSafe'
<1>1. Moves(g, 0, 1) /\ stack'[g][1] = f
  BY StartMoves DEF ShapeInv, ShapeStacks
<1>2. 0 <= Len(stack[g]) /\ 0 + 1 = 1 /\ 1 # 2
  BY SeqFacts DEF ShapeInv, ShapeStacks, StacksAre
<1>3. FrameSafe(stack[g][1])' /\ ~Awaits(f)
  <2>1. FrameSafe(f)'
    BY IdleFrame
  <2> QED
    BY <1>1, <2>1 DEF Awaits
<1>4. AskStacks' /\ FramesSafe'
  BY <1>1, <1>2, <1>3, SafeMoves DEF StacksSafe
<1>5. PICK r : r = ret'[g]
  OBVIOUS
<1>6. top(g)' = f
  BY <1>1, <1>2 DEF top, Moves
<1>7. RetAnswers'
  BY <1>1, <1>3, <1>5, <1>6, AnswersStay DEF StacksSafe
<1> QED
  BY <1>4, <1>7 DEF StacksSafe

\* A caller's call.
LEMMA StartCaptive ==
  ASSUME ShapeInv, KeepInv, CaptiveInv, NEW g \in Goroutines, Start(g)
  PROVE  CaptiveInv'
<1>1. Untouched
  BY DEF Start, Get, CreateScope, Dispose, Untouched, builder, callSites, accessors
<1>2. Settled /\ CacheTyped' /\ RealizedSafe' /\ InstancesSafe'
  BY <1>1, UntouchedFacts, RestSafe
<1>3. ASSUME NEW f, stack' = [stack EXCEPT ![g] = <<f>>], \A h \in Goroutines \ {g} : ret'[h] = ret[h],
             f.fn # "visit", f.pc = "enter"
      PROVE  CaptiveInv'
  BY <1>2, <1>3, BeginsSafe DEF CaptiveInv
<1>4. ASSUME NEW r, NEW s, Get(g, r, s) PROVE CaptiveInv'
  <2>1. PICK f : f = getFrame(r.type, r.key, s)
    OBVIOUS
  <2>2. f.fn = "get" /\ f.pc = "enter"
    BY <2>1, GetFrame
  <2>3. \A h \in Goroutines \ {g} : ret'[h] = ret[h]
    BY <1>4 DEF Get, ShapeInv, ShapeStacks, StacksAre
  <2> QED
    BY <1>3, <1>4, <2>1, <2>2, <2>3 DEF Get
<1>5. ASSUME UNCHANGED <<stack, ret>> PROVE CaptiveInv'
  BY <1>2, <1>5, SameStacksSafe DEF CaptiveInv
<1>6. ASSUME NEW s, Dispose(g, s) PROVE CaptiveInv'
  <2>1. PICK f : f = [Frame EXCEPT !.fn = "dispose", !.scope = s]
    OBVIOUS
  <2>2. f.fn = "dispose" /\ f.pc = "enter"
    BY <2>1 DEF Frame
  <2>3. ret' = ret /\ (stack' = stack \/ stack' = [stack EXCEPT ![g] = <<f>>])
    BY <1>6, <2>1 DEF Dispose
  <2> QED
    BY <1>3, <1>5, <2>2, <2>3
<1> QED
  BY <1>4, <1>5, <1>6 DEF Start, CreateScope

\* Build makes a call site that needs none and resolves nothing.
LEMMA BuildCaptive ==
  ASSUME ShapeInv, CaptiveInv, NEW g \in Goroutines, Build(g)
  PROVE  CaptiveInv'
<1>1. /\ sites = <<>> /\ realized = <<>> /\ instances = <<>> /\ callSiteCache = <<>> /\ \A h \in Goroutines : stack[h] = <<>>
  BY DEF ShapeInv, BuildingOK, Build
<1>2. UNCHANGED <<descriptors, options, realized, instances, ret>>
  BY DEF Build, accessors
<1>3. DOMAIN sites = {} /\ DOMAIN realized' = {} /\ DOMAIN instances' = {}
  BY <1>1, <1>2
<1>4. RealizedSafe' /\ InstancesSafe' /\ Settled
  BY <1>2, <1>3 DEF RealizedSafe, InstancesSafe, Settled
<1>5. CacheTyped'
  <2>1. PICK c, k : c = newCallSite("container", "Container", 0, <<>>, "none", 0) /\ k = <<"Container", 0>>
    OBVIOUS
  <2>2. sites' = <<c>> /\ callSiteCache' = With(<<>>, k, 1)
    BY <2>1 DEF Build
  <2>3. sites'[1] = c /\ c.type = "Container" /\ k[1] = "Container"
    BY <2>1, <2>2, OneFacts DEF newCallSite
  <2>4. \A x \in DOMAIN callSiteCache' : x = k /\ callSiteCache'[x] = 1
    BY <2>2 DEF With
  <2> QED
    BY <2>3, <2>4 DEF CacheTyped
<1>6. StacksSafe'
  <2>1. PICK f : f = [Frame EXCEPT !.fn = "validate"]
    OBVIOUS
  <2>2. f.fn = "validate" /\ f.pc = "enter"
    BY <2>1 DEF Frame
  <2>3. stack' = stack \/ stack' = [stack EXCEPT ![g] = <<f>>]
    BY <2>1 DEF Build
  <2> QED
    BY <1>2, <1>4, <2>2, <2>3, SameStacksSafe, BeginsSafe DEF CaptiveInv
<1> QED
  BY <1>4, <1>5, <1>6 DEF CaptiveInv

\* There is nothing before Build.
LEMMA EmptyCaptive ==
  ASSUME sites = <<>>, callSiteCache = <<>>, realized = <<>>, instances = <<>>, \A g \in Goroutines : stack[g] = <<>>
  PROVE  CaptiveInv
<1>1. /\ DOMAIN callSiteCache = {} /\ DOMAIN realized = {} /\ DOMAIN instances = {}
      /\ \A g \in Goroutines : DOMAIN stack[g] = {}
  OBVIOUS
<1> QED
  BY <1>1 DEF CaptiveInv, CacheTyped, StacksSafe, AskStacks, RetAnswers, FramesSafe, RealizedSafe, InstancesSafe

\* Every step keeps scoped services out of the root scope.
LEMMA CaptiveStep ==
  ASSUME ShapeInv, KeepInv, CaptiveInv, [Next]_vars
  PROVE  CaptiveInv'
<1>1. CASE UNCHANGED vars
  <2>1. Untouched /\ UNCHANGED <<stack, ret>>
    BY <1>1 DEF vars, builder, callSites, accessors, Untouched
  <2>2. Settled /\ CacheTyped' /\ RealizedSafe' /\ InstancesSafe'
    BY <2>1, UntouchedFacts, RestSafe
  <2> QED
    BY <2>1, <2>2, SameStacksSafe DEF CaptiveInv
<1>2. CASE Configure
  <2>1. sites = <<>> /\ callSiteCache = <<>> /\ realized = <<>> /\ instances = <<>> /\ \A g \in Goroutines : stack[g] = <<>>
    BY <1>2 DEF Configure, ShapeInv, BuildingOK
  <2>2. UNCHANGED <<sites, callSiteCache, realized, instances, stack>>
    BY <1>2 DEF Configure, callSites, accessors
  <2>3. /\ sites' = <<>> /\ callSiteCache' = <<>> /\ realized' = <<>> /\ instances' = <<>>
        /\ \A g \in Goroutines : stack'[g] = <<>>
    BY <2>1, <2>2
  <2> QED
    BY <2>3 DEF CaptiveInv, CacheTyped, StacksSafe, AskStacks, RetAnswers, FramesSafe, RealizedSafe, InstancesSafe
<1>3. ASSUME NEW g \in Goroutines, Build(g) \/ Start(g) PROVE CaptiveInv'
  BY <1>3, BuildCaptive, StartCaptive
<1>4. ASSUME NEW g \in Goroutines, Step(g) PROVE CaptiveInv'
  BY <1>4, StackActsCaptive, MakesCaptive, ValidatesCaptive, constructCaptive, captureCaptive, DisposesCaptive DEF Step, StackActs
<1> QED
  BY <1>1, <1>2, <1>3, <1>4 DEF Next

\* The invariants give the property.
LEMMA NoCaptive ==
  ASSUME ShapeInv, KeepInv, CaptiveInv
  PROVE  NoCaptiveDependency
<1>1. SUFFICES ASSUME Guarded, NEW i \in DOMAIN instances, descriptors[instances[i].d].life = "scoped"
               PROVE  instances[i].scope # Root
  BY DEF NoCaptiveDependency, Guarded, Inst, Desc
<1>2. PICK c : c = instances[i].site
  OBVIOUS
<1>3. InstanceOK(i) /\ c \in DOMAIN sites /\ Made(c) /\ SiteOK(c)
  BY <1>2 DEF KeepInv, InstancesOK, InstanceOK, ShapeInv, SitesOK
<1>4. sites[c].loc = CacheLocation(descriptors[instances[i].d]) /\ descriptors[instances[i].d].kind \in {"ctor", "factory"}
  BY <1>2, <1>3 DEF SiteOK, InstanceOK, Made, OfDescriptor
<1>5. sites[c].loc = "scope"
  BY <1>1, <1>4 DEF CacheLocation
<1> QED
  BY <1>1, <1>2, <1>5 DEF CaptiveInv, InstancesSafe

\* With ValidateScopes no scoped service is ever built in the root scope, for
\* any goroutines, scopes and registrations and any order of calls, by type, by
\* lookup key, as an element of a slice or from a factory, as long as what is or
\* needs a scoped service is registered by its own type (ValidateCallSite,
\* ValidateResolution).
THEOREM CaptiveTheorem == Spec => []NoCaptiveDependency
<1>1. Init => ShapeInv /\ KeepInv /\ CaptiveInv
  BY InitShape, InitKeep, EmptyCaptive DEF Init
<1>2. ShapeInv /\ KeepInv /\ CaptiveInv /\ [Next]_vars => (ShapeInv /\ KeepInv /\ CaptiveInv)'
  BY ShapeStep, KeepStep, CaptiveStep
<1>3. ShapeInv /\ KeepInv /\ CaptiveInv => NoCaptiveDependency
  BY NoCaptive
<1> QED
  BY <1>1, <1>2, <1>3, PTL DEF Spec

=============================================================================
