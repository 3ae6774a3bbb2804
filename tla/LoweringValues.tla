---------------------------- MODULE LoweringValues ----------------------------
(***************************************************************************)
(* The temporaries of a lowered function, for every set of programs: each  *)
(* is written by one instruction, before its uses in the block list, and   *)
(* on every path to a use that can be executed.                            *)
(*                                                                         *)
(* The invariant says that the function under construction has a           *)
(* certificate (LoweringLemmas) by which everything the builder still      *)
(* holds - operand values, the last value - is known in the open block,    *)
(* and the blocks it may still go to expect no more than is known there.   *)
(***************************************************************************)
EXTENDS IRBuilderProofs

(* What is known at the end of block b. *)
Now(bs, a, b) == Known(Code(bs), a, b)

Sound(fn, bs, a, b, st, n) ==
    /\ bs \in Seq(BasicBlock) /\ b \in Labels(bs) /\ n \in Nat /\ st \in Seq(FrameType)
    /\ Certified(Code(bs), a) /\ Once(Code(bs), n)
    /\ Held(fn, st, Now(bs, a, b), a)

-----------------------------------------------------------------------------
LEMMA TempsOf ==
    /\ Temps(<<>>) = {}
    /\ \A v : Temps(<<v>>) = IF v.k = "temp" THEN {v.v} ELSE {}
    /\ \A v, w : Temps(<<v, w>>) = Temps(<<v>>) \cup Temps(<<w>>)
    /\ \A vs \in Seq(Value), v \in Value : Temps(Append(vs, v)) = Temps(vs) \cup Temps(<<v>>)
<1>1. Temps(<<>>) = {}
  BY DEF Temps
<1>2. ASSUME NEW v PROVE Temps(<<v>>) = IF v.k = "temp" THEN {v.v} ELSE {}
  <2>1. DOMAIN <<v>> = {1} /\ <<v>>[1] = v
    OBVIOUS
  <2> HIDE DEF Temps
  <2>2. \A t : t \in Temps(<<v>>) <=> \E k \in DOMAIN <<v>> : <<v>>[k].k = "temp" /\ t = <<v>>[k].v
    BY DEF Temps
  <2> QED
    BY <2>1, <2>2
<1>3. ASSUME NEW v, NEW w PROVE Temps(<<v, w>>) = Temps(<<v>>) \cup Temps(<<w>>)
  <2>1. /\ DOMAIN <<v>> = {1} /\ <<v>>[1] = v /\ DOMAIN <<w>> = {1} /\ <<w>>[1] = w
        /\ DOMAIN <<v, w>> = {1, 2} /\ <<v, w>>[1] = v /\ <<v, w>>[2] = w
    OBVIOUS
  <2>2. \A t : t \in Temps(<<v, w>>) <=> \E k \in DOMAIN <<v, w>> : <<v, w>>[k].k = "temp" /\ t = <<v, w>>[k].v
    BY DEF Temps
  <2>3. \A t : t \in Temps(<<v>>) <=> v.k = "temp" /\ t = v.v
    BY <1>2
  <2>4. \A t : t \in Temps(<<w>>) <=> w.k = "temp" /\ t = w.v
    BY <1>2
  <2>5. \A t : t \in Temps(<<v, w>>) <=> (v.k = "temp" /\ t = v.v) \/ (w.k = "temp" /\ t = w.v)
    <3> DEFINE vw == <<v, w>>
    <3>1. DOMAIN vw = {1, 2} /\ vw[1] = v /\ vw[2] = w
      BY <2>1
    <3> HIDE DEF vw
    <3>2. \A t : (\E k \in DOMAIN vw : vw[k].k = "temp" /\ t = vw[k].v)
                   <=> (v.k = "temp" /\ t = v.v) \/ (w.k = "temp" /\ t = w.v)
      BY <3>1
    <3> QED
      BY <2>2, <3>2 DEF vw
  <2> HIDE DEF Temps
  <2> QED
    BY <2>3, <2>4, <2>5
<1>4. ASSUME NEW vs \in Seq(Value), NEW v \in Value
      PROVE  Temps(Append(vs, v)) = Temps(vs) \cup Temps(<<v>>)
  <2>1. /\ DOMAIN Append(vs, v) = 1..(Len(vs) + 1) /\ DOMAIN vs = 1..Len(vs) /\ Len(vs) \in Nat
        /\ \A k \in 1..Len(vs) : Append(vs, v)[k] = vs[k]
        /\ Append(vs, v)[Len(vs) + 1] = v
    OBVIOUS
  <2> DEFINE out == Append(vs, v)
             n   == Len(vs)
  <2>2. \A t : t \in Temps(out) <=> \E k \in DOMAIN out : out[k].k = "temp" /\ t = out[k].v
    BY DEF Temps
  <2>3. \A t : t \in Temps(vs) <=> \E k \in DOMAIN vs : vs[k].k = "temp" /\ t = vs[k].v
    BY DEF Temps
  <2>4. \A t : t \in Temps(<<v>>) <=> v.k = "temp" /\ t = v.v
    BY <1>2
  <2> HIDE DEF out, n
  <2>5. \A k : k \in 1..(n + 1) <=> (k \in 1..n \/ k = n + 1)
    BY <2>1 DEF n
  <2> QED
    BY <2>1, <2>2, <2>3, <2>4, <2>5 DEF out, n
<1> QED
  BY <1>1, <1>2, <1>3, <1>4

(* What an instruction uses are the temporaries among its arguments. *)
LEMMA UsesAre == \A i : Uses(i) = Temps(i.args)
BY DEF Uses, Temps

-----------------------------------------------------------------------------
(* How a step on the blocks keeps a certificate. *)
LEMMA SoundEmit ==
    ASSUME NEW fn, NEW bs, NEW a, NEW b, NEW st, NEW n, Sound(fn, bs, a, b, st, n),
           NEW i \in Instruction, i.to = <<>>, Temps(i.args) \subseteq Now(bs, a, b)
    PROVE  /\ i.dst = NoTemp => /\ Sound(fn, Emit(bs, b, i), a, b, st, n)
                                /\ Now(Emit(bs, b, i), a, b) = Now(bs, a, b)
           /\ i.dst = n => /\ Sound(fn, Emit(bs, b, i), a, b, st, n + 1)
                           /\ Now(Emit(bs, b, i), a, b) = Now(bs, a, b) \cup {n}
           /\ Labels(Emit(bs, b, i)) = Labels(bs)
<1> DEFINE c   == Code(bs)
           new == Emit(bs, b, i)
<1>1. /\ bs \in Seq(BasicBlock) /\ b \in Labels(bs) /\ n \in Nat /\ st \in Seq(FrameType)
      /\ Certified(c, a) /\ Once(c, n) /\ Held(fn, st, Known(c, a, b), a)
  BY DEF Sound, Now
<1>2. c \in Codes /\ DOMAIN c = Labels(bs)
  BY <1>1, CodeOf
<1>3. /\ Code(new) = Put(c, b, i) /\ new \in Seq(BasicBlock) /\ Labels(new) = Labels(bs)
  BY <1>1, CodeEmit, EmitEffect DEF Labels
<1>4. Targets(i) = {} /\ Uses(i) \subseteq Known(c, a, b)
  BY UsesAre DEF Targets, Now
<1> HIDE DEF c, new
<1>5. /\ Certified(Put(c, b, i), a)
      /\ Known(Put(c, b, i), a, b) = Known(c, a, b) \cup ({i.dst} \ {NoTemp})
  BY <1>1, <1>2, <1>4, CertPut
<1>6. /\ i.dst = NoTemp => Once(Put(c, b, i), n)
      /\ i.dst = n => Once(Put(c, b, i), n + 1)
  BY <1>1, <1>2, OncePut
<1>7. /\ n # NoTemp /\ n + 1 \in Nat /\ Now(bs, a, b) = Known(c, a, b)
      /\ Now(new, a, b) = Known(Put(c, b, i), a, b)
  BY <1>1, <1>3 DEF Now, NoTemp, c
<1>8. Held(fn, st, Now(new, a, b), a)
  BY <1>1, <1>5, <1>7, HeldMore
<1>9. ASSUME i.dst = NoTemp
      PROVE  Sound(fn, new, a, b, st, n) /\ Now(new, a, b) = Now(bs, a, b)
  BY <1>1, <1>3, <1>5, <1>6, <1>7, <1>8, <1>9 DEF Sound
<1>10. ASSUME i.dst = n
       PROVE  Sound(fn, new, a, b, st, n + 1) /\ Now(new, a, b) = Now(bs, a, b) \cup {n}
  BY <1>1, <1>3, <1>5, <1>6, <1>7, <1>8, <1>10 DEF Sound
<1> QED
  BY <1>3, <1>9, <1>10 DEF new

(* Terminators that go to labels. *)
LEMMA SoundPut ==
    ASSUME NEW fn, NEW bs, NEW a, NEW b, NEW st, NEW n, Sound(fn, bs, a, b, st, n),
           NEW i \in Instruction, i.dst = NoTemp, Temps(i.args) \subseteq Now(bs, a, b),
           \A s \in Targets(i) : s \in Labels(bs) /\ a[s] \subseteq Now(bs, a, b),
           NEW new \in Seq(BasicBlock), Code(new) = Put(Code(bs), b, i)
    PROVE  Sound(fn, new, a, b, st, n) /\ Now(new, a, b) = Now(bs, a, b)
<1> DEFINE c == Code(bs)
<1>1. /\ bs \in Seq(BasicBlock) /\ b \in Labels(bs) /\ n \in Nat /\ st \in Seq(FrameType)
      /\ Certified(c, a) /\ Once(c, n) /\ Held(fn, st, Known(c, a, b), a)
  BY DEF Sound, Now
<1>2. c \in Codes /\ DOMAIN c = Labels(bs)
  BY <1>1, CodeOf
<1>3. \A s \in Targets(i) : s \in DOMAIN c /\ a[s] \subseteq Known(c, a, b)
  BY <1>2 DEF Now
<1>4. Uses(i) \subseteq Known(c, a, b)
  BY UsesAre DEF Now
<1>5. Labels(new) = DOMAIN Code(new)
  BY CodeOf
<1> HIDE DEF c
<1>6. DOMAIN Put(c, b, i) = DOMAIN c
  BY <1>1, <1>2, PutEffect
<1>7. /\ Certified(Put(c, b, i), a) /\ Once(Put(c, b, i), n)
      /\ Known(Put(c, b, i), a, b) = Known(c, a, b) \cup ({i.dst} \ {NoTemp})
  BY <1>1, <1>2, <1>3, <1>4, CertPut, OncePut
<1>8. Known(Put(c, b, i), a, b) = Known(c, a, b)
  BY <1>7
<1> QED
  BY <1>1, <1>2, <1>5, <1>6, <1>7, <1>8 DEF Sound, Now, c

LEMMA SoundJump ==
    ASSUME NEW fn, NEW bs, NEW a, NEW b, NEW st, NEW n, Sound(fn, bs, a, b, st, n),
           NEW l \in Labels(bs), a[l] \subseteq Now(bs, a, b)
    PROVE  /\ Sound(fn, JumpTo(bs, b, l), a, b, st, n) /\ Labels(JumpTo(bs, b, l)) = Labels(bs)
           /\ Now(JumpTo(bs, b, l), a, b) = Now(bs, a, b)
<1>1. bs \in Seq(BasicBlock) /\ b \in Labels(bs)
  BY DEF Sound
<1>2. /\ Code(JumpTo(bs, b, l)) = Put(Code(bs), b, Jump(l)) /\ Jump(l) \in Instruction
      /\ JumpTo(bs, b, l) \in Seq(BasicBlock) /\ Labels(JumpTo(bs, b, l)) = Labels(bs)
  BY <1>1, CodeJump
<1>3. Jump(l).dst = NoTemp /\ Jump(l).args = <<>>
  BY DEF Jump, Instr
<1>4. Targets(Jump(l)) = {l}
  BY JumpTyped DEF Labels
<1>5. Temps(Jump(l).args) \subseteq Now(bs, a, b)
  BY <1>3, TempsOf
<1> QED
  BY <1>2, <1>3, <1>4, <1>5, SoundPut

LEMMA SoundBranch ==
    ASSUME NEW fn, NEW bs, NEW a, NEW b, NEW st, NEW n, Sound(fn, bs, a, b, st, n),
           NEW v \in Value, Temps(<<v>>) \subseteq Now(bs, a, b),
           NEW l \in Labels(bs), a[l] \subseteq Now(bs, a, b),
           NEW m \in Labels(bs), a[m] \subseteq Now(bs, a, b)
    PROVE  /\ Sound(fn, BranchTo(bs, b, v, l, m), a, b, st, n)
           /\ Labels(BranchTo(bs, b, v, l, m)) = Labels(bs)
           /\ Now(BranchTo(bs, b, v, l, m), a, b) = Now(bs, a, b)
<1> DEFINE i == Branch(v, l, m)
           new == BranchTo(bs, b, v, l, m)
<1>1. bs \in Seq(BasicBlock) /\ b \in Labels(bs)
  BY DEF Sound
<1>2. Code(new) = Put(Code(bs), b, i) /\ i \in Instruction
  BY <1>1, CodeBranch
<1>3. new \in Seq(BasicBlock) /\ Labels(new) = Labels(bs)
  <2> DEFINE em == Emit(bs, b, i)
             to == Connect(em, b, l)
  <2>1. em \in Seq(BasicBlock) /\ Labels(em) = Labels(bs)
    BY <1>1, <1>2, EmitEffect DEF Labels
  <2>2. new = Connect(to, b, m)
    BY DEF BranchTo
  <2> HIDE DEF em, i, new
  <2>3. to \in Seq(BasicBlock) /\ Labels(to) = Labels(em)
    BY <1>1, <2>1, CodeConnect
  <2> HIDE DEF to
  <2> QED
    BY <1>1, <2>1, <2>2, <2>3, CodeConnect
<1>4. i.dst = NoTemp /\ i.args = <<v>>
  BY DEF Branch, Instr
<1>5. Targets(i) = {l, m}
  BY BranchTyped DEF Labels
<1> HIDE DEF i, new
<1>6. Sound(fn, new, a, b, st, n) /\ Now(new, a, b) = Now(bs, a, b)
  BY <1>2, <1>3, <1>4, <1>5, SoundPut
<1> QED
  BY <1>3, <1>6 DEF new

(* New blocks expect what is known in the open one. *)
Grown(fn, bs, a, b, st, n, k, e) ==
    /\ Sound(fn, AddBlocks(bs, k), e, b, st, n)
    /\ Now(AddBlocks(bs, k), e, b) = Now(bs, a, b)
    /\ \A j \in 1..k : /\ Len(bs) + j \in Labels(AddBlocks(bs, k))
                       /\ Len(bs) + j \in DOMAIN e
                       /\ e[Len(bs) + j] = Now(bs, a, b)

LEMMA SoundGrow ==
    ASSUME NEW fn, NEW bs, NEW a, NEW b, NEW st, NEW n, Sound(fn, bs, a, b, st, n), NEW k \in Nat
    PROVE  \E e : Grown(fn, bs, a, b, st, n, k, e)
<1> DEFINE c == Code(bs)
           K == Known(c, a, b)
           e == Extended(c, a, k, K)
           new == AddBlocks(bs, k)
<1>1. /\ bs \in Seq(BasicBlock) /\ b \in Labels(bs) /\ n \in Nat /\ st \in Seq(FrameType)
      /\ Certified(c, a) /\ Once(c, n) /\ Held(fn, st, K, a)
  BY DEF Sound, Now
<1>2. c \in Codes /\ DOMAIN c = Labels(bs) /\ Len(c) = Len(bs) /\ Len(bs) \in Nat
  BY <1>1, CodeOf
<1>3. /\ Code(new) = Grow(c, k) /\ new \in Seq(BasicBlock) /\ Len(new) = Len(bs) + k
  BY <1>1, CodeAdd
<1> HIDE DEF c, new
<1>4. /\ Certified(Grow(c, k), e) /\ Known(Grow(c, k), e, b) = K
      /\ \A l \in DOMAIN c : l \in DOMAIN e /\ e[l] = a[l]
      /\ \A j \in 1..k : Len(c) + j \in DOMAIN e /\ e[Len(c) + j] = K
  <2>1. b \in DOMAIN c
    BY <1>1, <1>2
  <2>2. c \in Codes /\ Certified(c, a)
    BY <1>1, <1>2
  <2> HIDE DEF e, K
  <2>3. Certified(Grow(c, k), Extended(c, a, k, Known(c, a, b)))
    BY <2>1, <2>2, CertGrow
  <2>4. Known(Grow(c, k), Extended(c, a, k, Known(c, a, b)), b) = Known(c, a, b)
    BY <2>1, <2>2, CertGrow
  <2> QED
    BY <2>1, <2>2, CertGrow DEF e, K
<1> HIDE DEF e, K
<1>5. DOMAIN a = DOMAIN c
  BY <1>1 DEF Certified
<1>6. Held(fn, st, K, e)
  BY <1>1, <1>4, <1>5, HeldGrow
<1>7. Once(Grow(c, k), n)
  BY <1>1, <1>2, OnceMore
<1>8. b \in Labels(new) /\ \A j \in 1..k : Len(bs) + j \in Labels(new)
  BY <1>1, <1>2, <1>3 DEF Labels
<1>9. Now(new, e, b) = K /\ Now(bs, a, b) = K
  BY <1>3, <1>4 DEF Now, K, c
<1>10. Sound(fn, new, e, b, st, n)
  BY <1>1, <1>3, <1>4, <1>6, <1>7, <1>8, <1>9 DEF Sound
<1>11. /\ Now(new, e, b) = Now(bs, a, b)
       /\ \A j \in 1..k : Len(bs) + j \in Labels(new) /\ Len(bs) + j \in DOMAIN e
                         /\ e[Len(bs) + j] = Now(bs, a, b)
  BY <1>2, <1>4, <1>8, <1>9
<1>12. Grown(fn, bs, a, b, st, n, k, e)
  BY <1>10, <1>11 DEF new, Grown
<1> QED
  BY <1>12

(* Going on in a block that expects no more than is known there. *)
LEMMA SoundAt ==
    ASSUME NEW fn, NEW bs, NEW a, NEW b, NEW st, NEW n, Sound(fn, bs, a, b, st, n),
           NEW l \in Labels(bs), Held(fn, st, a[l], a)
    PROVE  Sound(fn, bs, a, l, st, n) /\ a[l] \subseteq Now(bs, a, l)
<1>1. a[l] \subseteq Now(bs, a, l)
  BY DEF Now, Known
<1>2. Held(fn, st, Now(bs, a, l), a)
  BY <1>1, HeldMore
<1> QED
  BY <1>1, <1>2 DEF Sound

-----------------------------------------------------------------------------
(* The state of the builder.  The last value counts once an operand has     *)
(* been visited; before that nobody reads it.                               *)
Good(a) ==
    /\ Sound(Fn, blocks, a, cur, stack, nextTemp)
    /\ stack = <<>> \/ Top.pc > 0 => Temps(lastValue) \subseteq Now(blocks, a, cur)

(* No loop is visited above a break that holds its reference, so the        *)
(* capacity of loop_stack_ is still the one it saw.                         *)
Quiet(fn, st, cap) ==
    \A f \in DOMAIN st : Breaking(fn, st[f]) =>
        /\ st[f].cap = cap
        /\ \A g \in DOMAIN st : g > f => ~HasLoop(fn)[st[g].node]

(* Outside of every loop body, the node visited has no stray break. *)
Placed(fn, st) ==
    \A f \in DOMAIN st :
        (\A g \in 1..(f - 1) : ~Inside(fn, st[g])) => ~Stray(fn)[st[f].node]

(* A step ends the visit on top, or starts that of one of its operands. *)
Returns == stack' = PopOf(stack) /\ loopCap' = loopCap
Calls ==
    \E f \in FrameType, k \in 1..Len(Kids) :
        /\ stack' = PushOf(stack, f, Frame(Kids[k]))
        /\ f.pc = k /\ f.node = Top.node
        /\ Node.kind = "break" => f.cap = loopCap
        /\ Node.kind \notin {"while", "loop"} => loopCap' = loopCap

LEMMA TempsElement ==
    ASSUME NEW vs \in Seq(Value), NEW j \in 1..Len(vs)
    PROVE  Temps(<<vs[j]>>) \subseteq Temps(vs)
<1>1. DOMAIN vs = 1..Len(vs)
  OBVIOUS
<1>2. \A t : t \in Temps(vs) <=> \E k \in DOMAIN vs : vs[k].k = "temp" /\ t = vs[k].v
  BY DEF Temps
<1>3. \A t : t \in Temps(<<vs[j]>>) <=> vs[j].k = "temp" /\ t = vs[j].v
  BY TempsOf
<1> QED
  BY <1>1, <1>2, <1>3

(* The values at hand are known in the open block. *)
LEMMA ValueKnown ==
    ASSUME TypeOK, NEW a, Good(a), stack = <<>> \/ Top.pc > 0
    PROVE  Temps(<<TakeValue>>) \subseteq Now(blocks, a, cur)
<1>1. lastValue \in Seq(Value) /\ Len(lastValue) <= 1
  BY DEF TypeOK
<1>2. Temps(lastValue) \subseteq Now(blocks, a, cur)
  BY DEF Good
<1>3. CASE lastValue = <<>>
  <2>1. TakeValue = ImmUnit /\ ImmUnit.k # "temp"
    BY <1>3 DEF TakeValue, ImmUnit
  <2> QED
    BY <2>1, TempsOf
<1>4. CASE lastValue # <<>>
  <2>1. TakeValue = lastValue[1] /\ 1 \in 1..Len(lastValue)
    BY <1>1, <1>4 DEF TakeValue
  <2> QED
    BY <1>1, <1>2, <2>1, TempsElement
<1> QED
  BY <1>3, <1>4

LEMMA ValsKnown ==
    ASSUME IInv, Active, NEW a, Good(a)
    PROVE  Temps(Top.vals) \subseteq Now(blocks, a, cur)
BY TopFacts DEF Good, Sound, Held, Top

LEMMA OperandsKnown ==
    ASSUME IInv, Active, NEW a, Good(a), Top.pc = Len(Kids)
    PROVE  Temps(Operands) \subseteq Now(blocks, a, cur)
<1>1. Kids \in Seq(Nat) /\ Top.vals \in Seq(Value) /\ TakeValue \in Value /\ TypeOK
  BY TopFacts, NodeTyped, InvParts
<1>2. CASE Kids = <<>>
  BY <1>2, TempsOf DEF Operands
<1>3. CASE Kids # <<>>
  <2>1. Top.pc > 0
    BY <1>1, <1>3
  <2>2. Temps(<<TakeValue>>) \subseteq Now(blocks, a, cur)
    BY <1>1, <2>1, ValueKnown
  <2>3. Operands = Append(Top.vals, TakeValue)
    BY <1>3 DEF Operands
  <2>4. Temps(Operands) = Temps(Top.vals) \cup Temps(<<TakeValue>>)
    BY <1>1, <2>3, TempsOf
  <2> QED
    BY <2>2, <2>4, ValsKnown
<1> QED
  BY <1>2, <1>3

-----------------------------------------------------------------------------
(* What the visit functions emit. *)
LEMMA SoundFree ==
    ASSUME NEW fn, NEW bs, NEW a, NEW b, NEW st, NEW n, Sound(fn, bs, a, b, st, n)
    PROVE  Sound(fn, bs, a, b, st, n + 1)
<1>1. bs \in Seq(BasicBlock) /\ n \in Nat /\ Once(Code(bs), n) /\ n + 1 \in Nat
  BY DEF Sound
<1>2. Code(bs) \in Codes /\ 0 \in Nat
  BY <1>1, CodeOf
<1>3. Once(Code(bs), n + 1)
  BY <1>1, <1>2, OnceMore
<1> QED
  BY <1>1, <1>3 DEF Sound

LEMMA SoundStore ==
    ASSUME NEW fn, NEW bs, NEW a, NEW b, NEW st, NEW n, Sound(fn, bs, a, b, st, n),
           NEW x \in Symbols, NEW v \in Value, Temps(<<v>>) \subseteq Now(bs, a, b)
    PROVE  /\ Sound(fn, Emit(bs, b, StoreLocal(x, v)), a, b, st, n)
           /\ Now(Emit(bs, b, StoreLocal(x, v)), a, b) = Now(bs, a, b)
           /\ Labels(Emit(bs, b, StoreLocal(x, v))) = Labels(bs)
<1> DEFINE i == StoreLocal(x, v)
<1>1. NoTemp \in Int /\ "=" \in Texts /\ <<>> \in Seq(Value)
  BY SymbolsTyped DEF Texts
<1>2. i \in Instruction /\ i.to = <<>>
  BY <1>1, PlainTyped DEF Plain
<1>3. i.dst = NoTemp /\ i.args = <<v>>
  BY DEF StoreLocal, Instr
<1> HIDE DEF i
<1>4. Temps(i.args) \subseteq Now(bs, a, b)
  BY <1>3
<1>5. /\ Sound(fn, Emit(bs, b, i), a, b, st, n) /\ Now(Emit(bs, b, i), a, b) = Now(bs, a, b)
      /\ Labels(Emit(bs, b, i)) = Labels(bs)
  BY <1>2, <1>3, <1>4, SoundEmit
<1> QED
  BY <1>5 DEF i

LEMMA SoundLoad ==
    ASSUME NEW fn, NEW bs, NEW a, NEW b, NEW st, NEW n, Sound(fn, bs, a, b, st, n),
           NEW x \in Symbols
    PROVE  /\ Sound(fn, Emit(bs, b, LoadLocal(n, x)), a, b, st, n + 1)
           /\ Now(Emit(bs, b, LoadLocal(n, x)), a, b) = Now(bs, a, b) \cup {n}
<1> DEFINE i == LoadLocal(n, x)
<1>1. n \in Nat /\ "=" \in Texts /\ <<>> \in Seq(Value) /\ ImmUnit \in Value
  BY ValueTyped DEF Texts, Sound
<1>2. i \in Instruction /\ i.to = <<>>
  BY <1>1, LoadTyped DEF Plain
<1>3. i.dst = n /\ i.args = <<>>
  BY DEF LoadLocal, Instr
<1> HIDE DEF i
<1>4. Temps(i.args) \subseteq Now(bs, a, b)
  BY <1>3, TempsOf
<1>5. /\ Sound(fn, Emit(bs, b, i), a, b, st, n + 1)
      /\ Now(Emit(bs, b, i), a, b) = Now(bs, a, b) \cup {n}
  BY <1>2, <1>3, <1>4, SoundEmit
<1> QED
  BY <1>5 DEF i

LEMMA SoundFall ==
    ASSUME NEW fn, NEW bs, NEW a, NEW st, NEW n, Sound(fn, bs, a, cur, st, n),
           NEW l \in Labels(bs), a[l] \subseteq Now(bs, a, cur)
    PROVE  /\ Sound(fn, FallThrough(bs, l), a, cur, st, n)
           /\ Now(FallThrough(bs, l), a, cur) = Now(bs, a, cur)
           /\ Labels(FallThrough(bs, l)) = Labels(bs)
<1>1. CASE IsTerminated(bs[cur])
  BY <1>1 DEF FallThrough
<1>2. CASE ~IsTerminated(bs[cur])
  <2>1. FallThrough(bs, l) = JumpTo(bs, cur, l)
    BY <1>2 DEF FallThrough
  <2> QED
    BY <2>1, SoundJump
<1> QED
  BY <1>1, <1>2

LEMMA SoundResult ==
    ASSUME IInv, Active, NEW a, Good(a), Top.pc > 0
    PROVE  /\ Sound(Fn, StoreResult(blocks, Top), a, cur, stack, nextTemp)
           /\ Now(StoreResult(blocks, Top), a, cur) = Now(blocks, a, cur)
           /\ Labels(StoreResult(blocks, Top)) = Labels(blocks)
<1>1. Sound(Fn, blocks, a, cur, stack, nextTemp)
  BY DEF Good
<1>2. /\ TakeValue \in Value /\ IfSlot(Top.slot) \in Symbols /\ TypeOK
  BY NodeTyped, TopFacts, SymbolsTyped, InvParts
<1>3. Temps(<<TakeValue>>) \subseteq Now(blocks, a, cur)
  BY <1>2, ValueKnown
<1>4. CASE StoreResult(blocks, Top) = blocks
  BY <1>1, <1>4
<1>5. CASE StoreResult(blocks, Top) = Emit(blocks, cur, StoreLocal(IfSlot(Top.slot), TakeValue))
  BY <1>1, <1>2, <1>3, <1>5, SoundStore
<1> QED
  BY <1>4, <1>5 DEF StoreResult

LEMMA SoundLoadSlot ==
    ASSUME NEW a, NEW bs, NEW b, NEW x \in Symbols, NEW has \in BOOLEAN,
           Sound(Fn, bs, a, b, stack, nextTemp), LoadSlot(bs, b, has, x)
    PROVE  /\ Sound(Fn, blocks', a, b, stack, nextTemp')
           /\ Temps(lastValue') \subseteq Now(blocks', a, b)
<1>1. CASE has
  <2>1. /\ blocks' = Emit(bs, b, LoadLocal(nextTemp, x)) /\ nextTemp' = nextTemp + 1
        /\ lastValue' = <<TempRef(nextTemp)>>
    BY <1>1 DEF LoadSlot, SetValue
  <2>2. TempRef(nextTemp).k = "temp" /\ TempRef(nextTemp).v = nextTemp
    BY DEF TempRef
  <2>3. Temps(lastValue') = {nextTemp}
    BY <2>1, <2>2, TempsOf
  <2> QED
    BY <2>1, <2>3, SoundLoad
<1>2. CASE ~has
  <2>1. blocks' = bs /\ nextTemp' = nextTemp /\ lastValue' = <<ImmUnit>>
    BY <1>2 DEF LoadSlot, SetValue
  <2>2. ImmUnit.k # "temp"
    BY DEF ImmUnit
  <2>3. Temps(lastValue') = {}
    BY <2>1, <2>2, TempsOf
  <2> QED
    BY <2>1, <2>3
<1> QED
  BY <1>1, <1>2

-----------------------------------------------------------------------------
(* The end of a visit and the start of one. *)
LEMMA PopGood ==
    ASSUME IInv, Active, UnchangedRest, ReturnFromVisit, loopCap' = loopCap,
           NEW e, Sound(Fn, blocks', e, cur', stack, nextTemp'),
           Temps(lastValue') \subseteq Now(blocks', e, cur')
    PROVE  (\E a : Good(a))' /\ Returns
<1>1. stack \in Seq(FrameType) /\ stack # <<>>
  BY InvParts
<1>2. stack' = PopOf(stack)
  BY DEF ReturnFromVisit, PopOf
<1>3. PopOf(stack) \in Seq(FrameType)
  BY <1>1, PopEffect
<1>4. Held(Fn, stack', Now(blocks', e, cur'), e)
  BY <1>1, <1>2, HeldPop DEF Sound
<1>5. Sound(Fn, blocks', e, cur', stack', nextTemp')
  BY <1>2, <1>3, <1>4 DEF Sound
<1>6. Fn' = Fn
  BY SameFn
<1>7. Good(e)'
  BY <1>5, <1>6 DEF Good
<1> QED
  BY <1>2, <1>7 DEF Returns

LEMMA PushGood ==
    ASSUME IInv, Active, UnchangedRest,
           NEW f \in FrameType, NEW k \in 1..Len(Kids), Accept(f, k), f.node = Top.node,
           NEW e, NEW K, Sound(Fn, blocks', e, cur', stack, nextTemp'),
           Held(Fn, stack, K, e), K \subseteq Now(blocks', e, cur'), Temps(f.vals) \subseteq K,
           \A l \in Range(f.labs) : l \in DOMAIN e /\ e[l] = K,
           Node.kind \in {"while", "loop"} => f.head \in DOMAIN e /\ e[f.head] = K,
           Node.kind = "break" => f.cap = loopCap,
           Node.kind \notin {"while", "loop"} => loopCap' = loopCap
    PROVE  (\E a : Good(a))' /\ Calls
<1> DEFINE g == [f EXCEPT !.pc = k]
           r == Frame(Kids[k])
<1>1. /\ stack \in Seq(FrameType) /\ stack # <<>> /\ TypeOK /\ status = "lowering"
      /\ k \in Nat /\ Kids[k] \in DOMAIN Fn.nodes
  BY InvParts, TopFacts
<1>2. stack' = PushOf(stack, g, r)
  BY DEF Accept, PushOf
<1>3. /\ g \in FrameType /\ g.pc = k /\ g.node = f.node /\ g.vals = f.vals /\ g.labs = f.labs
      /\ g.head = f.head
  BY <1>1, WithPc
<1>4. g.cap = f.cap
  BY DEF FrameType
<1>5. /\ r \in FrameType /\ r.pc = 0 /\ r.vals = <<>> /\ r.labs = <<>>
  BY <1>1, FrameTyped, FnTyped DEF Frame
<1> HIDE DEF g, r
<1>6. Ahead(Fn, r) = {} /\ Temps(r.vals) = {}
  BY <1>5, Ranges, TempsOf DEF Ahead
<1>7. \A l \in Ahead(Fn, g) : l \in DOMAIN e /\ e[l] = K
  BY <1>3 DEF Ahead, Node
<1>8. Held(Fn, stack', K, e)
  BY <1>1, <1>2, <1>3, <1>5, <1>6, <1>7, HeldPush
<1>9. Held(Fn, stack', Now(blocks', e, cur'), e)
  BY <1>8, HeldMore
<1>10. stack' \in Seq(FrameType) /\ Len(stack') = Len(stack) + 1 /\ stack'[Len(stack) + 1] = r
       /\ Len(stack) \in Nat
  <2> DEFINE out == PushOf(stack, g, r)
             d   == Len(stack)
  <2>1. out \in Seq(FrameType) /\ Len(out) = d + 1 /\ d \in Nat \ {0} /\ out[d + 1] = r
    BY <1>1, <1>3, <1>5, PushEffect
  <2>2. stack' = out
    BY <1>2
  <2> HIDE DEF out, d
  <2>3. stack' \in Seq(FrameType) /\ Len(stack') = d + 1 /\ d \in Nat /\ stack'[d + 1] = r
    BY <2>1, <2>2
  <2> QED
    BY <2>3 DEF d
<1>11. Sound(Fn, blocks', e, cur', stack', nextTemp')
  BY <1>9, <1>10 DEF Sound
<1>12. Fn' = Fn /\ stack' # <<>> /\ Top' = r
  BY <1>10, SameFn DEF Top
<1>13. Good(e)'
  BY <1>5, <1>11, <1>12 DEF Good
<1>14. Calls
  BY <1>2, <1>3, <1>4 DEF Calls, r
<1> QED
  BY <1>13, <1>14

(* What a step of a visit does to the two conditions on the program.        *)
LEMMA CallFacts ==
    ASSUME IInv, Active, Calls
    PROVE  \E f \in FrameType, k \in 1..Len(Kids) :
              LET d == Len(stack)
              IN  /\ DOMAIN stack' = 1..(d + 1) /\ DOMAIN stack = 1..d /\ d \in Nat \ {0}
                  /\ \A j \in 1..(d - 1) : stack'[j] = stack[j]
                  /\ stack'[d] = f /\ stack'[d + 1].node = Kids[k] /\ stack'[d + 1].pc = 0
                  /\ f.pc = k /\ f.node = stack[d].node
                  /\ Node.kind = "break" => f.cap = loopCap
                  /\ Node.kind \notin {"while", "loop"} => loopCap' = loopCap
<1>1. stack \in Seq(FrameType) /\ stack # <<>> /\ stack[Len(stack)] = Top /\ TypeOK
      /\ status = "lowering"
  BY InvParts
<1>2. PICK f \in FrameType, k \in 1..Len(Kids) :
        /\ stack' = PushOf(stack, f, Frame(Kids[k]))
        /\ f.pc = k /\ f.node = Top.node
        /\ Node.kind = "break" => f.cap = loopCap
        /\ Node.kind \notin {"while", "loop"} => loopCap' = loopCap
  BY DEF Calls
<1> DEFINE r   == Frame(Kids[k])
           out == PushOf(stack, f, r)
           d   == Len(stack)
<1>3. r \in FrameType /\ r.node = Kids[k] /\ r.pc = 0
  <2>1. Kids[k] \in Nat
    BY TopFacts
  <2> QED
    BY <2>1, FrameTyped
<1> HIDE DEF r
<1>4. /\ DOMAIN out = 1..(d + 1) /\ DOMAIN stack = 1..d /\ d \in Nat \ {0}
      /\ \A j \in 1..(d - 1) : out[j] = stack[j]
      /\ out[d] = f /\ out[d + 1] = r
  <2>1. DOMAIN out = 1..(d + 1) /\ DOMAIN stack = 1..d /\ d \in Nat \ {0}
    BY <1>1, <1>3, PushEffect
  <2>2. \A j \in 1..(d - 1) : out[j] = stack[j]
    BY <1>1, <1>3, PushEffect
  <2>3. out[d] = f
    BY <1>1, <1>3, PushEffect
  <2>4. out[d + 1] = r
    BY <1>1, <1>3, PushEffect
  <2> QED
    BY <2>1, <2>2, <2>3, <2>4
<1>5. stack' = out
  BY <1>2 DEF r
<1> HIDE DEF out
<1>6. stack[d] = Top
  BY <1>1
<1> HIDE DEF d
<1> QED
  BY <1>2, <1>3, <1>4, <1>5, <1>6 DEF d

LEMMA QuietNext ==
    ASSUME IInv, Active, ReferenceHolds(Fn), Quiet(Fn, stack, loopCap), Returns \/ Calls
    PROVE  Quiet(Fn, stack', loopCap')
<1>1. stack \in Seq(FrameType) /\ stack # <<>> /\ stack[Len(stack)] = Top /\ TypeOK
      /\ status = "lowering" /\ \A f \in DOMAIN stack : stack[f].node \in DOMAIN Fn.nodes
  BY InvParts DEF Shaped
<1>2. CASE Returns
  <2>1. stack' = PopOf(stack) /\ loopCap' = loopCap
    BY <1>2 DEF Returns
  <2>2. /\ DOMAIN PopOf(stack) = 1..(Len(stack) - 1) /\ DOMAIN stack = 1..Len(stack)
        /\ \A f \in 1..(Len(stack) - 1) : PopOf(stack)[f] = stack[f]
        /\ Len(stack) \in Nat
    BY <1>1, PopEffect
  <2>3. \A f \in DOMAIN stack' : f \in DOMAIN stack /\ stack'[f] = stack[f]
    BY <2>1, <2>2
  <2> QED
    BY <2>1, <2>3 DEF Quiet
<1>3. CASE Calls
  <2>1. PICK f \in FrameType, k \in 1..Len(Kids) :
              LET d == Len(stack)
              IN  /\ DOMAIN stack' = 1..(d + 1) /\ DOMAIN stack = 1..d /\ d \in Nat \ {0}
                  /\ \A j \in 1..(d - 1) : stack'[j] = stack[j]
                  /\ stack'[d] = f /\ stack'[d + 1].node = Kids[k] /\ stack'[d + 1].pc = 0
                  /\ f.pc = k /\ f.node = stack[d].node
                  /\ Node.kind = "break" => f.cap = loopCap
                  /\ Node.kind \notin {"while", "loop"} => loopCap' = loopCap
    BY <1>3, CallFacts
  <2> DEFINE d == Len(stack)
  <2>2. /\ Fn.nodes \in Seq(AstNode) /\ \A n \in DOMAIN Fn.nodes : WellFormedNode(Fn, n)
        /\ Top.node \in DOMAIN Fn.nodes /\ Node = Fn.nodes[Top.node] /\ Kids \in Seq(Nat)
        /\ DOMAIN Kids = 1..Len(Kids)
    BY <1>1, FnTyped, TopFacts DEF Node
  <2>3. ~HasLoop(Fn)[Top.node] => ~HasLoop(Fn)[Kids[k]] /\ Node.kind \notin {"while", "loop"}
    <3>1. HasLoop(Fn)[Top.node] <=> \/ Node.kind \in {"while", "loop"}
                                    \/ \E j \in DOMAIN Kids : HasLoop(Fn)[Kids[j]]
      BY <2>2, HasLoopNext DEF Kids
    <3> QED
      BY <2>2, <3>1
  <2>4. Node.kind = "break" => ~HasLoop(Fn)[Kids[k]]
    BY <2>2 DEF ReferenceHolds, Kids
  <2>5. ASSUME NEW g \in DOMAIN stack', Breaking(Fn, stack'[g])
        PROVE  /\ stack'[g].cap = loopCap'
               /\ \A h \in DOMAIN stack' : h > g => ~HasLoop(Fn)[stack'[h].node]
    <3>1. g # d + 1
      BY <2>1, <2>5 DEF Breaking
    <3>2. CASE g = d
      <4>1. Node.kind = "break" /\ f.cap = loopCap /\ loopCap' = loopCap
        BY <1>1, <2>1, <2>2, <2>5, <3>2 DEF Breaking
      <4>2. \A h \in DOMAIN stack' : h > g => h = d + 1
        BY <2>1, <3>2
      <4> QED
        BY <2>1, <2>4, <3>2, <4>1, <4>2
    <3>3. CASE g \in 1..(d - 1)
      <4>1. g \in DOMAIN stack /\ Breaking(Fn, stack[g]) /\ d > g /\ d \in DOMAIN stack
        BY <2>1, <2>5, <3>3
      <4>2. stack[g].cap = loopCap /\ \A h \in DOMAIN stack : h > g => ~HasLoop(Fn)[stack[h].node]
        BY <4>1 DEF Quiet
      <4>3. ~HasLoop(Fn)[Top.node]
        BY <1>1, <4>1, <4>2
      <4>4. loopCap' = loopCap
        BY <2>1, <2>3, <4>3
      <4>5. ASSUME NEW h \in DOMAIN stack', h > g
            PROVE  ~HasLoop(Fn)[stack'[h].node]
        <5>1. h \in 1..(d - 1) \/ h = d \/ h = d + 1
          BY <2>1
        <5>2. CASE h \in 1..(d - 1)
          BY <2>1, <4>2, <4>5, <5>2
        <5>3. CASE h = d
          BY <1>1, <2>1, <4>3, <5>3
        <5>4. CASE h = d + 1
          BY <2>1, <2>3, <4>3, <5>4
        <5> QED
          BY <5>1, <5>2, <5>3, <5>4
      <4> QED
        BY <2>1, <3>3, <4>2, <4>4, <4>5
    <3>4. g \in 1..(d - 1) \/ g = d \/ g = d + 1
      BY <2>1
    <3> QED
      BY <3>1, <3>2, <3>3, <3>4
  <2> QED
    BY <2>5 DEF Quiet
<1> QED
  BY <1>2, <1>3

LEMMA PlacedNext ==
    ASSUME IInv, Active, Placed(Fn, stack), Returns \/ Calls
    PROVE  Placed(Fn, stack')
<1>1. stack \in Seq(FrameType) /\ stack # <<>> /\ stack[Len(stack)] = Top /\ TypeOK
      /\ status = "lowering"
  BY InvParts
<1>2. CASE Returns
  <2>1. stack' = PopOf(stack) 
    BY <1>2 DEF Returns
  <2>2. /\ DOMAIN PopOf(stack) = 1..(Len(stack) - 1) /\ DOMAIN stack = 1..Len(stack)
        /\ \A f \in 1..(Len(stack) - 1) : PopOf(stack)[f] = stack[f]
        /\ Len(stack) \in Nat
    BY <1>1, PopEffect
  <2>3. \A f \in DOMAIN stack' : /\ f \in DOMAIN stack /\ stack'[f] = stack[f]
                                 /\ \A g \in 1..(f - 1) : stack'[g] = stack[g]
    BY <2>1, <2>2
  <2> QED
    BY <2>3 DEF Placed
<1>3. CASE Calls
  <2>1. PICK f \in FrameType, k \in 1..Len(Kids) :
              LET d == Len(stack)
              IN  /\ DOMAIN stack' = 1..(d + 1) /\ DOMAIN stack = 1..d /\ d \in Nat \ {0}
                  /\ \A j \in 1..(d - 1) : stack'[j] = stack[j]
                  /\ stack'[d] = f /\ stack'[d + 1].node = Kids[k] /\ stack'[d + 1].pc = 0
                  /\ f.pc = k /\ f.node = stack[d].node
                  /\ Node.kind = "break" => f.cap = loopCap
                  /\ Node.kind \notin {"while", "loop"} => loopCap' = loopCap
    BY <1>3, CallFacts
  <2> DEFINE d == Len(stack)
  <2>2. /\ Fn.nodes \in Seq(AstNode) /\ \A n \in DOMAIN Fn.nodes : WellFormedNode(Fn, n)
        /\ Top.node \in DOMAIN Fn.nodes /\ Node = Fn.nodes[Top.node] /\ Kids \in Seq(Nat)
        /\ DOMAIN Kids = 1..Len(Kids)
    BY <1>1, FnTyped, TopFacts DEF Node
  <2>3. ~Inside(Fn, f) => ~IsLoopBody(Node, k)
    <3>1. Node.kind = "loop" => k = 1
      <4> SUFFICES ASSUME Node.kind = "loop" PROVE k = 1
        OBVIOUS
      <4>1. Len(Kids) = 1
        BY <2>2 DEF WellFormedNode, Kids
      <4>2. k \in 1..1
        BY <4>1
      <4> QED
        BY <4>2
    <3>2. f.pc = k /\ Fn.nodes[f.node] = Node
      BY <1>1, <2>1, <2>2
    <3> QED
      BY <3>1, <3>2 DEF Inside, IsLoopBody
  <2>4. ~Stray(Fn)[Top.node] /\ ~Inside(Fn, f) => ~Stray(Fn)[Kids[k]]
    <3>1. Stray(Fn)[Top.node] <=>
            \/ Node.kind \in {"break", "continue"}
            \/ \E j \in DOMAIN Kids : ~IsLoopBody(Node, j) /\ Stray(Fn)[Kids[j]]
      BY <2>2, StrayNext DEF Kids
    <3> QED
      BY <2>2, <2>3, <3>1
  <2>5. ASSUME NEW h \in DOMAIN stack', \A g \in 1..(h - 1) : ~Inside(Fn, stack'[g])
        PROVE  ~Stray(Fn)[stack'[h].node]
    <3>1. h \in 1..(d - 1) \/ h = d \/ h = d + 1
      BY <2>1
    <3>2. CASE h \in 1..(d - 1)
      <4>1. h \in DOMAIN stack /\ stack'[h] = stack[h] /\ \A g \in 1..(h - 1) : stack'[g] = stack[g]
        BY <2>1, <3>2
      <4> QED
        BY <2>5, <4>1 DEF Placed
    <3>3. ASSUME h \in {d, d + 1} PROVE ~Stray(Fn)[Top.node]
      <4>1. d \in DOMAIN stack /\ \A g \in 1..(d - 1) : g \in 1..(h - 1) /\ stack'[g] = stack[g]
        BY <2>1, <3>3
      <4> QED
        BY <1>1, <2>5, <4>1 DEF Placed
    <3>4. CASE h = d
      BY <1>1, <2>1, <3>3, <3>4
    <3>5. CASE h = d + 1
      <4>1. d \in 1..(h - 1)
        BY <2>1, <3>5
      <4>2. ~Inside(Fn, f)
        BY <2>1, <2>5, <4>1
      <4> QED
        BY <2>1, <2>4, <3>3, <3>5, <4>2
    <3> QED
      BY <3>1, <3>2, <3>4, <3>5
  <2> QED
    BY <2>5 DEF Placed
<1> QED
  BY <1>2, <1>3

-----------------------------------------------------------------------------
(* Visits that end in the open block. *)
LEMMA UnitTemps == Temps(<<ImmUnit>>) = {}
<1>1. ImmUnit.k # "temp"
  BY DEF ImmUnit
<1> QED
  BY <1>1, TempsOf

LEMMA ComputeGood ==
    ASSUME IInv, Active, NEW a, Good(a), NEW i, Plain(i), i.dst = nextTemp,
           Temps(i.args) \subseteq Now(blocks, a, cur), Compute(i)
    PROVE  (\E e : Good(e))' /\ Returns
<1>1. /\ blocks' = Emit(blocks, cur, i) /\ nextTemp' = nextTemp + 1
      /\ lastValue' = <<TempRef(nextTemp)>>
      /\ ReturnFromVisit /\ cur' = cur /\ loopCap' = loopCap /\ UnchangedRest
  BY DEF Compute, loopVars, SetValue
<1>2. Sound(Fn, blocks, a, cur, stack, nextTemp) /\ i \in Instruction /\ i.to = <<>>
  BY DEF Good, Plain
<1>3. /\ Sound(Fn, blocks', a, cur, stack, nextTemp + 1)
      /\ Now(blocks', a, cur) = Now(blocks, a, cur) \cup {nextTemp}
  BY <1>1, <1>2, SoundEmit
<1>4. Temps(lastValue') = {nextTemp}
  <2>1. TempRef(nextTemp).k = "temp" /\ TempRef(nextTemp).v = nextTemp
    BY DEF TempRef
  <2> QED
    BY <1>1, <2>1, TempsOf
<1>5. Sound(Fn, blocks', a, cur', stack, nextTemp') /\ Temps(lastValue') \subseteq Now(blocks', a, cur')
  BY <1>1, <1>3, <1>4
<1> QED
  BY <1>1, <1>5, PopGood

LEMMA ComputingGood ==
    ASSUME IInv, NEW a, Good(a), VisitIdent \/ FinishUnary \/ FinishBinary \/ FinishCall
    PROVE  (\E e : Good(e))' /\ Returns
<1>1. ASSUME VisitIdent PROVE (\E e : Good(e))' /\ Returns
  <2> DEFINE i == LoadLocal(nextTemp, Node.sym)
  <2>1. Active
    BY <1>1, AtActive DEF VisitIdent
  <2>2. Plain(i)
    <3>1. Node.sym \in Symbols /\ nextTemp \in Nat /\ TakeValue \in Value
      BY <2>1, NodeTyped
    <3>2. <<>> \in Seq(Value) /\ "=" \in Texts
      BY DEF Texts
    <3> QED
      BY <3>1, <3>2, LoadTyped
  <2>3. i.dst = nextTemp /\ i.args = <<>>
    BY DEF LoadLocal, Instr
  <2>4. Compute(i)
    BY <1>1 DEF VisitIdent
  <2> HIDE DEF i
  <2>5. Temps(i.args) \subseteq Now(blocks, a, cur)
    BY <2>3, TempsOf
  <2> QED
    BY <2>1, <2>2, <2>3, <2>4, <2>5, ComputeGood
<1>2. ASSUME FinishUnary PROVE (\E e : Good(e))' /\ Returns
  <2> DEFINE i == UnOp(nextTemp, Node.sym.base, Operands[1])
  <2>1. Active /\ Node.kind = "unary" /\ Top.pc = Len(Kids)
    BY <1>2, AtActive DEF FinishUnary
  <2>2. Node.kind \in StraightLine
    BY <2>1 DEF StraightLine
  <2>3. Len(Kids) = 1
    BY <2>1, TopFacts DEF WellFormedNode, Node, Kids
  <2>4. Operands \in Seq(Value) /\ 1 \in 1..Len(Operands) /\ Operands[1] \in Value
    BY <2>1, <2>2, <2>3, OperandsTyped
  <2>5. Plain(i)
    <3>1. Node.sym.base \in Texts /\ Node.sym \in Symbols /\ nextTemp \in Nat /\ <<>> \in Seq(Value)
      BY <2>1, NodeTyped
    <3> QED
      BY <2>4, <3>1, UnOpTyped
  <2>6. i.dst = nextTemp /\ i.args = <<Operands[1]>>
    BY DEF UnOp, Instr
  <2>7. Compute(i)
    BY <1>2 DEF FinishUnary
  <2> HIDE DEF i
  <2>8. Temps(i.args) \subseteq Now(blocks, a, cur)
    BY <2>1, <2>4, <2>6, OperandsKnown, TempsElement
  <2> QED
    BY <2>1, <2>5, <2>6, <2>7, <2>8, ComputeGood
<1>3. ASSUME FinishBinary PROVE (\E e : Good(e))' /\ Returns
  <2> DEFINE i == BinOp(nextTemp, Node.sym.base, Operands[1], Operands[2])
  <2>1. Active /\ Node.kind = "binary" /\ Top.pc = Len(Kids)
    BY <1>3, AtActive DEF FinishBinary
  <2>2. Node.kind \in StraightLine
    BY <2>1 DEF StraightLine
  <2>3. Len(Kids) = 2
    BY <2>1, TopFacts DEF WellFormedNode, Node, Kids
  <2>4. /\ Operands \in Seq(Value) /\ 1 \in 1..Len(Operands) /\ 2 \in 1..Len(Operands)
        /\ Operands[1] \in Value /\ Operands[2] \in Value
    BY <2>1, <2>2, <2>3, OperandsTyped
  <2>5. Plain(i)
    <3>1. Node.sym.base \in Texts /\ nextTemp \in Nat
      BY <2>1, NodeTyped
    <3>2. Node.sym.base \in BinOps
      BY <2>1, TopFacts DEF WellFormedNode, Node, Kids
    <3> QED
      BY <2>4, <3>1, <3>2, BinOpTyped
  <2>6. i.dst = nextTemp /\ i.args = <<Operands[1], Operands[2]>>
    BY DEF BinOp, Instr
  <2>7. Compute(i)
    BY <1>3 DEF FinishBinary
  <2> HIDE DEF i
  <2>8. Temps(<<Operands[1]>>) \subseteq Now(blocks, a, cur)
    BY <2>1, <2>4, OperandsKnown, TempsElement
  <2>9. Temps(<<Operands[2]>>) \subseteq Now(blocks, a, cur)
    BY <2>1, <2>4, OperandsKnown, TempsElement
  <2>10. Temps(i.args) \subseteq Now(blocks, a, cur)
    BY <2>6, <2>8, <2>9, TempsOf
  <2> QED
    BY <2>1, <2>5, <2>6, <2>7, <2>10, ComputeGood
<1>4. ASSUME FinishCall PROVE (\E e : Good(e))' /\ Returns
  <2> DEFINE i == Call(nextTemp, Node.sym, Operands)
  <2>1. Active /\ Node.kind = "call" /\ Top.pc = Len(Kids)
    BY <1>4, AtActive DEF FinishCall
  <2>2. Node.kind \in StraightLine
    BY <2>1 DEF StraightLine
  <2>3. Operands \in Seq(Value)
    BY <2>1, <2>2, OperandsTyped
  <2>4. Plain(i)
    <3>1. Node.sym \in Symbols /\ nextTemp \in Nat /\ TakeValue \in Value /\ "=" \in Texts
      BY <2>1, NodeTyped DEF Texts
    <3> QED
      BY <2>3, <3>1, PlainTyped
  <2>5. i.dst = nextTemp /\ i.args = Operands
    BY DEF Call, Instr
  <2>6. Compute(i)
    BY <1>4 DEF FinishCall
  <2> HIDE DEF i
  <2>7. Temps(i.args) \subseteq Now(blocks, a, cur)
    BY <2>1, <2>5, OperandsKnown
  <2> QED
    BY <2>1, <2>4, <2>5, <2>6, <2>7, ComputeGood
<1> QED
  BY <1>1, <1>2, <1>3, <1>4

LEMMA LeafGood ==
    ASSUME IInv, NEW a, Good(a), VisitLiteral \/ FinishExprStmt \/ FinishBlock
    PROVE  (\E e : Good(e))' /\ Returns
<1>1. /\ Active /\ UnchangedRest /\ ReturnFromVisit /\ cur' = cur /\ blocks' = blocks
      /\ loopCap' = loopCap /\ nextTemp' = nextTemp
  BY AtActive DEF VisitLiteral, FinishExprStmt, FinishBlock, UnchangedFn, fnVars, loopVars
<1>2. Sound(Fn, blocks', a, cur', stack, nextTemp') /\ Now(blocks', a, cur') = Now(blocks, a, cur)
  BY <1>1 DEF Good
<1>3. Temps(lastValue') \subseteq Now(blocks, a, cur)
  <2>1. CASE VisitLiteral
    <3>1. Node.kind = "literal" /\ lastValue' = <<Node.val>>
      BY <2>1, AtActive DEF VisitLiteral, SetValue
    <3>2. Node.val.k # "temp"
      BY <1>1, <3>1, TopFacts DEF WellFormedNode, Node
    <3> QED
      BY <3>1, <3>2, TempsOf
  <2>2. CASE FinishExprStmt
    BY <2>2, TempsOf DEF FinishExprStmt
  <2>3. CASE FinishBlock
    <3>1. /\ Node.kind = "block" /\ Top.pc = Len(Kids)
          /\ lastValue' = IF Node.tail THEN lastValue ELSE <<ImmUnit>>
      BY <2>3, AtActive DEF FinishBlock
    <3>2. CASE Node.tail
      <4>1. Kids # <<>> /\ Kids \in Seq(Nat)
        BY <1>1, <3>1, <3>2, TopFacts DEF WellFormedNode, Node, Kids
      <4>2. Top.pc > 0
        BY <3>1, <4>1
      <4> QED
        BY <3>1, <3>2, <4>2 DEF Good
    <3>3. CASE ~Node.tail
      BY <3>1, <3>3, UnitTemps
    <3> QED
      BY <3>2, <3>3
  <2> QED
    BY <2>1, <2>2, <2>3
<1> QED
  BY <1>1, <1>2, <1>3, PopGood

LEMMA StoringGood ==
    ASSUME IInv, NEW a, Good(a), FinishUnitCall \/ FinishLet \/ FinishAssign \/ FinishReturn
    PROVE  (\E e : Good(e))' /\ Returns
<1>1. /\ Active /\ UnchangedRest /\ ReturnFromVisit /\ cur' = cur
      /\ loopCap' = loopCap /\ nextTemp' = nextTemp /\ Top.pc = Len(Kids)
      /\ Node.kind \in StraightLine /\ Node.kind \in {"call", "let", "assign", "return"}
  BY AtActive DEF FinishUnitCall, FinishLet, FinishAssign, FinishReturn, loopVars, StraightLine
<1>2. /\ Sound(Fn, blocks, a, cur, stack, nextTemp) /\ TypeOK /\ NoTemp \in Int
      /\ Node.sym \in Symbols /\ TakeValue \in Value /\ "=" \in Texts
      /\ Operands \in Seq(Value) /\ Temps(Operands) \subseteq Now(blocks, a, cur)
  BY <1>1, NodeTyped, OperandsTyped, OperandsKnown, SymbolsTyped, InvParts DEF Good, Texts
<1>3. ASSUME FinishUnitCall \/ FinishReturn PROVE (\E e : Good(e))' /\ Returns
  <2>1. PICK i \in {Call(NoTemp, Node.sym, Operands), Return(Operands)} : blocks' = Emit(blocks, cur, i)
    BY <1>3 DEF FinishUnitCall, FinishReturn
  <2>2. Call(NoTemp, Node.sym, Operands) \in Instruction /\ Call(NoTemp, Node.sym, Operands).to = <<>>
    BY <1>2, PlainTyped DEF Plain
  <2>3. Return(Operands) \in Instruction /\ Return(Operands).to = <<>>
    BY <1>2, ReturnTyped
  <2>4. i \in Instruction /\ i.to = <<>>
    BY <2>1, <2>2, <2>3
  <2>5. i.dst = NoTemp /\ i.args = Operands
    BY <2>1 DEF Call, Return, Instr
  <2>6. Sound(Fn, blocks', a, cur, stack, nextTemp) /\ lastValue' = <<ImmUnit>>
    BY <1>2, <1>3, <2>1, <2>4, <2>5, SoundEmit DEF FinishUnitCall, FinishReturn, SetValue
  <2>7. Sound(Fn, blocks', a, cur', stack, nextTemp') /\ Temps(lastValue') \subseteq Now(blocks', a, cur')
    BY <1>1, <2>6, UnitTemps
  <2> QED
    BY <1>1, <2>7, PopGood
<1>4. ASSUME FinishLet \/ FinishAssign PROVE (\E e : Good(e))' /\ Returns
  <2>1. /\ blocks' = Emit(blocks, cur, StoreLocal(Node.sym, TakeValue))
        /\ lastValue' = lastValue \/ lastValue' = <<TakeValue>>
        /\ Node.kind \in {"let", "assign"}
    BY <1>4, AtActive DEF FinishLet, FinishAssign, SetValue
  <2>2. Top.pc > 0
    <3>1. Len(Kids) = 1
      BY <1>1, <2>1, TopFacts DEF WellFormedNode, Node, Kids
    <3> QED
      BY <1>1, <3>1
  <2>3. Temps(<<TakeValue>>) \subseteq Now(blocks, a, cur) /\ Temps(lastValue) \subseteq Now(blocks, a, cur)
    BY <1>2, <2>2, ValueKnown DEF Good
  <2>4. /\ Sound(Fn, blocks', a, cur, stack, nextTemp) /\ Now(blocks', a, cur) = Now(blocks, a, cur)
    BY <1>2, <2>1, <2>3, SoundStore
  <2>5. Sound(Fn, blocks', a, cur', stack, nextTemp') /\ Temps(lastValue') \subseteq Now(blocks', a, cur')
    BY <1>1, <2>1, <2>3, <2>4
  <2> QED
    BY <1>1, <2>5, PopGood
<1> QED
  BY <1>3, <1>4

-----------------------------------------------------------------------------
(* Breaks and continues go to the labels of the innermost record inside a   *)
(* loop body.                                                               *)
LEMMA InnermostLoop ==
    ASSUME IInv, Active, loopStack # <<>>
    PROVE  \E m \in DOMAIN stack :
              /\ Inside(Fn, stack[m])
              /\ stack[m].head = Innermost.head /\ stack[m].labs = <<Innermost.exit>>
              /\ stack[m].slot = Innermost.slot
              /\ \A j \in DOMAIN stack : j > m => ~Inside(Fn, stack[j])
<1> DEFINE W(d) == Within(Fn, stack, d)
           n    == Len(loopStack)
           T    == {d \in 0..Len(stack) : Cardinality(W(d)) = n}
<1>1. /\ stack \in Seq(FrameType) /\ loopStack \in Seq(LoopContext)
      /\ LoopsMatch(Fn, stack, loopStack)
  BY InvParts
<1>2. Len(stack) \in Nat /\ DOMAIN stack = 1..Len(stack) /\ n \in Nat \ {0}
  BY <1>1
<1>3. n = Cardinality(W(Len(stack)))
  BY <1>1 DEF LoopsMatch
<1> HIDE DEF n
<1>4. Len(stack) \in T /\ T \subseteq Nat
  BY <1>2, <1>3
<1>5. PICK m \in T : \A k \in T : m <= k
  BY <1>4, Least
<1>6. m \in 0..Len(stack) /\ Cardinality(W(m)) = n
  BY <1>5
<1>7. m # 0
  <2>1. W(0) = {}
    BY DEF Within
  <2>2. Cardinality(W(0)) = 0
    BY <2>1, FS_EmptySet
  <2> QED
    BY <1>2, <1>6, <2>2
<1>8. m \in Nat \ {0} /\ m - 1 \in 0..Len(stack) /\ ~(m <= m - 1) /\ m \in 1..Len(stack)
  BY <1>2, <1>6, <1>7
<1>9. Inside(Fn, stack[m])
  <2>1. m - 1 \notin T
    BY <1>5, <1>8
  <2>2. W(m - 1) # W(m)
    BY <1>6, <1>8, <2>1
  <2> QED
    BY <1>8, <2>2, WithinNext
<1>10. m \in W(Len(stack))
  BY <1>8, <1>9 DEF Within
<1>11. CtxOf(stack[m], loopStack[n])
  BY <1>1, <1>6, <1>10 DEF LoopsMatch
<1>12. Innermost = loopStack[n]
  BY DEF Innermost, n
<1>13. /\ stack[m].head = Innermost.head /\ stack[m].labs = <<Innermost.exit>>
       /\ stack[m].slot = Innermost.slot
  BY <1>11, <1>12 DEF CtxOf
<1>14. \A j \in DOMAIN stack : j > m => ~Inside(Fn, stack[j])
  <2>1. W(m) \subseteq W(Len(stack)) /\ IsFiniteSet(W(Len(stack)))
    <3>1. \A j \in 1..m : j \in 1..Len(stack)
      BY <1>2, <1>8
    <3> QED
      BY <1>2, <3>1, WithinCount DEF Within
  <2>2. W(m) = W(Len(stack))
    BY <1>3, <1>6, <2>1, FS_Subset
  <2>3. \A j \in DOMAIN stack : j > m => j \notin 1..m /\ j \in 1..Len(stack)
    BY <1>2, <1>8
  <2> QED
    BY <2>2, <2>3 DEF Within
<1> QED
  BY <1>2, <1>8, <1>9, <1>13, <1>14

LEMMA InnermostAhead ==
    ASSUME IInv, Active, loopStack # <<>>
    PROVE  \E f \in DOMAIN stack :
              Innermost.exit \in Ahead(Fn, stack[f]) /\ Innermost.head \in Ahead(Fn, stack[f])
<1>1. PICK m \in DOMAIN stack :
          /\ Inside(Fn, stack[m])
          /\ stack[m].head = Innermost.head /\ stack[m].labs = <<Innermost.exit>>
  BY InnermostLoop
<1>2. Fn.nodes[stack[m].node].kind \in {"while", "loop"} /\ stack[m].pc > 0
  BY <1>1 DEF Inside
<1>3. Range(stack[m].labs) = {Innermost.exit}
  BY <1>1, Ranges
<1> QED
  BY <1>1, <1>2, <1>3 DEF Ahead

LEMMA InnermostKnown ==
    ASSUME IInv, Active, NEW a, Good(a), loopStack # <<>>
    PROVE  /\ Innermost.exit \in Labels(blocks) /\ a[Innermost.exit] \subseteq Now(blocks, a, cur)
           /\ Innermost.head \in Labels(blocks) /\ a[Innermost.head] \subseteq Now(blocks, a, cur)
BY InnermostTyped, InnermostAhead DEF Good, Sound, Held

LEMMA JumpInLoop ==
    ASSUME IInv, Active, Placed(Fn, stack), Node.kind \in {"break", "continue"}
    PROVE  loopStack # <<>>
<1> SUFFICES ASSUME loopStack = <<>> PROVE FALSE
  OBVIOUS
<1> DEFINE d == Len(stack)
<1>1. /\ LoopsMatch(Fn, stack, loopStack) /\ d \in DOMAIN stack /\ stack[d] = Top
      /\ stack \in Seq(FrameType) /\ TypeOK /\ status = "lowering"
  BY InvParts, TopFacts
<1>2. d \in Nat /\ DOMAIN stack = 1..d
  BY <1>1
<1>3. Cardinality(Within(Fn, stack, d)) = 0
  BY <1>1 DEF LoopsMatch
<1>4. Within(Fn, stack, d) = {}
  BY <1>2, <1>3, WithinCount, FS_EmptySet
<1>5. \A g \in 1..(d - 1) : ~Inside(Fn, stack[g])
  <2>1. \A g \in 1..(d - 1) : g \in 1..d
    BY <1>2
  <2> QED
    BY <1>4, <2>1 DEF Within
<1>6. ~Stray(Fn)[Top.node]
  BY <1>1, <1>5 DEF Placed
<1>7. /\ Fn.nodes \in Seq(AstNode) /\ \A n \in DOMAIN Fn.nodes : WellFormedNode(Fn, n)
      /\ Top.node \in DOMAIN Fn.nodes /\ Node = Fn.nodes[Top.node]
  BY <1>1, FnTyped, TopFacts DEF Node
<1> QED
  BY <1>6, <1>7, StrayNext

LEMMA JumpingGood ==
    ASSUME IInv, Placed(Fn, stack), NEW a, Good(a), BreakWithoutValue \/ VisitContinue
    PROVE  (\E e : Good(e))' /\ Returns
<1>1. /\ Active /\ UnchangedRest /\ ReturnFromVisit /\ cur' = cur
      /\ loopCap' = loopCap /\ nextTemp' = nextTemp /\ Node.kind \in {"break", "continue"}
  BY AtActive DEF BreakWithoutValue, VisitContinue, loopVars
<1>2. loopStack # <<>>
  BY <1>1, JumpInLoop
<1>3. PICK l \in {Innermost.exit, Innermost.head} : blocks' = JumpTo(blocks, cur, l)
  BY <1>2 DEF BreakWithoutValue, VisitContinue
<1>4. l \in Labels(blocks) /\ a[l] \subseteq Now(blocks, a, cur)
  BY <1>1, <1>2, <1>3, InnermostKnown
<1>5. Sound(Fn, blocks', a, cur, stack, nextTemp)
  BY <1>3, <1>4, SoundJump DEF Good
<1>6. lastValue' = <<ImmUnit>>
  BY <1>2 DEF BreakWithoutValue, VisitContinue, SetValue
<1>7. Sound(Fn, blocks', a, cur', stack, nextTemp') /\ Temps(lastValue') \subseteq Now(blocks', a, cur')
  BY <1>1, <1>5, <1>6, UnitTemps
<1> QED
  BY <1>1, <1>7, PopGood

LEMMA BreakStoreGood ==
    ASSUME IInv, NEW a, Good(a), BreakStore
    PROVE  (\E e : Good(e))' /\ Returns
<1> DEFINE st == Emit(blocks, cur, StoreLocal(LoopSlot(Innermost.slot), TakeValue))
<1>1. /\ Active /\ UnchangedRest /\ ReturnFromVisit /\ cur' = cur /\ At("break", 1)
      /\ loopCap' = loopCap /\ nextTemp' = nextTemp /\ Top.pc = 1
      /\ blocks' = JumpTo(st, cur, Innermost.exit) /\ lastValue' = <<ImmUnit>>
  BY AtActive DEF BreakStore, loopVars, SetValue
<1>2. loopStack # <<>>
  BY <1>1, BreakInLoop
<1>3. /\ LoopSlot(Innermost.slot) \in Symbols /\ TakeValue \in Value /\ TypeOK /\ Top.pc > 0
      /\ Sound(Fn, blocks, a, cur, stack, nextTemp)
  BY <1>1, <1>2, InnermostTyped, NodeTyped, SymbolsTyped, InvParts DEF Good
<1>4. Temps(<<TakeValue>>) \subseteq Now(blocks, a, cur)
  BY <1>3, ValueKnown
<1>5. /\ Sound(Fn, st, a, cur, stack, nextTemp) /\ Now(st, a, cur) = Now(blocks, a, cur)
      /\ Labels(st) = Labels(blocks)
  BY <1>3, <1>4, SoundStore
<1> HIDE DEF st
<1>6. Innermost.exit \in Labels(st) /\ a[Innermost.exit] \subseteq Now(st, a, cur)
  BY <1>1, <1>2, <1>5, InnermostKnown
<1>7. Sound(Fn, blocks', a, cur, stack, nextTemp)
  BY <1>1, <1>5, <1>6, SoundJump
<1>8. Sound(Fn, blocks', a, cur', stack, nextTemp') /\ Temps(lastValue') \subseteq Now(blocks', a, cur')
  BY <1>1, <1>7, UnitTemps
<1> QED
  BY <1>1, <1>8, PopGood

(* No loop was entered since the break bound its reference. *)
LEMMA ReferenceValid ==
    ASSUME IInv, Quiet(Fn, stack, loopCap), At("break", 1)
    PROVE  Top.cap = loopCap
<1>1. Active /\ Node.kind = "break" /\ Top.pc = 1
  BY AtActive
<1>2. Len(stack) \in DOMAIN stack /\ stack[Len(stack)] = Top
  BY <1>1, TopFacts, InvParts
<1>3. Breaking(Fn, Top)
  BY <1>1 DEF Breaking, Node
<1> QED
  BY <1>2, <1>3 DEF Quiet

-----------------------------------------------------------------------------
(* Visits that start in the open block. *)
LEMMA StartGood ==
    ASSUME IInv, Active, UnchangedRest, UnchangedFn, UNCHANGED <<lastValue, loopVars>>,
           NEW a, Good(a), NEW f \in FrameType, NEW k \in 1..Len(Kids), Accept(f, k),
           f.node = Top.node, f.labs = Top.labs, Node.kind \notin {"while", "loop"},
           Due(Node, Top.pc) = 0, Temps(f.vals) \subseteq Now(blocks, a, cur),
           Node.kind = "break" => f.cap = loopCap
    PROVE  (\E e : Good(e))' /\ Calls
<1> DEFINE K == Now(blocks, a, cur)
<1>1. blocks' = blocks /\ cur' = cur /\ nextTemp' = nextTemp /\ loopCap' = loopCap
  BY DEF UnchangedFn, fnVars, loopVars
<1>2. Sound(Fn, blocks', a, cur', stack, nextTemp') /\ Held(Fn, stack, K, a) /\ K \subseteq Now(blocks', a, cur')
  BY <1>1 DEF Good, Sound
<1>3. Top.labs = <<>>
  BY TopFacts
<1>4. Range(f.labs) = {}
  BY <1>3, Ranges
<1> HIDE DEF K
<1>5. Temps(f.vals) \subseteq K
  BY DEF K
<1> QED
  BY <1>1, <1>2, <1>4, <1>5, PushGood

LEMMA OperandGood ==
    ASSUME IInv, NEW a, Good(a), VisitOperand \/ VisitBlockItem \/ IfCondition \/ BreakValue
    PROVE  (\E e : Good(e))' /\ Calls
<1>1. Active /\ UnchangedRest /\ UnchangedFn /\ UNCHANGED <<lastValue, loopVars>>
  BY AtActive DEF VisitOperand, VisitBlockItem, IfCondition, BreakValue
<1>2. /\ Top \in FrameType /\ Top.vals \in Seq(Value) /\ TakeValue \in Value /\ TypeOK
      /\ Top.pc \in 0..Len(Kids) /\ Kids \in Seq(Nat) /\ loopCap \in Nat
      /\ Temps(Top.vals) \subseteq Now(blocks, a, cur)
  BY <1>1, TopFacts, NodeTyped, InvParts, ValsKnown DEF TypeOK
<1>3. ASSUME VisitOperand PROVE (\E e : Good(e))' /\ Calls
  <2> DEFINE vals == IF Top.pc = 0 THEN <<>> ELSE Append(Top.vals, TakeValue)
             f    == [Top EXCEPT !.vals = vals]
  <2>1. Node.kind \in StraightLine /\ Top.pc < Len(Kids) /\ Accept(f, Top.pc + 1)
    BY <1>3, AtActive DEF VisitOperand
  <2>2. /\ Node.kind \notin {"while", "loop"} /\ Node.kind # "break" /\ Due(Node, Top.pc) = 0
        /\ Top.pc + 1 \in 1..Len(Kids)
    <3>1. Node.kind \notin Control /\ Node.kind # "break"
      BY <2>1 DEF StraightLine, Control
    <3> QED
      BY <1>2, <2>1, <3>1, DueNothing DEF Control
  <2>3. vals \in Seq(Value) /\ Temps(vals) \subseteq Now(blocks, a, cur)
    <3>1. CASE Top.pc = 0
      BY <3>1, TempsOf
    <3>2. CASE Top.pc # 0
      <4>1. Top.pc > 0
        BY <1>2, <3>2
      <4>2. Temps(<<TakeValue>>) \subseteq Now(blocks, a, cur)
        BY <1>2, <4>1, ValueKnown
      <4>3. vals = Append(Top.vals, TakeValue)
        BY <3>2
      <4>4. /\ Append(Top.vals, TakeValue) \in Seq(Value)
            /\ Temps(Append(Top.vals, TakeValue)) = Temps(Top.vals) \cup Temps(<<TakeValue>>)
        BY <1>2, TempsOf
      <4> QED
        BY <1>2, <4>2, <4>3, <4>4
    <3> QED
      BY <3>1, <3>2
  <2> HIDE DEF vals
  <2>4. f \in FrameType /\ f.node = Top.node /\ f.labs = Top.labs /\ f.vals = vals
    BY <1>2, <2>3 DEF FrameType
  <2> HIDE DEF f
  <2>5. Temps(f.vals) \subseteq Now(blocks, a, cur)
    BY <2>3, <2>4
  <2> QED
    BY <1>1, <2>1, <2>2, <2>4, <2>5, StartGood
<1>4. ASSUME VisitBlockItem PROVE (\E e : Good(e))' /\ Calls
  <2>1. Node.kind = "block" /\ Top.pc < Len(Kids) /\ Accept(Top, Top.pc + 1)
    BY <1>4, AtActive DEF VisitBlockItem
  <2>2. Due(Node, Top.pc) = 0 /\ Top.pc + 1 \in 1..Len(Kids)
    BY <1>2, <2>1 DEF Due
  <2> QED
    BY <1>1, <1>2, <2>1, <2>2, StartGood
<1>5. ASSUME IfCondition PROVE (\E e : Good(e))' /\ Calls
  <2>1. Node.kind = "if" /\ Top.pc = 0 /\ Accept(Top, 1)
    BY <1>5, AtActive DEF IfCondition
  <2>2. Due(Node, Top.pc) = 0
    BY <2>1 DEF Due
  <2>3. Len(Kids) \in {2, 3}
    BY <1>1, <2>1, TopFacts DEF WellFormedNode, Node, Kids
  <2>4. 1 \in 1..Len(Kids)
    BY <2>3
  <2> QED
    BY <1>1, <1>2, <2>1, <2>2, <2>4, StartGood
<1>6. ASSUME BreakValue PROVE (\E e : Good(e))' /\ Calls
  <2> DEFINE f == [Top EXCEPT !.cap = loopCap]
  <2>1. Node.kind = "break" /\ Top.pc = 0 /\ Accept(f, 1) /\ Kids # <<>>
    BY <1>6, AtActive DEF BreakValue, BreakHasSlot
  <2>2. Due(Node, Top.pc) = 0
    BY <2>1 DEF Due
  <2>3. f \in FrameType /\ f.node = Top.node /\ f.labs = Top.labs /\ f.vals = Top.vals /\ f.cap = loopCap
    BY <1>2 DEF FrameType
  <2>4. 1 \in 1..Len(Kids)
    BY <1>2, <2>1
  <2> HIDE DEF f
  <2>5. Temps(f.vals) \subseteq Now(blocks, a, cur)
    BY <1>2, <2>3
  <2> QED
    BY <1>1, <2>1, <2>2, <2>3, <2>4, <2>5, StartGood
<1> QED
  BY <1>3, <1>4, <1>5, <1>6

-----------------------------------------------------------------------------
(* The blocks the visit on top goes on to. *)
LEMMA TopAhead ==
    ASSUME IInv, Active, NEW a, Good(a), NEW l \in Ahead(Fn, Top)
    PROVE  /\ Held(Fn, stack, a[l], a) /\ a[l] \subseteq Now(blocks, a, cur)
           /\ l \in Labels(blocks) /\ Temps(Top.vals) \subseteq a[l]
           /\ \A m \in Ahead(Fn, Top) : m \in DOMAIN a /\ m \in Labels(blocks) /\ a[m] = a[l]
<1>1. /\ stack \in Seq(FrameType) /\ stack # <<>> /\ stack[Len(stack)] = Top
      /\ Len(stack) \in DOMAIN stack
  BY InvParts, TopFacts
<1>2. /\ Held(Fn, stack, Now(blocks, a, cur), a) /\ Certified(Code(blocks), a)
      /\ blocks \in Seq(BasicBlock)
  BY DEF Good, Sound
<1>3. DOMAIN a = Labels(blocks)
  BY <1>2, CodeOf DEF Certified
<1>4. l \in Ahead(Fn, stack[Len(stack)])
  BY <1>1
<1>5. /\ Held(Fn, stack, a[l], a) /\ l \in DOMAIN a /\ a[l] \subseteq Now(blocks, a, cur)
      /\ \A m \in Ahead(Fn, stack[Len(stack)]) : m \in DOMAIN a /\ a[m] = a[l]
  BY <1>1, <1>2, <1>4, HeldAt
<1>6. Temps(Top.vals) \subseteq a[l]
  BY <1>1, <1>5 DEF Held
<1> QED
  BY <1>1, <1>3, <1>5, <1>6

LEMMA InAhead ==
    \A f :
        /\ \A l : f.labs = <<l>> => l \in Ahead(Fn, f)
        /\ \A l, m : f.labs = <<l, m>> => l \in Ahead(Fn, f) /\ m \in Ahead(Fn, f)
        /\ Fn.nodes[f.node].kind \in {"while", "loop"} /\ f.pc > 0 => f.head \in Ahead(Fn, f)
<1> TAKE f
<1>1. ASSUME NEW l, f.labs = <<l>> PROVE l \in Ahead(Fn, f)
  <2>1. Range(f.labs) = {l}
    BY <1>1, Ranges
  <2> QED
    BY <2>1 DEF Ahead
<1>2. ASSUME NEW l, NEW m, f.labs = <<l, m>> PROVE l \in Ahead(Fn, f) /\ m \in Ahead(Fn, f)
  <2>1. Range(f.labs) = {l, m}
    BY <1>2, Ranges
  <2> QED
    BY <2>1 DEF Ahead
<1>3. Fn.nodes[f.node].kind \in {"while", "loop"} /\ f.pc > 0 => f.head \in Ahead(Fn, f)
  BY DEF Ahead
<1> QED
  BY <1>1, <1>2, <1>3

LEMMA IfMergeGood ==
    ASSUME IInv, NEW a, Good(a), IfMerge
    PROVE  (\E e : Good(e))' /\ Returns
<1> DEFINE merge == Top.labs[1]
           st    == StoreResult(blocks, Top)
           bs    == FallThrough(st, merge)
<1>1. Active /\ Node.kind = "if" /\ Top.pc = Len(Kids)
  BY AtActive DEF IfMerge
<1>2. Len(Kids) \in {2, 3}
  BY <1>1, TopFacts DEF WellFormedNode, Node, Kids
<1>3. Len(Top.labs) = 1 /\ Top.labs \in Seq(Nat) /\ Top.pc > 0
  <2>1. Len(Top.labs) = Due(Node, Top.pc) /\ Top.labs \in Seq(Nat)
    BY <1>1, TopFacts
  <2>2. Due(Node, Top.pc) = 1 /\ Top.pc > 0
    <3>1. CASE Top.pc = 2
      BY <1>1, <3>1 DEF Due, Kids
    <3>2. CASE Top.pc = 3
      BY <1>1, <3>2 DEF Due
    <3> QED
      BY <1>1, <1>2, <3>1, <3>2
  <2> QED
    BY <2>1, <2>2
<1>4. Top.labs = <<merge>>
  BY <1>3
<1>5. merge \in Ahead(Fn, Top)
  BY <1>4, InAhead
<1>6. /\ LoadSlot(bs, merge, Top.slot # NoTemp, IfSlot(Top.slot))
      /\ cur' = merge /\ ReturnFromVisit /\ loopCap' = loopCap /\ UnchangedRest
  BY DEF IfMerge, loopVars
<1> HIDE DEF merge
<1>7. /\ Held(Fn, stack, a[merge], a) /\ a[merge] \subseteq Now(blocks, a, cur)
      /\ merge \in Labels(blocks)
  BY <1>1, <1>5, TopAhead
<1>8. /\ Sound(Fn, st, a, cur, stack, nextTemp) /\ Now(st, a, cur) = Now(blocks, a, cur)
      /\ Labels(st) = Labels(blocks)
  BY <1>1, <1>3, SoundResult
<1> HIDE DEF st
<1>9. Sound(Fn, bs, a, cur, stack, nextTemp) /\ Labels(bs) = Labels(blocks)
  BY <1>7, <1>8, SoundFall
<1> HIDE DEF bs
<1>10. Sound(Fn, bs, a, merge, stack, nextTemp)
  BY <1>7, <1>9, SoundAt
<1>11. IfSlot(Top.slot) \in Symbols
  BY <1>1, TopFacts, SymbolsTyped
<1>12. /\ Sound(Fn, blocks', a, cur', stack, nextTemp')
       /\ Temps(lastValue') \subseteq Now(blocks', a, cur')
  BY <1>6, <1>10, <1>11, SoundLoadSlot
<1> QED
  BY <1>1, <1>6, <1>12, PopGood

LEMMA LoopEndGood ==
    ASSUME IInv, NEW a, Good(a), WhileExit \/ LoopExit
    PROVE  (\E e : Good(e))' /\ Returns
<1> DEFINE exit == Top.labs[1]
           bs   == FallThrough(blocks, Top.head)
<1>1. Active /\ ((Node.kind = "while" /\ Top.pc = 2) \/ (Node.kind = "loop" /\ Top.pc = 1))
  BY AtActive DEF WhileExit, LoopExit
<1>2. Len(Top.labs) = 1 /\ Top.labs \in Seq(Nat) /\ Top.pc > 0
  <2>1. Len(Top.labs) = Due(Node, Top.pc) /\ Top.labs \in Seq(Nat)
    BY <1>1, TopFacts
  <2>2. Due(Node, Top.pc) = 1 /\ Top.pc > 0
    <3>1. CASE Node.kind = "while" /\ Top.pc = 2
      BY <3>1 DEF Due
    <3>2. CASE Node.kind = "loop" /\ Top.pc = 1
      BY <3>2 DEF Due
    <3> QED
      BY <1>1, <3>1, <3>2
  <2> QED
    BY <2>1, <2>2
<1>3. Top.labs = <<exit>>
  BY <1>2
<1>4. exit \in Ahead(Fn, Top) /\ Top.head \in Ahead(Fn, Top)
  BY <1>1, <1>2, <1>3, InAhead DEF Node
<1>5. cur' = exit /\ ReturnFromVisit /\ loopCap' = loopCap /\ UnchangedRest
  BY DEF WhileExit, LoopExit, PopLoop
<1>6. \/ blocks' = bs /\ nextTemp' = nextTemp /\ lastValue' = <<ImmUnit>>
      \/ LoadSlot(bs, exit, Top.slot # NoTemp, LoopSlot(Top.slot))
  BY DEF WhileExit, LoopExit, SetValue
<1> HIDE DEF exit
<1>7. Held(Fn, stack, a[exit], a) /\ exit \in Labels(blocks)
  BY <1>1, <1>4, TopAhead
<1>8. Top.head \in Labels(blocks) /\ a[Top.head] \subseteq Now(blocks, a, cur)
  BY <1>1, <1>4, TopAhead
<1>9. Sound(Fn, bs, a, cur, stack, nextTemp) /\ Labels(bs) = Labels(blocks)
  BY <1>8, SoundFall DEF Good
<1> HIDE DEF bs
<1>10. Sound(Fn, bs, a, exit, stack, nextTemp)
  BY <1>7, <1>9, SoundAt
<1>11. LoopSlot(Top.slot) \in Symbols
  BY <1>1, TopFacts, SymbolsTyped
<1>12. /\ Sound(Fn, blocks', a, cur', stack, nextTemp')
       /\ Temps(lastValue') \subseteq Now(blocks', a, cur')
  <2>1. CASE blocks' = bs /\ nextTemp' = nextTemp /\ lastValue' = <<ImmUnit>>
    BY <1>5, <1>10, <2>1, UnitTemps
  <2>2. CASE LoadSlot(bs, exit, Top.slot # NoTemp, LoopSlot(Top.slot))
    BY <1>5, <1>10, <1>11, <2>2, SoundLoadSlot
  <2> QED
    BY <1>6, <2>1, <2>2
<1> QED
  BY <1>1, <1>5, <1>12, PopGood

LEMMA IfElseGood ==
    ASSUME IInv, NEW a, Good(a), IfElse
    PROVE  (\E e : Good(e))' /\ Calls
<1> DEFINE else  == Top.labs[1]
           merge == Top.labs[2]
           f     == [Top EXCEPT !.labs = <<merge>>]
           st    == StoreResult(blocks, Top)
           bs    == FallThrough(st, merge)
<1>1. Active /\ Node.kind = "if" /\ Top.pc = 2 /\ Len(Kids) = 3 /\ Top.pc > 0
  BY AtActive DEF IfElse
<1>2. Len(Top.labs) = 2 /\ Top.labs \in Seq(Nat) /\ Top \in FrameType
  BY <1>1, TopFacts DEF Due, Kids
<1>3. Top.labs = <<else, merge>> /\ merge \in Nat
  BY <1>2
<1>4. blocks' = bs /\ cur' = else /\ Accept(f, 3) /\ nextTemp' = nextTemp /\ loopCap' = loopCap
      /\ UnchangedRest
  BY DEF IfElse, loopVars
<1>5. f \in FrameType /\ f.labs = <<merge>> /\ f.node = Top.node
  BY <1>2, <1>3, OneLabelLeft
<1>6. f.vals = Top.vals
  BY <1>2 DEF FrameType
<1> HIDE DEF f, else, merge
<1>7. else \in Ahead(Fn, Top) /\ merge \in Ahead(Fn, Top)
  BY <1>3, InAhead
<1>8. /\ Held(Fn, stack, a[else], a) /\ else \in Labels(blocks) /\ Temps(Top.vals) \subseteq a[else]
      /\ merge \in DOMAIN a /\ merge \in Labels(blocks) /\ a[merge] = a[else]
      /\ a[merge] \subseteq Now(blocks, a, cur)
  BY <1>1, <1>7, TopAhead
<1>9. /\ Sound(Fn, st, a, cur, stack, nextTemp) /\ Now(st, a, cur) = Now(blocks, a, cur)
      /\ Labels(st) = Labels(blocks)
  BY <1>1, SoundResult
<1> HIDE DEF st
<1>10. Sound(Fn, bs, a, cur, stack, nextTemp) /\ Labels(bs) = Labels(blocks)
  BY <1>8, <1>9, SoundFall
<1> HIDE DEF bs
<1>11. Sound(Fn, bs, a, else, stack, nextTemp) /\ a[else] \subseteq Now(bs, a, else)
  BY <1>8, <1>10, SoundAt
<1>12. Range(f.labs) = {merge}
  BY <1>5, Ranges
<1>13. 3 \in 1..Len(Kids) /\ Node.kind \notin {"while", "loop"} /\ Node.kind # "break"
  BY <1>1
<1>14. Temps(f.vals) \subseteq a[else] /\ \A l \in Range(f.labs) : l \in DOMAIN a /\ a[l] = a[else]
  BY <1>6, <1>8, <1>12
<1>15. /\ Sound(Fn, blocks', a, cur', stack, nextTemp') /\ a[else] \subseteq Now(blocks', a, cur')
  BY <1>4, <1>11
<1> QED
  BY <1>1, <1>4, <1>5, <1>8, <1>13, <1>14, <1>15, PushGood

-----------------------------------------------------------------------------
(* Visits that open new blocks: the new blocks expect what is known when    *)
(* they are allocated, and so does the visit's record.                      *)
LEMMA NoLabelsYet ==
    ASSUME IInv, Active, Due(Node, Top.pc) = 0
    PROVE  /\ Top.labs = <<>> /\ Top \in FrameType /\ Top.vals \in Seq(Value)
           /\ Len(blocks) \in Nat
<1>1. Len(Top.labs) = Due(Node, Top.pc) /\ Top.labs \in Seq(Nat) /\ Top \in FrameType
      /\ Top.vals \in Seq(Value) /\ blocks \in Seq(BasicBlock)
  BY TopFacts
<1> QED
  BY <1>1

(* The start of a visit in block Len(blocks) + 1, one of n new blocks. *)
LEMMA OpenGood ==
    ASSUME IInv, Active, UnchangedRest, NEW a, Good(a), NEW n \in 1..3, NEW e,
           NEW N, N = Now(blocks, a, cur),
           \A j \in 1..n : Len(blocks) + j \in DOMAIN e /\ e[Len(blocks) + j] = N,
           Sound(Fn, blocks', e, cur, stack, nextTemp'), Now(blocks', e, cur) = N,
           Len(blocks) + 1 \in Labels(blocks'), cur' = Len(blocks) + 1,
           NEW f \in FrameType, NEW k \in 1..Len(Kids), Accept(f, k),
           f.node = Top.node, f.vals = Top.vals,
           \A l \in Range(f.labs) : \E j \in 1..n : l = Len(blocks) + j,
           Node.kind \in {"while", "loop"} => f.head = Len(blocks) + 1,
           Node.kind # "break", Node.kind \notin {"while", "loop"} => loopCap' = loopCap
    PROVE  (\E g : Good(g))' /\ Calls
<1> DEFINE L == Len(blocks)
<1>1. 1 \in 1..n
  OBVIOUS
<1>2. e[L + 1] = N /\ L + 1 \in DOMAIN e
  BY <1>1
<1>3. Held(Fn, stack, N, e)
  BY DEF Sound
<1> HIDE DEF L
<1>4. Sound(Fn, blocks', e, L + 1, stack, nextTemp') /\ N \subseteq Now(blocks', e, L + 1)
  BY <1>2, <1>3, SoundAt DEF L
<1>5. Temps(f.vals) \subseteq N
  BY ValsKnown
<1>6. \A l \in Range(f.labs) : l \in DOMAIN e /\ e[l] = N
  OBVIOUS
<1>7. Node.kind \in {"while", "loop"} => f.head \in DOMAIN e /\ e[f.head] = N
  BY <1>2 DEF L
<1>8. Sound(Fn, blocks', e, cur', stack, nextTemp') /\ N \subseteq Now(blocks', e, cur')
  BY <1>4 DEF L
<1> QED
  BY <1>3, <1>5, <1>6, <1>7, <1>8, PushGood

LEMMA IfThenGood ==
    ASSUME IInv, NEW a, Good(a), IfThen
    PROVE  (\E e : Good(e))' /\ Calls
<1> DEFINE L    == Len(blocks)
           slot == IF HasResult(Node.ty) THEN nextTemp ELSE NoTemp
           n    == IF Len(Kids) = 3 THEN 3 ELSE 2
           bs   == AddBlocks(blocks, n)
           labs == IF Len(Kids) = 3 THEN <<L + 3, L + 2>> ELSE <<L + 2>>
           f    == [Top EXCEPT !.labs = labs, !.slot = slot]
<1>1. Active /\ Node.kind = "if" /\ Top.pc = 1 /\ Top.pc > 0
  BY AtActive DEF IfThen
<1>2. Len(Kids) \in {2, 3} /\ 2 \in 1..Len(Kids)
  <2>1. Len(Kids) \in {2, 3}
    BY <1>1, TopFacts DEF WellFormedNode, Node, Kids
  <2>2. CASE Len(Kids) = 2
    BY <2>2
  <2>3. CASE Len(Kids) = 3
    BY <2>3
  <2> QED
    BY <2>1, <2>2, <2>3
<1>3. Top.labs = <<>> /\ Top \in FrameType /\ L \in Nat
  <2>1. Due(Node, Top.pc) = 0
    BY <1>1 DEF Due
  <2> QED
    BY <1>1, <2>1, NoLabelsYet
<1>4. TakeValue \in Value /\ nextTemp \in Nat /\ slot \in Int /\ TypeOK
  BY <1>1, NodeTyped, SymbolsTyped, InvParts DEF TypeOK
<1>5. /\ UnchangedRest /\ loopCap' = loopCap /\ cur' = L + 1
      /\ blocks' = BranchTo(bs, cur, TakeValue, L + 1, L + n) /\ Accept(f, 2)
      /\ nextTemp' = nextTemp \/ nextTemp' = nextTemp + 1
  BY <1>2 DEF IfThen, loopVars
<1> HIDE DEF slot
<1>6. labs \in Seq(Nat) /\ \A l \in Range(labs) : \E j \in 1..n : l = L + j
  <2>1. CASE Len(Kids) = 3
    <3>1. labs = <<L + 3, L + 2>> /\ n = 3 /\ Range(<<L + 3, L + 2>>) = {L + 3, L + 2}
      BY <2>1, Ranges
    <3>2. <<L + 3, L + 2>> \in Seq(Nat)
      BY <1>3
    <3> QED
      BY <3>1, <3>2
  <2>2. CASE Len(Kids) = 2
    <3>1. labs = <<L + 2>> /\ n = 2 /\ Range(<<L + 2>>) = {L + 2}
      BY <2>2, Ranges
    <3>2. <<L + 2>> \in Seq(Nat)
      BY <1>3
    <3> QED
      BY <3>1, <3>2
  <2> QED
    BY <1>2, <2>1, <2>2
<1>7. n \in 1..3 /\ n \in Nat /\ 1 \in 1..n /\ n \in 1..n
  OBVIOUS
<1> HIDE DEF labs, n
<1>8. f \in FrameType /\ f.labs = labs /\ f.node = Top.node /\ f.vals = Top.vals
  BY <1>3, <1>4, <1>6 DEF FrameType
<1> HIDE DEF f
<1>9. Temps(<<TakeValue>>) \subseteq Now(blocks, a, cur)
  BY <1>1, <1>4, ValueKnown
<1>10. Sound(Fn, blocks, a, cur, stack, nextTemp)
  BY DEF Good
<1>grow. PICK e : Grown(Fn, blocks, a, cur, stack, nextTemp, n, e)
  BY <1>7, <1>10, SoundGrow
<1>11. /\ Sound(Fn, bs, e, cur, stack, nextTemp) /\ Now(bs, e, cur) = Now(blocks, a, cur)
       /\ \A j \in 1..n : L + j \in Labels(bs) /\ L + j \in DOMAIN e /\ e[L + j] = Now(blocks, a, cur)
  BY <1>grow DEF Grown
<1> HIDE DEF bs, L
<1>12. /\ Sound(Fn, blocks', e, cur, stack, nextTemp) /\ Now(blocks', e, cur) = Now(blocks, a, cur)
       /\ Labels(blocks') = Labels(bs)
  <2>1. /\ L + 1 \in Labels(bs) /\ e[L + 1] \subseteq Now(bs, e, cur)
        /\ L + n \in Labels(bs) /\ e[L + n] \subseteq Now(bs, e, cur)
        /\ Temps(<<TakeValue>>) \subseteq Now(bs, e, cur)
    BY <1>7, <1>9, <1>11
  <2> QED
    BY <1>4, <1>5, <1>11, <2>1, SoundBranch
<1>13. Sound(Fn, blocks', e, cur, stack, nextTemp')
  BY <1>5, <1>12, SoundFree
<1>14. L + 1 \in Labels(blocks')
  BY <1>7, <1>11, <1>12
<1>15. Node.kind # "break" /\ Node.kind \notin {"while", "loop"}
  BY <1>1
<1>16. \A l \in Range(f.labs) : \E j \in 1..n : l = L + j
  BY <1>6, <1>8
<1>17. \A j \in 1..n : L + j \in DOMAIN e /\ e[L + j] = Now(blocks, a, cur)
  BY <1>11
<1>18. n \in 1..3 /\ cur' = L + 1 /\ f \in FrameType /\ f.node = Top.node /\ f.vals = Top.vals
       /\ Now(blocks', e, cur) = Now(blocks, a, cur) /\ Accept(f, 2) /\ UnchangedRest
       /\ loopCap' = loopCap
  BY <1>5, <1>7, <1>8, <1>12
<1> QED
  BY <1>1, <1>2, <1>13, <1>14, <1>15, <1>16, <1>17, <1>18, OpenGood DEF L

LEMMA WhileHeaderGood ==
    ASSUME IInv, NEW a, Good(a), WhileHeader
    PROVE  (\E e : Good(e))' /\ Calls
<1> DEFINE L    == Len(blocks)
           bs   == AddBlocks(blocks, 3)
           labs == <<(L + 1) + 1, (L + 1) + 2>>
           f    == [Top EXCEPT !.labs = labs, !.head = L + 1]
           N    == Now(blocks, a, cur)
<1>1. Active /\ Node.kind = "while" /\ Top.pc = 0
  BY AtActive DEF WhileHeader
<1>2. 1 \in 1..Len(Kids)
  <2>1. Len(Kids) = 2
    BY <1>1, TopFacts DEF WellFormedNode, Node, Kids
  <2> QED
    BY <2>1
<1>3. Top.labs = <<>> /\ Top \in FrameType /\ L \in Nat
  <2>1. Due(Node, Top.pc) = 0
    BY <1>1 DEF Due
  <2> QED
    BY <1>1, <2>1, NoLabelsYet
<1>4. /\ UnchangedRest /\ nextTemp' = nextTemp
      /\ blocks' = JumpTo(bs, cur, L + 1) /\ cur' = L + 1 /\ Accept(f, 1)
  BY DEF WhileHeader
<1>5. labs \in Seq(Nat) /\ \A l \in Range(labs) : \E j \in 1..3 : l = L + j
  <2>1. Range(<<(L + 1) + 1, (L + 1) + 2>>) = {(L + 1) + 1, (L + 1) + 2}
    BY Ranges
  <2>2. (L + 1) + 1 = L + 2 /\ (L + 1) + 2 = L + 3 /\ 2 \in 1..3 /\ 3 \in 1..3 /\ L + 1 \in Nat
    BY <1>3
  <2>3. <<(L + 1) + 1, (L + 1) + 2>> \in Seq(Nat)
    BY <1>3
  <2> QED
    BY <2>1, <2>2, <2>3
<1>6. L + 1 \in Nat
  BY <1>3
<1> HIDE DEF labs, L
<1>7. f \in FrameType /\ f.labs = labs /\ f.node = Top.node /\ f.vals = Top.vals /\ f.head = L + 1
  BY <1>3, <1>5, <1>6 DEF FrameType
<1> HIDE DEF f
<1>8. Sound(Fn, blocks, a, cur, stack, nextTemp)
  BY DEF Good
<1>9. PICK e : Grown(Fn, blocks, a, cur, stack, nextTemp, 3, e)
  BY <1>8, SoundGrow
<1>10. /\ Sound(Fn, bs, e, cur, stack, nextTemp) /\ Now(bs, e, cur) = N
       /\ \A j \in 1..3 : L + j \in Labels(bs) /\ L + j \in DOMAIN e /\ e[L + j] = N
  BY <1>9 DEF Grown, L
<1> HIDE DEF bs, N
<1>11. L + 1 \in Labels(bs) /\ e[L + 1] \subseteq Now(bs, e, cur)
  <2>1. 1 \in 1..3
    OBVIOUS
  <2> QED
    BY <1>10, <2>1
<1>12. /\ Sound(Fn, blocks', e, cur, stack, nextTemp') /\ Now(blocks', e, cur) = N
       /\ L + 1 \in Labels(blocks')
  BY <1>4, <1>10, <1>11, SoundJump
<1>13. \A l \in Range(f.labs) : \E j \in 1..3 : l = L + j
  BY <1>5, <1>7
<1>14. \A j \in 1..3 : L + j \in DOMAIN e /\ e[L + j] = N
  BY <1>10
<1>15. N = Now(blocks, a, cur)
  BY DEF N
<1>16. Node.kind # "break" /\ Node.kind \in {"while", "loop"} /\ 3 \in 1..3
  BY <1>1
<1> QED
  BY <1>1, <1>2, <1>4, <1>7, <1>12, <1>13, <1>14, <1>15, <1>16, OpenGood DEF L

LEMMA LoopBodyGood ==
    ASSUME IInv, NEW a, Good(a), LoopBody
    PROVE  (\E e : Good(e))' /\ Calls
<1> DEFINE L    == Len(blocks)
           bs   == AddBlocks(blocks, 2)
           slot == IF HasResult(Node.ty) THEN nextTemp ELSE NoTemp
           labs == <<L + 2>>
           f    == [Top EXCEPT !.labs = labs, !.head = L + 1, !.slot = slot]
           N    == Now(blocks, a, cur)
<1>1. Active /\ Node.kind = "loop" /\ Top.pc = 0
  BY AtActive DEF LoopBody
<1>2. 1 \in 1..Len(Kids)
  <2>1. Len(Kids) = 1
    BY <1>1, TopFacts DEF WellFormedNode, Node, Kids
  <2> QED
    BY <2>1
<1>3. Top.labs = <<>> /\ Top \in FrameType /\ L \in Nat
  <2>1. Due(Node, Top.pc) = 0
    BY <1>1 DEF Due
  <2> QED
    BY <1>1, <2>1, NoLabelsYet
<1>4. nextTemp \in Nat /\ slot \in Int
  BY <1>1, NodeTyped, SymbolsTyped, InvParts DEF TypeOK
<1>5. /\ UnchangedRest /\ nextTemp' \in {nextTemp, nextTemp + 1}
      /\ blocks' = JumpTo(bs, cur, L + 1) /\ cur' = L + 1 /\ Accept(f, 1)
  BY DEF LoopBody
<1> HIDE DEF slot
<1>6. labs \in Seq(Nat) /\ \A l \in Range(labs) : \E j \in 1..2 : l = L + j
  <2>1. Range(<<L + 2>>) = {L + 2}
    BY Ranges
  <2>2. <<L + 2>> \in Seq(Nat) /\ 2 \in 1..2
    BY <1>3
  <2> QED
    BY <2>1, <2>2
<1>7. L + 1 \in Nat
  BY <1>3
<1> HIDE DEF labs, L
<1>8. f \in FrameType /\ f.labs = labs /\ f.node = Top.node /\ f.vals = Top.vals /\ f.head = L + 1
  BY <1>3, <1>4, <1>6, <1>7 DEF FrameType
<1> HIDE DEF f
<1>9. Sound(Fn, blocks, a, cur, stack, nextTemp)
  BY DEF Good
<1>10. PICK e : Grown(Fn, blocks, a, cur, stack, nextTemp, 2, e)
  BY <1>9, SoundGrow
<1>11. /\ Sound(Fn, bs, e, cur, stack, nextTemp) /\ Now(bs, e, cur) = N
       /\ \A j \in 1..2 : L + j \in Labels(bs) /\ L + j \in DOMAIN e /\ e[L + j] = N
  BY <1>10 DEF Grown, L
<1> HIDE DEF bs, N
<1>12. L + 1 \in Labels(bs) /\ e[L + 1] \subseteq Now(bs, e, cur)
  <2>1. 1 \in 1..2
    OBVIOUS
  <2> QED
    BY <1>11, <2>1
<1>13. /\ Sound(Fn, blocks', e, cur, stack, nextTemp) /\ Now(blocks', e, cur) = N
       /\ L + 1 \in Labels(blocks')
  BY <1>5, <1>11, <1>12, SoundJump
<1>14. Sound(Fn, blocks', e, cur, stack, nextTemp')
  BY <1>5, <1>13, SoundFree
<1>15. \A l \in Range(f.labs) : \E j \in 1..2 : l = L + j
  BY <1>6, <1>8
<1>16. \A j \in 1..2 : L + j \in DOMAIN e /\ e[L + j] = N
  BY <1>11
<1>17. N = Now(blocks, a, cur)
  BY DEF N
<1>18. Node.kind # "break" /\ Node.kind \in {"while", "loop"} /\ 2 \in 1..3
  BY <1>1
<1> QED
  BY <1>1, <1>2, <1>5, <1>8, <1>13, <1>14, <1>15, <1>16, <1>17, <1>18, OpenGood DEF L

LEMMA WhileBodyGood ==
    ASSUME IInv, NEW a, Good(a), WhileBody
    PROVE  (\E e : Good(e))' /\ Calls
<1> DEFINE body == Top.labs[1]
           exit == Top.labs[2]
           f    == [Top EXCEPT !.labs = <<exit>>]
<1>1. Active /\ Node.kind = "while" /\ Top.pc = 1 /\ Top.pc > 0
  BY AtActive DEF WhileBody
<1>2. Len(Top.labs) = 2 /\ Top.labs \in Seq(Nat) /\ Top \in FrameType
  BY <1>1, TopFacts DEF Due
<1>3. Top.labs = <<body, exit>> /\ exit \in Nat
  BY <1>2
<1>4. /\ UnchangedRest /\ nextTemp' = nextTemp /\ cur' = body /\ Accept(f, 2)
      /\ blocks' = BranchTo(blocks, cur, TakeValue, body, exit)
  BY DEF WhileBody
<1>5. f \in FrameType /\ f.labs = <<exit>> /\ f.node = Top.node
  BY <1>2, <1>3, OneLabelLeft
<1>6. f.vals = Top.vals /\ f.head = Top.head
  BY <1>2 DEF FrameType
<1> HIDE DEF f, body, exit
<1>7. body \in Ahead(Fn, Top) /\ exit \in Ahead(Fn, Top) /\ Top.head \in Ahead(Fn, Top)
  BY <1>1, <1>3, InAhead DEF Node
<1>8. /\ Held(Fn, stack, a[body], a) /\ body \in Labels(blocks) /\ Temps(Top.vals) \subseteq a[body]
      /\ a[body] \subseteq Now(blocks, a, cur)
      /\ exit \in DOMAIN a /\ exit \in Labels(blocks) /\ a[exit] = a[body]
      /\ Top.head \in DOMAIN a /\ a[Top.head] = a[body]
  BY <1>1, <1>7, TopAhead
<1>9. TakeValue \in Value /\ TypeOK /\ Sound(Fn, blocks, a, cur, stack, nextTemp)
  BY <1>1, NodeTyped, InvParts DEF Good
<1>10. Temps(<<TakeValue>>) \subseteq Now(blocks, a, cur)
  BY <1>1, <1>9, ValueKnown
<1>11. /\ Sound(Fn, blocks', a, cur, stack, nextTemp) /\ Labels(blocks') = Labels(blocks)
  BY <1>4, <1>8, <1>9, <1>10, SoundBranch
<1>12. Sound(Fn, blocks', a, cur', stack, nextTemp') /\ a[body] \subseteq Now(blocks', a, cur')
  BY <1>4, <1>8, <1>11, SoundAt
<1>13. Range(f.labs) = {exit}
  BY <1>5, Ranges
<1>14. Temps(f.vals) \subseteq a[body] /\ \A l \in Range(f.labs) : l \in DOMAIN a /\ a[l] = a[body]
  BY <1>6, <1>8, <1>13
<1>15. f.head \in DOMAIN a /\ a[f.head] = a[body] /\ Node.kind # "break" /\ Node.kind \in {"while", "loop"}
  BY <1>1, <1>6, <1>8
<1>16. 2 \in 1..Len(Kids)
  <2>1. Len(Kids) = 2
    BY <1>1, TopFacts DEF WellFormedNode, Node, Kids
  <2> QED
    BY <2>1
<1> QED
  BY <1>1, <1>4, <1>5, <1>8, <1>12, <1>14, <1>15, <1>16, PushGood

-----------------------------------------------------------------------------
(* Every step of a visit, of a function whose breaks can count on their     *)
(* references. *)
LEMMA VisitGood ==
    ASSUME IInv, VisitStep, ReferenceHolds(Fn), Quiet(Fn, stack, loopCap), Placed(Fn, stack),
           NEW a, Good(a)
    PROVE  /\ Active /\ UnchangedRest
           /\ (\E e : Good(e))' /\ Quiet(Fn, stack, loopCap)' /\ Placed(Fn, stack)'
<1>1. ~BreakGarbage /\ ~BreakDangling
  BY ReferenceValid DEF BreakGarbage, BreakDangling
<1>2. Active /\ UnchangedRest
  BY <1>1, VisitStepKind, StayStep, MoveStep
<1>3. (\E e : Good(e))' /\ (Returns \/ Calls)
  <2>1. CASE VisitIdent \/ FinishUnary \/ FinishBinary \/ FinishCall
    BY <2>1, ComputingGood
  <2>2. CASE VisitLiteral \/ FinishExprStmt \/ FinishBlock
    BY <2>2, LeafGood
  <2>3. CASE FinishUnitCall \/ FinishLet \/ FinishAssign \/ FinishReturn
    BY <2>3, StoringGood
  <2>4. CASE BreakWithoutValue \/ VisitContinue
    BY <2>4, JumpingGood
  <2>5. CASE BreakStore
    BY <2>5, BreakStoreGood
  <2>6. CASE VisitOperand \/ VisitBlockItem \/ IfCondition \/ BreakValue
    BY <2>6, OperandGood
  <2>7. CASE IfMerge
    BY <2>7, IfMergeGood
  <2>8. CASE WhileExit \/ LoopExit
    BY <2>8, LoopEndGood
  <2>9. CASE IfElse
    BY <2>9, IfElseGood
  <2>10. CASE IfThen
    BY <2>10, IfThenGood
  <2>11. CASE WhileHeader
    BY <2>11, WhileHeaderGood
  <2>12. CASE WhileBody
    BY <2>12, WhileBodyGood
  <2>13. CASE LoopBody
    BY <2>13, LoopBodyGood
  <2> QED
    BY <1>1, <2>1, <2>2, <2>3, <2>4, <2>5, <2>6, <2>7, <2>8, <2>9, <2>10, <2>11, <2>12, <2>13
       DEF VisitStep
<1>4. Quiet(Fn, stack', loopCap') /\ Placed(Fn, stack')
  BY <1>2, <1>3, QuietNext, PlacedNext
<1>5. Fn' = Fn
  BY <1>2, SameFn
<1> QED
  BY <1>2, <1>3, <1>4, <1>5

(* lower_fn before the body: the entry block loads the parameters.          *)
LEMMA EntrySound ==
    ASSUME NEW fn, NEW bs \in Seq(BasicBlock), Labels(bs) = {1}, NEW ps \in Seq(Symbols),
           bs[1].instrs = [i \in 1..Len(ps) |-> LoadLocal(i - 1, ps[i])],
           NEW g \in FrameType, g.pc = 0, g.vals = <<>>, g.labs = <<>>
    PROVE  Sound(fn, bs, <<{}>>, 1, <<g>>, Len(ps))
<1> DEFINE c == Code(bs)
           a == <<{}>>
           n == Len(ps)
           loads == [i \in 1..n |-> LoadLocal(i - 1, ps[i])]
<1>1. c \in Codes /\ DOMAIN c = {1} /\ c[1] = loads
  BY CodeOf
<1>2. n \in Nat /\ DOMAIN loads = 1..n /\ DOMAIN a = {1} /\ a[1] = {}
  OBVIOUS
<1>3. \A k \in 1..n : /\ loads[k].dst = k - 1 /\ loads[k].args = <<>> /\ loads[k].to = <<>>
                      /\ k - 1 \in 0..(n - 1)
  <2> TAKE k \in 1..n
  <2>1. loads[k] = LoadLocal(k - 1, ps[k])
    OBVIOUS
  <2>2. k - 1 \in 0..(n - 1)
    BY <1>2
  <2> HIDE DEF loads, n
  <2> QED
    BY <2>1, <2>2 DEF LoadLocal, Instr
<1> HIDE DEF c, loads, n, a
<1>4. \A k \in 1..n : Uses(loads[k]) = {} /\ Targets(loads[k]) = {}
  BY <1>3, UsesAre, TempsOf DEF Targets
<1>5. Certified(c, a)
  BY <1>1, <1>2, <1>4 DEF Certified
<1>6. Once(c, n)
  <2>1. \A k, j \in 1..n : loads[k].dst = loads[j].dst => k = j
    BY <1>2, <1>3
  <2> QED
    BY <1>1, <1>2, <1>3, <2>1 DEF Once
<1>7. Ahead(fn, g) = {} /\ Temps(g.vals) = {}
  BY Ranges, TempsOf DEF Ahead
<1>8. <<g>> \in Seq(FrameType) /\ DOMAIN <<g>> = {1} /\ <<g>>[1] = g
  OBVIOUS
<1>9. Held(fn, <<g>>, Now(bs, a, 1), a)
  BY <1>7, <1>8 DEF Held
<1> QED
  BY <1>2, <1>5, <1>6, <1>8, <1>9 DEF Sound, c, a, n

LEMMA BeginFnGood ==
    ASSUME IInv, BeginFn
    PROVE  (\E e : Good(e))' /\ Quiet(Fn, stack, loopCap)' /\ Placed(Fn, stack)'
<1>1. TypeOK /\ status = "idle" /\ MoreFns
  BY DEF IInv, BeginFn
<1>2. /\ Graph(<<Entry>>) /\ Labels(<<Entry>>) = {1}
      /\ Fn.params \in Seq(Symbols) /\ Fn.body \in Nat /\ Fn.body \in DOMAIN Fn.nodes
  BY <1>1, EntryGraph
<1> DEFINE g == Frame(Fn.body)
           bs == <<Entry>>
<1>3. /\ blocks' = bs /\ stack' = <<g>> /\ cur' = 1
      /\ nextTemp' = Len(Fn.params) /\ program' = program /\ module' = module
  BY DEF BeginFn, Entry
<1>4. Fn' = Fn
  BY <1>3 DEF Fn
<1>5. /\ g \in FrameType /\ g.node = Fn.body /\ g.pc = 0 /\ g.labs = <<>> /\ g.vals = <<>>
  BY <1>2, FrameTyped DEF Frame
<1>6. bs \in Seq(BasicBlock) /\ bs[1].instrs = [i \in 1..Len(Fn.params) |-> LoadLocal(i - 1, Fn.params[i])]
  <2>1. bs \in Seq(BasicBlock)
    BY <1>2 DEF Graph
  <2>2. bs[1] = Entry
    OBVIOUS
  <2> QED
    BY <2>1, <2>2 DEF Entry, EmptyBlock
<1> HIDE DEF g, bs
<1>7. Sound(Fn, bs, <<{}>>, 1, <<g>>, Len(Fn.params))
  BY <1>2, <1>5, <1>6, EntrySound DEF bs
<1>8. <<g>> # <<>> /\ Len(<<g>>) = 1 /\ <<g>>[1] = g /\ DOMAIN <<g>> = {1}
  OBVIOUS
<1>9. Good(<<{}>>)'
  BY <1>3, <1>4, <1>5, <1>7, <1>8 DEF Good, Top
<1>10. Quiet(Fn, stack, loopCap)'
  BY <1>3, <1>4, <1>5, <1>8 DEF Quiet, Breaking
<1>11. ~Stray(Fn)[Fn.body]
  <2>1. program \in Programs /\ program \in Seq(AstFn) /\ Len(module) \in Nat /\ Len(module) < Len(program)
    BY <1>1, ProgramAssumption DEF TypeOK, MoreFns
  <2>2. Len(module) + 1 \in DOMAIN program
    BY <2>1
  <2> QED
    BY <2>1, <2>2, ProgramAssumption DEF Fn
<1>12. Placed(Fn, stack)'
  BY <1>3, <1>4, <1>5, <1>8, <1>11 DEF Placed
<1> QED
  BY <1>9, <1>10, <1>12

(* lower_fn after the body: what is handed over.                            *)
Covered(fn) == \E a : Certified(Code(fn.blocks), a)
ValuesSound(fn) ==
    /\ Check!WrittenOnce(fn) /\ Check!DefinedInListOrder(fn) /\ Check!DefinedOnEveryPath(fn)
    /\ Covered(fn)

LEMMA EndFnGood ==
    ASSUME IInv, EndFn, NEW a, Good(a)
    PROVE  \E out \in Function : module' = Append(module, out) /\ ValuesSound(out)
<1> DEFINE vals == IF Fn.ret = "unit" THEN <<>> ELSE <<TakeValue>>
           ret == Return(vals)
           bs  == IF IsTerminated(blocks[cur]) THEN blocks ELSE Emit(blocks, cur, ret)
           out == [name |-> Fn.name, params |-> Fn.params,
                   blocks |-> bs, temps |-> nextTemp, locals |-> locals]
<1>1. TypeOK /\ status = "lowering" /\ stack = <<>> /\ module' = Append(module, out)
  BY DEF IInv, EndFn
<1>2. Sound(Fn, blocks, a, cur, stack, nextTemp)
  BY DEF Good
<1>3. Sound(Fn, bs, a, cur, stack, nextTemp)
  <2>1. CASE IsTerminated(blocks[cur])
    BY <1>2, <2>1
  <2>2. CASE ~IsTerminated(blocks[cur])
    <3>1. TakeValue \in Value /\ Temps(<<TakeValue>>) \subseteq Now(blocks, a, cur)
      BY <1>1, TakeValueTyped, ValueKnown
    <3>2. vals \in Seq(Value) /\ Temps(vals) \subseteq Now(blocks, a, cur)
      <4>1. <<>> \in Seq(Value) /\ <<TakeValue>> \in Seq(Value) /\ Temps(<<>>) = {}
        BY <3>1, TempsOf
      <4> HIDE DEF TakeValue
      <4> QED
        BY <3>1, <4>1
    <3> HIDE DEF vals
    <3>3. ret \in Instruction /\ ret.to = <<>>
      BY <3>2, ReturnTyped
    <3>4. ret.dst = NoTemp /\ ret.args = vals
      BY DEF Return, Instr
    <3>5. bs = Emit(blocks, cur, ret)
      BY <2>2
    <3> HIDE DEF ret, bs
    <3> QED
      BY <1>2, <3>2, <3>3, <3>4, <3>5, SoundEmit
  <2> QED
    BY <2>1, <2>2
<1> HIDE DEF bs
<1>4. bs \in Seq(BasicBlock) /\ Certified(Code(bs), a) /\ Once(Code(bs), nextTemp)
  BY <1>3 DEF Sound
<1>5. out \in Function /\ out.blocks = bs
  <2>1. Fn.name \in Symbols /\ Fn.params \in Seq(Symbols)
    BY <1>1, FnTyped DEF AstFn
  <2>2. nextTemp \in Nat /\ locals \in Seq(Symbols)
    BY <1>1 DEF TypeOK
  <2> QED
    BY <1>4, <2>1, <2>2 DEF Function
<1> HIDE DEF out
<1>6. Check!WrittenOnce(out)
  BY <1>4, <1>5, OnceWritten
<1>7. Check!DefinedInListOrder(out)
  BY <1>4, <1>5, CertifiedInListOrder
<1>8. Check!DefinedOnEveryPath(out)
  BY <1>4, <1>5, CertifiedOnEveryPath
<1> QED
  BY <1>1, <1>4, <1>5, <1>6, <1>7, <1>8 DEF ValuesSound, Covered

-----------------------------------------------------------------------------
(* The inductive invariant: the function under construction has a           *)
(* certificate, those handed over are as the later phases expect.           *)
UnderWay ==
    status = "lowering" /\ ReferenceHolds(Fn) =>
        Quiet(Fn, stack, loopCap) /\ Placed(Fn, stack) /\ \E a : Good(a)
HandedOver == \A f \in DOMAIN module : ReferenceHolds(program[f]) => ValuesSound(module[f])
VInv == IInv /\ UnderWay /\ HandedOver

LEMMA BeginFnValues ==
    ASSUME VInv, BeginFn
    PROVE  VInv'
<1>1. IInv /\ HandedOver
  BY DEF VInv
<1>2. IInv' /\ program' = program /\ module' = module
  BY <1>1, BeginFnInv DEF BeginFn
<1>3. UnderWay'
  BY <1>1, BeginFnGood DEF UnderWay
<1>4. HandedOver'
  BY <1>1, <1>2 DEF HandedOver
<1> QED
  BY <1>2, <1>3, <1>4 DEF VInv

LEMMA EndFnValues ==
    ASSUME VInv, EndFn
    PROVE  VInv'
<1>1. IInv /\ UnderWay /\ HandedOver /\ TypeOK
  BY DEF VInv, IInv
<1>2. IInv' /\ status = "lowering" /\ status' = "idle" /\ program' = program
  BY <1>1, EndFnInv DEF EndFn
<1>3. UnderWay'
  BY <1>2 DEF UnderWay
<1>4. PICK out : module' = Append(module, out) /\ (ReferenceHolds(Fn) => ValuesSound(out))
  <2>1. CASE ReferenceHolds(Fn)
    <3>1. PICK a : Good(a)
      BY <1>1, <1>2, <2>1 DEF UnderWay
    <3> QED
      BY <1>1, <3>1, EndFnGood
  <2>2. CASE ~ReferenceHolds(Fn)
    BY <2>2 DEF EndFn
  <2> QED
    BY <2>1, <2>2
<1>5. /\ DOMAIN module' = 1..(Len(module) + 1) /\ DOMAIN module = 1..Len(module)
      /\ \A f \in 1..Len(module) : module'[f] = module[f]
      /\ module'[Len(module) + 1] = out /\ Len(module) \in Nat
  BY <1>1, <1>4 DEF TypeOK
<1>6. ASSUME NEW f \in DOMAIN module', ReferenceHolds(program[f])
      PROVE  ValuesSound(module'[f])
  <2>1. CASE f = Len(module) + 1
    BY <1>4, <1>5, <1>6, <2>1 DEF Fn
  <2>2. CASE f # Len(module) + 1
    <3>1. f \in DOMAIN module /\ module'[f] = module[f]
      BY <1>5, <2>2
    <3> QED
      BY <1>1, <1>6, <3>1 DEF HandedOver
  <2> QED
    BY <2>1, <2>2
<1>7. HandedOver'
  BY <1>2, <1>6 DEF HandedOver
<1> QED
  BY <1>2, <1>3, <1>7 DEF VInv

LEMMA VisitValues ==
    ASSUME VInv, VisitStep
    PROVE  VInv'
<1>1. IInv /\ UnderWay /\ HandedOver
  BY DEF VInv
<1>2. IInv' /\ program' = program /\ module' = module /\ status = "lowering"
  <2>1. CASE BreakDangling
    BY <1>1, <2>1, BreakDanglingInv DEF BreakDangling
  <2>2. CASE StayPop \/ StayPush \/ MovePop \/ MovePush
    BY <1>1, <2>2, StayStep, MoveStep DEF UnchangedRest, Active
  <2> QED
    BY <1>1, <2>1, <2>2, VisitStepKind
<1>3. Fn' = Fn
  BY <1>2 DEF Fn
<1>4. HandedOver'
  BY <1>1, <1>2 DEF HandedOver
<1>5. UnderWay'
  <2> SUFFICES ASSUME ReferenceHolds(Fn)
               PROVE  Quiet(Fn, stack, loopCap)' /\ Placed(Fn, stack)' /\ (\E a : Good(a))'
    BY <1>3 DEF UnderWay
  <2>1. Quiet(Fn, stack, loopCap) /\ Placed(Fn, stack) /\ \E a : Good(a)
    BY <1>1, <1>2 DEF UnderWay
  <2>2. PICK a : Good(a)
    BY <2>1
  <2> QED
    BY <1>1, <2>1, <2>2, VisitGood
<1> QED
  BY <1>2, <1>4, <1>5 DEF VInv

LEMMA StutterValues ==
    ASSUME VInv, UNCHANGED vars
    PROVE  VInv'
<1>1. /\ program' = program /\ module' = module /\ status' = status
      /\ blocks' = blocks /\ cur' = cur /\ nextTemp' = nextTemp
      /\ stack' = stack /\ lastValue' = lastValue /\ loopCap' = loopCap
  BY DEF vars, fnVars, loopVars
<1>2. Fn' = Fn /\ Top' = Top
  BY <1>1 DEF Fn, Top
<1>3. (\E a : Good(a)) => (\E a : Good(a))'
  BY <1>1, <1>2 DEF Good
<1>4. UnderWay'
  BY <1>1, <1>2, <1>3 DEF VInv, UnderWay
<1>5. HandedOver'
  BY <1>1 DEF VInv, HandedOver
<1> QED
  BY <1>4, <1>5, StutterInv DEF VInv

LEMMA InitValues ==
    ASSUME Init
    PROVE  VInv
<1>1. IInv
  BY InitInv
<1>2. status = "idle" /\ module = <<>>
  BY DEF Init
<1> QED
  BY <1>1, <1>2 DEF VInv, UnderWay, HandedOver

LEMMA NextValues ==
    ASSUME VInv, Next
    PROVE  VInv'
BY BeginFnValues, EndFnValues, VisitValues DEF Next

(* VInv is an inductive invariant of the lowering of any set of programs.   *)
THEOREM ValuesInductive == Spec => []VInv
<1>1. VInv /\ [Next]_vars => VInv'
  BY NextValues, StutterValues
<1> QED
  BY <1>1, InitValues, PTL DEF Spec

(* IRDesign.md:55-56: in every lowered function each temporary is the       *)
(* destination of one instruction.                                          *)
THEOREM TempsAreWrittenOnce == Spec => []TempsWrittenOnce
<1>1. VInv => TempsWrittenOnce
  BY DEF VInv, HandedOver, ValuesSound, TempsWrittenOnce, Finished
<1> QED
  BY <1>1, ValuesInductive, PTL

(* The single sweep of constant folding over the block list (passes.cpp:    *)
(* 60-123) meets the definition of every temporary before its uses.         *)
THEOREM DefsAlwaysPrecedeUses == Spec => []DefsPrecedeUses
<1>1. VInv => DefsPrecedeUses
  BY DEF VInv, HandedOver, ValuesSound, DefsPrecedeUses, Finished
<1> QED
  BY <1>1, ValuesInductive, PTL

(* A temporary's stack slot (codegen.cpp) is written on every path from the *)
(* entry to an instruction that reads it and can be executed.               *)
THEOREM TempsAlwaysDefined == Spec => []TempsDefinedOnEveryPath
<1>1. VInv => TempsDefinedOnEveryPath
  BY DEF VInv, HandedOver, ValuesSound, TempsDefinedOnEveryPath, Finished
<1> QED
  BY <1>1, ValuesInductive, PTL

(* The claim of Architecture.md:146-149 that MCBreakContext refutes does    *)
(* hold, and lower() does not throw, as long as no value of a break         *)
(* contains a loop: the reference visit(BreakExpr) holds into loop_stack_   *)
(* across the value is valid when the value has been lowered.               *)
THEOREM ReferencesHold ==
    Spec => [](status = "lowering" /\ ReferenceHolds(Fn) => BreakContextValid)
<1>1. VInv /\ status = "lowering" /\ ReferenceHolds(Fn) => BreakContextValid
  BY ReferenceValid DEF VInv, UnderWay, BreakContextValid
<1> QED
  BY <1>1, ValuesInductive, PTL

=============================================================================
