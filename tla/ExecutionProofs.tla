-------------------------- MODULE ExecutionProofs --------------------------
(***************************************************************************)
(* The correctness of the frames codegen.cpp lays out and of the calls it  *)
(* emits, for every executable code, every input and any depth of calls:   *)
(* no activation ever writes into the slots, the saved rbp or the return   *)
(* address of another.                                                     *)
(***************************************************************************)
EXTENDS Execution, IRCheck, FiniteSetTheorems, WellFoundedInduction, NaturalsInduction, TLAPS

(* A claim comes first: first its block, then its place in it.             *)
LEMMA LeastNumber ==
    ASSUME NEW T, T \subseteq Nat, T # {}
    PROVE  \E m \in T : \A k \in T : m <= k
<1> DEFINE R == {ss \in Nat \X Nat : ss[1] < ss[2]}
<1>1. IsWellFoundedOn(R, Nat)
  BY NatLessThanWellFounded DEF OpToRel
<1>2. \E m \in T : \A k \in T : ~(<<k, m>> \in R)
  <2> HIDE DEF R
  <2> QED
    BY <1>1, WFMin
<1>3. ASSUME NEW k \in Nat, NEW m \in Nat, k < m PROVE <<k, m>> \in R
  BY <1>3
<1> HIDE DEF R
<1>4. PICK m \in T : \A k \in T : ~(<<k, m>> \in R)
  BY <1>2
<1>5. \A k \in T : ~(k < m)
  BY <1>3, <1>4
<1> QED
  BY <1>5

LEMMA EarliestOf ==
    ASSUME NEW P, P \subseteq Nat \X Nat, P # {}
    PROVE  \E p \in P : \A q \in P : ~Earlier(q, p)
<1> DEFINE T == {p[1] : p \in P}
<1>1. \A p \in P : p[1] \in Nat /\ p[2] \in Nat
  OBVIOUS
<1>2. T \subseteq Nat /\ T # {}
  BY <1>1
<1>3. PICK m \in T : \A k \in T : m <= k
  BY <1>2, LeastNumber
<1> DEFINE U == {p[2] : p \in {q \in P : q[1] = m}}
<1>4. U \subseteq Nat /\ U # {}
  BY <1>1
<1>5. PICK l \in U : \A k \in U : l <= k
  BY <1>4, LeastNumber
<1>6. PICK p \in P : p[1] = m /\ p[2] = l
  OBVIOUS
<1>7. ASSUME NEW q \in P PROVE ~Earlier(q, p)
  <2>1. m <= q[1] /\ (q[1] = m => l <= q[2])
    BY <1>3, <1>5
  <2>2. q[1] \in Nat /\ q[2] \in Nat /\ m \in Nat /\ l \in Nat
    BY <1>1, <1>2, <1>4
  <2> QED
    BY <1>6, <2>1, <2>2 DEF Earlier
<1> QED
  BY <1>7

(* Every name claimed gets a number of its own, from one on.               *)
Numbering(N, c) ==
    /\ c \in Nat
    /\ \A x \in DOMAIN N : N[x] \in 1..c
    /\ \A x, y \in DOMAIN N : x # y => N[x] # N[y]

LEMMA NumbersApart ==
    ASSUME NEW claims, DOMAIN claims \subseteq Nat \X Nat, IsFiniteSet(DOMAIN claims),
           claims = [p \in DOMAIN claims |-> claims[p]]
    PROVE  /\ DOMAIN SlotNumbers(claims) = Range(claims)
           /\ Numbering(SlotNumbers(claims), Cardinality(Range(claims)))
<1> DEFINE S     == Range(claims)
           first == [x \in S |-> FirstClaim(claims, x)]
           Up(x) == {y \in S : ~Earlier(first[x], first[y])}
           N     == SlotNumbers(claims)
<1>1. \A x \in S : first[x] \in DOMAIN claims /\ claims[first[x]] = x
  <2> SUFFICES ASSUME NEW x \in S
               PROVE  first[x] \in DOMAIN claims /\ claims[first[x]] = x
    OBVIOUS
  <2> DEFINE P == {p \in DOMAIN claims : claims[p] = x}
  <2>1. P \subseteq Nat \X Nat /\ P # {}
    BY DEF Range
  <2>2. \E p \in P : \A q \in P : ~Earlier(q, p)
    BY <2>1, EarliestOf
  <2>3. \E p \in DOMAIN claims :
           claims[p] = x /\ \A q \in DOMAIN claims : claims[q] = x => ~Earlier(q, p)
    BY <2>2
  <2>4. FirstClaim(claims, x) \in DOMAIN claims /\ claims[FirstClaim(claims, x)] = x
    BY <2>3 DEF FirstClaim
  <2> QED
    BY <2>4
<1>2. N = [x \in S |-> Cardinality(Up(x))]
  BY DEF SlotNumbers
<1>3. IsFiniteSet(S)
  <2>1. claims \in Surjection(DOMAIN claims, S)
    BY DEF Surjection, Range
  <2> QED
    BY <2>1, FS_Surjection
<1>4. \A x \in S : first[x] \in Nat \X Nat
  BY <1>1
<1> HIDE DEF first
<1>5. \A x \in S : Up(x) \in SUBSET S
  OBVIOUS
<1>6. \A x \in S : /\ IsFiniteSet(Up(x)) /\ Cardinality(Up(x)) <= Cardinality(S)
                   /\ Cardinality(Up(x)) \in Nat
  BY <1>3, <1>5, FS_Subset, FS_CardinalityType
<1>7. Cardinality(S) \in Nat
  BY <1>3, FS_CardinalityType
<1>8. \A x \in S : x \in Up(x)
  <2>1. \A p \in Nat \X Nat : ~Earlier(p, p)
    BY DEF Earlier
  <2> QED
    BY <1>4, <2>1
<1>9. \A x \in S : Cardinality(Up(x)) \in 1..Cardinality(S)
  <2>1. \A x \in S : Cardinality(Up(x)) # 0
    BY <1>6, <1>8, FS_EmptySet
  <2> HIDE DEF Up
  <2> QED
    BY <1>6, <1>7, <2>1
<1>10. ASSUME NEW x \in S, NEW y \in S, Earlier(first[x], first[y])
       PROVE  Cardinality(Up(x)) # Cardinality(Up(y))
  <2>1. first[x] \in Nat \X Nat /\ first[y] \in Nat \X Nat
    BY <1>4
  <2>2. ASSUME NEW z \in Up(x) PROVE z \in Up(y)
    <3>1. z \in S /\ ~Earlier(first[x], first[z]) /\ first[z] \in Nat \X Nat
      BY <1>4
    <3>2. ~Earlier(first[y], first[z])
      BY <1>10, <2>1, <3>1 DEF Earlier
    <3> QED
      BY <3>1, <3>2
  <2>3. Up(x) \in SUBSET Up(y)
    BY <2>2
  <2>4. y \notin Up(x)
    BY <1>10
  <2>5. y \in Up(y)
    BY <1>8
  <2> HIDE DEF Up
  <2> QED
    BY <2>3, <2>4, <2>5, <1>6, FS_Subset
<1>11. ASSUME NEW x \in S, NEW y \in S, x # y
       PROVE  Cardinality(Up(x)) # Cardinality(Up(y))
  <2>1. first[x] # first[y]
    BY <1>1, <1>11
  <2>2. Earlier(first[x], first[y]) \/ Earlier(first[y], first[x])
    <3>1. \A p, q \in Nat \X Nat : p # q => Earlier(p, q) \/ Earlier(q, p)
      BY DEF Earlier
    <3> QED
      BY <1>4, <2>1, <3>1
  <2> QED
    BY <1>10, <2>2
<1> HIDE DEF N, S, Up
<1>12. Numbering(N, Cardinality(S))
  BY <1>2, <1>7, <1>9, <1>11 DEF Numbering
<1>13. DOMAIN N = S
  BY <1>2
<1> QED
  BY <1>12, <1>13 DEF N, S

-----------------------------------------------------------------------------
(* The slots of a frame: eight bytes each, below the saved rbp and not      *)
(* below the end of the frame.                                              *)
WordsApart(m, n) == m + 8 <= n \/ n + 8 <= m
Sized(L) ==
    /\ L.size \in Nat
    /\ \A x \in DOMAIN L.vars : L.vars[x] \in Int /\ -L.size <= L.vars[x] /\ L.vars[x] <= -8
    /\ \A t \in DOMAIN L.temps : L.temps[t] \in Int /\ -L.size <= L.temps[t] /\ L.temps[t] <= -8
SlotsApart(L) ==
    /\ \A x, y \in DOMAIN L.vars : x # y => WordsApart(L.vars[x], L.vars[y])
    /\ \A t, u \in DOMAIN L.temps : t # u => WordsApart(L.temps[t], L.temps[u])
    /\ \A x \in DOMAIN L.vars : \A t \in DOMAIN L.temps : WordsApart(L.vars[x], L.temps[t])
(* Every name an instruction or a parameter has is given one.               *)
Provided(L, fn) ==
    /\ Range(fn.locals) \subseteq DOMAIN L.vars
    /\ \A p \in Places(fn) :
          /\ InstrAt(fn, p).tag \in {"load", "store"} => InstrAt(fn, p).sym \in DOMAIN L.vars
          /\ InstrAt(fn, p).dst # NoTemp => InstrAt(fn, p).dst \in DOMAIN L.temps

LEMMA FiniteSequence ==
    ASSUME NEW S, NEW s \in Seq(S)
    PROVE  IsFiniteSet(DOMAIN s) /\ DOMAIN s \subseteq Nat
<1>1. DOMAIN s = 1..Len(s) /\ Len(s) \in Nat
  OBVIOUS
<1> QED
  BY <1>1, FS_Interval

LEMMA PlacesOf ==
    ASSUME NEW fn \in Function
    PROVE  IsFiniteSet(Places(fn)) /\ Places(fn) \subseteq Nat \X Nat /\ \A p \in Places(fn) : p[1] # 0
<1> DEFINE B == DOMAIN fn.blocks
           row == [b \in B |-> {b} \X DOMAIN fn.blocks[b].instrs]
<1>1. fn.blocks \in Seq(BasicBlock)
  BY DEF Function
<1>2. B = 1..Len(fn.blocks) /\ Len(fn.blocks) \in Nat
  BY <1>1
<1>3. IsFiniteSet(B) /\ B \subseteq Nat /\ 0 \notin B
  BY <1>2, FS_Interval
<1>4. ASSUME NEW b \in B
      PROVE  IsFiniteSet(DOMAIN fn.blocks[b].instrs) /\ DOMAIN fn.blocks[b].instrs \subseteq Nat
  <2>1. fn.blocks[b] \in BasicBlock
    BY <1>1
  <2>2. fn.blocks[b].instrs \in Seq(Instruction)
    BY <2>1 DEF BasicBlock
  <2> QED
    BY <2>2, FiniteSequence
<1>5. \A b \in B : IsFiniteSet({b} \X DOMAIN fn.blocks[b].instrs)
  BY <1>4, FS_Singleton, FS_Product
<1>6. row \in Surjection(B, Range(row))
  BY DEF Surjection, Range
<1>7. IsFiniteSet(Range(row))
  BY <1>3, <1>6, FS_Surjection
<1>8. Places(fn) = UNION Range(row)
  BY DEF Places, Range
<1>9. \A T \in Range(row) : IsFiniteSet(T)
  BY <1>5 DEF Range
<1>10. IsFiniteSet(Places(fn))
  BY <1>7, <1>8, <1>9, FS_UNION
<1> QED
  BY <1>3, <1>4, <1>10 DEF Places

LEMMA ClaimsOf ==
    ASSUME NEW fn \in Function
    PROVE  \A c \in {VarClaims(fn), TempClaims(fn)} :
              /\ DOMAIN c \subseteq Nat \X Nat /\ IsFiniteSet(DOMAIN c)
              /\ c = [p \in DOMAIN c |-> c[p]]
<1> DEFINE V == ({0} \X DOMAIN fn.locals)
                \cup {q \in Places(fn) : InstrAt(fn, q).tag \in {"load", "store"}}
           T == {q \in Places(fn) : InstrAt(fn, q).dst # NoTemp}
<1>1. fn.locals \in Seq(Symbols)
  BY DEF Function
<1>2. IsFiniteSet(DOMAIN fn.locals) /\ DOMAIN fn.locals \subseteq Nat
  BY <1>1, FiniteSequence
<1>3. IsFiniteSet({0} \X DOMAIN fn.locals)
  BY <1>2, FS_Singleton, FS_Product
<1>4. /\ IsFiniteSet({q \in Places(fn) : InstrAt(fn, q).tag \in {"load", "store"}})
      /\ IsFiniteSet(T)
  BY PlacesOf, FS_Subset
<1>5. IsFiniteSet(V)
  BY <1>3, <1>4, FS_Union
<1>6. V \subseteq Nat \X Nat /\ T \subseteq Nat \X Nat
  BY <1>2, PlacesOf
<1>7. DOMAIN VarClaims(fn) = V /\ VarClaims(fn) = [p \in V |-> VarClaims(fn)[p]]
  BY DEF VarClaims
<1>8. DOMAIN TempClaims(fn) = T /\ TempClaims(fn) = [p \in T |-> TempClaims(fn)[p]]
  BY DEF TempClaims
<1> HIDE DEF V, T
<1> QED
  BY <1>4, <1>5, <1>6, <1>7, <1>8

(* build_frame gives every name a slot, no two the same or overlapping, and *)
(* a size that covers them.                                                 *)
LEMMA LayoutSound ==
    ASSUME NEW fn \in Function
    PROVE  Sized(Layout(fn)) /\ SlotsApart(Layout(fn)) /\ Provided(Layout(fn), fn)
<1> DEFINE V  == VarClaims(fn)
           T  == TempClaims(fn)
           v  == SlotNumbers(V)
           t  == SlotNumbers(T)
           nv == Cardinality(DOMAIN v)
           nt == Cardinality(DOMAIN t)
           L  == Layout(fn)
<1>1. /\ DOMAIN v = Range(V) /\ Numbering(v, nv)
      /\ DOMAIN t = Range(T) /\ Numbering(t, nt)
  BY ClaimsOf, NumbersApart
<1>2. /\ DOMAIN L.vars = DOMAIN v /\ \A x \in DOMAIN v : L.vars[x] = -8 * v[x]
      /\ DOMAIN L.temps = DOMAIN t /\ \A x \in DOMAIN t : L.temps[x] = -8 * (nv + t[x])
      /\ L.size = FrameSize(nv + nt)
  BY DEF Layout
<1> HIDE DEF v, t, nv, nt, L
<1>3. /\ nv \in Nat /\ nt \in Nat
      /\ \A x \in DOMAIN v : v[x] \in Nat /\ 1 <= v[x] /\ v[x] <= nv
      /\ \A x \in DOMAIN t : t[x] \in Nat /\ 1 <= t[x] /\ t[x] <= nt
      /\ \A x, y \in DOMAIN v : x # y => v[x] # v[y]
      /\ \A x, y \in DOMAIN t : x # y => t[x] # t[y]
  BY <1>1 DEF Numbering
<1>4. L.size \in Nat /\ L.size >= 8 * (nv + nt)
  BY <1>2, <1>3 DEF FrameSize
<1>5. Sized(L)
  <2>1. \A x \in DOMAIN v : -8 * v[x] \in Int /\ -8 * nv <= -8 * v[x] /\ -8 * v[x] <= -8
    BY <1>3
  <2>2. \A x \in DOMAIN t : /\ -8 * (nv + t[x]) \in Int /\ -8 * (nv + nt) <= -8 * (nv + t[x])
                            /\ -8 * (nv + t[x]) <= -8
    BY <1>3
  <2> QED
    BY <1>2, <1>3, <1>4, <2>1, <2>2 DEF Sized
<1>6. SlotsApart(L)
  <2>1. \A x, y \in DOMAIN v : x # y => WordsApart(-8 * v[x], -8 * v[y])
    BY <1>3 DEF WordsApart
  <2>2. \A x, y \in DOMAIN t : x # y => WordsApart(-8 * (nv + t[x]), -8 * (nv + t[y]))
    BY <1>3 DEF WordsApart
  <2>3. \A x \in DOMAIN v : \A y \in DOMAIN t : WordsApart(-8 * v[x], -8 * (nv + t[y]))
    BY <1>3 DEF WordsApart
  <2> QED
    BY <1>2, <2>1, <2>2, <2>3 DEF SlotsApart
<1>7. Provided(L, fn)
  <2>1. fn.locals \in Seq(Symbols)
    BY DEF Function
  <2>2. ASSUME NEW x \in Range(fn.locals) PROVE x \in Range(V)
    <3>1. PICK j \in DOMAIN fn.locals : fn.locals[j] = x
      BY DEF Range
    <3>2. <<0, j>> \in DOMAIN V /\ V[<<0, j>>] = x
      BY <3>1 DEF VarClaims
    <3> QED
      BY <3>2 DEF Range
  <2>3. ASSUME NEW p \in Places(fn), InstrAt(fn, p).tag \in {"load", "store"}
        PROVE  InstrAt(fn, p).sym \in Range(V)
    <3>1. p \in DOMAIN V /\ V[p] = InstrAt(fn, p).sym
      BY <2>3, PlacesOf DEF VarClaims
    <3> QED
      BY <3>1 DEF Range
  <2>4. ASSUME NEW p \in Places(fn), InstrAt(fn, p).dst # NoTemp
        PROVE  InstrAt(fn, p).dst \in Range(T)
    <3>1. p \in DOMAIN T /\ T[p] = InstrAt(fn, p).dst
      BY <2>4 DEF TempClaims
    <3> QED
      BY <3>1 DEF Range
  <2> QED
    BY <1>1, <1>2, <2>2, <2>3, <2>4 DEF Provided
<1> QED
  BY <1>5, <1>6, <1>7 DEF L

-----------------------------------------------------------------------------
(* The inductive invariant of the running program.                         *)
Laid == frames = [f \in DOMAIN module |-> Layout(module[f])]
Low(fs, a) == a.base - fs[a.f].size
Recorded(fs, cs, a) ==
    /\ a = [f |-> a.f, base |-> a.base, ret |-> a.ret, rbp |-> a.rbp,
            vars |-> a.vars, temps |-> a.temps]
    /\ a.f \in DOMAIN cs /\ a.base \in Int
    /\ DOMAIN a.vars \subseteq DOMAIN fs[a.f].vars
    /\ DOMAIN a.temps \subseteq DOMAIN fs[a.f].temps

InBlock(cs, p) ==
    /\ p = Place(p.f, p.b, p.k, p.stage)
    /\ p.f \in DOMAIN cs /\ p.b \in DOMAIN cs[p.f].blocks
    /\ p.k \in DOMAIN cs[p.f].blocks[p.b].instrs
BehindCall(cs, p, f) ==
    InBlock(cs, p) /\ p.f = f /\ p.stage = "back" /\ cs[p.f].blocks[p.b].instrs[p.k].tag = "call"

(* Callees lie below their callers, with the return address between.        *)
Nested ==
    \A d, e \in DOMAIN activations :
        d < e => activations[e].base + 16 <= Low(frames, activations[d])
Bottom(a) == a.base = -16 /\ a.rbp = 0 /\ a.ret = Start
Under(fs, cs, a, caller) ==
    a.base = Low(fs, caller) - 16 /\ a.rbp = caller.base /\ BehindCall(cs, a.ret, caller.f)
Linked ==
    \A d \in DOMAIN activations :
        IF d = 1 THEN Bottom(activations[d])
        ELSE Under(frames, module, activations[d], activations[d - 1])

Entering ==
    /\ pc = Place(pc.f, 1, 1, "enter") /\ pc.f \in DOMAIN module /\ rsp \in DOMAIN mem
    /\ IF activations = <<>> THEN rsp = -8 /\ rbp = 0 /\ mem[rsp].to = Start
       ELSE /\ rsp = Low(frames, Current) - 8 /\ rbp = Current.base
            /\ BehindCall(module, mem[rsp].to, Current.f)
Inside ==
    /\ activations # <<>> /\ InBlock(module, pc) /\ pc.f = Current.f
    /\ rbp = Current.base /\ rsp = Low(frames, Current)
Control ==
    \/ pc = Start /\ activations = <<>>
    \/ Entering
    \/ Inside /\ pc.stage = "at"
    \/ Inside /\ BehindCall(module, pc, Current.f)

NotLaunched == frames = <<>> /\ pc = Start /\ activations = <<>>
Stack == activations \in Seq(Range(activations))
Launched ==
    /\ Laid /\ Nested /\ Linked /\ Control /\ FramesIntact
    /\ \A d \in DOMAIN activations : Recorded(frames, module, activations[d])
XInv == Executable /\ Stack /\ (NotLaunched \/ Launched)

-----------------------------------------------------------------------------
(* Memory and the records of activations, without their variables.         *)
Held(m, a) == IF a \in DOMAIN m THEN m[a] ELSE Garbage
Intact(a, m, L) ==
    /\ \A x \in DOMAIN a.vars : Held(m, a.base + Offset(L.vars, x)).n = a.vars[x]
    /\ \A t \in DOMAIN a.temps : Held(m, a.base + Offset(L.temps, t)).n = a.temps[t]
    /\ Held(m, a.base).n = a.rbp /\ Held(m, a.base + 8).to = a.ret
Slotted(a, L) ==
    a.base \in Int /\ DOMAIN a.vars \subseteq DOMAIN L.vars /\ DOMAIN a.temps \subseteq DOMAIN L.temps

LEMMA IntactEach ==
    /\ FramesIntact <=> \A d \in DOMAIN activations :
                           Intact(activations[d], mem, frames[activations[d].f])
    /\ FramesIntact' <=> \A d \in DOMAIN activations' :
                            Intact(activations'[d], mem', frames'[activations'[d].f])
BY DEF FramesIntact, FrameIntact, Intact, Read, Held

LEMMA HeldWritten ==
    \A m, b, w, a : Held(Put(m, b, w), a) = IF a = b THEN w ELSE Held(m, a)
BY DEF Held, Put

LEMMA ReadIs == \A a : Read(a) = Held(mem, a)
BY DEF Read, Held

(* What happens outside of a frame leaves it intact.                        *)
LEMMA IntactKept ==
    ASSUME NEW a, NEW L, NEW m, NEW n, Sized(L), Slotted(a, L), Intact(a, m, L),
           \A w \in Int : a.base - L.size <= w /\ w <= a.base + 8 => Held(n, w) = Held(m, w)
    PROVE  Intact(a, n, L)
<1>1. a.base \in Int /\ L.size \in Nat
  BY DEF Slotted, Sized
<1>2. ASSUME NEW x \in DOMAIN a.vars
      PROVE  Held(n, a.base + Offset(L.vars, x)) = Held(m, a.base + Offset(L.vars, x))
  <2>1. x \in DOMAIN L.vars /\ L.vars[x] \in Int /\ -L.size <= L.vars[x] /\ L.vars[x] <= -8
    BY DEF Slotted, Sized
  <2> QED
    BY <1>1, <2>1 DEF Offset
<1>3. ASSUME NEW t \in DOMAIN a.temps
      PROVE  Held(n, a.base + Offset(L.temps, t)) = Held(m, a.base + Offset(L.temps, t))
  <2>1. t \in DOMAIN L.temps /\ L.temps[t] \in Int /\ -L.size <= L.temps[t] /\ L.temps[t] <= -8
    BY DEF Slotted, Sized
  <2> QED
    BY <1>1, <2>1 DEF Offset
<1>4. Held(n, a.base) = Held(m, a.base) /\ Held(n, a.base + 8) = Held(m, a.base + 8)
  BY <1>1
<1> QED
  BY <1>2, <1>3, <1>4 DEF Intact

(* A store to the slot of a variable, or of a temporary, changes what is    *)
(* held under that name only.                                               *)
WithVar(a, x, v)  == [a EXCEPT !.vars = Put(@, x, v)]
WithTemp(a, t, v) == [a EXCEPT !.temps = Put(@, t, v)]
Shaped(a) == a = [f |-> a.f, base |-> a.base, ret |-> a.ret, rbp |-> a.rbp,
                  vars |-> a.vars, temps |-> a.temps]

LEMMA PutIs ==
    \A g, x, v : /\ DOMAIN Put(g, x, v) = DOMAIN g \cup {x}
                 /\ \A y \in DOMAIN g \cup {x} : Put(g, x, v)[y] = IF y = x THEN v ELSE g[y]
                 /\ Put(g, x, v) = [y \in DOMAIN Put(g, x, v) |-> Put(g, x, v)[y]]
BY DEF Put

LEMMA WithShapes ==
    ASSUME NEW a, Shaped(a), NEW x, NEW v
    PROVE  /\ Shaped(WithVar(a, x, v)) /\ Shaped(WithTemp(a, x, v))
           /\ WithVar(a, x, v).f = a.f /\ WithVar(a, x, v).base = a.base
           /\ WithVar(a, x, v).ret = a.ret /\ WithVar(a, x, v).rbp = a.rbp
           /\ WithVar(a, x, v).temps = a.temps /\ WithVar(a, x, v).vars = Put(a.vars, x, v)
           /\ WithTemp(a, x, v).f = a.f /\ WithTemp(a, x, v).base = a.base
           /\ WithTemp(a, x, v).ret = a.ret /\ WithTemp(a, x, v).rbp = a.rbp
           /\ WithTemp(a, x, v).vars = a.vars /\ WithTemp(a, x, v).temps = Put(a.temps, x, v)
<1> DEFINE rec(vs, ts) == [f |-> a.f, base |-> a.base, ret |-> a.ret, rbp |-> a.rbp,
                           vars |-> vs, temps |-> ts]
<1>1. a = rec(a.vars, a.temps)
  BY DEF Shaped
<1>2. WithVar(a, x, v) = rec(Put(a.vars, x, v), a.temps)
  <2>1. \A s, t : [rec(s, t) EXCEPT !.vars = Put(@, x, v)] = rec(Put(s, x, v), t)
    OBVIOUS
  <2> QED
    BY <1>1, <2>1 DEF WithVar
<1>3. WithTemp(a, x, v) = rec(a.vars, Put(a.temps, x, v))
  <2>1. \A s, t : [rec(s, t) EXCEPT !.temps = Put(@, x, v)] = rec(s, Put(t, x, v))
    OBVIOUS
  <2> QED
    BY <1>1, <2>1 DEF WithTemp
<1> QED
  BY <1>2, <1>3 DEF Shaped

-----------------------------------------------------------------------------
(* The activation at hand, the code it is in and its frame.                *)
LEMMA SequenceOf ==
    ASSUME NEW S, NEW n \in Nat, NEW s \in [1..n -> S]
    PROVE  s \in Seq(S) /\ Len(s) = n /\ DOMAIN s = 1..n
OBVIOUS

LEMMA StackIs ==
    ASSUME Stack
    PROVE  /\ Len(activations) \in Nat /\ DOMAIN activations = 1..Len(activations)
           /\ activations = [d \in 1..Len(activations) |-> activations[d]]
           /\ activations # <<>> <=> Len(activations) \in DOMAIN activations
           /\ activations = <<>> <=> Len(activations) = 0
<1>1. activations \in Seq(Range(activations))
  BY DEF Stack
<1>2. /\ Len(activations) \in Nat /\ DOMAIN activations = 1..Len(activations)
      /\ activations = [d \in 1..Len(activations) |-> activations[d]]
  BY <1>1
<1>3. activations = <<>> <=> Len(activations) = 0
  BY <1>1
<1> QED
  BY <1>2, <1>3

LEMMA CodeIs ==
    ASSUME Executable, NEW f \in DOMAIN module
    PROVE  /\ module[f] \in Function
           /\ 1 \in DOMAIN module[f].blocks
           /\ \A b \in DOMAIN module[f].blocks :
                 /\ module[f].blocks[b].instrs \in Seq(Instruction)
                 /\ 1 \in DOMAIN module[f].blocks[b].instrs
                 /\ \A k \in DOMAIN module[f].blocks[b].instrs :
                       /\ module[f].blocks[b].instrs[k] \in Instruction
                       /\ <<b, k>> \in Places(module[f])
                       /\ InstrAt(module[f], <<b, k>>) = module[f].blocks[b].instrs[k]
                       /\ Targets(module[f].blocks[b].instrs[k]) \subseteq DOMAIN module[f].blocks
                       /\ module[f].blocks[b].instrs[k].tag \notin Terminators
                            => k + 1 \in DOMAIN module[f].blocks[b].instrs
<1>1. module[f] \in Function /\ module[f].blocks # <<>>
  BY DEF Executable
<1>2. module[f].blocks \in Seq(BasicBlock)
  BY <1>1 DEF Function
<1>3. 1 \in DOMAIN module[f].blocks
  BY <1>1, <1>2
<1>4. ASSUME NEW b \in DOMAIN module[f].blocks
      PROVE  /\ module[f].blocks[b].instrs \in Seq(Instruction)
             /\ IsTerminated(module[f].blocks[b]) /\ TargetsOf(module[f].blocks[b]) \subseteq DOMAIN module[f].blocks
  <2>1. module[f].blocks[b] \in BasicBlock
    BY <1>2
  <2>2. module[f].blocks[b].instrs \in Seq(Instruction)
    BY <2>1 DEF BasicBlock
  <2>3. /\ IsTerminated(module[f].blocks[b])
        /\ TargetsOf(module[f].blocks[b]) \subseteq DOMAIN module[f].blocks
    BY DEF Executable
  <2> QED
    BY <2>2, <2>3
<1>5. ASSUME NEW b \in DOMAIN module[f].blocks
      PROVE  1 \in DOMAIN module[f].blocks[b].instrs
  BY <1>4 DEF IsTerminated
<1>6. ASSUME NEW b \in DOMAIN module[f].blocks, NEW k \in DOMAIN module[f].blocks[b].instrs
      PROVE  /\ module[f].blocks[b].instrs[k] \in Instruction
             /\ Targets(module[f].blocks[b].instrs[k]) \subseteq DOMAIN module[f].blocks
             /\ module[f].blocks[b].instrs[k].tag \notin Terminators
                  => k + 1 \in DOMAIN module[f].blocks[b].instrs
  <2> DEFINE is == module[f].blocks[b].instrs
  <2>1. is \in Seq(Instruction) /\ is[Len(is)].tag \in Terminators /\ k \in 1..Len(is)
    BY <1>4 DEF IsTerminated
  <2>2. is[k] \in Range(is)
    BY DEF Range
  <2>3. Targets(is[k]) \subseteq DOMAIN module[f].blocks
    BY <1>4, <2>2 DEF TargetsOf
  <2>4. is[k].tag \notin Terminators => k # Len(is)
    BY <2>1
  <2> HIDE DEF is
  <2>5. is[k].tag \notin Terminators => k + 1 \in DOMAIN is
    BY <2>1, <2>4
  <2> QED
    BY <2>1, <2>3, <2>5 DEF is
<1>7. ASSUME NEW b \in DOMAIN module[f].blocks, NEW k \in DOMAIN module[f].blocks[b].instrs
      PROVE  /\ <<b, k>> \in Places(module[f])
             /\ InstrAt(module[f], <<b, k>>) = module[f].blocks[b].instrs[k]
  BY DEF Places, InstrAt
<1> QED
  BY <1>1, <1>3, <1>4, <1>5, <1>6, <1>7

LEMMA FrameIs ==
    ASSUME Executable, Laid, NEW f \in DOMAIN module
    PROVE  Sized(frames[f]) /\ SlotsApart(frames[f]) /\ Provided(frames[f], module[f])
<1>1. module[f] \in Function /\ frames[f] = Layout(module[f])
  BY CodeIs DEF Laid
<1> QED
  BY <1>1, LayoutSound

LEMMA RecordedIs ==
    ASSUME Executable, Launched, NEW d \in DOMAIN activations
    PROVE  LET a == activations[d]
           IN  /\ Shaped(a) /\ a.f \in DOMAIN module /\ Slotted(a, frames[a.f])
               /\ Sized(frames[a.f]) /\ Intact(a, mem, frames[a.f])
               /\ Low(frames, a) \in Int /\ Low(frames, a) <= a.base
<1> DEFINE a == activations[d]
<1>1. Recorded(frames, module, a) /\ Laid /\ FramesIntact
  BY DEF Launched
<1>2. Shaped(a) /\ a.f \in DOMAIN module /\ Slotted(a, frames[a.f])
  BY <1>1 DEF Recorded, Shaped, Slotted
<1>3. Sized(frames[a.f])
  BY <1>1, <1>2, FrameIs
<1>4. Intact(a, mem, frames[a.f])
  BY <1>1, IntactEach
<1>5. Low(frames, a) \in Int /\ Low(frames, a) <= a.base
  BY <1>2, <1>3 DEF Low, Slotted, Sized
<1> QED
  BY <1>2, <1>3, <1>4, <1>5

LEMMA InsideIs ==
    ASSUME Executable, Stack, Launched, Inside
    PROVE  /\ Len(activations) \in DOMAIN activations /\ Current.f \in DOMAIN module
           /\ ThisFn = module[pc.f] /\ pc.f = Current.f /\ Layout0 = frames[Current.f]
           /\ pc.b \in DOMAIN ThisFn.blocks /\ Instrs = ThisFn.blocks[pc.b].instrs
           /\ pc.k \in DOMAIN Instrs /\ Instr0 \in Instruction
           /\ Sized(Layout0) /\ SlotsApart(Layout0)
           /\ Instr0.tag \in {"load", "store"} => Instr0.sym \in DOMAIN Layout0.vars
           /\ Instr0.dst # NoTemp => Instr0.dst \in DOMAIN Layout0.temps
           /\ rbp = Current.base /\ rbp \in Int /\ rsp = rbp - Layout0.size /\ Low(frames, Current) = rsp
<1>1. Len(activations) \in DOMAIN activations
  BY StackIs DEF Inside
<1>2. /\ Current.f \in DOMAIN module /\ Sized(frames[Current.f]) /\ Current.base \in Int
  BY <1>1, RecordedIs DEF Current, Slotted
<1>3. InBlock(module, pc) /\ pc.f = Current.f /\ rbp = Current.base /\ rsp = Low(frames, Current)
  BY DEF Inside
<1>4. pc.b \in DOMAIN module[pc.f].blocks /\ pc.k \in DOMAIN module[pc.f].blocks[pc.b].instrs
  BY <1>3 DEF InBlock
<1>5. SlotsApart(frames[pc.f]) /\ Provided(frames[pc.f], module[pc.f])
  BY <1>2, <1>3, FrameIs DEF Launched
<1>6. /\ Instr0 \in Instruction /\ <<pc.b, pc.k>> \in Places(module[pc.f])
      /\ InstrAt(module[pc.f], <<pc.b, pc.k>>) = Instr0
  BY <1>2, <1>3, <1>4, CodeIs DEF Instr0, Instrs, ThisFn
<1>7. /\ Instr0.tag \in {"load", "store"} => Instr0.sym \in DOMAIN frames[pc.f].vars
      /\ Instr0.dst # NoTemp => Instr0.dst \in DOMAIN frames[pc.f].temps
  BY <1>5, <1>6 DEF Provided
<1>8. ThisFn = module[pc.f] /\ Layout0 = frames[pc.f] /\ Instrs = ThisFn.blocks[pc.b].instrs
  BY DEF ThisFn, Layout0, Instrs
<1>9. rsp = rbp - Layout0.size /\ Low(frames, Current) = rsp
  BY <1>3, <1>8 DEF Low
<1> QED
  BY <1>1, <1>2, <1>3, <1>4, <1>5, <1>6, <1>7, <1>8, <1>9

-----------------------------------------------------------------------------
(* The steps within a function.                                            *)
LEMMA StillKept ==
    ASSUME Launched, Control', UNCHANGED <<module, frames, mem, activations>>
    PROVE  Launched'
<1>1. Laid' /\ Nested' /\ FramesIntact'
  BY IntactEach DEF Launched, Laid, Nested, Low, FramesIntact
<1>2. Linked'
  BY DEF Launched, Linked, Low, BehindCall, InBlock
<1>3. \A d \in DOMAIN activations' : Recorded(frames', module', activations'[d])
  BY DEF Launched, Recorded
<1> QED
  BY <1>1, <1>2, <1>3 DEF Launched

(* The activation at hand is recorded as a2 and its frame written to; what  *)
(* is above stays.                                                          *)
LEMMA FrameWritten ==
    ASSUME Executable, Stack, Launched, Inside, UNCHANGED <<module, frames>>,
           NEW a2, activations' = [activations EXCEPT ![Len(activations)] = a2],
           Shaped(a2), a2.f = Current.f, a2.base = Current.base, a2.ret = Current.ret,
           a2.rbp = Current.rbp, Slotted(a2, Layout0), Intact(a2, mem', Layout0),
           \A w \in Int : w >= rbp => Held(mem', w) = Held(mem, w)
    PROVE  /\ Stack' /\ Laid' /\ Nested' /\ Linked' /\ FramesIntact'
           /\ \A d \in DOMAIN activations' : Recorded(frames', module', activations'[d])
           /\ Current' = a2 /\ Low(frames', a2) = Low(frames, Current) /\ activations' # <<>>
           /\ Len(activations') = Len(activations)
<1> DEFINE n == Len(activations)
<1>1. /\ n \in Nat /\ DOMAIN activations = 1..n /\ n \in DOMAIN activations
      /\ activations = [d \in 1..n |-> activations[d]] /\ Current = activations[n]
  BY StackIs DEF Inside, Current
<1>2. /\ activations' = [d \in 1..n |-> activations'[d]] /\ activations'[n] = a2
      /\ \A d \in 1..n : d # n => activations'[d] = activations[d]
  BY <1>1
<1>3. Stack' /\ Len(activations') = n /\ DOMAIN activations' = 1..n
  <2>1. activations' \in Seq(Range(activations')) /\ Len(activations') = n /\ DOMAIN activations' = 1..n
    <3>1. activations' \in [1..n -> Range(activations')]
      BY <1>2 DEF Range
    <3> QED
      BY <1>1, <3>1, SequenceOf
  <2> QED
    BY <2>1 DEF Stack
<1>4. Current' = a2 /\ activations' # <<>>
  BY <1>1, <1>2, <1>3 DEF Current
<1>5. \A d \in 1..n : /\ activations'[d].f = activations[d].f /\ activations'[d].base = activations[d].base
                      /\ activations'[d].ret = activations[d].ret
                      /\ activations'[d].rbp = activations[d].rbp
  BY <1>1, <1>2
<1>6. Laid'
  BY DEF Launched, Laid
<1>7. \A d \in 1..n : Low(frames', activations'[d]) = Low(frames, activations[d])
  BY <1>5 DEF Low
<1>8. Nested'
  BY <1>1, <1>3, <1>5, <1>7 DEF Launched, Nested
<1>9. \A d \in 1..n : \A e \in 1..n :
         /\ Bottom(activations[d]) => Bottom(activations'[d])
         /\ Under(frames, module, activations[d], activations[e])
              => Under(frames', module', activations'[d], activations'[e])
  BY <1>5, <1>7 DEF Bottom, Under
<1>10. Linked'
  <2>1. Linked
    BY DEF Launched
  <2>2. ASSUME NEW d \in 1..n
        PROVE  IF d = 1 THEN Bottom(activations'[d])
               ELSE Under(frames', module', activations'[d], activations'[d - 1])
    <3>1. d # 1 => d - 1 \in 1..n
      BY <1>1
    <3>2. IF d = 1 THEN Bottom(activations[d])
          ELSE Under(frames, module, activations[d], activations[d - 1])
      BY <1>1, <2>1 DEF Linked
    <3> QED
      BY <1>9, <3>1, <3>2
  <2> QED
    BY <1>3, <2>2 DEF Linked
<1>11. FramesIntact'
  <2> SUFFICES ASSUME NEW d \in 1..n
               PROVE  Intact(activations'[d], mem', frames'[activations'[d].f])
    BY <1>3, IntactEach
  <2>1. CASE d = n
    BY <1>2, <2>1, InsideIs
  <2>2. CASE d # n
    <3>1. /\ Sized(frames[activations[d].f]) /\ Slotted(activations[d], frames[activations[d].f])
          /\ Intact(activations[d], mem, frames[activations[d].f])
      BY <1>1, RecordedIs
    <3>2. activations[n].base + 16 <= Low(frames, activations[d])
      BY <1>1, <2>2 DEF Launched, Nested
    <3>3. /\ activations[n].base = rbp /\ rbp \in Int
          /\ Low(frames, activations[d]) = activations[d].base - frames[activations[d].f].size
      BY <1>1, InsideIs DEF Low
    <3>4. activations[d].base \in Int /\ frames[activations[d].f].size \in Nat
      BY <3>1 DEF Slotted, Sized
    <3>5. \A w \in Int : activations[d].base - frames[activations[d].f].size <= w => w >= rbp
      BY <3>2, <3>3, <3>4
    <3>6. Intact(activations[d], mem', frames[activations[d].f])
      BY <3>1, <3>5, IntactKept
    <3> QED
      BY <1>2, <2>2, <3>6
  <2> QED
    BY <2>1, <2>2
<1>12. \A d \in DOMAIN activations' : Recorded(frames', module', activations'[d])
  <2> SUFFICES ASSUME NEW d \in 1..n PROVE Recorded(frames', module', activations'[d])
    BY <1>3
  <2>1. CASE d = n
    BY <1>2, <2>1, InsideIs DEF Recorded, Shaped, Slotted
  <2>2. CASE d # n
    <3>1. Recorded(frames, module, activations[d])
      BY <1>1 DEF Launched
    <3> QED
      BY <1>2, <2>2, <3>1 DEF Recorded
  <2> QED
    BY <2>1, <2>2
<1>13. Low(frames', a2) = Low(frames, Current)
  BY DEF Low
<1> QED
  BY <1>3, <1>4, <1>6, <1>8, <1>10, <1>11, <1>12, <1>13

(* A store to the slot of a variable or of a temporary, by its name.        *)
SameActivation ==
    /\ Current'.f = Current.f /\ Current'.base = Current.base
    /\ Low(frames', Current') = Low(frames, Current) /\ activations' # <<>>
    /\ Len(activations') = Len(activations)
RecordsKept ==
    /\ Stack' /\ Laid' /\ Nested' /\ Linked' /\ FramesIntact'
    /\ \A d \in DOMAIN activations' : Recorded(frames', module', activations'[d])

LEMMA VarStored ==
    ASSUME Executable, Stack, Launched, Inside, UNCHANGED <<module, frames>>,
           NEW x \in DOMAIN Layout0.vars, NEW v, mem' = Written(VarAddress(x), Word(v)),
           RememberVar(x, v)
    PROVE  RecordsKept /\ SameActivation
<1> DEFINE L == Layout0
<1>1. PICK a : a = Current
  OBVIOUS
<1>2. PICK a2 : a2 = WithVar(a, x, v)
  OBVIOUS
<1>3. /\ Shaped(a) /\ Slotted(a, L) /\ Intact(a, mem, L) /\ Sized(L) /\ SlotsApart(L)
      /\ rbp = a.base /\ rbp \in Int
  BY <1>1, InsideIs, RecordedIs DEF Current
<1>4. /\ Shaped(a2) /\ a2.f = a.f /\ a2.base = a.base /\ a2.ret = a.ret /\ a2.rbp = a.rbp
      /\ a2.temps = a.temps /\ a2.vars = Put(a.vars, x, v)
  BY <1>2, <1>3, WithShapes
<1>5. activations' = [activations EXCEPT ![Len(activations)] = a2]
  BY <1>1, <1>2 DEF RememberVar, WithVar, Current
<1>5a. /\ DOMAIN a2.vars = DOMAIN a.vars \cup {x}
       /\ \A y \in DOMAIN a2.vars : a2.vars[y] = IF y = x THEN v ELSE a.vars[y]
  <2> DEFINE g == a.vars
  <2>1. a2.vars = Put(g, x, v)
    BY <1>4
  <2> HIDE DEF g
  <2>2. /\ DOMAIN a2.vars = DOMAIN g \cup {x}
        /\ \A y \in DOMAIN a2.vars : a2.vars[y] = IF y = x THEN v ELSE g[y]
    BY <2>1 DEF Put
  <2> QED
    BY <2>2 DEF g
<1>6. Slotted(a2, L)
  <2>1. DOMAIN a2.vars \subseteq DOMAIN L.vars
    BY <1>3, <1>5a DEF Slotted
  <2>2. a2.base \in Int /\ DOMAIN a2.temps \subseteq DOMAIN L.temps
    BY <1>3, <1>4 DEF Slotted
  <2> QED
    BY <2>1, <2>2 DEF Slotted
<1> HIDE DEF L
<1>7. x \in DOMAIN L.vars /\ L.vars[x] \in Int /\ L.vars[x] <= -8
  BY <1>3 DEF Sized, L
<1>8. \A w : Held(mem', w) = IF w = a.base + L.vars[x] THEN Word(v) ELSE Held(mem, w)
  <2>1. mem' = Put(mem, a.base + L.vars[x], Word(v))
    BY <1>3, <1>7 DEF Written, VarAddress, Offset, L
  <2> QED
    BY <2>1, HeldWritten
<1>9. Intact(a2, mem', L)
  <2>1. ASSUME NEW y \in DOMAIN a2.vars
        PROVE  Held(mem', a2.base + Offset(L.vars, y)).n = a2.vars[y]
    <3>1. y \in DOMAIN L.vars /\ L.vars[y] \in Int /\ Offset(L.vars, y) = L.vars[y]
      BY <1>3, <1>6 DEF Slotted, Sized, Offset
    <3>2. CASE y = x
      <4>1. a2.vars[y] = v
        BY <1>5a, <3>2
      <4>2. Held(mem', a2.base + Offset(L.vars, y)) = Word(v)
        BY <1>4, <1>8, <3>1, <3>2
      <4> QED
        BY <4>1, <4>2 DEF Word
    <3>3. CASE y # x
      <4>1. y \in DOMAIN a.vars /\ a2.vars[y] = a.vars[y]
        BY <1>5a, <3>3
      <4>2. WordsApart(L.vars[y], L.vars[x])
        BY <1>3, <1>7, <3>1, <3>3 DEF SlotsApart
      <4>3. a.base + L.vars[y] # a.base + L.vars[x]
        BY <1>3, <1>7, <3>1, <4>2 DEF WordsApart
      <4>4. Held(mem', a2.base + Offset(L.vars, y)) = Held(mem, a.base + Offset(L.vars, y))
        BY <1>4, <1>8, <3>1, <4>3
      <4> QED
        BY <1>3, <4>1, <4>4 DEF Intact
    <3> QED
      BY <3>2, <3>3
  <2>2. ASSUME NEW t \in DOMAIN a2.temps
        PROVE  Held(mem', a2.base + Offset(L.temps, t)).n = a2.temps[t]
    <3>1. t \in DOMAIN L.temps /\ L.temps[t] \in Int /\ Offset(L.temps, t) = L.temps[t]
      BY <1>3, <1>6 DEF Slotted, Sized, Offset
    <3>2. WordsApart(L.vars[x], L.temps[t])
      BY <1>3, <1>7, <3>1 DEF SlotsApart
    <3>3. a.base + L.temps[t] # a.base + L.vars[x]
      BY <1>3, <1>7, <3>1, <3>2 DEF WordsApart
    <3>4. Held(mem', a2.base + Offset(L.temps, t)) = Held(mem, a.base + Offset(L.temps, t))
      BY <1>4, <1>8, <3>1, <3>3
    <3> QED
      BY <1>3, <1>4, <3>4 DEF Intact
  <2>3. Held(mem', a2.base) = Held(mem, a.base) /\ Held(mem', a2.base + 8) = Held(mem, a.base + 8)
    BY <1>3, <1>4, <1>7, <1>8
  <2> QED
    BY <1>3, <1>4, <2>1, <2>2, <2>3 DEF Intact
<1>10. \A w \in Int : w >= rbp => Held(mem', w) = Held(mem, w)
  BY <1>3, <1>7, <1>8
<1>11. RecordsKept /\ Current' = a2 /\ Low(frames', a2) = Low(frames, Current)
       /\ activations' # <<>> /\ Len(activations') = Len(activations)
  BY <1>1, <1>4, <1>5, <1>6, <1>9, <1>10, FrameWritten DEF RecordsKept, L
<1> QED
  BY <1>1, <1>4, <1>11 DEF SameActivation

LEMMA TempStored ==
    ASSUME Executable, Stack, Launched, Inside, UNCHANGED <<module, frames>>,
           NEW u \in DOMAIN Layout0.temps, NEW v, mem' = Written(TempAddress(u), Word(v)),
           RememberTemp(u, v)
    PROVE  RecordsKept /\ SameActivation
<1> DEFINE L == Layout0
<1>1. PICK a : a = Current
  OBVIOUS
<1>2. PICK a2 : a2 = WithTemp(a, u, v)
  OBVIOUS
<1>3. /\ Shaped(a) /\ Slotted(a, L) /\ Intact(a, mem, L) /\ Sized(L) /\ SlotsApart(L)
      /\ rbp = a.base /\ rbp \in Int
  BY <1>1, InsideIs, RecordedIs DEF Current
<1>4. /\ Shaped(a2) /\ a2.f = a.f /\ a2.base = a.base /\ a2.ret = a.ret /\ a2.rbp = a.rbp
      /\ a2.vars = a.vars /\ a2.temps = Put(a.temps, u, v)
  BY <1>2, <1>3, WithShapes
<1>5. activations' = [activations EXCEPT ![Len(activations)] = a2]
  BY <1>1, <1>2 DEF RememberTemp, WithTemp, Current
<1>5a. /\ DOMAIN a2.temps = DOMAIN a.temps \cup {u}
       /\ \A y \in DOMAIN a2.temps : a2.temps[y] = IF y = u THEN v ELSE a.temps[y]
  <2> DEFINE g == a.temps
  <2>1. a2.temps = Put(g, u, v)
    BY <1>4
  <2> HIDE DEF g
  <2>2. /\ DOMAIN a2.temps = DOMAIN g \cup {u}
        /\ \A y \in DOMAIN a2.temps : a2.temps[y] = IF y = u THEN v ELSE g[y]
    BY <2>1 DEF Put
  <2> QED
    BY <2>2 DEF g
<1>6. Slotted(a2, L)
  <2>1. DOMAIN a2.temps \subseteq DOMAIN L.temps
    BY <1>3, <1>5a DEF Slotted
  <2>2. a2.base \in Int /\ DOMAIN a2.vars \subseteq DOMAIN L.vars
    BY <1>3, <1>4 DEF Slotted
  <2> QED
    BY <2>1, <2>2 DEF Slotted
<1> HIDE DEF L
<1>7. u \in DOMAIN L.temps /\ L.temps[u] \in Int /\ L.temps[u] <= -8
  BY <1>3 DEF Sized, L
<1>8. \A w : Held(mem', w) = IF w = a.base + L.temps[u] THEN Word(v) ELSE Held(mem, w)
  <2>1. mem' = Put(mem, a.base + L.temps[u], Word(v))
    BY <1>3, <1>7 DEF Written, TempAddress, Offset, L
  <2> QED
    BY <2>1, HeldWritten
<1>9. Intact(a2, mem', L)
  <2>1. ASSUME NEW y \in DOMAIN a2.temps
        PROVE  Held(mem', a2.base + Offset(L.temps, y)).n = a2.temps[y]
    <3>1. y \in DOMAIN L.temps /\ L.temps[y] \in Int /\ Offset(L.temps, y) = L.temps[y]
      BY <1>3, <1>6 DEF Slotted, Sized, Offset
    <3>2. CASE y = u
      <4>1. a2.temps[y] = v
        BY <1>5a, <3>2
      <4>2. Held(mem', a2.base + Offset(L.temps, y)) = Word(v)
        BY <1>4, <1>8, <3>1, <3>2
      <4> QED
        BY <4>1, <4>2 DEF Word
    <3>3. CASE y # u
      <4>1. y \in DOMAIN a.temps /\ a2.temps[y] = a.temps[y]
        BY <1>5a, <3>3
      <4>2. WordsApart(L.temps[y], L.temps[u])
        BY <1>3, <1>7, <3>1, <3>3 DEF SlotsApart
      <4>3. a.base + L.temps[y] # a.base + L.temps[u]
        BY <1>3, <1>7, <3>1, <4>2 DEF WordsApart
      <4>4. Held(mem', a2.base + Offset(L.temps, y)) = Held(mem, a.base + Offset(L.temps, y))
        BY <1>4, <1>8, <3>1, <4>3
      <4> QED
        BY <1>3, <4>1, <4>4 DEF Intact
    <3> QED
      BY <3>2, <3>3
  <2>2. ASSUME NEW x \in DOMAIN a2.vars
        PROVE  Held(mem', a2.base + Offset(L.vars, x)).n = a2.vars[x]
    <3>1. x \in DOMAIN L.vars /\ L.vars[x] \in Int /\ Offset(L.vars, x) = L.vars[x]
      BY <1>3, <1>6 DEF Slotted, Sized, Offset
    <3>2. WordsApart(L.vars[x], L.temps[u])
      BY <1>3, <1>7, <3>1 DEF SlotsApart
    <3>3. a.base + L.vars[x] # a.base + L.temps[u]
      BY <1>3, <1>7, <3>1, <3>2 DEF WordsApart
    <3>4. Held(mem', a2.base + Offset(L.vars, x)) = Held(mem, a.base + Offset(L.vars, x))
      BY <1>4, <1>8, <3>1, <3>3
    <3> QED
      BY <1>3, <1>4, <3>4 DEF Intact
  <2>3. Held(mem', a2.base) = Held(mem, a.base) /\ Held(mem', a2.base + 8) = Held(mem, a.base + 8)
    BY <1>3, <1>4, <1>7, <1>8
  <2> QED
    BY <1>3, <1>4, <2>1, <2>2, <2>3 DEF Intact
<1>10. \A w \in Int : w >= rbp => Held(mem', w) = Held(mem, w)
  BY <1>3, <1>7, <1>8
<1>11. RecordsKept /\ Current' = a2 /\ Low(frames', a2) = Low(frames, Current)
       /\ activations' # <<>> /\ Len(activations') = Len(activations)
  BY <1>1, <1>4, <1>5, <1>6, <1>9, <1>10, FrameWritten DEF RecordsKept, L
<1> QED
  BY <1>1, <1>4, <1>11 DEF SameActivation

-----------------------------------------------------------------------------
(* Where control is when a step is taken.                                  *)
LEMMA PlaceIs ==
    ASSUME NEW p, p = Place(p.f, p.b, p.k, p.stage)
    PROVE  /\ [p EXCEPT !.stage = "back"] = Place(p.f, p.b, p.k, "back")
           /\ [p EXCEPT !.stage = "at"] = Place(p.f, p.b, p.k, "at")
<1> DEFINE rec(f, b, k, st) == [f |-> f, b |-> b, k |-> k, stage |-> st]
<1>1. p = rec(p.f, p.b, p.k, p.stage)
  BY DEF Place
<1>2. \A f, b, k, st : [rec(f, b, k, st) EXCEPT !.stage = "back"] = rec(f, b, k, "back")
  OBVIOUS
<1>3. \A f, b, k, st : [rec(f, b, k, st) EXCEPT !.stage = "at"] = rec(f, b, k, "at")
  OBVIOUS
<1>5. [p EXCEPT !.stage = "back"] = rec(p.f, p.b, p.k, "back")
  BY <1>1, <1>2
<1>6. [p EXCEPT !.stage = "at"] = rec(p.f, p.b, p.k, "at")
  BY <1>1, <1>3
<1> QED
  BY <1>5, <1>6 DEF Place

LEMMA StageIs ==
    ASSUME XInv
    PROVE  /\ pc.stage = "at" => Launched /\ Inside
           /\ pc.stage = "back" => Launched /\ Inside /\ Instr0.tag = "call"
           /\ pc.stage = "enter" => Launched /\ Entering
<1>1. Start.stage = "start"
  BY DEF Start, Place
<1>2. NotLaunched => pc.stage = "start"
  BY <1>1 DEF NotLaunched
<1>3. /\ Entering => pc.stage = "enter"
      /\ BehindCall(module, pc, Current.f) => pc.stage = "back" /\ Instr0.tag = "call"
  <2>1. Entering => pc.stage = "enter"
    BY DEF Entering, Place
  <2>2. BehindCall(module, pc, Current.f) => pc.stage = "back" /\ Instr0.tag = "call"
    BY DEF BehindCall, Instr0, Instrs, ThisFn
  <2> QED
    BY <2>1, <2>2
<1>4. Launched => Control
  BY DEF Launched
<1> QED
  BY <1>1, <1>2, <1>3, <1>4 DEF XInv, Control

(* The next instruction, or the first of a block that a terminator names.   *)
LEMMA Moves ==
    ASSUME Executable, Stack, Launched, Inside, UNCHANGED <<module, rsp, rbp>>, SameActivation,
           \/ Proceed /\ Instr0.tag \notin Terminators
           \/ \E l \in Targets(Instr0) : Goto(l)
    PROVE  Control'
<1>1. /\ Current.f \in DOMAIN module /\ pc.f = Current.f /\ pc.b \in DOMAIN module[pc.f].blocks
      /\ pc.k \in DOMAIN module[pc.f].blocks[pc.b].instrs
      /\ Instr0 = module[pc.f].blocks[pc.b].instrs[pc.k]
  BY InsideIs DEF Instr0, Instrs, ThisFn
<1>2. InBlock(module, pc') /\ pc'.f = pc.f /\ pc'.stage = "at"
  <2>1. CASE Proceed /\ Instr0.tag \notin Terminators
    <3>1. pc' = Place(pc.f, pc.b, pc.k + 1, "at")
      BY <2>1 DEF Proceed
    <3>2. pc.k + 1 \in DOMAIN module[pc.f].blocks[pc.b].instrs
      BY <1>1, <2>1, CodeIs
    <3> QED
      BY <1>1, <3>1, <3>2 DEF InBlock, Place
  <2>2. CASE \E l \in Targets(Instr0) : Goto(l)
    <3>1. PICK l \in Targets(Instr0) : pc' = Place(pc.f, l, 1, "at")
      BY <2>2 DEF Goto
    <3>2. l \in DOMAIN module[pc.f].blocks
      BY <1>1, CodeIs
    <3>3. 1 \in DOMAIN module[pc.f].blocks[l].instrs
      BY <1>1, <3>2, CodeIs
    <3> QED
      BY <1>1, <3>1, <3>2, <3>3 DEF InBlock, Place
  <2> QED
    BY <2>1, <2>2
<1>3. Inside'
  BY <1>2 DEF Inside, SameActivation
<1> QED
  BY <1>2, <1>3 DEF Control

LEMMA TempStep ==
    ASSUME XInv, pc.stage \in {"at", "back"}, UNCHANGED module,
           Instr0.tag \notin Terminators, Instr0.dst # NoTemp, NEW n, StoreTemp(Instr0.dst, n)
    PROVE  Stack' /\ Launched'
<1>1. Executable /\ Stack /\ Launched /\ Inside
  BY StageIs DEF XInv
<1>2. Instr0.dst \in DOMAIN Layout0.temps
  BY <1>1, InsideIs
<1>3. /\ UNCHANGED <<frames, rsp, rbp>> /\ mem' = Written(TempAddress(Instr0.dst), Word(n))
      /\ RememberTemp(Instr0.dst, n) /\ Proceed
  BY DEF StoreTemp
<1>4. RecordsKept /\ SameActivation
  BY <1>1, <1>2, <1>3, TempStored
<1>5. Control'
  BY <1>1, <1>3, <1>4, Moves
<1> QED
  BY <1>4, <1>5 DEF RecordsKept, Launched

LEMMA VarStep ==
    ASSUME XInv, Stores, UNCHANGED module
    PROVE  Stack' /\ Launched'
<1>1. Executable /\ Stack /\ Launched /\ Inside
  BY StageIs DEF XInv, Stores, AtInstr, Running
<1>2. Instr0.tag = "store" /\ Instr0.sym \in DOMAIN Layout0.vars
  BY <1>1, InsideIs DEF Stores, AtInstr
<1>3. /\ UNCHANGED <<frames, rsp, rbp>>
      /\ mem' = Written(VarAddress(Instr0.sym), Word(Operand(1)))
      /\ RememberVar(Instr0.sym, Operand(1)) /\ Proceed
  BY DEF Stores
<1>4. RecordsKept /\ SameActivation
  BY <1>1, <1>2, <1>3, VarStored
<1>5. Control'
  BY <1>1, <1>2, <1>3, <1>4, Moves DEF Terminators
<1> QED
  BY <1>4, <1>5 DEF RecordsKept, Launched

(* Memory and the activations stay as they are.                            *)
LEMMA StillStep ==
    ASSUME XInv, pc.stage \in {"at", "back"}, UNCHANGED <<module, frames, rsp, rbp, mem, activations>>,
           \/ Proceed /\ Instr0.tag \notin Terminators
           \/ \E l \in Targets(Instr0) : Goto(l)
    PROVE  Stack' /\ Launched'
<1>1. Executable /\ Stack /\ Launched /\ Inside
  BY StageIs DEF XInv
<1>2. SameActivation
  BY <1>1 DEF SameActivation, Current, Low, Inside
<1>3. Control'
  BY <1>1, <1>2, Moves
<1> QED
  BY <1>1, <1>3, StillKept DEF Stack

LEMMA StepsInside ==
    ASSUME XInv, UNCHANGED module,
           Assigns \/ Loads \/ Computes \/ Stores \/ Back \/ Branches \/ Jumps
    PROVE  Stack' /\ Launched'
<1>1. pc.stage \in {"at", "back"} => Instr0 \in Instruction
  BY StageIs, InsideIs DEF XInv
<1>2. CASE Assigns \/ Loads \/ Computes
  <2>1. pc.stage = "at" /\ Instr0.tag \in {"assign", "load", "unop", "binop"}
    BY <1>2 DEF Assigns, Loads, Computes, AtInstr, Running
  <2>2. Instr0.tag \notin Terminators /\ Instr0.dst # NoTemp
    BY <1>1, <2>1 DEF Terminators, Instruction, Complete, NoTemp
  <2>3. \E n : StoreTemp(Instr0.dst, n)
    BY <1>2 DEF Assigns, Loads, Computes
  <2> QED
    BY <2>1, <2>2, <2>3, TempStep
<1>3. CASE Stores
  BY <1>3, VarStep
<1>4. CASE Back
  <2>1. pc.stage = "back" /\ Instr0.tag = "call"
    BY <1>4, StageIs DEF Back, Running
  <2>2. CASE Instr0.dst # NoTemp
    BY <1>4, <2>1, <2>2, TempStep DEF Back, Terminators
  <2>3. CASE Instr0.dst = NoTemp
    BY <1>4, <2>1, <2>3, StillStep DEF Back, Terminators
  <2> QED
    BY <2>2, <2>3
<1>5. CASE Branches
  <2>1. pc.stage = "at" /\ Instr0.tag = "branch"
    BY <1>5 DEF Branches, AtInstr, Running
  <2>2. Instr0.to \in Seq(Nat) /\ Len(Instr0.to) = 2
    BY <1>1, <2>1 DEF Instruction, Complete
  <2>3. {1, 2} \subseteq DOMAIN Instr0.to
    BY <2>2
  <2>4. \E l \in Targets(Instr0) : Goto(l)
    BY <1>5, <2>3 DEF Branches, Targets
  <2> QED
    BY <1>5, <2>1, <2>4, StillStep DEF Branches
<1>6. CASE Jumps
  <2>1. pc.stage = "at" /\ Instr0.tag = "jump"
    BY <1>6 DEF Jumps, AtInstr, Running
  <2>2. Instr0.to \in Seq(Nat) /\ Len(Instr0.to) = 1
    BY <1>1, <2>1 DEF Instruction, Complete
  <2>3. 1 \in DOMAIN Instr0.to
    BY <2>2
  <2>4. \E l \in Targets(Instr0) : Goto(l)
    BY <1>6, <2>3 DEF Jumps, Targets
  <2> QED
    BY <1>6, <2>1, <2>4, StillStep DEF Jumps
<1> QED
  BY <1>2, <1>3, <1>4, <1>5, <1>6

-----------------------------------------------------------------------------
(* The steps from one function to another.                                 *)
LEMMA NotYet ==
    ASSUME XInv
    PROVE  /\ frames = <<>> => NotLaunched
           /\ frames # <<>> => Launched
<1>1. ASSUME Launched PROVE frames # <<>>
  <2>1. PICK f : f \in DOMAIN module
    BY DEF XInv, Executable
  <2>2. f \in DOMAIN frames
    BY <1>1, <2>1 DEF Launched, Laid
  <2> QED
    BY <2>2
<1> QED
  BY <1>1 DEF XInv, NotLaunched

LEMMA CalleeIs ==
    \A x : (\E g \in DOMAIN module : module[g].name = x) => Callee(x) \in DOMAIN module
BY DEF Callee

LEMMA LaunchStep ==
    ASSUME XInv, Launch, UNCHANGED module
    PROVE  Stack' /\ Launched'
<1>1. NotLaunched /\ Executable
  BY NotYet DEF Launch, XInv
<1>2. activations' = <<>> /\ DOMAIN activations' = {} /\ Stack'
  BY <1>1 DEF Launch, NotLaunched, Stack
<1>3. Laid'
  BY DEF Launch, Laid
<1>4. Callee(Name("main")) \in DOMAIN module
  BY <1>1, CalleeIs DEF Executable
<1>5. Entering'
  <2>1. rsp' = -8 /\ rbp' = 0 /\ pc' = Place(Callee(Name("main")), 1, 1, "enter")
    BY DEF Launch
  <2>2. mem' = Put(mem, -8, [n |-> 0, to |-> Start])
    BY DEF Launch, Written
  <2>3. -8 \in DOMAIN mem' /\ mem'[-8] = [n |-> 0, to |-> Start]
    BY <2>2 DEF Put
  <2>4. pc' = Place(pc'.f, 1, 1, "enter") /\ pc'.f \in DOMAIN module
    BY <1>4, <2>1 DEF Place
  <2> QED
    BY <1>2, <2>1, <2>3, <2>4 DEF Entering
<1>6. Nested' /\ Linked' /\ FramesIntact'
  BY <1>2 DEF Nested, Linked, FramesIntact
<1> QED
  BY <1>2, <1>3, <1>5, <1>6 DEF Launched, Control

(* What is written below the innermost frame leaves all frames intact.      *)
LEMMA WrittenBelow ==
    ASSUME Executable, Stack, Launched, NEW m,
           \A w \in Int : w >= Low(frames, Current) => Held(m, w) = Held(mem, w)
    PROVE  \A d \in DOMAIN activations : Intact(activations[d], m, frames[activations[d].f])
<1> SUFFICES ASSUME NEW d \in DOMAIN activations
             PROVE  Intact(activations[d], m, frames[activations[d].f])
  OBVIOUS
<1>1. /\ Len(activations) \in DOMAIN activations /\ DOMAIN activations = 1..Len(activations)
      /\ Len(activations) \in Nat
  BY StackIs
<1>2. /\ Slotted(activations[d], frames[activations[d].f]) /\ Sized(frames[activations[d].f])
      /\ Intact(activations[d], mem, frames[activations[d].f])
      /\ Low(frames, activations[d]) \in Int
  BY RecordedIs
<1>3. /\ Low(frames, Current) \in Int /\ Low(frames, Current) <= Current.base
      /\ Current.base \in Int
  BY <1>1, RecordedIs DEF Current, Slotted
<1>4. Low(frames, Current) <= Low(frames, activations[d])
  <2>1. CASE d = Len(activations)
    BY <1>3, <2>1 DEF Current
  <2>2. CASE d # Len(activations)
    <3>1. Current.base + 16 <= Low(frames, activations[d])
      BY <1>1, <2>2 DEF Launched, Nested, Current
    <3> QED
      BY <1>2, <1>3, <3>1
  <2> QED
    BY <2>1, <2>2
<1>5. \A w \in Int : activations[d].base - frames[activations[d].f].size <= w
                        => Held(m, w) = Held(mem, w)
  BY <1>2, <1>3, <1>4 DEF Low
<1> QED
  BY <1>2, <1>5, IntactKept

LEMMA CallStep ==
    ASSUME XInv, Calls, UNCHANGED module
    PROVE  Stack' /\ Launched'
<1>1. Executable /\ Stack /\ Launched /\ Inside
  BY StageIs DEF XInv, Calls, AtInstr, Running
<1>2. /\ UNCHANGED <<frames, activations, rbp>> /\ Current' = Current
      /\ rsp' = rsp - 8 /\ Instr0.tag = "call"
      /\ pc' = Place(Callee(Instr0.sym), 1, 1, "enter")
      /\ mem' = Put(mem, rsp - 8, [n |-> 0, to |-> [pc EXCEPT !.stage = "back"]])
  BY DEF Calls, Current, AtInstr, Written
<1>3. /\ rsp = Low(frames, Current) /\ rsp \in Int /\ rbp = Current.base
      /\ activations # <<>> /\ InBlock(module, pc) /\ pc.f = Current.f
      /\ Instr0 = module[pc.f].blocks[pc.b].instrs[pc.k]
  <2>1. rsp \in Int
    <3>1. Len(activations) \in DOMAIN activations
      BY <1>1, InsideIs
    <3> QED
      BY <1>1, <3>1, RecordedIs DEF Inside, Current
  <2> QED
    BY <1>1, <2>1, InsideIs DEF Inside, Instr0, Instrs, ThisFn
<1>4. Callee(Instr0.sym) \in DOMAIN module
  <2>1. Instr0 \in Range(module[pc.f].blocks[pc.b].instrs)
    BY <1>3 DEF InBlock, Range
  <2>2. \E g \in DOMAIN module : module[g].name = Instr0.sym
    BY <1>1, <1>2, <1>3, <2>1 DEF Executable, InBlock
  <2> QED
    BY <2>2, CalleeIs
<1>5. /\ rsp' \in DOMAIN mem'
      /\ mem'[rsp'] = [n |-> 0, to |-> [pc EXCEPT !.stage = "back"]]
  BY <1>2 DEF Put
<1>6. BehindCall(module', mem'[rsp'].to, Current'.f)
  <2>1. PICK r : r = [pc EXCEPT !.stage = "back"]
    OBVIOUS
  <2>2. r = Place(pc.f, pc.b, pc.k, "back")
    BY <1>3, <2>1, PlaceIs DEF InBlock
  <2>3. r.f = pc.f /\ r.b = pc.b /\ r.k = pc.k /\ r.stage = "back"
    BY <2>2 DEF Place
  <2>4. BehindCall(module, r, Current.f)
    BY <1>2, <1>3, <2>2, <2>3 DEF BehindCall, InBlock
  <2>5. mem'[rsp'].to = r
    BY <1>5, <2>1
  <2> QED
    BY <1>2, <2>4, <2>5
<1>7. Entering'
  <2>1. pc' = Place(pc'.f, 1, 1, "enter") /\ pc'.f \in DOMAIN module
    BY <1>2, <1>4 DEF Place
  <2>2. Low(frames', Current') = Low(frames, Current)
    BY <1>2 DEF Low
  <2> QED
    BY <1>2, <1>3, <1>5, <1>6, <2>1, <2>2 DEF Entering
<1>8. FramesIntact'
  <2>1. \A w \in Int : w >= Low(frames, Current) => Held(mem', w) = Held(mem, w)
    <3>1. PICK v : mem' = Put(mem, rsp - 8, v)
      BY <1>2
    <3>2. \A w \in Int : w # rsp - 8 => Held(mem', w) = Held(mem, w)
      BY <3>1, HeldWritten
    <3> QED
      BY <1>3, <3>2
  <2>2. \A d \in DOMAIN activations : Intact(activations[d], mem', frames[activations[d].f])
    BY <1>1, <2>1, WrittenBelow
  <2> QED
    BY <1>2, <2>2, IntactEach
<1>9. Stack' /\ Laid' /\ Nested'
  BY <1>1, <1>2 DEF Launched, Laid, Nested, Low, Stack
<1>10. Linked'
  BY <1>1, <1>2 DEF Launched, Linked, Under, Low, BehindCall, InBlock
<1>11. \A d \in DOMAIN activations' : Recorded(frames', module', activations'[d])
  BY <1>1, <1>2 DEF Launched, Recorded
<1> QED
  BY <1>7, <1>8, <1>9, <1>10, <1>11 DEF Launched, Control

(* What `leave` and `ret` find in the frame.                               *)
LEMMA ReturnIs ==
    ASSUME XInv, Returns
    PROVE  /\ Executable /\ Stack /\ Launched /\ Inside
           /\ Len(activations) \in Nat /\ Len(activations) \in DOMAIN activations
           /\ activations' = SubSeq(activations, 1, Len(activations) - 1)
           /\ rbp' = Current.rbp /\ pc' = Current.ret /\ rsp' = Current.base + 16
           /\ IF Len(activations) = 1 THEN Bottom(Current)
              ELSE /\ Len(activations) - 1 \in DOMAIN activations
                   /\ Under(frames, module, Current, activations[Len(activations) - 1])
<1> DEFINE n == Len(activations)
<1>1. Executable /\ Stack /\ Launched /\ Inside
  BY StageIs DEF XInv, Returns, AtInstr, Running
<1>2. n \in Nat /\ n \in DOMAIN activations /\ DOMAIN activations = 1..n /\ Current = activations[n]
  BY <1>1, StackIs DEF Inside, Current
<1>3. rbp = Current.base
  BY <1>1 DEF Inside
<1>4. Held(mem, rbp).n = Current.rbp /\ Held(mem, rbp + 8).to = Current.ret
  BY <1>1, <1>2, <1>3, RecordedIs DEF Intact
<1>5. rbp' = Current.rbp /\ pc' = Current.ret /\ rsp' = Current.base + 16
  BY <1>3, <1>4, ReadIs DEF Returns
<1>6. IF n = 1 THEN Bottom(Current) ELSE Under(frames, module, Current, activations[n - 1])
  BY <1>1, <1>2 DEF Launched, Linked
<1> QED
  BY <1>1, <1>2, <1>5, <1>6 DEF Returns

LEMMA ReturnStep ==
    ASSUME XInv, Returns, UNCHANGED module
    PROVE  Stack' /\ Launched'
<1> DEFINE n == Len(activations)
<1>1. /\ Executable /\ Stack /\ Launched /\ Inside
      /\ n \in Nat /\ n \in DOMAIN activations /\ activations' = SubSeq(activations, 1, n - 1)
      /\ rbp' = Current.rbp /\ pc' = Current.ret /\ rsp' = Current.base + 16
      /\ IF n = 1 THEN Bottom(Current)
         ELSE n - 1 \in DOMAIN activations /\ Under(frames, module, Current, activations[n - 1])
      /\ UNCHANGED <<frames, mem>>
  BY ReturnIs DEF Returns
<1>2. DOMAIN activations = 1..n
  BY <1>1, StackIs
<1>3. /\ DOMAIN activations' = 1..(n - 1) /\ Len(activations') = n - 1
      /\ \A d \in 1..(n - 1) : activations'[d] = activations[d] /\ d \in DOMAIN activations
  BY <1>1, <1>2 DEF Stack
<1>4. Stack'
  <2>1. activations' = [d \in 1..(n - 1) |-> activations'[d]]
    BY <1>1, <1>2 DEF Stack
  <2>2. activations' \in [1..(n - 1) -> Range(activations')]
    BY <1>3, <2>1 DEF Range
  <2>3. n - 1 \in Nat
    BY <1>1, <1>2
  <2> QED
    BY <2>2, <2>3, SequenceOf DEF Stack
<1>5. Laid'
  BY <1>1 DEF Launched, Laid
<1>6. Nested'
  <2>1. Nested
    BY <1>1 DEF Launched
  <2>2. \A d, e \in DOMAIN activations' :
           d < e => activations'[e].base + 16 <= Low(frames, activations'[d])
    BY <1>3, <2>1 DEF Nested
  <2> QED
    BY <1>1, <2>2 DEF Nested, Low
<1>7. FramesIntact'
  <2>1. \A d \in DOMAIN activations : Intact(activations[d], mem, frames[activations[d].f])
    BY <1>1, RecordedIs
  <2>2. \A d \in DOMAIN activations' :
           Intact(activations'[d], mem', frames'[activations'[d].f])
    BY <1>1, <1>3, <2>1
  <2> QED
    BY <2>2, IntactEach
<1>8. \A d \in DOMAIN activations' : Recorded(frames', module', activations'[d])
  BY <1>1, <1>3 DEF Launched, Recorded
<1>9. Linked'
  <2>1. \A d \in 1..n : IF d = 1 THEN Bottom(activations[d])
                        ELSE Under(frames, module, activations[d], activations[d - 1])
    BY <1>1, <1>2 DEF Launched, Linked
  <2>2. \A d \in 1..(n - 1) : d \in 1..n /\ (d # 1 => d - 1 \in 1..(n - 1))
    BY <1>1
  <2>3. \A d \in 1..(n - 1) :
           IF d = 1 THEN Bottom(activations'[d])
           ELSE Under(frames', module', activations'[d], activations'[d - 1])
    BY <1>1, <1>3, <2>1, <2>2
  <2> QED
    BY <1>3, <2>3 DEF Linked
<1>10. Control'
  <2>1. CASE n = 1
    <3>1. pc' = Start
      BY <1>1, <2>1 DEF Bottom
    <3>2. activations' = <<>>
      BY <1>3, <1>4, <2>1 DEF Stack
    <3> QED
      BY <3>1, <3>2 DEF Control
  <2>2. CASE n # 1
    <3> DEFINE caller == activations[n - 1]
    <3>1. /\ Current.base = Low(frames, caller) - 16 /\ Current.rbp = caller.base
          /\ BehindCall(module, Current.ret, caller.f) /\ n - 1 \in DOMAIN activations
      BY <1>1, <2>2 DEF Under
    <3>2. Current' = caller /\ activations' # <<>>
      BY <1>2, <1>3, <1>4, <2>2, <3>1 DEF Current, Stack
    <3>3. Low(frames, caller) \in Int
      BY <1>1, <3>1, RecordedIs
    <3>4. rsp' = Low(frames', caller) /\ rbp' = caller.base
      BY <1>1, <3>1, <3>3 DEF Low
    <3>5. BehindCall(module', pc', Current'.f)
      BY <1>1, <3>1, <3>2
    <3>6. Inside'
      BY <3>2, <3>4, <3>5 DEF Inside, BehindCall
    <3> QED
      BY <3>5, <3>6 DEF Control
  <2> QED
    BY <2>1, <2>2
<1> QED
  BY <1>4, <1>5, <1>6, <1>7, <1>8, <1>9, <1>10 DEF Launched

LEMMA SameChoice ==
    ASSUME NEW D, NEW f, NEW g, NEW a, NEW b, \A q \in D : f[q] = a <=> g[q] = b
    PROVE  (CHOOSE q \in D : f[q] = a) = (CHOOSE q \in D : g[q] = b)
OBVIOUS

(* The prologue: where the new frame is, and what it holds.                *)
NewNames(fn) == {fn.params[p] : p \in DOMAIN ParamSlots(fn, rsp - 8)}
NewActivation(fn) ==
    LET slots == ParamSlots(fn, rsp - 8)
    IN  [f |-> pc.f, base |-> rsp - 8, ret |-> mem[rsp].to, rbp |-> rbp,
         vars |-> [x \in NewNames(fn) |-> args[CHOOSE p \in DOMAIN slots : fn.params[p] = x]],
         temps |-> [t \in {} |-> 0]]

LEMMA EnteringIs ==
    ASSUME XInv, Entering, Launched
    PROVE  /\ Executable /\ Stack /\ rsp \in Int /\ pc.f \in DOMAIN module /\ ThisFn = module[pc.f]
           /\ Layout0 = frames[pc.f] /\ Sized(Layout0) /\ SlotsApart(Layout0)
           /\ \A p \in DOMAIN ThisFn.params : ThisFn.params[p] \in DOMAIN Layout0.vars
           /\ activations # <<>> => rsp = Low(frames, Current) - 8
<1>1. Executable /\ Stack /\ pc.f \in DOMAIN module /\ Laid
  BY DEF XInv, Entering, Launched
<1>2. rsp \in Int
  <2>1. CASE activations = <<>>
    BY <2>1 DEF Entering
  <2>2. CASE activations # <<>>
    <3>1. Low(frames, Current) \in Int
      BY <1>1, <2>2, StackIs, RecordedIs DEF Current
    <3> QED
      BY <2>2, <3>1 DEF Entering
  <2> QED
    BY <2>1, <2>2
<1>3. ThisFn = module[pc.f] /\ Layout0 = frames[pc.f]
  BY DEF ThisFn, Layout0
<1>4. Sized(Layout0) /\ SlotsApart(Layout0) /\ Provided(Layout0, ThisFn)
  BY <1>1, <1>3, FrameIs
<1>5. Range(ThisFn.params) \subseteq Range(ThisFn.locals)
  BY <1>1, <1>3 DEF Executable
<1>6. \A p \in DOMAIN ThisFn.params : ThisFn.params[p] \in DOMAIN Layout0.vars
  BY <1>4, <1>5 DEF Provided, Range
<1> QED
  BY <1>1, <1>2, <1>3, <1>4, <1>6 DEF Entering

LEMMA PrologueIs ==
    ASSUME XInv, Enter, Entering, Launched
    PROVE  LET a == NewActivation(ThisFn)
           IN  /\ activations' = Append(activations, a) /\ frames' = frames
               /\ rbp' = a.base /\ rsp' = Low(frames, a) /\ pc' = Place(pc.f, 1, 1, "at")
               /\ Shaped(a) /\ a.f = pc.f /\ a.base = rsp - 8 /\ a.rbp = rbp /\ a.ret = mem[rsp].to
               /\ Slotted(a, Layout0) /\ Intact(a, mem', Layout0)
               /\ \A w \in Int : w >= rsp => Held(mem', w) = Held(mem, w)
<1> DEFINE base  == rsp - 8
           slots == ParamSlots(ThisFn, base)
           saved == Put(mem, base, Word(rbp))
           L     == Layout0
<1>1. /\ Executable /\ Stack /\ rsp \in Int /\ pc.f \in DOMAIN module /\ Sized(L) /\ SlotsApart(L)
      /\ \A p \in DOMAIN ThisFn.params : ThisFn.params[p] \in DOMAIN L.vars /\ L = frames[pc.f]
  BY EnteringIs
<1>2. PICK a : a = NewActivation(ThisFn)
  OBVIOUS
<1>3. /\ Shaped(a) /\ a.f = pc.f /\ a.base = base /\ a.rbp = rbp /\ a.ret = mem[rsp].to
      /\ a.vars = [x \in NewNames(ThisFn) |-> args[CHOOSE p \in DOMAIN slots : ThisFn.params[p] = x]]
      /\ a.temps = [t \in {} |-> 0]
  BY <1>2 DEF NewActivation, Shaped
<1>4. /\ activations' = Append(activations, a) /\ frames' = frames
      /\ rbp' = base /\ rsp' = base - L.size
      /\ mem' = [w \in DOMAIN saved \cup Range(slots) |->
                    IF w \in Range(slots)
                    THEN Word(args[CHOOSE p \in DOMAIN slots : slots[p] = w]) ELSE saved[w]]
      /\ pc' = [pc EXCEPT !.stage = "at"]
  BY <1>2 DEF Enter, Written, NewActivation, NewNames
<1>5. pc' = Place(pc.f, 1, 1, "at")
  <2>1. pc = Place(pc.f, 1, 1, "enter")
    BY DEF Entering
  <2>2. pc.b = 1 /\ pc.k = 1 /\ pc.stage = "enter"
    BY <2>1 DEF Place
  <2> QED
    BY <1>4, <2>1, <2>2, PlaceIs
<1>6. rsp' = Low(frames, a)
  BY <1>3, <1>4 DEF Low, Layout0
<1>7. /\ DOMAIN slots \subseteq DOMAIN ThisFn.params
      /\ \A p \in DOMAIN slots : slots[p] = base + Offset(L.vars, ThisFn.params[p])
  BY DEF ParamSlots
<1>8. \A p \in DOMAIN slots :
         /\ ThisFn.params[p] \in DOMAIN L.vars /\ L.vars[ThisFn.params[p]] \in Int
         /\ L.vars[ThisFn.params[p]] <= -8 /\ slots[p] = base + L.vars[ThisFn.params[p]]
  BY <1>1, <1>7 DEF Sized, Offset
<1> HIDE DEF slots, L
<1>9. \A w : w \notin Range(slots) => Held(mem', w) = IF w = base THEN Word(rbp) ELSE Held(mem, w)
  <2>1. \A w : w \notin Range(slots) => Held(mem', w) = Held(saved, w)
    BY <1>4 DEF Held
  <2> QED
    BY <2>1, HeldWritten
<1>10. \A w \in Int : w >= base => w \notin Range(slots)
  BY <1>1, <1>8 DEF Range
<1>11. DOMAIN a.temps = {} /\ DOMAIN a.vars = NewNames(ThisFn)
  BY <1>3
<1>12. Slotted(a, L)
  BY <1>1, <1>3, <1>8, <1>11 DEF Slotted, NewNames, slots
<1>13. ASSUME NEW x \in DOMAIN a.vars
       PROVE  Held(mem', a.base + Offset(L.vars, x)).n = a.vars[x]
  <2>1. PICK p \in DOMAIN slots : ThisFn.params[p] = x
    BY <1>11 DEF NewNames, slots
  <2>2. slots[p] = base + Offset(L.vars, x) /\ slots[p] \in Range(slots)
    BY <1>7, <2>1 DEF Range
  <2>3. \A q \in DOMAIN slots : slots[q] = slots[p] <=> ThisFn.params[q] = x
    <3> SUFFICES ASSUME NEW q \in DOMAIN slots PROVE slots[q] = slots[p] <=> ThisFn.params[q] = x
      OBVIOUS
    <3>1. CASE ThisFn.params[q] = x
      BY <1>8, <2>1, <3>1
    <3>2. CASE ThisFn.params[q] # x
      <4>1. WordsApart(L.vars[ThisFn.params[q]], L.vars[ThisFn.params[p]])
        BY <1>1, <1>8, <2>1, <3>2 DEF SlotsApart
      <4> QED
        BY <1>1, <1>8, <3>2, <4>1 DEF WordsApart
    <3> QED
      BY <3>1, <3>2
  <2>4. (CHOOSE q \in DOMAIN slots : slots[q] = slots[p])
           = (CHOOSE q \in DOMAIN slots : ThisFn.params[q] = x)
    <3>1. PICK ps : ps = ThisFn.params
      OBVIOUS
    <3>2. (CHOOSE q \in DOMAIN slots : slots[q] = slots[p]) = (CHOOSE q \in DOMAIN slots : ps[q] = x)
      BY <2>3, <3>1, SameChoice
    <3> QED
      BY <3>1, <3>2
  <2>5. Held(mem', slots[p]) = Word(args[CHOOSE q \in DOMAIN slots : slots[q] = slots[p]])
    BY <1>4, <2>2 DEF Held
  <2>6. a.vars[x] = args[CHOOSE q \in DOMAIN slots : ThisFn.params[q] = x]
    BY <1>3, <1>11
  <2>7. a.base + Offset(L.vars, x) = slots[p]
    BY <1>3, <2>2
  <2>8. Held(mem', slots[p]) = Word(a.vars[x])
    BY <2>4, <2>5, <2>6
  <2>9. Word(a.vars[x]).n = a.vars[x]
    BY DEF Word
  <2> QED
    BY <2>7, <2>8, <2>9
<1>14. Held(mem', a.base).n = a.rbp /\ Held(mem', a.base + 8).to = a.ret
  <2>1. Held(mem', base) = Word(rbp)
    BY <1>1, <1>9, <1>10
  <2>2. Held(mem', base + 8) = mem[rsp]
    <3>1. base + 8 = rsp /\ rsp \in DOMAIN mem
      BY <1>1 DEF Entering
    <3> QED
      BY <1>1, <1>9, <1>10, <3>1 DEF Held
  <2> QED
    BY <1>3, <2>1, <2>2 DEF Word
<1>15. Intact(a, mem', L)
  BY <1>11, <1>13, <1>14 DEF Intact
<1>16. \A w \in Int : w >= rsp => Held(mem', w) = Held(mem, w)
  BY <1>1, <1>9, <1>10
<1> QED
  BY <1>2, <1>3, <1>4, <1>5, <1>6, <1>12, <1>15, <1>16 DEF L

LEMMA Appended ==
    ASSUME NEW S, NEW s \in Seq(S), NEW a
    PROVE  /\ Append(s, a) = [d \in 1..(Len(s) + 1) |-> Append(s, a)[d]]
           /\ Append(s, a)[Len(s) + 1] = a
           /\ \A d \in 1..Len(s) : Append(s, a)[d] = s[d]
<1> DEFINE T == S \cup {a}
<1>1. s \in Seq(T) /\ a \in T
  OBVIOUS
<1> HIDE DEF T
<1>2. /\ Append(s, a) \in Seq(T) /\ Len(Append(s, a)) = Len(s) + 1
      /\ Append(s, a)[Len(s) + 1] = a
      /\ \A d \in 1..Len(s) : Append(s, a)[d] = s[d]
  BY <1>1
<1>3. \A r \in Seq(T) : r = [d \in 1..Len(r) |-> r[d]]
  OBVIOUS
<1> QED
  BY <1>2, <1>3

LEMMA EnterStep ==
    ASSUME XInv, Enter, UNCHANGED module
    PROVE  Stack' /\ Launched'
<1> DEFINE n == Len(activations)
<1>1. Launched /\ Entering
  BY StageIs DEF Enter, Running
<1>2. PICK a : a = NewActivation(ThisFn)
  OBVIOUS
<1>3. /\ activations' = Append(activations, a) /\ frames' = frames
      /\ rbp' = a.base /\ rsp' = Low(frames, a) /\ pc' = Place(pc.f, 1, 1, "at")
      /\ Shaped(a) /\ a.f = pc.f /\ a.base = rsp - 8 /\ a.rbp = rbp /\ a.ret = mem[rsp].to
      /\ Slotted(a, Layout0) /\ Intact(a, mem', Layout0)
      /\ \A w \in Int : w >= rsp => Held(mem', w) = Held(mem, w)
  BY <1>1, <1>2, PrologueIs
<1>4. /\ Executable /\ Stack /\ rsp \in Int /\ pc.f \in DOMAIN module /\ Layout0 = frames[pc.f]
      /\ activations # <<>> => rsp = Low(frames, Current) - 8
  BY <1>1, EnteringIs
<1>5. /\ n \in Nat /\ DOMAIN activations = 1..n /\ activations = [d \in 1..n |-> activations[d]]
      /\ activations = <<>> <=> n = 0
  BY <1>4, StackIs
<1>6. /\ activations' = [d \in 1..(n + 1) |-> activations'[d]] /\ activations'[n + 1] = a
      /\ \A d \in 1..n : activations'[d] = activations[d]
  BY <1>3, <1>4, Appended DEF Stack
<1>7. Stack' /\ Len(activations') = n + 1 /\ DOMAIN activations' = 1..(n + 1)
  <2>1. activations' \in [1..(n + 1) -> Range(activations')]
    BY <1>6 DEF Range
  <2>2. n + 1 \in Nat
    BY <1>5
  <2> QED
    BY <2>1, <2>2, SequenceOf DEF Stack
<1>8. Current' = a /\ activations' # <<>>
  BY <1>5, <1>6, <1>7 DEF Current
<1>9. Laid'
  BY <1>1, <1>3 DEF Launched, Laid
<1>10. \A d \in 1..n : d # n + 1
  BY <1>5
<1>11. \A d \in 1..n : a.base + 16 <= Low(frames, activations[d])
  <2> SUFFICES ASSUME NEW d \in 1..n PROVE a.base + 16 <= Low(frames, activations[d])
    OBVIOUS
  <2>1. n \in 1..n /\ activations # <<>> /\ Current = activations[n]
    BY <1>5 DEF Current
  <2>2. /\ Low(frames, activations[d]) \in Int /\ Low(frames, Current) \in Int
        /\ Low(frames, Current) <= Current.base /\ Current.base \in Int
    BY <1>1, <1>4, <1>5, <2>1, RecordedIs DEF Slotted
  <2>3. a.base + 16 = Low(frames, Current)
    BY <1>3, <1>4, <2>1, <2>2
  <2>4. CASE d = n
    BY <2>1, <2>2, <2>3, <2>4
  <2>5. CASE d # n
    <3>1. Current.base + 16 <= Low(frames, activations[d])
      BY <1>1, <1>5, <2>1, <2>5 DEF Launched, Nested
    <3> QED
      BY <2>2, <2>3, <3>1
  <2> QED
    BY <2>4, <2>5
<1>12. Nested'
  <2> SUFFICES ASSUME NEW d \in 1..(n + 1), NEW e \in 1..(n + 1), d < e
               PROVE  activations'[e].base + 16 <= Low(frames, activations'[d])
    BY <1>3, <1>7 DEF Nested, Low
  <2>1. d \in 1..n
    BY <1>5
  <2>2. CASE e = n + 1
    BY <1>6, <1>11, <2>1, <2>2
  <2>3. CASE e # n + 1
    <3>1. e \in 1..n
      BY <1>5, <2>3
    <3>2. activations[e].base + 16 <= Low(frames, activations[d])
      BY <1>1, <1>5, <2>1, <3>1 DEF Launched, Nested
    <3> QED
      BY <1>6, <2>1, <3>1, <3>2
  <2> QED
    BY <2>2, <2>3
<1>13. Linked'
  <2> SUFFICES ASSUME NEW d \in 1..(n + 1)
               PROVE  IF d = 1 THEN Bottom(activations'[d])
                      ELSE Under(frames, module, activations'[d], activations'[d - 1])
    BY <1>3, <1>7 DEF Linked
  <2>1. CASE d \in 1..n
    <3>1. d # 1 => d - 1 \in 1..n
      BY <1>5, <2>1
    <3>2. IF d = 1 THEN Bottom(activations[d])
          ELSE Under(frames, module, activations[d], activations[d - 1])
      BY <1>1, <1>5, <2>1 DEF Launched, Linked
    <3> QED
      BY <1>6, <2>1, <3>1, <3>2
  <2>2. CASE d = n + 1 /\ n = 0
    <3>1. rsp = -8 /\ rbp = 0 /\ mem[rsp].to = Start
      BY <1>1, <1>5, <2>2 DEF Entering
    <3>2. Bottom(a)
      BY <1>3, <3>1 DEF Bottom
    <3>3. d = 1
      BY <2>2
    <3> QED
      BY <1>6, <2>2, <3>2, <3>3
  <2>3. CASE d = n + 1 /\ n # 0
    <3>1. /\ rsp = Low(frames, Current) - 8 /\ rbp = Current.base
          /\ BehindCall(module, mem[rsp].to, Current.f)
      BY <1>1, <1>5, <2>3 DEF Entering
    <3>2. Current = activations[n] /\ n \in 1..n /\ d # 1 /\ d - 1 = n
      BY <1>5, <2>3 DEF Current
    <3>3. Low(frames, Current) \in Int
      BY <1>1, <1>4, <1>5, <3>2, RecordedIs
    <3>4. a.base = Low(frames, Current) - 16
      BY <1>3, <3>1, <3>3
    <3>5. Under(frames, module, a, activations[n])
      BY <1>3, <3>1, <3>2, <3>4 DEF Under
    <3> QED
      BY <1>6, <2>3, <3>2, <3>5
  <2> QED
    BY <1>5, <2>1, <2>2, <2>3
<1>14. FramesIntact'
  <2> SUFFICES ASSUME NEW d \in 1..(n + 1)
               PROVE  Intact(activations'[d], mem', frames[activations'[d].f])
    BY <1>3, <1>7, IntactEach
  <2>1. CASE d = n + 1
    BY <1>3, <1>4, <1>6, <2>1
  <2>2. CASE d # n + 1
    <3>1. d \in 1..n /\ n # 0
      BY <1>5, <2>2
    <3>2. rsp = Low(frames, Current) - 8 /\ Low(frames, Current) \in Int
      <4>1. n \in DOMAIN activations /\ Current = activations[n]
        BY <1>5, <3>1 DEF Current
      <4> QED
        BY <1>1, <1>4, <1>5, <3>1, <4>1, RecordedIs
    <3>3. \A w \in Int : w >= Low(frames, Current) => Held(mem', w) = Held(mem, w)
      BY <1>3, <1>4, <3>2
    <3>4. Intact(activations[d], mem', frames[activations[d].f])
      BY <1>1, <1>4, <1>5, <3>1, <3>3, WrittenBelow
    <3> QED
      BY <1>6, <3>1, <3>4
  <2> QED
    BY <2>1, <2>2
<1>15. \A d \in DOMAIN activations' : Recorded(frames', module', activations'[d])
  <2> SUFFICES ASSUME NEW d \in 1..(n + 1) PROVE Recorded(frames, module, activations'[d])
    BY <1>3, <1>7
  <2>1. CASE d = n + 1
    BY <1>3, <1>4, <1>6, <2>1 DEF Recorded, Shaped, Slotted
  <2>2. CASE d # n + 1
    <3>1. d \in 1..n
      BY <1>5, <2>2
    <3>2. Recorded(frames, module, activations[d])
      BY <1>1, <1>5, <3>1 DEF Launched
    <3> QED
      BY <1>6, <3>1, <3>2
  <2> QED
    BY <2>1, <2>2
<1>16. Control'
  <2>1. /\ 1 \in DOMAIN module[pc.f].blocks
        /\ 1 \in DOMAIN module[pc.f].blocks[1].instrs
    BY <1>4, CodeIs
  <2>2. pc'.f = pc.f /\ pc'.b = 1 /\ pc'.k = 1 /\ pc'.stage = "at"
    BY <1>3 DEF Place
  <2>3. InBlock(module', pc')
    BY <1>3, <1>4, <2>1, <2>2 DEF InBlock
  <2>4. rsp' = Low(frames', Current') /\ rbp' = Current'.base /\ pc'.f = Current'.f
    BY <1>3, <1>8, <2>2 DEF Low
  <2>5. Inside'
    BY <1>8, <2>3, <2>4 DEF Inside
  <2> QED
    BY <2>2, <2>5 DEF Control
<1> QED
  BY <1>7, <1>9, <1>12, <1>13, <1>14, <1>15, <1>16 DEF Launched

-----------------------------------------------------------------------------
(* The process ends, or nothing happens.                                   *)
LEMMA RestStep ==
    ASSUME XInv, UNCHANGED <<module, frames, registers, mem, activations>>
    PROVE  XInv'
<1>1. UNCHANGED <<module, frames, pc, rsp, rbp, mem, activations>>
  BY DEF registers
<1>2. Executable' /\ Stack'
  BY <1>1 DEF XInv, Executable, Stack
<1>3. CASE NotLaunched
  BY <1>1, <1>2, <1>3 DEF XInv, NotLaunched
<1>4. CASE Launched
  <2>1. Control'
    BY <1>1, <1>4 DEF Launched, Control, Entering, Inside, BehindCall, InBlock, Current, Low
  <2>2. Launched'
    BY <1>1, <1>4, <2>1, StillKept
  <2> QED
    BY <1>2, <2>2 DEF XInv
<1> QED
  BY <1>3, <1>4 DEF XInv

LEMMA StepKeeps ==
    ASSUME XInv, [Run /\ UNCHANGED module]_<<module, runVars>>
    PROVE  XInv'
<1>1. UNCHANGED module
  OBVIOUS
<1>2. ASSUME Stack', Launched' PROVE XInv'
  BY <1>1, <1>2 DEF XInv, Executable
<1>3. CASE Launch
  BY <1>1, <1>2, <1>3, LaunchStep
<1>4. CASE Enter
  BY <1>1, <1>2, <1>4, EnterStep
<1>5. CASE Overflow
  BY <1>1, <1>5, RestStep DEF Overflow
<1>6. CASE Trap
  BY <1>1, <1>6, RestStep DEF Trap
<1>7. CASE Exit
  BY <1>1, <1>7, RestStep DEF Exit
<1>8. CASE Assigns \/ Loads \/ Computes \/ Stores \/ Back \/ Branches \/ Jumps
  BY <1>1, <1>2, <1>8, StepsInside
<1>9. CASE Calls
  BY <1>1, <1>2, <1>9, CallStep
<1>10. CASE Returns
  BY <1>1, <1>2, <1>10, ReturnStep
<1>11. CASE UNCHANGED <<module, runVars>>
  BY <1>11, RestStep DEF runVars
<1> QED
  BY <1>3, <1>4, <1>5, <1>6, <1>7, <1>8, <1>9, <1>10, <1>11 DEF Run

(* At every moment of the process of executable code the activations lie    *)
(* one below the other on the stack, each linked to the place its call came *)
(* from and holding what was stored in it, and control is in the innermost  *)
(* (codegen.cpp:119-169, 175-204, 315-331, 358-369).                        *)
THEOREM ExecutionInductive == ExecSpec => []XInv
<1>1. Idle /\ Executable => XInv
  <2> SUFFICES ASSUME Idle, Executable PROVE XInv
    OBVIOUS
  <2>1. activations = <<>> /\ frames = <<>> /\ pc = Start
    BY DEF Idle
  <2>2. Stack
    BY <2>1 DEF Stack
  <2> QED
    BY <2>1, <2>2 DEF XInv, NotLaunched
<1>2. XInv /\ [Run /\ UNCHANGED module]_<<module, runVars>> => XInv'
  BY StepKeeps
<1> QED
  BY <1>1, <1>2, PTL DEF ExecSpec

(* What an activation stored under a name is what its slot holds, however   *)
(* deep the calls and whatever was on the stack before: no two slots        *)
(* overlap, and no frame reaches into another.                              *)
THEOREM FramesAlwaysIntact == ExecSpec => []FramesIntact
<1>1. XInv => FramesIntact
  <2>1. NotLaunched => FramesIntact
    BY DEF NotLaunched, FramesIntact
  <2>2. Launched => FramesIntact
    BY DEF Launched
  <2> QED
    BY <2>1, <2>2 DEF XInv
<1> QED
  BY <1>1, ExecutionInductive, PTL

LEMMA OnlyReturnsPop ==
    ASSUME XInv, Run, Len(activations') < Len(activations)
    PROVE  Returns
<1>1. Stack /\ Len(activations) \in Nat
  BY StackIs DEF XInv
<1>2. \A v : Len([activations EXCEPT ![Len(activations)].vars = v]) = Len(activations)
  BY <1>1 DEF Stack
<1>3. \A v : Len([activations EXCEPT ![Len(activations)].temps = v]) = Len(activations)
  BY <1>1 DEF Stack
<1>4. \A a : Len(Append(activations, a)) = Len(activations) + 1
  BY <1>1 DEF Stack
<1>5. ~Enter
  <2>1. ~\E a : activations' = Append(activations, a)
    BY <1>1, <1>4
  <2> QED
    BY <2>1 DEF Enter
<1>6. ~Stores
  <2>1. ~\E v : activations' = [activations EXCEPT ![Len(activations)].vars = v]
    BY <1>1, <1>2
  <2> QED
    BY <2>1 DEF Stores, RememberVar
<1>7. \A t, n : ~StoreTemp(t, n)
  <2>1. ~\E v : activations' = [activations EXCEPT ![Len(activations)].temps = v]
    BY <1>1, <1>3
  <2> QED
    BY <2>1 DEF StoreTemp, RememberTemp
<1>8. ~UNCHANGED activations
  BY <1>1
<1> QED
  BY <1>5, <1>6, <1>7, <1>8
  DEF Run, Launch, Overflow, Assigns, Loads, Computes, Trap, Calls, Back, Branches, Jumps, Exit

(* Every return of the program ends in the place its call came from, with   *)
(* the rbp and the stack its caller had.                                    *)
THEOREM AlwaysReturnsToCaller == ExecSpec => ReturnsToCaller
<1>1. ASSUME XInv, Run, Len(activations') < Len(activations)
      PROVE  /\ pc' = Current.ret /\ rbp' = Current.rbp
             /\ Len(activations) > 1 =>
                  LET caller == activations[Len(activations) - 1]
                  IN  rbp' = caller.base /\ rsp' = caller.base - frames[caller.f].size
  <2> DEFINE caller == activations[Len(activations) - 1]
  <2>1. Returns
    BY <1>1, OnlyReturnsPop
  <2>2. pc' = Current.ret /\ rbp' = Current.rbp /\ rsp' = Current.base + 16
    BY <1>1, <2>1, ReturnIs
  <2>3. ASSUME Len(activations) > 1
        PROVE  rbp' = caller.base /\ rsp' = caller.base - frames[caller.f].size
    <3>1. /\ Executable /\ Launched /\ caller = activations[Len(activations) - 1]
          /\ Len(activations) - 1 \in DOMAIN activations
          /\ Under(frames, module, Current, caller)
      BY <1>1, <2>1, <2>3, ReturnIs
    <3>2. Low(frames, caller) \in Int
      BY <3>1, RecordedIs
    <3>3. Current.base = Low(frames, caller) - 16 /\ Current.rbp = caller.base
      BY <3>1 DEF Under
    <3> QED
      BY <2>2, <3>2, <3>3 DEF Low
  <2> QED
    BY <2>2, <2>3
<1>2. XInv /\ [Run /\ UNCHANGED module]_<<module, runVars>>
        => [Len(activations') < Len(activations) =>
              /\ pc' = Current.ret /\ rbp' = Current.rbp
              /\ Len(activations) > 1 =>
                   LET caller == activations[Len(activations) - 1]
                   IN  rbp' = caller.base /\ rsp' = caller.base - frames[caller.f].size]_runVars
  BY <1>1
<1> QED
  BY <1>2, ExecutionInductive, PTL DEF ExecSpec, ReturnsToCaller

-----------------------------------------------------------------------------
(* The blocks entered along paths that avoid some: the recursive function   *)
(* of EnteredAvoiding has the value its recursion says, and after as many   *)
(* steps as there are blocks nothing is left to enter.                      *)
EnteredStepwise(fn, avoid, r, N) ==
    /\ EnteredAvoiding(fn, avoid) = r[N] /\ r[0] = {1}
    /\ \A n \in 1..N : r[n] = r[n - 1] \cup UNION {FlowTo(fn, b) : b \in r[n - 1] \ avoid}

LEMMA EnteredIs ==
    ASSUME NEW fn, NEW N \in Nat, Len(fn.blocks) = N, 1 \in 1..N, NEW avoid,
           \A b \in 1..N : FlowTo(fn, b) \subseteq 1..N
    PROVE  \E r : EnteredStepwise(fn, avoid, r, N)
<1> DEFINE U == 1..N
           Follows(d, b) == d = b \/ (d \notin avoid /\ b \in FlowTo(fn, d))
           Path(n, b, q) == q \in [0..n -> U] /\ q[0] = 1 /\ q[n] = b
                            /\ \A k \in 1..n : Follows(q[k - 1], q[k])
           g == [n \in 0..N |-> {b \in U : \E q : Path(n, b, q)}]
           Body(r) == [n \in 0..N |->
                         IF n = 0 THEN {1}
                         ELSE LET before == r[n - 1]
                              IN  before \cup UNION {FlowTo(fn, b) : b \in before \ avoid}]
           entered == CHOOSE r : r = Body(r)
<1>1. g[0] = {1}
  <2> HIDE DEF Follows
  <2>1. Path(0, 1, [k \in 0..0 |-> 1])
    OBVIOUS
  <2>2. \A b \in U : (\E q : Path(0, b, q)) <=> b = 1
    BY <2>1
  <2>3. 0 \in 0..N
    OBVIOUS
  <2> HIDE DEF Path
  <2> QED
    BY <2>2, <2>3
<1>2. ASSUME NEW n \in 1..N, NEW b \in U
      PROVE  (\E q : Path(n, b, q)) <=> \E d \in U : Follows(d, b) /\ \E q : Path(n - 1, d, q)
  <2> HIDE DEF Follows
  <2>1. n \in 0..n /\ n - 1 \in 0..n /\ n \in 1..n /\ n \in Nat /\ n - 1 \in Nat
        /\ \A k \in 0..(n - 1) : k \in 0..n /\ k # n
    OBVIOUS
  <2>2. ASSUME NEW q, Path(n, b, q)
        PROVE  \E d \in U : Follows(d, b) /\ \E r : Path(n - 1, d, r)
    <3> DEFINE r == [k \in 0..(n - 1) |-> q[k]]
    <3>1. q[n - 1] \in U /\ Follows(q[n - 1], b)
      BY <2>1, <2>2
    <3>2. r \in [0..(n - 1) -> U]
      BY <2>1, <2>2
    <3>3. \A k \in 1..(n - 1) : Follows(r[k - 1], r[k])
      <4> SUFFICES ASSUME NEW k \in 1..(n - 1) PROVE Follows(r[k - 1], r[k])
        OBVIOUS
      <4>1. k \in 1..n /\ k - 1 \in 0..(n - 1) /\ k \in 0..(n - 1)
        OBVIOUS
      <4> QED
        BY <2>2, <4>1
    <3>4. r[0] = 1 /\ r[n - 1] = q[n - 1]
      BY <2>1, <2>2
    <3>5. Path(n - 1, q[n - 1], r)
      BY <3>2, <3>3, <3>4
    <3> QED
      BY <3>1, <3>5
  <2>3. ASSUME NEW d \in U, Follows(d, b), NEW r, Path(n - 1, d, r)
        PROVE  \E q : Path(n, b, q)
    <3> DEFINE q == [k \in 0..n |-> IF k = n THEN b ELSE r[k]]
    <3>1. q \in [0..n -> U]
      BY <2>1, <2>3
    <3>2. q[0] = 1 /\ q[n] = b
      BY <2>1, <2>3
    <3>3. \A k \in 1..n : Follows(q[k - 1], q[k])
      <4> SUFFICES ASSUME NEW k \in 1..n PROVE Follows(q[k - 1], q[k])
        OBVIOUS
      <4>1. k - 1 \in 0..(n - 1) /\ q[k - 1] = r[k - 1]
        BY <2>1
      <4>2. CASE k = n
        <5>1. q[k - 1] = d /\ q[k] = b
          BY <2>3, <3>2, <4>1, <4>2
        <5> QED
          BY <2>3, <5>1
      <4>3. CASE k # n
        <5>1. k \in 1..(n - 1) /\ q[k] = r[k]
          BY <2>1, <4>3
        <5> QED
          BY <2>3, <4>1, <5>1
      <4> QED
        BY <4>2, <4>3
    <3>4. Path(n, b, q)
      BY <3>1, <3>2, <3>3
    <3> QED
      BY <3>4
  <2> HIDE DEF Path
  <2> QED
    BY <2>2, <2>3
<1>3. ASSUME NEW n \in 1..N
      PROVE  g[n] = g[n - 1] \cup UNION {FlowTo(fn, b) : b \in g[n - 1] \ avoid}
  <2>1. n \in 0..N /\ n - 1 \in 0..N
    OBVIOUS
  <2> HIDE DEF Path
  <2>2. \A b : b \in g[n] <=> b \in U /\ \E d \in U : Follows(d, b) /\ d \in g[n - 1]
    <3>1. \A m \in 0..N : g[m] = {b \in U : \E q : Path(m, b, q)}
      OBVIOUS
    <3> HIDE DEF g, U, Follows
    <3>2. \A m \in 0..N : \A b : b \in g[m] <=> b \in U /\ \E q : Path(m, b, q)
      BY <3>1, Zenon
    <3>3. /\ \A b : b \in g[n] <=> b \in U /\ \E q : Path(n, b, q)
          /\ \A b : b \in g[n - 1] <=> b \in U /\ \E q : Path(n - 1, b, q)
      BY <2>1, <3>2
    <3>4. \A b \in U : (\E q : Path(n, b, q)) <=> \E d \in U : Follows(d, b) /\ \E q : Path(n - 1, d, q)
      BY <1>2
    <3> QED
      BY <3>3, <3>4, Zenon
  <2>3. g[n - 1] \subseteq U
    BY <2>1
  <2> HIDE DEF g
  <2>4. \A b : b \in g[n] <=> b \in g[n - 1] \cup UNION {FlowTo(fn, d) : d \in g[n - 1] \ avoid}
    BY <2>2, <2>3
  <2> QED
    BY <2>4
<1> HIDE DEF Path
<1>4. g = Body(g)
  <2>1. \A n \in 0..N : n # 0 => n \in 1..N
    OBVIOUS
  <2>2. \A n \in 0..N : g[n] = IF n = 0 THEN {1}
                               ELSE g[n - 1] \cup UNION {FlowTo(fn, b) : b \in g[n - 1] \ avoid}
    <3> HIDE DEF g
    <3> QED
      BY <1>1, <1>3, <2>1
  <2>3. g = [n \in 0..N |-> g[n]]
    OBVIOUS
  <2> HIDE DEF g
  <2> QED
    BY <2>2, <2>3
<1>5. EnteredAvoiding(fn, avoid) = entered[N]
  BY DEF EnteredAvoiding
<1> HIDE DEF g
<1>6. entered = Body(entered)
  <2> HIDE DEF Body
  <2> QED
    BY <1>4
<1> HIDE DEF entered
<1>7. \A n \in 0..N : entered[n] = IF n = 0 THEN {1}
         ELSE entered[n - 1] \cup UNION {FlowTo(fn, b) : b \in entered[n - 1] \ avoid}
  BY <1>6
<1>8. 0 \in 0..N /\ \A n \in 1..N : n \in 0..N /\ n # 0
  OBVIOUS
<1> QED
  BY <1>5, <1>7, <1>8 DEF EnteredStepwise

Graph(fn) ==
    /\ Len(fn.blocks) \in Nat /\ DOMAIN fn.blocks = 1..Len(fn.blocks) /\ fn.blocks # <<>>
    /\ \A b \in 1..Len(fn.blocks) : /\ FlowTo(fn, b) \subseteq 1..Len(fn.blocks)
                                    /\ DOMAIN fn.blocks[b].instrs \subseteq Nat \ {0}

LEMMA EnteredClosed ==
    ASSUME NEW fn, Graph(fn), NEW avoid
    PROVE  /\ 1 \in EnteredAvoiding(fn, avoid) /\ EnteredAvoiding(fn, avoid) \subseteq 1..Len(fn.blocks)
           /\ \A b \in EnteredAvoiding(fn, avoid) \ avoid : FlowTo(fn, b) \subseteq EnteredAvoiding(fn, avoid)
<1> DEFINE N == Len(fn.blocks)
           Closed(S) == \A b \in S \ avoid : FlowTo(fn, b) \subseteq S
<1>1. N \in Nat /\ N >= 1 /\ \A b \in 1..N : FlowTo(fn, b) \subseteq 1..N
  BY DEF Graph
<1>2. Len(fn.blocks) = N /\ 1 \in 1..N
  BY <1>1
<1> HIDE DEF N
<1>3. PICK r : EnteredStepwise(fn, avoid, r, N)
  BY <1>1, <1>2, EnteredIs
<1>4. /\ EnteredAvoiding(fn, avoid) = r[N] /\ r[0] = {1}
      /\ \A n \in 1..N : r[n] = r[n - 1] \cup UNION {FlowTo(fn, b) : b \in r[n - 1] \ avoid}
  BY <1>3 DEF EnteredStepwise
<1> DEFINE Grown(n) == /\ 1 \in r[n] /\ r[n] \subseteq 1..N
                       /\ Closed(r[n]) \/ Cardinality(r[n]) >= n + 1
<1>5. \A S \in SUBSET (1..N) : IsFiniteSet(S) /\ Cardinality(S) \in Nat /\ Cardinality(S) <= N
  <2>1. IsFiniteSet(1..N) /\ Cardinality(1..N) = N
    BY <1>1, FS_Interval
  <2> QED
    BY <2>1, FS_Subset, FS_CardinalityType
<1>6. Grown(0)
  <2>1. Cardinality({1}) = 1
    BY FS_Singleton
  <2> QED
    BY <1>1, <1>4, <2>1
<1>7. ASSUME NEW n \in 1..N, Grown(n - 1) PROVE Grown(n)
  <2> DEFINE more == UNION {FlowTo(fn, b) : b \in r[n - 1] \ avoid}
  <2>1. r[n] = r[n - 1] \cup more
    BY <1>4
  <2>2. 1 \in r[n] /\ r[n] \subseteq 1..N /\ r[n - 1] \subseteq 1..N
    BY <1>1, <1>7, <2>1
  <2>3. CASE Closed(r[n - 1])
    <3>1. r[n] = r[n - 1]
      BY <2>1, <2>3
    <3> QED
      BY <2>2, <2>3, <3>1
  <2>4. CASE ~Closed(r[n - 1])
    <3>1. r[n] # r[n - 1] /\ r[n - 1] \subseteq r[n]
      BY <2>1, <2>4
    <3>2. Cardinality(r[n - 1]) >= n
      BY <1>7, <2>4
    <3>3. Cardinality(r[n]) # Cardinality(r[n - 1]) /\ Cardinality(r[n - 1]) <= Cardinality(r[n])
      BY <1>5, <2>2, <3>1, FS_Subset
    <3>4. Cardinality(r[n]) \in Nat /\ Cardinality(r[n - 1]) \in Nat
      BY <1>5, <2>2
    <3>5. Cardinality(r[n]) >= n + 1
      BY <3>2, <3>3, <3>4
    <3> QED
      BY <2>2, <3>5
  <2> QED
    BY <2>3, <2>4
<1> HIDE DEF Grown
<1>8. \A n \in 0..N : Grown(n)
  <2> DEFINE T == {n \in 0..N : ~Grown(n)}
  <2>1. ASSUME T # {} PROVE FALSE
    <3>0. T \subseteq Nat
      BY <1>1
    <3>1. PICK m \in T : \A k \in T : m <= k
      <4> HIDE DEF T
      <4> QED
        BY <2>1, <3>0, LeastNumber
    <3>2. m \in 0..N /\ ~Grown(m) /\ m # 0
      BY <1>6
    <3>3. m \in 1..N /\ m - 1 \in 0..N /\ ~(m <= m - 1)
      BY <1>1, <3>2
    <3>4. Grown(m - 1)
      BY <3>1, <3>3
    <3> QED
      BY <1>7, <3>2, <3>3, <3>4
  <2> QED
    BY <2>1
<1>9. Grown(N)
  BY <1>1, <1>8
<1>10. Closed(r[N])
  <2>1. r[N] \subseteq 1..N /\ (Closed(r[N]) \/ Cardinality(r[N]) >= N + 1)
    BY <1>9 DEF Grown
  <2>2. Cardinality(r[N]) \in Nat /\ Cardinality(r[N]) <= N
    BY <1>5, <2>1
  <2> QED
    BY <1>1, <2>1, <2>2
<1> QED
  BY <1>9, <1>10, <1>4 DEF Grown, N

LEMMA PositionIs ==
    ASSUME NEW fn, Graph(fn), NEW p \in Positions(fn)
    PROVE  /\ p = <<p[1], p[2]>> /\ p[1] \in 1..Len(fn.blocks) /\ p[2] \in Nat \ {0}
           /\ p[2] \in DOMAIN fn.blocks[p[1]].instrs
BY DEF Graph, Positions, Labels

(* Where control is, by the flow of a function, and what it has passed     *)
(* before when it moves on, when it leaves a block and when it starts.     *)
Reaches(fn, p) == p \in Positions(fn) /\ Live(fn, p) /\ p[1] \in Reachable(fn)

LEMMA NextFlows ==
    ASSUME NEW fn, Graph(fn), NEW b, NEW k, Reaches(fn, <<b, k>>), <<b, k + 1>> \in Positions(fn),
           At(fn, <<b, k>>).tag \notin Terminators
    PROVE  /\ Reaches(fn, <<b, k + 1>>)
           /\ \A ps \in SUBSET Positions(fn) :
                 PassedBefore(fn, <<b, k + 1>>, ps) => PassedBefore(fn, <<b, k>>, ps) \/ <<b, k>> \in ps
<1>1. <<b, k>> \in Positions(fn) /\ Live(fn, <<b, k>>) /\ b \in Reachable(fn)
  BY DEF Reaches
<1>2. b \in 1..Len(fn.blocks) /\ k \in Nat /\ k \in DOMAIN fn.blocks[b].instrs
  BY <1>1, PositionIs
<1>3. Exits(fn, b) \subseteq Nat
  BY <1>2 DEF Graph, Exits
<1>4. k \notin Exits(fn, b)
  BY DEF At, Exits
<1>5. Live(fn, <<b, k + 1>>)
  BY <1>1, <1>2, <1>3, <1>4 DEF Live
<1>6. ASSUME NEW ps \in SUBSET Positions(fn), PassedBefore(fn, <<b, k + 1>>, ps), <<b, k>> \notin ps
      PROVE  PassedBefore(fn, <<b, k>>, ps)
  <2>1. CASE \E q \in ps : q[1] = b /\ q[2] < k + 1
    <3>1. PICK q \in ps : q[1] = b /\ q[2] < k + 1
      BY <2>1
    <3>2. q[2] \in Nat /\ q = <<q[1], q[2]>>
      BY PositionIs
    <3>3. q[2] # k
      BY <1>6, <3>1, <3>2
    <3>4. q[2] < k
      BY <1>2, <3>1, <3>2, <3>3
    <3> QED
      BY <3>1, <3>4 DEF PassedBefore
  <2>2. CASE b \notin EnteredAvoiding(fn, {q[1] : q \in {r \in ps : Live(fn, r)}})
    BY <2>2 DEF PassedBefore
  <2> QED
    BY <1>6, <2>1, <2>2 DEF PassedBefore
<1> QED
  BY <1>1, <1>5, <1>6 DEF Reaches

LEMMA JumpFlows ==
    ASSUME NEW fn, Graph(fn), NEW b, NEW k, Reaches(fn, <<b, k>>),
           At(fn, <<b, k>>).tag \in Terminators,
           NEW l \in Targets(At(fn, <<b, k>>)), <<l, 1>> \in Positions(fn)
    PROVE  /\ Reaches(fn, <<l, 1>>)
           /\ \A ps \in SUBSET Positions(fn) :
                 PassedBefore(fn, <<l, 1>>, ps) => PassedBefore(fn, <<b, k>>, ps) \/ <<b, k>> \in ps
<1>1. <<b, k>> \in Positions(fn) /\ Live(fn, <<b, k>>) /\ b \in Reachable(fn)
  BY DEF Reaches
<1>2. /\ b \in 1..Len(fn.blocks) /\ k \in Nat /\ k \in DOMAIN fn.blocks[b].instrs
      /\ l \in 1..Len(fn.blocks)
  BY <1>1, PositionIs
<1>3. k \in Exits(fn, b) /\ l \in FlowTo(fn, b)
  BY <1>1, <1>2 DEF At, Exits, FlowTo
<1>4. ASSUME NEW avoid, b \in EnteredAvoiding(fn, avoid), b \notin avoid
      PROVE  l \in EnteredAvoiding(fn, avoid)
  BY <1>3, <1>4, EnteredClosed
<1>5. l \in Reachable(fn)
  BY <1>1, <1>4 DEF Reachable
<1>6. Live(fn, <<l, 1>>)
  <2>1. Exits(fn, l) \subseteq Nat \ {0}
    BY <1>2 DEF Graph, Exits
  <2> QED
    BY <2>1 DEF Live
<1>7. ASSUME NEW ps \in SUBSET Positions(fn), PassedBefore(fn, <<l, 1>>, ps), <<b, k>> \notin ps
      PROVE  PassedBefore(fn, <<b, k>>, ps)
  <2> DEFINE avoid == {q[1] : q \in {r \in ps : Live(fn, r)}}
  <2>1. l \notin EnteredAvoiding(fn, avoid)
    <3>1. \A q \in ps : q[2] \in Nat \ {0}
      BY PositionIs
    <3>2. ~\E q \in ps : q[1] = l /\ q[2] < 1
      BY <3>1
    <3> QED
      BY <1>7, <3>2 DEF PassedBefore
  <2>2. CASE b \notin EnteredAvoiding(fn, avoid)
    BY <2>2 DEF PassedBefore
  <2>3. CASE b \in avoid
    <3>1. PICK q \in ps : q[1] = b /\ Live(fn, q)
      BY <2>3
    <3>2. q[2] \in Nat /\ q = <<q[1], q[2]>>
      BY PositionIs
    <3>3. q[2] <= k
      BY <1>3, <3>1 DEF Live
    <3>4. q[2] < k
      BY <1>2, <1>7, <3>1, <3>2, <3>3
    <3> QED
      BY <3>1, <3>4 DEF PassedBefore
  <2> QED
    BY <1>4, <2>1, <2>2, <2>3
<1> QED
  BY <1>5, <1>6, <1>7 DEF Reaches

LEMMA StartFlows ==
    ASSUME NEW fn, Graph(fn), <<1, 1>> \in Positions(fn)
    PROVE  /\ Reaches(fn, <<1, 1>>)
           /\ \A ps \in SUBSET Positions(fn) : ~PassedBefore(fn, <<1, 1>>, ps)
<1>1. Exits(fn, 1) \subseteq Nat \ {0}
  BY PositionIs DEF Graph, Exits
<1>2. Live(fn, <<1, 1>>)
  BY <1>1 DEF Live
<1>3. \A avoid : 1 \in EnteredAvoiding(fn, avoid)
  BY EnteredClosed
<1>4. ASSUME NEW ps \in SUBSET Positions(fn) PROVE ~PassedBefore(fn, <<1, 1>>, ps)
  <2>1. \A q \in ps : q[2] \in Nat \ {0}
    BY PositionIs
  <2> QED
    BY <1>3, <2>1 DEF PassedBefore
<1> QED
  BY <1>2, <1>3, <1>4 DEF Reaches, Reachable

-----------------------------------------------------------------------------
(* What an activation remembers at the place it is at: all that the paths  *)
(* there have in common.  The place of a caller is behind its call.        *)
DefinedIn(fn) == {At(fn, p).dst : p \in Positions(fn)} \ {NoTemp}
StoredIn(fn)  == {At(fn, p).sym : p \in {q \in Positions(fn) : At(fn, q).tag = "store"}}
Remembers(fn, p, a) ==
    /\ Reaches(fn, p)
    /\ \A t \in DefinedIn(fn) : PassedBefore(fn, p, DefsOf(fn, t)) => t \in DOMAIN a.temps
    /\ \A x \in StoredIn(fn) : PassedBefore(fn, p, StoresTo(fn, x)) => x \in DOMAIN a.vars
    /\ Range(fn.params) \subseteq DOMAIN a.vars

(* The place of activation d of `as` when control is at p; t is the word at *)
(* the top of the stack, the return address of a function being entered.   *)
Spot(as, p, t, d) == IF d < Len(as) THEN as[d + 1].ret
                     ELSE IF p.stage = "enter" THEN t ELSE p
RemembersAt(cs, as, p, t, d) ==
    Remembers(cs[as[d].f], <<Spot(as, p, t, d).b, Spot(as, p, t, d).k>>, as[d])
Remembered == \A d \in DOMAIN activations : RemembersAt(module, activations, pc, mem[rsp].to, d)

(* What the lowering promises of a function (module IRCheck); only that its *)
(* parameters fit the registers is up to the program (codegen.cpp:319).    *)
WellRead(fn) ==
    /\ Len(fn.params) <= MaxRegArgs
    /\ DefinedOnEveryPath(fn) /\ StoredOnEveryPath(fn)
    /\ \A p \in Positions(fn) : NoTemp \notin Uses(At(fn, p))
AllWellRead == \A f \in DOMAIN module : WellRead(module[f])

RInv == XInv /\ AllWellRead /\ Remembered

LEMMA GraphOf ==
    ASSUME Executable, NEW f \in DOMAIN module
    PROVE  /\ Graph(module[f])
           /\ \A b \in DOMAIN module[f].blocks : \A k \in DOMAIN module[f].blocks[b].instrs :
                 <<b, k>> \in Positions(module[f]) /\ At(module[f], <<b, k>>) = module[f].blocks[b].instrs[k]
<1> DEFINE fn == module[f]
<1>1. fn.blocks \in Seq(BasicBlock) /\ 1 \in DOMAIN fn.blocks
  BY CodeIs DEF Function
<1>2. Len(fn.blocks) \in Nat /\ DOMAIN fn.blocks = 1..Len(fn.blocks) /\ fn.blocks # <<>>
  BY <1>1
<1>3. ASSUME NEW b \in DOMAIN fn.blocks
      PROVE  /\ DOMAIN fn.blocks[b].instrs \subseteq Nat \ {0}
             /\ \A k \in DOMAIN fn.blocks[b].instrs :
                   /\ Targets(fn.blocks[b].instrs[k]) \subseteq DOMAIN fn.blocks
                   /\ At(fn, <<b, k>>) = fn.blocks[b].instrs[k]
                   /\ <<b, k>> \in Positions(fn)
  <2>1. fn.blocks[b].instrs \in Seq(Instruction)
    BY CodeIs
  <2>2. DOMAIN fn.blocks[b].instrs \subseteq Nat \ {0}
    BY <2>1
  <2>3. \A k \in DOMAIN fn.blocks[b].instrs : Targets(fn.blocks[b].instrs[k]) \subseteq DOMAIN fn.blocks
    BY CodeIs
  <2>4. \A k : At(fn, <<b, k>>) = fn.blocks[b].instrs[k]
    BY DEF At
  <2>5. \A k \in DOMAIN fn.blocks[b].instrs : <<b, k>> \in Positions(fn)
    BY DEF Positions, Labels
  <2> QED
    BY <2>2, <2>3, <2>4, <2>5
<1>4. ASSUME NEW b \in DOMAIN fn.blocks PROVE FlowTo(fn, b) \subseteq DOMAIN fn.blocks
  <2> HIDE DEF fn
  <2>1. \A k \in DOMAIN fn.blocks[b].instrs : Targets(At(fn, <<b, k>>)) \subseteq DOMAIN fn.blocks
    BY <1>3
  <2>2. Exits(fn, b) \subseteq DOMAIN fn.blocks[b].instrs
    BY DEF Exits
  <2> QED
    BY <2>1, <2>2 DEF FlowTo
<1> HIDE DEF fn
<1>5. Graph(fn)
  BY <1>2, <1>3, <1>4 DEF Graph
<1> QED
  BY <1>3, <1>5 DEF fn

(* Moving on in a function, with what its instruction stored remembered.   *)
LEMMA MovedOn ==
    ASSUME NEW fn, NEW p, NEW q, NEW a, NEW c, Remembers(fn, p, a), Reaches(fn, q),
           \A ps \in SUBSET Positions(fn) : PassedBefore(fn, q, ps) => PassedBefore(fn, p, ps) \/ p \in ps,
           DOMAIN a.vars \subseteq DOMAIN c.vars, DOMAIN a.temps \subseteq DOMAIN c.temps,
           At(fn, p).dst # NoTemp => At(fn, p).dst \in DOMAIN c.temps,
           At(fn, p).tag = "store" => At(fn, p).sym \in DOMAIN c.vars
    PROVE  Remembers(fn, q, c)
<1>1. ASSUME NEW t \in DefinedIn(fn), PassedBefore(fn, q, DefsOf(fn, t)) PROVE t \in DOMAIN c.temps
  <2>1. DefsOf(fn, t) \in SUBSET Positions(fn) /\ t # NoTemp
    BY DEF DefsOf, DefinedIn
  <2>2. CASE PassedBefore(fn, p, DefsOf(fn, t))
    BY <2>2 DEF Remembers
  <2>3. CASE p \in DefsOf(fn, t)
    BY <2>1, <2>3 DEF DefsOf
  <2> QED
    BY <1>1, <2>1, <2>2, <2>3
<1>2. ASSUME NEW x \in StoredIn(fn), PassedBefore(fn, q, StoresTo(fn, x)) PROVE x \in DOMAIN c.vars
  <2>1. StoresTo(fn, x) \in SUBSET Positions(fn)
    BY DEF StoresTo
  <2>2. CASE PassedBefore(fn, p, StoresTo(fn, x))
    BY <2>2 DEF Remembers
  <2>3. CASE p \in StoresTo(fn, x)
    BY <2>3 DEF StoresTo
  <2> QED
    BY <1>2, <2>1, <2>2, <2>3
<1> QED
  BY <1>1, <1>2 DEF Remembers

(* Only the activation at hand changes, and it goes from p to q.            *)
LEMMA LastGoesOn ==
    ASSUME NEW cs, NEW as, NEW bs, NEW p, NEW q, NEW t, NEW u, NEW n \in Nat,
           Len(as) = n, Len(bs) = n, DOMAIN as = 1..n, DOMAIN bs = 1..n,
           \A d \in 1..n : d # n => bs[d] = as[d], bs[n].ret = as[n].ret,
           q.stage # "enter", \A d \in DOMAIN as : RemembersAt(cs, as, p, t, d),
           Remembers(cs[bs[n].f], <<q.b, q.k>>, bs[n])
    PROVE  \A d \in DOMAIN bs : RemembersAt(cs, bs, q, u, d)
<1> SUFFICES ASSUME NEW d \in 1..n PROVE RemembersAt(cs, bs, q, u, d)
  OBVIOUS
<1>1. CASE d = n
  <2>1. Spot(bs, q, u, d) = q
    BY <1>1 DEF Spot
  <2> QED
    BY <1>1, <2>1 DEF RemembersAt
<1>2. CASE d # n
  <2>1. d < n /\ d + 1 \in 1..n
    BY <1>2
  <2>2. bs[d + 1].ret = as[d + 1].ret
    BY <2>1
  <2>3. Spot(bs, q, u, d) = Spot(as, p, t, d)
    BY <2>1, <2>2 DEF Spot
  <2> QED
    BY <1>2, <2>3 DEF RemembersAt
<1> QED
  BY <1>1, <1>2

(* The record of the activation at hand becomes c, and nothing else does.   *)
LastIs(c) ==
    /\ Len(activations') = Len(activations) /\ DOMAIN activations' = DOMAIN activations
    /\ activations'[Len(activations)] = c
    /\ \A d \in DOMAIN activations : d # Len(activations) => activations'[d] = activations[d]

LEMMA LastReplaced ==
    ASSUME Stack, activations # <<>>, NEW c, activations' = [activations EXCEPT ![Len(activations)] = c]
    PROVE  LastIs(c)
<1>1. activations \in Seq(Range(activations))
  BY DEF Stack
<1>2. Len(activations) \in DOMAIN activations
  BY <1>1
<1> QED
  BY <1>1, <1>2 DEF LastIs

(* Control at an instruction: its function, and what is remembered there.   *)
LEMMA HereIs ==
    ASSUME RInv, pc.stage \in {"at", "back"}
    PROVE  /\ Executable /\ Stack /\ Launched /\ Inside
           /\ Len(activations) \in Nat /\ DOMAIN activations = 1..Len(activations)
           /\ Len(activations) \in DOMAIN activations /\ activations # <<>>
           /\ pc.f \in DOMAIN module /\ pc.f = Current.f /\ ThisFn = module[pc.f]
           /\ pc.b \in DOMAIN ThisFn.blocks /\ pc.k \in DOMAIN ThisFn.blocks[pc.b].instrs
           /\ Graph(ThisFn) /\ <<pc.b, pc.k>> \in Positions(ThisFn)
           /\ At(ThisFn, <<pc.b, pc.k>>) = Instr0
           /\ Remembers(ThisFn, <<pc.b, pc.k>>, Current)
<1>1. Executable /\ Stack /\ Launched /\ Inside
  BY StageIs DEF RInv, XInv
<1>2. /\ Len(activations) \in Nat /\ DOMAIN activations = 1..Len(activations)
      /\ Len(activations) \in DOMAIN activations /\ activations # <<>>
  BY <1>1, StackIs DEF Inside
<1>3. /\ pc.f \in DOMAIN module /\ pc.f = Current.f /\ ThisFn = module[pc.f]
      /\ pc.b \in DOMAIN ThisFn.blocks /\ Instrs = ThisFn.blocks[pc.b].instrs
      /\ pc.k \in DOMAIN Instrs
  BY <1>1, InsideIs
<1>4. Graph(ThisFn) /\ <<pc.b, pc.k>> \in Positions(ThisFn) /\ At(ThisFn, <<pc.b, pc.k>>) = Instr0
  BY <1>1, <1>3, GraphOf DEF Instr0
<1>5. Spot(activations, pc, mem[rsp].to, Len(activations)) = pc
  BY <1>2 DEF Spot
<1>6. Remembers(ThisFn, <<pc.b, pc.k>>, Current)
  BY <1>2, <1>3, <1>5 DEF RInv, Remembered, RemembersAt, Current
<1> QED
  BY <1>1, <1>2, <1>3, <1>4, <1>6

(* Where the next step inside a function leads.                             *)
Onward == \/ Proceed /\ Instr0.tag \notin Terminators
          \/ Instr0.tag \in Terminators /\ \E l \in Targets(Instr0) : Goto(l)

LEMMA OnwardFlows ==
    ASSUME RInv, pc.stage \in {"at", "back"}, Onward
    PROVE  /\ pc'.stage = "at" /\ Reaches(ThisFn, <<pc'.b, pc'.k>>)
           /\ \A ps \in SUBSET Positions(ThisFn) :
                 PassedBefore(ThisFn, <<pc'.b, pc'.k>>, ps)
                    => PassedBefore(ThisFn, <<pc.b, pc.k>>, ps) \/ <<pc.b, pc.k>> \in ps
<1>1. /\ Executable /\ pc.f \in DOMAIN module /\ ThisFn = module[pc.f]
      /\ pc.b \in DOMAIN ThisFn.blocks /\ pc.k \in DOMAIN ThisFn.blocks[pc.b].instrs
      /\ Graph(ThisFn) /\ At(ThisFn, <<pc.b, pc.k>>) = Instr0
      /\ Instr0 = ThisFn.blocks[pc.b].instrs[pc.k]
  BY HereIs DEF Instr0, Instrs
<1>2. Reaches(ThisFn, <<pc.b, pc.k>>)
  BY HereIs DEF Remembers
<1>3. CASE Proceed /\ Instr0.tag \notin Terminators
  <2>1. pc'.b = pc.b /\ pc'.k = pc.k + 1 /\ pc'.stage = "at"
    BY <1>3 DEF Proceed, Place
  <2>2. pc.k + 1 \in DOMAIN ThisFn.blocks[pc.b].instrs
    BY <1>1, <1>3, CodeIs
  <2>3. <<pc.b, pc.k + 1>> \in Positions(ThisFn)
    BY <1>1, <2>2, GraphOf
  <2> QED
    BY <1>1, <1>2, <1>3, <2>1, <2>3, NextFlows
<1>4. CASE Instr0.tag \in Terminators /\ \E l \in Targets(Instr0) : Goto(l)
  <2>1. PICK l \in Targets(Instr0) : pc' = Place(pc.f, l, 1, "at")
    BY <1>4 DEF Goto
  <2>2. pc'.b = l /\ pc'.k = 1 /\ pc'.stage = "at"
    BY <2>1 DEF Place
  <2>3. l \in DOMAIN ThisFn.blocks
    <3>1. Targets(ThisFn.blocks[pc.b].instrs[pc.k]) \subseteq DOMAIN ThisFn.blocks
      BY <1>1, CodeIs
    <3> QED
      BY <1>1, <3>1
  <2>4. 1 \in DOMAIN ThisFn.blocks[l].instrs
    BY <1>1, <2>3, CodeIs
  <2>5. <<l, 1>> \in Positions(ThisFn)
    BY <1>1, <2>3, <2>4, GraphOf
  <2> QED
    BY <1>1, <1>2, <1>4, <2>1, <2>2, <2>5, JumpFlows
<1> QED
  BY <1>3, <1>4 DEF Onward

LEMMA InsideRemembers ==
    ASSUME RInv, pc.stage \in {"at", "back"}, UNCHANGED module,
           NEW c, LastIs(c), c.f = Current.f, c.ret = Current.ret,
           DOMAIN Current.vars \subseteq DOMAIN c.vars, DOMAIN Current.temps \subseteq DOMAIN c.temps,
           Instr0.dst # NoTemp => Instr0.dst \in DOMAIN c.temps,
           Instr0.tag = "store" => Instr0.sym \in DOMAIN c.vars, Onward
    PROVE  Remembered'
<1>1. /\ Len(activations) \in Nat /\ DOMAIN activations = 1..Len(activations)
      /\ ThisFn = module[Current.f] /\ At(ThisFn, <<pc.b, pc.k>>) = Instr0
      /\ Remembers(ThisFn, <<pc.b, pc.k>>, Current)
  BY HereIs
<1>2. pc'.stage = "at" /\ Remembers(ThisFn, <<pc'.b, pc'.k>>, c)
  BY <1>1, OnwardFlows, MovedOn
<1> DEFINE n == Len(activations)
<1>3. /\ n \in Nat /\ Len(activations) = n /\ DOMAIN activations = 1..n
      /\ Len(activations') = n /\ DOMAIN activations' = 1..n
      /\ activations'[n] = c /\ activations'[n].ret = activations[n].ret
      /\ \A d \in 1..n : d # n => activations'[d] = activations[d]
  BY <1>1 DEF LastIs, Current
<1>4. Remembers(module'[activations'[n].f], <<pc'.b, pc'.k>>, activations'[n])
  BY <1>1, <1>2, <1>3
<1>5. \A d \in DOMAIN activations : RemembersAt(module', activations, pc, mem[rsp].to, d)
  BY DEF RInv, Remembered
<1>6. pc'.stage # "enter"
  BY <1>2
<1> HIDE DEF n
<1>7. \A d \in DOMAIN activations' : RemembersAt(module', activations', pc', mem'[rsp'].to, d)
  BY <1>3, <1>4, <1>5, <1>6, LastGoesOn, ZenonT(60)
<1> QED
  BY <1>7 DEF Remembered

LEMMA TempRemembered ==
    ASSUME RInv, pc.stage \in {"at", "back"}, UNCHANGED module,
           Instr0.tag \notin Terminators \cup {"store"}, NEW n, StoreTemp(Instr0.dst, n)
    PROVE  Remembered'
<1>1. PICK c : c = WithTemp(Current, Instr0.dst, n)
  OBVIOUS
<1>2. /\ Executable /\ Stack /\ Launched /\ activations # <<>>
      /\ Len(activations) \in DOMAIN activations
  BY HereIs
<1>3. Shaped(Current)
  BY <1>2, RecordedIs DEF Current
<1>4. c.f = Current.f /\ c.ret = Current.ret /\ c.vars = Current.vars
      /\ c.temps = Put(Current.temps, Instr0.dst, n)
  BY <1>1, <1>3, WithShapes
<1>5. DOMAIN c.temps = DOMAIN Current.temps \cup {Instr0.dst}
  BY <1>4, Zenon DEF Put
<1>6. activations' = [activations EXCEPT ![Len(activations)] = c]
  BY <1>1 DEF StoreTemp, RememberTemp, WithTemp, Current
<1>7. LastIs(c)
  BY <1>2, <1>6, LastReplaced
<1>8. Onward
  BY DEF Onward, StoreTemp
<1> QED
  BY <1>4, <1>5, <1>7, <1>8, InsideRemembers

LEMMA VarRemembered ==
    ASSUME RInv, Stores, UNCHANGED module
    PROVE  Remembered'
<1>0. pc.stage = "at" /\ Instr0.tag = "store"
  BY DEF Stores, AtInstr, Running
<1>1. PICK c : c = WithVar(Current, Instr0.sym, Operand(1))
  OBVIOUS
<1>2. /\ Executable /\ Stack /\ Launched /\ Inside /\ activations # <<>>
      /\ Len(activations) \in DOMAIN activations
  BY <1>0, HereIs
<1>3. Shaped(Current) /\ Instr0.dst = NoTemp
  BY <1>0, <1>2, RecordedIs, InsideIs DEF Current, Instruction, Complete
<1>4. c.f = Current.f /\ c.ret = Current.ret /\ c.temps = Current.temps
      /\ c.vars = Put(Current.vars, Instr0.sym, Operand(1))
  BY <1>1, <1>3, WithShapes
<1>5. DOMAIN c.vars = DOMAIN Current.vars \cup {Instr0.sym}
  BY <1>4, Zenon DEF Put
<1>6. activations' = [activations EXCEPT ![Len(activations)] = c]
  BY <1>1 DEF Stores, RememberVar, WithVar, Current
<1>7. LastIs(c)
  BY <1>2, <1>6, LastReplaced
<1>8. Onward
  BY <1>0 DEF Onward, Stores, Terminators
<1> QED
  BY <1>0, <1>3, <1>4, <1>5, <1>7, <1>8, InsideRemembers

(* The activations stay as they are.                                        *)
LEMMA StillRemembered ==
    ASSUME RInv, pc.stage \in {"at", "back"}, UNCHANGED <<module, activations>>, Onward,
           Instr0.dst = NoTemp, Instr0.tag # "store"
    PROVE  Remembered'
<1>1. LastIs(Current)
  BY DEF LastIs, Current
<1> QED
  BY <1>1, InsideRemembers

LEMMA InsideStepsRemember ==
    ASSUME RInv, UNCHANGED module,
           Assigns \/ Loads \/ Computes \/ Stores \/ Back \/ Branches \/ Jumps
    PROVE  Remembered'
<1>1. pc.stage \in {"at", "back"} => Instr0 \in Instruction
  BY HereIs, InsideIs
<1>2. CASE Assigns \/ Loads \/ Computes
  <2>1. pc.stage = "at" /\ Instr0.tag \in {"assign", "load", "unop", "binop"}
    BY <1>2 DEF Assigns, Loads, Computes, AtInstr, Running
  <2>2. Instr0.tag \notin Terminators \cup {"store"}
    BY <2>1 DEF Terminators
  <2>3. \E n : StoreTemp(Instr0.dst, n)
    BY <1>2 DEF Assigns, Loads, Computes
  <2> QED
    BY <2>1, <2>2, <2>3, TempRemembered
<1>3. CASE Stores
  BY <1>3, VarRemembered
<1>4. CASE Back
  <2>1. pc.stage = "back" /\ Instr0.tag = "call"
    BY <1>4, StageIs DEF Back, Running, RInv
  <2>2. CASE Instr0.dst # NoTemp
    BY <1>4, <2>1, <2>2, TempRemembered DEF Back, Terminators
  <2>3. CASE Instr0.dst = NoTemp
    <3>1. Onward /\ UNCHANGED activations
      BY <1>4, <2>1, <2>3 DEF Back, Onward, Terminators
    <3> QED
      BY <2>1, <2>3, <3>1, StillRemembered
  <2> QED
    BY <2>2, <2>3
<1>5. CASE Branches \/ Jumps
  <2>1. pc.stage = "at" /\ Instr0.tag \in {"branch", "jump"} /\ UNCHANGED activations
    BY <1>5 DEF Branches, Jumps, AtInstr, Running
  <2>2. Instr0.to \in Seq(Nat) /\ Instr0.dst = NoTemp
        /\ Len(Instr0.to) = IF Instr0.tag = "branch" THEN 2 ELSE 1
    BY <1>1, <2>1 DEF Instruction, Complete
  <2>3. \E l \in Targets(Instr0) : Goto(l)
    <3>1. CASE Branches
      <4>1. {1, 2} \subseteq DOMAIN Instr0.to
        BY <2>2, <3>1 DEF Branches, AtInstr
      <4> QED
        BY <3>1, <4>1 DEF Branches, Targets
    <3>2. CASE Jumps
      <4>1. 1 \in DOMAIN Instr0.to
        BY <2>2, <3>2 DEF Jumps, AtInstr
      <4> QED
        BY <3>2, <4>1 DEF Jumps, Targets
    <3> QED
      BY <1>5, <3>1, <3>2
  <2>4. Onward
    BY <2>1, <2>3 DEF Onward, Terminators
  <2> QED
    BY <2>1, <2>2, <2>4, StillRemembered
<1> QED
  BY <1>2, <1>3, <1>4, <1>5

(* A call is remembered as the place of the caller, whose function has not  *)
(* moved on.                                                                *)
LEMMA CallRemembers ==
    ASSUME RInv, Calls, UNCHANGED module
    PROVE  Remembered'
<1>1. pc.stage = "at" /\ activations' = activations
      /\ pc' = Place(Callee(Instr0.sym), 1, 1, "enter") /\ rsp' = rsp - 8
      /\ mem' = Put(mem, rsp - 8, [n |-> 0, to |-> [pc EXCEPT !.stage = "back"]])
  BY DEF Calls, AtInstr, Running, Written
<1>2. /\ Executable /\ Stack /\ Launched /\ Inside
      /\ Len(activations) \in Nat /\ DOMAIN activations = 1..Len(activations)
  BY <1>1, HereIs
<1>3. mem'[rsp'].to = Place(pc.f, pc.b, pc.k, "back")
  <2>1. mem'[rsp'] = [n |-> 0, to |-> [pc EXCEPT !.stage = "back"]]
    BY <1>1, PutIs
  <2>2. pc = Place(pc.f, pc.b, pc.k, pc.stage)
    BY <1>2 DEF Inside, InBlock
  <2>3. [pc EXCEPT !.stage = "back"] = Place(pc.f, pc.b, pc.k, "back")
    BY <2>2, PlaceIs
  <2> QED
    BY <2>1, <2>3
<1>4. mem'[rsp'].to.b = pc.b /\ mem'[rsp'].to.k = pc.k /\ pc'.stage = "enter"
  BY <1>1, <1>3 DEF Place
<1>5. ASSUME NEW d \in DOMAIN activations
      PROVE  RemembersAt(module', activations', pc', mem'[rsp'].to, d)
  <2>1. RemembersAt(module, activations, pc, mem[rsp].to, d)
    BY DEF RInv, Remembered
  <2>2. /\ Spot(activations, pc', mem'[rsp'].to, d).b = Spot(activations, pc, mem[rsp].to, d).b
        /\ Spot(activations, pc', mem'[rsp'].to, d).k = Spot(activations, pc, mem[rsp].to, d).k
    BY <1>1, <1>4 DEF Spot
  <2> QED
    BY <1>1, <2>1, <2>2 DEF RemembersAt
<1> QED
  BY <1>1, <1>5 DEF Remembered
(* The prologue stores the parameters, and nothing else is needed there.    *)
LEMMA EnteredRemembers ==
    ASSUME RInv, Enter, NEW a, a = NewActivation(ThisFn)
    PROVE  Remembers(ThisFn, <<1, 1>>, a)
<1>1. Executable /\ pc.f \in DOMAIN module /\ ThisFn = module[pc.f]
  BY StageIs, EnteringIs DEF RInv, Enter, Running
<1>2. Graph(ThisFn) /\ <<1, 1>> \in Positions(ThisFn) /\ ThisFn.params \in Seq(Symbols)
  <2>1. 1 \in DOMAIN ThisFn.blocks /\ 1 \in DOMAIN ThisFn.blocks[1].instrs /\ ThisFn \in Function
    BY <1>1, CodeIs
  <2> QED
    BY <1>1, <2>1, GraphOf DEF Function
<1>3. /\ Reaches(ThisFn, <<1, 1>>)
      /\ \A ps \in SUBSET Positions(ThisFn) : ~PassedBefore(ThisFn, <<1, 1>>, ps)
  BY <1>2, StartFlows
<1>4. \A t : ~PassedBefore(ThisFn, <<1, 1>>, DefsOf(ThisFn, t))
  <2>1. \A t : DefsOf(ThisFn, t) \in SUBSET Positions(ThisFn)
    BY DEF DefsOf
  <2> QED
    BY <1>3, <2>1
<1>5. \A x : ~PassedBefore(ThisFn, <<1, 1>>, StoresTo(ThisFn, x))
  <2>1. \A x : StoresTo(ThisFn, x) \in SUBSET Positions(ThisFn)
    BY DEF StoresTo
  <2> QED
    BY <1>3, <2>1
<1>6. Range(ThisFn.params) \subseteq DOMAIN a.vars
  <2>1. Len(ThisFn.params) <= MaxRegArgs
    BY <1>1 DEF RInv, AllWellRead, WellRead
  <2>2. \A q \in DOMAIN ThisFn.params : q <= MaxRegArgs
    BY <1>2, <2>1 DEF MaxRegArgs
  <2>3. DOMAIN ParamSlots(ThisFn, rsp - 8) = DOMAIN ThisFn.params
    BY <2>2 DEF ParamSlots
  <2>4. DOMAIN a.vars = NewNames(ThisFn)
    BY DEF NewActivation
  <2> QED
    BY <2>3, <2>4 DEF NewNames, Range
<1> QED
  BY <1>3, <1>4, <1>5, <1>6 DEF Remembers

LEMMA EnterRemembers ==
    ASSUME RInv, Enter, UNCHANGED module
    PROVE  Remembered'
<1> DEFINE n == Len(activations)
<1>1. Launched /\ Entering /\ Executable /\ Stack
  BY StageIs DEF Enter, Running, RInv, XInv
<1>2. PICK a : a = NewActivation(ThisFn)
  OBVIOUS
<1>3. /\ activations' = Append(activations, a) /\ pc' = Place(pc.f, 1, 1, "at")
      /\ a.f = pc.f /\ a.ret = mem[rsp].to
  BY <1>1, <1>2, PrologueIs DEF RInv
<1>4. n \in Nat /\ DOMAIN activations = 1..n /\ pc.stage = "enter"
  BY <1>1, StackIs DEF Enter, Running
<1>5. /\ Len(activations') = n + 1 /\ DOMAIN activations' = 1..(n + 1) /\ activations'[n + 1] = a
      /\ \A d \in 1..n : activations'[d] = activations[d]
  BY <1>1, <1>3, <1>4, Appended DEF Stack
<1>6. ASSUME NEW d \in 1..(n + 1) PROVE RemembersAt(module', activations', pc', mem'[rsp'].to, d)
  <2>1. CASE d = n + 1
    <3>1. Spot(activations', pc', mem'[rsp'].to, d) = Place(pc.f, 1, 1, "at")
      BY <1>3, <1>4, <1>5, <2>1 DEF Spot, Place
    <3>2. Place(pc.f, 1, 1, "at").b = 1 /\ Place(pc.f, 1, 1, "at").k = 1
      BY DEF Place
    <3>3. Remembers(ThisFn, <<1, 1>>, a)
      BY <1>2, EnteredRemembers
    <3> QED
      BY <1>3, <1>5, <2>1, <3>1, <3>2, <3>3 DEF RemembersAt, ThisFn
  <2>2. CASE d # n + 1
    <3>1. d \in 1..n /\ d < n + 1 /\ d + 1 \in 1..(n + 1)
      BY <1>4, <2>2
    <3>2. activations'[d + 1].ret = Spot(activations, pc, mem[rsp].to, d)
      <4>1. CASE d = n
        BY <1>3, <1>4, <1>5, <4>1 DEF Spot
      <4>2. CASE d # n
        <5>1. n \in Nat /\ d \in 1..n
          BY <1>4, <3>1
        <5>2. d + 1 \in 1..n /\ d < n
          <6> HIDE DEF n
          <6> QED
            BY <4>2, <5>1
        <5> QED
          BY <1>5, <5>2 DEF Spot
      <4> QED
        BY <4>1, <4>2
    <3>3. Spot(activations', pc', mem'[rsp'].to, d) = Spot(activations, pc, mem[rsp].to, d)
      BY <1>5, <3>1, <3>2 DEF Spot
    <3>4. RemembersAt(module, activations, pc, mem[rsp].to, d)
      BY <1>4, <3>1 DEF RInv, Remembered
    <3> QED
      BY <1>5, <3>1, <3>3, <3>4 DEF RemembersAt
  <2> QED
    BY <2>1, <2>2
<1> QED
  BY <1>5, <1>6 DEF Remembered

LEMMA ReturnRemembers ==
    ASSUME RInv, Returns, UNCHANGED module
    PROVE  Remembered'
<1> DEFINE n == Len(activations)
<1>1. /\ Stack /\ n \in Nat /\ n \in DOMAIN activations
      /\ activations' = SubSeq(activations, 1, n - 1) /\ pc' = Current.ret
      /\ IF n = 1 THEN Bottom(Current) ELSE Under(frames, module, Current, activations[n - 1])
  BY ReturnIs DEF RInv
<1>2. DOMAIN activations = 1..n /\ Current = activations[n]
  BY <1>1, StackIs DEF Current
<1>3. /\ DOMAIN activations' = 1..(n - 1) /\ Len(activations') = n - 1
      /\ \A d \in 1..(n - 1) : activations'[d] = activations[d] /\ d \in DOMAIN activations
  BY <1>1, <1>2 DEF Stack
<1>4. n # 1 => pc'.stage # "enter"
  BY <1>1 DEF Under, BehindCall
<1>5. ASSUME NEW d \in 1..(n - 1) PROVE RemembersAt(module', activations', pc', mem'[rsp'].to, d)
  <2>1. d < n /\ n # 1
    BY <1>1
  <2>2. Spot(activations, pc, mem[rsp].to, d) = activations[d + 1].ret
    BY <2>1 DEF Spot
  <2>3. Spot(activations', pc', mem'[rsp'].to, d) = activations[d + 1].ret
    <3>1. CASE d = n - 1
      BY <1>1, <1>2, <1>3, <1>4, <2>1, <3>1 DEF Spot
    <3>2. CASE d # n - 1
      <4>1. d < n - 1 /\ d + 1 \in 1..(n - 1)
        BY <1>1, <3>2
      <4> QED
        BY <1>3, <4>1 DEF Spot
    <3> QED
      BY <3>1, <3>2
  <2>4. RemembersAt(module, activations, pc, mem[rsp].to, d)
    BY <1>3 DEF RInv, Remembered
  <2> QED
    BY <1>3, <2>2, <2>3, <2>4 DEF RemembersAt
<1> QED
  BY <1>3, <1>5 DEF Remembered

LEMMA RemembersNext ==
    ASSUME RInv, [Run /\ UNCHANGED module]_<<module, runVars>>
    PROVE  Remembered'
<1>1. UNCHANGED module
  OBVIOUS
<1>2. ASSUME UNCHANGED <<registers, mem, activations>> PROVE Remembered'
  BY <1>1, <1>2 DEF registers, RInv, Remembered
<1>3. CASE Launch
  <2>1. DOMAIN activations' = {}
    BY <1>3, NotYet DEF Launch, RInv, NotLaunched
  <2> QED
    BY <2>1 DEF Remembered
<1>4. CASE Enter
  BY <1>1, <1>4, EnterRemembers
<1>5. CASE Overflow \/ Trap \/ Exit \/ UNCHANGED <<module, runVars>>
  BY <1>2, <1>5 DEF Overflow, Trap, Exit, runVars
<1>6. CASE Assigns \/ Loads \/ Computes \/ Stores \/ Back \/ Branches \/ Jumps
  BY <1>1, <1>6, InsideStepsRemember
<1>7. CASE Calls
  BY <1>1, <1>7, CallRemembers
<1>8. CASE Returns
  BY <1>1, <1>8, ReturnRemembers
<1> QED
  BY <1>3, <1>4, <1>5, <1>6, <1>7, <1>8 DEF Run

(* At every place it comes to, an activation has stored what all paths to   *)
(* that place store; the place of a caller is the one behind its call.      *)
THEOREM ReadingInductive == ExecSpec /\ AllWellRead => []RInv
<1>1. Idle /\ Executable /\ AllWellRead => RInv
  <2>1. Idle => Remembered
    BY DEF Idle, Remembered
  <2>2. Idle /\ Executable => XInv
    BY DEF Idle, XInv, NotLaunched, Stack
  <2> QED
    BY <2>1, <2>2 DEF RInv
<1>2. RInv /\ [Run /\ UNCHANGED module]_<<module, runVars>> => RInv'
  <2> SUFFICES ASSUME RInv, [Run /\ UNCHANGED module]_<<module, runVars>> PROVE RInv'
    OBVIOUS
  <2>1. XInv'
    BY StepKeeps DEF RInv
  <2>2. AllWellRead'
    BY DEF RInv, AllWellRead
  <2> QED
    BY <2>1, <2>2, RemembersNext DEF RInv
<1> QED
  BY <1>1, <1>2, PTL DEF ExecSpec

(* Code whose every use follows a definition and whose every load follows a *)
(* store, on every path, reads at no time what an earlier frame left in the *)
(* stack: each name an instruction reads was stored in the activation that  *)
(* executes it, and control stays inside its blocks (codegen.cpp:119-169,   *)
(* 207-266).                                                                *)
THEOREM AlwaysReadsItsOwn == ExecSpec /\ AllWellRead => []ReadsOnlyItsOwn
<1>1. RInv => ReadsOnlyItsOwn
  <2> SUFFICES ASSUME RInv, pc.stage = "at"
               PROVE  /\ pc.k <= Len(Instrs)
                      /\ \A t \in Uses(Instr0) : t \in DOMAIN Current.temps
                      /\ Instr0.tag = "load" => Instr0.sym \in DOMAIN Current.vars
    BY DEF ReadsOnlyItsOwn
  <2> DEFINE p == <<pc.b, pc.k>>
  <2>1. /\ pc.f \in DOMAIN module /\ ThisFn = module[pc.f] /\ Executable
        /\ pc.b \in DOMAIN ThisFn.blocks /\ pc.k \in DOMAIN ThisFn.blocks[pc.b].instrs
        /\ p \in Positions(ThisFn) /\ At(ThisFn, p) = Instr0 /\ Remembers(ThisFn, p, Current)
    BY HereIs
  <2>2. WellRead(ThisFn)
    BY <2>1 DEF RInv, AllWellRead
  <2>3. p \in LiveUses(ThisFn)
    BY <2>1 DEF Remembers, Reaches, LiveUses
  <2>4. ~PassedBefore(ThisFn, p, {})
    BY <2>3 DEF LiveUses, PassedBefore, Reachable
  <2>5. pc.k <= Len(Instrs)
    <3>1. Instrs \in Seq(Instruction) /\ pc.k \in DOMAIN Instrs
      BY <2>1, CodeIs DEF Instrs
    <3> QED
      BY <3>1
  <2>6. ASSUME NEW t \in Uses(Instr0) PROVE t \in DOMAIN Current.temps
    <3>1. PassedBefore(ThisFn, p, DefsOf(ThisFn, t)) /\ t # NoTemp
      BY <2>1, <2>2, <2>3 DEF WellRead, DefinedOnEveryPath
    <3>2. PICK q : q \in DefsOf(ThisFn, t)
      BY <2>4, <3>1
    <3>3. t \in DefinedIn(ThisFn)
      BY <3>1, <3>2 DEF DefsOf, DefinedIn
    <3> QED
      BY <2>1, <3>1, <3>3 DEF Remembers
  <2>7. ASSUME Instr0.tag = "load" PROVE Instr0.sym \in DOMAIN Current.vars
    <3> DEFINE x == Instr0.sym
    <3>1. CASE \E i \in DOMAIN ThisFn.params : ThisFn.params[i] = x
      BY <2>1, <3>1 DEF Remembers, Range
    <3>2. CASE \A i \in DOMAIN ThisFn.params : ThisFn.params[i] # x
      <4>1. PassedBefore(ThisFn, p, StoresTo(ThisFn, x))
        BY <2>1, <2>2, <2>3, <2>7, <3>2 DEF WellRead, StoredOnEveryPath
      <4>2. PICK q : q \in StoresTo(ThisFn, x)
        BY <2>4, <4>1
      <4>3. x \in StoredIn(ThisFn)
        BY <4>2 DEF StoresTo, StoredIn
      <4> QED
        BY <2>1, <4>1, <4>3 DEF Remembers
    <3> QED
      BY <3>1, <3>2
  <2> QED
    BY <2>5, <2>6, <2>7
<1> QED
  BY <1>1, ReadingInductive, PTL
=============================================================================
