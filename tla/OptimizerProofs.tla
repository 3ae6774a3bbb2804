-------------------------- MODULE OptimizerProofs --------------------------
(***************************************************************************)
(* The correctness of what the pass manager of passes.cpp makes of the     *)
(* lowered functions, for every set of programs and every width: the code  *)
(* stays well-formed through any number of sweeps, and the manager stops   *)
(* only where no pass has anything left to change.                         *)
(*                                                                         *)
(* What is carried through a pass is the certificate of LoweringLemmas:    *)
(* which temporaries are written whenever control gets to a block.  No     *)
(* pass but dead code elimination removes a definition, and that one only  *)
(* removes what nothing uses.                                              *)
(***************************************************************************)
EXTENDS LoweringValues, Compiler, FiniteSetTheorems

(* The passes speak of the same instructions as the builder.               *)
LEMMA SameInstr ==
    /\ \A i : Opt!Uses(i) = Uses(i) /\ Opt!Targets(i) = Targets(i)
    /\ \A d, v : Opt!Assign(d, v) = Assign(d, v)
    /\ \A d, op, l, r : Opt!BinOp(d, op, l, r) = BinOp(d, op, l, r)
    /\ \A l : Opt!Jump(l) = Jump(l)
    /\ \A v : Opt!Return(v) = Return(v)
    /\ \A n : Opt!ImmI64(n) = ImmI64(n) /\ Opt!ImmBool(n) = ImmBool(n)
    /\ Opt!ImmUnit = ImmUnit
BY DEF Opt!Uses, Uses, Opt!Targets, Targets, Opt!Assign, Assign, Opt!BinOp, BinOp, Opt!Jump, Jump,
       Opt!Return, Return, Opt!Instr, Instr, Opt!Name, Name, Opt!Symbol, Symbol, Opt!NoTemp, NoTemp,
       Opt!ImmI64, ImmI64, Opt!ImmBool, ImmBool, Opt!ImmUnit, ImmUnit

(* Powers are positive: they count the subsets of a set.                   *)
LEMMA PowerPositive ==
    ASSUME NEW w \in Nat
    PROVE  2 ^ w \in Nat \ {0}
<1> DEFINE S == 1..w
<1>1. IsFiniteSet(S) /\ Cardinality(S) = w
  BY FS_Interval
<1>2. IsFiniteSet(SUBSET S) /\ Cardinality(SUBSET S) = 2 ^ w
  BY <1>1, FS_SUBSET
<1>3. Cardinality(SUBSET S) \in Nat
  BY <1>2, FS_CardinalityType
<1>4. SUBSET S # {}
  OBVIOUS
<1>5. Cardinality(SUBSET S) # 0
  BY <1>2, <1>4, FS_EmptySet
<1> QED
  BY <1>2, <1>3, <1>5

Immediate == {v \in Value : v.k # "temp"}

LEMMA ImmediateTyped ==
    /\ \A n \in Int : ImmI64(n) \in Immediate
    /\ \A p \in BOOLEAN : ImmBool(p) \in Immediate
    /\ ImmUnit \in Immediate
BY DEF Immediate, Value, ValueKinds, ImmI64, ImmBool, ImmUnit

LEMMA WrapTyped ==
    ASSUME NEW n \in Int
    PROVE  Opt!Wrap(n) \in Int
<1>1. Width \in Nat /\ Width - 1 \in Nat
  BY WidthAssumption
<1>2. 2 ^ Width \in Nat \ {0} /\ 2 ^ (Width - 1) \in Nat \ {0}
  BY <1>1, PowerPositive
<1> DEFINE W == 2 ^ Width
           M == 2 ^ (Width - 1)
<1>3. W \in Nat \ {0} /\ M \in Int
  BY <1>2
<1> HIDE DEF W, M
<1>4. (n - (-M)) % W \in Int
  BY <1>3
<1>5. ((n - (-M)) % W) + (-M) \in Int
  BY <1>3, <1>4
<1> QED
  BY <1>5 DEF Opt!Wrap, Opt!IntMin, W, M

LEMMA QuotTyped ==
    ASSUME NEW l \in Int, NEW r \in Int, r # 0
    PROVE  Opt!Quot(l, r) \in Int /\ Opt!Rest(l, r) \in Int
<1> DEFINE a == Opt!AbsOf(l)
           b == Opt!AbsOf(r)
<1>1. a \in Nat /\ b \in Nat \ {0}
  BY DEF Opt!AbsOf
<1> HIDE DEF a, b
<1>2. a \div b \in Int
  BY <1>1
<1>3. Opt!Quot(l, r) \in Int
  BY <1>2 DEF Opt!Quot, a, b
<1> QED
  BY <1>3 DEF Opt!Rest

LEMMA ArithTyped ==
    ASSUME NEW op \in BinOps, NEW l \in Int, NEW r \in Int, op \in Opt!Dividing => r # 0
    PROVE  Opt!Arith(op, l, r) \in Immediate
<1>1. \A n \in Int : Opt!ImmI64(Opt!Wrap(n)) \in Immediate /\ Opt!ImmI64(n) \in Immediate
  BY WrapTyped, SameInstr, ImmediateTyped
<1>2. \A p \in BOOLEAN : Opt!ImmBool(p) \in Immediate
  BY SameInstr, ImmediateTyped
<1>3. CASE op \in {"+", "-", "*"}
  <2>1. l + r \in Int /\ l - r \in Int /\ l * r \in Int
    OBVIOUS
  <2> QED
    BY <1>1, <1>3, <2>1 DEF Opt!Arith
<1>4. CASE op \in {"/", "%"}
  <2>1. r # 0
    BY <1>4 DEF Opt!Dividing
  <2>2. Opt!Quot(l, r) \in Int /\ Opt!Rest(l, r) \in Int
    BY <2>1, QuotTyped
  <2> QED
    BY <1>1, <1>4, <2>2 DEF Opt!Arith
<1>5. CASE op \in {"==", "!=", "<", "<=", ">", ">=", "&&", "||"}
  <2>1. /\ (l = r) \in BOOLEAN /\ (l # r) \in BOOLEAN /\ (l < r) \in BOOLEAN /\ (l <= r) \in BOOLEAN
        /\ (l > r) \in BOOLEAN /\ (l >= r) \in BOOLEAN
        /\ (l # 0 /\ r # 0) \in BOOLEAN /\ (l # 0 \/ r # 0) \in BOOLEAN
    OBVIOUS
  <2> QED
    BY <1>2, <1>5, <2>1 DEF Opt!Arith
<1> QED
  BY <1>3, <1>4, <1>5 DEF BinOps

LEMMA NegateTyped ==
    ASSUME NEW op, NEW n \in Int
    PROVE  Opt!Negate(op, n) \in Immediate
<1>1. -n \in Int /\ (n = 0) \in BOOLEAN
  OBVIOUS
<1> QED
  BY <1>1, WrapTyped, SameInstr, ImmediateTyped DEF Opt!Negate

-----------------------------------------------------------------------------
(* Recursive functions over 0..N.                                          *)
LEMMA Upward ==
    ASSUME NEW N \in Nat, NEW T, 0 \in T, \A n \in 1..N : n - 1 \in T => n \in T
    PROVE  \A n \in 0..N : n \in T
<1> DEFINE R == {n \in 0..N : n \notin T}
<1> SUFFICES ASSUME R # {} PROVE FALSE
  OBVIOUS
<1>1. PICK m \in R : \A k \in R : m <= k
  <2>1. R \subseteq Nat
    OBVIOUS
  <2> HIDE DEF R
  <2> QED
    BY <2>1, Least
<1>2. m # 0
  BY <1>1
<1>3. m \in 1..N /\ m - 1 \in 0..N /\ ~(m <= m - 1)
  BY <1>1, <1>2
<1>4. m - 1 \in T
  BY <1>1, <1>3
<1> QED
  BY <1>1, <1>3, <1>4

(* What stays once it has come about is there at the end. *)
LEMMA HeldAtEnd ==
    ASSUME NEW N \in Nat, NEW C, \A n \in 1..N : n - 1 \in C => n \in C
    PROVE  \A k \in 0..N : k \in C => N \in C
<1> SUFFICES ASSUME NEW k \in 0..N, k \in C PROVE N \in C
  OBVIOUS
<1> DEFINE T == {n \in 0..N : k <= n => n \in C}
<1>1. 0 \in T
  <2>1. k <= 0 => k = 0
    OBVIOUS
  <2> QED
    BY <2>1
<1>2. ASSUME NEW n \in 1..N, n - 1 \in T
      PROVE  n \in T
  <2>1. k <= n => k = n \/ k <= n - 1
    BY <1>2
  <2>2. n \in 0..N
    BY <1>2
  <2> QED
    BY <1>2, <2>1, <2>2
<1>3. \A n \in 0..N : n \in T
  <2> HIDE DEF T
  <2> QED
    BY <1>1, <1>2, Upward
<1>4. \A n \in 0..N : k <= n => n \in C
  BY <1>3
<1>5. N \in 0..N /\ k <= N
  OBVIOUS
<1> QED
  BY <1>4, <1>5

(* The first n values of the recursion that starts with s and goes on with *)
(* the functions F[1], F[2], ...                                            *)
Unrolls(r, n, s, F) ==
    r = [k \in 0..n |-> r[k]] /\ r[0] = s /\ \A k \in 1..n : r[k] = F[k][r[k - 1]]

(* It has a solution, and its values are in S.                              *)
Steps(N, S) == [1..N -> [S -> S]]
Solves(r, N, S, s, F) == r \in [0..N -> S] /\ r[0] = s /\ \A k \in 1..N : r[k] = F[k][r[k - 1]]
LEMMA Iterates ==
    ASSUME NEW N \in Nat, NEW S, NEW s \in S, NEW F \in Steps(N, S)
    PROVE  \E r : Solves(r, N, S, s, F)
<1>0. F \in [1..N -> [S -> S]]
  BY DEF Steps
<1>1. \E r : Unrolls(r, N, s, F)
  <2> DEFINE T == {n \in 0..N : \E r : Unrolls(r, n, s, F)}
  <2>1. 0 \in T
    <3> DEFINE r == [k \in 0..0 |-> s]
    <3>1. Unrolls(r, 0, s, F)
      BY DEF Unrolls
    <3> QED
      BY <3>1
  <2>2. ASSUME NEW n \in 1..N, n - 1 \in T
        PROVE  n \in T
    <3>1. PICK r : Unrolls(r, n - 1, s, F)
      BY <2>2
    <3> DEFINE q == [k \in 0..n |-> IF k = n THEN F[n][r[n - 1]] ELSE r[k]]
    <3>2. /\ 0 \in 0..n /\ n # 0 /\ n \in 0..n
          /\ \A k \in 1..n : k - 1 \in 0..n /\ k - 1 # n /\ k \in 0..n /\ (k # n => k \in 1..(n - 1))
      OBVIOUS
    <3>3. q[0] = s /\ q = [k \in 0..n |-> q[k]]
      BY <3>1, <3>2 DEF Unrolls
    <3>4. \A k \in 1..n : q[k] = F[k][q[k - 1]]
      BY <3>1, <3>2 DEF Unrolls
    <3> HIDE DEF q
    <3>5. Unrolls(q, n, s, F)
      BY <3>3, <3>4 DEF Unrolls
    <3> QED
      BY <2>2, <3>5
  <2> HIDE DEF T
  <2>3. \A n \in 1..N : n - 1 \in T => n \in T
    BY <2>2
  <2>4. \A n \in 0..N : n \in T
    BY <2>1, <2>3, Upward
  <2>5. N \in T
    BY <2>4
  <2> QED
    BY <2>5 DEF T
<1>2. ASSUME NEW r, Unrolls(r, N, s, F)
      PROVE  r \in [0..N -> S]
  <2> DEFINE T == {n \in 0..N : r[n] \in S}
  <2>1. 0 \in T
    BY <1>2 DEF Unrolls
  <2>2. ASSUME NEW n \in 1..N, n - 1 \in T
        PROVE  n \in T
    <3>1. r[n] = F[n][r[n - 1]] /\ r[n - 1] \in S /\ F[n] \in [S -> S]
      BY <1>0, <1>2, <2>2 DEF Unrolls
    <3> QED
      BY <3>1
  <2>3. \A n \in 0..N : n \in T
    <3> HIDE DEF T
    <3> QED
      BY <2>1, <2>2, Upward
  <2>4. \A n \in 0..N : r[n] \in S
    BY <2>3
  <2>5. r = [n \in 0..N |-> r[n]]
    BY <1>2 DEF Unrolls
  <2> QED
    BY <2>4, <2>5
<1> QED
  BY <1>1, <1>2 DEF Unrolls, Solves

-----------------------------------------------------------------------------
LEMMA AsSequence ==
    ASSUME NEW S, NEW n \in Nat, NEW f, f = [k \in 1..n |-> f[k]], \A k \in 1..n : f[k] \in S
    PROVE  f \in Seq(S) /\ Len(f) = n /\ DOMAIN f = 1..n
<1>1. [k \in 1..n |-> f[k]] \in Seq(S) /\ Len([k \in 1..n |-> f[k]]) = n /\ DOMAIN [k \in 1..n |-> f[k]] = 1..n
  OBVIOUS
<1> QED
  BY <1>1, Zenon

(* What a pass may put in place of an instruction.                         *)
Weaker(j, i) ==
    /\ j \in Instruction /\ j.dst = i.dst
    /\ Uses(j) \subseteq Uses(i) /\ Targets(j) \subseteq Targets(i)
    /\ i.tag \in Terminators => j.tag \in Terminators

LEMMA WeakerSame ==
    ASSUME NEW i \in Instruction
    PROVE  Weaker(i, i)
BY DEF Weaker

LEMMA InstrFields ==
    ASSUME NEW i \in Instruction
    PROVE  /\ i.tag \in Tags /\ i.dst \in Int /\ i.sym \in Symbols /\ i.args \in Seq(Value) /\ i.to \in Seq(Nat)
           /\ Complete(i)
           /\ i = [tag |-> i.tag, dst |-> i.dst, sym |-> i.sym, args |-> i.args, to |-> i.to]
           /\ DOMAIN i.args = 1..Len(i.args) /\ Len(i.args) \in Nat
           /\ DOMAIN i.to = 1..Len(i.to) /\ Len(i.to) \in Nat
BY DEF Instruction

(* Operands in the place of operands, of which no more are temporaries.    *)
LEMMA WithArgs ==
    ASSUME NEW i \in Instruction, NEW args \in Seq(Value), Len(args) = Len(i.args),
           \A a \in DOMAIN i.args : args[a].k = "temp" => args[a] = i.args[a]
    PROVE  /\ Weaker([i EXCEPT !.args = args], i)
           /\ args = i.args => [i EXCEPT !.args = args] = i
<1> DEFINE j == [i EXCEPT !.args = args]
<1>1. j = [tag |-> i.tag, dst |-> i.dst, sym |-> i.sym, args |-> args, to |-> i.to]
  BY InstrFields
<1>2. /\ j.tag = i.tag /\ j.dst = i.dst /\ j.sym = i.sym /\ j.args = args /\ j.to = i.to
  BY <1>1
<1>3. j \in [tag : Tags, dst : Int, sym : Symbols, args : Seq(Value), to : Seq(Nat)]
  BY <1>1, InstrFields
<1> HIDE DEF j
<1>4. Complete(j)
  BY <1>2, InstrFields DEF Complete
<1>5. j \in Instruction
  BY <1>3, <1>4 DEF Instruction
<1>6. Uses(j) \subseteq Uses(i)
  <2>1. DOMAIN args = DOMAIN i.args
    BY InstrFields
  <2> QED
    BY <1>2, <2>1 DEF Uses
<1>7. Targets(j) = Targets(i)
  BY <1>2 DEF Targets
<1>8. Weaker(j, i)
  BY <1>2, <1>5, <1>6, <1>7 DEF Weaker
<1>9. args = i.args => j = i
  BY <1>1, InstrFields DEF j
<1> QED
  BY <1>8, <1>9 DEF j

(* A constant in the place of a computation. *)
LEMMA WithAssign ==
    ASSUME NEW i \in Instruction, i.tag \in {"assign", "binop", "unop"}, NEW v \in Value,
           v.k = "temp" => v.v \in Uses(i)
    PROVE  Weaker(Assign(i.dst, v), i)
<1> DEFINE j == Assign(i.dst, v)
<1>1. "=" \in Texts
  BY DEF Texts
<1>2. "assign" \in Tags
  BY DEF Tags
<1>3. Name("=") \in Symbols
  BY <1>1, SymbolsTyped
<1>4. i.dst \in Nat /\ i.to = <<>> /\ i.tag \notin Terminators
  BY InstrFields DEF Complete, Terminators
<1>5. <<v>> \in Seq(Value) /\ <<>> \in Seq(Nat) /\ Len(<<v>>) = 1 /\ DOMAIN <<v>> = {1} /\ <<v>>[1] = v
  OBVIOUS
<1>6. j = [tag |-> "assign", dst |-> i.dst, sym |-> Name("="), args |-> <<v>>, to |-> <<>>]
  BY DEF Assign, Instr
<1>7. j.tag = "assign" /\ j.dst = i.dst /\ j.args = <<v>> /\ j.to = <<>> /\ j.sym = Name("=")
  BY <1>6
<1>8. j \in [tag : Tags, dst : Int, sym : Symbols, args : Seq(Value), to : Seq(Nat)]
  BY <1>2, <1>3, <1>4, <1>5, <1>6
<1> HIDE DEF j
<1>9. Complete(j)
  BY <1>4, <1>5, <1>7 DEF Complete
<1>10. j \in Instruction
  BY <1>8, <1>9 DEF Instruction
<1>11. Uses(j) \subseteq Uses(i)
  BY <1>5, <1>7 DEF Uses
<1>12. Targets(j) = {}
  BY <1>7 DEF Targets
<1> QED
  BY <1>4, <1>7, <1>10, <1>11, <1>12 DEF Weaker, j

(* A jump to one of its two labels in the place of a branch. *)
LEMMA WithJump ==
    ASSUME NEW i \in Instruction, i.tag = "branch", NEW k \in {1, 2}
    PROVE  Weaker(Jump(i.to[k]), i)
<1>1. i.dst = NoTemp /\ Len(i.to) = 2
  BY InstrFields DEF Complete
<1>2. k \in DOMAIN i.to /\ i.to[k] \in Nat
  <2>1. i.to \in Seq(Nat) /\ DOMAIN i.to = 1..Len(i.to)
    BY InstrFields
  <2>2. k \in 1..2
    OBVIOUS
  <2> QED
    BY <1>1, <2>1, <2>2
<1> DEFINE l == i.to[k]
<1>3. l \in Targets(i) /\ l \in Nat
  BY <1>2 DEF Targets
<1> HIDE DEF l
<1>4. Jump(l) \in Instruction /\ Targets(Jump(l)) = {l}
  BY <1>3, JumpTyped
<1>5. Jump(l).tag = "jump" /\ Jump(l).dst = NoTemp /\ Jump(l).args = <<>>
  BY DEF Jump, Instr
<1>6. Uses(Jump(l)) = {}
  BY <1>5 DEF Uses
<1> QED
  BY <1>1, <1>3, <1>4, <1>5, <1>6 DEF Weaker, Terminators, l

-----------------------------------------------------------------------------
(* ConstantFoldingPass, one instruction. *)
Constants == UNION {[D -> Immediate] : D \in SUBSET Int}
FoldState == [consts : Constants, changed : BOOLEAN, crashed : BOOLEAN, left : Instruction]

LEMMA ConstantsOf ==
    ASSUME NEW c \in Constants
    PROVE  /\ DOMAIN c \subseteq Int /\ c = [t \in DOMAIN c |-> c[t]]
           /\ \A t \in DOMAIN c : c[t] \in Immediate
BY DEF Constants

LEMMA StartTyped ==
    Opt!AtStart \in FoldState /\ Opt!NoConsts \in Constants /\ DOMAIN Opt!NoConsts = {}
<1>1. Opt!NoConsts \in [{} -> Immediate] /\ DOMAIN Opt!NoConsts = {}
  BY DEF Opt!NoConsts
<1>2. Opt!NoConsts \in Constants
  BY <1>1 DEF Constants
<1>3. <<>> \in Seq(Value)
  OBVIOUS
<1>4. Return(<<>>) \in Instruction
  BY <1>3, ReturnTyped
<1>5. Opt!Return(<<>>) \in Instruction
  BY <1>4, SameInstr
<1> QED
  BY <1>1, <1>2, <1>5 DEF Opt!AtStart, FoldState

LEMMA WithConstTyped ==
    ASSUME NEW c \in Constants, NEW t \in Int, NEW v \in Immediate
    PROVE  Opt!WithConst(c, t, v) \in Constants
<1> DEFINE D == DOMAIN c \cup {t}
<1>1. D \in SUBSET Int
  BY ConstantsOf
<1>2. \A d \in D : (IF d = t THEN v ELSE c[d]) \in Immediate
  BY ConstantsOf
<1>3. Opt!WithConst(c, t, v) = [d \in D |-> IF d = t THEN v ELSE c[d]]
  BY DEF Opt!WithConst
<1> HIDE DEF D
<1>4. Opt!WithConst(c, t, v) \in [D -> Immediate]
  BY <1>2, <1>3
<1> QED
  BY <1>1, <1>4 DEF Constants

LEMMA ResolveTyped ==
    ASSUME NEW c \in Constants, NEW v \in Value
    PROVE  /\ Opt!Resolve(c, v) \in Value
           /\ Opt!Resolve(c, v).k = "temp" => Opt!Resolve(c, v) = v
           /\ DOMAIN c = {} => Opt!Resolve(c, v) = v
<1>1. CASE v.k = "temp" /\ v.v \in DOMAIN c
  <2>1. Opt!Resolve(c, v) = c[v.v]
    BY <1>1 DEF Opt!Resolve
  <2>2. c[v.v] \in Immediate
    BY <1>1, ConstantsOf
  <2> QED
    BY <1>1, <2>1, <2>2 DEF Immediate
<1>2. CASE ~(v.k = "temp" /\ v.v \in DOMAIN c)
  BY <1>2 DEF Opt!Resolve
<1> QED
  BY <1>1, <1>2

(* The operands as the constants found so far let them be read.            *)
Resolved(c, i) == [a \in DOMAIN i.args |-> Opt!Resolve(c, i.args[a])]

LEMMA ResolvedTyped ==
    ASSUME NEW c \in Constants, NEW i \in Instruction
    PROVE  /\ Resolved(c, i) \in Seq(Value) /\ Len(Resolved(c, i)) = Len(i.args)
           /\ \A a \in DOMAIN i.args : Resolved(c, i)[a] \in Value
           /\ \A a \in DOMAIN i.args : Resolved(c, i)[a].k = "temp" => Resolved(c, i)[a] = i.args[a]
           /\ DOMAIN c = {} => Resolved(c, i) = i.args
<1> DEFINE args == Resolved(c, i)
           n    == Len(i.args)
<1>1. i.args \in Seq(Value) /\ DOMAIN i.args = 1..n /\ n \in Nat
  BY InstrFields
<1>2. \A a \in 1..n : i.args[a] \in Value
  BY <1>1
<1>3. \A a \in 1..n : args[a] = Opt!Resolve(c, i.args[a])
  BY <1>1 DEF Resolved
<1>4. \A a \in 1..n : /\ args[a] \in Value
                      /\ args[a].k = "temp" => args[a] = i.args[a]
                      /\ DOMAIN c = {} => args[a] = i.args[a]
  BY <1>2, <1>3, ResolveTyped
<1>5. args = [a \in 1..n |-> args[a]] /\ DOMAIN args = 1..n
  BY <1>1 DEF Resolved
<1>6. i.args = [a \in 1..n |-> i.args[a]]
  BY <1>1
<1> HIDE DEF args
<1>7. args \in Seq(Value) /\ Len(args) = n
  BY <1>1, <1>4, <1>5, AsSequence
<1> QED
  BY <1>1, <1>4, <1>5, <1>6, <1>7 DEF args

(* The constant an instruction is found to compute.                        *)
LEMMA ConstTyped ==
    ASSUME NEW i \in Instruction, NEW args \in Seq(Value), Len(args) = Len(i.args)
    PROVE  \/ Opt!ConstOf(i, args) = <<>>
           \/ /\ i.tag \in {"assign", "binop", "unop"}
              /\ \E v \in Immediate : Opt!ConstOf(i, args) = <<v>>
<1>1. Complete(i) /\ i.sym \in Symbols
  BY InstrFields
<1>2. \A a \in 1..Len(args) : args[a] \in Value /\ args[a].v \in Int
  <2>1. \A a \in 1..Len(args) : args[a] \in Value
    OBVIOUS
  <2>2. \A v \in Value : v.v \in Int
    BY DEF Value
  <2> QED
    BY <2>1, <2>2
<1>3. CASE i.tag = "assign" /\ args[1].k # "temp"
  <2>1. Len(args) = 1
    BY <1>1, <1>3 DEF Complete
  <2>2. 1 \in 1..Len(args)
    BY <2>1
  <2>3. args[1] \in Immediate
    BY <1>2, <1>3, <2>2 DEF Immediate
  <2>4. Opt!ConstOf(i, args) = <<args[1]>>
    BY <1>3 DEF Opt!ConstOf
  <2> QED
    BY <1>3, <2>3, <2>4
<1>4. CASE ~(i.tag = "assign" /\ args[1].k # "temp") /\ Opt!Foldable(i, args)
  <2>1. i.tag = "binop" /\ (i.sym.base \in Opt!Dividing => args[2].v # 0)
    BY <1>4 DEF Opt!Foldable
  <2>2. Len(args) = 2 /\ i.sym.base \in BinOps
    BY <1>1, <2>1 DEF Complete
  <2>3. 1 \in 1..Len(args) /\ 2 \in 1..Len(args)
    BY <2>2
  <2>4. args[1].v \in Int /\ args[2].v \in Int
    BY <1>2, <2>3
  <2>5. Opt!Arith(i.sym.base, args[1].v, args[2].v) \in Immediate
    BY <2>1, <2>2, <2>4, ArithTyped
  <2>6. Opt!ConstOf(i, args) = <<Opt!Arith(i.sym.base, args[1].v, args[2].v)>>
    BY <1>4 DEF Opt!ConstOf
  <2> QED
    BY <2>1, <2>5, <2>6
<1>5. CASE /\ ~(i.tag = "assign" /\ args[1].k # "temp") /\ ~Opt!Foldable(i, args)
           /\ i.tag = "unop" /\ Opt!IsNumber(args[1])
  <2>1. Len(args) = 1
    BY <1>1, <1>5 DEF Complete
  <2>2. 1 \in 1..Len(args)
    BY <2>1
  <2>3. args[1].v \in Int
    BY <1>2, <2>2
  <2>4. Opt!Negate(i.sym.base, args[1].v) \in Immediate
    BY <2>3, NegateTyped
  <2>5. Opt!ConstOf(i, args) = <<Opt!Negate(i.sym.base, args[1].v)>>
    BY <1>5 DEF Opt!ConstOf
  <2> QED
    BY <1>5, <2>4, <2>5
<1> QED
  BY <1>3, <1>4, <1>5 DEF Opt!ConstOf

LEMMA FoldInstrTyped ==
    ASSUME NEW st \in FoldState, NEW i \in Instruction
    PROVE  /\ Opt!FoldInstr(st, i) \in FoldState
           /\ ~Opt!FoldInstr(st, i).crashed => ~st.crashed /\ Weaker(Opt!FoldInstr(st, i).left, i)
           /\ ~Opt!FoldInstr(st, i).changed => ~st.changed
           /\ ~Opt!FoldInstr(st, i).changed /\ ~Opt!FoldInstr(st, i).crashed /\ DOMAIN st.consts = {} =>
                 DOMAIN Opt!FoldInstr(st, i).consts = {} /\ Opt!FoldInstr(st, i).left = i
<1> DEFINE args == Resolved(st.consts, i)
           c    == Opt!ConstOf(i, args)
           out  == Opt!FoldInstr(st, i)
<1>1. /\ st.consts \in Constants /\ st.changed \in BOOLEAN /\ st.crashed \in BOOLEAN /\ st.left \in Instruction
      /\ st = [consts |-> st.consts, changed |-> st.changed, crashed |-> st.crashed, left |-> st.left]
  BY DEF FoldState
<1>2. /\ args \in Seq(Value) /\ Len(args) = Len(i.args)
      /\ \A a \in DOMAIN i.args : args[a] \in Value
      /\ \A a \in DOMAIN i.args : args[a].k = "temp" => args[a] = i.args[a]
      /\ DOMAIN st.consts = {} => args = i.args
  BY <1>1, ResolvedTyped
<1>3. \/ c = <<>>
      \/ i.tag \in {"assign", "binop", "unop"} /\ \E v \in Immediate : c = <<v>>
  BY <1>2, ConstTyped
<1>4a. out = IF Opt!Foldable(i, args) /\ Opt!DivideError(i.sym.base, args[1].v, args[2].v)
            THEN [st EXCEPT !.crashed = TRUE]
            ELSE IF c # <<>>
            THEN [st EXCEPT !.consts = Opt!WithConst(st.consts, i.dst, c[1]), !.changed = TRUE,
                            !.left = Opt!Assign(i.dst, c[1])]
            ELSE IF i.tag = "branch" /\ Opt!IsNumber(args[1])
            THEN [st EXCEPT !.changed = TRUE, !.left = Opt!FoldBranch(i, args[1])]
            ELSE [st EXCEPT !.left = IF i.tag = "call" THEN i ELSE [i EXCEPT !.args = args]]
  BY DEF Opt!FoldInstr, Resolved
<1> HIDE DEF args, c, out
<1>4. out = IF Opt!Foldable(i, args) /\ Opt!DivideError(i.sym.base, args[1].v, args[2].v)
            THEN [st EXCEPT !.crashed = TRUE]
            ELSE IF c # <<>>
            THEN [st EXCEPT !.consts = Opt!WithConst(st.consts, i.dst, c[1]), !.changed = TRUE,
                            !.left = Assign(i.dst, c[1])]
            ELSE IF i.tag = "branch" /\ Opt!IsNumber(args[1])
            THEN [st EXCEPT !.changed = TRUE, !.left = Opt!FoldBranch(i, args[1])]
            ELSE [st EXCEPT !.left = IF i.tag = "call" THEN i ELSE [i EXCEPT !.args = args]]
  BY <1>4a, SameInstr
<1>5. CASE Opt!Foldable(i, args) /\ Opt!DivideError(i.sym.base, args[1].v, args[2].v)
  <2>1. out = [st EXCEPT !.crashed = TRUE]
    BY <1>4, <1>5
  <2>2. out = [consts |-> st.consts, changed |-> st.changed, crashed |-> TRUE, left |-> st.left]
    BY <1>1, <2>1
  <2>3. out \in FoldState /\ out.crashed /\ out.changed = st.changed
    BY <1>1, <2>2 DEF FoldState
  <2> QED
    BY <2>3 DEF out
<1>6. CASE ~(Opt!Foldable(i, args) /\ Opt!DivideError(i.sym.base, args[1].v, args[2].v)) /\ c # <<>>
  <2>1. PICK v \in Immediate : c = <<v>>
    BY <1>3, <1>6
  <2>2. c[1] = v
    BY <2>1
  <2>3. out = [st EXCEPT !.consts = Opt!WithConst(st.consts, i.dst, v), !.changed = TRUE,
                         !.left = Assign(i.dst, v)]
    BY <1>4, <1>6, <2>2
  <2>4. out = [consts |-> Opt!WithConst(st.consts, i.dst, v), changed |-> TRUE, crashed |-> st.crashed,
               left |-> Assign(i.dst, v)]
    BY <1>1, <2>3
  <2>5. i.dst \in Int /\ Opt!WithConst(st.consts, i.dst, v) \in Constants
    BY <1>1, InstrFields, WithConstTyped
  <2>6. v \in Value /\ v.k # "temp"
    BY DEF Immediate
  <2>7. Weaker(Assign(i.dst, v), i)
    BY <1>3, <1>6, <2>6, WithAssign
  <2>8. Assign(i.dst, v) \in Instruction
    BY <2>7 DEF Weaker
  <2>9. out \in FoldState /\ out.changed /\ out.crashed = st.crashed /\ out.left = Assign(i.dst, v)
    BY <1>1, <2>4, <2>5, <2>8 DEF FoldState
  <2> QED
    BY <2>7, <2>9 DEF out
<1>7. CASE /\ ~(Opt!Foldable(i, args) /\ Opt!DivideError(i.sym.base, args[1].v, args[2].v)) /\ c = <<>>
           /\ i.tag = "branch" /\ Opt!IsNumber(args[1])
  <2> DEFINE j == Opt!FoldBranch(i, args[1])
  <2>1. out = [st EXCEPT !.changed = TRUE, !.left = j]
    BY <1>4, <1>7
  <2>2. Weaker(j, i)
    <3>1. j = Jump(i.to[1]) \/ j = Jump(i.to[2])
      BY SameInstr DEF Opt!FoldBranch
    <3>2. Weaker(Jump(i.to[1]), i) /\ Weaker(Jump(i.to[2]), i)
      BY <1>7, WithJump
    <3> QED
      BY <3>1, <3>2
  <2> HIDE DEF j
  <2>3. j \in Instruction
    BY <2>2 DEF Weaker
  <2>4. out = [consts |-> st.consts, changed |-> TRUE, crashed |-> st.crashed, left |-> j]
    BY <1>1, <2>1
  <2>5. out \in FoldState /\ out.changed /\ out.crashed = st.crashed /\ out.left = j
    BY <1>1, <2>3, <2>4 DEF FoldState
  <2> QED
    BY <2>2, <2>5 DEF out
<1>8. CASE /\ ~(Opt!Foldable(i, args) /\ Opt!DivideError(i.sym.base, args[1].v, args[2].v)) /\ c = <<>>
           /\ ~(i.tag = "branch" /\ Opt!IsNumber(args[1]))
  <2> DEFINE j == IF i.tag = "call" THEN i ELSE [i EXCEPT !.args = args]
  <2>1. out = [st EXCEPT !.left = j]
    BY <1>4, <1>8
  <2>2. Weaker(j, i) /\ (DOMAIN st.consts = {} => j = i)
    <3>1. Weaker(i, i)
      BY WeakerSame
    <3>2. Weaker([i EXCEPT !.args = args], i) /\ (args = i.args => [i EXCEPT !.args = args] = i)
      BY <1>2, WithArgs
    <3> QED
      BY <1>2, <3>1, <3>2
  <2> HIDE DEF j
  <2>3. j \in Instruction
    BY <2>2 DEF Weaker
  <2>4. out = [consts |-> st.consts, changed |-> st.changed, crashed |-> st.crashed, left |-> j]
    BY <1>1, <2>1
  <2>5. /\ out \in FoldState /\ out.changed = st.changed /\ out.crashed = st.crashed /\ out.left = j
        /\ out.consts = st.consts
    BY <1>1, <2>3, <2>4 DEF FoldState
  <2> QED
    BY <2>2, <2>5 DEF out
<1> QED
  BY <1>5, <1>6, <1>7, <1>8

(* The sweep over a block: the values its recursion goes through.          *)
LEMMA FoldingNext ==
    ASSUME NEW st \in FoldState, NEW is \in Seq(Instruction)
    PROVE  /\ Opt!Folding(st, is)[0] = st
           /\ \A k \in 0..Len(is) : Opt!Folding(st, is)[k] \in FoldState
           /\ \A k \in 1..Len(is) : Opt!Folding(st, is)[k] = Opt!FoldInstr(Opt!Folding(st, is)[k - 1], is[k])
<1> DEFINE N == Len(is)
           Body(r) == [k \in 0..N |-> IF k = 0 THEN st ELSE Opt!FoldInstr(r[k - 1], is[k])]
           F == [k \in 1..N |-> [x \in FoldState |-> Opt!FoldInstr(x, is[k])]]
           q == Opt!Folding(st, is)
<1>1. N \in Nat /\ \A k \in 1..N : is[k] \in Instruction
  OBVIOUS
<1>2. q = CHOOSE r : r = Body(r)
  BY DEF Opt!Folding
<1> HIDE DEF N, q
<1>3. \A k \in 1..N : \A x \in FoldState : Opt!FoldInstr(x, is[k]) \in FoldState
  BY <1>1, FoldInstrTyped
<1>4. F \in Steps(N, FoldState)
  BY <1>3 DEF Steps
<1>5. \A k \in 1..N : \A x \in FoldState : F[k][x] = Opt!FoldInstr(x, is[k])
  OBVIOUS
<1> HIDE DEF F
<1>6a. PICK r : Solves(r, N, FoldState, st, F)
  BY <1>1, <1>4, Iterates
<1>6. r \in [0..N -> FoldState] /\ r[0] = st /\ \A k \in 1..N : r[k] = F[k][r[k - 1]]
  BY <1>6a DEF Solves
<1>7. \A k \in 0..N : k # 0 => k \in 1..N /\ k - 1 \in 0..N
  BY <1>1
<1>8. r = Body(r)
  <2>1. \A k \in 0..N : r[k] = IF k = 0 THEN st ELSE Opt!FoldInstr(r[k - 1], is[k])
    BY <1>5, <1>6, <1>7
  <2>2. r = [k \in 0..N |-> r[k]]
    BY <1>6
  <2> QED
    BY <2>1, <2>2
<1>9. q = Body(q)
  <2> HIDE DEF Body
  <2> QED
    BY <1>2, <1>8
<1>10. \A k \in 0..N : q[k] = IF k = 0 THEN st ELSE Opt!FoldInstr(q[k - 1], is[k])
  BY <1>9
<1> HIDE DEF Body
<1>11. q[0] = st /\ \A k \in 1..N : q[k] = Opt!FoldInstr(q[k - 1], is[k])
  <2>1. 0 \in 0..N /\ \A k \in 1..N : k \in 0..N /\ k # 0
    BY <1>1
  <2> QED
    BY <1>10, <2>1
<1> DEFINE T == {k \in 0..N : q[k] \in FoldState}
<1>12. 0 \in T
  BY <1>1, <1>11
<1>13. ASSUME NEW k \in 1..N, k - 1 \in T
       PROVE  k \in T
  BY <1>1, <1>3, <1>11, <1>13
<1>14. \A k \in 0..N : k \in T
  <2> HIDE DEF T
  <2> QED
    BY <1>1, <1>12, <1>13, Upward
<1> QED
  BY <1>11, <1>14 DEF q, N

(* ... and what it leaves behind. *)
LEMMA FoldingEffect ==
    ASSUME NEW st \in FoldState, NEW is \in Seq(Instruction), NEW N, N = Len(is),
           NEW p, p = Opt!Folding(st, is)
    PROVE  /\ ~p[N].crashed => ~st.crashed /\ \A k \in 1..N : Weaker(p[k].left, is[k])
           /\ ~p[N].changed => ~st.changed
           /\ ~p[N].crashed /\ ~p[N].changed /\ DOMAIN st.consts = {} =>
                 DOMAIN p[N].consts = {} /\ \A k \in 1..N : p[k].left = is[k]
<1>1. /\ p[0] = st /\ \A k \in 0..N : p[k] \in FoldState
      /\ \A k \in 1..N : p[k] = Opt!FoldInstr(p[k - 1], is[k])
      /\ N \in Nat /\ \A k \in 1..N : is[k] \in Instruction
  BY FoldingNext
<1>2. ASSUME NEW k \in 1..N
      PROVE  /\ k - 1 \in 0..N /\ k \in 0..N
             /\ ~p[k].crashed => ~p[k - 1].crashed /\ Weaker(p[k].left, is[k])
             /\ ~p[k].changed => ~p[k - 1].changed
             /\ ~p[k].changed /\ ~p[k].crashed /\ DOMAIN p[k - 1].consts = {} =>
                   DOMAIN p[k].consts = {} /\ p[k].left = is[k]
  <2>1. k - 1 \in 0..N /\ k \in 0..N
    BY <1>1
  <2>2. p[k - 1] \in FoldState /\ is[k] \in Instruction /\ p[k] = Opt!FoldInstr(p[k - 1], is[k])
    BY <1>1, <2>1
  <2> DEFINE out == Opt!FoldInstr(p[k - 1], is[k])
  <2>3. /\ ~out.crashed => ~p[k - 1].crashed /\ Weaker(out.left, is[k])
        /\ ~out.changed => ~p[k - 1].changed
        /\ ~out.changed /\ ~out.crashed /\ DOMAIN p[k - 1].consts = {} =>
              DOMAIN out.consts = {} /\ out.left = is[k]
    BY <2>2, FoldInstrTyped
  <2>4. p[k] = out
    BY <2>2
  <2> HIDE DEF out
  <2> QED
    BY <2>1, <2>3, <2>4
<1>3. ~p[N].crashed => \A k \in 0..N : ~p[k].crashed
  <2> DEFINE C == {k \in 0..N : p[k].crashed}
  <2>1. \A k \in 1..N : k - 1 \in C => k \in C
    BY <1>2
  <2>2. \A k \in 0..N : k \in C => N \in C
    <3> HIDE DEF C
    <3> QED
      BY <1>1, <2>1, HeldAtEnd
  <2> QED
    BY <2>2
<1>4. ~p[N].changed => \A k \in 0..N : ~p[k].changed
  <2> DEFINE C == {k \in 0..N : p[k].changed}
  <2>1. \A k \in 1..N : k - 1 \in C => k \in C
    BY <1>2
  <2>2. \A k \in 0..N : k \in C => N \in C
    <3> HIDE DEF C
    <3> QED
      BY <1>1, <2>1, HeldAtEnd
  <2> QED
    BY <2>2
<1>5. 0 \in 0..N /\ N \in 0..N
  BY <1>1
<1>6. ASSUME ~p[N].crashed
      PROVE  ~st.crashed /\ \A k \in 1..N : Weaker(p[k].left, is[k])
  BY <1>1, <1>2, <1>3, <1>5, <1>6
<1>7. ASSUME ~p[N].changed PROVE ~st.changed
  BY <1>1, <1>4, <1>5, <1>7
<1>8. ASSUME ~p[N].crashed, ~p[N].changed, DOMAIN st.consts = {}
      PROVE  DOMAIN p[N].consts = {} /\ \A k \in 1..N : p[k].left = is[k]
  <2> DEFINE T == {k \in 0..N : DOMAIN p[k].consts = {}}
  <2>1. 0 \in T
    BY <1>1, <1>5, <1>8
  <2>2. \A k \in 1..N : k - 1 \in T => k \in T
    BY <1>2, <1>3, <1>4, <1>8
  <2>3. \A k \in 0..N : k \in T
    <3> HIDE DEF T
    <3> QED
      BY <1>1, <2>1, <2>2, Upward
  <2>4. \A k \in 0..N : DOMAIN p[k].consts = {}
    BY <2>3
  <2> QED
    BY <1>2, <1>3, <1>4, <1>5, <1>8, <2>4
<1> QED
  BY <1>6, <1>7, <1>8

(* The sweep over the block list. *)
LEMMA FoldingBlocksNext ==
    ASSUME NEW bs \in Seq(BasicBlock), NEW N, N = Len(bs), NEW p, p = Opt!FoldingBlocks(bs)
    PROVE  /\ p[0] = Opt!AtStart
           /\ \A b \in 0..N : p[b] \in FoldState
           /\ \A b \in 1..N : p[b] = Opt!Folding(p[b - 1], bs[b].instrs)[Len(bs[b].instrs)]
<1> DEFINE Step(x, b) == Opt!Folding(x, bs[b].instrs)[Len(bs[b].instrs)]
           Body(r) == [b \in 0..N |-> IF b = 0 THEN Opt!AtStart ELSE Step(r[b - 1], b)]
           F == [b \in 1..N |-> [x \in FoldState |-> Step(x, b)]]
<1>1. N \in Nat /\ \A b \in 1..N : bs[b].instrs \in Seq(Instruction)
  BY BlockFields DEF Labels
<1>2. p = CHOOSE r : r = Body(r)
  BY DEF Opt!FoldingBlocks
<1>3. \A b \in 1..N : \A x \in FoldState : Step(x, b) \in FoldState
  <2> TAKE b \in 1..N
  <2> TAKE x \in FoldState
  <2> DEFINE is == bs[b].instrs
  <2>1. is \in Seq(Instruction) /\ Len(is) \in Nat
    BY <1>1
  <2>2. Len(is) \in 0..Len(is)
    BY <2>1
  <2> HIDE DEF is
  <2>3. Opt!Folding(x, is)[Len(is)] \in FoldState
    BY <2>1, <2>2, FoldingNext
  <2> QED
    BY <2>3 DEF is
<1> HIDE DEF Step
<1>4. F \in Steps(N, FoldState)
  BY <1>3 DEF Steps
<1>5. \A b \in 1..N : \A x \in FoldState : F[b][x] = Step(x, b)
  OBVIOUS
<1> HIDE DEF F
<1>6a. PICK r : Solves(r, N, FoldState, Opt!AtStart, F)
  BY <1>1, <1>4, StartTyped, Iterates
<1>6. r \in [0..N -> FoldState] /\ r[0] = Opt!AtStart /\ \A b \in 1..N : r[b] = F[b][r[b - 1]]
  BY <1>6a DEF Solves
<1>7. \A b \in 0..N : b # 0 => b \in 1..N /\ b - 1 \in 0..N
  BY <1>1
<1>8. r = Body(r)
  <2>1. \A b \in 0..N : r[b] = IF b = 0 THEN Opt!AtStart ELSE Step(r[b - 1], b)
    BY <1>5, <1>6, <1>7
  <2>2. r = [b \in 0..N |-> r[b]]
    BY <1>6
  <2> QED
    BY <2>1, <2>2
<1>9. p = Body(p)
  <2> HIDE DEF Body
  <2> QED
    BY <1>2, <1>8
<1>10. \A b \in 0..N : p[b] = IF b = 0 THEN Opt!AtStart ELSE Step(p[b - 1], b)
  BY <1>9
<1> HIDE DEF Body
<1>11. p[0] = Opt!AtStart /\ \A b \in 1..N : p[b] = Step(p[b - 1], b)
  <2>1. 0 \in 0..N /\ \A b \in 1..N : b \in 0..N /\ b # 0
    BY <1>1
  <2> QED
    BY <1>10, <2>1
<1> DEFINE T == {b \in 0..N : p[b] \in FoldState}
<1>12. 0 \in T
  BY <1>1, <1>11, StartTyped
<1>13. ASSUME NEW b \in 1..N, b - 1 \in T
       PROVE  b \in T
  BY <1>1, <1>3, <1>11, <1>13
<1>14. \A b \in 0..N : b \in T
  <2> HIDE DEF T
  <2> QED
    BY <1>1, <1>12, <1>13, Upward
<1> QED
  BY <1>11, <1>14 DEF Step

-----------------------------------------------------------------------------
(* New instructions for the blocks of a function. *)
Rewrite(bs, c)     == [b \in DOMAIN bs |-> [bs[b] EXCEPT !.instrs = c[b]]]
WithBlocks(fn, bs) == [fn EXCEPT !.blocks = bs]

Fine(fn) == fn \in Function /\ Sealed(fn.blocks)

LEMMA WithInstrsIs == \A fn, c : Opt!WithInstrs(fn, c) = WithBlocks(fn, Rewrite(fn.blocks, c))
BY DEF Opt!WithInstrs, WithBlocks, Rewrite

LEMMA FunctionFields ==
    ASSUME NEW fn \in Function
    PROVE  fn.blocks \in Seq(BasicBlock) /\ DOMAIN fn.blocks = Labels(fn.blocks) /\ Len(fn.blocks) \in Nat
BY DEF Function, Labels

LEMMA WithBlocksTyped ==
    ASSUME NEW fn \in Function, NEW bs \in Seq(BasicBlock)
    PROVE  /\ WithBlocks(fn, bs) \in Function /\ WithBlocks(fn, bs).blocks = bs
           /\ bs = fn.blocks => WithBlocks(fn, bs) = fn
BY DEF WithBlocks, Function

LEMMA RewriteEffect ==
    ASSUME NEW bs \in Seq(BasicBlock), NEW c \in Codes, DOMAIN c = Labels(bs)
    PROVE  /\ Rewrite(bs, c) \in Seq(BasicBlock) /\ Labels(Rewrite(bs, c)) = Labels(bs)
           /\ Code(Rewrite(bs, c)) = c
           /\ \A b \in Labels(bs) : Rewrite(bs, c)[b].instrs = c[b]
           /\ c = Code(bs) => Rewrite(bs, c) = bs
<1> DEFINE N   == Len(bs)
           new == Rewrite(bs, c)
<1>1. N \in Nat /\ DOMAIN bs = 1..N /\ Labels(bs) = 1..N
  BY DEF Labels
<1>2. \A b \in 1..N : bs[b] \in BasicBlock /\ c[b] \in Seq(Instruction)
  BY <1>1 DEF Codes
<1>3. new = [b \in 1..N |-> [bs[b] EXCEPT !.instrs = c[b]]]
  BY <1>1 DEF Rewrite
<1>4. \A b \in 1..N : new[b] = [bs[b] EXCEPT !.instrs = c[b]]
  BY <1>3
<1>5. new = [b \in 1..N |-> new[b]]
  BY <1>3
<1> HIDE DEF new
<1>6. \A b \in 1..N : new[b] \in BasicBlock /\ new[b].instrs = c[b]
  <2> TAKE b \in 1..N
  <2>1. bs[b] \in BasicBlock /\ c[b] \in Seq(Instruction)
    BY <1>2
  <2>2. [bs[b] EXCEPT !.instrs = c[b]] \in BasicBlock /\ [bs[b] EXCEPT !.instrs = c[b]].instrs = c[b]
    BY <2>1 DEF BasicBlock
  <2> QED
    BY <1>4, <2>2
<1> HIDE DEF N
<1>7. new \in Seq(BasicBlock) /\ Len(new) = N
  BY <1>1, <1>5, <1>6, AsSequence
<1>8. Labels(new) = Labels(bs)
  BY <1>1, <1>7 DEF Labels
<1>9. Code(new) \in Codes /\ DOMAIN Code(new) = 1..N /\ \A b \in 1..N : Code(new)[b] = new[b].instrs
  BY <1>1, <1>7, <1>8, CodeOf
<1>10. Code(new) = c
  BY <1>1, <1>6, <1>9, SameCode
<1>11. ASSUME c = Code(bs)
       PROVE  new = bs
  <2>1. \A b \in 1..N : c[b] = bs[b].instrs
    BY <1>1, <1>11, CodeOf
  <2>2. \A b \in 1..N : new[b] = bs[b]
    <3> TAKE b \in 1..N
    <3>1. bs[b] \in BasicBlock /\ c[b] = bs[b].instrs /\ new[b] = [bs[b] EXCEPT !.instrs = c[b]]
      BY <1>2, <1>4, <2>1
    <3>2. [bs[b] EXCEPT !.instrs = bs[b].instrs] = bs[b]
      BY <3>1 DEF BasicBlock
    <3> QED
      BY <3>1, <3>2
  <2>3. bs = [b \in 1..N |-> bs[b]]
    BY <1>1
  <2> QED
    BY <1>5, <2>2, <2>3
<1> QED
  BY <1>1, <1>6, <1>7, <1>8, <1>10, <1>11 DEF new

(* A rewriting of every instruction in its place.                          *)
InPlaceOf(c, e) ==
    /\ c \in Codes /\ DOMAIN c = DOMAIN e
    /\ \A b \in DOMAIN e : /\ DOMAIN c[b] = DOMAIN e[b]
                           /\ \A k \in DOMAIN e[b] : Weaker(c[b][k], e[b][k])

LEMMA CertWeaker ==
    ASSUME NEW e \in Codes, NEW c, InPlaceOf(c, e), NEW a, Certified(e, a)
    PROVE  Certified(c, a)
<1>1. /\ DOMAIN c = DOMAIN e
      /\ \A b \in DOMAIN e : DOMAIN c[b] = DOMAIN e[b]
      /\ \A b \in DOMAIN e : \A k \in DOMAIN e[b] : Weaker(c[b][k], e[b][k])
  BY DEF InPlaceOf
<1>2. \A b \in DOMAIN e : DOMAIN e[b] = 1..Len(e[b]) /\ Len(e[b]) \in Nat
  BY DEF Codes
<1>3. \A b \in DOMAIN e : \A k \in DOMAIN e[b] : c[b][k].dst = e[b][k].dst
  BY <1>1 DEF Weaker
<1>4. \A b \in DOMAIN e : Dsts(c[b]) = Dsts(e[b])
  <2> TAKE b \in DOMAIN e
  <2>1. DOMAIN c[b] = DOMAIN e[b] /\ \A k \in DOMAIN e[b] : c[b][k].dst = e[b][k].dst
    BY <1>1, <1>3
  <2> QED
    BY <2>1 DEF Dsts
<1>5. \A b \in DOMAIN e : \A k \in DOMAIN e[b] : Before(c[b], k) = Before(e[b], k)
  <2> TAKE b \in DOMAIN e
  <2> TAKE k \in DOMAIN e[b]
  <2>1. \A j \in 1..(k - 1) : j \in DOMAIN e[b]
    BY <1>2
  <2>2. \A j \in 1..(k - 1) : c[b][j].dst = e[b][j].dst
    BY <1>3, <2>1
  <2>3. {c[b][j].dst : j \in 1..(k - 1)} = {e[b][j].dst : j \in 1..(k - 1)}
    BY <2>2
  <2> QED
    BY <2>3 DEF Before
<1>6. /\ DOMAIN a = DOMAIN c
      /\ 1 \in DOMAIN c => a[1] = {}
  BY <1>1 DEF Certified
<1>7. ASSUME NEW b \in DOMAIN c, NEW t \in a[b]
      PROVE  \E d \in 1..(b - 1) : t \in Dsts(c[d])
  <2>1. PICK d \in 1..(b - 1) : t \in Dsts(e[d])
    BY <1>1, <1>7 DEF Certified
  <2>2. DOMAIN e = 1..Len(e) /\ Len(e) \in Nat
    BY DEF Codes
  <2>3. d \in DOMAIN e
    BY <1>1, <2>2
  <2> QED
    BY <1>4, <2>1, <2>3
<1>8. ASSUME NEW b \in DOMAIN c, NEW k \in DOMAIN c[b]
      PROVE  /\ Uses(c[b][k]) \subseteq a[b] \cup Before(c[b], k)
             /\ \A s \in Targets(c[b][k]) : s \in DOMAIN c /\ a[s] \subseteq a[b] \cup Before(c[b], k)
  <2>1. b \in DOMAIN e /\ k \in DOMAIN e[b]
    BY <1>1, <1>8
  <2>2. /\ Uses(e[b][k]) \subseteq a[b] \cup Before(e[b], k)
        /\ \A s \in Targets(e[b][k]) : s \in DOMAIN e /\ a[s] \subseteq a[b] \cup Before(e[b], k)
    BY <2>1 DEF Certified
  <2>3. Uses(c[b][k]) \subseteq Uses(e[b][k]) /\ Targets(c[b][k]) \subseteq Targets(e[b][k])
    BY <1>1, <2>1 DEF Weaker
  <2> QED
    BY <1>1, <1>5, <2>1, <2>2, <2>3
<1> QED
  BY <1>6, <1>7, <1>8 DEF Certified

LEMMA InTargets ==
    ASSUME NEW bs \in Seq(BasicBlock), NEW b \in Labels(bs)
    PROVE  \A l : l \in TargetsOf(bs[b]) <=> \E k \in DOMAIN bs[b].instrs : l \in Targets(bs[b].instrs[k])
BY DEF TargetsOf, Range

(* Such a rewriting keeps everything that is carried through the passes.   *)
LEMMA RewriteInPlace ==
    ASSUME NEW fn, Fine(fn), NEW c, InPlaceOf(c, Code(fn.blocks)),
           NEW out, out = WithBlocks(fn, Rewrite(fn.blocks, c))
    PROVE  /\ Fine(out)
           /\ \A a : Certified(Code(fn.blocks), a) => Certified(Code(out.blocks), a)
           /\ c = Code(fn.blocks) => out = fn
<1> DEFINE bs  == fn.blocks
           new == Rewrite(bs, c)
<1>1. fn \in Function /\ bs \in Seq(BasicBlock) /\ Sealed(bs)
  BY FunctionFields DEF Fine
<1>2. /\ Code(bs) \in Codes /\ DOMAIN Code(bs) = Labels(bs)
      /\ \A b \in Labels(bs) : Code(bs)[b] = bs[b].instrs
  BY <1>1, CodeOf
<1>3. /\ c \in Codes /\ DOMAIN c = Labels(bs)
      /\ \A b \in Labels(bs) : DOMAIN c[b] = DOMAIN bs[b].instrs
      /\ \A b \in Labels(bs) : \A k \in DOMAIN bs[b].instrs : Weaker(c[b][k], bs[b].instrs[k])
  BY <1>2 DEF InPlaceOf
<1> HIDE DEF bs
<1>4. /\ new \in Seq(BasicBlock) /\ Labels(new) = Labels(bs) /\ Code(new) = c
      /\ \A b \in Labels(bs) : new[b].instrs = c[b]
      /\ c = Code(bs) => new = bs
  BY <1>1, <1>3, RewriteEffect
<1> HIDE DEF new
<1>5. out \in Function /\ out.blocks = new /\ (new = bs => out = fn)
  BY <1>1, <1>4, WithBlocksTyped DEF new, bs
<1>6. ASSUME NEW b \in Labels(new)
      PROVE  IsTerminated(new[b]) /\ TargetsOf(new[b]) \subseteq Labels(new)
  <2> DEFINE is == bs[b].instrs
  <2>1. /\ b \in Labels(bs) /\ is \in Seq(Instruction) /\ new[b].instrs = c[b] /\ c[b] \in Seq(Instruction)
        /\ DOMAIN c[b] = DOMAIN is /\ \A k \in DOMAIN is : Weaker(c[b][k], is[k])
    BY <1>1, <1>3, <1>4, <1>6, BlockFields DEF Codes
  <2>2. IsTerminated(bs[b]) /\ TargetsOf(bs[b]) \subseteq Labels(bs)
    BY <1>1, <2>1 DEF Sealed
  <2>3. is # <<>> /\ is[Len(is)].tag \in Terminators
    BY <2>2 DEF IsTerminated
  <2>4. \A l : l \in TargetsOf(bs[b]) <=> \E k \in DOMAIN is : l \in Targets(is[k])
    BY <1>1, <2>1, InTargets
  <2>5. \A l : l \in TargetsOf(new[b]) <=> \E k \in DOMAIN c[b] : l \in Targets(c[b][k])
    BY <1>4, <1>6, <2>1, InTargets
  <2> HIDE DEF is
  <2>6. Len(c[b]) = Len(is) /\ Len(is) \in DOMAIN is
    BY <2>1, <2>3
  <2>7. c[b] # <<>> /\ c[b][Len(c[b])].tag \in Terminators
    BY <2>1, <2>3, <2>6 DEF Weaker
  <2>8. IsTerminated(new[b])
    BY <2>1, <2>7 DEF IsTerminated
  <2>9. TargetsOf(new[b]) \subseteq TargetsOf(bs[b])
    BY <2>1, <2>4, <2>5 DEF Weaker
  <2> QED
    BY <1>4, <2>2, <2>8, <2>9
<1>7. Fine(out)
  BY <1>5, <1>6 DEF Fine, Sealed
<1>8. \A a : Certified(Code(bs), a) => Certified(c, a)
  BY <1>2, CertWeaker DEF bs
<1> QED
  BY <1>4, <1>5, <1>7, <1>8 DEF bs

-----------------------------------------------------------------------------
(* What every pass keeps. *)
Kept(fn, out) == Fine(out) /\ (Covered(fn) => Covered(out))

LEMMA InstrsOf ==
    ASSUME NEW fn, Fine(fn)
    PROVE  /\ fn \in Function /\ fn.blocks \in Seq(BasicBlock) /\ DOMAIN fn.blocks = Labels(fn.blocks)
           /\ Code(fn.blocks) \in Codes /\ DOMAIN Code(fn.blocks) = Labels(fn.blocks)
           /\ Labels(fn.blocks) = 1..Len(fn.blocks) /\ Len(fn.blocks) \in Nat
           /\ \A b \in Labels(fn.blocks) :
                 /\ Code(fn.blocks)[b] = fn.blocks[b].instrs
                 /\ fn.blocks[b].instrs \in Seq(Instruction) /\ Len(fn.blocks[b].instrs) \in Nat
                 /\ DOMAIN fn.blocks[b].instrs = 1..Len(fn.blocks[b].instrs)
           /\ \A b \in Labels(fn.blocks) : \A k \in DOMAIN fn.blocks[b].instrs :
                 fn.blocks[b].instrs[k] \in Instruction
<1>1. fn \in Function /\ fn.blocks \in Seq(BasicBlock) /\ DOMAIN fn.blocks = Labels(fn.blocks)
  BY FunctionFields DEF Fine
<1>2. /\ Code(fn.blocks) \in Codes /\ DOMAIN Code(fn.blocks) = Labels(fn.blocks)
      /\ \A b \in Labels(fn.blocks) : Code(fn.blocks)[b] = fn.blocks[b].instrs
  BY <1>1, CodeOf
<1>3. \A b \in Labels(fn.blocks) : fn.blocks[b].instrs \in Seq(Instruction)
  BY <1>1, BlockFields
<1>4. \A b \in Labels(fn.blocks) :
         /\ Len(fn.blocks[b].instrs) \in Nat
         /\ DOMAIN fn.blocks[b].instrs = 1..Len(fn.blocks[b].instrs)
         /\ \A k \in DOMAIN fn.blocks[b].instrs : fn.blocks[b].instrs[k] \in Instruction
  BY <1>3
<1>5. Labels(fn.blocks) = 1..Len(fn.blocks) /\ Len(fn.blocks) \in Nat
  BY <1>1 DEF Labels
<1> QED
  BY <1>1, <1>2, <1>3, <1>4, <1>5

(* A pass that puts something weaker in the place of every instruction.    *)
InEveryPlace(fn, c) ==
    /\ c = [b \in DOMAIN fn.blocks |-> c[b]]
    /\ \A b \in DOMAIN fn.blocks :
          /\ c[b] = [k \in DOMAIN fn.blocks[b].instrs |-> c[b][k]]
          /\ \A k \in DOMAIN fn.blocks[b].instrs : Weaker(c[b][k], fn.blocks[b].instrs[k])

LEMMA PointwiseKeeps ==
    ASSUME NEW fn, Fine(fn), NEW c, InEveryPlace(fn, c)
    PROVE  /\ Kept(fn, Opt!WithInstrs(fn, c))
           /\ (\A b \in DOMAIN fn.blocks : \A k \in DOMAIN fn.blocks[b].instrs :
                  c[b][k] = fn.blocks[b].instrs[k])
              => Opt!WithInstrs(fn, c) = fn
<1> DEFINE bs  == fn.blocks
           N   == Len(bs)
           out == Opt!WithInstrs(fn, c)
<1>1. out = WithBlocks(fn, Rewrite(bs, c))
  BY WithInstrsIs
<1>2. /\ bs \in Seq(BasicBlock) /\ DOMAIN bs = 1..N /\ N \in Nat /\ Code(bs) \in Codes /\ DOMAIN Code(bs) = 1..N
      /\ \A b \in 1..N : /\ Code(bs)[b] = bs[b].instrs
                         /\ bs[b].instrs \in Seq(Instruction) /\ Len(bs[b].instrs) \in Nat
                         /\ DOMAIN bs[b].instrs = 1..Len(bs[b].instrs)
  BY InstrsOf
<1>3. /\ c = [b \in 1..N |-> c[b]]
      /\ \A b \in 1..N : c[b] = [k \in 1..Len(bs[b].instrs) |-> c[b][k]]
      /\ \A b \in 1..N : \A k \in 1..Len(bs[b].instrs) : Weaker(c[b][k], bs[b].instrs[k])
  BY <1>2 DEF InEveryPlace
<1> HIDE DEF bs, N, out
<1>4. \A b \in 1..N : c[b] \in Seq(Instruction) /\ DOMAIN c[b] = DOMAIN bs[b].instrs
  <2> TAKE b \in 1..N
  <2> DEFINE M == Len(bs[b].instrs)
             e == c[b]
  <2>1. M \in Nat /\ \A k \in 1..M : e[k] \in Instruction
    BY <1>2, <1>3 DEF Weaker
  <2>2. e = [k \in 1..M |-> e[k]] /\ DOMAIN bs[b].instrs = 1..M
    BY <1>2, <1>3
  <2> HIDE DEF M, e
  <2>3. e \in Seq(Instruction) /\ DOMAIN e = 1..M
    BY <2>1, <2>2, AsSequence
  <2> QED
    BY <2>2, <2>3 DEF e
<1>5. c \in Codes /\ DOMAIN c = 1..N
  BY <1>2, <1>3, <1>4, AsSequence DEF Codes
<1>6. InPlaceOf(c, Code(bs))
  BY <1>2, <1>3, <1>4, <1>5 DEF InPlaceOf
<1>7. /\ Fine(out) /\ \A a : Certified(Code(bs), a) => Certified(Code(out.blocks), a)
      /\ c = Code(bs) => out = fn
  BY <1>1, <1>6, RewriteInPlace DEF bs
<1>8. Kept(fn, out)
  BY <1>7 DEF Kept, Covered, bs
<1>9. ASSUME \A b \in DOMAIN bs : \A k \in DOMAIN bs[b].instrs : c[b][k] = bs[b].instrs[k]
      PROVE  out = fn
  <2>1. \A b \in 1..N : c[b] = bs[b].instrs
    <3> TAKE b \in 1..N
    <3> DEFINE is == bs[b].instrs
               M  == Len(is)
    <3>1. is \in Seq(Instruction) /\ DOMAIN is = 1..M /\ \A k \in 1..M : c[b][k] = is[k]
      BY <1>2, <1>9
    <3>2. c[b] = [k \in 1..M |-> c[b][k]]
      BY <1>3
    <3> HIDE DEF is, M
    <3>3. is = [k \in 1..M |-> is[k]]
      BY <3>1
    <3>4. [k \in 1..M |-> c[b][k]] = [k \in 1..M |-> is[k]]
      BY <3>1
    <3> QED
      BY <3>2, <3>3, <3>4 DEF is
  <2>2. c = Code(bs)
    BY <1>2, <1>5, <2>1, SameCode
  <2> QED
    BY <1>7, <2>2
<1> QED
  BY <1>8, <1>9 DEF out, bs

(* ConstantFoldingPass leaves every definition in its place.               *)
LEMMA ConstantFoldingKeeps ==
    ASSUME NEW fn, Fine(fn), ~Opt!ConstantFolding(fn).crashed
    PROVE  /\ Kept(fn, Opt!ConstantFolding(fn).fn)
           /\ ~Opt!ConstantFolding(fn).changed => Opt!ConstantFolding(fn).fn = fn
<1> DEFINE bs   == fn.blocks
           N    == Len(bs)
           past == Opt!FoldingBlocks(bs)
           c    == [b \in DOMAIN bs |-> [k \in DOMAIN bs[b].instrs |->
                                           Opt!Folding(past[b - 1], bs[b].instrs)[k].left]]
           out  == Opt!ConstantFolding(fn).fn
<1>1. /\ out = Opt!WithInstrs(fn, c)
      /\ Opt!ConstantFolding(fn).changed = past[N].changed
      /\ Opt!ConstantFolding(fn).crashed = past[N].crashed
  BY DEF Opt!ConstantFolding
<1>2. /\ bs \in Seq(BasicBlock) /\ DOMAIN bs = 1..N /\ N \in Nat /\ Code(bs) \in Codes /\ DOMAIN Code(bs) = 1..N
      /\ \A b \in 1..N : /\ Code(bs)[b] = bs[b].instrs
                         /\ bs[b].instrs \in Seq(Instruction) /\ Len(bs[b].instrs) \in Nat
                         /\ DOMAIN bs[b].instrs = 1..Len(bs[b].instrs)
  BY InstrsOf
<1>3. /\ past[0] = Opt!AtStart /\ \A b \in 0..N : past[b] \in FoldState
      /\ \A b \in 1..N : past[b] = Opt!Folding(past[b - 1], bs[b].instrs)[Len(bs[b].instrs)]
  BY <1>2, FoldingBlocksNext
<1>4. /\ DOMAIN c = 1..N
      /\ \A b \in 1..N : c[b] = [k \in DOMAIN bs[b].instrs |->
                                     Opt!Folding(past[b - 1], bs[b].instrs)[k].left]
  BY <1>2
<1> HIDE DEF bs, N, past, c, out
<1>5. ASSUME NEW b \in 1..N
      PROVE  /\ b - 1 \in 0..N /\ b \in 0..N
             /\ ~past[b].crashed => /\ ~past[b - 1].crashed
                                    /\ \A k \in DOMAIN bs[b].instrs : Weaker(c[b][k], bs[b].instrs[k])
             /\ ~past[b].changed => ~past[b - 1].changed
             /\ ~past[b].crashed /\ ~past[b].changed /\ DOMAIN past[b - 1].consts = {} =>
                   DOMAIN past[b].consts = {} /\ c[b] = bs[b].instrs
  <2> DEFINE is == bs[b].instrs
             st == past[b - 1]
             p  == Opt!Folding(st, is)
             M  == Len(is)
  <2>1. b - 1 \in 0..N /\ b \in 0..N
    BY <1>2
  <2>2. st \in FoldState /\ is \in Seq(Instruction) /\ DOMAIN is = 1..M
    BY <1>2, <1>3, <2>1
  <2>3. past[b] = p[M] /\ \A k \in DOMAIN is : c[b][k] = p[k].left
    BY <1>3, <1>4
  <2>4. c[b] = [k \in DOMAIN is |-> p[k].left]
    BY <1>4
  <2> HIDE DEF is, st, p, M
  <2>5. is = [k \in DOMAIN is |-> is[k]]
    BY <2>2
  <2>6. /\ ~p[M].crashed => ~st.crashed /\ \A k \in 1..M : Weaker(p[k].left, is[k])
        /\ ~p[M].changed => ~st.changed
        /\ ~p[M].crashed /\ ~p[M].changed /\ DOMAIN st.consts = {} =>
                 DOMAIN p[M].consts = {} /\ \A k \in 1..M : p[k].left = is[k]
    BY <2>2, FoldingEffect DEF p, M
  <2>7. ~past[b].crashed => ~st.crashed /\ \A k \in DOMAIN is : Weaker(c[b][k], is[k])
    BY <2>2, <2>3, <2>6
  <2>8. ~past[b].changed => ~st.changed
    BY <2>3, <2>6
  <2>9. ASSUME ~past[b].crashed, ~past[b].changed, DOMAIN st.consts = {}
        PROVE  DOMAIN past[b].consts = {} /\ c[b] = is
    <3>1. DOMAIN p[M].consts = {} /\ \A k \in 1..M : p[k].left = is[k]
      BY <2>3, <2>6, <2>9
    <3>2. [k \in DOMAIN is |-> p[k].left] = [k \in DOMAIN is |-> is[k]]
      BY <2>2, <3>1
    <3> QED
      BY <2>3, <2>4, <2>5, <3>1, <3>2
  <2> QED
    BY <2>1, <2>7, <2>8, <2>9 DEF is, st
<1>6. \A b \in 0..N : ~past[b].crashed
  <2> DEFINE C == {b \in 0..N : past[b].crashed}
  <2>1. \A b \in 1..N : b - 1 \in C => b \in C
    BY <1>5
  <2>2. \A b \in 0..N : b \in C => N \in C
    <3> HIDE DEF C
    <3> QED
      BY <1>2, <2>1, HeldAtEnd
  <2>3. ~past[N].crashed
    BY <1>1
  <2> QED
    BY <2>2, <2>3
<1>7. InEveryPlace(fn, c)
  <2>1. c = [b \in DOMAIN bs |-> c[b]]
    BY <1>2 DEF c
  <2>2. \A b \in 1..N : c[b] = [k \in DOMAIN bs[b].instrs |-> c[b][k]]
    BY <1>4
  <2>3. \A b \in 1..N : \A k \in DOMAIN bs[b].instrs : Weaker(c[b][k], bs[b].instrs[k])
    BY <1>5, <1>6
  <2> QED
    BY <1>2, <2>1, <2>2, <2>3 DEF InEveryPlace, bs
<1>8. /\ Kept(fn, out)
      /\ (\A b \in DOMAIN bs : \A k \in DOMAIN bs[b].instrs : c[b][k] = bs[b].instrs[k]) => out = fn
  BY <1>1, <1>7, PointwiseKeeps DEF bs
<1>10. ASSUME ~past[N].changed
       PROVE  out = fn
  <2>1. \A b \in 0..N : ~past[b].changed
    <3> DEFINE C == {b \in 0..N : past[b].changed}
    <3>1. \A b \in 1..N : b - 1 \in C => b \in C
      BY <1>5
    <3>2. \A b \in 0..N : b \in C => N \in C
      <4> HIDE DEF C
      <4> QED
        BY <1>2, <3>1, HeldAtEnd
    <3> QED
      BY <1>10, <3>2
  <2> DEFINE T == {b \in 0..N : DOMAIN past[b].consts = {}}
  <2>2. 0 \in T
    <3>1. 0 \in 0..N /\ DOMAIN Opt!AtStart.consts = {}
      BY <1>2, StartTyped DEF Opt!AtStart
    <3> QED
      BY <1>3, <3>1
  <2>3. \A b \in 1..N : b - 1 \in T => b \in T
    BY <1>5, <1>6, <2>1
  <2>4. \A b \in 0..N : b \in T
    <3> HIDE DEF T
    <3> QED
      BY <1>2, <2>2, <2>3, Upward
  <2>5. \A b \in 1..N : c[b] = bs[b].instrs
    BY <1>5, <1>6, <2>1, <2>4
  <2> QED
    BY <1>2, <1>8, <2>5
<1> QED
  BY <1>1, <1>8, <1>10 DEF out

-----------------------------------------------------------------------------
(* AlgebraicSimplificationPass: one of the operands, or the constant zero. *)
LEMMA SimplifyTyped ==
    ASSUME NEW i \in Instruction, Opt!Simplifies(i)
    PROVE  Weaker(Assign(i.dst, Opt!Simplify(i)[1]), i)
<1> DEFINE l == i.args[1]
           r == i.args[2]
           s == Opt!Simplify(i)
<1>1. i.tag = "binop" /\ s # <<>>
  BY DEF Opt!Simplifies
<1>2. Len(i.args) = 2 /\ DOMAIN i.args = 1..Len(i.args) /\ i.args \in Seq(Value)
  BY <1>1, InstrFields DEF Complete
<1>3. 1 \in DOMAIN i.args /\ 2 \in DOMAIN i.args
  BY <1>2
<1>4. l \in Value /\ r \in Value
  BY <1>2, <1>3
<1>5. (l.k = "temp" => l.v \in Uses(i)) /\ (r.k = "temp" => r.v \in Uses(i))
  BY <1>3 DEF Uses
<1>6. ImmI64(0) \in Value /\ ImmI64(0).k # "temp"
  BY ValueTyped DEF ImmI64
<1>7. s \in {<<l>>, <<r>>, <<ImmI64(0)>>}
  BY <1>1, SameInstr DEF Opt!Simplify
<1> HIDE DEF l, r, s
<1>8. s[1] \in {l, r, ImmI64(0)}
  BY <1>7
<1>9. s[1] \in Value /\ (s[1].k = "temp" => s[1].v \in Uses(i))
  BY <1>4, <1>5, <1>6, <1>8
<1> QED
  BY <1>1, <1>9, WithAssign DEF s

LEMMA AlgebraicKeeps ==
    ASSUME NEW fn, Fine(fn)
    PROVE  /\ Kept(fn, Opt!AlgebraicSimplification(fn).fn)
           /\ ~Opt!AlgebraicSimplification(fn).changed => Opt!AlgebraicSimplification(fn).fn = fn
<1> DEFINE bs == fn.blocks
           New(i) == IF Opt!Simplifies(i) THEN Opt!Assign(i.dst, Opt!Simplify(i)[1]) ELSE i
           c  == [b \in DOMAIN bs |-> [k \in DOMAIN bs[b].instrs |-> New(bs[b].instrs[k])]]
<1>1. /\ Opt!AlgebraicSimplification(fn).fn = Opt!WithInstrs(fn, c)
      /\ Opt!AlgebraicSimplification(fn).changed =
            \E b \in DOMAIN bs : \E k \in DOMAIN bs[b].instrs : Opt!Simplifies(bs[b].instrs[k])
  BY DEF Opt!AlgebraicSimplification, Opt!Rewritten, Opt!SomeInstr
<1>2. \A i \in Instruction : Weaker(New(i), i) /\ (~Opt!Simplifies(i) => New(i) = i)
  BY SameInstr, SimplifyTyped, WeakerSame
<1> HIDE DEF New
<1>3. \A b \in DOMAIN bs : \A k \in DOMAIN bs[b].instrs : bs[b].instrs[k] \in Instruction
  BY InstrsOf
<1>4. \A b \in DOMAIN bs : \A k \in DOMAIN bs[b].instrs : c[b][k] = New(bs[b].instrs[k])
  OBVIOUS
<1>5. InEveryPlace(fn, c)
  BY <1>2, <1>3 DEF InEveryPlace
<1> HIDE DEF c
<1>6. /\ Kept(fn, Opt!WithInstrs(fn, c))
      /\ (\A b \in DOMAIN bs : \A k \in DOMAIN bs[b].instrs : c[b][k] = bs[b].instrs[k])
           => Opt!WithInstrs(fn, c) = fn
  BY <1>5, PointwiseKeeps
<1> QED
  BY <1>1, <1>2, <1>3, <1>4, <1>6

(* StrengthReductionPass: the variable operand is still the only one read.  *)
LEMMA ReduceTyped ==
    ASSUME NEW i \in Instruction, Opt!Reduces(i)
    PROVE  Weaker(BinOp(i.dst, "+", Opt!VarSide(i), ImmI64(Opt!Log2(Opt!ConstSide(i).v))), i)
<1> DEFINE v == Opt!VarSide(i)
           n == Opt!Log2(Opt!ConstSide(i).v)
           w == ImmI64(n)
           j == BinOp(i.dst, "+", v, w)
<1>1. i.tag = "binop" /\ Opt!PowerOfTwo(Opt!ConstSide(i))
  BY DEF Opt!Reduces
<1>2. Len(i.args) = 2 /\ DOMAIN i.args = 1..Len(i.args) /\ i.args \in Seq(Value) /\ i.dst \in Nat
  BY <1>1, InstrFields DEF Complete
<1>3. 1 \in DOMAIN i.args /\ 2 \in DOMAIN i.args
  BY <1>2
<1>4. v = i.args[1] \/ v = i.args[2]
  BY DEF Opt!VarSide
<1>5. v \in Value /\ (v.k = "temp" => v.v \in Uses(i))
  BY <1>2, <1>3, <1>4 DEF Uses
<1>6. n \in Int
  <2>1. \E k \in Opt!Exponents : Opt!ConstSide(i).v = 2 ^ k
    BY <1>1 DEF Opt!PowerOfTwo
  <2>2. n \in Opt!Exponents
    BY <2>1 DEF Opt!Log2
  <2>3. Opt!Exponents \subseteq Int
    BY WidthAssumption DEF Opt!Exponents
  <2> QED
    BY <2>2, <2>3
<1> HIDE DEF v, n
<1>7. w \in Value /\ w.k # "temp"
  BY <1>6, ValueTyped DEF ImmI64
<1> HIDE DEF w
<1>8. "+" \in Texts /\ "+" \in BinOps
  BY DEF Texts, BinOps
<1>9. Plain(j)
  BY <1>2, <1>5, <1>7, <1>8, BinOpTyped
<1>10. j.dst = i.dst /\ j.args = <<v, w>> /\ j.to = <<>>
  BY DEF BinOp, Instr
<1> HIDE DEF j
<1>11. j \in Instruction
  BY <1>9 DEF Plain
<1>12. Uses(j) \subseteq Uses(i)
  <2>1. \A a \in DOMAIN <<v, w>> : <<v, w>>[a] = v \/ <<v, w>>[a] = w
    OBVIOUS
  <2> QED
    BY <1>5, <1>7, <1>10, <2>1 DEF Uses
<1>13. Targets(j) = {}
  BY <1>10 DEF Targets
<1>14. i.tag \notin Terminators
  BY <1>1 DEF Terminators
<1> QED
  BY <1>10, <1>11, <1>12, <1>13, <1>14 DEF Weaker, j, v, w, n

LEMMA StrengthKeeps ==
    ASSUME NEW fn, Fine(fn)
    PROVE  /\ Kept(fn, Opt!StrengthReduction(fn).fn)
           /\ ~Opt!StrengthReduction(fn).changed => Opt!StrengthReduction(fn).fn = fn
<1> DEFINE bs == fn.blocks
           New(i) == IF Opt!Reduces(i)
                     THEN Opt!BinOp(i.dst, "+", Opt!VarSide(i), Opt!ImmI64(Opt!Log2(Opt!ConstSide(i).v)))
                     ELSE i
           c  == [b \in DOMAIN bs |-> [k \in DOMAIN bs[b].instrs |-> New(bs[b].instrs[k])]]
<1>1. /\ Opt!StrengthReduction(fn).fn = Opt!WithInstrs(fn, c)
      /\ Opt!StrengthReduction(fn).changed =
            \E b \in DOMAIN bs : \E k \in DOMAIN bs[b].instrs : Opt!Reduces(bs[b].instrs[k])
  BY DEF Opt!StrengthReduction, Opt!Rewritten, Opt!SomeInstr
<1>2. \A i \in Instruction : Weaker(New(i), i) /\ (~Opt!Reduces(i) => New(i) = i)
  BY SameInstr, ReduceTyped, WeakerSame
<1> HIDE DEF New
<1>3. \A b \in DOMAIN bs : \A k \in DOMAIN bs[b].instrs : bs[b].instrs[k] \in Instruction
  BY InstrsOf
<1>4. \A b \in DOMAIN bs : \A k \in DOMAIN bs[b].instrs : c[b][k] = New(bs[b].instrs[k])
  OBVIOUS
<1>5. InEveryPlace(fn, c)
  BY <1>2, <1>3 DEF InEveryPlace
<1> HIDE DEF c
<1>6. /\ Kept(fn, Opt!WithInstrs(fn, c))
      /\ (\A b \in DOMAIN bs : \A k \in DOMAIN bs[b].instrs : c[b][k] = bs[b].instrs[k])
           => Opt!WithInstrs(fn, c) = fn
  BY <1>5, PointwiseKeeps
<1> QED
  BY <1>1, <1>2, <1>3, <1>4, <1>6

-----------------------------------------------------------------------------
(* DeadCodeEliminationPass: what is left of a block, one position after     *)
(* the other.  `kept` is what is kept of the first k instructions.          *)
Left(is, dead, used, k, kept) ==
    /\ \A m \in 1..Len(kept) : \E j \in 1..k :
          /\ j \notin dead /\ kept[m] = is[j]
          /\ Before(is, j) \cap used \subseteq Before(kept, m)
    /\ Before(is, k + 1) \cap used \subseteq Dsts(kept)
    /\ k # 0 /\ k \notin dead => kept # <<>> /\ kept[Len(kept)] = is[k]
    /\ dead = {} => Len(kept) = k /\ \A j \in 1..k : kept[j] = is[j]

LEMMA BeforeNext ==
    ASSUME NEW is \in Seq(Instruction), NEW k \in 1..Len(is)
    PROVE  Before(is, k + 1) = Before(is, k) \cup ({is[k].dst} \ {NoTemp})
<1>1. (k + 1) - 1 = k /\ \A j : j \in 1..k <=> j \in 1..(k - 1) \/ j = k
  OBVIOUS
<1> QED
  BY <1>1 DEF Before

LEMMA LeftStart ==
    ASSUME NEW is \in Seq(Instruction), NEW dead, NEW used
    PROVE  Left(is, dead, used, 0, <<>>)
<1>1. Before(is, 0 + 1) = {}
  <2>1. 1..((0 + 1) - 1) = {}
    OBVIOUS
  <2> QED
    BY <2>1 DEF Before
<1> QED
  BY <1>1 DEF Left

LEMMA LeftDropped ==
    ASSUME NEW is \in Seq(Instruction), NEW dead, NEW used, NEW k \in 1..Len(is), k \in dead,
           is[k].dst \notin used, NEW kept \in Seq(Instruction), Left(is, dead, used, k - 1, kept)
    PROVE  Left(is, dead, used, k, kept)
<1>1. Before(is, k + 1) \cap used \subseteq Dsts(kept)
  <2>1. (k - 1) + 1 = k
    OBVIOUS
  <2>2. Before(is, k) \cap used \subseteq Dsts(kept)
    BY <2>1 DEF Left
  <2> QED
    BY <2>2, BeforeNext
<1>2. \A m \in 1..Len(kept) : \E j \in 1..k :
          /\ j \notin dead /\ kept[m] = is[j]
          /\ Before(is, j) \cap used \subseteq Before(kept, m)
  <2>1. \A j \in 1..(k - 1) : j \in 1..k
    OBVIOUS
  <2> QED
    BY <2>1 DEF Left
<1> QED
  BY <1>1, <1>2 DEF Left

LEMMA LeftKept ==
    ASSUME NEW is \in Seq(Instruction), NEW dead, NEW used, NEW k \in 1..Len(is), k \notin dead,
           NEW kept \in Seq(Instruction), Left(is, dead, used, k - 1, kept)
    PROVE  Left(is, dead, used, k, Append(kept, is[k]))
<1> DEFINE i == is[k]
           n == Len(kept)
           new == Append(kept, i)
<1>1. i \in Instruction
  OBVIOUS
<1>2. /\ Dsts(new) = Dsts(kept) \cup ({i.dst} \ {NoTemp})
      /\ n \in Nat /\ \A m \in 1..n : new[m] = kept[m] /\ Before(new, m) = Before(kept, m)
      /\ new[n + 1] = i /\ Before(new, n + 1) = Dsts(kept)
  BY <1>1, AppendInstr
<1>3. Len(new) = n + 1 /\ new # <<>>
  OBVIOUS
<1>4. (k - 1) + 1 = k /\ k \in 1..k /\ \A j \in 1..(k - 1) : j \in 1..k
  OBVIOUS
<1>5. Before(is, k) \cap used \subseteq Dsts(kept)
  BY <1>4 DEF Left
<1>6. Before(is, k + 1) = Before(is, k) \cup ({i.dst} \ {NoTemp})
  BY BeforeNext
<1>7. \A m \in 1..n : \E j \in 1..(k - 1) : /\ j \notin dead /\ kept[m] = is[j]
                                           /\ Before(is, j) \cap used \subseteq Before(kept, m)
  BY DEF Left
<1>8. dead = {} => n = k - 1 /\ \A j \in 1..(k - 1) : kept[j] = is[j]
  BY DEF Left
<1> HIDE DEF new, n
<1>9. ASSUME NEW m \in 1..(n + 1)
      PROVE  \E j \in 1..k : /\ j \notin dead /\ new[m] = is[j]
                             /\ Before(is, j) \cap used \subseteq Before(new, m)
  <2>1. CASE m = n + 1
    BY <1>2, <1>4, <1>5, <2>1
  <2>2. CASE m # n + 1
    <3>1. m \in 1..n
      BY <1>2, <2>2
    <3>2. PICK j \in 1..(k - 1) : /\ j \notin dead /\ kept[m] = is[j]
                                  /\ Before(is, j) \cap used \subseteq Before(kept, m)
      BY <1>7, <3>1
    <3> QED
      BY <1>2, <1>4, <3>1, <3>2
  <2> QED
    BY <2>1, <2>2
<1>10. Before(is, k + 1) \cap used \subseteq Dsts(new)
  BY <1>2, <1>5, <1>6
<1>11. ASSUME dead = {}
       PROVE  Len(new) = k /\ \A j \in 1..k : new[j] = is[j]
  <2>1. n = k - 1 /\ \A j \in 1..(k - 1) : kept[j] = is[j]
    BY <1>8, <1>11
  <2>2. n + 1 = k
    BY <2>1
  <2>3. ASSUME NEW j \in 1..k
        PROVE  new[j] = is[j]
    <3>1. j \in 1..n \/ j = n + 1
      BY <1>2, <2>2
    <3>2. CASE j \in 1..n
      BY <1>2, <2>1, <3>2
    <3>3. CASE j = n + 1
      BY <1>2, <2>2, <3>3
    <3> QED
      BY <3>1, <3>2, <3>3
  <2> QED
    BY <1>3, <2>2, <2>3
<1>12. new[Len(new)] = is[k]
  BY <1>2, <1>3
<1> QED
  BY <1>3, <1>9, <1>10, <1>11, <1>12 DEF Left, new

LEMMA WithoutEffect ==
    ASSUME NEW is \in Seq(Instruction), NEW dead, NEW used, \A k \in dead : is[k].dst \notin used,
           NEW out, out = Opt!Without(is, dead), NEW N, N = Len(is)
    PROVE  out \in Seq(Instruction) /\ Left(is, dead, used, N, out)
<1> DEFINE S == Seq(Instruction)
           Step(x, k) == IF k \in dead THEN x ELSE Append(x, is[k])
           Body(r) == [k \in 0..N |-> IF k = 0 THEN <<>> ELSE Step(r[k - 1], k)]
           F == [k \in 1..N |-> [x \in S |-> Step(x, k)]]
           q == CHOOSE r : r = Body(r)
<1>1. N \in Nat /\ \A k \in 1..N : is[k] \in Instruction
  OBVIOUS
<1>2. out = q[N]
  BY DEF Opt!Without
<1> HIDE DEF q
<1>3. \A k \in 1..N : \A x \in S : Step(x, k) \in S
  BY <1>1
<1> HIDE DEF Step, S
<1>4. F \in Steps(N, S)
  BY <1>3 DEF Steps
<1>5. \A k \in 1..N : \A x \in S : F[k][x] = Step(x, k)
  OBVIOUS
<1> HIDE DEF F
<1>6a. <<>> \in S
  BY DEF S
<1>6b. PICK r : Solves(r, N, S, <<>>, F)
  BY <1>1, <1>4, <1>6a, Iterates
<1>6. r \in [0..N -> S] /\ r[0] = <<>> /\ \A k \in 1..N : r[k] = F[k][r[k - 1]]
  BY <1>6b DEF Solves
<1>7. \A k \in 0..N : k # 0 => k \in 1..N /\ k - 1 \in 0..N
  BY <1>1
<1>8. r = Body(r)
  <2>1. \A k \in 0..N : r[k] = IF k = 0 THEN <<>> ELSE Step(r[k - 1], k)
    BY <1>5, <1>6, <1>7
  <2>2. r = [k \in 0..N |-> r[k]]
    BY <1>6
  <2> QED
    BY <2>1, <2>2
<1>9. q = Body(q)
  <2> HIDE DEF Body
  <2> QED
    BY <1>8 DEF q
<1>10. \A k \in 0..N : q[k] = IF k = 0 THEN <<>> ELSE Step(q[k - 1], k)
  BY <1>9
<1> HIDE DEF Body
<1>11. q[0] = <<>> /\ \A k \in 1..N : q[k] = Step(q[k - 1], k)
  <2>1. 0 \in 0..N /\ \A k \in 1..N : k \in 0..N /\ k # 0
    BY <1>1
  <2> QED
    BY <1>10, <2>1
<1> DEFINE T == {k \in 0..N : q[k] \in S /\ Left(is, dead, used, k, q[k])}
<1>12. 0 \in T
  BY <1>1, <1>6a, <1>11, LeftStart
<1>13. ASSUME NEW k \in 1..N, k - 1 \in T
       PROVE  k \in T
  <2>1. q[k - 1] \in Seq(Instruction) /\ Left(is, dead, used, k - 1, q[k - 1])
    BY <1>13 DEF S
  <2>2. k \in 0..N /\ q[k] = Step(q[k - 1], k) /\ q[k] \in S /\ k \in 1..Len(is)
    BY <1>1, <1>3, <1>11, <1>13
  <2>3. CASE k \in dead
    <3>1. q[k] = q[k - 1]
      BY <2>2, <2>3 DEF Step
    <3>2. Left(is, dead, used, k, q[k - 1])
      BY <2>1, <2>2, <2>3, LeftDropped
    <3> QED
      BY <2>2, <3>1, <3>2
  <2>4. CASE k \notin dead
    <3>1. q[k] = Append(q[k - 1], is[k])
      BY <2>2, <2>4 DEF Step
    <3>2. Left(is, dead, used, k, Append(q[k - 1], is[k]))
      BY <2>1, <2>2, <2>4, LeftKept
    <3> QED
      BY <2>2, <3>1, <3>2
  <2> QED
    BY <2>3, <2>4
<1>14. \A k \in 0..N : k \in T
  <2> HIDE DEF T
  <2> QED
    BY <1>1, <1>12, <1>13, Upward
<1>15. N \in 0..N
  BY <1>1
<1> QED
  BY <1>2, <1>14, <1>15 DEF S

(* The code c is what the pass leaves of e. *)
Sifted(e, c, dead, used) ==
    /\ c \in Codes /\ DOMAIN c = DOMAIN e
    /\ \A b \in DOMAIN e : /\ Left(e[b], dead[b], used, Len(e[b]), c[b])
                           /\ \A k \in DOMAIN e[b] : Uses(e[b][k]) \subseteq used
UsedOnly(a, used) == [b \in DOMAIN a |-> a[b] \cap used]

(* A certificate speaks of what is used only, once the rest is gone.        *)
LEMMA CertUsed ==
    ASSUME NEW e \in Codes, NEW a, Certified(e, a), NEW used, NEW c, NEW dead, Sifted(e, c, dead, used)
    PROVE  Certified(c, UsedOnly(a, used))
<1>0. /\ c \in Codes /\ DOMAIN c = DOMAIN e
      /\ \A b \in DOMAIN e : Left(e[b], dead[b], used, Len(e[b]), c[b])
      /\ \A b \in DOMAIN e : \A k \in DOMAIN e[b] : Uses(e[b][k]) \subseteq used
  BY DEF Sifted
<1> DEFINE f == UsedOnly(a, used)
<1>1. DOMAIN a = DOMAIN e /\ DOMAIN f = DOMAIN e /\ \A b \in DOMAIN e : f[b] = a[b] \cap used
  BY DEF Certified, UsedOnly
<1> HIDE DEF f
<1>2. /\ DOMAIN e = 1..Len(e) /\ Len(e) \in Nat
      /\ \A b \in DOMAIN e : DOMAIN e[b] = 1..Len(e[b]) /\ DOMAIN c[b] = 1..Len(c[b]) /\ Len(e[b]) \in Nat
  BY <1>0 DEF Codes
<1>3. \A b \in DOMAIN e : Dsts(e[b]) \cap used \subseteq Dsts(c[b])
  <2> TAKE b \in DOMAIN e
  <2>1. Before(e[b], Len(e[b]) + 1) \cap used \subseteq Dsts(c[b])
    BY <1>0 DEF Left
  <2>2. Before(e[b], Len(e[b]) + 1) = Dsts(e[b])
    <3>1. (Len(e[b]) + 1) - 1 = Len(e[b])
      BY <1>2
    <3> QED
      BY <1>2, <3>1 DEF Before, Dsts
  <2> QED
    BY <2>1, <2>2
<1>4. 1 \in DOMAIN c => f[1] = {}
  BY <1>0, <1>1 DEF Certified
<1>5. ASSUME NEW b \in DOMAIN c, NEW t \in f[b]
      PROVE  \E d \in 1..(b - 1) : t \in Dsts(c[d])
  <2>1. t \in a[b] /\ t \in used
    BY <1>0, <1>1, <1>5
  <2>2. PICK d \in 1..(b - 1) : t \in Dsts(e[d])
    BY <1>0, <1>5, <2>1 DEF Certified
  <2>3. d \in DOMAIN e
    BY <1>0, <1>2, <1>5, <2>2
  <2> QED
    BY <1>3, <2>1, <2>2, <2>3
<1>6. ASSUME NEW b \in DOMAIN c, NEW k \in DOMAIN c[b]
      PROVE  /\ Uses(c[b][k]) \subseteq f[b] \cup Before(c[b], k)
             /\ \A s \in Targets(c[b][k]) : s \in DOMAIN c /\ f[s] \subseteq f[b] \cup Before(c[b], k)
  <2>1. b \in DOMAIN e /\ k \in 1..Len(c[b])
    BY <1>0, <1>2, <1>6
  <2>2. PICK j \in 1..Len(e[b]) : c[b][k] = e[b][j] /\ Before(e[b], j) \cap used \subseteq Before(c[b], k)
    BY <1>0, <2>1 DEF Left
  <2>3. j \in DOMAIN e[b]
    BY <1>2, <2>1
  <2>4. /\ Uses(e[b][j]) \subseteq a[b] \cup Before(e[b], j)
        /\ \A s \in Targets(e[b][j]) : s \in DOMAIN e /\ a[s] \subseteq a[b] \cup Before(e[b], j)
        /\ Uses(e[b][j]) \subseteq used
    BY <1>0, <2>1, <2>3 DEF Certified
  <2>5. \A s \in DOMAIN e : a[s] \subseteq a[b] \cup Before(e[b], j) => f[s] \subseteq f[b] \cup Before(c[b], k)
    BY <1>1, <2>1, <2>2
  <2> QED
    BY <1>0, <1>1, <2>1, <2>2, <2>4, <2>5
<1>7. Certified(c, f)
  BY <1>0, <1>1, <1>4, <1>5, <1>6 DEF Certified
<1> QED
  BY <1>7 DEF f

LEMMA DeadCodeKeeps ==
    ASSUME NEW fn, Fine(fn)
    PROVE  /\ Kept(fn, Opt!DeadCodeElimination(fn).fn)
           /\ ~Opt!DeadCodeElimination(fn).changed => Opt!DeadCodeElimination(fn).fn = fn
<1> DEFINE bs   == fn.blocks
           N    == Len(bs)
           used == Opt!UsedTemps(fn)
           dead == [b \in DOMAIN bs |-> {k \in DOMAIN bs[b].instrs : Opt!Dead(bs[b].instrs[k], used)}]
           c    == [b \in DOMAIN bs |->
                      Opt!Without(bs[b].instrs, {k \in DOMAIN bs[b].instrs : Opt!Dead(bs[b].instrs[k], used)})]
           out  == Opt!DeadCodeElimination(fn).fn
           e    == Code(bs)
<1>1. /\ out = Opt!WithInstrs(fn, c)
      /\ Opt!DeadCodeElimination(fn).changed =
            \E b \in DOMAIN bs : \E k \in DOMAIN bs[b].instrs : Opt!Dead(bs[b].instrs[k], used)
  BY DEF Opt!DeadCodeElimination, Opt!SomeInstr
<1>2. /\ fn \in Function /\ bs \in Seq(BasicBlock) /\ DOMAIN bs = 1..N /\ N \in Nat /\ Labels(bs) = 1..N
      /\ e \in Codes /\ DOMAIN e = 1..N
      /\ \A b \in 1..N : /\ e[b] = bs[b].instrs
                         /\ bs[b].instrs \in Seq(Instruction) /\ Len(bs[b].instrs) \in Nat
                         /\ DOMAIN bs[b].instrs = 1..Len(bs[b].instrs)
  BY InstrsOf
<1>3. \A b \in 1..N : \A k \in DOMAIN bs[b].instrs : Uses(bs[b].instrs[k]) \subseteq used
  <2> TAKE b \in 1..N
  <2> TAKE k \in DOMAIN bs[b].instrs
  <2>1. bs[b].instrs[k] \in Range(bs[b].instrs)
    BY DEF Range
  <2>2. Uses(bs[b].instrs[k]) \subseteq UNION {Opt!Uses(i) : i \in Range(bs[b].instrs)}
    BY <2>1, SameInstr
  <2>3. used = UNION {UNION {Opt!Uses(i) : i \in Range(bs[d].instrs)} : d \in DOMAIN bs}
    <3>1. \A f : Opt!Range(f) = Range(f)
      BY DEF Opt!Range, Range
    <3>2. used = UNION {UNION {Opt!Uses(i) : i \in Opt!Range(bs[d].instrs)} : d \in DOMAIN bs}
      BY DEF Opt!UsedTemps
    <3> QED
      BY <3>1, <3>2
  <2> HIDE DEF used, bs
  <2> QED
    BY <1>2, <2>2, <2>3
<1> HIDE DEF used
<1>4. ASSUME NEW b \in 1..N
      PROVE  /\ c[b] \in Seq(Instruction) /\ Left(e[b], dead[b], used, Len(e[b]), c[b])
             /\ dead[b] = {k \in DOMAIN bs[b].instrs : Opt!Dead(bs[b].instrs[k], used)}
  <2> DEFINE is == bs[b].instrs
             D  == {k \in DOMAIN is : Opt!Dead(is[k], used)}
  <2>1. is \in Seq(Instruction) /\ e[b] = is /\ b \in DOMAIN bs
    BY <1>2
  <2>2. c[b] = Opt!Without(is, D) /\ dead[b] = D
    BY <2>1
  <2>3. \A k \in D : is[k].dst \notin used
    BY DEF Opt!Dead
  <2> HIDE DEF c, dead, D, is, e
  <2>4. c[b] \in Seq(Instruction) /\ Left(is, D, used, Len(is), c[b])
    BY <2>1, <2>2, <2>3, WithoutEffect
  <2> QED
    BY <2>1, <2>2, <2>4 DEF D, is
<1>5. c = [b \in 1..N |-> c[b]]
  BY <1>2
<1> HIDE DEF bs, N, dead, c, out, e
<1>6. c \in Codes /\ DOMAIN c = 1..N
  BY <1>2, <1>4, <1>5, AsSequence DEF Codes
<1> DEFINE new == Rewrite(bs, c)
<1>7. /\ new \in Seq(BasicBlock) /\ Labels(new) = 1..N /\ Code(new) = c
      /\ \A b \in 1..N : new[b].instrs = c[b]
      /\ c = e => new = bs
  BY <1>2, <1>6, RewriteEffect DEF e
<1> HIDE DEF new
<1>8. out \in Function /\ out.blocks = new /\ (new = bs => out = fn)
  BY <1>1, <1>2, <1>7, WithInstrsIs, WithBlocksTyped DEF new, bs
<1>9. ASSUME NEW b \in 1..N
      PROVE  IsTerminated(new[b]) /\ TargetsOf(new[b]) \subseteq 1..N
  <2> DEFINE is == bs[b].instrs
             M  == Len(is)
  <2>1. /\ is \in Seq(Instruction) /\ M \in Nat /\ DOMAIN is = 1..M /\ e[b] = is
        /\ new[b].instrs = c[b] /\ c[b] \in Seq(Instruction) /\ Left(is, dead[b], used, M, c[b])
        /\ dead[b] = {k \in DOMAIN is : Opt!Dead(is[k], used)}
    BY <1>2, <1>4, <1>7
  <2>2. IsTerminated(bs[b]) /\ TargetsOf(bs[b]) \subseteq 1..N
    BY <1>2 DEF Fine, Sealed, bs
  <2>3. is # <<>> /\ is[M].tag \in Terminators
    BY <2>2 DEF IsTerminated
  <2>4. \A l : l \in TargetsOf(bs[b]) <=> \E k \in DOMAIN is : l \in Targets(is[k])
    BY <1>2, InTargets
  <2>5. \A l : l \in TargetsOf(new[b]) <=> \E k \in DOMAIN c[b] : l \in Targets(c[b][k])
    BY <1>7, <2>1, InTargets
  <2> HIDE DEF is, M
  <2>6. M # 0 /\ M \notin dead[b]
    <3>1. M # 0
      BY <2>1, <2>3 DEF M
    <3>2. ~Opt!Dead(is[M], used)
      BY <2>3 DEF Opt!Dead, Opt!Pure, Terminators
    <3> QED
      BY <2>1, <3>1, <3>2
  <2>7. c[b] # <<>> /\ c[b][Len(c[b])] = is[M]
    BY <2>1, <2>6 DEF Left
  <2>8. IsTerminated(new[b])
    BY <2>1, <2>3, <2>7 DEF IsTerminated
  <2>9. \A m \in DOMAIN c[b] : \E j \in DOMAIN is : c[b][m] = is[j]
    <3>1. DOMAIN c[b] = 1..Len(c[b])
      BY <2>1
    <3>2. \A m \in 1..Len(c[b]) : \E j \in 1..M : c[b][m] = is[j]
      BY <2>1 DEF Left
    <3> QED
      BY <2>1, <3>1, <3>2
  <2>10. TargetsOf(new[b]) \subseteq TargetsOf(bs[b])
    BY <2>4, <2>5, <2>9
  <2> QED
    BY <2>2, <2>8, <2>10
<1>10. Fine(out)
  BY <1>7, <1>8, <1>9 DEF Fine, Sealed
<1>11. Sifted(e, c, dead, used)
  <2>1. \A b \in DOMAIN e : Left(e[b], dead[b], used, Len(e[b]), c[b])
    BY <1>2, <1>4
  <2>2. \A b \in DOMAIN e : \A k \in DOMAIN e[b] : Uses(e[b][k]) \subseteq used
    BY <1>2, <1>3
  <2> QED
    BY <1>2, <1>6, <2>1, <2>2 DEF Sifted
<1>12. Covered(fn) => Covered(out)
  <2>1. \A a : Certified(e, a) => Certified(c, UsedOnly(a, used))
    BY <1>2, <1>11, CertUsed
  <2> QED
    BY <1>7, <1>8, <2>1 DEF Covered, e, bs
<1>13. ASSUME \A b \in DOMAIN bs : \A k \in DOMAIN bs[b].instrs : ~Opt!Dead(bs[b].instrs[k], used)
       PROVE  out = fn
  <2>1. \A b \in 1..N : c[b] = e[b]
    <3> TAKE b \in 1..N
    <3> DEFINE is == e[b]
               M  == Len(is)
    <3>1. dead[b] = {}
      BY <1>2, <1>4, <1>13
    <3>2. /\ is \in Seq(Instruction) /\ M \in Nat /\ c[b] \in Seq(Instruction)
          /\ Left(is, dead[b], used, M, c[b])
      BY <1>2, <1>4
    <3> HIDE DEF is, M
    <3>3. Len(c[b]) = M /\ \A j \in 1..M : c[b][j] = is[j]
      BY <3>1, <3>2 DEF Left
    <3>4. c[b] = is
      BY <3>2, <3>3 DEF M
    <3> QED
      BY <3>4 DEF is
  <2>2. c = e
    BY <1>2, <1>6, <2>1, SameCode
  <2> QED
    BY <1>7, <1>8, <2>2
<1> QED
  BY <1>1, <1>10, <1>12, <1>13 DEF Kept, out, bs

-----------------------------------------------------------------------------
(* ControlFlowSimplificationPass: a label is replaced by one where no more  *)
(* is taken to be known.                                                    *)
Onwards(fn) ==
    {seen \in [Labels(fn.blocks) -> Labels(fn.blocks)] :
       \A a : Certified(Code(fn.blocks), a) => \A l \in Labels(fn.blocks) : a[seen[l]] \subseteq a[l]}

LEMMA BypassTyped ==
    ASSUME NEW fn, Fine(fn), NEW seen \in Onwards(fn), NEW b \in Labels(fn.blocks)
    PROVE  Opt!BypassBlock(fn, seen, b) \in Onwards(fn)
<1> DEFINE bs == fn.blocks
           L  == Labels(bs)
           e  == Code(bs)
           is == bs[b].instrs
           to == is[1].to[1]
           target == seen[to]
           out == [l \in DOMAIN seen |-> IF seen[l] = b THEN target ELSE seen[l]]
<1>1. seen \in [L -> L] /\ \A a : Certified(e, a) => \A l \in L : a[seen[l]] \subseteq a[l]
  BY DEF Onwards
<1>2. SUFFICES ASSUME Opt!SoleJump(bs[b])
      PROVE  out \in Onwards(fn)
  BY DEF Opt!BypassBlock
<1>3. /\ bs \in Seq(BasicBlock) /\ e[b] = is /\ DOMAIN e = L /\ is \in Seq(Instruction)
      /\ DOMAIN is = 1..Len(is) /\ \A k \in DOMAIN is : is[k] \in Instruction
  BY InstrsOf
<1>4. Len(is) = 1 /\ is[1].tag = "jump"
  BY <1>2 DEF Opt!SoleJump
<1>5. 1 \in DOMAIN is /\ is[1] \in Instruction
  BY <1>3, <1>4
<1>6. Len(is[1].to) = 1 /\ DOMAIN is[1].to = 1..1
  BY <1>4, <1>5, InstrFields DEF Complete
<1>7. to \in Targets(is[1])
  BY <1>6 DEF Targets
<1>8. TargetsOf(bs[b]) \subseteq L
  BY DEF Fine, Sealed
<1>9. to \in L
  BY <1>3, <1>5, <1>7, <1>8, InTargets
<1>10. target \in L
  BY <1>1, <1>9
<1>11. Before(e[b], 1) = {}
  BY DEF Before
<1> HIDE DEF to, is, e
<1>12. ASSUME NEW a, Certified(e, a)
       PROVE  a[to] \subseteq a[b]
  <2>1. /\ b \in DOMAIN e /\ 1 \in DOMAIN e[b] /\ to \in Targets(e[b][1])
    BY <1>3, <1>5, <1>7
  <2>2. a[to] \subseteq a[b] \cup Before(e[b], 1)
    BY <1>12, <2>1 DEF Certified
  <2> QED
    BY <1>11, <2>2
<1> HIDE DEF target, L, bs
<1>13. out \in [L -> L] /\ \A l \in L : out[l] = IF seen[l] = b THEN target ELSE seen[l]
  BY <1>1, <1>10
<1> HIDE DEF out
<1>14. ASSUME NEW a, Certified(e, a), NEW l \in L
       PROVE  a[out[l]] \subseteq a[l]
  <2>1. a[seen[l]] \subseteq a[l] /\ a[target] \subseteq a[to] /\ a[to] \subseteq a[b]
    BY <1>1, <1>9, <1>12, <1>14 DEF target
  <2> QED
    BY <1>13, <2>1
<1> QED
  BY <1>13, <1>14 DEF Onwards, L, e, bs

LEMMA NewLabelsTyped ==
    ASSUME NEW fn, Fine(fn)
    PROVE  Opt!NewLabels(fn) \in Onwards(fn)
<1> DEFINE bs == fn.blocks
           N  == Len(bs)
           S  == Onwards(fn)
           s  == [l \in DOMAIN bs |-> l]
           Step(x, b) == Opt!BypassBlock(fn, x, b)
           Body(r) == [b \in 0..N |-> IF b = 0 THEN s ELSE Step(r[b - 1], b)]
           F == [b \in 1..N |-> [x \in S |-> Step(x, b)]]
           p == CHOOSE r : r = Body(r)
<1>0. Opt!NewLabels(fn) = p[N]
  BY DEF Opt!NewLabels
<1>1. N \in Nat /\ DOMAIN bs = Labels(bs) /\ Labels(bs) = 1..N
  BY InstrsOf
<1>2. s \in S
  <2>1. s \in [Labels(bs) -> Labels(bs)] /\ \A l \in Labels(bs) : s[l] = l
    BY <1>1
  <2> HIDE DEF s, bs
  <2> QED
    BY <2>1 DEF Onwards, bs
<1>3. \A b \in 1..N : \A x \in S : Step(x, b) \in S
  <2> HIDE DEF S, N, bs
  <2> QED
    BY <1>1, BypassTyped DEF S, bs
<1> HIDE DEF Step, S, s, N, bs
<1>4. F \in Steps(N, S)
  BY <1>3 DEF Steps
<1>5. \A b \in 1..N : \A x \in S : F[b][x] = Step(x, b)
  OBVIOUS
<1> HIDE DEF F
<1>6a. PICK r : Solves(r, N, S, s, F)
  BY <1>1, <1>2, <1>4, Iterates
<1>6. r \in [0..N -> S] /\ r[0] = s /\ \A b \in 1..N : r[b] = F[b][r[b - 1]]
  BY <1>6a DEF Solves
<1>7. \A b \in 0..N : b # 0 => b \in 1..N /\ b - 1 \in 0..N
  BY <1>1
<1>8. r = Body(r)
  <2>1. \A b \in 0..N : r[b] = IF b = 0 THEN s ELSE Step(r[b - 1], b)
    BY <1>5, <1>6, <1>7
  <2>2. r = [b \in 0..N |-> r[b]]
    BY <1>6
  <2> QED
    BY <2>1, <2>2
<1>9. p = Body(p)
  <2> HIDE DEF Body
  <2> QED
    BY <1>8
<1> HIDE DEF p
<1>10. \A b \in 0..N : p[b] = IF b = 0 THEN s ELSE Step(p[b - 1], b)
  BY <1>9
<1> HIDE DEF Body
<1>11. p[0] = s /\ \A b \in 1..N : p[b] = Step(p[b - 1], b)
  <2>1. 0 \in 0..N /\ \A b \in 1..N : b \in 0..N /\ b # 0
    BY <1>1
  <2> QED
    BY <1>10, <2>1
<1> DEFINE T == {b \in 0..N : p[b] \in S}
<1>12. 0 \in T
  BY <1>1, <1>2, <1>11
<1>13. ASSUME NEW b \in 1..N, b - 1 \in T
       PROVE  b \in T
  BY <1>1, <1>3, <1>11, <1>13
<1>14. \A b \in 0..N : b \in T
  <2> HIDE DEF T
  <2> QED
    BY <1>1, <1>12, <1>13, Upward
<1>15. N \in 0..N
  BY <1>1
<1> QED
  BY <1>0, <1>14, <1>15 DEF S

(* An instruction with other labels. *)
Relabel(i, new) == [i EXCEPT !.to = [a \in DOMAIN i.to |-> new[i.to[a]]]]
Moved(j, i, new) ==
    /\ j \in Instruction /\ j.dst = i.dst /\ j.tag = i.tag /\ Uses(j) = Uses(i)
    /\ Targets(j) = {new[l] : l \in Targets(i)}

LEMMA RelabelTyped ==
    ASSUME NEW i \in Instruction, NEW L \in SUBSET Nat, NEW new \in [L -> L], Targets(i) \subseteq L
    PROVE  /\ Moved(Relabel(i, new), i, new)
           /\ (\A l \in Targets(i) : new[l] = l) => Relabel(i, new) = i
<1> DEFINE M  == Len(i.to)
           to == [a \in DOMAIN i.to |-> new[i.to[a]]]
           j  == Relabel(i, new)
<1>1. M \in Nat /\ DOMAIN i.to = 1..M /\ i.to \in Seq(Nat)
  BY InstrFields
<1>2. \A a \in 1..M : i.to[a] \in Targets(i) /\ to[a] = new[i.to[a]]
  BY <1>1 DEF Targets
<1>3. \A a \in 1..M : to[a] \in Nat
  BY <1>2
<1>4. to = [a \in 1..M |-> to[a]]
  BY <1>1
<1>5. j = [tag |-> i.tag, dst |-> i.dst, sym |-> i.sym, args |-> i.args, to |-> to]
  <2>1. j = [i EXCEPT !.to = to]
    BY DEF Relabel
  <2> HIDE DEF j, to
  <2> QED
    BY <2>1, InstrFields
<1> HIDE DEF to, j, M
<1>6. to \in Seq(Nat) /\ Len(to) = M /\ DOMAIN to = 1..M
  BY <1>1, <1>3, <1>4, AsSequence
<1>7. j.tag = i.tag /\ j.dst = i.dst /\ j.sym = i.sym /\ j.args = i.args /\ j.to = to
  BY <1>5
<1>8. j \in [tag : Tags, dst : Int, sym : Symbols, args : Seq(Value), to : Seq(Nat)]
  BY <1>5, <1>6, InstrFields
<1>9. Complete(j)
  <2>1. i.to = <<>> => to = <<>>
    <3>1. i.to = <<>> => M = 0
      BY DEF M
    <3> QED
      BY <1>6, <3>1
  <2> QED
    BY <1>6, <1>7, <2>1, InstrFields DEF Complete, M
<1>10. j \in Instruction
  BY <1>8, <1>9 DEF Instruction
<1>11. Uses(j) = Uses(i)
  BY <1>7 DEF Uses
<1>12. Targets(j) = {new[l] : l \in Targets(i)}
  <2>1. Targets(j) = {to[a] : a \in 1..M}
    BY <1>6, <1>7 DEF Targets
  <2>2. Targets(i) = {i.to[a] : a \in 1..M}
    BY <1>1 DEF Targets
  <2>3. {to[a] : a \in 1..M} = {new[i.to[a]] : a \in 1..M}
    BY <1>2
  <2>4. {new[i.to[a]] : a \in 1..M} = {new[l] : l \in {i.to[a] : a \in 1..M}}
    OBVIOUS
  <2> QED
    BY <2>1, <2>2, <2>3, <2>4
<1>13. ASSUME \A l \in Targets(i) : new[l] = l
       PROVE  j = i
  <2>1. \A a \in 1..M : to[a] = i.to[a]
    BY <1>2, <1>13
  <2>2. i.to = [a \in 1..M |-> i.to[a]]
    <3> DEFINE was == i.to
    <3>1. was \in Seq(Nat) /\ DOMAIN was = 1..M
      BY <1>1
    <3> HIDE DEF was
    <3>2. was = [a \in 1..M |-> was[a]]
      BY <3>1
    <3> QED
      BY <3>2 DEF was
  <2>3. to = i.to
    BY <1>4, <2>1, <2>2
  <2> QED
    BY <1>5, <2>3, InstrFields
<1> QED
  BY <1>7, <1>10, <1>11, <1>12, <1>13 DEF Moved, j

(* The code c is e with other labels. *)
Elsewhere(c, e, new) ==
    /\ c \in Codes /\ DOMAIN c = DOMAIN e
    /\ \A b \in DOMAIN e : /\ DOMAIN c[b] = DOMAIN e[b]
                           /\ \A k \in DOMAIN e[b] : Moved(c[b][k], e[b][k], new)
Forwards(e, a, new) == \A l \in DOMAIN e : new[l] \in DOMAIN e /\ a[new[l]] \subseteq a[l]

LEMMA CertMoved ==
    ASSUME NEW e \in Codes, NEW a, Certified(e, a), NEW new, Forwards(e, a, new),
           NEW c, Elsewhere(c, e, new)
    PROVE  Certified(c, a)
<1>1. /\ DOMAIN c = DOMAIN e
      /\ \A b \in DOMAIN e : DOMAIN c[b] = DOMAIN e[b]
      /\ \A b \in DOMAIN e : \A k \in DOMAIN e[b] : Moved(c[b][k], e[b][k], new)
  BY DEF Elsewhere
<1>2. \A b \in DOMAIN e : DOMAIN e[b] = 1..Len(e[b]) /\ Len(e[b]) \in Nat
  BY DEF Codes
<1>3. \A b \in DOMAIN e : \A k \in DOMAIN e[b] : c[b][k].dst = e[b][k].dst
  BY <1>1 DEF Moved
<1>4. \A b \in DOMAIN e : Dsts(c[b]) = Dsts(e[b])
  <2> TAKE b \in DOMAIN e
  <2>1. DOMAIN c[b] = DOMAIN e[b] /\ \A k \in DOMAIN e[b] : c[b][k].dst = e[b][k].dst
    BY <1>1, <1>3
  <2> QED
    BY <2>1 DEF Dsts
<1>5. \A b \in DOMAIN e : \A k \in DOMAIN e[b] : Before(c[b], k) = Before(e[b], k)
  <2> TAKE b \in DOMAIN e
  <2> TAKE k \in DOMAIN e[b]
  <2>1. \A j \in 1..(k - 1) : j \in DOMAIN e[b]
    BY <1>2
  <2>2. \A j \in 1..(k - 1) : c[b][j].dst = e[b][j].dst
    BY <1>3, <2>1
  <2>3. {c[b][j].dst : j \in 1..(k - 1)} = {e[b][j].dst : j \in 1..(k - 1)}
    BY <2>2
  <2> QED
    BY <2>3 DEF Before
<1>6. /\ DOMAIN a = DOMAIN c
      /\ 1 \in DOMAIN c => a[1] = {}
  BY <1>1 DEF Certified
<1>7. ASSUME NEW b \in DOMAIN c, NEW t \in a[b]
      PROVE  \E d \in 1..(b - 1) : t \in Dsts(c[d])
  <2>1. PICK d \in 1..(b - 1) : t \in Dsts(e[d])
    BY <1>1, <1>7 DEF Certified
  <2>2. DOMAIN e = 1..Len(e) /\ Len(e) \in Nat
    BY DEF Codes
  <2>3. d \in DOMAIN e
    BY <1>1, <2>2
  <2> QED
    BY <1>4, <2>1, <2>3
<1>8. ASSUME NEW b \in DOMAIN c, NEW k \in DOMAIN c[b]
      PROVE  /\ Uses(c[b][k]) \subseteq a[b] \cup Before(c[b], k)
             /\ \A s \in Targets(c[b][k]) : s \in DOMAIN c /\ a[s] \subseteq a[b] \cup Before(c[b], k)
  <2>1. b \in DOMAIN e /\ k \in DOMAIN e[b]
    BY <1>1, <1>8
  <2>2. /\ Uses(e[b][k]) \subseteq a[b] \cup Before(e[b], k)
        /\ \A s \in Targets(e[b][k]) : s \in DOMAIN e /\ a[s] \subseteq a[b] \cup Before(e[b], k)
    BY <2>1 DEF Certified
  <2>3. Uses(c[b][k]) = Uses(e[b][k]) /\ Targets(c[b][k]) = {new[l] : l \in Targets(e[b][k])}
    BY <1>1, <2>1 DEF Moved
  <2>4. ASSUME NEW s \in Targets(c[b][k])
        PROVE  s \in DOMAIN c /\ a[s] \subseteq a[b] \cup Before(c[b], k)
    <3>1. PICK l \in Targets(e[b][k]) : s = new[l]
      BY <2>3, <2>4
    <3>2. l \in DOMAIN e /\ a[l] \subseteq a[b] \cup Before(e[b], k)
      BY <2>2, <3>1
    <3>3. s \in DOMAIN e /\ a[s] \subseteq a[l]
      BY <3>1, <3>2 DEF Forwards
    <3> QED
      BY <1>1, <1>5, <2>1, <3>2, <3>3
  <2> QED
    BY <1>5, <2>1, <2>2, <2>3, <2>4
<1> QED
  BY <1>6, <1>7, <1>8 DEF Certified

LEMMA ControlFlowKeeps ==
    ASSUME NEW fn, Fine(fn)
    PROVE  /\ Kept(fn, Opt!ControlFlowSimplification(fn).fn)
           /\ ~Opt!ControlFlowSimplification(fn).changed => Opt!ControlFlowSimplification(fn).fn = fn
<1> DEFINE bs  == fn.blocks
           N   == Len(bs)
           L   == Labels(bs)
           e   == Code(bs)
           to  == Opt!NewLabels(fn)
           c   == [b \in DOMAIN bs |-> [k \in DOMAIN bs[b].instrs |-> Relabel(bs[b].instrs[k], to)]]
           out == Opt!ControlFlowSimplification(fn).fn
<1>1. /\ out = Opt!WithInstrs(fn, c)
      /\ Opt!ControlFlowSimplification(fn).changed =
            \E b \in DOMAIN bs : \E k \in DOMAIN bs[b].instrs : \E l \in Opt!Targets(bs[b].instrs[k]) : to[l] # l
  BY DEF Opt!ControlFlowSimplification, Opt!Rewritten, Opt!SomeInstr, Relabel
<1>2. /\ fn \in Function /\ bs \in Seq(BasicBlock) /\ DOMAIN bs = 1..N /\ N \in Nat /\ L = 1..N
      /\ e \in Codes /\ DOMAIN e = L
      /\ \A b \in L : /\ e[b] = bs[b].instrs
                      /\ bs[b].instrs \in Seq(Instruction) /\ Len(bs[b].instrs) \in Nat
                      /\ DOMAIN bs[b].instrs = 1..Len(bs[b].instrs)
      /\ \A b \in L : \A k \in DOMAIN bs[b].instrs : bs[b].instrs[k] \in Instruction
  BY InstrsOf
<1>3. to \in [L -> L] /\ \A a : Certified(e, a) => \A l \in L : a[to[l]] \subseteq a[l]
  BY NewLabelsTyped DEF Onwards
<1> HIDE DEF to
<1>4. ASSUME NEW b \in L
      PROVE  IsTerminated(bs[b]) /\ \A k \in DOMAIN bs[b].instrs : Targets(bs[b].instrs[k]) \subseteq L
  <2>1. IsTerminated(bs[b]) /\ TargetsOf(bs[b]) \subseteq L
    BY DEF Fine, Sealed
  <2>2. \A l : l \in TargetsOf(bs[b]) <=> \E k \in DOMAIN bs[b].instrs : l \in Targets(bs[b].instrs[k])
    BY <1>2, InTargets
  <2> QED
    BY <2>1, <2>2
<1>5. \A b \in L : \A k \in DOMAIN bs[b].instrs :
         /\ Moved(Relabel(bs[b].instrs[k], to), bs[b].instrs[k], to)
         /\ (\A l \in Targets(bs[b].instrs[k]) : to[l] = l) =>
               Relabel(bs[b].instrs[k], to) = bs[b].instrs[k]
  <2>1. L \in SUBSET Nat
    BY <1>2
  <2> HIDE DEF L, bs
  <2> QED
    BY <1>2, <1>3, <1>4, <2>1, RelabelTyped
<1>6. \A b \in L : /\ c[b] = [k \in DOMAIN bs[b].instrs |-> c[b][k]]
                   /\ \A k \in DOMAIN bs[b].instrs : c[b][k] = Relabel(bs[b].instrs[k], to)
  BY <1>2
<1>7. c = [b \in L |-> c[b]]
  BY <1>2
<1> HIDE DEF c, out, bs, N, L, e
<1>20. \A b \in L : \A k \in DOMAIN bs[b].instrs :
          /\ Moved(c[b][k], bs[b].instrs[k], to) /\ c[b][k] \in Instruction
          /\ (\A l \in Targets(bs[b].instrs[k]) : to[l] = l) => c[b][k] = bs[b].instrs[k]
  <2> TAKE b \in L
  <2> TAKE k \in DOMAIN bs[b].instrs
  <2>1. c[b][k] = Relabel(bs[b].instrs[k], to)
    BY <1>6
  <2>2. /\ Moved(c[b][k], bs[b].instrs[k], to)
        /\ (\A l \in Targets(bs[b].instrs[k]) : to[l] = l) => c[b][k] = bs[b].instrs[k]
    BY <1>5, <2>1
  <2>3. c[b][k] \in Instruction
    BY <2>2 DEF Moved
  <2> QED
    BY <2>2, <2>3
<1>8. \A b \in L : c[b] \in Seq(Instruction) /\ DOMAIN c[b] = DOMAIN bs[b].instrs
  <2> TAKE b \in L
  <2> DEFINE M == Len(bs[b].instrs)
             is == c[b]
  <2>1. M \in Nat /\ \A k \in 1..M : is[k] \in Instruction
    BY <1>2, <1>20
  <2>2. is = [k \in 1..M |-> is[k]] /\ DOMAIN bs[b].instrs = 1..M
    BY <1>2, <1>6
  <2> HIDE DEF M, is
  <2>3. is \in Seq(Instruction) /\ DOMAIN is = 1..M
    BY <2>1, <2>2, AsSequence
  <2> QED
    BY <2>2, <2>3 DEF is
<1>9. c \in Codes /\ DOMAIN c = L
  BY <1>2, <1>7, <1>8, AsSequence DEF Codes
<1> DEFINE new == Rewrite(bs, c)
<1>10. /\ new \in Seq(BasicBlock) /\ Labels(new) = L /\ Code(new) = c
       /\ \A b \in L : new[b].instrs = c[b]
       /\ c = e => new = bs
  BY <1>2, <1>9, RewriteEffect DEF e, L
<1> HIDE DEF new
<1>11. out \in Function /\ out.blocks = new /\ (new = bs => out = fn)
  BY <1>1, <1>2, <1>10, WithInstrsIs, WithBlocksTyped DEF new, bs
<1>12. ASSUME NEW b \in L
       PROVE  IsTerminated(new[b]) /\ TargetsOf(new[b]) \subseteq L
  <2> DEFINE is == bs[b].instrs
             M  == Len(is)
  <2>1. /\ is \in Seq(Instruction) /\ M \in Nat /\ DOMAIN is = 1..M
        /\ new[b].instrs = c[b] /\ c[b] \in Seq(Instruction) /\ DOMAIN c[b] = DOMAIN is
        /\ \A k \in DOMAIN is : Moved(c[b][k], is[k], to) /\ Targets(is[k]) \subseteq L
    BY <1>2, <1>4, <1>8, <1>10, <1>20
  <2>2. is # <<>> /\ is[M].tag \in Terminators
    BY <1>4 DEF IsTerminated
  <2>3. \A l : l \in TargetsOf(new[b]) <=> \E k \in DOMAIN c[b] : l \in Targets(c[b][k])
    BY <1>10, <2>1, InTargets
  <2> HIDE DEF is
  <2>4. M \in DOMAIN is /\ Len(c[b]) = M
    BY <2>1, <2>2
  <2> HIDE DEF M
  <2>5. c[b] # <<>> /\ c[b][Len(c[b])].tag \in Terminators
    BY <2>1, <2>2, <2>4 DEF Moved
  <2>6. IsTerminated(new[b])
    BY <2>1, <2>5 DEF IsTerminated
  <2>7. ASSUME NEW k \in DOMAIN c[b], NEW l \in Targets(c[b][k])
        PROVE  l \in L
    <3>0. Targets(c[b][k]) = {to[s] : s \in Targets(is[k])}
      BY <2>1 DEF Moved
    <3>1. PICK s \in Targets(is[k]) : l = to[s]
      BY <2>7, <3>0
    <3> QED
      BY <1>3, <2>1, <2>7, <3>1
  <2> QED
    BY <2>3, <2>6, <2>7
<1>13. Fine(out)
  BY <1>10, <1>11, <1>12 DEF Fine, Sealed
<1>14. Elsewhere(c, e, to)
  <2>1. \A b \in DOMAIN e : DOMAIN c[b] = DOMAIN e[b]
    BY <1>2, <1>8
  <2>2. \A b \in DOMAIN e : \A k \in DOMAIN e[b] : Moved(c[b][k], e[b][k], to)
    BY <1>2, <1>20
  <2> QED
    BY <1>2, <1>9, <2>1, <2>2 DEF Elsewhere
<1>15. \A a : Certified(e, a) => Certified(c, a)
  <2> SUFFICES ASSUME NEW a, Certified(e, a) PROVE Certified(c, a)
    OBVIOUS
  <2>1. Forwards(e, a, to)
    BY <1>2, <1>3 DEF Forwards
  <2> QED
    BY <1>2, <1>14, <2>1, CertMoved
<1>16. Covered(fn) => Covered(out)
  BY <1>10, <1>11, <1>15 DEF Covered, e, bs
<1>17. ASSUME \A b \in L : \A k \in DOMAIN bs[b].instrs : \A l \in Targets(bs[b].instrs[k]) : to[l] = l
       PROVE  out = fn
  <2>1. \A b \in L : c[b] = bs[b].instrs
    <3> TAKE b \in L
    <3> DEFINE is == bs[b].instrs
               M  == Len(is)
    <3>1. is \in Seq(Instruction) /\ DOMAIN is = 1..M /\ \A k \in 1..M : c[b][k] = is[k]
      BY <1>2, <1>17, <1>20
    <3>2. c[b] = [k \in 1..M |-> c[b][k]]
      BY <1>2, <1>6
    <3> HIDE DEF is, M
    <3>3. is = [k \in 1..M |-> is[k]]
      BY <3>1
    <3>4. [k \in 1..M |-> c[b][k]] = [k \in 1..M |-> is[k]]
      BY <3>1
    <3> QED
      BY <3>2, <3>3, <3>4 DEF is
  <2>2. c = e
    BY <1>2, <1>9, <2>1, SameCode
  <2> QED
    BY <1>10, <1>11, <2>2
<1>18. \A i : Opt!Targets(i) = Targets(i)
  BY DEF Opt!Targets, Targets
<1>19. ASSUME ~Opt!ControlFlowSimplification(fn).changed
       PROVE  out = fn
  <2>1. \A b \in DOMAIN bs : \A k \in DOMAIN bs[b].instrs : \A l \in Targets(bs[b].instrs[k]) : to[l] = l
    BY <1>1, <1>18, <1>19 DEF bs
  <2> QED
    BY <1>2, <1>17, <2>1
<1> QED
  BY <1>13, <1>16, <1>19 DEF Kept, out

-----------------------------------------------------------------------------
(* A pass over a whole module. *)
AllFine(given) == given \in Seq(Function) /\ \A f \in DOMAIN given : Fine(given[f])

LEMMA PassKeeps ==
    ASSUME NEW pass \in Opt!Passes, NEW fn, Fine(fn),
           pass = "constant-folding" => ~Opt!ConstantFolding(fn).crashed
    PROVE  /\ Kept(fn, Opt!ApplyTo(pass, fn).fn)
           /\ ~Opt!ApplyTo(pass, fn).changed => Opt!ApplyTo(pass, fn).fn = fn
<1>1. CASE pass = "constant-folding"
  <2>1. Opt!ApplyTo(pass, fn) = Opt!ConstantFolding(fn)
    BY <1>1 DEF Opt!ApplyTo
  <2> QED
    BY <1>1, <2>1, ConstantFoldingKeeps
<1>2. CASE pass = "algebraic-simplification"
  <2>1. Opt!ApplyTo(pass, fn) = Opt!AlgebraicSimplification(fn)
    BY <1>2 DEF Opt!ApplyTo
  <2> QED
    BY <2>1, AlgebraicKeeps
<1>3. CASE pass = "strength-reduction"
  <2>1. Opt!ApplyTo(pass, fn) = Opt!StrengthReduction(fn)
    BY <1>3 DEF Opt!ApplyTo
  <2> QED
    BY <2>1, StrengthKeeps
<1>4. CASE pass = "dead-code-elimination"
  <2>1. Opt!ApplyTo(pass, fn) = Opt!DeadCodeElimination(fn)
    BY <1>4 DEF Opt!ApplyTo
  <2> QED
    BY <2>1, DeadCodeKeeps
<1>5. CASE pass = "cf-simplification"
  <2>1. Opt!ApplyTo(pass, fn) = Opt!ControlFlowSimplification(fn)
    BY <1>5 DEF Opt!ApplyTo
  <2> QED
    BY <2>1, ControlFlowKeeps
<1> QED
  BY <1>1, <1>2, <1>3, <1>4, <1>5 DEF Opt!Passes

LEMMA ApplyKeeps ==
    ASSUME NEW pass \in Opt!Passes, NEW given, AllFine(given), ~Opt!Crashes(pass, given),
           NEW out, out = Opt!Apply(pass, given).module
    PROVE  /\ AllFine(out) /\ Len(out) = Len(given) /\ DOMAIN out = DOMAIN given
           /\ \A f \in DOMAIN given : Covered(given[f]) => Covered(out[f])
           /\ Opt!Apply(pass, given).changed \in BOOLEAN
           /\ ~Opt!Apply(pass, given).changed => out = given
<1> DEFINE N == Len(given)
<1>1. given \in Seq(Function) /\ N \in Nat /\ DOMAIN given = 1..N /\ \A f \in 1..N : Fine(given[f])
  BY DEF AllFine
<1>2. out = [f \in 1..N |-> Opt!ApplyTo(pass, given[f]).fn]
  BY <1>1 DEF Opt!Apply
<1>3. Opt!Apply(pass, given).changed = \E f \in 1..N : Opt!ApplyTo(pass, given[f]).changed
  BY <1>1 DEF Opt!Apply
<1> HIDE DEF N
<1>4. ASSUME NEW f \in 1..N
      PROVE  /\ Kept(given[f], out[f]) /\ out[f] = Opt!ApplyTo(pass, given[f]).fn
             /\ ~Opt!ApplyTo(pass, given[f]).changed => out[f] = given[f]
  <2>1. Fine(given[f])
    BY <1>1
  <2>2. pass = "constant-folding" => ~Opt!ConstantFolding(given[f]).crashed
    BY <1>1 DEF Opt!Crashes
  <2>3. out[f] = Opt!ApplyTo(pass, given[f]).fn
    BY <1>2
  <2> QED
    BY <2>1, <2>2, <2>3, PassKeeps
<1>5. \A f \in 1..N : Fine(out[f]) /\ (Covered(given[f]) => Covered(out[f]))
  BY <1>4 DEF Kept
<1>6. out = [f \in 1..N |-> out[f]]
  BY <1>2
<1>7. \A f \in 1..N : out[f] \in Function
  BY <1>5 DEF Fine
<1>8. out \in Seq(Function) /\ Len(out) = N /\ DOMAIN out = 1..N
  BY <1>1, <1>6, <1>7, AsSequence
<1>9. ASSUME ~Opt!Apply(pass, given).changed
      PROVE  out = given
  <2>1. \A f \in 1..N : out[f] = given[f]
    BY <1>3, <1>4, <1>9
  <2>2. given = [f \in 1..N |-> given[f]]
    BY <1>1
  <2> QED
    BY <1>6, <2>1, <2>2
<1>10. Opt!Apply(pass, given).changed \in BOOLEAN
  BY <1>3
<1> QED
  BY <1>1, <1>5, <1>8, <1>9, <1>10 DEF AllFine, N

-----------------------------------------------------------------------------
(* The inductive invariant of the lowering followed by the optimization.    *)
(* Quieted says of the passes before p that they find nothing to change.    *)
Quieted(p) ==
    \A q \in DOMAIN Opt!Pipeline : q < p => Opt!Apply(Opt!Pipeline[q], module).module = module
Managed ==
    /\ next \in 1..6 /\ anyChanged \in BOOLEAN /\ stopped \in {"no", "crashed", "fixed_point"}
    /\ stopped = "no" /\ ~anyChanged => Quieted(next)
    /\ stopped = "fixed_point" => Quieted(6)
Carried ==
    /\ AllFine(module)
    /\ \A f \in DOMAIN module : ReferenceHolds(program[f]) => Covered(module[f])
OInv == Managed /\ Carried /\ (Done \/ (VInv /\ Opt!Start))

LEMMA PipelineOf ==
    /\ DOMAIN Opt!Pipeline = 1..5 /\ Len(Opt!Pipeline) = 5
    /\ \A p \in 1..5 : Opt!Pipeline[p] \in Opt!Passes
BY DEF Opt!Pipeline, Opt!Passes

LEMMA LoweredCarried == VInv => Carried
<1> SUFFICES ASSUME VInv PROVE Carried
  OBVIOUS
<1>1. module \in Seq(Function) /\ \A f \in DOMAIN module : Sealed(module[f].blocks)
  BY DEF VInv, IInv, TypeOK, FinishedSealed
<1>2. AllFine(module)
  BY <1>1 DEF AllFine, Fine
<1> QED
  BY <1>2 DEF VInv, HandedOver, ValuesSound, Carried

LEMMA StartManaged == Opt!Start => Managed
<1> SUFFICES ASSUME Opt!Start PROVE Managed
  OBVIOUS
<1>1. next = 1 /\ anyChanged = FALSE /\ stopped = "no"
  BY DEF Opt!Start
<1>2. Quieted(next)
  <2>1. \A q \in 1..5 : ~(q < 1)
    OBVIOUS
  <2> QED
    BY <1>1, <2>1, PipelineOf DEF Quieted
<1>3. next \in 1..6
  BY <1>1
<1>4. anyChanged \in BOOLEAN
  BY <1>1, Zenon
<1> QED
  BY <1>1, <1>2, <1>3, <1>4 DEF Managed

LEMMA CompInitOInv ==
    ASSUME CompInit
    PROVE  OInv
BY InitValues, LoweredCarried, StartManaged DEF CompInit, OInv

(* There is no visit outside of lower_fn. *)
LEMMA StepLowers == VisitStep => status = "lowering"
<1>1. VisitOperand \/ VisitLiteral \/ VisitIdent
         \/ FinishUnary \/ FinishBinary \/ FinishCall \/ FinishUnitCall
       => status = "lowering"
  BY DEF VisitOperand, VisitLiteral, VisitIdent,
         FinishUnary, FinishBinary, FinishCall, FinishUnitCall, At, AtEnd, Visiting
<1>2. FinishLet \/ FinishAssign \/ FinishExprStmt
         \/ FinishReturn \/ VisitBlockItem \/ FinishBlock
       => status = "lowering"
  BY DEF FinishLet, FinishAssign, FinishExprStmt,
         FinishReturn, VisitBlockItem, FinishBlock, At, AtEnd, Visiting
<1>3. IfCondition \/ IfThen \/ IfElse
         \/ IfMerge \/ WhileHeader \/ WhileBody \/ WhileExit
       => status = "lowering"
  BY DEF IfCondition, IfThen, IfElse,
         IfMerge, WhileHeader, WhileBody, WhileExit, At, AtEnd, Visiting
<1>4. LoopBody \/ LoopExit \/ BreakValue \/ BreakWithoutValue
         \/ BreakStore \/ BreakGarbage \/ BreakDangling \/ VisitContinue
       => status = "lowering"
  BY DEF LoopBody, LoopExit, BreakValue, BreakWithoutValue,
         BreakStore, BreakGarbage, BreakDangling, VisitContinue, At, AtEnd, Visiting
<1> QED
  BY <1>1, <1>2, <1>3, <1>4 DEF VisitStep

LEMMA LowerKeeps ==
    ASSUME OInv, Lower
    PROVE  OInv'
<1>1. /\ Next /\ next' = next /\ anyChanged' = anyChanged /\ stopped' = stopped
  BY DEF Lower, optVars
<1>2. ~Done
  <2>1. CASE BeginFn
    <3>2. Len(module) < Len(program)
      BY <2>1 DEF BeginFn, MoreFns
    <3>3. ASSUME Done PROVE FALSE
      <4>1. Len(module) = Len(program) /\ Len(module) \in Nat
        BY <3>3 DEF Done, OInv, Carried, AllFine
      <4> QED
        BY <3>2, <4>1
    <3> QED
      BY <3>3
  <2>2. CASE EndFn
    BY <2>2 DEF EndFn, Done
  <2>3. CASE VisitStep
    BY <2>3, StepLowers DEF Done
  <2> QED
    BY <1>1, <2>1, <2>2, <2>3 DEF Next
<1>3. VInv /\ Opt!Start
  BY <1>2 DEF OInv
<1>4. VInv'
  BY <1>1, <1>3, NextValues
<1>5. Carried'
  BY <1>4, LoweredCarried, PTL
<1>6. Opt!Start'
  BY <1>1, <1>3 DEF Opt!Start
<1>7. Managed'
  BY <1>6, StartManaged, PTL
<1> QED
  BY <1>4, <1>5, <1>6, <1>7 DEF OInv

LEMMA RunPassKeeps ==
    ASSUME OInv, RunPass
    PROVE  OInv'
<1> DEFINE pass == Opt!Pipeline[next]
           res  == Opt!Apply(pass, module)
<1>1. /\ Done /\ stopped = "no" /\ next \in 1..5 /\ ~Opt!Crashes(pass, module)
      /\ module' = res.module /\ anyChanged' = (anyChanged \/ res.changed) /\ next' = next + 1
      /\ stopped' = stopped /\ program' = program /\ status' = status
  BY PipelineOf DEF RunPass, Opt!RunPass, Opt!Running, UnchangedBuilder
<1>2. AllFine(module) /\ pass \in Opt!Passes
  BY <1>1, PipelineOf DEF OInv, Carried
<1> HIDE DEF pass
<1>9. PICK out : out = res.module
  OBVIOUS
<1>10. /\ AllFine(out) /\ Len(out) = Len(module) /\ DOMAIN out = DOMAIN module
       /\ \A f \in DOMAIN module : Covered(module[f]) => Covered(out[f])
       /\ res.changed \in BOOLEAN
       /\ ~res.changed => out = module
  <2>1. /\ pass \in Opt!Passes /\ AllFine(module) /\ ~Opt!Crashes(pass, module)
        /\ out = Opt!Apply(pass, module).module
    BY <1>1, <1>2, <1>9
  <2>2. AllFine(out) /\ Len(out) = Len(module) /\ DOMAIN out = DOMAIN module
    BY <2>1, ApplyKeeps
  <2>3. \A f \in DOMAIN module : Covered(module[f]) => Covered(out[f])
    BY <2>1, ApplyKeeps
  <2>4. res.changed \in BOOLEAN
    BY <2>1, ApplyKeeps
  <2>5. ~res.changed => out = module
    BY <2>1, ApplyKeeps
  <2> QED
    BY <2>2, <2>3, <2>4, <2>5
<1>3. /\ AllFine(module') /\ Len(module') = Len(module) /\ DOMAIN module' = DOMAIN module
      /\ \A f \in DOMAIN module : Covered(module[f]) => Covered(module'[f])
      /\ res.changed \in BOOLEAN
      /\ ~res.changed => module' = module
  BY <1>1, <1>9, <1>10
<1>4. Carried'
  BY <1>1, <1>3 DEF OInv, Carried
<1>5. Done'
  BY <1>1, <1>3 DEF Done
<1>6. next' \in 1..6 /\ anyChanged' \in BOOLEAN /\ next \in 1..6
  BY <1>1, <1>3 DEF OInv, Managed
<1>7. ASSUME ~anyChanged'
      PROVE  \A q \in 1..5 : q < next + 1 => Opt!Apply(Opt!Pipeline[q], module').module = module'
  <2>1. ~anyChanged /\ ~res.changed
    BY <1>1, <1>7
  <2>2. module' = module /\ res.module = module
    BY <1>1, <1>3, <2>1
  <2>3. \A q \in 1..5 : q < next => Opt!Apply(Opt!Pipeline[q], module).module = module
    BY <1>1, <2>1, PipelineOf DEF OInv, Managed, Quieted
  <2>4. \A q \in 1..5 : q < next + 1 => q < next \/ q = next
    BY <1>1
  <2>5. Opt!Apply(Opt!Pipeline[next], module).module = module
    BY <2>2 DEF pass
  <2> QED
    BY <2>2, <2>3, <2>4, <2>5
<1>8. Managed'
  BY <1>1, <1>6, <1>7, PipelineOf DEF Managed, Quieted
<1> QED
  BY <1>4, <1>5, <1>8 DEF OInv

LEMMA OtherStepsKeep ==
    ASSUME OInv, Crash \/ Sweep \/ Stop \/ UNCHANGED compVars
    PROVE  OInv'
<1>1. CASE Crash \/ Sweep \/ Stop
  <2>1. /\ Done /\ module' = module /\ program' = program /\ status' = status
    BY <1>1 DEF Crash, Sweep, Stop, Opt!Crash, Opt!Sweep, Opt!Stop, UnchangedBuilder
  <2>2. Done' /\ Carried'
    BY <2>1 DEF OInv, Carried, Done
  <2>3. Managed'
    <3>1. CASE Crash
      BY <2>1, <3>1 DEF OInv, Managed, Crash, Opt!Crash
    <3>2. CASE Sweep
      <4>1. next' = 1 /\ anyChanged' = FALSE /\ stopped' = "no"
        BY <3>2 DEF Sweep, Opt!Sweep
      <4>2. Opt!Start'
        BY <4>1 DEF Opt!Start
      <4> QED
        BY <4>2, StartManaged, PTL
    <3>3. CASE Stop
      <4>1. stopped' = "fixed_point" /\ next = 6 /\ next' = next /\ anyChanged' = anyChanged
            /\ stopped = "no" /\ ~anyChanged
        BY <3>3, PipelineOf DEF Stop, Opt!Stop
      <4>2. Quieted(6)'
        BY <2>1, <4>1 DEF OInv, Managed, Quieted
      <4> QED
        BY <4>1, <4>2 DEF OInv, Managed
    <3> QED
      BY <1>1, <3>1, <3>2, <3>3
  <2> QED
    BY <2>2, <2>3 DEF OInv
<1>2. CASE UNCHANGED compVars
  <2>1. UNCHANGED vars /\ next' = next /\ anyChanged' = anyChanged /\ stopped' = stopped
    BY <1>2 DEF compVars, optVars
  <2>2. module' = module /\ program' = program /\ status' = status
    BY <2>1 DEF vars
  <2>3. Carried' /\ Managed' /\ (Done => Done') /\ (Opt!Start => Opt!Start')
    BY <2>1, <2>2 DEF OInv, Carried, Managed, Quieted, Done, Opt!Start
  <2>4. VInv => VInv'
    BY <2>1, StutterValues
  <2> QED
    BY <2>3, <2>4 DEF OInv
<1> QED
  BY <1>1, <1>2

(* OInv is an inductive invariant of the lowering and the optimization, for *)
(* every set of programs and every width.                                   *)
THEOREM OptimizationInductive == CompSpec => []OInv
<1>1. OInv /\ [CompNext]_compVars => OInv'
  BY LowerKeeps, RunPassKeeps, OtherStepsKeep DEF CompNext
<1> QED
  BY <1>1, CompInitOInv, PTL DEF CompSpec

(* The passes of passes.cpp, in any number of sweeps, leave every value     *)
(* that is read computed on every path to the read, and control inside of   *)
(* the function.                                                            *)
THEOREM OptimizedCodeAlwaysWellFormed == CompSpec => []OptimizedCodeIsWellFormed
<1>1. ASSUME OInv, NEW f \in DOMAIN module
      PROVE  /\ ReferenceHolds(program[f]) => Check!DefinedOnEveryPath(module[f])
             /\ \A b \in DOMAIN module[f].blocks :
                   /\ IsTerminated(module[f].blocks[b])
                   /\ TargetsOf(module[f].blocks[b]) \subseteq DOMAIN module[f].blocks
  <2>1. /\ module[f] \in Function /\ Sealed(module[f].blocks)
        /\ ReferenceHolds(program[f]) => Covered(module[f])
    BY <1>1 DEF OInv, Carried, AllFine, Fine
  <2>2. /\ module[f].blocks \in Seq(BasicBlock)
        /\ DOMAIN module[f].blocks = Labels(module[f].blocks)
    BY <2>1, FunctionFields
  <2>3. ASSUME ReferenceHolds(program[f])
        PROVE  Check!DefinedOnEveryPath(module[f])
    <3>1. PICK a : Certified(Code(module[f].blocks), a)
      BY <2>1, <2>3 DEF Covered
    <3> QED
      BY <2>2, <3>1, CertifiedOnEveryPath
  <2> QED
    BY <2>1, <2>2, <2>3 DEF Sealed
<1>2. OInv => OptimizedCodeIsWellFormed
  BY <1>1 DEF OptimizedCodeIsWellFormed
<1> QED
  BY <1>2, OptimizationInductive, PTL

(* Constant folding rewrites operands without reporting a change.  Still    *)
(* PassManager::run only stops where no pass changes the module any more:   *)
(* what a pass leaves unreported, it left as it was.                        *)
THEOREM FixedPointAlwaysReached == CompSpec => []FixedPointReached
<1>1. OInv => FixedPointReached
  BY PipelineOf DEF OInv, Managed, Quieted, FixedPointReached
<1> QED
  BY <1>1, OptimizationInductive, PTL

=============================================================================
