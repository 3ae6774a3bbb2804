---------------------------- MODULE LoweringSlots ----------------------------
(***************************************************************************)
(* The named slots of a lowered function, for every set of programs: the   *)
(* variables and the __if_result_N and __loop_result_N slots are stored to *)
(* on every path to a load of them that can be executed.                   *)
(*                                                                         *)
(* The argument resembles that of LoweringValues, with one difference: a   *)
(* label is not bound to expect what is known when it is allocated.  The   *)
(* block behind an `if` or a `loop` with a result may count on the result  *)
(* slot, which every jump there must then have stored.  An expectation `s` *)
(* gives every label the slots its block may count on; `h` gives every     *)
(* activation record those that were stored when its visit started, which  *)
(* is all that the rest of the visit, and the code of its operands, needs. *)
(***************************************************************************)
EXTENDS LoweringValues

(* The slots a block stores to, and those before its k-th instruction. *)
Stores(is)        == {is[k].sym : k \in {j \in DOMAIN is : is[j].tag = "store"}}
StoresTill(is, k) == {is[j].sym : j \in {i \in 1..(k - 1) : is[i].tag = "store"}}

Supplied(c, s, ps) ==
    /\ 1 \in DOMAIN c => s[1] \subseteq ps
    /\ \A b \in DOMAIN c : \A k \in DOMAIN c[b] :
          /\ c[b][k].tag = "load" => c[b][k].sym \in s[b] \cup StoresTill(c[b], k)
          /\ \A t \in Targets(c[b][k]) : t \in DOMAIN c /\ s[t] \subseteq s[b] \cup StoresTill(c[b], k)

(* What is stored at the end of block b. *)
Stored(bs, s, b) == s[b] \cup Stores(Code(bs)[b])

Supply(bs, s, b, ps) ==
    bs \in Seq(BasicBlock) /\ b \in Labels(bs) /\ Supplied(Code(bs), s, ps)

-----------------------------------------------------------------------------
(* One more instruction in a block. *)
StoredBy(i) == IF i.tag = "store" THEN {i.sym} ELSE {}

LEMMA SameSet == \A A, B : (\A x : x \in A <=> x \in B) => A = B
OBVIOUS

LEMMA AppendStores ==
    ASSUME NEW is \in Seq(Instruction), NEW i \in Instruction
    PROVE  /\ Stores(Append(is, i)) = Stores(is) \cup StoredBy(i)
           /\ \A k \in 1..Len(is) : StoresTill(Append(is, i), k) = StoresTill(is, k)
           /\ StoresTill(Append(is, i), Len(is) + 1) = Stores(is)
<1> DEFINE out == Append(is, i)
           n   == Len(is)
<1>1. /\ DOMAIN out = 1..(n + 1) /\ DOMAIN is = 1..n /\ n \in Nat
      /\ \A k \in 1..n : out[k] = is[k]
      /\ out[n + 1] = i
  OBVIOUS
<1> HIDE DEF out, n
<1>2. /\ \A k : k \in 1..(n + 1) <=> (k \in 1..n \/ k = n + 1)
      /\ (n + 1) - 1 = n
      /\ \A k \in 1..n : \A j \in 1..(k - 1) : j \in 1..n
  BY <1>1
<1>3. Stores(out) = Stores(is) \cup StoredBy(i)
  <2>1. \A x : x \in Stores(out) <=> \E k \in 1..(n + 1) : out[k].tag = "store" /\ x = out[k].sym
    BY <1>1 DEF Stores
  <2>2. \A x : x \in Stores(is) <=> \E k \in 1..n : is[k].tag = "store" /\ x = is[k].sym
    BY <1>1 DEF Stores
  <2>3. \A x : x \in StoredBy(i) <=> i.tag = "store" /\ x = i.sym
    BY DEF StoredBy
  <2> QED
    BY <1>1, <1>2, <2>1, <2>2, <2>3
<1>4. \A k \in 1..n : StoresTill(out, k) = StoresTill(is, k)
  <2> TAKE k \in 1..n
  <2>1. \A j \in 1..(k - 1) : out[j] = is[j]
    BY <1>1, <1>2
  <2>2. /\ \A x : x \in StoresTill(out, k) <=> \E j \in 1..(k - 1) : out[j].tag = "store" /\ x = out[j].sym
        /\ \A x : x \in StoresTill(is, k) <=> \E j \in 1..(k - 1) : is[j].tag = "store" /\ x = is[j].sym
    BY DEF StoresTill
  <2>3. \A x : x \in StoresTill(out, k) <=> x \in StoresTill(is, k)
    BY <2>1, <2>2
  <2> QED
    BY <2>3, SameSet
<1>5. StoresTill(out, n + 1) = Stores(is)
  <2>1. \A x : x \in StoresTill(out, n + 1) <=> \E j \in 1..n : out[j].tag = "store" /\ x = out[j].sym
    BY <1>2 DEF StoresTill
  <2>2. \A x : x \in Stores(is) <=> \E k \in 1..n : is[k].tag = "store" /\ x = is[k].sym
    BY <1>1 DEF Stores
  <2>3. \A x : x \in StoresTill(out, n + 1) <=> x \in Stores(is)
    BY <1>1, <2>1, <2>2
  <2> QED
    BY <2>3, SameSet
<1> QED
  BY <1>3, <1>4, <1>5 DEF out, n

(* A load of what is stored in its block, and a jump to blocks that count   *)
(* on no more, keep the expectation.                                        *)
LEMMA SuppliedPut ==
    ASSUME NEW c \in Codes, NEW s, NEW ps, Supplied(c, s, ps), NEW b \in DOMAIN c,
           NEW i \in Instruction, i.tag = "load" => i.sym \in s[b] \cup Stores(c[b]),
           \A t \in Targets(i) : t \in DOMAIN c /\ s[t] \subseteq s[b] \cup Stores(c[b])
    PROVE  /\ Supplied(Put(c, b, i), s, ps)
           /\ Stores(Put(c, b, i)[b]) = Stores(c[b]) \cup StoredBy(i)
<1> DEFINE e == Put(c, b, i)
           n == Len(c[b])
<1>1. /\ e \in Codes /\ DOMAIN e = DOMAIN c /\ c[b] \in Seq(Instruction) /\ e[b] = Append(c[b], i)
      /\ \A d \in DOMAIN c : d # b => e[d] = c[d]
  BY PutEffect
<1> HIDE DEF e
<1>2. /\ DOMAIN e[b] = 1..(n + 1) /\ DOMAIN c[b] = 1..n /\ n \in Nat
      /\ \A k \in 1..n : e[b][k] = c[b][k]
      /\ e[b][n + 1] = i
  BY <1>1, AppendInstr
<1>3. /\ Stores(e[b]) = Stores(c[b]) \cup StoredBy(i)
      /\ \A k \in 1..n : StoresTill(e[b], k) = StoresTill(c[b], k)
      /\ StoresTill(e[b], n + 1) = Stores(c[b])
  BY <1>1, AppendStores
<1> HIDE DEF n
<1>4. ASSUME NEW d \in DOMAIN c, NEW k \in DOMAIN e[d]
      PROVE  /\ e[d][k].tag = "load" => e[d][k].sym \in s[d] \cup StoresTill(e[d], k)
             /\ \A t \in Targets(e[d][k]) : t \in DOMAIN c /\ s[t] \subseteq s[d] \cup StoresTill(e[d], k)
  <2>1. CASE d = b /\ k = n + 1
    BY <1>2, <1>3, <2>1
  <2>2. CASE d # b \/ k # n + 1
    <3>1. CASE d # b
      BY <1>1, <1>4, <3>1 DEF Supplied
    <3>2. CASE d = b
      <4>1. k \in 1..n
        BY <1>2, <1>4, <2>2, <3>2
      <4>2. k \in DOMAIN c[d] /\ e[d][k] = c[d][k] /\ StoresTill(e[d], k) = StoresTill(c[d], k)
        BY <1>2, <1>3, <3>2, <4>1
      <4> QED
        BY <4>2 DEF Supplied
    <3> QED
      BY <3>1, <3>2
  <2> QED
    BY <2>1, <2>2
<1>5. Supplied(e, s, ps)
  BY <1>1, <1>4 DEF Supplied
<1> QED
  BY <1>3, <1>5 DEF e

(* A new block may count on anything. *)
LEMMA SuppliedGrow ==
    ASSUME NEW c \in Codes, NEW s, NEW ps, Supplied(c, s, ps), NEW n \in Nat, NEW e,
           1 \in DOMAIN c, \A l \in DOMAIN c : e[l] = s[l]
    PROVE  Supplied(Grow(c, n), e, ps)
<1> DEFINE g == Grow(c, n)
<1>1. /\ DOMAIN g = 1..(Len(c) + n) /\ DOMAIN c = 1..Len(c) /\ Len(c) \in Nat
      /\ \A d \in DOMAIN g : g[d] = IF d \in DOMAIN c THEN c[d] ELSE <<>>
  BY GrowEffect2
<1> HIDE DEF g
<1>2. \A d \in DOMAIN c : d \in DOMAIN g
  BY <1>1
<1>3. ASSUME NEW d \in DOMAIN g, NEW k \in DOMAIN g[d]
      PROVE  /\ g[d][k].tag = "load" => g[d][k].sym \in e[d] \cup StoresTill(g[d], k)
             /\ \A t \in Targets(g[d][k]) : t \in DOMAIN g /\ e[t] \subseteq e[d] \cup StoresTill(g[d], k)
  <2>1. d \in DOMAIN c /\ k \in DOMAIN c[d] /\ g[d] = c[d]
    BY <1>1, <1>3
  <2>2. /\ c[d][k].tag = "load" => c[d][k].sym \in s[d] \cup StoresTill(c[d], k)
        /\ \A t \in Targets(c[d][k]) : t \in DOMAIN c /\ s[t] \subseteq s[d] \cup StoresTill(c[d], k)
    BY <2>1 DEF Supplied
  <2> QED
    BY <1>2, <2>1, <2>2
<1>4. e[1] \subseteq ps
  BY DEF Supplied
<1> QED
  BY <1>3, <1>4 DEF Supplied, g

-----------------------------------------------------------------------------
(* What the activation records wait for.  A label is given what was stored  *)
(* when the visit started; the last one, where the visit goes on, may count *)
(* on the result slot besides.                                              *)
Owed(fn, f) ==
    IF f.slot = NoTemp THEN {}
    ELSE IF fn.nodes[f.node].kind = "if" THEN {IfSlot(f.slot)} ELSE {LoopSlot(f.slot)}
Expected(fn, f, s, H) ==
    \A j \in DOMAIN f.labs : s[f.labs[j]] = IF j = Len(f.labs) THEN H \cup Owed(fn, f) ELSE H
Awaited(fn, f, s, H) ==
    /\ Expected(fn, f, s, H)
    /\ fn.nodes[f.node].kind \in {"while", "loop"} /\ f.pc > 0 => s[f.head] = H

(* The variables that are read at or below node n are in H. *)
Needs(fn, n, H) ==
    \A m \in NodesOf(fn, {"ident"}) : Reads(fn, fn.nodes[m].sym)[n] => fn.nodes[m].sym \in H

(* K is what is stored in the open block.  The variables declared so far in *)
(* the blocks being visited are among what the next visits start with.      *)
LevelOf(fn, st, f, K, s, h) ==
    LET node == fn.nodes[st[f].node]
    IN  /\ h[f] \subseteq K /\ \A g \in 1..f : h[g] \subseteq h[f]
        /\ Needs(fn, st[f].node, h[f]) /\ Awaited(fn, st[f], s, h[f])
        /\ f = Len(st) => LetsBefore(fn, st[f].node, st[f].pc + 1) \subseteq K
        /\ f # Len(st) => /\ st[f + 1].node = node.kids[st[f].pc]
                          /\ LetsBefore(fn, st[f].node, st[f].pc) \subseteq h[f + 1]
Levels(fn, st, K, s, h) == \A f \in DOMAIN st : LevelOf(fn, st, f, K, s, h)

LEMMA LetsGrow ==
    ASSUME NEW fn, NEW n, NEW k \in Nat
    PROVE  /\ LetsBefore(fn, n, 1) = {}
           /\ fn.nodes[n].kind # "block" => LetsBefore(fn, n, k) = {}
           /\ \A x \in LetsBefore(fn, n, k + 1) :
                 \/ x \in LetsBefore(fn, n, k)
                 \/ /\ fn.nodes[fn.nodes[n].kids[k]].kind = "let"
                    /\ x = fn.nodes[fn.nodes[n].kids[k]].sym
<1> DEFINE node == fn.nodes[n]
<1>1. \A j : j \in 1..((k + 1) - 1) => j \in 1..(k - 1) \/ j = k
  OBVIOUS
<1>2. \A j : j \notin 1..(1 - 1)
  OBVIOUS
<1>3. \A i, x : x \in LetsBefore(fn, n, i) <=>
                  /\ node.kind = "block"
                  /\ \E j \in 1..(i - 1) : fn.nodes[node.kids[j]].kind = "let" /\ x = fn.nodes[node.kids[j]].sym
  BY DEF LetsBefore
<1>4. \A x : x \in LetsBefore(fn, n, 1) <=> x \in {}
  BY <1>2, <1>3
<1>5. node.kind # "block" => \A x : x \in LetsBefore(fn, n, k) <=> x \in {}
  BY <1>3
<1>6. \A x \in LetsBefore(fn, n, k + 1) :
         x \in LetsBefore(fn, n, k) \/ (fn.nodes[node.kids[k]].kind = "let" /\ x = fn.nodes[node.kids[k]].sym)
  BY <1>1, <1>3
<1> QED
  BY <1>4, <1>5, <1>6, SameSet

(* The end of a visit: what was stored when it started is stored where it   *)
(* ends, and so is the variable it declares.                                *)
LEMMA LevelsPop ==
    ASSUME NEW fn, NEW st \in Seq(FrameType), st # <<>>, NEW K, NEW s, NEW h, Levels(fn, st, K, s, h),
           NEW M, h[Len(st)] \subseteq M,
           fn.nodes[st[Len(st)].node].kind = "let" => fn.nodes[st[Len(st)].node].sym \in M
    PROVE  Levels(fn, PopOf(st), M, s, h)
<1> DEFINE d   == Len(st)
           out == PopOf(st)
<1>1. /\ DOMAIN out = 1..(d - 1) /\ DOMAIN st = 1..d /\ d \in Nat \ {0} /\ Len(out) = d - 1
      /\ \A f \in 1..(d - 1) : out[f] = st[f]
      /\ \A f \in 1..d : st[f].pc \in Nat
  <2>1. /\ DOMAIN out = 1..(d - 1) /\ DOMAIN st = 1..d /\ d \in Nat \ {0} /\ Len(out) = d - 1
        /\ \A f \in 1..(d - 1) : out[f] = st[f]
    BY PopEffect
  <2>2. \A f \in 1..d : st[f] \in FrameType
    BY <2>1
  <2> QED
    BY <2>1, <2>2 DEF FrameType
<1>2. h[d] \subseteq M /\ (fn.nodes[st[d].node].kind = "let" => fn.nodes[st[d].node].sym \in M)
  OBVIOUS
<1> HIDE DEF out
<1>3. ASSUME NEW f \in DOMAIN out
      PROVE  LevelOf(fn, out, f, M, s, h)
  <2>1. f \in 1..(d - 1) /\ f \in 1..d /\ d \in 1..d /\ f # d /\ out[f] = st[f] /\ st[f].pc \in Nat
        /\ f \in 1..d /\ f + 1 \in 1..d
    BY <1>1, <1>3
  <2>2. LevelOf(fn, st, f, K, s, h) /\ LevelOf(fn, st, d, K, s, h)
    BY <1>1, <2>1 DEF Levels
  <2>3. h[f] \subseteq M
    BY <1>2, <2>1, <2>2 DEF LevelOf
  <2>4. f = d - 1 => LetsBefore(fn, st[f].node, st[f].pc + 1) \subseteq M
    <3> SUFFICES ASSUME f = d - 1, NEW x \in LetsBefore(fn, st[f].node, st[f].pc + 1)
                 PROVE  x \in M
      OBVIOUS
    <3>1. f + 1 = d
      BY <1>1
    <3>2. /\ st[d].node = fn.nodes[st[f].node].kids[st[f].pc]
          /\ LetsBefore(fn, st[f].node, st[f].pc) \subseteq h[d]
      BY <2>1, <2>2, <3>1 DEF LevelOf
    <3> DEFINE n == st[f].node
               k == st[f].pc
    <3>3. k \in Nat /\ x \in LetsBefore(fn, n, k + 1)
      BY <2>1
    <3> HIDE DEF n, k
    <3>4. \/ x \in LetsBefore(fn, n, k)
          \/ /\ fn.nodes[fn.nodes[n].kids[k]].kind = "let"
             /\ x = fn.nodes[fn.nodes[n].kids[k]].sym
      BY <3>3, LetsGrow
    <3> QED
      BY <1>2, <3>2, <3>4 DEF n, k
  <2>5. f # d - 1 => out[f + 1] = st[f + 1]
    BY <1>1, <2>1
  <2> HIDE DEF d
  <2> QED
    BY <1>1, <2>1, <2>2, <2>3, <2>4, <2>5 DEF LevelOf, d
<1> QED
  BY <1>3 DEF Levels, out

(* The start of the visit of an operand. *)
LEMMA LevelsPush ==
    ASSUME NEW fn, fn.nodes \in Seq(AstNode), \A n \in DOMAIN fn.nodes : WellFormedNode(fn, n),
           NEW st \in Seq(FrameType), st # <<>>, NEW K, NEW s, NEW h, Levels(fn, st, K, s, h),
           NEW f \in FrameType, NEW g \in FrameType, st[Len(st)].node \in DOMAIN fn.nodes,
           f.node = st[Len(st)].node, f.pc = st[Len(st)].pc + 1,
           f.pc \in DOMAIN fn.nodes[f.node].kids, g.node = fn.nodes[f.node].kids[f.pc],
           g.pc = 0, g.labs = <<>>,
           NEW M, h[Len(st)] \subseteq M, fn.nodes[f.node].kind = "block" => K \subseteq M,
           Awaited(fn, f, s, h[Len(st)])
    PROVE  \E e : Levels(fn, PushOf(st, f, g), M, s, e)
<1> DEFINE d   == Len(st)
           out == PushOf(st, f, g)
           e   == [j \in 1..(d + 1) |-> IF j = d + 1 THEN M ELSE h[j]]
<1>1. /\ DOMAIN out = 1..(d + 1) /\ DOMAIN st = 1..d /\ d \in Nat \ {0} /\ Len(out) = d + 1
      /\ \A j \in 1..(d - 1) : out[j] = st[j]
      /\ out[d] = f /\ out[d + 1] = g
  <2>1. DOMAIN out = 1..(d + 1) /\ DOMAIN st = 1..d /\ d \in Nat \ {0} /\ Len(out) = d + 1
    BY PushEffect
  <2>2. \A j \in 1..(d - 1) : out[j] = st[j]
    BY PushEffect
  <2>3. out[d] = f /\ out[d + 1] = g
    BY PushEffect
  <2> QED
    BY <2>1, <2>2, <2>3
<1>2. e[d + 1] = M /\ \A j \in 1..d : e[j] = h[j]
  BY <1>1
<1>3. /\ h[d] \subseteq M /\ Awaited(fn, f, s, h[d]) /\ f.node = st[d].node /\ f.pc = st[d].pc + 1
      /\ st[d].node \in DOMAIN fn.nodes
  OBVIOUS
<1> HIDE DEF out, e, d
<1>4. \A j \in 1..d : LevelOf(fn, st, j, K, s, h)
  BY <1>1 DEF Levels
<1>5. d \in 1..d /\ d + 1 # d /\ \A j \in 1..d : j # d + 1 /\ (j # d => j \in 1..(d - 1) /\ j + 1 \in 1..d)
  BY <1>1
<1>6. LetsBefore(fn, f.node, f.pc) \subseteq M
  <2>1. CASE fn.nodes[f.node].kind = "block"
    <3>1. LetsBefore(fn, st[d].node, st[d].pc + 1) \subseteq K
      BY <1>4, <1>5 DEF LevelOf, d
    <3> QED
      BY <1>3, <2>1, <3>1
  <2>2. CASE fn.nodes[f.node].kind # "block"
    <3>1. f.pc \in Nat
      BY DEF FrameType
    <3>2. LetsBefore(fn, f.node, f.pc) = {}
      BY <2>2, <3>1, LetsGrow
    <3> QED
      BY <3>2
  <2> QED
    BY <2>1, <2>2
<1>7. Needs(fn, g.node, M)
  <2> SUFFICES ASSUME NEW m \in NodesOf(fn, {"ident"}), Reads(fn, fn.nodes[m].sym)[g.node]
               PROVE  fn.nodes[m].sym \in M
    BY DEF Needs
  <2>1. Reads(fn, fn.nodes[m].sym)[f.node] \/ fn.nodes[m].sym \in LetsBefore(fn, f.node, f.pc)
    BY <1>3, ReadsNext
  <2>2. Reads(fn, fn.nodes[m].sym)[f.node] => fn.nodes[m].sym \in h[d]
    BY <1>3, <1>4, <1>5 DEF LevelOf, Needs
  <2> QED
    BY <1>3, <1>6, <2>1, <2>2
<1>8. \A j \in 1..d : e[j] \subseteq M /\ \A i \in 1..j : e[i] \subseteq e[j]
  <2> TAKE j \in 1..d
  <2>1. h[j] \subseteq h[d]
    BY <1>4, <1>5 DEF LevelOf
  <2>2. \A i \in 1..j : i \in 1..d /\ h[i] \subseteq h[j]
    BY <1>1, <1>4 DEF LevelOf
  <2> QED
    BY <1>2, <1>3, <2>1, <2>2
<1>9. LevelOf(fn, out, d + 1, M, s, e)
  <2>1. \A i \in 1..(d + 1) : e[i] \subseteq M
    <3>1. \A i \in 1..(d + 1) : i \in 1..d \/ i = d + 1
      BY <1>1
    <3> QED
      BY <1>2, <1>8, <3>1
  <2>2. Awaited(fn, g, s, M)
    <3>1. DOMAIN g.labs = {} /\ ~(g.pc > 0)
      OBVIOUS
    <3> QED
      BY <3>1 DEF Awaited, Expected
  <2>3. LetsBefore(fn, g.node, g.pc + 1) = {}
    <3>1. g.pc + 1 = 1 /\ 0 \in Nat
      OBVIOUS
    <3> QED
      BY <3>1, LetsGrow
  <2> QED
    BY <1>1, <1>2, <1>7, <2>1, <2>2, <2>3 DEF LevelOf
<1>10. LevelOf(fn, out, d, M, s, e)
  <2>1. Needs(fn, f.node, h[d])
    BY <1>3, <1>4, <1>5 DEF LevelOf
  <2> QED
    BY <1>1, <1>2, <1>3, <1>5, <1>6, <1>8, <2>1 DEF LevelOf
<1>11. ASSUME NEW j \in 1..d, j # d
       PROVE  LevelOf(fn, out, j, M, s, e)
  <2>1. LevelOf(fn, st, j, K, s, h) /\ j \in 1..(d - 1) /\ out[j] = st[j] /\ j + 1 \in 1..d
    BY <1>1, <1>4, <1>5, <1>11
  <2>2. out[j + 1].node = st[j + 1].node
    <3>1. CASE j + 1 = d
      BY <1>1, <1>3, <3>1
    <3>2. CASE j + 1 # d
      BY <1>1, <1>5, <2>1, <3>2
    <3> QED
      BY <3>1, <3>2
  <2>3. j # Len(out) /\ j # Len(st) /\ e[j] = h[j] /\ e[j + 1] = h[j + 1]
    BY <1>1, <1>2, <1>5, <1>11, <2>1 DEF d
  <2> QED
    BY <1>8, <2>1, <2>2, <2>3 DEF LevelOf
<1>12. \A j \in DOMAIN out : LevelOf(fn, out, j, M, s, e)
  <2>1. \A j \in DOMAIN out : j = d + 1 \/ j = d \/ (j \in 1..d /\ j # d)
    BY <1>1
  <2> QED
    BY <1>9, <1>10, <1>11, <2>1
<1>13. Levels(fn, out, M, s, e)
  BY <1>12 DEF Levels
<1> QED
  BY <1>13 DEF out

(* The expectations of new labels do not matter to what waits already. *)
LEMMA LevelsGrow ==
    ASSUME NEW fn, NEW st \in Seq(FrameType), NEW K, NEW s, NEW h, Levels(fn, st, K, s, h),
           NEW L, NEW e, \A l \in L : e[l] = s[l],
           \A f \in DOMAIN st :
              /\ \A j \in DOMAIN st[f].labs : st[f].labs[j] \in L
              /\ fn.nodes[st[f].node].kind \in {"while", "loop"} /\ st[f].pc > 0 => st[f].head \in L
    PROVE  Levels(fn, st, K, e, h)
<1>1. ASSUME NEW f \in DOMAIN st PROVE LevelOf(fn, st, f, K, e, h)
  <2>1. LevelOf(fn, st, f, K, s, h)
    BY DEF Levels
  <2>2. Awaited(fn, st[f], s, h[f])
    BY <2>1 DEF LevelOf
  <2>3. Awaited(fn, st[f], e, h[f])
    BY <2>2 DEF Awaited, Expected
  <2> QED
    BY <2>1, <2>3 DEF LevelOf
<1> QED
  BY <1>1 DEF Levels

-----------------------------------------------------------------------------
(* How a step on the blocks keeps an expectation. *)
LEMMA SupplyPut ==
    ASSUME NEW bs, NEW s, NEW b, NEW ps, Supply(bs, s, b, ps),
           NEW i \in Instruction, i.tag = "load" => i.sym \in Stored(bs, s, b),
           \A t \in Targets(i) : t \in Labels(bs) /\ s[t] \subseteq Stored(bs, s, b),
           NEW new \in Seq(BasicBlock), Code(new) = Put(Code(bs), b, i)
    PROVE  /\ Supply(new, s, b, ps) /\ Stored(new, s, b) = Stored(bs, s, b) \cup StoredBy(i)
           /\ Labels(new) = Labels(bs)
<1> DEFINE c == Code(bs)
<1>1. bs \in Seq(BasicBlock) /\ b \in Labels(bs) /\ Supplied(c, s, ps)
  BY DEF Supply
<1>2. c \in Codes /\ DOMAIN c = Labels(bs) /\ Labels(new) = DOMAIN Code(new)
  BY <1>1, CodeOf
<1>3. /\ i.tag = "load" => i.sym \in s[b] \cup Stores(c[b])
      /\ \A t \in Targets(i) : t \in DOMAIN c /\ s[t] \subseteq s[b] \cup Stores(c[b])
  BY <1>2 DEF Stored
<1>4. Code(new) = Put(c, b, i) /\ b \in DOMAIN c
  BY <1>1, <1>2
<1>5. Stored(bs, s, b) = s[b] \cup Stores(c[b])
  BY DEF Stored
<1> HIDE DEF c
<1>6. DOMAIN Put(c, b, i) = DOMAIN c
  BY <1>2, <1>4, PutEffect
<1>7. Supplied(Put(c, b, i), s, ps) /\ Stores(Put(c, b, i)[b]) = Stores(c[b]) \cup StoredBy(i)
  BY <1>1, <1>2, <1>3, <1>4, SuppliedPut
<1>8. Stored(new, s, b) = s[b] \cup Stores(Put(c, b, i)[b])
  BY <1>4 DEF Stored
<1>9. Supply(new, s, b, ps) /\ Labels(new) = Labels(bs)
  BY <1>2, <1>4, <1>6, <1>7 DEF Supply
<1> QED
  BY <1>5, <1>7, <1>8, <1>9

LEMMA SupplyEmit ==
    ASSUME NEW bs, NEW s, NEW b, NEW ps, Supply(bs, s, b, ps),
           NEW i \in Instruction, i.to = <<>>, i.tag = "load" => i.sym \in Stored(bs, s, b)
    PROVE  /\ Supply(Emit(bs, b, i), s, b, ps)
           /\ Stored(Emit(bs, b, i), s, b) = Stored(bs, s, b) \cup StoredBy(i)
           /\ Labels(Emit(bs, b, i)) = Labels(bs)
<1>1. bs \in Seq(BasicBlock) /\ b \in Labels(bs)
  BY DEF Supply
<1>2. Emit(bs, b, i) \in Seq(BasicBlock) /\ Code(Emit(bs, b, i)) = Put(Code(bs), b, i)
  BY <1>1, CodeEmit, EmitEffect
<1>3. Targets(i) = {}
  BY DEF Targets
<1> QED
  BY <1>2, <1>3, SupplyPut

(* Instructions that neither store nor load. *)
LEMMA SupplyOther ==
    ASSUME NEW bs, NEW s, NEW b, NEW ps, Supply(bs, s, b, ps),
           NEW i \in Instruction, i.to = <<>>, i.tag \notin {"load", "store"}
    PROVE  /\ Supply(Emit(bs, b, i), s, b, ps) /\ Stored(Emit(bs, b, i), s, b) = Stored(bs, s, b)
           /\ Labels(Emit(bs, b, i)) = Labels(bs)
<1>1. i.tag # "load" /\ i.tag # "store"
  OBVIOUS
<1>2. StoredBy(i) = {}
  BY <1>1 DEF StoredBy
<1>3. /\ Supply(Emit(bs, b, i), s, b, ps) /\ Labels(Emit(bs, b, i)) = Labels(bs)
      /\ Stored(Emit(bs, b, i), s, b) = Stored(bs, s, b) \cup StoredBy(i)
  BY <1>1, SupplyEmit
<1> QED
  BY <1>2, <1>3

LEMMA SupplyStore ==
    ASSUME NEW bs, NEW s, NEW b, NEW ps, Supply(bs, s, b, ps), NEW x \in Symbols, NEW v \in Value
    PROVE  /\ Supply(Emit(bs, b, StoreLocal(x, v)), s, b, ps)
           /\ Stored(Emit(bs, b, StoreLocal(x, v)), s, b) = Stored(bs, s, b) \cup {x}
           /\ Labels(Emit(bs, b, StoreLocal(x, v))) = Labels(bs)
<1> DEFINE i == StoreLocal(x, v)
<1>1. NoTemp \in Int /\ "=" \in Texts /\ <<>> \in Seq(Value)
  BY SymbolsTyped DEF Texts
<1>2. i \in Instruction /\ i.to = <<>>
  BY <1>1, PlainTyped DEF Plain
<1>3. i.tag = "store" /\ i.sym = x
  BY DEF StoreLocal, Instr
<1> HIDE DEF i
<1>4. StoredBy(i) = {x} /\ i.tag # "load"
  BY <1>3 DEF StoredBy
<1>5. /\ Supply(Emit(bs, b, i), s, b, ps) /\ Stored(Emit(bs, b, i), s, b) = Stored(bs, s, b) \cup {x}
      /\ Labels(Emit(bs, b, i)) = Labels(bs)
  BY <1>2, <1>4, SupplyEmit
<1> QED
  BY <1>5 DEF i

LEMMA SupplyLoad ==
    ASSUME NEW bs, NEW s, NEW b, NEW ps, Supply(bs, s, b, ps), NEW n \in Nat,
           NEW x \in Symbols, x \in Stored(bs, s, b)
    PROVE  /\ Supply(Emit(bs, b, LoadLocal(n, x)), s, b, ps)
           /\ Stored(Emit(bs, b, LoadLocal(n, x)), s, b) = Stored(bs, s, b)
<1> DEFINE i == LoadLocal(n, x)
<1>1. "=" \in Texts /\ <<>> \in Seq(Value) /\ ImmUnit \in Value
  BY ValueTyped DEF Texts
<1>2. i \in Instruction /\ i.to = <<>>
  BY <1>1, LoadTyped DEF Plain
<1>3. i.tag = "load" /\ i.sym = x
  BY DEF LoadLocal, Instr
<1> HIDE DEF i
<1>4. StoredBy(i) = {}
  BY <1>3 DEF StoredBy
<1>5. i.tag = "load" => i.sym \in Stored(bs, s, b)
  BY <1>3
<1>6. Supply(Emit(bs, b, i), s, b, ps) /\ Stored(Emit(bs, b, i), s, b) = Stored(bs, s, b) \cup StoredBy(i)
  BY <1>2, <1>5, SupplyEmit
<1> QED
  BY <1>4, <1>6 DEF i

LEMMA SupplyJump ==
    ASSUME NEW bs, NEW s, NEW b, NEW ps, Supply(bs, s, b, ps),
           NEW l \in Labels(bs), s[l] \subseteq Stored(bs, s, b)
    PROVE  /\ Supply(JumpTo(bs, b, l), s, b, ps)
           /\ Stored(JumpTo(bs, b, l), s, b) = Stored(bs, s, b)
           /\ Labels(JumpTo(bs, b, l)) = Labels(bs)
<1>1. bs \in Seq(BasicBlock) /\ b \in Labels(bs)
  BY DEF Supply
<1>2. /\ Code(JumpTo(bs, b, l)) = Put(Code(bs), b, Jump(l)) /\ Jump(l) \in Instruction
      /\ JumpTo(bs, b, l) \in Seq(BasicBlock)
  BY <1>1, CodeJump
<1>3. Jump(l).tag = "jump" /\ StoredBy(Jump(l)) = {}
  BY DEF Jump, Instr, StoredBy
<1>4. Targets(Jump(l)) = {l}
  BY JumpTyped DEF Labels
<1>5. Jump(l).tag # "load"
  BY <1>3
<1>6. /\ Supply(JumpTo(bs, b, l), s, b, ps) /\ Labels(JumpTo(bs, b, l)) = Labels(bs)
      /\ Stored(JumpTo(bs, b, l), s, b) = Stored(bs, s, b) \cup StoredBy(Jump(l))
  BY <1>2, <1>4, <1>5, SupplyPut
<1> QED
  BY <1>3, <1>6

LEMMA SupplyBranch ==
    ASSUME NEW bs, NEW s, NEW b, NEW ps, Supply(bs, s, b, ps), NEW v \in Value,
           NEW l \in Labels(bs), s[l] \subseteq Stored(bs, s, b),
           NEW m \in Labels(bs), s[m] \subseteq Stored(bs, s, b)
    PROVE  /\ Supply(BranchTo(bs, b, v, l, m), s, b, ps)
           /\ Stored(BranchTo(bs, b, v, l, m), s, b) = Stored(bs, s, b)
           /\ Labels(BranchTo(bs, b, v, l, m)) = Labels(bs)
<1> DEFINE i == Branch(v, l, m)
           new == BranchTo(bs, b, v, l, m)
<1>1. bs \in Seq(BasicBlock) /\ b \in Labels(bs)
  BY DEF Supply
<1>2. Code(new) = Put(Code(bs), b, i) /\ i \in Instruction
  BY <1>1, CodeBranch
<1>3. new \in Seq(BasicBlock)
  <2> DEFINE em == Emit(bs, b, i)
             to == Connect(em, b, l)
  <2>1. em \in Seq(BasicBlock) /\ Labels(em) = Labels(bs)
    BY <1>1, <1>2, EmitEffect DEF Labels
  <2>2. new = Connect(to, b, m)
    BY DEF BranchTo
  <2> HIDE DEF em, i, new
  <2>3. to \in Seq(BasicBlock) /\ Labels(to) = Labels(em)
    BY <1>1, <2>1, CodeConnect
  <2> HIDE DEF to
  <2> QED
    BY <1>1, <2>1, <2>2, <2>3, CodeConnect
<1>4. i.tag = "branch" /\ StoredBy(i) = {}
  BY DEF Branch, Instr, StoredBy
<1>5. Targets(i) = {l, m}
  BY BranchTyped DEF Labels
<1> HIDE DEF i, new
<1>6. i.tag # "load"
  BY <1>4
<1>7. \A t \in Targets(i) : t \in Labels(bs) /\ s[t] \subseteq Stored(bs, s, b)
  BY <1>5
<1>8. /\ Supply(new, s, b, ps) /\ Labels(new) = Labels(bs)
      /\ Stored(new, s, b) = Stored(bs, s, b) \cup StoredBy(i)
  BY <1>2, <1>3, <1>6, <1>7, SupplyPut
<1> QED
  BY <1>4, <1>8 DEF new

(* New blocks are given any expectation: W[j] for the j-th of them. *)
Extends(bs, s, k, W, e) ==
    /\ \A l \in Labels(bs) : e[l] = s[l]
    /\ \A j \in 1..k : Len(bs) + j \in Labels(AddBlocks(bs, k)) /\ e[Len(bs) + j] = W[j]

LEMMA SupplyGrow ==
    ASSUME NEW bs, NEW s, NEW b, NEW ps, Supply(bs, s, b, ps), NEW k \in Nat, NEW W,
           1 \in Labels(bs)
    PROVE  \E e : /\ Extends(bs, s, k, W, e)
                  /\ Supply(AddBlocks(bs, k), e, b, ps)
                  /\ Stored(AddBlocks(bs, k), e, b) = Stored(bs, s, b)
<1> DEFINE c == Code(bs)
           n == Len(bs)
           e == [l \in 1..(n + k) |-> IF l \in 1..n THEN s[l] ELSE W[l - n]]
           new == AddBlocks(bs, k)
<1>1. bs \in Seq(BasicBlock) /\ b \in Labels(bs) /\ Supplied(c, s, ps)
  BY DEF Supply
<1>2. c \in Codes /\ DOMAIN c = Labels(bs) /\ Labels(bs) = 1..n /\ n \in Nat
  BY <1>1, CodeOf DEF Labels
<1>3. Code(new) = Grow(c, k) /\ new \in Seq(BasicBlock) /\ Len(new) = n + k
  BY <1>1, CodeAdd
<1>4. /\ \A l \in 1..n : e[l] = s[l] /\ l \in 1..(n + k)
      /\ \A j \in 1..k : n + j \in 1..(n + k) /\ e[n + j] = W[j]
  <2>1. \A j \in 1..k : n + j \in 1..(n + k) /\ n + j \notin 1..n /\ (n + j) - n = j
    BY <1>2
  <2>2. \A l \in 1..n : l \in 1..(n + k)
    BY <1>2
  <2> HIDE DEF n
  <2> QED
    BY <2>1, <2>2
<1>5. Labels(new) = 1..(n + k)
  BY <1>3 DEF Labels
<1> HIDE DEF e, new, c
<1>6. Supplied(Grow(c, k), e, ps)
  BY <1>1, <1>2, <1>4, SuppliedGrow
<1>7. Supply(new, e, b, ps)
  BY <1>1, <1>2, <1>3, <1>4, <1>5, <1>6 DEF Supply
<1>8. Stored(new, e, b) = Stored(bs, s, b)
  <2>1. Grow(c, k)[b] = c[b]
    <3>1. b \in DOMAIN c /\ b \in 1..n /\ Len(c) = n
      BY <1>1, <1>2, CodeOf DEF c
    <3>2. DOMAIN Grow(c, k) = 1..(n + k) /\ b \in 1..(n + k)
      BY <1>2, <1>4, <3>1, GrowEffect2
    <3> QED
      BY <1>2, <3>1, <3>2, GrowEffect2
  <2>2. e[b] = s[b]
    BY <1>1, <1>2, <1>4
  <2> QED
    BY <1>3, <2>1, <2>2 DEF Stored, c
<1>9. Extends(bs, s, k, W, e)
  BY <1>2, <1>4, <1>5 DEF Extends, new
<1> QED
  BY <1>7, <1>8, <1>9 DEF new

(* Going on in another block. *)
LEMMA SupplyAt ==
    ASSUME NEW bs, NEW s, NEW b, NEW ps, Supply(bs, s, b, ps), NEW l \in Labels(bs)
    PROVE  Supply(bs, s, l, ps) /\ s[l] \subseteq Stored(bs, s, l)
BY DEF Supply, Stored

LEMMA SupplyFall ==
    ASSUME NEW bs, NEW s, NEW ps, Supply(bs, s, cur, ps), NEW l \in Labels(bs),
           ~IsTerminated(bs[cur]) => s[l] \subseteq Stored(bs, s, cur)
    PROVE  Supply(FallThrough(bs, l), s, cur, ps) /\ Labels(FallThrough(bs, l)) = Labels(bs)
<1>1. CASE IsTerminated(bs[cur])
  BY <1>1 DEF FallThrough
<1>2. CASE ~IsTerminated(bs[cur])
  <2>1. FallThrough(bs, l) = JumpTo(bs, cur, l)
    BY <1>2 DEF FallThrough
  <2> QED
    BY <1>2, <2>1, SupplyJump
<1> QED
  BY <1>1, <1>2

-----------------------------------------------------------------------------
(* The state of the builder. *)
Steady(s, h) ==
    /\ Supply(blocks, s, cur, Range(Fn.params))
    /\ Levels(Fn, stack, Stored(blocks, s, cur), s, h)

(* Directly inside the body of a loop with a result there is no bare break. *)
Valued(fn, st) ==
    \A f \in DOMAIN st : \A g \in 1..(f - 1) :
        /\ Inside(fn, st[g]) /\ st[g].slot # NoTemp
        /\ \A j \in (g + 1)..(f - 1) : ~Inside(fn, st[j])
        => ~Bare(fn)[st[f].node]

(* A step ends the visit on top, or starts that of one of its operands. *)
Ends == stack' = PopOf(stack)
Descends ==
    \E f \in FrameType, k \in 1..Len(Kids) :
        /\ stack' = PushOf(stack, f, Frame(Kids[k]))
        /\ f.pc = k /\ f.node = Top.node
        /\ Inside(Fn, f) /\ f.slot # NoTemp => ~Bare(Fn)[Kids[k]]

LEMMA DescentFacts ==
    ASSUME IInv, Active, NEW f \in FrameType, NEW k \in 1..Len(Kids),
           stack' = PushOf(stack, f, Frame(Kids[k]))
    PROVE  LET d == Len(stack)
           IN  /\ DOMAIN stack' = 1..(d + 1) /\ DOMAIN stack = 1..d /\ d \in Nat \ {0}
               /\ \A j \in 1..(d - 1) : stack'[j] = stack[j]
               /\ stack'[d] = f /\ stack'[d + 1] = Frame(Kids[k]) /\ Frame(Kids[k]).node = Kids[k]
<1> DEFINE r   == Frame(Kids[k])
           out == PushOf(stack, f, r)
           d   == Len(stack)
<1>1. stack \in Seq(FrameType) /\ stack # <<>>
  BY InvParts
<1>2. r \in FrameType /\ r.node = Kids[k]
  <2>1. Kids[k] \in Nat
    BY TopFacts
  <2> QED
    BY <2>1, FrameTyped
<1> HIDE DEF r
<1>3. DOMAIN out = 1..(d + 1) /\ DOMAIN stack = 1..d /\ d \in Nat \ {0}
  BY <1>1, <1>2, PushEffect
<1>4. \A j \in 1..(d - 1) : out[j] = stack[j]
  BY <1>1, <1>2, PushEffect
<1>5. out[d] = f /\ out[d + 1] = r
  BY <1>1, <1>2, PushEffect
<1>6. stack' = out
  BY DEF r
<1> HIDE DEF out
<1> QED
  BY <1>2, <1>3, <1>4, <1>5, <1>6 DEF r

LEMMA ValuedNext ==
    ASSUME IInv, Active, Valued(Fn, stack), Ends \/ Descends
    PROVE  Valued(Fn, stack')
<1>1. stack \in Seq(FrameType) /\ stack # <<>> /\ stack[Len(stack)] = Top /\ TypeOK
      /\ status = "lowering"
  BY InvParts
<1>2. CASE Ends
  <2>1. /\ DOMAIN stack' = 1..(Len(stack) - 1) /\ DOMAIN stack = 1..Len(stack)
        /\ \A f \in 1..(Len(stack) - 1) : stack'[f] = stack[f]
        /\ Len(stack) \in Nat
    BY <1>1, <1>2, PopEffect DEF Ends
  <2>2. \A f \in DOMAIN stack' : /\ f \in DOMAIN stack /\ stack'[f] = stack[f]
                                 /\ \A g \in 1..(f - 1) : stack'[g] = stack[g]
    BY <2>1
  <2>3. \A f \in DOMAIN stack' : \A g \in 1..(f - 1) : \A j \in (g + 1)..(f - 1) : stack'[j] = stack[j]
    BY <2>1
  <2> QED
    BY <2>2, <2>3 DEF Valued
<1>3. CASE Descends
  <2>1. PICK f \in FrameType, k \in 1..Len(Kids) :
          /\ stack' = PushOf(stack, f, Frame(Kids[k]))
          /\ f.pc = k /\ f.node = Top.node
          /\ Inside(Fn, f) /\ f.slot # NoTemp => ~Bare(Fn)[Kids[k]]
    BY <1>3 DEF Descends
  <2> DEFINE d == Len(stack)
  <2>2. /\ DOMAIN stack' = 1..(d + 1) /\ DOMAIN stack = 1..d /\ d \in Nat \ {0}
        /\ \A j \in 1..(d - 1) : stack'[j] = stack[j]
        /\ stack'[d] = f /\ stack'[d + 1].node = Kids[k]
    BY <2>1, DescentFacts
  <2>3. /\ Fn.nodes \in Seq(AstNode) /\ \A n \in DOMAIN Fn.nodes : WellFormedNode(Fn, n)
        /\ Top.node \in DOMAIN Fn.nodes /\ Node = Fn.nodes[Top.node] /\ Kids \in Seq(Nat)
        /\ DOMAIN Kids = 1..Len(Kids) /\ Top.node = stack[d].node
    BY <1>1, FnTyped, TopFacts DEF Node
  <2>4. ~Inside(Fn, f) => ~IsLoopBody(Node, k)
    <3>1. Node.kind = "loop" => k = 1
      <4> SUFFICES ASSUME Node.kind = "loop" PROVE k = 1
        OBVIOUS
      <4>1. Len(Kids) = 1
        BY <2>3 DEF WellFormedNode, Kids
      <4>2. k \in 1..1
        BY <4>1
      <4> QED
        BY <4>2
    <3> QED
      BY <2>1, <2>3, <3>1 DEF Inside, IsLoopBody
  <2>5. ~Bare(Fn)[Top.node] /\ ~Inside(Fn, f) => ~Bare(Fn)[Kids[k]]
    <3>1. Bare(Fn)[Top.node] <=>
            \/ Node.kind = "break" /\ Kids = <<>>
            \/ \E j \in DOMAIN Kids : ~IsLoopBody(Node, j) /\ Bare(Fn)[Kids[j]]
      BY <2>3, BareNext DEF Kids
    <3> QED
      BY <2>3, <2>4, <3>1
  <2>6. ASSUME NEW i \in DOMAIN stack', NEW g \in 1..(i - 1),
               Inside(Fn, stack'[g]), stack'[g].slot # NoTemp,
               \A j \in (g + 1)..(i - 1) : ~Inside(Fn, stack'[j])
        PROVE  ~Bare(Fn)[stack'[i].node]
    <3>1. ASSUME i \in 1..d
          PROVE  ~Bare(Fn)[stack[i].node]
      <4>1. g \in 1..(d - 1) /\ stack'[g] = stack[g] /\ i \in DOMAIN stack
        BY <2>2, <2>6, <3>1
      <4>2. \A j \in (g + 1)..(i - 1) : j \in 1..(d - 1) /\ stack'[j] = stack[j]
        BY <2>2, <3>1, <4>1
      <4> QED
        BY <2>6, <4>1, <4>2 DEF Valued
    <3>2. CASE i \in 1..(d - 1)
      <4>1. i \in 1..d
        BY <2>2, <3>2
      <4> QED
        BY <2>2, <3>1, <3>2, <4>1
    <3>3. CASE i = d
      <4>1. i \in 1..d
        BY <2>2, <3>3
      <4> QED
        BY <2>1, <2>2, <2>3, <3>1, <3>3, <4>1
    <3>4. CASE i = d + 1
      <4>1. CASE g = d
        BY <2>1, <2>2, <2>6, <3>4, <4>1
      <4>2. CASE g # d
        <5> HIDE DEF d
        <5>0. d \in Nat /\ i - 1 = d /\ g \in 1..d
          BY <2>2, <3>4
        <5>1. g \in 1..(d - 1) /\ d \in (g + 1)..(i - 1)
          BY <4>2, <5>0
        <5>2. ~Inside(Fn, f)
          BY <2>2, <2>6, <5>1
        <5>3. \A j \in (g + 1)..(d - 1) : j \in (g + 1)..(i - 1) /\ j \in 1..(d - 1)
          BY <2>2, <3>4, <5>1
        <5>4. \A j \in (g + 1)..(d - 1) : ~Inside(Fn, stack[j])
          BY <2>2, <2>6, <5>3
        <5>5. Inside(Fn, stack[g]) /\ stack[g].slot # NoTemp /\ d \in DOMAIN stack
          BY <2>2, <2>6, <5>1
        <5>6. ~Bare(Fn)[Top.node]
          BY <2>3, <5>1, <5>4, <5>5 DEF Valued
        <5> QED
          BY <2>2, <2>5, <3>4, <5>2, <5>6
      <4> QED
        BY <4>1, <4>2
    <3>5. i \in 1..(d - 1) \/ i = d \/ i = d + 1
      BY <2>2
    <3> QED
      BY <3>2, <3>3, <3>4, <3>5
  <2> QED
    BY <2>6 DEF Valued
<1> QED
  BY <1>2, <1>3

(* What the levels say of the visit on top, and of the one inside a body    *)
(* further down.                                                            *)
LEMMA LevelFacts ==
    ASSUME IInv, Active, NEW s, NEW h, Steady(s, h), NEW f \in DOMAIN stack
    PROVE  /\ h[f] \subseteq Stored(blocks, s, cur) /\ h[f] \subseteq h[Len(stack)] 
           /\ Awaited(Fn, stack[f], s, h[f]) /\ Needs(Fn, stack[f].node, h[f])
           /\ Supply(blocks, s, cur, Range(Fn.params))
<1>1. Levels(Fn, stack, Stored(blocks, s, cur), s, h) /\ Supply(blocks, s, cur, Range(Fn.params))
  BY DEF Steady
<1>2. stack \in Seq(FrameType) /\ Len(stack) \in DOMAIN stack
  BY InvParts, TopFacts
<1>3. f \in 1..Len(stack)
  BY <1>2
<1>4. LevelOf(Fn, stack, f, Stored(blocks, s, cur), s, h)
      /\ LevelOf(Fn, stack, Len(stack), Stored(blocks, s, cur), s, h)
  BY <1>1, <1>2 DEF Levels
<1> QED
  BY <1>1, <1>3, <1>4 DEF LevelOf

LEMMA TopLevel ==
    ASSUME IInv, Active, NEW s, NEW h, Steady(s, h)
    PROVE  /\ h[Len(stack)] \subseteq Stored(blocks, s, cur) /\ Needs(Fn, Top.node, h[Len(stack)])
           /\ Awaited(Fn, Top, s, h[Len(stack)]) /\ Supply(blocks, s, cur, Range(Fn.params))
           /\ Levels(Fn, stack, Stored(blocks, s, cur), s, h)
<1>1. Len(stack) \in DOMAIN stack /\ stack[Len(stack)] = Top
  BY InvParts, TopFacts
<1>2. Levels(Fn, stack, Stored(blocks, s, cur), s, h)
  BY DEF Steady
<1> QED
  BY <1>1, <1>2, LevelFacts

-----------------------------------------------------------------------------
(* The end of a visit and the start of one. *)
LEMMA PopSteady ==
    ASSUME IInv, Active, UnchangedRest, ReturnFromVisit, NEW s, NEW h, Steady(s, h),
           Supply(blocks', s, cur', Range(Fn.params)),
           h[Len(stack)] \subseteq Stored(blocks', s, cur'),
           Node.kind = "let" => Node.sym \in Stored(blocks', s, cur')
    PROVE  (\E t, g : Steady(t, g))' /\ Ends
<1>1. stack \in Seq(FrameType) /\ stack # <<>> /\ stack[Len(stack)] = Top
  BY InvParts
<1>2. stack' = PopOf(stack)
  BY DEF ReturnFromVisit, PopOf
<1>3. Levels(Fn, stack, Stored(blocks, s, cur), s, h)
  BY DEF Steady
<1>4. Node = Fn.nodes[stack[Len(stack)].node]
  BY <1>1 DEF Node
<1>5. Levels(Fn, stack', Stored(blocks', s, cur'), s, h)
  BY <1>1, <1>2, <1>3, <1>4, LevelsPop
<1>6. Fn' = Fn
  BY SameFn
<1>7. Steady(s, h)'
  BY <1>5, <1>6 DEF Steady
<1> QED
  BY <1>2, <1>7 DEF Ends

LEMMA PushSteady ==
    ASSUME IInv, Active, UnchangedRest,
           NEW f \in FrameType, NEW k \in 1..Len(Kids), Accept(f, k), f.node = Top.node,
           k = Top.pc + 1,
           NEW e, NEW h, NEW K, Levels(Fn, stack, K, e, h),
           Supply(blocks', e, cur', Range(Fn.params)),
           NEW H, H = h[Len(stack)], H \subseteq Stored(blocks', e, cur'),
           Node.kind = "block" => K \subseteq Stored(blocks', e, cur'),
           Expected(Fn, f, e, H),
           Node.kind \in {"while", "loop"} => e[f.head] = H,
           Node.kind = "while" => f.slot = NoTemp,
           Node.kind = "loop" /\ f.slot # NoTemp => HasResult(Node.ty)
    PROVE  (\E t, g : Steady(t, g))' /\ Descends
<1> DEFINE g == [f EXCEPT !.pc = k]
           r == Frame(Kids[k])
<1>1. /\ stack \in Seq(FrameType) /\ stack # <<>> /\ TypeOK /\ status = "lowering"
      /\ k \in Nat /\ Kids[k] \in DOMAIN Fn.nodes /\ stack[Len(stack)] = Top
  BY InvParts, TopFacts
<1>2. stack' = PushOf(stack, g, r)
  BY DEF Accept, PushOf
<1>3. /\ g \in FrameType /\ g.pc = k /\ g.node = f.node /\ g.labs = f.labs
      /\ g.head = f.head /\ g.slot = f.slot
  BY <1>1, WithPc
<1>4. r \in FrameType /\ r.node = Kids[k] /\ r.pc = 0 /\ r.labs = <<>>
  BY <1>1, FrameTyped, FnTyped
<1> HIDE DEF g, r
<1>5. /\ Fn.nodes \in Seq(AstNode) /\ \A n \in DOMAIN Fn.nodes : WellFormedNode(Fn, n)
      /\ Top.node \in DOMAIN Fn.nodes /\ Node = Fn.nodes[Top.node] /\ Kids \in Seq(Nat)
      /\ DOMAIN Kids = 1..Len(Kids)
  BY <1>1, FnTyped, TopFacts DEF Node
<1>6. Awaited(Fn, g, e, H)
  <2>1. Owed(Fn, g) = Owed(Fn, f)
    BY <1>3 DEF Owed
  <2> QED
    BY <1>3, <1>5, <2>1 DEF Awaited, Expected
<1>7. \E t : Levels(Fn, stack', Stored(blocks', e, cur'), e, t)
  <2>1. g.pc \in DOMAIN Fn.nodes[g.node].kids /\ r.node = Fn.nodes[g.node].kids[g.pc]
    BY <1>3, <1>4, <1>5 DEF Kids
  <2>2. g.node = stack[Len(stack)].node /\ g.pc = stack[Len(stack)].pc + 1
        /\ stack[Len(stack)].node \in DOMAIN Fn.nodes
    BY <1>1, <1>3, <1>5
  <2>3. Fn.nodes[g.node].kind = "block" => K \subseteq Stored(blocks', e, cur')
    BY <1>3, <1>5
  <2>4. h[Len(stack)] \subseteq Stored(blocks', e, cur') /\ Awaited(Fn, g, e, h[Len(stack)])
    BY <1>6
  <2> QED
    BY <1>1, <1>2, <1>3, <1>4, <1>5, <2>1, <2>2, <2>3, <2>4, LevelsPush
<1>8. Fn' = Fn
  BY SameFn
<1>9. (\E t, i : Steady(t, i))'
  BY <1>7, <1>8 DEF Steady
<1>10. Inside(Fn, g) /\ g.slot # NoTemp => ~Bare(Fn)[Kids[k]]
  <2> SUFFICES ASSUME Inside(Fn, g), g.slot # NoTemp PROVE ~Bare(Fn)[Kids[k]]
    OBVIOUS
  <2>1. Node.kind = "loop" /\ k = 1 /\ HasResult(Node.ty)
    BY <1>3, <1>5 DEF Inside
  <2>2. Len(module) + 1 \in DOMAIN program /\ program \in Programs
    <3>1. program \in Programs /\ program \in Seq(AstFn) /\ Len(module) \in Nat /\ Len(module) < Len(program)
      BY <1>1, ProgramAssumption DEF TypeOK
    <3> QED
      BY <3>1
  <2>3. \A n \in NodesOf(Fn, {"loop"}) : HasResult(Fn.nodes[n].ty) => ~Bare(Fn)[Fn.nodes[n].kids[1]]
    BY <2>2, ProgramAssumption DEF Fn
  <2>4. Top.node \in NodesOf(Fn, {"loop"})
    BY <1>5, <2>1 DEF NodesOf
  <2> QED
    BY <1>5, <2>1, <2>3, <2>4 DEF Kids
<1>11. Descends
  BY <1>2, <1>3, <1>10 DEF Descends, r
<1> QED
  BY <1>9, <1>11

-----------------------------------------------------------------------------
(* Visits that end in the open block. *)
LEMMA ComputeSteady ==
    ASSUME IInv, Active, NEW s, NEW h, Steady(s, h), NEW i, Plain(i), Compute(i),
           i.tag = "load" => i.sym \in Stored(blocks, s, cur), Node.kind # "let"
    PROVE  (\E t, g : Steady(t, g))' /\ Ends
<1>1. /\ blocks' = Emit(blocks, cur, i) /\ ReturnFromVisit /\ cur' = cur /\ UnchangedRest
  BY DEF Compute
<1>2. i \in Instruction /\ i.to = <<>>
  BY DEF Plain
<1>3. h[Len(stack)] \subseteq Stored(blocks, s, cur) /\ Supply(blocks, s, cur, Range(Fn.params))
  BY TopLevel
<1>4. /\ Supply(blocks', s, cur, Range(Fn.params))
      /\ Stored(blocks', s, cur) = Stored(blocks, s, cur) \cup StoredBy(i)
  BY <1>1, <1>2, <1>3, SupplyEmit
<1> QED
  BY <1>1, <1>3, <1>4, PopSteady

(* A variable that is read was stored when the visit started. *)
LEMMA IdentSteady ==
    ASSUME IInv, NEW s, NEW h, Steady(s, h), VisitIdent
    PROVE  (\E t, g : Steady(t, g))' /\ Ends
<1> DEFINE i == LoadLocal(nextTemp, Node.sym)
<1>1. Active /\ Node.kind = "ident"
  BY AtActive DEF VisitIdent
<1>2. Plain(i)
  <2>1. Node.sym \in Symbols /\ nextTemp \in Nat /\ TakeValue \in Value
    BY <1>1, NodeTyped
  <2>2. <<>> \in Seq(Value) /\ "=" \in Texts
    BY DEF Texts
  <2> QED
    BY <2>1, <2>2, LoadTyped
<1>3. i.sym = Node.sym
  BY DEF LoadLocal, Instr
<1>4. Compute(i)
  BY DEF VisitIdent
<1> HIDE DEF i
<1>5. Node.sym \in h[Len(stack)] /\ h[Len(stack)] \subseteq Stored(blocks, s, cur)
  <2>1. /\ TypeOK /\ status = "lowering" /\ Top.node \in DOMAIN Fn.nodes /\ Node = Fn.nodes[Top.node]
    BY <1>1, InvParts, TopFacts DEF Node
  <2>2. Fn.nodes \in Seq(AstNode) /\ \A n \in DOMAIN Fn.nodes : WellFormedNode(Fn, n)
    BY <2>1, FnTyped
  <2>3. Reads(Fn, Node.sym)[Top.node]
    BY <1>1, <2>1, <2>2, ReadsNext
  <2>4. Top.node \in NodesOf(Fn, {"ident"})
    BY <1>1, <2>1 DEF NodesOf
  <2>5. Needs(Fn, Top.node, h[Len(stack)]) /\ h[Len(stack)] \subseteq Stored(blocks, s, cur)
    BY <1>1, TopLevel
  <2> QED
    BY <2>1, <2>3, <2>4, <2>5 DEF Needs
<1> QED
  BY <1>1, <1>2, <1>3, <1>4, <1>5, ComputeSteady

LEMMA ComputingSteady ==
    ASSUME IInv, NEW s, NEW h, Steady(s, h), FinishUnary \/ FinishBinary \/ FinishCall
    PROVE  (\E t, g : Steady(t, g))' /\ Ends
<1>1. ASSUME FinishUnary PROVE (\E t, g : Steady(t, g))' /\ Ends
  <2> DEFINE i == UnOp(nextTemp, Node.sym.base, Operands[1])
  <2>1. Active /\ Node.kind = "unary" /\ Top.pc = Len(Kids)
    BY <1>1, AtActive DEF FinishUnary
  <2>2. Node.kind \in StraightLine
    BY <2>1 DEF StraightLine
  <2>3. Len(Kids) = 1
    BY <2>1, TopFacts DEF WellFormedNode, Node, Kids
  <2>4. Operands[1] \in Value
    BY <2>1, <2>2, <2>3, OperandsTyped
  <2>5. Plain(i)
    <3>1. Node.sym.base \in Texts /\ Node.sym \in Symbols /\ nextTemp \in Nat /\ <<>> \in Seq(Value)
      BY <2>1, NodeTyped
    <3> QED
      BY <2>4, <3>1, UnOpTyped
  <2>6. i.tag # "load"
    BY DEF UnOp, Instr
  <2>7. Compute(i)
    BY <1>1 DEF FinishUnary
  <2>8. Node.kind # "let"
    BY <2>1
  <2> HIDE DEF i
  <2> QED
    BY <2>1, <2>5, <2>6, <2>7, <2>8, ComputeSteady
<1>2. ASSUME FinishBinary PROVE (\E t, g : Steady(t, g))' /\ Ends
  <2> DEFINE i == BinOp(nextTemp, Node.sym.base, Operands[1], Operands[2])
  <2>1. Active /\ Node.kind = "binary" /\ Top.pc = Len(Kids)
    BY <1>2, AtActive DEF FinishBinary
  <2>2. Node.kind \in StraightLine
    BY <2>1 DEF StraightLine
  <2>3. Len(Kids) = 2
    BY <2>1, TopFacts DEF WellFormedNode, Node, Kids
  <2>4. Operands[1] \in Value /\ Operands[2] \in Value
    BY <2>1, <2>2, <2>3, OperandsTyped
  <2>5. Plain(i)
    <3>1. Node.sym.base \in Texts /\ nextTemp \in Nat
      BY <2>1, NodeTyped
    <3>2. Node.sym.base \in BinOps
      BY <2>1, TopFacts DEF WellFormedNode, Node, Kids
    <3> QED
      BY <2>4, <3>1, <3>2, BinOpTyped
  <2>6. i.tag # "load"
    BY DEF BinOp, Instr
  <2>7. Compute(i)
    BY <1>2 DEF FinishBinary
  <2>8. Node.kind # "let"
    BY <2>1
  <2> HIDE DEF i
  <2> QED
    BY <2>1, <2>5, <2>6, <2>7, <2>8, ComputeSteady
<1>3. ASSUME FinishCall PROVE (\E t, g : Steady(t, g))' /\ Ends
  <2> DEFINE i == Call(nextTemp, Node.sym, Operands)
  <2>1. Active /\ Node.kind = "call" /\ Top.pc = Len(Kids)
    BY <1>3, AtActive DEF FinishCall
  <2>2. Node.kind \in StraightLine
    BY <2>1 DEF StraightLine
  <2>3. Operands \in Seq(Value)
    BY <2>1, <2>2, OperandsTyped
  <2>4. Plain(i)
    <3>1. Node.sym \in Symbols /\ nextTemp \in Nat /\ TakeValue \in Value /\ "=" \in Texts
      BY <2>1, NodeTyped DEF Texts
    <3> QED
      BY <2>3, <3>1, PlainTyped
  <2>5. i.tag # "load"
    BY DEF Call, Instr
  <2>6. Compute(i)
    BY <1>3 DEF FinishCall
  <2>7. Node.kind # "let"
    BY <2>1
  <2> HIDE DEF i
  <2> QED
    BY <2>1, <2>4, <2>5, <2>6, <2>7, ComputeSteady
<1> QED
  BY <1>1, <1>2, <1>3

LEMMA LeafSteady ==
    ASSUME IInv, NEW s, NEW h, Steady(s, h), VisitLiteral \/ FinishExprStmt \/ FinishBlock
    PROVE  (\E t, g : Steady(t, g))' /\ Ends
<1>1. /\ Active /\ UnchangedRest /\ ReturnFromVisit /\ cur' = cur /\ blocks' = blocks
      /\ Node.kind \in {"literal", "exprstmt", "block"}
  BY AtActive DEF VisitLiteral, FinishExprStmt, FinishBlock, UnchangedFn, fnVars
<1>2. /\ Supply(blocks', s, cur', Range(Fn.params))
      /\ h[Len(stack)] \subseteq Stored(blocks', s, cur')
  BY <1>1, TopLevel
<1>3. Node.kind # "let"
  BY <1>1
<1> QED
  BY <1>1, <1>2, <1>3, PopSteady

LEMMA StoringSteady ==
    ASSUME IInv, NEW s, NEW h, Steady(s, h),
           FinishUnitCall \/ FinishLet \/ FinishAssign \/ FinishReturn
    PROVE  (\E t, g : Steady(t, g))' /\ Ends
<1>1. /\ Active /\ UnchangedRest /\ ReturnFromVisit /\ cur' = cur /\ Top.pc = Len(Kids)
      /\ Node.kind \in StraightLine
  BY AtActive DEF FinishUnitCall, FinishLet, FinishAssign, FinishReturn, StraightLine
<1>2. /\ h[Len(stack)] \subseteq Stored(blocks, s, cur) /\ Supply(blocks, s, cur, Range(Fn.params))
      /\ NoTemp \in Int /\ Node.sym \in Symbols /\ TakeValue \in Value /\ "=" \in Texts
      /\ Operands \in Seq(Value)
  BY <1>1, NodeTyped, OperandsTyped, SymbolsTyped, TopLevel DEF Texts
<1>3. ASSUME FinishUnitCall \/ FinishReturn PROVE (\E t, g : Steady(t, g))' /\ Ends
  <2>1. PICK i \in {Call(NoTemp, Node.sym, Operands), Return(Operands)} : blocks' = Emit(blocks, cur, i)
    BY <1>3 DEF FinishUnitCall, FinishReturn
  <2>2. Call(NoTemp, Node.sym, Operands) \in Instruction /\ Call(NoTemp, Node.sym, Operands).to = <<>>
    BY <1>2, PlainTyped DEF Plain
  <2>3. Return(Operands) \in Instruction /\ Return(Operands).to = <<>>
    BY <1>2, ReturnTyped
  <2>4. i \in Instruction /\ i.to = <<>>
    BY <2>1, <2>2, <2>3
  <2>5. i.tag \notin {"load", "store"}
    BY <2>1 DEF Call, Return, Instr
  <2>6. /\ Supply(blocks', s, cur, Range(Fn.params))
        /\ Stored(blocks', s, cur) = Stored(blocks, s, cur)
    BY <1>2, <2>1, <2>4, <2>5, SupplyOther
  <2>7. Node.kind # "let"
    BY <1>3, AtActive DEF FinishUnitCall, FinishReturn
  <2> QED
    BY <1>1, <1>2, <2>6, <2>7, PopSteady
<1>4. ASSUME FinishLet \/ FinishAssign PROVE (\E t, g : Steady(t, g))' /\ Ends
  <2>1. blocks' = Emit(blocks, cur, StoreLocal(Node.sym, TakeValue))
    BY <1>4 DEF FinishLet, FinishAssign
  <2>2. /\ Supply(blocks', s, cur, Range(Fn.params))
        /\ Stored(blocks', s, cur) = Stored(blocks, s, cur) \cup {Node.sym}
    BY <1>2, <2>1, SupplyStore
  <2> QED
    BY <1>1, <1>2, <2>2, PopSteady
<1> QED
  BY <1>3, <1>4

-----------------------------------------------------------------------------
(* Breaks and continues: the labels of the innermost loop expect no more    *)
(* than is stored, the exit of a loop with a result its result slot as well.*)
LEMMA InnermostStored ==
    ASSUME IInv, Active, NEW s, NEW h, Steady(s, h), loopStack # <<>>
    PROVE  /\ Innermost.head \in Labels(blocks) /\ s[Innermost.head] \subseteq Stored(blocks, s, cur)
           /\ Innermost.exit \in Labels(blocks)
           /\ s[Innermost.exit] \subseteq Stored(blocks, s, cur) \cup
                 (IF Innermost.slot = NoTemp THEN {} ELSE {LoopSlot(Innermost.slot)})
<1>1. PICK m \in DOMAIN stack :
          /\ Inside(Fn, stack[m])
          /\ stack[m].head = Innermost.head /\ stack[m].labs = <<Innermost.exit>>
          /\ stack[m].slot = Innermost.slot
  BY InnermostLoop
<1>2. h[m] \subseteq Stored(blocks, s, cur) /\ Awaited(Fn, stack[m], s, h[m])
  BY LevelFacts
<1>3. Fn.nodes[stack[m].node].kind \in {"while", "loop"} /\ stack[m].pc > 0
  BY <1>1 DEF Inside
<1>4. s[Innermost.head] = h[m]
  BY <1>1, <1>2, <1>3 DEF Awaited, Expected
<1>5. s[Innermost.exit] = h[m] \cup Owed(Fn, stack[m])
  <2>1. 1 \in DOMAIN stack[m].labs /\ stack[m].labs[1] = Innermost.exit /\ Len(stack[m].labs) = 1
    BY <1>1
  <2> QED
    BY <1>2, <2>1 DEF Awaited, Expected
<1>6. Owed(Fn, stack[m]) = IF Innermost.slot = NoTemp THEN {} ELSE {LoopSlot(Innermost.slot)}
  BY <1>1, <1>3 DEF Owed
<1> QED
  BY <1>2, <1>4, <1>5, <1>6, InnermostTyped

(* A bare break is not inside a loop with a result. *)
LEMMA BareBreak ==
    ASSUME IInv, Active, Valued(Fn, stack), loopStack # <<>>, Node.kind = "break", Kids = <<>>
    PROVE  Innermost.slot = NoTemp
<1> SUFFICES ASSUME Innermost.slot # NoTemp PROVE FALSE
  OBVIOUS
<1> DEFINE d == Len(stack)
<1>1. PICK m \in DOMAIN stack :
          /\ Inside(Fn, stack[m]) /\ stack[m].slot = Innermost.slot
          /\ \A j \in DOMAIN stack : j > m => ~Inside(Fn, stack[j])
  BY InnermostLoop
<1>2. d \in DOMAIN stack /\ DOMAIN stack = 1..d /\ d \in Nat /\ stack[d] = Top
  BY InvParts, TopFacts
<1>3. TypeOK /\ status = "lowering" /\ Top.node \in DOMAIN Fn.nodes /\ Node = Fn.nodes[Top.node]
  BY InvParts, TopFacts DEF Node
<1>4. m # d
  BY <1>1, <1>2, <1>3 DEF Inside
<1> HIDE DEF d
<1>5. m \in 1..(d - 1) /\ \A j \in (m + 1)..(d - 1) : j \in DOMAIN stack /\ j > m
  BY <1>2, <1>4
<1>6. ~Bare(Fn)[Top.node]
  BY <1>1, <1>2, <1>5 DEF Valued
<1>7. Fn.nodes \in Seq(AstNode) /\ \A n \in DOMAIN Fn.nodes : WellFormedNode(Fn, n)
  BY <1>3, FnTyped
<1>8. Bare(Fn)[Top.node]
  BY <1>3, <1>7, BareNext DEF Kids
<1> QED
  BY <1>6, <1>8

LEMMA JumpingSteady ==
    ASSUME IInv, Placed(Fn, stack), Valued(Fn, stack), NEW s, NEW h, Steady(s, h),
           BreakWithoutValue \/ VisitContinue
    PROVE  (\E t, g : Steady(t, g))' /\ Ends
<1>1. /\ Active /\ UnchangedRest /\ ReturnFromVisit /\ cur' = cur /\ Node.kind \in {"break", "continue"}
  BY AtActive DEF BreakWithoutValue, VisitContinue
<1>2. loopStack # <<>>
  BY <1>1, JumpInLoop
<1>3. PICK l \in {Innermost.exit, Innermost.head} :
          /\ blocks' = JumpTo(blocks, cur, l)
          /\ l = Innermost.head \/ (l = Innermost.exit /\ BreakWithoutValue)
  BY <1>2 DEF BreakWithoutValue, VisitContinue
<1>4. BreakWithoutValue => Innermost.slot = NoTemp
  <2>1. BreakWithoutValue => Node.kind = "break" /\ (Kids = <<>> \/ Innermost.slot = NoTemp)
    BY <1>2, AtActive DEF BreakWithoutValue, BreakHasSlot
  <2> QED
    BY <1>1, <1>2, <2>1, BareBreak
<1>5. l \in Labels(blocks) /\ s[l] \subseteq Stored(blocks, s, cur)
  BY <1>1, <1>2, <1>3, <1>4, InnermostStored
<1>6. h[Len(stack)] \subseteq Stored(blocks, s, cur) /\ Supply(blocks, s, cur, Range(Fn.params))
  BY <1>1, TopLevel
<1>7. /\ Supply(blocks', s, cur, Range(Fn.params))
      /\ Stored(blocks', s, cur) = Stored(blocks, s, cur)
  BY <1>3, <1>5, <1>6, SupplyJump
<1>8. Node.kind # "let"
  BY <1>1
<1> QED
  BY <1>1, <1>6, <1>7, <1>8, PopSteady

LEMMA BreakStoreSteady ==
    ASSUME IInv, NEW s, NEW h, Steady(s, h), BreakStore
    PROVE  (\E t, g : Steady(t, g))' /\ Ends
<1> DEFINE st == Emit(blocks, cur, StoreLocal(LoopSlot(Innermost.slot), TakeValue))
<1>1. /\ Active /\ UnchangedRest /\ ReturnFromVisit /\ cur' = cur /\ At("break", 1)
      /\ blocks' = JumpTo(st, cur, Innermost.exit) /\ Node.kind = "break"
  BY AtActive DEF BreakStore
<1>2. loopStack # <<>>
  BY <1>1, BreakInLoop
<1>3. LoopSlot(Innermost.slot) \in Symbols /\ TakeValue \in Value
  BY <1>1, <1>2, InnermostTyped, NodeTyped, SymbolsTyped
<1>4. h[Len(stack)] \subseteq Stored(blocks, s, cur) /\ Supply(blocks, s, cur, Range(Fn.params))
  BY <1>1, TopLevel
<1>5. /\ Supply(st, s, cur, Range(Fn.params)) /\ Labels(st) = Labels(blocks)
      /\ Stored(st, s, cur) = Stored(blocks, s, cur) \cup {LoopSlot(Innermost.slot)}
  BY <1>3, <1>4, SupplyStore
<1> HIDE DEF st
<1>6. Innermost.exit \in Labels(st) /\ s[Innermost.exit] \subseteq Stored(st, s, cur)
  BY <1>1, <1>2, <1>5, InnermostStored
<1>7. Supply(blocks', s, cur, Range(Fn.params)) /\ Stored(blocks', s, cur) = Stored(st, s, cur)
  BY <1>1, <1>5, <1>6, SupplyJump
<1>8. Node.kind # "let"
  BY <1>1
<1> QED
  BY <1>1, <1>4, <1>5, <1>7, <1>8, PopSteady

-----------------------------------------------------------------------------
(* Visits that start in the open block. *)
LEMMA StartSteady ==
    ASSUME IInv, Active, UnchangedRest, UnchangedFn, NEW s, NEW h, Steady(s, h),
           NEW f \in FrameType, NEW k \in 1..Len(Kids), Accept(f, k),
           f.node = Top.node, f.labs = Top.labs, k = Top.pc + 1,
           Node.kind \notin {"while", "loop"}, Due(Node, Top.pc) = 0
    PROVE  (\E t, g : Steady(t, g))' /\ Descends
<1> DEFINE K == Stored(blocks, s, cur)
<1>1. blocks' = blocks /\ cur' = cur
  BY DEF UnchangedFn, fnVars
<1>2. /\ Supply(blocks', s, cur', Range(Fn.params)) /\ h[Len(stack)] \subseteq Stored(blocks', s, cur')
      /\ K = Stored(blocks', s, cur') /\ Levels(Fn, stack, K, s, h)
  BY <1>1, TopLevel
<1>3. Expected(Fn, f, s, h[Len(stack)])
  <2>1. Len(Top.labs) = 0 /\ Top.labs \in Seq(Nat)
    BY TopFacts
  <2>2. DOMAIN f.labs = {}
    BY <2>1
  <2> QED
    BY <2>2 DEF Expected
<1> HIDE DEF K
<1> QED
  BY <1>2, <1>3, PushSteady

LEMMA OperandSteady ==
    ASSUME IInv, NEW s, NEW h, Steady(s, h), VisitOperand \/ VisitBlockItem \/ IfCondition \/ BreakValue
    PROVE  (\E t, g : Steady(t, g))' /\ Descends
<1>1. Active /\ UnchangedRest /\ UnchangedFn
  BY AtActive DEF VisitOperand, VisitBlockItem, IfCondition, BreakValue
<1>2. /\ Top \in FrameType /\ Top.vals \in Seq(Value) /\ TakeValue \in Value /\ TypeOK
      /\ Top.pc \in 0..Len(Kids) /\ Kids \in Seq(Nat) /\ loopCap \in Nat
  BY <1>1, TopFacts, NodeTyped, InvParts DEF TypeOK
<1>3. ASSUME VisitOperand PROVE (\E t, g : Steady(t, g))' /\ Descends
  <2> DEFINE vals == IF Top.pc = 0 THEN <<>> ELSE Append(Top.vals, TakeValue)
             f    == [Top EXCEPT !.vals = vals]
  <2>1. Node.kind \in StraightLine /\ Top.pc < Len(Kids) /\ Accept(f, Top.pc + 1)
    BY <1>3, AtActive DEF VisitOperand
  <2>2. /\ Node.kind \notin {"while", "loop"} /\ Due(Node, Top.pc) = 0
        /\ Top.pc + 1 \in 1..Len(Kids)
    <3>1. Node.kind \notin Control
      BY <2>1 DEF StraightLine, Control
    <3> QED
      BY <1>2, <2>1, <3>1, DueNothing DEF Control
  <2>3. vals \in Seq(Value)
    <3>1. Append(Top.vals, TakeValue) \in Seq(Value) /\ <<>> \in Seq(Value)
      BY <1>2
    <3> QED
      BY <3>1
  <2> HIDE DEF vals
  <2>4. f \in FrameType /\ f.node = Top.node /\ f.labs = Top.labs
    BY <1>2, <2>3 DEF FrameType
  <2> HIDE DEF f
  <2> QED
    BY <1>1, <2>1, <2>2, <2>4, StartSteady
<1>4. ASSUME VisitBlockItem PROVE (\E t, g : Steady(t, g))' /\ Descends
  <2>1. Node.kind = "block" /\ Top.pc < Len(Kids) /\ Accept(Top, Top.pc + 1)
    BY <1>4, AtActive DEF VisitBlockItem
  <2>2. Due(Node, Top.pc) = 0 /\ Top.pc + 1 \in 1..Len(Kids)
    BY <1>2, <2>1 DEF Due
  <2> QED
    BY <1>1, <1>2, <2>1, <2>2, StartSteady
<1>5. ASSUME IfCondition PROVE (\E t, g : Steady(t, g))' /\ Descends
  <2>1. Node.kind = "if" /\ Top.pc = 0 /\ Accept(Top, 1)
    BY <1>5, AtActive DEF IfCondition
  <2>2. Due(Node, Top.pc) = 0
    BY <2>1 DEF Due
  <2>3. Len(Kids) \in {2, 3}
    BY <1>1, <2>1, TopFacts DEF WellFormedNode, Node, Kids
  <2>4. 1 \in 1..Len(Kids) /\ 1 = Top.pc + 1
    BY <2>1, <2>3
  <2> QED
    BY <1>1, <1>2, <2>1, <2>2, <2>4, StartSteady
<1>6. ASSUME BreakValue PROVE (\E t, g : Steady(t, g))' /\ Descends
  <2> DEFINE f == [Top EXCEPT !.cap = loopCap]
  <2>1. Node.kind = "break" /\ Top.pc = 0 /\ Accept(f, 1) /\ Kids # <<>>
    BY <1>6, AtActive DEF BreakValue, BreakHasSlot
  <2>2. Due(Node, Top.pc) = 0
    BY <2>1 DEF Due
  <2>3. f \in FrameType /\ f.node = Top.node /\ f.labs = Top.labs
    BY <1>2 DEF FrameType
  <2>4. 1 \in 1..Len(Kids) /\ 1 = Top.pc + 1
    BY <1>2, <2>1
  <2> HIDE DEF f
  <2> QED
    BY <1>1, <2>1, <2>2, <2>3, <2>4, StartSteady
<1> QED
  BY <1>3, <1>4, <1>5, <1>6

-----------------------------------------------------------------------------
(* Visits that go on in a block waiting for them. *)
LEMMA OneLabel ==
    ASSUME NEW fn, NEW f, NEW s, NEW H, Awaited(fn, f, s, H), NEW l, f.labs = <<l>>
    PROVE  s[l] = H \cup Owed(fn, f)
<1>1. 1 \in DOMAIN f.labs /\ f.labs[1] = l /\ Len(f.labs) = 1
  OBVIOUS
<1> QED
  BY <1>1 DEF Awaited, Expected

LEMMA TwoLabels ==
    ASSUME NEW fn, NEW f, NEW s, NEW H, Awaited(fn, f, s, H), NEW l, NEW m, f.labs = <<l, m>>
    PROVE  s[l] = H /\ s[m] = H \cup Owed(fn, f)
<1>1. 1 \in DOMAIN f.labs /\ f.labs[1] = l /\ 2 \in DOMAIN f.labs /\ f.labs[2] = m /\ Len(f.labs) = 2
  OBVIOUS
<1>2. s[f.labs[1]] = H
  BY <1>1 DEF Awaited, Expected
<1>3. s[f.labs[2]] = H \cup Owed(fn, f)
  BY <1>1 DEF Awaited, Expected
<1> QED
  BY <1>1, <1>2, <1>3

(* A branch of an `if` that reaches the merge block has stored its result.  *)
LEMMA ResultStored ==
    ASSUME IInv, Active, NEW s, NEW h, Steady(s, h), Node.kind = "if",
           NEW bs, bs = StoreResult(blocks, Top)
    PROVE  /\ Supply(bs, s, cur, Range(Fn.params)) /\ Labels(bs) = Labels(blocks)
           /\ ~IsTerminated(bs[cur]) => h[Len(stack)] \cup Owed(Fn, Top) \subseteq Stored(bs, s, cur)
<1>1. h[Len(stack)] \subseteq Stored(blocks, s, cur) /\ Supply(blocks, s, cur, Range(Fn.params))
  BY TopLevel
<1>2. TakeValue \in Value /\ IfSlot(Top.slot) \in Symbols
  BY NodeTyped, TopFacts, SymbolsTyped
<1>3. Owed(Fn, Top) = IF Top.slot = NoTemp THEN {} ELSE {IfSlot(Top.slot)}
  BY DEF Owed, Node
<1>4. CASE Top.slot # NoTemp /\ ~IsTerminated(blocks[cur])
  <2>1. bs = Emit(blocks, cur, StoreLocal(IfSlot(Top.slot), TakeValue))
    BY <1>4 DEF StoreResult
  <2>2. /\ Supply(bs, s, cur, Range(Fn.params)) /\ Labels(bs) = Labels(blocks)
        /\ Stored(bs, s, cur) = Stored(blocks, s, cur) \cup {IfSlot(Top.slot)}
    BY <1>1, <1>2, <2>1, SupplyStore
  <2> QED
    BY <1>1, <1>3, <2>2
<1>5. CASE ~(Top.slot # NoTemp /\ ~IsTerminated(blocks[cur]))
  <2>1. bs = blocks
    BY <1>5 DEF StoreResult
  <2> QED
    BY <1>1, <1>3, <1>5, <2>1
<1> QED
  BY <1>4, <1>5

LEMMA SlotLoaded ==
    ASSUME NEW bs, NEW s, NEW b, NEW ps, Supply(bs, s, b, ps), nextTemp \in Nat,
           NEW x \in Symbols, NEW has \in BOOLEAN, LoadSlot(bs, b, has, x),
           has => x \in Stored(bs, s, b)
    PROVE  Supply(blocks', s, b, ps) /\ Stored(blocks', s, b) = Stored(bs, s, b)
<1>1. CASE has
  <2>1. blocks' = Emit(bs, b, LoadLocal(nextTemp, x))
    BY <1>1 DEF LoadSlot
  <2> QED
    BY <1>1, <2>1, SupplyLoad
<1>2. CASE ~has
  BY <1>2 DEF LoadSlot
<1> QED
  BY <1>1, <1>2

LEMMA IfMergeSteady ==
    ASSUME IInv, NEW s, NEW h, Steady(s, h), IfMerge
    PROVE  (\E t, g : Steady(t, g))' /\ Ends
<1> DEFINE merge == Top.labs[1]
           st    == StoreResult(blocks, Top)
           bs    == FallThrough(st, merge)
           H     == h[Len(stack)]
<1>1. Active /\ Node.kind = "if" /\ Top.pc = Len(Kids)
  BY AtActive DEF IfMerge
<1>2. Len(Kids) \in {2, 3}
  BY <1>1, TopFacts DEF WellFormedNode, Node, Kids
<1>3. Len(Top.labs) = 1 /\ Top.labs \in Seq(Nat)
  <2>1. Len(Top.labs) = Due(Node, Top.pc) /\ Top.labs \in Seq(Nat)
    BY <1>1, TopFacts
  <2>2. Due(Node, Top.pc) = 1
    <3>1. CASE Top.pc = 2
      BY <1>1, <3>1 DEF Due, Kids
    <3>2. CASE Top.pc = 3
      BY <1>1, <3>2 DEF Due
    <3> QED
      BY <1>1, <1>2, <3>1, <3>2
  <2> QED
    BY <2>1, <2>2
<1>4. Top.labs = <<merge>>
  BY <1>3
<1>5. /\ LoadSlot(bs, merge, Top.slot # NoTemp, IfSlot(Top.slot))
      /\ cur' = merge /\ ReturnFromVisit /\ UnchangedRest
  BY DEF IfMerge
<1> HIDE DEF merge
<1>6. merge \in Labels(blocks)
  <2>1. 1 \in 1..Len(Top.labs) /\ Top.labs[1] = merge
    BY <1>4
  <2> QED
    BY <1>1, <2>1, TopLabel
<1>7. s[merge] = H \cup Owed(Fn, Top)
  BY <1>1, <1>4, TopLevel, OneLabel
<1>8. /\ Supply(st, s, cur, Range(Fn.params)) /\ Labels(st) = Labels(blocks)
      /\ ~IsTerminated(st[cur]) => H \cup Owed(Fn, Top) \subseteq Stored(st, s, cur)
  BY <1>1, ResultStored
<1> HIDE DEF st
<1>9. Supply(bs, s, cur, Range(Fn.params)) /\ Labels(bs) = Labels(blocks)
  BY <1>6, <1>7, <1>8, SupplyFall
<1> HIDE DEF bs
<1>10. Supply(bs, s, merge, Range(Fn.params)) /\ s[merge] \subseteq Stored(bs, s, merge)
  BY <1>6, <1>9, SupplyAt
<1>11. IfSlot(Top.slot) \in Symbols /\ nextTemp \in Nat
  BY <1>1, TopFacts, SymbolsTyped, NodeTyped
<1>12. Top.slot # NoTemp => IfSlot(Top.slot) \in Stored(bs, s, merge)
  <2>1. Top.slot # NoTemp => IfSlot(Top.slot) \in Owed(Fn, Top)
    BY <1>1 DEF Owed, Node
  <2> QED
    BY <1>7, <1>10, <2>1
<1>13. Supply(blocks', s, merge, Range(Fn.params)) /\ Stored(blocks', s, merge) = Stored(bs, s, merge)
  BY <1>5, <1>10, <1>11, <1>12, SlotLoaded
<1>14. H \subseteq Stored(blocks', s, merge) /\ Node.kind # "let"
  BY <1>1, <1>7, <1>10, <1>13
<1> QED
  BY <1>1, <1>5, <1>13, <1>14, PopSteady

LEMMA LoopEndSteady ==
    ASSUME IInv, NEW s, NEW h, Steady(s, h), WhileExit \/ LoopExit
    PROVE  (\E t, g : Steady(t, g))' /\ Ends
<1> DEFINE exit == Top.labs[1]
           bs   == FallThrough(blocks, Top.head)
           H    == h[Len(stack)]
<1>1. Active /\ ((Node.kind = "while" /\ Top.pc = 2) \/ (Node.kind = "loop" /\ Top.pc = 1))
  BY AtActive DEF WhileExit, LoopExit
<1>2. Len(Top.labs) = 1 /\ Top.labs \in Seq(Nat) /\ Top.pc > 0
  <2>1. Len(Top.labs) = Due(Node, Top.pc) /\ Top.labs \in Seq(Nat)
    BY <1>1, TopFacts
  <2>2. Due(Node, Top.pc) = 1 /\ Top.pc > 0
    <3>1. CASE Node.kind = "while" /\ Top.pc = 2
      BY <3>1 DEF Due
    <3>2. CASE Node.kind = "loop" /\ Top.pc = 1
      BY <3>2 DEF Due
    <3> QED
      BY <1>1, <3>1, <3>2
  <2> QED
    BY <2>1, <2>2
<1>3. Top.labs = <<exit>>
  BY <1>2
<1>4. /\ cur' = exit /\ ReturnFromVisit /\ UnchangedRest
      /\ \/ blocks' = bs
         \/ Node.kind = "loop" /\ LoadSlot(bs, exit, Top.slot # NoTemp, LoopSlot(Top.slot))
  BY AtActive DEF WhileExit, LoopExit
<1> HIDE DEF exit
<1>5. exit \in Labels(blocks) /\ Top.head \in Labels(blocks)
  <2>1. 1 \in 1..Len(Top.labs) /\ Top.labs[1] = exit
    BY <1>3
  <2>2. exit \in Labels(blocks)
    BY <1>1, <2>1, TopLabel
  <2>3. Node.kind \in {"while", "loop"} /\ Top.pc # 0
    BY <1>1
  <2>4. Shaped(Fn, Top, Labels(blocks))
    BY <1>1, TopFacts
  <2> QED
    BY <2>2, <2>3, <2>4 DEF Shaped, Node
<1>6. s[exit] = H \cup Owed(Fn, Top) /\ s[Top.head] = H /\ H \subseteq Stored(blocks, s, cur)
      /\ Supply(blocks, s, cur, Range(Fn.params))
  <2>1. /\ Awaited(Fn, Top, s, H) /\ H \subseteq Stored(blocks, s, cur)
        /\ Supply(blocks, s, cur, Range(Fn.params))
    BY <1>1, TopLevel
  <2>2. s[exit] = H \cup Owed(Fn, Top)
    BY <1>3, <2>1, OneLabel
  <2>3. s[Top.head] = H
    BY <1>1, <1>2, <2>1 DEF Awaited, Expected, Node
  <2> QED
    BY <2>1, <2>2, <2>3
<1>7. Supply(bs, s, cur, Range(Fn.params)) /\ Labels(bs) = Labels(blocks)
  BY <1>5, <1>6, SupplyFall
<1> HIDE DEF bs
<1>8. Supply(bs, s, exit, Range(Fn.params)) /\ s[exit] \subseteq Stored(bs, s, exit)
  BY <1>5, <1>7, SupplyAt
<1>9. LoopSlot(Top.slot) \in Symbols /\ nextTemp \in Nat
  BY <1>1, TopFacts, SymbolsTyped, NodeTyped
<1>10. Supply(blocks', s, exit, Range(Fn.params)) /\ Stored(blocks', s, exit) = Stored(bs, s, exit)
  <2>1. CASE blocks' = bs
    BY <1>8, <2>1
  <2>2. CASE Node.kind = "loop" /\ LoadSlot(bs, exit, Top.slot # NoTemp, LoopSlot(Top.slot))
    <3>1. Top.slot # NoTemp => LoopSlot(Top.slot) \in Owed(Fn, Top)
      BY <2>2 DEF Owed, Node
    <3>2. Top.slot # NoTemp => LoopSlot(Top.slot) \in Stored(bs, s, exit)
      BY <1>6, <1>8, <3>1
    <3> QED
      BY <1>8, <1>9, <2>2, <3>2, SlotLoaded
  <2> QED
    BY <1>4, <2>1, <2>2
<1>11. H \subseteq Stored(blocks', s, exit) /\ Node.kind # "let"
  BY <1>1, <1>6, <1>8, <1>10
<1> QED
  BY <1>1, <1>4, <1>10, <1>11, PopSteady

LEMMA IfElseSteady ==
    ASSUME IInv, NEW s, NEW h, Steady(s, h), IfElse
    PROVE  (\E t, g : Steady(t, g))' /\ Descends
<1> DEFINE else  == Top.labs[1]
           merge == Top.labs[2]
           f     == [Top EXCEPT !.labs = <<merge>>]
           st    == StoreResult(blocks, Top)
           bs    == FallThrough(st, merge)
           H     == h[Len(stack)]
           K     == Stored(blocks, s, cur)
<1>1. Active /\ Node.kind = "if" /\ Top.pc = 2 /\ Len(Kids) = 3
  BY AtActive DEF IfElse
<1>2. Len(Top.labs) = 2 /\ Top.labs \in Seq(Nat) /\ Top \in FrameType
  BY <1>1, TopFacts DEF Due, Kids
<1>3. Top.labs = <<else, merge>> /\ merge \in Nat
  BY <1>2
<1>4. blocks' = bs /\ cur' = else /\ Accept(f, 3) /\ UnchangedRest
  BY DEF IfElse
<1>5. f \in FrameType /\ f.labs = <<merge>> /\ f.node = Top.node
  BY <1>2, <1>3, OneLabelLeft
<1>6. f.slot = Top.slot
  BY <1>2 DEF FrameType
<1>7. Owed(Fn, f) = Owed(Fn, Top)
  BY <1>5, <1>6 DEF Owed
<1> HIDE DEF f, else, merge
<1>8. else \in Labels(blocks) /\ merge \in Labels(blocks)
  <2>1. 1 \in 1..Len(Top.labs) /\ 2 \in 1..Len(Top.labs) /\ Top.labs[1] = else /\ Top.labs[2] = merge
    BY <1>3
  <2> QED
    BY <1>1, <2>1, TopLabel
<1>9. s[else] = H /\ s[merge] = H \cup Owed(Fn, Top) /\ Levels(Fn, stack, K, s, h)
  BY <1>1, <1>3, TopLevel, TwoLabels
<1>10. /\ Supply(st, s, cur, Range(Fn.params)) /\ Labels(st) = Labels(blocks)
       /\ ~IsTerminated(st[cur]) => H \cup Owed(Fn, Top) \subseteq Stored(st, s, cur)
  BY <1>1, ResultStored
<1> HIDE DEF st
<1>11. Supply(bs, s, cur, Range(Fn.params)) /\ Labels(bs) = Labels(blocks)
  BY <1>8, <1>9, <1>10, SupplyFall
<1> HIDE DEF bs
<1>12. Supply(blocks', s, cur', Range(Fn.params)) /\ H \subseteq Stored(blocks', s, cur')
  BY <1>4, <1>8, <1>9, <1>11, SupplyAt
<1>13. Expected(Fn, f, s, H)
  <2>1. DOMAIN f.labs = {1} /\ f.labs[1] = merge /\ Len(f.labs) = 1
    BY <1>5
  <2> QED
    BY <1>7, <1>9, <2>1 DEF Expected
<1>14. 3 \in 1..Len(Kids) /\ Node.kind \notin {"while", "loop", "block"} /\ 3 = Top.pc + 1
  BY <1>1
<1>15. H = h[Len(stack)]
  OBVIOUS
<1> HIDE DEF H, K
<1> QED
  BY <1>1, <1>4, <1>5, <1>9, <1>12, <1>13, <1>14, <1>15, PushSteady

-----------------------------------------------------------------------------
(* Visits that open new blocks.  What already waits is not concerned.       *)
LEMMA Opened ==
    ASSUME IInv, Active, NEW s, NEW h, Steady(s, h), NEW k \in Nat, NEW W
    PROVE  \E e : /\ Extends(blocks, s, k, W, e)
                  /\ Supply(AddBlocks(blocks, k), e, cur, Range(Fn.params))
                  /\ Stored(AddBlocks(blocks, k), e, cur) = Stored(blocks, s, cur)
                  /\ Levels(Fn, stack, Stored(blocks, s, cur), e, h)
<1> DEFINE K == Stored(blocks, s, cur)
<1>1. /\ stack \in Seq(FrameType) /\ blocks \in Seq(BasicBlock) /\ cur \in Labels(blocks)
      /\ Accounted(stack, blocks, cur)
      /\ \A f \in DOMAIN stack : Shaped(Fn, stack[f], Labels(blocks))
  BY InvParts, TopFacts
<1>2. 1 \in Labels(blocks)
  BY <1>1 DEF Labels
<1>3. Supply(blocks, s, cur, Range(Fn.params)) /\ Levels(Fn, stack, K, s, h)
  BY TopLevel
<1>4. PICK e : /\ Extends(blocks, s, k, W, e)
               /\ Supply(AddBlocks(blocks, k), e, cur, Range(Fn.params))
               /\ Stored(AddBlocks(blocks, k), e, cur) = K
  BY <1>2, <1>3, SupplyGrow
<1>5. \A l \in Labels(blocks) : e[l] = s[l]
  BY <1>4 DEF Extends
<1>6. \A f \in DOMAIN stack :
         /\ \A j \in DOMAIN stack[f].labs : stack[f].labs[j] \in Labels(blocks)
         /\ Fn.nodes[stack[f].node].kind \in {"while", "loop"} /\ stack[f].pc > 0
               => stack[f].head \in Labels(blocks)
  <2> TAKE f \in DOMAIN stack
  <2>1. Range(stack[f].labs) \subseteq Labels(blocks) /\ stack[f] \in FrameType
    BY <1>1 DEF Accounted
  <2>2. \A j \in DOMAIN stack[f].labs : stack[f].labs[j] \in Labels(blocks)
    BY <2>1 DEF Range
  <2>3. stack[f].pc \in Nat
    BY <2>1 DEF FrameType
  <2>4. Fn.nodes[stack[f].node].kind \in {"while", "loop"} /\ stack[f].pc # 0 => stack[f].head \in Labels(blocks)
    BY <1>1 DEF Shaped
  <2> QED
    BY <2>2, <2>3, <2>4
<1> HIDE DEF K
<1>7. Levels(Fn, stack, K, e, h)
  BY <1>1, <1>3, <1>5, <1>6, LevelsGrow
<1> QED
  BY <1>4, <1>7 DEF K

(* The start of a visit in one of the new blocks.                           *)
LEMMA OpenSteady ==
    ASSUME IInv, Active, UnchangedRest, NEW h, NEW e, NEW K, NEW H,
           H = h[Len(stack)], H \subseteq K, Node.kind # "block",
           Levels(Fn, stack, K, e, h), Supply(blocks', e, cur, Range(Fn.params)),
           NEW l \in Labels(blocks'), cur' = l, e[l] = H,
           NEW f \in FrameType, NEW k \in 1..Len(Kids), Accept(f, k),
           f.node = Top.node, k = Top.pc + 1,
           Expected(Fn, f, e, H),
           Node.kind \in {"while", "loop"} => f.head = l,
           Node.kind = "while" => f.slot = NoTemp,
           Node.kind = "loop" /\ f.slot # NoTemp => HasResult(Node.ty)
    PROVE  (\E t, g : Steady(t, g))' /\ Descends
<1>1. /\ Supply(blocks', e, cur', Range(Fn.params)) /\ H \subseteq Stored(blocks', e, cur')
      /\ Node.kind \in {"while", "loop"} => e[f.head] = H
  BY SupplyAt
<1>2. Node.kind = "block" => K \subseteq Stored(blocks', e, cur')
  OBVIOUS
<1> QED
  BY <1>1, <1>2, PushSteady

LEMMA IfThenSteady ==
    ASSUME IInv, NEW s, NEW h, Steady(s, h), IfThen
    PROVE  (\E t, g : Steady(t, g))' /\ Descends
<1> DEFINE L    == Len(blocks)
           slot == IF HasResult(Node.ty) THEN nextTemp ELSE NoTemp
           n    == IF Len(Kids) = 3 THEN 3 ELSE 2
           bs   == AddBlocks(blocks, n)
           labs == IF Len(Kids) = 3 THEN <<L + 3, L + 2>> ELSE <<L + 2>>
           f    == [Top EXCEPT !.labs = labs, !.slot = slot]
           H    == h[Len(stack)]
           K    == Stored(blocks, s, cur)
           W    == [j \in 1..n |-> IF j = 2 THEN H \cup Owed(Fn, f) ELSE H]
<1>1. Active /\ Node.kind = "if" /\ Top.pc = 1
  BY AtActive DEF IfThen
<1>2. /\ Len(Kids) \in {2, 3} /\ 2 \in 1..Len(Kids)
      /\ HasResult(Node.ty) => Len(Kids) = 3
  <2>1. Len(Kids) \in {2, 3} /\ (HasResult(Node.ty) => Len(Kids) = 3)
    BY <1>1, TopFacts DEF WellFormedNode, Node, Kids
  <2>2. CASE Len(Kids) = 2
    BY <2>1, <2>2
  <2>3. CASE Len(Kids) = 3
    BY <2>1, <2>3
  <2> QED
    BY <2>1, <2>2, <2>3
<1>3. Top \in FrameType /\ L \in Nat
  <2>1. Due(Node, Top.pc) = 0
    BY <1>1 DEF Due
  <2> QED
    BY <1>1, <2>1, NoLabelsYet
<1>4. TakeValue \in Value /\ nextTemp \in Nat /\ slot \in Int
  BY <1>1, NodeTyped, SymbolsTyped
<1>5. /\ UnchangedRest /\ cur' = L + 1
      /\ blocks' = BranchTo(bs, cur, TakeValue, L + 1, L + n) /\ Accept(f, 2)
  BY <1>2 DEF IfThen
<1>6. n = 2 => slot = NoTemp
  BY <1>2
<1> HIDE DEF slot
<1>7. \/ n = 3 /\ labs = <<L + 3, L + 2>>
      \/ n = 2 /\ labs = <<L + 2>>
  BY <1>2
<1>8. labs \in Seq(Nat)
  <2>1. <<L + 3, L + 2>> \in Seq(Nat) /\ <<L + 2>> \in Seq(Nat)
    BY <1>3
  <2> QED
    BY <1>7, <2>1
<1>9. n \in 1..3 /\ n \in Nat /\ 1 \in 1..n /\ 2 \in 1..n /\ n \in 1..n
  BY <1>7
<1> HIDE DEF labs, n
<1>10. f \in FrameType /\ f.labs = labs /\ f.node = Top.node /\ f.slot = slot
  BY <1>3, <1>4, <1>8 DEF FrameType
<1> HIDE DEF f
<1>11. n = 2 => Owed(Fn, f) = {}
  BY <1>6, <1>10 DEF Owed
<1>12. /\ Stored(blocks, s, cur) = K /\ H \subseteq K /\ H = h[Len(stack)]
  BY <1>1, TopLevel
<1>13. PICK e : Extends(blocks, s, n, W, e) /\ Supply(bs, e, cur, Range(Fn.params))
                /\ Stored(bs, e, cur) = K /\ Levels(Fn, stack, K, e, h)
  <2> HIDE DEF W, H
  <2> QED
    BY <1>1, <1>9, <1>12, Opened
<1>14. \A j \in 1..n : L + j \in Labels(bs) /\ e[L + j] = W[j]
  BY <1>13 DEF Extends
<1>15. W[1] = H /\ W[2] = H \cup Owed(Fn, f) /\ W[n] = H
  <2>1. W[1] = H /\ W[2] = H \cup Owed(Fn, f)
    BY <1>9
  <2>2. n = 3 => W[n] = H
    BY <1>9
  <2>3. n = 2 => W[n] = H
    BY <1>11, <2>1
  <2> QED
    BY <1>7, <2>1, <2>2, <2>3
<1> HIDE DEF W, K, H, bs
<1>16. /\ L + 1 \in Labels(bs) /\ e[L + 1] = H /\ L + n \in Labels(bs) /\ e[L + n] = H
       /\ e[L + 2] = H \cup Owed(Fn, f)
  BY <1>9, <1>14, <1>15
<1>17. /\ Supply(blocks', e, cur, Range(Fn.params)) /\ L + 1 \in Labels(blocks')
  <2> HIDE DEF L
  <2>1. e[L + 1] \subseteq Stored(bs, e, cur) /\ e[L + n] \subseteq Stored(bs, e, cur)
    BY <1>12, <1>13, <1>16
  <2>2. Supply(bs, e, cur, Range(Fn.params)) /\ TakeValue \in Value
        /\ L + 1 \in Labels(bs) /\ L + n \in Labels(bs)
    BY <1>4, <1>13, <1>16
  <2> DEFINE l == L + 1
             m == L + n
  <2> HIDE DEF l, m
  <2>3. l \in Labels(bs) /\ m \in Labels(bs) /\ e[l] \subseteq Stored(bs, e, cur)
        /\ e[m] \subseteq Stored(bs, e, cur) /\ blocks' = BranchTo(bs, cur, TakeValue, l, m)
    BY <1>5, <2>1, <2>2 DEF l, m
  <2>4. Supply(blocks', e, cur, Range(Fn.params)) /\ Labels(blocks') = Labels(bs)
    BY <2>2, <2>3, SupplyBranch
  <2> QED
    BY <2>2, <2>4
<1>18. Expected(Fn, f, e, H)
  <2>1. CASE n = 3 /\ f.labs = <<L + 3, L + 2>>
    <3>1. /\ DOMAIN f.labs = {1, 2} /\ Len(f.labs) = 2
          /\ f.labs[1] = L + n /\ f.labs[2] = L + 2
      BY <2>1
    <3> QED
      BY <1>16, <3>1 DEF Expected
  <2>2. CASE n = 2 /\ f.labs = <<L + 2>>
    <3>1. DOMAIN f.labs = {1} /\ Len(f.labs) = 1 /\ f.labs[1] = L + 2
      BY <2>2
    <3> QED
      BY <1>16, <3>1 DEF Expected
  <2> QED
    BY <1>7, <1>10, <2>1, <2>2
<1>19. /\ Node.kind # "while" /\ Node.kind # "loop" /\ Node.kind # "block" /\ 2 = Top.pc + 1
       /\ Node.kind \notin {"while", "loop"}
  BY <1>1
<1>20. Active /\ UnchangedRest /\ H = h[Len(stack)] /\ H \subseteq K /\ Levels(Fn, stack, K, e, h)
  BY <1>1, <1>5, <1>12, <1>13
<1> DEFINE l == L + 1
<1>21. cur' = l /\ e[l] = H /\ l \in Labels(blocks')
  BY <1>5, <1>16, <1>17
<1>22. Supply(blocks', e, cur, Range(Fn.params)) /\ 2 \in 1..Len(Kids) /\ Accept(f, 2)
       /\ f \in FrameType /\ f.node = Top.node
  BY <1>2, <1>5, <1>10, <1>17
<1> HIDE DEF L, l
<1> QED
  BY <1>18, <1>19, <1>20, <1>21, <1>22, OpenSteady

LEMMA WhileHeaderSteady ==
    ASSUME IInv, NEW s, NEW h, Steady(s, h), WhileHeader
    PROVE  (\E t, g : Steady(t, g))' /\ Descends
<1> DEFINE L    == Len(blocks)
           bs   == AddBlocks(blocks, 3)
           labs == <<(L + 1) + 1, (L + 1) + 2>>
           f    == [Top EXCEPT !.labs = labs, !.head = L + 1]
           H    == h[Len(stack)]
           K    == Stored(blocks, s, cur)
           W    == [j \in 1..3 |-> H]
<1>1. Active /\ Node.kind = "while" /\ Top.pc = 0
  BY AtActive DEF WhileHeader
<1>2. 1 \in 1..Len(Kids)
  <2>1. Len(Kids) = 2
    BY <1>1, TopFacts DEF WellFormedNode, Node, Kids
  <2> QED
    BY <2>1
<1>3. Top \in FrameType /\ L \in Nat
  <2>1. Due(Node, Top.pc) = 0
    BY <1>1 DEF Due
  <2> QED
    BY <1>1, <2>1, NoLabelsYet
<1>4. /\ UnchangedRest /\ blocks' = JumpTo(bs, cur, L + 1) /\ cur' = L + 1 /\ Accept(f, 1)
  BY DEF WhileHeader
<1>5. labs = <<L + 2, L + 3>> /\ labs \in Seq(Nat) /\ L + 1 \in Nat
  BY <1>3
<1> HIDE DEF labs
<1>6. /\ f \in FrameType /\ f.labs = labs /\ f.node = Top.node /\ f.head = L + 1
      /\ f.slot = Top.slot
  BY <1>3, <1>5 DEF FrameType
<1> HIDE DEF f
<1>7. f.slot = NoTemp /\ Owed(Fn, f) = {}
  <2>1. Shaped(Fn, Top, Labels(blocks))
    BY <1>1, TopFacts
  <2>2. Top.slot = NoTemp
    BY <1>1, <2>1 DEF Shaped, Node
  <2> QED
    BY <1>6, <2>2 DEF Owed
<1>8. H \subseteq K /\ H = h[Len(stack)] /\ Stored(blocks, s, cur) = K
  BY <1>1, TopLevel
<1>9. PICK e : /\ Extends(blocks, s, 3, W, e) /\ Supply(bs, e, cur, Range(Fn.params))
               /\ Stored(bs, e, cur) = K /\ Levels(Fn, stack, K, e, h)
  <2> HIDE DEF W, H
  <2>1. 3 \in Nat
    OBVIOUS
  <2> QED
    BY <1>1, <1>8, <2>1, Opened
<1>10. \A j \in 1..3 : L + j \in Labels(bs) /\ e[L + j] = H
  <2>1. \A j \in 1..3 : W[j] = H
    OBVIOUS
  <2> QED
    BY <1>9, <2>1 DEF Extends
<1> HIDE DEF W, K, H, bs
<1>11. L + 1 \in Labels(bs) /\ e[L + 1] = H /\ e[L + 2] = H /\ e[L + 3] = H
  BY <1>10
<1>12. Supply(blocks', e, cur, Range(Fn.params)) /\ L + 1 \in Labels(blocks')
  <2> DEFINE l == L + 1
  <2> HIDE DEF L
  <2>1. l \in Labels(bs) /\ e[l] \subseteq Stored(bs, e, cur) /\ blocks' = JumpTo(bs, cur, l)
    BY <1>4, <1>8, <1>9, <1>11
  <2> HIDE DEF l
  <2>2. Supply(blocks', e, cur, Range(Fn.params)) /\ Labels(blocks') = Labels(bs)
    BY <1>9, <2>1, SupplyJump
  <2> QED
    BY <1>11, <2>2
<1>13. Expected(Fn, f, e, H)
  <2>1. DOMAIN f.labs = {1, 2} /\ f.labs[1] = L + 2 /\ f.labs[2] = L + 3
    BY <1>5, <1>6
  <2> QED
    BY <1>7, <1>11, <2>1 DEF Expected
<1>14. Node.kind # "loop" /\ Node.kind # "block" /\ 1 = Top.pc + 1
  BY <1>1
<1>15. Active /\ UnchangedRest /\ H = h[Len(stack)] /\ H \subseteq K /\ Levels(Fn, stack, K, e, h)
  BY <1>1, <1>4, <1>8, <1>9
<1> DEFINE l == L + 1
<1>16. cur' = l /\ e[l] = H /\ l \in Labels(blocks') /\ f.head = l
  BY <1>4, <1>6, <1>11, <1>12
<1>17. /\ Accept(f, 1) /\ f \in FrameType /\ f.node = Top.node
       /\ Node.kind = "while" => f.slot = NoTemp
       /\ Node.kind = "loop" /\ f.slot # NoTemp => HasResult(Node.ty)
  BY <1>4, <1>6, <1>7, <1>14
<1>18. 1 \in 1..Len(Kids) /\ 1 = Top.pc + 1 /\ Node.kind # "block"
       /\ Supply(blocks', e, cur, Range(Fn.params))
  BY <1>2, <1>12, <1>14
<1> HIDE DEF L, l
<1> QED
  BY <1>13, <1>15, <1>16, <1>17, <1>18, OpenSteady

(* The block behind a loop with a result counts on the result slot.         *)
LEMMA LoopBodySteady ==
    ASSUME IInv, NEW s, NEW h, Steady(s, h), LoopBody
    PROVE  (\E t, g : Steady(t, g))' /\ Descends
<1> DEFINE L    == Len(blocks)
           bs   == AddBlocks(blocks, 2)
           slot == IF HasResult(Node.ty) THEN nextTemp ELSE NoTemp
           labs == <<L + 2>>
           f    == [Top EXCEPT !.labs = labs, !.head = L + 1, !.slot = slot]
           H    == h[Len(stack)]
           K    == Stored(blocks, s, cur)
           W    == [j \in 1..2 |-> IF j = 2 THEN H \cup Owed(Fn, f) ELSE H]
<1>1. Active /\ Node.kind = "loop" /\ Top.pc = 0
  BY AtActive DEF LoopBody
<1>2. 1 \in 1..Len(Kids)
  <2>1. Len(Kids) = 1
    BY <1>1, TopFacts DEF WellFormedNode, Node, Kids
  <2> QED
    BY <2>1
<1>3. Top \in FrameType /\ L \in Nat
  <2>1. Due(Node, Top.pc) = 0
    BY <1>1 DEF Due
  <2> QED
    BY <1>1, <2>1, NoLabelsYet
<1>4. nextTemp \in Nat /\ slot \in Int /\ (slot # NoTemp => HasResult(Node.ty))
  BY <1>1, NodeTyped, SymbolsTyped
<1>5. /\ UnchangedRest /\ blocks' = JumpTo(bs, cur, L + 1) /\ cur' = L + 1 /\ Accept(f, 1)
  BY DEF LoopBody
<1> HIDE DEF slot
<1>6. labs = <<L + 2>> /\ labs \in Seq(Nat) /\ L + 1 \in Nat
  BY <1>3
<1> HIDE DEF labs
<1>7. /\ f \in FrameType /\ f.labs = labs /\ f.node = Top.node /\ f.head = L + 1
      /\ f.slot = slot
  BY <1>3, <1>4, <1>6 DEF FrameType
<1> HIDE DEF f
<1>8. H \subseteq K /\ H = h[Len(stack)] /\ Stored(blocks, s, cur) = K
  BY <1>1, TopLevel
<1>9. PICK e : /\ Extends(blocks, s, 2, W, e) /\ Supply(bs, e, cur, Range(Fn.params))
               /\ Stored(bs, e, cur) = K /\ Levels(Fn, stack, K, e, h)
  <2> HIDE DEF W, H
  <2>1. 2 \in Nat
    OBVIOUS
  <2> QED
    BY <1>1, <1>8, <2>1, Opened
<1>10. \A j \in 1..2 : L + j \in Labels(bs) /\ e[L + j] = W[j]
  BY <1>9 DEF Extends
<1>11. W[1] = H /\ W[2] = H \cup Owed(Fn, f)
  OBVIOUS
<1> HIDE DEF W, K, H, bs
<1>12. L + 1 \in Labels(bs) /\ e[L + 1] = H /\ e[L + 2] = H \cup Owed(Fn, f)
  BY <1>10, <1>11
<1>13. Supply(blocks', e, cur, Range(Fn.params)) /\ L + 1 \in Labels(blocks')
  <2> DEFINE l == L + 1
  <2> HIDE DEF L
  <2>1. l \in Labels(bs) /\ e[l] \subseteq Stored(bs, e, cur) /\ blocks' = JumpTo(bs, cur, l)
    BY <1>5, <1>8, <1>9, <1>12
  <2> HIDE DEF l
  <2>2. Supply(blocks', e, cur, Range(Fn.params)) /\ Labels(blocks') = Labels(bs)
    BY <1>9, <2>1, SupplyJump
  <2> QED
    BY <1>12, <2>2
<1>14. Expected(Fn, f, e, H)
  <2>1. DOMAIN f.labs = {1} /\ f.labs[1] = L + 2 /\ Len(f.labs) = 1
    BY <1>6, <1>7
  <2> QED
    BY <1>12, <2>1 DEF Expected
<1>15. Node.kind # "while" /\ Node.kind # "block" /\ 1 = Top.pc + 1
  BY <1>1
<1>16. Active /\ UnchangedRest /\ H = h[Len(stack)] /\ H \subseteq K /\ Levels(Fn, stack, K, e, h)
  BY <1>1, <1>5, <1>8, <1>9
<1> DEFINE l == L + 1
<1>17. cur' = l /\ e[l] = H /\ l \in Labels(blocks') /\ f.head = l
  BY <1>5, <1>7, <1>12, <1>13
<1>18. /\ Accept(f, 1) /\ f \in FrameType /\ f.node = Top.node
       /\ f.slot # NoTemp => HasResult(Node.ty)
  BY <1>4, <1>5, <1>7
<1> HIDE DEF L, l
<1> QED
  BY <1>2, <1>13, <1>14, <1>15, <1>16, <1>17, <1>18, OpenSteady

LEMMA WhileBodySteady ==
    ASSUME IInv, NEW s, NEW h, Steady(s, h), WhileBody
    PROVE  (\E t, g : Steady(t, g))' /\ Descends
<1> DEFINE body == Top.labs[1]
           exit == Top.labs[2]
           f    == [Top EXCEPT !.labs = <<exit>>]
           H    == h[Len(stack)]
           K    == Stored(blocks, s, cur)
<1>1. Active /\ Node.kind = "while" /\ Top.pc = 1 /\ Top.pc > 0
  BY AtActive DEF WhileBody
<1>2. Len(Top.labs) = 2 /\ Top.labs \in Seq(Nat) /\ Top \in FrameType
  BY <1>1, TopFacts DEF Due
<1>3. Top.labs = <<body, exit>> /\ exit \in Nat
  BY <1>2
<1>4. /\ UnchangedRest /\ cur' = body /\ Accept(f, 2)
      /\ blocks' = BranchTo(blocks, cur, TakeValue, body, exit)
  BY DEF WhileBody
<1>5. f \in FrameType /\ f.labs = <<exit>> /\ f.node = Top.node
  BY <1>2, <1>3, OneLabelLeft
<1>6. f.slot = Top.slot /\ f.head = Top.head
  BY <1>2 DEF FrameType
<1> HIDE DEF f, body, exit
<1>7. body \in Labels(blocks) /\ exit \in Labels(blocks)
  <2>1. 1 \in 1..Len(Top.labs) /\ 2 \in 1..Len(Top.labs) /\ Top.labs[1] = body /\ Top.labs[2] = exit
    BY <1>3
  <2> QED
    BY <1>1, <2>1, TopLabel
<1>8. f.slot = NoTemp /\ Owed(Fn, Top) = {} /\ Owed(Fn, f) = {}
  <2>1. Shaped(Fn, Top, Labels(blocks))
    BY <1>1, TopFacts
  <2>2. Top.slot = NoTemp
    BY <1>1, <2>1 DEF Shaped, Node
  <2> QED
    BY <1>6, <2>2 DEF Owed
<1>9. /\ s[body] = H /\ s[exit] = H /\ s[f.head] = H /\ Levels(Fn, stack, K, s, h) /\ H \subseteq K
      /\ Supply(blocks, s, cur, Range(Fn.params))
  <2>1. /\ Awaited(Fn, Top, s, H) /\ Levels(Fn, stack, K, s, h) /\ H \subseteq K
        /\ Supply(blocks, s, cur, Range(Fn.params))
    BY <1>1, TopLevel
  <2>2. s[body] = H /\ s[exit] = H \cup Owed(Fn, Top)
    BY <1>3, <2>1, TwoLabels
  <2>3. s[Top.head] = H
    BY <1>1, <2>1 DEF Awaited, Expected, Node
  <2> HIDE DEF H, K
  <2> QED
    BY <1>6, <1>8, <2>1, <2>2, <2>3
<1>10. Supply(blocks', s, cur, Range(Fn.params)) /\ Labels(blocks') = Labels(blocks)
  <2>1. TakeValue \in Value
    BY <1>1, NodeTyped
  <2>2. s[body] \subseteq K /\ s[exit] \subseteq K
    BY <1>9
  <2> QED
    BY <1>4, <1>7, <1>9, <2>1, <2>2, SupplyBranch
<1>11. Supply(blocks', s, cur', Range(Fn.params)) /\ H \subseteq Stored(blocks', s, cur')
  BY <1>4, <1>7, <1>9, <1>10, SupplyAt
<1>12. Expected(Fn, f, s, H)
  <2>1. DOMAIN f.labs = {1} /\ f.labs[1] = exit
    BY <1>5
  <2> QED
    BY <1>8, <1>9, <2>1 DEF Expected
<1>13. Node.kind # "loop" /\ Node.kind # "block" /\ 2 = Top.pc + 1 /\ 2 \in 1..Len(Kids)
  <2>1. Len(Kids) = 2
    BY <1>1, TopFacts DEF WellFormedNode, Node, Kids
  <2> QED
    BY <1>1, <2>1
<1>14. H = h[Len(stack)]
  OBVIOUS
<1> HIDE DEF H, K
<1> QED
  BY <1>1, <1>4, <1>5, <1>8, <1>9, <1>11, <1>12, <1>13, <1>14, PushSteady

-----------------------------------------------------------------------------
(* Every step of a visit, of a function whose breaks can count on their     *)
(* references. *)
LEMMA VisitSteady ==
    ASSUME IInv, VisitStep, ReferenceHolds(Fn), Quiet(Fn, stack, loopCap), Placed(Fn, stack),
           Valued(Fn, stack), NEW s, NEW h, Steady(s, h)
    PROVE  (\E t, g : Steady(t, g))' /\ Valued(Fn, stack)'
<1>1. ~BreakGarbage /\ ~BreakDangling
  BY ReferenceValid DEF BreakGarbage, BreakDangling
<1>2. Active /\ UnchangedRest
  BY <1>1, VisitStepKind, StayStep, MoveStep
<1>3. (\E t, g : Steady(t, g))' /\ (Ends \/ Descends)
  <2>1. CASE VisitIdent
    BY <2>1, IdentSteady
  <2>2. CASE FinishUnary \/ FinishBinary \/ FinishCall
    BY <2>2, ComputingSteady
  <2>3. CASE VisitLiteral \/ FinishExprStmt \/ FinishBlock
    BY <2>3, LeafSteady
  <2>4. CASE FinishUnitCall \/ FinishLet \/ FinishAssign \/ FinishReturn
    BY <2>4, StoringSteady
  <2>5. CASE BreakWithoutValue \/ VisitContinue
    BY <2>5, JumpingSteady
  <2>6. CASE BreakStore
    BY <2>6, BreakStoreSteady
  <2>7. CASE VisitOperand \/ VisitBlockItem \/ IfCondition \/ BreakValue
    BY <2>7, OperandSteady
  <2>8. CASE IfMerge
    BY <2>8, IfMergeSteady
  <2>9. CASE WhileExit \/ LoopExit
    BY <2>9, LoopEndSteady
  <2>10. CASE IfElse
    BY <2>10, IfElseSteady
  <2>11. CASE IfThen
    BY <2>11, IfThenSteady
  <2>12. CASE WhileHeader
    BY <2>12, WhileHeaderSteady
  <2>13. CASE WhileBody
    BY <2>13, WhileBodySteady
  <2>14. CASE LoopBody
    BY <2>14, LoopBodySteady
  <2> QED
    BY <1>1, <2>1, <2>2, <2>3, <2>4, <2>5, <2>6, <2>7, <2>8, <2>9, <2>10, <2>11, <2>12, <2>13,
       <2>14 DEF VisitStep
<1>4. Valued(Fn, stack')
  BY <1>2, <1>3, ValuedNext
<1>5. Fn' = Fn
  BY <1>2, SameFn
<1> QED
  BY <1>3, <1>4, <1>5

(* lower_fn before the body: only the parameters have values.               *)
LEMMA EntrySupplied ==
    ASSUME NEW bs \in Seq(BasicBlock), Labels(bs) = {1}, NEW ps \in Seq(Symbols),
           bs[1].instrs = [i \in 1..Len(ps) |-> LoadLocal(i - 1, ps[i])]
    PROVE  Supply(bs, <<Range(ps)>>, 1, Range(ps)) /\ Range(ps) \subseteq Stored(bs, <<Range(ps)>>, 1)
<1> DEFINE c == Code(bs)
           s == <<Range(ps)>>
           n == Len(ps)
           loads == [i \in 1..n |-> LoadLocal(i - 1, ps[i])]
<1>1. c \in Codes /\ DOMAIN c = {1} /\ c[1] = loads
  BY CodeOf
<1>2. DOMAIN loads = 1..n /\ s[1] = Range(ps)
  OBVIOUS
<1>3. \A k \in 1..n : loads[k].sym = ps[k] /\ loads[k].to = <<>> /\ ps[k] \in Range(ps)
  <2> TAKE k \in 1..n
  <2>1. loads[k] = LoadLocal(k - 1, ps[k]) /\ ps[k] \in Range(ps)
    BY DEF Range
  <2> HIDE DEF loads, n
  <2> QED
    BY <2>1 DEF LoadLocal, Instr
<1> HIDE DEF c, loads, n, s
<1>4. \A k \in 1..n : Targets(loads[k]) = {}
  BY <1>3 DEF Targets
<1>5. Supplied(c, s, Range(ps))
  <2>1. ASSUME NEW b \in DOMAIN c, NEW k \in DOMAIN c[b]
        PROVE  c[b][k].sym \in s[b] /\ Targets(c[b][k]) = {}
    <3>1. b = 1 /\ k \in 1..n /\ c[b][k] = loads[k]
      BY <1>1, <1>2, <2>1
    <3> QED
      BY <1>2, <1>3, <1>4, <3>1
  <2>2. s[1] \subseteq Range(ps)
    BY <1>2
  <2> QED
    BY <2>1, <2>2 DEF Supplied
<1> QED
  BY <1>2, <1>5 DEF Supply, Stored, c, s

LEMMA BeginFnSteady ==
    ASSUME IInv, BeginFn, NamesBound(Fn)
    PROVE  (\E t, g : Steady(t, g))' /\ Valued(Fn, stack)'
<1>1. TypeOK /\ status = "idle" /\ MoreFns
  BY DEF IInv, BeginFn
<1>2. /\ Graph(<<Entry>>) /\ Labels(<<Entry>>) = {1}
      /\ Fn.params \in Seq(Symbols) /\ Fn.body \in Nat /\ Fn.body \in DOMAIN Fn.nodes
  BY <1>1, EntryGraph
<1> DEFINE g  == Frame(Fn.body)
           bs == <<Entry>>
           P  == Range(Fn.params)
           st == <<g>>
<1>3. blocks' = bs /\ stack' = st /\ cur' = 1 /\ program' = program /\ module' = module
  BY DEF BeginFn, Entry
<1>4. Fn' = Fn
  BY <1>3 DEF Fn
<1>5. g.node = Fn.body /\ g.pc = 0 /\ g.labs = <<>>
  BY DEF Frame
<1>6. bs \in Seq(BasicBlock) /\ bs[1].instrs = [i \in 1..Len(Fn.params) |-> LoadLocal(i - 1, Fn.params[i])]
  <2>1. bs \in Seq(BasicBlock)
    BY <1>2 DEF Graph
  <2>2. bs[1] = Entry
    OBVIOUS
  <2> QED
    BY <2>1, <2>2 DEF Entry, EmptyBlock
<1> HIDE DEF g, bs
<1>h. PICK h : h = <<P>>
  OBVIOUS
<1>7. Supply(bs, h, 1, P) /\ P \subseteq Stored(bs, h, 1)
  BY <1>2, <1>6, <1>h, EntrySupplied DEF bs
<1>8. DOMAIN st = {1} /\ Len(st) = 1 /\ st[1] = g /\ h[1] = P
  BY <1>h
<1> HIDE DEF st
<1>9. Needs(Fn, Fn.body, P)
  BY DEF NamesBound, Needs, P
<1> HIDE DEF P
<1>10. Levels(Fn, st, Stored(bs, h, 1), h, h)
  <2>1. LetsBefore(Fn, g.node, g.pc + 1) = {}
    <3>1. g.pc + 1 = 1 /\ 0 \in Nat
      BY <1>5
    <3> QED
      BY <3>1, LetsGrow
  <2>2. Awaited(Fn, g, h, P)
    <3>1. DOMAIN g.labs = {} /\ ~(g.pc > 0)
      BY <1>5
    <3> QED
      BY <3>1 DEF Awaited, Expected
  <2>3. \A j \in 1..1 : j = 1
    OBVIOUS
  <2>4. LevelOf(Fn, st, 1, Stored(bs, h, 1), h, h)
    BY <1>5, <1>7, <1>8, <1>9, <2>1, <2>2, <2>3 DEF LevelOf
  <2> QED
    BY <1>8, <2>4 DEF Levels
<1>11. Steady(h, h)'
  BY <1>3, <1>4, <1>7, <1>10 DEF Steady, P
<1>12. Valued(Fn, stack)'
  <2>1. \A j \in 1..(1 - 1) : FALSE
    OBVIOUS
  <2> QED
    BY <1>3, <1>4, <1>8, <2>1 DEF Valued
<1> QED
  BY <1>11, <1>12

(* What is supplied is stored on every path: the blocks that do not count   *)
(* on x are the entry and those that blocks without a store of x lead to.   *)
LEMMA StoredWhere ==
    ASSUME NEW fn, fn.blocks \in Seq(BasicBlock), NEW b \in Check!Labels(fn),
           NEW k \in DOMAIN Code(fn.blocks)[b], NEW x \in StoresTill(Code(fn.blocks)[b], k)
    PROVE  \E j \in 1..(k - 1) : <<b, j>> \in Check!StoresTo(fn, x)
<1> DEFINE c == Code(fn.blocks)
<1>1. PICK j \in 1..(k - 1) : c[b][j].tag = "store" /\ c[b][j].sym = x
  BY DEF StoresTill
<1>2. /\ DOMAIN c[b] = 1..Len(c[b]) /\ Len(c[b]) \in Nat
      /\ \A i \in DOMAIN c[b] : <<b, i>> \in Check!Positions(fn) /\ Check!At(fn, <<b, i>>) = c[b][i]
  BY PositionsOf
<1>3. k \in DOMAIN c[b]
  OBVIOUS
<1> HIDE DEF c
<1>4. j \in DOMAIN c[b]
  BY <1>2, <1>3
<1> QED
  BY <1>1, <1>2, <1>4 DEF Check!StoresTo

LEMMA SuppliedOnEveryPath ==
    ASSUME NEW fn, fn.blocks \in Seq(BasicBlock), NEW s, Supplied(Code(fn.blocks), s, Range(fn.params))
    PROVE  Check!StoredOnEveryPath(fn)
<1> DEFINE c == Code(fn.blocks)
           N == Len(fn.blocks)
<1> SUFFICES ASSUME NEW p \in Check!LiveUses(fn), NEW x, x = Check!At(fn, p).sym,
                    Check!At(fn, p).tag = "load", \A i \in DOMAIN fn.params : fn.params[i] # x
             PROVE  Check!PassedBefore(fn, p, Check!StoresTo(fn, x))
  BY DEF Check!StoredOnEveryPath
<1>1. p \in Check!Positions(fn) /\ x \notin Range(fn.params)
  BY DEF Check!LiveUses, Range
<1>2a. PICK b \in Check!Labels(fn) : \E k \in DOMAIN c[b] : p = <<b, k>>
  BY <1>1, PositionsOf
<1>2. PICK k \in DOMAIN c[b] : p = <<b, k>>
  BY <1>2a
<1>3. p[1] = b /\ p[2] = k
  BY <1>2
<1>5. /\ DOMAIN c = 1..N /\ Check!Labels(fn) = 1..N /\ N \in Nat
      /\ \A d \in 1..N : DOMAIN c[d] = 1..Len(c[d]) /\ Len(c[d]) \in Nat /\ c[d] = fn.blocks[d].instrs
      /\ \A d \in 1..N : \A j : Check!At(fn, <<d, j>>) = c[d][j]
  BY PositionsOf
<1>4. x \in StoresTill(c[b], k) \/ x \in s[b]
  BY <1>2, <1>5 DEF Supplied
<1>6. CASE x \in StoresTill(c[b], k)
  <2>1. PICK j \in 1..(k - 1) : <<b, j>> \in Check!StoresTo(fn, x)
    BY <1>6, StoredWhere
  <2>2. j < k /\ <<b, j>>[1] = b /\ <<b, j>>[2] = j
    BY <1>5, <2>1
  <2> QED
    BY <1>3, <2>1, <2>2 DEF Check!PassedBefore
<1>7. CASE x \in s[b]
  <2> DEFINE stores == Check!StoresTo(fn, x)
             avoid  == {q[1] : q \in {r \in stores : Check!Live(fn, r)}}
             S      == {d \in 1..N : x \notin s[d]}
  <2>1. 1 \in S
    <3>1. 1 \in 1..N
      BY <1>5
    <3> QED
      BY <1>1, <1>5, <3>1 DEF Supplied
  <2>2. ASSUME NEW d \in 1..N, NEW t \in Check!FlowTo(fn, d)
        PROVE  \E j \in DOMAIN c[d] : /\ Check!Live(fn, <<d, j>>) /\ t \in 1..N
                                      /\ s[t] \subseteq s[d] \cup StoresTill(c[d], j)
    <3>1. PICK j \in Check!Exits(fn, d) : Check!Live(fn, <<d, j>>) /\ t \in Targets(Check!At(fn, <<d, j>>))
      BY <2>2, SameIR DEF Check!FlowTo
    <3>2. j \in DOMAIN c[d] /\ Check!At(fn, <<d, j>>) = c[d][j]
      BY <1>5, <3>1 DEF Check!Exits
    <3>3. t \in DOMAIN c /\ s[t] \subseteq s[d] \cup StoresTill(c[d], j)
      BY <1>5, <3>1, <3>2 DEF Supplied
    <3> QED
      BY <1>5, <3>1, <3>2, <3>3
  <2>3. ASSUME NEW d \in S, d \notin avoid
        PROVE  Check!FlowTo(fn, d) \subseteq S
    <3> SUFFICES ASSUME NEW t \in Check!FlowTo(fn, d) PROVE t \in S
      OBVIOUS
    <3>1. PICK j \in DOMAIN c[d] : /\ Check!Live(fn, <<d, j>>) /\ t \in 1..N
                                   /\ s[t] \subseteq s[d] \cup StoresTill(c[d], j)
      BY <2>2
    <3>2. ASSUME x \in s[t] PROVE FALSE
      <4>1. x \in StoresTill(c[d], j)
        BY <3>1, <3>2
      <4>2. PICK i \in 1..(j - 1) : <<d, i>> \in stores
        BY <1>5, <3>1, <4>1, StoredWhere
      <4>3. Check!Live(fn, <<d, i>>)
        <5>1. \A e \in Check!Exits(fn, d) : j <= e /\ e \in Nat
          BY <1>5, <3>1 DEF Check!Live, Check!Exits
        <5>2. \A e \in Check!Exits(fn, d) : i <= e
          BY <1>5, <3>1, <4>2, <5>1
        <5> QED
          BY <5>2 DEF Check!Live
      <4>4. d \in avoid
        <5>1. <<d, i>>[1] = d
          OBVIOUS
        <5> QED
          BY <4>2, <4>3, <5>1
      <4> QED
        BY <2>3, <4>4
    <3> QED
      BY <3>1, <3>2
  <2>4. S \subseteq 1..N /\ \A d \in 1..N : Check!FlowTo(fn, d) \subseteq 1..N
    BY <2>2
  <2>5. Check!EnteredAvoiding(fn, avoid) \subseteq S
    <3> HIDE DEF S, avoid, N
    <3> QED
      BY <1>5, <2>1, <2>3, <2>4, EnteredInside DEF N
  <2>6. p[1] \notin Check!EnteredAvoiding(fn, avoid)
    BY <1>3, <1>7, <2>5
  <2> QED
    BY <2>6 DEF Check!PassedBefore
<1> QED
  BY <1>4, <1>6, <1>7

LEMMA EndFnSteady ==
    ASSUME IInv, EndFn, NEW s, NEW h, Steady(s, h)
    PROVE  \E out \in Function : module' = Append(module, out) /\ Check!StoredOnEveryPath(out)
<1> DEFINE vals == IF Fn.ret = "unit" THEN <<>> ELSE <<TakeValue>>
           ret == Return(vals)
           bs  == IF IsTerminated(blocks[cur]) THEN blocks ELSE Emit(blocks, cur, ret)
           out == [name |-> Fn.name, params |-> Fn.params,
                   blocks |-> bs, temps |-> nextTemp, locals |-> locals]
<1>1. TypeOK /\ status = "lowering" /\ stack = <<>> /\ module' = Append(module, out)
  BY DEF IInv, EndFn
<1>2. Supply(blocks, s, cur, Range(Fn.params))
  BY DEF Steady
<1>3. Supply(bs, s, cur, Range(Fn.params))
  <2>1. CASE IsTerminated(blocks[cur])
    BY <1>2, <2>1
  <2>2. CASE ~IsTerminated(blocks[cur])
    <3>1. vals \in Seq(Value)
      <4>1. <<>> \in Seq(Value) /\ <<TakeValue>> \in Seq(Value)
        BY <1>1, TakeValueTyped
      <4> HIDE DEF TakeValue
      <4> QED
        BY <4>1
    <3> HIDE DEF vals
    <3>2. ret \in Instruction /\ ret.to = <<>>
      BY <3>1, ReturnTyped
    <3>3. ret.tag \notin {"load", "store"}
      BY DEF Return, Instr
    <3>4. bs = Emit(blocks, cur, ret)
      BY <2>2
    <3> HIDE DEF ret, bs
    <3> QED
      BY <1>2, <3>2, <3>3, <3>4, SupplyOther
  <2> QED
    BY <2>1, <2>2
<1> HIDE DEF bs
<1>4. bs \in Seq(BasicBlock) /\ Supplied(Code(bs), s, Range(Fn.params))
  BY <1>3 DEF Supply
<1>5. out \in Function /\ out.blocks = bs /\ out.params = Fn.params
  <2>1. Fn.name \in Symbols /\ Fn.params \in Seq(Symbols)
    BY <1>1, FnTyped DEF AstFn
  <2>2. nextTemp \in Nat /\ locals \in Seq(Symbols)
    BY <1>1 DEF TypeOK
  <2> QED
    BY <1>4, <2>1, <2>2 DEF Function
<1> HIDE DEF out
<1>6. Check!StoredOnEveryPath(out)
  BY <1>4, <1>5, SuppliedOnEveryPath
<1> QED
  BY <1>1, <1>5, <1>6

-----------------------------------------------------------------------------
(* The inductive invariant: the slots the function under construction loads *)
(* are supplied, and those of the functions handed over are stored.         *)
Regular(fn) == ReferenceHolds(fn) /\ NamesBound(fn)
SlotsUnderWay ==
    status = "lowering" /\ Regular(Fn) => Valued(Fn, stack) /\ \E s, h : Steady(s, h)
SlotsHandedOver == \A f \in DOMAIN module : Regular(program[f]) => Check!StoredOnEveryPath(module[f])
SInv == VInv /\ SlotsUnderWay /\ SlotsHandedOver

LEMMA BeginFnSlots ==
    ASSUME SInv, BeginFn
    PROVE  SInv'
<1>1. VInv /\ IInv /\ SlotsHandedOver
  BY DEF SInv, VInv
<1>2. VInv' /\ program' = program /\ module' = module
  BY <1>1, BeginFnValues DEF BeginFn
<1>3. Fn' = Fn
  BY <1>2 DEF Fn
<1>4. SlotsUnderWay'
  <2> SUFFICES ASSUME Regular(Fn) PROVE Valued(Fn, stack)' /\ (\E s, h : Steady(s, h))'
    BY <1>3 DEF SlotsUnderWay
  <2> QED
    BY <1>1, BeginFnSteady DEF Regular
<1>5. SlotsHandedOver'
  BY <1>1, <1>2 DEF SlotsHandedOver
<1> QED
  BY <1>2, <1>4, <1>5 DEF SInv

LEMMA EndFnSlots ==
    ASSUME SInv, EndFn
    PROVE  SInv'
<1>1. VInv /\ IInv /\ SlotsUnderWay /\ SlotsHandedOver /\ TypeOK
  BY DEF SInv, VInv, IInv
<1>2. VInv' /\ status = "lowering" /\ status' = "idle" /\ program' = program
  BY <1>1, EndFnValues DEF EndFn
<1>3. SlotsUnderWay'
  BY <1>2 DEF SlotsUnderWay
<1>4. PICK out : module' = Append(module, out) /\ (Regular(Fn) => Check!StoredOnEveryPath(out))
  <2>1. CASE Regular(Fn)
    <3>1. PICK s : \E h : Steady(s, h)
      BY <1>1, <1>2, <2>1 DEF SlotsUnderWay
    <3>2. PICK h : Steady(s, h)
      BY <3>1
    <3> QED
      BY <1>1, <3>2, EndFnSteady
  <2>2. CASE ~Regular(Fn)
    BY <2>2 DEF EndFn
  <2> QED
    BY <2>1, <2>2
<1>5. /\ DOMAIN module' = 1..(Len(module) + 1) /\ DOMAIN module = 1..Len(module)
      /\ \A f \in 1..Len(module) : module'[f] = module[f]
      /\ module'[Len(module) + 1] = out /\ Len(module) \in Nat
  BY <1>1, <1>4 DEF TypeOK
<1>6. ASSUME NEW f \in DOMAIN module', Regular(program[f])
      PROVE  Check!StoredOnEveryPath(module'[f])
  <2>1. CASE f = Len(module) + 1
    BY <1>4, <1>5, <1>6, <2>1 DEF Fn
  <2>2. CASE f # Len(module) + 1
    <3>1. f \in DOMAIN module /\ module'[f] = module[f]
      BY <1>5, <2>2
    <3> QED
      BY <1>1, <1>6, <3>1 DEF SlotsHandedOver
  <2> QED
    BY <2>1, <2>2
<1>7. SlotsHandedOver'
  BY <1>2, <1>6 DEF SlotsHandedOver
<1> QED
  BY <1>2, <1>3, <1>7 DEF SInv

LEMMA VisitSlots ==
    ASSUME SInv, VisitStep
    PROVE  SInv'
<1>1. VInv /\ IInv /\ UnderWay /\ SlotsUnderWay /\ SlotsHandedOver
  BY DEF SInv, VInv
<1>2. VInv'
  BY <1>1, VisitValues
<1>3. program' = program /\ module' = module /\ status = "lowering"
  <2>1. CASE BreakDangling
    BY <2>1, AtActive DEF BreakDangling, Active
  <2>2. CASE StayPop \/ StayPush \/ MovePop \/ MovePush
    BY <1>1, <2>2, StayStep, MoveStep DEF UnchangedRest, Active
  <2> QED
    BY <1>1, <2>1, <2>2, VisitStepKind
<1>4. Fn' = Fn
  BY <1>3 DEF Fn
<1>5. SlotsHandedOver'
  BY <1>1, <1>3 DEF SlotsHandedOver
<1>6. SlotsUnderWay'
  <2> SUFFICES ASSUME Regular(Fn) PROVE Valued(Fn, stack)' /\ (\E s, h : Steady(s, h))'
    BY <1>4 DEF SlotsUnderWay
  <2>1. ReferenceHolds(Fn) /\ Quiet(Fn, stack, loopCap) /\ Placed(Fn, stack)
    BY <1>1, <1>3 DEF UnderWay, Regular
  <2>2. Valued(Fn, stack) /\ \E s, h : Steady(s, h)
    BY <1>1, <1>3 DEF SlotsUnderWay
  <2>3. PICK s : \E h : Steady(s, h)
    BY <2>2
  <2>4. PICK h : Steady(s, h)
    BY <2>3
  <2> QED
    BY <1>1, <2>1, <2>2, <2>4, VisitSteady
<1> QED
  BY <1>2, <1>5, <1>6 DEF SInv

LEMMA StutterSlots ==
    ASSUME SInv, UNCHANGED vars
    PROVE  SInv'
<1>1. /\ program' = program /\ module' = module /\ status' = status
      /\ blocks' = blocks /\ cur' = cur /\ stack' = stack
  BY DEF vars, fnVars
<1>2. Fn' = Fn
  BY <1>1 DEF Fn
<1>3. (\E s, h : Steady(s, h)) => (\E s, h : Steady(s, h))'
  BY <1>1, <1>2 DEF Steady
<1>4. SlotsUnderWay'
  BY <1>1, <1>2, <1>3 DEF SInv, SlotsUnderWay
<1>5. SlotsHandedOver'
  BY <1>1 DEF SInv, SlotsHandedOver
<1>6. VInv'
  BY StutterValues DEF SInv
<1> QED
  BY <1>4, <1>5, <1>6 DEF SInv

(* SInv is an inductive invariant of the lowering of any set of programs.   *)
THEOREM SlotsInductive == Spec => []SInv
<1>1. Init => SInv
  <2> SUFFICES ASSUME Init PROVE SInv
    OBVIOUS
  <2>1. VInv
    <3>1. IInv
      BY InitInv
    <3>2. status = "idle" /\ module = <<>>
      BY DEF Init
    <3> QED
      BY <3>1, <3>2 DEF VInv, UnderWay, HandedOver
  <2>2. status = "idle" /\ module = <<>>
    BY DEF Init
  <2> QED
    BY <2>1, <2>2 DEF SInv, SlotsUnderWay, SlotsHandedOver
<1>2. SInv /\ [Next]_vars => SInv'
  BY BeginFnSlots, EndFnSlots, VisitSlots, StutterSlots DEF Next
<1> QED
  BY <1>1, <1>2, PTL DEF Spec

(* Code generation reads a variable or a result slot from its place in the  *)
(* frame (codegen.cpp): a parameter aside, it was stored to on every path   *)
(* from the entry to the load that can be executed, in every function whose *)
(* names are bound and whose breaks can count on their references.          *)
THEOREM SlotsAlwaysStored == Spec => []SlotsStoredOnEveryPath
<1>1. SInv => SlotsStoredOnEveryPath
  BY DEF SInv, SlotsHandedOver, Regular, SlotsStoredOnEveryPath
<1> QED
  BY <1>1, SlotsInductive, PTL

=============================================================================
