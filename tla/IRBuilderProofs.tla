-------------------------- MODULE IRBuilderProofs --------------------------
(***************************************************************************)
(* The correctness of the lowering, for every set of programs: the         *)
(* inductive invariant, its preservation by every visit function, and the  *)
(* refinement of BlockDiscipline.                                          *)
(*                                                                         *)
(* Two kinds of steps matter to the block structure.  A step that STAYS    *)
(* goes on in the open block, whatever it emits there; a step that MOVES   *)
(* leaves the open block terminated and opens one that was waiting or is   *)
(* new.  Each kind ends a visit (the record is popped) or starts one.      *)
(***************************************************************************)
EXTENDS LoweringLemmas

(* The inductive invariant. *)
Shapes  == status = "lowering" => \A f \in DOMAIN stack : Shaped(Fn, stack[f], Labels(blocks))
Account == status = "lowering" => Accounted(stack, blocks, cur)
Loops ==
    /\ status = "lowering" => /\ LoopsMatch(Fn, stack, loopStack)
                              /\ BreaksInside(Fn, stack)
                              /\ ContextsInside(loopStack, Labels(blocks))
    /\ status = "idle" => loopStack = <<>>
FinishedSealed == \A f \in DOMAIN module : Sealed(module[f].blocks)
IInv == TypeOK /\ Graph(blocks) /\ Shapes /\ Account /\ Loops /\ FinishedSealed

-----------------------------------------------------------------------------
(* The kinds of steps. *)
Active == status = "lowering" /\ stack # <<>>
Control == {"if", "while", "loop"}
RestTyped ==
    /\ nextTemp' \in Nat /\ locals' \in Seq(Symbols) /\ loopCap' \in Nat
    /\ lastValue' \in Seq(Value) /\ Len(lastValue') <= 1
InPlace(bs) ==
    /\ Graph(bs) /\ Len(bs) = Len(blocks)
    /\ Terminated(bs) \cup {cur} = Terminated(blocks) \cup {cur}

StayPop ==
    /\ Active /\ UnchangedRest /\ RestTyped /\ UNCHANGED <<cur, loopStack>>
    /\ ReturnFromVisit /\ Node.kind \notin Control /\ InPlace(blocks')

StayPush ==
    /\ Active /\ UnchangedRest /\ RestTyped /\ UNCHANGED <<blocks, cur, loopStack>>
    /\ \E f \in FrameType, n \in DOMAIN Fn.nodes :
          /\ stack' = PushOf(stack, f, Frame(n))
          /\ f.labs = Top.labs /\ Shaped(Fn, f, Labels(blocks))
          /\ ~Inside(Fn, Top) /\ ~Inside(Fn, f)
          /\ Breaking(Fn, f) => loopStack # <<>>

MovePop ==
    /\ Active /\ UnchangedRest /\ RestTyped
    /\ ReturnFromVisit /\ Top.labs = <<cur'>>
    /\ Graph(blocks') /\ Len(blocks') = Len(blocks)
    /\ Terminated(blocks') = Terminated(blocks) \cup {cur}
    /\ Inside(Fn, Top) => loopStack' = PopOf(loopStack)
    /\ ~Inside(Fn, Top) => UNCHANGED loopStack

MovePush ==
    /\ Active /\ UnchangedRest /\ RestTyped
    /\ Graph(blocks') /\ Len(blocks') \in Len(blocks)..(Len(blocks) + 3)
    /\ Terminated(blocks') = Terminated(blocks) \cup {cur}
    /\ \E f \in FrameType, n \in DOMAIN Fn.nodes :
          /\ stack' = PushOf(stack, f, Frame(n))
          /\ Range(f.labs) \cup {cur'} = Range(Top.labs) \cup (Labels(blocks') \ Labels(blocks))
          /\ cur' \notin Range(f.labs) /\ (Len(f.labs) = 2 => f.labs[1] # f.labs[2])
          /\ Shaped(Fn, f, Labels(blocks'))
          /\ ~Inside(Fn, Top) /\ ~Breaking(Fn, f)
          /\ ~Inside(Fn, f) => UNCHANGED loopStack
          /\ Inside(Fn, f) => \E ctx \in LoopContext :
                                 /\ loopStack' = Append(loopStack, ctx) /\ CtxOf(f, ctx)
                                 /\ ctx.head \in Labels(blocks') /\ ctx.exit \in Labels(blocks')

-----------------------------------------------------------------------------
(* What is known of the function being lowered and of the node on top. *)
LEMMA FnTyped ==
    ASSUME TypeOK, status = "lowering"
    PROVE  /\ Fn \in AstFn /\ Fn.nodes \in Seq(AstNode) /\ Fn.body \in DOMAIN Fn.nodes
           /\ \A n \in DOMAIN Fn.nodes :
                 /\ WellFormedNode(Fn, n) /\ n \in Nat /\ Fn.nodes[n] \in AstNode
                 /\ Fn.nodes[n].kids \in Seq(Nat)
                 /\ \A k \in 1..Len(Fn.nodes[n].kids) : Fn.nodes[n].kids[k] \in DOMAIN Fn.nodes
<1>1. program \in Programs /\ Len(module) < Len(program) /\ Len(module) \in Nat
  BY DEF TypeOK
<1>2. program \in Seq(AstFn)
  BY <1>1, ProgramAssumption
<1>3. Len(module) + 1 \in DOMAIN program
  BY <1>1, <1>2
<1>4. Fn \in AstFn
  BY <1>2, <1>3 DEF Fn
<1>5. Fn.nodes \in Seq(AstNode)
  BY <1>4 DEF AstFn
<1>6. Fn.body \in DOMAIN Fn.nodes /\ \A n \in DOMAIN Fn.nodes : WellFormedNode(Fn, n)
  BY <1>1, <1>3, ProgramAssumption DEF Fn
<1>7. ASSUME NEW n \in DOMAIN Fn.nodes
      PROVE  /\ WellFormedNode(Fn, n) /\ n \in Nat /\ Fn.nodes[n] \in AstNode
             /\ Fn.nodes[n].kids \in Seq(Nat)
             /\ \A k \in 1..Len(Fn.nodes[n].kids) : Fn.nodes[n].kids[k] \in DOMAIN Fn.nodes
  <2>1. n \in 1..Len(Fn.nodes) /\ DOMAIN Fn.nodes = 1..Len(Fn.nodes) /\ Len(Fn.nodes) \in Nat
    BY <1>5, <1>7
  <2>2. Fn.nodes[n] \in AstNode
    BY <1>5, <2>1
  <2>3. Fn.nodes[n].kids \in Seq(Nat)
    BY <2>2 DEF AstNode
  <2>4. \A k \in DOMAIN Fn.nodes[n].kids : Fn.nodes[n].kids[k] \in 1..(n - 1)
    BY <1>6, <1>7 DEF WellFormedNode
  <2>5. DOMAIN Fn.nodes[n].kids = 1..Len(Fn.nodes[n].kids) /\ 1..(n - 1) \subseteq 1..Len(Fn.nodes)
    BY <2>1, <2>3
  <2> QED
    BY <1>6, <1>7, <2>1, <2>2, <2>3, <2>4, <2>5
<1> QED
  BY <1>4, <1>5, <1>6, <1>7

LEMMA TopFacts ==
    ASSUME IInv, Active
    PROVE  /\ Top \in FrameType /\ Shaped(Fn, Top, Labels(blocks)) /\ Top.node \in DOMAIN Fn.nodes
           /\ Top.pc \in 0..Len(Kids) /\ Top.labs \in Seq(Nat) /\ Top.slot \in Int
           /\ Top.vals \in Seq(Value) /\ Len(Top.labs) = Due(Node, Top.pc)
           /\ Node \in AstNode /\ Kids \in Seq(Nat) /\ WellFormedNode(Fn, Top.node)
           /\ \A k \in 1..Len(Kids) : Kids[k] \in DOMAIN Fn.nodes
           /\ blocks \in Seq(BasicBlock) /\ Label = Labels(blocks) /\ cur \in Labels(blocks)
           /\ Len(stack) \in DOMAIN stack
<1>1. TypeOK /\ status = "lowering" /\ stack # <<>> /\ stack \in Seq(FrameType)
      /\ blocks \in Seq(BasicBlock) /\ cur \in Label
  BY DEF IInv, Active, TypeOK
<1>2. Len(stack) \in DOMAIN stack /\ Top \in FrameType
  BY <1>1 DEF Top
<1>3. Shaped(Fn, Top, Labels(blocks))
  BY <1>1, <1>2 DEF IInv, Shapes, Top
<1>4. Top.node \in DOMAIN Fn.nodes /\ Top.pc \in 0..Len(Kids) /\ Len(Top.labs) = Due(Node, Top.pc)
  BY <1>3 DEF Shaped, Node, Kids
<1>5. /\ Node \in AstNode /\ Kids \in Seq(Nat) /\ WellFormedNode(Fn, Top.node)
      /\ \A k \in 1..Len(Kids) : Kids[k] \in DOMAIN Fn.nodes
  BY <1>1, <1>4, FnTyped DEF Node, Kids
<1>6. Top.labs \in Seq(Nat) /\ Top.slot \in Int /\ Top.vals \in Seq(Value)
  BY <1>2 DEF FrameType
<1>7. Label = Labels(blocks)
  BY <1>1 DEF Label, Labels
<1> QED
  BY <1>1, <1>2, <1>3, <1>4, <1>5, <1>6, <1>7

LEMMA TakeValueTyped ==
    ASSUME TypeOK
    PROVE  TakeValue \in Value
BY ValueTyped DEF TypeOK, TakeValue

LEMMA FrameTyped ==
    ASSUME NEW n \in Nat
    PROVE  Frame(n) \in FrameType /\ Frame(n).node = n /\ Frame(n).pc = 0 /\ Frame(n).labs = <<>>
           /\ Frame(n).head = 0 /\ Frame(n).slot = NoTemp
<1>1. <<>> \in Seq(Value) /\ <<>> \in Seq(Nat) /\ NoTemp \in Int
  BY SymbolsTyped
<1> QED
  BY <1>1 DEF Frame, FrameType

(* A record just pushed. *)
LEMMA NewFrame ==
    ASSUME TypeOK, status = "lowering", NEW n \in DOMAIN Fn.nodes, NEW L
    PROVE  /\ Frame(n) \in FrameType /\ Shaped(Fn, Frame(n), L) /\ Frame(n).labs = <<>>
           /\ ~Inside(Fn, Frame(n)) /\ ~Breaking(Fn, Frame(n))
<1>1. n \in Nat /\ Fn.nodes[n].kids \in Seq(Nat)
  BY FnTyped
<1>2. /\ Frame(n) \in FrameType /\ Frame(n).node = n /\ Frame(n).pc = 0 /\ Frame(n).labs = <<>>
      /\ Frame(n).slot = NoTemp
  BY <1>1, FrameTyped
<1>3. Due(Fn.nodes[n], 0) = 0 /\ 0 \in 0..Len(Fn.nodes[n].kids) /\ Len(<<>>) = 0
  BY <1>1 DEF Due
<1>4. Shaped(Fn, Frame(n), L)
  BY <1>2, <1>3 DEF Shaped
<1> QED
  BY <1>2, <1>4 DEF Inside, Breaking

(* What a step inside a visit leaves alone. *)
LEMMA SameFn ==
    ASSUME IInv, Active, UnchangedRest
    PROVE  /\ Fn' = Fn /\ FinishedSealed' /\ status' = "lowering"
           /\ program' \in Programs /\ module' \in Seq(Function) /\ Len(module') < Len(program')
<1>1. program' = program /\ module' = module /\ status' = status
  BY DEF UnchangedRest
<1>2. Fn' = Fn
  BY <1>1 DEF Fn
<1>3. FinishedSealed'
  BY <1>1 DEF IInv, FinishedSealed
<1> QED
  BY <1>1, <1>2, <1>3 DEF IInv, TypeOK, Active

(* The invariant of the next state, from its parts. *)
LEMMA InvNext ==
    ASSUME IInv, Active, UnchangedRest, RestTyped,
           stack' \in Seq(FrameType), Graph(blocks'), cur' \in Labels(blocks'),
           loopStack' \in Seq(LoopContext),
           \A f \in DOMAIN stack' : Shaped(Fn, stack'[f], Labels(blocks')),
           Accounted(stack', blocks', cur'),
           LoopsMatch(Fn, stack', loopStack'), BreaksInside(Fn, stack'),
           ContextsInside(loopStack', Labels(blocks'))
    PROVE  IInv'
<1>1. /\ Fn' = Fn /\ FinishedSealed' /\ status' = "lowering"
      /\ program' \in Programs /\ module' \in Seq(Function) /\ Len(module') < Len(program')
  BY SameFn
<1>2. blocks' \in Seq(BasicBlock) /\ cur' \in Nat /\ cur' \in Label'
  BY DEF Graph, Labels, Label
<1>3. Len(module') <= Len(program')
  <2>1. program' \in Seq(AstFn)
    BY <1>1, ProgramAssumption
  <2> QED
    BY <1>1, <2>1
<1>4. TypeOK'
  BY <1>1, <1>2, <1>3 DEF TypeOK, RestTyped
<1>5. Shapes' /\ Account' /\ Loops'
  BY <1>1 DEF Shapes, Account, Loops
<1> QED
  BY <1>1, <1>4, <1>5 DEF IInv

(* The parts of the invariant that a step of a visit uses. *)
LEMMA InvParts ==
    ASSUME IInv, Active
    PROVE  /\ stack \in Seq(FrameType) /\ stack # <<>> /\ TypeOK /\ status = "lowering"
           /\ loopStack \in Seq(LoopContext) /\ Graph(blocks)
           /\ Accounted(stack, blocks, cur) /\ LoopsMatch(Fn, stack, loopStack)
           /\ BreaksInside(Fn, stack) /\ ContextsInside(loopStack, Labels(blocks))
           /\ \A f \in DOMAIN stack : Shaped(Fn, stack[f], Labels(blocks))
           /\ cur \in Labels(blocks) /\ stack[Len(stack)] = Top
<1>1. Accounted(stack, blocks, cur)
  BY DEF IInv, Active, Account
<1> QED
  BY <1>1 DEF IInv, TypeOK, Active, Loops, Shapes, Accounted, Top

LEMMA StayPopInv ==
    ASSUME IInv, StayPop
    PROVE  IInv'
<1> USE DEF StayPop
<1>1. /\ stack \in Seq(FrameType) /\ stack # <<>> /\ TypeOK /\ loopStack \in Seq(LoopContext)
      /\ Accounted(stack, blocks, cur) /\ LoopsMatch(Fn, stack, loopStack)
      /\ BreaksInside(Fn, stack) /\ ContextsInside(loopStack, Labels(blocks))
      /\ \A f \in DOMAIN stack : Shaped(Fn, stack[f], Labels(blocks))
  BY InvParts
<1>2. /\ stack' = PopOf(stack) /\ cur' = cur /\ loopStack' = loopStack
      /\ Graph(blocks') /\ Len(blocks') = Len(blocks)
      /\ Terminated(blocks') \cup {cur} = Terminated(blocks) \cup {cur}
  BY DEF ReturnFromVisit, PopOf, InPlace
<1>3. stack[Len(stack)].labs = <<>> /\ ~Inside(Fn, stack[Len(stack)])
  <2>1. Len(Top.labs) = Due(Node, Top.pc) /\ Top.labs \in Seq(Nat)
    BY TopFacts
  <2>2. Due(Node, Top.pc) = 0
    BY DEF Due, Control
  <2>3. ~Inside(Fn, Top)
    BY DEF Inside, Node, Control
  <2>4. Top.labs = <<>>
    BY <2>1, <2>2
  <2> QED
    BY <2>3, <2>4 DEF Top
<1>4. Labels(blocks') = Labels(blocks)
  BY <1>2 DEF Labels
<1>5. Accounted(stack', blocks', cur')
  BY <1>1, <1>2, <1>3, StayPopAccounted
<1>6. LoopsMatch(Fn, stack', loopStack')
  BY <1>1, <1>2, <1>3, PopPlainLoops
<1>7. /\ stack' \in Seq(FrameType) /\ DOMAIN stack' \subseteq DOMAIN stack
      /\ DOMAIN stack' = 1..(Len(stack) - 1)
      /\ \A f \in DOMAIN stack' : stack'[f] = stack[f]
      /\ Len(stack) - 1 \in Nat
  BY <1>1, <1>2, PopEffect
<1>8. BreaksInside(Fn, stack')
  BY <1>1, <1>7, PopBreaks
<1>9. cur \in Labels(blocks)
  BY <1>1 DEF Accounted
<1>10. \A f \in DOMAIN stack' : Shaped(Fn, stack'[f], Labels(blocks'))
  BY <1>1, <1>4, <1>7
<1> QED
  BY <1>1, <1>2, <1>4, <1>5, <1>6, <1>7, <1>8, <1>9, <1>10, InvNext

(* A larger function keeps the shape of a record. *)
LEMMA ShapedMore ==
    ASSUME NEW fn, NEW f, NEW L, NEW M, L \subseteq M, Shaped(fn, f, L)
    PROVE  Shaped(fn, f, M)
BY DEF Shaped

LEMMA StayPushInv ==
    ASSUME IInv, StayPush
    PROVE  IInv'
<1>1. /\ stack \in Seq(FrameType) /\ stack # <<>> /\ TypeOK /\ status = "lowering"
      /\ Graph(blocks) /\ loopStack \in Seq(LoopContext) /\ cur \in Labels(blocks)
      /\ Accounted(stack, blocks, cur) /\ LoopsMatch(Fn, stack, loopStack)
      /\ BreaksInside(Fn, stack) /\ ContextsInside(loopStack, Labels(blocks))
      /\ \A f \in DOMAIN stack : Shaped(Fn, stack[f], Labels(blocks))
      /\ stack[Len(stack)] = Top
  BY InvParts DEF StayPush
<1>2. PICK f \in FrameType, n \in DOMAIN Fn.nodes :
         /\ stack' = PushOf(stack, f, Frame(n))
         /\ f.labs = Top.labs /\ Shaped(Fn, f, Labels(blocks))
         /\ ~Inside(Fn, Top) /\ ~Inside(Fn, f)
         /\ Breaking(Fn, f) => loopStack # <<>>
  BY DEF StayPush
<1> DEFINE g == Frame(n)
<1>3. /\ g \in FrameType /\ Shaped(Fn, g, Labels(blocks)) /\ g.labs = <<>>
      /\ ~Inside(Fn, g) /\ ~Breaking(Fn, g)
  BY <1>1, NewFrame
<1>4. blocks' = blocks /\ cur' = cur /\ loopStack' = loopStack
  BY DEF StayPush
<1>5. stack' = PushOf(stack, f, g)
  BY <1>2
<1> HIDE DEF g
<1>6. Accounted(stack', blocks, cur)
  BY <1>1, <1>2, <1>3, <1>5, StayPushAccounted
<1>7. LoopsMatch(Fn, stack', loopStack)
  BY <1>1, <1>2, <1>3, <1>5, PushPlainLoops
<1>8. BreaksInside(Fn, stack')
  <2>1. Breaking(Fn, f) => Len(loopStack) # 0 /\ ~Inside(Fn, f)
    BY <1>1, <1>2
  <2> QED
    BY <1>1, <1>2, <1>3, <1>5, <2>1, PushBreaks
<1>9. /\ stack' \in Seq(FrameType) 
      /\ \A k \in DOMAIN stack' : Shaped(Fn, stack'[k], Labels(blocks))
  BY <1>1, <1>2, <1>3, <1>5, PushShaped
<1> QED
  BY <1>1, <1>4, <1>6, <1>7, <1>8, <1>9, InvNext DEF StayPush

LEMMA MovePopInv ==
    ASSUME IInv, MovePop
    PROVE  IInv' /\ cur' \in Labels(blocks) \ (Terminated(blocks) \cup {cur})
<1>1. /\ stack \in Seq(FrameType) /\ stack # <<>> /\ TypeOK /\ status = "lowering"
      /\ loopStack \in Seq(LoopContext) /\ cur \in Labels(blocks)
      /\ Accounted(stack, blocks, cur) /\ LoopsMatch(Fn, stack, loopStack)
      /\ BreaksInside(Fn, stack) /\ ContextsInside(loopStack, Labels(blocks))
      /\ \A f \in DOMAIN stack : Shaped(Fn, stack[f], Labels(blocks))
      /\ stack[Len(stack)] = Top
  BY InvParts DEF MovePop
<1>2. /\ stack' = PopOf(stack) /\ Top.labs = <<cur'>> /\ Range(Top.labs) = {cur'}
      /\ Graph(blocks') /\ Len(blocks') = Len(blocks)
      /\ Terminated(blocks') = Terminated(blocks) \cup {cur}
  BY DEF MovePop, ReturnFromVisit, PopOf, Range
<1>3. Labels(blocks') = Labels(blocks)
  BY <1>2 DEF Labels
<1>4. Accounted(stack', blocks', cur') /\ cur' \in Labels(blocks) \ (Terminated(blocks) \cup {cur})
  BY <1>1, <1>2, MovePopAccounted
<1>5. /\ LoopsMatch(Fn, stack', loopStack') /\ loopStack' \in Seq(LoopContext)
      /\ ContextsInside(loopStack', Labels(blocks))
  <2>1. CASE Inside(Fn, Top)
    <3>1. loopStack' = PopOf(loopStack)
      BY <2>1 DEF MovePop
    <3>2. LoopsMatch(Fn, PopOf(stack), PopOf(loopStack)) /\ loopStack # <<>>
      BY <1>1, <2>1, PopLeaveLoops
    <3>3. /\ PopOf(loopStack) \in Seq(LoopContext)
          /\ \A d \in DOMAIN PopOf(loopStack) : PopOf(loopStack)[d] = loopStack[d] /\ d \in DOMAIN loopStack
      <4>1. /\ PopOf(loopStack) \in Seq(LoopContext) /\ Len(loopStack) \in Nat \ {0}
            /\ DOMAIN PopOf(loopStack) = 1..(Len(loopStack) - 1) /\ DOMAIN loopStack = 1..Len(loopStack)
            /\ \A d \in 1..(Len(loopStack) - 1) : PopOf(loopStack)[d] = loopStack[d]
        BY <1>1, <3>2, PopEffect
      <4> QED
        BY <4>1
    <3> QED
      BY <1>1, <1>2, <3>1, <3>2, <3>3 DEF ContextsInside
  <2>2. CASE ~Inside(Fn, Top)
    <3>1. loopStack' = loopStack
      BY <2>2 DEF MovePop
    <3>2. LoopsMatch(Fn, PopOf(stack), loopStack)
      BY <1>1, <2>2, PopPlainLoops
    <3> QED
      BY <1>1, <1>2, <3>1, <3>2
  <2> QED
    BY <2>1, <2>2
<1>6. /\ stack' \in Seq(FrameType) /\ DOMAIN stack' \subseteq DOMAIN stack
      /\ DOMAIN stack' = 1..(Len(stack) - 1)
      /\ \A f \in DOMAIN stack' : stack'[f] = stack[f]
      /\ Len(stack) - 1 \in Nat
  <2>1. /\ PopOf(stack) \in Seq(FrameType) /\ Len(stack) \in Nat \ {0}
        /\ DOMAIN PopOf(stack) = 1..(Len(stack) - 1) /\ DOMAIN stack = 1..Len(stack)
        /\ \A f \in 1..(Len(stack) - 1) : PopOf(stack)[f] = stack[f]
    BY <1>1, PopEffect
  <2> QED
    BY <1>2, <2>1
<1>7. BreaksInside(Fn, stack')
  BY <1>1, <1>6, PopBreaks
<1>8. \A f \in DOMAIN stack' : Shaped(Fn, stack'[f], Labels(blocks'))
  BY <1>1, <1>3, <1>6
<1> QED
  BY <1>1, <1>2, <1>3, <1>4, <1>5, <1>7, <1>6, <1>8, InvNext DEF MovePop

LEMMA MovePushInv ==
    ASSUME IInv, MovePush
    PROVE  IInv' /\ cur' \in Labels(blocks') \ (Terminated(blocks) \cup {cur})
<1>1. /\ stack \in Seq(FrameType) /\ stack # <<>> /\ TypeOK /\ status = "lowering"
      /\ loopStack \in Seq(LoopContext) /\ cur \in Labels(blocks)
      /\ Accounted(stack, blocks, cur) /\ LoopsMatch(Fn, stack, loopStack)
      /\ BreaksInside(Fn, stack) /\ ContextsInside(loopStack, Labels(blocks))
      /\ \A f \in DOMAIN stack : Shaped(Fn, stack[f], Labels(blocks))
      /\ stack[Len(stack)] = Top
  BY InvParts DEF MovePush
<1>2. PICK f \in FrameType, n \in DOMAIN Fn.nodes :
          /\ stack' = PushOf(stack, f, Frame(n))
          /\ Range(f.labs) \cup {cur'} = Range(Top.labs) \cup (Labels(blocks') \ Labels(blocks))
          /\ cur' \notin Range(f.labs) /\ (Len(f.labs) = 2 => f.labs[1] # f.labs[2])
          /\ Shaped(Fn, f, Labels(blocks'))
          /\ ~Inside(Fn, Top) /\ ~Breaking(Fn, f)
          /\ ~Inside(Fn, f) => UNCHANGED loopStack
          /\ Inside(Fn, f) => \E ctx \in LoopContext :
                                 /\ loopStack' = Append(loopStack, ctx) /\ CtxOf(f, ctx)
                                 /\ ctx.head \in Labels(blocks') /\ ctx.exit \in Labels(blocks')
  BY DEF MovePush
<1> DEFINE g == Frame(n)
<1>3. /\ g \in FrameType /\ Shaped(Fn, g, Labels(blocks')) /\ g.labs = <<>>
      /\ ~Inside(Fn, g) /\ ~Breaking(Fn, g)
  BY <1>1, NewFrame
<1>4. stack' = PushOf(stack, f, g)
  BY <1>2
<1> HIDE DEF g
<1>5. /\ Graph(blocks') /\ Labels(blocks) \subseteq Labels(blocks')
      /\ Terminated(blocks') = Terminated(blocks) \cup {cur}
  <2>1. /\ Graph(blocks') /\ Len(blocks') \in Len(blocks)..(Len(blocks) + 3)
        /\ Terminated(blocks') = Terminated(blocks) \cup {cur}
    BY DEF MovePush
  <2>2. Len(blocks) \in Nat
    BY <1>1 DEF TypeOK
  <2> QED
    BY <2>1, <2>2 DEF Labels
<1>6. /\ Accounted(stack', blocks', cur')
      /\ cur' \in Labels(blocks') \ (Terminated(blocks) \cup {cur})
  BY <1>1, <1>2, <1>3, <1>4, <1>5, MovePushAccounted
<1>7. /\ LoopsMatch(Fn, stack', loopStack') /\ loopStack' \in Seq(LoopContext)
      /\ ContextsInside(loopStack', Labels(blocks'))
  <2>1. CASE Inside(Fn, f)
    <3>1. PICK ctx \in LoopContext : /\ loopStack' = Append(loopStack, ctx) /\ CtxOf(f, ctx)
                                     /\ ctx.head \in Labels(blocks') /\ ctx.exit \in Labels(blocks')
      BY <1>2, <2>1
    <3>2. LoopsMatch(Fn, PushOf(stack, f, g), Append(loopStack, ctx))
      BY <1>1, <1>2, <1>3, <2>1, <3>1, PushEnterLoops
    <3>3. /\ loopStack' \in Seq(LoopContext)
          /\ \A d \in DOMAIN loopStack' :
                \/ d \in DOMAIN loopStack /\ loopStack'[d] = loopStack[d]
                \/ loopStack'[d] = ctx
      BY <1>1, <3>1
    <3> QED
      BY <1>1, <1>4, <1>5, <3>1, <3>2, <3>3 DEF ContextsInside
  <2>2. CASE ~Inside(Fn, f)
    <3>1. loopStack' = loopStack
      BY <1>2, <2>2
    <3>2. LoopsMatch(Fn, PushOf(stack, f, g), loopStack)
      BY <1>1, <1>2, <1>3, <2>2, PushPlainLoops
    <3>3. ContextsInside(loopStack', Labels(blocks'))
      BY <1>1, <1>5, <3>1 DEF ContextsInside
    <3> QED
      BY <1>1, <1>4, <3>1, <3>2, <3>3
  <2> QED
    BY <2>1, <2>2
<1>8. BreaksInside(Fn, stack')
  BY <1>1, <1>2, <1>3, <1>4, PushBreaks
<1>9. \A k \in DOMAIN stack : Shaped(Fn, stack[k], Labels(blocks'))
  BY <1>1, <1>5, ShapedMore
<1>10. /\ stack' \in Seq(FrameType)
       /\ \A k \in DOMAIN stack' : Shaped(Fn, stack'[k], Labels(blocks'))
  BY <1>1, <1>2, <1>3, <1>4, <1>9, PushShaped
<1> QED
  BY <1>1, <1>5, <1>6, <1>7, <1>8, <1>10, InvNext DEF MovePush

-----------------------------------------------------------------------------
(* What may happen to the open block in a step that stays there. *)
LEMMA InPlacePlain ==
    ASSUME IInv, Active
    PROVE  InPlace(blocks) /\ \A i : Plain(i) => InPlace(Emit(blocks, cur, i))
<1>1. Graph(blocks) /\ cur \in Labels(blocks)
  BY InvParts
<1>2. ASSUME NEW i, Plain(i)
      PROVE  InPlace(Emit(blocks, cur, i))
  <2>1. /\ Graph(Emit(blocks, cur, i)) /\ Len(Emit(blocks, cur, i)) = Len(blocks)
        /\ Terminated(Emit(blocks, cur, i)) = Terminated(blocks) \ {cur}
    BY <1>1, <1>2, EmitPlain
  <2> QED
    BY <2>1 DEF InPlace
<1> QED
  BY <1>1, <1>2 DEF InPlace

LEMMA InPlaceReturn ==
    ASSUME IInv, Active, NEW vals \in Seq(Value)
    PROVE  InPlace(Emit(blocks, cur, Return(vals)))
<1>1. Graph(blocks) /\ cur \in Labels(blocks)
  BY InvParts
<1>2. /\ Graph(Emit(blocks, cur, Return(vals)))
      /\ Len(Emit(blocks, cur, Return(vals))) = Len(blocks)
      /\ Terminated(Emit(blocks, cur, Return(vals))) = Terminated(blocks) \cup {cur}
  BY <1>1, EmitReturn
<1> QED
  BY <1>2 DEF InPlace

LEMMA InPlaceJump ==
    ASSUME IInv, Active, NEW bs, InPlace(bs), NEW l \in Labels(blocks)
    PROVE  InPlace(JumpTo(bs, cur, l))
<1>1. Graph(bs) /\ Len(bs) = Len(blocks) /\ Terminated(bs) \cup {cur} = Terminated(blocks) \cup {cur}
  BY DEF InPlace
<1>2. cur \in Labels(bs) /\ l \in Labels(bs)
  BY <1>1, InvParts DEF Labels
<1>3. /\ Graph(JumpTo(bs, cur, l)) /\ Len(JumpTo(bs, cur, l)) = Len(bs)
      /\ Terminated(JumpTo(bs, cur, l)) = Terminated(bs) \cup {cur}
  BY <1>1, <1>2, JumpToEffect
<1> QED
  BY <1>1, <1>3 DEF InPlace

(* The values a node has at hand. *)
LEMMA NodeTyped ==
    ASSUME IInv, Active
    PROVE  /\ Node.sym \in Symbols /\ Node.sym.base \in Texts /\ Node.val \in Value
           /\ TakeValue \in Value /\ nextTemp \in Nat /\ nextTemp + 1 \in Nat
           /\ TempRef(nextTemp) \in Value /\ ImmUnit \in Value
<1>1. Node \in AstNode /\ TypeOK /\ nextTemp \in Nat
  BY TopFacts, InvParts DEF TypeOK
<1>2. Node.sym \in Symbols /\ Node.val \in Value
  BY <1>1 DEF AstNode
<1>3. Node.sym.base \in Texts
  BY <1>2 DEF Symbols
<1> QED
  BY <1>1, <1>2, <1>3, TakeValueTyped, ValueTyped

LEMMA OperandsTyped ==
    ASSUME IInv, Active, Node.kind \in StraightLine, Top.pc = Len(Kids)
    PROVE  Operands \in Seq(Value) /\ Len(Operands) = Len(Kids)
<1>1. /\ Kids \in Seq(Nat) /\ Top.vals \in Seq(Value) /\ TakeValue \in Value
      /\ Shaped(Fn, Top, Labels(blocks))
  BY TopFacts, NodeTyped
<1>2. Top.pc # 0 => Len(Top.vals) = Top.pc - 1
  BY <1>1 DEF Shaped, Node
<1>3. CASE Kids = <<>>
  BY <1>3 DEF Operands
<1>4. CASE Kids # <<>>
  <2>1. Operands = Append(Top.vals, TakeValue)
    BY <1>4 DEF Operands
  <2>2. Len(Kids) \in Nat \ {0}
    BY <1>1, <1>4
  <2> QED
    BY <1>1, <1>2, <2>1, <2>2
<1> QED
  BY <1>3, <1>4

(* The other state variables of a step. *)
LEMMA RestKept ==
    ASSUME IInv
    PROVE  /\ nextTemp' = nextTemp => nextTemp' \in Nat
           /\ locals' = locals => locals' \in Seq(Symbols)
           /\ loopCap' = loopCap => loopCap' \in Nat
           /\ lastValue' = lastValue => (lastValue' \in Seq(Value) /\ Len(lastValue') <= 1)
BY DEF IInv, TypeOK

LEMMA SetValueTyped ==
    ASSUME NEW v \in Value, SetValue(v)
    PROVE  lastValue' \in Seq(Value) /\ Len(lastValue') <= 1
<1>1. <<v>> \in Seq(Value) /\ Len(<<v>>) = 1
  OBVIOUS
<1> QED
  BY <1>1 DEF SetValue

LEMMA ComputeStays ==
    ASSUME IInv, Active, Node.kind \notin Control, NEW i, Plain(i), Compute(i)
    PROVE  StayPop
<1>1. /\ blocks' = Emit(blocks, cur, i) /\ nextTemp' = nextTemp + 1 /\ SetValue(TempRef(nextTemp))
      /\ ReturnFromVisit /\ cur' = cur /\ locals' = locals /\ loopStack' = loopStack
      /\ loopCap' = loopCap /\ UnchangedRest
  BY DEF Compute, loopVars
<1>2. InPlace(blocks')
  BY <1>1, InPlacePlain
<1>3. lastValue' \in Seq(Value) /\ Len(lastValue') <= 1
  BY <1>1, NodeTyped, SetValueTyped
<1>4. RestTyped
  BY <1>1, <1>3, NodeTyped, RestKept DEF RestTyped
<1> QED
  BY <1>1, <1>2, <1>4 DEF StayPop

(* A visit whose node is of kind k. *)
LEMMA AtActive ==
    /\ \A k : AtEnd(k) => Active /\ Node.kind = k /\ Top.pc = Len(Kids)
    /\ \A k, pc : At(k, pc) => Active /\ Node.kind = k /\ Top.pc = pc
    /\ \A ks : Visiting(ks) => Active /\ Node.kind \in ks
BY DEF AtEnd, At, Visiting, Active

LEMMA ComputingSteps ==
    ASSUME IInv, VisitIdent \/ FinishUnary \/ FinishBinary \/ FinishCall
    PROVE  StayPop
<1>1. ASSUME VisitIdent PROVE StayPop
  <2>1. Active /\ Node.kind \notin Control
    BY <1>1, AtActive DEF VisitIdent, Control
  <2>2. Plain(LoadLocal(nextTemp, Node.sym))
    <3>1. Node.sym \in Symbols /\ nextTemp \in Nat /\ TakeValue \in Value
      BY <2>1, NodeTyped
    <3>2. <<>> \in Seq(Value) /\ "=" \in Texts
      BY DEF Texts
    <3> QED
      BY <3>1, <3>2, LoadTyped
  <2> QED
    BY <1>1, <2>1, <2>2, ComputeStays DEF VisitIdent
<1>2. ASSUME FinishUnary PROVE StayPop
  <2>1. Active /\ Node.kind = "unary" /\ Top.pc = Len(Kids)
    BY <1>2, AtActive DEF FinishUnary
  <2>2. Node.kind \in StraightLine /\ Node.kind \notin Control
    BY <2>1 DEF StraightLine, Control
  <2>3. Len(Kids) = 1
    BY <2>1, TopFacts DEF WellFormedNode, Node, Kids
  <2>4. Operands[1] \in Value
    BY <2>1, <2>2, <2>3, OperandsTyped
  <2>5. Plain(UnOp(nextTemp, Node.sym.base, Operands[1]))
    <3>1. Node.sym.base \in Texts /\ Node.sym \in Symbols /\ nextTemp \in Nat /\ <<>> \in Seq(Value)
      BY <2>1, NodeTyped
    <3> QED
      BY <2>4, <3>1, UnOpTyped
  <2> QED
    BY <1>2, <2>1, <2>2, <2>5, ComputeStays DEF FinishUnary
<1>3. ASSUME FinishBinary PROVE StayPop
  <2>1. Active /\ Node.kind = "binary" /\ Top.pc = Len(Kids)
    BY <1>3, AtActive DEF FinishBinary
  <2>2. Node.kind \in StraightLine /\ Node.kind \notin Control
    BY <2>1 DEF StraightLine, Control
  <2>3. Len(Kids) = 2
    BY <2>1, TopFacts DEF WellFormedNode, Node, Kids
  <2>4. Operands[1] \in Value /\ Operands[2] \in Value
    BY <2>1, <2>2, <2>3, OperandsTyped
  <2>5. Plain(BinOp(nextTemp, Node.sym.base, Operands[1], Operands[2]))
    <3>1. Node.sym.base \in Texts /\ nextTemp \in Nat
      BY <2>1, NodeTyped
    <3>2. Node.sym.base \in BinOps
      BY <2>1, TopFacts DEF WellFormedNode, Node, Kids
    <3> QED
      BY <2>4, <3>1, <3>2, BinOpTyped
  <2> QED
    BY <1>3, <2>1, <2>2, <2>5, ComputeStays DEF FinishBinary
<1>4. ASSUME FinishCall PROVE StayPop
  <2>1. Active /\ Node.kind = "call" /\ Top.pc = Len(Kids)
    BY <1>4, AtActive DEF FinishCall
  <2>2. Node.kind \in StraightLine /\ Node.kind \notin Control
    BY <2>1 DEF StraightLine, Control
  <2>3. Operands \in Seq(Value)
    BY <2>1, <2>2, OperandsTyped
  <2>4. Plain(Call(nextTemp, Node.sym, Operands))
    <3>1. Node.sym \in Symbols /\ nextTemp \in Nat /\ TakeValue \in Value /\ "=" \in Texts
      BY <2>1, NodeTyped DEF Texts
    <3> QED
      BY <2>3, <3>1, PlainTyped
  <2> QED
    BY <1>4, <2>1, <2>2, <2>4, ComputeStays DEF FinishCall
<1> QED
  BY <1>1, <1>2, <1>3, <1>4

(* The other steps that end a visit in the open block. *)
LEMMA StayPopIntro ==
    ASSUME IInv, Active, Node.kind \notin Control, UnchangedRest, ReturnFromVisit,
           cur' = cur, loopStack' = loopStack, loopCap' = loopCap, nextTemp' = nextTemp,
           InPlace(blocks'), locals' \in Seq(Symbols),
           lastValue' \in Seq(Value), Len(lastValue') <= 1
    PROVE  StayPop
BY RestKept DEF StayPop, RestTyped

LEMMA LeafSteps ==
    ASSUME IInv, VisitLiteral \/ FinishExprStmt \/ FinishBlock
    PROVE  StayPop
<1>1. ASSUME VisitLiteral PROVE StayPop
  <2>1. Active /\ Node.kind = "literal" /\ Node.kind \notin Control
    BY <1>1, AtActive DEF VisitLiteral, Control
  <2>2. /\ UnchangedRest /\ ReturnFromVisit /\ cur' = cur /\ loopStack' = loopStack
        /\ loopCap' = loopCap /\ nextTemp' = nextTemp
        /\ SetValue(Node.val) /\ blocks' = blocks /\ locals' = locals
    BY <1>1 DEF VisitLiteral, UnchangedFn, fnVars, loopVars
  <2>3. InPlace(blocks')
    BY <2>1, <2>2, InPlacePlain
  <2>4. lastValue' \in Seq(Value) /\ Len(lastValue') <= 1
    BY <2>1, <2>2, NodeTyped, SetValueTyped
  <2> QED
    BY <2>1, <2>2, <2>3, <2>4, RestKept, StayPopIntro
<1>2. ASSUME FinishExprStmt PROVE StayPop
  <2>1. Active /\ Node.kind = "exprstmt" /\ Node.kind \notin Control
    BY <1>2, AtActive DEF FinishExprStmt, Control
  <2>2. /\ UnchangedRest /\ ReturnFromVisit /\ cur' = cur /\ loopStack' = loopStack
        /\ loopCap' = loopCap /\ nextTemp' = nextTemp
        /\ lastValue' = <<>> /\ blocks' = blocks /\ locals' = locals
    BY <1>2 DEF FinishExprStmt, UnchangedFn, fnVars, loopVars
  <2>3. InPlace(blocks')
    BY <2>1, <2>2, InPlacePlain
  <2>4. lastValue' \in Seq(Value) /\ Len(lastValue') <= 1
    BY <2>2
  <2> QED
    BY <2>1, <2>2, <2>3, <2>4, RestKept, StayPopIntro
<1>3. ASSUME FinishBlock PROVE StayPop
  <2>1. Active /\ Node.kind = "block" /\ Node.kind \notin Control
    BY <1>3, AtActive DEF FinishBlock, Control
  <2>2. /\ UnchangedRest /\ ReturnFromVisit /\ cur' = cur /\ loopStack' = loopStack
        /\ loopCap' = loopCap /\ nextTemp' = nextTemp
        /\ lastValue' = lastValue \/ SetValue(ImmUnit)
        /\ blocks' = blocks /\ locals' = locals
    BY <1>3 DEF FinishBlock, UnchangedFn, fnVars, loopVars, SetValue
  <2>3. InPlace(blocks')
    BY <2>1, <2>2, InPlacePlain
  <2>4. lastValue' \in Seq(Value) /\ Len(lastValue') <= 1
    BY <2>2, RestKept, ValueTyped, SetValueTyped
  <2> QED
    BY <2>1, <2>2, <2>3, <2>4, RestKept, StayPopIntro
<1> QED
  BY <1>1, <1>2, <1>3

LEMMA StoringSteps ==
    ASSUME IInv, FinishUnitCall \/ FinishLet \/ FinishAssign
    PROVE  StayPop
<1>1. ASSUME FinishUnitCall PROVE StayPop
  <2>1. Active /\ Node.kind = "call" /\ Node.kind \notin Control
    BY <1>1, AtActive DEF FinishUnitCall, Control
  <2>2. /\ UnchangedRest /\ ReturnFromVisit /\ cur' = cur /\ loopStack' = loopStack
        /\ loopCap' = loopCap /\ nextTemp' = nextTemp
        /\ blocks' = Emit(blocks, cur, Call(NoTemp, Node.sym, Operands))
        /\ SetValue(ImmUnit) /\ locals' = locals
    BY <1>1 DEF FinishUnitCall, UnchangedFn, fnVars, loopVars
  <2>3. Operands \in Seq(Value)
    <3>1. Node.kind \in StraightLine /\ Top.pc = Len(Kids)
      BY <1>1, <2>1, AtActive DEF FinishUnitCall, StraightLine
    <3> QED
      BY <2>1, <3>1, OperandsTyped
  <2>4. Plain(Call(NoTemp, Node.sym, Operands))
    <3>1. Node.sym \in Symbols /\ NoTemp \in Int /\ TakeValue \in Value /\ "=" \in Texts
      BY <2>1, NodeTyped, SymbolsTyped DEF Texts
    <3> QED
      BY <2>3, <3>1, PlainTyped
  <2>5. InPlace(blocks')
    BY <2>1, <2>2, <2>4, InPlacePlain
  <2>6. lastValue' \in Seq(Value) /\ Len(lastValue') <= 1
    BY <2>2, ValueTyped, SetValueTyped
  <2> QED
    BY <2>1, <2>2, <2>5, <2>6, RestKept, StayPopIntro
<1>2. ASSUME FinishLet PROVE StayPop
  <2>1. Active /\ Node.kind = "let" /\ Node.kind \notin Control
    BY <1>2, AtActive DEF FinishLet, Control
  <2>2. /\ UnchangedRest /\ ReturnFromVisit /\ cur' = cur /\ loopStack' = loopStack
        /\ loopCap' = loopCap /\ nextTemp' = nextTemp
        /\ blocks' = Emit(blocks, cur, StoreLocal(Node.sym, TakeValue))
        /\ locals' = Append(locals, Node.sym) /\ lastValue' = lastValue
    BY <1>2 DEF FinishLet, UnchangedFn, fnVars, loopVars
  <2>3. /\ Node.sym \in Symbols /\ TakeValue \in Value /\ NoTemp \in Int /\ "=" \in Texts
        /\ <<>> \in Seq(Value)
    BY <2>1, NodeTyped, SymbolsTyped DEF Texts
  <2>4. Plain(StoreLocal(Node.sym, TakeValue))
    BY <2>3, PlainTyped
  <2>5. InPlace(blocks')
    BY <2>1, <2>2, <2>4, InPlacePlain
  <2>6. locals' \in Seq(Symbols)
    BY <2>2, <2>3 DEF IInv, TypeOK
  <2> QED
    BY <2>1, <2>2, <2>5, <2>6, RestKept, StayPopIntro
<1>3. ASSUME FinishAssign PROVE StayPop
  <2>1. Active /\ Node.kind = "assign" /\ Node.kind \notin Control
    BY <1>3, AtActive DEF FinishAssign, Control
  <2>2. /\ UnchangedRest /\ ReturnFromVisit /\ cur' = cur /\ loopStack' = loopStack
        /\ loopCap' = loopCap /\ nextTemp' = nextTemp
        /\ blocks' = Emit(blocks, cur, StoreLocal(Node.sym, TakeValue))
        /\ SetValue(TakeValue) /\ locals' = locals
    BY <1>3 DEF FinishAssign, UnchangedFn, fnVars, loopVars
  <2>3. /\ Node.sym \in Symbols /\ TakeValue \in Value /\ NoTemp \in Int /\ "=" \in Texts
        /\ <<>> \in Seq(Value)
    BY <2>1, NodeTyped, SymbolsTyped DEF Texts
  <2>4. Plain(StoreLocal(Node.sym, TakeValue))
    BY <2>3, PlainTyped
  <2>5. InPlace(blocks')
    BY <2>1, <2>2, <2>4, InPlacePlain
  <2>6. lastValue' \in Seq(Value) /\ Len(lastValue') <= 1
    BY <2>2, <2>3, SetValueTyped
  <2> QED
    BY <2>1, <2>2, <2>5, <2>6, RestKept, StayPopIntro
<1> QED
  BY <1>1, <1>2, <1>3

(* The label a break or continue reads from loop_stack_ names a block. *)
LEMMA InnermostTyped ==
    ASSUME IInv, Active, loopStack # <<>>
    PROVE  /\ Innermost.head \in Labels(blocks) /\ Innermost.exit \in Labels(blocks)
           /\ Innermost.slot \in Int
<1>1. loopStack \in Seq(LoopContext) /\ ContextsInside(loopStack, Labels(blocks))
  BY InvParts
<1>2. Len(loopStack) \in DOMAIN loopStack /\ Innermost \in LoopContext
  BY <1>1 DEF Innermost
<1> QED
  BY <1>1, <1>2 DEF ContextsInside, Innermost, LoopContext

(* ... and the one that lowers its value is inside a loop. *)
LEMMA BreakInLoop ==
    ASSUME IInv, At("break", 1)
    PROVE  loopStack # <<>>
<1>1. Active /\ Node.kind = "break" /\ Top.pc = 1
  BY AtActive
<1>2. /\ stack \in Seq(FrameType) /\ loopStack \in Seq(LoopContext)
      /\ LoopsMatch(Fn, stack, loopStack) /\ BreaksInside(Fn, stack)
      /\ stack[Len(stack)] = Top
  BY <1>1, InvParts
<1>3. Len(stack) \in DOMAIN stack /\ Len(stack) \in Nat
  BY <1>1, <1>2, TopFacts
<1>4. Breaking(Fn, Top)
  BY <1>1 DEF Breaking, Node
<1>5. Within(Fn, stack, Len(stack)) # {}
  BY <1>2, <1>3, <1>4 DEF BreaksInside
<1>6. Cardinality(Within(Fn, stack, Len(stack))) # 0
  BY <1>3, <1>5, WithinCount, FS_EmptySet
<1> QED
  BY <1>2, <1>6 DEF LoopsMatch

LEMMA StoreSlotInPlace ==
    ASSUME IInv, Active, NEW n \in Int, NEW l \in Labels(blocks)
    PROVE  InPlace(JumpTo(Emit(blocks, cur, StoreLocal(LoopSlot(n), TakeValue)), cur, l))
<1>1. /\ LoopSlot(n) \in Symbols /\ TakeValue \in Value /\ NoTemp \in Int /\ "=" \in Texts
      /\ <<>> \in Seq(Value)
  BY NodeTyped, SymbolsTyped DEF Texts
<1>2. Plain(StoreLocal(LoopSlot(n), TakeValue))
  BY <1>1, PlainTyped
<1>3. InPlace(Emit(blocks, cur, StoreLocal(LoopSlot(n), TakeValue)))
  BY <1>2, InPlacePlain
<1> QED
  BY <1>3, InPlaceJump

LEMMA JumpingSteps ==
    ASSUME IInv, FinishReturn \/ BreakWithoutValue \/ VisitContinue
    PROVE  StayPop
<1>1. ASSUME FinishReturn PROVE StayPop
  <2>1. Active /\ Node.kind = "return" /\ Node.kind \notin Control
    BY <1>1, AtActive DEF FinishReturn, Control
  <2>2. /\ UnchangedRest /\ ReturnFromVisit /\ cur' = cur /\ loopStack' = loopStack
        /\ loopCap' = loopCap /\ nextTemp' = nextTemp
        /\ blocks' = Emit(blocks, cur, Return(Operands))
        /\ SetValue(ImmUnit) /\ locals' = locals
    BY <1>1 DEF FinishReturn, UnchangedFn, fnVars, loopVars
  <2>3. Operands \in Seq(Value)
    <3>1. Node.kind \in StraightLine /\ Top.pc = Len(Kids)
      BY <1>1, <2>1, AtActive DEF FinishReturn, StraightLine
    <3> QED
      BY <2>1, <3>1, OperandsTyped
  <2>4. InPlace(blocks')
    BY <2>1, <2>2, <2>3, InPlaceReturn
  <2>5. lastValue' \in Seq(Value) /\ Len(lastValue') <= 1
    BY <2>2, ValueTyped, SetValueTyped
  <2> QED
    BY <2>1, <2>2, <2>4, <2>5, RestKept, StayPopIntro
<1>2. ASSUME BreakWithoutValue PROVE StayPop
  <2>1. Active /\ Node.kind = "break" /\ Node.kind \notin Control
    BY <1>2, AtActive DEF BreakWithoutValue, Control
  <2>2. /\ UnchangedRest /\ ReturnFromVisit /\ cur' = cur /\ loopStack' = loopStack
        /\ loopCap' = loopCap /\ nextTemp' = nextTemp
        /\ locals' = locals
        /\ loopStack = <<>> => blocks' = blocks /\ lastValue' = lastValue
        /\ loopStack # <<>> => blocks' = JumpTo(blocks, cur, Innermost.exit) /\ SetValue(ImmUnit)
    BY <1>2 DEF BreakWithoutValue, UnchangedFn, fnVars, loopVars
  <2>3. InPlace(blocks')
    BY <2>1, <2>2, InnermostTyped, InPlacePlain, InPlaceJump
  <2>4. lastValue' \in Seq(Value) /\ Len(lastValue') <= 1
    BY <2>2, RestKept, ValueTyped, SetValueTyped
  <2> QED
    BY <2>1, <2>2, <2>3, <2>4, RestKept, StayPopIntro
<1>3. ASSUME VisitContinue PROVE StayPop
  <2>1. Active /\ Node.kind = "continue" /\ Node.kind \notin Control
    BY <1>3, AtActive DEF VisitContinue, Control
  <2>2. /\ UnchangedRest /\ ReturnFromVisit /\ cur' = cur /\ loopStack' = loopStack
        /\ loopCap' = loopCap /\ nextTemp' = nextTemp
        /\ locals' = locals
        /\ loopStack = <<>> => blocks' = blocks /\ lastValue' = lastValue
        /\ loopStack # <<>> => blocks' = JumpTo(blocks, cur, Innermost.head) /\ SetValue(ImmUnit)
    BY <1>3 DEF VisitContinue, UnchangedFn, fnVars, loopVars
  <2>3. InPlace(blocks')
    BY <2>1, <2>2, InnermostTyped, InPlacePlain, InPlaceJump
  <2>4. lastValue' \in Seq(Value) /\ Len(lastValue') <= 1
    BY <2>2, RestKept, ValueTyped, SetValueTyped
  <2> QED
    BY <2>1, <2>2, <2>3, <2>4, RestKept, StayPopIntro
<1> QED
  BY <1>1, <1>2, <1>3

LEMMA BreakingSteps ==
    ASSUME IInv, BreakStore \/ BreakGarbage
    PROVE  StayPop
<1>1. At("break", 1) /\ Active /\ Node.kind \notin Control
  BY AtActive DEF BreakStore, BreakGarbage, Control
<1>2. loopStack # <<>>
  BY <1>1, BreakInLoop
<1>3. /\ UnchangedRest /\ ReturnFromVisit /\ cur' = cur /\ loopStack' = loopStack
      /\ loopCap' = loopCap /\ nextTemp' = nextTemp /\ locals' = locals
      /\ SetValue(ImmUnit)
  BY DEF BreakStore, BreakGarbage, loopVars
<1>4. lastValue' \in Seq(Value) /\ Len(lastValue') <= 1
  BY <1>3, ValueTyped, SetValueTyped
<1>5. InPlace(blocks')
  <2>1. CASE BreakStore
    <3>1. blocks' = JumpTo(Emit(blocks, cur, StoreLocal(LoopSlot(Innermost.slot), TakeValue)),
                           cur, Innermost.exit)
      BY <2>1 DEF BreakStore
    <3>2. Innermost.slot \in Int /\ Innermost.exit \in Labels(blocks)
      BY <1>1, <1>2, InnermostTyped
    <3> QED
      BY <1>1, <3>1, <3>2, StoreSlotInPlace
  <2>2. CASE BreakGarbage
    <3>1. PICK exit \in Label, slot \in 0..nextTemp :
             blocks' = JumpTo(Emit(blocks, cur, StoreLocal(LoopSlot(slot), TakeValue)), cur, exit)
      BY <2>2 DEF BreakGarbage
    <3>2. exit \in Labels(blocks) /\ slot \in Int
      BY <1>1, TopFacts
    <3> QED
      BY <1>1, <3>1, <3>2, StoreSlotInPlace
  <2> QED
    BY <2>1, <2>2
<1> QED
  BY <1>1, <1>3, <1>4, <1>5, RestKept, StayPopIntro

-----------------------------------------------------------------------------
(* Steps that start a visit in the open block. *)
LEMMA WithPc ==
    ASSUME NEW f \in FrameType, NEW k \in Nat
    PROVE  /\ [f EXCEPT !.pc = k] \in FrameType
           /\ [f EXCEPT !.pc = k].pc = k /\ [f EXCEPT !.pc = k].node = f.node
           /\ [f EXCEPT !.pc = k].vals = f.vals /\ [f EXCEPT !.pc = k].labs = f.labs
           /\ [f EXCEPT !.pc = k].head = f.head /\ [f EXCEPT !.pc = k].slot = f.slot
BY DEF FrameType

(* accept() pushes a record for the operand and leaves f below it. *)
LEMMA AcceptPushes ==
    ASSUME IInv, Active, NEW f \in FrameType, NEW k \in 1..Len(Kids), Accept(f, k)
    PROVE  \E g \in FrameType, n \in DOMAIN Fn.nodes :
              /\ stack' = PushOf(stack, g, Frame(n))
              /\ g.pc = k /\ g.node = f.node /\ g.vals = f.vals /\ g.labs = f.labs
              /\ g.head = f.head /\ g.slot = f.slot
<1> DEFINE g == [f EXCEPT !.pc = k]
<1>1. Kids \in Seq(Nat) /\ Kids[k] \in DOMAIN Fn.nodes /\ k \in Nat
  BY TopFacts
<1>2. stack' = PushOf(stack, g, Frame(Kids[k]))
  BY DEF Accept, PushOf
<1>3. /\ g \in FrameType /\ g.pc = k /\ g.node = f.node /\ g.vals = f.vals /\ g.labs = f.labs
      /\ g.head = f.head /\ g.slot = f.slot
  BY <1>1, WithPc
<1> HIDE DEF g
<1> QED
  BY <1>1, <1>2, <1>3

LEMMA StayPushIntro ==
    ASSUME IInv, Active, UnchangedRest, UnchangedFn, UNCHANGED <<lastValue, loopVars>>,
           Node.kind \notin {"while", "loop"},
           NEW f \in FrameType, NEW k \in 1..Len(Kids), Accept(f, k),
           f.node = Top.node, f.labs = Top.labs,
           Due(Node, k) = Due(Node, Top.pc),
           Node.kind \in StraightLine => Len(f.vals) = k - 1,
           Node.kind = "break" => loopStack # <<>>
    PROVE  StayPush
<1>1. PICK g \in FrameType, n \in DOMAIN Fn.nodes :
         /\ stack' = PushOf(stack, g, Frame(n))
         /\ g.pc = k /\ g.node = f.node /\ g.vals = f.vals /\ g.labs = f.labs
         /\ g.head = f.head /\ g.slot = f.slot
  BY AcceptPushes
<1>2. /\ Top.node \in DOMAIN Fn.nodes /\ Kids \in Seq(Nat) /\ Top.labs \in Seq(Nat)
      /\ Len(Top.labs) = Due(Node, Top.pc)
  BY TopFacts
<1>3. g.node = Top.node /\ g.labs = Top.labs /\ k \in 0..Len(Kids)
  BY <1>1, <1>2
<1>4. Shaped(Fn, g, Labels(blocks))
  BY <1>1, <1>2, <1>3 DEF Shaped, Node, Kids
<1>5. ~Inside(Fn, Top) /\ ~Inside(Fn, g) /\ (Breaking(Fn, g) => loopStack # <<>>)
  BY <1>3 DEF Inside, Breaking, Node
<1>6. RestTyped
  BY RestKept DEF RestTyped, UnchangedFn, fnVars, loopVars
<1>7. blocks' = blocks /\ cur' = cur /\ loopStack' = loopStack
  BY DEF UnchangedFn, fnVars, loopVars
<1> QED
  BY <1>1, <1>3, <1>4, <1>5, <1>6, <1>7 DEF StayPush

LEMMA DueNothing ==
    \A k : Node.kind \notin Control => Due(Node, k) = 0
BY DEF Due, Control

LEMMA AppendFacts ==
    ASSUME NEW S, NEW s \in Seq(S), NEW e \in S
    PROVE  Append(s, e) \in Seq(S) /\ Len(Append(s, e)) = Len(s) + 1
OBVIOUS

LEMMA OperandSteps ==
    ASSUME IInv, VisitOperand \/ VisitBlockItem \/ IfCondition \/ BreakValue
    PROVE  StayPush
<1>1. ASSUME VisitOperand PROVE StayPush
  <2> DEFINE vals == IF Top.pc = 0 THEN <<>> ELSE Append(Top.vals, TakeValue)
             f    == [Top EXCEPT !.vals = vals]
  <2>1. Active /\ Node.kind \in StraightLine /\ Top.pc < Len(Kids)
    BY <1>1, AtActive DEF VisitOperand
  <2>2. Node.kind \notin Control /\ Node.kind # "break"
    BY <2>1 DEF StraightLine, Control
  <2>3. /\ Top \in FrameType /\ Top.vals \in Seq(Value) /\ TakeValue \in Value
        /\ Top.pc \in 0..Len(Kids) /\ Kids \in Seq(Nat) /\ Shaped(Fn, Top, Labels(blocks))
    BY <2>1, TopFacts, NodeTyped
  <2>4. Top.pc # 0 => Len(Top.vals) = Top.pc - 1
    BY <2>1, <2>3 DEF Shaped, Node
  <2>5. vals \in Seq(Value) /\ Len(vals) = (Top.pc + 1) - 1
    <3>1. CASE Top.pc = 0
      BY <3>1
    <3>2. CASE Top.pc # 0
      <4>1. /\ Append(Top.vals, TakeValue) \in Seq(Value)
            /\ Len(Append(Top.vals, TakeValue)) = Len(Top.vals) + 1
        BY <2>3, AppendFacts
      <4>2. Len(Top.vals) + 1 = (Top.pc + 1) - 1
        <5>1. Top.pc \in Int /\ Len(Top.vals) = Top.pc - 1
          BY <2>3, <2>4, <3>2
        <5> QED
          BY <5>1
      <4>3. vals = Append(Top.vals, TakeValue)
        BY <3>2
      <4> QED
        BY <4>1, <4>2, <4>3
    <3> QED
      BY <3>1, <3>2
  <2>6. Accept(f, Top.pc + 1) /\ UnchangedRest /\ UnchangedFn /\ UNCHANGED <<lastValue, loopVars>>
    BY <1>1 DEF VisitOperand
  <2> HIDE DEF vals
  <2>7. f \in FrameType /\ f.node = Top.node /\ f.labs = Top.labs /\ f.vals = vals
    BY <2>3, <2>5 DEF FrameType
  <2>8. Due(Node, Top.pc + 1) = Due(Node, Top.pc)
    BY <2>2, DueNothing
  <2>9. Top.pc + 1 \in 1..Len(Kids) /\ Node.kind \notin {"while", "loop"}
    BY <2>1, <2>2, <2>3 DEF Control
  <2> HIDE DEF f
  <2> QED
    BY <2>1, <2>2, <2>5, <2>6, <2>7, <2>8, <2>9, StayPushIntro
<1>2. ASSUME VisitBlockItem PROVE StayPush
  <2>1. Active /\ Node.kind = "block" /\ Top.pc < Len(Kids)
    BY <1>2, AtActive DEF VisitBlockItem
  <2>2. Node.kind \notin Control /\ Node.kind # "break" /\ Node.kind \notin StraightLine
    BY <2>1 DEF StraightLine, Control
  <2>3. Top \in FrameType /\ Top.pc \in 0..Len(Kids) /\ Kids \in Seq(Nat)
    BY <2>1, TopFacts
  <2>4. Accept(Top, Top.pc + 1) /\ UnchangedRest /\ UnchangedFn /\ UNCHANGED <<lastValue, loopVars>>
    BY <1>2 DEF VisitBlockItem
  <2>5. Due(Node, Top.pc + 1) = Due(Node, Top.pc)
    BY <2>2, DueNothing
  <2>6. Top.pc + 1 \in 1..Len(Kids) /\ Node.kind \notin {"while", "loop"}
    BY <2>1, <2>3
  <2> QED
    BY <2>1, <2>2, <2>3, <2>4, <2>5, <2>6, StayPushIntro
<1>3. ASSUME IfCondition PROVE StayPush
  <2>1. Active /\ Node.kind = "if" /\ Top.pc = 0
    BY <1>3, AtActive DEF IfCondition
  <2>2. Node.kind \notin StraightLine
    BY <2>1 DEF StraightLine
  <2>3. Top \in FrameType /\ Len(Kids) \in {2, 3}
    BY <2>1, TopFacts DEF WellFormedNode, Node, Kids
  <2>4. Accept(Top, 1) /\ UnchangedRest /\ UnchangedFn /\ UNCHANGED <<lastValue, loopVars>>
    BY <1>3 DEF IfCondition
  <2>5. Due(Node, 1) = Due(Node, Top.pc) /\ 1 \in 1..Len(Kids)
    BY <2>1, <2>3 DEF Due
  <2> QED
    BY <2>1, <2>2, <2>3, <2>4, <2>5, StayPushIntro
<1>4. ASSUME BreakValue PROVE StayPush
  <2> DEFINE f == [Top EXCEPT !.cap = loopCap]
  <2>1. Active /\ Node.kind = "break" /\ Top.pc = 0 /\ BreakHasSlot
    BY <1>4, AtActive DEF BreakValue
  <2>2. Node.kind \notin Control /\ Node.kind \notin StraightLine
    BY <2>1 DEF StraightLine, Control
  <2>3. Top \in FrameType /\ loopCap \in Nat
    BY <2>1, TopFacts DEF IInv, TypeOK
  <2>4. Accept(f, 1) /\ UnchangedRest /\ UnchangedFn /\ UNCHANGED <<lastValue, loopVars>>
    BY <1>4 DEF BreakValue
  <2>5. f \in FrameType /\ f.node = Top.node /\ f.labs = Top.labs
    BY <2>3 DEF FrameType
  <2>6. Due(Node, 1) = Due(Node, Top.pc)
    BY <2>2, DueNothing
  <2>7. 1 \in 1..Len(Kids) /\ loopStack # <<>>
    <3>1. Kids # <<>> /\ loopStack # <<>>
      BY <2>1 DEF BreakHasSlot
    <3>2. Kids \in Seq(Nat)
      BY <2>1, TopFacts
    <3> QED
      BY <3>1, <3>2
  <2> HIDE DEF f
  <2> QED
    BY <2>1, <2>2, <2>4, <2>5, <2>6, <2>7, StayPushIntro
<1> QED
  BY <1>1, <1>2, <1>3, <1>4

-----------------------------------------------------------------------------
(* Steps that leave the open block. *)

(* New blocks change nothing for the old ones. *)
LEMMA GrowEffect ==
    ASSUME IInv, Active, NEW n \in Nat
    PROVE  /\ Graph(AddBlocks(blocks, n)) /\ Len(AddBlocks(blocks, n)) = Len(blocks) + n
           /\ Terminated(AddBlocks(blocks, n)) = Terminated(blocks)
           /\ Len(blocks) \in Nat /\ Labels(blocks) \subseteq Labels(AddBlocks(blocks, n))
           /\ cur \in Labels(AddBlocks(blocks, n))
           /\ \A k \in 1..n : Len(blocks) + k \in Labels(AddBlocks(blocks, n))
<1>1. Graph(blocks) /\ cur \in Labels(blocks) /\ blocks \in Seq(BasicBlock)
  BY InvParts DEF Graph
<1>2. Graph(AddBlocks(blocks, n))
  BY <1>1, AddBlocksGraph
<1>3. Terminated(AddBlocks(blocks, n)) = Terminated(blocks)
  BY <1>1, AddBlocksTerminated
<1>4. Len(AddBlocks(blocks, n)) = Len(blocks) + n
  BY <1>1, AddBlocksEffect
<1>5. Len(blocks) \in Nat
  BY <1>1
<1> QED
  BY <1>1, <1>2, <1>3, <1>4, <1>5 DEF Labels

(* The labels a visit still has to switch to. *)
LEMMA TopLabel ==
    ASSUME IInv, Active
    PROVE  \A k \in 1..Len(Top.labs) :
              Top.labs[k] \in Labels(blocks) \ (Terminated(blocks) \cup {cur})
<1>1. Accounted(stack, blocks, cur) /\ stack[Len(stack)] = Top
  BY InvParts
<1>2. Len(stack) \in DOMAIN stack /\ Top.labs \in Seq(Nat)
  BY TopFacts
<1>3. Range(Top.labs) \subseteq Labels(blocks) \ (Terminated(blocks) \cup {cur})
  BY <1>1, <1>2 DEF Accounted
<1>4. \A k \in 1..Len(Top.labs) : Top.labs[k] \in Range(Top.labs)
  BY <1>2 DEF Range
<1> QED
  BY <1>3, <1>4

LEMMA FallThroughEffect ==
    ASSUME NEW bs, Graph(bs), cur \in Labels(bs), NEW l \in Labels(bs)
    PROVE  /\ Graph(FallThrough(bs, l)) /\ Len(FallThrough(bs, l)) = Len(bs)
           /\ Terminated(FallThrough(bs, l)) = Terminated(bs) \cup {cur}
<1>1. CASE IsTerminated(bs[cur])
  BY <1>1 DEF FallThrough, Terminated
<1>2. CASE ~IsTerminated(bs[cur])
  <2>1. FallThrough(bs, l) = JumpTo(bs, cur, l)
    BY <1>2 DEF FallThrough
  <2> QED
    BY <2>1, JumpToEffect
<1> QED
  BY <1>1, <1>2

(* The end of a branch: store the result, then fall through. *)
LEMMA EndOfBranch ==
    ASSUME IInv, Active, NEW l \in Labels(blocks)
    PROVE  LET bs == FallThrough(StoreResult(blocks, Top), l)
           IN  /\ Graph(bs) /\ Len(bs) = Len(blocks)
               /\ Terminated(bs) = Terminated(blocks) \cup {cur}
<1> DEFINE st == StoreResult(blocks, Top)
<1>1. Graph(blocks) /\ cur \in Labels(blocks)
  BY InvParts
<1>2. Plain(StoreLocal(IfSlot(Top.slot), TakeValue))
  <2>1. /\ TakeValue \in Value /\ Top.slot \in Int /\ NoTemp \in Int /\ "=" \in Texts
        /\ <<>> \in Seq(Value)
    BY NodeTyped, TopFacts, SymbolsTyped DEF Texts
  <2>2. IfSlot(Top.slot) \in Symbols
    BY <2>1, SymbolsTyped
  <2> QED
    BY <2>1, <2>2, PlainTyped
<1>3. InPlace(st)
  BY <1>2, InPlacePlain DEF StoreResult
<1> HIDE DEF st
<1>4. /\ Graph(st) /\ Len(st) = Len(blocks) /\ cur \in Labels(st) /\ l \in Labels(st)
      /\ Terminated(st) \cup {cur} = Terminated(blocks) \cup {cur}
  BY <1>1, <1>3 DEF InPlace, Labels
<1>5. /\ Graph(FallThrough(st, l)) /\ Len(FallThrough(st, l)) = Len(st)
      /\ Terminated(FallThrough(st, l)) = Terminated(st) \cup {cur}
  BY <1>4, FallThroughEffect
<1> QED
  BY <1>4, <1>5 DEF st

(* Loading the result into a block that is still empty of terminators. *)
LEMMA LoadSlotEffect ==
    ASSUME IInv, Active, NEW bs, Graph(bs), NEW b \in Labels(bs), b \notin Terminated(bs),
           NEW has \in BOOLEAN, NEW x \in Symbols, LoadSlot(bs, b, has, x)
    PROVE  /\ Graph(blocks') /\ Len(blocks') = Len(bs) /\ Terminated(blocks') = Terminated(bs)
           /\ nextTemp' \in Nat /\ lastValue' \in Seq(Value) /\ Len(lastValue') <= 1
<1>1. /\ TakeValue \in Value /\ nextTemp \in Nat /\ nextTemp \in Nat /\ "=" \in Texts
      /\ <<>> \in Seq(Value) /\ TempRef(nextTemp) \in Value /\ ImmUnit \in Value
  BY NodeTyped DEF Texts
<1>2. Plain(LoadLocal(nextTemp, x))
  BY <1>1, LoadTyped
<1>3. CASE has
  <2>1. blocks' = Emit(bs, b, LoadLocal(nextTemp, x)) /\ nextTemp' = nextTemp + 1
    BY <1>3 DEF LoadSlot
  <2>2. SetValue(TempRef(nextTemp))
    BY <1>3 DEF LoadSlot
  <2>3. /\ Graph(blocks') /\ Len(blocks') = Len(bs) /\ Terminated(blocks') = Terminated(bs) \ {b}
    BY <1>2, <2>1, EmitPlain
  <2> QED
    BY <1>1, <2>1, <2>2, <2>3, SetValueTyped
<1>4. CASE ~has
  <2>1. blocks' = bs /\ nextTemp' = nextTemp
    BY <1>4 DEF LoadSlot
  <2>2. SetValue(ImmUnit)
    BY <1>4 DEF LoadSlot
  <2> QED
    BY <1>1, <2>1, <2>2, SetValueTyped
<1> QED
  BY <1>3, <1>4

LEMMA IfMergeMoves ==
    ASSUME IInv, IfMerge
    PROVE  MovePop
<1> DEFINE merge == Top.labs[1]
           bs    == FallThrough(StoreResult(blocks, Top), merge)
<1>1. Active /\ Node.kind = "if" /\ Top.pc = Len(Kids)
  BY AtActive DEF IfMerge
<1>2. Len(Kids) \in {2, 3}
  BY <1>1, TopFacts DEF WellFormedNode, Node, Kids
<1>3. Len(Top.labs) = 1 /\ Top.labs \in Seq(Nat)
  <2>1. Len(Top.labs) = Due(Node, Top.pc) /\ Top.labs \in Seq(Nat)
    BY <1>1, TopFacts
  <2>2. Due(Node, Top.pc) = 1
    <3>1. CASE Top.pc = 2
      BY <1>1, <3>1 DEF Due, Kids
    <3>2. CASE Top.pc = 3
      BY <1>1, <3>2 DEF Due
    <3> QED
      BY <1>1, <1>2, <3>1, <3>2
  <2> QED
    BY <2>1, <2>2
<1>4. Top.labs = <<merge>> /\ merge \in Labels(blocks) \ (Terminated(blocks) \cup {cur})
  BY <1>1, <1>3, TopLabel
<1>5. /\ LoadSlot(bs, merge, Top.slot # NoTemp, IfSlot(Top.slot))
      /\ cur' = merge /\ ReturnFromVisit /\ locals' = locals /\ loopStack' = loopStack
      /\ loopCap' = loopCap /\ UnchangedRest
  BY DEF IfMerge, loopVars
<1> HIDE DEF merge
<1>6. /\ Graph(bs) /\ Len(bs) = Len(blocks) /\ Terminated(bs) = Terminated(blocks) \cup {cur}
  BY <1>1, <1>4, EndOfBranch
<1> HIDE DEF bs
<1>7. IfSlot(Top.slot) \in Symbols
  BY <1>1, TopFacts, SymbolsTyped
<1>8. merge \in Labels(bs) /\ merge \notin Terminated(bs)
  BY <1>4, <1>6 DEF Labels
<1>9. /\ Graph(blocks') /\ Len(blocks') = Len(bs) /\ Terminated(blocks') = Terminated(bs)
      /\ nextTemp' \in Nat /\ lastValue' \in Seq(Value) /\ Len(lastValue') <= 1
  BY <1>1, <1>5, <1>6, <1>7, <1>8, LoadSlotEffect
<1>10. RestTyped
  BY <1>5, <1>9, RestKept DEF RestTyped
<1>11. ~Inside(Fn, Top)
  BY <1>1 DEF Inside, Node
<1> QED
  BY <1>1, <1>4, <1>5, <1>6, <1>9, <1>10, <1>11 DEF MovePop

LEMMA WhileExitMoves ==
    ASSUME IInv, WhileExit
    PROVE  MovePop
<1>1. Active /\ Node.kind = "while" /\ Top.pc = 2
  BY AtActive DEF WhileExit
<1>2. Len(Top.labs) = 1 /\ Top.labs \in Seq(Nat)
  BY <1>1, TopFacts DEF Due
<1>3. /\ Top.labs = <<Top.labs[1]>>
      /\ Top.labs[1] \in Labels(blocks) \ (Terminated(blocks) \cup {cur})
  BY <1>1, <1>2, TopLabel
<1>4. Top.head \in Labels(blocks)
  BY <1>1, TopFacts DEF Shaped, Node
<1>5. /\ blocks' = FallThrough(blocks, Top.head)
      /\ cur' = Top.labs[1] /\ ReturnFromVisit /\ locals' = locals
      /\ loopStack' = PopOf(loopStack) /\ loopCap' = loopCap /\ nextTemp' = nextTemp
      /\ UnchangedRest /\ SetValue(ImmUnit)
  BY DEF WhileExit, PopLoop, PopOf
<1>6. Graph(blocks) /\ cur \in Labels(blocks)
  BY <1>1, InvParts
<1>7. /\ Graph(blocks') /\ Len(blocks') = Len(blocks)
      /\ Terminated(blocks') = Terminated(blocks) \cup {cur}
  BY <1>4, <1>5, <1>6, FallThroughEffect
<1>8. lastValue' \in Seq(Value) /\ Len(lastValue') <= 1
  BY <1>5, ValueTyped, SetValueTyped
<1>9. RestTyped
  BY <1>5, <1>8, RestKept DEF RestTyped
<1>10. Inside(Fn, Top)
  BY <1>1 DEF Inside, Node
<1> QED
  BY <1>1, <1>3, <1>5, <1>7, <1>9, <1>10 DEF MovePop

LEMMA LoopExitMoves ==
    ASSUME IInv, LoopExit
    PROVE  MovePop
<1> DEFINE exit == Top.labs[1]
           bs   == FallThrough(blocks, Top.head)
<1>1. Active /\ Node.kind = "loop" /\ Top.pc = 1
  BY AtActive DEF LoopExit
<1>2. Len(Top.labs) = 1 /\ Top.labs \in Seq(Nat)
  BY <1>1, TopFacts DEF Due
<1>3. Top.labs = <<exit>> /\ exit \in Labels(blocks) \ (Terminated(blocks) \cup {cur})
  BY <1>1, <1>2, TopLabel
<1>4. Top.head \in Labels(blocks)
  BY <1>1, TopFacts DEF Shaped, Node
<1>5. /\ LoadSlot(bs, exit, Top.slot # NoTemp, LoopSlot(Top.slot))
      /\ cur' = exit /\ ReturnFromVisit /\ locals' = locals
      /\ loopStack' = PopOf(loopStack) /\ loopCap' = loopCap /\ UnchangedRest
  BY DEF LoopExit, PopLoop, PopOf
<1> HIDE DEF exit
<1>6. Graph(blocks) /\ cur \in Labels(blocks)
  BY <1>1, InvParts
<1>7. /\ Graph(bs) /\ Len(bs) = Len(blocks) /\ Terminated(bs) = Terminated(blocks) \cup {cur}
  BY <1>4, <1>6, FallThroughEffect
<1> HIDE DEF bs
<1>8. LoopSlot(Top.slot) \in Symbols
  BY <1>1, TopFacts, SymbolsTyped
<1>9. exit \in Labels(bs) /\ exit \notin Terminated(bs)
  BY <1>3, <1>7 DEF Labels
<1>10. /\ Graph(blocks') /\ Len(blocks') = Len(bs) /\ Terminated(blocks') = Terminated(bs)
       /\ nextTemp' \in Nat /\ lastValue' \in Seq(Value) /\ Len(lastValue') <= 1
  BY <1>1, <1>5, <1>7, <1>8, <1>9, LoadSlotEffect
<1>11. RestTyped
  BY <1>5, <1>10, RestKept DEF RestTyped
<1>12. Inside(Fn, Top)
  BY <1>1 DEF Inside, Node
<1> QED
  BY <1>1, <1>3, <1>5, <1>7, <1>10, <1>11, <1>12 DEF MovePop

LEMMA MovePushPlain ==
    ASSUME IInv, Active, UnchangedRest, RestTyped, Node.kind \in Control,
           NEW f \in FrameType, NEW k \in 1..Len(Kids), Accept(f, k), f.node = Top.node,
           Graph(blocks'), Len(blocks') \in Len(blocks)..(Len(blocks) + 3),
           Terminated(blocks') = Terminated(blocks) \cup {cur},
           Range(f.labs) \cup {cur'} = Range(Top.labs) \cup (Labels(blocks') \ Labels(blocks)),
           cur' \notin Range(f.labs), Len(f.labs) = 2 => f.labs[1] # f.labs[2],
           Len(f.labs) = Due(Node, k),
           Node.kind \in {"while", "loop"} => f.head \in Labels(blocks'),
           ~Inside(Fn, Top),
           Node.kind = "while" => k # 2, Node.kind = "loop" => k # 1, loopStack' = loopStack,
           Node.kind = "while" => f.slot = NoTemp
    PROVE  MovePush
<1>1. PICK g \in FrameType, n \in DOMAIN Fn.nodes :
         /\ stack' = PushOf(stack, g, Frame(n))
         /\ g.pc = k /\ g.node = f.node /\ g.vals = f.vals /\ g.labs = f.labs
         /\ g.head = f.head /\ g.slot = f.slot
  BY AcceptPushes
<1>2. /\ Top.node \in DOMAIN Fn.nodes /\ Kids \in Seq(Nat)
      /\ g.node = Top.node /\ g.labs = f.labs /\ k \in 0..Len(Kids)
      /\ Node.kind \notin StraightLine /\ Node.kind # "break"
  <2>1. Top.node \in DOMAIN Fn.nodes /\ Kids \in Seq(Nat)
    BY TopFacts
  <2>2. Node.kind \notin StraightLine /\ Node.kind # "break"
    BY DEF Control, StraightLine
  <2> QED
    BY <1>1, <2>1, <2>2
<1>3. Shaped(Fn, g, Labels(blocks'))
  BY <1>1, <1>2 DEF Shaped, Node, Kids
<1>4. ~Breaking(Fn, g)
  BY <1>2 DEF Breaking, Node
<1>5. ~Inside(Fn, g)
  BY <1>1, <1>2 DEF Inside, Node
<1>6. /\ Range(g.labs) \cup {cur'} = Range(Top.labs) \cup (Labels(blocks') \ Labels(blocks))
      /\ cur' \notin Range(g.labs) /\ (Len(g.labs) = 2 => g.labs[1] # g.labs[2])
  BY <1>2
<1> QED
  BY <1>1, <1>3, <1>4, <1>5, <1>6 DEF MovePush

(* ... the visit of a loop body, which enters the loop. *)
LEMMA MovePushEnter ==
    ASSUME IInv, Active, UnchangedRest, RestTyped, Node.kind \in Control,
           NEW f \in FrameType, NEW k \in 1..Len(Kids), Accept(f, k), f.node = Top.node,
           Graph(blocks'), Len(blocks') \in Len(blocks)..(Len(blocks) + 3),
           Terminated(blocks') = Terminated(blocks) \cup {cur},
           Range(f.labs) \cup {cur'} = Range(Top.labs) \cup (Labels(blocks') \ Labels(blocks)),
           cur' \notin Range(f.labs), Len(f.labs) = 2 => f.labs[1] # f.labs[2],
           Len(f.labs) = Due(Node, k),
           Node.kind \in {"while", "loop"} => f.head \in Labels(blocks'),
           ~Inside(Fn, Top),
           \/ Node.kind = "while" /\ k = 2
           \/ Node.kind = "loop" /\ k = 1,
           NEW ctx \in LoopContext, loopStack' = Append(loopStack, ctx), CtxOf(f, ctx),
           ctx.head \in Labels(blocks'), ctx.exit \in Labels(blocks'),
           Node.kind = "while" => f.slot = NoTemp
    PROVE  MovePush
<1>1. PICK g \in FrameType, n \in DOMAIN Fn.nodes :
         /\ stack' = PushOf(stack, g, Frame(n))
         /\ g.pc = k /\ g.node = f.node /\ g.vals = f.vals /\ g.labs = f.labs
         /\ g.head = f.head /\ g.slot = f.slot
  BY AcceptPushes
<1>2. /\ Top.node \in DOMAIN Fn.nodes /\ Kids \in Seq(Nat)
      /\ g.node = Top.node /\ g.labs = f.labs /\ k \in 0..Len(Kids)
      /\ Node.kind \notin StraightLine /\ Node.kind # "break"
  <2>1. Top.node \in DOMAIN Fn.nodes /\ Kids \in Seq(Nat)
    BY TopFacts
  <2>2. Node.kind \notin StraightLine /\ Node.kind # "break"
    BY DEF Control, StraightLine
  <2> QED
    BY <1>1, <2>1, <2>2
<1>3. Shaped(Fn, g, Labels(blocks'))
  BY <1>1, <1>2 DEF Shaped, Node, Kids
<1>4. ~Breaking(Fn, g)
  BY <1>2 DEF Breaking, Node
<1>5. Inside(Fn, g)
  BY <1>1, <1>2 DEF Inside, Node
<1>6. CtxOf(g, ctx)
  BY <1>1 DEF CtxOf
<1>7. /\ Range(g.labs) \cup {cur'} = Range(Top.labs) \cup (Labels(blocks') \ Labels(blocks))
      /\ cur' \notin Range(g.labs) /\ (Len(g.labs) = 2 => g.labs[1] # g.labs[2])
  BY <1>2
<1> QED
  BY <1>1, <1>3, <1>4, <1>5, <1>6, <1>7 DEF MovePush

LEMMA Ranges ==
    /\ Range(<<>>) = {}
    /\ \A a : Range(<<a>>) = {a} /\ Len(<<a>>) = 1
    /\ \A a, b : Range(<<a, b>>) = {a, b} /\ Len(<<a, b>>) = 2
               /\ <<a, b>>[1] = a /\ <<a, b>>[2] = b
BY DEF Range

LEMMA WithLabels ==
    ASSUME NEW f \in FrameType, NEW labs \in Seq(Nat), NEW head \in Nat, NEW slot \in Int
    PROVE  /\ \A g \in {[f EXCEPT !.labs = labs], [f EXCEPT !.labs = labs, !.slot = slot],
                      [f EXCEPT !.labs = labs, !.head = head],
                      [f EXCEPT !.labs = labs, !.head = head, !.slot = slot]} :
                 g \in FrameType /\ g.labs = labs /\ g.node = f.node
           /\ [f EXCEPT !.labs = labs].head = f.head
           /\ [f EXCEPT !.labs = labs].slot = f.slot
           /\ [f EXCEPT !.labs = labs, !.head = head].head = head
           /\ [f EXCEPT !.labs = labs, !.head = head, !.slot = slot].head = head
           /\ [f EXCEPT !.labs = labs, !.head = head, !.slot = slot].slot = slot
BY DEF FrameType

LEMMA OneLabelLeft ==
    ASSUME NEW r \in FrameType, NEW l \in Nat
    PROVE  /\ [r EXCEPT !.labs = <<l>>] \in FrameType
           /\ [r EXCEPT !.labs = <<l>>].labs = <<l>>
           /\ [r EXCEPT !.labs = <<l>>].node = r.node
<1>1. <<l>> \in Seq(Nat)
  OBVIOUS
<1> QED
  BY <1>1 DEF FrameType

LEMMA IfElseMoves ==
    ASSUME IInv, IfElse
    PROVE  MovePush
<1> DEFINE else  == Top.labs[1]
           merge == Top.labs[2]
           f     == [Top EXCEPT !.labs = <<merge>>]
<1>1. Active /\ Node.kind = "if" /\ Top.pc = 2 /\ Len(Kids) = 3
  BY AtActive DEF IfElse
<1>2. Len(Top.labs) = 2 /\ Top.labs \in Seq(Nat) /\ Top \in FrameType
  BY <1>1, TopFacts DEF Due, Kids
<1>3. /\ else \in Labels(blocks) \ (Terminated(blocks) \cup {cur})
      /\ merge \in Labels(blocks) \ (Terminated(blocks) \cup {cur})
  BY <1>1, <1>2, TopLabel
<1>4. Top.labs = <<else, merge>> /\ else # merge /\ merge \in Nat
  <2>1. Accounted(stack, blocks, cur) /\ stack[Len(stack)] = Top /\ Len(stack) \in DOMAIN stack
    BY <1>1, InvParts, TopFacts
  <2>2. Top.labs[1] # Top.labs[2]
    BY <1>2, <2>1 DEF Accounted
  <2> QED
    BY <1>2, <2>2
<1>5. /\ blocks' = FallThrough(StoreResult(blocks, Top), merge)
      /\ cur' = else /\ Accept(f, 3) /\ nextTemp' = nextTemp /\ locals' = locals
      /\ lastValue' = lastValue /\ loopStack' = loopStack /\ loopCap' = loopCap /\ UnchangedRest
  BY DEF IfElse, loopVars
<1>6. /\ Graph(blocks') /\ Len(blocks') = Len(blocks)
      /\ Terminated(blocks') = Terminated(blocks) \cup {cur}
  BY <1>1, <1>3, <1>5, EndOfBranch
<1>7. f \in FrameType /\ f.labs = <<merge>> /\ f.node = Top.node
  BY <1>2, <1>4, OneLabelLeft
<1> HIDE DEF f, else, merge
<1>8. Labels(blocks') \ Labels(blocks) = {} /\ Len(blocks') \in Len(blocks)..(Len(blocks) + 3)
  <2>1. Len(blocks) \in Nat
    BY <1>1, TopFacts
  <2> QED
    BY <1>6, <2>1 DEF Labels
<1>9. /\ Range(f.labs) \cup {cur'} = Range(Top.labs) \cup (Labels(blocks') \ Labels(blocks))
      /\ cur' \notin Range(f.labs) /\ Len(f.labs) = 1
  BY <1>4, <1>5, <1>7, <1>8, Ranges
<1>10. Due(Node, 3) = 1 /\ 3 \in 1..Len(Kids) /\ ~Inside(Fn, Top) /\ Node.kind \in Control
  BY <1>1 DEF Due, Inside, Node, Control
<1>11. RestTyped
  BY <1>5, RestKept DEF RestTyped
<1>12. /\ Node.kind \notin {"while", "loop"} /\ Node.kind # "while" /\ Node.kind # "loop"
       /\ Len(f.labs) = Due(Node, 3) /\ Len(f.labs) # 2
  BY <1>1, <1>9, <1>10
<1> QED
  BY <1>1, <1>5, <1>6, <1>7, <1>8, <1>9, <1>10, <1>11, <1>12, MovePushPlain

(* The labels of n new blocks. *)
LEMMA NewLabels ==
    ASSUME IInv, Active, NEW bs, NEW n \in 0..3, Len(bs) = Len(blocks) + n
    PROVE  /\ Len(blocks) \in Nat /\ Len(bs) \in Len(blocks)..(Len(blocks) + 3)
           /\ Labels(bs) \ Labels(blocks) = {Len(blocks) + k : k \in 1..n}
<1>1. Len(blocks) \in Nat
  BY TopFacts
<1> HIDE DEF IInv
<1>2. \A l : l \in Labels(bs) /\ l \notin Labels(blocks) <=> \E k \in 1..n : l = Len(blocks) + k
  <2> TAKE l
  <2>1. ASSUME l \in Labels(bs), l \notin Labels(blocks)
        PROVE  \E k \in 1..n : l = Len(blocks) + k
    <3>1. l - Len(blocks) \in 1..n /\ l = Len(blocks) + (l - Len(blocks))
      BY <1>1, <2>1 DEF Labels
    <3> QED
      BY <3>1
  <2>2. ASSUME NEW k \in 1..n, l = Len(blocks) + k
        PROVE  l \in Labels(bs) /\ l \notin Labels(blocks)
    BY <1>1, <2>2 DEF Labels
  <2> QED
    BY <2>1, <2>2
<1>3. Labels(bs) \ Labels(blocks) = {Len(blocks) + k : k \in 1..n}
  BY <1>2
<1>4. Len(bs) \in Len(blocks)..(Len(blocks) + 3)
  BY <1>1
<1> QED
  BY <1>1, <1>3, <1>4

LEMMA IfThenMoves ==
    ASSUME IInv, IfThen
    PROVE  MovePush
<1> DEFINE L    == Len(blocks)
           slot == IF HasResult(Node.ty) THEN nextTemp ELSE NoTemp
<1>1. Active /\ Node.kind = "if" /\ Top.pc = 1
  BY AtActive DEF IfThen
<1>2. Len(Kids) \in {2, 3} /\ Kids \in Seq(Nat)
  BY <1>1, TopFacts DEF WellFormedNode, Node, Kids
<1>3. Top.labs = <<>> /\ Top \in FrameType
  <2>1. Len(Top.labs) = Due(Node, Top.pc) /\ Top.labs \in Seq(Nat) /\ Top \in FrameType
    BY <1>1, TopFacts
  <2>2. Due(Node, Top.pc) = 0
    BY <1>1 DEF Due
  <2> QED
    BY <2>1, <2>2
<1>4. L \in Nat /\ TakeValue \in Value /\ nextTemp \in Nat /\ slot \in Int
  BY <1>1, TopFacts, NodeTyped, SymbolsTyped
<1>5. /\ UnchangedRest /\ locals' = locals /\ lastValue' = lastValue /\ loopStack' = loopStack
      /\ loopCap' = loopCap /\ nextTemp' \in Nat /\ cur' = L + 1
  BY <1>4 DEF IfThen, loopVars
<1>6. RestTyped
  BY <1>5, RestKept DEF RestTyped
<1>7. ~Inside(Fn, Top) /\ Node.kind \in Control /\ 2 \in 1..Len(Kids)
      /\ Node.kind \notin {"while", "loop"} /\ Node.kind # "while" /\ Node.kind # "loop"
  <2>1. 2 \in 1..Len(Kids)
    <3>1. CASE Len(Kids) = 2
      BY <3>1
    <3>2. CASE Len(Kids) = 3
      BY <3>2
    <3> QED
      BY <1>2, <3>1, <3>2
  <2>2. ~Inside(Fn, Top)
    BY <1>1 DEF Inside, Node
  <2> QED
    BY <1>1, <2>1, <2>2 DEF Control
<1>8. ASSUME Len(Kids) = 3 PROVE MovePush
  <2> DEFINE bs == AddBlocks(blocks, 3)
             f  == [Top EXCEPT !.labs = <<L + 3, L + 2>>, !.slot = slot]
  <2>1. blocks' = BranchTo(bs, cur, TakeValue, L + 1, L + 3) /\ Accept(f, 2)
    BY <1>8 DEF IfThen
  <2>2. /\ Graph(bs) /\ Len(bs) = L + 3 /\ Terminated(bs) = Terminated(blocks)
        /\ cur \in Labels(bs) /\ L + 1 \in Labels(bs) /\ L + 3 \in Labels(bs)
    BY <1>1, GrowEffect
  <2> HIDE DEF bs
  <2>3. /\ Graph(blocks') /\ Len(blocks') = L + 3
        /\ Terminated(blocks') = Terminated(blocks) \cup {cur}
    BY <1>4, <2>1, <2>2, BranchToEffect
  <2> HIDE DEF slot
  <2>4. f \in FrameType /\ f.labs = <<L + 3, L + 2>> /\ f.node = Top.node
    <3>1. <<L + 3, L + 2>> \in Seq(Nat)
      BY <1>4
    <3> QED
      BY <1>3, <1>4, <3>1 DEF FrameType
  <2> HIDE DEF f, L
  <2>5. Len(blocks') \in Len(blocks)..(Len(blocks) + 3)
        /\ Labels(blocks') \ Labels(blocks) = {L + 1, L + 2, L + 3}
    BY <1>1, <2>3, NewLabels DEF L
  <2>6. /\ Range(f.labs) = {L + 3, L + 2} /\ Len(f.labs) = 2
        /\ f.labs[1] = L + 3 /\ f.labs[2] = L + 2 /\ Range(Top.labs) = {}
    BY <1>3, <2>4, Ranges
  <2>7. /\ Range(f.labs) \cup {cur'} = Range(Top.labs) \cup (Labels(blocks') \ Labels(blocks))
        /\ cur' \notin Range(f.labs) /\ f.labs[1] # f.labs[2]
    BY <1>4, <1>5, <2>5, <2>6
  <2>8. Len(f.labs) = Due(Node, 2)
    BY <1>1, <1>8, <2>6 DEF Due, Kids
  <2> QED
    BY <1>1, <1>5, <1>6, <1>7, <2>1, <2>3, <2>4, <2>5, <2>7, <2>8, MovePushPlain
<1>9. ASSUME Len(Kids) = 2 PROVE MovePush
  <2> DEFINE bs == AddBlocks(blocks, 2)
             f  == [Top EXCEPT !.labs = <<L + 2>>, !.slot = slot]
  <2>1. blocks' = BranchTo(bs, cur, TakeValue, L + 1, L + 2) /\ Accept(f, 2)
    BY <1>9 DEF IfThen
  <2>2. /\ Graph(bs) /\ Len(bs) = L + 2 /\ Terminated(bs) = Terminated(blocks)
        /\ cur \in Labels(bs) /\ L + 1 \in Labels(bs) /\ L + 2 \in Labels(bs)
    BY <1>1, GrowEffect
  <2> HIDE DEF bs
  <2>3. /\ Graph(blocks') /\ Len(blocks') = L + 2
        /\ Terminated(blocks') = Terminated(blocks) \cup {cur}
    BY <1>4, <2>1, <2>2, BranchToEffect
  <2> HIDE DEF slot
  <2>4. f \in FrameType /\ f.labs = <<L + 2>> /\ f.node = Top.node
    <3>1. <<L + 2>> \in Seq(Nat)
      BY <1>4
    <3> QED
      BY <1>3, <1>4, <3>1 DEF FrameType
  <2> HIDE DEF f, L
  <2>5. Len(blocks') \in Len(blocks)..(Len(blocks) + 3)
        /\ Labels(blocks') \ Labels(blocks) = {L + 1, L + 2}
    BY <1>1, <2>3, NewLabels DEF L
  <2>6. Range(f.labs) = {L + 2} /\ Len(f.labs) = 1 /\ Range(Top.labs) = {}
    BY <1>3, <2>4, Ranges
  <2>7. /\ Range(f.labs) \cup {cur'} = Range(Top.labs) \cup (Labels(blocks') \ Labels(blocks))
        /\ cur' \notin Range(f.labs) /\ Len(f.labs) # 2
    BY <1>4, <1>5, <2>5, <2>6
  <2>8. Len(f.labs) = Due(Node, 2)
    BY <1>1, <1>9, <2>6 DEF Due, Kids
  <2> QED
    BY <1>1, <1>5, <1>6, <1>7, <2>1, <2>3, <2>4, <2>5, <2>7, <2>8, MovePushPlain
<1> QED
  BY <1>2, <1>8, <1>9

LEMMA WhileHeaderMoves ==
    ASSUME IInv, WhileHeader
    PROVE  MovePush
<1> DEFINE L    == Len(blocks)
           bs   == AddBlocks(blocks, 3)
           labs == <<(L + 1) + 1, (L + 1) + 2>>
           f    == [Top EXCEPT !.labs = labs, !.head = L + 1]
<1>1. Active /\ Node.kind = "while" /\ Top.pc = 0
  BY AtActive DEF WhileHeader
<1>2. Len(Kids) = 2 /\ 1 \in 1..Len(Kids)
  <2>1. Len(Kids) = 2
    BY <1>1, TopFacts DEF WellFormedNode, Node, Kids
  <2> QED
    BY <2>1
<1>3. Top.labs = <<>> /\ Top \in FrameType
  <2>1. Len(Top.labs) = Due(Node, Top.pc) /\ Top.labs \in Seq(Nat) /\ Top \in FrameType
    BY <1>1, TopFacts
  <2>2. Due(Node, Top.pc) = 0
    BY <1>1 DEF Due
  <2> QED
    BY <2>1, <2>2
<1>4. L \in Nat /\ labs \in Seq(Nat)
  <2>1. L \in Nat
    BY <1>1, TopFacts
  <2> QED
    BY <2>1
<1>5. /\ UnchangedRest /\ locals' = locals /\ lastValue' = lastValue /\ loopStack' = loopStack
      /\ loopCap' = loopCap /\ nextTemp' = nextTemp
      /\ blocks' = JumpTo(bs, cur, L + 1) /\ cur' = L + 1 /\ Accept(f, 1)
  BY DEF WhileHeader, loopVars
<1>6. RestTyped
  BY <1>5, RestKept DEF RestTyped
<1>7. ~Inside(Fn, Top) /\ Node.kind \in Control /\ Due(Node, 1) = 2 /\ Node.kind # "loop"
  BY <1>1 DEF Inside, Node, Control, Due
<1>8. /\ Graph(bs) /\ Len(bs) = L + 3 /\ Terminated(bs) = Terminated(blocks)
      /\ cur \in Labels(bs) /\ L + 1 \in Labels(bs)
  BY <1>1, GrowEffect
<1> HIDE DEF bs
<1>9. /\ Graph(blocks') /\ Len(blocks') = L + 3
      /\ Terminated(blocks') = Terminated(blocks) \cup {cur}
  BY <1>5, <1>8, JumpToEffect
<1> HIDE DEF labs
<1>10. f \in FrameType /\ f.labs = labs /\ f.node = Top.node /\ f.head = L + 1
       /\ f.slot = Top.slot
  <2>1. L + 1 \in Nat
    BY <1>4
  <2> HIDE DEF L
  <2> QED
    BY <1>3, <1>4, <2>1 DEF FrameType
<1> USE DEF labs
<1>11. Range(labs) = {L + 3, L + 2} /\ Len(labs) = 2 /\ labs[1] = L + 2 /\ labs[2] = L + 3
  BY <1>4, Ranges
<1> HIDE DEF f, L, labs
<1>12. Len(blocks') \in Len(blocks)..(Len(blocks) + 3)
       /\ Labels(blocks') \ Labels(blocks) = {L + 1, L + 2, L + 3}
  BY <1>1, <1>9, NewLabels DEF L
<1>13. Range(Top.labs) = {}
  BY <1>3, Ranges
<1>14. /\ Range(f.labs) \cup {cur'} = Range(Top.labs) \cup (Labels(blocks') \ Labels(blocks))
       /\ cur' \notin Range(f.labs) /\ f.labs[1] # f.labs[2] /\ Len(f.labs) = Due(Node, 1)
  BY <1>4, <1>5, <1>7, <1>10, <1>11, <1>12, <1>13
<1>15. f.head \in Labels(blocks')
  BY <1>4, <1>9, <1>10 DEF Labels
<1>16. f.slot = NoTemp
  BY <1>1, <1>10, TopFacts DEF Shaped, Node
<1> QED
  BY <1>1, <1>2, <1>5, <1>6, <1>7, <1>9, <1>10, <1>12, <1>14, <1>15, <1>16, MovePushPlain

(* Entering a loop. *)
LEMMA PushLoopTyped ==
    ASSUME IInv, NEW head \in Nat, NEW exit \in Nat, NEW slot \in Int, PushLoop(head, exit, slot)
    PROVE  loopCap' \in Nat
<1>1. loopCap \in Nat /\ 2 * loopCap \in Nat
  BY DEF IInv, TypeOK
<1> QED
  BY <1>1 DEF PushLoop

LEMMA ContextTyped ==
    ASSUME NEW head \in Nat, NEW exit \in Nat, NEW slot \in Int
    PROVE  LET ctx == [head |-> head, exit |-> exit, slot |-> slot]
           IN  ctx \in LoopContext /\ ctx.head = head /\ ctx.exit = exit /\ ctx.slot = slot
BY DEF LoopContext

LEMMA WhileBodyMoves ==
    ASSUME IInv, WhileBody
    PROVE  MovePush
<1> DEFINE body == Top.labs[1]
           exit == Top.labs[2]
           f    == [Top EXCEPT !.labs = <<exit>>]
           ctx  == [head |-> Top.head, exit |-> exit, slot |-> NoTemp]
<1>1. Active /\ Node.kind = "while" /\ Top.pc = 1
  BY AtActive DEF WhileBody
<1>2. Len(Kids) = 2 /\ 2 \in 1..Len(Kids)
  <2>1. Len(Kids) = 2
    BY <1>1, TopFacts DEF WellFormedNode, Node, Kids
  <2> QED
    BY <2>1
<1>3. Len(Top.labs) = 2 /\ Top.labs \in Seq(Nat) /\ Top \in FrameType
  BY <1>1, TopFacts DEF Due
<1>4. /\ body \in Labels(blocks) \ (Terminated(blocks) \cup {cur})
      /\ exit \in Labels(blocks) \ (Terminated(blocks) \cup {cur})
  BY <1>1, <1>3, TopLabel
<1>5. Top.labs = <<body, exit>> /\ body # exit /\ exit \in Nat
  <2>1. Accounted(stack, blocks, cur) /\ stack[Len(stack)] = Top /\ Len(stack) \in DOMAIN stack
    BY <1>1, InvParts, TopFacts
  <2>2. Top.labs[1] # Top.labs[2]
    BY <1>3, <2>1 DEF Accounted
  <2> QED
    BY <1>3, <2>2
<1>6. Top.head \in Labels(blocks)
  BY <1>1, TopFacts DEF Shaped, Node
<1>7. /\ UnchangedRest /\ locals' = locals /\ lastValue' = lastValue /\ nextTemp' = nextTemp
      /\ blocks' = BranchTo(blocks, cur, TakeValue, body, exit) /\ cur' = body /\ Accept(f, 2)
      /\ PushLoop(Top.head, exit, NoTemp) /\ loopStack' = Append(loopStack, ctx)
  BY DEF WhileBody, PushLoop
<1>8. Graph(blocks) /\ cur \in Labels(blocks) /\ TakeValue \in Value
  BY <1>1, InvParts, NodeTyped
<1>9. /\ Graph(blocks') /\ Len(blocks') = Len(blocks)
      /\ Terminated(blocks') = Terminated(blocks) \cup {cur}
  BY <1>4, <1>7, <1>8, BranchToEffect
<1>10. f \in FrameType /\ f.labs = <<exit>> /\ f.node = Top.node /\ f.head = Top.head /\ f.slot = Top.slot
  <2>1. <<exit>> \in Seq(Nat)
    BY <1>5
  <2> HIDE DEF exit
  <2> QED
    BY <1>3, <2>1 DEF FrameType
<1>11. Top.head \in Nat /\ NoTemp \in Int
  BY <1>3, SymbolsTyped DEF FrameType
<1>12. ctx \in LoopContext /\ ctx.head = Top.head /\ ctx.exit = exit /\ ctx.slot = NoTemp
  BY <1>5, <1>11, ContextTyped
<1>13. Top.slot = NoTemp
  BY <1>1, TopFacts DEF Shaped, Node
<1> HIDE DEF f, body, exit, ctx
<1>14. RestTyped
  <2>1. loopCap' \in Nat
    BY <1>5, <1>7, <1>11, PushLoopTyped
  <2> QED
    BY <1>7, <2>1, RestKept DEF RestTyped
<1>15. Labels(blocks') = Labels(blocks) /\ Len(blocks') \in Len(blocks)..(Len(blocks) + 3)
  <2>1. Len(blocks) \in Nat
    BY <1>1, TopFacts
  <2> QED
    BY <1>9, <2>1 DEF Labels
<1>16. /\ Range(f.labs) \cup {cur'} = Range(Top.labs) \cup (Labels(blocks') \ Labels(blocks))
       /\ cur' \notin Range(f.labs) /\ Len(f.labs) = 1
  BY <1>5, <1>7, <1>10, <1>15, Ranges
<1>17. Due(Node, 2) = 1 /\ ~Inside(Fn, Top) /\ Node.kind \in Control
  BY <1>1 DEF Due, Inside, Node, Control
<1>18. CtxOf(f, ctx) /\ ctx.head \in Labels(blocks') /\ ctx.exit \in Labels(blocks')
  BY <1>4, <1>6, <1>10, <1>12, <1>13, <1>15 DEF CtxOf
<1>19. f.head \in Labels(blocks') /\ Len(f.labs) = Due(Node, 2) /\ Len(f.labs) # 2
  BY <1>6, <1>10, <1>15, <1>16, <1>17
<1>20. f.slot = NoTemp
  BY <1>10, <1>13
<1> QED
  BY <1>1, <1>2, <1>7, <1>9, <1>10, <1>12, <1>14, <1>15, <1>16, <1>17, <1>18, <1>19,
     <1>20, MovePushEnter

LEMMA LoopBodyMoves ==
    ASSUME IInv, LoopBody
    PROVE  MovePush
<1> DEFINE L    == Len(blocks)
           bs   == AddBlocks(blocks, 2)
           slot == IF HasResult(Node.ty) THEN nextTemp ELSE NoTemp
           f    == [Top EXCEPT !.labs = <<L + 2>>, !.head = L + 1, !.slot = slot]
           ctx  == [head |-> L + 1, exit |-> L + 2, slot |-> slot]
<1>1. Active /\ Node.kind = "loop" /\ Top.pc = 0
  BY AtActive DEF LoopBody
<1>2. Len(Kids) = 1 /\ 1 \in 1..Len(Kids)
  <2>1. Len(Kids) = 1
    BY <1>1, TopFacts DEF WellFormedNode, Node, Kids
  <2> QED
    BY <2>1
<1>3. Top.labs = <<>> /\ Top \in FrameType
  <2>1. Len(Top.labs) = Due(Node, Top.pc) /\ Top.labs \in Seq(Nat) /\ Top \in FrameType
    BY <1>1, TopFacts
  <2>2. Due(Node, Top.pc) = 0
    BY <1>1 DEF Due
  <2> QED
    BY <2>1, <2>2
<1>4. L \in Nat /\ nextTemp \in Nat /\ slot \in Int
  BY <1>1, TopFacts, NodeTyped, SymbolsTyped
<1>5. L + 1 \in Nat /\ L + 2 \in Nat /\ <<L + 2>> \in Seq(Nat)
  BY <1>4
<1>6. /\ UnchangedRest /\ locals' = locals /\ lastValue' = lastValue /\ nextTemp' \in Nat
      /\ blocks' = JumpTo(bs, cur, L + 1) /\ cur' = L + 1 /\ Accept(f, 1)
      /\ PushLoop(L + 1, L + 2, slot) /\ loopStack' = Append(loopStack, ctx)
  BY <1>4 DEF LoopBody, PushLoop
<1> HIDE DEF slot
<1>7. /\ Graph(bs) /\ Len(bs) = L + 2 /\ Terminated(bs) = Terminated(blocks)
      /\ cur \in Labels(bs) /\ L + 1 \in Labels(bs)
  BY <1>1, GrowEffect
<1> HIDE DEF bs
<1>8. /\ Graph(blocks') /\ Len(blocks') = L + 2
      /\ Terminated(blocks') = Terminated(blocks) \cup {cur}
  BY <1>6, <1>7, JumpToEffect
<1>9. /\ f \in FrameType /\ f.labs = <<L + 2>> /\ f.node = Top.node /\ f.head = L + 1
      /\ f.slot = slot
  BY <1>3, <1>4, <1>5 DEF FrameType
<1>10. ctx \in LoopContext /\ ctx.head = L + 1 /\ ctx.exit = L + 2 /\ ctx.slot = slot
  BY <1>4, <1>5, ContextTyped
<1> HIDE DEF f, ctx, L
<1>11. RestTyped
  <2>1. loopCap' \in Nat
    BY <1>4, <1>5, <1>6, PushLoopTyped
  <2> QED
    BY <1>6, <2>1, RestKept DEF RestTyped
<1>12. Len(blocks') \in Len(blocks)..(Len(blocks) + 3)
       /\ Labels(blocks') \ Labels(blocks) = {L + 1, L + 2}
  BY <1>1, <1>8, NewLabels DEF L
<1>13. Range(Top.labs) = {} /\ Range(f.labs) = {L + 2} /\ Len(f.labs) = 1
  BY <1>3, <1>9, Ranges
<1>14. /\ Range(f.labs) \cup {cur'} = Range(Top.labs) \cup (Labels(blocks') \ Labels(blocks))
       /\ cur' \notin Range(f.labs)
  BY <1>4, <1>6, <1>12, <1>13
<1>15. Due(Node, 1) = 1 /\ ~Inside(Fn, Top) /\ Node.kind \in Control
  BY <1>1 DEF Due, Inside, Node, Control
<1>16. L + 1 \in Labels(blocks') /\ L + 2 \in Labels(blocks')
  BY <1>4, <1>8 DEF Labels
<1>17. CtxOf(f, ctx) /\ ctx.head \in Labels(blocks') /\ ctx.exit \in Labels(blocks')
  BY <1>9, <1>10, <1>16 DEF CtxOf
<1>18. f.head \in Labels(blocks') /\ Len(f.labs) = Due(Node, 1) /\ Len(f.labs) # 2
  BY <1>9, <1>13, <1>15, <1>16
<1> QED
  BY <1>1, <1>2, <1>6, <1>8, <1>9, <1>10, <1>11, <1>12, <1>14, <1>15, <1>17, <1>18, MovePushEnter

-----------------------------------------------------------------------------
(* The first and the last step of lower_fn, the invariant closed over every *)
(* step, what follows from it, and the refinement of BlockDiscipline.       *)

(* The entry block: a load for every parameter. *)
Entry == [EmptyBlock EXCEPT !.instrs =
            [i \in 1..Len(Fn.params) |-> LoadLocal(i - 1, Fn.params[i])]]

LEMMA EntryGraph ==
    ASSUME TypeOK, status = "lowering" \/ (status = "idle" /\ MoreFns)
    PROVE  /\ Graph(<<Entry>>) /\ Labels(<<Entry>>) = {1} /\ Terminated(<<Entry>>) = {}
           /\ Fn \in AstFn /\ Fn.params \in Seq(Symbols) /\ Fn.body \in Nat
           /\ Fn.body \in DOMAIN Fn.nodes
<1> DEFINE loads == [i \in 1..Len(Fn.params) |-> LoadLocal(i - 1, Fn.params[i])]
<1>1. Fn \in AstFn /\ Fn.body \in DOMAIN Fn.nodes
  <2>1. program \in Seq(AstFn) /\ Len(module) + 1 \in DOMAIN program /\ program \in Programs
    <3>1. program \in Programs /\ program \in Seq(AstFn) /\ Len(module) \in Nat
      BY ProgramAssumption DEF TypeOK
    <3>2. Len(module) < Len(program)
      BY DEF TypeOK, MoreFns
    <3> QED
      BY <3>1, <3>2
  <2> QED
    BY <2>1, ProgramAssumption DEF Fn
<1>2. Fn.params \in Seq(Symbols) /\ Fn.body \in Nat /\ Len(Fn.params) \in Nat
  BY <1>1 DEF AstFn
<1>3. ASSUME NEW i \in 1..Len(Fn.params)
      PROVE  Plain(LoadLocal(i - 1, Fn.params[i]))
  <2>1. i - 1 \in Nat /\ Fn.params[i] \in Symbols
    BY <1>2
  <2>2. ImmUnit \in Value /\ <<>> \in Seq(Value) /\ "=" \in Texts
    BY ValueTyped DEF Texts
  <2> QED
    BY <2>1, <2>2, LoadTyped
<1>4. /\ loads \in Seq(Instruction) /\ Len(loads) = Len(Fn.params) /\ DOMAIN loads = 1..Len(Fn.params)
      /\ \A i \in DOMAIN loads : Plain(loads[i])
  BY <1>2, <1>3 DEF Plain
<1> HIDE DEF loads
<1>5. /\ Entry \in BasicBlock /\ Entry.instrs = loads /\ Entry.succ = <<>> /\ Entry.pred = <<>>
  <2>1. <<>> \in Seq(Nat) /\ Entry = [instrs |-> loads, succ |-> <<>>, pred |-> <<>>]
    BY DEF Entry, EmptyBlock, loads
  <2> QED
    BY <1>4, <2>1 DEF BasicBlock
<1>6. TargetsOf(Entry) = {}
  <2>1. ASSUME NEW i \in Range(Entry.instrs)
        PROVE  Targets(i) = {}
    <3>1. i.to = <<>>
      BY <1>4, <1>5, <2>1 DEF Range, Plain
    <3> QED
      BY <3>1 DEF Targets
  <2> QED
    BY <2>1 DEF TargetsOf
<1>7. ~IsTerminated(Entry)
  <2>1. CASE loads = <<>>
    BY <1>5, <2>1 DEF IsTerminated
  <2>2. CASE loads # <<>>
    <3>1. Len(loads) \in DOMAIN loads
      BY <1>4, <2>2
    <3> QED
      BY <1>4, <1>5, <3>1 DEF IsTerminated, Plain
  <2> QED
    BY <2>1, <2>2
<1> HIDE DEF Entry
<1>8. /\ <<Entry>> \in Seq(BasicBlock) /\ Labels(<<Entry>>) = {1} /\ <<Entry>>[1] = Entry
  BY <1>5 DEF Labels
<1>9. Range(Entry.succ) = {} /\ Range(Entry.pred) = {}
  BY <1>5 DEF Range
<1>10. Graph(<<Entry>>)
  BY <1>6, <1>8, <1>9 DEF Graph, EdgesInside, EdgesMatch
<1>11. Terminated(<<Entry>>) = {}
  BY <1>7, <1>8 DEF Terminated
<1> QED
  BY <1>1, <1>2, <1>8, <1>10, <1>11

(* lower_fn up to the visit of the body. *)
LEMMA BeginFnInv ==
    ASSUME IInv, BeginFn
    PROVE  /\ IInv' /\ blocks = <<>> /\ status = "idle" /\ status' = "lowering"
           /\ cur' = 1 /\ Len(blocks') = 1 /\ Terminated(blocks') = {}
<1>1. TypeOK /\ status = "idle" /\ MoreFns /\ blocks = <<>> /\ loopStack = <<>>
  BY DEF IInv, BeginFn, TypeOK, Loops
<1>2. /\ Graph(<<Entry>>) /\ Labels(<<Entry>>) = {1} /\ Terminated(<<Entry>>) = {}
      /\ Fn.params \in Seq(Symbols) /\ Fn.body \in Nat /\ Fn.body \in DOMAIN Fn.nodes
      /\ Fn \in AstFn
  BY <1>1, EntryGraph
<1>3. /\ blocks' = <<Entry>> /\ stack' = <<Frame(Fn.body)>> /\ cur' = 1 /\ status' = "lowering"
      /\ nextTemp' = Len(Fn.params) /\ locals' = Fn.params
      /\ program' = program /\ module' = module /\ lastValue' = lastValue
      /\ loopStack' = loopStack /\ loopCap' = loopCap
  BY DEF BeginFn, Entry, loopVars
<1>4. Fn' = Fn
  BY <1>3 DEF Fn
<1> DEFINE g == Frame(Fn.body)
<1>5. /\ g \in FrameType /\ g.node = Fn.body /\ g.pc = 0 /\ g.labs = <<>>
      /\ g.head = 0 /\ g.slot = NoTemp
  BY <1>2, FrameTyped
<1>6. /\ <<g>> \in Seq(FrameType) /\ DOMAIN <<g>> = {1} /\ <<g>>[1] = g /\ Len(<<g>>) = 1
  <2> HIDE DEF g
  <2> QED
    BY <1>5
<1>7. TypeOK'
  <2>1. /\ program' \in Programs /\ module' \in Seq(Function) /\ Len(module') < Len(program')
        /\ Len(module') <= Len(program')
    BY <1>1, <1>3 DEF TypeOK, MoreFns
  <2>2. blocks' \in Seq(BasicBlock) /\ cur' \in Nat /\ cur' \in Label'
    BY <1>2, <1>3 DEF Graph, Label
  <2>3. nextTemp' \in Nat /\ locals' \in Seq(Symbols)
    BY <1>2, <1>3
  <2>4. stack' \in Seq(FrameType)
    BY <1>3, <1>6
  <2>5. /\ lastValue' \in Seq(Value) /\ Len(lastValue') <= 1
        /\ loopStack' \in Seq(LoopContext) /\ loopCap' \in Nat
    BY <1>1, <1>3 DEF TypeOK
  <2> QED
    BY <1>3, <2>1, <2>2, <2>3, <2>4, <2>5 DEF TypeOK
<1>8. /\ Fn.nodes[Fn.body] \in AstNode /\ Len(Fn.nodes[Fn.body].kids) \in Nat
  <2>1. Fn.nodes \in Seq(AstNode)
    BY <1>2 DEF AstFn
  <2>2. Fn.nodes[Fn.body] \in AstNode
    BY <1>2, <2>1
  <2>3. Fn.nodes[Fn.body].kids \in Seq(Nat)
    BY <2>2 DEF AstNode
  <2> QED
    BY <2>2, <2>3
<1>9. Shaped(Fn, g, {1}) /\ ~Inside(Fn, g) /\ ~Breaking(Fn, g)
  <2>1. Due(Fn.nodes[Fn.body], 0) = 0 /\ 0 \in 0..Len(Fn.nodes[Fn.body].kids) /\ Len(<<>>) = 0
    BY <1>8 DEF Due
  <2> HIDE DEF g
  <2> QED
    BY <1>2, <1>5, <2>1 DEF Shaped, Inside, Breaking
<1> HIDE DEF g
<1>10. stack' = <<g>>
  BY <1>3 DEF g
<1>11. Shapes'
  BY <1>2, <1>3, <1>4, <1>6, <1>9, <1>10 DEF Shapes
<1>12. Account'
  <2>1. Range(g.labs) = {} /\ Len(g.labs) = 0
    BY <1>5 DEF Range
  <2> QED
    BY <1>2, <1>3, <1>6, <1>10, <2>1 DEF Account, Accounted
<1>13. Loops'
  <2>1. Within(Fn, <<g>>, 1) = {}
    BY <1>6, <1>9 DEF Within
  <2>2. LoopsMatch(Fn, <<g>>, <<>>)
    <3>1. Cardinality({}) = 0
      BY FS_EmptySet
    <3> QED
      BY <1>6, <2>1, <3>1 DEF LoopsMatch
  <2>3. BreaksInside(Fn, <<g>>) /\ ContextsInside(<<>>, {1})
    BY <1>6, <1>9 DEF BreaksInside, ContextsInside
  <2> QED
    BY <1>1, <1>2, <1>3, <1>4, <1>10, <2>2, <2>3 DEF Loops
<1>14. FinishedSealed'
  BY <1>3 DEF IInv, FinishedSealed
<1>15. Graph(blocks') /\ Terminated(blocks') = {} /\ Len(blocks') = 1
  <2>1. Len(<<Entry>>) = 1
    OBVIOUS
  <2> QED
    BY <1>2, <1>3, <2>1
<1> QED
  BY <1>1, <1>3, <1>7, <1>11, <1>12, <1>13, <1>14, <1>15 DEF IInv

(* lower_fn after the body. *)
LEMMA EndFnInv ==
    ASSUME IInv, EndFn
    PROVE  /\ IInv' /\ status = "lowering" /\ status' = "idle" /\ blocks' = <<>>
           /\ Labels(blocks) = {cur} \cup Terminated(blocks)
<1> DEFINE vals == IF Fn.ret = "unit" THEN <<>> ELSE <<TakeValue>>
           ret == Return(vals)
           bs  == IF IsTerminated(blocks[cur]) THEN blocks ELSE Emit(blocks, cur, ret)
           out == [name |-> Fn.name, params |-> Fn.params,
                   blocks |-> bs, temps |-> nextTemp, locals |-> locals]
<1>1. /\ TypeOK /\ status = "lowering" /\ stack = <<>> /\ Graph(blocks)
      /\ Accounted(stack, blocks, cur) /\ LoopsMatch(Fn, stack, loopStack)
  BY DEF IInv, EndFn, Account, Loops
<1>2. /\ module' = Append(module, out) /\ status' = "idle" /\ blocks' = <<>> /\ cur' = 0
      /\ nextTemp' = 0 /\ locals' = <<>> /\ program' = program /\ stack' = stack
      /\ lastValue' = lastValue /\ loopStack' = loopStack /\ loopCap' = loopCap
  BY DEF EndFn, loopVars
<1>3. Labels(blocks) = {cur} \cup Terminated(blocks) /\ cur \in Labels(blocks)
  <2>1. DOMAIN stack = {}
    BY <1>1
  <2>2. \A l \in Labels(blocks) : l \in Terminated(blocks) \cup {cur}
    BY <1>1, <2>1 DEF Accounted
  <2>3. cur \in Labels(blocks)
    BY <1>1 DEF Accounted
  <2> QED
    BY <2>2, <2>3 DEF Terminated
<1>4. Graph(bs) /\ Len(bs) = Len(blocks) /\ Terminated(bs) = Terminated(blocks) \cup {cur}
  <2>1. CASE IsTerminated(blocks[cur])
    BY <1>1, <1>3, <2>1 DEF Terminated
  <2>2. CASE ~IsTerminated(blocks[cur])
    <3>1. TakeValue \in Value
      BY <1>1, TakeValueTyped
    <3>2. vals \in Seq(Value)
      <4>1. <<>> \in Seq(Value) /\ <<TakeValue>> \in Seq(Value)
        BY <3>1
      <4> QED
        BY <4>1
    <3>3. bs = Emit(blocks, cur, Return(vals))
      BY <2>2
    <3> HIDE DEF bs, vals
    <3> QED
      BY <1>1, <1>3, <3>2, <3>3, EmitReturn
  <2> QED
    BY <2>1, <2>2
<1>5. Sealed(bs)
  <2>1. bs \in Seq(BasicBlock) /\ DOMAIN bs = Labels(bs) /\ Labels(bs) = Labels(blocks)
    <3> HIDE DEF bs
    <3>1. bs \in Seq(BasicBlock)
      BY <1>4 DEF Graph
    <3> QED
      BY <1>4, <3>1 DEF Labels
  <2> HIDE DEF bs
  <2> QED
    BY <1>3, <1>4, <2>1 DEF Terminated, Graph, EdgesInside, Sealed
<1> HIDE DEF bs
<1>6. out \in Function /\ out.blocks = bs
  <2>1. Fn.name \in Symbols /\ Fn.params \in Seq(Symbols)
    BY <1>1, FnTyped DEF AstFn
  <2>2. bs \in Seq(BasicBlock)
    BY <1>4 DEF Graph
  <2>3. nextTemp \in Nat /\ locals \in Seq(Symbols)
    BY <1>1 DEF TypeOK
  <2> QED
    BY <2>1, <2>2, <2>3 DEF Function
<1> HIDE DEF out
<1>7. /\ module' \in Seq(Function) /\ Len(module') = Len(module) + 1
      /\ DOMAIN module' = 1..(Len(module) + 1) /\ Len(module) \in Nat
      /\ \A f \in 1..Len(module) : module'[f] = module[f]
      /\ module'[Len(module) + 1] = out /\ DOMAIN module = 1..Len(module)
  <2>1. module \in Seq(Function)
    BY <1>1 DEF TypeOK
  <2> QED
    BY <1>2, <1>6, <2>1
<1>8. FinishedSealed'
  <2>1. ASSUME NEW f \in DOMAIN module'
        PROVE  Sealed(module'[f].blocks)
    <3>1. CASE f = Len(module) + 1
      BY <1>5, <1>6, <1>7, <3>1
    <3>2. CASE f # Len(module) + 1
      <4>1. f \in DOMAIN module /\ module'[f] = module[f]
        BY <1>7, <3>2
      <4> QED
        BY <4>1 DEF IInv, FinishedSealed
    <3> QED
      BY <3>1, <3>2
  <2> QED
    BY <2>1 DEF FinishedSealed
<1>9. loopStack = <<>>
  <2>1. Len(stack) = 0 /\ loopStack \in Seq(LoopContext)
    BY <1>1 DEF TypeOK
  <2>2. Within(Fn, stack, Len(stack)) = {}
    <3>1. 1..Len(stack) = {}
      BY <2>1
    <3> QED
      BY <3>1 DEF Within
  <2>3. Len(loopStack) = Cardinality({}) /\ Cardinality({}) = 0
    BY <1>1, <2>2, FS_EmptySet DEF LoopsMatch
  <2> QED
    BY <2>1, <2>3
<1>10. TypeOK'
  <2>1. /\ program' \in Programs /\ module' \in Seq(Function) /\ Len(module') <= Len(program')
    <3>1. program \in Programs /\ Len(module) < Len(program) /\ program \in Seq(AstFn)
      BY <1>1, ProgramAssumption DEF TypeOK
    <3>2. Len(module) + 1 <= Len(program)
      BY <1>7, <3>1
    <3> QED
      BY <1>2, <1>7, <3>1, <3>2
  <2>2. /\ blocks' \in Seq(BasicBlock) /\ cur' \in Nat /\ nextTemp' \in Nat
        /\ locals' \in Seq(Symbols)
    BY <1>2
  <2>3. /\ stack' \in Seq(FrameType) /\ stack' = <<>>
        /\ lastValue' \in Seq(Value) /\ Len(lastValue') <= 1
        /\ loopStack' \in Seq(LoopContext) /\ loopCap' \in Nat
    BY <1>1, <1>2 DEF TypeOK
  <2> QED
    BY <1>2, <2>1, <2>2, <2>3 DEF TypeOK
<1>11. Graph(blocks')
  <2>1. Labels(<<>>) = {} /\ <<>> \in Seq(BasicBlock)
    BY DEF Labels
  <2> QED
    BY <1>2, <2>1 DEF Graph, EdgesInside, EdgesMatch
<1>12. Shapes' /\ Account' /\ Loops'
  BY <1>2, <1>9 DEF Shapes, Account, Loops
<1> QED
  BY <1>1, <1>2, <1>3, <1>8, <1>10, <1>11, <1>12 DEF IInv

-----------------------------------------------------------------------------
(* Every step of a visit keeps the invariant, and either goes on in the     *)
(* open block or leaves it for one that was waiting or is new.              *)
Stays == UNCHANGED cur /\ InPlace(blocks')
Moves == /\ Len(blocks') \in Len(blocks)..(Len(blocks) + 3)
         /\ Terminated(blocks') = Terminated(blocks) \cup {cur}
         /\ cur' \in Labels(blocks') \ (Terminated(blocks) \cup {cur})

LEMMA StayStep ==
    ASSUME IInv, StayPop \/ StayPush
    PROVE  IInv' /\ Active /\ UnchangedRest /\ Stays
<1>1. CASE StayPop
  BY <1>1, StayPopInv DEF StayPop, Stays
<1>2. CASE StayPush
  <2>1. Active /\ UnchangedRest /\ blocks' = blocks /\ cur' = cur
    BY <1>2 DEF StayPush
  <2>2. InPlace(blocks')
    BY <2>1 DEF IInv, InPlace
  <2> QED
    BY <1>2, <2>1, <2>2, StayPushInv DEF Stays
<1> QED
  BY <1>1, <1>2

LEMMA MoveStep ==
    ASSUME IInv, MovePop \/ MovePush
    PROVE  IInv' /\ Active /\ UnchangedRest /\ Moves
<1>1. CASE MovePop
  <2>1. /\ Active /\ UnchangedRest /\ Len(blocks') = Len(blocks)
        /\ Terminated(blocks') = Terminated(blocks) \cup {cur}
    BY <1>1 DEF MovePop
  <2>2. IInv' /\ cur' \in Labels(blocks) \ (Terminated(blocks) \cup {cur})
    BY <1>1, MovePopInv
  <2>3. Labels(blocks') = Labels(blocks) /\ Len(blocks) \in Nat
    BY <2>1 DEF IInv, TypeOK, Labels
  <2>4. Len(blocks') \in Len(blocks)..(Len(blocks) + 3)
    BY <2>1, <2>3
  <2> QED
    BY <2>1, <2>2, <2>3, <2>4 DEF Moves
<1>2. CASE MovePush
  <2>1. IInv' /\ cur' \in Labels(blocks') \ (Terminated(blocks) \cup {cur})
    BY <1>2, MovePushInv
  <2> QED
    BY <1>2, <2>1 DEF MovePush, Moves
<1> QED
  BY <1>1, <1>2

(* The exception: lower() is left at once. *)
LEMMA BreakDanglingInv ==
    ASSUME IInv, BreakDangling
    PROVE  IInv' /\ status = "lowering" /\ status' = "failed" /\ UNCHANGED <<blocks, cur>>
<1>1. /\ status = "lowering" /\ status' = "failed" /\ program' = program /\ module' = module
      /\ blocks' = blocks /\ cur' = cur /\ nextTemp' = nextTemp /\ locals' = locals
      /\ stack' = stack /\ lastValue' = lastValue /\ loopStack' = loopStack /\ loopCap' = loopCap
  BY DEF BreakDangling, At, Visiting, fnVars, loopVars
<1>2. TypeOK'
  BY <1>1 DEF IInv, TypeOK
<1>3. Graph(blocks') /\ FinishedSealed'
  BY <1>1 DEF IInv, FinishedSealed
<1>4. Shapes' /\ Account' /\ Loops'
  BY <1>1 DEF Shapes, Account, Loops
<1> QED
  BY <1>1, <1>2, <1>3, <1>4 DEF IInv

LEMMA VisitStepKind ==
    ASSUME IInv, VisitStep
    PROVE  StayPop \/ StayPush \/ MovePop \/ MovePush \/ BreakDangling
<1>1. CASE VisitIdent \/ FinishUnary \/ FinishBinary \/ FinishCall
  BY <1>1, ComputingSteps
<1>2. CASE VisitLiteral \/ FinishExprStmt \/ FinishBlock
  BY <1>2, LeafSteps
<1>3. CASE FinishUnitCall \/ FinishLet \/ FinishAssign
  BY <1>3, StoringSteps
<1>4. CASE FinishReturn \/ BreakWithoutValue \/ VisitContinue
  BY <1>4, JumpingSteps
<1>5. CASE BreakStore \/ BreakGarbage
  BY <1>5, BreakingSteps
<1>6. CASE VisitOperand \/ VisitBlockItem \/ IfCondition \/ BreakValue
  BY <1>6, OperandSteps
<1>7. CASE IfMerge
  BY <1>7, IfMergeMoves
<1>8. CASE WhileExit
  BY <1>8, WhileExitMoves
<1>9. CASE LoopExit
  BY <1>9, LoopExitMoves
<1>10. CASE IfElse
  BY <1>10, IfElseMoves
<1>11. CASE IfThen
  BY <1>11, IfThenMoves
<1>12. CASE WhileHeader
  BY <1>12, WhileHeaderMoves
<1>13. CASE WhileBody
  BY <1>13, WhileBodyMoves
<1>14. CASE LoopBody
  BY <1>14, LoopBodyMoves
<1> QED
  BY <1>1, <1>2, <1>3, <1>4, <1>5, <1>6, <1>7, <1>8, <1>9, <1>10, <1>11, <1>12, <1>13, <1>14
     DEF VisitStep

-----------------------------------------------------------------------------
LEMMA InitInv ==
    ASSUME Init
    PROVE  IInv
<1>1. /\ program \in Programs /\ module = <<>> /\ status = "idle" /\ blocks = <<>> /\ cur = 0
      /\ nextTemp = 0 /\ locals = <<>> /\ stack = <<>> /\ lastValue = <<>>
      /\ loopStack = <<>> /\ loopCap = 0
  BY DEF Init
<1>2. TypeOK
  <2>1. program \in Seq(AstFn) /\ 0 <= Len(program) /\ Len(<<>>) = 0
    BY <1>1, ProgramAssumption
  <2>2. /\ module \in Seq(Function) /\ blocks \in Seq(BasicBlock) /\ locals \in Seq(Symbols)
        /\ stack \in Seq(FrameType) /\ lastValue \in Seq(Value) /\ loopStack \in Seq(LoopContext)
    BY <1>1
  <2> QED
    BY <1>1, <2>1, <2>2 DEF TypeOK
<1>3. Graph(blocks)
  <2>1. Labels(<<>>) = {} /\ <<>> \in Seq(BasicBlock)
    BY DEF Labels
  <2> QED
    BY <1>1, <2>1 DEF Graph, EdgesInside, EdgesMatch
<1>4. Shapes /\ Account /\ Loops
  BY <1>1 DEF Shapes, Account, Loops
<1>5. FinishedSealed
  BY <1>1 DEF FinishedSealed
<1> QED
  BY <1>2, <1>3, <1>4, <1>5 DEF IInv

LEMMA StutterInv ==
    ASSUME IInv, UNCHANGED vars
    PROVE  IInv'
<1>1. /\ program' = program /\ module' = module /\ status' = status
      /\ blocks' = blocks /\ cur' = cur /\ nextTemp' = nextTemp /\ locals' = locals
      /\ stack' = stack /\ lastValue' = lastValue /\ loopStack' = loopStack /\ loopCap' = loopCap
  BY DEF vars, fnVars, loopVars
<1>2. Fn' = Fn
  BY <1>1 DEF Fn
<1>3. TypeOK' /\ Graph(blocks') /\ FinishedSealed'
  BY <1>1 DEF IInv, TypeOK, Label, FinishedSealed
<1>4. Shapes' /\ Account' /\ Loops'
  BY <1>1, <1>2 DEF IInv, Shapes, Account, Loops
<1> QED
  BY <1>3, <1>4 DEF IInv

(* IInv is an inductive invariant of the lowering of any set of programs.   *)
THEOREM Inductive == Spec => []IInv
<1>1. Init => IInv
  BY InitInv
<1>2. IInv /\ [Next]_vars => IInv'
  <2> SUFFICES ASSUME IInv, [Next]_vars PROVE IInv'
    OBVIOUS
  <2>1. CASE BeginFn
    BY <2>1, BeginFnInv
  <2>2. CASE EndFn
    BY <2>2, EndFnInv
  <2>3. CASE VisitStep
    BY <2>3, VisitStepKind, StayStep, MoveStep, BreakDanglingInv
  <2>4. CASE UNCHANGED vars
    BY <2>4, StutterInv
  <2> QED
    BY <2>1, <2>2, <2>3, <2>4 DEF Next
<1> QED
  BY <1>1, <1>2, PTL DEF Spec

(* The data structures of IRBuilder keep their types.                       *)
THEOREM TypeCorrect == Spec => []TypeOK
<1>1. IInv => TypeOK
  BY DEF IInv
<1> QED
  BY <1>1, Inductive, PTL

(* Function::block never throws on a label the builder itself stored.       *)
THEOREM LabelsAlwaysExist == Spec => []LabelsExist
<1>1. ASSUME IInv, status = "lowering"
      PROVE  /\ \A b \in Label : TargetsOf(blocks[b]) \cup Range(blocks[b].succ)
                                   \cup Range(blocks[b].pred) \subseteq Label
             /\ \A d \in DOMAIN loopStack : {loopStack[d].head, loopStack[d].exit} \subseteq Label
             /\ \A f \in DOMAIN stack : Range(stack[f].labs) \subseteq Label
  <2>1. Graph(blocks) /\ Label = Labels(blocks)
    <3>1. Graph(blocks) /\ blocks \in Seq(BasicBlock)
      BY <1>1 DEF IInv, TypeOK
    <3> QED
      BY <3>1 DEF Label, Labels
  <2>2. ASSUME NEW b \in Labels(blocks)
        PROVE  TargetsOf(blocks[b]) \cup Range(blocks[b].succ) \cup Range(blocks[b].pred)
                 \subseteq Labels(blocks)
    BY <2>1 DEF Graph, EdgesInside, EdgesMatch
  <2>3. \A d \in DOMAIN loopStack : {loopStack[d].head, loopStack[d].exit} \subseteq Labels(blocks)
    BY <1>1 DEF IInv, Loops, ContextsInside
  <2>4. \A f \in DOMAIN stack : Range(stack[f].labs) \subseteq Labels(blocks)
    BY <1>1 DEF IInv, Account, Accounted
  <2> QED
    BY <2>1, <2>2, <2>3, <2>4
<1>2. IInv => LabelsExist
  BY <1>1 DEF LabelsExist
<1> QED
  BY <1>2, Inductive, PTL

(* No block of a function that lower_fn handed over is left without a       *)
(* terminator, although code after a return reopens blocks on the way.      *)
THEOREM FinishedBlocksAlwaysTerminated == Spec => []FinishedBlocksTerminated
<1>1. ASSUME IInv, NEW f \in DOMAIN module, NEW b \in DOMAIN module[f].blocks
      PROVE  IsTerminated(module[f].blocks[b])
  <2>1. module[f] \in Function /\ Sealed(module[f].blocks)
    BY <1>1 DEF IInv, TypeOK, FinishedSealed
  <2>2. DOMAIN module[f].blocks = Labels(module[f].blocks)
    BY <2>1 DEF Function, Labels
  <2> QED
    BY <1>1, <2>1, <2>2 DEF Sealed
<1>2. IInv => FinishedBlocksTerminated
  BY <1>1 DEF FinishedBlocksTerminated
<1> QED
  BY <1>2, Inductive, PTL

(* The edge lists that connect_blocks fills are those of the terminators.   *)
THEOREM EdgesAlwaysMatch == Spec => []EdgesMatchTerminators
<1>1. ASSUME IInv
      PROVE  EdgesMatchTerminators
  <2>1. EdgesMatch(blocks) /\ Label = Labels(blocks)
    <3>1. Graph(blocks) /\ blocks \in Seq(BasicBlock)
      BY <1>1 DEF IInv, TypeOK
    <3> QED
      BY <3>1 DEF Graph, Label, Labels
  <2>2. ASSUME NEW b \in Labels(blocks)
        PROVE  /\ Range(blocks[b].succ) = TargetsOf(blocks[b])
               /\ \A s \in Labels(blocks) :
                     s \in Range(blocks[b].succ) <=> b \in Range(blocks[s].pred)
    BY <2>1 DEF EdgesMatch
  <2> QED
    BY <2>1, <2>2 DEF EdgesMatchTerminators
<1> QED
  BY <1>1, Inductive, PTL

(* loop_stack_ lists exactly the loops whose bodies are being visited.      *)
THEOREM LoopStackAlwaysMatches == Spec => []LoopStackMatchesVisits
<1>1. ASSUME IInv, status = "lowering"
      PROVE  /\ Len(loopStack) = Depth(Len(stack))
             /\ \A f \in Bodies(Len(stack)) :
                   LET ctx == loopStack[Depth(f)]
                   IN  /\ ctx.head = stack[f].head /\ <<ctx.exit>> = stack[f].labs
                       /\ ctx.slot = stack[f].slot
  <2>1. LoopsMatch(Fn, stack, loopStack)
    BY <1>1 DEF IInv, Loops
  <2>2. \A d : Bodies(d) = Within(Fn, stack, d)
    BY DEF Bodies, Within, InBody, Inside
  <2>3. \A d : Depth(d) = Cardinality(Within(Fn, stack, d))
    BY <2>2 DEF Depth
  <2> QED
    BY <2>1, <2>2, <2>3 DEF LoopsMatch, CtxOf
<1>2. IInv => LoopStackMatchesVisits
  BY <1>1 DEF LoopStackMatchesVisits
<1> QED
  BY <1>2, Inductive, PTL

-----------------------------------------------------------------------------
(* The refinement of BlockDiscipline: the blocks the mapping calls closed   *)
(* are the terminated ones that are not open.                               *)
OpenBlock    == IF status = "idle" THEN {} ELSE {cur}
ClosedBlocks == {b \in Label : b # cur /\ IsTerminated(blocks[b])}

LEMMA ClosedAre ==
    ASSUME TypeOK
    PROVE  ClosedBlocks = Terminated(blocks) \ {cur} /\ Len(blocks) \in Nat
<1>1. blocks \in Seq(BasicBlock)
  BY DEF TypeOK
<1> QED
  BY <1>1 DEF ClosedBlocks, Terminated, Label, Labels

LEMMA ClosedAreNext ==
    ASSUME TypeOK'
    PROVE  ClosedBlocks' = Terminated(blocks') \ {cur'} /\ Len(blocks') \in Nat
<1>1. blocks' \in Seq(BasicBlock)
  BY DEF TypeOK
<1> QED
  BY <1>1 DEF ClosedBlocks, Terminated, Label, Labels

LEMMA StayMaps ==
    ASSUME IInv, IInv', Active, UnchangedRest, Stays
    PROVE  UNCHANGED <<Len(blocks), OpenBlock, ClosedBlocks>>
<1>1. /\ ClosedBlocks = Terminated(blocks) \ {cur} /\ ClosedBlocks' = Terminated(blocks') \ {cur'}
      /\ cur' = cur /\ status' = status /\ Len(blocks') = Len(blocks)
      /\ Terminated(blocks') \cup {cur} = Terminated(blocks) \cup {cur}
  BY ClosedAre, ClosedAreNext DEF IInv, Stays, InPlace, UnchangedRest
<1> QED
  BY <1>1 DEF OpenBlock

LEMMA MoveMaps ==
    ASSUME IInv, IInv', Active, UnchangedRest, Moves
    PROVE  Discipline!Move
<1>1. /\ ClosedBlocks = Terminated(blocks) \ {cur} /\ ClosedBlocks' = Terminated(blocks') \ {cur'}
      /\ Len(blocks) \in Nat /\ Len(blocks') \in Nat
  BY ClosedAre, ClosedAreNext DEF IInv
<1>2. OpenBlock = {cur} /\ OpenBlock' = {cur'}
  BY DEF OpenBlock, Active, UnchangedRest
<1>3. /\ Len(blocks') \in Len(blocks)..(Len(blocks) + 3)
      /\ Terminated(blocks') = Terminated(blocks) \cup {cur}
      /\ cur' \in 1..Len(blocks') /\ cur' \notin Terminated(blocks) \cup {cur}
  BY DEF Moves, Labels
<1>4. PICK n \in 0..3 : Len(blocks') = Len(blocks) + n
  <2>1. Len(blocks') - Len(blocks) \in 0..3
    BY <1>1, <1>3
  <2> QED
    BY <1>1, <2>1
<1>5. ClosedBlocks' = ClosedBlocks \cup OpenBlock
  BY <1>1, <1>2, <1>3
<1>6. \E b \in (1..(Len(blocks) + n)) \ (OpenBlock \cup ClosedBlocks) : OpenBlock' = {b}
  BY <1>1, <1>2, <1>3, <1>4
<1>7. OpenBlock # {}
  BY <1>2
<1> QED
  BY <1>4, <1>5, <1>6, <1>7 DEF Discipline!Move, OpenBlock, ClosedBlocks

LEMMA StepMaps ==
    ASSUME IInv, IInv', [Next]_vars
    PROVE  [Discipline!Next]_Discipline!vars
<1> USE DEF Discipline!Next
<1>1. /\ ClosedBlocks = Terminated(blocks) \ {cur} /\ ClosedBlocks' = Terminated(blocks') \ {cur'}
  BY ClosedAre, ClosedAreNext DEF IInv
<1>2. CASE BeginFn
  <2>1. /\ blocks = <<>> /\ status = "idle" /\ status' = "lowering"
        /\ cur' = 1 /\ Len(blocks') = 1 /\ Terminated(blocks') = {}
    BY <1>2, BeginFnInv
  <2>2. Len(blocks) = 0 /\ Terminated(blocks) = {}
    BY <2>1 DEF Terminated, Labels
  <2>3. OpenBlock = {} /\ ClosedBlocks = {} /\ OpenBlock' = {1} /\ ClosedBlocks' = {}
    BY <1>1, <2>1, <2>2 DEF OpenBlock
  <2> QED
    BY <2>1, <2>2, <2>3 DEF Discipline!Start, Discipline!AtRest, OpenBlock, ClosedBlocks
<1>3. CASE EndFn
  <2>1. /\ status = "lowering" /\ status' = "idle" /\ blocks' = <<>>
        /\ 1..Len(blocks) = {cur} \cup Terminated(blocks)
    BY <1>3, EndFnInv DEF Labels
  <2>2. Len(blocks') = 0 /\ Terminated(blocks') = {}
    BY <2>1 DEF Terminated, Labels
  <2>3. OpenBlock = {cur} /\ OpenBlock' = {} /\ ClosedBlocks' = {}
    BY <1>1, <2>1, <2>2 DEF OpenBlock
  <2>4. 1..Len(blocks) = OpenBlock \cup ClosedBlocks
    BY <1>1, <2>1, <2>3
  <2> QED
    BY <2>2, <2>3, <2>4 DEF Discipline!Finish, OpenBlock, ClosedBlocks
<1>4. CASE VisitStep
  <2>1. CASE StayPop \/ StayPush
    BY <2>1, StayStep, StayMaps DEF Discipline!vars, OpenBlock, ClosedBlocks
  <2>2. CASE MovePop \/ MovePush
    BY <2>2, MoveStep, MoveMaps
  <2>3. CASE BreakDangling
    <3>1. status = "lowering" /\ status' = "failed" /\ blocks' = blocks /\ cur' = cur
      BY <2>3, BreakDanglingInv
    <3>2. OpenBlock' = OpenBlock /\ ClosedBlocks' = ClosedBlocks /\ Len(blocks') = Len(blocks)
      BY <1>1, <3>1 DEF OpenBlock
    <3> QED
      BY <3>2 DEF Discipline!vars, OpenBlock, ClosedBlocks
  <2> QED
    BY <1>4, <2>1, <2>2, <2>3, VisitStepKind
<1>5. CASE UNCHANGED vars
  <2>1. status' = status /\ blocks' = blocks /\ cur' = cur
    BY <1>5 DEF vars, fnVars
  <2>2. OpenBlock' = OpenBlock /\ ClosedBlocks' = ClosedBlocks /\ Len(blocks') = Len(blocks)
    BY <1>1, <2>1 DEF OpenBlock
  <2> QED
    BY <2>2 DEF Discipline!vars, OpenBlock, ClosedBlocks
<1> QED
  BY <1>2, <1>3, <1>4, <1>5 DEF Next

(* The lowering implements BlockDiscipline: one open block, left exactly    *)
(* once, never opened again, and none forgotten at the end of a function.   *)
THEOREM Refinement == Spec => RefinesBlockDiscipline
<1>1. Init => Discipline!Init
  <2> SUFFICES ASSUME Init PROVE Discipline!Init
    OBVIOUS
  <2>1. blocks = <<>> /\ status = "idle"
    BY DEF Init
  <2> QED
    BY <2>1 DEF Discipline!Init, Discipline!AtRest, Label
<1>2. IInv /\ IInv' /\ [Next]_vars => [Discipline!Next]_Discipline!vars
  BY StepMaps
<1> QED
  BY <1>1, <1>2, Inductive, PTL DEF Spec, RefinesBlockDiscipline, Discipline!Spec
=============================================================================
