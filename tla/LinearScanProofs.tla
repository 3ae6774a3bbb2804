-------------------------- MODULE LinearScanProofs --------------------------
(***************************************************************************)
(* The theorems about LinearScanAllocator: for every set of registers and  *)
(* every sequence of calls, no register is lost or doubled, intervals that *)
(* overlap never share a location, and the first function fills all the    *)
(* registers before it goes to the stack.                                  *)
(***************************************************************************)
EXTENDS LinearScan, TLAPS, FiniteSetTheorems

(* The registers of a sequence of entries. *)
Regs(s) == [k \in DOMAIN s |-> s[k].reg]

(* Three sequences hold every register once between them. *)
Distinct(s)   == \A a, b \in DOMAIN s : s[a] = s[b] => a = b
Apart(s, t)   == \A a \in DOMAIN s, b \in DOMAIN t : s[a] # t[b]
Holds(s, r)   == \E a \in DOMAIN s : s[a] = r
Split(s, t, u) ==
    /\ Distinct(s) /\ Distinct(t) /\ Distinct(u)
    /\ Apart(s, t) /\ Apart(s, u) /\ Apart(t, u)
    /\ \A r \in RegisterNames : Holds(s, r) \/ Holds(t, r) \/ Holds(u, r)

(* The interval of the outer loop is the first of those left. *)
FirstIsNow == /\ \A i, j \in now : i = j
              /\ \A i \in now, j \in todo : i.start <= j.start

(* A register given to an interval is held under its name until no interval *)
(* that is still to come overlaps it.                                       *)
HeldOrOver ==
    \A j \in DOMAIN result : result[j].kind = "register" =>
        LET e == [id |-> j.id, reg |-> result[j].reg]
        IN  Holds(active, e) \/ Holds(newActive, e) \/ \A i \in todo : j.end < i.start

(* The slots given out lie above the next one. *)
SlotsAbove ==
    /\ spillOffset < 0
    /\ \A j \in DOMAIN result : result[j].kind = "spill" => result[j].offset > spillOffset

EachHeldOnce == Split(freeRegs, Regs(active), Regs(newActive))

IInv == /\ TypeOK /\ FirstIsNow /\ HeldOrOver /\ SlotsAbove /\ EachHeldOnce
        /\ now = {} => newActive = <<>>

-----------------------------------------------------------------------------
(* Sequences of entries and of registers.                                   *)
LEMMA EndOfAppend ==
    ASSUME NEW S, NEW s \in Seq(S), NEW e \in S, NEW x
    PROVE  Holds(Append(s, e), x) <=> Holds(s, x) \/ x = e
<1>1. DOMAIN Append(s, e) = DOMAIN s \cup {Len(s) + 1}
  OBVIOUS
<1>2. Append(s, e)[Len(s) + 1] = e /\ \A a \in DOMAIN s : Append(s, e)[a] = s[a]
  OBVIOUS
<1> QED
  BY <1>1, <1>2, Zenon DEF Holds

LEMMA HeadOrTail ==
    ASSUME NEW S, NEW s \in Seq(S), s # <<>>, NEW x, Holds(s, x)
    PROVE  x = Head(s) \/ Holds(Tail(s), x)
<1>1. PICK a \in DOMAIN s : s[a] = x
  BY DEF Holds
<1>2. CASE a = 1
  BY <1>1, <1>2
<1>3. CASE a # 1
  <2>1. a - 1 \in DOMAIN Tail(s) /\ Tail(s)[a - 1] = s[a]
    BY <1>3
  <2> QED
    BY <1>1, <2>1 DEF Holds
<1> QED
  BY <1>2, <1>3

LEMMA RegsOfParts ==
    ASSUME NEW s \in Seq(Entry)
    PROVE  /\ Regs(s) \in Seq(RegisterNames) /\ DOMAIN Regs(s) = DOMAIN s /\ (Regs(s) = <<>> <=> s = <<>>)
           /\ \A e \in Entry : Regs(Append(s, e)) = Append(Regs(s), e.reg)
           /\ s # <<>> => /\ Regs(Tail(s)) = Tail(Regs(s)) /\ Head(Regs(s)) = Head(s).reg
                          /\ Head(s) \in Entry /\ Tail(s) \in Seq(Entry)
<1>1. Regs(s) \in Seq(RegisterNames) /\ Len(Regs(s)) = Len(s) /\ DOMAIN Regs(s) = DOMAIN s
  <2>1. Len(s) \in Nat /\ DOMAIN s = 1..Len(s) /\ \A k \in DOMAIN s : s[k] \in Entry
    OBVIOUS
  <2>2. Regs(s) \in [1..Len(s) -> RegisterNames]
    BY <2>1 DEF Regs, Entry
  <2> QED
    BY <2>1, <2>2
<1>2. Regs(s) = <<>> <=> s = <<>>
  BY <1>1
<1>3. ASSUME NEW e \in Entry
      PROVE  Regs(Append(s, e)) = Append(Regs(s), e.reg)
  BY <1>1 DEF Regs, Entry
<1>4. ASSUME s # <<>>
      PROVE  /\ Regs(Tail(s)) = Tail(Regs(s)) /\ Head(Regs(s)) = Head(s).reg
             /\ Head(s) \in Entry /\ Tail(s) \in Seq(Entry)
  BY <1>1, <1>4 DEF Regs
<1> QED
  BY <1>1, <1>2, <1>3, <1>4

(* The head of one sequence goes to the end of another. *)
LEMMA HeadMoves ==
    ASSUME NEW s \in Seq(RegisterNames), NEW t \in Seq(RegisterNames), NEW u \in Seq(RegisterNames),
           s # <<>>, Split(s, t, u)
    PROVE  Split(Tail(s), Append(t, Head(s)), u)
<1> DEFINE v == Tail(s)  w == Append(t, Head(s))
<1>1. /\ Head(s) = s[1] /\ 1 \in DOMAIN s /\ s[1] \in RegisterNames
      /\ \A a \in DOMAIN v : a + 1 \in DOMAIN s /\ a \in Nat /\ a # 0 /\ v[a] = s[a + 1]
  OBVIOUS
<1>2. /\ DOMAIN w = DOMAIN t \cup {Len(t) + 1}
      /\ w[Len(t) + 1] = s[1] /\ \A b \in DOMAIN t : w[b] = t[b]
  BY <1>1
<1>3. \A r : Holds(w, r) <=> Holds(t, r) \/ r = s[1]
  BY <1>1, EndOfAppend
<1>4. \A r : Holds(s, r) => Holds(v, r) \/ r = s[1]
  BY <1>1, HeadOrTail
<1> HIDE DEF v, w
<1>5. Distinct(v)
  <2>1. ASSUME NEW a \in DOMAIN v, NEW b \in DOMAIN v, v[a] = v[b]
        PROVE  a = b
    <3>1. a + 1 = b + 1
      BY <1>1, <2>1 DEF Split, Distinct
    <3> QED
      BY <1>1, <3>1
  <2> QED
    BY <2>1 DEF Distinct
<1>6. Distinct(w)
  BY <1>1, <1>2 DEF Split, Distinct, Apart
<1>7. Apart(v, w)
  <2>1. ASSUME NEW a \in DOMAIN v, NEW b \in DOMAIN w
        PROVE  v[a] # w[b]
    <3>1. a + 1 \in DOMAIN s /\ a + 1 # 1 /\ v[a] = s[a + 1]
      BY <1>1
    <3>2. s[a + 1] # s[1]
      BY <1>1, <3>1 DEF Split, Distinct
    <3>3. b \in DOMAIN t => s[a + 1] # t[b]
      BY <3>1 DEF Split, Apart
    <3> QED
      BY <1>2, <3>1, <3>2, <3>3
  <2> QED
    BY <2>1 DEF Apart
<1>8. Apart(v, u) /\ Apart(w, u)
  BY <1>1, <1>2 DEF Split, Apart
<1>9. \A r \in RegisterNames : Holds(v, r) \/ Holds(w, r) \/ Holds(u, r)
  BY <1>3, <1>4 DEF Split
<1> QED
  BY <1>5, <1>6, <1>7, <1>8, <1>9 DEF Split, Distinct, v, w

LEMMA SplitTurns ==
    ASSUME NEW s, NEW t, NEW u, Split(s, t, u)
    PROVE  Split(t, s, u) /\ Split(t, u, s) /\ Split(u, s, t)
BY DEF Split, Apart

(* The last of one sequence goes to the end of another. *)
LEMMA LastMoves ==
    ASSUME NEW s \in Seq(RegisterNames), NEW t \in Seq(RegisterNames), NEW u \in Seq(RegisterNames),
           s # <<>>, Split(s, t, u)
    PROVE  Split(SubSeq(s, 1, Len(s) - 1), Append(t, s[Len(s)]), u)
<1> DEFINE n == Len(s)  v == SubSeq(s, 1, n - 1)  w == Append(t, s[n])
<1>1. /\ n \in DOMAIN s /\ s[n] \in RegisterNames /\ n \in Nat
      /\ DOMAIN v = DOMAIN s \ {n} /\ \A a \in DOMAIN v : v[a] = s[a]
  OBVIOUS
<1>2. /\ DOMAIN w = DOMAIN t \cup {Len(t) + 1}
      /\ w[Len(t) + 1] = s[n] /\ \A b \in DOMAIN t : w[b] = t[b]
  BY <1>1
<1>3. \A r : Holds(w, r) <=> Holds(t, r) \/ r = s[n]
  BY <1>1, EndOfAppend
<1> HIDE DEF v, w, n
<1>4. Distinct(v) /\ Distinct(w)
  BY <1>1, <1>2 DEF Split, Distinct, Apart
<1>5. Apart(v, w)
  BY <1>1, <1>2 DEF Split, Distinct, Apart
<1>6. Apart(v, u) /\ Apart(w, u)
  BY <1>1, <1>2 DEF Split, Apart
<1>7. \A r \in RegisterNames : Holds(v, r) \/ Holds(w, r) \/ Holds(u, r)
  BY <1>1, <1>3 DEF Split, Holds
<1> QED
  BY <1>4, <1>5, <1>6, <1>7 DEF Split, Distinct, v, w, n
-----------------------------------------------------------------------------
(* The inductive invariant, action by action.                               *)
LEMMA TheRequest ==
    ASSUME TypeOK
    PROVE  /\ request \in SUBSET Interval /\ \A i, j \in request : i.id = j.id => i = j
           /\ \A i \in request : i.id \in Nat /\ i.start \in Nat /\ i.end \in Nat /\ i.start <= i.end
BY RequestsWellFormed DEF TypeOK, Interval

LEMMA Beginning == Init => IInv
<1> SUFFICES ASSUME Init PROVE IInv
  OBVIOUS
<1>1. Registers \in Seq(RegisterNames)
  <2>1. Len(Registers) \in Nat /\ DOMAIN Registers = 1..Len(Registers)
        /\ Registers \in [1..Len(Registers) -> RegisterNames]
    BY RegistersDistinct DEF RegisterNames
  <2> QED
    BY <2>1
<1>2. DOMAIN result = {}
  BY DEF Init
<1>3. TypeOK
  BY <1>1, <1>2, MaxCallsAssumption DEF Init, TypeOK
<1>4. EachHeldOnce
  <2>1. DOMAIN Regs(<<>>) = {}
    BY DEF Regs
  <2> QED
    BY <2>1, RegistersDistinct DEF Init, EachHeldOnce, Split, Distinct, Apart, Holds, RegisterNames
<1> QED
  BY <1>2, <1>3, <1>4 DEF Init, IInv, FirstIsNow, HeldOrOver, SlotsAbove

LEMMA BeginStep ==
    ASSUME IInv, NEW r \in Requests, Begin(r)
    PROVE  IInv'
<1>1. DOMAIN result' = {} /\ now = {} /\ now' = {}
  BY DEF IInv, TypeOK, Begin
<1>2. TypeOK'
  BY <1>1, MaxCallsAssumption DEF IInv, TypeOK, Begin
<1>3. EachHeldOnce'
  BY DEF IInv, EachHeldOnce, Begin, Split, Distinct, Apart, Holds, Regs
<1> QED
  BY <1>1, <1>2, <1>3 DEF IInv, Begin, FirstIsNow, HeldOrOver, SlotsAbove

LEMMA TakeUpStep ==
    ASSUME IInv, NEW i \in todo, TakeUp(i)
    PROVE  IInv'
<1>1. TypeOK'
  BY DEF IInv, TypeOK, TakeUp, call
<1>2. FirstIsNow'
  BY DEF IInv, FirstIsNow, TakeUp
<1>3. EachHeldOnce'
  BY DEF IInv, EachHeldOnce, TakeUp, Split, Distinct, Apart, Holds, Regs
<1>4. HeldOrOver' /\ SlotsAbove'
  BY DEF IInv, TakeUp, HeldOrOver, SlotsAbove, Holds, call
<1> QED
  BY <1>1, <1>2, <1>3, <1>4 DEF IInv, TakeUp

LEMMA EachHeldOnceNext ==
    ASSUME Split(freeRegs', Regs(active'), Regs(newActive'))
    PROVE  EachHeldOnce'
BY DEF EachHeldOnce, Split, Distinct, Apart, Holds, Regs

(* What a step of the inner loop leaves of the invariant as it is. *)
LEMMA InnerStep ==
    ASSUME IInv, NEW i \in todo, now = {i}, UNCHANGED <<spillOffset, todo, now, call>>
    PROVE  FirstIsNow' /\ SlotsAbove' /\ now' # {}
BY DEF IInv, FirstIsNow, SlotsAbove, call

LEMMA KeepStep ==
    ASSUME IInv, NEW i \in todo, Keep(i)
    PROVE  IInv'
<1>1. /\ active \in Seq(Entry) /\ newActive \in Seq(Entry) /\ active # <<>>
      /\ Head(active) \in Entry /\ Tail(active) \in Seq(Entry) /\ freeRegs \in Seq(RegisterNames)
  BY DEF IInv, TypeOK, Keep
<1>2. TypeOK'
  BY <1>1 DEF IInv, TypeOK, Keep, call
<1>3. EachHeldOnce'
  <2> DEFINE a == Regs(active)  n == Regs(newActive)
  <2>1. /\ a \in Seq(RegisterNames) /\ a # <<>>
        /\ Regs(Tail(active)) = Tail(a) /\ Head(active).reg = Head(a)
    BY <1>1, RegsOfParts
  <2>2. /\ n \in Seq(RegisterNames) /\ Regs(Append(newActive, Head(active))) = Append(n, Head(active).reg)
    BY <1>1, RegsOfParts
  <2>3. Split(freeRegs, a, n)
    BY DEF IInv, EachHeldOnce
  <2> HIDE DEF a, n
  <2>4. Split(a, n, freeRegs)
    BY <2>3, SplitTurns
  <2>5. Split(Tail(a), Append(n, Head(a)), freeRegs)
    BY <1>1, <2>1, <2>2, <2>4, HeadMoves
  <2>6. Split(freeRegs, Tail(a), Append(n, Head(a)))
    BY <2>5, SplitTurns
  <2>7. Split(freeRegs', Regs(active'), Regs(newActive'))
    BY <2>1, <2>2, <2>6 DEF Keep
  <2> QED
    BY <2>7, EachHeldOnceNext
<1>4. HeldOrOver'
  <2> SUFFICES ASSUME NEW j \in DOMAIN result', result'[j].kind = "register"
               PROVE  LET e == [id |-> j.id, reg |-> result'[j].reg]
                      IN  Holds(active', e) \/ Holds(newActive', e) \/ \A k \in todo' : j.end < k.start
    BY DEF HeldOrOver, Holds
  <2> DEFINE e == [id |-> j.id, reg |-> result[j].reg]
  <2>1. result' = result /\ todo' = todo
    BY DEF Keep, call
  <2>2. Holds(active, e) \/ Holds(newActive, e) \/ \A k \in todo : j.end < k.start
    BY <2>1 DEF IInv, HeldOrOver
  <2>3. Holds(active, e) => e = Head(active) \/ Holds(Tail(active), e)
    BY <1>1, HeadOrTail
  <2>4. Holds(Append(newActive, Head(active)), e) <=> Holds(newActive, e) \/ e = Head(active)
    BY <1>1, EndOfAppend
  <2> QED
    BY <2>1, <2>2, <2>3, <2>4 DEF Keep
<1> QED
  BY <1>2, <1>3, <1>4, InnerStep DEF IInv, Keep

(* An entry that expires is of no interval of the call, or of one that ends *)
(* before every interval still to come.                                     *)
LEMMA ExpireStep ==
    ASSUME IInv, NEW i \in todo, Expire(i)
    PROVE  IInv'
<1>1. /\ active \in Seq(Entry) /\ newActive \in Seq(Entry) /\ active # <<>>
      /\ Head(active) \in Entry /\ Tail(active) \in Seq(Entry) /\ freeRegs \in Seq(RegisterNames)
      /\ freeRegs' = Append(freeRegs, Head(active).reg)
  BY DEF IInv, TypeOK, Expire, GivenBack
<1>2. TypeOK'
  <2>1. freeRegs' \in Seq(RegisterNames)
    BY <1>1 DEF Entry
  <2> QED
    BY <1>1, <2>1 DEF IInv, TypeOK, Expire, call
<1>3. EachHeldOnce'
  <2> DEFINE a == Regs(active)  n == Regs(newActive)
  <2>1. /\ a \in Seq(RegisterNames) /\ n \in Seq(RegisterNames) /\ a # <<>>
        /\ Regs(Tail(active)) = Tail(a) /\ Head(active).reg = Head(a)
    BY <1>1, RegsOfParts
  <2>2. Split(freeRegs, a, n)
    BY DEF IInv, EachHeldOnce
  <2>3. newActive' = newActive /\ Regs(newActive') = n
    BY DEF Expire
  <2> HIDE DEF a, n
  <2>4. Split(a, freeRegs, n)
    BY <2>2, SplitTurns
  <2>5. Split(Tail(a), Append(freeRegs, Head(a)), n)
    BY <1>1, <2>1, <2>4, HeadMoves
  <2>6. Split(Append(freeRegs, Head(a)), Tail(a), n)
    BY <2>5, SplitTurns
  <2>7. Split(freeRegs', Regs(active'), Regs(newActive'))
    BY <1>1, <2>1, <2>3, <2>6 DEF Expire
  <2> QED
    BY <2>7, EachHeldOnceNext
<1>4. HeldOrOver'
  <2> SUFFICES ASSUME NEW j \in DOMAIN result', result'[j].kind = "register"
               PROVE  LET e == [id |-> j.id, reg |-> result'[j].reg]
                      IN  Holds(active', e) \/ Holds(newActive', e) \/ \A k \in todo' : j.end < k.start
    BY DEF HeldOrOver, Holds
  <2> DEFINE e == [id |-> j.id, reg |-> result[j].reg]
  <2>1. result' = result /\ todo' = todo /\ newActive' = newActive /\ active' = Tail(active)
    BY DEF Expire, call
  <2>2. Holds(active, e) \/ Holds(newActive, e) \/ \A k \in todo : j.end < k.start
    BY <2>1 DEF IInv, HeldOrOver
  <2>3. Holds(active, e) => e = Head(active) \/ Holds(Tail(active), e)
    BY <1>1, HeadOrTail
  <2>4. ASSUME e = Head(active), NEW k \in todo
        PROVE  j.end < k.start
    <3>1. j \in request /\ i \in request /\ k \in request
      BY <2>1 DEF IInv, TypeOK
    <3>2. j.end \in Nat /\ i.start \in Nat /\ k.start \in Nat
      BY <3>1, TheRequest DEF IInv
    <3>3. ~(j.end >= i.start)
      BY <2>4, <3>1 DEF Expire, Kept
    <3>4. i.start <= k.start
      BY DEF IInv, FirstIsNow, Expire
    <3> QED
      BY <3>2, <3>3, <3>4
  <2> QED
    BY <2>1, <2>2, <2>3, <2>4
<1> QED
  BY <1>2, <1>3, <1>4, InnerStep DEF IInv, Expire

(* The end of a turn of the outer loop: the interval has its place.         *)
LEMMA AssignStep ==
    ASSUME IInv, NEW i \in todo, NEW place, Assign(i, place)
    PROVE  /\ i \in request /\ i \notin DOMAIN result /\ DOMAIN result' = DOMAIN result \cup {i}
           /\ result'[i] = place /\ \A j \in DOMAIN result : result'[j] = result[j]
           /\ request' \in Requests \cup {{}} /\ todo' \in SUBSET request' /\ now' \in SUBSET todo'
           /\ DOMAIN result' = request' \ todo' /\ calls' \in 0..MaxCalls /\ FirstIsNow'
<1>1. i \in request /\ i \notin DOMAIN result /\ DOMAIN result = request \ todo
  BY DEF IInv, TypeOK
<1>2. result' = [j \in DOMAIN result \cup {i} |-> IF j = i THEN place ELSE result[j]]
  BY DEF Assign
<1>3. /\ DOMAIN result' = DOMAIN result \cup {i} /\ result'[i] = place
      /\ \A j \in DOMAIN result : result'[j] = result[j]
  BY <1>1, <1>2
<1>4. request' \in Requests \cup {{}} /\ todo' \in SUBSET request' /\ now' \in SUBSET todo'
      /\ calls' \in 0..MaxCalls /\ FirstIsNow'
  BY DEF IInv, TypeOK, Assign, FirstIsNow
<1>5. DOMAIN result' = request' \ todo'
  BY <1>1, <1>3 DEF Assign, IInv, TypeOK
<1> QED
  BY <1>1, <1>3, <1>4, <1>5

LEMMA TakeRegisterStep ==
    ASSUME IInv, NEW i \in todo, TakeRegister(i)
    PROVE  IInv'
<1> DEFINE reg == freeRegs[Len(freeRegs)]  e == [id |-> i.id, reg |-> reg]
<1>1. /\ freeRegs \in Seq(RegisterNames) /\ freeRegs # <<>> /\ reg \in RegisterNames
      /\ SubSeq(freeRegs, 1, Len(freeRegs) - 1) \in Seq(RegisterNames)
  BY DEF IInv, TypeOK, TakeRegister
<1>2. /\ Assign(i, Reg(reg)) /\ freeRegs' = SubSeq(freeRegs, 1, Len(freeRegs) - 1)
      /\ active' = Append(newActive, e) /\ newActive' = <<>> /\ active = <<>> /\ now' = {}
      /\ todo' = todo \ {i} /\ spillOffset' = spillOffset
  BY DEF TakeRegister, Assign
<1>3. i \in request /\ e \in Entry /\ newActive \in Seq(Entry) /\ active' \in Seq(Entry)
  <2>1. i \in request /\ newActive \in Seq(Entry)
    BY DEF IInv, TypeOK
  <2>2. i.id \in Nat
    BY <2>1, TheRequest DEF IInv
  <2> QED
    BY <1>1, <1>2, <2>1, <2>2 DEF Entry
<1>4. /\ DOMAIN result' = DOMAIN result \cup {i} /\ i \notin DOMAIN result
      /\ result'[i] = Reg(reg) /\ \A j \in DOMAIN result : result'[j] = result[j]
  BY <1>2, AssignStep
<1>5. TypeOK'
  <2>1. IsLocation(Reg(reg))
    BY <1>1 DEF IsLocation, Reg
  <2>2. \A j \in DOMAIN result' : IsLocation(result'[j])
    BY <1>4, <2>1 DEF IInv, TypeOK
  <2>3. spillOffset' \in Int /\ newActive' \in Seq(Entry)
    BY <1>2 DEF IInv, TypeOK
  <2>4. /\ request' \in Requests \cup {{}} /\ todo' \in SUBSET request' /\ now' \in SUBSET todo'
        /\ DOMAIN result' = request' \ todo' /\ calls' \in 0..MaxCalls
    BY <1>2, AssignStep
  <2> QED
    BY <1>1, <1>2, <1>3, <2>2, <2>3, <2>4 DEF TypeOK, IsLocation
<1>6. EachHeldOnce'
  <2> DEFINE n == Regs(newActive)
  <2>1. Regs(<<>>) = <<>>
    BY DEF Regs
  <2>2. n \in Seq(RegisterNames) /\ Regs(Append(newActive, e)) = Append(n, reg)
    BY <1>3, RegsOfParts
  <2>3. Split(freeRegs, <<>>, n)
    BY <1>2, <2>1 DEF IInv, EachHeldOnce
  <2> HIDE DEF n
  <2>4. Split(freeRegs, n, <<>>)
    BY <2>3 DEF Split, Apart
  <2>5. Split(SubSeq(freeRegs, 1, Len(freeRegs) - 1), Append(n, reg), <<>>)
    <3>1. <<>> \in Seq(RegisterNames)
      OBVIOUS
    <3> QED
      BY <1>1, <2>2, <2>4, <3>1, LastMoves
  <2>6. Split(freeRegs', Regs(active'), Regs(newActive'))
    BY <1>2, <2>1, <2>2, <2>5
  <2> QED
    BY <2>6, EachHeldOnceNext
<1>7. HeldOrOver'
  <2> SUFFICES ASSUME NEW j \in DOMAIN result', result'[j].kind = "register"
               PROVE  LET f == [id |-> j.id, reg |-> result'[j].reg]
                      IN  Holds(active', f) \/ Holds(newActive', f) \/ \A k \in todo' : j.end < k.start
    BY DEF HeldOrOver, Holds
  <2> DEFINE f == [id |-> j.id, reg |-> result'[j].reg]
  <2>1. Holds(active', f) <=> Holds(newActive, f) \/ f = e
    BY <1>2, <1>3, EndOfAppend
  <2>2. CASE j = i
    BY <1>4, <2>1, <2>2 DEF Reg
  <2>3. CASE j \in DOMAIN result
    <3>1. Holds(active, f) \/ Holds(newActive, f) \/ \A k \in todo : j.end < k.start
      BY <1>4, <2>3 DEF IInv, HeldOrOver
    <3>2. ~Holds(active, f)
      BY <1>2 DEF Holds
    <3> QED
      BY <1>2, <2>1, <3>1, <3>2
  <2> QED
    BY <1>4, <2>2, <2>3
<1>8. SlotsAbove'
  BY <1>2, <1>4 DEF IInv, SlotsAbove, Reg
<1>9. FirstIsNow'
  BY <1>2, AssignStep
<1> QED
  BY <1>2, <1>5, <1>6, <1>7, <1>8, <1>9 DEF IInv

LEMMA KindsOfPlaces ==
    /\ \A r : Reg(r).kind = "register" /\ Reg(r).reg = r /\ Reg(r).offset = 0
    /\ \A n : Slot(n).kind = "spill" /\ Slot(n).offset = n
BY DEF Reg, Slot

LEMMA SpillStep ==
    ASSUME IInv, NEW i \in todo, Spill(i)
    PROVE  IInv'
<1>1. /\ Assign(i, Slot(spillOffset)) /\ freeRegs' = freeRegs /\ active = <<>> /\ now' = {}
      /\ active' = newActive /\ newActive' = <<>> /\ spillOffset' = spillOffset - 8
      /\ todo' = todo \ {i} /\ spillOffset \in Int /\ spillOffset < 0
  BY DEF Spill, Assign, NextSpill, IInv, TypeOK, SlotsAbove
<1>2. /\ DOMAIN result' = DOMAIN result \cup {i} /\ i \notin DOMAIN result
      /\ result'[i] = Slot(spillOffset) /\ \A j \in DOMAIN result : result'[j] = result[j]
  BY <1>1, AssignStep
<1>3. TypeOK'
  <2>1. IsLocation(Slot(spillOffset))
    BY <1>1 DEF IsLocation, Slot
  <2>2. \A j \in DOMAIN result' : IsLocation(result'[j])
    BY <1>2, <2>1 DEF IInv, TypeOK
  <2>3. /\ spillOffset' \in Int /\ freeRegs' \in Seq(RegisterNames)
        /\ active' \in Seq(Entry) /\ newActive' \in Seq(Entry)
    BY <1>1 DEF IInv, TypeOK
  <2>4. /\ request' \in Requests \cup {{}} /\ todo' \in SUBSET request' /\ now' \in SUBSET todo'
        /\ DOMAIN result' = request' \ todo' /\ calls' \in 0..MaxCalls
    BY <1>1, AssignStep
  <2> QED
    BY <2>2, <2>3, <2>4 DEF TypeOK, IsLocation
<1>4. EachHeldOnce'
  <2>1. Split(freeRegs, Regs(<<>>), Regs(newActive))
    BY <1>1 DEF IInv, EachHeldOnce
  <2>2. Split(freeRegs, Regs(newActive), Regs(<<>>))
    BY <2>1 DEF Split, Apart
  <2> QED
    BY <1>1, <2>2, EachHeldOnceNext
<1>5. HeldOrOver'
  <2> SUFFICES ASSUME NEW j \in DOMAIN result', result'[j].kind = "register"
               PROVE  LET f == [id |-> j.id, reg |-> result'[j].reg]
                      IN  Holds(active', f) \/ Holds(newActive', f) \/ \A k \in todo' : j.end < k.start
    BY DEF HeldOrOver, Holds
  <2> DEFINE f == [id |-> j.id, reg |-> result'[j].reg]
  <2>1. j \in DOMAIN result
    BY <1>2, KindsOfPlaces
  <2>2. Holds(active, f) \/ Holds(newActive, f) \/ \A k \in todo : j.end < k.start
    BY <1>2, <2>1 DEF IInv, HeldOrOver
  <2>3. ~Holds(active, f)
    BY <1>1 DEF Holds
  <2> QED
    BY <1>1, <2>2, <2>3
<1>6. SlotsAbove'
  <2> SUFFICES ASSUME NEW j \in DOMAIN result', result'[j].kind = "spill"
               PROVE  result'[j].offset > spillOffset'
    BY <1>1 DEF SlotsAbove
  <2>1. CASE j = i
    BY <1>1, <1>2, <2>1, KindsOfPlaces
  <2>2. CASE j \in DOMAIN result
    <3>1. result'[j] = result[j] /\ IsLocation(result[j]) /\ result[j].offset > spillOffset
      BY <1>2, <2>2 DEF IInv, TypeOK, SlotsAbove
    <3>2. result[j].offset \in Int
      <4>1. CASE result[j] = Reg(result[j].reg)
        <5>1. result[j].kind = "register" /\ result[j].kind = "spill"
          BY <3>1, <4>1, KindsOfPlaces, Zenon
        <5> QED
          BY <5>1
      <4>2. CASE result[j].offset \in Int
        BY <4>2
      <4> QED
        BY <3>1, <4>1, <4>2 DEF IsLocation
    <3> QED
      BY <1>1, <3>1, <3>2
  <2> QED
    BY <1>2, <2>1, <2>2
<1>7. FirstIsNow'
  BY <1>1, AssignStep
<1> QED
  BY <1>1, <1>3, <1>4, <1>5, <1>6, <1>7 DEF IInv

LEMMA NothingStep ==
    ASSUME IInv, UNCHANGED vars
    PROVE  IInv'
BY DEF IInv, TypeOK, FirstIsNow, HeldOrOver, SlotsAbove, EachHeldOnce, Split, Distinct, Apart, Holds, Regs, vars, call

(* The inductive invariant holds in every state, for every set of registers *)
(* and all requests (codegen.cpp:67-106).                                   *)
THEOREM AllocatorInductive == Spec => []IInv
<1>1. Init => IInv
  BY Beginning
<1>2. IInv /\ [Next]_vars => IInv'
  <2> SUFFICES ASSUME IInv, [Next]_vars PROVE IInv'
    OBVIOUS
  <2>1. CASE \E r \in Requests : Begin(r)
    BY <2>1, BeginStep
  <2>2. ASSUME NEW i \in todo, TakeUp(i) \/ Keep(i) \/ Expire(i) \/ TakeRegister(i) \/ Spill(i)
        PROVE  IInv'
    BY <2>2, TakeUpStep, KeepStep, ExpireStep, TakeRegisterStep, SpillStep
  <2>3. CASE UNCHANGED vars
    BY <2>3, NothingStep
  <2> QED
    BY <2>1, <2>2, <2>3 DEF Next
<1> QED
  BY <1>1, <1>2, PTL DEF Spec

-----------------------------------------------------------------------------
(* The allocator's data keeps its types (codegen.hpp:30-36).                *)
THEOREM AllocatorTypeCorrect == Spec => []TypeOK
<1>1. IInv => TypeOK
  BY DEF IInv
<1> QED
  BY <1>1, AllocatorInductive, PTL

(* Each register is free or held by one entry, at every turn of either loop *)
(* and over all calls (codegen.cpp:80-101).                                 *)
LEMMA OnePlace ==
    ASSUME IInv, NEW r \in RegisterNames
    PROVE  Cardinality(Places(r)) = 1
<1> DEFINE a == Regs(active)  n == Regs(newActive)
<1>1. /\ DOMAIN a = DOMAIN active /\ \A k \in DOMAIN active : a[k] = active[k].reg
      /\ DOMAIN n = DOMAIN newActive /\ \A k \in DOMAIN newActive : n[k] = newActive[k].reg
  BY DEF Regs
<1> HIDE DEF a, n
<1>2. Split(freeRegs, a, n)
  BY DEF IInv, EachHeldOnce, a, n
<1>3. Places(r) = {<<"free", k>> : k \in {m \in DOMAIN freeRegs : freeRegs[m] = r}}
                  \cup {<<"active", k>> : k \in {m \in DOMAIN a : a[m] = r}}
                  \cup {<<"kept", k>> : k \in {m \in DOMAIN n : n[m] = r}}
  BY <1>1 DEF Places
<1>4. \E p : Places(r) = {p}
  <2>1. ASSUME NEW k \in DOMAIN freeRegs, freeRegs[k] = r
        PROVE  Places(r) = {<<"free", k>>}
    BY <1>2, <1>3, <2>1 DEF Split, Distinct, Apart
  <2>2. ASSUME NEW k \in DOMAIN a, a[k] = r
        PROVE  Places(r) = {<<"active", k>>}
    BY <1>2, <1>3, <2>2 DEF Split, Distinct, Apart
  <2>3. ASSUME NEW k \in DOMAIN n, n[k] = r
        PROVE  Places(r) = {<<"kept", k>>}
    BY <1>2, <1>3, <2>3 DEF Split, Distinct, Apart
  <2> QED
    BY <1>2, <2>1, <2>2, <2>3 DEF Split, Holds
<1> QED
  BY <1>4, FS_Singleton

THEOREM RegistersAlwaysConserved == Spec => []RegistersConserved
<1>1. IInv => RegistersConserved
  BY OnePlace DEF RegistersConserved
<1> QED
  BY <1>1, AllocatorInductive, PTL

-----------------------------------------------------------------------------
(* The refinement.  Whoever is placed shares with no interval it overlaps.  *)
LEMMA FreeIsUnshared ==
    ASSUME IInv, NEW i \in todo, TakeRegister(i), NEW j \in DOMAIN result, Promise!Overlap(i, j)
    PROVE  result[j] # Reg(freeRegs[Len(freeRegs)])
<1> DEFINE last == Len(freeRegs)
<1>1. active = <<>> /\ freeRegs \in Seq(RegisterNames) /\ last \in DOMAIN freeRegs
  BY DEF TakeRegister, Assign, IInv, TypeOK
<1> SUFFICES ASSUME result[j] = Reg(freeRegs[last]) PROVE FALSE
  OBVIOUS
<1>2. result[j].kind = "register" /\ result[j].reg = freeRegs[last]
  BY KindsOfPlaces
<1>3. j.end \in Nat /\ i.start \in Nat /\ i.start <= j.end
  <2>1. i \in request /\ j \in request
    BY DEF IInv, TypeOK
  <2> QED
    BY <2>1, TheRequest DEF IInv, Promise!Overlap
<1>4. Holds(newActive, [id |-> j.id, reg |-> freeRegs[last]])
  <2>1. ~(j.end < i.start)
    BY <1>3
  <2>2. ~Holds(active, [id |-> j.id, reg |-> freeRegs[last]])
    BY <1>1 DEF Holds
  <2> QED
    BY <1>2, <2>1, <2>2 DEF IInv, HeldOrOver
<1>5. PICK k \in DOMAIN newActive : newActive[k] = [id |-> j.id, reg |-> freeRegs[last]]
  BY <1>4 DEF Holds
<1>6. k \in DOMAIN Regs(newActive) /\ Regs(newActive)[k] = freeRegs[last]
  BY <1>5 DEF Regs
<1> QED
  BY <1>1, <1>6 DEF IInv, EachHeldOnce, Split, Apart

LEMMA SlotIsUnshared ==
    ASSUME IInv, NEW j \in DOMAIN result
    PROVE  result[j] # Slot(spillOffset)
<1> SUFFICES ASSUME result[j] = Slot(spillOffset) PROVE FALSE
  OBVIOUS
<1>1. result[j].kind = "spill" /\ result[j].offset = spillOffset
  BY KindsOfPlaces
<1>2. result[j].offset > spillOffset /\ spillOffset \in Int
  BY <1>1 DEF IInv, SlotsAbove, TypeOK
<1> QED
  BY <1>1, <1>2

LEMMA PlaceStep ==
    ASSUME IInv, NEW i \in todo, NEW place, Assign(i, place),
           \A j \in DOMAIN result : Promise!Overlap(i, j) => result[j] # place
    PROVE  Promise!Next
<1>1. i \in (DOMAIN result') \ DOMAIN result /\ result'[i] = place /\ i \in request
  BY AssignStep
<1>2. i \in IntervalsAsked
  BY <1>1 DEF IInv, TypeOK, IntervalsAsked
<1>3. result' = [j \in DOMAIN result \cup {i} |-> IF j = i THEN result'[i] ELSE result[j]]
  BY <1>1 DEF Assign
<1>4. Promise!Place(i)
  BY <1>1, <1>3 DEF Promise!Place
<1> QED
  BY <1>2, <1>4 DEF Promise!Next

(* Intervals that overlap never share a register or a slot, in every call   *)
(* on one allocator (codegen.cpp:67-106): LinearScan implements             *)
(* RegisterAssignment.                                                      *)
THEOREM NeverShared == Spec => NoSharedLocation
<1>1. Init => Promise!Init
  BY DEF Init, Promise!Init, Promise!Nothing
<1>2. IInv /\ [Next]_vars => [Promise!Next]_result
  <2> SUFFICES ASSUME IInv, Next, result' # result PROVE Promise!Next
    BY DEF vars, call
  <2>1. CASE \E r \in Requests : Begin(r)
    BY <2>1 DEF Begin, Promise!Next, Promise!NextFunction, Promise!Nothing
  <2>2. ASSUME NEW i \in todo, TakeUp(i) \/ Keep(i) \/ Expire(i)
        PROVE  Promise!Next
    BY <2>2 DEF TakeUp, Keep, Expire, call
  <2>3. ASSUME NEW i \in todo, TakeRegister(i)
        PROVE  Promise!Next
    <3>1. Assign(i, Reg(freeRegs[Len(freeRegs)]))
      BY <2>3 DEF TakeRegister
    <3> QED
      BY <2>3, <3>1, FreeIsUnshared, PlaceStep
  <2>4. ASSUME NEW i \in todo, Spill(i)
        PROVE  Promise!Next
    <3>1. Assign(i, Slot(spillOffset))
      BY <2>4 DEF Spill
    <3> QED
      BY <2>4, <3>1, SlotIsUnshared, PlaceStep
  <2> QED
    BY <2>1, <2>2, <2>3, <2>4 DEF Next
<1> QED
  BY <1>1, <1>2, AllocatorInductive, PTL DEF Spec, NoSharedLocation, Promise!Spec

-----------------------------------------------------------------------------
(* The first function.  While no entries of an earlier call are left, what  *)
(* is held is held by an interval of the request, and what the inner loop   *)
(* has kept is live where the interval of the outer loop starts.            *)
InOrder == \A j \in DOMAIN result, i \in todo : j.start <= i.start
NameOf(j) == [id |-> j.id, reg |-> result[j].reg]
Placed(j, e) == result[j].kind = "register" /\ e = NameOf(j)
HeldByItsOwn == \A e : Holds(active, e) \/ Holds(newActive, e) => \E j \in DOMAIN result : Placed(j, e)
KeptIsLive == \A i \in now : \A e : Holds(newActive, e) => Kept(e, i)
EveryRegisterTaken(i) == \A r \in RegisterNames : \E j \in Pressure(i) : result[j].reg = r
SpilledWithoutChoice == \A i \in DOMAIN result : result[i].kind = "spill" => EveryRegisterTaken(i)
FirstInv == /\ InOrder
            /\ calls = 0 => request = {} /\ active = <<>> /\ newActive = <<>>
            /\ calls <= 1 => HeldByItsOwn /\ KeptIsLive /\ SpilledWithoutChoice

LEMMA FirstBeginning == Init => FirstInv
BY DEF Init, FirstInv, InOrder, HeldByItsOwn, KeptIsLive, SpilledWithoutChoice, Holds

LEMMA FirstBegin ==
    ASSUME IInv, FirstInv, NEW r \in Requests, Begin(r)
    PROVE  FirstInv'
<1>1. /\ DOMAIN result' = {} /\ calls' = calls + 1 /\ calls \in Nat /\ now' = now /\ now = {}
      /\ active' = active /\ newActive' = newActive
  BY MaxCallsAssumption DEF Begin, IInv, TypeOK
<1>2. ASSUME calls' <= 1
      PROVE  active' = <<>> /\ newActive' = <<>>
  BY <1>1, <1>2 DEF FirstInv
<1>3. calls' <= 1 => HeldByItsOwn' /\ KeptIsLive' /\ SpilledWithoutChoice'
  BY <1>1, <1>2 DEF HeldByItsOwn, KeptIsLive, SpilledWithoutChoice, Holds
<1> QED
  BY <1>1, <1>3 DEF FirstInv, InOrder

LEMMA FirstTakeUp ==
    ASSUME IInv, FirstInv, NEW i \in todo, TakeUp(i)
    PROVE  FirstInv'
<1>1. newActive = <<>>
  BY DEF IInv, TakeUp
<1>2. KeptIsLive'
  BY <1>1 DEF TakeUp, KeptIsLive, Holds
<1>3. InOrder' /\ (HeldByItsOwn => HeldByItsOwn') /\ (SpilledWithoutChoice => SpilledWithoutChoice')
  BY DEF FirstInv, TakeUp, call, InOrder, HeldByItsOwn, Holds, Placed, NameOf, SpilledWithoutChoice,
     EveryRegisterTaken, Pressure
<1> QED
  BY <1>2, <1>3 DEF FirstInv, TakeUp, call

(* A turn of the inner loop: the entries stay or go, and only those that    *)
(* are live stay.                                                           *)
LEMMA FirstInner ==
    ASSUME IInv, FirstInv, NEW i \in todo, Keep(i) \/ Expire(i)
    PROVE  FirstInv'
<1>1. /\ active \in Seq(Entry) /\ newActive \in Seq(Entry) /\ active # <<>> /\ Head(active) \in Entry
      /\ active' = Tail(active) /\ now = {i} /\ now' = now /\ todo' = todo
      /\ request' = request /\ result' = result /\ calls' = calls
  BY DEF IInv, TypeOK, Keep, Expire, call
<1>2. \A e : Holds(active', e) => Holds(active, e)
  BY <1>1 DEF Holds
<1>3. Holds(active, Head(active))
  BY <1>1 DEF Holds
<1>4. \A e : Holds(newActive', e) => Holds(newActive, e) \/ (e = Head(active) /\ Kept(e, i))
  <2>1. CASE Keep(i)
    BY <1>1, <2>1, EndOfAppend DEF Keep
  <2>2. CASE Expire(i)
    BY <2>2 DEF Expire
  <2> QED
    BY <2>1, <2>2
<1>5. \A e : Holds(active', e) \/ Holds(newActive', e) => Holds(active, e) \/ Holds(newActive, e)
  BY <1>2, <1>3, <1>4
<1>6. HeldByItsOwn => HeldByItsOwn'
  BY <1>1, <1>5 DEF HeldByItsOwn, Placed, NameOf
<1>7. KeptIsLive => KeptIsLive'
  BY <1>1, <1>4 DEF KeptIsLive, Kept
<1>8. InOrder' /\ (SpilledWithoutChoice => SpilledWithoutChoice')
  BY <1>1 DEF FirstInv, InOrder, SpilledWithoutChoice, EveryRegisterTaken, Pressure
<1>9. calls # 0
  BY <1>1 DEF FirstInv
<1> QED
  BY <1>1, <1>6, <1>7, <1>8, <1>9 DEF FirstInv

(* The end of a turn of the outer loop. *)
LEMMA FirstAssign ==
    ASSUME IInv, FirstInv, NEW i \in todo, NEW place, Assign(i, place)
    PROVE  /\ InOrder' /\ KeptIsLive' /\ calls' = calls /\ request' = request
           /\ calls <= 1 => \A k \in DOMAIN result : result[k].kind = "spill" => EveryRegisterTaken(k)'
<1>1. /\ i \in request /\ i \notin DOMAIN result /\ DOMAIN result' = DOMAIN result \cup {i}
      /\ result'[i] = place /\ \A j \in DOMAIN result : result'[j] = result[j]
      /\ now = {i} /\ now' = {} /\ todo' = todo \ {i} /\ calls' = calls /\ request' = request
  BY AssignStep DEF Assign
<1>2. InOrder'
  BY <1>1 DEF FirstInv, InOrder, IInv, FirstIsNow
<1>3. KeptIsLive'
  BY <1>1 DEF KeptIsLive
<1>4. ASSUME NEW k \in DOMAIN result, EveryRegisterTaken(k)
      PROVE  EveryRegisterTaken(k)'
  <2>1. \A j \in Pressure(k) : j \in Pressure(k)' /\ result'[j].reg = result[j].reg
    BY <1>1 DEF Pressure
  <2> QED
    BY <1>4, <2>1 DEF EveryRegisterTaken
<1> QED
  BY <1>1, <1>2, <1>3, <1>4 DEF FirstInv, SpilledWithoutChoice

LEMMA FirstTakeRegister ==
    ASSUME IInv, FirstInv, NEW i \in todo, TakeRegister(i)
    PROVE  FirstInv'
<1>0. PICK reg : reg = freeRegs[Len(freeRegs)]
  OBVIOUS
<1> DEFINE e == [id |-> i.id, reg |-> reg]
<1>1. Assign(i, Reg(reg)) /\ active' = Append(newActive, e) /\ newActive' = <<>> /\ active = <<>>
  BY <1>0 DEF TakeRegister, Assign
<1>2. /\ DOMAIN result' = DOMAIN result \cup {i} /\ i \notin DOMAIN result
      /\ result'[i] = Reg(reg) /\ \A j \in DOMAIN result : result'[j] = result[j]
      /\ i.id \in Nat /\ reg \in RegisterNames /\ newActive \in Seq(Entry)
  <2>1. i.id \in Nat
    BY <1>1, AssignStep, TheRequest DEF IInv
  <2>2. reg \in RegisterNames /\ newActive \in Seq(Entry)
    BY <1>0 DEF TakeRegister, IInv, TypeOK
  <2> QED
    BY <1>1, <2>1, <2>2, AssignStep
<1>3. \A f : Holds(active', f) \/ Holds(newActive', f) => Holds(newActive, f) \/ f = e
  <2>1. e \in Entry
    BY <1>2 DEF Entry
  <2>2. \A f : Holds(active', f) => Holds(newActive, f) \/ f = e
    BY <1>1, <1>2, <2>1, EndOfAppend
  <2> QED
    BY <1>1, <2>2 DEF Holds
<1>4. Placed(i, e)'
  BY <1>2, KindsOfPlaces DEF Placed, NameOf
<1>5. HeldByItsOwn => HeldByItsOwn'
  <2> SUFFICES ASSUME HeldByItsOwn, NEW f, Holds(newActive, f) \/ f = e
               PROVE  \E j \in DOMAIN result' : Placed(j, f)'
    BY <1>3 DEF HeldByItsOwn
  <2>1. CASE f = e
    BY <1>2, <1>4, <2>1
  <2>2. CASE Holds(newActive, f)
    <3>1. PICK j \in DOMAIN result : Placed(j, f)
      BY <2>2 DEF HeldByItsOwn
    <3>2. Placed(j, f)'
      BY <1>2, <3>1 DEF Placed, NameOf
    <3> QED
      BY <1>2, <3>2
  <2> QED
    BY <2>1, <2>2
<1>6. calls <= 1 => SpilledWithoutChoice'
  <2>1. result'[i].kind # "spill"
    BY <1>2, KindsOfPlaces
  <2> QED
    BY <1>1, <1>2, <2>1, FirstAssign DEF SpilledWithoutChoice
<1>7. calls # 0
  BY <1>1 DEF Assign, IInv, FirstInv, TypeOK
<1> QED
  BY <1>1, <1>5, <1>6, <1>7, FirstAssign DEF FirstInv

(* No register is free, so each is held by an entry the inner loop has kept. *)
LEMMA FirstSpill ==
    ASSUME IInv, FirstInv, NEW i \in todo, Spill(i)
    PROVE  FirstInv'
<1>0. PICK place : place = Slot(spillOffset)
  OBVIOUS
<1>1. /\ Assign(i, place) /\ active' = newActive /\ newActive' = <<>> /\ active = <<>>
      /\ freeRegs = <<>> /\ now = {i}
  BY <1>0 DEF Spill, Assign
<1>2. /\ DOMAIN result' = DOMAIN result \cup {i} /\ i \notin DOMAIN result /\ i \in request
      /\ result'[i] = place /\ \A j \in DOMAIN result : result'[j] = result[j]
  BY <1>1, AssignStep
<1>3. HeldByItsOwn => HeldByItsOwn'
  <2>1. \A f : Holds(active', f) \/ Holds(newActive', f) => Holds(newActive, f)
    BY <1>1 DEF Holds
  <2>2. \A f, j : j \in DOMAIN result /\ Placed(j, f) => j \in DOMAIN result' /\ Placed(j, f)'
    BY <1>2 DEF Placed, NameOf
  <2> QED
    BY <2>1, <2>2 DEF HeldByItsOwn
<1>4. ASSUME calls <= 1, NEW r \in RegisterNames
      PROVE  \E j \in Pressure(i)' : result'[j].reg = r
  <2>1. PICK k \in DOMAIN newActive : newActive[k].reg = r
    <3>1. Split(<<>>, Regs(<<>>), Regs(newActive))
      BY <1>1 DEF IInv, EachHeldOnce
    <3> QED
      BY <3>1 DEF Split, Holds, Regs
  <2>2. PICK j \in DOMAIN result : Placed(j, newActive[k])
    BY <1>4 DEF FirstInv, HeldByItsOwn, Holds
  <2>3. Kept(newActive[k], i)
    BY <1>1, <1>4 DEF FirstInv, KeptIsLive, Holds
  <2>4. j \in request /\ newActive[k].id = j.id /\ result[j].reg = r /\ result[j].kind = "register"
    BY <2>1, <2>2 DEF Placed, NameOf, IInv, TypeOK
  <2>5. j.end >= i.start
    BY <2>3, <2>4, TheRequest DEF Kept, IInv
  <2>6. j.start <= i.start
    BY DEF FirstInv, InOrder
  <2>7. Promise!Overlap(i, j)
    BY <1>2, <2>4, <2>5, <2>6, TheRequest DEF Promise!Overlap, IInv
  <2> QED
    BY <1>2, <2>4, <2>7 DEF Pressure
<1>5. calls <= 1 => SpilledWithoutChoice'
  <2>1. calls <= 1 => EveryRegisterTaken(i)'
    BY <1>4 DEF EveryRegisterTaken
  <2> QED
    BY <1>1, <1>2, <2>1, FirstAssign DEF SpilledWithoutChoice
<1>6. calls # 0
  BY <1>2 DEF FirstInv
<1> QED
  BY <1>1, <1>3, <1>5, <1>6, FirstAssign DEF FirstInv

LEMMA FirstInductive == Spec => [](IInv /\ FirstInv)
<1>1. IInv /\ FirstInv /\ [Next]_vars => FirstInv'
  <2> SUFFICES ASSUME IInv, FirstInv, [Next]_vars PROVE FirstInv'
    OBVIOUS
  <2>1. CASE \E r \in Requests : Begin(r)
    BY <2>1, FirstBegin
  <2>2. ASSUME NEW i \in todo, TakeUp(i) \/ Keep(i) \/ Expire(i) \/ TakeRegister(i) \/ Spill(i)
        PROVE  FirstInv'
    BY <2>2, FirstTakeUp, FirstInner, FirstTakeRegister, FirstSpill
  <2>3. CASE UNCHANGED vars
    BY <2>3 DEF vars, call, FirstInv, InOrder, HeldByItsOwn, KeptIsLive, Kept, SpilledWithoutChoice,
       EveryRegisterTaken, Pressure, Placed, NameOf, Holds
  <2> QED
    BY <2>1, <2>2, <2>3 DEF Next
<1> QED
  BY <1>1, FirstBeginning, AllocatorInductive, PTL DEF Spec

(* An interval whose place is on the stack is overlapped by as many         *)
(* intervals with a register as there are registers.                        *)
LEMMA TakenByAsMany ==
    ASSUME IInv, NEW i \in DOMAIN result, EveryRegisterTaken(i)
    PROVE  Cardinality(Pressure(i)) >= Len(Registers)
<1> DEFINE n == Len(Registers)
           f == [a \in 1..n |-> CHOOSE j \in Pressure(i) : result[j].reg = Registers[a]]
<1>1. n \in Nat /\ DOMAIN Registers = 1..n
  BY RegistersDistinct
<1>2. IsFiniteSet(Pressure(i))
  <2>1. IsFiniteSet(request)
    BY RequestsWellFormed, FS_EmptySet DEF IInv, TypeOK
  <2>2. Pressure(i) \subseteq request
    BY DEF Pressure, IInv, TypeOK
  <2> QED
    BY <2>1, <2>2, FS_Subset
<1>3. ASSUME NEW a \in 1..n
      PROVE  f[a] \in Pressure(i) /\ result[f[a]].reg = Registers[a]
  BY <1>1 DEF EveryRegisterTaken, RegisterNames
<1>4. f \in Injection(1..n, Pressure(i))
  <2>1. f \in [1..n -> Pressure(i)]
    BY <1>3
  <2>2. \A a, b \in 1..n : f[a] = f[b] => a = b
    BY <1>1, <1>3, RegistersDistinct
  <2> QED
    BY <2>1, <2>2 DEF Injection, IsInjective
<1>5. Cardinality(1..n) <= Cardinality(Pressure(i))
  BY <1>2, <1>4, FS_Injection
<1>6. Cardinality(1..n) = n
  BY <1>1, FS_Interval
<1> QED
  BY <1>1, <1>2, <1>5, <1>6, FS_CardinalityType

(* codegen.cpp:91-92: in the first function an interval goes to the stack   *)
(* only when intervals that overlap it hold all the registers.              *)
THEOREM FirstFunctionSpillsUnderPressure == Spec => []FirstFunctionUsesAllRegisters
<1>1. IInv /\ FirstInv => FirstFunctionUsesAllRegisters
  BY TakenByAsMany DEF FirstInv, SpilledWithoutChoice, FirstFunctionUsesAllRegisters, SpilledUnderPressure
<1> QED
  BY <1>1, FirstInductive, PTL
=============================================================================
