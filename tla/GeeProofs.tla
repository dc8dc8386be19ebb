------------------------------ MODULE GeeProofs ------------------------------
(***************************************************************************)
(* The web framework for any number of everything: first groups and the    *)
(* chain of handlers of a request, then the router with any methods,       *)
(* patterns, paths and number of routes.                                   *)
(*                                                                         *)
(* The search of the router is a recursive function over the nodes of a    *)
(* tree.  That its equation has a solution, and what the solution is, is   *)
(* proved by induction on how much of the path is left, from the fact that *)
(* a set of natural numbers has a least element.                           *)
(***************************************************************************)
EXTENDS GeeChain, Router, SequenceTheorems, WellFoundedInduction, TLAPS

\* The steps of a request, that leave the groups alone.
Request ==
    \/ \E m \in Matching : ServeHTTP(m)
    \/ CallHandler \/ HandlerReturns \/ CallNext \/ NextReturns \/ Served
    \/ HandlerPanics \/ PanicsAfterNext

LEMMA InitIInv == Init => IInv
<1>. SUFFICES ASSUME Init PROVE IInv
  OBVIOUS
<1>. USE ChainAssumption DEF Init
<1>1. TypeOK
  <2>1. SetupTypeOK
    <3>1. << <<>> >> \in Seq(Seq(Middlewares \cup {Empty}))
      OBVIOUS
    <3>2. groups \in Seq([array : 1..Len(arrays), len : Nat, parent : 0..Len(groups)])
      OBVIOUS
    <3>3. \A i \in 1..Len(groups) : groups[i].len <= Len(arrays[groups[i].array])
      OBVIOUS
    <3>4. wanted \in Seq(Seq(Middlewares)) /\ Len(wanted) = Len(groups)
      OBVIOUS
    <3>5. arrays \in Seq(Seq(Middlewares \cup {Empty})) /\ spare \in BOOLEAN
      BY <3>1
    <3> HIDE DEF Init
    <3> QED BY <3>2, <3>3, <3>4, <3>5 DEF SetupTypeOK
  <2>2. ContextTypeOK
    <3>1. \A S : << >> \in Seq(S)
      OBVIOUS
    <3> QED BY <3>1 DEF ContextTypeOK
  <2> QED BY <2>1, <2>2 DEF TypeOK
<1>2. GroupsInv
  <2>1. Middles(groups[1]) = wanted[1]
    BY DEF Middles
  <2> QED BY <2>1 DEF GroupsInv, GroupsKeepTheirs
<1>3. IndexInv
  BY DEF IndexInv
<1>4. PanicInv
  BY DEF PanicInv, FirstPanicIsRecovered
<1> QED BY <1>1, <1>2, <1>3, <1>4 DEF IInv

-----------------------------------------------------------------------------
(* The loops over c.index.                                                 *)

\* What TypeOK says of a request, in terms of numbers.
LEMMA RequestTypes ==
    ASSUME TypeOK
    PROVE  /\ index \in Nat /\ Len(handlers) \in Nat
           /\ started \in Seq(Nat) /\ stack \in Seq(Nat)
           /\ Len(started) \in Nat /\ Len(stack) \in Nat
           /\ \A k \in 1..Len(stack) : stack[k] \in 1..Len(handlers)
BY DEF TypeOK, ContextTypeOK

\* A stack that is cut short, and one that grows, keeps the rest.
LEMMA CutStack ==
    ASSUME NEW s \in Seq(Nat), NEW n \in 0..Len(s)
    PROVE  /\ SubSeq(s, 1, n) \in Seq(Nat) /\ Len(SubSeq(s, 1, n)) = n
           /\ \A k \in 1..n : SubSeq(s, 1, n)[k] = s[k]
OBVIOUS

\* What Unwind leaves of the stack.
LEMMA UnwindCuts ==
    ASSUME NEW s \in Seq(Nat), Unwind(s)
    PROVE  \E n \in 0..Len(s) :
             \/ phase' = "panicked" /\ UNCHANGED <<index, stack>>
             \/ phase' = "loop" /\ index' = index + 1 /\ stack' = SubSeq(s, 1, n)
<1>. DEFINE recoveries == {k \in 1..Len(s) : handlers[s[k]] = Recovery}
<1>1. CASE recoveries = {}
  <2>1. 0 \in 0..Len(s)
    OBVIOUS
  <2> QED BY <1>1, <2>1 DEF Unwind
<1>2. CASE recoveries # {}
  <2>1. PICK r \in recoveries :
          phase' = "loop" /\ stack' = SubSeq(s, 1, r - 1) /\ index' = index + 1
    BY <1>2 DEF Unwind
  <2>2. r - 1 \in 0..Len(s)
    OBVIOUS
  <2> QED BY <2>1, <2>2
<1> QED BY <1>1, <1>2

LEMMA StackInOrder ==
    ASSUME TypeOK, IndexInv, index' \in {index, index + 1},
           Len(stack') \in Nat, Len(stack') <= Len(stack),
           \A k \in 1..Len(stack') : stack'[k] = stack[k]
    PROVE  /\ \A k \in 1..Len(stack') : stack'[k] < index'
           /\ \A j, k \in 1..Len(stack') : j < k => stack'[j] < stack'[k]
<1>1. \A k \in 1..Len(stack') : k \in 1..Len(stack)
  BY RequestTypes
<1>2. \A k \in 1..Len(stack) : stack[k] < index /\ stack[k] \in Nat
  BY RequestTypes DEF IndexInv
<1>3. index \in Nat
  BY RequestTypes
<1>4. ASSUME NEW k \in 1..Len(stack') PROVE stack'[k] < index'
  BY <1>1, <1>2, <1>3
<1>5. ASSUME NEW j \in 1..Len(stack'), NEW k \in 1..Len(stack'), j < k
      PROVE  stack'[j] < stack'[k]
  BY <1>1, <1>5 DEF IndexInv
<1> QED BY <1>4, <1>5

LEMMA IndexPreserves ==
    ASSUME TypeOK, IndexInv, Request
    PROVE  IndexInv'
<1>. USE RequestTypes
<1>1. CASE \E m \in Matching : ServeHTTP(m)
  <2>1. Len(handlers') \in Nat /\ Len(handlers') > 0
    BY <1>1 DEF ServeHTTP, Chains
  <2>2. /\ index' = 1 /\ phase' = "loop" /\ started' = started /\ stack' = stack
        /\ stack = <<>> /\ started = <<>>
    BY <1>1 DEF ServeHTTP, IndexInv
  <2> QED BY <2>1, <2>2 DEF IndexInv, Position
<1>2. CASE CallHandler
  BY <1>2 DEF CallHandler, Position, IndexInv
<1>3. CASE HandlerReturns
  BY <1>3 DEF HandlerReturns, Position, IndexInv
<1>4. CASE CallNext
  <2>1. /\ phase = "handler" /\ stack' = Append(stack, index) /\ index' = index + 1
        /\ phase' = "loop" /\ UNCHANGED <<handlers, started>>
    BY <1>4 DEF CallNext
  <2>2. /\ Len(stack') = Len(stack) + 1 /\ stack'[Len(stack) + 1] = index
        /\ \A k \in 1..Len(stack) : stack'[k] = stack[k]
    BY <2>1
  <2>3. /\ \A k \in 1..Len(stack') : stack'[k] < index'
        /\ \A j, k \in 1..Len(stack') : j < k => stack'[j] < stack'[k]
    BY <2>1, <2>2 DEF IndexInv
  <2> QED BY <2>1, <2>3 DEF IndexInv, Position
<1>5. CASE NextReturns
  <2>1. /\ phase = "loop" /\ ~Position /\ stack' = SubSeq(stack, 1, Len(stack) - 1)
        /\ stack # <<>> /\ index' = index + 1 /\ UNCHANGED <<phase, handlers, started>>
    BY <1>5 DEF NextReturns, Front
  <2>2. Len(stack) - 1 \in 0..Len(stack)
    BY <2>1
  <2>3. /\ Len(stack') = Len(stack) - 1
        /\ \A k \in 1..Len(stack') : stack'[k] = stack[k]
    BY <2>1, <2>2, CutStack
  <2>4. /\ \A k \in 1..Len(stack') : stack'[k] < index'
        /\ \A j, k \in 1..Len(stack') : j < k => stack'[j] < stack'[k]
    <3>1. /\ Len(stack') \in Nat /\ Len(stack') <= Len(stack) /\ index' \in {index, index + 1}
          /\ \A k \in 1..Len(stack') : stack'[k] = stack[k]
      BY <2>1, <2>2, <2>3
    <3> QED BY <3>1, StackInOrder
  <2> QED BY <2>1, <2>4 DEF IndexInv, Position
<1>6. CASE Served
  BY <1>6 DEF Served, Position, IndexInv, context, setup
<1>7. CASE HandlerPanics
  <2>1. PICK n \in 0..Len(stack) :
        /\ phase = "handler" /\ UNCHANGED <<handlers, started>>
        /\ \/ phase' = "panicked" /\ UNCHANGED <<index, stack>>
           \/ phase' = "loop" /\ index' = index + 1 /\ stack' = SubSeq(stack, 1, n)
    BY <1>7, UnwindCuts DEF HandlerPanics
  <2>2. /\ Len(stack') \in Nat /\ Len(stack') <= Len(stack)
        /\ \A k \in 1..Len(stack') : stack'[k] = stack[k]
    BY <2>1, CutStack
  <2>3. /\ \A k \in 1..Len(stack') : stack'[k] < index'
        /\ \A j, k \in 1..Len(stack') : j < k => stack'[j] < stack'[k]
    BY <2>1, <2>2, StackInOrder
  <2> QED BY <2>1, <2>3 DEF IndexInv, Position
<1>8. CASE PanicsAfterNext
  <2>1. /\ phase = "loop" /\ ~Position /\ UNCHANGED <<handlers, started>>
        /\ stack # <<>> /\ Unwind(SubSeq(stack, 1, Len(stack) - 1))
    BY <1>8 DEF PanicsAfterNext, Front
  <2>2. Len(stack) - 1 \in 0..Len(stack)
    BY <2>1
  <2>3. PICK s \in Seq(Nat) :
          /\ s = SubSeq(stack, 1, Len(stack) - 1) /\ Len(s) = Len(stack) - 1
          /\ \A k \in 1..Len(s) : s[k] = stack[k]
    BY <2>2, CutStack
  <2>4. PICK n \in 0..Len(s) :
           \/ phase' = "panicked" /\ UNCHANGED <<index, stack>>
           \/ phase' = "loop" /\ index' = index + 1 /\ stack' = SubSeq(s, 1, n)
    BY <2>1, <2>3, UnwindCuts
  <2>5. /\ Len(stack') \in Nat /\ Len(stack') <= Len(stack)
        /\ \A k \in 1..Len(stack') : stack'[k] = stack[k]
    <3>1. CASE stack' = stack
      BY <3>1
    <3>2. CASE stack' = SubSeq(s, 1, n)
      <4>1. Len(stack') = n /\ \A k \in 1..n : stack'[k] = s[k]
        BY <3>2, CutStack
      <4> QED BY <2>3, <4>1
    <3> QED BY <2>4, <3>1, <3>2
  <2>6. /\ \A k \in 1..Len(stack') : stack'[k] < index'
        /\ \A j, k \in 1..Len(stack') : j < k => stack'[j] < stack'[k]
    BY <2>1, <2>4, <2>5, StackInOrder
  <2> QED BY <2>1, <2>4, <2>6 DEF IndexInv, Position
<1> QED BY <1>1, <1>2, <1>3, <1>4, <1>5, <1>6, <1>7, <1>8 DEF Request

-----------------------------------------------------------------------------
(* Panics.                                                                 *)

\* A panic leaves through the stack s only if there is no Recovery in it.
LEMMA UnwindRecovers ==
    ASSUME NEW s \in Seq(Nat), Unwind(s)
    PROVE  \/ phase' = "loop" /\ recovered' = TRUE
           \/ /\ phase' = "panicked" /\ UNCHANGED <<index, stack, recovered>>
              /\ \A k \in 1..Len(s) : handlers[s[k]] # Recovery
BY DEF Unwind

\* What PanicInv says of a request that goes on: every Recovery up to the handler t
\* is in the stack s.
Covered(t, s) == \A k \in 1..t : handlers[k] = Recovery => \E j \in 1..Len(s) : s[j] = k

LEMMA PanicPreserves ==
    ASSUME TypeOK, IndexInv, PanicInv, Request
    PROVE  PanicInv'
<1>. USE RequestTypes
<1>0. phase \in {"loop", "handler"} /\ ~recovered => Covered(Top, stack)
  BY DEF PanicInv, Covered
<1>1. CASE \E m \in Matching : ServeHTTP(m)
  <2>1. index' = 1 /\ phase' = "loop" /\ stack' = <<>> /\ Len(handlers') > 0
        /\ Len(handlers') \in Nat
    BY <1>1 DEF ServeHTTP, IndexInv, Chains
  <2> QED BY <2>1 DEF PanicInv, FirstPanicIsRecovered, Top, Position
<1>2. CASE CallHandler
  <2>1. /\ phase = "loop" /\ Position /\ phase' = "handler"
        /\ UNCHANGED <<handlers, index, stack, recovered>>
    BY <1>2 DEF CallHandler
  <2>2. Top' = index - 1 /\ Top = index - 1
    BY <2>1 DEF Top
  <2> QED BY <1>0, <2>1, <2>2 DEF PanicInv, FirstPanicIsRecovered, Covered
<1>3. CASE HandlerReturns
  <2>1. /\ phase = "handler" /\ handlers[index] # Recovery
        /\ phase' = "loop" /\ index' = index + 1 /\ UNCHANGED <<handlers, stack, recovered>>
    BY <1>3 DEF HandlerReturns
  <2>2. Top = index - 1 /\ index > 0
    BY <2>1 DEF Top, IndexInv
  <2>3. Top' \in 0..index
    BY <2>1, <2>2 DEF Top, Position, Last, IndexInv
  <2>4. ~recovered => \A k \in 1..index : handlers[k] = Recovery =>
                          \E j \in 1..Len(stack) : stack[j] = k
    <3>1. SUFFICES ASSUME ~recovered, NEW k \in 1..index, handlers[k] = Recovery
                   PROVE  \E j \in 1..Len(stack) : stack[j] = k
      OBVIOUS
    <3>2. k # index /\ k \in Nat
      BY <2>1, <3>1
    <3>3. k \in 1..Top
      BY <2>2, <3>1, <3>2
    <3>4. Covered(Top, stack)
      BY <1>0, <2>1, <3>1
    <3> QED BY <3>1, <3>3, <3>4 DEF Covered
  <2> QED BY <2>1, <2>3, <2>4 DEF PanicInv, FirstPanicIsRecovered
<1>4. CASE CallNext
  <2>1. /\ phase = "handler" /\ stack' = Append(stack, index)
        /\ phase' = "loop" /\ index' = index + 1 /\ UNCHANGED <<handlers, recovered>>
    BY <1>4 DEF CallNext
  <2>2. Top = index - 1 /\ index > 0
    BY <2>1 DEF Top, IndexInv
  <2>3. /\ Len(stack') = Len(stack) + 1 /\ stack'[Len(stack) + 1] = index
        /\ \A k \in 1..Len(stack) : stack'[k] = stack[k]
    BY <2>1
  <2>4. Top' = index
    <3>1. stack' # <<>> /\ stack'[Len(stack')] = index
      BY <2>3
    <3>2. index' - 1 = index /\ phase' = "loop"
      BY <2>1
    <3>3. Last(stack)' = index
      BY <3>1 DEF Last
    <3> QED BY <3>1, <3>2, <3>3 DEF Top
  <2>5. ~recovered => \A k \in 1..index : handlers[k] = Recovery =>
                          \E j \in 1..Len(stack') : stack'[j] = k
    <3>1. SUFFICES ASSUME ~recovered, NEW k \in 1..index, handlers[k] = Recovery
                   PROVE  \E j \in 1..Len(stack') : stack'[j] = k
      OBVIOUS
    <3>2. CASE k = index
      BY <2>3, <3>2
    <3>3. CASE k # index
      <4>1. PICK j \in 1..Len(stack) : stack[j] = k
        <5>1. k \in 1..Top
          BY <2>2, <3>3
        <5>2. Covered(Top, stack)
          BY <1>0, <2>1, <3>1
        <5> QED BY <3>1, <5>1, <5>2 DEF Covered
      <4> QED BY <2>3, <4>1
    <3> QED BY <3>2, <3>3
  <2> QED BY <2>1, <2>4, <2>5 DEF PanicInv, FirstPanicIsRecovered
<1>5. CASE NextReturns
  <2>1. /\ phase = "loop" /\ ~Position /\ stack' = SubSeq(stack, 1, Len(stack) - 1)
        /\ stack # <<>> /\ index' = index + 1 /\ phase' = "loop"
        /\ UNCHANGED <<handlers, recovered>>
    BY <1>5 DEF NextReturns, Front
  <2>2. Len(stack) - 1 \in 0..Len(stack)
    BY <2>1
  <2>3. /\ Len(stack') = Len(stack) - 1
        /\ \A k \in 1..Len(stack') : stack'[k] = stack[k]
    BY <2>1, <2>2, CutStack
  <2>4. Top = stack[Len(stack)]
    BY <2>1 DEF Top, Last
  <2>5. ~Position'
    BY <2>1 DEF Position
  <2>6. CASE stack' = <<>>
    BY <2>1, <2>5, <2>6 DEF PanicInv, FirstPanicIsRecovered, Top
  <2>7. CASE stack' # <<>>
    <3>1. Len(stack) > 1
      BY <2>1, <2>2, <2>3, <2>7
    <3>2. Top' = stack[Len(stack) - 1] /\ Top' \in Nat /\ Top' < Top
      <4>1. Len(stack') = Len(stack) - 1 /\ Len(stack) - 1 \in 1..Len(stack')
        BY <2>3, <3>1
      <4>2. stack'[Len(stack')] = stack[Len(stack) - 1]
        BY <2>3, <4>1
      <4>3. Top' = stack[Len(stack) - 1]
        BY <2>1, <2>5, <2>7, <4>2 DEF Top, Last
      <4>4. Len(stack) - 1 \in 1..Len(stack) /\ Len(stack) \in 1..Len(stack)
        BY <3>1
      <4>5. stack[Len(stack) - 1] < stack[Len(stack)]
        <5>1. \A j, k \in 1..Len(stack) : j < k => stack[j] < stack[k]
          BY DEF IndexInv
        <5>2. Len(stack) - 1 < Len(stack)
          OBVIOUS
        <5> QED BY <4>4, <5>1, <5>2
      <4> QED BY <2>4, <4>3, <4>4, <4>5
    <3>3. ASSUME ~recovered, NEW k \in 1..Top', handlers[k] = Recovery
          PROVE  \E j \in 1..Len(stack') : stack'[j] = k
      <4>1. k \in Nat /\ k <= Top' /\ k < Top /\ k > 0 /\ Top \in Nat
        BY <2>1, <2>4, <3>2
      <4>2. PICK j \in 1..Len(stack) : stack[j] = k
        <5>1. k \in 1..Top /\ Covered(Top, stack)
          BY <1>0, <2>1, <3>3, <4>1
        <5> QED BY <3>3, <5>1 DEF Covered
      <4>3. j # Len(stack)
        BY <2>4, <4>1, <4>2
      <4>4. j \in 1..Len(stack')
        BY <2>1, <2>3, <4>3
      <4> QED BY <2>3, <4>2, <4>4
    <3> QED BY <2>1, <3>3 DEF PanicInv, FirstPanicIsRecovered
  <2> QED BY <2>6, <2>7
<1>6. CASE Served
  BY <1>6 DEF Served, PanicInv, FirstPanicIsRecovered
<1>7. CASE HandlerPanics
  <2>1. /\ phase = "handler" /\ handlers[index] # Recovery /\ Unwind(stack)
        /\ UNCHANGED handlers
    BY <1>7 DEF HandlerPanics
  <2>2. Top = index - 1 /\ Position
    BY <2>1 DEF Top, IndexInv
  <2>3. CASE phase' = "loop" /\ recovered' = TRUE
    BY <2>3 DEF PanicInv, FirstPanicIsRecovered
  <2>4. CASE /\ phase' = "panicked" /\ UNCHANGED <<index, stack, recovered>>
             /\ \A k \in 1..Len(stack) : handlers[stack[k]] # Recovery
    <3>1. Panicking' = index
      BY <2>1, <2>2, <2>4 DEF Panicking, Position
    <3>2. ~recovered => \A k \in 1..index : handlers[k] # Recovery
      BY <1>0, <2>1, <2>2, <2>4 DEF Covered
    <3> QED BY <2>1, <2>4, <3>1, <3>2 DEF PanicInv, FirstPanicIsRecovered
  <2> QED BY <2>1, <2>3, <2>4, UnwindRecovers
<1>8. CASE PanicsAfterNext
  <2>1. /\ phase = "loop" /\ ~Position /\ stack # <<>> /\ UNCHANGED handlers
        /\ handlers[stack[Len(stack)]] # Recovery
        /\ Unwind(SubSeq(stack, 1, Len(stack) - 1))
    BY <1>8 DEF PanicsAfterNext, Front, Last
  <2>2. Len(stack) - 1 \in 0..Len(stack)
    BY <2>1
  <2>3. PICK s \in Seq(Nat) :
          /\ s = SubSeq(stack, 1, Len(stack) - 1) /\ Len(s) = Len(stack) - 1
          /\ \A k \in 1..Len(s) : s[k] = stack[k]
    BY <2>2, CutStack
  <2>4. Top = stack[Len(stack)]
    BY <2>1 DEF Top, Last
  <2>5. CASE phase' = "loop" /\ recovered' = TRUE
    BY <2>5 DEF PanicInv, FirstPanicIsRecovered
  <2>6. CASE /\ phase' = "panicked" /\ UNCHANGED <<index, stack, recovered>>
             /\ \A k \in 1..Len(s) : handlers[s[k]] # Recovery
    <3>1. Panicking' = stack[Len(stack)]
      BY <2>1, <2>6 DEF Panicking, Position, Last
    <3>2. ASSUME ~recovered, NEW k \in 1..Top PROVE handlers[k] # Recovery
      <4>1. SUFFICES ASSUME handlers[k] = Recovery PROVE FALSE
        OBVIOUS
      <4>2. PICK j \in 1..Len(stack) : stack[j] = k
        BY <1>0, <2>1, <3>2, <4>1 DEF Covered
      <4>3. j \in 1..Len(s)
        BY <2>1, <2>3, <4>1, <4>2
      <4> QED BY <2>3, <2>6, <4>1, <4>2, <4>3
    <3> QED BY <2>1, <2>4, <2>6, <3>1, <3>2 DEF PanicInv, FirstPanicIsRecovered
  <2> QED BY <2>1, <2>3, <2>5, <2>6, UnwindRecovers
<1> QED BY <1>1, <1>2, <1>3, <1>4, <1>5, <1>6, <1>7, <1>8 DEF Request

-----------------------------------------------------------------------------
(* Types.                                                                  *)

\* What Unwind does to the values of a request.
LEMMA UnwindTypes ==
    ASSUME NEW S, NEW s \in Seq(S), Unwind(s), stack \in Seq(S), index \in Nat,
           status \in {"none", "handler", "500"}, recovered \in BOOLEAN
    PROVE  /\ phase' \in {"loop", "panicked"} /\ stack' \in Seq(S) /\ index' \in Nat
           /\ status' \in {"none", "handler", "500"} /\ recovered' \in BOOLEAN
<1>. DEFINE recoveries == {k \in 1..Len(s) : handlers[s[k]] = Recovery}
<1>1. CASE recoveries = {}
  BY <1>1 DEF Unwind
<1>2. CASE recoveries # {}
  <2>1. PICK r \in recoveries :
          /\ phase' = "loop" /\ stack' = SubSeq(s, 1, r - 1) /\ index' = index + 1
          /\ Writes("500") /\ recovered' = TRUE
    BY <1>2 DEF Unwind
  <2>2. r - 1 \in 0..Len(s)
    OBVIOUS
  <2>3. SubSeq(s, 1, r - 1) \in Seq(S)
    BY <2>2
  <2> QED BY <2>1, <2>3 DEF Writes
<1> QED BY <1>1, <1>2

LEMMA ContextTypes ==
    ASSUME TypeOK, IndexInv, Request
    PROVE  ContextTypeOK'
<1>. USE DEF TypeOK, ContextTypeOK
<1>1. CASE \E m \in Matching : ServeHTTP(m)
  <2>1. handlers' \in Seq(Middlewares \cup {Handler})
    <3>1. PICK n \in 1..MaxChain : handlers' \in [1..n -> Middlewares \cup {Handler}]
      BY <1>1 DEF ServeHTTP, Chains
    <3> QED BY <3>1, SeqDef, ChainAssumption
  <2>2. /\ phase' = "loop" /\ index' = 1 /\ stack' = <<>> /\ started' = <<>>
        /\ UNCHANGED <<status, recovered>>
    BY <1>1 DEF ServeHTTP, IndexInv
  <2> QED BY <2>1, <2>2
<1>2. CASE CallHandler
  <2>1. /\ index \in 1..Len(handlers) /\ phase' = "handler"
        /\ started' = Append(started, index)
        /\ UNCHANGED <<handlers, index, stack, status, recovered>>
    BY <1>2 DEF CallHandler, Position, IndexInv
  <2> QED BY <2>1
<1>3. CASE HandlerReturns
  BY <1>3 DEF HandlerReturns, MayWrite, Writes
<1>4. CASE CallNext
  <2>1. /\ index \in 1..Len(handlers) /\ phase' = "loop" /\ index' = index + 1
        /\ stack' = Append(stack, index)
        /\ UNCHANGED <<handlers, started, status, recovered>>
    BY <1>4 DEF CallNext, Position, IndexInv
  <2> QED BY <2>1
<1>5. CASE NextReturns
  <2>1. /\ stack # <<>> /\ stack' = SubSeq(stack, 1, Len(stack) - 1) /\ index' = index + 1
        /\ UNCHANGED <<phase, handlers, started, status, recovered>>
    BY <1>5 DEF NextReturns, Front
  <2>2. Len(stack) - 1 \in 0..Len(stack)
    BY <2>1
  <2>3. SubSeq(stack, 1, Len(stack) - 1) \in Seq(1..Len(handlers))
    BY <2>2
  <2> QED BY <2>1, <2>3
<1>6. CASE Served
  BY <1>6 DEF Served, context
<1>7. CASE HandlerPanics
  <2>1. Unwind(stack) /\ UNCHANGED <<handlers, started>>
    BY <1>7 DEF HandlerPanics
  <2> HIDE DEF TypeOK
  <2>2. /\ phase' \in {"loop", "panicked"} /\ stack' \in Seq(1..Len(handlers))
        /\ index' \in Nat /\ status' \in {"none", "handler", "500"}
        /\ recovered' \in BOOLEAN
    BY <2>1, UnwindTypes DEF TypeOK
  <2> QED BY <2>1, <2>2 DEF TypeOK
<1>8. CASE PanicsAfterNext
  <2>1. /\ stack # <<>> /\ Unwind(SubSeq(stack, 1, Len(stack) - 1))
        /\ UNCHANGED <<handlers, started>>
    BY <1>8 DEF PanicsAfterNext, Front
  <2>2. Len(stack) - 1 \in 0..Len(stack)
    BY <2>1
  <2>3. SubSeq(stack, 1, Len(stack) - 1) \in Seq(1..Len(handlers))
    BY <2>2
  <2>4. /\ phase' \in {"loop", "panicked"} /\ stack' \in Seq(1..Len(handlers))
        /\ index' \in Nat /\ status' \in {"none", "handler", "500"}
        /\ recovered' \in BOOLEAN
    BY <2>1, <2>3, UnwindTypes
  <2> QED BY <2>1, <2>4
<1> QED BY <1>1, <1>2, <1>3, <1>4, <1>5, <1>6, <1>7, <1>8 DEF Request

-----------------------------------------------------------------------------
(* The groups.                                                             *)

LEMMA RequestLeavesGroups == Request => UNCHANGED setup
BY DEF Request, ServeHTTP, CallHandler, HandlerReturns, CallNext, NextReturns, Served,
       HandlerPanics, PanicsAfterNext

\* The array of a slice that was appended to, and the slice.
LEMMA WrittenIs ==
    ASSUME NEW S, NEW a \in Seq(S), NEW n \in 0..Len(a), NEW ms \in Seq(S),
           n + Len(ms) <= Len(a)
    PROVE  /\ Written(a, n, ms) \in Seq(S) /\ Len(Written(a, n, ms)) = Len(a)
           /\ SubSeq(Written(a, n, ms), 1, n + Len(ms)) = SubSeq(a, 1, n) \o ms
<1>. DEFINE w == [i \in 1..Len(a) |-> IF i \in n + 1..n + Len(ms) THEN ms[i - n] ELSE a[i]]
<1>1. \A i \in 1..Len(a) : w[i] \in S
  OBVIOUS
<1>2. w \in Seq(S) /\ Len(w) = Len(a)
  BY <1>1
<1>3. \A i \in 1..n : w[i] = a[i]
  OBVIOUS
<1>4. \A i \in 1..Len(ms) : w[n + i] = ms[i]
  OBVIOUS
<1>5. SubSeq(w, 1, n + Len(ms)) = SubSeq(a, 1, n) \o ms
  <2>1. Len(SubSeq(w, 1, n + Len(ms))) = n + Len(ms)
    BY <1>2
  <2> HIDE DEF w
  <2>2. \A i \in 1..n + Len(ms) :
          SubSeq(w, 1, n + Len(ms))[i] = (SubSeq(a, 1, n) \o ms)[i]
    <3>1. ASSUME NEW i \in 1..n PROVE w[i] = (SubSeq(a, 1, n) \o ms)[i]
      BY <1>3
    <3>2. ASSUME NEW i \in n + 1..n + Len(ms) PROVE w[i] = (SubSeq(a, 1, n) \o ms)[i]
      <4>1. i - n \in 1..Len(ms) /\ n + (i - n) = i
        OBVIOUS
      <4>2. w[i] = ms[i - n]
        BY <1>4, <4>1
      <4>3. (SubSeq(a, 1, n) \o ms)[i] = ms[i - n]
        BY <4>1
      <4> QED BY <4>2, <4>3
    <3>3. \A i \in 1..n + Len(ms) : SubSeq(w, 1, n + Len(ms))[i] = w[i]
      BY <1>2
    <3> QED BY <3>1, <3>2, <3>3
  <2>3. SubSeq(w, 1, n + Len(ms)) \in Seq(S) /\ SubSeq(a, 1, n) \o ms \in Seq(S)
    BY <1>2
  <2>4. Len(SubSeq(a, 1, n) \o ms) = n + Len(ms)
    OBVIOUS
  <2> QED BY <2>1, <2>2, <2>3, <2>4, SeqEqual
<1>6. Written(a, n, ms) = w
  BY DEF Written
<1> HIDE DEF w
<1> QED BY <1>2, <1>5, <1>6

\* A new array of c slots that begins with the first n of a.
LEMMA PaddedIs ==
    ASSUME NEW S, NEW a \in Seq(S), NEW n \in 0..Len(a), NEW x \in S, NEW c \in Nat, n <= c,
           NEW f, f = SubSeq(a, 1, n) \o [k \in 1..c - n |-> x]
    PROVE  f \in Seq(S) /\ Len(f) = c /\ SubSeq(f, 1, n) = SubSeq(a, 1, n)
<1>1. PICK s : s = SubSeq(a, 1, n)
  OBVIOUS
<1>2. PICK e : e = [k \in 1..c - n |-> x]
  OBVIOUS
<1>3. s \in Seq(S) /\ Len(s) = n
  BY <1>1
<1>4. c - n \in Nat
  OBVIOUS
<1>5. e \in Seq(S) /\ Len(e) = c - n
  BY <1>2, <1>4
<1>6. f \in Seq(S) /\ Len(f) = c /\ \A k \in 1..n : f[k] = s[k]
  BY <1>1, <1>2, <1>3, <1>5
<1>7. /\ SubSeq(f, 1, n) \in Seq(S) /\ Len(SubSeq(f, 1, n)) = n
      /\ \A k \in 1..n : SubSeq(f, 1, n)[k] = f[k]
  BY <1>6
<1>8. SubSeq(f, 1, n) = s
  BY <1>3, <1>6, <1>7, SeqEqual
<1> QED BY <1>1, <1>6, <1>8

\* Groups G with arrays A and wanted middlewares W, of the right types.
Slots == Middlewares \cup {Empty}
Arrays == Seq(Slots)
Lists == Seq(Middlewares)
GroupsOver(n, m) == [array : 1..n, len : Nat, parent : 0..m]

Typed(A, G, W) ==
    /\ A \in Seq(Arrays) /\ G \in Seq(GroupsOver(Len(A), Len(G)))
    /\ \A i \in 1..Len(G) : G[i].len <= Len(A[G[i].array])
    /\ W \in Seq(Lists) /\ Len(W) = Len(G)

LEMMA SetupTyped == SetupTypeOK <=> Typed(arrays, groups, wanted) /\ spare \in BOOLEAN
BY DEF SetupTypeOK, Typed, Slots, Arrays, Lists, GroupsOver

LEMMA TypedLen ==
    ASSUME NEW A, NEW G, NEW W, Typed(A, G, W)
    PROVE  /\ Len(A) \in Nat /\ DOMAIN A = 1..Len(A)
           /\ Len(G) \in Nat /\ DOMAIN G = 1..Len(G)
           /\ Len(W) = Len(G) /\ DOMAIN W = 1..Len(W)
BY LenProperties DEF Typed

LEMMA TypedGroup ==
    ASSUME NEW A, NEW G, NEW W, Typed(A, G, W), NEW i \in 1..Len(G)
    PROVE  /\ G[i] \in GroupsOver(Len(A), Len(G)) /\ G[i].array \in 1..Len(A)
           /\ A[G[i].array] \in Seq(Slots) /\ Len(A[G[i].array]) \in Nat
           /\ G[i].len \in 0..Len(A[G[i].array])
           /\ W[i] \in Seq(Middlewares)
<1>1. G[i] \in GroupsOver(Len(A), Len(G))
  BY ElementOfSeq DEF Typed
<1>2. G[i].array \in 1..Len(A) /\ G[i].len \in Nat
  BY <1>1 DEF GroupsOver
<1>3. A[G[i].array] \in Seq(Slots)
  <2>1. A \in Seq(Arrays)
    BY DEF Typed
  <2>2. A[G[i].array] \in Arrays
    BY <1>2, <2>1
  <2> QED BY <2>2 DEF Arrays
<1>4. Len(A[G[i].array]) \in Nat
  BY <1>3, LenProperties
<1>5. W[i] \in Seq(Middlewares)
  <2>1. W \in Seq(Lists) /\ i \in 1..Len(W)
    BY TypedLen DEF Typed
  <2>2. W[i] \in Lists
    BY <2>1
  <2> QED BY <2>2 DEF Lists
<1> QED BY <1>1, <1>2, <1>3, <1>4, <1>5 DEF Typed

\* The groups have the middlewares they should, and share no array with room.
Kept(A, G, W) == \A i \in 1..Len(G) : SubSeq(A[G[i].array], 1, G[i].len) = W[i]
SharedFull(A, G) ==
    \A i, j \in 1..Len(G) :
        i # j /\ G[i].array = G[j].array => G[i].len = Len(A[G[i].array])

LEMMA GroupsInvIs ==
    ASSUME SetupTypeOK
    PROVE  GroupsInv <=> (~spare => Kept(arrays, groups, wanted) /\ SharedFull(arrays, groups))
<1>1. \A i \in 1..Len(groups) :
        groups[i].len = Len(arrays[groups[i].array]) <=> Room(groups[i]) = 0
  BY SetupTyped, TypedGroup DEF Room
<1>2. GroupsKeepTheirs <=> (~spare => Kept(arrays, groups, wanted))
  BY DEF GroupsKeepTheirs, Kept, Middles
<1> QED BY <1>1, <1>2 DEF GroupsInv, SharedFull

\* A new group g with the slice of group i.
LEMMA NewGroupKeeps ==
    ASSUME NEW A, NEW G, NEW W, Typed(A, G, W), NEW i \in 1..Len(G),
           NEW g \in GroupsOver(Len(A), Len(G) + 1), g.array = G[i].array, g.len = G[i].len,
           NEW v, v = W[i]
    PROVE  /\ Typed(A, Append(G, g), Append(W, v))
           /\ Kept(A, G, W) /\ SharedFull(A, G) /\ G[i].len = Len(A[G[i].array])
              => Kept(A, Append(G, g), Append(W, v)) /\ SharedFull(A, Append(G, g))
<1>a. /\ Len(A) \in Nat /\ Len(G) \in Nat /\ Len(W) = Len(G) /\ DOMAIN A = 1..Len(A)
      /\ DOMAIN G = 1..Len(G) /\ DOMAIN W = 1..Len(G)
  BY TypedLen
<1>b. \A k \in 1..Len(G) :
        /\ G[k] \in GroupsOver(Len(A), Len(G)) /\ G[k].array \in 1..Len(A)
        /\ A[G[k].array] \in Seq(Slots) /\ Len(A[G[k].array]) \in Nat
        /\ G[k].len \in 0..Len(A[G[k].array]) /\ W[k] \in Seq(Middlewares)
  BY TypedGroup
<1>1. GroupsOver(Len(A), Len(G)) \subseteq GroupsOver(Len(A), Len(G) + 1)
  BY <1>a DEF GroupsOver
<1>2. G \in Seq(GroupsOver(Len(A), Len(G) + 1))
  BY <1>1, SeqMonotonic DEF Typed
<1>3. PICK H : H = Append(G, g)
  OBVIOUS
<1>4. PICK V : V = Append(W, v)
  OBVIOUS
<1>5. /\ H \in Seq(GroupsOver(Len(A), Len(G) + 1))
      /\ Len(H) = Len(G) + 1 /\ H[Len(G) + 1] = g
      /\ \A j \in 1..Len(G) : H[j] = G[j]
  BY <1>2, <1>3
<1>6. /\ V \in Seq(Lists) /\ Len(V) = Len(G) + 1 /\ V[Len(G) + 1] = v
      /\ \A j \in 1..Len(G) : V[j] = W[j]
  <2>1. W \in Seq(Lists) /\ v \in Lists
    BY <1>b DEF Typed, Lists
  <2> QED BY <1>a, <1>4, <2>1
<1>7. \A j \in 1..Len(H) : j \in 1..Len(G) \/ j = Len(G) + 1
  <2>1. Len(H) = Len(G) + 1
    BY <1>5
  <2> QED BY <1>a, <2>1
<1>8. Typed(A, H, V)
  <2>1. \A j \in 1..Len(H) : H[j].len <= Len(A[H[j].array])
    BY <1>b, <1>5, <1>7
  <2>2. A \in Seq(Arrays)
    BY DEF Typed
  <2> QED BY <1>5, <1>6, <2>1, <2>2 DEF Typed
<1>9. ASSUME Kept(A, G, W), SharedFull(A, G), G[i].len = Len(A[G[i].array])
      PROVE  Kept(A, H, V) /\ SharedFull(A, H)
  <2>1. Kept(A, H, V)
    BY <1>5, <1>6, <1>7, <1>9 DEF Kept
  <2>2. \A j \in 1..Len(G) : G[j].array = G[i].array => G[j].len = Len(A[G[j].array])
    BY <1>9 DEF SharedFull
  <2>3. SharedFull(A, H)
    BY <1>5, <1>7, <1>9, <2>2 DEF SharedFull
  <2> QED BY <2>1, <2>3
<1> QED BY <1>3, <1>4, <1>8, <1>9

\* Group i becomes g, which has the middlewares ms behind those of i: they are in w, the
\* array of i now.
LEMMA InPlaceKeeps ==
    ASSUME NEW A, NEW G, NEW W, Typed(A, G, W), NEW i \in 1..Len(G),
           NEW ms \in Seq(Middlewares), Len(ms) > 0, NEW v, v = W[i] \o ms,
           NEW g \in GroupsOver(Len(A), Len(G)), NEW a, a = G[i].array,
           g.array = a, g.len = G[i].len + Len(ms),
           NEW w \in Seq(Slots), Len(w) = Len(A[a]), g.len <= Len(w),
           SubSeq(w, 1, g.len) = SubSeq(A[a], 1, G[i].len) \o ms
    PROVE  /\ Typed([A EXCEPT ![a] = w], [G EXCEPT ![i] = g], [W EXCEPT ![i] = v])
           /\ Kept(A, G, W) /\ SharedFull(A, G)
              => /\ Kept([A EXCEPT ![a] = w], [G EXCEPT ![i] = g], [W EXCEPT ![i] = v])
                 /\ SharedFull([A EXCEPT ![a] = w], [G EXCEPT ![i] = g])
<1>a. /\ Len(A) \in Nat /\ Len(G) \in Nat /\ Len(W) = Len(G) /\ DOMAIN A = 1..Len(A)
      /\ DOMAIN G = 1..Len(G) /\ DOMAIN W = 1..Len(G)
  BY TypedLen
<1>b. \A k \in 1..Len(G) :
        /\ G[k] \in GroupsOver(Len(A), Len(G)) /\ G[k].array \in 1..Len(A)
        /\ A[G[k].array] \in Seq(Slots) /\ Len(A[G[k].array]) \in Nat
        /\ G[k].len \in 0..Len(A[G[k].array]) /\ W[k] \in Seq(Middlewares)
  BY TypedGroup
<1>1. PICK B : B = [A EXCEPT ![a] = w]
  OBVIOUS
<1>2. PICK H : H = [G EXCEPT ![i] = g]
  OBVIOUS
<1>3. PICK V : V = [W EXCEPT ![i] = v]
  OBVIOUS
<1>4. /\ a \in 1..Len(A) /\ Len(A[a]) \in Nat /\ G[i].len \in Nat
      /\ Len(ms) \in Nat
  BY <1>b
<1>5. /\ B \in Seq(Arrays) /\ Len(B) = Len(A) /\ B[a] = w
      /\ \A k \in 1..Len(A) : k # a => B[k] = A[k]
  <2>1. A \in Seq(Arrays) /\ w \in Arrays
    BY DEF Typed, Arrays
  <2> QED BY <1>1, <1>4, <2>1
<1>6. /\ H \in Seq(GroupsOver(Len(A), Len(G))) /\ Len(H) = Len(G) /\ H[i] = g
      /\ \A k \in 1..Len(G) : k # i => H[k] = G[k]
  <2>1. G \in Seq(GroupsOver(Len(A), Len(G)))
    BY DEF Typed
  <2> QED BY <1>2, <2>1
<1>7. /\ V \in Seq(Lists) /\ Len(V) = Len(G) /\ V[i] = v
      /\ \A k \in 1..Len(G) : k # i => V[k] = W[k]
  <2>1. v \in Lists
    BY <1>b DEF Lists
  <2>2. W \in Seq(Lists) /\ i \in 1..Len(W) /\ Len(W) = Len(G)
    BY <1>a DEF Typed
  <2>3. V \in Seq(Lists) /\ Len(V) = Len(W)
    BY <1>3, <2>1, <2>2
  <2>4. V[i] = v
    BY <1>a, <1>3
  <2>5. \A k \in 1..Len(W) : k # i => V[k] = W[k]
    BY <1>3
  <2> QED BY <2>2, <2>3, <2>4, <2>5
<1>8. Typed(B, H, V)
  <2>1. ASSUME NEW k \in 1..Len(H) PROVE H[k].len <= Len(B[H[k].array])
    <3>1. CASE k = i
      BY <1>4, <1>5, <1>6, <3>1
    <3>2. CASE k # i
      <4>1. k \in 1..Len(G) /\ H[k] = G[k] /\ G[k].array \in 1..Len(A)
        BY <1>b, <1>6, <3>2
      <4>2. Len(B[G[k].array]) = Len(A[G[k].array])
        BY <1>5, <4>1
      <4>3. G[k].len <= Len(A[G[k].array])
        BY <4>1 DEF Typed
      <4> QED BY <4>1, <4>2, <4>3
    <3> QED BY <3>1, <3>2
  <2> QED BY <1>5, <1>6, <1>7, <2>1 DEF Typed
<1>9. ASSUME Kept(A, G, W), SharedFull(A, G) PROVE Kept(B, H, V) /\ SharedFull(B, H)
  <2>1. \A k \in 1..Len(G) : k # i => G[k].array # a
    <3>1. G[i].len # Len(A[a])
      BY <1>4
    <3> QED BY <1>9, <3>1 DEF SharedFull
  <2>2. \A k \in 1..Len(G) : k # i => B[G[k].array] = A[G[k].array]
    BY <1>b, <1>5, <2>1
  <2>3. ASSUME NEW k \in 1..Len(H) PROVE SubSeq(B[H[k].array], 1, H[k].len) = V[k]
    <3>1. SubSeq(A[a], 1, G[i].len) = W[i]
      BY <1>9 DEF Kept
    <3>2. CASE k = i
      BY <1>5, <1>6, <1>7, <3>1, <3>2
    <3>3. CASE k # i
      <4>1. /\ k \in 1..Len(G) /\ H[k] = G[k] /\ V[k] = W[k]
            /\ B[G[k].array] = A[G[k].array]
        BY <1>6, <1>7, <2>2, <3>3
      <4>2. SubSeq(A[G[k].array], 1, G[k].len) = W[k]
        BY <1>9, <4>1 DEF Kept
      <4> QED BY <4>1, <4>2
    <3> QED BY <3>2, <3>3
  <2>4. SharedFull(B, H)
    <3>1. SUFFICES ASSUME NEW j \in 1..Len(G), NEW k \in 1..Len(G), j # k,
                          H[j].array = H[k].array
                   PROVE  H[j].len = Len(B[H[j].array])
      BY <1>6 DEF SharedFull
    <3>2. j # i /\ k # i
      BY <1>6, <2>1, <3>1
    <3>3. H[j] = G[j] /\ H[k] = G[k] /\ B[G[j].array] = A[G[j].array]
      BY <1>6, <2>2, <3>2
    <3>4. G[j].len = Len(A[G[j].array])
      BY <1>9, <3>1, <3>3 DEF SharedFull
    <3> QED BY <3>3, <3>4
  <2> QED BY <2>3, <2>4 DEF Kept
<1> QED BY <1>1, <1>2, <1>3, <1>8, <1>9

\* Group i becomes g, which has the middlewares ms behind those of i: they are in w, a new
\* array.
LEMMA MovedKeeps ==
    ASSUME NEW A, NEW G, NEW W, Typed(A, G, W), NEW i \in 1..Len(G),
           NEW ms \in Seq(Middlewares), NEW v, v = W[i] \o ms,
           NEW g \in GroupsOver(Len(A) + 1, Len(G)), NEW a, a = A[G[i].array],
           g.array = Len(A) + 1, g.len = G[i].len + Len(ms),
           NEW w \in Seq(Slots), g.len <= Len(w),
           SubSeq(w, 1, g.len) = SubSeq(a, 1, G[i].len) \o ms
    PROVE  /\ Typed(Append(A, w), [G EXCEPT ![i] = g], [W EXCEPT ![i] = v])
           /\ Kept(A, G, W) /\ SharedFull(A, G)
              => /\ Kept(Append(A, w), [G EXCEPT ![i] = g], [W EXCEPT ![i] = v])
                 /\ SharedFull(Append(A, w), [G EXCEPT ![i] = g])
<1>a. /\ Len(A) \in Nat /\ Len(G) \in Nat /\ Len(W) = Len(G) /\ DOMAIN A = 1..Len(A)
      /\ DOMAIN G = 1..Len(G) /\ DOMAIN W = 1..Len(G)
  BY TypedLen
<1>b. \A k \in 1..Len(G) :
        /\ G[k] \in GroupsOver(Len(A), Len(G)) /\ G[k].array \in 1..Len(A)
        /\ A[G[k].array] \in Seq(Slots) /\ Len(A[G[k].array]) \in Nat
        /\ G[k].len \in 0..Len(A[G[k].array]) /\ W[k] \in Seq(Middlewares)
  BY TypedGroup
<1>1. GroupsOver(Len(A), Len(G)) \subseteq GroupsOver(Len(A) + 1, Len(G))
  BY <1>a DEF GroupsOver
<1>2. G \in Seq(GroupsOver(Len(A) + 1, Len(G)))
  BY <1>1, SeqMonotonic DEF Typed
<1>3. PICK B : B = Append(A, w)
  OBVIOUS
<1>4. PICK H : H = [G EXCEPT ![i] = g]
  OBVIOUS
<1>5. PICK V : V = [W EXCEPT ![i] = v]
  OBVIOUS
<1>6. /\ B \in Seq(Arrays) /\ Len(B) = Len(A) + 1 /\ B[Len(A) + 1] = w
      /\ \A k \in 1..Len(A) : B[k] = A[k]
  <2>1. A \in Seq(Arrays) /\ w \in Arrays
    BY DEF Typed, Arrays
  <2> QED BY <1>3, <2>1
<1>7. /\ H \in Seq(GroupsOver(Len(A) + 1, Len(G))) /\ Len(H) = Len(G) /\ H[i] = g
      /\ \A k \in 1..Len(G) : k # i => H[k] = G[k]
  BY <1>2, <1>4
<1>8. /\ V \in Seq(Lists) /\ Len(V) = Len(G) /\ V[i] = v
      /\ \A k \in 1..Len(G) : k # i => V[k] = W[k]
  <2>1. v \in Lists
    BY <1>b DEF Lists
  <2>2. W \in Seq(Lists) /\ i \in 1..Len(W) /\ Len(W) = Len(G)
    BY <1>a DEF Typed
  <2> QED BY <1>5, <2>1, <2>2
<1>9. \A k \in 1..Len(G) : B[G[k].array] = A[G[k].array] /\ G[k].array # Len(A) + 1
  <2>1. ASSUME NEW k \in 1..Len(G)
        PROVE  B[G[k].array] = A[G[k].array] /\ G[k].array # Len(A) + 1
    <3>1. G[k].array \in 1..Len(A)
      BY <1>b
    <3>2. B[G[k].array] = A[G[k].array]
      BY <1>6, <3>1
    <3> QED BY <1>a, <3>1, <3>2
  <2> QED BY <2>1
<1>10. Typed(B, H, V)
  <2>1. ASSUME NEW k \in 1..Len(H) PROVE H[k].len <= Len(B[H[k].array])
    <3>1. CASE k = i
      BY <1>6, <1>7, <3>1
    <3>2. CASE k # i
      <4>1. k \in 1..Len(G) /\ H[k] = G[k] /\ B[G[k].array] = A[G[k].array]
        BY <1>7, <1>9, <3>2
      <4>2. G[k].len <= Len(A[G[k].array])
        BY <4>1 DEF Typed
      <4> QED BY <4>1, <4>2
    <3> QED BY <3>1, <3>2
  <2> QED BY <1>6, <1>7, <1>8, <2>1 DEF Typed
<1>11. ASSUME Kept(A, G, W), SharedFull(A, G) PROVE Kept(B, H, V) /\ SharedFull(B, H)
  <2>1. ASSUME NEW k \in 1..Len(H) PROVE SubSeq(B[H[k].array], 1, H[k].len) = V[k]
    <3>1. SubSeq(a, 1, G[i].len) = W[i]
      BY <1>11 DEF Kept
    <3>2. CASE k = i
      BY <1>6, <1>7, <1>8, <3>1, <3>2
    <3>3. CASE k # i
      BY <1>7, <1>8, <1>9, <1>11, <3>3 DEF Kept
    <3> QED BY <3>2, <3>3
  <2>2. SharedFull(B, H)
    <3>1. SUFFICES ASSUME NEW j \in 1..Len(G), NEW k \in 1..Len(G), j # k,
                          H[j].array = H[k].array
                   PROVE  H[j].len = Len(B[H[j].array])
      BY <1>7 DEF SharedFull
    <3>2. j # i /\ k # i
      BY <1>7, <1>9, <3>1
    <3>3. H[j] = G[j] /\ H[k] = G[k] /\ B[G[j].array] = A[G[j].array]
      BY <1>7, <1>9, <3>2
    <3>4. G[j].len = Len(A[G[j].array])
      BY <1>11, <3>1, <3>3 DEF SharedFull
    <3> QED BY <3>3, <3>4
  <2> QED BY <2>1, <2>2 DEF Kept
<1> QED BY <1>3, <1>4, <1>5, <1>10, <1>11

LEMMA GroupsInvNext ==
    ASSUME Typed(arrays', groups', wanted'), spare' \in BOOLEAN,
           ~spare' => Kept(arrays', groups', wanted') /\ SharedFull(arrays', groups')
    PROVE  SetupTypeOK' /\ GroupsInv'
<1>1. SetupTypeOK'
  BY DEF SetupTypeOK, Typed, Slots, GroupsOver, Arrays, Lists
<1>2. \A j \in 1..Len(groups') :
        groups'[j].len = Len(arrays'[groups'[j].array])
        <=> Len(arrays'[groups'[j].array]) - groups'[j].len = 0
  BY TypedGroup
<1>3. GroupsKeepTheirs'
  BY DEF GroupsKeepTheirs, Kept, Middles
<1> QED BY <1>1, <1>2, <1>3 DEF GroupsInv, SharedFull, Room

LEMMA UsePreserves ==
    ASSUME SetupTypeOK, GroupsInv, NEW i \in 1..Len(groups), NEW n \in 1..2,
           NEW ms \in [1..n -> Middlewares], Use(i, ms)
    PROVE  SetupTypeOK' /\ GroupsInv'
<1>1. PICK g : g = groups[i]
  OBVIOUS
<1>2. PICK a : a = arrays[g.array]
  OBVIOUS
<1>3. PICK m : m = g.len + Len(ms)
  OBVIOUS
<1>4. PICK c : c = Grown(Len(a), m)
  OBVIOUS
<1>5. Typed(arrays, groups, wanted) /\ spare \in BOOLEAN
  BY SetupTyped
<1>6. /\ g \in GroupsOver(Len(arrays), Len(groups)) /\ g.array \in 1..Len(arrays)
      /\ a \in Seq(Slots) /\ Len(a) \in Nat /\ g.len \in 0..Len(a)
      /\ wanted[i] \in Seq(Middlewares) /\ Len(arrays) \in Nat /\ Len(groups) \in Nat
  BY <1>1, <1>2, <1>5, TypedGroup, TypedLen
<1>7. ms \in Seq(Middlewares) /\ Len(ms) = n
  BY SeqDef
<1>8. ms \in Seq(Slots)
  BY <1>7, SeqMonotonic DEF Slots
<1>9. m \in Nat /\ m = g.len + n
  BY <1>3, <1>6, <1>7
<1>10. PICK v : v = wanted[i] \o ms
  OBVIOUS
<1>11. wanted' = [wanted EXCEPT ![i] = v] /\ UNCHANGED spare
  BY <1>10 DEF Use
<1>12. GroupsInv <=> (~spare => Kept(arrays, groups, wanted) /\ SharedFull(arrays, groups))
  BY GroupsInvIs
<1>13. CASE /\ Len(ms) <= Room(g)
            /\ arrays' = [arrays EXCEPT ![g.array] = Written(@, g.len, ms)]
            /\ groups' = [groups EXCEPT ![i].len = m]
  <2>1. PICK w : w = Written(a, g.len, ms)
    OBVIOUS
  <2>2. m <= Len(a)
    <3>1. n <= Len(a) - g.len
      BY <1>2, <1>7, <1>13 DEF Room
    <3> QED BY <1>6, <1>9, <3>1
  <2>3. /\ w \in Seq(Slots) /\ Len(w) = Len(a)
        /\ SubSeq(w, 1, m) = SubSeq(a, 1, g.len) \o ms
    BY <1>3, <1>6, <1>8, <2>1, <2>2, WrittenIs
  <2>4. PICK h : h = [g EXCEPT !.len = m]
    OBVIOUS
  <2>5. h \in GroupsOver(Len(arrays), Len(groups)) /\ h.array = g.array /\ h.len = m
    BY <1>6, <1>9, <2>4 DEF GroupsOver
  <2>6. arrays' = [arrays EXCEPT ![g.array] = w] /\ groups' = [groups EXCEPT ![i] = h]
    BY <1>1, <1>2, <1>13, <2>1, <2>4
  <2>7. PICK b : b = g.array
    OBVIOUS
  <2>8. /\ Typed([arrays EXCEPT ![b] = w], [groups EXCEPT ![i] = h], [wanted EXCEPT ![i] = v])
        /\ Kept(arrays, groups, wanted) /\ SharedFull(arrays, groups)
           => /\ Kept([arrays EXCEPT ![b] = w], [groups EXCEPT ![i] = h],
                       [wanted EXCEPT ![i] = v])
              /\ SharedFull([arrays EXCEPT ![b] = w], [groups EXCEPT ![i] = h])
    <3>1. Len(ms) > 0 /\ b = groups[i].array /\ h.array = b /\ a = arrays[b]
      BY <1>1, <1>2, <1>7, <2>5, <2>7
    <3>2. /\ h.len = groups[i].len + Len(ms) /\ h.len <= Len(w) /\ Len(w) = Len(arrays[b])
          /\ SubSeq(w, 1, h.len) = SubSeq(arrays[b], 1, groups[i].len) \o ms
      BY <1>1, <1>3, <2>2, <2>3, <2>5, <3>1
    <3> QED BY <1>5, <1>7, <1>10, <2>3, <2>5, <3>1, <3>2, InPlaceKeeps
  <2>9. /\ arrays' = [arrays EXCEPT ![b] = w] /\ groups' = [groups EXCEPT ![i] = h]
        /\ wanted' = [wanted EXCEPT ![i] = v]
    BY <1>11, <2>6, <2>7
  <2>10. /\ Typed(arrays', groups', wanted')
         /\ Kept(arrays, groups, wanted) /\ SharedFull(arrays, groups)
            => Kept(arrays', groups', wanted') /\ SharedFull(arrays', groups')
    BY <2>8, <2>9, Zenon
  <2> QED BY <1>5, <1>11, <1>12, <2>10, GroupsInvNext
<1>14. CASE /\ Len(ms) > Room(g)
            /\ arrays' = Append(arrays, Written(Middles(g) \o [k \in 1..c - g.len |-> Empty],
                                                g.len, ms))
            /\ groups' = [groups EXCEPT ![i] = [@ EXCEPT !.array = Len(arrays) + 1, !.len = m]]
  <2>1. PICK f : f = SubSeq(a, 1, g.len) \o [k \in 1..c - g.len |-> Empty]
    OBVIOUS
  <2>2. PICK w : w = Written(f, g.len, ms)
    OBVIOUS
  <2>3. c \in Nat /\ m <= c /\ g.len <= c
    <3>1. PICK least : least = IF m > 2 * Len(a) THEN m ELSE 2 * Len(a)
      OBVIOUS
    <3>2. least \in Nat /\ m <= least /\ g.len <= least
      BY <1>6, <1>9, <3>1
    <3>3. PICK odd : odd = least % 2
      OBVIOUS
    <3>4. odd \in Nat
      BY <3>2, <3>3
    <3>5. c = IF least <= 4 THEN least ELSE least + odd
      BY <1>4, <3>1, <3>3, Zenon DEF Grown
    <3> QED BY <1>6, <1>9, <3>2, <3>4, <3>5
  <2>4. f \in Seq(Slots) /\ Len(f) = c /\ SubSeq(f, 1, g.len) = SubSeq(a, 1, g.len)
    <3>1. Empty \in Slots
      BY DEF Slots
    <3>2. PICK k : k = g.len
      OBVIOUS
    <3>3. f = SubSeq(a, 1, k) \o [j \in 1..c - k |-> Empty] /\ k <= c /\ k \in 0..Len(a)
      BY <1>6, <2>1, <2>3, <3>2
    <3>4. f \in Seq(Slots) /\ Len(f) = c /\ SubSeq(f, 1, k) = SubSeq(a, 1, k)
      BY <1>6, <2>3, <3>1, <3>3, PaddedIs
    <3> QED BY <3>2, <3>4
  <2>5. /\ w \in Seq(Slots) /\ Len(w) = c
        /\ SubSeq(w, 1, m) = SubSeq(a, 1, g.len) \o ms
    <3>1. g.len \in 0..Len(f) /\ g.len + Len(ms) <= Len(f)
      BY <1>3, <1>6, <2>3, <2>4
    <3>2. /\ w \in Seq(Slots) /\ Len(w) = Len(f)
          /\ SubSeq(w, 1, g.len + Len(ms)) = SubSeq(f, 1, g.len) \o ms
      BY <1>8, <2>2, <2>4, <3>1, WrittenIs
    <3> QED BY <1>3, <2>4, <3>2
  <2>0. PICK e : e = [g EXCEPT !.array = Len(arrays) + 1]
    OBVIOUS
  <2>6. PICK h : h = [e EXCEPT !.len = m]
    OBVIOUS
  <2>7. /\ h \in GroupsOver(Len(arrays) + 1, Len(groups))
        /\ h.array = Len(arrays) + 1 /\ h.len = m
    <3>1. e \in GroupsOver(Len(arrays) + 1, Len(groups)) /\ e.array = Len(arrays) + 1
      BY <1>6, <2>0 DEF GroupsOver
    <3> QED BY <1>9, <2>6, <3>1 DEF GroupsOver
  <2>8. /\ Typed(Append(arrays, w), [groups EXCEPT ![i] = h], [wanted EXCEPT ![i] = v])
        /\ Kept(arrays, groups, wanted) /\ SharedFull(arrays, groups)
           => /\ Kept(Append(arrays, w), [groups EXCEPT ![i] = h], [wanted EXCEPT ![i] = v])
              /\ SharedFull(Append(arrays, w), [groups EXCEPT ![i] = h])
    <3>1. /\ a = arrays[groups[i].array] /\ h.len = groups[i].len + Len(ms)
          /\ h.len <= Len(w)
          /\ SubSeq(w, 1, h.len) = SubSeq(a, 1, groups[i].len) \o ms
      BY <1>1, <1>2, <1>3, <2>3, <2>5, <2>7
    <3> QED BY <1>5, <1>7, <1>10, <2>5, <2>7, <3>1, MovedKeeps
  <2>9. /\ arrays' = Append(arrays, w) /\ groups' = [groups EXCEPT ![i] = h]
        /\ wanted' = [wanted EXCEPT ![i] = v]
    BY <1>1, <1>2, <1>11, <1>14, <2>0, <2>1, <2>2, <2>6, Zenon DEF Middles
  <2>10. /\ Typed(arrays', groups', wanted')
         /\ Kept(arrays, groups, wanted) /\ SharedFull(arrays, groups)
            => Kept(arrays', groups', wanted') /\ SharedFull(arrays', groups')
    BY <2>8, <2>9, Zenon
  <2> QED BY <1>5, <1>11, <1>12, <2>10, GroupsInvNext
<1>15. \/ /\ Len(ms) <= Room(g)
          /\ arrays' = [arrays EXCEPT ![g.array] = Written(@, g.len, ms)]
          /\ groups' = [groups EXCEPT ![i].len = m]
       \/ /\ Len(ms) > Room(g)
          /\ arrays' = Append(arrays, Written(Middles(g) \o [k \in 1..c - g.len |-> Empty],
                                              g.len, ms))
          /\ groups' = [groups EXCEPT ![i] = [@ EXCEPT !.array = Len(arrays) + 1, !.len = m]]
  BY <1>1, <1>2, <1>3, <1>4, Zenon DEF Use
<1> QED BY <1>13, <1>14, <1>15

LEMMA GroupPreserves ==
    ASSUME SetupTypeOK, GroupsInv, NEW i \in 1..Len(groups), Group(i)
    PROVE  SetupTypeOK' /\ GroupsInv'
<1>1. Typed(arrays, groups, wanted) /\ spare \in BOOLEAN
  BY SetupTyped
<1>2. PICK g : g = [groups[i] EXCEPT !.parent = i]
  OBVIOUS
<1>3. PICK v : v = wanted[i]
  OBVIOUS
<1>4. /\ arrays' = arrays /\ groups' = Append(groups, g) /\ wanted' = Append(wanted, v)
      /\ spare' = (spare \/ Room(groups[i]) > 0)
  BY <1>2, <1>3 DEF Group
<1>5. /\ groups[i] \in GroupsOver(Len(arrays), Len(groups)) /\ Len(groups) \in Nat
      /\ Len(arrays[groups[i].array]) \in Nat
      /\ groups[i].len \in 0..Len(arrays[groups[i].array])
  BY <1>1, TypedGroup, TypedLen
<1>6. /\ g \in GroupsOver(Len(arrays), Len(groups) + 1)
      /\ g.array = groups[i].array /\ g.len = groups[i].len
  BY <1>2, <1>5 DEF GroupsOver
<1>7. /\ Typed(arrays, Append(groups, g), Append(wanted, v))
      /\ Kept(arrays, groups, wanted) /\ SharedFull(arrays, groups)
         /\ groups[i].len = Len(arrays[groups[i].array])
         => /\ Kept(arrays, Append(groups, g), Append(wanted, v))
            /\ SharedFull(arrays, Append(groups, g))
  BY <1>1, <1>3, <1>6, NewGroupKeeps
<1>8. ~(Room(groups[i]) > 0) => groups[i].len = Len(arrays[groups[i].array])
  BY <1>5 DEF Room
<1>9. spare' \in BOOLEAN /\ (~spare' => ~spare /\ ~(Room(groups[i]) > 0))
  BY <1>1, <1>4
<1>10. Typed(arrays', groups', wanted')
  BY <1>4, <1>7
<1>11. ~spare' => Kept(arrays', groups', wanted') /\ SharedFull(arrays', groups')
  BY <1>4, <1>7, <1>8, <1>9, GroupsInvIs
<1> QED BY <1>9, <1>10, <1>11, GroupsInvNext

-----------------------------------------------------------------------------
(* The theorems.                                                           *)

LEMMA NextPreserves == IInv /\ [Next]_vars => IInv'
<1>. SUFFICES ASSUME IInv, [Next]_vars PROVE IInv'
  OBVIOUS
<1>. USE DEF IInv, TypeOK
<1>1. CASE UNCHANGED vars
  BY <1>1 DEF vars, setup, context, SetupTypeOK, ContextTypeOK, GroupsInv, GroupsKeepTheirs,
              Middles, Room, IndexInv, PanicInv, FirstPanicIsRecovered, Position, Top,
              Panicking
<1>2. ASSUME UNCHANGED <<phase, context>>
      PROVE  ContextTypeOK' /\ IndexInv' /\ PanicInv'
  BY <1>2 DEF context, ContextTypeOK, IndexInv, PanicInv, FirstPanicIsRecovered, Position,
              Top, Panicking
<1>3. ASSUME UNCHANGED setup PROVE SetupTypeOK' /\ GroupsInv'
  BY <1>3 DEF setup, SetupTypeOK, GroupsInv, GroupsKeepTheirs, Middles, Room
<1>4. ASSUME NEW i \in 1..Len(groups), NEW n \in 1..2, NEW ms \in [1..n -> Middlewares],
             Use(i, ms)
      PROVE  IInv'
  <2>1. UNCHANGED <<phase, context>>
    BY <1>4 DEF Use
  <2> QED BY <1>2, <1>4, <2>1, UsePreserves
<1>5. ASSUME NEW i \in 1..Len(groups), Group(i) PROVE IInv'
  <2>1. UNCHANGED <<phase, context>>
    BY <1>5 DEF Group
  <2> QED BY <1>2, <1>5, <2>1, GroupPreserves
<1>6. CASE Request
  BY <1>3, <1>6, RequestLeavesGroups, ContextTypes, IndexPreserves, PanicPreserves
<1> QED BY <1>1, <1>4, <1>5, <1>6 DEF Next, Request, Ended

\* The groups, the position of the request in its chain, and the Recoveries that can still
\* stop a panic, in every reachable state.
THEOREM Invariant == Spec => []IInv
BY InitIInv, NextPreserves, PTL DEF Spec

\* Whatever the middlewares, and however Next is called in Next, no handler of a request is
\* called twice or passed over (Context.Next, context.go:41).
THEOREM HandlersOnce == Spec => []EveryHandlerOnce
<1>1. IInv => EveryHandlerOnce
  BY DEF IInv, IndexInv, EveryHandlerOnce
<1> QED BY <1>1, Invariant, PTL

\* The first panic of a request leaves ServeHTTP only when no Recovery was called before
\* the handler that panicked (recovery.go:29).
THEOREM FirstPanicsRecovered == Spec => []FirstPanicIsRecovered
<1>1. IInv => FirstPanicIsRecovered
  BY DEF IInv, PanicInv
<1> QED BY <1>1, Invariant, PTL

\* For any number of groups, and any lists of middlewares given to Use, a group has its
\* parent's and its own, unless a group was made from a slice with room (gee.go:66).
THEOREM GroupsKept == Spec => []GroupsKeepTheirs
<1>1. IInv => GroupsKeepTheirs
  BY DEF IInv, GroupsInv
<1> QED BY <1>1, Invariant, PTL

-----------------------------------------------------------------------------
(* Numbers and sequences.                                                  *)

LEMMA LeastElement ==
    ASSUME NEW S \in SUBSET Nat, S # {}
    PROVE  \E n \in S : \A m \in S : n <= m
<1>1. PICK n \in S : \A m \in S : <<m, n>> \notin OpToRel(<, Nat)
  BY NatLessThanWellFounded, WFMin
<1>2. \A m \in S : ~(m < n)
  BY <1>1 DEF OpToRel
<1> QED BY <1>2

LEMMA MinIs ==
    ASSUME NEW S \in SUBSET Nat, S # {}
    PROVE  Min(S) \in S /\ \A n \in S : Min(S) <= n
BY LeastElement DEF Min

LEMMA MaxIs ==
    ASSUME NEW n \in Nat, NEW S \in SUBSET (0..n), S # {}
    PROVE  Max(S) \in S /\ \A i \in S : i <= Max(S)
<1> DEFINE T == {n - i : i \in S}
<1>1. T \in SUBSET Nat /\ T # {}
  OBVIOUS
<1>2. PICK t \in T : \A u \in T : t <= u
  <2> HIDE DEF T
  <2> QED BY <1>1, LeastElement
<1>3. PICK i \in S : t = n - i
  OBVIOUS
<1>4. \A j \in S : j <= i
  <2> SUFFICES ASSUME NEW j \in S PROVE j <= i
    OBVIOUS
  <2>1. n - j \in T
    OBVIOUS
  <2> QED BY <1>2, <1>3, <2>1
<1>5. \E x \in S : \A y \in S : x >= y
  BY <1>4
<1> HIDE DEF T
<1>6. Max(S) \in S /\ \A y \in S : Max(S) >= y
  BY <1>5 DEF Max
<1> QED BY <1>6

\* A set that has 0 and, with every number below n, the next has all up to n.
LEMMA UpTo ==
    ASSUME NEW n \in Nat, NEW S, 0 \in S,
           \A i \in 0..n : i < n /\ i \in S => i + 1 \in S
    PROVE  \A i \in 0..n : i \in S
<1> DEFINE T == {i \in 0..n : i \notin S}
<1> SUFFICES ASSUME T # {} PROVE FALSE
  OBVIOUS
<1>1. PICK m \in T : \A i \in T : m <= i
  <2>1. T \in SUBSET Nat
    OBVIOUS
  <2> HIDE DEF T
  <2> QED BY <2>1, LeastElement
<1>2. m - 1 \in 0..n /\ m - 1 \notin T
  BY <1>1
<1> QED BY <1>2

LEMMA NextLevel ==
    ASSUME NEW a \in Nat, NEW b \in Nat, NEW k \in Nat, NEW l \in Nat,
           a = b - 1, a + (k + 1) >= l
    PROVE  b + k >= l
OBVIOUS

LEMMA FrontIs ==
    ASSUME NEW n \in Seq(Part), n # <<>>
    PROVE  /\ Front(n) \in Seq(Part) /\ Len(Front(n)) = Len(n) - 1
           /\ \A i \in 1..Len(n) - 1 : Front(n)[i] = n[i]
           /\ Last(n) \in Part /\ Last(n) = n[Len(n)] /\ Len(n) \in Nat \ {0}
<1>1. Len(n) \in Nat \ {0}
  OBVIOUS
<1>2. /\ SubSeq(n, 1, Len(n) - 1) \in Seq(Part)
      /\ Len(SubSeq(n, 1, Len(n) - 1)) = Len(n) - 1
      /\ \A i \in 1..Len(n) - 1 : SubSeq(n, 1, Len(n) - 1)[i] = n[i]
  <2>1. /\ SubSeq(n, 1, Len(n) - 1) \in Seq(Part)
        /\ Len(SubSeq(n, 1, Len(n) - 1)) = IF 1 <= Len(n) - 1 THEN (Len(n) - 1) - 1 + 1 ELSE 0
        /\ \A i \in 1..(Len(n) - 1) - 1 + 1 : SubSeq(n, 1, Len(n) - 1)[i] = n[1 + i - 1]
    <3>1. 1 \in Int /\ Len(n) - 1 \in Int /\ \A i \in 1..Len(n) - 1 : n[i] \in Part
      BY <1>1
    <3> QED BY <3>1, SubSeqProperties
  <2>2. (Len(n) - 1) - 1 + 1 = Len(n) - 1 /\ \A i \in 1..Len(n) - 1 : 1 + i - 1 = i
    BY <1>1
  <2> QED BY <1>1, <2>1, <2>2
<1> QED BY <1>1, <1>2 DEF Front, Last

\* Two nodes below the same one are told apart by their parts.
LEMMA SameNode ==
    ASSUME NEW n \in Seq(Part), NEW k \in Seq(Part), n # <<>>, k # <<>>,
           Front(n) = Front(k), Last(n) = Last(k)
    PROVE  n = k
<1>1. Len(n) = Len(k) /\ Len(n) \in Nat
  BY FrontIs
<1>2. \A i \in 1..Len(n) : n[i] = k[i]
  BY <1>1, FrontIs
<1> QED BY <1>1, <1>2, SeqEqual

-----------------------------------------------------------------------------
(* The search, as the solution of its equation.                            *)

Kids(N, n, part) == {i \in DOMAIN N : Front(N[i]) = n /\ Last(N[i]) \in {part} \cup Wild}

Step(N, P, path, f, n) ==
    IF Len(n) >= Len(path) \/ EndsInStar(n)
    THEN P[n]
    ELSE LET ways == {i \in Kids(N, n, path[Len(n) + 1]) : f[N[i]] # None}
         IN IF ways = {} THEN None ELSE f[N[Min(ways)]]

SearchOf(N, P, path) ==
    CHOOSE f : f = [n \in DOMAIN P |-> Step(N, P, path, f, n)]

LEMMA FoundIs ==
    ASSUME NEW m \in Methods, NEW path
    PROVE  /\ Found(m, path) = SearchOf(nodes[m], pattern[m], path)
           /\ Found(m, path)' = SearchOf(nodes'[m], pattern'[m], path)
BY DEF Found, SearchOf, Step, Kids, MatchChildren

\* A tree of nodes: none is the root, and every one has a pattern or None.
Tree(N, P) ==
    /\ N \in Seq(Seq(Part))
    /\ \A i \in DOMAIN N : N[i] \in DOMAIN P /\ N[i] # <<>>
    /\ DOMAIN P \subseteq Seq(Part)

LEMMA StepReadsKids ==
    ASSUME NEW N \in Seq(Seq(Part)), NEW P, NEW path, NEW f, NEW g, NEW n,
           \A i \in DOMAIN N : Front(N[i]) = n => f[N[i]] = g[N[i]]
    PROVE  Step(N, P, path, f, n) = Step(N, P, path, g, n)
<1> DEFINE K == Kids(N, n, path[Len(n) + 1])
           W(h) == {i \in K : h[N[i]] # None}
<1>1. \A i \in K : N[i] \in {N[j] : j \in K} /\ f[N[i]] = g[N[i]]
  BY DEF Kids
<1>2. W(f) = W(g)
  BY <1>1
<1> HIDE DEF K
<1>3. ASSUME W(f) # {} PROVE f[N[Min(W(f))]] = g[N[Min(W(f))]]
  <2>1. W(f) \in SUBSET Nat
    <3>1. DOMAIN N \subseteq Nat
      OBVIOUS
    <3> QED BY <3>1 DEF K, Kids
  <2>2. Min(W(f)) \in K
    BY <1>3, <2>1, MinIs
  <2> QED BY <1>1, <2>2
<1> QED BY <1>2, <1>3 DEF Step, K

\* From the leaves to the root: there is a function that is its own step.
LEMMA SearchExists ==
    ASSUME NEW N, NEW P, Tree(N, P), NEW path \in Seq(Part)
    PROVE  \E f : f = [n \in DOMAIN P |-> Step(N, P, path, f, n)]
<1> DEFINE D == DOMAIN P
           Solves(k, f) == \A n \in D : Len(n) + k >= Len(path) => f[n] = Step(N, P, path, f, n)
           S == {k \in Nat : \E f : Solves(k, f)}
<1>1. \A n \in D : Len(n) \in Nat
  BY DEF Tree
<1>2. 0 \in S
  <2>1. ASSUME NEW n \in D, Len(n) >= Len(path) PROVE P[n] = Step(N, P, path, P, n)
    BY <2>1 DEF Step
  <2>2. Solves(0, P)
    BY <1>1, <2>1
  <2> QED BY <2>2
<1>3. ASSUME NEW k \in 0..Len(path), k < Len(path), k \in S PROVE k + 1 \in S
  <2>1. PICK f : Solves(k, f)
    BY <1>3
  <2> DEFINE g == [n \in D |-> IF Len(n) + k >= Len(path) THEN f[n] ELSE Step(N, P, path, f, n)]
  <2>2. ASSUME NEW n \in D, Len(n) + (k + 1) >= Len(path) PROVE g[n] = Step(N, P, path, g, n)
    <3>1. ASSUME NEW i \in DOMAIN N, Front(N[i]) = n PROVE f[N[i]] = g[N[i]]
      <4>1. N[i] \in D /\ N[i] # <<>> /\ N[i] \in Seq(Part)
        BY DEF Tree
      <4>2. Len(N[i]) = Len(n) + 1
        BY <1>1, <3>1, <4>1, FrontIs
      <4>3. Len(N[i]) + k >= Len(path)
        BY <1>1, <2>2, <4>2, LenProperties
      <4> QED BY <4>1, <4>3
    <3> HIDE DEF g
    <3>2. Step(N, P, path, f, n) = Step(N, P, path, g, n)
      BY <3>1, StepReadsKids DEF Tree
    <3>3. g[n] = Step(N, P, path, f, n)
      BY <2>1 DEF g
    <3> QED BY <3>2, <3>3
  <2> HIDE DEF g
  <2>3. Solves(k + 1, g)
    BY <2>2
  <2> QED BY <2>3
<1>4. Len(path) \in S
  <2> HIDE DEF S
  <2>1. Len(path) \in Nat
    BY LenProperties
  <2>2. \A k \in 0..Len(path) : k \in S
    BY <1>2, <1>3, <2>1, UpTo
  <2> QED BY <2>1, <2>2
<1>5. PICK f : Solves(Len(path), f)
  BY <1>4
<1>6. \A n \in D : f[n] = Step(N, P, path, f, n)
  BY <1>1, <1>5, LenProperties
<1> DEFINE g == [n \in D |-> f[n]]
<1>7. ASSUME NEW n \in D PROVE g[n] = Step(N, P, path, g, n)
  <2>1. \A i \in DOMAIN N : f[N[i]] = g[N[i]]
    BY DEF Tree
  <2> HIDE DEF g
  <2>2. Step(N, P, path, f, n) = Step(N, P, path, g, n)
    BY <2>1, StepReadsKids DEF Tree
  <2> QED BY <1>6, <2>2 DEF g
<1>8. g = [n \in D |-> g[n]]
  OBVIOUS
<1> HIDE DEF g
<1>9. g = [n \in D |-> Step(N, P, path, g, n)]
  BY <1>7, <1>8
<1> QED BY <1>9

LEMMA SearchIs ==
    ASSUME NEW N, NEW P, Tree(N, P), NEW path \in Seq(Part), NEW n \in DOMAIN P
    PROVE  SearchOf(N, P, path)[n] = Step(N, P, path, SearchOf(N, P, path), n)
<1> DEFINE D(f) == f = [k \in DOMAIN P |-> Step(N, P, path, f, k)]
<1>1. SearchOf(N, P, path) = CHOOSE f : D(f)
  BY DEF SearchOf
<1>2. \E f : D(f)
  BY SearchExists
<1> HIDE DEF D
<1>3. D(SearchOf(N, P, path))
  BY <1>1, <1>2
<1>4. SearchOf(N, P, path) = [k \in DOMAIN P |-> Step(N, P, path, SearchOf(N, P, path), k)]
  BY <1>3 DEF D
<1> QED BY <1>4

-----------------------------------------------------------------------------
(* Prefixes and the parts of a pattern.                                    *)

LEMMA PrefixIs ==
    ASSUME NEW n \in Seq(Part), NEW i \in 0..Len(n)
    PROVE  /\ SubSeq(n, 1, i) \in Seq(Part) /\ Len(SubSeq(n, 1, i)) = i
           /\ \A j \in 1..i : SubSeq(n, 1, i)[j] = n[j]
<1>1. i \in Nat /\ Len(n) \in Nat /\ i <= Len(n)
  BY LenProperties
<1>2. /\ SubSeq(n, 1, i) \in Seq(Part)
      /\ Len(SubSeq(n, 1, i)) = IF 1 <= i THEN i - 1 + 1 ELSE 0
      /\ \A j \in 1..i - 1 + 1 : SubSeq(n, 1, i)[j] = n[1 + j - 1]
  <2>1. 1 \in Int /\ i \in Int /\ \A j \in 1..i : n[j] \in Part
    BY <1>1
  <2> QED BY <2>1, SubSeqProperties
<1>3. i - 1 + 1 = i /\ \A j \in 1..i : 1 + j - 1 = j
  BY <1>1
<1> QED BY <1>1, <1>2, <1>3

LEMMA WholePrefix ==
    ASSUME NEW n \in Seq(Part)
    PROVE  SubSeq(n, 1, Len(n)) = n /\ SubSeq(n, 1, 0) = <<>>
<1>1. Len(n) \in Nat
  OBVIOUS
<1>2. SubSeq(n, 1, Len(n)) = n
  BY <1>1, PrefixIs, SeqEqual
<1>3. SubSeq(n, 1, 0) = <<>>
  BY <1>1, PrefixIs, EmptySeq
<1> QED BY <1>2, <1>3

LEMMA PrefixOfPrefix ==
    ASSUME NEW n \in Seq(Part), NEW i \in 0..Len(n), NEW j \in 0..i
    PROVE  SubSeq(SubSeq(n, 1, i), 1, j) = SubSeq(n, 1, j)
<1> DEFINE s == SubSeq(n, 1, i)
<1>1. i \in Nat /\ j \in Nat /\ Len(n) \in Nat /\ j \in 0..Len(n)
  BY LenProperties
<1>2. s \in Seq(Part) /\ Len(s) = i /\ \A k \in 1..i : s[k] = n[k]
  BY PrefixIs
<1> HIDE DEF s
<1>3. /\ SubSeq(s, 1, j) \in Seq(Part) /\ Len(SubSeq(s, 1, j)) = j
      /\ \A k \in 1..j : SubSeq(s, 1, j)[k] = s[k]
  BY <1>1, <1>2, PrefixIs
<1>4. /\ SubSeq(n, 1, j) \in Seq(Part) /\ Len(SubSeq(n, 1, j)) = j
      /\ \A k \in 1..j : SubSeq(n, 1, j)[k] = n[k]
  BY <1>1, PrefixIs
<1>5. \A k \in 1..j : SubSeq(s, 1, j)[k] = SubSeq(n, 1, j)[k]
  BY <1>1, <1>2, <1>3, <1>4
<1>6. SubSeq(s, 1, j) = SubSeq(n, 1, j)
  BY <1>3, <1>4, <1>5, SeqEqual
<1> QED BY <1>6 DEF s

LEMMA FrontOfPrefix ==
    ASSUME NEW n \in Seq(Part), NEW i \in 1..Len(n)
    PROVE  /\ SubSeq(n, 1, i) # <<>>
           /\ Front(SubSeq(n, 1, i)) = SubSeq(n, 1, i - 1)
           /\ Last(SubSeq(n, 1, i)) = n[i]
<1>1. i \in 0..Len(n) /\ i - 1 \in 0..i /\ i \in 1..i
  BY LenProperties
<1>2. Len(SubSeq(n, 1, i)) = i /\ SubSeq(n, 1, i)[i] = n[i]
  BY <1>1, PrefixIs
<1>3. SubSeq(SubSeq(n, 1, i), 1, i - 1) = SubSeq(n, 1, i - 1)
  BY <1>1, PrefixOfPrefix
<1>4. SubSeq(n, 1, i) # <<>>
  BY <1>2, EmptySeq
<1> QED BY <1>2, <1>3, <1>4 DEF Front, Last

\* A star can only be the last part.
LEMMA ParsedSeq ==
    ASSUME NEW p \in Seq(Part)
    PROVE  /\ Parsed(p) \in Seq(Part)
           /\ \A i \in 1..Len(Parsed(p)) : Parsed(p)[i] \in Stars => i = Len(Parsed(p))
<1> DEFINE stars == {i \in 1..Len(p) : p[i] \in Stars}
<1>1. p \in Seq(Part) /\ Len(p) \in Nat
  OBVIOUS
<1>2. CASE stars = {}
  BY <1>1, <1>2 DEF Parsed
<1>3. CASE stars # {}
  <2>1. stars \in SUBSET Nat
    BY <1>1
  <2>2. Min(stars) \in stars /\ \A i \in stars : Min(stars) <= i
    <3> HIDE DEF stars
    <3> QED BY <1>3, <2>1, MinIs
  <2> DEFINE l == Min(stars)
  <2>3. l \in 0..Len(p) /\ \A i \in 1..l : p[i] \in Stars => i = l
    <3>1. l \in 1..Len(p)
      BY <2>2
    <3>2. ASSUME NEW i \in 1..l, p[i] \in Stars PROVE i = l
      <4>1. i \in stars
        BY <1>1, <3>1, <3>2
      <4>2. l <= i
        BY <2>2, <4>1
      <4> HIDE DEF l
      <4> QED BY <1>1, <3>1, <4>2
    <3> HIDE DEF l
    <3> QED BY <1>1, <3>1, <3>2
  <2>4. Parsed(p) = SubSeq(p, 1, l)
    BY <1>3 DEF Parsed
  <2> HIDE DEF l, stars
  <2> QED BY <1>1, <2>3, <2>4, PrefixIs
<1> QED BY <1>2, <1>3

LEMMA ParsedIs ==
    ASSUME NEW p \in Patterns
    PROVE  /\ Parsed(p) \in Seq(Part)
           /\ \A i \in 1..Len(Parsed(p)) : Parsed(p)[i] \in Stars => i = Len(Parsed(p))
<1>1. p \in Seq(Part)
  BY RouterAssumption
<1> QED BY <1>1, ParsedSeq

LEMMA PathIs ==
    ASSUME NEW path \in Paths
    PROVE  Parsed(path) \in Seq(Part)
<1>1. path \in Seq(Part)
  BY RouterAssumption
<1> QED BY <1>1, ParsedSeq

-----------------------------------------------------------------------------
(* What insert does.                                                       *)

TreeOf(m) ==
    /\ Tree(nodes[m], pattern[m])
    /\ DOMAIN pattern[m] = {<<>>} \cup {nodes[m][i] : i \in DOMAIN nodes[m]}
    /\ \A i \in DOMAIN nodes[m] : Front(nodes[m][i]) \in DOMAIN pattern[m]
    /\ \A i, j \in DOMAIN nodes[m] : nodes[m][i] = nodes[m][j] => i = j
    /\ \A n \in DOMAIN pattern[m] : pattern[m][n] \in DOMAIN handlerOf[m] \cup {None}
    /\ DOMAIN handlerOf[m] \subseteq Patterns

\* Every method has a tree whose nodes have handlers or no pattern.
TreeInv ==
    /\ nodes = [m \in Methods |-> nodes[m]]
    /\ pattern = [m \in Methods |-> pattern[m]]
    /\ handlerOf = [m \in Methods |-> handlerOf[m]]
    /\ routes \in Seq([method : Methods, pattern : Patterns])
    /\ \A m \in Methods : TreeOf(m)

LEMMA ChildIs ==
    ASSUME NEW m \in Methods, Tree(nodes[m], pattern[m]), NEW n \in Seq(Part), NEW part \in Part
    PROVE  /\ Child(m, n, part) \in Seq(Part) /\ Child(m, n, part) # <<>>
           /\ Front(Child(m, n, part)) = n /\ Len(Child(m, n, part)) = Len(n) + 1
           /\ MatchChildren(m, n, part) # {} =>
                Min(MatchChildren(m, n, part)) \in MatchChildren(m, n, part)
<1> DEFINE cs == MatchChildren(m, n, part)
<1>1. cs \in SUBSET Nat /\ \A i \in cs : i \in DOMAIN nodes[m] /\ Front(nodes[m][i]) = n
  <2>1. DOMAIN nodes[m] \subseteq Nat
    BY DEF Tree
  <2> QED BY <2>1 DEF MatchChildren
<1> HIDE DEF cs
<1>2. CASE cs = {}
  <2>1. Child(m, n, part) = Append(n, part)
    BY <1>2 DEF Child, cs
  <2> DEFINE c == Append(n, part)
  <2>2. /\ c \in Seq(Part) /\ c # <<>> /\ Len(c) = Len(n) + 1 /\ Len(n) \in Nat
        /\ \A i \in 1..Len(n) : c[i] = n[i]
    BY AppendProperties, LenProperties
  <2> HIDE DEF c
  <2>3. Front(c) = n
    <3>1. Front(c) \in Seq(Part) /\ Len(Front(c)) = Len(n) /\ \A i \in 1..Len(n) : Front(c)[i] = n[i]
      <4>1. Front(c) \in Seq(Part) /\ Len(Front(c)) = Len(c) - 1 /\ \A i \in 1..Len(c) - 1 : Front(c)[i] = c[i]
        BY <2>2, FrontIs
      <4>2. Len(c) - 1 = Len(n)
        BY <2>2
      <4> QED BY <2>2, <4>1, <4>2
    <3> QED BY <3>1, SeqEqual
  <2> QED BY <1>2, <2>1, <2>2, <2>3 DEF c, cs
<1>3. CASE cs # {}
  <2>1. Min(cs) \in cs
    BY <1>1, <1>3, MinIs
  <2>2. Child(m, n, part) = nodes[m][Min(cs)]
    BY <1>3 DEF Child, cs
  <2> DEFINE c == nodes[m][Min(cs)]
  <2>3. c \in Seq(Part) /\ c # <<>> /\ Front(c) = n
    BY <1>1, <2>1 DEF Tree
  <2> HIDE DEF c
  <2>4. Len(c) = Len(n) + 1
    BY <2>3, FrontIs, LenProperties
  <2> QED BY <2>1, <2>2, <2>3, <2>4 DEF c, cs
<1> QED BY <1>2, <1>3

LEMMA WayExists ==
    ASSUME NEW m \in Methods, NEW parts \in Seq(Part)
    PROVE  \E f : f = [i \in 0..Len(parts) |-> IF i = 0 THEN <<>> ELSE Child(m, f[i - 1], parts[i])]
<1> DEFINE Ways(n, f) == f = [i \in 0..n |-> IF i = 0 THEN <<>> ELSE Child(m, f[i - 1], parts[i])]
           S == {n \in Nat : \E f : Ways(n, f)}
<1>1. 0 \in S
  <2>1. Ways(0, [i \in 0..0 |-> <<>>])
    OBVIOUS
  <2> QED BY <2>1
<1>2. ASSUME NEW n \in 0..Len(parts), n < Len(parts), n \in S PROVE n + 1 \in S
  <2>1. PICK f : Ways(n, f)
    BY <1>2
  <2> DEFINE g == [i \in 0..n + 1 |-> IF i = n + 1 THEN Child(m, f[n], parts[n + 1]) ELSE f[i]]
  <2>2. \A i \in 0..n : f[i] = IF i = 0 THEN <<>> ELSE Child(m, f[i - 1], parts[i])
    BY <2>1
  <2>3. \A i \in 0..n + 1 : g[i] = IF i = 0 THEN <<>> ELSE Child(m, g[i - 1], parts[i])
    <3>1. ASSUME NEW i \in 1..n PROVE g[i] = Child(m, g[i - 1], parts[i])
      BY <2>2, i # n + 1, i - 1 # n + 1, i \in 0..n + 1, i - 1 \in 0..n + 1, i \in 0..n
    <3>2. g[n + 1] = Child(m, g[n], parts[n + 1]) /\ g[0] = <<>>
      BY <2>2
    <3> HIDE DEF g
    <3> QED BY <3>1, <3>2
  <2> HIDE DEF g
  <2>4. Ways(n + 1, g)
    BY <2>3 DEF g
  <2> QED BY <2>4
<1> HIDE DEF S
<1>3. Len(parts) \in S
  <2>1. Len(parts) \in Nat /\ Len(parts) \in 0..Len(parts)
    BY LenProperties
  <2>2. \A i \in 0..Len(parts) : i \in S
    BY <1>1, <1>2, <2>1, UpTo
  <2> QED BY <2>1, <2>2
<1> QED BY <1>3 DEF S

LEMMA WayIs ==
    ASSUME NEW m \in Methods, NEW parts \in Seq(Part)
    PROVE  /\ Way(m, parts)[0] = <<>>
           /\ \A i \in 1..Len(parts) :
                Way(m, parts)[i] = Child(m, Way(m, parts)[i - 1], parts[i])
<1> DEFINE D(f) == f = [i \in 0..Len(parts) |->
                          IF i = 0 THEN <<>> ELSE Child(m, f[i - 1], parts[i])]
<1>1. Way(m, parts) = CHOOSE f : D(f)
  BY DEF Way
<1>2. \E f : D(f)
  BY WayExists
<1> HIDE DEF D
<1>3. D(Way(m, parts))
  BY <1>1, <1>2
<1>4. Len(parts) \in Nat
  BY LenProperties
<1> HIDE DEF D
<1> QED BY <1>3, <1>4 DEF D

LEMMA TargetIs ==
    ASSUME NEW m \in Methods, Tree(nodes[m], pattern[m]), NEW parts \in Seq(Part)
    PROVE  Target(m, parts) \in Seq(Part)
<1> DEFINE w == Way(m, parts)
           S == {i \in 0..Len(parts) : w[i] \in Seq(Part)}
<1>1. Len(parts) \in Nat
  BY LenProperties
<1>2. w[0] = <<>> /\ \A i \in 1..Len(parts) : w[i] = Child(m, w[i - 1], parts[i])
  BY WayIs
<1> HIDE DEF w
<1>3. 0 \in S
  <2>1. <<>> \in Seq(Part)
    OBVIOUS
  <2>2. w[0] \in Seq(Part)
    BY <1>2, <2>1
  <2>3. 0 \in 0..Len(parts)
    BY <1>1
  <2> QED BY <2>2, <2>3
<1>4. ASSUME NEW i \in 0..Len(parts), i < Len(parts), i \in S PROVE i + 1 \in S
  <2>1. i + 1 \in 1..Len(parts) /\ (i + 1) - 1 = i /\ parts[i + 1] \in Part
    BY <1>1, <1>4
  <2>2. w[i + 1] = Child(m, w[i], parts[i + 1])
    BY <1>2, <2>1
  <2>3. w[i] \in Seq(Part)
    BY <1>4
  <2>4. w[i + 1] \in Seq(Part)
    BY <2>1, <2>2, <2>3, ChildIs
  <2> QED BY <1>1, <2>1, <2>4
<1> HIDE DEF S
<1>5. \A i \in 0..Len(parts) : i \in S
  BY <1>1, <1>3, <1>4, UpTo
<1>6. Len(parts) \in S
  BY <1>1, <1>5
<1> QED BY <1>6 DEF S, Target, w

\* With a node every node on the way to it is there.
LEMMA TreeClosed ==
    ASSUME NEW m \in Methods, TreeOf(m), NEW n \in Seq(Part), NEW k \in 0..Len(n),
           SubSeq(n, 1, k) \in DOMAIN pattern[m]
    PROVE  \A i \in 0..k : SubSeq(n, 1, i) \in DOMAIN pattern[m]
<1> DEFINE D == DOMAIN pattern[m]
           S == {j \in 0..k : SubSeq(n, 1, k - j) \in D}
<1>1. Len(n) \in Nat /\ k \in Nat /\ k <= Len(n)
  BY LenProperties
<1>2. \A c \in D : c # <<>> => Front(c) \in D
  BY DEF TreeOf
<1> HIDE DEF D
<1>3. 0 \in S
  BY <1>1 DEF D
<1>4. ASSUME NEW j \in 0..k, j < k, j \in S PROVE j + 1 \in S
  <2>1. k - j \in 1..Len(n) /\ (k - j) - 1 = k - (j + 1) /\ j + 1 \in 0..k
    BY <1>1, <1>4
  <2>2. SubSeq(n, 1, k - j) # <<>> /\ Front(SubSeq(n, 1, k - j)) = SubSeq(n, 1, (k - j) - 1)
    BY <2>1, FrontOfPrefix
  <2>3. SubSeq(n, 1, k - j) \in D
    BY <1>4
  <2>4. SubSeq(n, 1, k - (j + 1)) \in D
    BY <1>2, <2>1, <2>2, <2>3
  <2> QED BY <2>1, <2>4
<1> HIDE DEF S
<1>5. \A j \in 0..k : j \in S
  BY <1>1, <1>3, <1>4, UpTo
<1>6. ASSUME NEW i \in 0..k PROVE SubSeq(n, 1, i) \in D
  <2>1. k - i \in 0..k /\ k - (k - i) = i
    BY <1>1
  <2>2. k - i \in S
    BY <1>5, <2>1
  <2> QED BY <2>1, <2>2 DEF S
<1> QED BY <1>6 DEF D

LEMMA NewNodesAre ==
    ASSUME NEW m \in Methods, TreeOf(m), NEW n \in Seq(Part)
    PROVE  \E known \in 0..Len(n) :
             /\ NewNodes(m, n) \in Seq(Seq(Part))
             /\ Len(NewNodes(m, n)) = Len(n) - known
             /\ \A i \in 1..Len(n) - known :
                  /\ NewNodes(m, n)[i] = SubSeq(n, 1, known + i)
                  /\ NewNodes(m, n)[i] \notin DOMAIN pattern[m]
             /\ \A i \in 0..known : SubSeq(n, 1, i) \in DOMAIN pattern[m]
<1> DEFINE D == DOMAIN pattern[m]
           S == {i \in 0..Len(n) : SubSeq(n, 1, i) \in D}
           known == Max(S)
<1>1. Len(n) \in Nat
  BY LenProperties
<1>2. S \in SUBSET (0..Len(n)) /\ 0 \in S
  <2>1. SubSeq(n, 1, 0) = <<>> /\ <<>> \in D
    BY WholePrefix DEF TreeOf
  <2> HIDE DEF D
  <2>2. 0 \in 0..Len(n)
    BY <1>1
  <2>3. SubSeq(n, 1, 0) \in D
    BY <2>1, Zenon
  <2> QED BY <2>2, <2>3
<1> HIDE DEF S
<1>3. known \in S /\ \A i \in S : i <= known
  BY <1>1, <1>2, MaxIs
<1> DEFINE made == [i \in 1..Len(n) - known |-> SubSeq(n, 1, known + i)]
<1>4. NewNodes(m, n) = made
  BY DEF NewNodes, S
<1> HIDE DEF known, D
<1>5. known \in 0..Len(n) /\ SubSeq(n, 1, known) \in D
  BY <1>3 DEF S
<1>6. \A i \in 1..Len(n) - known : known + i \in 0..Len(n)
  BY <1>1, <1>5
<1>7. \A i \in 1..Len(n) - known : SubSeq(n, 1, known + i) \in Seq(Part)
  BY <1>6, PrefixIs
<1>8. made \in Seq(Seq(Part)) /\ Len(made) = Len(n) - known
  BY <1>1, <1>5, <1>7
<1>9. ASSUME NEW i \in 1..Len(n) - known
      PROVE  made[i] = SubSeq(n, 1, known + i) /\ made[i] \notin D
  <2>1. known + i \notin S
    BY <1>1, <1>3, <1>5, <1>6
  <2> QED BY <1>6, <2>1 DEF S
<1>10. \A i \in 0..known : SubSeq(n, 1, i) \in D
  BY <1>5, TreeClosed DEF D
<1> HIDE DEF made
<1> QED BY <1>4, <1>5, <1>8, <1>9, <1>10 DEF D

\* The nodes a registration leaves, for any node n in which insert ends.
LEMMA AddedTree ==
    ASSUME TreeInv, NEW m \in Methods, NEW p \in Patterns, AddRoute(m, p)
    PROVE  /\ TreeInv'
           /\ Len(routes') = Len(routes) + 1 /\ Len(routes) \in Nat
           /\ \A i \in 1..Len(routes) : routes'[i] = routes[i]
           /\ routes'[Len(routes) + 1] = [method |-> m, pattern |-> p]
           /\ \A k \in Methods \ {m} : /\ nodes'[k] = nodes[k] /\ pattern'[k] = pattern[k]
                                       /\ handlerOf'[k] = handlerOf[k]
           /\ nodes'[m] = nodes[m] \o NewNodes(m, Target(m, Parsed(p)))
           /\ pattern'[m] =
                [k \in DOMAIN pattern[m] \cup Range(NewNodes(m, Target(m, Parsed(p))))
                         \cup {Target(m, Parsed(p))} |->
                   IF k = Target(m, Parsed(p)) THEN p
                   ELSE IF k \in DOMAIN pattern[m] THEN pattern[m][k] ELSE None]
           /\ handlerOf'[m] = [q \in DOMAIN handlerOf[m] \cup {p} |->
                                 IF q = p THEN Len(routes) + 1 ELSE handlerOf[m][q]]
<1> DEFINE n == Target(m, Parsed(p))
           made == NewNodes(m, n)
           D == DOMAIN pattern[m]
           H == DOMAIN handlerOf[m]
           N == nodes[m]
<1>1. /\ TreeOf(m) /\ Parsed(p) \in Seq(Part)
  BY ParsedIs DEF TreeInv
<1>2. n \in Seq(Part) /\ Len(n) \in Nat
  BY <1>1, TargetIs, LenProperties DEF TreeOf
<1>3. /\ nodes' = [nodes EXCEPT ![m] = @ \o made]
      /\ pattern' = [pattern EXCEPT ![m] =
                       [k \in DOMAIN @ \cup Range(made) \cup {n} |->
                          IF k = n THEN p ELSE IF k \in DOMAIN @ THEN @[k] ELSE None]]
      /\ handlerOf' = [handlerOf EXCEPT ![m] =
                       [q \in DOMAIN @ \cup {p} |-> IF q = p THEN Len(routes) + 1 ELSE @[q]]]
      /\ routes' = Append(routes, [method |-> m, pattern |-> p])
  BY DEF AddRoute
<1> HIDE DEF n, made
<1>4. /\ nodes' = [k \in Methods |-> IF k = m THEN N \o made ELSE nodes[k]]
      /\ pattern' = [k \in Methods |-> IF k = m THEN
                       [c \in D \cup Range(made) \cup {n} |->
                          IF c = n THEN p ELSE IF c \in D THEN pattern[m][c] ELSE None]
                       ELSE pattern[k]]
      /\ handlerOf' = [k \in Methods |-> IF k = m THEN
                       [q \in H \cup {p} |-> IF q = p THEN Len(routes) + 1 ELSE handlerOf[m][q]]
                       ELSE handlerOf[k]]
  BY <1>3 DEF TreeInv
<1>5. /\ nodes'[m] = N \o made
      /\ pattern'[m] = [c \in D \cup Range(made) \cup {n} |->
                          IF c = n THEN p ELSE IF c \in D THEN pattern[m][c] ELSE None]
      /\ handlerOf'[m] = [q \in H \cup {p} |->
                            IF q = p THEN Len(routes) + 1 ELSE handlerOf[m][q]]
      /\ \A k \in Methods \ {m} : /\ nodes'[k] = nodes[k] /\ pattern'[k] = pattern[k]
                                  /\ handlerOf'[k] = handlerOf[k]
      /\ nodes' = [k \in Methods |-> nodes'[k]] /\ pattern' = [k \in Methods |-> pattern'[k]]
      /\ handlerOf' = [k \in Methods |-> handlerOf'[k]]
  BY <1>4
<1>6. /\ routes' \in Seq([method : Methods, pattern : Patterns])
      /\ Len(routes') = Len(routes) + 1 /\ Len(routes) \in Nat
      /\ \A i \in 1..Len(routes) : routes'[i] = routes[i]
      /\ routes'[Len(routes) + 1] = [method |-> m, pattern |-> p]
  <2> DEFINE R == [method : Methods, pattern : Patterns]
             e == [method |-> m, pattern |-> p]
  <2>1. routes \in Seq(R) /\ e \in R /\ routes' = Append(routes, e)
    BY <1>3 DEF TreeInv
  <2> HIDE DEF R, e
  <2>2. /\ Append(routes, e) \in Seq(R) /\ Len(Append(routes, e)) = Len(routes) + 1
        /\ \A i \in 1..Len(routes) : Append(routes, e)[i] = routes[i]
        /\ Append(routes, e)[Len(routes) + 1] = e /\ Len(routes) \in Nat
    BY <2>1, AppendProperties, LenProperties
  <2> QED BY <2>1, <2>2 DEF R, e
<1>7. TreeOf(m)'
  <2>1. PICK known \in 0..Len(n) :
             /\ made \in Seq(Seq(Part))
             /\ Len(made) = Len(n) - known
             /\ \A i \in 1..Len(n) - known :
                  /\ made[i] = SubSeq(n, 1, known + i)
                  /\ made[i] \notin D
             /\ \A i \in 0..known : SubSeq(n, 1, i) \in D
    BY <1>1, <1>2, NewNodesAre DEF made
  <2>2. N \in Seq(Seq(Part)) /\ Len(N) \in Nat /\ DOMAIN N = 1..Len(N) /\ D \subseteq Seq(Part)
    BY <1>1, LenProperties DEF TreeOf, Tree
  <2>3. Len(made) \in Nat /\ DOMAIN made = 1..Len(made)
    BY <2>1, LenProperties
  <2>4. /\ N \o made \in Seq(Seq(Part)) /\ Len(N \o made) = Len(N) + Len(made)
        /\ \A i \in 1..Len(N) + Len(made) :
             (N \o made)[i] = IF i <= Len(N) THEN N[i] ELSE made[i - Len(N)]
    <3> DEFINE S == Seq(Part)
    <3>1. N \in Seq(S) /\ made \in Seq(S)
      BY <2>1, <2>2
    <3> HIDE DEF S, N
    <3>2. /\ N \o made \in Seq(S) /\ Len(N \o made) = Len(N) + Len(made)
          /\ \A i \in 1..Len(N) + Len(made) :
               (N \o made)[i] = IF i <= Len(N) THEN N[i] ELSE made[i - Len(N)]
      BY <3>1, ConcatProperties
    <3> QED BY <3>2 DEF S
  <2> DEFINE M == nodes'[m]
             E == DOMAIN pattern'[m]
  <2>5. /\ M \in Seq(Seq(Part)) /\ DOMAIN M = 1..Len(N) + Len(made)
        /\ \A i \in 1..Len(N) : M[i] = N[i]
        /\ \A i \in 1..Len(made) : M[Len(N) + i] = made[i]
    <3>1. DOMAIN M = 1..Len(N) + Len(made) /\ M \in Seq(Seq(Part))
      BY <1>5, <2>4, LenProperties
    <3>2. \A i \in 1..Len(N) : i \in 1..Len(N) + Len(made) /\ i <= Len(N)
      BY <2>2, <2>3
    <3>3. \A i \in 1..Len(made) : /\ Len(N) + i \in 1..Len(N) + Len(made)
                                  /\ ~(Len(N) + i <= Len(N)) /\ (Len(N) + i) - Len(N) = i
      BY <2>2, <2>3
    <3>4. M = N \o made
      BY <1>5
    <3>5. ASSUME NEW i \in 1..Len(N) PROVE M[i] = N[i]
      BY <2>4, <3>2, <3>4
    <3>6. ASSUME NEW i \in 1..Len(made) PROVE M[Len(N) + i] = made[i]
      BY <2>4, <3>3, <3>4
    <3> QED BY <3>1, <3>5, <3>6
  <2>6. E = D \cup Range(made) \cup {n}
    BY <1>5
  <2>7. Range(made) = {made[i] : i \in 1..Len(made)}
    BY <2>3 DEF Range
  <2>8. n \in D \cup Range(made)
    <3>1. SubSeq(n, 1, Len(n)) = n
      BY <1>2, WholePrefix
    <3>2. CASE known = Len(n)
      <4>1. known \in 0..known
        BY <1>2
      <4> QED BY <2>1, <3>1, <3>2, <4>1
    <3>3. CASE known < Len(n)
      <4>1. Len(n) - known \in 1..Len(made) /\ known + (Len(n) - known) = Len(n)
        BY <1>2, <2>1, <3>3
      <4>2. made[Len(n) - known] = n
        BY <2>1, <3>1, <4>1
      <4> QED BY <2>7, <4>1, <4>2
    <3> QED BY <1>2, <2>1, <3>2, <3>3
  <2>9. \A i \in 1..Len(made) :
          /\ made[i] \in Seq(Part) /\ made[i] # <<>>
          /\ Len(made[i]) = known + i
          /\ Front(made[i]) \in D \cup Range(made)
    <3> SUFFICES ASSUME NEW i \in 1..Len(made)
                 PROVE  /\ made[i] \in Seq(Part) /\ made[i] # <<>>
                        /\ Len(made[i]) = known + i
                        /\ Front(made[i]) \in D \cup Range(made)
      OBVIOUS
    <3>1. /\ known + i \in 1..Len(n) /\ known + i \in 0..Len(n) /\ i \in 1..Len(n) - known
          /\ known \in Nat
      BY <1>2, <2>1
    <3>2. made[i] = SubSeq(n, 1, known + i)
      BY <2>1, <3>1
    <3>3. made[i] \in Seq(Part) /\ made[i] # <<>> /\ Len(made[i]) = known + i
      BY <1>2, <3>1, <3>2, PrefixIs, FrontOfPrefix
    <3>4. Front(made[i]) = SubSeq(n, 1, (known + i) - 1)
      BY <1>2, <3>1, <3>2, FrontOfPrefix
    <3>5. CASE i = 1
      <4>1. (known + i) - 1 = known /\ known \in 0..known
        BY <3>1, <3>5
      <4> QED BY <2>1, <3>3, <3>4, <4>1
    <3>6. CASE i > 1
      <4>1. /\ (known + i) - 1 = known + (i - 1) /\ i - 1 \in 1..Len(made)
            /\ i - 1 \in 1..Len(n) - known
        BY <2>1, <3>1, <3>6
      <4>2. made[i - 1] = Front(made[i])
        BY <2>1, <3>4, <4>1
      <4> QED BY <2>7, <3>3, <4>1, <4>2
    <3> QED BY <3>5, <3>6
  <2> HIDE DEF M, E
  <2>10. \A i \in DOMAIN M : \/ i \in 1..Len(N) /\ M[i] = N[i]
                             \/ \E j \in 1..Len(made) : i = Len(N) + j /\ M[i] = made[j]
    <3> SUFFICES ASSUME NEW i \in 1..Len(N) + Len(made), i \notin 1..Len(N)
                 PROVE  \E j \in 1..Len(made) : i = Len(N) + j /\ M[i] = made[j]
      BY <2>5
    <3>1. i - Len(N) \in 1..Len(made) /\ i = Len(N) + (i - Len(N))
      BY <2>2, <2>3
    <3> QED BY <2>5, <3>1
  <2>11. Tree(M, pattern'[m])
    <3>1. E \subseteq Seq(Part)
      BY <1>2, <2>2, <2>6, <2>7, <2>9
    <3>2. ASSUME NEW i \in DOMAIN M PROVE M[i] \in E /\ M[i] # <<>>
      <4>1. \A j \in 1..Len(N) : N[j] \in D /\ N[j] # <<>>
        BY <1>1, <2>2 DEF TreeOf, Tree
      <4> QED BY <2>6, <2>7, <2>9, <2>10, <4>1
    <3> QED BY <2>5, <3>1, <3>2 DEF Tree, E
  <2>12. E = {<<>>} \cup {M[i] : i \in DOMAIN M}
    <3>1. D = {<<>>} \cup {N[i] : i \in 1..Len(N)}
      BY <1>1, <2>2 DEF TreeOf
    <3>2. \A i \in 1..Len(N) : i \in DOMAIN M /\ M[i] = N[i]
      BY <2>2, <2>3, <2>5
    <3>3. \A i \in 1..Len(made) : Len(N) + i \in DOMAIN M /\ M[Len(N) + i] = made[i]
      BY <2>2, <2>3, <2>5
    <3> QED BY <2>6, <2>7, <2>8, <2>10, <3>1, <3>2, <3>3
  <2>13. \A i \in DOMAIN M : Front(M[i]) \in E
    <3>1. \A j \in 1..Len(N) : Front(N[j]) \in D
      BY <1>1, <2>2 DEF TreeOf
    <3> QED BY <2>6, <2>9, <2>10, <3>1
  <2>14. \A i, j \in DOMAIN M : M[i] = M[j] => i = j
    <3>1. \A i, j \in 1..Len(N) : N[i] = N[j] => i = j
      BY <1>1, <2>2 DEF TreeOf
    <3>2. \A i \in 1..Len(N) : N[i] \in D
      BY <1>1, <2>2 DEF TreeOf, Tree
    <3>3. \A i \in 1..Len(made) : made[i] \notin D
      BY <2>1
    <3>4. \A i, j \in 1..Len(made) : made[i] = made[j] => i = j
      <4> SUFFICES ASSUME NEW i \in 1..Len(made), NEW j \in 1..Len(made), made[i] = made[j]
                   PROVE  i = j
        OBVIOUS
      <4>1. Len(made[i]) = known + i /\ Len(made[j]) = known + j /\ known \in Nat
        BY <1>2, <2>9
      <4> QED BY <4>1
    <3> SUFFICES ASSUME NEW i \in DOMAIN M, NEW j \in DOMAIN M, M[i] = M[j] PROVE i = j
      OBVIOUS
    <3>5. CASE i \in 1..Len(N) /\ M[i] = N[i]
      BY <2>10, <3>1, <3>2, <3>3, <3>5
    <3>6. ASSUME NEW k \in 1..Len(made), i = Len(N) + k, M[i] = made[k] PROVE i = j
      BY <2>10, <3>2, <3>3, <3>4, <3>6
    <3> QED BY <2>10, <3>5, <3>6
  <2>15. /\ DOMAIN handlerOf'[m] = H \cup {p} /\ H \cup {p} \subseteq Patterns
    BY <1>1, <1>5 DEF TreeOf
  <2>16. \A c \in E : pattern'[m][c] \in DOMAIN handlerOf'[m] \cup {None}
    <3>1. \A c \in D : pattern[m][c] \in H \cup {None}
      BY <1>1 DEF TreeOf
    <3> QED BY <1>5, <2>6, <2>15, <3>1
  <2> QED BY <2>11, <2>12, <2>13, <2>14, <2>15, <2>16 DEF TreeOf, M, E
<1>8. \A k \in Methods : TreeOf(k)'
  <2>1. ASSUME NEW k \in Methods, k # m PROVE TreeOf(k)'
    <3>1. TreeOf(k)
      BY DEF TreeInv
    <3>2. nodes'[k] = nodes[k] /\ pattern'[k] = pattern[k] /\ handlerOf'[k] = handlerOf[k]
      BY <1>5, <2>1
    <3> QED BY <3>1, <3>2 DEF TreeOf
  <2> QED BY <1>7, <2>1
<1>9. TreeInv'
  BY <1>5, <1>6, <1>8 DEF TreeInv
<1> QED BY <1>5, <1>6, <1>9 DEF n, made

-----------------------------------------------------------------------------
(* A registration takes requests for itself only.                          *)

LEMMA MinOnly ==
    ASSUME NEW S \in SUBSET Nat, NEW g \in S, \A i \in S : g <= i
    PROVE  Min(S) = g
<1>1. Min(S) \in S /\ \A i \in S : Min(S) <= i
  BY MinIs
<1>2. Min(S) <= g /\ g <= Min(S) /\ g \in Nat /\ Min(S) \in Nat
  BY <1>1
<1> HIDE DEF Min
<1> QED BY <1>2

\* A larger tree in which one node has the pattern p instead.
Larger(N, P, M, Q, n, p) ==
    /\ DOMAIN N \subseteq DOMAIN M /\ \A i \in DOMAIN N : M[i] = N[i]
    /\ \A i \in DOMAIN M : M[i] \in DOMAIN P => i \in DOMAIN N
    /\ \A i \in DOMAIN N : Front(N[i]) \in DOMAIN P
    /\ DOMAIN P \subseteq DOMAIN Q
    /\ \A c \in DOMAIN Q : Q[c] = IF c = n THEN p ELSE IF c \in DOMAIN P THEN P[c] ELSE None

LEMMA LargerSearch ==
    ASSUME NEW N, NEW P, NEW M, NEW Q, NEW n, NEW p, p # None,
           Tree(N, P), Tree(M, Q), Larger(N, P, M, Q, n, p), NEW path \in Seq(Part)
    PROVE  \A c \in DOMAIN Q :
             SearchOf(M, Q, path)[c]
               \in {p, IF c \in DOMAIN P THEN SearchOf(N, P, path)[c] ELSE None}
<1> DEFINE F == SearchOf(N, P, path)
           G == SearchOf(M, Q, path)
           D == DOMAIN P
           E == DOMAIN Q
           Old(c) == IF c \in D THEN F[c] ELSE None
           S == {k \in Nat : \A c \in E : Len(c) + k >= Len(path) => G[c] \in {p, Old(c)}}
<1>1. /\ \A c \in D : F[c] = Step(N, P, path, F, c)
      /\ \A c \in E : G[c] = Step(M, Q, path, G, c)
  BY SearchIs
<1> HIDE DEF F, G
<1>2. \A c \in E : c \in Seq(Part) /\ Len(c) \in Nat
  BY DEF Tree
<1>3. D \subseteq E /\ DOMAIN N \subseteq Nat /\ DOMAIN M \subseteq Nat /\ Len(path) \in Nat
  BY LenProperties DEF Tree, Larger
<1>4. ASSUME NEW c \in E, Len(c) >= Len(path) \/ EndsInStar(c) PROVE G[c] \in {p, Old(c)}
  <2>1. G[c] = Q[c] /\ (c \in D => F[c] = P[c])
    BY <1>1, <1>4 DEF Step
  <2> QED BY <2>1 DEF Larger
<1>5. 0 \in S
  BY <1>2, <1>4
<1>6. ASSUME NEW k \in 0..Len(path), k < Len(path), k \in S PROVE k + 1 \in S
  <2> SUFFICES ASSUME NEW c \in E, Len(c) + (k + 1) >= Len(path),
                      ~(Len(c) >= Len(path) \/ EndsInStar(c))
               PROVE  G[c] \in {p, Old(c)}
    BY <1>4
  <2> DEFINE part == path[Len(c) + 1]
             w == {i \in Kids(N, c, part) : F[N[i]] # None}
             v == {i \in Kids(M, c, part) : G[M[i]] # None}
  <2>1. /\ G[c] = IF v = {} THEN None ELSE G[M[Min(v)]]
        /\ c \in D => F[c] = IF w = {} THEN None ELSE F[N[Min(w)]]
    BY <1>1 DEF Step
  <2>2. v \in SUBSET Nat /\ w \in SUBSET Nat
    BY <1>3 DEF Kids
  <2>3. ASSUME NEW i \in Kids(M, c, part) PROVE G[M[i]] \in {p, Old(M[i])}
    <3>1. M[i] \in E /\ M[i] # <<>> /\ Front(M[i]) = c
      BY <2>3 DEF Kids, Tree
    <3>2. Len(M[i]) + k >= Len(path)
      <4>1. Len(c) = Len(M[i]) - 1
        BY <1>2, <3>1, FrontIs
      <4>2. k \in Nat /\ Len(M[i]) \in Nat /\ Len(c) \in Nat /\ Len(path) \in Nat
        BY <1>2, <1>3, <1>6, <3>1
      <4>3. Len(c) + (k + 1) >= Len(path)
        OBVIOUS
      <4> QED BY <4>1, <4>2, <4>3, NextLevel
    <3> QED BY <1>6, <3>1, <3>2
  <2>4. ASSUME NEW i \in w PROVE i \in v /\ M[i] = N[i]
    <3>1. i \in Kids(M, c, part) /\ M[i] = N[i] /\ N[i] \in D /\ F[N[i]] # None
      BY DEF Kids, Larger, Tree
    <3>2. G[M[i]] \in {p, Old(M[i])}
      BY <2>3, <3>1
    <3> QED BY <3>1, <3>2
  <2> HIDE DEF w, v
  <2>5. CASE v = {}
    BY <2>1, <2>4, <2>5
  <2>6. CASE v # {}
    <3> DEFINE g == Min(v)
    <3>1. g \in v /\ \A i \in v : g <= i
      BY <2>2, <2>6, MinIs
    <3>2. G[c] = G[M[g]]
      BY <2>1, <2>6
    <3> HIDE DEF g
    <3>3. g \in Kids(M, c, part) /\ G[M[g]] # None
      BY <3>1 DEF v
    <3>4. ASSUME G[M[g]] # p PROVE c \in D /\ F[c] = G[M[g]]
      <4>1. M[g] \in D /\ F[M[g]] = G[M[g]]
        BY <2>3, <3>3, <3>4
      <4>2. g \in DOMAIN N /\ M[g] = N[g] /\ g \in Kids(N, c, part) /\ c \in D
        BY <3>3, <4>1 DEF Larger, Kids
      <4>3. g \in w
        BY <3>3, <4>1, <4>2 DEF w
      <4>4. Min(w) = g
        BY <2>2, <2>4, <3>1, <4>3, MinOnly
      <4> QED BY <2>1, <4>1, <4>2, <4>3, <4>4
    <3> QED BY <3>2, <3>4
  <2> QED BY <2>5, <2>6
<1>7. Len(path) \in S
  <2> HIDE DEF S
  <2>1. \A k \in 0..Len(path) : k \in S
    BY <1>3, <1>5, <1>6, UpTo
  <2> QED BY <1>3, <2>1
<1>8. \A c \in E : G[c] \in {p, Old(c)}
  BY <1>2, <1>3, <1>7
<1> QED BY <1>8 DEF F, G

\* A search ends with None or with the pattern of a node.
LEMMA SearchFinds ==
    ASSUME NEW N, NEW P, Tree(N, P), NEW path \in Seq(Part)
    PROVE  \A c \in DOMAIN P : SearchOf(N, P, path)[c] \in {P[d] : d \in DOMAIN P} \cup {None}
<1> DEFINE F == SearchOf(N, P, path)
           D == DOMAIN P
           V == {P[d] : d \in D} \cup {None}
           S == {k \in Nat : \A c \in D : Len(c) + k >= Len(path) => F[c] \in V}
<1>1. \A c \in D : F[c] = Step(N, P, path, F, c)
  BY SearchIs
<1> HIDE DEF F
<1>2. \A c \in D : c \in Seq(Part) /\ Len(c) \in Nat
  BY DEF Tree
<1>3. DOMAIN N \subseteq Nat /\ Len(path) \in Nat
  BY LenProperties DEF Tree
<1>4. ASSUME NEW c \in D, Len(c) >= Len(path) \/ EndsInStar(c) PROVE F[c] \in V
  BY <1>1, <1>4 DEF Step
<1>5. 0 \in S
  BY <1>2, <1>4
<1>6. ASSUME NEW k \in 0..Len(path), k < Len(path), k \in S PROVE k + 1 \in S
  <2> SUFFICES ASSUME NEW c \in D, Len(c) + (k + 1) >= Len(path),
                      ~(Len(c) >= Len(path) \/ EndsInStar(c))
               PROVE  F[c] \in V
    BY <1>4
  <2> DEFINE w == {i \in Kids(N, c, path[Len(c) + 1]) : F[N[i]] # None}
  <2>1. F[c] = IF w = {} THEN None ELSE F[N[Min(w)]]
    BY <1>1 DEF Step
  <2>2. w \in SUBSET Nat
    BY <1>3 DEF Kids
  <2>3. ASSUME NEW i \in w PROVE F[N[i]] \in V
    <3>1. N[i] \in D /\ N[i] # <<>> /\ Front(N[i]) = c
      BY <2>3 DEF Kids, Tree
    <3>2. Len(N[i]) + k >= Len(path)
      <4>1. Len(c) = Len(N[i]) - 1
        BY <1>2, <3>1, FrontIs
      <4>2. k \in Nat /\ Len(N[i]) \in Nat /\ Len(c) \in Nat /\ Len(path) \in Nat
        BY <1>2, <1>3, <1>6, <3>1
      <4>3. Len(c) + (k + 1) >= Len(path)
        OBVIOUS
      <4> QED BY <4>1, <4>2, <4>3, NextLevel
    <3> QED BY <1>6, <3>1, <3>2
  <2> HIDE DEF w, V
  <2>4. CASE w = {}
    BY <2>1, <2>4 DEF V
  <2>5. CASE w # {}
    BY <2>1, <2>2, <2>3, <2>5, MinIs
  <2> QED BY <2>4, <2>5
<1>7. Len(path) \in S
  <2> HIDE DEF S
  <2>1. \A k \in 0..Len(path) : k \in S
    BY <1>3, <1>5, <1>6, UpTo
  <2> QED BY <1>3, <2>1
<1>8. \A c \in D : F[c] \in V
  BY <1>2, <1>3, <1>7
<1> QED BY <1>8 DEF F

LEMMA TreeInit == RouterInit => TreeInv
<1> SUFFICES ASSUME RouterInit PROVE TreeInv
  OBVIOUS
<1>1. ASSUME NEW m \in Methods
      PROVE  /\ nodes[m] = <<>> /\ pattern[m] = [n \in {<<>>} |-> None]
             /\ handlerOf[m] = [p \in {} |-> 0]
  BY DEF RouterInit
<1>2. ASSUME NEW m \in Methods PROVE TreeOf(m)
  <2>1. <<>> \in Seq(Seq(Part)) /\ DOMAIN <<>> = {} /\ <<>> \in Seq(Part)
    OBVIOUS
  <2>2. Tree(nodes[m], pattern[m])
    <3>1. /\ nodes[m] \in Seq(Seq(Part)) /\ DOMAIN nodes[m] = {}
          /\ DOMAIN pattern[m] = {<<>>}
      BY <1>1, <2>1
    <3> QED BY <2>1, <3>1 DEF Tree
  <2> QED BY <1>1, <2>1, <2>2 DEF TreeOf
<1>3. /\ nodes = [m \in Methods |-> nodes[m]] /\ pattern = [m \in Methods |-> pattern[m]]
      /\ handlerOf = [m \in Methods |-> handlerOf[m]]
  BY DEF RouterInit
<1>4. routes \in Seq([method : Methods, pattern : Patterns])
  BY DEF RouterInit
<1> QED BY <1>2, <1>3, <1>4 DEF TreeInv

LEMMA TreeStep == TreeInv /\ [RouterNext]_routerVars => TreeInv'
<1> SUFFICES ASSUME TreeInv, [RouterNext]_routerVars PROVE TreeInv'
  OBVIOUS
<1>1. CASE UNCHANGED routerVars
  BY <1>1 DEF routerVars, TreeInv, TreeOf
<1>2. ASSUME NEW m \in Methods, NEW p \in Patterns, AddRoute(m, p) PROVE TreeInv'
  BY <1>2, AddedTree
<1> QED BY <1>1, <1>2 DEF RouterNext

LEMMA TreeAlways == RouterSpec => []TreeInv
BY TreeInit, TreeStep, PTL DEF RouterSpec

LEMMA HandleIs ==
    ASSUME NEW m \in Methods, NEW path
    PROVE  /\ Handle(m, path) = LET p == SearchOf(nodes[m], pattern[m], Parsed(path))[<<>>] IN
                                 IF p = None THEN None ELSE handlerOf[m][p]
           /\ Handle(m, path)' = LET p == SearchOf(nodes'[m], pattern'[m], Parsed(path))[<<>>] IN
                                 IF p = None THEN None ELSE handlerOf'[m][p]
BY FoundIs DEF Handle, Search

LEMMA AddedHandle ==
    ASSUME TreeInv, NEW m \in Methods, NEW p \in Patterns, AddRoute(m, p),
           NEW path \in Paths, NEW k \in Methods
    PROVE  Handle(k, path)' \in {Handle(k, path), Len(routes')}
<1>1. Parsed(path) \in Seq(Part) /\ p # None
  BY PathIs, RouterAssumption
<1>2. CASE k # m
  <2>1. /\ nodes'[k] = nodes[k] /\ pattern'[k] = pattern[k]
        /\ handlerOf'[k] = handlerOf[k]
    <3>1. k \in Methods \ {m}
      BY <1>2
    <3> QED BY <3>1, AddedTree
  <2> DEFINE F == SearchOf(nodes[k], pattern[k], Parsed(path))[<<>>]
             G == SearchOf(nodes'[k], pattern'[k], Parsed(path))[<<>>]
  <2>2. /\ Handle(k, path) = IF F = None THEN None ELSE handlerOf[k][F]
        /\ Handle(k, path)' = IF G = None THEN None ELSE handlerOf'[k][G]
    BY HandleIs
  <2>3. F = G
    BY <2>1
  <2> HIDE DEF F, G
  <2> QED BY <2>1, <2>2, <2>3
<1>3. CASE k = m
  <2> DEFINE N == nodes[m]
             P == pattern[m]
             M == nodes'[m]
             Q == pattern'[m]
             n == Target(m, Parsed(p))
             made == NewNodes(m, n)
             F == SearchOf(N, P, Parsed(path))[<<>>]
             G == SearchOf(M, Q, Parsed(path))[<<>>]
  <2>1. /\ TreeOf(m) /\ TreeOf(m)'
    BY AddedTree DEF TreeInv
  <2>2. Tree(N, P) /\ Tree(M, Q) /\ <<>> \in DOMAIN P /\ <<>> \in DOMAIN Q
    BY <2>1 DEF TreeOf
  <2>3. Larger(N, P, M, Q, n, p)
    <3>1. /\ M = N \o made
          /\ Q = [c \in DOMAIN P \cup Range(made) \cup {n} |->
                    IF c = n THEN p ELSE IF c \in DOMAIN P THEN P[c] ELSE None]
      BY AddedTree
    <3>2. /\ made \in Seq(Seq(Part)) /\ \A i \in 1..Len(made) : made[i] \notin DOMAIN P
      <4>1. n \in Seq(Part)
        BY <2>1, ParsedIs, TargetIs DEF TreeOf
      <4> HIDE DEF n
      <4>2. PICK known \in 0..Len(n) :
              /\ made \in Seq(Seq(Part)) /\ Len(made) = Len(n) - known
              /\ \A i \in 1..Len(n) - known : made[i] \notin DOMAIN P
        BY <2>1, <4>1, NewNodesAre
      <4> QED BY <4>2
    <3> DEFINE T == Seq(Part)
    <3>3. N \in Seq(T) /\ made \in Seq(T) /\ \A i \in DOMAIN N : Front(N[i]) \in DOMAIN P
      BY <2>1, <3>2 DEF TreeOf, Tree
    <3> HIDE DEF T, N, M, P, Q, n, made
    <3>4. /\ DOMAIN M = 1..Len(N) + Len(made) /\ DOMAIN N = 1..Len(N)
          /\ \A i \in 1..Len(N) + Len(made) : M[i] = IF i <= Len(N) THEN N[i] ELSE made[i - Len(N)]
          /\ Len(N) \in Nat /\ Len(made) \in Nat
      BY <3>1, <3>3, ConcatProperties, LenProperties
    <3>5. DOMAIN N \subseteq DOMAIN M /\ \A i \in DOMAIN N : M[i] = N[i]
      BY <3>4
    <3>6. ASSUME NEW i \in DOMAIN M, i \notin DOMAIN N PROVE M[i] \notin DOMAIN P
      <4>1. i - Len(N) \in 1..Len(made) /\ ~(i <= Len(N))
        BY <3>4, <3>6
      <4> QED BY <3>2, <3>4, <4>1
    <3> QED BY <3>1, <3>3, <3>5, <3>6 DEF Larger
  <2>4. G \in {p, F}
    BY <1>1, <2>2, <2>3, LargerSearch
  <2>5. /\ handlerOf'[m] = [q \in DOMAIN handlerOf[m] \cup {p} |->
                                 IF q = p THEN Len(routes) + 1 ELSE handlerOf[m][q]]
        /\ Len(routes') = Len(routes) + 1
    BY AddedTree
  <2>6. F \in DOMAIN handlerOf[m] \cup {None}
    BY <1>1, <2>1, <2>2, SearchFinds DEF TreeOf
  <2>7. /\ Handle(m, path) = IF F = None THEN None ELSE handlerOf[m][F]
        /\ Handle(m, path)' = IF G = None THEN None ELSE handlerOf'[m][G]
    BY HandleIs
  <2> HIDE DEF F, G
  <2> QED BY <1>1, <1>3, <2>4, <2>5, <2>6, <2>7
<1> QED BY <1>2, <1>3

\* A registration takes requests for its own handler; every other request is served as
\* before, by the handler of another route or with status 404.
THEOREM OnlyNewRoute == RouterSpec => OnlyNewRouteTakes
<1>1. TreeInv /\ [RouterNext]_routerVars =>
        [\A m \in Methods, path \in Paths :
           Handle(m, path)' \in {Handle(m, path), Len(routes')}]_routerVars
  BY AddedHandle DEF RouterNext
<1> QED BY <1>1, TreeAlways, PTL DEF RouterSpec, OnlyNewRouteTakes

-----------------------------------------------------------------------------
(* The routes in the tree, as long as none is diverted.                    *)

Below(c, parts) == Len(c) <= Len(parts) /\ c = SubSeq(parts, 1, Len(c))

\* The nodes are those on the ways of the routes, each with the last route that ends in
\* it, and a wildcard is the last of its siblings.
OrderOf(m) ==
    /\ \A c \in DOMAIN pattern[m] : c = <<>> \/ \E k \in RoutesOf(m) : Below(c, PartsOf(k))
    /\ \A k \in RoutesOf(m) : PartsOf(k) \in DOMAIN pattern[m] /\ pattern[m][PartsOf(k)] # None
    /\ \A c \in DOMAIN pattern[m] : pattern[m][c] # None =>
         \E k \in RoutesOf(m) :
           /\ PartsOf(k) = c /\ pattern[m][c] = routes[k].pattern
           /\ handlerOf[m][routes[k].pattern] = k
           /\ \A j \in RoutesOf(m) : PartsOf(j) = c => j <= k
    /\ \A i, j \in DOMAIN nodes[m] :
         i < j /\ Front(nodes[m][i]) = Front(nodes[m][j]) => Last(nodes[m][i]) \in Names

OrderInv == \A m \in Methods : InOrder(m) => OrderOf(m)

LEMMA RouteIs ==
    ASSUME TreeInv, NEW m \in Methods, NEW k \in RoutesOf(m)
    PROVE  /\ k \in 1..Len(routes) /\ routes[k].method = m /\ routes[k].pattern \in Patterns
           /\ PartsOf(k) = Parsed(routes[k].pattern) /\ PartsOf(k) \in Seq(Part)
           /\ Len(PartsOf(k)) \in Nat
           /\ \A i \in 1..Len(PartsOf(k)) : PartsOf(k)[i] \in Stars => i = Len(PartsOf(k))
<1>1. k \in 1..Len(routes) /\ routes[k].method = m
  BY DEF RoutesOf
<1>2. routes[k] \in [method : Methods, pattern : Patterns]
  <2> DEFINE R == [method : Methods, pattern : Patterns]
  <2>1. routes \in Seq(R)
    BY DEF TreeInv
  <2> HIDE DEF R
  <2>2. routes[k] \in R
    BY <1>1, <2>1
  <2> QED BY <2>2 DEF R
<1>3. routes[k].pattern \in Patterns
  BY <1>2
<1> QED BY <1>1, <1>3, ParsedIs, LenProperties DEF PartsOf

\* A node below a route has the route's part as its last, and its parent is below it, too.
LEMMA BelowIs ==
    ASSUME NEW c \in Seq(Part), c # <<>>, NEW parts \in Seq(Part), Below(c, parts)
    PROVE  /\ Len(c) \in 1..Len(parts)
           /\ Last(c) = parts[Len(c)] /\ Front(c) = SubSeq(parts, 1, Len(c) - 1)
           /\ Len(Front(c)) = Len(c) - 1 /\ Below(Front(c), parts)
<1>1. Len(c) \in 1..Len(parts) /\ Len(parts) \in Nat
  BY EmptySeq, LenProperties DEF Below
<1>2. c = SubSeq(parts, 1, Len(c))
  BY DEF Below
<1>3. Last(c) = parts[Len(c)] /\ Front(c) = SubSeq(parts, 1, Len(c) - 1)
  BY <1>1, <1>2, FrontOfPrefix
<1>4. Len(Front(c)) = Len(c) - 1
  BY FrontIs
<1>5. Below(Front(c), parts)
  BY <1>1, <1>3, <1>4 DEF Below
<1> QED BY <1>1, <1>3, <1>4, <1>5

\* Without a diversion the first child that matches has the part itself.
LEMMA ChildInOrder ==
    ASSUME TreeInv, NEW m \in Methods, OrderOf(m), NEW parts \in Seq(Part),
           \A k \in RoutesOf(m) : ~Diverts(PartsOf(k), parts),
           NEW i \in 1..Len(parts)
    PROVE  Child(m, SubSeq(parts, 1, i - 1), parts[i]) = SubSeq(parts, 1, i)
<1> DEFINE n == SubSeq(parts, 1, i - 1)
           d == SubSeq(parts, 1, i)
           c == Child(m, n, parts[i])
           cs == MatchChildren(m, n, parts[i])
<1>1. TreeOf(m) /\ Len(parts) \in Nat /\ parts[i] \in Part /\ i - 1 \in 0..Len(parts)
      /\ i \in 0..Len(parts)
  BY LenProperties DEF TreeInv
<1>2. n \in Seq(Part) /\ Len(n) = i - 1
  BY <1>1, PrefixIs
<1>3. d \in Seq(Part) /\ d # <<>> /\ Front(d) = n /\ Last(d) = parts[i]
  BY <1>1, PrefixIs, FrontOfPrefix
<1> HIDE DEF n, d
<1>4. /\ c \in Seq(Part) /\ c # <<>> /\ Front(c) = n /\ Len(c) = i
      /\ cs # {} => Min(cs) \in cs
  <2>1. /\ c \in Seq(Part) /\ c # <<>> /\ Front(c) = n /\ Len(c) = Len(n) + 1
        /\ cs # {} => Min(cs) \in cs
    BY <1>1, <1>2, ChildIs DEF TreeOf
  <2> QED BY <1>1, <1>2, <2>1
<1>5. Last(c) = parts[i]
  <2>1. CASE cs = {}
    <3>1. c = Append(n, parts[i])
      BY <2>1 DEF Child
    <3>2. Append(n, parts[i])[Len(n) + 1] = parts[i]
      BY <1>1, <1>2, AppendProperties
    <3> QED BY <1>2, <1>4, <3>1, <3>2 DEF Last
  <2>2. CASE cs # {}
    <3>1. c = nodes[m][Min(cs)] /\ Min(cs) \in cs
      BY <1>4, <2>2 DEF Child
    <3>2. c \in DOMAIN pattern[m] /\ Last(c) \in {parts[i]} \cup Wild
      BY <1>1, <3>1 DEF MatchChildren, TreeOf, Tree
    <3>3. PICK k \in RoutesOf(m) : Below(c, PartsOf(k))
      BY <1>4, <3>2 DEF OrderOf
    <3> HIDE DEF c, cs
    <3>4. PartsOf(k) \in Seq(Part)
      BY RouteIs
    <3> DEFINE q == PartsOf(k)
    <3>5. i \in 1..Len(q) /\ Last(c) = q[i] /\ SubSeq(q, 1, i - 1) = n
      <4>1. /\ Len(c) \in 1..Len(q) /\ Last(c) = q[Len(c)]
            /\ Front(c) = SubSeq(q, 1, Len(c) - 1)
        BY <1>4, <3>3, <3>4, BelowIs
      <4> QED BY <1>4, <4>1
    <3>6. ~Diverts(q, parts)
      OBVIOUS
    <3> HIDE DEF q
    <3> QED BY <1>1, <3>2, <3>5, <3>6 DEF Diverts, n
  <2> QED BY <2>1, <2>2
<1> HIDE DEF c
<1>6. c = d
  BY <1>3, <1>4, <1>5, SameNode
<1> QED BY <1>6 DEF c, d, n

LEMMA TargetInOrder ==
    ASSUME TreeInv, NEW m \in Methods, OrderOf(m), NEW parts \in Seq(Part),
           \A k \in RoutesOf(m) : ~Diverts(PartsOf(k), parts)
    PROVE  Target(m, parts) = parts
<1> DEFINE w == Way(m, parts)
           S == {i \in 0..Len(parts) : w[i] = SubSeq(parts, 1, i)}
<1>1. Len(parts) \in Nat
  BY LenProperties
<1>2. w[0] = <<>> /\ \A i \in 1..Len(parts) : w[i] = Child(m, w[i - 1], parts[i])
  BY WayIs
<1> HIDE DEF w
<1>3. 0 \in S
  <2>1. SubSeq(parts, 1, 0) = <<>>
    BY WholePrefix
  <2>2. w[0] = SubSeq(parts, 1, 0)
    BY <1>2, <2>1, Zenon
  <2>3. 0 \in 0..Len(parts)
    BY <1>1
  <2> QED BY <2>2, <2>3
<1>4. ASSUME NEW i \in 0..Len(parts), i < Len(parts), i \in S PROVE i + 1 \in S
  <2>1. i + 1 \in 1..Len(parts) /\ (i + 1) - 1 = i
    BY <1>1, <1>4
  <2>2. w[i + 1] = Child(m, w[i], parts[i + 1]) /\ w[i] = SubSeq(parts, 1, i)
    BY <1>2, <1>4, <2>1
  <2>3. Child(m, SubSeq(parts, 1, (i + 1) - 1), parts[i + 1]) = SubSeq(parts, 1, i + 1)
    BY <2>1, ChildInOrder
  <2>4. w[i + 1] = SubSeq(parts, 1, i + 1)
    BY <2>1, <2>2, <2>3
  <2> QED BY <1>1, <2>1, <2>4
<1> HIDE DEF S
<1>5. \A i \in 0..Len(parts) : i \in S
  BY <1>1, <1>3, <1>4, UpTo
<1>6. Len(parts) \in S
  BY <1>1, <1>5
<1> QED BY <1>6, WholePrefix DEF S, Target, w

\* The nodes after a registration: those of before in their places, and behind them
\* nodes on the way to n that were not there.
GrownTree(N, D, M, n) ==
    /\ DOMAIN N \subseteq DOMAIN M /\ DOMAIN M \subseteq Nat
    /\ \A i \in DOMAIN N : M[i] = N[i]
    /\ \A i \in DOMAIN M \ DOMAIN N :
         /\ M[i] \notin D
         /\ \E l \in 1..Len(n) : M[i] = SubSeq(n, 1, l)
         /\ \A j \in DOMAIN N : j < i

LEMMA AddedNodes ==
    ASSUME NEW m \in Methods, TreeOf(m), NEW n \in Seq(Part),
           NEW M \in Seq(Seq(Part)), M = nodes[m] \o NewNodes(m, n)
    PROVE  /\ GrownTree(nodes[m], DOMAIN pattern[m], M, n)
           /\ \A c \in Range(NewNodes(m, n)) : \E l \in 1..Len(n) : c = SubSeq(n, 1, l)
<1> DEFINE N == nodes[m]
           made == NewNodes(m, n)
           S == Seq(Part)
<1>1. PICK known \in 0..Len(n) :
        /\ made \in Seq(S) /\ Len(made) = Len(n) - known
        /\ \A i \in 1..Len(n) - known :
             made[i] = SubSeq(n, 1, known + i) /\ made[i] \notin DOMAIN pattern[m]
  BY NewNodesAre
<1>2. N \in Seq(S) /\ Len(n) \in Nat
  BY LenProperties DEF TreeOf, Tree
<1> HIDE DEF N, made, S
<1>3. /\ DOMAIN M = 1..Len(N) + Len(made) /\ DOMAIN N = 1..Len(N)
      /\ \A i \in 1..Len(N) + Len(made) : M[i] = IF i <= Len(N) THEN N[i] ELSE made[i - Len(N)]
      /\ Len(N) \in Nat /\ Len(made) \in Nat /\ DOMAIN made = 1..Len(made)
  <2>1. M = N \o made
    BY DEF N, made
  <2>2. /\ N \o made \in Seq(S) /\ Len(N \o made) = Len(N) + Len(made)
        /\ \A i \in 1..Len(N) + Len(made) :
             (N \o made)[i] = IF i <= Len(N) THEN N[i] ELSE made[i - Len(N)]
    BY <1>1, <1>2, ConcatProperties
  <2>3. M \in Seq(S) /\ Len(M) = Len(N) + Len(made)
    BY <2>1, <2>2, Zenon
  <2>4. \A i \in 1..Len(N) + Len(made) : M[i] = IF i <= Len(N) THEN N[i] ELSE made[i - Len(N)]
    BY <2>1, <2>2, Zenon
  <2>5. DOMAIN M = 1..Len(M) /\ DOMAIN N = 1..Len(N) /\ DOMAIN made = 1..Len(made)
        /\ Len(N) \in Nat /\ Len(made) \in Nat
    BY <1>1, <1>2, <2>3, LenProperties
  <2> QED BY <2>3, <2>4, <2>5
<1>4. \A i \in 1..Len(made) : /\ made[i] \notin DOMAIN pattern[m]
                              /\ \E l \in 1..Len(n) : made[i] = SubSeq(n, 1, l)
  <2> SUFFICES ASSUME NEW i \in 1..Len(made)
               PROVE  /\ made[i] \notin DOMAIN pattern[m]
                      /\ \E l \in 1..Len(n) : made[i] = SubSeq(n, 1, l)
    OBVIOUS
  <2>1. i \in 1..Len(n) - known /\ known + i \in 1..Len(n)
    BY <1>1, <1>2
  <2> QED BY <1>1, <2>1
<1>5. ASSUME NEW i \in DOMAIN M \ DOMAIN N
      PROVE  /\ i - Len(N) \in 1..Len(made) /\ M[i] = made[i - Len(N)]
             /\ \A j \in DOMAIN N : j < i
  <2>1. i - Len(N) \in 1..Len(made) /\ ~(i <= Len(N)) /\ i \in 1..Len(N) + Len(made)
    BY <1>3
  <2>2. M[i] = made[i - Len(N)]
    BY <1>3, <2>1
  <2>3. ASSUME NEW j \in 1..Len(N) PROVE j < i
    BY <1>3, <2>1
  <2> QED BY <1>3, <2>1, <2>2, <2>3
<1>6. DOMAIN N \subseteq DOMAIN M /\ DOMAIN M \subseteq Nat /\ \A i \in DOMAIN N : M[i] = N[i]
  <2>1. ASSUME NEW i \in 1..Len(N) PROVE i \in 1..Len(N) + Len(made) /\ i <= Len(N)
    BY <1>3
  <2>2. ASSUME NEW i \in 1..Len(N) PROVE M[i] = N[i]
    BY <1>3, <2>1
  <2>3. DOMAIN M \subseteq Nat
    BY <1>3
  <2> QED BY <1>3, <2>1, <2>2, <2>3
<1>7. \A c \in Range(made) : \E l \in 1..Len(n) : c = SubSeq(n, 1, l)
  BY <1>3, <1>4 DEF Range
<1>8. ASSUME NEW i \in DOMAIN M \ DOMAIN N
      PROVE  /\ M[i] \notin DOMAIN pattern[m]
             /\ \E l \in 1..Len(n) : M[i] = SubSeq(n, 1, l)
             /\ \A j \in DOMAIN N : j < i
  <2> DEFINE k == i - Len(N)
  <2>1. k \in 1..Len(made) /\ M[i] = made[k]
    BY <1>5
  <2> HIDE DEF k
  <2>2. M[i] \notin DOMAIN pattern[m] /\ \E l \in 1..Len(n) : M[i] = SubSeq(n, 1, l)
    BY <1>4, <2>1, Zenon
  <2> QED BY <1>5, <2>2
<1>9. GrownTree(N, DOMAIN pattern[m], M, n)
  BY <1>6, <1>8, Zenon DEF GrownTree
<1> QED BY <1>7, <1>9, Zenon DEF N, made

LEMMA OrderAdded ==
    ASSUME TreeInv, OrderInv, NEW m \in Methods, NEW p \in Patterns, AddRoute(m, p)
    PROVE  OrderInv'
<1> DEFINE n == Parsed(p)
<1>0. PICK K : K = Len(routes) + 1
  OBVIOUS
<1>1. /\ TreeInv' /\ Len(routes') = K /\ Len(routes) \in Nat
      /\ \A i \in 1..Len(routes) : routes'[i] = routes[i]
      /\ routes'[K] = [method |-> m, pattern |-> p]
  BY <1>0, AddedTree
<1>2. ASSUME NEW k \in Methods
      PROVE  /\ RoutesOf(k)' = RoutesOf(k) \cup IF k = m THEN {K} ELSE {}
             /\ \A j \in RoutesOf(k) : PartsOf(j)' = PartsOf(j) /\ routes'[j] = routes[j] /\ j < K
  BY <1>0, <1>1 DEF RoutesOf, PartsOf
<1>3. PartsOf(K)' = n /\ routes'[K].pattern = p
  BY <1>1 DEF PartsOf
<1> HIDE DEF n
<1>4. ASSUME NEW k \in Methods, k # m, InOrder(k)' PROVE OrderOf(k)'
  <2>1. k \in Methods \ {m}
    BY <1>4
  <2>2. nodes'[k] = nodes[k] /\ pattern'[k] = pattern[k] /\ handlerOf'[k] = handlerOf[k]
    BY <2>1, AddedTree
  <2>3. RoutesOf(k)' = RoutesOf(k)
    BY <1>2, <1>4
  <2>4. \A j \in RoutesOf(k) : PartsOf(j)' = PartsOf(j) /\ routes'[j] = routes[j]
    BY <1>2
  <2>5. InOrder(k)
    BY <1>4, <2>3, <2>4 DEF InOrder, Diverts
  <2>6. OrderOf(k)
    BY <2>5 DEF OrderInv
  <2>7. \A c \in DOMAIN pattern'[k] :
          c = <<>> \/ \E j \in RoutesOf(k)' : Below(c, PartsOf(j)')
    BY <2>2, <2>3, <2>4, <2>6 DEF OrderOf
  <2>8. \A j \in RoutesOf(k)' :
          PartsOf(j)' \in DOMAIN pattern'[k] /\ pattern'[k][PartsOf(j)'] # None
    BY <2>2, <2>3, <2>4, <2>6 DEF OrderOf
  <2>9. ASSUME NEW c \in DOMAIN pattern'[k], pattern'[k][c] # None
        PROVE  \E j \in RoutesOf(k)' :
                 /\ PartsOf(j)' = c /\ pattern'[k][c] = routes'[j].pattern
                 /\ handlerOf'[k][routes'[j].pattern] = j
                 /\ \A i \in RoutesOf(k)' : PartsOf(i)' = c => i <= j
    <3>1. PICK j \in RoutesOf(k) :
            /\ PartsOf(j) = c /\ pattern[k][c] = routes[j].pattern
            /\ handlerOf[k][routes[j].pattern] = j
            /\ \A i \in RoutesOf(k) : PartsOf(i) = c => i <= j
      BY <2>2, <2>6, <2>9 DEF OrderOf
    <3> QED BY <2>2, <2>3, <2>4, <3>1
  <2>10. \A i, j \in DOMAIN nodes'[k] :
           i < j /\ Front(nodes'[k][i]) = Front(nodes'[k][j]) => Last(nodes'[k][i]) \in Names
    BY <2>2, <2>6 DEF OrderOf
  <2> QED BY <2>7, <2>8, <2>9, <2>10 DEF OrderOf, Below
<1>5. ASSUME InOrder(m)' PROVE OrderOf(m)'
  <2>1. RoutesOf(m)' = RoutesOf(m) \cup {K}
    BY <1>2
  <2>2. \A j \in RoutesOf(m) : PartsOf(j)' = PartsOf(j) /\ routes'[j] = routes[j] /\ j < K
    BY <1>2
  <2>3. InOrder(m)
    BY <1>5, <2>1, <2>2 DEF InOrder, Diverts
  <2>4. OrderOf(m)
    BY <2>3 DEF OrderInv
  <2>5. \A j \in RoutesOf(m) : ~Diverts(PartsOf(j), n)
    BY <1>3, <1>5, <2>1, <2>2 DEF InOrder, Diverts
  <2>6. n \in Seq(Part) /\ Target(m, n) = n /\ TreeOf(m) /\ TreeOf(m)'
    <3>1. n \in Seq(Part)
      BY ParsedIs DEF n
    <3> QED BY <1>1, <2>4, <2>5, <3>1, TargetInOrder DEF TreeInv
  <2> DEFINE D == DOMAIN pattern[m]
             M == nodes'[m]
             Q == pattern'[m]
             H == handlerOf'[m]
             made == NewNodes(m, n)
  <2>7. /\ M = nodes[m] \o made
        /\ Q = [c \in D \cup Range(made) \cup {n} |->
                  IF c = n THEN p ELSE IF c \in D THEN pattern[m][c] ELSE None]
        /\ H = [q \in DOMAIN handlerOf[m] \cup {p} |-> IF q = p THEN K ELSE handlerOf[m][q]]
    <3>1. Target(m, Parsed(p)) = n
      BY <2>6 DEF n
    <3>2. /\ nodes'[m] = nodes[m] \o NewNodes(m, Target(m, Parsed(p)))
          /\ pattern'[m] =
                [k \in DOMAIN pattern[m] \cup Range(NewNodes(m, Target(m, Parsed(p))))
                         \cup {Target(m, Parsed(p))} |->
                   IF k = Target(m, Parsed(p)) THEN p
                   ELSE IF k \in DOMAIN pattern[m] THEN pattern[m][k] ELSE None]
      BY AddedTree
    <3>3. handlerOf'[m] = [q \in DOMAIN handlerOf[m] \cup {p} |->
                            IF q = p THEN K ELSE handlerOf[m][q]]
      <4>1. handlerOf'[m] = [q \in DOMAIN handlerOf[m] \cup {p} |->
                              IF q = p THEN Len(routes) + 1 ELSE handlerOf[m][q]]
        BY AddedTree
      <4> QED BY <1>0, <4>1
    <3> HIDE DEF made
    <3> QED BY <3>1, <3>2, <3>3 DEF made
  <2>8. /\ GrownTree(nodes[m], D, M, n)
        /\ \A c \in Range(made) : \E l \in 1..Len(n) : c = SubSeq(n, 1, l)
    <3>1. M \in Seq(Seq(Part))
      BY <2>6 DEF TreeOf, Tree
    <3>2. M = nodes[m] \o NewNodes(m, n)
      BY <2>7
    <3>3. TreeOf(m) /\ n \in Seq(Part)
      BY <2>6
    <3> HIDE DEF M
    <3> QED BY <3>1, <3>2, <3>3, AddedNodes
  <2> HIDE DEF M, Q, H, made
  <2>9. ASSUME NEW c \in DOMAIN Q, c # <<>>
        PROVE  \E k \in RoutesOf(m)' : Below(c, PartsOf(k)')
    <3>1. CASE c \in D
      <4>1. PICK k \in RoutesOf(m) : Below(c, PartsOf(k))
        BY <2>4, <2>9, <3>1 DEF OrderOf
      <4> QED BY <2>1, <2>2, <4>1
    <3>2. CASE c = n \/ \E l \in 1..Len(n) : c = SubSeq(n, 1, l)
      <4>1. Len(n) \in Nat /\ SubSeq(n, 1, Len(n)) = n
        BY <2>6, WholePrefix, LenProperties
      <4>2. PICK l \in 0..Len(n) : c = SubSeq(n, 1, l)
        BY <3>2, <4>1
      <4>3. Len(c) = l
        BY <2>6, <4>2, PrefixIs
      <4>4. Below(c, n)
        BY <4>1, <4>2, <4>3 DEF Below
      <4> QED BY <1>3, <2>1, <4>4
    <3>3. c \in D \/ c \in Range(made) \/ c = n
      BY <2>7
    <3> QED BY <2>8, <3>1, <3>2, <3>3
  <2>10. ASSUME NEW k \in RoutesOf(m)' PROVE PartsOf(k)' \in DOMAIN Q /\ Q[PartsOf(k)'] # None
    <3>1. p # None
      BY RouterAssumption
    <3>2. CASE k = K
      BY <1>3, <2>7, <3>1, <3>2
    <3>3. CASE k \in RoutesOf(m)
      <4>1. PartsOf(k)' \in D /\ pattern[m][PartsOf(k)'] # None
        BY <2>2, <2>4, <3>3 DEF OrderOf
      <4> QED BY <2>7, <3>1, <4>1
    <3> QED BY <2>1, <3>2, <3>3
  <2>11. ASSUME NEW c \in DOMAIN Q, Q[c] # None
         PROVE  \E k \in RoutesOf(m)' :
                  /\ PartsOf(k)' = c /\ Q[c] = routes'[k].pattern
                  /\ H[routes'[k].pattern] = k
                  /\ \A j \in RoutesOf(m)' : PartsOf(j)' = c => j <= k
    <3>1. CASE c = n
      <4>1. PartsOf(K)' = c /\ Q[c] = p /\ routes'[K].pattern = p /\ H[p] = K /\ K \in RoutesOf(m)'
        BY <1>3, <2>1, <2>7, <3>1
      <4>2. \A j \in RoutesOf(m)' : j <= K
        <5>1. RoutesOf(m) \subseteq Nat /\ K \in Nat
          BY <1>0, <1>1 DEF RoutesOf
        <5> QED BY <2>1, <2>2, <5>1
      <4> QED BY <4>1, <4>2
    <3>2. CASE c # n
      <4>1. c \in D /\ Q[c] = pattern[m][c] /\ pattern[m][c] # None
        BY <2>7, <2>11, <3>2
      <4>2. PICK k \in RoutesOf(m) :
              /\ PartsOf(k) = c /\ pattern[m][c] = routes[k].pattern
              /\ handlerOf[m][routes[k].pattern] = k
              /\ \A j \in RoutesOf(m) : PartsOf(j) = c => j <= k
        BY <2>4, <4>1 DEF OrderOf
      <4>3. routes[k].pattern # p
        BY <3>2, <4>2 DEF PartsOf, n
      <4>4. H[routes[k].pattern] = k
        <5>1. routes[k].pattern \in DOMAIN handlerOf[m]
          BY <2>6, <4>1, <4>2 DEF TreeOf
        <5> QED BY <2>7, <4>2, <4>3, <5>1
      <4>5. \A j \in RoutesOf(m)' : PartsOf(j)' = c => j <= k
        BY <1>3, <2>1, <2>2, <3>2, <4>2
      <4>6. k \in RoutesOf(m)' /\ PartsOf(k)' = c /\ routes'[k] = routes[k]
        BY <2>1, <2>2, <4>2
      <4> QED BY <4>1, <4>2, <4>4, <4>5, <4>6
    <3> QED BY <3>1, <3>2
  <2>12. ASSUME NEW i \in DOMAIN M, NEW j \in DOMAIN M, i < j, Front(M[i]) = Front(M[j])
         PROVE  Last(M[i]) \in Names
    <3>1. /\ M[i] \in Seq(Part) /\ M[i] # <<>> /\ M[j] \in Seq(Part) /\ M[j] # <<>>
          /\ M[i] = M[j] => i = j
          /\ i \in Nat /\ j \in Nat
      BY <2>6, <2>8 DEF TreeOf, Tree, M, GrownTree
    <3>2. CASE j \in DOMAIN nodes[m]
      <4>1. i \in DOMAIN nodes[m]
        BY <2>8, <2>12, <3>1, <3>2 DEF GrownTree
      <4> QED BY <2>4, <2>8, <2>12, <3>2, <4>1 DEF OrderOf, GrownTree
    <3>3. CASE j \notin DOMAIN nodes[m]
      <4>1. PICK l \in 1..Len(n) : M[j] = SubSeq(n, 1, l) /\ M[j] \notin D
        BY <2>8, <3>3 DEF GrownTree
      <4>2. Front(M[j]) = SubSeq(n, 1, l - 1) /\ Last(M[j]) = n[l] /\ Len(M[j]) = l
            /\ l \in Nat
        BY <2>6, <4>1, FrontOfPrefix, PrefixIs, LenProperties
      <4>3. Len(M[i]) = l
        BY <2>12, <3>1, <4>2, FrontIs
      <4>4. CASE i \in DOMAIN nodes[m]
        <5>1. M[i] \in D
          BY <2>6, <2>8, <4>4 DEF TreeOf, Tree, GrownTree
        <5>2. PICK k \in RoutesOf(m) : Below(M[i], PartsOf(k))
          BY <2>4, <3>1, <5>1 DEF OrderOf
        <5>3. PartsOf(k) \in Seq(Part)
          BY RouteIs
        <5>4. /\ l \in 1..Len(PartsOf(k)) /\ Last(M[i]) = PartsOf(k)[l]
              /\ SubSeq(PartsOf(k), 1, l - 1) = SubSeq(n, 1, l - 1)
          BY <2>12, <3>1, <4>2, <4>3, <5>2, <5>3, BelowIs
        <5>5. Last(M[i]) # Last(M[j])
          BY <2>12, <3>1, <4>1, <5>1, SameNode
        <5>6. Last(M[i]) \notin Wild
          BY <2>5, <4>2, <5>4, <5>5 DEF Diverts
        <5>7. Last(M[i]) \in Part
          BY <3>1, FrontIs
        <5> QED BY <5>6, <5>7 DEF Part
      <4>5. CASE i \notin DOMAIN nodes[m]
        <5>1. PICK h \in 1..Len(n) : M[i] = SubSeq(n, 1, h)
          BY <2>8, <4>5 DEF GrownTree
        <5>2. Len(M[i]) = h
          BY <2>6, <5>1, PrefixIs, LenProperties
        <5>3. M[i] = M[j]
          BY <4>1, <4>3, <5>1, <5>2
        <5> QED BY <2>12, <3>1, <5>3
      <4> QED BY <4>4, <4>5
    <3> QED BY <3>2, <3>3
  <2> QED BY <2>9, <2>10, <2>11, <2>12 DEF OrderOf, Below, M, Q, H
<1> QED BY <1>4, <1>5 DEF OrderInv

LEMMA OrderInit == RouterInit => OrderInv
<1> SUFFICES ASSUME RouterInit, NEW m \in Methods PROVE OrderOf(m)
  BY DEF OrderInv
<1>1. RoutesOf(m) = {}
  BY DEF RouterInit, RoutesOf
<1>2. nodes[m] = <<>> /\ pattern[m] = [n \in {<<>>} |-> None]
  BY DEF RouterInit
<1>3. DOMAIN nodes[m] = {} /\ DOMAIN pattern[m] = {<<>>} /\ \A c \in {<<>>} : pattern[m][c] = None
  BY <1>2
<1> QED BY <1>1, <1>3 DEF OrderOf

LEMMA OrderStep == TreeInv /\ OrderInv /\ [RouterNext]_routerVars => OrderInv'
<1> SUFFICES ASSUME TreeInv, OrderInv, [RouterNext]_routerVars PROVE OrderInv'
  OBVIOUS
<1>1. CASE UNCHANGED routerVars
  BY <1>1 DEF routerVars, OrderInv, OrderOf, InOrder, RoutesOf, PartsOf
<1>2. ASSUME NEW m \in Methods, NEW p \in Patterns, AddRoute(m, p) PROVE OrderInv'
  BY <1>2, OrderAdded
<1> QED BY <1>1, <1>2 DEF RouterNext

LEMMA OrderAlways == RouterSpec => [](TreeInv /\ OrderInv)
BY TreeInit, OrderInit, TreeStep, OrderStep, PTL DEF RouterSpec

-----------------------------------------------------------------------------
(* A request.                                                              *)

\* A node that search reaches on its way along the path.
OnPath(c, path) ==
    /\ Len(c) <= Len(path)
    /\ \A i \in 1..Len(c) : c[i] \in {path[i]} \cup Wild

\* The routes below a node that a path is meant for.
Fit(m, c, path) == {k \in RoutesOf(m) : Matches(PartsOf(k), path) /\ Below(c, PartsOf(k))}

\* k is one of the best of them.
BestOf(m, c, path, k) ==
    \A j \in Fit(m, c, path) : PartsOf(j) = PartsOf(k) \/ MoreSpecific(PartsOf(k), PartsOf(j))

\* What search finds below a node: None if no route fits, or else the best that does.
FindsBest(m, c, path, found) ==
    IF found = None
    THEN Fit(m, c, path) = {}
    ELSE \E k \in Fit(m, c, path) : pattern[m][PartsOf(k)] = found /\ BestOf(m, c, path, k)

LEMMA MatchesIs ==
    ASSUME NEW parts \in Seq(Part), NEW path \in Seq(Part), Matches(parts, path)
    PROVE  /\ Len(parts) <= Len(path)
           /\ \A i \in 1..Len(parts) : parts[i] \in {path[i]} \cup Wild
           /\ EndsInStar(parts) \/ Len(parts) = Len(path)
<1>1. Len(parts) \in Nat /\ Len(path) \in Nat
  BY LenProperties
<1>2. CASE /\ parts # <<>> /\ Last(parts) \in Stars /\ Len(parts) <= Len(path)
           /\ \A i \in 1..Len(parts) - 1 : parts[i] \in {path[i]} \cup Params
  <2>1. parts[Len(parts)] \in Stars
    BY <1>2 DEF Last
  <2>2. \A i \in 1..Len(parts) : i = Len(parts) \/ i \in 1..Len(parts) - 1
    BY <1>1
  <2> QED BY <1>2, <2>1, <2>2 DEF EndsInStar, Wild
<1>3. CASE /\ Len(parts) = Len(path)
           /\ \A i \in 1..Len(parts) : parts[i] \in {path[i]} \cup Params
  BY <1>1, <1>3 DEF Wild
<1> QED BY <1>2, <1>3 DEF Matches

\* A path of its own length or a star at its end makes a route on the path match.
LEMMA OnPathMatches ==
    ASSUME NEW c \in Seq(Part), NEW path \in Seq(Part), OnPath(c, path),
           Len(c) >= Len(path) \/ EndsInStar(c),
           \A i \in 1..Len(c) : c[i] \in Stars => i = Len(c)
    PROVE  Matches(c, path)
<1>1. Len(c) \in Nat /\ Len(path) \in Nat /\ Len(c) <= Len(path)
  BY LenProperties DEF OnPath
<1>2. ASSUME NEW i \in 1..Len(c), c[i] \notin Stars PROVE c[i] \in {path[i]} \cup Params
  BY <1>2 DEF OnPath, Wild
<1>3. CASE EndsInStar(c)
  <2>1. \A i \in 1..Len(c) - 1 : i \in 1..Len(c) /\ i # Len(c)
    BY <1>1
  <2> QED BY <1>1, <1>2, <1>3, <2>1 DEF Matches, EndsInStar
<1>4. CASE ~EndsInStar(c)
  <2>1. ASSUME NEW i \in 1..Len(c), c[i] \in Stars PROVE FALSE
    <3>1. i = Len(c) /\ c # <<>>
      BY <1>1, <2>1
    <3> QED BY <1>4, <2>1, <3>1 DEF EndsInStar, Last
  <2>2. Len(c) = Len(path)
    BY <1>1, <1>4
  <2> QED BY <1>2, <2>1, <2>2 DEF Matches
<1> QED BY <1>3, <1>4

\* Where search stops only the route that ends there can fit.
LEMMA LeafFits ==
    ASSUME TreeInv, NEW m \in Methods, NEW c \in Seq(Part), NEW path \in Seq(Part),
           Len(c) >= Len(path) \/ EndsInStar(c), NEW k \in Fit(m, c, path)
    PROVE  PartsOf(k) = c
<1> DEFINE q == PartsOf(k)
<1>1. k \in RoutesOf(m) /\ Matches(q, path) /\ Below(c, q)
  BY DEF Fit
<1>2. q \in Seq(Part) /\ \A i \in 1..Len(q) : q[i] \in Stars => i = Len(q)
  BY <1>1, RouteIs
<1> HIDE DEF q
<1>3. Len(q) <= Len(path) /\ Len(q) \in Nat /\ Len(path) \in Nat /\ Len(c) \in Nat /\ Len(c) <= Len(q)
  BY <1>1, <1>2, MatchesIs, LenProperties DEF Below
<1>4. CASE EndsInStar(c)
  <2>1. c # <<>> /\ Last(c) \in Stars
    BY <1>4 DEF EndsInStar
  <2>2. Len(c) \in 1..Len(q) /\ Last(c) = q[Len(c)]
    BY <1>1, <1>2, <2>1, BelowIs
  <2>3. Len(c) = Len(q)
    BY <1>2, <2>1, <2>2
  <2> QED BY <1>1, <1>2, <2>3, WholePrefix DEF Below, q
<1>5. CASE Len(c) >= Len(path)
  <2>1. Len(c) = Len(q)
    BY <1>3, <1>5
  <2> QED BY <1>1, <1>2, <2>1, WholePrefix DEF Below, q
<1> QED BY <1>4, <1>5

LEMMA LeafBest ==
    ASSUME TreeInv, NEW m \in Methods, OrderOf(m), NEW c \in DOMAIN pattern[m],
           NEW path \in Seq(Part), OnPath(c, path), Len(c) >= Len(path) \/ EndsInStar(c)
    PROVE  FindsBest(m, c, path, pattern[m][c])
<1>1. c \in Seq(Part)
  BY DEF TreeInv, TreeOf, Tree
<1>2. \A k \in Fit(m, c, path) : PartsOf(k) = c
  BY <1>1, LeafFits
<1>3. CASE pattern[m][c] = None
  <2>1. ASSUME NEW k \in Fit(m, c, path) PROVE FALSE
    <3>1. k \in RoutesOf(m) /\ PartsOf(k) = c
      BY <1>2 DEF Fit
    <3> QED BY <1>3, <3>1 DEF OrderOf
  <2> QED BY <1>3, <2>1 DEF FindsBest
<1>4. CASE pattern[m][c] # None
  <2>1. PICK k \in RoutesOf(m) : PartsOf(k) = c
    BY <1>4 DEF OrderOf
  <2>2. \A i \in 1..Len(c) : c[i] \in Stars => i = Len(c)
    BY <2>1, RouteIs
  <2>3. Matches(c, path)
    BY <1>1, <2>2, OnPathMatches
  <2>4. Below(c, c)
    BY <1>1, WholePrefix, LenProperties DEF Below
  <2>5. k \in Fit(m, c, path)
    BY <2>1, <2>3, <2>4 DEF Fit
  <2>6. BestOf(m, c, path, k)
    BY <1>2, <2>1 DEF BestOf
  <2> QED BY <1>4, <2>1, <2>5, <2>6 DEF FindsBest
<1> QED BY <1>3, <1>4

\* Where search goes on every route that fits is below a child that it looks at.
LEMMA FitsBelowChild ==
    ASSUME TreeInv, NEW m \in Methods, OrderOf(m), NEW c \in Seq(Part), NEW path \in Seq(Part),
           ~(Len(c) >= Len(path) \/ EndsInStar(c)), NEW k \in Fit(m, c, path)
    PROVE  \E i \in Kids(nodes[m], c, path[Len(c) + 1]) : k \in Fit(m, nodes[m][i], path)
<1> DEFINE q == PartsOf(k)
           l == Len(c) + 1
           d == SubSeq(q, 1, l)
<1>1. k \in RoutesOf(m) /\ Matches(q, path) /\ Below(c, q)
  BY DEF Fit
<1>2. q \in Seq(Part) /\ q \in DOMAIN pattern[m] /\ TreeOf(m)
  BY <1>1, RouteIs DEF OrderOf, TreeInv
<1> HIDE DEF q
<1>3. /\ Len(q) \in Nat /\ Len(path) \in Nat /\ Len(c) \in Nat /\ Len(c) <= Len(q)
      /\ \A i \in 1..Len(q) : q[i] \in {path[i]} \cup Wild
      /\ EndsInStar(q) \/ Len(q) = Len(path)
  BY <1>1, <1>2, MatchesIs, LenProperties DEF Below
<1>4. Len(c) < Len(q)
  <2>1. SUFFICES ASSUME Len(c) = Len(q) PROVE FALSE
    BY <1>3
  <2>2. c = q
    BY <1>1, <1>2, <2>1, WholePrefix DEF Below
  <2> QED BY <1>3, <2>2
<1>5. l \in 1..Len(q) /\ l \in 0..Len(q) /\ l - 1 = Len(c)
  BY <1>3, <1>4
<1>6. /\ d \in Seq(Part) /\ Len(d) = l /\ d # <<>>
      /\ Front(d) = c /\ Last(d) = q[l]
  <2>1. Front(d) = SubSeq(q, 1, l - 1) /\ Last(d) = q[l] /\ d # <<>>
    BY <1>2, <1>5, FrontOfPrefix
  <2>2. c = SubSeq(q, 1, Len(c))
    BY <1>1 DEF Below
  <2>3. d \in Seq(Part) /\ Len(d) = l
    BY <1>2, <1>5, PrefixIs
  <2> HIDE DEF d
  <2> QED BY <1>5, <2>1, <2>2, <2>3
<1>7. d \in DOMAIN pattern[m]
  <2>1. Len(q) \in 0..Len(q) /\ SubSeq(q, 1, Len(q)) \in DOMAIN pattern[m]
    <3>1. SubSeq(q, 1, Len(q)) = q
      BY <1>2, WholePrefix
    <3>2. SubSeq(q, 1, Len(q)) \in DOMAIN pattern[m]
      BY <1>2, <3>1, Zenon
    <3> QED BY <1>3, <3>2
  <2> QED BY <1>2, <1>5, <2>1, TreeClosed
<1>8. Below(d, q)
  BY <1>3, <1>4, <1>6 DEF Below
<1> HIDE DEF d
<1>9. PICK i \in DOMAIN nodes[m] : nodes[m][i] = d
  BY <1>2, <1>6, <1>7 DEF TreeOf
<1>10. i \in Kids(nodes[m], c, path[l])
  BY <1>3, <1>5, <1>6, <1>9 DEF Kids
<1>11. k \in Fit(m, nodes[m][i], path)
  BY <1>1, <1>8, <1>9 DEF Fit, q
<1> QED BY <1>10, <1>11

LEMMA ChildOnPath ==
    ASSUME TreeInv, NEW m \in Methods, NEW c \in Seq(Part), NEW path \in Seq(Part),
           OnPath(c, path), ~(Len(c) >= Len(path)),
           NEW i \in Kids(nodes[m], c, path[Len(c) + 1])
    PROVE  /\ nodes[m][i] \in DOMAIN pattern[m] /\ nodes[m][i] \in Seq(Part) /\ nodes[m][i] # <<>>
           /\ Len(nodes[m][i]) = Len(c) + 1 /\ Front(nodes[m][i]) = c
           /\ Last(nodes[m][i]) \in {path[Len(c) + 1]} \cup Wild
           /\ OnPath(nodes[m][i], path)
           /\ Fit(m, nodes[m][i], path) \subseteq Fit(m, c, path)
<1> DEFINE d == nodes[m][i]
<1>1. /\ d \in DOMAIN pattern[m] /\ d \in Seq(Part) /\ d # <<>>
      /\ Front(d) = c /\ Last(d) \in {path[Len(c) + 1]} \cup Wild
  BY DEF Kids, TreeInv, TreeOf, Tree
<1> HIDE DEF d
<1>2. Len(d) = Len(c) + 1 /\ Len(c) \in Nat /\ Len(path) \in Nat
  BY <1>1, FrontIs, LenProperties
<1>3. OnPath(d, path)
  <2>1. ASSUME NEW j \in 1..Len(d) PROVE d[j] \in {path[j]} \cup Wild
    <3>1. CASE j = Len(d)
      BY <1>1, <1>2, <3>1 DEF Last
    <3>2. CASE j # Len(d)
      <4>1. j \in 1..Len(c) /\ j \in 1..Len(d) - 1
        BY <1>2, <3>2
      <4>2. c[j] = d[j]
        BY <1>1, <4>1, FrontIs
      <4> QED BY <4>1, <4>2 DEF OnPath
    <3> QED BY <3>1, <3>2
  <2> QED BY <1>2, <2>1 DEF OnPath
<1>4. ASSUME NEW k \in Fit(m, d, path) PROVE k \in Fit(m, c, path)
  <2>1. k \in RoutesOf(m) /\ Matches(PartsOf(k), path) /\ Below(d, PartsOf(k))
    BY <1>4 DEF Fit
  <2>2. PartsOf(k) \in Seq(Part)
    BY <2>1, RouteIs
  <2>3. Below(c, PartsOf(k))
    BY <1>1, <2>1, <2>2, BelowIs
  <2> QED BY <2>1, <2>3 DEF Fit
<1> QED BY <1>1, <1>2, <1>3, <1>4 DEF d

\* Where it goes on, search finds the best: the child with the name of the path comes
\* before the one with a wildcard, and one that leads nowhere has no route that fits.
LEMMA InnerBest ==
    ASSUME TreeInv, NEW m \in Methods, OrderOf(m), NEW c \in Seq(Part), NEW path \in Seq(Part),
           OnPath(c, path), ~(Len(c) >= Len(path) \/ EndsInStar(c)), NEW F,
           \A i \in Kids(nodes[m], c, path[Len(c) + 1]) :
             FindsBest(m, nodes[m][i], path, F[nodes[m][i]])
    PROVE  FindsBest(m, c, path, Step(nodes[m], pattern[m], path, F, c))
<1> DEFINE N == nodes[m]
           l == Len(c) + 1
           K == Kids(N, c, path[l])
           w == {i \in K : F[N[i]] # None}
           found == Step(N, pattern[m], path, F, c)
<1>1. found = IF w = {} THEN None ELSE F[N[Min(w)]]
  BY DEF Step
<1>2. \A i \in K : /\ N[i] \in Seq(Part) /\ N[i] # <<>> /\ Len(N[i]) = l /\ Front(N[i]) = c
                   /\ Last(N[i]) \in {path[l]} \cup Wild
                   /\ Fit(m, N[i], path) \subseteq Fit(m, c, path)
  BY ChildOnPath
<1>3. \A k \in Fit(m, c, path) : \E i \in K : k \in Fit(m, N[i], path)
  BY FitsBelowChild
<1>4. w \in SUBSET Nat /\ K \subseteq DOMAIN N /\ N \in Seq(Seq(Part))
  BY DEF TreeInv, TreeOf, Tree, Kids
<1>5. \A i \in K : FindsBest(m, N[i], path, F[N[i]])
  OBVIOUS
<1> HIDE DEF K, found, w, N, l
<1>7. \A i \in K \ w : Fit(m, N[i], path) = {}
  BY <1>5 DEF w, FindsBest
<1>8. CASE w = {}
  <2>1. Fit(m, c, path) = {}
    BY <1>3, <1>7, <1>8
  <2> QED BY <1>1, <1>8, <2>1 DEF FindsBest, found, N
<1>9. CASE w # {}
  <2> DEFINE g == Min(w)
  <2>1. g \in w /\ \A i \in w : g <= i
    BY <1>4, <1>9, MinIs
  <2>2. found = F[N[g]]
    BY <1>1, <1>9
  <2> HIDE DEF g
  <2>3. g \in K /\ F[N[g]] # None
    BY <2>1 DEF w
  <2>4. PICK k \in Fit(m, N[g], path) :
          pattern[m][PartsOf(k)] = F[N[g]] /\ BestOf(m, N[g], path, k)
    BY <1>5, <2>3 DEF FindsBest
  <2>5. k \in Fit(m, c, path)
    BY <1>2, <2>3, <2>4
  <2>6. ASSUME NEW j \in Fit(m, c, path)
        PROVE  PartsOf(j) = PartsOf(k) \/ MoreSpecific(PartsOf(k), PartsOf(j))
    <3>1. PICK i \in w : j \in Fit(m, N[i], path)
      BY <1>3, <1>7, <2>6
    <3>2. CASE i = g
      BY <2>4, <3>1, <3>2 DEF BestOf
    <3>3. CASE i # g
      <4>1. g < i /\ i \in K /\ g \in DOMAIN N /\ i \in DOMAIN N
        BY <1>4, <2>1, <2>3, <3>1, <3>3 DEF w
      <4>2. Front(N[g]) = c /\ Front(N[i]) = c
        BY <1>2, <2>3, <4>1
      <4>3. Last(N[g]) \in Names
        BY <4>1, <4>2 DEF OrderOf, N
      <4>4. Last(N[g]) # Last(N[i])
        <5>1. N[g] # N[i]
          BY <3>3, <4>1 DEF TreeInv, TreeOf, N
        <5> QED BY <1>2, <2>3, <4>1, <4>2, <5>1, SameNode
      <4>5. Last(N[g]) = path[l] /\ Last(N[i]) \in Wild
        BY <1>2, <2>3, <4>1, <4>3, <4>4, RouterAssumption
      <4> DEFINE a == PartsOf(k)
                 b == PartsOf(j)
      <4>6. /\ a \in Seq(Part) /\ b \in Seq(Part)
            /\ Below(N[g], a) /\ Below(N[i], b)
        BY <2>4, <3>1, RouteIs DEF Fit
      <4> HIDE DEF a, b
      <4>7. /\ l \in 1..Len(a) /\ Last(N[g]) = a[l] /\ c = SubSeq(a, 1, l - 1)
            /\ l \in 1..Len(b) /\ Last(N[i]) = b[l] /\ c = SubSeq(b, 1, l - 1)
        <5>1. /\ Len(N[g]) \in 1..Len(a) /\ Last(N[g]) = a[Len(N[g])]
              /\ Front(N[g]) = SubSeq(a, 1, Len(N[g]) - 1)
          BY <1>2, <2>3, <4>6, BelowIs
        <5>2. /\ Len(N[i]) \in 1..Len(b) /\ Last(N[i]) = b[Len(N[i])]
              /\ Front(N[i]) = SubSeq(b, 1, Len(N[i]) - 1)
          BY <1>2, <4>1, <4>6, BelowIs
        <5>3. Len(N[g]) = l /\ Len(N[i]) = l
          BY <1>2, <2>3, <4>1
        <5> HIDE DEF g
        <5> QED BY <4>2, <5>1, <5>2, <5>3
      <4>8. MoreSpecific(a, b)
        <5>1. /\ l \in 1..Len(a) /\ l <= Len(b) /\ SubSeq(a, 1, l - 1) = SubSeq(b, 1, l - 1)
              /\ a[l] \in Names /\ b[l] \in Wild
          BY <4>3, <4>5, <4>7
        <5> QED BY <5>1 DEF MoreSpecific
      <4> QED BY <4>8 DEF a, b
    <3> QED BY <3>2, <3>3
  <2>7. BestOf(m, c, path, k)
    BY <2>6 DEF BestOf
  <2> QED BY <2>2, <2>3, <2>4, <2>5, <2>7 DEF FindsBest, found, N
<1> QED BY <1>8, <1>9

LEMMA SearchBest ==
    ASSUME TreeInv, NEW m \in Methods, OrderOf(m), NEW path \in Seq(Part)
    PROVE  FindsBest(m, <<>>, path, Found(m, path)[<<>>])
<1> DEFINE N == nodes[m]
           P == pattern[m]
           D == DOMAIN P
           F == SearchOf(N, P, path)
           S == {k \in Nat : \A c \in D : OnPath(c, path) /\ Len(c) + k >= Len(path)
                                         => FindsBest(m, c, path, F[c])}
<1>1. Tree(N, P) /\ <<>> \in D
  BY DEF TreeInv, TreeOf
<1>2. \A c \in D : c \in Seq(Part) /\ Len(c) \in Nat
  BY <1>1 DEF Tree
<1>3. \A c \in D : F[c] = Step(N, P, path, F, c)
  BY <1>1, SearchIs
<1>4. Len(path) \in Nat
  BY LenProperties
<1> HIDE DEF F
<1>5. ASSUME NEW c \in D, OnPath(c, path), Len(c) >= Len(path) \/ EndsInStar(c)
      PROVE  FindsBest(m, c, path, F[c])
  <2>1. F[c] = P[c]
    BY <1>3, <1>5 DEF Step
  <2> QED BY <1>5, <2>1, LeafBest
<1>6. 0 \in S
  BY <1>2, <1>4, <1>5
<1>7. ASSUME NEW k \in 0..Len(path), k < Len(path), k \in S PROVE k + 1 \in S
  <2> SUFFICES ASSUME NEW c \in D, OnPath(c, path), Len(c) + (k + 1) >= Len(path),
                      ~(Len(c) >= Len(path) \/ EndsInStar(c))
               PROVE  FindsBest(m, c, path, F[c])
    BY <1>4, <1>5
  <2>1. ASSUME NEW i \in Kids(N, c, path[Len(c) + 1]) PROVE FindsBest(m, N[i], path, F[N[i]])
    <3>1. N[i] \in D /\ OnPath(N[i], path) /\ Len(N[i]) = Len(c) + 1
      BY <1>2, <2>1, ChildOnPath
    <3>2. Len(c) = Len(N[i]) - 1 /\ k \in Nat /\ Len(N[i]) \in Nat /\ Len(c) \in Nat
      BY <1>2, <1>4, <1>7, <3>1
    <3>3. Len(c) + (k + 1) >= Len(path)
      OBVIOUS
    <3>4. Len(N[i]) + k >= Len(path)
      BY <1>4, <3>2, <3>3, NextLevel
    <3> QED BY <1>7, <3>1, <3>4
  <2>2. FindsBest(m, c, path, Step(N, P, path, F, c))
    BY <1>2, <2>1, InnerBest
  <2> QED BY <1>3, <2>2
<1>8. Len(path) \in S
  <2> HIDE DEF S
  <2>1. \A k \in 0..Len(path) : k \in S
    BY <1>4, <1>6, <1>7, UpTo
  <2> QED BY <1>4, <2>1
<1>9. OnPath(<<>>, path) /\ Len(<<>>) + Len(path) >= Len(path)
  BY <1>4 DEF OnPath
<1>10. FindsBest(m, <<>>, path, F[<<>>])
  BY <1>1, <1>8, <1>9
<1>11. Found(m, path)[<<>>] = F[<<>>]
  BY FoundIs DEF F
<1> QED BY <1>10, <1>11

LEMMA NotBothWays ==
    ASSUME NEW a \in Seq(Part), NEW b \in Seq(Part), MoreSpecific(a, b), MoreSpecific(b, a)
    PROVE  FALSE
<1>1. Len(a) \in Nat /\ Len(b) \in Nat
  BY LenProperties
<1>2. PICK i \in 1..Len(a) : /\ i <= Len(b) /\ SubSeq(a, 1, i - 1) = SubSeq(b, 1, i - 1)
                            /\ a[i] \in Names /\ b[i] \in Wild
  BY DEF MoreSpecific
<1>3. PICK j \in 1..Len(b) : /\ j <= Len(a) /\ SubSeq(b, 1, j - 1) = SubSeq(a, 1, j - 1)
                            /\ b[j] \in Names /\ a[j] \in Wild
  BY DEF MoreSpecific
<1>4. CASE i < j
  <2>1. i \in 1..j - 1 /\ j - 1 \in 0..Len(a) /\ j - 1 \in 0..Len(b)
    BY <1>1, <1>2, <1>3, <1>4
  <2>2. SubSeq(a, 1, j - 1)[i] = a[i] /\ SubSeq(b, 1, j - 1)[i] = b[i]
    BY <2>1, PrefixIs
  <2> QED BY <1>2, <1>3, <2>2, RouterAssumption
<1>5. CASE j < i
  <2>1. j \in 1..i - 1 /\ i - 1 \in 0..Len(a) /\ i - 1 \in 0..Len(b)
    BY <1>1, <1>2, <1>3, <1>5
  <2>2. SubSeq(a, 1, i - 1)[j] = a[j] /\ SubSeq(b, 1, i - 1)[j] = b[j]
    BY <2>1, PrefixIs
  <2> QED BY <1>2, <1>3, <2>2, RouterAssumption
<1>6. CASE i = j
  BY <1>2, <1>3, <1>6, RouterAssumption
<1> QED BY <1>1, <1>4, <1>5, <1>6

\* The route that is found has the pattern of its node and its handler.
LEMMA FoundRoute ==
    ASSUME TreeInv, NEW m \in Methods, OrderOf(m), NEW path \in Paths, Search(m, path) # None
    PROVE  \E k \in Fit(m, <<>>, Parsed(path)) :
             /\ BestOf(m, <<>>, Parsed(path), k)
             /\ Search(m, path) = routes[k].pattern
             /\ handlerOf[m][routes[k].pattern] = k
             /\ \A j \in RoutesOf(m) : PartsOf(j) = PartsOf(k) => j <= k
<1> DEFINE cut == Parsed(path)
<1>1. cut \in Seq(Part) /\ Search(m, path) = Found(m, cut)[<<>>]
  BY PathIs DEF Search
<1> HIDE DEF cut
<1>2. PICK h \in Fit(m, <<>>, cut) :
        pattern[m][PartsOf(h)] = Search(m, path) /\ BestOf(m, <<>>, cut, h)
  BY <1>1, SearchBest DEF FindsBest
<1>3. h \in RoutesOf(m) /\ Matches(PartsOf(h), cut) /\ Below(<<>>, PartsOf(h))
  BY DEF Fit
<1>4. PICK k \in RoutesOf(m) :
        /\ PartsOf(k) = PartsOf(h) /\ pattern[m][PartsOf(h)] = routes[k].pattern
        /\ handlerOf[m][routes[k].pattern] = k
        /\ \A j \in RoutesOf(m) : PartsOf(j) = PartsOf(h) => j <= k
  BY <1>2, <1>3 DEF OrderOf
<1>5. k \in Fit(m, <<>>, cut) /\ BestOf(m, <<>>, cut, k)
  BY <1>2, <1>3, <1>4 DEF Fit, BestOf
<1> QED BY <1>2, <1>4, <1>5 DEF cut

LEMMA HandleExpected ==
    ASSUME TreeInv, NEW m \in Methods, OrderOf(m), NEW path \in Paths
    PROVE  Handle(m, path) = Expected(m, Parsed(path))
<1> DEFINE cut == Parsed(path)
           fit == {k \in RoutesOf(m) : Matches(PartsOf(k), cut)}
           best == {k \in fit : \A j \in fit : PartsOf(j) = PartsOf(k)
                                              \/ MoreSpecific(PartsOf(k), PartsOf(j))}
<1>1. cut \in Seq(Part) /\ Search(m, path) = Found(m, cut)[<<>>]
  BY PathIs DEF Search
<1>2. fit = Fit(m, <<>>, cut)
  <2>1. ASSUME NEW k \in RoutesOf(m) PROVE Below(<<>>, PartsOf(k))
    <3>1. PartsOf(k) \in Seq(Part) /\ Len(PartsOf(k)) \in Nat
      BY RouteIs
    <3> DEFINE q == PartsOf(k)
    <3>2. SubSeq(q, 1, 0) = <<>>
      BY <3>1, WholePrefix
    <3> HIDE DEF q
    <3>3. Len(<<>>) = 0 /\ 0 <= Len(q)
      BY <3>1 DEF q
    <3>4. Below(<<>>, q)
      BY <3>2, <3>3, Zenon DEF Below
    <3> QED BY <3>4 DEF q
  <2> QED BY <2>1 DEF Fit
<1>3. Expected(m, cut) = IF best = {} THEN None ELSE Max(best)
  BY DEF Expected
<1> HIDE DEF cut
<1>4. CASE Search(m, path) = None
  <2>1. fit = {}
    BY <1>1, <1>2, <1>4, SearchBest DEF FindsBest
  <2> QED BY <1>3, <1>4, <2>1 DEF Handle, cut
<1>5. CASE Search(m, path) # None
  <2>1. PICK k \in Fit(m, <<>>, cut) :
             /\ BestOf(m, <<>>, cut, k)
             /\ Search(m, path) = routes[k].pattern
             /\ handlerOf[m][routes[k].pattern] = k
             /\ \A j \in RoutesOf(m) : PartsOf(j) = PartsOf(k) => j <= k
    BY <1>5, FoundRoute DEF cut
  <2>2. k \in best
    BY <1>2, <2>1 DEF BestOf
  <2>3. ASSUME NEW j \in best PROVE j <= k
    <3>1. j \in RoutesOf(m) /\ k \in RoutesOf(m) /\ j \in fit /\ k \in fit
      BY <1>2, <2>1
    <3>2. PartsOf(j) \in Seq(Part) /\ PartsOf(k) \in Seq(Part)
      BY <3>1, RouteIs
    <3>3. PartsOf(k) = PartsOf(j) \/ MoreSpecific(PartsOf(j), PartsOf(k))
      BY <3>1
    <3>4. PartsOf(j) = PartsOf(k) \/ MoreSpecific(PartsOf(k), PartsOf(j))
      BY <2>2, <3>1
    <3>5. PartsOf(j) = PartsOf(k)
      BY <3>2, <3>3, <3>4, NotBothWays
    <3> QED BY <2>1, <3>1, <3>5
  <2>4. best \in SUBSET (0..Len(routes)) /\ Len(routes) \in Nat
    BY LenProperties DEF RoutesOf, TreeInv
  <2> HIDE DEF best
  <2>5. Max(best) \in best /\ k <= Max(best) /\ Max(best) <= k
    BY <2>2, <2>3, <2>4, MaxIs
  <2>6. Max(best) = k
    <3>1. best \subseteq Int
      BY <2>4
    <3> DEFINE x == Max(best)
    <3>2. x \in Int /\ k \in Int
      BY <2>2, <2>5, <3>1
    <3>3. k <= x /\ x <= k
      BY <2>5
    <3> HIDE DEF x
    <3>4. x = k
      BY <3>2, <3>3
    <3> QED BY <3>4 DEF x
  <2>7. Handle(m, path) = k
    BY <1>5, <2>1 DEF Handle
  <2> QED BY <1>3, <2>2, <2>6, <2>7 DEF cut
<1> QED BY <1>4, <1>5

\* What is bound to the wildcards of a pattern that matches makes up the path.
LEMMA FilledIsPath ==
    ASSUME NEW p \in Patterns, NEW path \in Paths,
           Matches(Parsed(p), Parsed(path)), NamesDiffer(Parsed(p))
    PROVE  Filled(Parsed(p), ParamsOf(p, path)) = Parsed(path)
<1> DEFINE q == Parsed(p)
           cut == Parsed(path)
           wilds == {i \in 1..Len(q) : q[i] \in Wild}
           ps == ParamsOf(p, path)
           one == [i \in 1..Len(q) |-> IF q[i] \in Params THEN ps[NameOf[q[i]]][1] ELSE q[i]]
<1>1. q \in Seq(Part) /\ cut \in Seq(Part) /\ Len(q) \in Nat /\ Len(cut) \in Nat
  BY ParsedIs, PathIs, LenProperties
<1>2. ASSUME NEW i \in wilds
      PROVE  ps[NameOf[q[i]]] = IF q[i] \in Stars THEN SubSeq(cut, i, Len(cut)) ELSE <<cut[i]>>
  <2> DEFINE bound == {j \in 1..Len(q) : q[j] \in Wild /\ NameOf[q[j]] # None}
             last(v) == Max({j \in bound : NameOf[q[j]] = v})
             name == NameOf[q[i]]
  <2>1. ps = [v \in {NameOf[q[j]] : j \in bound} |->
               IF q[last(v)] \in Stars THEN SubSeq(cut, last(v), Len(cut)) ELSE <<cut[last(v)]>>]
    BY DEF ParamsOf
  <2>2. i \in bound /\ {j \in bound : NameOf[q[j]] = name} = {i}
    BY DEF NamesDiffer
  <2>3. Max({i}) = i
    <3>1. i \in Nat /\ {i} \in SUBSET (0..i)
      BY <1>1
    <3> QED BY <3>1, MaxIs
  <2>4. last(name) = i
    BY <2>2, <2>3
  <2>5. name \in {NameOf[q[j]] : j \in bound}
    BY <2>2
  <2> HIDE DEF last, ps, bound, name, q, cut
  <2>6. ps[name] = IF q[last(name)] \in Stars THEN SubSeq(cut, last(name), Len(cut))
                                               ELSE <<cut[last(name)]>>
    BY <2>1, <2>5
  <2> QED BY <2>4, <2>6 DEF name
<1>3. Matches(q, cut)
  OBVIOUS
<1>4. Filled(q, ps) = IF EndsInStar(q) THEN Front(one) \o ps[NameOf[Last(q)]] ELSE one
  BY DEF Filled
<1>5. /\ one = [i \in 1..Len(q) |-> one[i]]
      /\ \A i \in 1..Len(q) : one[i] = IF q[i] \in Params THEN ps[NameOf[q[i]]][1] ELSE q[i]
  OBVIOUS
<1> HIDE DEF q, cut, ps, one
<1>6. ASSUME NEW i \in 1..Len(q), q[i] \in {cut[i]} \cup Params PROVE one[i] = cut[i]
  <2>1. CASE q[i] \in Params
    <3>1. i \in wilds /\ q[i] \notin Stars
      BY <2>1, RouterAssumption DEF Wild
    <3>2. ps[NameOf[q[i]]] = <<cut[i]>>
      BY <1>2, <3>1
    <3> QED BY <1>5, <2>1, <3>2
  <2>2. CASE q[i] \notin Params
    BY <1>5, <1>6, <2>2
  <2> QED BY <2>1, <2>2
<1>7. CASE EndsInStar(q)
  <2>1. q # <<>> /\ Last(q) \in Stars /\ q[Len(q)] = Last(q) /\ Len(q) \in 1..Len(q)
    BY <1>1, <1>7, EmptySeq DEF EndsInStar, Last
  <2>2. Len(q) <= Len(cut) /\ \A i \in 1..Len(q) - 1 : q[i] \in {cut[i]} \cup Params
    BY <1>1, <1>3 DEF Matches
  <2>3. ps[NameOf[Last(q)]] = SubSeq(cut, Len(q), Len(cut))
    <3>1. Len(q) \in wilds
      BY <2>1 DEF Wild
    <3> QED BY <1>2, <2>1, <3>1
  <2>4. Front(one) = SubSeq(cut, 1, Len(q) - 1)
    <3>1. \A i \in 1..Len(q) - 1 : i \in 1..Len(q) /\ one[i] = cut[i]
      BY <1>1, <1>6, <2>2
    <3>2. one \in Seq(Part) /\ Len(one) = Len(q)
      <4>1. one[Len(q)] = q[Len(q)]
        BY <1>5, <2>1, RouterAssumption
      <4>2. \A i \in 1..Len(q) : i = Len(q) \/ i \in 1..Len(q) - 1
        BY <1>1
      <4>3. \A i \in 1..Len(q) - 1 : i \in 1..Len(cut)
        BY <1>1, <2>2
      <4>4. \A i \in 1..Len(q) : one[i] \in Part
        BY <1>1, <2>1, <3>1, <4>1, <4>2, <4>3
      <4>5. one \in [1..Len(q) -> Part]
        BY <1>5, <4>4
      <4> QED BY <1>1, <4>5
    <3>3. one # <<>>
      BY <1>1, <2>1, <3>2
    <3>4. /\ Front(one) \in Seq(Part) /\ Len(Front(one)) = Len(q) - 1
          /\ \A i \in 1..Len(q) - 1 : Front(one)[i] = one[i]
      BY <3>2, <3>3, FrontIs
    <3>5. Len(q) - 1 \in 0..Len(cut)
      BY <1>1, <2>1, <2>2
    <3>6. /\ SubSeq(cut, 1, Len(q) - 1) \in Seq(Part)
          /\ Len(SubSeq(cut, 1, Len(q) - 1)) = Len(q) - 1
          /\ \A i \in 1..Len(q) - 1 : SubSeq(cut, 1, Len(q) - 1)[i] = cut[i]
      BY <1>1, <3>5, PrefixIs
    <3> DEFINE f == Front(one)
               g == SubSeq(cut, 1, Len(q) - 1)
    <3>7. /\ f \in Seq(Part) /\ g \in Seq(Part) /\ Len(f) = Len(g)
          /\ \A i \in 1..Len(f) : f[i] = g[i]
      BY <3>1, <3>4, <3>6
    <3> HIDE DEF f, g
    <3>8. f = g
      BY <3>7, SeqEqual
    <3> QED BY <3>8 DEF f, g
  <2>5. SubSeq(cut, 1, Len(q) - 1) \o SubSeq(cut, Len(q), Len(cut)) = cut
    <3>1. /\ 1 \in 1..Len(cut) + 1 /\ Len(q) - 1 \in 1 - 1..Len(cut)
          /\ Len(cut) \in Len(q) - 1..Len(cut) /\ (Len(q) - 1) + 1 = Len(q)
      BY <1>1, <2>1, <2>2
    <3>2. SubSeq(cut, 1, Len(q) - 1) \o SubSeq(cut, (Len(q) - 1) + 1, Len(cut))
            = SubSeq(cut, 1, Len(cut))
      BY <1>1, <3>1, ConcatAdjacentSubSeq
    <3>3. SubSeq(cut, 1, Len(cut)) = cut
      BY <1>1, WholePrefix
    <3> QED BY <3>1, <3>2, <3>3
  <2> QED BY <1>4, <1>7, <2>3, <2>4, <2>5 DEF q, ps, cut
<1>8. CASE ~EndsInStar(q)
  <2>1. Len(q) = Len(cut) /\ \A i \in 1..Len(q) : q[i] \in {cut[i]} \cup Params
    BY <1>3, <1>8 DEF Matches, EndsInStar
  <2>2. one = cut
    <3>1. cut = [i \in 1..Len(cut) |-> cut[i]]
      BY <1>1
    <3>2. \A i \in 1..Len(cut) : one[i] = cut[i]
      BY <1>6, <2>1
    <3> QED BY <1>5, <2>1, <3>1, <3>2
  <2> QED BY <1>4, <1>8, <2>2 DEF q, ps, cut
<1> QED BY <1>7, <1>8

\* As long as no registration was diverted into the node of another route's wildcard, a
\* request gets the most specific route that matches, the last one of equal ones, status
\* 404 only if none does, and, when its wildcards have names of their own, parameters
\* that make up its path as far as parsePatterns leaves it: for any methods, parts,
\* patterns and paths, and however many routes.
THEOREM BestRoute == RouterSpec => []BestRouteServes
<1>1. TreeInv /\ OrderInv => BestRouteServes
  <2> SUFFICES ASSUME TreeInv, OrderInv, NEW m \in Methods, NEW path \in Paths, InOrder(m)
               PROVE  /\ Handle(m, path) = Expected(m, Parsed(path))
                      /\ Search(m, path) # None /\ NamesDiffer(Parsed(Search(m, path)))
                         => Filled(Parsed(Search(m, path)), ParamsOf(Search(m, path), path))
                              = Parsed(path)
    BY DEF BestRouteServes
  <2>1. OrderOf(m)
    BY DEF OrderInv
  <2>2. Handle(m, path) = Expected(m, Parsed(path))
    BY <2>1, HandleExpected
  <2>3. ASSUME Search(m, path) # None, NamesDiffer(Parsed(Search(m, path)))
        PROVE  Filled(Parsed(Search(m, path)), ParamsOf(Search(m, path), path)) = Parsed(path)
    <3> DEFINE p == Search(m, path)
    <3>1. PICK k \in Fit(m, <<>>, Parsed(path)) : p = routes[k].pattern
      BY <2>1, <2>3, FoundRoute
    <3>2. k \in RoutesOf(m) /\ Matches(PartsOf(k), Parsed(path))
      BY DEF Fit
    <3>3. p \in Patterns /\ PartsOf(k) = Parsed(p)
      BY <3>1, <3>2, RouteIs
    <3> HIDE DEF p
    <3>4. Matches(Parsed(p), Parsed(path))
      BY <3>2, <3>3
    <3> QED BY <2>3, <3>3, <3>4, FilledIsPath DEF p
  <2> QED BY <2>2, <2>3
<1> QED BY <1>1, OrderAlways, PTL
=============================================================================
