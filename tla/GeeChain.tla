------------------------------ MODULE GeeChain -------------------------------
(***************************************************************************)
(* Groups, middlewares and the chain of handlers of gee (src/gee/context). *)
(* At start-up Use and Group build lists of middlewares; a request collects*)
(* those of the groups its path belongs to and Context.Next steps through  *)
(* them, some of them calling Next themselves, some of them panicking.     *)
(*                                                                         *)
(* Group gives the new group its parent's slice, not a copy.  Slices are   *)
(* modelled as in Go: a length and an array that others may have a slice   *)
(* of, too; append writes into the array while it has room, and moves to   *)
(* an array of its own otherwise.                                          *)
(***************************************************************************)
EXTENDS Naturals, Sequences, SequencesExt

CONSTANTS
    Ordinary,    \* middlewares that call Next or do not, as they like, such as Logger
    Recovery,    \* Recovery(), the one that recovers from a panic of its Next
    Handler,     \* the handler of the route, or of status 404
    MaxUses,     \* bound on the middlewares of a group
    MaxGroups,   \* bound on the groups
    MaxChain     \* bound on the handlers of a request

Middlewares == Ordinary \cup {Recovery}

ASSUME ChainAssumption ==
    /\ Recovery \notin Ordinary /\ Handler \notin Middlewares
    /\ MaxUses \in Nat /\ MaxGroups \in Nat \ {0} /\ MaxChain \in Nat

VARIABLES
    \* start-up
    arrays,     \* the arrays behind slices: a sequence of sequences
    groups,     \* e.routerGroups: [array, len, parent], the first is the engine's own
    wanted,     \* history: per group the middlewares it inherited and was given
    spare,      \* history: a group was made from a slice whose array had room
    \* a request
    phase,      \* "setup", "loop" or "handler" in ServeHTTP, "served" or "panicked"
    handlers,   \* c.handlers
    index,      \* c.index, counted from 1
    stack,      \* the positions of the handlers that are inside c.Next()
    status,     \* the status line: "none", "handler" or "500"
    \* history
    started,    \* the positions of the handlers that were called, in order
    recovered   \* a panic was recovered

setup == <<arrays, groups, wanted, spare>>
context == <<handlers, index, stack, status, started, recovered>>
vars == <<setup, phase, context>>

Init ==
    /\ arrays = << <<>> >>
    /\ groups = << [array |-> 1, len |-> 0, parent |-> 0] >>
    /\ wanted = << <<>> >>
    /\ spare = FALSE
    /\ phase = "setup"
    /\ handlers = <<>> /\ index = 0 /\ stack = <<>>
    /\ status = "none"
    /\ started = <<>> /\ recovered = FALSE

-----------------------------------------------------------------------------
(* Start-up.                                                               *)

Room(g) == Len(arrays[g.array]) - g.len
Middles(g) == SubSeq(arrays[g.array], 1, g.len)

\* The capacity append chooses for n elements in the place of c: the double, or n if that
\* is more, rounded up to what the allocator's size classes hold (one to four functions,
\* then even numbers of them; exact up to 32).
Grown(c, n) ==
    LET least == IF n > 2 * c THEN n ELSE 2 * c IN
    IF least <= 4 THEN least ELSE least + (least % 2)

\* The elements of an array that nobody has written yet.
Empty == "empty"

\* The array after ms were written behind position n.
Written(array, n, ms) ==
    [i \in 1..Len(array) |-> IF i \in n + 1..n + Len(ms) THEN ms[i - n] ELSE array[i]]

\* MUTANT: the new middlewares take the place of the old ones.
UseReplaces(i, ms) ==
    /\ phase = "setup"
    /\ wanted' = [wanted EXCEPT ![i] = @ \o ms]
    /\ arrays' = Append(arrays, ms)
    /\ groups' = [groups EXCEPT ![i] = [@ EXCEPT !.array = Len(arrays) + 1, !.len = Len(ms)]]
    /\ UNCHANGED <<spare, phase, context>>

\* g.middlewares = append(g.middlewares, middlewares...)
Use(i, ms) ==
    LET g == groups[i]
        n == g.len + Len(ms)
        c == Grown(Len(arrays[g.array]), n)
        fresh == Middles(g) \o [k \in 1..c - g.len |-> Empty] IN
    /\ phase = "setup"
    /\ wanted' = [wanted EXCEPT ![i] = @ \o ms]
    /\ \/ /\ Len(ms) <= Room(g)
          /\ arrays' = [arrays EXCEPT ![g.array] = Written(@, g.len, ms)]
          /\ groups' = [groups EXCEPT ![i].len = n]
       \/ /\ Len(ms) > Room(g)
          /\ arrays' = Append(arrays, Written(fresh, g.len, ms))
          /\ groups' = [groups EXCEPT ![i] = [@ EXCEPT !.array = Len(arrays) + 1, !.len = n]]
    /\ UNCHANGED <<spare, phase, context>>

Group(i) ==
    /\ phase = "setup"
    /\ groups' = Append(groups, [groups[i] EXCEPT !.parent = i])
    /\ wanted' = Append(wanted, wanted[i])
    /\ spare' = (spare \/ Room(groups[i]) > 0)
    /\ UNCHANGED <<arrays, phase, context>>

-----------------------------------------------------------------------------
(* A request.                                                              *)

\* The groups whose prefixes a path can begin with: a group's prefix begins with its
\* parent's, and the engine's own is empty.
Matching ==
    {m \in SUBSET (1..Len(groups)) :
        1 \in m /\ \A i \in m \ {1} : groups[i].parent \in m}

\* The chains of at most MaxChain handlers.
Chains == UNION {[1..n -> Middlewares \cup {Handler}] : n \in 1..MaxChain}

\* ServeHTTP and router.handle.
ServeHTTP(m) ==
    /\ phase = "setup"
    /\ handlers' = Append(FlattenSeq([i \in 1..Len(groups) |->
                             IF i \in m THEN Middles(groups[i]) ELSE <<>>]), Handler)
    /\ handlers' \in Chains
    /\ index' = 1
    /\ phase' = "loop"
    /\ UNCHANGED <<setup, stack, status, started, recovered>>

Position == index <= Len(handlers)

\* The loop of Next calls the handler at c.index.
CallHandler ==
    /\ phase = "loop" /\ Position
    /\ started' = Append(started, index)
    /\ phase' = "handler"
    /\ UNCHANGED <<setup, handlers, index, stack, status, recovered>>

\* Only the first status counts.
Writes(s) == status' = IF status = "none" THEN s ELSE status
MayWrite == UNCHANGED status \/ Writes("handler")

HandlerReturns ==
    /\ phase = "handler" /\ handlers[index] # Recovery
    /\ MayWrite
    /\ index' = index + 1
    /\ phase' = "loop"
    /\ UNCHANGED <<setup, handlers, stack, started, recovered>>

\* MUTANT: Next does not count before its loop.
CallNextUncounted ==
    /\ phase = "handler" /\ handlers[index] # Handler
    /\ stack' = Append(stack, index)
    /\ phase' = "loop"
    /\ UNCHANGED <<setup, handlers, index, status, started, recovered>>

\* A middleware calls c.Next(), which has a loop of its own over the same index.
CallNext ==
    /\ phase = "handler" /\ handlers[index] # Handler
    /\ stack' = Append(stack, index)
    /\ index' = index + 1
    /\ phase' = "loop"
    /\ UNCHANGED <<setup, handlers, status, started, recovered>>

\* The innermost Next has ended, its middleware returns, and the loop that called it counts.
NextReturns ==
    /\ phase = "loop" /\ ~Position /\ stack # <<>>
    /\ stack' = Front(stack)
    /\ index' = index + 1
    /\ UNCHANGED <<setup, phase, handlers, status, started, recovered>>

Served ==
    /\ phase = "loop" /\ ~Position /\ stack = <<>>
    /\ phase' = "served"
    /\ UNCHANGED <<setup, context>>

\* MUTANT: the deferred function of Recovery sees only a panic that nothing was
\* called in between.
UnwindInnermost(s) ==
    LET near == {k \in 1..Len(s) : k = Len(s) /\ handlers[s[k]] = Recovery} IN
    \/ /\ near = {}
       /\ phase' = "panicked"
       /\ UNCHANGED <<index, stack, status, recovered>>
    \/ /\ near # {}
       /\ phase' = "loop"
       /\ stack' = Front(s)
       /\ index' = index + 1
       /\ Writes("500")
       /\ recovered' = TRUE

\* A panic runs through the middlewares in s.  The innermost Recovery answers with status
\* 500 and returns like any other middleware, so that the loop that called it goes on
\* with the handlers behind the one that panicked.
Unwind(s) ==
    LET recoveries == {k \in 1..Len(s) : handlers[s[k]] = Recovery} IN
    \/ /\ recoveries = {}
       /\ phase' = "panicked"
       /\ UNCHANGED <<index, stack, status, recovered>>
    \/ \E r \in recoveries :
       /\ \A k \in recoveries : k <= r
       /\ phase' = "loop"
       /\ stack' = SubSeq(s, 1, r - 1)
       /\ index' = index + 1
       /\ Writes("500")
       /\ recovered' = TRUE

HandlerPanics ==
    /\ phase = "handler" /\ handlers[index] # Recovery
    /\ Unwind(stack)
    /\ UNCHANGED <<setup, handlers, started>>

\* A middleware panics after its Next.
PanicsAfterNext ==
    /\ phase = "loop" /\ ~Position /\ stack # <<>>
    /\ handlers[Last(stack)] # Recovery
    /\ Unwind(Front(stack))
    /\ UNCHANGED <<setup, handlers, started>>

-----------------------------------------------------------------------------
Ended == phase \in {"served", "panicked"} /\ UNCHANGED vars

Next ==
    \/ \E i \in 1..Len(groups) :
        \/ \E n \in 1..2 : \E ms \in [1..n -> Middlewares] :
             Len(wanted[i]) + n <= MaxUses /\ Use(i, ms)
        \/ Len(groups) < MaxGroups /\ Group(i)
    \/ \E m \in Matching : ServeHTTP(m)
    \/ CallHandler \/ HandlerReturns \/ CallNext \/ NextReturns \/ Served
    \/ HandlerPanics \/ PanicsAfterNext
    \/ Ended

Spec == Init /\ [][Next]_vars

-----------------------------------------------------------------------------
(* Properties.                                                             *)

SetupTypeOK ==
    /\ arrays \in Seq(Seq(Middlewares \cup {Empty}))
    /\ groups \in Seq([array : 1..Len(arrays), len : Nat, parent : 0..Len(groups)])
    /\ \A i \in 1..Len(groups) : groups[i].len <= Len(arrays[groups[i].array])
    /\ wanted \in Seq(Seq(Middlewares)) /\ Len(wanted) = Len(groups)
    /\ spare \in BOOLEAN

ContextTypeOK ==
    /\ phase \in {"setup", "loop", "handler", "served", "panicked"}
    /\ handlers \in Seq(Middlewares \cup {Handler})
    /\ index \in Nat
    /\ stack \in Seq(1..Len(handlers))
    /\ status \in {"none", "handler", "500"}
    /\ started \in Seq(1..Len(handlers))
    /\ recovered \in BOOLEAN

TypeOK == SetupTypeOK /\ ContextTypeOK

\* A group has the middlewares of its parent at the time it was made and its own, in the
\* order of registration, however many groups share an array that is full.  Excepted is what
\* the code gets wrong: once a group was made from a slice with room in its array, the two
\* can overwrite each other (gee.go:66).
GroupsKeepTheirs == ~spare => \A i \in 1..Len(groups) : Middles(groups[i]) = wanted[i]

\* However the loops over c.index are nested, and whatever panicked and was recovered in
\* them, no handler is called twice, none is passed over, and a request that ends
\* without an escaped panic has been through all of them (context.go:41).  These are places
\* in c.handlers: what two groups that match the path both have is in it twice, and a group
\* has what it inherited from a parent that matches as well (gee.go:66, :130-133).
EveryHandlerOnce ==
    /\ \A k \in 1..Len(started) : started[k] = k
    /\ phase = "served" => Len(started) = Len(handlers)

\* The position of the handler whose panic left ServeHTTP.
Panicking == IF Position THEN index ELSE Last(stack)

\* A panic leaves ServeHTTP only if no Recovery was called before the handler that
\* panicked, or if it is not the first: the handlers that go on after a recovered panic
\* are outside of the Recovery that has returned (recovery.go:29).
FirstPanicIsRecovered ==
    phase = "panicked" /\ ~recovered =>
        \A k \in 1..Panicking : handlers[k] # Recovery

(***************************************************************************)
(* The inductive invariant.  Two groups share an array only when both      *)
(* slices fill it; what was called are the handlers before the index; and  *)
(* every Recovery that was called, and has not returned, is in the stack.  *)
(***************************************************************************)
GroupsInv ==
    /\ GroupsKeepTheirs
    /\ ~spare => \A i, j \in 1..Len(groups) :
                    i # j /\ groups[i].array = groups[j].array => Room(groups[i]) = 0

IndexInv ==
    /\ \A k \in 1..Len(started) : started[k] = k
    /\ phase = "setup" => started = <<>> /\ stack = <<>>
    /\ phase = "loop" =>
         index > 0 /\ Len(started) = IF Position THEN index - 1 ELSE Len(handlers)
    /\ phase = "handler" => Position /\ index > 0 /\ Len(started) = index
    /\ phase = "served" => Len(started) = Len(handlers)
    /\ \A k \in 1..Len(stack) : stack[k] < index
    /\ \A j, k \in 1..Len(stack) : j < k => stack[j] < stack[k]

\* The last handler of which a call, or that of a handler behind it, can still panic.
Top == IF phase = "handler" \/ Position THEN index - 1
       ELSE IF stack = <<>> THEN 0 ELSE Last(stack)

PanicInv ==
    /\ phase \in {"loop", "handler"} /\ ~recovered =>
         \A k \in 1..Top : handlers[k] = Recovery => \E j \in 1..Len(stack) : stack[j] = k
    /\ FirstPanicIsRecovered

IInv == TypeOK /\ GroupsInv /\ IndexInv /\ PanicInv
==============================================================================
