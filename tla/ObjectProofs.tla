----------------------------- MODULE ObjectProofs -----------------------------
(***************************************************************************)
(* Scope guards and arenas.                                                *)
(*                                                                         *)
(* The scope guards of ScopedExec run a functor at most once and lose      *)
(* none, for any number of threads, guards and functors.  The argument is  *)
(* that a functor that has not run is in one place: in one guard, or on    *)
(* top of one thread's stack, taken out and not yet started.               *)
(*                                                                         *)
(* The arenas of Arena keep what they hand out intact, and a rewound mark  *)
(* puts its arena back as it was, for any arenas, marks, requests and      *)
(* block sizes.  The argument is that a mark stays right about its arena:  *)
(* the blocks below the one that was current are untouched, that one has   *)
(* only been filled further, and older marks remember less.                *)
(***************************************************************************)
EXTENDS ScopedExec, Arena, FiniteSetTheorems, TLAPS

-----------------------------------------------------------------------------
(* Scope guards. *)


MaybeFn == Functors \cup {NoFn}
Frames == [fn: Functors, running: BOOLEAN]
Destructors == [guard: Guards, by: Threads, depth: Nat]

ExecTypeOK ==
  /\ made \subseteq Guards
  /\ fn \in [Guards -> MaybeFn]
  /\ armed \in [Guards -> BOOLEAN]
  /\ stack \in [Threads -> Seq(Frames)]
  /\ ending \subseteq Destructors
  /\ runs \in [Functors -> Nat]
  /\ released \subseteq Functors

\* A guard is armed while it stores a functor, and only while it exists.
ArmedIfStored ==
  \A g \in Guards : (armed[g] <=> fn[g] # NoFn) /\ (armed[g] => g \in made)

\* A thread has one functor at a time that it took out and did not start.
OnlyTopWaits ==
  \A t \in Threads : \A i \in 2..Len(stack[t]) : stack[t][i].running

InOnePlace(f) ==
  /\ \A g, h \in Guards : fn[g] = f /\ fn[h] = f => g = h
  /\ \A t, u \in Threads : WillStart(t, f) /\ WillStart(u, f) => t = u
  /\ \A g \in Guards, t \in Threads : ~(fn[g] = f /\ WillStart(t, f))
  /\ \A g \in Guards : fn[g] = f => runs[f] = 0
  /\ \A t \in Threads : WillStart(t, f) => runs[f] = 0
  /\ runs[f] <= 1

ExecInv ==
  /\ ExecTypeOK
  /\ ArmedIfStored
  /\ OnlyTopWaits
  /\ \A f \in Functors : InOnePlace(f)

-----------------------------------------------------------------------------
(* Stacks. *)

LEMMA PushSeq ==
  ASSUME NEW S, NEW s \in Seq(S), NEW r \in S
  PROVE  LET p == <<r>> \o s IN
         /\ p \in Seq(S) /\ p # <<>> /\ Head(p) = r /\ Len(p) = Len(s) + 1
         /\ p[1] = r /\ \A i \in 2..Len(p) : p[i] = s[i - 1]
OBVIOUS

LEMMA PopSeq ==
  ASSUME NEW S, NEW s \in Seq(S), s # <<>>
  PROVE  /\ Head(s) \in S /\ Tail(s) \in Seq(S) /\ Head(s) = s[1]
         /\ Len(Tail(s)) = Len(s) - 1 /\ Len(s) \in Nat \ {0}
         /\ \A i \in 1..Len(Tail(s)) : Tail(s)[i] = s[i + 1]
         /\ Tail(s) # <<>> => Head(Tail(s)) = s[2] /\ Len(s) >= 2
OBVIOUS

\* Taking a functor out puts it on top of the caller's stack.
LEMMA TakesOut ==
  ASSUME ExecInv, NEW t \in Threads, MayCall(t), NEW f \in MaybeFn, WillRun(t, f)
  PROVE  /\ stack' \in [Threads -> Seq(Frames)]
         /\ OnlyTopWaits'
         /\ \A u \in Threads, x \in Functors :
              WillStart(u, x)' <=> WillStart(u, x) \/ (u = t /\ x = f)
         /\ \A x \in Taken : x \in Taken'
         /\ f \in Functors => f \in Taken'
<1> USE DEF ExecInv, ExecTypeOK
<1>1. \A x \in Functors : ~WillStart(t, x)
  BY DEF MayCall, WillStart
<1>2. CASE f = NoFn
  <2>1. stack' = stack
    BY <1>2 DEF WillRun
  <2>2. f \notin Functors
    BY <1>2, ScopedExecAssumption
  <2> QED
    BY <2>1, <2>2 DEF OnlyTopWaits, WillStart, Taken
<1>3. CASE f # NoFn
  <2> DEFINE top == [fn |-> f, running |-> FALSE]
             s == <<top>> \o stack[t]
  <2>1. f \in Functors /\ top \in Frames
    BY <1>3 DEF MaybeFn, Frames
  <2>2. stack' = [stack EXCEPT ![t] = s]
    BY <1>3 DEF WillRun
  <2>3. /\ s \in Seq(Frames) /\ s # <<>> /\ Head(s) = top /\ Len(s) = Len(stack[t]) + 1
        /\ s[1] = top /\ \A i \in 2..Len(s) : s[i] = stack[t][i - 1]
    BY <2>1, PushSeq
  <2>4. top.fn = f /\ ~top.running
    OBVIOUS
  <2>5. Len(stack[t]) \in Nat
    OBVIOUS
  <2> HIDE DEF s, top
  <2>6. stack' \in [Threads -> Seq(Frames)] /\ stack'[t] = s
        /\ \A u \in Threads \ {t} : stack'[u] = stack[u]
    BY <2>2, <2>3
  <2>7. \A i \in 2..Len(s) : s[i].running
    <3> TAKE i \in 2..Len(s)
    <3>1. s[i] = stack[t][i - 1]
      BY <2>3
    <3>2. CASE i = 2
      <4>1. stack[t] # <<>> /\ Head(stack[t]).running
        BY <2>3, <3>2 DEF MayCall
      <4>2. Head(stack[t]) = stack[t][1]
        BY <4>1, PopSeq
      <4> QED
        BY <3>1, <3>2, <4>1, <4>2
    <3>3. CASE i # 2
      <4>1. i - 1 \in 2..Len(stack[t])
        BY <2>3, <2>5, <3>3
      <4> QED
        BY <3>1, <4>1 DEF OnlyTopWaits
    <3> QED
      BY <3>2, <3>3
  <2>8. OnlyTopWaits'
    BY <2>6, <2>7 DEF OnlyTopWaits
  <2>9. \A u \in Threads, x \in Functors :
          WillStart(u, x)' <=> WillStart(u, x) \/ (u = t /\ x = f)
    BY <1>1, <2>3, <2>4, <2>6 DEF WillStart
  <2>10. \A u \in Threads : \A i \in DOMAIN stack[u] :
           \E j \in DOMAIN stack'[u] : stack'[u][j].fn = stack[u][i].fn
    <3> TAKE u \in Threads
    <3> TAKE i \in DOMAIN stack[u]
    <3>1. CASE u # t
      BY <2>6, <3>1
    <3>2. CASE u = t
      <4>1. i + 1 \in 2..Len(s) /\ i + 1 \in DOMAIN s /\ (i + 1) - 1 = i
        BY <2>3, <2>5, <3>2
      <4>2. s[i + 1] = stack[t][i]
        BY <2>3, <4>1
      <4> QED
        BY <2>6, <3>2, <4>1, <4>2
    <3> QED
      BY <3>1, <3>2
  <2>11. \A x \in Taken : x \in Taken'
    BY <2>10 DEF Taken
  <2>12. f \in Taken'
    <3>1. 1 \in DOMAIN stack'[t] /\ stack'[t][1].fn = f
      BY <2>3, <2>4, <2>5, <2>6
    <3> QED
      BY <3>1 DEF Taken
  <2> QED
    BY <2>6, <2>8, <2>9, <2>11, <2>12
<1> QED
  BY <1>2, <1>3

\* A functor nobody has registered is nowhere.
LEMMA NewIsNowhere ==
  ASSUME ExecInv, NEW f \in New
  PROVE  /\ f \in Functors /\ runs[f] = 0
         /\ \A g \in Guards : fn[g] # f
         /\ \A t \in Threads : ~WillStart(t, f)
<1>1. f \in Functors /\ runs[f] = 0 /\ f \notin Taken /\ f \notin Registered
  BY DEF New
<1>2. f # NoFn
  BY <1>1, ScopedExecAssumption
<1>3. \A g \in Guards : fn[g] # f
  BY <1>1, <1>2 DEF ExecInv, ArmedIfStored, Registered
<1>4. ASSUME NEW t \in Threads, WillStart(t, f) PROVE FALSE
  <2>1. Head(stack[t]) = stack[t][1] /\ 1 \in DOMAIN stack[t]
    BY <1>4, PopSeq DEF WillStart, ExecInv, ExecTypeOK
  <2> QED
    BY <1>1, <1>4, <2>1 DEF WillStart, Taken
<1> QED
  BY <1>1, <1>3, <1>4

\* Where f = NoFn is no functor, an unarmed guard gives up none.
LEMMA OldIsStored ==
  ASSUME ExecInv, NEW g \in Guards
  PROVE  Old(g) = fn[g] /\ Old(g) \in MaybeFn
BY DEF ExecInv, ExecTypeOK, ArmedIfStored, Old

\* What the methods have in common: t takes over g's functor, and a guard
\* that stores one now either kept it, or is g and got it new or from a guard
\* that no longer has it.
LEMMA MethodKeepsPlaces ==
  ASSUME ExecInv, NEW t \in Threads, NEW g \in Guards, MayCall(t),
         WillRun(t, Old(g)), runs' = runs,
         \A a \in Guards, x \in Functors : fn'[a] = x =>
           \/ fn[a] = x /\ a # g
           \/ a = g /\ x \in New
           \/ a = g /\ \E o \in Guards \ {g} : fn[o] = x /\ fn'[o] # x
  PROVE  \A x \in Functors : InOnePlace(x)'
<1>1. Old(g) = fn[g] /\ Old(g) \in MaybeFn
  BY OldIsStored
<1>2. \A u \in Threads, x \in Functors :
        WillStart(u, x)' <=> WillStart(u, x) \/ (u = t /\ x = fn[g])
  <2> DEFINE f == Old(g)
  <2>1. f \in MaybeFn /\ WillRun(t, f) /\ f = fn[g]
    BY <1>1
  <2> HIDE DEF f
  <2>2. \A u \in Threads, x \in Functors :
          WillStart(u, x)' <=> WillStart(u, x) \/ (u = t /\ x = f)
    BY <2>1, TakesOut
  <2> QED
    BY <2>1, <2>2
<1>3. TAKE x \in Functors
<1>4. InOnePlace(x)
  BY DEF ExecInv
<1>5. x \in New => /\ runs[x] = 0
                   /\ \A a \in Guards : fn[a] # x
                  /\ \A u \in Threads : ~WillStart(u, x)
  BY NewIsNowhere
<1>6. \A a, b \in Guards : fn'[a] = x /\ fn'[b] = x => a = b
  BY <1>4, <1>5 DEF InOnePlace
<1>7. \A u, v \in Threads : WillStart(u, x)' /\ WillStart(v, x)' => u = v
  BY <1>2, <1>4 DEF InOnePlace
<1>8. \A a \in Guards, u \in Threads : ~(fn'[a] = x /\ WillStart(u, x)')
  BY <1>2, <1>4, <1>5 DEF InOnePlace
<1>9. \A a \in Guards : fn'[a] = x => runs'[x] = 0
  BY <1>4, <1>5 DEF InOnePlace
<1>10. \A u \in Threads : WillStart(u, x)' => runs'[x] = 0
  BY <1>2, <1>4 DEF InOnePlace
<1>11. runs'[x] <= 1
  BY <1>4 DEF InOnePlace
<1> QED
  BY <1>6, <1>7, <1>8, <1>9, <1>10, <1>11 DEF InOnePlace

-----------------------------------------------------------------------------
(* The methods. *)

LEMMA ConstructKeeps ==
  ASSUME ExecInv, NEW g \in Guards, NEW f \in Callables, ConstructGuard(g, f)
  PROVE  ExecInv'
<1> USE DEF ExecInv, ConstructGuard
<1>1. f \in MaybeFn /\ (f # NoFn => f \in New)
  BY DEF Callables, New, MaybeFn
<1>2. fn[g] = NoFn
  BY DEF ArmedIfStored
<1>3. ExecTypeOK'
  <2>1. fn' \in [Guards -> MaybeFn]
    BY <1>1 DEF ExecTypeOK
  <2>2. armed' \in [Guards -> BOOLEAN]
    BY DEF ExecTypeOK
  <2> QED
    BY <2>1, <2>2 DEF ExecTypeOK
<1>4. ArmedIfStored'
  <2> SUFFICES ASSUME NEW a \in Guards
               PROVE  (armed'[a] <=> fn'[a] # NoFn) /\ (armed'[a] => a \in made')
    BY DEF ArmedIfStored
  <2>1. CASE a = g
    <3>1. fn'[a] = f /\ armed'[a] = (f # NoFn) /\ a \in made'
      BY <2>1 DEF ExecTypeOK
    <3> QED
      BY <3>1
  <2>2. CASE a # g
    BY <2>2 DEF ExecTypeOK, ArmedIfStored
  <2> QED
    BY <2>1, <2>2
<1>5. OnlyTopWaits'
  BY DEF OnlyTopWaits
<1>6. ASSUME NEW x \in Functors PROVE InOnePlace(x)'
  <2>1. InOnePlace(x) /\ x # NoFn
    BY ScopedExecAssumption
  <2>2. \A u \in Threads : WillStart(u, x)' <=> WillStart(u, x)
    BY DEF WillStart
  <2>3. \A a \in Guards : fn'[a] = x => fn[a] = x \/ (a = g /\ x = f)
    BY DEF ExecTypeOK
  <2>4. x = f => /\ runs[x] = 0
                 /\ \A a \in Guards : fn[a] # x
                 /\ \A u \in Threads : ~WillStart(u, x)
    BY <1>1, <2>1, NewIsNowhere
  <2> QED
    BY <2>1, <2>2, <2>3, <2>4 DEF InOnePlace
<1> QED
  BY <1>3, <1>4, <1>5, <1>6

\* ExtractIfArmed leaves g empty, whether it was armed or not.
LEMMA ExtractKeeps ==
  ASSUME ExecInv, NEW t \in Threads, NEW g \in Guards, MayCall(t),
         ExtractIfArmed(t, g), runs' = runs, released' = released,
         made' \in {made, made \ {g}}, ending' \subseteq Destructors
  PROVE  ExecInv'
<1> USE DEF ExecInv
<1> DEFINE f == Old(g)
<1>1. f \in MaybeFn /\ WillRun(t, f)
  BY OldIsStored DEF ExtractIfArmed
<1>2. fn' \in [Guards -> MaybeFn] /\ fn'[g] = NoFn
      /\ \A a \in Guards \ {g} : fn'[a] = fn[a]
  BY DEF ExtractIfArmed, ExecTypeOK, ArmedIfStored, MaybeFn
<1>3. armed' \in [Guards -> BOOLEAN] /\ ~armed'[g]
      /\ \A a \in Guards \ {g} : armed'[a] = armed[a]
  BY DEF ExtractIfArmed, ExecTypeOK
<1>4. stack' \in [Threads -> Seq(Frames)] /\ OnlyTopWaits'
  <2> HIDE DEF f
  <2> QED
    BY <1>1, TakesOut
<1>5. ExecTypeOK'
  BY <1>2, <1>3, <1>4 DEF ExecTypeOK
<1>6. ArmedIfStored'
  BY <1>2, <1>3 DEF ArmedIfStored
<1>7. \A a \in Guards, x \in Functors : fn'[a] = x => fn[a] = x /\ a # g
  BY <1>2, ScopedExecAssumption
<1>8. \A x \in Functors : InOnePlace(x)'
  BY <1>1, <1>7, MethodKeepsPlaces
<1> QED
  BY <1>4, <1>5, <1>6, <1>8

LEMMA ResetKeeps ==
  ASSUME ExecInv, NEW t \in Threads, NEW g \in Guards, NEW f \in Callables,
         ResetFn(t, g, f)
  PROVE  ExecInv'
<1> USE DEF ExecInv, ResetFn
<1> DEFINE old == Old(g)
<1>1. old \in MaybeFn /\ WillRun(t, old)
  BY OldIsStored
<1>2. f \in MaybeFn /\ (f # NoFn => f \in New)
  BY DEF Callables, New, MaybeFn
<1>3. fn' \in [Guards -> MaybeFn] /\ fn'[g] = f
      /\ \A a \in Guards \ {g} : fn'[a] = fn[a]
  BY <1>2 DEF ExecTypeOK
<1>4. armed' \in [Guards -> BOOLEAN] /\ armed'[g] = (f # NoFn)
      /\ \A a \in Guards \ {g} : armed'[a] = armed[a]
  BY DEF ExecTypeOK
<1>5. stack' \in [Threads -> Seq(Frames)] /\ OnlyTopWaits'
  <2> HIDE DEF old
  <2> QED
    BY <1>1, TakesOut
<1>6. ExecTypeOK'
  <2>1. released' \subseteq Functors /\ ending' \subseteq Destructors
    BY DEF ExecTypeOK
  <2>2. made' \subseteq Guards /\ runs' \in [Functors -> Nat]
    BY DEF ExecTypeOK
  <2> QED
    BY <1>3, <1>4, <1>5, <2>1, <2>2 DEF ExecTypeOK
<1>7. ArmedIfStored'
  <2> SUFFICES ASSUME NEW a \in Guards
               PROVE  (armed'[a] <=> fn'[a] # NoFn) /\ (armed'[a] => a \in made')
    BY DEF ArmedIfStored
  <2>1. g \in made' /\ made' = made
    BY DEF Usable
  <2>2. CASE a = g
    BY <1>3, <1>4, <2>1, <2>2
  <2>3. CASE a # g
    <3>1. (armed[a] <=> fn[a] # NoFn) /\ (armed[a] => a \in made)
      BY DEF ArmedIfStored
    <3> QED
      BY <1>3, <1>4, <2>1, <2>3, <3>1
  <2> QED
    BY <2>2, <2>3
<1>8. \A a \in Guards, x \in Functors :
        fn'[a] = x => (fn[a] = x /\ a # g) \/ (a = g /\ x \in New)
  BY <1>2, <1>3, ScopedExecAssumption
<1>9. \A x \in Functors : InOnePlace(x)'
  BY <1>1, <1>8, MethodKeepsPlaces
<1> QED
  BY <1>5, <1>6, <1>7, <1>9

LEMMA MoveKeeps ==
  ASSUME ExecInv, NEW t \in Threads, NEW g \in Guards, NEW other \in Guards,
         MoveGuard(t, g, other)
  PROVE  ExecInv'
<1> USE DEF ExecInv, MoveGuard
<1> DEFINE old == Old(g)
<1>1. old \in MaybeFn /\ WillRun(t, old)
  BY OldIsStored
<1>2. fn' \in [Guards -> MaybeFn] /\ fn'[g] = fn[other] /\ fn'[other] = NoFn
      /\ \A a \in Guards \ {g, other} : fn'[a] = fn[a]
  BY DEF ExecTypeOK, MaybeFn
<1>3. armed' \in [Guards -> BOOLEAN] /\ armed'[g] = armed[other] /\ ~armed'[other]
      /\ \A a \in Guards \ {g, other} : armed'[a] = armed[a]
  BY DEF ExecTypeOK
<1>4. stack' \in [Threads -> Seq(Frames)] /\ OnlyTopWaits'
  <2> HIDE DEF old
  <2> QED
    BY <1>1, TakesOut
<1>5. ExecTypeOK'
  BY <1>2, <1>3, <1>4 DEF ExecTypeOK
<1>6. ArmedIfStored'
  BY <1>2, <1>3 DEF ArmedIfStored
<1>7. \A a \in Guards, x \in Functors : fn'[a] = x =>
         \/ fn[a] = x /\ a # g
         \/ a = g /\ x \in New
         \/ a = g /\ \E o \in Guards \ {g} : fn[o] = x /\ fn'[o] # x
  BY <1>2, ScopedExecAssumption
<1>8. MayCall(t) /\ runs' = runs /\ WillRun(t, Old(g)) /\ ExecInv
  OBVIOUS
<1> HIDE DEF ExecInv, MoveGuard
<1>9. \A x \in Functors : InOnePlace(x)'
  BY <1>7, <1>8, MethodKeepsPlaces
<1> QED
  BY <1>4, <1>5, <1>6, <1>9 DEF ExecInv

LEMMA ReleaseKeeps ==
  ASSUME ExecInv, NEW t \in Threads, NEW g \in Guards, ReleaseFn(t, g)
  PROVE  ExecInv'
<1> USE DEF ExecInv, ReleaseFn
<1>1. fn' \in [Guards -> MaybeFn] /\ fn'[g] = NoFn
      /\ \A a \in Guards \ {g} : fn'[a] = fn[a]
  BY DEF ExecTypeOK, MaybeFn
<1>2. armed' \in [Guards -> BOOLEAN] /\ ~armed'[g]
      /\ \A a \in Guards \ {g} : armed'[a] = armed[a]
  BY DEF ExecTypeOK
<1>3. ExecTypeOK'
  BY <1>1, <1>2 DEF ExecTypeOK, MaybeFn
<1>4. ArmedIfStored'
  BY <1>1, <1>2 DEF ArmedIfStored
<1>5. OnlyTopWaits'
  BY DEF OnlyTopWaits
<1>6. ASSUME NEW x \in Functors PROVE InOnePlace(x)'
  <2>1. \A a \in Guards : fn'[a] = x => fn[a] = x
    BY <1>1, ScopedExecAssumption
  <2>2. \A u \in Threads : WillStart(u, x)' <=> WillStart(u, x)
    BY DEF WillStart
  <2> QED
    BY <2>1, <2>2 DEF InOnePlace
<1> QED
  BY <1>3, <1>4, <1>5, <1>6

-----------------------------------------------------------------------------
(* Running what was taken out. *)

LEMMA RunKeeps ==
  ASSUME ExecInv, NEW t \in Threads, RunFn(t)
  PROVE  ExecInv'
<1> USE DEF ExecInv
<1> DEFINE s == stack[t]
           f == Head(s).fn
           top == [Head(s) EXCEPT !.running = TRUE]
           p == <<top>> \o Tail(s)
<1>1. s \in Seq(Frames) /\ s # <<>> /\ ~Head(s).running /\ WillStart(t, f)
  BY DEF ExecTypeOK, RunFn, WillStart
<1>2. /\ Head(s) \in Frames /\ Tail(s) \in Seq(Frames) /\ Head(s) = s[1]
      /\ Len(Tail(s)) = Len(s) - 1 /\ Len(s) \in Nat \ {0}
      /\ \A i \in 1..Len(Tail(s)) : Tail(s)[i] = s[i + 1]
  <2> HIDE DEF s
  <2> QED
    BY <1>1, PopSeq
<1>3. f \in Functors /\ top \in Frames /\ top.running
  BY <1>2 DEF Frames
<1>4. /\ p \in Seq(Frames) /\ p # <<>> /\ Head(p) = top /\ Len(p) = Len(Tail(s)) + 1
      /\ \A i \in 2..Len(p) : p[i] = Tail(s)[i - 1]
  <2> DEFINE tl == Tail(s)
  <2>1. tl \in Seq(Frames) /\ top \in Frames
    BY <1>2, <1>3
  <2> HIDE DEF tl, top
  <2> QED
    BY <2>1, PushSeq DEF tl
<1>5. stack' = [stack EXCEPT ![t] = p] /\ runs' = [runs EXCEPT ![f] = @ + 1]
      /\ UNCHANGED <<made, fn, armed, ending, released>>
  BY DEF RunFn
<1> HIDE DEF p, top
<1>6. stack' \in [Threads -> Seq(Frames)] /\ stack'[t] = p
      /\ \A u \in Threads \ {t} : stack'[u] = stack[u]
  BY <1>4, <1>5 DEF ExecTypeOK
<1> HIDE DEF f
<1>7. runs' \in [Functors -> Nat] /\ runs'[f] = runs[f] + 1
      /\ \A x \in Functors \ {f} : runs'[x] = runs[x]
  BY <1>3, <1>5 DEF ExecTypeOK
<1>8. ExecTypeOK'
  BY <1>5, <1>6, <1>7 DEF ExecTypeOK
<1>9. ArmedIfStored'
  BY <1>5 DEF ArmedIfStored
<1>10. OnlyTopWaits'
  <2> SUFFICES ASSUME NEW u \in Threads, NEW i \in 2..Len(stack'[u])
               PROVE  stack'[u][i].running
    BY DEF OnlyTopWaits
  <2>1. CASE u = t
    <3>1. i \in 2..Len(p) /\ p[i] = Tail(s)[i - 1]
      BY <1>4, <1>6, <2>1
    <3>2. i - 1 \in 1..Len(Tail(s)) /\ (i - 1) + 1 = i /\ i \in 2..Len(s)
      BY <1>2, <1>4, <3>1
    <3>3. p[i] = s[i]
      BY <1>2, <3>1, <3>2
    <3> QED
      BY <1>6, <2>1, <3>2, <3>3 DEF OnlyTopWaits
  <2>2. CASE u # t
    BY <1>6, <2>2 DEF OnlyTopWaits
  <2> QED
    BY <2>1, <2>2
<1>11. \A u \in Threads, x \in Functors : WillStart(u, x)' => WillStart(u, x) /\ u # t
  BY <1>3, <1>4, <1>6 DEF WillStart
<1>12. ASSUME NEW x \in Functors PROVE InOnePlace(x)'
  <2>1. InOnePlace(x)
    OBVIOUS
  <2>2. CASE x = f
    <3>1. runs[x] = 0 /\ runs'[x] = 1
      BY <1>1, <1>7, <2>1, <2>2 DEF InOnePlace
    <3>2. \A u \in Threads : ~WillStart(u, x)'
      BY <1>1, <1>11, <2>1, <2>2 DEF InOnePlace
    <3>3. \A g \in Guards : fn'[g] # x
      BY <1>1, <1>5, <2>1, <2>2 DEF InOnePlace
    <3> QED
      BY <3>1, <3>2, <3>3 DEF InOnePlace
  <2>3. CASE x # f
    BY <1>5, <1>7, <1>11, <2>1, <2>3 DEF InOnePlace
  <2> QED
    BY <2>2, <2>3
<1> QED
  BY <1>8, <1>9, <1>10, <1>12

LEMMA ReturnKeeps ==
  ASSUME ExecInv, NEW t \in Threads, FnReturns(t)
  PROVE  ExecInv'
<1> USE DEF ExecInv
<1> DEFINE s == stack[t]
           p == Tail(s)
<1>1. s \in Seq(Frames) /\ s # <<>> /\ Head(s).running
  BY DEF ExecTypeOK, FnReturns
<1>2. stack' = [stack EXCEPT ![t] = p] /\ UNCHANGED <<runs, released>>
  BY DEF FnReturns
<1>3. /\ p \in Seq(Frames) /\ Len(p) = Len(s) - 1 /\ Len(s) \in Nat \ {0}
      /\ \A i \in 1..Len(p) : p[i] = s[i + 1]
      /\ p # <<>> => Head(p) = s[2] /\ Len(s) >= 2
  <2> HIDE DEF s
  <2> QED
    BY <1>1, PopSeq
<1> HIDE DEF p
<1>4. stack' \in [Threads -> Seq(Frames)] /\ stack'[t] = p
      /\ \A u \in Threads \ {t} : stack'[u] = stack[u]
  BY <1>2, <1>3 DEF ExecTypeOK
<1>5. /\ fn' \in [Guards -> MaybeFn] /\ armed' \in [Guards -> BOOLEAN]
      /\ made' \subseteq made
      /\ \A g \in Guards :
           \/ g \in Ended(t) /\ fn'[g] = NoFn /\ ~armed'[g]
           \/ fn'[g] = fn[g] /\ (armed'[g] <=> armed[g]) /\ (g \in made => g \in made')
  <2> DEFINE E == Ended(t)
  <2>1. /\ fn' = [g \in Guards |-> IF g \in E THEN NoFn ELSE fn[g]]
        /\ armed' = [g \in Guards |-> armed[g] /\ g \notin E]
        /\ made' = made \ E
    BY DEF FnReturns
  <2> HIDE DEF E
  <2>2. fn' \in [Guards -> MaybeFn]
    BY <2>1 DEF ExecTypeOK, MaybeFn
  <2>3. \A g \in Guards : armed'[g] = (armed[g] /\ g \notin E)
    BY <2>1, Zenon
  <2>4. armed' \in [Guards -> BOOLEAN]
    <3>1. \A g \in Guards : (armed[g] /\ g \notin E) \in BOOLEAN
      BY Zenon
    <3> QED
      BY <2>1, <3>1, Zenon
  <2>5. ASSUME NEW g \in Guards
        PROVE  \/ g \in E /\ fn'[g] = NoFn /\ ~armed'[g]
               \/ fn'[g] = fn[g] /\ (armed'[g] <=> armed[g]) /\ (g \in made => g \in made')
    <3>1. fn'[g] = IF g \in E THEN NoFn ELSE fn[g]
      BY <2>1
    <3>2. g \notin E => (armed'[g] <=> armed[g])
      BY <2>3, Zenon
    <3>3. g \in E => ~armed'[g]
      BY <2>3, Zenon
    <3> QED
      BY <2>1, <3>1, <3>2, <3>3
  <2> QED
    BY <2>1, <2>2, <2>4, <2>5 DEF E
<1>6. ExecTypeOK'
  <2>1. ending' \subseteq Destructors
    BY DEF FnReturns, ExecTypeOK
  <2> QED
    BY <1>2, <1>4, <1>5, <2>1 DEF ExecTypeOK
<1>7. ArmedIfStored'
  BY <1>5 DEF ArmedIfStored
<1>8. \A i \in 2..Len(s) : s[i].running
  BY DEF OnlyTopWaits
<1>9. OnlyTopWaits'
  <2> SUFFICES ASSUME NEW u \in Threads, NEW i \in 2..Len(stack'[u])
               PROVE  stack'[u][i].running
    BY DEF OnlyTopWaits
  <2>1. CASE u = t
    <3>1. i \in 1..Len(p) /\ i + 1 \in 2..Len(s) /\ stack'[u][i] = p[i]
      BY <1>3, <1>4, <2>1
    <3> QED
      BY <1>3, <1>8, <3>1
  <2>2. CASE u # t
    BY <1>4, <2>2 DEF OnlyTopWaits
  <2> QED
    BY <2>1, <2>2
<1>10. p # <<>> => Head(p).running
  BY <1>3, <1>8
<1>11. \A u \in Threads, x \in Functors : WillStart(u, x)' => WillStart(u, x)
  BY <1>4, <1>10 DEF WillStart
<1>12. ASSUME NEW x \in Functors PROVE InOnePlace(x)'
  <2>1. InOnePlace(x)
    OBVIOUS
  <2>2. \A g \in Guards : fn'[g] = x => fn[g] = x
    BY <1>5, ScopedExecAssumption
  <2> QED
    BY <1>2, <1>11, <2>1, <2>2 DEF InOnePlace
<1> QED
  BY <1>6, <1>7, <1>9, <1>12

-----------------------------------------------------------------------------
LEMMA ExecStep == ExecInv /\ [ExecNext]_execVars => ExecInv'
<1> SUFFICES ASSUME ExecInv, [ExecNext]_execVars PROVE ExecInv'
  OBVIOUS
<1>1. ASSUME NEW g \in Guards, NEW f \in Callables, ConstructGuard(g, f) PROVE ExecInv'
  BY <1>1, ConstructKeeps
<1>2. ASSUME NEW t \in Threads, NEW g \in Guards, Invoke(t, g) PROVE ExecInv'
  <2>1. ending' \subseteq Destructors
    BY <1>2 DEF Invoke, ExecInv, ExecTypeOK
  <2> QED
    BY <1>2, <2>1, ExtractKeeps DEF Invoke
<1>3. ASSUME NEW t \in Threads, NEW g \in Guards, Destruct(t, g) PROVE ExecInv'
  <2>1. ending \subseteq Destructors /\ Len(stack[t]) + 1 \in Nat
    BY DEF ExecInv, ExecTypeOK
  <2>2. [guard: {g}, by: {t}, depth: {Len(stack[t]) + 1}] \subseteq Destructors
    BY <2>1 DEF Destructors
  <2>3. ending' \subseteq Destructors /\ made' \in {made, made \ {g}}
    BY <1>3, <2>1, <2>2 DEF Destruct
  <2> QED
    BY <1>3, <2>3, ExtractKeeps DEF Destruct
<1>4. ASSUME NEW t \in Threads, NEW g \in Guards, ReleaseFn(t, g) PROVE ExecInv'
  BY <1>4, ReleaseKeeps
<1>5. ASSUME NEW t \in Threads, NEW g \in Guards, NEW f \in Callables, ResetFn(t, g, f)
      PROVE  ExecInv'
  BY <1>5, ResetKeeps
<1>6. ASSUME NEW t \in Threads, NEW g \in Guards, NEW other \in Guards,
             MoveGuard(t, g, other)
      PROVE  ExecInv'
  BY <1>6, MoveKeeps
<1>7. ASSUME NEW t \in Threads, RunFn(t) PROVE ExecInv'
  BY <1>7, RunKeeps
<1>8. ASSUME NEW t \in Threads, FnReturns(t) PROVE ExecInv'
  BY <1>8, ReturnKeeps
<1>9. CASE UNCHANGED execVars
  BY <1>9 DEF execVars, ExecInv, ExecTypeOK, ArmedIfStored, OnlyTopWaits, InOnePlace, WillStart
<1> QED
  BY <1>1, <1>2, <1>3, <1>4, <1>5, <1>6, <1>7, <1>8, <1>9 DEF ExecNext

\* Where a functor is, and that it is in one place, whatever threads and
\* running functors race for the guards (scoped_exec.h, every method).
THEOREM ExecInvariant == ExecSpec => []ExecInv
<1>1. ExecInit => ExecInv
  <2> SUFFICES ASSUME ExecInit PROVE ExecInv
    OBVIOUS
  <2>1. ExecTypeOK
    BY DEF ExecInit, ExecTypeOK, MaybeFn
  <2>2. ArmedIfStored /\ OnlyTopWaits
    BY DEF ExecInit, ArmedIfStored, OnlyTopWaits
  <2>3. \A f \in Functors : InOnePlace(f)
    BY ScopedExecAssumption DEF ExecInit, InOnePlace, WillStart
  <2> QED
    BY <2>1, <2>2, <2>3 DEF ExecInv
<1> QED
  BY <1>1, ExecStep, PTL DEF ExecSpec

\* "The functor is guaranteed to execute at most once" (scoped_exec.h:93).
THEOREM RunsAtMostOnce == ExecSpec => []AtMostOnce
<1>1. ExecInv => AtMostOnce
  BY DEF ExecInv, InOnePlace, AtMostOnce
<1> QED
  BY <1>1, ExecInvariant, PTL

\* A functor stays with a guard or a thread until it runs or release() hands
\* it back: a guard that is moved from, reset or destroyed drops none, except
\* what the functor that ~ScopedExec runs stored in its own guard
\* (scoped_exec.h:228-236 against the comment at 95-97).
THEOREM NothingIsDropped == ExecSpec => NoneDropped
<1> DEFINE Kept(f) ==
      Pending(f) => \/ Pending(f)' \/ EndsHolding(f)
                    \/ f \in released' \/ runs'[f] = runs[f] + 1
<1>1. ASSUME ExecInv, [ExecNext]_execVars, NEW f \in Functors PROVE Kept(f)
  <2> USE <1>1
  <2>1. f # NoFn
    BY ScopedExecAssumption
  <2>2. fn \in [Guards -> MaybeFn] /\ made \subseteq Guards
    BY DEF ExecInv, ExecTypeOK
  <2>3. ASSUME NEW t \in Threads, NEW g \in Guards, MayCall(t), WillRun(t, Old(g))
        PROVE  /\ \A u \in Threads : WillStart(u, f) => WillStart(u, f)'
               /\ fn[g] = f => WillStart(t, f)'
    <3> DEFINE old == Old(g)
    <3>1. old \in MaybeFn /\ old = fn[g] /\ WillRun(t, old)
      BY <2>3, OldIsStored
    <3> HIDE DEF old
    <3>2. \A u \in Threads, x \in Functors :
            WillStart(u, x)' <=> WillStart(u, x) \/ (u = t /\ x = old)
      BY <2>3, <3>1, TakesOut
    <3> QED
      BY <3>1, <3>2
  <2>4. ASSUME NEW g \in Guards, NEW x \in Callables, ConstructGuard(g, x) PROVE Kept(f)
    <3>1. \A a \in made : fn'[a] = fn[a] /\ a \in made'
      BY <2>2, <2>4 DEF ConstructGuard
    <3>2. \A t \in Threads : WillStart(t, f) => WillStart(t, f)'
      BY <2>4 DEF ConstructGuard, WillStart
    <3> QED
      BY <3>1, <3>2 DEF Pending
  <2>5. ASSUME NEW t \in Threads, NEW g \in Guards, MayCall(t), ExtractIfArmed(t, g),
               made' \in {made, made \ {g}}
        PROVE  Kept(f)
    <3>1. \A a \in made : a # g => fn'[a] = fn[a] /\ a \in made'
      BY <2>2, <2>5 DEF ExtractIfArmed
    <3> QED
      BY <2>3, <2>5, <3>1 DEF Pending, ExtractIfArmed
  <2>6. ASSUME NEW t \in Threads, NEW g \in Guards, ReleaseFn(t, g) PROVE Kept(f)
    <3>1. \A a \in made : a # g => fn'[a] = fn[a] /\ a \in made'
      BY <2>2, <2>6 DEF ReleaseFn
    <3>2. fn[g] = f => f \in released'
      BY <2>1, <2>6 DEF ReleaseFn
    <3>3. \A u \in Threads : WillStart(u, f) => WillStart(u, f)'
      BY <2>6 DEF ReleaseFn, WillStart
    <3> QED
      BY <3>1, <3>2, <3>3 DEF Pending
  <2>7. ASSUME NEW t \in Threads, NEW g \in Guards, NEW x \in Callables, ResetFn(t, g, x)
        PROVE  Kept(f)
    <3>1. \A a \in made : a # g => fn'[a] = fn[a] /\ a \in made'
      BY <2>2, <2>7 DEF ResetFn
    <3> QED
      BY <2>3, <2>7, <3>1 DEF Pending, ResetFn
  <2>8. ASSUME NEW t \in Threads, NEW g \in Guards, NEW other \in Guards,
               MoveGuard(t, g, other)
        PROVE  Kept(f)
    <3>1. \A a \in made : a \notin {g, other} => fn'[a] = fn[a] /\ a \in made'
      BY <2>2, <2>8 DEF MoveGuard
    <3>2. fn[other] = f => fn'[g] = f /\ g \in made'
      BY <2>2, <2>8 DEF MoveGuard
    <3> QED
      BY <2>3, <2>8, <3>1, <3>2 DEF Pending, MoveGuard
  <2>9. ASSUME NEW t \in Threads, RunFn(t) PROVE Kept(f)
    <3>1. \A u \in Threads : u # t /\ WillStart(u, f) => WillStart(u, f)'
      BY <2>9 DEF RunFn, WillStart
    <3>2. WillStart(t, f) => runs'[f] = runs[f] + 1
      BY <2>9 DEF RunFn, WillStart, ExecInv, ExecTypeOK
    <3>3. fn' = fn /\ made' = made
      BY <2>9 DEF RunFn
    <3> QED
      BY <3>1, <3>2, <3>3 DEF Pending
  <2>10. ASSUME NEW t \in Threads, FnReturns(t) PROVE Kept(f)
    <3>1. \A u \in Threads : WillStart(u, f) => WillStart(u, f)'
      BY <2>10 DEF FnReturns, WillStart
    <3>2. ASSUME NEW a \in made, fn[a] = f
          PROVE  EndsHolding(f) \/ (a \in made' /\ fn'[a] = f)
      <4>1. CASE a \in Ended(t)
        <5>1. PICK e \in ending : e.guard = a
          BY <4>1 DEF Ended, Ending
        <5>2. a \notin made'
          BY <2>10, <4>1 DEF FnReturns
        <5> QED
          BY <3>2, <5>1, <5>2 DEF EndsHolding
      <4>2. CASE a \notin Ended(t)
        BY <2>2, <2>10, <3>2, <4>2 DEF FnReturns
      <4> QED
        BY <4>1, <4>2
    <3> QED
      BY <3>1, <3>2 DEF Pending
  <2>11. CASE UNCHANGED execVars
    BY <2>11 DEF execVars, Pending, WillStart
  <2>12. ASSUME NEW t \in Threads, NEW g \in Guards, Invoke(t, g) \/ Destruct(t, g)
         PROVE  Kept(f)
    <3>1. MayCall(t) /\ ExtractIfArmed(t, g) /\ made' \in {made, made \ {g}}
      BY <2>12 DEF Invoke, Destruct
    <3> QED
      BY <2>5, <3>1
  <2> HIDE DEF Kept
  <2> QED
    BY <2>4, <2>6, <2>7, <2>8, <2>9, <2>10, <2>11, <2>12 DEF ExecNext
<1>2. ExecInv /\ [ExecNext]_execVars => [\A f \in Functors : Kept(f)]_execVars
  BY <1>1
<1> QED
  BY <1>2, ExecInvariant, PTL DEF ExecSpec, NoneDropped

-----------------------------------------------------------------------------
(* The chains of an arena, counted from the oldest block. *)

Height(a) == Len(chain[a])
At(a, p) == chain[a][Height(a) + 1 - p]

LEMMA AlignUpBounds ==
  ASSUME NEW v \in Nat, NEW n \in Nat \ {0}
  PROVE  /\ AlignUp(v, n) \in Nat
         /\ v <= AlignUp(v, n) /\ AlignUp(v, n) <= v + n - 1
         /\ AlignUp(v, n) % n = 0
<1> DEFINE q == (v + n - 1) \div n
           r == (v + n - 1) % n
<1>1. q \in Nat /\ r \in 0..(n - 1) /\ v + n - 1 = n * q + r
  OBVIOUS
<1> HIDE DEF q, r
<1>2. q * n \in Nat /\ q * n = n * q
  BY <1>1
<1>3. (q * n) % n = 0
  BY <1>1
<1> QED
  BY <1>1, <1>2, <1>3 DEF AlignUp, q

LEMMA AddressTypes ==
  ASSUME NEW x \in Addresses
  PROVE  x \in Nat
<1> DEFINE largest == CHOOSE a \in Alignments : \A b \in Alignments : b <= a
<1>1. largest \in Alignments
  BY ArenaAssumption
<1>2. largest \in Nat
  BY <1>1, ArenaAssumption DEF Alignments
<1> QED
  BY <1>2 DEF Addresses

BlockRecords == [capacity: Nat, used: Nat, data: Nat]
Allocations == [block: BlockIds, from: Nat, to: Nat, align: Nat \ {0}]
MarkRecords ==
  [valid: {TRUE}, arena: Arenas, block: BlockIds, used: Nat, age: Nat,
   keep: SUBSET Allocations, saved: Seq(BlockRecords)]

ArenaTypes ==
  /\ chain \in [Arenas -> Seq(BlockIds)]
  /\ block \in [BlockIds -> BlockRecords]
  /\ factor \in [Arenas -> Nat \ {0}]
  /\ mark \in [MarkSlots -> MarkRecords \cup {NoMark}]
  /\ live \in SUBSET Allocations

UsedFits ==
  \A b \in BlockIds :
    /\ block[b].used <= block[b].capacity
    /\ block[b] # NoBlock => 0 < block[b].capacity

\* BlocksOwnedOnce, with blocks counted from the oldest.
OwnedOnce ==
  /\ \A b \in BlockIds :
       block[b] # NoBlock <=> \E a \in Arenas : \E p \in 1..Height(a) : At(a, p) = b
  /\ \A a, c \in Arenas : \A p \in 1..Height(a), q \in 1..Height(c) :
       At(a, p) = At(c, q) => a = c /\ p = q

\* A mark remembers its arena's blocks: those below the one that was current
\* are as they were, and that one has only been filled further.  What it keeps
\* is live and lies below the mark.
MarkRight(r) ==
  LET k == Len(r.saved) IN
  /\ k \in 1..Height(r.arena)
  /\ r.block = At(r.arena, k)
  /\ \A p \in 1..(k - 1) : r.saved[k + 1 - p] = block[At(r.arena, p)]
  /\ r.saved[1].capacity = block[r.block].capacity
  /\ r.saved[1].data = block[r.block].data
  /\ r.saved[1].used = r.used
  /\ r.used <= block[r.block].used
  /\ r.keep \subseteq live
  /\ \A x \in r.keep : x.block = r.block => x.to <= r.used
  /\ \A x \in r.keep : \E p \in 1..k : x.block = At(r.arena, p)

Older(r, o) ==
  /\ Len(r.saved) <= Len(o.saved)
  /\ Len(r.saved) = Len(o.saved) => r.used <= o.used
  /\ r.keep \subseteq o.keep

MarksRight == \A m \in MarkSlots : mark[m].valid => MarkRight(mark[m])

MarksOrdered ==
  \A m, o \in MarkSlots :
    m # o /\ mark[m].valid /\ mark[o].valid /\ mark[m].arena = mark[o].arena =>
      /\ mark[m].age # mark[o].age
      /\ mark[m].age < mark[o].age => Older(mark[m], mark[o])

AgesSmall ==
  \A m \in MarkSlots :
    mark[m].valid => mark[m].age < Cardinality(Marks(mark[m].arena))

ArenaInv ==
  /\ ArenaTypes
  /\ UsedFits
  /\ OwnedOnce
  /\ LiveAllocationsIntact
  /\ MarksRight
  /\ MarksOrdered
  /\ AgesSmall
  /\ checkFailed = FALSE

-----------------------------------------------------------------------------
(* Chains. *)

LEMMA AtFacts ==
  ASSUME chain \in [Arenas -> Seq(BlockIds)], NEW a \in Arenas
  PROVE  /\ Height(a) \in Nat
         /\ \A p \in 1..Height(a) : At(a, p) \in BlockIds
         /\ \A i \in DOMAIN chain[a] : /\ Height(a) + 1 - i \in 1..Height(a)
                                       /\ chain[a][i] = At(a, Height(a) + 1 - i)
         /\ BlocksOf(a) = {At(a, p) : p \in 1..Height(a)}
         /\ chain[a] # <<>> <=> Height(a) > 0
         /\ chain[a] # <<>> => Head(chain[a]) = At(a, Height(a))
<1>1. chain[a] \in Seq(BlockIds) /\ Height(a) \in Nat /\ DOMAIN chain[a] = 1..Height(a)
  BY DEF Height
<1>2. \A p \in 1..Height(a) : Height(a) + 1 - p \in 1..Height(a)
  BY <1>1
<1>3. \A p \in 1..Height(a) : At(a, p) \in BlockIds
  BY <1>1, <1>2 DEF At
<1>4. \A i \in DOMAIN chain[a] : /\ Height(a) + 1 - i \in 1..Height(a)
                               /\ chain[a][i] = At(a, Height(a) + 1 - i)
  <2> TAKE i \in DOMAIN chain[a]
  <2>1. Height(a) + 1 - (Height(a) + 1 - i) = i
    BY <1>1
  <2> QED
    BY <1>1, <1>2, <2>1 DEF At
<1>5. BlocksOf(a) = {At(a, p) : p \in 1..Height(a)}
  <2>1. \A p \in 1..Height(a) : At(a, p) \in BlocksOf(a)
    BY <1>1, <1>2 DEF At, BlocksOf
  <2>2. \A x \in BlocksOf(a) : \E p \in 1..Height(a) : x = At(a, p)
    BY <1>4 DEF BlocksOf
  <2> QED
    BY <2>1, <2>2
<1>6. chain[a] # <<>> <=> Height(a) > 0
  BY <1>1 DEF Height
<1>7. chain[a] # <<>> => Head(chain[a]) = At(a, Height(a))
  <2>1. Height(a) + 1 - Height(a) = 1
    BY <1>1
  <2> QED
    BY <1>1, <2>1 DEF At
<1> QED
  BY <1>1, <1>3, <1>4, <1>5, <1>6, <1>7

LEMMA OthersSame ==
  ASSUME NEW c \in Arenas, chain'[c] = chain[c]
  PROVE  Height(c)' = Height(c) /\ \A p : At(c, p)' = At(c, p)
BY DEF Height, At

LEMMA Pushed ==
  ASSUME chain \in [Arenas -> Seq(BlockIds)], NEW a \in Arenas, NEW b \in BlockIds,
         chain' = [chain EXCEPT ![a] = <<b>> \o @]
  PROVE  /\ chain' \in [Arenas -> Seq(BlockIds)]
         /\ Height(a)' = Height(a) + 1
         /\ \A p \in 1..Height(a) : At(a, p)' = At(a, p)
         /\ \A p : p = Height(a) + 1 => At(a, p)' = b
         /\ \A c \in Arenas \ {a} : chain'[c] = chain[c]
<1> DEFINE s == chain[a]
           t == <<b>> \o s
<1>1. s \in Seq(BlockIds) /\ Len(s) \in Nat /\ Height(a) = Len(s)
  BY DEF Height
<1>2. t \in Seq(BlockIds) /\ Len(t) = Len(s) + 1 /\ t[1] = b
      /\ \A i \in 2..Len(t) : t[i] = s[i - 1]
  <2> HIDE DEF s
  <2> QED
    BY <1>1
<1>3. chain' = [chain EXCEPT ![a] = t]
  OBVIOUS
<1> HIDE DEF t
<1>4. chain' \in [Arenas -> Seq(BlockIds)] /\ chain'[a] = t
      /\ \A c \in Arenas \ {a} : chain'[c] = chain[c]
  BY <1>2, <1>3
<1>5. Height(a)' = Height(a) + 1
  BY <1>1, <1>2, <1>4 DEF Height
<1>6. ASSUME NEW p \in 1..Height(a) PROVE At(a, p)' = At(a, p)
  <2>1. Len(t) + 1 - p \in 2..Len(t) /\ (Len(t) + 1 - p) - 1 = Len(s) + 1 - p
    BY <1>1, <1>2
  <2>2. t[Len(t) + 1 - p] = s[Len(s) + 1 - p]
    BY <1>2, <2>1
  <2> QED
    BY <1>4, <2>2 DEF At, Height
<1>7. ASSUME NEW p, p = Height(a) + 1 PROVE At(a, p)' = b
  <2>1. Len(t) + 1 - p = 1
    BY <1>1, <1>2, <1>7
  <2>2. At(a, p)' = t[Len(t) + 1 - p]
    BY <1>4 DEF At, Height
  <2> QED
    BY <1>2, <2>1, <2>2
<1> QED
  BY <1>4, <1>5, <1>6, <1>7

LEMMA CutBack ==
  ASSUME chain \in [Arenas -> Seq(BlockIds)], NEW a \in Arenas, NEW k \in 1..Height(a),
         chain' = [chain EXCEPT ![a] = SubSeq(@, Height(a) + 1 - k, Len(@))]
  PROVE  /\ chain' \in [Arenas -> Seq(BlockIds)]
         /\ Height(a)' = k
         /\ \A p \in 1..k : At(a, p)' = At(a, p)
         /\ \A c \in Arenas \ {a} : chain'[c] = chain[c]
<1> DEFINE s == chain[a]
           from == Height(a) + 1 - k
           t == SubSeq(s, from, Len(s))
<1>1. s \in Seq(BlockIds) /\ Len(s) \in Nat /\ Height(a) = Len(s)
      /\ from \in 1..Len(s) /\ k \in 1..Len(s) /\ from = Len(s) + 1 - k
  BY DEF Height
<1>2. t \in Seq(BlockIds) /\ Len(t) = k /\ \A i \in 1..k : t[i] = s[from + i - 1]
  <2> HIDE DEF s, from
  <2> QED
    BY <1>1
<1>3. chain' = [chain EXCEPT ![a] = t]
  OBVIOUS
<1> HIDE DEF t
<1>4. chain' \in [Arenas -> Seq(BlockIds)] /\ chain'[a] = t
      /\ \A c \in Arenas \ {a} : chain'[c] = chain[c]
  BY <1>2, <1>3
<1>5. Height(a)' = k
  BY <1>2, <1>4 DEF Height
<1>6. ASSUME NEW p \in 1..k PROVE At(a, p)' = At(a, p)
  <2>1. k + 1 - p \in 1..k /\ from + (k + 1 - p) - 1 = Len(s) + 1 - p
    BY <1>1
  <2>2. t[k + 1 - p] = s[Len(s) + 1 - p]
    BY <1>2, <2>1
  <2> QED
    BY <1>4, <1>2, <2>2 DEF At, Height
<1> QED
  BY <1>4, <1>5, <1>6

-----------------------------------------------------------------------------
(* Marks. *)

\* A mark stays right while its blocks stay where they are, the older ones
\* untouched, and what it keeps stays live.
LEMMA MarkStays ==
  ASSUME NEW r \in MarkRecords, MarkRight(r), ArenaTypes,
         NEW h \in Nat, h = Height(r.arena)', Len(r.saved) <= h,
         \A p \in 1..Len(r.saved) : At(r.arena, p)' = At(r.arena, p),
         \A p \in 1..(Len(r.saved) - 1) :
           block'[At(r.arena, p)] = block[At(r.arena, p)],
         block'[r.block].capacity = block[r.block].capacity,
         block'[r.block].data = block[r.block].data,
         r.used <= block'[r.block].used,
         r.keep \subseteq live'
  PROVE  MarkRight(r)'
<1> DEFINE k == Len(r.saved)
<1>1. k \in 1..Height(r.arena) /\ k \in Nat
  BY DEF MarkRight, MarkRecords
<1>2. k \in 1..h
  BY <1>1
<1>3. r.block = At(r.arena, k)'
  BY <1>1 DEF MarkRight
<1>4. \A p \in 1..(k - 1) : r.saved[k + 1 - p] = block'[At(r.arena, p)']
  BY <1>1 DEF MarkRight
<1>5. \A x \in r.keep : \E p \in 1..k : x.block = At(r.arena, p)'
  BY DEF MarkRight
<1>6. /\ r.saved[1].capacity = block'[r.block].capacity
      /\ r.saved[1].data = block'[r.block].data
      /\ r.saved[1].used = r.used
      /\ \A x \in r.keep : x.block = r.block => x.to <= r.used
  BY DEF MarkRight
<1> QED
  BY <1>2, <1>3, <1>4, <1>5, <1>6 DEF MarkRight

\* The blocks of a mark belong to its arena, and to no other.
LEMMA MarkBlocks ==
  ASSUME ArenaInv, NEW m \in MarkSlots, mark[m].valid
  PROVE  /\ mark[m] \in MarkRecords /\ mark[m].arena \in Arenas /\ MarkRight(mark[m])
         /\ Len(mark[m].saved) \in 1..Height(mark[m].arena)
         /\ Height(mark[m].arena) \in Nat
         /\ mark[m].block = At(mark[m].arena, Len(mark[m].saved))
         /\ mark[m].block \in BlockIds
         /\ \A x \in mark[m].keep : x.block \in BlocksOf(mark[m].arena)
<1>1. mark[m] \in MarkRecords
  BY DEF ArenaInv, ArenaTypes, NoMark
<1>2. MarkRight(mark[m])
  BY DEF ArenaInv, MarksRight
<1>3. mark[m].arena \in Arenas /\ mark[m].block \in BlockIds
  BY <1>1 DEF MarkRecords
<1>4. /\ Height(mark[m].arena) \in Nat
      /\ BlocksOf(mark[m].arena) = {At(mark[m].arena, p) : p \in 1..Height(mark[m].arena)}
  BY <1>3, AtFacts DEF ArenaInv, ArenaTypes
<1>5. Len(mark[m].saved) \in 1..Height(mark[m].arena)
      /\ mark[m].block = At(mark[m].arena, Len(mark[m].saved))
  BY <1>2 DEF MarkRight
<1>6. \A x \in mark[m].keep : x.block \in BlocksOf(mark[m].arena)
  <2> TAKE x \in mark[m].keep
  <2>1. PICK p \in 1..Len(mark[m].saved) : x.block = At(mark[m].arena, p)
    BY <1>2 DEF MarkRight
  <2>2. p \in 1..Height(mark[m].arena)
    BY <1>4, <1>5
  <2> QED
    BY <1>4, <2>1, <2>2
<1> QED
  BY <1>1, <1>2, <1>3, <1>4, <1>5, <1>6

\* A step that leaves the marks alone and gives an arena with marks only more.
LEMMA MarksKept ==
  ASSUME ArenaInv, mark' = mark, block' \in [BlockIds -> BlockRecords],
         \A a \in Arenas : Marks(a) # {} =>
           /\ Height(a)' \in Nat /\ Height(a) <= Height(a)'
           /\ \A p \in 1..Height(a) :
                /\ At(a, p)' = At(a, p)
                /\ p < Height(a) => block'[At(a, p)] = block[At(a, p)]
                /\ block'[At(a, p)].capacity = block[At(a, p)].capacity
                /\ block'[At(a, p)].data = block[At(a, p)].data
                /\ block[At(a, p)].used <= block'[At(a, p)].used
           /\ \A x \in live : x.block \in BlocksOf(a) => x \in live'
  PROVE  MarksRight' /\ MarksOrdered' /\ AgesSmall'
<1>1. MarksOrdered' /\ AgesSmall'
  BY DEF ArenaInv, MarksOrdered, AgesSmall, Older, Marks
<1>2. ASSUME NEW m \in MarkSlots, mark[m].valid PROVE MarkRight(mark[m])'
  <2> DEFINE r == mark[m]
             a == r.arena
             k == Len(r.saved)
  <2>1. r \in MarkRecords /\ a \in Arenas /\ MarkRight(r) /\ k \in 1..Height(a)
        /\ Height(a) \in Nat /\ r.block = At(a, k)
        /\ \A x \in r.keep : x.block \in BlocksOf(a)
    BY <1>2, MarkBlocks
  <2>2. Marks(a) # {}
    BY <1>2 DEF Marks
  <2>3. r.used \in Nat
    BY <2>1 DEF MarkRecords
  <2>4. PICK q \in MarkRecords : q = r
    BY <2>1
  <2> DEFINE b == q.arena
  <2>5. /\ b \in Arenas /\ MarkRight(q) /\ Len(q.saved) \in 1..Height(b)
        /\ Height(b) \in Nat /\ q.block = At(b, Len(q.saved)) /\ Marks(b) # {}
        /\ q.used \in Nat /\ \A x \in q.keep : x.block \in BlocksOf(b)
    BY <2>1, <2>2, <2>3, <2>4
  <2> HIDE DEF r, a, k
  <2>6. /\ Height(b)' \in Nat /\ Height(b) <= Height(b)'
        /\ \A p \in 1..Height(b) :
             /\ At(b, p)' = At(b, p)
             /\ p < Height(b) => block'[At(b, p)] = block[At(b, p)]
             /\ block'[At(b, p)].capacity = block[At(b, p)].capacity
             /\ block'[At(b, p)].data = block[At(b, p)].data
             /\ block[At(b, p)].used <= block'[At(b, p)].used
        /\ \A x \in live : x.block \in BlocksOf(b) => x \in live'
    BY <2>5
  <2>7. \A p \in 1..Len(q.saved) : p \in 1..Height(b) /\ (p < Len(q.saved) => p < Height(b))
    BY <2>5
  <2>8. /\ \A p \in 1..Len(q.saved) : At(q.arena, p)' = At(q.arena, p)
        /\ \A p \in 1..(Len(q.saved) - 1) :
              block'[At(q.arena, p)] = block[At(q.arena, p)]
        /\ block'[q.block].capacity = block[q.block].capacity
        /\ block'[q.block].data = block[q.block].data
        /\ block[q.block].used <= block'[q.block].used
    BY <2>5, <2>6, <2>7
  <2>9. q.keep \subseteq live'
    BY <2>5, <2>6 DEF MarkRight
  <2>10. q.used <= block'[q.block].used
    <3>1. q.used <= block[q.block].used /\ q.block \in BlockIds
      BY <2>5 DEF MarkRight, MarkRecords
    <3>2. block[q.block].used \in Nat /\ block'[q.block].used \in Nat
      BY <3>1 DEF ArenaInv, ArenaTypes, BlockRecords
    <3> QED
      BY <2>8, <2>5, <3>1, <3>2
  <2>11. Len(q.saved) <= Height(b)'
    BY <2>5, <2>6
  <2>12. ArenaTypes
    BY DEF ArenaInv
  <2>13. MarkRight(q)'
    BY <2>5, <2>6, <2>8, <2>9, <2>10, <2>11, <2>12, MarkStays
  <2>14. mark'[m] = q
    BY <2>4 DEF r
  <2> QED
    BY <2>13, <2>14
<1>3. MarksRight'
  BY <1>2 DEF MarksRight
<1> QED
  BY <1>1, <1>3

-----------------------------------------------------------------------------
(* Allocation. *)

LEMMA FreshFits ==
  ASSUME ArenaTypes, NEW a \in Arenas, chain[a] # <<>>, NEW size \in Nat \ {0},
         NEW align \in Nat \ {0}, NEW address \in Nat
  PROVE  LET blk == [capacity |-> NewCapacity(a, size, align), used |-> 0, data |-> address]
         IN  blk \in BlockRecords /\ Fits(blk, size, align)
<1> DEFINE cap == NewCapacity(a, size, align)
           blk == [capacity |-> cap, used |-> 0, data |-> address]
           up == AlignUp(size + Header, align)
           pad == AlignUp(address, align)
<1>1. up \in Nat /\ size + Header <= up /\ Header \in Nat
  <2>1. size + Header \in Nat /\ Header \in Nat
    BY ArenaAssumption
  <2> QED
    BY <2>1, AlignUpBounds
<1>2. pad \in Nat /\ pad <= address + align - 1
  BY AlignUpBounds
<1>3. cap \in Nat /\ up + align <= cap
  <2>1. Head(chain[a]) \in BlockIds
    BY DEF ArenaTypes
  <2> DEFINE x == block[Head(chain[a])].capacity * factor[a]
  <2>2. x \in Nat
    BY <2>1 DEF ArenaTypes, BlockRecords
  <2>3. cap = Larger(x, up + align)
    BY DEF NewCapacity
  <2> HIDE DEF x, cap, up
  <2> QED
    BY <1>1, <2>2, <2>3 DEF Larger
<1> HIDE DEF cap, up
<1>4. blk \in BlockRecords /\ blk.capacity = cap /\ blk.used = 0 /\ blk.data = address
  BY <1>3 DEF BlockRecords
<1>5. Padding(blk, align) = pad - address
  <2>1. address + 0 = address
    OBVIOUS
  <2> QED
    BY <1>4, <2>1 DEF Padding
<1> HIDE DEF blk, pad
<1>6. Fits(blk, size, align)
  BY <1>1, <1>2, <1>3, <1>4, <1>5 DEF Fits
<1> QED
  BY <1>4, <1>6 DEF cap, blk

\* A request that fits is served above everything handed out before.
LEMMA ServedLive ==
  ASSUME ArenaTypes, UsedFits, LiveAllocationsIntact,
         NEW b \in BlockIds, NEW blk \in BlockRecords, blk.used <= blk.capacity,
         blk = block[b] \/ (block[b] = NoBlock /\ blk.used = 0),
         NEW size \in Nat \ {0}, NEW align \in Nat \ {0},
         Fits(blk, size, align), Serve(b, blk, size, align)
  PROVE  /\ block' \in [BlockIds -> BlockRecords]
         /\ \A c \in BlockIds \ {b} : block'[c] = block[c]
         /\ block'[b].capacity = blk.capacity /\ block'[b].data = blk.data
         /\ blk.used <= block'[b].used /\ block'[b].used <= block'[b].capacity
         /\ block'[b] # NoBlock /\ 0 < block'[b].capacity
         /\ live' \in SUBSET Allocations /\ live \subseteq live'
         /\ LiveAllocationsIntact'
         /\ checkFailed' = checkFailed
<1> DEFINE pad == Padding(blk, align)
           start == blk.used + pad
           rec == [blk EXCEPT !.used = start + size]
           new == [block |-> b, from |-> start, to |-> start + size, align |-> align]
<1>1. blk.used \in Nat /\ blk.capacity \in Nat /\ blk.data \in Nat
  BY DEF BlockRecords
<1>2. pad \in Nat /\ (blk.data + start) % align = 0
  <2>1. blk.data + blk.used \in Nat
    BY <1>1
  <2> DEFINE v == blk.data + blk.used
  <2>2. /\ AlignUp(v, align) \in Nat /\ v <= AlignUp(v, align)
        /\ AlignUp(v, align) % align = 0
    BY <2>1, AlignUpBounds
  <2>3. pad = AlignUp(v, align) - v
    BY DEF Padding
  <2> HIDE DEF pad
  <2>4. blk.data + start = AlignUp(v, align)
    BY <1>1, <2>1, <2>2, <2>3
  <2> QED
    BY <2>1, <2>2, <2>3, <2>4
<1>3. pad + size <= blk.capacity - blk.used
  BY DEF Fits
<1>4. block' = [block EXCEPT ![b] = rec] /\ live' = live \cup {new} /\ checkFailed' = checkFailed
  BY DEF Serve
<1> HIDE DEF pad
<1>5. start \in Nat /\ start + size \in Nat /\ blk.used <= start /\ start + size <= blk.capacity
      /\ start + size > 0
  BY <1>1, <1>2, <1>3
<1> HIDE DEF start
<1>6. rec \in BlockRecords /\ rec.used = start + size /\ rec.capacity = blk.capacity
      /\ rec.data = blk.data
  BY <1>5 DEF BlockRecords
<1>7. rec # NoBlock
  BY <1>5, <1>6 DEF NoBlock
<1> HIDE DEF rec
<1>8. block' \in [BlockIds -> BlockRecords] /\ block'[b] = rec
      /\ \A c \in BlockIds \ {b} : block'[c] = block[c]
  BY <1>4, <1>6 DEF ArenaTypes
<1>9. new \in Allocations /\ new.block = b /\ new.from = start /\ new.to = start + size
      /\ new.align = align
  BY <1>5 DEF Allocations
<1> HIDE DEF new
<1>10. live' \in SUBSET Allocations
  BY <1>4, <1>9 DEF ArenaTypes
\* What is live in the block lies below the new allocation.
<1>11. ASSUME NEW x \in live, x.block = b
       PROVE  x.to <= start /\ x.to <= rec.used /\ (rec.data + x.from) % x.align = 0
  <2>1. blk = block[b] /\ x.to <= blk.used /\ (blk.data + x.from) % x.align = 0
    BY <1>11 DEF LiveAllocationsIntact
  <2>2. x.to \in Nat
    BY DEF ArenaTypes, Allocations
  <2> QED
    BY <1>1, <1>5, <1>6, <2>1, <2>2
<1>12. ASSUME NEW x \in live'
       PROVE  /\ block'[x.block] # NoBlock
              /\ x.to <= block'[x.block].used
              /\ (block'[x.block].data + x.from) % x.align = 0
  <2>1. CASE x = new
    BY <1>2, <1>5, <1>6, <1>7, <1>8, <1>9, <2>1
  <2>2. CASE x \in live /\ x.block = b
    BY <1>7, <1>8, <1>11, <2>2
  <2>3. CASE x \in live /\ x.block # b
    <3>1. x.block \in BlockIds
      BY <2>3 DEF ArenaTypes, Allocations
    <3> QED
      BY <1>8, <2>3, <3>1 DEF LiveAllocationsIntact
  <2> QED
    BY <1>4, <1>12, <2>1, <2>2, <2>3
<1>13. ASSUME NEW x \in live', NEW y \in live', x # y, x.block = y.block
       PROVE  x.to <= y.from \/ y.to <= x.from
  <2>1. CASE x = new
    BY <1>4, <1>9, <1>11, <1>13, <2>1
  <2>2. CASE y = new
    BY <1>4, <1>9, <1>11, <1>13, <2>2
  <2>3. CASE x \in live /\ y \in live
    BY <1>13, <2>3 DEF LiveAllocationsIntact
  <2> QED
    BY <1>4, <1>13, <2>1, <2>2, <2>3
<1>14. LiveAllocationsIntact'
  BY <1>12, <1>13 DEF LiveAllocationsIntact
<1>15. blk.used <= rec.used /\ rec.used <= rec.capacity /\ 0 < rec.capacity
  BY <1>1, <1>5, <1>6
<1> QED
  BY <1>4, <1>6, <1>7, <1>8, <1>10, <1>14, <1>15

LEMMA AllocKeeps ==
  ASSUME ArenaInv, NEW a \in Arenas, NEW size \in Nat \ {0}, NEW align \in Nat \ {0},
         AllocBytes(a, size, align)
  PROVE  ArenaInv'
<1> USE DEF ArenaInv
<1> DEFINE c == Head(chain[a])
           h == Height(a)
<1>1. /\ c = At(a, h) /\ h \in 1..h /\ c \in BlockIds /\ h \in Nat
      /\ chain[a] # <<>>
      /\ \A d \in Arenas : BlocksOf(d) = {At(d, p) : p \in 1..Height(d)}
      /\ \A d \in Arenas : Height(d) \in Nat /\ \A p \in 1..Height(d) : At(d, p) \in BlockIds
  BY AtFacts DEF AllocBytes, ArenaTypes
<1>2. factor' = factor /\ mark' = mark
  BY DEF AllocBytes
<1>3. CASE /\ Fits(block[c], size, align) /\ Serve(c, block[c], size, align)
           /\ chain' = chain
  <2> DEFINE blk == block[c]
  <2>1. blk \in BlockRecords /\ blk.used <= blk.capacity
    <3>1. blk \in BlockRecords
      BY <1>1 DEF ArenaTypes
    <3>2. \A b \in BlockIds : block[b].used <= block[b].capacity
      BY DEF UsedFits
    <3>3. blk.used <= blk.capacity
      BY <1>1, <3>2
    <3> QED
      BY <3>1, <3>3
  <2>2. Fits(blk, size, align) /\ Serve(c, blk, size, align)
    BY <1>3
  <2> HIDE DEF c, ArenaInv
  <2>3. ArenaTypes /\ UsedFits /\ LiveAllocationsIntact /\ OwnedOnce /\ checkFailed = FALSE
    BY DEF ArenaInv
  <2>4. /\ block' \in [BlockIds -> BlockRecords]
        /\ \A x \in BlockIds \ {c} : block'[x] = block[x]
        /\ block'[c].capacity = blk.capacity /\ block'[c].data = blk.data
        /\ blk.used <= block'[c].used /\ block'[c].used <= block'[c].capacity
        /\ block'[c] # NoBlock /\ 0 < block'[c].capacity
        /\ live' \in SUBSET Allocations /\ live \subseteq live'
        /\ LiveAllocationsIntact'
        /\ checkFailed' = checkFailed
    <3>1. blk = block[c] /\ c \in BlockIds
      BY <1>1
    <3> HIDE DEF blk
    <3> QED
      BY <2>1, <2>2, <2>3, <3>1, ServedLive
  <2>5. \A d \in Arenas : Height(d)' = Height(d) /\ \A p : At(d, p)' = At(d, p)
    BY <1>3, OthersSame
  <2>6. block[c] # NoBlock
    BY <1>1, <2>3 DEF OwnedOnce
  <2>7. OwnedOnce'
    <3>1. \A b \in BlockIds : block'[b] # NoBlock <=> block[b] # NoBlock
      BY <2>4, <2>6
    <3>2. \A b \in BlockIds : block'[b] # NoBlock <=>
            \E d \in Arenas : \E p \in 1..Height(d)' : At(d, p)' = b
      BY <3>1, <2>3, <2>5 DEF OwnedOnce
    <3>3. \A d, e \in Arenas : \A p \in 1..Height(d)', q \in 1..Height(e)' :
            At(d, p)' = At(e, q)' => d = e /\ p = q
      BY <2>3, <2>5 DEF OwnedOnce
    <3> QED
      BY <3>2, <3>3 DEF OwnedOnce
  <2>8. \A d \in Arenas : \A p \in 1..Height(d) :
          /\ p < Height(d) => At(d, p) # c
          /\ At(d, p) \in BlockIds
    BY <1>1, <2>3 DEF OwnedOnce
  <2>9. MarksRight' /\ MarksOrdered' /\ AgesSmall'
    <3>1. \A d \in Arenas :
           /\ Height(d)' \in Nat /\ Height(d) <= Height(d)'
           /\ \A p \in 1..Height(d) :
                /\ At(d, p)' = At(d, p)
                /\ p < Height(d) => block'[At(d, p)] = block[At(d, p)]
                /\ block'[At(d, p)].capacity = block[At(d, p)].capacity
                /\ block'[At(d, p)].data = block[At(d, p)].data
                /\ block[At(d, p)].used <= block'[At(d, p)].used
           /\ \A x \in live : x.block \in BlocksOf(d) => x \in live'
      <4> TAKE d \in Arenas
      <4>1. Height(d)' = Height(d) /\ Height(d) \in Nat
        BY <1>1, <2>5
      <4>2. ASSUME NEW p \in 1..Height(d)
            PROVE  /\ At(d, p)' = At(d, p)
                   /\ p < Height(d) => block'[At(d, p)] = block[At(d, p)]
                   /\ block'[At(d, p)].capacity = block[At(d, p)].capacity
                   /\ block'[At(d, p)].data = block[At(d, p)].data
                   /\ block[At(d, p)].used <= block'[At(d, p)].used
        <5>1. At(d, p)' = At(d, p)
          BY <2>5
        <5>2. CASE At(d, p) = c
          BY <2>4, <2>8, <5>1, <5>2
        <5>3. CASE At(d, p) # c
          <6>1. block'[At(d, p)] = block[At(d, p)]
            BY <2>4, <2>8, <5>3
          <6>2. block[At(d, p)].used \in Nat
            BY <2>3, <2>8 DEF ArenaTypes, BlockRecords
          <6> QED
            BY <5>1, <6>1, <6>2
        <5> QED
          BY <5>2, <5>3
      <4> QED
        BY <2>4, <4>1, <4>2
    <3> QED
      BY <1>2, <2>4, <3>1, MarksKept
  <2>10. ArenaTypes'
    BY <1>2, <1>3, <2>3, <2>4 DEF ArenaTypes
  <2>11. UsedFits'
    BY <2>3, <2>4 DEF UsedFits
  <2> QED
    BY <2>3, <2>4, <2>7, <2>9, <2>10, <2>11 DEF ArenaInv
<1>4. ASSUME NEW b \in Malloc({}), NEW address \in Addresses,
             Serve(b, [capacity |-> NewCapacity(a, size, align),
                       used |-> 0, data |-> address], size, align),
             chain' = [chain EXCEPT ![a] = <<b>> \o @]
      PROVE  ArenaInv'
  <2> DEFINE blk == [capacity |-> NewCapacity(a, size, align), used |-> 0, data |-> address]
  <2> HIDE DEF c, ArenaInv
  <2>1. b \in BlockIds /\ block[b] = NoBlock
    BY <1>4 DEF Malloc
  <2>2. address \in Nat
    BY AddressTypes
  <2>3. ArenaTypes /\ UsedFits /\ LiveAllocationsIntact /\ OwnedOnce /\ checkFailed = FALSE
    BY DEF ArenaInv
  <2>4. blk \in BlockRecords /\ Fits(blk, size, align) /\ blk.used = 0
    BY <1>1, <2>2, <2>3, FreshFits
  <2>5. Serve(b, blk, size, align) /\ blk.used <= blk.capacity
    BY <1>4, <2>4 DEF BlockRecords
  <2>6. /\ block' \in [BlockIds -> BlockRecords]
        /\ \A x \in BlockIds \ {b} : block'[x] = block[x]
        /\ block'[b].used <= block'[b].capacity
        /\ block'[b] # NoBlock /\ 0 < block'[b].capacity
        /\ live' \in SUBSET Allocations /\ live \subseteq live'
        /\ LiveAllocationsIntact'
        /\ checkFailed' = checkFailed
    <3> HIDE DEF blk
    <3> QED
      BY <2>1, <2>3, <2>4, <2>5, ServedLive
  <2> HIDE DEF blk
  <2>7. /\ chain' \in [Arenas -> Seq(BlockIds)]
        /\ Height(a)' = Height(a) + 1
        /\ \A p \in 1..Height(a) : At(a, p)' = At(a, p)
        /\ \A p : p = Height(a) + 1 => At(a, p)' = b
        /\ \A d \in Arenas \ {a} : chain'[d] = chain[d]
    BY <1>4, <2>1, <2>3, Pushed DEF ArenaTypes
  <2>8. \A d \in Arenas \ {a} : Height(d)' = Height(d) /\ \A p : At(d, p)' = At(d, p)
    BY <2>7, OthersSame
  <2>9. \A d \in Arenas : \A p \in 1..Height(d) :
          At(d, p) # b /\ At(d, p) \in BlockIds /\ At(d, p)' = At(d, p)
    BY <1>1, <2>1, <2>3, <2>7, <2>8 DEF OwnedOnce
  <2>10. \A d \in Arenas : \A p \in 1..Height(d)' :
           \/ p \in 1..Height(d)
           \/ d = a /\ p = Height(a) + 1 /\ At(d, p)' = b
    BY <1>1, <2>7, <2>8
  <2>11. OwnedOnce'
    <3>1. ASSUME NEW x \in BlockIds
          PROVE  block'[x] # NoBlock <=>
                   \E d \in Arenas : \E p \in 1..Height(d)' : At(d, p)' = x
      <4>1. CASE x = b
        <5>1. PICK q : q = Height(a) + 1
          OBVIOUS
        <5>2. q \in 1..Height(a)' /\ At(a, q)' = b
          BY <1>1, <2>7, <5>1
        <5> QED
          BY <2>6, <4>1, <5>2
      <4>2. CASE x # b
        <5>1. block'[x] = block[x]
          BY <2>6, <4>2
        <5>2. block[x] # NoBlock <=> \E d \in Arenas : \E p \in 1..Height(d) : At(d, p) = x
          BY <2>3 DEF OwnedOnce
        <5>3. ASSUME NEW d \in Arenas, NEW p \in 1..Height(d), At(d, p) = x
              PROVE  p \in 1..Height(d)' /\ At(d, p)' = x
          BY <1>1, <2>7, <2>8, <2>9, <5>3
        <5>4. ASSUME NEW d \in Arenas, NEW p \in 1..Height(d)', At(d, p)' = x
              PROVE  p \in 1..Height(d) /\ At(d, p) = x
          BY <2>9, <2>10, <4>2, <5>4
        <5> QED
          BY <5>1, <5>2, <5>3, <5>4
      <4> QED
        BY <4>1, <4>2
    <3>2. \A d, e \in Arenas : \A p \in 1..Height(d)', q \in 1..Height(e)' :
            At(d, p)' = At(e, q)' => d = e /\ p = q
      BY <2>3, <2>9, <2>10 DEF OwnedOnce
    <3> QED
      BY <3>1, <3>2 DEF OwnedOnce
  <2>12. MarksRight' /\ MarksOrdered' /\ AgesSmall'
    <3>1. \A d \in Arenas :
           /\ Height(d)' \in Nat /\ Height(d) <= Height(d)'
           /\ \A p \in 1..Height(d) :
                /\ At(d, p)' = At(d, p)
                /\ p < Height(d) => block'[At(d, p)] = block[At(d, p)]
                /\ block'[At(d, p)].capacity = block[At(d, p)].capacity
                /\ block'[At(d, p)].data = block[At(d, p)].data
                /\ block[At(d, p)].used <= block'[At(d, p)].used
           /\ \A x \in live : x.block \in BlocksOf(d) => x \in live'
      <4> TAKE d \in Arenas
      <4>1. Height(d)' \in Nat /\ Height(d) <= Height(d)'
        BY <1>1, <2>7, <2>8
      <4>2. ASSUME NEW p \in 1..Height(d)
            PROVE  /\ At(d, p)' = At(d, p)
                   /\ block'[At(d, p)] = block[At(d, p)]
                   /\ block[At(d, p)].used \in Nat
        BY <2>3, <2>6, <2>9 DEF ArenaTypes, BlockRecords
      <4>3. \A p \in 1..Height(d) :
              /\ At(d, p)' = At(d, p)
              /\ p < Height(d) => block'[At(d, p)] = block[At(d, p)]
              /\ block'[At(d, p)].capacity = block[At(d, p)].capacity
              /\ block'[At(d, p)].data = block[At(d, p)].data
              /\ block[At(d, p)].used <= block'[At(d, p)].used
        BY <4>2
      <4> QED
        BY <2>6, <4>1, <4>3
    <3> QED
      BY <1>2, <2>6, <3>1, MarksKept
  <2>13. ArenaTypes'
    BY <1>2, <2>3, <2>6, <2>7 DEF ArenaTypes
  <2>14. UsedFits'
    BY <2>3, <2>6 DEF UsedFits
  <2> QED
    BY <2>3, <2>6, <2>11, <2>12, <2>13, <2>14 DEF ArenaInv
<1> QED
  BY <1>3, <1>4 DEF AllocBytes

-----------------------------------------------------------------------------
(* Arenas without marks are replaced, moved and destroyed. *)

\* What a step that frees the blocks `old` of unmarked arenas must keep.
LEMMA FreedLive ==
  ASSUME ArenaTypes, LiveAllocationsIntact, NEW old,
         block' \in [BlockIds -> BlockRecords],
         \A b \in BlockIds : b \notin old /\ block[b] # NoBlock => block'[b] = block[b],
         live' = {x \in live : x.block \notin old}
  PROVE  live' \in SUBSET Allocations /\ LiveAllocationsIntact'
<1>1. \A x \in live : x.block \in BlockIds /\ block[x.block] # NoBlock
  BY DEF ArenaTypes, Allocations, LiveAllocationsIntact
<1>2. \A x \in live' : x \in live /\ block'[x.block] = block[x.block]
  BY <1>1
<1> QED
  BY <1>2 DEF LiveAllocationsIntact, ArenaTypes

\* The other arenas do not notice.
LEMMA OthersNotice ==
  ASSUME ArenaInv, mark' = mark, NEW touched \in SUBSET Arenas,
         block' \in [BlockIds -> BlockRecords],
         \A d \in touched : Marks(d) = {},
         \A d \in Arenas \ touched : chain'[d] = chain[d],
         \A d \in Arenas \ touched : \A p \in 1..Height(d) :
           block'[At(d, p)] = block[At(d, p)],
         \A d \in Arenas \ touched : \A x \in live : x.block \in BlocksOf(d) => x \in live'
  PROVE  MarksRight' /\ MarksOrdered' /\ AgesSmall'
<1>1. \A a \in Arenas : Marks(a) # {} =>
       /\ Height(a)' \in Nat /\ Height(a) <= Height(a)'
       /\ \A p \in 1..Height(a) :
            /\ At(a, p)' = At(a, p)
            /\ p < Height(a) => block'[At(a, p)] = block[At(a, p)]
            /\ block'[At(a, p)].capacity = block[At(a, p)].capacity
            /\ block'[At(a, p)].data = block[At(a, p)].data
            /\ block[At(a, p)].used <= block'[At(a, p)].used
       /\ \A x \in live : x.block \in BlocksOf(a) => x \in live'
  <2> SUFFICES ASSUME NEW a \in Arenas, Marks(a) # {}
               PROVE  /\ Height(a)' \in Nat /\ Height(a) <= Height(a)'
                      /\ \A p \in 1..Height(a) :
                           /\ At(a, p)' = At(a, p)
                           /\ block'[At(a, p)] = block[At(a, p)]
                           /\ block[At(a, p)].used \in Nat
                      /\ \A x \in live : x.block \in BlocksOf(a) => x \in live'
    OBVIOUS
  <2>1. a \notin touched
    OBVIOUS
  <2>2. Height(a)' = Height(a) /\ \A p : At(a, p)' = At(a, p)
    BY <2>1, OthersSame
  <2>3. Height(a) \in Nat /\ \A p \in 1..Height(a) : At(a, p) \in BlockIds
    BY AtFacts DEF ArenaInv, ArenaTypes
  <2>4. \A p \in 1..Height(a) : block[At(a, p)].used \in Nat
    BY <2>3 DEF ArenaInv, ArenaTypes, BlockRecords
  <2> QED
    BY <2>1, <2>2, <2>3, <2>4
<1> QED
  BY <1>1, MarksKept

LEMMA FreshKeeps ==
  ASSUME ArenaInv, NEW a \in Arenas, Marks(a) = {}, FreshArena(a, BlocksOf(a)),
         factor' \in [Arenas -> Nat \ {0}], mark' = mark, checkFailed' = checkFailed
  PROVE  ArenaInv'
<1> DEFINE old == BlocksOf(a)
<1>1. PICK b \in Malloc(old), address \in Addresses :
        /\ chain' = [chain EXCEPT ![a] = <<b>>]
        /\ block' = [Free(old) EXCEPT
             ![b] = [capacity |-> InitialSize, used |-> 0, data |-> address]]
        /\ live' = {x \in live : x.block \notin old}
  BY DEF FreshArena
<1>2. ArenaTypes /\ UsedFits /\ LiveAllocationsIntact /\ OwnedOnce /\ checkFailed = FALSE
  BY DEF ArenaInv
<1>3. /\ \A d \in Arenas : BlocksOf(d) = {At(d, p) : p \in 1..Height(d)}
      /\ \A d \in Arenas : Height(d) \in Nat /\ \A p \in 1..Height(d) : At(d, p) \in BlockIds
  BY <1>2, AtFacts DEF ArenaTypes
<1>4. old \subseteq BlockIds
  BY <1>3
<1>5. b \in BlockIds /\ (b \in old \/ block[b] = NoBlock)
  BY <1>1, <1>4 DEF Malloc
<1> HIDE DEF old
<1> DEFINE rec == [capacity |-> InitialSize, used |-> 0, data |-> address]
<1>6. rec \in BlockRecords /\ rec # NoBlock /\ rec.used <= rec.capacity
      /\ 0 < rec.capacity
  BY AddressTypes, ArenaAssumption DEF BlockRecords, NoBlock
<1>7. /\ block' \in [BlockIds -> BlockRecords]
      /\ block'[b] = rec
      /\ \A c \in BlockIds \ {b} : block'[c] = IF c \in old THEN NoBlock ELSE block[c]
  <2>1. Free(old) \in [BlockIds -> BlockRecords]
    BY <1>2 DEF Free, ArenaTypes, NoBlock, BlockRecords
  <2> HIDE DEF rec
  <2>2. block' = [Free(old) EXCEPT ![b] = rec]
    BY <1>1 DEF rec
  <2> QED
    BY <1>5, <1>6, <2>1, <2>2 DEF Free
<1> HIDE DEF rec
<1>8. /\ chain' \in [Arenas -> Seq(BlockIds)] /\ chain'[a] = <<b>>
      /\ \A d \in Arenas \ {a} : chain'[d] = chain[d]
  BY <1>1, <1>2, <1>5 DEF ArenaTypes
<1>9. Height(a)' = 1 /\ \A p : p = 1 => At(a, p)' = b
  BY <1>8 DEF Height, At
<1>10. \A d \in Arenas \ {a} : Height(d)' = Height(d) /\ \A p : At(d, p)' = At(d, p)
  BY <1>8, OthersSame
<1>11. \A d \in Arenas \ {a} : \A p \in 1..Height(d) :
         /\ At(d, p) # b /\ At(d, p) \notin old /\ At(d, p) \in BlockIds
         /\ block'[At(d, p)] = block[At(d, p)]
  <2> TAKE d \in Arenas \ {a}
  <2> TAKE p \in 1..Height(d)
  <2>1. At(d, p) \in BlockIds /\ block[At(d, p)] # NoBlock
    BY <1>2, <1>3 DEF OwnedOnce
  <2>2. At(d, p) \notin old
    BY <1>2, <1>3 DEF OwnedOnce, old
  <2> QED
    BY <1>5, <1>7, <2>1, <2>2
<1>12. OwnedOnce'
  <2>1. ASSUME NEW x \in BlockIds
        PROVE  block'[x] # NoBlock <=>
                 \E d \in Arenas : \E p \in 1..Height(d)' : At(d, p)' = x
    <3>1. CASE x = b
      <4>1. PICK q : q = 1
        OBVIOUS
      <4>2. q \in 1..Height(a)' /\ At(a, q)' = b
        BY <1>9, <4>1
      <4> QED
        BY <1>6, <1>7, <3>1, <4>2
    <3>2. CASE x # b
      <4>1. block'[x] # NoBlock <=> x \notin old /\ block[x] # NoBlock
        BY <1>7, <3>2
      <4>2. x \notin old /\ block[x] # NoBlock <=>
              \E d \in Arenas \ {a} : \E p \in 1..Height(d) : At(d, p) = x
        BY <1>2, <1>3, <1>11 DEF OwnedOnce, old
      <4>3. \A p \in 1..Height(a)' : At(a, p)' # x
        BY <1>9, <3>2
      <4> QED
        BY <1>10, <4>1, <4>2, <4>3
    <3> QED
      BY <3>1, <3>2
  <2>2. \A d, e \in Arenas : \A p \in 1..Height(d)', q \in 1..Height(e)' :
          At(d, p)' = At(e, q)' => d = e /\ p = q
    BY <1>2, <1>9, <1>10, <1>11 DEF OwnedOnce
  <2> QED
    BY <2>1, <2>2 DEF OwnedOnce
<1>13. live' \in SUBSET Allocations /\ LiveAllocationsIntact'
  BY <1>1, <1>2, <1>5, <1>7, FreedLive
<1>14. MarksRight' /\ MarksOrdered' /\ AgesSmall'
  <2>1. \A d \in Arenas \ {a} : \A x \in live : x.block \in BlocksOf(d) => x \in live'
    BY <1>1, <1>3, <1>11
  <2> DEFINE touched == {a}
  <2>2. /\ touched \in SUBSET Arenas /\ \A d \in touched : Marks(d) = {}
        /\ \A d \in Arenas \ touched : chain'[d] = chain[d]
        /\ \A d \in Arenas \ touched : \A p \in 1..Height(d) :
             block'[At(d, p)] = block[At(d, p)]
        /\ \A d \in Arenas \ touched : \A x \in live : x.block \in BlocksOf(d) => x \in live'
    BY <1>8, <1>11, <2>1
  <2> HIDE DEF touched
  <2> QED
    BY <1>7, <2>2, OthersNotice
<1>15. ArenaTypes'
  BY <1>2, <1>7, <1>8, <1>13 DEF ArenaTypes
<1>16. UsedFits'
  BY <1>2, <1>6, <1>7 DEF UsedFits, NoBlock
<1> QED
  BY <1>2, <1>12, <1>13, <1>14, <1>15, <1>16 DEF ArenaInv

\* The chain of `gone` is freed; every other chain stays or is handed to an
\* arena without marks: c has the one of f[c], or none.
HandsOver(f, gone, touched) ==
  /\ \A c \in Arenas : chain'[c] = <<>> \/ (chain'[c] = chain[f[c]] /\ f[c] # gone)
  /\ \A c, e \in Arenas : chain'[c] # <<>> /\ chain'[e] # <<>> /\ f[c] = f[e] => c = e
  /\ \A e \in Arenas \ {gone} : chain[e] # <<>> =>
       \E c \in Arenas : f[c] = e /\ chain'[c] = chain[e]
  /\ gone \in touched /\ \A d \in touched : Marks(d) = {}
  /\ \A d \in Arenas \ touched : chain'[d] = chain[d]

LEMMA HandOverKeeps ==
  ASSUME ArenaInv, NEW gone \in Arenas, NEW touched \in SUBSET Arenas,
         NEW f \in [Arenas -> Arenas], HandsOver(f, gone, touched),
         block' = Free(BlocksOf(gone)),
         live' = {x \in live : x.block \notin BlocksOf(gone)},
         chain' \in [Arenas -> Seq(BlockIds)],
         factor' \in [Arenas -> Nat \ {0}], mark' = mark, checkFailed' = checkFailed
  PROVE  ArenaInv'
<1> DEFINE old == BlocksOf(gone)
<1>1. ArenaTypes /\ UsedFits /\ LiveAllocationsIntact /\ OwnedOnce /\ checkFailed = FALSE
  BY DEF ArenaInv
<1>2. /\ \A d \in Arenas : BlocksOf(d) = {At(d, p) : p \in 1..Height(d)}
      /\ \A d \in Arenas : Height(d) \in Nat /\ \A p \in 1..Height(d) : At(d, p) \in BlockIds
      /\ \A d \in Arenas : chain[d] # <<>> <=> Height(d) > 0
  BY <1>1, AtFacts DEF ArenaTypes
<1>3. /\ block' \in [BlockIds -> BlockRecords]
      /\ \A c \in BlockIds : block'[c] = IF c \in old THEN NoBlock ELSE block[c]
  BY <1>1 DEF Free, ArenaTypes, NoBlock, BlockRecords
<1>4. live' \in SUBSET Allocations /\ LiveAllocationsIntact'
  BY <1>1, <1>3, FreedLive
<1>5. \A d \in Arenas \ {gone} : \A p \in 1..Height(d) :
        At(d, p) \notin old /\ At(d, p) \in BlockIds /\ block'[At(d, p)] = block[At(d, p)]
  <2> TAKE d \in Arenas \ {gone}
  <2> TAKE p \in 1..Height(d)
  <2>1. At(d, p) \in BlockIds
    BY <1>2
  <2>2. old = {At(gone, q) : q \in 1..Height(gone)}
    BY <1>2
  <2> HIDE DEF old
  <2>3. At(d, p) \notin old
    BY <1>1, <2>2 DEF OwnedOnce
  <2> QED
    BY <1>3, <2>1, <2>3
<1> HIDE DEF old
<1>6. \A c \in Arenas : chain'[c] # <<>> <=> Height(c)' > 0
  BY DEF Height
<1>7. ASSUME NEW c \in Arenas, chain'[c] # <<>>
      PROVE  /\ f[c] \in Arenas \ {gone}
             /\ Height(c)' = Height(f[c]) /\ \A p : At(c, p)' = At(f[c], p)
  BY <1>7 DEF HandsOver, Height, At
<1>8. OwnedOnce'
  <2>1. ASSUME NEW x \in BlockIds
        PROVE  block'[x] # NoBlock <=>
                 \E d \in Arenas : \E p \in 1..Height(d)' : At(d, p)' = x
    <3>1. block'[x] # NoBlock <=>
            \E d \in Arenas \ {gone} : \E p \in 1..Height(d) : At(d, p) = x
      <4>1. block'[x] # NoBlock <=> x \notin old /\ block[x] # NoBlock
        BY <1>3
      <4>2. x \in old <=> \E p \in 1..Height(gone) : At(gone, p) = x
        BY <1>2 DEF old
      <4>3. block[x] # NoBlock <=> \E d \in Arenas : \E p \in 1..Height(d) : At(d, p) = x
        BY <1>1 DEF OwnedOnce
      <4> QED
        BY <1>5, <4>1, <4>2, <4>3
    <3>2. ASSUME NEW d \in Arenas \ {gone}, NEW p \in 1..Height(d), At(d, p) = x
          PROVE  \E c \in Arenas : \E q \in 1..Height(c)' : At(c, q)' = x
      <4>1. chain[d] # <<>>
        BY <1>2
      <4>2. PICK c \in Arenas : f[c] = d /\ chain'[c] = chain[d]
        BY <4>1 DEF HandsOver
      <4>3. Height(c)' = Height(d) /\ At(c, p)' = At(d, p)
        BY <4>2 DEF Height, At
      <4> QED
        BY <3>2, <4>3
    <3>3. ASSUME NEW c \in Arenas, NEW q \in 1..Height(c)', At(c, q)' = x
          PROVE  \E d \in Arenas \ {gone} : \E p \in 1..Height(d) : At(d, p) = x
      <4>1. chain'[c] # <<>>
        <5>1. Height(c)' \in Nat
          BY DEF Height
        <5> QED
          BY <1>6, <5>1
      <4> QED
        BY <1>7, <3>3, <4>1
    <3> QED
      BY <3>1, <3>2, <3>3
  <2>2. ASSUME NEW d \in Arenas, NEW e \in Arenas,
               NEW p \in 1..Height(d)', NEW q \in 1..Height(e)', At(d, p)' = At(e, q)'
        PROVE  d = e /\ p = q
    <3>1. Height(d)' \in Nat /\ Height(e)' \in Nat
      BY DEF Height
    <3>2. chain'[d] # <<>> /\ chain'[e] # <<>>
      BY <1>6, <3>1
    <3>3. /\ f[d] \in Arenas /\ p \in 1..Height(f[d]) /\ At(d, p)' = At(f[d], p)
          /\ f[e] \in Arenas /\ q \in 1..Height(f[e]) /\ At(e, q)' = At(f[e], q)
      BY <1>7, <3>2
    <3>4. At(f[d], p) = At(f[e], q)
      BY <2>2, <3>3
    <3>5. f[d] = f[e] /\ p = q
      BY <1>1, <3>3, <3>4 DEF OwnedOnce
    <3> QED
      BY <3>2, <3>5 DEF HandsOver
  <2> QED
    BY <2>1, <2>2 DEF OwnedOnce
<1>9. MarksRight' /\ MarksOrdered' /\ AgesSmall'
  <2>0. Arenas \ touched \subseteq Arenas \ {gone}
    BY DEF HandsOver
  <2>1. \A d \in Arenas \ touched : \A x \in live : x.block \in BlocksOf(d) => x \in live'
    <3> TAKE d \in Arenas \ touched
    <3> TAKE x \in live
    <3>1. x.block \in BlocksOf(d) => x.block \notin old
      BY <1>2, <1>5, <2>0
    <3> QED
      BY <3>1 DEF old
  <2>2. \A d \in Arenas \ touched : \A p \in 1..Height(d) :
          block'[At(d, p)] = block[At(d, p)]
    BY <1>5, <2>0
  <2>3. /\ \A d \in touched : Marks(d) = {}
        /\ \A d \in Arenas \ touched : chain'[d] = chain[d]
    BY DEF HandsOver
  <2> QED
    BY <1>3, <2>1, <2>2, <2>3, OthersNotice
<1>10. ArenaTypes'
  BY <1>1, <1>3, <1>4 DEF ArenaTypes
<1>11. UsedFits'
  <2>1. NoBlock.used = 0 /\ NoBlock.capacity = 0
    BY DEF NoBlock
  <2>2. \A c \in BlockIds : block'[c] = NoBlock \/ block'[c] = block[c]
    BY <1>3
  <2>3. ASSUME NEW c \in BlockIds
        PROVE  /\ block'[c].used <= block'[c].capacity
               /\ block'[c] # NoBlock => 0 < block'[c].capacity
    <3>1. CASE block'[c] = NoBlock
      <4>1. block'[c].used = 0 /\ block'[c].capacity = 0
        BY <2>1, <3>1
      <4> QED
        BY <3>1, <4>1
    <3>2. CASE block'[c] = block[c]
      <4>1. /\ block[c].used <= block[c].capacity
            /\ block[c] # NoBlock => 0 < block[c].capacity
        BY <1>1 DEF UsedFits
      <4> QED
        BY <3>2, <4>1
    <3> QED
      BY <2>2, <3>1, <3>2
  <2> QED
    BY <2>3 DEF UsedFits
<1> QED
  BY <1>1, <1>4, <1>8, <1>9, <1>10, <1>11 DEF ArenaInv

LEMMA MoveArenaKeeps ==
  ASSUME ArenaInv, NEW dst \in Arenas, NEW src \in Arenas, Move(dst, src)
  PROVE  ArenaInv'
<1> DEFINE f == [c \in Arenas |-> IF c = dst THEN src ELSE c]
           touched == {dst, src}
<1>1. dst # src /\ Marks(dst) = {} /\ Marks(src) = {} /\ ArenaTypes
  BY DEF Move, Settled, ArenaInv
<1>2. /\ chain' \in [Arenas -> Seq(BlockIds)]
      /\ chain'[dst] = chain[src] /\ chain'[src] = <<>>
      /\ \A d \in Arenas \ touched : chain'[d] = chain[d]
  <2>1. <<>> \in Seq(BlockIds) /\ chain[src] \in Seq(BlockIds)
    BY <1>1 DEF ArenaTypes
  <2>2. chain' = [chain EXCEPT ![dst] = chain[src], ![src] = <<>>]
    BY DEF Move
  <2> QED
    BY <1>1, <2>1, <2>2 DEF ArenaTypes
<1>3. f \in [Arenas -> Arenas] /\ f[dst] = src /\ \A c \in Arenas \ {dst} : f[c] = c
  OBVIOUS
<1> HIDE DEF f
<1>4. \A c \in Arenas : chain'[c] = <<>> \/ (chain'[c] = chain[f[c]] /\ f[c] # dst)
  <2> TAKE c \in Arenas
  <2>1. CASE c = dst
    BY <1>1, <1>2, <1>3, <2>1
  <2>2. CASE c = src
    BY <1>2, <2>2
  <2>3. CASE c \in Arenas \ touched
    <3>1. chain'[c] = chain[c] /\ f[c] = c /\ c # dst
      BY <1>2, <1>3, <2>3
    <3> QED
      BY <3>1
  <2> QED
    BY <2>1, <2>2, <2>3
<1>5. \A c, e \in Arenas : chain'[c] # <<>> /\ chain'[e] # <<>> /\ f[c] = f[e] => c = e
  BY <1>1, <1>2, <1>3
<1>6. \A e \in Arenas \ {dst} : chain[e] # <<>> =>
        \E c \in Arenas : f[c] = e /\ chain'[c] = chain[e]
  BY <1>1, <1>2, <1>3
<1>7. factor' \in [Arenas -> Nat \ {0}]
  BY <1>1 DEF Move, ArenaTypes
<1>8. touched \in SUBSET Arenas /\ dst \in touched /\ \A d \in touched : Marks(d) = {}
  BY <1>1
<1>10. HandsOver(f, dst, touched)
  BY <1>2, <1>4, <1>5, <1>6, <1>8 DEF HandsOver
<1> HIDE DEF touched
<1>9. /\ block' = Free(BlocksOf(dst))
      /\ live' = {x \in live : x.block \notin BlocksOf(dst)}
      /\ mark' = mark /\ checkFailed' = checkFailed
  BY DEF Move
<1> QED
  BY <1>2, <1>3, <1>7, <1>8, <1>9, <1>10, HandOverKeeps

LEMMA DestroyKeeps ==
  ASSUME ArenaInv, NEW a \in Arenas, Destroy(a)
  PROVE  ArenaInv'
<1> DEFINE f == [c \in Arenas |-> c]
           touched == {a}
<1>1. Marks(a) = {} /\ ArenaTypes
  BY DEF Destroy, Settled, ArenaInv
<1>2. /\ chain' \in [Arenas -> Seq(BlockIds)] /\ chain'[a] = <<>>
      /\ \A d \in Arenas \ touched : chain'[d] = chain[d]
  BY <1>1 DEF Destroy, ArenaTypes
<1>3. f \in [Arenas -> Arenas] /\ \A c \in Arenas : f[c] = c
  OBVIOUS
<1> HIDE DEF f
<1>4. /\ \A c \in Arenas : chain'[c] = <<>> \/ (chain'[c] = chain[f[c]] /\ f[c] # a)
      /\ \A c, e \in Arenas : chain'[c] # <<>> /\ chain'[e] # <<>> /\ f[c] = f[e] => c = e
      /\ \A e \in Arenas \ {a} : chain[e] # <<>> =>
           \E c \in Arenas : f[c] = e /\ chain'[c] = chain[e]
  BY <1>2, <1>3
<1>5. touched \in SUBSET Arenas /\ a \in touched /\ \A d \in touched : Marks(d) = {}
  BY <1>1
<1>7. HandsOver(f, a, touched)
  BY <1>2, <1>4, <1>5 DEF HandsOver
<1> HIDE DEF touched
<1>6. /\ block' = Free(BlocksOf(a))
      /\ live' = {x \in live : x.block \notin BlocksOf(a)}
      /\ mark' = mark /\ checkFailed' = checkFailed /\ factor' \in [Arenas -> Nat \ {0}]
  BY <1>1 DEF Destroy, ArenaTypes
<1> QED
  BY <1>2, <1>3, <1>5, <1>6, <1>7, HandOverKeeps

-----------------------------------------------------------------------------
(* Marks are taken. *)

LEMMA MarksFinite ==
  ASSUME NEW a
  PROVE  IsFiniteSet(Marks(a)) /\ Cardinality(Marks(a)) \in Nat
BY ArenaAssumption, FS_Subset, FS_CardinalityType DEF Marks

\* What a mark records is right when it is taken, and every mark the arena
\* has already is older.
LEMMA NewMark ==
  ASSUME ArenaInv, NEW a \in Arenas, chain[a] # <<>>
  PROVE  LET r == [valid |-> TRUE, arena |-> a, block |-> Head(chain[a]),
                   used |-> block[Head(chain[a])].used,
                   age |-> Cardinality(Marks(a)),
                   keep |-> {x \in live : x.block \in BlocksOf(a)},
                   saved |-> [i \in DOMAIN chain[a] |-> block[chain[a][i]]]]
         IN  /\ r \in MarkRecords /\ MarkRight(r)
             /\ \A n \in MarkSlots :
                  mark[n].valid /\ mark[n].arena = a => Older(mark[n], r)
<1> DEFINE h == Height(a)
           saved == [i \in DOMAIN chain[a] |-> block[chain[a][i]]]
           keep == {x \in live : x.block \in BlocksOf(a)}
           c == Head(chain[a])
           r == [valid |-> TRUE, arena |-> a, block |-> c, used |-> block[c].used,
                 age |-> Cardinality(Marks(a)), keep |-> keep, saved |-> saved]
<1>1. ArenaTypes /\ UsedFits /\ LiveAllocationsIntact /\ OwnedOnce
  BY DEF ArenaInv
<1>2. /\ h \in Nat /\ h > 0 /\ c = At(a, h) /\ c \in BlockIds
      /\ \A p \in 1..h : At(a, p) \in BlockIds
      /\ BlocksOf(a) = {At(a, p) : p \in 1..h}
      /\ DOMAIN chain[a] = 1..h /\ chain[a] \in Seq(BlockIds)
  BY <1>1, AtFacts DEF ArenaTypes, Height
<1>3. /\ saved \in Seq(BlockRecords) /\ Len(saved) = h
      /\ \A i \in 1..h : saved[i] = block[chain[a][i]]
  <2>1. \A i \in 1..h : block[chain[a][i]] \in BlockRecords
    BY <1>1, <1>2 DEF ArenaTypes
  <2>2. saved = [i \in 1..h |-> block[chain[a][i]]]
    BY <1>2
  <2> HIDE DEF saved, h
  <2>3. saved \in [1..h -> BlockRecords] /\ DOMAIN saved = 1..h
    BY <2>1, <2>2
  <2> QED
    BY <1>2, <2>2, <2>3
<1>4. \A p \in 1..h : saved[h + 1 - p] = block[At(a, p)]
  BY <1>2, <1>3 DEF At, Height
<1> HIDE DEF saved
<1>5. /\ keep \subseteq live /\ keep \subseteq Allocations
      /\ \A x \in keep : x.to <= block[x.block].used
      /\ \A x \in keep : \E p \in 1..h : x.block = At(a, p)
  <2>1. keep \subseteq live /\ keep \subseteq Allocations
    BY <1>1 DEF ArenaTypes
  <2>2. \A x \in live : x.to <= block[x.block].used
    BY <1>1 DEF LiveAllocationsIntact
  <2> QED
    BY <1>2, <2>1, <2>2
<1> HIDE DEF keep, h, c
<1>6. block[c] \in BlockRecords /\ block[c].used \in Nat
  BY <1>1, <1>2 DEF ArenaTypes, BlockRecords
<1>7. /\ r.valid = TRUE /\ r.arena = a /\ r.block = c /\ r.used = block[c].used
      /\ r.age = Cardinality(Marks(a)) /\ r.keep = keep /\ r.saved = saved
      /\ r \in MarkRecords
  BY <1>2, <1>3, <1>5, <1>6, MarksFinite DEF MarkRecords
<1> HIDE DEF r
<1>8. saved[1] = block[c]
  BY <1>2, <1>4
<1>9. MarkRight(r)
  <2>1. /\ h \in 1..Height(a) /\ r.block = At(a, h)
        /\ \A p \in 1..(h - 1) : saved[h + 1 - p] = block[At(a, p)]
    BY <1>2, <1>4, <1>7 DEF h
  <2>2. /\ saved[1].capacity = block[r.block].capacity
        /\ saved[1].data = block[r.block].data /\ saved[1].used = r.used
        /\ r.used <= block[r.block].used
    BY <1>6, <1>7, <1>8
  <2>3. /\ r.keep \subseteq live
        /\ \A x \in r.keep : x.block = r.block => x.to <= r.used
        /\ \A x \in r.keep : \E p \in 1..h : x.block = At(a, p)
    BY <1>5, <1>7
  <2> QED
    BY <1>3, <1>7, <2>1, <2>2, <2>3 DEF MarkRight
<1>10. ASSUME NEW n \in MarkSlots, mark[n].valid, mark[n].arena = a
       PROVE  Older(mark[n], r)
  <2>1. PICK q \in MarkRecords : q = mark[n]
    BY <1>10, MarkBlocks
  <2>2. /\ q.arena = a /\ MarkRight(q) /\ Len(q.saved) \in 1..h
        /\ q.block = At(a, Len(q.saved))
        /\ \A x \in q.keep : x.block \in BlocksOf(a)
    BY <1>10, <2>1, MarkBlocks DEF h
  <2>3. Len(q.saved) <= Len(r.saved)
    BY <1>2, <1>3, <1>7, <2>2
  <2>4. Len(q.saved) = Len(r.saved) => q.used <= r.used
    BY <1>2, <1>3, <1>7, <2>2 DEF MarkRight
  <2>5. q.keep \subseteq r.keep
    BY <1>7, <2>2 DEF MarkRight, keep
  <2> QED
    BY <2>1, <2>3, <2>4, <2>5 DEF Older
<1> QED
  BY <1>7, <1>9, <1>10 DEF r, c, keep, saved

LEMMA MarkArenaKeeps ==
  ASSUME ArenaInv, NEW m \in MarkSlots, NEW a \in Arenas, MarkArena(m, a)
  PROVE  ArenaInv'
<1>1. PICK r : /\ mark' = [mark EXCEPT ![m] = r]
               /\ r \in MarkRecords /\ MarkRight(r)
               /\ r.valid /\ r.arena = a /\ r.age = Cardinality(Marks(a))
               /\ \A n \in MarkSlots :
                    mark[n].valid /\ mark[n].arena = a => Older(mark[n], r)
  BY NewMark DEF MarkArena
<1>2. /\ ~mark[m].valid /\ chain' = chain /\ block' = block /\ factor' = factor
      /\ live' = live /\ checkFailed' = checkFailed
  BY DEF MarkArena
<1>3. ArenaTypes
  BY DEF ArenaInv
<1>4. mark' \in [MarkSlots -> MarkRecords \cup {NoMark}] /\ mark'[m] = r
      /\ \A n \in MarkSlots \ {m} : mark'[n] = mark[n]
  BY <1>1, <1>3 DEF ArenaTypes
<1>5. ArenaTypes' /\ UsedFits' /\ OwnedOnce' /\ LiveAllocationsIntact' /\ checkFailed' = FALSE
  <2>1. ArenaTypes'
    BY <1>2, <1>3, <1>4 DEF ArenaTypes
  <2>2. UsedFits' /\ checkFailed' = FALSE
    BY <1>2 DEF ArenaInv, UsedFits
  <2>3. LiveAllocationsIntact'
    BY <1>2 DEF ArenaInv, LiveAllocationsIntact
  <2>4. \A d \in Arenas : Height(d)' = Height(d) /\ \A p : At(d, p)' = At(d, p)
    BY <1>2, OthersSame
  <2>5. OwnedOnce'
    BY <1>2, <2>4 DEF ArenaInv, OwnedOnce
  <2> QED
    BY <2>1, <2>2, <2>3, <2>5
<1>6. \A q \in MarkRecords : MarkRight(q) => MarkRight(q)'
  BY <1>2 DEF MarkRight, Height, At
<1>7. MarksRight'
  <2> SUFFICES ASSUME NEW n \in MarkSlots, mark'[n].valid
               PROVE  MarkRight(mark[n])'
    BY DEF MarksRight
  <2>1. CASE n = m
    BY <1>1, <1>4, <1>6, <2>1
  <2>2. CASE n # m
    <3>1. mark'[n] = mark[n] /\ mark[n].valid
      BY <1>4, <2>2
    <3>2. mark[n] \in MarkRecords /\ MarkRight(mark[n])
      BY <3>1, MarkBlocks
    <3>3. PICK q \in MarkRecords : q = mark[n]
      BY <3>2
    <3>4. MarkRight(q)'
      BY <1>6, <3>2, <3>3
    <3>5. mark'[n] = q
      BY <3>1, <3>3
    <3> QED
      BY <3>4, <3>5
  <2> QED
    BY <2>1, <2>2
\* The new mark is the youngest of its arena.
<1>8. ASSUME NEW n \in MarkSlots \ {m}, mark[n].valid, mark[n].arena = a
      PROVE  mark[n].age < r.age /\ mark[n].age \in Nat /\ r.age \in Nat
  <2>1. mark[n].age < Cardinality(Marks(a))
    BY <1>8 DEF ArenaInv, AgesSmall
  <2>2. mark[n] \in MarkRecords
    BY <1>8, MarkBlocks
  <2> QED
    BY <1>1, <2>1, <2>2 DEF MarkRecords
<1>9. MarksOrdered'
  <2> SUFFICES ASSUME NEW n \in MarkSlots, NEW o \in MarkSlots, n # o,
                      mark'[n].valid, mark'[o].valid, mark'[n].arena = mark'[o].arena
               PROVE  /\ mark'[n].age # mark'[o].age
                      /\ mark'[n].age < mark'[o].age => Older(mark'[n], mark'[o])
    BY DEF MarksOrdered, Older
  <2>1. CASE n = m
    <3>1. mark'[n] = r /\ mark'[o] = mark[o] /\ o \in MarkSlots \ {m}
      BY <1>4, <2>1
    <3>2. mark[o].age < r.age /\ mark[o].age \in Nat /\ r.age \in Nat
      BY <1>1, <1>8, <3>1
    <3> QED
      BY <3>1, <3>2
  <2>2. CASE o = m
    <3>1. mark'[o] = r /\ mark'[n] = mark[n] /\ n \in MarkSlots \ {m}
      BY <1>4, <2>2
    <3>2. mark[n].age < r.age /\ mark[n].age \in Nat /\ r.age \in Nat
      BY <1>1, <1>8, <3>1
    <3>3. Older(mark[n], r)
      BY <1>1, <3>1
    <3> QED
      BY <3>1, <3>2, <3>3
  <2>3. CASE n # m /\ o # m
    BY <1>4, <2>3 DEF ArenaInv, MarksOrdered
  <2> QED
    BY <2>1, <2>2, <2>3
<1>10. AgesSmall'
  <2>1. Marks(a)' = Marks(a) \cup {m} /\ m \notin Marks(a)
    BY <1>1, <1>2, <1>4 DEF Marks
  <2>2. \A b : b # a => Marks(b)' = Marks(b)
    BY <1>1, <1>2, <1>4 DEF Marks
  <2>3. Cardinality(Marks(a)') = Cardinality(Marks(a)) + 1
    BY <2>1, MarksFinite, FS_AddElement
  <2>4. ASSUME NEW n \in MarkSlots, mark'[n].valid
        PROVE  (mark[n].age < Cardinality(Marks(mark[n].arena)))'
    <3>0. PICK q : q = mark'[n]
      OBVIOUS
    <3>1. CASE n = m
      <4>1. q.age = Cardinality(Marks(a)) /\ q.arena = a
        BY <1>1, <1>4, <3>0, <3>1
      <4>2. q.age < Cardinality(Marks(q.arena))'
        BY <2>3, <4>1, MarksFinite
      <4> QED
        BY <3>0, <4>2
    <3>2. CASE n # m /\ mark[n].arena = a
      <4>1. q = mark[n] /\ q.age < r.age /\ q.age \in Nat /\ q.arena = a
        BY <1>4, <1>8, <2>4, <3>0, <3>2
      <4>2. q.age < Cardinality(Marks(q.arena))'
        BY <1>1, <2>3, <4>1, MarksFinite
      <4> QED
        BY <3>0, <4>2
    <3>3. CASE n # m /\ mark[n].arena # a
      <4>1. q = mark[n] /\ q.arena # a /\ q.age < Cardinality(Marks(q.arena))
        BY <1>4, <2>4, <3>0, <3>3 DEF ArenaInv, AgesSmall
      <4>2. q.age < Cardinality(Marks(q.arena))'
        BY <2>2, <4>1
      <4> QED
        BY <3>0, <4>2
    <3> QED
      BY <3>1, <3>2, <3>3
  <2> QED
    BY <2>4 DEF AgesSmall
<1> QED
  BY <1>5, <1>7, <1>9, <1>10 DEF ArenaInv

-----------------------------------------------------------------------------
(* Marks are rewound. *)

\* What RewindTo does to the blocks: those above the mark's go, that one gets
\* its offset back, the older ones are not touched.
LEMMA RewindBlocks ==
  ASSUME ArenaInv, NEW m \in MarkSlots, mark[m].valid, RewindMark(m),
         NEW q, q = mark[m], NEW a, a = q.arena, NEW k, k = Len(q.saved)
  PROVE  /\ chain' \in [Arenas -> Seq(BlockIds)] /\ Height(a)' = k
         /\ \A p \in 1..k : At(a, p)' = At(a, p)
         /\ \A c \in Arenas \ {a} : chain'[c] = chain[c]
         /\ block' \in [BlockIds -> BlockRecords]
         /\ block'[q.block] = [block[q.block] EXCEPT !.used = q.used]
         /\ \A p \in 1..(k - 1) : block'[At(a, p)] = block[At(a, p)]
         /\ \A p \in (k + 1)..Height(a) : block'[At(a, p)] = NoBlock
         /\ \A c \in BlockIds \ BlocksOf(a) : block'[c] = block[c]
<1> DEFINE h == Height(a)
           at == CHOOSE i \in DOMAIN chain[a] : chain[a][i] = q.block
           dropped == {chain[a][i] : i \in 1..(at - 1)}
<1>1. ArenaTypes /\ OwnedOnce
  BY DEF ArenaInv
<1>2. /\ a \in Arenas /\ k \in 1..h /\ h \in Nat /\ q.block = At(a, k)
      /\ q.block \in BlockIds /\ q \in MarkRecords
  BY MarkBlocks
<1>3. /\ \A p \in 1..h : At(a, p) \in BlockIds
      /\ BlocksOf(a) = {At(a, p) : p \in 1..h}
      /\ DOMAIN chain[a] = 1..h
      /\ \A i \in 1..h : h + 1 - i \in 1..h /\ chain[a][i] = At(a, h + 1 - i)
  BY <1>1, <1>2, AtFacts DEF ArenaTypes, Height
<1>4. \A p, o \in 1..h : At(a, p) = At(a, o) => p = o
  BY <1>1, <1>2 DEF OwnedOnce
<1>5. /\ chain' = [chain EXCEPT ![a] = SubSeq(@, at, Len(@))]
      /\ block' = [Free(dropped) EXCEPT ![q.block].used = q.used]
  BY DEF RewindMark, RewindTo
<1> HIDE DEF h
<1>6. at = h + 1 - k
  <2>1. h + 1 - k \in 1..h /\ h + 1 - (h + 1 - k) = k
    BY <1>2
  <2>2. chain[a][h + 1 - k] = q.block
    BY <1>2, <1>3, <2>1
  <2>3. at \in 1..h /\ chain[a][at] = q.block
    BY <1>3, <2>1, <2>2
  <2> HIDE DEF at
  <2>4. At(a, h + 1 - at) = At(a, k) /\ h + 1 - at \in 1..h
    BY <1>2, <1>3, <2>3
  <2>5. h + 1 - at = k
    BY <1>2, <1>4, <2>4
  <2> QED
    BY <1>2, <2>3, <2>5
<1> HIDE DEF at
<1>7. dropped = {At(a, p) : p \in (k + 1)..h}
  <2>0. h \in Nat /\ k \in Nat /\ 1 <= k /\ k <= h /\ at - 1 = h - k
    BY <1>2, <1>6
  <2>1. ASSUME NEW i \in 1..(h - k) PROVE \E p \in (k + 1)..h : chain[a][i] = At(a, p)
    <3>1. i \in 1..h /\ h + 1 - i \in (k + 1)..h
      BY <2>0
    <3> QED
      BY <1>3, <3>1
  <2>2. ASSUME NEW p \in (k + 1)..h PROVE \E i \in 1..(h - k) : At(a, p) = chain[a][i]
    <3>1. h + 1 - p \in 1..(h - k) /\ h + 1 - p \in 1..h /\ h + 1 - (h + 1 - p) = p
      BY <2>0
    <3> QED
      BY <1>3, <3>1
  <2>3. dropped = {chain[a][i] : i \in 1..(h - k)}
    BY <2>0
  <2> HIDE DEF dropped
  <2>4. ASSUME NEW x \in dropped PROVE x \in {At(a, p) : p \in (k + 1)..h}
    <3>1. PICK i \in 1..(h - k) : x = chain[a][i]
      BY <2>3
    <3> QED
      BY <2>1, <3>1
  <2>5. ASSUME NEW p \in (k + 1)..h PROVE At(a, p) \in dropped
    <3>1. PICK i \in 1..(h - k) : At(a, p) = chain[a][i]
      BY <2>2
    <3> QED
      BY <2>3, <3>1
  <2> QED
    BY <2>4, <2>5
<1> HIDE DEF dropped
<1>8. /\ q.block \notin dropped /\ dropped \subseteq BlocksOf(a)
      /\ \A p \in 1..(k - 1) : At(a, p) \notin dropped /\ At(a, p) # q.block /\ p \in 1..h
      /\ \A p \in (k + 1)..h : At(a, p) \in dropped /\ At(a, p) # q.block /\ p \in 1..h
  <2>1. \A p \in (k + 1)..h : p \in 1..h /\ p # k
    BY <1>2
  <2>2. \A p \in 1..(k - 1) : p \in 1..h /\ p # k /\ \A o \in (k + 1)..h : o # p
    BY <1>2
  <2> QED
    BY <1>2, <1>3, <1>4, <1>7, <2>1, <2>2
<1>9. /\ chain' \in [Arenas -> Seq(BlockIds)] /\ Height(a)' = k
      /\ \A p \in 1..k : At(a, p)' = At(a, p)
      /\ \A c \in Arenas \ {a} : chain'[c] = chain[c]
  BY <1>1, <1>2, <1>5, <1>6, CutBack DEF ArenaTypes, h
<1>10. /\ Free(dropped) \in [BlockIds -> BlockRecords]
       /\ \A c \in BlockIds : Free(dropped)[c] = IF c \in dropped THEN NoBlock ELSE block[c]
  BY <1>1 DEF Free, ArenaTypes, NoBlock, BlockRecords
<1> DEFINE rec == [block[q.block] EXCEPT !.used = q.used]
<1>11. rec \in BlockRecords
  BY <1>1, <1>2 DEF ArenaTypes, BlockRecords, MarkRecords
<1>12. block' = [Free(dropped) EXCEPT ![q.block] = rec]
  <2>1. Free(dropped)[q.block] = block[q.block]
    BY <1>2, <1>8, <1>10
  <2> QED
    BY <1>5, <2>1
<1> HIDE DEF rec
<1>13. /\ block' \in [BlockIds -> BlockRecords] /\ block'[q.block] = rec
       /\ \A c \in BlockIds \ {q.block} : block'[c] = IF c \in dropped THEN NoBlock ELSE block[c]
  BY <1>2, <1>10, <1>11, <1>12
<1>14. /\ \A p \in 1..(k - 1) : block'[At(a, p)] = block[At(a, p)]
       /\ \A p \in (k + 1)..h : block'[At(a, p)] = NoBlock
  <2>1. ASSUME NEW p \in 1..(k - 1) PROVE block'[At(a, p)] = block[At(a, p)]
    <3>1. At(a, p) \in BlockIds \ {q.block} /\ At(a, p) \notin dropped
      BY <1>3, <1>8
    <3> QED
      BY <1>13, <3>1
  <2>2. ASSUME NEW p \in (k + 1)..h PROVE block'[At(a, p)] = NoBlock
    <3>1. At(a, p) \in BlockIds \ {q.block} /\ At(a, p) \in dropped
      BY <1>3, <1>8
    <3> QED
      BY <1>13, <3>1
  <2> QED
    BY <2>1, <2>2
<1>15. \A c \in BlockIds \ BlocksOf(a) : block'[c] = block[c]
  BY <1>2, <1>3, <1>8, <1>13
<1> QED
  BY <1>9, <1>13, <1>14, <1>15 DEF h, rec

\* Everything but the marks themselves after a rewind to the youngest mark.
LEMMA RewindKeeps ==
  ASSUME ArenaInv, NEW m \in MarkSlots, mark[m].valid, Newest(m), RewindMark(m)
  PROVE  /\ chain' \in [Arenas -> Seq(BlockIds)]
         /\ block' \in [BlockIds -> BlockRecords]
         /\ live' \in SUBSET Allocations
         /\ UsedFits' /\ OwnedOnce' /\ LiveAllocationsIntact'
         /\ \A r \in MarkRecords : \A n \in MarkSlots \ {m} :
              r = mark[n] => MarkRight(r)'
         /\ LET c == chain'[mark[m].arena]
            IN  [i \in DOMAIN c |-> block'[c[i]]] = mark[m].saved
<1>1. ArenaTypes /\ UsedFits /\ LiveAllocationsIntact /\ OwnedOnce
  BY DEF ArenaInv
<1>2. PICK q \in MarkRecords : q = mark[m]
  BY MarkBlocks
<1>3. PICK a : a = q.arena
  OBVIOUS
<1>4. PICK k : k = Len(q.saved)
  OBVIOUS
<1>5. /\ a \in Arenas /\ k \in 1..Height(a) /\ Height(a) \in Nat
      /\ q.block = At(a, k) /\ q.block \in BlockIds
      /\ MarkRight(q) /\ \A x \in q.keep : x.block \in BlocksOf(a)
  BY <1>2, <1>3, <1>4, MarkBlocks
<1>6. /\ chain' \in [Arenas -> Seq(BlockIds)] /\ Height(a)' = k
      /\ \A p \in 1..k : At(a, p)' = At(a, p)
      /\ \A c \in Arenas \ {a} : chain'[c] = chain[c]
      /\ block' \in [BlockIds -> BlockRecords]
      /\ block'[q.block] = [block[q.block] EXCEPT !.used = q.used]
      /\ \A p \in 1..(k - 1) : block'[At(a, p)] = block[At(a, p)]
      /\ \A p \in (k + 1)..Height(a) : block'[At(a, p)] = NoBlock
      /\ \A c \in BlockIds \ BlocksOf(a) : block'[c] = block[c]
  BY <1>2, <1>3, <1>4, RewindBlocks
<1>7. live' = {x \in live : x.block \notin BlocksOf(a)} \cup q.keep
  BY <1>2, <1>3 DEF RewindMark
<1>8. /\ \A d \in Arenas : BlocksOf(d) = {At(d, p) : p \in 1..Height(d)}
      /\ \A d \in Arenas : Height(d) \in Nat /\ \A p \in 1..Height(d) : At(d, p) \in BlockIds
      /\ \A d \in Arenas : Height(d) = Len(chain[d]) /\ chain[d] \in Seq(BlockIds)
  BY <1>1, AtFacts DEF ArenaTypes, Height
<1>9. \A d \in Arenas \ {a} : Height(d)' = Height(d) /\ \A p : At(d, p)' = At(d, p)
  BY <1>6, OthersSame
<1>10. \A d \in Arenas \ {a} : \A p \in 1..Height(d) :
         At(d, p) \notin BlocksOf(a) /\ block'[At(d, p)] = block[At(d, p)]
  <2> TAKE d \in Arenas \ {a}
  <2> TAKE p \in 1..Height(d)
  <2>1. At(d, p) \notin BlocksOf(a)
    BY <1>1, <1>5, <1>8 DEF OwnedOnce
  <2> QED
    BY <1>6, <1>8, <2>1
\* The block the mark was taken in.
<1>11. /\ block'[q.block].used = q.used
       /\ block'[q.block].capacity = block[q.block].capacity
       /\ block'[q.block].data = block[q.block].data
       /\ q.used \in Nat /\ block[q.block] \in BlockRecords
       /\ q.used <= block[q.block].used
       /\ block[q.block].used <= block[q.block].capacity
       /\ 0 < block[q.block].capacity
  <2>1. block[q.block] \in BlockRecords /\ q.used \in Nat
    BY <1>1, <1>5 DEF ArenaTypes, MarkRecords
  <2>2. q.used <= block[q.block].used
    BY <1>5 DEF MarkRight
  <2>3. block[q.block] # NoBlock
    BY <1>1, <1>5 DEF OwnedOnce
  <2>4. block[q.block].used <= block[q.block].capacity /\ 0 < block[q.block].capacity
    BY <1>1, <1>5, <2>3 DEF UsedFits
  <2>5. block'[q.block] \in BlockRecords
    BY <1>5, <1>6
  <2> QED
    BY <1>6, <2>1, <2>2, <2>4 DEF BlockRecords
<1>12. block'[q.block] # NoBlock
  BY <1>11 DEF NoBlock
<1>13. \A p \in 1..k : p \in 1..Height(a) /\ (p = k \/ p \in 1..(k - 1))
  BY <1>5
<1>14. \A p \in 1..Height(a) : p \in 1..(k - 1) \/ p = k \/ p \in (k + 1)..Height(a)
  BY <1>5
<1>15. \A c \in BlockIds : \/ block'[c] = block[c]
                           \/ block'[c] = NoBlock
                           \/ c = q.block
  BY <1>5, <1>6, <1>8, <1>14
<1>16. UsedFits'
  <2>1. NoBlock.used = 0 /\ NoBlock.capacity = 0
    BY DEF NoBlock
  <2>2. ASSUME NEW c \in BlockIds
        PROVE  /\ block'[c].used <= block'[c].capacity
               /\ block'[c] # NoBlock => 0 < block'[c].capacity
    <3>1. CASE block'[c] = block[c]
      <4>1. /\ block[c].used <= block[c].capacity
            /\ block[c] # NoBlock => 0 < block[c].capacity
        BY <1>1 DEF UsedFits
      <4> QED
        BY <3>1, <4>1
    <3>2. CASE block'[c] = NoBlock
      <4>1. block'[c].used = 0 /\ block'[c].capacity = 0
        BY <2>1, <3>2
      <4> QED
        BY <3>2, <4>1
    <3>3. CASE c = q.block
      <4>1. q.used <= block[q.block].capacity
        BY <1>11 DEF BlockRecords
      <4> QED
        BY <1>11, <3>3, <4>1
    <3> QED
      BY <1>15, <3>1, <3>2, <3>3
  <2> QED
    BY <2>2 DEF UsedFits
<1>17. OwnedOnce'
  <2>1. ASSUME NEW x \in BlockIds
        PROVE  block'[x] # NoBlock <=>
                 \E d \in Arenas : \E p \in 1..Height(d)' : At(d, p)' = x
    <3>1. CASE x \in BlocksOf(a)
      <4>1. PICK p \in 1..Height(a) : x = At(a, p)
        BY <1>5, <1>8, <3>1
      <4>2. block[x] # NoBlock
        BY <1>1, <1>5, <4>1 DEF OwnedOnce
      <4>3. \A d \in Arenas : \A o \in 1..Height(d)' :
              At(d, o)' = x => d = a /\ o = p /\ o \in 1..k
        BY <1>1, <1>5, <1>6, <1>9, <1>13, <4>1 DEF OwnedOnce
      <4>4. CASE p \in 1..k
        <5>1. block'[x] # NoBlock
          BY <1>5, <1>6, <1>12, <1>13, <4>1, <4>2, <4>4
        <5>2. p \in 1..Height(a)' /\ At(a, p)' = x
          BY <1>6, <4>1, <4>4
        <5> QED
          BY <1>5, <5>1, <5>2
      <4>5. CASE p \notin 1..k
        <5>1. p \in (k + 1)..Height(a)
          BY <1>5, <4>5
        <5>2. block'[x] = NoBlock
          BY <1>6, <4>1, <5>1
        <5> QED
          BY <4>3, <4>5, <5>2
      <4> QED
        BY <4>4, <4>5
    <3>2. CASE x \notin BlocksOf(a)
      <4>1. block'[x] = block[x]
        BY <1>6, <3>2
      <4>2. \A p \in 1..Height(a) : At(a, p) # x
        BY <1>5, <1>8, <3>2
      <4>3. \A p \in 1..Height(a)' : At(a, p)' # x
        BY <1>6, <1>13, <4>2
      <4>4. block[x] # NoBlock <=>
              \E d \in Arenas \ {a} : \E p \in 1..Height(d) : At(d, p) = x
        BY <1>1, <4>2 DEF OwnedOnce
      <4> QED
        BY <1>9, <4>1, <4>3, <4>4
    <3> QED
      BY <3>1, <3>2
  <2>2. \A d, e \in Arenas : \A p \in 1..Height(d)', o \in 1..Height(e)' :
          At(d, p)' = At(e, o)' => d = e /\ p = o
    BY <1>1, <1>5, <1>6, <1>9, <1>13 DEF OwnedOnce
  <2> QED
    BY <2>1, <2>2 DEF OwnedOnce
<1>18. live' \in SUBSET Allocations /\ live' \subseteq live
  BY <1>1, <1>5, <1>7 DEF ArenaTypes, MarkRight
<1>19. LiveAllocationsIntact'
  <2>1. ASSUME NEW x \in live'
        PROVE  /\ block'[x.block] # NoBlock
               /\ x.to <= block'[x.block].used
               /\ (block'[x.block].data + x.from) % x.align = 0
    <3>1. x \in live /\ x.block \in BlockIds
      BY <1>18 DEF Allocations
    <3>2. /\ block[x.block] # NoBlock /\ x.to <= block[x.block].used
          /\ (block[x.block].data + x.from) % x.align = 0
      BY <1>1, <3>1 DEF LiveAllocationsIntact
    <3>3. CASE x.block \notin BlocksOf(a)
      BY <1>6, <3>1, <3>2, <3>3
    <3>4. CASE x.block \in BlocksOf(a)
      <4>1. x \in q.keep
        BY <1>7, <2>1, <3>4
      <4>2. PICK p \in 1..k : x.block = At(a, p)
        BY <1>3, <1>4, <1>5, <4>1 DEF MarkRight
      <4>3. CASE p = k
        <5>1. x.block = q.block /\ x.to <= q.used
          BY <1>5, <4>1, <4>2, <4>3 DEF MarkRight
        <5> QED
          BY <1>11, <1>12, <3>2, <5>1
      <4>4. CASE p \in 1..(k - 1)
        BY <1>6, <3>2, <4>2, <4>4
      <4> QED
        BY <1>13, <4>3, <4>4
    <3> QED
      BY <3>3, <3>4
  <2>2. \A x, y \in live' : x # y /\ x.block = y.block => x.to <= y.from \/ y.to <= x.from
    BY <1>1, <1>18 DEF LiveAllocationsIntact
  <2> QED
    BY <2>1, <2>2 DEF LiveAllocationsIntact
<1>20. ASSUME NEW r \in MarkRecords, NEW n \in MarkSlots \ {m}, r = mark[n]
       PROVE  MarkRight(r)'
  <2>1. r.valid
    BY DEF MarkRecords
  <2>2. /\ r.arena \in Arenas /\ MarkRight(r) /\ Len(r.saved) \in 1..Height(r.arena)
        /\ Height(r.arena) \in Nat /\ r.block = At(r.arena, Len(r.saved))
        /\ r.block \in BlockIds /\ r.used \in Nat
        /\ \A x \in r.keep : x.block \in BlocksOf(r.arena)
    <3>1. mark[n].valid
      BY <1>20, <2>1
    <3> QED
      BY <1>20, <3>1, MarkBlocks DEF MarkRecords
  <2>3. block[r.block] \in BlockRecords /\ r.used <= block[r.block].used
    BY <1>1, <2>2 DEF ArenaTypes, MarkRight
  <2>4. CASE r.arena # a
    <3>1. /\ Height(r.arena)' = Height(r.arena)
          /\ \A p \in 1..Len(r.saved) : At(r.arena, p)' = At(r.arena, p)
          /\ \A p \in 1..Height(r.arena) : block'[At(r.arena, p)] = block[At(r.arena, p)]
      BY <1>9, <1>10, <2>2, <2>4
    <3>2. \A x \in r.keep : x \in live /\ x.block \notin BlocksOf(a)
      BY <1>8, <1>10, <2>2, <2>4 DEF MarkRight
    <3>3. r.keep \subseteq live'
      BY <1>7, <3>2
    <3>4. block'[r.block] = block[r.block]
      BY <2>2, <3>1
    <3>5. \A p \in 1..(Len(r.saved) - 1) : p \in 1..Height(r.arena)
      BY <2>2
    <3> QED
      BY <1>1, <2>2, <2>3, <3>1, <3>3, <3>4, <3>5, MarkStays
  <2>5. CASE r.arena = a
    \* An older mark of the same arena.
    <3>1. r.age < q.age
      <4>1. r.age <= q.age
        BY <1>2, <1>3, <1>20, <2>1, <2>5 DEF Newest, Marks
      <4>2. r.age # q.age
        BY <1>2, <1>3, <1>20, <2>1, <2>5 DEF ArenaInv, MarksOrdered
      <4> QED
        BY <4>1, <4>2 DEF MarkRecords
    <3>2. Older(r, q)
      BY <1>2, <1>3, <1>20, <2>1, <2>5, <3>1 DEF ArenaInv, MarksOrdered
    <3>3. Len(r.saved) <= k /\ r.keep \subseteq q.keep
          /\ (Len(r.saved) = k => r.used <= q.used)
      BY <1>4, <3>2 DEF Older
    <3>4. Len(r.saved) \in 1..k
      BY <1>5, <2>2, <2>5, <3>3
    <3>5. \A p \in 1..Len(r.saved) : p \in 1..k
      BY <1>5, <3>4
    <3>6. \A p \in 1..(Len(r.saved) - 1) : p \in 1..(k - 1)
      BY <1>5, <3>4
    <3>7. /\ \A p \in 1..Len(r.saved) : At(r.arena, p)' = At(r.arena, p)
          /\ \A p \in 1..(Len(r.saved) - 1) : block'[At(r.arena, p)] = block[At(r.arena, p)]
      BY <1>6, <2>5, <3>5, <3>6
    <3>8. /\ block'[r.block].capacity = block[r.block].capacity
          /\ block'[r.block].data = block[r.block].data
          /\ r.used <= block'[r.block].used
      <4>1. CASE Len(r.saved) = k
        BY <1>5, <1>11, <2>2, <2>5, <3>3, <4>1
      <4>2. CASE Len(r.saved) \in 1..(k - 1)
        BY <1>6, <2>2, <2>3, <2>5, <4>2
      <4> QED
        BY <1>13, <3>4, <4>1, <4>2
    <3>9. r.keep \subseteq live'
      BY <1>7, <3>3
    <3>10. k = Height(r.arena)' /\ k \in Nat /\ Len(r.saved) <= k
      BY <1>5, <1>6, <2>5, <3>3
    <3> QED
      BY <1>1, <2>2, <3>7, <3>8, <3>9, <3>10, MarkStays
  <2> QED
    BY <2>4, <2>5
<1>21. LET c == chain'[a] IN [i \in DOMAIN c |-> block'[c[i]]] = q.saved
  <2>1. /\ DOMAIN chain'[a] = 1..k /\ Len(chain'[a]) = k
        /\ q.saved \in Seq(BlockRecords) /\ DOMAIN q.saved = 1..k
    <3>1. chain'[a] \in Seq(BlockIds) /\ Len(chain'[a]) = k
      BY <1>5, <1>6 DEF Height
    <3>2. q.saved \in Seq(BlockRecords)
      BY DEF MarkRecords
    <3> QED
      BY <1>4, <3>1, <3>2
  <2>2. ASSUME NEW i \in 1..k PROVE block'[chain'[a][i]] = q.saved[i]
    <3>1. k + 1 - i \in 1..k /\ k + 1 - (k + 1 - i) = i
      BY <1>5
    <3>2. chain'[a][i] = At(a, k + 1 - i)
      <4>1. At(a, k + 1 - i)' = chain'[a][k + 1 - (k + 1 - i)]
        BY <2>1 DEF At, Height
      <4> QED
        BY <1>6, <3>1, <4>1
    <3>3. CASE i = 1
      <4>1. chain'[a][i] = q.block
        BY <1>5, <3>2, <3>3
      <4>2. q.saved[1] \in BlockRecords /\ block'[q.block] \in BlockRecords
        <5>1. 1 \in DOMAIN q.saved /\ q.saved \in Seq(BlockRecords)
          BY <2>1, <3>3
        <5>2. q.saved[1] \in BlockRecords
          BY <5>1
        <5> QED
          BY <1>5, <1>6, <5>2
      <4>3. /\ q.saved[1].capacity = block'[q.block].capacity
            /\ q.saved[1].data = block'[q.block].data
            /\ q.saved[1].used = block'[q.block].used
        BY <1>5, <1>11 DEF MarkRight
      <4>4. q.saved[1] = block'[q.block]
        BY <4>2, <4>3 DEF BlockRecords
      <4> QED
        BY <3>3, <4>1, <4>4
    <3>4. CASE i # 1
      <4>1. k + 1 - i \in 1..(k - 1)
        BY <1>5, <3>4
      <4>2. q.saved[k + 1 - (k + 1 - i)] = block[At(a, k + 1 - i)]
        BY <1>3, <1>4, <1>5, <4>1 DEF MarkRight
      <4> QED
        BY <1>6, <3>1, <3>2, <4>1, <4>2
    <3> QED
      BY <3>3, <3>4
  <2>3. q.saved = [i \in 1..k |-> q.saved[i]]
    BY <2>1
  <2> QED
    BY <2>1, <2>2, <2>3
<1> QED
  BY <1>2, <1>3, <1>6, <1>16, <1>17, <1>18, <1>19, <1>20, <1>21

\* The marks after a step that ends the one in slot `gone`, if it is valid,
\* and leaves the others or moves them: slot n has the one of f[n], or none.
LEMMA MarksMoved ==
  ASSUME ArenaInv, NEW gone \in MarkSlots, mark[gone].valid => Newest(gone),
         NEW f \in [MarkSlots -> MarkSlots],
         mark' \in [MarkSlots -> MarkRecords \cup {NoMark}],
         \A n \in MarkSlots : mark'[n].valid => f[n] # gone /\ mark'[n] = mark[f[n]],
         \A n, o \in MarkSlots :
           mark'[n].valid /\ mark'[o].valid /\ f[n] = f[o] => n = o,
         \A e \in MarkSlots \ {gone} :
           mark[e].valid => \E n \in MarkSlots : f[n] = e /\ mark'[n] = mark[e],
         \A r \in MarkRecords : \A n \in MarkSlots \ {gone} :
           r = mark[n] => MarkRight(r)'
  PROVE  MarksRight' /\ MarksOrdered' /\ AgesSmall'
<1>1. \A n \in MarkSlots : mark'[n].valid =>
        /\ f[n] \in MarkSlots \ {gone} /\ mark'[n] = mark[f[n]]
        /\ mark'[n] \in MarkRecords /\ mark[f[n]].valid
  BY DEF NoMark
<1>2. MarksRight'
  <2> SUFFICES ASSUME NEW n \in MarkSlots, mark'[n].valid
               PROVE  MarkRight(mark[n])'
    BY DEF MarksRight
  <2>1. PICK r \in MarkRecords : r = mark'[n]
    BY <1>1
  <2>2. MarkRight(r)'
    BY <1>1, <2>1
  <2> QED
    BY <2>1, <2>2
<1>3. MarksOrdered'
  <2> SUFFICES ASSUME NEW n \in MarkSlots, NEW o \in MarkSlots, n # o,
                      mark'[n].valid, mark'[o].valid, mark'[n].arena = mark'[o].arena
               PROVE  /\ mark'[n].age # mark'[o].age
                      /\ mark'[n].age < mark'[o].age => Older(mark'[n], mark'[o])
    BY DEF MarksOrdered, Older
  <2>1. f[n] # f[o]
    OBVIOUS
  <2>2. /\ mark[f[n]].age # mark[f[o]].age
        /\ mark[f[n]].age < mark[f[o]].age => Older(mark[f[n]], mark[f[o]])
    BY <1>1, <2>1 DEF ArenaInv, MarksOrdered
  <2> QED
    BY <1>1, <2>2
<1>4. ASSUME NEW n \in MarkSlots, mark'[n].valid
      PROVE  (mark[n].age < Cardinality(Marks(mark[n].arena)))'
  <2>1. PICK q \in MarkRecords : q = mark'[n]
    BY <1>1, <1>4
  <2>2. PICK e \in MarkSlots \ {gone} : e = f[n] /\ q = mark[e] /\ mark[e].valid
    BY <1>1, <1>4, <2>1
  <2> DEFINE b == q.arena
             S == {o \in MarkSlots : mark'[o].valid /\ mark'[o].arena = b}
             T == Marks(b) \ {gone}
             g == [o \in S |-> f[o]]
  <2>3. IsFiniteSet(S) /\ Cardinality(S) \in Nat
    BY ArenaAssumption, FS_Subset, FS_CardinalityType
  <2>4. g \in Surjection(S, T)
    <3>1. \A o \in S : f[o] \in T
      BY <1>1 DEF Marks
    <3>2. ASSUME NEW t \in T PROVE \E o \in S : g[o] = t
      <4>1. t \in MarkSlots \ {gone} /\ mark[t].valid /\ mark[t].arena = b
        BY DEF Marks
      <4>2. PICK o \in MarkSlots : f[o] = t /\ mark'[o] = mark[t]
        BY <4>1
      <4> QED
        BY <4>1, <4>2
    <3>3. g \in [S -> T]
      BY <3>1
    <3> HIDE DEF g, S, T
    <3> QED
      BY <3>2, <3>3 DEF Surjection
  <2>5. Cardinality(T) <= Cardinality(S)
    <3> HIDE DEF g, S, T
    <3> QED
      BY <2>3, <2>4, FS_Surjection
  <2>6. /\ Cardinality(T) \in Nat
        /\ Cardinality(T) = IF gone \in Marks(b) THEN Cardinality(Marks(b)) - 1
                                                 ELSE Cardinality(Marks(b))
    BY MarksFinite, FS_RemoveElement, FS_CardinalityType
  <2>7. q.age \in Nat /\ q.age < Cardinality(Marks(b))
    BY <2>2 DEF ArenaInv, AgesSmall, MarkRecords
  <2>8. gone \in Marks(b) => q.age < Cardinality(Marks(b)) - 1
    <3> SUFFICES ASSUME gone \in Marks(b) PROVE q.age < Cardinality(Marks(b)) - 1
      OBVIOUS
    <3>1. mark[gone].valid /\ mark[gone].arena = b /\ e \in Marks(b)
      BY <2>2 DEF Marks
    <3>2. q.age <= mark[gone].age
      BY <2>2, <3>1 DEF Newest
    <3>3. q.age # mark[gone].age
      BY <2>2, <3>1 DEF ArenaInv, MarksOrdered
    <3>4. mark[gone].age < Cardinality(Marks(b)) /\ mark[gone].age \in Nat
      <4>1. mark[gone] \in MarkRecords
        BY <3>1, MarkBlocks
      <4> QED
        BY <3>1, <4>1 DEF ArenaInv, AgesSmall, MarkRecords
    <3> QED
      BY <2>7, <3>2, <3>3, <3>4, MarksFinite
  <2>9. q.age < Cardinality(S)
    BY <2>3, <2>5, <2>6, <2>7, <2>8, MarksFinite
  <2>10. S = Marks(b)'
    BY DEF Marks
  <2>11. q.age < Cardinality(Marks(q.arena))'
    BY <2>9, <2>10
  <2> QED
    BY <2>1, <2>11
<1>5. AgesSmall'
  BY <1>4 DEF AgesSmall
<1> QED
  BY <1>2, <1>3, <1>5

LEMMA RewindMarkKeeps ==
  ASSUME ArenaInv, NEW m \in MarkSlots, Rewind(m)
  PROVE  ArenaInv'
<1> DEFINE f == [n \in MarkSlots |-> n]
<1>1. /\ mark[m].valid /\ Newest(m) /\ RewindMark(m) /\ mark' = [mark EXCEPT ![m] = NoMark]
      /\ factor' = factor /\ checkFailed' = checkFailed
  BY DEF Rewind
<1>2. /\ chain' \in [Arenas -> Seq(BlockIds)]
      /\ block' \in [BlockIds -> BlockRecords]
      /\ live' \in SUBSET Allocations
      /\ UsedFits' /\ OwnedOnce' /\ LiveAllocationsIntact'
      /\ \A r \in MarkRecords : \A n \in MarkSlots \ {m} :
           r = mark[n] => MarkRight(r)'
  BY <1>1, RewindKeeps
<1>3. /\ mark' \in [MarkSlots -> MarkRecords \cup {NoMark}] /\ mark'[m] = NoMark
      /\ \A n \in MarkSlots \ {m} : mark'[n] = mark[n]
  BY <1>1 DEF ArenaInv, ArenaTypes
<1>4. f \in [MarkSlots -> MarkSlots] /\ \A n \in MarkSlots : f[n] = n
  OBVIOUS
<1> HIDE DEF f
<1>5. /\ \A n \in MarkSlots : mark'[n].valid => f[n] # m /\ mark'[n] = mark[f[n]]
      /\ \A n, o \in MarkSlots :
           mark'[n].valid /\ mark'[o].valid /\ f[n] = f[o] => n = o
      /\ \A e \in MarkSlots \ {m} :
           mark[e].valid => \E n \in MarkSlots : f[n] = e /\ mark'[n] = mark[e]
  BY <1>3, <1>4 DEF NoMark
<1>6. MarksRight' /\ MarksOrdered' /\ AgesSmall'
  BY <1>1, <1>2, <1>3, <1>4, <1>5, MarksMoved
<1>7. ArenaTypes'
  BY <1>1, <1>2, <1>3 DEF ArenaInv, ArenaTypes
<1> QED
  BY <1>1, <1>2, <1>6, <1>7 DEF ArenaInv

LEMMA MoveMarkKeeps ==
  ASSUME ArenaInv, NEW dst \in MarkSlots, NEW src \in MarkSlots, MoveMark(dst, src)
  PROVE  ArenaInv'
<1> DEFINE f == [n \in MarkSlots |-> IF n = dst THEN src ELSE n]
<1>1. /\ dst # src /\ mark[src].valid
      /\ mark' = [mark EXCEPT ![dst] = mark[src], ![src] = NoMark]
      /\ factor' = factor /\ checkFailed' = checkFailed
  BY DEF MoveMark
<1>2. /\ mark' \in [MarkSlots -> MarkRecords \cup {NoMark}]
      /\ mark'[src] = NoMark /\ mark'[dst] = mark[src]
      /\ \A n \in MarkSlots \ {dst, src} : mark'[n] = mark[n]
  BY <1>1 DEF ArenaInv, ArenaTypes
<1>3. f \in [MarkSlots -> MarkSlots] /\ f[dst] = src
      /\ \A n \in MarkSlots \ {dst} : f[n] = n
  OBVIOUS
<1> HIDE DEF f
<1>4. \A n \in MarkSlots : mark'[n].valid => f[n] # dst /\ mark'[n] = mark[f[n]]
  BY <1>1, <1>2, <1>3 DEF NoMark
<1>5. \A n, o \in MarkSlots : mark'[n].valid /\ mark'[o].valid /\ f[n] = f[o] => n = o
  BY <1>1, <1>2, <1>3 DEF NoMark
<1>6. ASSUME NEW e \in MarkSlots \ {dst}, mark[e].valid
      PROVE  \E n \in MarkSlots : f[n] = e /\ mark'[n] = mark[e]
  <2>1. CASE e = src
    BY <1>2, <1>3, <2>1
  <2>2. CASE e # src
    BY <1>2, <1>3, <2>2
  <2> QED
    BY <2>1, <2>2
<1>7. /\ chain' \in [Arenas -> Seq(BlockIds)]
      /\ block' \in [BlockIds -> BlockRecords]
      /\ live' \in SUBSET Allocations
      /\ UsedFits' /\ OwnedOnce' /\ LiveAllocationsIntact'
      /\ mark[dst].valid => Newest(dst)
      /\ \A r \in MarkRecords : \A n \in MarkSlots \ {dst} :
           r = mark[n] => MarkRight(r)'
  <2>1. CASE ~mark[dst].valid
    <3>1. chain' = chain /\ block' = block /\ live' = live
      BY <2>1 DEF MoveMark
    <3>2. \A r \in MarkRecords : MarkRight(r) => MarkRight(r)'
      BY <3>1 DEF MarkRight, Height, At
    <3>3. \A r \in MarkRecords : \A n \in MarkSlots : r = mark[n] => MarkRight(r)
      BY DEF ArenaInv, MarksRight, MarkRecords
    <3>4. ArenaTypes /\ UsedFits /\ OwnedOnce /\ LiveAllocationsIntact
      BY DEF ArenaInv
    <3>5. UsedFits' /\ OwnedOnce' /\ LiveAllocationsIntact'
      BY <3>1, <3>4 DEF UsedFits, OwnedOnce, LiveAllocationsIntact, Height, At
    <3> QED
      BY <2>1, <3>1, <3>2, <3>3, <3>4, <3>5 DEF ArenaTypes
  <2>2. CASE mark[dst].valid
    <3>1. Newest(dst) /\ RewindMark(dst)
      BY <2>2 DEF MoveMark
    <3> QED
      BY <2>2, <3>1, RewindKeeps
  <2> QED
    BY <2>1, <2>2
<1>8. MarksRight' /\ MarksOrdered' /\ AgesSmall'
  BY <1>2, <1>3, <1>4, <1>5, <1>6, <1>7, MarksMoved
<1>9. ArenaTypes'
  BY <1>1, <1>2, <1>7 DEF ArenaInv, ArenaTypes
<1> QED
  BY <1>1, <1>7, <1>8, <1>9 DEF ArenaInv

-----------------------------------------------------------------------------
(* The specification. *)

LEMMA ArenaConstructKeeps ==
  ASSUME ArenaInv, NEW a \in Arenas, Construct(a)
  PROVE  ArenaInv'
<1>1. chain[a] = <<>> /\ FreshArena(a, {}) /\ factor' = [factor EXCEPT ![a] = 2]
      /\ mark' = mark /\ checkFailed' = checkFailed
  BY DEF Construct
<1>2. Height(a) = 0 /\ BlocksOf(a) = {}
  BY <1>1 DEF Height, BlocksOf
<1>3. Marks(a) = {}
  <2> SUFFICES ASSUME NEW m \in MarkSlots, mark[m].valid, mark[m].arena = a PROVE FALSE
    BY DEF Marks
  <2>1. Len(mark[m].saved) \in 1..Height(a)
    BY MarkBlocks
  <2> QED
    BY <1>2, <2>1
<1>4. factor' \in [Arenas -> Nat \ {0}]
  BY <1>1 DEF ArenaInv, ArenaTypes
<1> QED
  BY <1>1, <1>2, <1>3, <1>4, FreshKeeps

\* A step that changes nothing, or only the growth factor of an arena.
LEMMA SameKeeps ==
  ASSUME ArenaInv, chain' = chain, block' = block, mark' = mark, live' = live,
         checkFailed' = checkFailed, factor' \in [Arenas -> Nat \ {0}]
  PROVE  ArenaInv'
<1>1. ArenaTypes /\ UsedFits /\ OwnedOnce /\ LiveAllocationsIntact /\ checkFailed = FALSE
  BY DEF ArenaInv
<1>2. ArenaTypes'
  BY <1>1 DEF ArenaTypes
<1>3. UsedFits' /\ OwnedOnce' /\ LiveAllocationsIntact'
  <2>1. UsedFits'
    BY <1>1 DEF UsedFits
  <2>2. LiveAllocationsIntact'
    BY <1>1 DEF LiveAllocationsIntact
  <2>3. \A d \in Arenas : Height(d)' = Height(d) /\ \A p : At(d, p)' = At(d, p)
    BY OthersSame
  <2>4. OwnedOnce'
    BY <1>1, <2>3 DEF OwnedOnce
  <2> QED
    BY <2>1, <2>2, <2>4
<1>4. MarksRight' /\ MarksOrdered' /\ AgesSmall'
  BY <1>2, OthersNotice DEF ArenaTypes
<1> QED
  BY <1>1, <1>2, <1>3, <1>4 DEF ArenaInv

LEMMA SetGrowthFactorKeeps ==
  ASSUME ArenaInv, NEW a \in Arenas, NEW x \in Factors, SetGrowthFactor(a, x)
  PROVE  ArenaInv'
<1>1. Larger(x, 1) \in Nat \ {0}
  BY ArenaAssumption DEF Larger
<1>2. factor' \in [Arenas -> Nat \ {0}]
  BY <1>1 DEF SetGrowthFactor, ArenaInv, ArenaTypes
<1> QED
  BY <1>2, SameKeeps DEF SetGrowthFactor

LEMMA ArenaInitially == ArenaInit => ArenaInv
<1> SUFFICES ASSUME ArenaInit PROVE ArenaInv
  OBVIOUS
<1> USE DEF ArenaInit
<1>1. NoBlock \in BlockRecords /\ NoBlock.used = 0 /\ NoBlock.capacity = 0
  BY DEF NoBlock, BlockRecords
<1>2. ArenaTypes
  BY <1>1 DEF ArenaTypes
<1>3. \A m \in MarkSlots : ~mark[m].valid
  BY DEF NoMark
<1>4. MarksRight /\ MarksOrdered /\ AgesSmall
  BY <1>3 DEF MarksRight, MarksOrdered, AgesSmall
<1>5. UsedFits
  BY <1>1 DEF UsedFits
<1>6. \A a \in Arenas : Height(a) = 0
  BY DEF Height
<1>7. OwnedOnce
  BY <1>6 DEF OwnedOnce
<1> QED
  BY <1>2, <1>4, <1>5, <1>7 DEF ArenaInv, LiveAllocationsIntact

LEMMA ArenaStep == ArenaInv /\ [ArenaNext]_arenaVars => ArenaInv'
<1> SUFFICES ASSUME ArenaInv, [ArenaNext]_arenaVars PROVE ArenaInv'
  OBVIOUS
<1>1. ASSUME NEW a \in Arenas, Construct(a) PROVE ArenaInv'
  BY <1>1, ArenaConstructKeeps
<1>2. ASSUME NEW a \in Arenas, Reset(a) PROVE ArenaInv'
  BY <1>2, FreshKeeps DEF Reset, Settled, ArenaInv, ArenaTypes
<1>3. ASSUME NEW a \in Arenas, NEW x \in Factors, SetGrowthFactor(a, x) PROVE ArenaInv'
  BY <1>3, SetGrowthFactorKeeps
<1>4. ASSUME NEW a \in Arenas, NEW r \in Requests, AllocBytes(a, r[1], r[2]) PROVE ArenaInv'
  <2>1. r[1] \in Nat \ {0} /\ r[2] \in Nat \ {0}
    BY ArenaAssumption
  <2> QED
    BY <1>4, <2>1, AllocKeeps
<1>5. ASSUME NEW a \in Arenas, NEW src \in Arenas, Move(a, src) PROVE ArenaInv'
  BY <1>5, MoveArenaKeeps
<1>6. ASSUME NEW a \in Arenas, Destroy(a) PROVE ArenaInv'
  BY <1>6, DestroyKeeps
<1>7. ASSUME NEW m \in MarkSlots, NEW a \in Arenas, MarkArena(m, a) PROVE ArenaInv'
  BY <1>7, MarkArenaKeeps
<1>8. ASSUME NEW m \in MarkSlots, Rewind(m) PROVE ArenaInv'
  BY <1>8, RewindMarkKeeps
<1>9. ASSUME NEW m \in MarkSlots, NEW src \in MarkSlots, MoveMark(m, src) PROVE ArenaInv'
  BY <1>9, MoveMarkKeeps
<1>10. CASE UNCHANGED arenaVars
  BY <1>10, SameKeeps DEF arenaVars, ArenaInv, ArenaTypes
<1> QED
  BY <1>1, <1>2, <1>3, <1>4, <1>5, <1>6, <1>7, <1>8, <1>9, <1>10 DEF ArenaNext

\* The invariant of the arena: types, blocks owned once, allocations intact,
\* and every mark's memory of its arena right.
THEOREM ArenaInvariant == ArenaSpec => []ArenaInv
BY ArenaInitially, ArenaStep, PTL DEF ArenaSpec

\* What users and the chains rely on (arena.cc:27-120): a new block always
\* has room, allocations in use stay whole, aligned and apart, and every
\* block is in one chain, once.
THEOREM ArenaStaysIntact == ArenaSpec => []ArenaIntact
<1>1. ArenaInv => ArenaIntact
  <2> SUFFICES ASSUME ArenaInv PROVE ArenaIntact
    OBVIOUS
  <2>1. ArenaTypes /\ UsedFits /\ OwnedOnce
    BY DEF ArenaInv
  <2>2. ArenaTypeOK
    <3>1. \A b \in BlockIds : block[b].used \in 0..block[b].capacity
      <4> TAKE b \in BlockIds
      <4>1. block[b] \in BlockRecords
        BY <2>1 DEF ArenaTypes
      <4>2. block[b].used <= block[b].capacity
        BY <2>1 DEF UsedFits
      <4> QED
        BY <4>1, <4>2 DEF BlockRecords
    <3>2. \A a \in Arenas : factor[a] >= 1
      BY <2>1 DEF ArenaTypes
    <3>3. \A m \in MarkSlots : mark[m].valid => mark[m].arena \in Arenas
      BY MarkBlocks
    <3>4. checkFailed \in BOOLEAN
      BY DEF ArenaInv
    <3> QED
      BY <2>1, <3>1, <3>2, <3>3, <3>4 DEF ArenaTypeOK, ArenaTypes
  <2>3. BlocksOwnedOnce
    <3>1. /\ \A d \in Arenas : BlocksOf(d) = {At(d, p) : p \in 1..Height(d)}
          /\ \A d \in Arenas : Height(d) \in Nat
          /\ \A d \in Arenas : \A i \in DOMAIN chain[d] :
               /\ Height(d) + 1 - i \in 1..Height(d)
               /\ chain[d][i] = At(d, Height(d) + 1 - i)
          /\ \A d \in Arenas : DOMAIN chain[d] = 1..Height(d)
      BY <2>1, AtFacts DEF ArenaTypes, Height
    <3>2. \A b \in BlockIds : block[b] # NoBlock <=> \E a \in Arenas : b \in BlocksOf(a)
      BY <2>1, <3>1 DEF OwnedOnce
    <3>3. ASSUME NEW a \in Arenas, NEW c \in Arenas,
                 NEW i \in DOMAIN chain[a], NEW j \in DOMAIN chain[c],
                 chain[a][i] = chain[c][j]
          PROVE  a = c /\ i = j
      <4>1. a = c /\ Height(a) + 1 - i = Height(c) + 1 - j
        BY <2>1, <3>1, <3>3 DEF OwnedOnce
      <4> QED
        BY <3>1, <4>1
    <3> QED
      BY <3>2, <3>3 DEF BlocksOwnedOnce
  <2> QED
    BY <2>2, <2>3 DEF ArenaIntact, ArenaInv, FreshBlockFits
<1> QED
  BY <1>1, ArenaInvariant, PTL

\* A mark that is rewound puts its arena back as it was when the mark was
\* taken, block for block (arena.cc:95-120).
THEOREM RewindsRestore == ArenaSpec => RewindRestores
<1> DEFINE Restores ==
      \A m \in MarkSlots :
        mark[m].valid /\ (\A n \in MarkSlots : mark'[n] # mark[m]) =>
          LET c == chain'[mark[m].arena] IN
            [i \in DOMAIN c |-> block'[c[i]]] = mark[m].saved
<1>1. ArenaInv /\ [ArenaNext]_arenaVars => Restores
  <2> SUFFICES ASSUME ArenaInv, [ArenaNext]_arenaVars, NEW m \in MarkSlots, mark[m].valid,
                      \A n \in MarkSlots : mark'[n] # mark[m]
               PROVE  LET c == chain'[mark[m].arena] IN
                        [i \in DOMAIN c |-> block'[c[i]]] = mark[m].saved
    OBVIOUS
  <2>1. mark' # mark
    OBVIOUS
  <2>2. mark \in [MarkSlots -> MarkRecords \cup {NoMark}]
    BY DEF ArenaInv, ArenaTypes
  <2>3. PICK o \in MarkSlots :
          (\E a \in Arenas : MarkArena(o, a)) \/ Rewind(o)
            \/ \E src \in MarkSlots : MoveMark(o, src)
    BY <2>1 DEF ArenaNext, arenaVars, Construct, Reset, SetGrowthFactor, AllocBytes, Move,
                Destroy
  <2>4. CASE \E a \in Arenas : MarkArena(o, a)
    BY <2>2, <2>4 DEF MarkArena
  <2>5. CASE Rewind(o)
    <3>1. m = o
      BY <2>2, <2>5 DEF Rewind
    <3> QED
      BY <2>5, <3>1, RewindKeeps DEF Rewind
  <2>6. ASSUME NEW src \in MarkSlots, MoveMark(o, src)
        PROVE  LET c == chain'[mark[m].arena] IN
                 [i \in DOMAIN c |-> block'[c[i]]] = mark[m].saved
    <3>1. /\ o # src /\ mark' = [mark EXCEPT ![o] = mark[src], ![src] = NoMark]
          /\ mark[o].valid => Newest(o) /\ RewindMark(o)
      BY <2>6 DEF MoveMark
    <3>2. m = o
      BY <2>2, <3>1
    <3> QED
      BY <3>1, <3>2, RewindKeeps
  <2> QED
    BY <2>3, <2>4, <2>5, <2>6
<1>2. ArenaInv /\ [ArenaNext]_arenaVars => [Restores]_arenaVars
  BY <1>1
<1> HIDE DEF Restores
<1>3. RewindRestores <=> [][Restores]_arenaVars
  BY DEF RewindRestores, Restores
<1> QED
  BY <1>2, <1>3, ArenaInvariant, PTL DEF ArenaSpec
=============================================================================
