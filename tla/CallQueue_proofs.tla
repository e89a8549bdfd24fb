-------------------------- MODULE CallQueue_proofs --------------------------
(***************************************************************************)
(* Proofs about crl::queue, for any threads and any number of calls: one   *)
(* thread at a time processes the list, calls are made in the order of     *)
(* their pushes, and nothing that was pushed is forgotten.                 *)
(***************************************************************************)
EXTENDS CallQueue, SequenceTheorems, TLAPS

(* What Reverse returns.                                                   *)
LEMMA ReverseProperties ==
  ASSUME NEW S, NEW s \in Seq(S)
  PROVE  /\ Reverse(s) \in Seq(S)
         /\ Len(Reverse(s)) = Len(s)
         /\ \A i \in 1 .. Len(s) : Reverse(s)[i] = s[(Len(s) - i) + 1]
  <1>1. Len(s) \in Nat
    OBVIOUS
  <1>2. \A i \in 1 .. Len(s) : (Len(s) - i) + 1 \in 1 .. Len(s)
    BY <1>1
  <1>3. \A i \in 1 .. Len(s) : s[(Len(s) - i) + 1] \in S
    BY <1>2, ElementOfSeq
  <1> QED
    BY <1>1, <1>3 DEF Reverse

(* Whoever is pushed on top of the list comes last in its reverse.         *)
LEMMA ReverseCons ==
  ASSUME NEW S, NEW s \in Seq(S), NEW e \in S
  PROVE  /\ Cons(e, s) \in Seq(S)
         /\ Reverse(Cons(e, s)) = Append(Reverse(s), e)
  <1>1. /\ Cons(e, s) \in Seq(S)
        /\ Len(Cons(e, s)) = Len(s) + 1
        /\ Cons(e, s)[1] = e
        /\ \A i \in 2 .. Len(s) + 1 : Cons(e, s)[i] = s[i - 1]
    BY ConcatProperties DEF Cons
  <1>2. /\ Reverse(Cons(e, s)) \in Seq(S)
        /\ Len(Reverse(Cons(e, s))) = Len(s) + 1
        /\ \A i \in 1 .. Len(s) + 1 :
             Reverse(Cons(e, s))[i] = Cons(e, s)[((Len(s) + 1) - i) + 1]
    BY <1>1, ReverseProperties
  <1>3. /\ Append(Reverse(s), e) \in Seq(S)
        /\ Len(Append(Reverse(s), e)) = Len(s) + 1
        /\ \A i \in 1 .. Len(s) :
             Append(Reverse(s), e)[i] = s[(Len(s) - i) + 1]
        /\ Append(Reverse(s), e)[Len(s) + 1] = e
    BY ReverseProperties, AppendProperties
  <1>4. ASSUME NEW i \in 1 .. Len(s) + 1
        PROVE  Reverse(Cons(e, s))[i] = Append(Reverse(s), e)[i]
    <2>1. CASE i = Len(s) + 1
      BY <1>1, <1>2, <1>3, <2>1
    <2>2. CASE i \in 1 .. Len(s)
      <3>1. Len(s) \in Nat
        BY LenProperties
      <3>2. /\ ((Len(s) + 1) - i) + 1 \in 2 .. Len(s) + 1
            /\ (((Len(s) + 1) - i) + 1) - 1 = (Len(s) - i) + 1
        BY <2>2, <3>1
      <3>3. Reverse(Cons(e, s))[i] = Cons(e, s)[((Len(s) + 1) - i) + 1]
        BY <1>2, <2>2, <3>1
      <3>4. Cons(e, s)[((Len(s) + 1) - i) + 1] =
              s[(((Len(s) + 1) - i) + 1) - 1]
        BY <1>1, <3>2
      <3> QED
        BY <1>3, <2>2, <3>2, <3>3, <3>4
    <2>3. i = Len(s) + 1 \/ i \in 1 .. Len(s)
      BY LenProperties
    <2> QED
      BY <2>1, <2>2, <2>3
  <1> QED
    BY <1>1, <1>2, <1>3, <1>4, SeqEqual

LEMMA ReverseEmpty == Reverse(<<>>) = <<>>
  <1>1. <<>> \in Seq({})
    OBVIOUS
  <1> QED
    BY <1>1, ReverseProperties, EmptySeq

LEMMA ConcatAppend ==
  ASSUME NEW S, NEW s \in Seq(S), NEW t \in Seq(S), NEW e \in S
  PROVE  s \o Append(t, e) = Append(s \o t, e)
  <1>1. /\ s \o t \in Seq(S)
        /\ Len(s \o t) = Len(s) + Len(t)
        /\ \A i \in 1 .. Len(s) + Len(t) :
             (s \o t)[i] = IF i <= Len(s) THEN s[i] ELSE t[i - Len(s)]
    BY ConcatProperties
  <1>2. /\ Append(t, e) \in Seq(S)
        /\ Len(Append(t, e)) = Len(t) + 1
        /\ \A i \in 1 .. Len(t) : Append(t, e)[i] = t[i]
        /\ Append(t, e)[Len(t) + 1] = e
    BY AppendProperties
  <1>3. /\ s \o Append(t, e) \in Seq(S)
        /\ Len(s \o Append(t, e)) = Len(s) + Len(t) + 1
        /\ \A i \in 1 .. Len(s) + Len(t) + 1 :
             (s \o Append(t, e))[i] =
                IF i <= Len(s) THEN s[i] ELSE Append(t, e)[i - Len(s)]
    <2>1. ASSUME NEW u \in Seq(S)
          PROVE  /\ s \o u \in Seq(S)
                 /\ Len(s \o u) = Len(s) + Len(u)
                 /\ \A i \in 1 .. Len(s) + Len(u) :
                      (s \o u)[i] = IF i <= Len(s) THEN s[i]
                                   ELSE u[i - Len(s)]
      BY ConcatProperties
    <2>2. Len(s) + Len(Append(t, e)) = Len(s) + Len(t) + 1
      BY <1>2, LenProperties
    <2> QED
      BY <1>2, <2>1, <2>2
  <1>4. /\ Append(s \o t, e) \in Seq(S)
        /\ Len(Append(s \o t, e)) = Len(s) + Len(t) + 1
        /\ \A i \in 1 .. Len(s) + Len(t) : Append(s \o t, e)[i] = (s \o t)[i]
        /\ Append(s \o t, e)[Len(s) + Len(t) + 1] = e
    BY <1>1, AppendProperties
  <1>5. ASSUME NEW i \in 1 .. Len(s) + Len(t) + 1
        PROVE  (s \o Append(t, e))[i] = Append(s \o t, e)[i]
    <2>1. CASE i = Len(s) + Len(t) + 1
      BY <1>2, <1>3, <1>4, <2>1
    <2>2. CASE i \in 1 .. Len(s) + Len(t)
      <3>1. i > Len(s) => i - Len(s) \in 1 .. Len(t)
        BY <2>2
      <3> QED
        BY <1>1, <1>2, <1>3, <1>4, <2>2, <3>1
    <2> QED
      BY <2>1, <2>2
  <1> QED
    BY <1>3, <1>4, <1>5, SeqEqual

(* The head of what follows may as well be the end of what precedes.       *)
LEMMA HeadMoves ==
  ASSUME NEW S, NEW s \in Seq(S), NEW t \in Seq(S), t # <<>>
  PROVE  s \o t = Append(s, Head(t)) \o Tail(t)
  <1>1. /\ Head(t) \in S /\ Head(t) = t[1]
        /\ Tail(t) \in Seq(S)
        /\ Len(t) \in Nat \ {0}
        /\ Len(Tail(t)) = Len(t) - 1
        /\ \A i \in 1 .. Len(Tail(t)) : Tail(t)[i] = t[i + 1]
    BY HeadTailProperties, EmptySeq
  <1>2. /\ Append(s, Head(t)) \in Seq(S)
        /\ Len(Append(s, Head(t))) = Len(s) + 1
        /\ \A i \in 1 .. Len(s) : Append(s, Head(t))[i] = s[i]
        /\ Append(s, Head(t))[Len(s) + 1] = Head(t)
    BY <1>1, AppendProperties
  <1>3. /\ s \o t \in Seq(S)
        /\ Len(s \o t) = Len(s) + Len(t)
        /\ \A i \in 1 .. Len(s) + Len(t) :
             (s \o t)[i] = IF i <= Len(s) THEN s[i] ELSE t[i - Len(s)]
    BY ConcatProperties
  <1>4. /\ Append(s, Head(t)) \o Tail(t) \in Seq(S)
        /\ Len(Append(s, Head(t)) \o Tail(t)) = Len(s) + Len(t)
        /\ \A i \in 1 .. Len(s) + Len(t) :
             (Append(s, Head(t)) \o Tail(t))[i] =
               IF i <= Len(s) + 1 THEN Append(s, Head(t))[i]
               ELSE Tail(t)[i - (Len(s) + 1)]
    BY <1>1, <1>2, ConcatProperties
  <1>5. ASSUME NEW i \in 1 .. Len(s) + Len(t)
        PROVE  (s \o t)[i] = (Append(s, Head(t)) \o Tail(t))[i]
    <2>1. CASE i \in 1 .. Len(s)
      BY <1>2, <1>3, <1>4, <2>1
    <2>2. CASE i = Len(s) + 1
      BY <1>1, <1>2, <1>3, <1>4, <2>2
    <2>3. CASE i > Len(s) + 1
      <3>1. i - (Len(s) + 1) \in 1 .. Len(Tail(t))
        BY <1>1, <2>3
      <3>2. Tail(t)[i - (Len(s) + 1)] = t[i - Len(s)]
        BY <1>1, <3>1
      <3> QED
        BY <1>3, <1>4, <2>3, <3>2
    <2> QED
      BY <2>1, <2>2, <2>3
  <1> QED
    BY <1>3, <1>4, <1>5, SeqEqual

-----------------------------------------------------------------------------
USE DEF pushVars, takeVars, history, listVars

(* Every step keeps the types of the variables.                            *)
LEMMA TypeStep ==
  ASSUME TypeOK, IInv, [Next]_vars
  PROVE  TypeOK'
  <1>1. ASSUME NEW p \in Pushers, NEW waits \in BOOLEAN, Allocate(p, waits),
               UNCHANGED <<queued, scheduled>>
        PROVE  TypeOK'
    <2>1. made[p] + 1 \in 0 .. MaxCalls
      BY <1>1, MaxCallsAssumption DEF TypeOK, ListTypeOK, Allocate
    <2> QED
      BY <1>1, <2>1 DEF TypeOK, ListTypeOK, Allocate
  <1>2. ASSUME NEW p \in Pushers, PushFails(p) \/ Acquire(p),
               UNCHANGED <<queued, scheduled>>
        PROVE  TypeOK'
    <2>1. HeadEntry \in Calls \cup {NoCall}
      BY ElementOfSeq DEF TypeOK, ListTypeOK, HeadEntry
    <2> QED
      BY <1>2, <2>1 DEF TypeOK, ListTypeOK, PushFails, Acquire
  <1>3. ASSUME NEW p \in Pushers, PushSucceeds(p),
               UNCHANGED <<queued, scheduled>>
        PROVE  TypeOK'
    <2>1. <<p, made[p]>> \in Calls
      BY <1>3 DEF IInv, PushSucceeds, Calls
    <2>2. stack' \in Seq(Calls) /\ asked' \in Seq(Calls)
      BY <1>3, <2>1, ReverseCons DEF TypeOK, ListTypeOK, PushSucceeds
    <2>3. step' \in
            [Pushers -> {"idle", "push", "wake", "notify", "acquire"}]
      BY <1>3 DEF TypeOK, ListTypeOK, PushSucceeds, AfterAsync
    <2> QED
      BY <1>3, <2>2, <2>3 DEF TypeOK, ListTypeOK, PushSucceeds
  <1>4. ASSUME NEW p \in Pushers, WakeByPusher(p)
        PROVE  TypeOK'
    <2>1. step' \in
            [Pushers -> {"idle", "push", "wake", "notify", "acquire"}]
      BY <1>4 DEF TypeOK, ListTypeOK, WakeByPusher, AfterAsync
    <2> QED
      BY <1>4, <2>1 DEF TypeOK, ListTypeOK, WakeByPusher, WakeAsync
  <1>5. ASSUME NEW w \in Workers, Take(w), UNCHANGED <<queued, scheduled>>
        PROVE  TypeOK'
    <2>1. Taken \in Seq(Calls)
      BY ReverseProperties DEF TypeOK, ListTypeOK, Taken
    <2>2. chain' \in [Workers -> Seq(Calls)] /\ stack' \in Seq(Calls)
      BY <1>5, <2>1 DEF TypeOK, ListTypeOK, Take
    <2> QED
      BY <1>5, <2>2 DEF TypeOK, ListTypeOK, Take
  <1>6. ASSUME NEW w \in Workers, BeginCall(w), UNCHANGED <<queued, scheduled>>
        PROVE  TypeOK'
    <2>1. Head(chain[w]) \in Calls
      BY <1>6, HeadTailProperties DEF TypeOK, ListTypeOK, BeginCall
    <2> QED
      BY <1>6, <2>1 DEF TypeOK, ListTypeOK, BeginCall
  <1>7. ASSUME NEW w \in Workers, EndCall(w), UNCHANGED <<queued, scheduled>>
        PROVE  TypeOK'
    <2>1. chain[w] \in Seq(Calls) /\ chain[w] # <<>>
      BY <1>7 DEF TypeOK, ListTypeOK, EndCall, IInv, OrderInv
    <2>2. Head(chain[w]) \in Calls /\ Tail(chain[w]) \in Seq(Calls)
      BY <2>1, HeadTailProperties
    <2>3. ran' \in Seq(Calls) /\ chain' \in [Workers -> Seq(Calls)]
      BY <1>7, <2>2 DEF TypeOK, ListTypeOK, EndCall
    <2> QED
      BY <1>7, <2>3 DEF TypeOK, ListTypeOK, EndCall
  <1>8. ASSUME NEW w \in Workers,
               Start(w) \/ ClearFlag(w) \/ CheckAgain(w) \/ WakeByWorker(w)
        PROVE  TypeOK'
    <2>1. CASE Start(w)
      BY <2>1 DEF TypeOK, ListTypeOK, Start
    <2>2. CASE ClearFlag(w)
      BY <2>2 DEF TypeOK, ListTypeOK, ClearFlag
    <2>3. CASE CheckAgain(w)
      BY <2>3 DEF TypeOK, ListTypeOK, CheckAgain
    <2>4. CASE WakeByWorker(w)
      BY <2>4 DEF TypeOK, ListTypeOK, WakeByWorker, WakeAsync
    <2> QED
      BY <1>8, <2>1, <2>2, <2>3, <2>4
  <1>9. CASE UNCHANGED vars
    BY <1>9 DEF TypeOK, ListTypeOK, vars
  <1> QED
    BY <1>1, <1>2, <1>3, <1>4, <1>5, <1>6, <1>7, <1>8, <1>9
       DEF Next, Pusher, Push, Worker, Process

(* The flag stays a token that one turn, or one thread, holds.             *)
LEMMA TokenStep ==
  ASSUME TypeOK, IInv, [Next]_vars
  PROVE  TokenInv'
  <1> USE DEF TypeOK, ListTypeOK, IInv, TokenInv, OneProcessor, Processing
  <1>1. ASSUME NEW p \in Pushers, Push(p), UNCHANGED <<queued, scheduled>>
        PROVE  TokenInv'
    BY <1>1 DEF Push, Allocate, PushFails, PushSucceeds, Acquire
  <1>2. ASSUME NEW p \in Pushers, WakeByPusher(p)
        PROVE  TokenInv'
    BY <1>2 DEF WakeByPusher, WakeAsync
  <1>3. ASSUME NEW w \in Workers, Process(w), UNCHANGED <<queued, scheduled>>
        PROVE  TokenInv'
    <2>1. \A v \in Workers : Processing(v)' <=> Processing(v)
      BY <1>3 DEF Process, Take, BeginCall, EndCall
    <2> QED
      BY <1>3, <2>1
  <1>4. ASSUME NEW w \in Workers, Start(w)
        PROVE  TokenInv'
    <2>1. /\ scheduled = 1 /\ scheduled' = 0
          /\ queued /\ queued'
          /\ \A v \in Workers : ~Processing(v)
      BY <1>4 DEF Start
    <2>2. \A v \in Workers : Processing(v)' <=> v = w
      BY <1>4, <2>1 DEF Start
    <2> QED
      BY <2>1, <2>2
  <1>5. ASSUME NEW w \in Workers, ClearFlag(w)
        PROVE  TokenInv'
    <2>1. Processing(w) /\ scheduled = 0 /\ scheduled' = 0 /\ ~queued'
      BY <1>5 DEF ClearFlag
    <2>2. \A v \in Workers : ~Processing(v)'
      BY <1>5, <2>1 DEF ClearFlag
    <2> QED
      BY <2>1, <2>2
  <1>6. ASSUME NEW w \in Workers, CheckAgain(w)
        PROVE  TokenInv'
    <2>1. \A v \in Workers : Processing(v)' <=> Processing(v)
      BY <1>6 DEF CheckAgain
    <2> QED
      BY <1>6, <2>1 DEF CheckAgain
  <1>7. ASSUME NEW w \in Workers, WakeByWorker(w)
        PROVE  TokenInv'
    <2>1. \A v \in Workers : Processing(v)' <=> Processing(v)
      BY <1>7 DEF WakeByWorker
    <2> QED
      BY <1>7, <2>1 DEF WakeByWorker, WakeAsync
  <1>8. CASE UNCHANGED vars
    BY <1>8 DEF vars
  <1> QED
    BY <1>1, <1>2, <1>3, <1>4, <1>5, <1>6, <1>7, <1>8
       DEF Next, Pusher, Worker

(* What was pushed and not made is in the hands of one thread or listed.   *)
LEMMA OrderStep ==
  ASSUME TypeOK, IInv, [Next]_vars
  PROVE  OrderInv'
  <1> USE DEF TypeOK, ListTypeOK, OrderInv
  <1>1. CASE UNCHANGED <<stack, takeVars, history>>
    BY <1>1 DEF IInv
  <1>2. ASSUME NEW p \in Pushers, PushSucceeds(p)
        PROVE  OrderInv'
    <2> DEFINE call == <<p, made[p]>>
    <2>1. call \in Calls
      BY <1>2 DEF IInv, PushSucceeds, Calls
    <2>2. /\ asked' = Append(asked, call)
          /\ Reverse(stack') = Append(Reverse(stack), call)
      BY <1>2, <2>1, ReverseCons DEF PushSucceeds
    <2>3. Reverse(stack) \in Seq(Calls)
      BY ReverseProperties
    <2>4. ASSUME NEW s \in Seq(Calls), asked = s \o Reverse(stack)
          PROVE  asked' = s \o Reverse(stack')
      <3>1. s \o Append(Reverse(stack), call)
              = Append(s \o Reverse(stack), call)
        BY <2>1, <2>3, ConcatAppend
      <3> QED
        BY <2>2, <2>4, <3>1
    <2>5. \A w \in Workers : ran \o chain[w] \in Seq(Calls)
      BY ConcatProperties
    <2>6. UNCHANGED <<chain, stage, running, ran>>
      BY <1>2 DEF PushSucceeds
    <2>7. (\A w \in Workers : chain[w] = <<>>)'
            => asked' = ran' \o Reverse(stack')
      BY <2>4, <2>6 DEF IInv
    <2>8. \A w \in Workers : chain'[w] # <<>>
            => asked' = (ran' \o chain'[w]) \o Reverse(stack')
      BY <2>4, <2>5, <2>6 DEF IInv
    <2> QED
      BY <2>6, <2>7, <2>8 DEF IInv
  <1>3. ASSUME NEW w \in Workers, Take(w)
        PROVE  OrderInv'
    <2>1. /\ chain' = [chain EXCEPT ![w] = Reverse(stack)]
          /\ stack' = <<>>
          /\ stage' = [stage EXCEPT ![w] = "next"]
          /\ UNCHANGED <<asked, running, ran>>
      BY <1>3 DEF Take, Taken
    <2>2. \A v \in Workers : chain[v] = <<>>
      BY <1>3 DEF IInv, TokenInv, OneProcessor, Processing, Take
    <2>3. asked = ran \o Reverse(stack) /\ Reverse(stack) \in Seq(Calls)
      BY <2>2, ReverseProperties DEF IInv
    <2>4. ran \o Reverse(stack) \in Seq(Calls)
      BY <2>3, ConcatProperties
    <2>5. asked' = (ran' \o chain'[w]) \o Reverse(stack')
      BY <2>1, <2>3, <2>4, ReverseEmpty, ConcatEmptySeq
    <2>6. chain'[w] = <<>> => asked' = ran' \o Reverse(stack')
      BY <2>1, <2>3, ReverseEmpty, ConcatEmptySeq
    <2> QED
      BY <1>3, <2>1, <2>2, <2>5, <2>6 DEF IInv, Take
  <1>4. ASSUME NEW w \in Workers, BeginCall(w)
        PROVE  OrderInv'
    <2>1. /\ stage' = [stage EXCEPT ![w] = "call"]
          /\ running' = running \cup {Head(chain[w])}
          /\ stage[w] = "next" /\ chain[w] # <<>>
          /\ UNCHANGED <<stack, chain, asked, ran>>
      BY <1>4 DEF BeginCall
    <2>2. \A v \in Workers : stage[v] # "call"
      BY <2>1 DEF IInv, TokenInv, OneProcessor, Processing
    <2>3. running' = {Head(chain[w])}
      BY <2>1, <2>2 DEF IInv
    <2> QED
      BY <2>1, <2>2, <2>3 DEF IInv
  <1>5. ASSUME NEW w \in Workers, EndCall(w)
        PROVE  OrderInv'
    <2>1. /\ stage[w] = "call" /\ stage' = [stage EXCEPT ![w] = "next"]
          /\ chain' = [chain EXCEPT ![w] = Tail(chain[w])]
          /\ running' = running \ {Head(chain[w])}
          /\ ran' = Append(ran, Head(chain[w]))
          /\ UNCHANGED <<stack, asked>>
      BY <1>5 DEF EndCall
    <2>2. \A v \in Workers \ {w} :
            chain[v] = <<>> /\ stage[v] \notin {"next", "call"}
      BY <2>1 DEF IInv, TokenInv, OneProcessor, Processing
    <2>3. chain[w] \in Seq(Calls) /\ chain[w] # <<>>
          /\ running = {Head(chain[w])}
      BY <2>1 DEF IInv
    <2>4. running' = {}
      BY <2>1, <2>3
    <2>5. ran \o chain[w] = ran' \o chain'[w]
      BY <2>1, <2>3, HeadMoves
    <2>6. asked' = (ran' \o chain'[w]) \o Reverse(stack')
      BY <2>1, <2>3, <2>5 DEF IInv
    <2>7. ran' \in Seq(Calls)
      BY <2>1, <2>3, HeadTailProperties, AppendProperties
    <2>8. chain'[w] = <<>> => asked' = ran' \o Reverse(stack')
      BY <2>6, <2>7, ConcatEmptySeq
    <2> QED
      BY <2>1, <2>2, <2>4, <2>6, <2>8 DEF IInv
  <1>6. ASSUME NEW w \in Workers, Start(w) \/ CheckAgain(w) \/ WakeByWorker(w)
        PROVE  OrderInv'
    BY <1>6 DEF IInv, Start, CheckAgain, WakeByWorker
  <1>7. ASSUME NEW w \in Workers, ClearFlag(w)
        PROVE  OrderInv'
    BY <1>7 DEF IInv, ClearFlag
  <1>8. CASE UNCHANGED vars
    BY <1>8 DEF IInv, vars
  <1> QED
    BY <1>1, <1>2, <1>3, <1>4, <1>5, <1>6, <1>7, <1>8
       DEF Next, Pusher, Push, Allocate, PushFails, Acquire, WakeByPusher,
           Worker, Process

(* Whatever is in the list will be taken.                                  *)
LEMMA ForgottenStep ==
  ASSUME TypeOK, IInv, [Next]_vars
  PROVE  NobodyIsForgotten'
  <1> USE DEF TypeOK, ListTypeOK, NobodyIsForgotten
  <1>1. ASSUME NEW p \in Pushers, Push(p), ~PushSucceeds(p),
               UNCHANGED <<queued, scheduled>>
        PROVE  NobodyIsForgotten'
    <2>1. /\ UNCHANGED <<stack, stage>>
          /\ \A q \in Pushers : step[q] = "wake" => step'[q] = "wake"
      BY <1>1 DEF Push, Allocate, PushFails, Acquire
    <2> QED
      BY <1>1, <2>1 DEF IInv
  <1>2. ASSUME NEW p \in Pushers, PushSucceeds(p), UNCHANGED queued
        PROVE  NobodyIsForgotten'
    <2>1. CASE stack = <<>>
      <3>1. step'[p] = "wake"
        BY <1>2, <2>1 DEF PushSucceeds, HeadEntry, IsFirst
      <3> QED
        BY <3>1
    <2>2. CASE stack # <<>>
      <3>1. UNCHANGED stage
        BY <1>2 DEF PushSucceeds
      <3>2. \A q \in Pushers : step[q] = "wake" => step'[q] = "wake"
        BY <1>2 DEF PushSucceeds
      <3> QED
        BY <1>2, <2>2, <3>1, <3>2 DEF IInv
    <2> QED
      BY <2>1, <2>2
  <1>3. ASSUME NEW p \in Pushers, WakeByPusher(p)
        PROVE  NobodyIsForgotten'
    BY <1>3 DEF WakeByPusher, WakeAsync
  <1>4. ASSUME NEW w \in Workers, Take(w)
        PROVE  NobodyIsForgotten'
    BY <1>4 DEF Take
  <1>5. ASSUME NEW w \in Workers,
               \/ BeginCall(w) /\ UNCHANGED queued
               \/ EndCall(w) /\ UNCHANGED queued
               \/ Start(w) \/ CheckAgain(w)
        PROVE  NobodyIsForgotten'
    <2>1. UNCHANGED <<stack, step, queued>>
      BY <1>5 DEF BeginCall, EndCall, Start, CheckAgain
    <2>2. \A v \in Workers :
            stage[v] \in {"check", "wake"} /\ stack # <<>>
              => stage'[v] \in {"check", "wake"}
      BY <1>5 DEF BeginCall, EndCall, Start, CheckAgain
    <2> QED
      BY <2>1, <2>2 DEF IInv
  <1>6. ASSUME NEW w \in Workers, ClearFlag(w)
        PROVE  NobodyIsForgotten'
    BY <1>6 DEF ClearFlag
  <1>7. ASSUME NEW w \in Workers, WakeByWorker(w)
        PROVE  NobodyIsForgotten'
    BY <1>7 DEF WakeByWorker, WakeAsync
  <1>8. CASE UNCHANGED vars
    BY <1>8 DEF IInv, vars
  <1> QED
    BY <1>1, <1>2, <1>3, <1>4, <1>5, <1>6, <1>7, <1>8
       DEF Next, Pusher, Worker, Process

(* An entry that is pushed or waited for was allocated.                    *)
LEMMA MadeStep ==
  ASSUME TypeOK, IInv, [Next]_vars
  PROVE  (\A p \in Pushers : step[p] # "idle" => made[p] \in 1 .. MaxCalls)'
  <1> USE DEF TypeOK, ListTypeOK, IInv
  <1>1. ASSUME NEW p \in Pushers, NEW waits \in BOOLEAN, Allocate(p, waits)
        PROVE  \A q \in Pushers : step'[q] # "idle" => made'[q] \in 1 .. MaxCalls
    BY <1>1, MaxCallsAssumption DEF Allocate
  <1>2. ASSUME NEW p \in Pushers,
               PushFails(p) \/ PushSucceeds(p) \/ Acquire(p) \/ WakeByPusher(p)
        PROVE  \A q \in Pushers : step'[q] # "idle" => made'[q] \in 1 .. MaxCalls
    <2>1. /\ UNCHANGED made /\ step[p] # "idle"
          /\ \A q \in Pushers \ {p} : step'[q] = step[q]
      BY <1>2 DEF PushFails, PushSucceeds, Acquire, WakeByPusher
    <2> QED
      BY <2>1
  <1>3. ASSUME NEW w \in Workers, Worker(w)
        PROVE  UNCHANGED <<step, made>>
    BY <1>3 DEF Worker, Process, Take, BeginCall, EndCall, Start, ClearFlag,
                CheckAgain, WakeByWorker
  <1>4. CASE UNCHANGED vars
    BY <1>4 DEF vars
  <1> QED
    BY <1>1, <1>2, <1>3, <1>4 DEF Next, Pusher, Push

-----------------------------------------------------------------------------
LEMMA Invariant == Spec => [](TypeOK /\ IInv)
  <1>1. Init => TypeOK /\ IInv
    <2> SUFFICES ASSUME Init PROVE TypeOK /\ IInv
      OBVIOUS
    <2>1. TypeOK
      <3>1. <<>> \in Seq(Calls)
        OBVIOUS
      <3>2. /\ stack \in Seq(Calls) /\ asked \in Seq(Calls)
            /\ ran \in Seq(Calls) /\ running \subseteq Calls
        BY <3>1 DEF Init, ListInit
      <3>3. chain \in [Workers -> Seq(Calls)]
        BY <3>1 DEF Init, ListInit
      <3>4. made \in [Pushers -> 0 .. MaxCalls]
        BY MaxCallsAssumption DEF Init, ListInit
      <3>5. /\ step \in [Pushers ->
                   {"idle", "push", "wake", "notify", "acquire"}]
            /\ stage \in [Workers ->
                   {"idle", "take", "next", "call", "check", "wake",
                    "wait", "asleep"}]
            /\ sync \in [Pushers -> BOOLEAN] /\ queued \in BOOLEAN
            /\ scheduled \in Nat
        BY DEF Init, ListInit
      <3>6. expected \in [Pushers -> Calls \cup {NoCall}]
        BY DEF Init, ListInit
      <3> QED
        BY <3>2, <3>3, <3>4, <3>5, <3>6 DEF TypeOK, ListTypeOK
    <2>2. /\ Reverse(stack) = <<>> /\ asked = <<>> /\ ran = <<>>
          /\ running = {} /\ ran \o <<>> = <<>>
          /\ \A w \in Workers : chain[w] = <<>> /\ stage[w] = "idle"
      BY ReverseEmpty DEF Init, ListInit
    <2>3. OrderInv
      BY <2>2 DEF OrderInv
    <2> QED
      BY <2>1, <2>3 DEF Init, ListInit, IInv, TokenInv, OneProcessor,
                        Processing, NobodyIsForgotten
  <1>2. TypeOK /\ IInv /\ [Next]_vars => (TypeOK /\ IInv)'
    BY TypeStep, TokenStep, OrderStep, ForgottenStep, MadeStep DEF IInv
  <1> QED
    BY <1>1, <1>2, PTL DEF Spec

(* The types of the variables of the queue, its threads and its history.   *)
THEOREM TypeCorrect == Spec => []TypeOK
  BY Invariant, PTL

(* Two threads of the pool never process one queue.                        *)
THEOREM OneProcessorAtATime == Spec => []OneProcessor
  <1>1. IInv => OneProcessor
    BY DEF IInv, TokenInv
  <1> QED
    BY Invariant, <1>1, PTL

(* Whatever is in the list, a turn of the pool will be asked for.          *)
THEOREM NothingIsForgotten == Spec => []NobodyIsForgotten
  <1>1. IInv => NobodyIsForgotten
    BY DEF IInv
  <1> QED
    BY Invariant, <1>1, PTL

(* The queue makes the calls that CallOrder makes: in the order they were  *)
(* pushed, each once, one at a time.                                       *)
THEOREM ImplementsCallOrder == Spec => CallsInOrder
  <1>1. Init => Order!Init
    BY DEF Init, ListInit, Order!Init
  <1>2. TypeOK /\ IInv /\ [Next]_vars => [Order!Next]_Order!vars
    <2> SUFFICES ASSUME TypeOK, IInv, [Next]_vars
                 PROVE  [Order!Next]_Order!vars
      OBVIOUS
    <2> USE DEF TypeOK, ListTypeOK
    <2>1. ASSUME NEW p \in Pushers, PushSucceeds(p)
          PROVE  Order!Next
      <3>1. <<p, made[p]>> \in Calls
        BY <2>1 DEF IInv, PushSucceeds, Calls
      <3> QED
        BY <2>1, <3>1 DEF PushSucceeds, Order!Next, Order!Ask
    <2>2. ASSUME NEW w \in Workers, chain[w] # <<>>
          PROVE  Len(ran) < Len(asked) /\ asked[Len(ran) + 1] = Head(chain[w])
      <3>1. asked = (ran \o chain[w]) \o Reverse(stack)
        BY <2>2 DEF IInv, OrderInv
      <3>2. /\ Len(ran) \in Nat /\ Len(chain[w]) \in Nat \ {0}
            /\ Reverse(stack) \in Seq(Calls) /\ Len(Reverse(stack)) \in Nat
            /\ chain[w][1] = Head(chain[w])
        BY <2>2, ReverseProperties, EmptySeq, LenProperties
      <3>3. /\ ran \o chain[w] \in Seq(Calls)
            /\ Len(ran \o chain[w]) = Len(ran) + Len(chain[w])
            /\ (ran \o chain[w])[Len(ran) + 1] = chain[w][1]
        BY <3>2, ConcatProperties
      <3>4. /\ Len(asked) = Len(ran) + Len(chain[w]) + Len(Reverse(stack))
            /\ asked[Len(ran) + 1] = (ran \o chain[w])[Len(ran) + 1]
        BY <3>1, <3>2, <3>3, ConcatProperties
      <3> QED
        BY <3>2, <3>3, <3>4
    <2>3. ASSUME NEW w \in Workers, BeginCall(w)
          PROVE  Order!Next
      <3>1. \A v \in Workers : stage[v] # "call"
        BY <2>3 DEF IInv, TokenInv, OneProcessor, Processing, BeginCall
      <3>2. running = {}
        BY <3>1 DEF IInv, OrderInv
      <3> QED
        BY <2>2, <2>3, <3>2 DEF BeginCall, Order!Next, Order!Begin
    <2>4. ASSUME NEW w \in Workers, EndCall(w)
          PROVE  Order!Next
      <3>1. chain[w] # <<>> /\ running = {Head(chain[w])}
        BY <2>4 DEF IInv, OrderInv, EndCall
      <3> QED
        BY <2>2, <2>4, <3>1 DEF EndCall, Order!Next, Order!End
    <2>5. CASE UNCHANGED history
      BY <2>5 DEF Order!vars
    <2> QED
      BY <2>1, <2>3, <2>4, <2>5
         DEF Next, vars, Pusher, Push, Allocate, PushFails, Acquire,
             WakeByPusher, Worker, Process, Take, Start, ClearFlag,
             CheckAgain, WakeByWorker
  <1> QED
    BY <1>1, <1>2, Invariant, PTL DEF Spec, CallsInOrder, Order!Spec
=============================================================================
