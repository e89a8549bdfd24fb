------------------------------ MODULE CallList ------------------------------
(***************************************************************************)
(* crl::details::list: calls that any thread pushes without a lock and one *)
(* thread at a time takes all at once.  Each step is one access to the     *)
(* shared head, so that the steps of different threads interleave as they  *)
(* can; a compare-and-swap succeeds exactly when the head is the expected  *)
(* one.  The queues below say who takes the calls, and when.               *)
(***************************************************************************)
EXTENDS Naturals, SequencesExt

CONSTANTS
    Pushers,    \* the threads that push
    Workers,    \* the threads that take and make the calls
    MaxCalls,   \* bound: a thread pushes so many
    NoCall      \* a null entry

ASSUME MaxCallsAssumption == MaxCalls \in Nat

(* The n-th entry a thread allocates.                                      *)
Calls == Pushers \X (1 .. MaxCalls)

ASSUME NoCallAssumption == NoCall \notin Calls

VARIABLES
    stack,     \* the entries that can be reached from _head, the last first
    made,      \* how many entries each pusher has allocated
    step,      \* what each pusher does next
    expected,  \* the head each pusher has read
    sync,      \* whether each pusher waits until its call is made
    chain,     \* the entries each worker has taken and not finished
    stage,     \* what each worker does next
    asked,     \* history: the calls pushed so far, in order
    running,   \* history: the calls being made now
    ran        \* history: the calls that were made, in order

pushVars == <<made, step, expected, sync>>
takeVars == <<chain, stage>>
history == <<asked, running, ran>>
listVars == <<stack, pushVars, takeVars, history>>

-----------------------------------------------------------------------------
ListTypeOK ==
    /\ stack \in Seq(Calls)
    /\ made \in [Pushers -> 0 .. MaxCalls]
    /\ step \in [Pushers -> {"idle", "push", "wake", "notify", "acquire"}]
    /\ expected \in [Pushers -> Calls \cup {NoCall}]
    /\ sync \in [Pushers -> BOOLEAN]
    /\ chain \in [Workers -> Seq(Calls)]
    /\ stage \in [Workers ->
         {"idle", "take", "next", "call", "check", "wake", "wait", "asleep"}]
    /\ asked \in Seq(Calls)
    /\ running \subseteq Calls
    /\ ran \in Seq(Calls)

ListInit ==
    /\ stack = <<>>
    /\ made = [p \in Pushers |-> 0]
    /\ step = [p \in Pushers |-> "idle"]
    /\ expected = [p \in Pushers |-> NoCall]
    /\ sync = [p \in Pushers |-> FALSE]
    /\ chain = [w \in Workers |-> <<>>]
    /\ asked = <<>> /\ running = {} /\ ran = <<>>

HeadEntry == IF stack = <<>> THEN NoCall ELSE stack[1]

-----------------------------------------------------------------------------
(* async, or sync: AllocateEntry, and push_entry begins with a null head.  *)
Allocate(p, waits) ==
    /\ step[p] = "idle" /\ made[p] < MaxCalls
    /\ made' = [made EXCEPT ![p] = @ + 1]
    /\ sync' = [sync EXCEPT ![p] = waits]
    /\ step' = [step EXCEPT ![p] = "push"]
    /\ expected' = [expected EXCEPT ![p] = NoCall]
    /\ UNCHANGED <<stack, takeVars, history>>

(* compare_exchange_weak fails and reads the head, entry->next = head.     *)
PushFails(p) ==
    /\ step[p] = "push" /\ HeadEntry # expected[p]
    /\ expected' = [expected EXCEPT ![p] = HeadEntry]
    /\ UNCHANGED <<stack, made, step, sync, takeVars, history>>

(* Mutant of IsFirst: the pusher of every entry but the first one wakes.   *)
IsNotFirst(p) == expected[p] # NoCall

(* What push_is_first returns.                                             *)
IsFirst(p) == expected[p] = NoCall

(* sync goes on to acquire the semaphore that its call releases.           *)
AfterAsync(p) == IF sync[p] THEN "acquire" ELSE "idle"

(* compare_exchange_weak succeeds: the entry is the head.                  *)
PushSucceeds(p) ==
    /\ step[p] = "push" /\ HeadEntry = expected[p]
    /\ stack' = Cons(<<p, made[p]>>, stack)
    /\ asked' = Append(asked, <<p, made[p]>>)
    /\ step' = [step EXCEPT ![p] = IF IsFirst(p) THEN "wake"
                                      ELSE AfterAsync(p)]
    /\ UNCHANGED <<made, expected, sync, takeVars, running, ran>>

Acquire(p) ==
    /\ step[p] = "acquire" /\ \E i \in DOMAIN ran : ran[i] = <<p, made[p]>>
    /\ step' = [step EXCEPT ![p] = "idle"]
    /\ UNCHANGED <<stack, made, expected, sync, takeVars, history>>

Push(p) ==
    \/ \E waits \in BOOLEAN : Allocate(p, waits)
    \/ PushFails(p)
    \/ PushSucceeds(p)
    \/ Acquire(p)

-----------------------------------------------------------------------------
(* Mutant of Taken: the list is not reversed.                              *)
TakenAsItIs == stack

(* ReverseList of all that the exchange returns.                           *)
Taken == Reverse(stack)

(* process: the whole list is exchanged for an empty one.                  *)
Take(w) ==
    /\ stage[w] = "take"
    /\ chain' = [chain EXCEPT ![w] = Taken]
    /\ stack' = <<>>
    /\ stage' = [stage EXCEPT ![w] = "next"]
    /\ UNCHANGED <<pushVars, history>>

(* ... and its calls are made one by one.                                  *)
BeginCall(w) ==
    /\ stage[w] = "next" /\ chain[w] # <<>>
    /\ stage' = [stage EXCEPT ![w] = "call"]
    /\ running' = running \cup {Head(chain[w])}
    /\ UNCHANGED <<stack, pushVars, chain, asked, ran>>

EndCall(w) ==
    /\ stage[w] = "call"
    /\ stage' = [stage EXCEPT ![w] = "next"]
    /\ chain' = [chain EXCEPT ![w] = Tail(@)]
    /\ running' = running \ {Head(chain[w])}
    /\ ran' = Append(ran, Head(chain[w]))
    /\ UNCHANGED <<stack, pushVars, asked>>

Process(w) == Take(w) \/ BeginCall(w) \/ EndCall(w)
=============================================================================
