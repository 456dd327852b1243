------------------------------ MODULE EventBus ------------------------------
(***************************************************************************)
(* The event bus of packages/event-bus (event-bus.ts, wildcard.ts): one    *)
(* partition of one process.                                               *)
(*                                                                         *)
(* publish() is synchronous.  It takes a snapshot of the subscriptions     *)
(* that match and calls their handlers one after the other, and a handler  *)
(* may itself publish, subscribe, unsubscribe or clear the bus.  Dispatches *)
(* in progress therefore form a stack, and what happens between two calls  *)
(* of one dispatch is up to the handler that runs.  Payloads are left out: *)
(* one that its schema rejects makes publish() throw before any effect.    *)
(***************************************************************************)
EXTENDS Naturals, Sequences, FiniteSets, SequencesExt, Arrays

CONSTANTS
  Subjects,    \* subjects published: sequences of segments
  Patterns,    \* patterns subscribed to: sequences of segments and "*"
  Handlers,    \* handler functions
  MaxSubs,     \* bound: subscriptions ever made
  MaxPublish,  \* bound: events ever published
  MaxDepth     \* bound: dispatches within dispatches

ASSUME BoundsAssumption ==
  MaxSubs \in Nat /\ MaxPublish \in Nat /\ MaxDepth \in Nat \ {0}

VARIABLES
  subs,        \* the subscriptions in the order of iteration
  stack,       \* dispatches in progress, the innermost one last
  made,        \* history: all subscriptions made; the position is the id
  published,   \* events published so far
  due,         \* history: events published for each id while it was there
  fired,       \* history: calls of the handler of each id
  released,    \* history: ids that were unsubscribed, cleared or spent
  nested       \* history: ids for one event that got another while they had theirs

vars == <<subs, stack, made, published, due, fired, released, nested>>

-----------------------------------------------------------------------------
(* matchSubject.                                                           *)

Wildcard == "*"

MatchSubject(pattern, subject) ==
  \/ pattern = <<Wildcard>>
  \/ /\ Len(pattern) = Len(subject)
     /\ \A i \in DOMAIN pattern : pattern[i] \in {Wildcard, subject[i]}

-----------------------------------------------------------------------------
(* The map of subscriptions.  It iterates over the patterns in the order of *)
(* their insertion, and over the subscriptions of a pattern in theirs: a   *)
(* new subscription comes after those of its pattern, or at the end.       *)

Ids == 1..Len(made)
Live == {subs[i].id : i \in DOMAIN subs}
Of(pattern) == {i \in DOMAIN subs : subs[i].pattern = pattern}
LastOf(pattern) == CHOOSE i \in Of(pattern) : \A j \in Of(pattern) : j <= i

Added(sub) ==
  InsertAt(subs, IF Of(sub.pattern) = {} THEN Len(subs) + 1 ELSE LastOf(sub.pattern) + 1, sub)

Without(ids) == Filter(subs, {s \in ToSet(subs) : s.id \notin ids})

\* Subscriptions that unsubscribe() takes for the one that s refers to.
Same(s) ==
  {i \in DOMAIN subs : /\ subs[i].pattern = s.pattern
                       /\ subs[i].handler = s.handler
                       /\ subs[i].once = s.once}

-----------------------------------------------------------------------------
Init ==
  /\ subs = <<>>
  /\ stack = <<>>
  /\ made = <<>>
  /\ published = 0
  /\ due = <<>>
  /\ fired = <<>>
  /\ released = {}
  /\ nested = {}

\* Program code runs: outside of every dispatch or in a handler.
CodeRuns == stack # <<>> => Last(stack).running

\* Mutant of Subscribe: ids count the subscriptions there are, not those made.
SubscribeReusesIds(pattern, h, once) ==
  /\ CodeRuns
  /\ Len(made) < MaxSubs
  /\ LET sub == [id |-> Len(subs) + 1, pattern |-> pattern, handler |-> h, once |-> once]
     IN  subs' = Added(sub) /\ made' = Append(made, sub)
  /\ due' = Append(due, 0)
  /\ fired' = Append(fired, 0)
  /\ UNCHANGED <<stack, published, released, nested>>

\* subscribe and subscribeOnce.
Subscribe(pattern, h, once) ==
  /\ CodeRuns
  /\ Len(made) < MaxSubs
  /\ LET sub == [id |-> Len(made) + 1, pattern |-> pattern, handler |-> h, once |-> once]
     IN  subs' = Added(sub) /\ made' = Append(made, sub)
  /\ due' = Append(due, 0)
  /\ fired' = Append(fired, 0)
  /\ UNCHANGED <<stack, published, released, nested>>

\* unsubscribe: the first subscription like the one given is removed.
Unsubscribe(id) ==
  /\ CodeRuns
  /\ released' = released \cup {id}
  /\ LET same == Same(made[id])
     IN  subs' = IF same = {} THEN subs
                 ELSE RemoveAt(subs, CHOOSE i \in same : \A j \in same : i <= j)
  /\ UNCHANGED <<stack, made, published, due, fired, nested>>

UnsubscribeAll(pattern) ==
  /\ CodeRuns
  /\ LET ids == {subs[i].id : i \in Of(pattern)}
     IN  subs' = Without(ids) /\ released' = released \cup ids
  /\ UNCHANGED <<stack, made, published, due, fired, nested>>

Clear ==
  /\ CodeRuns
  /\ subs' = <<>>
  /\ released' = released \cup Live
  /\ UNCHANGED <<stack, made, published, due, fired, nested>>

\* A dispatch in progress calls the subscription, or has noted that it is to be removed.
Busy(id) ==
  \E i \in DOMAIN stack :
    id \in stack[i].once \/ \E j \in DOMAIN stack[i].todo : stack[i].todo[j].id = id

\* publish: the snapshot of the handlers to call.
Publish(subject) ==
  /\ CodeRuns
  /\ published < MaxPublish /\ Len(stack) < MaxDepth
  /\ LET todo == Filter(subs, {s \in ToSet(subs) : MatchSubject(s.pattern, subject)})
         ids == {todo[i].id : i \in DOMAIN todo}
     IN  /\ stack' = Append(stack, [todo |-> todo, done |-> <<>>, once |-> {},
                                    running |-> FALSE])
         /\ due' = [id \in Ids |-> IF id \in ids THEN due[id] + 1 ELSE due[id]]
         /\ nested' = nested \cup {id \in ids : made[id].once /\ Busy(id)}
  /\ published' = published + 1
  /\ UNCHANGED <<subs, made, fired, released>>

\* The innermost dispatch between two calls, with s its next subscription.
Dispatching(s) ==
  /\ stack # <<>> /\ ~Last(stack).running
  /\ Last(stack).todo # <<>> /\ s = Head(Last(stack).todo)

\* Mutant of CallNext: a handler that was unsubscribed meanwhile is skipped.
CallNextIfLive ==
  \E id \in Ids :
    /\ Dispatching(made[id])
    /\ LET d == Last(stack)
           call == id \in Live
       IN  /\ stack' = ReplaceAt(stack, Len(stack),
                       [d EXCEPT !.todo = Tail(@), !.running = call,
                                 !.done = IF call THEN Append(@, id) ELSE @,
                                 !.once = IF call /\ made[id].once THEN @ \cup {id} ELSE @])
           /\ fired' = IF call THEN [fired EXCEPT ![id] = @ + 1] ELSE fired
    /\ UNCHANGED <<subs, made, published, due, released, nested>>

\* publish calls the next handler of its snapshot.
CallNext ==
  \E id \in Ids :
    /\ Dispatching(made[id])
    /\ stack' = LET d == Last(stack)
                IN  ReplaceAt(stack, Len(stack),
                      [d EXCEPT !.todo = Tail(@), !.running = TRUE, !.done = Append(@, id),
                                !.once = IF made[id].once THEN @ \cup {id} ELSE @])
    /\ fired' = [fired EXCEPT ![id] = @ + 1]
    /\ UNCHANGED <<subs, made, published, due, released, nested>>

\* The handler returns or throws, which is logged and makes no difference.
Return ==
  /\ stack # <<>> /\ Last(stack).running
  /\ stack' = ReplaceAt(stack, Len(stack), [Last(stack) EXCEPT !.running = FALSE])
  /\ UNCHANGED <<subs, made, published, due, fired, released, nested>>

\* All handlers were called: subscriptions for one event that were served in
\* this dispatch are removed, by id, and publish() returns.
EndDispatch ==
  /\ stack # <<>> /\ ~Last(stack).running /\ Last(stack).todo = <<>>
  /\ subs' = Without(Last(stack).once)
  /\ released' = released \cup Last(stack).once
  /\ stack' = Front(stack)
  /\ UNCHANGED <<made, published, due, fired, nested>>

Code ==
  \/ \E p \in Patterns, h \in Handlers, once \in BOOLEAN : Subscribe(p, h, once)
  \/ \E id \in Ids : Unsubscribe(id)
  \/ \E p \in Patterns : UnsubscribeAll(p)
  \/ Clear
  \/ \E s \in Subjects : Publish(s)

Next == Code \/ CallNext \/ Return \/ EndDispatch

Spec == Init /\ [][Next]_vars

-----------------------------------------------------------------------------
(* Properties.                                                             *)

\* Type correctness: no subscription is there twice, and a dispatch calls
\* nobody twice.
TypeOK ==
  /\ \A i \in DOMAIN subs : subs[i].id \in Ids /\ subs[i] = made[subs[i].id]
  /\ Cardinality(Live) = Len(subs)
  /\ Len(due) = Len(made) /\ Len(fired) = Len(made)
  /\ Len(stack) <= MaxDepth
  /\ \A i \in DOMAIN stack :
       LET todo == stack[i].todo
       IN  /\ \A j \in DOMAIN todo : todo[j] = made[todo[j].id]
           /\ IsInjective(stack[i].done \o [j \in DOMAIN todo |-> todo[j].id])
           /\ i < Len(stack) => stack[i].running
  /\ released \subseteq Ids

Quiet == stack = <<>>

\* Every event reaches every subscription that matched when it was published,
\* exactly once, whatever the handlers called before it have thrown,
\* unsubscribed, cleared or published themselves.
NoEventLost ==
  Quiet => \A id \in Ids : ~made[id].once => fired[id] = due[id]

\* A subscription for one event (event-bus.ts:119) gets one if there was one,
\* and a second one only if that was published by a handler, while the first
\* was still being delivered.
OneEventArrives ==
  Quiet => \A id \in Ids : made[id].once =>
    /\ due[id] > 0 => fired[id] > 0
    /\ fired[id] > 1 => id \in nested

\* When no dispatch is in progress, no subscription for one event is left
\* that has had its event, in nested dispatches too.
SpentIsGone ==
  Quiet => \A i \in DOMAIN subs : subs[i].once => fired[subs[i].id] = 0

\* Every event is delivered to all who are due, and one for one event is gone then.
EventsArrive == NoEventLost /\ OneEventArrives /\ SpentIsGone

=============================================================================
