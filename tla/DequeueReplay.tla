---------------------------- MODULE DequeueReplay ----------------------------
(* DequeueReplaySubject and the operator dequeueReplay() of dandi/rxjs.  A    *)
(* subject keeps the values it has been given until its dequeue trigger       *)
(* names them, and replays those it still has to new subscribers.             *)
(*                                                                            *)
(* RxJS is synchronous: next() and subscribe() call the observers before they *)
(* return, and an observer may call the subject, or make its trigger emit,    *)
(* from within that call.  `calls` is the stack of the calls of next() and    *)
(* subscribe() under way; a step delivers one value for the call on top.      *)
EXTENDS Naturals, Sequences, SequencesExt

CONSTANTS MaxValues,    \* bound: values the source emits, numbered in their order
          Subscribers,
          MaxCalls      \* bound: calls nested in one another

VARIABLES queued,       \* _events
          trigger,      \* _dequeueSub: "none", "open" or "closed"
          linked,       \* the operator has subscribed the subject to its source
          stopped,      \* isStopped of the subject
          observers,    \* observers of the Subject, in the order of subscription
          calls,        \* calls under way, the innermost first
          subscriber,   \* how far the subscription of each subscriber is
          sent,         \* history: the values emitted by the source
          named,        \* history: those the trigger has named since they were emitted
          got,          \* history: the values each subscriber has received
          owed,         \* history: the set of values each subscriber should receive
          disturbed     \* history: subscribers of whom that cannot be said
replayVars ==
  <<queued, trigger, linked, stopped, observers, calls, subscriber, sent, named, got, owed, disturbed>>

ReplayInit ==
  /\ queued = <<>> /\ trigger = "none" /\ linked = FALSE /\ stopped = FALSE
  /\ observers = <<>> /\ calls = <<>>
  /\ subscriber = [s \in Subscribers |-> "new"]
  /\ sent = <<>> /\ named = {} /\ disturbed = {}
  /\ got = [s \in Subscribers |-> <<>>]
  /\ owed = [s \in Subscribers |-> {}]

(* Code outside runs when no call is under way, or in the callback of an      *)
(* observer which the call on top has just made.                              *)
MayCall == calls # <<>> => Head(calls).inCallback /\ Len(calls) < MaxCalls

Top(op) == calls # <<>> /\ Head(calls).op = op
Closed(s) == subscriber[s] \in {"completed", "left"}

(* A value delivered to an observer that has been closed meanwhile is dropped. *)
DeliverTo(s, v) == got' = IF Closed(s) THEN got ELSE [got EXCEPT ![s] = Append(@, v)]

(* What should be replayed: what the trigger has not named.                   *)
Unnamed == ToSet(sent) \ named

(* Subscribers whose replay is under way, and those whom a value has still to  *)
(* reach.                                                                      *)
Replaying == {s \in Subscribers : subscriber[s] = "replaying"}
Awaiting  == {s \in Subscribers :
               \E i \in DOMAIN calls : calls[i].op = "next" /\ s \in ToSet(calls[i].to)}

-----------------------------------------------------------------------------
(* The operator: the first subscriber connects the subject to the source,     *)
(* which may emit at once, before the subscriber itself is subscribed.  (That *)
(* a source calls the operator again while it is subscribed to is left out.)  *)
Call(s) ==
  /\ MayCall /\ ~Top("call") /\ subscriber[s] = "new"
  /\ linked' = TRUE
  /\ subscriber' = [subscriber EXCEPT ![s] = "calling"]
  /\ calls' = <<[op |-> "call", who |-> s, inCallback |-> ~linked]>> \o calls
  /\ UNCHANGED <<queued, trigger, stopped, observers, sent, named, got, owed, disturbed>>

(* subscribe(): forEach over the queued values; their number is fixed when it  *)
(* starts.                                                                     *)
Subscribe ==
  /\ Top("call")
  /\ LET s == Head(calls).who
     IN /\ calls' = <<[op |-> "replay", who |-> s, at |-> 1, upto |-> Len(queued), inCallback |-> FALSE]>>
                      \o Tail(calls)
        /\ subscriber' = [subscriber EXCEPT ![s] = "replaying"]
        /\ owed' = [owed EXCEPT ![s] = Unnamed]
  /\ UNCHANGED <<queued, trigger, linked, stopped, observers, sent, named, got, disturbed>>

Replay ==
  /\ Top("replay")
  /\ LET c == Head(calls)
     IN /\ c.at <= c.upto /\ c.at <= Len(queued)
        /\ DeliverTo(c.who, queued[c.at])
        /\ calls' = <<[c EXCEPT !.at = @ + 1, !.inCallback = TRUE]>> \o Tail(calls)
  /\ UNCHANGED <<queued, trigger, linked, stopped, observers, subscriber, sent, named, owed, disturbed>>

(* super.subscribe(sink): a subject that has stopped completes the observer.  *)
Subscribed ==
  /\ Top("replay")
  /\ LET c == Head(calls)
     IN /\ c.at > c.upto \/ c.at > Len(queued)
        /\ observers' = IF stopped THEN observers ELSE Append(observers, c.who)
        /\ subscriber' = [subscriber EXCEPT ![c.who] = IF stopped THEN "completed" ELSE "subscribed"]
        /\ calls' = Tail(calls)
  /\ UNCHANGED <<queued, trigger, linked, stopped, sent, named, got, owed, disturbed>>

\* NextValue with a mistake: the trigger is listened to from the second value on.
NextValueListensLate(v) ==
  /\ MayCall /\ linked /\ v = Len(sent) + 1
  /\ sent' = Append(sent, v)
  /\ trigger' = IF trigger = "none" /\ queued # <<>> THEN "open" ELSE trigger
  /\ queued' = Append(queued, v)
  /\ calls' = IF stopped THEN calls
              ELSE <<[op |-> "next", value |-> v, to |-> observers, inCallback |-> FALSE]>> \o calls
  /\ owed' = [s \in Subscribers |->
                IF subscriber[s] \in {"replaying", "subscribed"} THEN owed[s] \cup {v} ELSE owed[s]]
  /\ disturbed' = disturbed \cup Replaying \cup Awaiting
  /\ UNCHANGED <<linked, stopped, observers, subscriber, named, got>>

(* next(value): listen to the trigger, keep the value, then super.next.  A     *)
(* subscriber whose replay is under way does not receive it, and those who     *)
(* wait for an earlier value receive this one first.                           *)
NextValue(v) ==
  /\ MayCall /\ linked /\ v = Len(sent) + 1
  /\ sent' = Append(sent, v)
  /\ trigger' = IF trigger = "none" THEN "open" ELSE trigger
  /\ queued' = Append(queued, v)
  /\ calls' = IF stopped THEN calls
              ELSE <<[op |-> "next", value |-> v, to |-> observers, inCallback |-> FALSE]>> \o calls
  /\ owed' = [s \in Subscribers |->
                IF subscriber[s] \in {"replaying", "subscribed"} THEN owed[s] \cup {v} ELSE owed[s]]
  /\ disturbed' = disturbed \cup Replaying \cup Awaiting
  /\ UNCHANGED <<linked, stopped, observers, subscriber, named, got>>

Deliver ==
  /\ Top("next")
  /\ LET c == Head(calls)
     IN /\ c.to # <<>>
        /\ DeliverTo(Head(c.to), c.value)
        /\ calls' = <<[c EXCEPT !.to = Tail(@), !.inCallback = ~Closed(Head(c.to))]>> \o Tail(calls)
  /\ UNCHANGED <<queued, trigger, linked, stopped, observers, subscriber, sent, named, owed, disturbed>>

Delivered ==
  /\ Top("next") /\ Head(calls).to = <<>>
  /\ calls' = Tail(calls)
  /\ UNCHANGED <<queued, trigger, linked, stopped, observers, subscriber, sent, named, got, owed, disturbed>>

(* The trigger emits a value; _dequeueNext, if the subject listens to it,      *)
(* removes the value that matches (no two are the same).  A replay under way   *)
(* goes on by index and may skip a value.                                      *)
TriggerEmits(v) ==
  /\ MayCall /\ trigger # "closed"
  /\ named' = IF v \in ToSet(sent) THEN named \cup {v} ELSE named
  /\ IF trigger = "open"
     THEN /\ queued' = RemoveFirst(queued, v)
          /\ trigger' = IF stopped /\ queued' = <<>> THEN "closed" ELSE trigger
          /\ disturbed' = IF queued' = queued THEN disturbed ELSE disturbed \cup Replaying
     ELSE UNCHANGED <<queued, trigger, disturbed>>
  /\ UNCHANGED <<linked, stopped, observers, calls, subscriber, sent, got, owed>>

(* complete() or error() of a Subject closes all its observers, also those     *)
(* whom the value being delivered has not reached.                             *)
Stop ==
  /\ stopped' = TRUE
  /\ observers' = <<>>
  /\ subscriber' = [s \in Subscribers |-> IF s \in ToSet(observers) THEN "completed" ELSE subscriber[s]]
  /\ disturbed' = disturbed \cup Awaiting

SourceCompletes ==
  /\ MayCall /\ linked /\ ~stopped
  /\ Stop
  /\ UNCHANGED <<queued, trigger, linked, calls, sent, named, got, owed>>

(* An error of the trigger is an error of the subject; nobody dequeues any     *)
(* value after it.                                                             *)
TriggerFails ==
  /\ MayCall /\ trigger = "open"
  /\ trigger' = "closed"
  /\ IF stopped THEN UNCHANGED <<stopped, observers, subscriber, disturbed>> ELSE Stop
  /\ UNCHANGED <<queued, linked, calls, sent, named, got, owed>>

Unsubscribe(s) ==
  /\ MayCall /\ subscriber[s] = "subscribed"
  /\ subscriber' = [subscriber EXCEPT ![s] = "left"]
  /\ observers' = RemoveFirst(observers, s)
  /\ UNCHANGED <<queued, trigger, linked, stopped, calls, sent, named, got, owed, disturbed>>

ReplayNext ==
  \/ \E s \in Subscribers : Call(s) \/ Unsubscribe(s)
  \/ Subscribe \/ Replay \/ Subscribed \/ Deliver \/ Delivered
  \/ \E v \in 1..MaxValues : NextValue(v) \/ TriggerEmits(v)
  \/ SourceCompletes \/ TriggerFails

ReplaySpec == ReplayInit /\ [][ReplayNext]_replayVars

-----------------------------------------------------------------------------
(* Values are numbered in the order in which they were emitted.                *)
InOrder(seq) == \A i, j \in DOMAIN seq : i < j => seq[i] < seq[j]

(* What a subject promises.  A subscriber receives the values that were queued *)
(* when it subscribed, then those that came later, each once and in order,     *)
(* whatever other subscribers do in their callbacks - unless the queue was     *)
(* changed while it was being replayed, or the subject was called again before *)
(* a value had reached all.  Even then it receives nothing twice.              *)
SeesWhatIsQueued ==
  /\ \A s \in Subscribers \ disturbed :
        /\ InOrder(got[s]) /\ ToSet(got[s]) \subseteq owed[s]
        /\ \A v \in ToSet(got[s]), u \in owed[s] : u < v => u \in ToSet(got[s])
        /\ calls = <<>> /\ subscriber[s] \in {"subscribed", "completed"} => ToSet(got[s]) = owed[s]
  /\ \A s \in Subscribers : IsInjective(got[s]) /\ ToSet(got[s]) \subseteq ToSet(sent)
==============================================================================
