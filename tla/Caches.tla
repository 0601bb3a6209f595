------------------------------- MODULE Caches --------------------------------
(* The caches of dandi/cache: MemoryCache with its expiry timers, and         *)
(* CascadingCache, which asks one cache after the other.  Callers name an     *)
(* entry by a list of arguments, for which ServiceContextCacheKeyGenerator    *)
(* makes one key per service.  What another cache of the cascade answers may  *)
(* be anything at any time.                                                   *)
EXTENDS Naturals, Sequences

CONSTANTS CallArgs,     \* what callers name an entry by: [context, args]
          StoredValues, \* values that are truthy
          FalsyValue,   \* a value such as 0, which `if (result)` takes for none
          NoEntry,      \* undefined
          Durations,    \* for which entries are kept
          Forever,      \* the duration of an entry that has none, a number
          MaxDelay,     \* setTimeout fires at once beyond it (external)
          MaxTime,      \* bound: the clock
          MaxSets,      \* bound: entries stored
          Gets          \* calls of get()

(* Durations are positive; an entry without one is kept until further notice;  *)
(* undefined is not stored.                                                    *)
ASSUME DurationAssumption ==
  Forever = 0 /\ Durations \subseteq Nat \ {0} /\ MaxDelay \in Nat \ {0}
ASSUME EntryAssumption == NoEntry \notin StoredValues \cup {FalsyValue}

VARIABLES now,          \* the clock of timers
          memory,       \* map of MemoryCache
          timeouts,     \* timeouts of MemoryCache: key to timer
          timers,       \* timers of the event loop that are pending
          getCalls,     \* calls of get(): where they are, the result, what it should be
          sets,         \* calls of set() so far
          kept          \* history: what each caller has stored, and until when
cacheVars == <<now, memory, timeouts, timers, getCalls, sets, kept>>

(* ServiceContextCacheKeyGenerator.keyFor: the tag of the service and the      *)
(* arguments, joined by ':'.  One symbol is kept per joined string.            *)
Joined(tag, args) ==
  LET text[n \in 0 .. Len(args)] == IF n = 0 THEN tag ELSE text[n - 1] \o <<":">> \o args[n]
  IN text[Len(args)]
KeyFor(c) == Joined(<<"[", c.context, "]">>, c.args)

Keys == {KeyFor(c) : c \in CallArgs}
NoTimer == 0
Truthy(v) == v \notin {FalsyValue, NoEntry}
Results == StoredValues \cup {FalsyValue, NoEntry}

(* setTimeout takes a delay that does not fit into 32 bits for 1.              *)
DueAfter(duration) == now + (IF duration > MaxDelay THEN 1 ELSE duration)

CacheInit ==
  /\ now = 0 /\ sets = 0 /\ timers = {}
  /\ memory = [k \in Keys |-> NoEntry]
  /\ timeouts = [k \in Keys |-> NoTimer]
  /\ getCalls = [g \in Gets |-> [pc |-> "idle"]]
  /\ kept = [c \in CallArgs |-> [value |-> NoEntry, until |-> Forever, overflow |-> FALSE]]

(* The entry of a caller that is neither deleted nor out of date.              *)
Alive(e) == e.value # NoEntry /\ (e.until = Forever \/ now < e.until)

\* clearTimeout with a mistake: the timer is forgotten, not cleared.
TimersForgotten(k) == timers

(* MemoryCache.clearTimeout: the pending timers without that of the key.       *)
TimersWithout(k) == {t \in timers : t.id # timeouts[k]}

-----------------------------------------------------------------------------
(* CascadingCache.set stores in the first cache of the cascade only, that is   *)
(* MemoryCache.set: the timer of the entry before is cleared, a new one is     *)
(* started if there is a duration.                                             *)
SetEntry(c, value, duration) ==
  LET k == KeyFor(c) IN
  /\ sets < MaxSets /\ sets' = sets + 1
  /\ memory' = [memory EXCEPT ![k] = value]
  /\ timeouts' = [timeouts EXCEPT ![k] = IF duration = Forever THEN NoTimer ELSE sets + 1]
  /\ timers' = TimersWithout(k) \cup
                 (IF duration = Forever THEN {}
                  ELSE {[id |-> sets + 1, key |-> k, due |-> DueAfter(duration)]})
  /\ kept' = [kept EXCEPT ![c] = [value |-> value,
                                  until |-> IF duration = Forever THEN Forever ELSE now + duration,
                                  overflow |-> duration # Forever /\ duration > MaxDelay]]
  /\ UNCHANGED <<now, getCalls>>

(* CascadingCache.delete, likewise: what other caches hold stays.              *)
DeleteEntry(c) ==
  LET k == KeyFor(c) IN
  /\ memory' = [memory EXCEPT ![k] = NoEntry]
  /\ timeouts' = [timeouts EXCEPT ![k] = NoTimer]
  /\ timers' = TimersWithout(k)
  /\ kept' = [kept EXCEPT ![c] = [value |-> NoEntry, until |-> Forever, overflow |-> FALSE]]
  /\ UNCHANGED <<now, getCalls, sets>>

(* MemoryCache.clear.                                                          *)
ClearMemory ==
  /\ memory' = [k \in Keys |-> NoEntry]
  /\ timeouts' = [k \in Keys |-> NoTimer]
  /\ timers' = {t \in timers : \A k \in Keys : t.id # timeouts[k]}
  /\ kept' = [c \in CallArgs |-> [value |-> NoEntry, until |-> Forever, overflow |-> FALSE]]
  /\ UNCHANGED <<now, getCalls, sets>>

(* The callback of setTimeout.  A timer may fire late, never early.            *)
TimerFires(t) ==
  /\ t.due <= now
  /\ timers' = timers \ {t}
  /\ memory' = [memory EXCEPT ![t.key] = NoEntry]
  /\ timeouts' = [timeouts EXCEPT ![t.key] = NoTimer]
  /\ UNCHANGED <<now, getCalls, sets, kept>>

Tick ==
  /\ now < MaxTime /\ now' = now + 1
  /\ UNCHANGED <<memory, timeouts, timers, getCalls, sets, kept>>

(* CascadingCache.get: one cache after the other, until one has a result that  *)
(* is truthy.  Memory answers what it holds when it is asked, another cache    *)
(* answers later.                                                              *)
BeginGet(g, c) ==
  LET k == KeyFor(c)
      wanted == IF Alive(kept[c]) /\ ~kept[c].overflow /\ kept[c].value # FalsyValue THEN kept[c].value ELSE NoEntry IN
  /\ getCalls[g].pc = "idle"
  /\ getCalls' = [getCalls EXCEPT ![g] =
                   IF Truthy(memory[k])
                   THEN [pc |-> "done", result |-> memory[k], wanted |-> wanted]
                   ELSE [pc |-> "asking", key |-> k, wanted |-> wanted]]
  /\ UNCHANGED <<now, memory, timeouts, timers, sets, kept>>

AskRemote(g, answer) ==
  /\ getCalls[g].pc = "asking"
  /\ getCalls' = [getCalls EXCEPT ![g] = [pc |-> "done", wanted |-> @.wanted,
                                          result |-> IF Truthy(answer) THEN answer ELSE NoEntry]]
  /\ UNCHANGED <<now, memory, timeouts, timers, sets, kept>>

CacheNext ==
  \/ \E c \in CallArgs : DeleteEntry(c)
  \/ \E c \in CallArgs, v \in StoredValues \cup {FalsyValue}, d \in Durations \cup {Forever} : SetEntry(c, v, d)
  \/ ClearMemory \/ Tick
  \/ \E t \in timers : TimerFires(t)
  \/ \E g \in Gets : (\E c \in CallArgs : BeginGet(g, c)) \/ (\E v \in Results : AskRemote(g, v))

CacheSpec == CacheInit /\ [][CacheNext]_cacheVars

-----------------------------------------------------------------------------
(* What a cache promises.  An entry stays until it is deleted, replaced or out *)
(* of date, whatever timers of earlier entries of its key were started; an     *)
(* entry that has a duration has a timer that ends it; and a get() returns the *)
(* entry that its caller had stored.  Two exceptions: durations which          *)
(* setTimeout cannot represent, and falsy values, which the cascade does not   *)
(* take for an entry.                                                          *)
EntriesAreKept ==
  /\ \A c \in CallArgs :
        LET k == KeyFor(c) IN
        /\ Alive(kept[c]) /\ ~kept[c].overflow => memory[k] = kept[c].value
        /\ memory[k] # NoEntry =>
             /\ memory[k] = kept[c].value
             /\ kept[c].until # Forever => \E t \in timers : t.key = k /\ t.due <= kept[c].until
  /\ \A g \in Gets :
        LET call == getCalls[g] IN
        call.pc = "done" /\ call.wanted # NoEntry => call.result = call.wanted
=============================================================================
