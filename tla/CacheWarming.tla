---------------------------- MODULE CacheWarming ----------------------------
(***************************************************************************)
(* The cache across restarts of the server (cache/warming.rs): a loop      *)
(* dumps the entries with the most hits to a file, and the next start      *)
(* inserts them again before it serves.  The process may die at any time;  *)
(* the files survive it.                                                   *)
(*                                                                         *)
(* The file is written to a temporary name and renamed.  A file holds the  *)
(* sequence of dumped entries, or is torn while it is being written.       *)
(***************************************************************************)
EXTENDS Naturals, Sequences, FiniteSets

CONSTANTS
    Keys,           \* cache keys
    NoFile, Torn,   \* a file that does not exist, or is half written
    Ttl,            \* default_ttl, in ticks
    Capacities,     \* max_entries, which may change from start to start
    MaxWarm,        \* max_warm_entries
    FailureLimit,   \* the literal 5 of dump_loop
    LoopStarted,    \* whether anyone calls start_dump_loop
    MaxHits,        \* bound of the model: hits counted per entry
    MaxStarts,      \* bound of the model: starts of the server
    MaxTicks        \* bound of the model: ticks of the clock

(* An entry of a dump. *)
Dumped == [key : Keys, hits : 0..MaxHits]

ASSUME KeysFinite == IsFiniteSet(Keys)
ASSUME FilesDiffer == NoFile # Torn
ASSUME TornIsNoDump == {NoFile, Torn} \cap Seq(Dumped) = {}
ASSUME CapacitiesPositive == Capacities \subseteq Nat \ {0}
ASSUME LimitsAreNat == {Ttl, MaxWarm, FailureLimit, MaxHits, MaxStarts, MaxTicks} \subseteq Nat
ASSUME LoopIsBoolean == LoopStarted \in BOOLEAN

VARIABLES
    phase,      \* the server: down, warming its cache, or up
    cache,      \* the exact cache
    capacity,   \* its max_entries
    loaded,     \* how many dumped entries have been inserted
    dumper,     \* where the dump loop is
    final,      \* whether the loop is in its final dump
    buffer,     \* the entries the dump in progress writes
    tmp,        \* the temporary file
    dump,       \* the dump file
    failures,   \* consecutive_failures
    shutdown,   \* the shutdown signal
    starts,     \* how often the server was started
    ticks       \* how far the clock went

vars == <<phase, cache, capacity, loaded, dumper, final, buffer, tmp, dump,
          failures, shutdown, starts, ticks>>

server == <<phase, capacity, loaded, shutdown, starts, ticks>>

(* age counts from created_at, which insert_warm sets anew.                 *)
New(hits) == [hits |-> hits, age |-> 0]

Expired(e) == e.age > Ttl

Live == {k \in DOMAIN cache : ~Expired(cache[k])}

Init ==
    /\ phase = "down"
    /\ cache = [k \in {} |-> New(0)]
    /\ capacity \in Capacities
    /\ loaded = 0
    /\ dumper = "off"
    /\ final = FALSE
    /\ buffer = <<>>
    /\ tmp = NoFile
    /\ dump = NoFile
    /\ failures = 0
    /\ shutdown = FALSE
    /\ starts = 0
    /\ ticks = 0

-----------------------------------------------------------------------------

(* Mutant of Inserted: the most used entry goes. *)
InsertedOverHottest(c, k, e) ==
    LET Drop(H) == [j \in (DOMAIN c \ H) \cup {k} |-> IF j = k THEN e ELSE c[j]]
        most == {j \in DOMAIN c : \A i \in DOMAIN c : c[j].hits >= c[i].hits}
    IN  IF Cardinality(DOMAIN c) < capacity THEN {Drop({})} ELSE {Drop({v}) : v \in most}

(* The cache as one caller at a time sees it: what it may hold after an     *)
(* insert.  A full cache drops what has expired, or else one of the entries *)
(* with the fewest hits.                                                    *)
Inserted(c, k, e) ==
    LET Drop(H) == [j \in (DOMAIN c \ H) \cup {k} |-> IF j = k THEN e ELSE c[j]]
        dead == {j \in DOMAIN c : Expired(c[j])}
        least == {j \in DOMAIN c : \A i \in DOMAIN c : c[j].hits <= c[i].hits}
    IN  IF Cardinality(DOMAIN c) < capacity THEN {Drop({})}
        ELSE IF dead # {} THEN {Drop(dead)}
        ELSE {Drop({v}) : v \in least}

(* A provider's response comes in. *)
Insert(k) ==
    /\ phase = "up"
    /\ cache' \in Inserted(cache, k, New(0))
    /\ UNCHANGED <<server, dumper, final, buffer, tmp, dump, failures>>

Hit(k) ==
    /\ phase = "up"
    /\ k \in Live
    /\ cache[k].hits < MaxHits
    /\ cache' = [cache EXCEPT ![k].hits = @ + 1]
    /\ UNCHANGED <<server, dumper, final, buffer, tmp, dump, failures>>

(* A lookup that finds its entry dead removes it. *)
Miss(k) ==
    /\ phase = "up"
    /\ k \in DOMAIN cache \ Live
    /\ cache' = [j \in DOMAIN cache \ {k} |-> cache[j]]
    /\ UNCHANGED <<server, dumper, final, buffer, tmp, dump, failures>>

Later(n) == IF n > Ttl THEN n ELSE n + 1

Content(file) == IF file \in {NoFile, Torn} THEN <<>> ELSE file

(* Time passes, in ticks that are long beside the loading of a dump. *)
Tick ==
    /\ phase # "warming"
    /\ ticks < MaxTicks
    /\ ticks' = ticks + 1
    /\ cache' = [k \in DOMAIN cache |->
                    [cache[k] EXCEPT !.age = Later(@)]]
    /\ UNCHANGED <<phase, capacity, loaded, shutdown, starts, dumper, final, buffer,
                   tmp, dump, failures>>

-----------------------------------------------------------------------------
(* init_cache and warm: the dumped entries are inserted one by one, as new  *)
(* ones but for their hits, at most MaxWarm of them.                        *)

Start ==
    /\ phase = "down"
    /\ starts < MaxStarts
    /\ starts' = starts + 1
    /\ capacity' \in Capacities
    /\ phase' = "warming"
    /\ UNCHANGED <<cache, loaded, dumper, final, buffer, tmp, dump, failures, shutdown, ticks>>

WarmOne ==
    /\ phase = "warming"
    /\ loaded < Len(Content(dump)) /\ loaded < MaxWarm
    /\ loaded' = loaded + 1
    /\ LET d == dump[loaded + 1]
       IN  cache' \in Inserted(cache, d.key, New(d.hits))
    /\ UNCHANGED <<phase, capacity, shutdown, starts, ticks, dumper, final, buffer,
                   tmp, dump, failures>>

(* Serving starts, and with it the loop, if anyone starts it. *)
Serve ==
    /\ phase' = "up"
    /\ dumper' = IF LoopStarted THEN "waiting" ELSE "off"
    /\ UNCHANGED <<cache, capacity, loaded, final, buffer, tmp, dump, failures,
                   shutdown, starts, ticks>>

Warmed ==
    /\ phase = "warming"
    /\ loaded = Len(Content(dump)) \/ loaded = MaxWarm
    /\ Serve

(* The file cannot be read or parsed: the server starts cold. *)
WarmFails ==
    /\ phase = "warming"
    /\ loaded = 0
    /\ dump # NoFile
    /\ Serve

-----------------------------------------------------------------------------
(* dump_loop and dump_once *)

(* top_by_hit_count: the live entries in some order of falling hits, cut at *)
(* MaxWarm.                                                                 *)
TopEntries ==
    LET Ordered(s) ==
            /\ \A i, j \in DOMAIN s : i < j => cache[s[i]].hits >= cache[s[j]].hits
            /\ \A i, j \in DOMAIN s : i # j => s[i] # s[j]
        n == Cardinality(Live)
        cut == IF n < MaxWarm THEN n ELSE MaxWarm
    IN  {[i \in 1..cut |->
             [key |-> s[i], hits |-> cache[s[i]].hits]] :
            s \in {t \in [1..n -> Live] : Ordered(t)}}

(* The loop wakes up for the interval or for the shutdown, takes the top    *)
(* entries and opens the temporary file; with no live entry nothing is      *)
(* written, and the dump counts as a success.                               *)
BeginDump(isFinal) ==
    /\ dumper = "waiting"
    /\ \E top \in TopEntries :
          IF top = <<>>
            THEN /\ dumper' = IF isFinal THEN "off" ELSE "waiting"
                 /\ failures' = 0
                 /\ UNCHANGED <<final, buffer, tmp>>
            ELSE /\ dumper' = "writing"
                 /\ final' = isFinal
                 /\ buffer' = top
                 /\ tmp' = Torn
                 /\ UNCHANGED failures
    /\ UNCHANGED <<server, cache, dump>>

IntervalTick == BeginDump(FALSE)

ShutdownSeen == shutdown /\ BeginDump(TRUE)

WriteTmp ==
    /\ dumper = "writing"
    /\ dumper' = "renaming"
    /\ tmp' = buffer
    /\ buffer' = <<>>
    /\ UNCHANGED <<server, cache, final, dump, failures>>

(* Mutant of Again: the final dump is not the last. *)
AgainAndAgain(ok) ==
    /\ failures' = IF ok THEN 0 ELSE failures
    /\ dumper' = "waiting"
    /\ final' = FALSE

(* The loop goes on after a dump, unless it was the final one. *)
Again(ok) ==
    LET n == IF ok THEN 0 ELSE IF failures < FailureLimit THEN failures + 1 ELSE failures
    IN  /\ failures' = n
        /\ dumper' = IF final THEN "off"
                     ELSE IF n >= FailureLimit THEN "sleeping" ELSE "waiting"
        /\ final' = FALSE

(* Mutant of Rename: it does not wait for the write. *)
RenameEarly ==
    /\ dumper \in {"writing", "renaming"}
    /\ dump' = tmp
    /\ tmp' = NoFile
    /\ Again(TRUE)
    /\ UNCHANGED <<server, cache, buffer>>

Rename ==
    /\ dumper = "renaming"
    /\ dump' = tmp
    /\ tmp' = NoFile
    /\ Again(TRUE)
    /\ UNCHANGED <<server, cache, buffer>>

DumpFails ==
    /\ dumper \in {"writing", "renaming"}
    /\ buffer' = <<>>
    /\ Again(FALSE)
    /\ UNCHANGED <<server, cache, tmp, dump>>

(* Mutant of WakeUp: the loop gives up. *)
GiveUp ==
    /\ dumper = "sleeping"
    /\ dumper' = "off"
    /\ UNCHANGED <<server, cache, final, buffer, tmp, dump, failures>>

(* The back-off after too many failures, deaf to the shutdown. *)
WakeUp ==
    /\ dumper = "sleeping"
    /\ dumper' = "waiting"
    /\ UNCHANGED <<server, cache, final, buffer, tmp, dump, failures>>

-----------------------------------------------------------------------------
SignalShutdown ==
    /\ phase = "up" /\ ~shutdown
    /\ shutdown' = TRUE
    /\ UNCHANGED <<phase, capacity, loaded, starts, ticks, cache, dumper, final, buffer,
                   tmp, dump, failures>>

(* The process ends, by itself or killed: only the files are left. *)
Exit ==
    /\ phase # "down"
    /\ phase' = "down"
    /\ cache' = [k \in {} |-> New(0)]
    /\ loaded' = 0
    /\ dumper' = "off"
    /\ final' = FALSE
    /\ buffer' = <<>>
    /\ failures' = 0
    /\ shutdown' = FALSE
    /\ UNCHANGED <<capacity, tmp, dump, starts, ticks>>

-----------------------------------------------------------------------------
LoopStep == ShutdownSeen \/ WriteTmp \/ Rename \/ DumpFails \/ WakeUp

Next ==
    \/ \E k \in Keys : Insert(k) \/ Hit(k) \/ Miss(k)
    \/ Tick
    \/ Start \/ WarmOne \/ Warmed \/ WarmFails
    \/ IntervalTick \/ LoopStep
    \/ SignalShutdown \/ Exit

Spec == Init /\ [][Next]_vars

(* The interval and the back-off elapse and file operations return, with    *)
(* success or an error; select! takes the shutdown when it keeps being ready *)
(* (SF: a tick of the interval may win, but not for ever).                  *)
FairSpec ==
    /\ Spec
    /\ WF_vars(WriteTmp \/ Rename \/ DumpFails \/ WakeUp)
    /\ WF_vars(IntervalTick)
    /\ SF_vars(ShutdownSeen)

-----------------------------------------------------------------------------
Files == {NoFile, Torn} \cup Seq(Dumped)

(* Types; and while it warms or serves one caller at a time the cache stays *)
(* within the capacity of this start (insert_warm).                         *)
TypeOK ==
    /\ phase \in {"down", "warming", "up"}
    /\ DOMAIN cache \subseteq Keys
    /\ \A k \in DOMAIN cache :
          cache[k] \in [hits : 0..MaxHits, age : 0..(Ttl + 1)]
    /\ capacity \in Capacities
    /\ loaded \in 0..MaxWarm
    /\ dumper \in {"off", "waiting", "writing", "renaming", "sleeping"}
    /\ {final, shutdown} \subseteq BOOLEAN
    /\ {tmp, dump, buffer} \subseteq Files
    /\ failures \in 0..FailureLimit
    /\ starts \in 0..MaxStarts
    /\ ticks \in 0..MaxTicks
    /\ Cardinality(DOMAIN cache) <= capacity

(* Whenever the process dies, the dump file is absent or whole: it can be   *)
(* parsed and holds distinct keys by falling hits (dump_once writes aside   *)
(* and renames).                                                            *)
DumpIsWhole ==
    /\ dump # Torn
    /\ \A i, j \in DOMAIN Content(dump) :
          i < j => /\ dump[i].hits >= dump[j].hits
                   /\ dump[i].key # dump[j].key

(* Once the dump is loaded, what is missing is not hotter than what is      *)
(* there: for a dumped entry the cache lost, all but one of the cached      *)
(* entries have at least its hits.  (All but one: into a full cache each    *)
(* further entry replaces the one before it, so the coldest is there.)      *)
WarmKeepsHottest ==
    [][Warmed =>
         \A i \in 1..loaded :
            dump[i].key \notin DOMAIN cache =>
               Cardinality({k \in DOMAIN cache : cache[k].hits >= dump[i].hits})
                  >= capacity - 1]_vars

(* A shutdown is noticed and the loop ends, even out of a failing write or  *)
(* a back-off (dump_loop).                                                  *)
LoopEnds == shutdown ~> (dumper = "off")

(* "periodically dumping the top-N cache entries to disk", warming.rs:3-4:   *)
(* a server that stays up with something in its cache keeps dumping.        *)
PeriodicallyDumps ==
    <>[](phase = "up" /\ ~shutdown /\ Live # {}) => []<>(dumper \in {"writing", "sleeping"})

=============================================================================
