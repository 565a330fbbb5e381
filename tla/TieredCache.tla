---------------------------- MODULE TieredCache ----------------------------
(***************************************************************************)
(* The two-tier response cache (cache/mod.rs): an exact tier, then a       *)
(* semantic tier (cache/semantic_cache.rs) that answers with what was      *)
(* stored for the most similar last user message.                          *)
(*                                                                         *)
(* The exact tier is used through the contract of LossyCache: an insert    *)
(* may push out any entries, and an expired entry is as good as absent.    *)
(* The semantic tier is a DashMap of entries under ever new ids.  A scan   *)
(* of it is one step here (ExactCache goes shard by shard), but what a     *)
(* scan found is acted upon in later steps: a lookup removes what it saw   *)
(* expired, a store makes one attempt at eviction and puts without looking *)
(* again.                                                                  *)
(*                                                                         *)
(* An answer is known by the request it was given to, the time since the   *)
(* provider gave it is its "old".                                          *)
(***************************************************************************)
EXTENDS CacheKey, FiniteSets, FiniteSetsExt

CONSTANTS
    Requests,    \* the requests of the instance
    Score,       \* similarity of two texts, 0..100 (fastembed and cosine)
    Threshold,   \* similarity_threshold
    SemMax,      \* max_entries of the semantic cache
    SemTtl,      \* default_ttl of the semantic cache, in ticks
    ExactTtl,    \* default_ttl of the exact cache, in ticks
    ExactMax,    \* bound of the model: entries of the exact tier
    Clients, None,
    MaxStores,   \* bound of the model: ids given out
    MaxHits,     \* bound of the model: hits are counted up to this number
    MaxStall     \* bound of the model: ticks a call may take

ASSUME SizesAreNat ==
    {Threshold, SemMax, SemTtl, ExactTtl, ExactMax, MaxStores, MaxHits, MaxStall} \subseteq Nat
ASSUME ClientsFinite == IsFiniteSet(Clients)
ASSUME RequestsExist == Requests # {}
ASSUME NoneIsNoRequest == None \notin Requests

VARIABLES
    exact,      \* the exact tier, by key
    sem,        \* SemanticCache.entries, by id
    nextId,     \* SemanticCache.next_id
    pc, job,    \* each client's next step and its local variables
    answer,     \* the answer a lookup has just returned, and to what
    overtaken   \* history: puts that others preceded once their place was decided

vars == <<exact, sem, nextId, pc, job, answer, overtaken>>

Key == [r \in Requests |-> KeyOf(r)]
Query == [r \in Requests |-> LastUserMessage(r)]

Similarity(r, q) == Score[Query[r], Query[q]]

Similar(r, q) == Similarity(r, q) > 0 /\ Similarity(r, q) >= Threshold

(* No answer is ever this old. *)
MaxOld == SemTtl + ExactTtl + 2 * MaxStall + 1
Ids == 0..MaxStores - 1

SemanticEntry == [asked : Requests, of : Requests, hits : 0..MaxHits,
                  age : 0..SemTtl + 1, old : 0..MaxOld]
ExactEntry == [of : Requests, age : 0..ExactTtl, old : 0..MaxOld]

Expired(i) == sem[i].age > SemTtl

Without(m, K) == [k \in DOMAIN m \ K |-> m[k]]
With(m, k, e) == [x \in DOMAIN m \cup {k} |-> IF x = k THEN e ELSE m[x]]

(* The locals of a call: its request, the answer it holds (the best of a   *)
(* lookup, the one to put of a store), the ids it is about to remove, how  *)
(* long it has taken, and whether another put came between its decision on *)
(* a place and its own put.                                                *)
Job == [req : Requests, of : Requests \cup {None}, old : 0..MaxOld,
        ids : SUBSET Ids, held : 0..MaxStall, late : BOOLEAN]

NewJob(r) == [req |-> r, of |-> None, old |-> 0, ids |-> {}, held |-> 0, late |-> FALSE]

NoJob == NewJob(CHOOSE r \in Requests : TRUE)

Init ==
    /\ exact = [k \in {} |-> None]
    /\ sem = [i \in {} |-> None]
    /\ nextId = 0
    /\ pc = [p \in Clients |-> "idle"]
    /\ job = [p \in Clients |-> NoJob]
    /\ answer = None
    /\ overtaken = 0

Goto(p, label, locals) ==
    /\ pc' = [pc EXCEPT ![p] = label]
    /\ job' = [job EXCEPT ![p] = locals]

Return(p) == Goto(p, "idle", NoJob)

Answer(r, e) == answer' = [req |-> r, of |-> e.of, old |-> e.old]

(* To the removal of ids, or past it where there are none. *)
Removing(p, ids, here, after, j) ==
    Goto(p, IF ids = {} THEN after ELSE here, [j EXCEPT !.ids = ids])

(* ExactCache::insert, with a time-to-live of its own; it may evict any    *)
(* others on the way (LossyCache).                                         *)
ExactInsert(r, e) ==
    \E K \in SUBSET (DOMAIN exact \ {Key[r]}) :
        LET kept == Without(exact, K)
        IN  /\ exact' = With(kept, Key[r], [of |-> e.of, age |-> 0, old |-> e.old])
            /\ Cardinality(DOMAIN exact') <= ExactMax

-----------------------------------------------------------------------------
(* lookup *)

ExactHit(p, r) ==
    LET k == Key[r]
    IN  /\ pc[p] = "idle"
        /\ k \in DOMAIN exact
        /\ Answer(r, exact[k])
        /\ UNCHANGED <<exact, sem, nextId, pc, job, overtaken>>

Miss(p) ==
    /\ answer' = None
    /\ Return(p)

(* The query is embedded, which touches nothing shared; where that fails   *)
(* the lookup misses.                                                      *)
ExactMiss(p, r) ==
    /\ pc[p] = "idle"
    /\ Key[r] \notin DOMAIN exact
    /\ \/ Goto(p, "scan", NewJob(r)) /\ answer' = None
       \/ Miss(p)
    /\ UNCHANGED <<exact, sem, nextId, overtaken>>

(* Mutant of Candidates: expired entries are scored too. *)
CandidatesOfAnyAge(r) == {i \in DOMAIN sem : Similar(r, sem[i].asked)}

(* The live entries that are similar enough. *)
Candidates(r) == {i \in DOMAIN sem : ~Expired(i) /\ Similar(r, sem[i].asked)}

(* Each entry that is the best when its turn comes has its hit counted,    *)
(* whether or not it is the one to be served: in some order of the visit   *)
(* these are any set of strictly rising scores that ends with the highest. *)
Records(r) ==
    LET score(i) == Similarity(r, sem[i].asked)
        best == {i \in Candidates(r) : \A k \in Candidates(r) : score(i) >= score(k)}
    IN  {C \in SUBSET Candidates(r) :
            /\ \A a, b \in C : a # b => score(a) # score(b)
            /\ best # {} => C \cap best # {}}

CountHit(e) == [e EXCEPT !.hits = Min({@ + 1, MaxHits})]

Scan(p) ==
    LET r == job[p].req
    IN  /\ pc[p] = "scan"
        /\ \E C \in Records(r) :
              /\ sem' = [i \in DOMAIN sem |-> IF i \in C THEN CountHit(sem[i]) ELSE sem[i]]
              /\ LET expired == {i \in DOMAIN sem : Expired(i)}
                     best == {i \in C : \A k \in C :
                                Similarity(r, sem[i].asked) >= Similarity(r, sem[k].asked)}
                 IN  IF best = {}
                       THEN Removing(p, expired, "sweep", "promote", job[p])
                       ELSE \E i \in best :
                              Removing(p, expired, "sweep", "promote",
                                     [job[p] EXCEPT !.of = sem[i].of, !.old = sem[i].old])
        /\ answer' = None
        /\ UNCHANGED <<exact, nextId, overtaken>>

(* The entries seen expired are removed one by one. *)
RemoveOne(p, here, after) ==
    /\ pc[p] = here
    /\ \E i \in job[p].ids :
          /\ sem' = Without(sem, {i})
          /\ Removing(p, job[p].ids \ {i}, here, after, job[p])
    /\ answer' = None
    /\ UNCHANGED <<exact, nextId, overtaken>>

Sweep(p) == RemoveOne(p, "sweep", "promote")

(* Mutant of Promote: the pair is stored in both tiers. *)
PromoteBoth(p) ==
    LET j == job[p]
        e == [asked |-> j.req, of |-> j.of, hits |-> 0, age |-> 0, old |-> j.old]
    IN  /\ pc[p] = "promote"
        /\ IF j.of = None \/ nextId = MaxStores
             THEN Miss(p) /\ UNCHANGED <<exact, sem, nextId>>
             ELSE /\ ExactInsert(j.req, j)
                  /\ sem' = With(sem, nextId, e)
                  /\ nextId' = nextId + 1
                  /\ Answer(j.req, j)
                  /\ Return(p)
        /\ UNCHANGED overtaken

(* The best answer enters the exact tier under this request's key, with a *)
(* time-to-live of its own, and is returned.                              *)
Promote(p) ==
    LET j == job[p]
    IN  /\ pc[p] = "promote"
        /\ IF j.of = None
             THEN Miss(p) /\ UNCHANGED exact
             ELSE /\ ExactInsert(j.req, j)
                  /\ Answer(j.req, j)
                  /\ Return(p)
        /\ UNCHANGED <<sem, nextId, overtaken>>

-----------------------------------------------------------------------------
(* store *)

(* The store has read a length that leaves room, or has chosen its victim. *)
Decided == {"evictLeast", "put"}

Storing == Decided \cup {"storeExact", "len", "findExpired", "evictExpired", "lenAgain",
                         "findLeast"}

(* The provider has just answered r. *)
Store(p, r) ==
    /\ pc[p] = "idle"
    /\ nextId + Cardinality({q \in Clients : pc[q] \in Storing}) < MaxStores
    /\ Goto(p, "storeExact", [NewJob(r) EXCEPT !.of = r])
    /\ answer' = None
    /\ UNCHANGED <<exact, sem, nextId, overtaken>>

(* Where the embedding fails the answer stays in the exact tier only. *)
StoreExact(p) ==
    LET j == job[p]
    IN  /\ pc[p] = "storeExact"
        /\ ExactInsert(j.req, j)
        /\ Goto(p, "len", j) \/ Return(p)
        /\ answer' = None
        /\ UNCHANGED <<sem, nextId, overtaken>>

(* entries.len() < max_entries: there is room. *)
CheckLength(p) ==
    /\ pc[p] \in {"len", "lenAgain"}
    /\ Goto(p, IF Cardinality(DOMAIN sem) < SemMax THEN "put"
               ELSE IF pc[p] = "len" THEN "findExpired" ELSE "findLeast", job[p])
    /\ answer' = None
    /\ UNCHANGED <<exact, sem, nextId, overtaken>>

(* Mutant of FindExpired: whatever is in the map is taken. *)
FindAny(p) ==
    /\ pc[p] = "findExpired"
    /\ Removing(p, DOMAIN sem, "evictExpired", "lenAgain", job[p])
    /\ answer' = None
    /\ UNCHANGED <<exact, sem, nextId, overtaken>>

FindExpired(p) ==
    /\ pc[p] = "findExpired"
    /\ Removing(p, {i \in DOMAIN sem : Expired(i)}, "evictExpired", "lenAgain", job[p])
    /\ answer' = None
    /\ UNCHANGED <<exact, sem, nextId, overtaken>>

EvictExpired(p) == RemoveOne(p, "evictExpired", "lenAgain")

(* One of the least used, if any entry is left. *)
FindLeast(p) ==
    LET least == {i \in DOMAIN sem : \A k \in DOMAIN sem : sem[i].hits <= sem[k].hits}
    IN  /\ pc[p] = "findLeast"
        /\ \/ least = {} /\ Goto(p, "put", job[p])
           \/ \E i \in least : Removing(p, {i}, "evictLeast", "put", job[p])
        /\ answer' = None
        /\ UNCHANGED <<exact, sem, nextId, overtaken>>

(* Mutant of EvictLeast: the victim is chosen but stays. *)
EvictNone(p) ==
    /\ pc[p] = "evictLeast"
    /\ Removing(p, {}, "evictLeast", "put", job[p])
    /\ answer' = None
    /\ UNCHANGED <<exact, sem, nextId, overtaken>>

EvictLeast(p) == RemoveOne(p, "evictLeast", "put")

TakeId == nextId' = nextId + 1

(* The put, under a new id, whatever has been put since the length was     *)
(* read.                                                                   *)
Put(p) ==
    LET j == job[p]
        e == [asked |-> j.req, of |-> j.of, hits |-> 0, age |-> 0, old |-> j.old]
    IN  /\ pc[p] = "put"
        /\ TakeId
        /\ sem' = With(sem, nextId, e)
        /\ overtaken' = overtaken + IF j.late THEN 1 ELSE 0
        /\ pc' = [pc EXCEPT ![p] = "idle"]
        /\ job' = [q \in Clients |->
                     CASE q = p -> NoJob
                       [] q # p /\ pc[q] \in Decided -> [job[q] EXCEPT !.late = TRUE]
                       [] OTHER -> job[q]]
        /\ answer' = None
        /\ UNCHANGED exact

-----------------------------------------------------------------------------
Older(n, max) == Min({n + 1, max})

Tick ==
    LET busy(p) == pc[p] # "idle"
    IN  /\ \A p \in Clients : busy(p) => job[p].held < MaxStall
        /\ sem' = [i \in DOMAIN sem |-> [sem[i] EXCEPT !.age = Older(@, SemTtl + 1),
                                                       !.old = Older(@, MaxOld)]]
        /\ exact' = LET live == {k \in DOMAIN exact : exact[k].age < ExactTtl}
                    IN  [k \in live |-> [exact[k] EXCEPT !.age = @ + 1, !.old = Older(@, MaxOld)]]
        /\ job' = [p \in Clients |->
                     IF busy(p)
                       THEN [job[p] EXCEPT !.held = @ + 1,
                                           !.old = IF job[p].of = None THEN 0 ELSE Older(@, MaxOld)]
                       ELSE job[p]]
        /\ answer' = None
        /\ UNCHANGED <<nextId, pc, overtaken>>

Call(p) == \E r \in Requests : ExactHit(p, r) \/ ExactMiss(p, r) \/ Store(p, r)

Work(p) ==
    \/ Scan(p) \/ Sweep(p) \/ Promote(p)
    \/ StoreExact(p) \/ CheckLength(p) \/ FindExpired(p) \/ EvictExpired(p)
    \/ FindLeast(p) \/ EvictLeast(p) \/ Put(p)

Next == Tick \/ \E p \in Clients : Call(p) \/ Work(p)

Spec == Init /\ [][Next]_vars

-----------------------------------------------------------------------------
Labels == {"idle", "scan", "sweep", "promote"} \cup Storing

(* The variables have their types; the ids in the map have been given out. *)
TypeOK ==
    /\ DOMAIN exact \subseteq Range(Key)
    /\ \A k \in DOMAIN exact : exact[k] \in ExactEntry
    /\ DOMAIN sem \subseteq 0..nextId - 1
    /\ \A i \in DOMAIN sem : sem[i] \in SemanticEntry
    /\ nextId \in 0..MaxStores
    /\ pc \in [Clients -> Labels]
    /\ job \in [Clients -> Job]
    /\ answer \in [req : Requests, of : Requests, old : 0..MaxOld] \cup {None}
    /\ overtaken \in 0..nextId

(* With max_entries = 0 there is nothing to evict from an empty cache, and *)
(* the entry is put all the same.                                          *)
Room == IF SemMax = 0 THEN 1 ELSE SemMax

(* evict_if_needed makes one attempt and store does not look again, so the *)
(* semantic cache has no bound; but it outgrows max_entries only by puts   *)
(* before which another came after they had read of room, or had chosen    *)
(* their victim: one entry each.                                          *)
GrowsOnlyWhenOvertaken == Cardinality(DOMAIN sem) <= Room + overtaken

(* An answer served is no older than both time-to-lives and the time the   *)
(* two calls took: an answer is promoted at most once (TieredCache::lookup *)
(* does not promote what the exact tier held, and a hit renews nothing).   *)
StalenessBounded ==
    answer # None => answer.old <= SemTtl + ExactTtl + 2 * MaxStall

(* The request has the texts, the model, the number of turns, the          *)
(* temperature and the limit that the other had.                           *)
SameAsked(r, q) ==
    /\ SystemText(r) \o LastUserMessage(r) = SystemText(q) \o LastUserMessage(q)
    /\ r.model = q.model /\ Len(r.messages) = Len(q.messages)
    /\ r.temperature = q.temperature /\ r.max_tokens = q.max_tokens

(* The hashed bytes of a request, which follow each other with nothing in  *)
(* between, tell the questions of the instance apart.                      *)
KeysTell == \A r, q \in Requests : KeyOf(r) = KeyOf(q) => SameAsked(r, q)

(* An answer served was given to the same question, or to one whose last   *)
(* user message is similar to that of a request with the same question:    *)
(* promotions never add up to an answer for a dissimilar message.          *)
AnswersAreRelated ==
    answer # None =>
        \/ SameAsked(answer.req, answer.of)
        \/ \E r \in Requests : SameAsked(answer.req, r) /\ Similar(r, answer.of)

(* Both sweeps collect ids and remove them later, with no check; as no id  *)
(* is ever used again and no hit renews an entry, only expired entries go. *)
SweepsOnlyExpired ==
    [][\A p \in Clients : Sweep(p) \/ EvictExpired(p) =>
          \A i \in DOMAIN sem \ DOMAIN sem' : Expired(i)]_vars

=============================================================================
