----------------------------- MODULE LossyCache -----------------------------
(***************************************************************************)
(* What the exact-match response cache promises its callers, whatever its  *)
(* eviction and its locking do.  The cache is lossy: any entry may vanish  *)
(* at any time.  But an entry is never rewritten in place except for its   *)
(* hit counter, it enters with age zero, and only an entry that has not    *)
(* outlived its time-to-live is ever served.                               *)
(*                                                                         *)
(* Time is the age of each entry, counted in ticks and saturated one tick  *)
(* after the entry expired: ages beyond that are indistinguishable.        *)
(***************************************************************************)
EXTENDS Naturals

CONSTANTS
    Hashes,     \* cache keys
    Responses,  \* provider responses
    None,       \* the answer of a lookup that misses
    Ttls,       \* times-to-live, in ticks
    Clients     \* concurrent callers

VARIABLES
    map,        \* the partial function from hashes to entries
    answer      \* answer[p]: what the last lookup of p returned

vars == <<map, answer>>

Entry == [resp : Responses, hits : Nat, age : Nat, ttl : Ttls]

Expired(e) == e.age > e.ttl

Older(e) == [e EXCEPT !.age = IF Expired(e) THEN e.age ELSE e.age + 1]

Without(m, H) == [h \in DOMAIN m \ H |-> m[h]]

With(m, h, e) == [k \in DOMAIN m \cup {h} |-> IF k = h THEN e ELSE m[k]]

HitAt(m, h) == [m EXCEPT ![h].hits = @ + 1]

-----------------------------------------------------------------------------
Init ==
    /\ map = [h \in {} |-> None]
    /\ answer = [p \in Clients |-> None]

(* An entry of age zero comes in, replacing what its hash held. *)
Admit ==
    /\ \E h \in Hashes :
          /\ h \in DOMAIN map'
          /\ map'[h] \in Entry /\ map'[h].age = 0
          /\ map' = With(map, h, map'[h])
    /\ UNCHANGED answer

(* Entries vanish. *)
Lose ==
    /\ \E H \in SUBSET Hashes : map' = Without(map, H)
    /\ UNCHANGED answer

(* A lookup is answered from an entry that is present and has not expired. *)
Serve(p) ==
    \E h \in DOMAIN map :
        /\ ~Expired(map[h])
        /\ map' = HitAt(map, h)
        /\ answer' = [answer EXCEPT ![p] = map[h].resp]

(* A lookup is answered with None; the entry it found dead may go. *)
Refuse(p) ==
    /\ map' = map \/ \E H \in SUBSET Hashes : map' = Without(map, H)
    /\ answer' = [answer EXCEPT ![p] = None]

Age ==
    /\ map' = [h \in DOMAIN map |-> Older(map[h])]
    /\ UNCHANGED answer

Next ==
    \/ Admit
    \/ Lose
    \/ Age
    \/ \E p \in Clients : Serve(p) \/ Refuse(p)

Spec == Init /\ [][Next]_vars

=============================================================================
