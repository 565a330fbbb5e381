------------------------------ MODULE Registry ------------------------------
(***************************************************************************)
(* The providers (provider/mod.rs) and the two ways a request finds one:   *)
(* the pipeline's, which takes the first in the order of the registry, and *)
(* the gateway's (state.rs), which sorts by configured priority first.     *)
(* A provider is known by its position in the registry, 0 is no provider.  *)
(***************************************************************************)
EXTENDS Positions, SequencesExt, FiniteSetsExt

(* A configuration names a provider type, and the environment variable of  *)
(* its key is set or not; unset_priority stands for u32::MAX.              *)
ProviderConfig(Ids, Models, Priorities) ==
    [id : Ids, type : {"openai", "anthropic", "other"}, key_set : BOOLEAN,
     models : Models, priority : Priorities]

(* from_configs: those of a known type whose key can be resolved. *)
Registers(c) == c.type \in {"openai", "anthropic"} /\ c.key_set

Providers(cfgs) ==
    LET kept == Positions(Len(cfgs), {i \in DOMAIN cfgs : Registers(cfgs[i])})
    IN  [k \in DOMAIN kept |-> cfgs[kept[k]]]

Supporting(reg, m) == {i \in DOMAIN reg : m \in Range(reg[i].models)}

FirstOf(S) == IF S = {} THEN 0 ELSE Min(S)

GetProvider(reg, m) == FirstOf(Supporting(reg, m))

GetByName(reg, n) == FirstOf({i \in DOMAIN reg : reg[i].id = n})

AllModels(reg) ==
    FlattenSeq([i \in DOMAIN reg |-> [k \in DOMAIN reg[i].models |->
                                         <<reg[i].models[k], reg[i].id>>]])

(* Of two configurations with one id the last gives the priority. *)
Priority(cfgs, n) ==
    cfgs[Max({i \in DOMAIN cfgs : cfgs[i].id = n})].priority

(* find_provider: the sort is stable, so the first of the lowest priority. *)
FindProvider(cfgs, m) ==
    LET reg == Providers(cfgs)
        prio(i) == Priority(cfgs, reg[i].id)
    IN  FirstOf({i \in Supporting(reg, m) : \A k \in Supporting(reg, m) : prio(i) <= prio(k)})

-----------------------------------------------------------------------------
(* What the gateway lists as a model it offers it can serve, by a provider *)
(* of no higher a priority number than the one it lists (find_provider,    *)
(* all_models).                                                            *)
ListedIsServed(cfgs) ==
    LET reg == Providers(cfgs)
    IN  \A e \in Range(AllModels(reg)) :
            LET i == FindProvider(cfgs, e[1])
            IN  /\ i # 0 /\ e[1] \in Range(reg[i].models)
                /\ Priority(cfgs, reg[i].id) <= Priority(cfgs, e[2])

=============================================================================
