--------------------------------- MODULE Env ---------------------------------
(***************************************************************************)
(* The environment of a process: a fixed table of override slots laid over *)
(* the kernel's constant defaults (ENV).  An override gives a key a value  *)
(* or, as a tombstone, hides a default.  A slot once taken is never given  *)
(* back: env_remove turns it into a tombstone.                             *)
(*                                                                         *)
(* The operators work on the table of one process; Command.tla keeps one   *)
(* table per process and copies it at spawn.                               *)
(***************************************************************************)
EXTENDS Naturals, Sequences, FiniteSets

CONSTANTS
    APP_ENV_COUNT,   \* override slots of a process
    Keys, Values,
    Absent,          \* what a lookup gives for a key without a value (ERR_NOENT)
    BadKeys,         \* keys env_set_overlay refuses: empty, too long, or with '=' or NUL
    ENV              \* the defaults: a sequence of [key, value] records

ASSUME EnvAssumption ==
    /\ APP_ENV_COUNT \in Nat \ {0}
    /\ BadKeys \subseteq Keys
    /\ Absent \notin Values
    /\ ENV \in Seq([key : Keys \ BadKeys, value : Values])
    /\ \A i, j \in DOMAIN ENV : ENV[i].key = ENV[j].key => i = j

EnvSlots == 1 .. APP_ENV_COUNT

\* AppEnvVar: an unused slot, or a key with its value or tombstone.  A
\* tombstone carries the empty value env_remove passes, here Absent.
Unset     == [used |-> FALSE, deleted |-> FALSE, key |-> Absent, value |-> Absent]
Override(key, value) ==
    [used |-> TRUE, deleted |-> value = Absent, key |-> key, value |-> value]
EnvTables ==
    [EnvSlots -> {Unset} \cup {Override(k, v) : k \in Keys \ BadKeys, v \in Values \cup {Absent}}]

NoOverrides == [i \in EnvSlots |-> Unset]

Holds(env, i, key) == env[i].used /\ env[i].key = key

env_overlay_has_key(env, key) == \E i \in EnvSlots : Holds(env, i, key)

\* The kernel's scans stop at the first slot that holds the key.
FirstHolder(env, key) ==
    CHOOSE i \in EnvSlots : Holds(env, i, key) /\ \A j \in 1 .. i - 1 : ~Holds(env, j, key)

Default(key) ==
    IF \E d \in DOMAIN ENV : ENV[d].key = key
      THEN ENV[CHOOSE d \in DOMAIN ENV : ENV[d].key = key].value
      ELSE Absent

env_lookup(env, key) ==
    IF env_overlay_has_key(env, key) THEN env[FirstHolder(env, key)].value ELSE Default(key)

\* The entries of a table at the indices of a set, in order.
Picked(table, indices) ==
    LET picked[i \in 0 .. Len(table)] ==
          IF i = 0 THEN <<>>
          ELSE IF i \in indices THEN Append(picked[i - 1], table[i]) ELSE picked[i - 1]
    IN  picked[Len(table)]

\* What env_list_entry answers for the indices 0, 1, ...: the live overrides
\* in slot order, then the defaults that no override names.
Live(env)  == {i \in EnvSlots : env[i].used /\ ~env[i].deleted}
Shown(env) == {d \in DOMAIN ENV : ~env_overlay_has_key(env, ENV[d].key)}

env_list(env) == Picked(env, Live(env)) \o Picked(ENV, Shown(env))

\* env_set_overlay: the slot that holds the key, else the first free one.
\* Absent as the value is env_remove.
CanSet(env, key) ==
    /\ key \notin BadKeys
    /\ env_overlay_has_key(env, key) \/ \E i \in EnvSlots : ~env[i].used

FirstFree(env) ==
    CHOOSE i \in EnvSlots : ~env[i].used /\ \A j \in 1 .. i - 1 : env[j].used

\* The slot env_set_overlay writes.
Slot(env, key) == IF env_overlay_has_key(env, key) THEN FirstHolder(env, key) ELSE FirstFree(env)

\* Mutant: a free slot is taken even when the key has one.
MutantSetOverlay(env, key, value) ==
    LET slot == IF \E i \in EnvSlots : ~env[i].used THEN FirstFree(env) ELSE FirstHolder(env, key)
    IN  [env EXCEPT ![slot] = Override(key, value)]

env_set_overlay(env, key, value) == [env EXCEPT ![Slot(env, key)] = Override(key, value)]

-----------------------------------------------------------------------------
(* What the table owes its users.                                          *)

\* No key sits in two slots: a stale duplicate behind the first one would come
\* back as soon as a scan looked further.
KeysUnique(env) ==
    \A i, j \in EnvSlots : env[i].used /\ env[j].used /\ env[i].key = env[j].key => i = j

\* The listing names every variable a lookup finds, once, with its value.
ListsWhatIsSet(env) ==
    LET vars == {k \in Keys : env_lookup(env, k) # Absent}
        list == env_list(env)
    IN  /\ Len(list) = Cardinality(vars)
        /\ {<<list[i].key, list[i].value>> : i \in DOMAIN list}
             = {<<k, env_lookup(env, k)>> : k \in vars}
==============================================================================
