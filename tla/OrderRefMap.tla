---------------------------- MODULE OrderRefMap ----------------------------
(***************************************************************************)
(* The hash map from order references to slab locations: class OrderRefMap *)
(* of luv_lob.hpp.  Open addressing with linear probing over a bounded     *)
(* window, a tombstone for every removed key, a load limit, and no         *)
(* rehashing: a tombstone goes only when a new key takes its slot.         *)
(*                                                                         *)
(* The hash is the parameter RefHash, so that any pattern of collisions can   *)
(* be chosen.  Locations are opaque values.                                *)
(***************************************************************************)
EXTENDS Naturals, FiniteSets, FiniteSetsExt

CONSTANTS
    Refs,          \* order references, neither 0 nor 2^64 - 1
    Locations,     \* slab locations
    Absent,        \* a null pointer from lookup()
    kCapacity,
    kMaxProbeLength,
    kMaxEntries,
    RefHash           \* RefHash[r]: the home slot of a reference

ASSUME MapAssumption ==
    /\ kCapacity \in Nat \ {0}
    /\ kMaxProbeLength \in 1 .. kCapacity
    /\ kMaxEntries \in Nat
    /\ RefHash \in [Refs -> 0 .. kCapacity - 1]
    /\ Absent \notin Locations
    /\ {"empty", "tombstone"} \cap Refs = {}

VARIABLES
    keys,      \* _keys
    values,    \* _values
    count,     \* _count
    stored     \* history: what the callers' calls that succeeded left stored

mapVars == <<keys, values, count, stored>>

Buckets == 0 .. kCapacity - 1
kEmptyKey == "empty"
kTombstone == "tombstone"

(***************************************************************************)
(* Probing.  The helpers take the key array as a parameter.                *)
(***************************************************************************)
Probe(r, d) == (RefHash[r] + d) % kCapacity
Window == 0 .. kMaxProbeLength - 1

\* The distances at which a scan for r would stop: the key or an empty slot.
Stops(t, r) == {d \in Window : t[Probe(r, d)] \in {r, kEmptyKey}}

\* The scan for r meets it before any empty slot.
Finds(t, r) == Stops(t, r) # {} /\ t[Probe(r, Min(Stops(t, r)))] = r

At(t, r) == Probe(r, Min(Stops(t, r)))

lookup(r) == IF Finds(keys, r) THEN values[At(keys, r)] ELSE Absent

\* The tombstones the scan passes before it stops.
Passed(t, r) ==
    {d \in Window : t[Probe(r, d)] = kTombstone /\ \A e \in Stops(t, r) : d < e}

\* A new key goes to the first tombstone passed, or to the empty slot.
HasPlace(t, r) == Stops(t, r) # {} \/ Passed(t, r) # {}

Place(t, r) == Probe(r, Min(IF Passed(t, r) # {} THEN Passed(t, r) ELSE Stops(t, r)))

\* Mutant: the probe window is not examined.
can_insert_anywhere(t, n, r) == n < kMaxEntries /\ ~Finds(t, r)

\* Tombstones do not count as room.
can_insert(t, n, r) == n < kMaxEntries /\ ~Finds(t, r) /\ Stops(t, r) # {}

\* insert() would succeed for a key the map does not hold.
Accepts(t, n, r) == n < kMaxEntries /\ HasPlace(t, r)

-----------------------------------------------------------------------------
MapInit ==
    /\ keys = [i \in Buckets |-> kEmptyKey]
    /\ values = [i \in Buckets |-> Absent]
    /\ count = 0
    /\ stored = [r \in Refs |-> Absent]

\* The key is there: only its value changes.
insert_update(r, loc) ==
    /\ Finds(keys, r)
    /\ values' = [values EXCEPT ![At(keys, r)] = loc]
    /\ stored' = [stored EXCEPT ![r] = loc]
    /\ UNCHANGED <<keys, count>>

insert(r, loc) ==
    /\ ~Finds(keys, r)
    /\ Accepts(keys, count, r)
    /\ keys' = [keys EXCEPT ![Place(keys, r)] = r]
    /\ values' = [values EXCEPT ![Place(keys, r)] = loc]
    /\ count' = count + 1
    /\ stored' = [stored EXCEPT ![r] = loc]

\* Mutant: the slot is emptied, which cuts the probe chains through it.
EmptiedKeys(t, r) == [t EXCEPT ![At(t, r)] = kEmptyKey]

RemovedKeys(t, r) == [t EXCEPT ![At(t, r)] = kTombstone]

remove(r) ==
    /\ Finds(keys, r)
    /\ keys' = RemovedKeys(keys, r)
    /\ count' = count - 1
    /\ stored' = [stored EXCEPT ![r] = Absent]
    /\ UNCHANGED values

clear ==
    /\ keys' = [i \in Buckets |-> kEmptyKey]
    /\ count' = 0
    /\ stored' = [r \in Refs |-> Absent]
    /\ UNCHANGED values

MapNext ==
    \/ clear
    \/ \E r \in Refs : \/ remove(r)
                       \/ \E loc \in Locations : insert(r, loc) \/ insert_update(r, loc)

-----------------------------------------------------------------------------
\* The map is a map: whatever collides, and however slots of removed keys are
\* reused, lookup() returns what the last successful call stored under the
\* reference, nothing once it was removed, and size() counts what is stored.
LookupReturnsStored ==
    /\ \A r \in Refs : lookup(r) = stored[r]
    /\ count = Cardinality({r \in Refs : stored[r] # Absent})

\* A pre-flight that says yes is kept: after the original of a replace has
\* been removed, insert() accepts the new reference.
PreflightSound ==
    \A new, old \in Refs :
        can_insert(keys, count, new) /\ Finds(keys, old) =>
            Accepts(RemovedKeys(keys, old), count - 1, new)

=============================================================================
