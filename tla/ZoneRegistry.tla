----------------------------- MODULE ZoneRegistry -----------------------------
(***************************************************************************)
(* core/memory/short_term: ActiveZoneRegistry over RedisCacheManager.      *)
(*                                                                         *)
(* A zone is a Redis hash with a TTL of 24 hours plus a score in the       *)
(* sorted set of its zone type.  An operation of the registry reads the    *)
(* hash, computes from what it read a list of Redis commands, and awaits   *)
(* them one after the other: commands[t] is the rest of that list.  Redis  *)
(* runs each command atomically; between two, other coroutines run and     *)
(* keys expire.  A connection error raises out of the operation with the   *)
(* rest of its commands undone (only ping and connect are retried).        *)
(* Eviction at maxmemory is not modelled.                                  *)
(***************************************************************************)
EXTENDS Naturals, Sequences, FiniteSets, SequencesExt, FiniteSetsExt

CONSTANTS
  Zones,     \* zone keys zone:{symbol}:{tf}:{type}:{formed} of one symbol
  TypeOf,    \* the zone type of each, which names its sorted set
  NoType,    \* the zone_type=None of a query
  Near,      \* zones within window_pips of the price that is asked for
  Tasks,     \* coroutines that use the registry
  PHolds,    \* values of p_hold
  Weights,   \* values of a zone's w_zone
  Given,     \* values of the argument w_zone of update_zone_p_hold
  Statuses,  \* values of ZoneStatus
  TopK,      \* the k of get_top_zones
  MaxOps,    \* bound: number of operations in a behaviour
  MaxZoneFails   \* bound: number of operations that raise

ASSUME RegistryAssumption ==
  /\ IsFiniteSet(Zones) /\ Near \subseteq Zones
  /\ \A z \in Zones : TypeOf[z] # NoType
  /\ PHolds \subseteq Nat \ {0} /\ Weights \cup Given \subseteq Nat \ {0}
  /\ "MITIGATED" \in Statuses
  /\ TopK \in Nat /\ MaxOps \in Nat /\ MaxZoneFails \in Nat

VARIABLES
  hash,     \* fields of each zone's Redis hash; no fields: no key
  hasTTL,   \* the key has a time to live
  rank,     \* score in the sorted set of the zone's type; NoRank: not a member
  commands, \* commands each operation has still to submit
  found,    \* zones a query has collected
  steady,   \* history: zones active since the query began
  dirty,    \* history: writers of the zone have overlapped, or one was cut
            \* short, or the key expired under one, since a lone upsert began
  touches,  \* history: touches recorded since the hash was last rewritten
  weight,   \* history: the weight of the last score; 0 when it was mitigated
  ops, zoneFails

zoneVars == <<hash, hasTTL, rank, commands, found, steady, dirty, touches, weight,
              ops, zoneFails>>

NoRank == 99

(* Conversions lose nothing that is read back: Zone.from_dict needs every  *)
(* field of to_dict, of which "body" stands for those that never change.   *)
ZoneHash(s, p, w, c) ==
  [f \in {"body", "status", "p_hold", "w_zone", "touch_count", "stamp"} |->
     CASE f = "status" -> s [] f = "p_hold" -> p [] f = "w_zone" -> w
       [] f = "touch_count" -> c [] OTHER -> "set"]
HashComplete(h) == "body" \in DOMAIN h
IsActive(h) == HashComplete(h) /\ h["status"] # "MITIGATED"
Empty == [f \in {} |-> "set"]
Field(f, v) == [g \in {f} |-> v]
Merge(h, g) == [f \in DOMAIN h \cup DOMAIN g |-> IF f \in DOMAIN g THEN g[f] ELSE h[f]]

HSet(z, g) == [cmd |-> "HSET", key |-> z, fields |-> g]
Expire(z) == [cmd |-> "EXPIRE", key |-> z]
ZAdd(z, p, w) == [cmd |-> "ZADD", key |-> z, score |-> p * w, weight |-> w]
Read(z, S) == [cmd |-> "READ", key |-> z, wanted |-> S]

(* Mutants: the TTL is set before the hash is there; not at all.           *)
SetZoneTTLFirst(z, g) == <<Expire(z), HSet(z, g)>>
SetZoneNoTTL(z, g) == <<HSet(z, g)>>

(* set_zone: HSET of the whole mapping, then EXPIRE.                       *)
SetZone(z, g) == <<HSet(z, g), Expire(z)>>

(* get_zone: HGETALL, None when no field comes back.                       *)
Exists(z) == hash[z] # Empty

Writers(z) == {t \in Tasks : \E i \in 1..Len(commands[t]) :
                 commands[t][i].key = z /\ commands[t][i].cmd # "READ"}
Idle(z) == Writers(z) = {}

-----------------------------------------------------------------------------
ZonesInit ==
  /\ hash = [z \in Zones |-> Empty]
  /\ hasTTL = [z \in Zones |-> FALSE]
  /\ rank = [z \in Zones |-> NoRank]
  /\ commands = [t \in Tasks |-> <<>>]
  /\ found = [t \in Tasks |-> {}] /\ steady = [t \in Tasks |-> {}]
  /\ dirty = [z \in Zones |-> FALSE]
  /\ touches = [z \in Zones |-> 0] /\ weight = [z \in Zones |-> 0]
  /\ ops = 0 /\ zoneFails = 0

(* An operation begins: it has read the hash and knows its commands.       *)
Begin(t, list) ==
  /\ commands[t] = <<>> /\ ops < MaxOps
  /\ ops' = ops + 1
  /\ commands' = [commands EXCEPT ![t] = list]
  /\ UNCHANGED <<hash, hasTTL, rank, touches, weight, zoneFails>>
BeginWrite(t, z, list) ==
  /\ Begin(t, list)
  /\ dirty' = [dirty EXCEPT ![z] = @ \/ ~Idle(z)]
  /\ found' = [found EXCEPT ![t] = {}] /\ steady' = [steady EXCEPT ![t] = {}]

(* upsert_zone, with the zone object of the caller; whether the hash was   *)
(* there decides only the result and a log line.                           *)
UpsertZone(t, z) ==
  \E s \in Statuses, p \in PHolds, w \in Weights :
    /\ Begin(t, SetZone(z, ZoneHash(s, p, w, 0)) \o <<ZAdd(z, p, w)>>)
    /\ dirty' = [dirty EXCEPT ![z] = ~Idle(z)]
    /\ found' = [found EXCEPT ![t] = {}] /\ steady' = [steady EXCEPT ![t] = {}]

(* update_zone_status: a mitigated zone stays in the sorted set, at 0.     *)
UpdateZoneStatus(t, z) ==
  \E s \in Statuses :
    /\ Exists(z)
    /\ BeginWrite(t, z, <<HSet(z, Field("status", s)), HSet(z, Field("stamp", "set"))>>
                         \o (IF s = "MITIGATED" THEN <<ZAdd(z, 0, 0)>> ELSE <<>>))

(* update_zone_p_hold: the weight of the score is the w_zone the caller    *)
(* gives, which the hash never gets; or else the one read, or 1.           *)
WeightOf(h) == IF "w_zone" \in DOMAIN h THEN h["w_zone"] ELSE 1
UpdateZonePHold(t, z) ==
  \E p \in PHolds, w \in Given \cup {WeightOf(hash[z])} :
    /\ Exists(z)
    /\ BeginWrite(t, z, <<HSet(z, Field("p_hold", p)), HSet(z, Field("stamp", "set")),
                          ZAdd(z, p, w)>>)

(* record_zone_touch: the count read plus one.                             *)
CountOf(h) == IF "touch_count" \in DOMAIN h THEN h["touch_count"] ELSE 0
RecordZoneTouch(t, z) ==
  /\ Exists(z)
  /\ BeginWrite(t, z, <<HSet(z, Field("touch_count", CountOf(hash[z]) + 1)),
                        HSet(z, Field("stamp", "set"))>>)

(* get_zones_near_price: SCAN for the keys, then HGETALL of each; and      *)
(* get_top_zones: the k best of the sorted set of a type, then HGETALL of  *)
(* each.  Without a type it reads a sorted set that no zone is put into,   *)
(* as every update_zone_rank names one, and finds nothing.                 *)
BeginQuery(t, keys, wanted, promised) ==
  /\ Begin(t, [i \in 1..Cardinality(keys) |-> Read(SetToSeq(keys)[i], wanted)])
  /\ found' = [found EXCEPT ![t] = {}]
  /\ steady' = [steady EXCEPT ![t] = {z \in promised : IsActive(hash[z])}]
  /\ UNCHANGED dirty

GetZonesNearPrice(t) == BeginQuery(t, {z \in Zones : Exists(z)}, Near, Near)
ZRevRange(type) ==
  LET members == {z \in Zones : TypeOf[z] = type /\ rank[z] # NoRank}
      k == IF Cardinality(members) < TopK THEN Cardinality(members) ELSE TopK IN
  {S \in SUBSET members : Cardinality(S) = k
                          /\ \A z \in S, y \in members \ S : rank[z] >= rank[y]}
GetTopZones(t) ==
  \E type \in {TypeOf[z] : z \in Zones} \cup {NoType} :
    \E S \in ZRevRange(type) : BeginQuery(t, S, Zones, S)

(* The effect of the next command of an operation.                         *)
Effect(c, t) ==
  \/ /\ c.cmd = "HSET"
     /\ hash' = [hash EXCEPT ![c.key] = Merge(@, c.fields)]
     /\ hasTTL' = [hasTTL EXCEPT ![c.key] = @ /\ hash[c.key] # Empty]
     /\ touches' = [touches EXCEPT ![c.key] =
                      IF "body" \in DOMAIN c.fields THEN 0
                      ELSE IF "touch_count" \in DOMAIN c.fields THEN @ + 1 ELSE @]
     /\ UNCHANGED <<rank, found, weight>>
  \/ /\ c.cmd = "EXPIRE"
     /\ hasTTL' = [hasTTL EXCEPT ![c.key] = hash[c.key] # Empty]
     /\ UNCHANGED <<hash, rank, found, touches, weight>>
  \/ /\ c.cmd = "ZADD"
     /\ rank' = [rank EXCEPT ![c.key] = c.score]
     /\ weight' = [weight EXCEPT ![c.key] = c.weight]
     /\ UNCHANGED <<hash, hasTTL, found, touches>>
  \/ /\ c.cmd = "READ"
     /\ found' = [found EXCEPT ![t] =
                    IF c.key \in c.wanted /\ IsActive(hash[c.key]) THEN @ \cup {c.key} ELSE @]
     /\ UNCHANGED <<hash, hasTTL, rank, touches, weight>>
KeepSteady ==
  steady' = [t \in Tasks |-> {z \in steady[t] : IsActive(hash'[z])}]

Command(t) ==
  /\ commands[t] # <<>>
  /\ Effect(Head(commands[t]), t)
  /\ commands' = [commands EXCEPT ![t] = Tail(@)]
  /\ KeepSteady
  /\ UNCHANGED <<dirty, ops, zoneFails>>

(* A command raises: the caller gets the exception, the rest is not done.  *)
Raise(t) ==
  /\ commands[t] # <<>> /\ zoneFails < MaxZoneFails
  /\ zoneFails' = zoneFails + 1
  /\ dirty' = [z \in Zones |-> dirty[z] \/ t \in Writers(z)]
  /\ commands' = [commands EXCEPT ![t] = <<>>]
  /\ found' = [found EXCEPT ![t] = {}] /\ steady' = [steady EXCEPT ![t] = {}]
  /\ UNCHANGED <<hash, hasTTL, rank, touches, weight, ops>>

(* The TTL of a key runs out; the sorted set keeps its member.             *)
KeyExpires(z) ==
  /\ hasTTL[z]
  /\ hash' = [hash EXCEPT ![z] = Empty]
  /\ hasTTL' = [hasTTL EXCEPT ![z] = FALSE]
  /\ dirty' = [dirty EXCEPT ![z] = @ \/ ~Idle(z)]
  /\ KeepSteady
  /\ UNCHANGED <<rank, commands, found, touches, weight, ops, zoneFails>>

ZonesNext ==
  \/ \E t \in Tasks, z \in Zones :
       \/ UpsertZone(t, z) \/ UpdateZoneStatus(t, z)
       \/ UpdateZonePHold(t, z) \/ RecordZoneTouch(t, z)
  \/ \E t \in Tasks : GetZonesNearPrice(t) \/ GetTopZones(t) \/ Command(t) \/ Raise(t)
  \/ \E z \in Zones : KeyExpires(z)

(* Redis answers every command, and keys with a TTL expire.                *)
ZonesFairness ==
  /\ \A t \in Tasks : WF_zoneVars(Command(t))
  /\ \A z \in Zones : WF_zoneVars(KeyExpires(z))

ZonesSpec == ZonesInit /\ [][ZonesNext]_zoneVars /\ ZonesFairness

-----------------------------------------------------------------------------
FieldTypes == [body |-> {"set"}, stamp |-> {"set"}, status |-> Statuses, p_hold |-> PHolds,
               w_zone |-> Weights, touch_count |-> 0..MaxOps]

(* Types of every variable.                                                *)
ZonesTypeOK ==
  /\ \A z \in Zones : DOMAIN hash[z] \subseteq DOMAIN FieldTypes
                      /\ \A f \in DOMAIN hash[z] : hash[z][f] \in FieldTypes[f]
  /\ hasTTL \in [Zones -> BOOLEAN] /\ dirty \in [Zones -> BOOLEAN]
  /\ rank \in [Zones -> Nat] /\ weight \in [Zones -> Nat] /\ touches \in [Zones -> 0..MaxOps]
  /\ found \in [Tasks -> SUBSET Zones] /\ steady \in [Tasks -> SUBSET Zones]
  /\ ops \in 0..MaxOps /\ zoneFails \in 0..MaxZoneFails

(* Hash, TTL and ranking agree between operations on a zone: since the     *)
(* last upsert that began alone, if writers of the zone did not overlap,   *)
(* none raised and the key did not expire under one, there is no partial   *)
(* hash, the key will expire, the score is the p_hold of the hash times    *)
(* the weight last used (0 once mitigated) and no touch was lost.  So a    *)
(* lone upsert repairs whatever races and errors have left behind.         *)
SettledIsConsistent ==
  \A z \in Zones : Idle(z) /\ ~dirty[z] /\ hash[z] # Empty =>
    LET h == hash[z] IN
    /\ HashComplete(h) /\ hasTTL[z]
    /\ rank[z] = h["p_hold"] * weight[z]
    /\ h["touch_count"] = touches[z]

(* What the registry's texts say, and what does not hold.  "score = p_hold *)
(* * w_zone", of the sorted set: not after an update with a w_zone.        *)
ScoreIsProduct ==
  \A z \in Zones : Idle(z) /\ ~dirty[z] /\ IsActive(hash[z]) =>
    rank[z] = hash[z]["p_hold"] * hash[z]["w_zone"]

(* "Records that the zone was touched, raises touch_count": not when two   *)
(* touches, or a touch and an upsert, overlap.                             *)
TouchesAreCounted ==
  \A z \in Zones : Idle(z) /\ HashComplete(hash[z]) => hash[z]["touch_count"] = touches[z]

(* "Hash - TTL 24h": not when HSET is done and EXPIRE is not, nor when a   *)
(* field is set after the key has expired.                                 *)
CachedZonesHaveTTL ==
  \A z \in Zones : Idle(z) /\ hash[z] # Empty => hasTTL[z]

(* A query made of many reads misses no zone that was there and active all *)
(* the while, whatever the writers do to it meanwhile.                     *)
QueryMissesNone ==
  \A t \in Tasks :
    steady[t] \subseteq found[t] \cup {commands[t][i].key : i \in 1..Len(commands[t])}

(* Every zone leaves the cache in the end, unless it was left without a    *)
(* TTL by a race or an error.                                              *)
ZonesExpire ==
  \A z \in Zones : (hash[z] # Empty) ~> (hash[z] = Empty \/ dirty[z])

(* Neither a settled zone nor a query made of many reads is torn.          *)
ZonesSound == SettledIsConsistent /\ QueryMissesNone
=============================================================================
