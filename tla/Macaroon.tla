------------------------------ MODULE Macaroon ------------------------------
(***************************************************************************)
(* Handles: chained-HMAC macaroons, the discharges of their third party    *)
(* caveats, and the verifier that unwrap runs on them.                     *)
(*                                                                         *)
(* A MAC is the term that built it: hmac_compute appends its data to the   *)
(* term that is its key, so two MACs are equal exactly when their keys and *)
(* data are (SHA-256 has no collisions here).  A caveat on the wire is the *)
(* key and the fields of the value in its text.                            *)
(*                                                                         *)
(* A handle is a bearer credential: holders pass copies of it on, anyone   *)
(* who has it can add a caveat, with or without the broker, and a copy can *)
(* come back with its list of caveats edited.  So is a discharge, and no   *)
(* MAC covers its expiry: it can be presented with another one, or none.   *)
(*                                                                         *)
(* The sealed record of a handle has the keys of its third party caveats.  *)
(* Every operation on the record reads it whole and writes it back later,  *)
(* without looking whether it changed meanwhile.                           *)
(***************************************************************************)
EXTENDS Integers, FiniteSets, Sequences, Functions

CONSTANTS
    None,            \* Option::None
    Ids,             \* handle identifiers
    Values,          \* values of first party caveats
    Locations,       \* third parties
    Conditions,      \* their predicates
    Holders,         \* who holds a copy of a handle
    Contexts,        \* the contexts that unwrap is asked in
    MintCaveats,     \* the caveats that a handle is minted with
    MoreCaveats,     \* the lists of first party caveats added later
    ForeignTexts,    \* texts that holders add without the broker
    CountBits,       \* width of the caveat count on the wire (16)
    TicksPerSecond,  \* clock ticks in a second
    DischargeTtl,    \* DISCHARGE_TOKEN_TTL_SECONDS, in ticks
    MaxTimestamp,    \* seconds from the epoch that a DateTime can hold
    Timestamps,      \* expiry fields that a discharge is presented with
    MaxCaveats,      \* bound on the caveats of a handle
    MaxKeys,         \* bound on the third party caveats
    MaxDischarges,   \* bound on the discharges
    MaxBusy,         \* bound on the store tasks and the edited copies
    MaxTime          \* bound on the clock

VARIABLES
    now,             \* Utc::now()
    keys,            \* third_party_caveat_keys of each sealed record
    writing,         \* store tasks that have read a record, and will write
    pending,         \* the attenuation whose key each holder waits for
    held,            \* the handle that each holder has, as last read
    discharges,      \* discharges on the wire, with what they were minted for
    made,            \* history: every key that was made for a record
    minted,          \* history: the caveats that each handle began with
    genuine          \* history: holders whose copy nobody edited

storeVars == <<keys, writing, pending, made>>
vars == <<now, keys, writing, pending, held, discharges, made, minted,
          genuine>>

-----------------------------------------------------------------------------
(***************************************************************************)
(* Caveats.                                                                *)
(***************************************************************************)
FirstParty == {"TenantId", "Provider", "CircuitId", "NodeId", "Action"}

CaveatKey ==
    [TenantId |-> "tenant_id", Provider |-> "provider",
     CircuitId |-> "circuit_id", NodeId |-> "node_id", Action |-> "action",
     Expires |-> "expires", MaxUses |-> "max_uses", ThirdParty |-> "3p"]

Caveat ==
    [type : FirstParty, value : [1..1 -> Values]] \cup
    [type : {"Expires"}, value : [1..1 -> Nat]] \cup
    [type : {"MaxUses"}, value : {<<1>>}] \cup
    [type : {"ThirdParty"}, value : Locations \X Nat]

ASSUME MacaroonAssumption ==
    /\ MintCaveats \cup MoreCaveats \subseteq Seq(Caveat)
    /\ TicksPerSecond \in Nat \ {0}
    /\ DischargeTtl \in Nat
    /\ MaxTimestamp \in Nat
    /\ Timestamps \subseteq {None} \cup Int
    /\ None \notin Int

encode(c) == [key |-> CaveatKey[c.type], value |-> c.value]

encoded(caveats) == [i \in DOMAIN caveats |-> encode(caveats[i])]

(***************************************************************************)
(* Parsing fails on a key that it does not know and on a number of uses    *)
(* other than 1.                                                           *)
(***************************************************************************)
Parses(text) == \E type \in DOMAIN CaveatKey :
                   /\ text.key = CaveatKey[type]
                   /\ type = "MaxUses" => text.value = <<1>>

parse(text) ==
    [type  |-> CHOOSE type \in DOMAIN CaveatKey : CaveatKey[type] = text.key,
     value |-> text.value]

-----------------------------------------------------------------------------
(***************************************************************************)
(* The chain of MACs.                                                      *)
(***************************************************************************)
hmac_compute(key, data) == Append(key, data)

root_key(id) == <<id>>

chain(id, texts) == hmac_compute(root_key(id), id) \o texts

mint(id, caveats) ==
    LET texts == encoded(caveats)
    IN  [identifier |-> id, caveats |-> texts, signature |-> chain(id, texts)]

add_text(m, text) ==
    [m EXCEPT !.signature = hmac_compute(m.signature, text),
              !.caveats = Append(m.caveats, text)]

add_caveat(m, caveat) == add_text(m, encode(caveat))

(***************************************************************************)
(* add_caveat for one caveat after the other.                              *)
(***************************************************************************)
add_caveats(m, caveats) ==
    [m EXCEPT !.signature = @ \o encoded(caveats),
              !.caveats = @ \o encoded(caveats)]

(* Mutant: the chain starts at the last caveat. *)
verify_signature_Last(m) ==
    /\ Len(m.signature) = Len(m.caveats) + 2
    /\ m.caveats # <<>> => m.signature[Len(m.signature)] =
                            m.caveats[Len(m.caveats)]
verify_signature(m) == m.signature = chain(m.identifier, m.caveats)

caveat_signature(m, i) == chain(m.identifier, SubSeq(m.caveats, 1, i))

(***************************************************************************)
(* The wire form of a handle counts its caveats in CountBits bits; reading *)
(* it back fails unless the count accounts for every byte.                 *)
(***************************************************************************)
serialize(m) == [body |-> m, n |-> Len(m.caveats) % 2^CountBits]

Readable(wire) == wire.n = Len(wire.body.caveats)

deserialize(wire) == wire.body

-----------------------------------------------------------------------------
(***************************************************************************)
(* Discharges.  The expiry is optional: without one a discharge does not   *)
(* lapse.  The wire form has it in whole seconds, if at all; reading it    *)
(* yields none when it is missing and when no DateTime can hold it.        *)
(***************************************************************************)
mint_with_expiry(location, condition, key, primary, expires_at) ==
    LET sig == hmac_compute(key, condition)
    IN  [location |-> location, condition |-> condition,
         expires_at |-> expires_at, discharge_signature |-> sig,
         binding |-> hmac_compute(primary, sig)]

serialize_discharge(d) ==
    [location |-> d.location, condition |-> d.condition,
     seconds |-> IF d.expires_at = None THEN None
                 ELSE d.expires_at \div TicksPerSecond,
     discharge_signature |-> d.discharge_signature, binding |-> d.binding]

from_timestamp(seconds) ==
    IF seconds \in -MaxTimestamp..MaxTimestamp THEN seconds * TicksPerSecond ELSE None

deserialize_discharge(wire) ==
    [location |-> wire.location, condition |-> wire.condition,
     expires_at |-> IF wire.seconds = None THEN None
                    ELSE from_timestamp(wire.seconds),
     discharge_signature |-> wire.discharge_signature,
     binding |-> wire.binding]

(* Mutant: the binding is not compared. *)
verify_discharge_Unbound(d, condition, key, primary, t) ==
    /\ d.expires_at # None => t <= d.expires_at
    /\ d.discharge_signature = hmac_compute(key, condition)
verify_discharge(d, condition, key, primary, t) ==
    /\ d.expires_at # None => t <= d.expires_at
    /\ d.discharge_signature = hmac_compute(key, condition)
    /\ d.binding = hmac_compute(primary, d.discharge_signature)

-----------------------------------------------------------------------------
(***************************************************************************)
(* CaveatVerifier::check.  A verifier has the values of the request, the   *)
(* time, the discharges presented and the keys of the sealed record; the   *)
(* broker always counts the attempt as the first use.                      *)
(***************************************************************************)
USE_COUNT == 1

(***************************************************************************)
(* The first of the keys that has the location and the key id.             *)
(***************************************************************************)
KeyFits(entry, location, key_id) ==
    entry.location = location /\ entry.key_id = key_id

FirstKey(v, location, key_id, i) ==
    /\ KeyFits(v.discharge_keys[i], location, key_id)
    /\ \A j \in 1..(i-1) : ~KeyFits(v.discharge_keys[j], location, key_id)

Discharged(v, location, key_id, primary) ==
    \E i \in DOMAIN v.discharge_keys :
        LET entry == v.discharge_keys[i]
        IN  /\ FirstKey(v, location, key_id, i)
            /\ \E d \in v.discharges :
                  /\ d.location = location
                  /\ d.condition = entry.condition
                  /\ verify_discharge(d, entry.condition, entry.key, primary,
                                      v.now)

check(v, c, primary) ==
    /\ c.type \in FirstParty => v.context[c.type] = c.value[1]
    /\ c.type = "Expires" => v.now <= c.value[1]
    /\ c.type = "MaxUses" => USE_COUNT <= 1
    /\ c.type = "ThirdParty" => Discharged(v, c.value[1], c.value[2], primary)

(* Mutant: only the last caveat is checked. *)
verify_Last(m, v) ==
    /\ verify_signature(m)
    /\ \A i \in DOMAIN m.caveats :
          /\ Parses(m.caveats[i])
          /\ i = Len(m.caveats) =>
                check(v, parse(m.caveats[i]), caveat_signature(m, i))
verify(m, v) ==
    /\ verify_signature(m)
    /\ \A i \in DOMAIN m.caveats :
          /\ Parses(m.caveats[i])
          /\ check(v, parse(m.caveats[i]), caveat_signature(m, i))

(***************************************************************************)
(* The signature that a discharge is bound to: that of the chain at the    *)
(* one caveat with this location and key id.                               *)
(***************************************************************************)
Matching(m, location, key_id) ==
    {i \in DOMAIN m.caveats :
        parse(m.caveats[i]) = [type |-> "ThirdParty",
                               value |-> <<location, key_id>>]}

BindsAt(m, location, key_id, i) ==
    /\ \A j \in DOMAIN m.caveats : Parses(m.caveats[j])
    /\ Matching(m, location, key_id) = {i}

-----------------------------------------------------------------------------
(***************************************************************************)
(* Holders.                                                                *)
(***************************************************************************)
Init ==
    /\ now = 0
    /\ keys = [id \in Ids |-> <<>>]
    /\ writing = {}
    /\ pending = [h \in Holders |-> None]
    /\ made = [id \in Ids |-> <<>>]
    /\ minted \in [Ids -> MintCaveats]
    /\ held \in [Holders -> {mint(id, minted[id]) : id \in Ids}]
    /\ discharges = {}
    /\ genuine = Holders

(***************************************************************************)
(* What a holder makes of a handle goes over the wire, and what cannot be  *)
(* read back is useless.                                                   *)
(***************************************************************************)
Receive(h, m) ==
    /\ Readable(serialize(m))
    /\ held' = [held EXCEPT ![h] = deserialize(serialize(m))]

Pass(h, other) ==
    /\ Receive(other, held[h])
    /\ genuine' = IF h \in genuine THEN genuine \cup {other}
                                   ELSE genuine \ {other}
    /\ UNCHANGED <<now, storeVars, discharges, minted>>

(***************************************************************************)
(* Anyone adds a caveat, or any other text, to the chain (a bound: not to  *)
(* an edited copy, which adding does not make authentic again).            *)
(***************************************************************************)
Add(h, text) ==
    /\ h \in genuine
    /\ Len(held[h].caveats) < MaxCaveats
    /\ Receive(h, add_text(held[h], text))
    /\ UNCHANGED <<now, storeVars, discharges, minted, genuine>>

(***************************************************************************)
(* The bound on what goes on at a time; an edited copy counts twice.       *)
(***************************************************************************)
Room(n) == Cardinality(writing)
           + Cardinality({h \in Holders : pending[h] # None})
           + 2 * Cardinality(Holders \ genuine) + n <= MaxBusy

(***************************************************************************)
(* attenuate_handle_v2 on an authentic handle, with first party caveats, a *)
(* third party caveat, or both.  For a third party caveat it makes a key,  *)
(* and append_third_party_caveat_key reads the record here.                *)
(***************************************************************************)
FreshKey(id, third) ==
    LET n == Len(made[id]) + 1
    IN  [location |-> third[1], key_id |-> n, condition |-> third[2],
         key |-> <<id, n>>]

KeysMade == UNION {Range(made[id]) : id \in Ids}

Attenuate(h, first, third) ==
    LET id == held[h].identifier
        m == add_caveats(held[h], first)
        entry == FreshKey(id, third)
        full == add_caveat(m, [type |-> "ThirdParty",
                               value |-> <<third[1], entry.key_id>>])
    IN  /\ first # <<>> \/ third # None
        /\ verify_signature(held[h])
        /\ IF third = None
             THEN /\ Len(m.caveats) <= MaxCaveats
                  /\ Receive(h, m)
                  /\ UNCHANGED storeVars
             ELSE /\ Len(full.caveats) <= MaxCaveats
                  /\ Cardinality(KeysMade) < MaxKeys
                  /\ pending[h] = None /\ Room(1)
                  /\ made' = [made EXCEPT ![id] = Append(@, entry)]
                  /\ pending' = [pending EXCEPT ![h] =
                        [handle |-> full, keys |-> Append(keys[id], entry)]]
                  /\ UNCHANGED <<keys, writing, held>>
        /\ UNCHANGED <<now, discharges, minted, genuine>>

(***************************************************************************)
(* append_third_party_caveat_key writes the record that it read, with the  *)
(* key, and the handle is answered.                                        *)
(***************************************************************************)
Attenuated(h) ==
    LET p == pending[h]
    IN  /\ p # None
        /\ keys' = [keys EXCEPT ![p.handle.identifier] = p.keys]
        /\ pending' = [pending EXCEPT ![h] = None]
        /\ Receive(h, p.handle)
        /\ genuine' = genuine \cup {h}
        /\ UNCHANGED <<now, writing, discharges, made, minted>>

(***************************************************************************)
(* The caller gives up: the task that stores the key runs on without it.   *)
(***************************************************************************)
GiveUp(h) ==
    LET p == pending[h]
    IN  /\ p # None
        /\ writing' = writing \cup
              {[id |-> p.handle.identifier, keys |-> p.keys]}
        /\ pending' = [pending EXCEPT ![h] = None]
        /\ UNCHANGED <<now, keys, held, discharges, made, minted, genuine>>

(***************************************************************************)
(* Any other operation of the store on the record, load included: it reads *)
(* the record and writes it back (a bound: not before a key was made; the  *)
(* record has none until the attenuation writes it).                       *)
(***************************************************************************)
Read(id) ==
    /\ made[id] # <<>>
    /\ Room(1)
    /\ writing' = writing \cup {[id |-> id, keys |-> keys[id]]}
    /\ UNCHANGED <<now, keys, pending, held, discharges, made, minted, genuine>>

WriteBack(w) ==
    /\ keys' = [keys EXCEPT ![w.id] = w.keys]
    /\ writing' = writing \ {w}
    /\ UNCHANGED <<now, pending, held, discharges, made, minted, genuine>>

(***************************************************************************)
(* The keys of a sealed record, decoded.                                   *)
(***************************************************************************)
discharge_keys_for_record(id) == keys[id]

(***************************************************************************)
(* mint_discharge for a caveat of a handle, with the key that the record   *)
(* has when it is loaded.  The sum of time and lifetime is a DateTime.     *)
(***************************************************************************)
Minted(m, entry, i) ==
    [wire  |-> serialize_discharge(
                  mint_with_expiry(entry.location, entry.condition, entry.key,
                                   caveat_signature(m, i),
                                   now + DischargeTtl)),
     id    |-> m.identifier,
     upTo  |-> SubSeq(m.caveats, 1, i),
     until |-> now + DischargeTtl]

(* Mutant: the discharge is bound to the whole handle. *)
MintDischarge_Whole(h) ==
    LET m == held[h] IN
    /\ Cardinality(discharges) < MaxDischarges
    /\ (now + DischargeTtl) \div TicksPerSecond <= MaxTimestamp
    /\ verify_signature(m)
    /\ \E i \in DOMAIN m.caveats,
          entry \in Range(discharge_keys_for_record(m.identifier)) :
          /\ BindsAt(m, entry.location, entry.key_id, i)
          /\ discharges' = discharges \cup
                {[Minted(m, entry, Len(m.caveats)) EXCEPT
                    !.upTo = SubSeq(m.caveats, 1, i)]}
    /\ UNCHANGED <<now, storeVars, held, minted, genuine>>
MintDischarge(h) ==
    LET m == held[h] IN
    /\ Cardinality(discharges) < MaxDischarges
    /\ (now + DischargeTtl) \div TicksPerSecond <= MaxTimestamp
    /\ verify_signature(m)
    /\ \E i \in DOMAIN m.caveats,
          entry \in Range(discharge_keys_for_record(m.identifier)) :
          /\ BindsAt(m, entry.location, entry.key_id, i)
          /\ discharges' = discharges \cup {Minted(m, entry, i)}
    /\ UNCHANGED <<now, storeVars, held, minted, genuine>>

Without(s, i) == SubSeq(s, 1, i - 1) \o SubSeq(s, i + 1, Len(s))

(***************************************************************************)
(* A copy whose caveat list lost an entry or has two exchanged, or whose   *)
(* identifier is another one, under the signature that it had.             *)
(***************************************************************************)
Edited(m) ==
    ({[m EXCEPT !.caveats = Without(@, i)] : i \in DOMAIN m.caveats} \cup
     {[m EXCEPT !.caveats[i] = m.caveats[i + 1],
                !.caveats[i + 1] = m.caveats[i]] :
         i \in 1..(Len(m.caveats) - 1)} \cup
     {[m EXCEPT !.identifier = id] : id \in Ids}) \ {m}

Edit(h) ==
    /\ Room(2)
    /\ verify_signature(held[h])
    /\ \E m \in Edited(held[h]) : Receive(h, m)
    /\ genuine' = genuine \ {h}
    /\ UNCHANGED <<now, storeVars, discharges, minted>>

Tick ==
    /\ now < MaxTime
    /\ now' = now + 1
    /\ UNCHANGED <<storeVars, held, discharges, minted, genuine>>

Next ==
    \/ \E h, other \in Holders : Pass(h, other)
    \/ \E h \in Holders, text \in ForeignTexts : Add(h, text)
    \/ \E h \in Holders, first \in MoreCaveats,
          third \in {None} \cup (Locations \X Conditions) :
             Attenuate(h, first, third)
    \/ \E h \in Holders : Attenuated(h) \/ GiveUp(h)
    \/ \E id \in Ids : Read(id)
    \/ \E w \in writing : WriteBack(w)
    \/ \E h \in Holders : MintDischarge(h)
    \/ \E h \in Holders : Edit(h)
    \/ Tick

Spec == Init /\ [][Next]_vars

-----------------------------------------------------------------------------
(***************************************************************************)
(* Unwrap of the handle that a holder presents, with a set of discharges:  *)
(* all that there are as they were issued, or also with other expiries.    *)
(***************************************************************************)
Issued == {d.wire : d \in discharges}

Presentable ==
    Issued \cup {[w EXCEPT !.seconds = s] : w \in Issued, s \in Timestamps}

Verifier(id, context, wires) ==
    [context |-> context, now |-> now,
     discharges |-> {deserialize_discharge(w) : w \in wires},
     discharge_keys |-> discharge_keys_for_record(id)]

Accepted(m, context, wires) ==
    verify(m, Verifier(m.identifier, context, wires))

(***************************************************************************)
(* What the caveats ask, said without chains: a third party caveat is met  *)
(* at time t by a discharge that was minted for this handle, up to and     *)
(* including this caveat, and not to end before t.                         *)
(***************************************************************************)
Met(m, i, context, t) ==
    LET c == parse(m.caveats[i])
    IN  CASE c.type \in FirstParty  -> context[c.type] = c.value[1]
          [] c.type = "Expires"     -> now <= c.value[1]
          [] c.type = "MaxUses"     -> TRUE
          [] c.type = "ThirdParty"  ->
                \E d \in discharges : /\ d.id = m.identifier
                                      /\ d.upTo = SubSeq(m.caveats, 1, i)
                                      /\ t <= d.until

AllMet(m, context, t) ==
    \A i \in DOMAIN m.caveats :
        Parses(m.caveats[i]) /\ Met(m, i, context, t)

(***************************************************************************)
(* The sealed record still has the keys of the third party caveats.        *)
(***************************************************************************)
KeysThere(m, context) ==
    \A i \in DOMAIN m.caveats :
        LET c == parse(m.caveats[i])
        IN  c.type = "ThirdParty" =>
               \E n \in DOMAIN keys[m.identifier] :
                  FirstKey(Verifier(m.identifier, context, {}),
                           c.value[1], c.value[2], n)

Begins(s, t) == Len(s) <= Len(t) /\ s = SubSeq(t, 1, Len(s))

(***************************************************************************)
(* "anyone can ADD caveats, nobody can REMOVE them"                        *)
(* (macaroon_caveats.rs:4-5): a handle that unwrap accepts is one that     *)
(* nobody edited, and it still begins with the caveats it was minted with. *)
(***************************************************************************)
NobodyRemoves ==
    \A h \in Holders, context \in Contexts :
        Accepted(held[h], context, Presentable) =>
            /\ h \in genuine
            /\ Begins(mint(held[h].identifier,
                           minted[held[h].identifier]).caveats,
                      held[h].caveats)

(***************************************************************************)
(* Monotonic attenuation (macaroon_caveats.rs:163-167, 185-204): whatever  *)
(* is added to a handle, by whom ever, with the same discharges in the     *)
(* same context, it opens nothing that the handle did not open before.     *)
(***************************************************************************)
AddingNarrows ==
    \A h \in Holders, context \in Contexts :
        \A text \in {encode(c) : c \in UNION {Range(cs) : cs \in MoreCaveats}}
                     \cup ForeignTexts :
            Accepted(add_text(held[h], text), context, Presentable) =>
                Accepted(held[h], context, Presentable)

(***************************************************************************)
(* Soundness of the verifier (macaroon_caveats.rs:185-204, 357-380,        *)
(* 579-617): an accepted handle has every caveat met, a third party caveat *)
(* by a discharge that was minted for this handle up to this caveat, with  *)
(* whatever expiry it is presented; one of another copy or another caveat  *)
(* does not count.  Discharges that are presented as they were issued also *)
(* count only while they live.                                             *)
(***************************************************************************)
AcceptedIsMet ==
    \A h \in Holders, context \in Contexts :
        /\ Accepted(held[h], context, Presentable) =>
              AllMet(held[h], context, 0)
        /\ Accepted(held[h], context, Issued) =>
              AllMet(held[h], context, now)

(***************************************************************************)
(* Completeness (macaroon_caveats.rs:163-167, 206-236, 330-346): a handle  *)
(* that nobody edited is accepted wherever its caveats are met, as long as *)
(* no operation that overlapped the attenuation has written back a record  *)
(* without the key (sealed_store.rs:411).  A discharge stays good when     *)
(* caveats are added behind the one that it is for, and when keys are      *)
(* added to the record; it may be refused early only in the second in      *)
(* which it ends.                                                          *)
(***************************************************************************)
MetIsAccepted ==
    \A h \in genuine, context \in Contexts :
        /\ AllMet(held[h], context, now + TicksPerSecond - 1)
        /\ KeysThere(held[h], context)
        => Accepted(held[h], context, Issued)
=============================================================================
