-------------------------- MODULE Macaroon_proofs --------------------------
(***************************************************************************)
(* What the chain of MACs guarantees for any handles, caveats, holders and *)
(* third parties.                                                          *)
(***************************************************************************)
EXTENDS Macaroon, SequenceTheorems, TLAPS

Element == Ids \cup {encode(c) : c \in Caveat} \cup ForeignTexts

Handle == [identifier : Ids, caveats : Seq(Element), signature : Seq(Element)]

-----------------------------------------------------------------------------
(***************************************************************************)
(* Lemmas about sequences.                                                 *)
(***************************************************************************)
LEMMA AppendEqual ==
    ASSUME NEW S, NEW s \in Seq(S), NEW t \in Seq(S), NEW e, NEW f,
           Append(s, e) = Append(t, f)
    PROVE  s = t /\ e = f
<1> DEFINE T == S \cup {e, f}
<1>1. s \in Seq(T) /\ t \in Seq(T) /\ e \in T /\ f \in T
  BY SeqMonotonic, Zenon
<1> HIDE DEF T
<1> QED
  BY <1>1, AppendInjective

LEMMA PrefixOfConcat ==
    ASSUME NEW S, NEW s \in Seq(S), NEW t \in Seq(S), NEW i \in 1..Len(s)
    PROVE  /\ i \in DOMAIN (s \o t)
           /\ (s \o t)[i] = s[i]
           /\ SubSeq(s \o t, 1, i) = SubSeq(s, 1, i)
<1>1. SubSeq(s \o t, 1, i) = SubSeq(s, 1, i)
  BY SubSeqOfConcat1
<1>2. s \o t \in Seq(S) /\ Len(s \o t) = Len(s) + Len(t)
      /\ Len(s) \in Nat /\ Len(t) \in Nat
  BY ConcatProperties
<1>3. (s \o t)[i] = s[i]
  BY ConcatProperties
<1>4. DOMAIN (s \o t) = 1..(Len(s) + Len(t))
  BY <1>2
<1> QED
  BY <1>1, <1>2, <1>3, <1>4

LEMMA PrefixTyped ==
    ASSUME NEW S, NEW s \in Seq(S), NEW i \in DOMAIN s
    PROVE  SubSeq(s, 1, i) \in Seq(S)
BY SubSeqProperties

-----------------------------------------------------------------------------
(***************************************************************************)
(* Lemmas about chains: the chain of a longer list continues that of the   *)
(* shorter one, and a chain tells its identifier and its list.             *)
(***************************************************************************)
Start(id) == hmac_compute(root_key(id), id)

LEMMA StartTyped ==
    ASSUME NEW id \in Ids
    PROVE  Start(id) \in Seq(Element) /\ 1 \in 1..Len(Start(id)) /\ Start(id)[1] = id
<1>1. id \in Element /\ <<id>> \in Seq(Element)
  BY DEF Element
<1>2. /\ Append(<<id>>, id) \in Seq(Element)
      /\ Len(Append(<<id>>, id)) = Len(<<id>>) + 1
      /\ Append(<<id>>, id)[1] = <<id>>[1]
  BY <1>1, AppendProperties
<1> QED
  BY <1>2 DEF Start, hmac_compute, root_key

LEMMA ChainIs ==
    ASSUME NEW id \in Ids, NEW s \in Seq(Element)
    PROVE  chain(id, s) = Start(id) \o s /\ chain(id, s) \in Seq(Element)
<1>1. chain(id, s) = Start(id) \o s
  BY Zenon DEF chain, Start
<1> QED
  BY <1>1, StartTyped, ConcatProperties, Zenon

LEMMA ChainConcat ==
    ASSUME NEW id \in Ids, NEW s \in Seq(Element), NEW t \in Seq(Element)
    PROVE  chain(id, s \o t) = chain(id, s) \o t
<1>1. s \o t \in Seq(Element)
  BY ConcatProperties, Zenon
<1>2. (Start(id) \o s) \o t = Start(id) \o (s \o t)
  BY StartTyped, ConcatAssociative, SMTT(30)
<1> QED
  BY <1>1, <1>2, ChainIs, ZenonT(30)

LEMMA ChainInjective ==
    ASSUME NEW id \in Ids, NEW id2 \in Ids,
           NEW s \in Seq(Element), NEW t \in Seq(Element),
           chain(id, s) = chain(id2, t)
    PROVE  id = id2 /\ s = t
<1>a. chain(id, s) = Start(id) \o s
  BY ChainIs, ZenonT(30)
<1>b. chain(id2, t) = Start(id2) \o t
  BY ChainIs, ZenonT(30)
<1>1. Start(id) \o s = Start(id2) \o t
  BY <1>a, <1>b, ZenonT(30)
<1>2. Start(id) \in Seq(Element) /\ Start(id2) \in Seq(Element)
  BY StartTyped, Zenon
<1>3. (Start(id) \o s)[1] = id /\ (Start(id2) \o t)[1] = id2
  BY StartTyped, PrefixOfConcat
<1>4. id = id2
  BY <1>1, <1>3, ZenonT(30)
<1>5. Start(id) \o s = Start(id) \o t
  BY <1>1, <1>4, Zenon
<1> QED
  BY <1>2, <1>4, <1>5, ConcatSimplifications, ZenonT(30)

-----------------------------------------------------------------------------
(***************************************************************************)
(* Growing a handle: what add_text, add_caveat and add_caveats do.         *)
(***************************************************************************)
Grow(m, t) == [m EXCEPT !.signature = @ \o t, !.caveats = @ \o t]

LEMMA Grows ==
    ASSUME NEW m \in Handle, NEW t \in Seq(Element)
    PROVE  /\ Grow(m, t) \in Handle
           /\ Grow(m, t).identifier = m.identifier
           /\ Grow(m, t).caveats = m.caveats \o t
           /\ Grow(m, t).signature = m.signature \o t
           /\ verify_signature(Grow(m, t)) <=> verify_signature(m)
<1>1. m.caveats \in Seq(Element) /\ m.signature \in Seq(Element)
      /\ m.identifier \in Ids
  BY Zenon DEF Handle
<1>2. m.caveats \o t \in Seq(Element) /\ m.signature \o t \in Seq(Element)
  BY <1>1, ConcatProperties, Zenon
<1>3. /\ Grow(m, t) \in Handle
      /\ Grow(m, t).identifier = m.identifier
      /\ Grow(m, t).caveats = m.caveats \o t
      /\ Grow(m, t).signature = m.signature \o t
  BY <1>2, ZenonT(30) DEF Grow, Handle
<1>4. chain(m.identifier, m.caveats \o t) = chain(m.identifier, m.caveats) \o t
      /\ chain(m.identifier, m.caveats) \in Seq(Element)
  BY <1>1, ChainConcat, ChainIs, ZenonT(30)
<1>5. m.signature \o t = chain(m.identifier, m.caveats) \o t
        <=> m.signature = chain(m.identifier, m.caveats)
  BY <1>1, <1>4, ConcatSimplifications, ZenonT(30)
<1> QED
  BY <1>3, <1>4, <1>5, ZenonT(30) DEF verify_signature

LEMMA AddTextGrows ==
    ASSUME NEW m \in Handle, NEW e \in Element
    PROVE  add_text(m, e) = Grow(m, <<e>>) /\ <<e>> \in Seq(Element)
<1>1. m.caveats \in Seq(Element) /\ m.signature \in Seq(Element)
  BY Zenon DEF Handle
<1>2. Append(m.caveats, e) = m.caveats \o <<e>>
      /\ Append(m.signature, e) = m.signature \o <<e>>
  BY <1>1, AppendIsConcat, SMTT(30)
<1> QED
  BY <1>2 DEF add_text, Grow, hmac_compute, Handle

LEMMA EncodedTyped ==
    ASSUME NEW cs \in Seq(Caveat)
    PROVE  encoded(cs) \in Seq(Element)
<1>1. DOMAIN cs = 1..Len(cs) /\ Len(cs) \in Nat
      /\ \A i \in 1..Len(cs) : cs[i] \in Caveat
  OBVIOUS
<1>2. \A i \in 1..Len(cs) : encode(cs[i]) \in Element
  BY <1>1, Zenon DEF Element
<1>3. [i \in 1..Len(cs) |-> encode(cs[i])] \in Seq(Element)
  BY <1>1, <1>2, IsASeq
<1> QED
  BY <1>1, <1>3, Zenon DEF encoded

(***************************************************************************)
(* For any handle and any text: with the same discharges in the same       *)
(* context, the handle with the text added is accepted only where the      *)
(* handle is (macaroon_caveats.rs:163-167, 185-204).                       *)
(***************************************************************************)
LEMMA NarrowsOne ==
    ASSUME NEW m \in Handle, NEW e \in Element, NEW context, NEW wires,
           Accepted(add_text(m, e), context, wires)
    PROVE  Accepted(m, context, wires)
<1> DEFINE g == Grow(m, <<e>>)
           v == Verifier(m.identifier, context, wires)
<1>1. m.caveats \in Seq(Element) /\ m.identifier \in Ids /\ <<e>> \in Seq(Element)
  BY AddTextGrows, Zenon DEF Handle
<1>2. /\ add_text(m, e) = g
      /\ g.identifier = m.identifier
      /\ g.caveats = m.caveats \o <<e>>
      /\ verify_signature(g) <=> verify_signature(m)
  BY AddTextGrows, Grows, ZenonT(30)
<1> HIDE DEF g
<1>3. verify(g, v)
  BY <1>2, Zenon DEF Accepted
<1> HIDE DEF v
<1>4. verify_signature(m)
  BY <1>2, <1>3, Zenon DEF verify
<1>5. ASSUME NEW i \in DOMAIN m.caveats
      PROVE  /\ Parses(m.caveats[i])
             /\ check(v, parse(m.caveats[i]), caveat_signature(m, i))
  <2>1. i \in 1..Len(m.caveats)
    BY <1>1
  <2>2. /\ i \in DOMAIN g.caveats
        /\ g.caveats[i] = m.caveats[i]
        /\ SubSeq(g.caveats, 1, i) = SubSeq(m.caveats, 1, i)
    BY <1>1, <1>2, <2>1, PrefixOfConcat
  <2>3. caveat_signature(g, i) = caveat_signature(m, i)
    BY <1>2, <2>2, ZenonT(30) DEF caveat_signature
  <2> QED
    BY <1>3, <2>2, <2>3, Zenon DEF verify
<1>6. verify(m, v)
  BY <1>4, <1>5, Zenon DEF verify
<1> QED
  BY <1>6, Zenon DEF Accepted, v

-----------------------------------------------------------------------------
(***************************************************************************)
(* The inductive invariant.  A copy is authentic exactly when nobody       *)
(* edited it, and then it continues the handle that was minted, and so     *)
(* does a handle that waits for its key to be stored; a discharge is bound *)
(* to the chain of the handle and the caveats that it was minted for, and  *)
(* its wire form, as issued, does not outlive it.                          *)
(***************************************************************************)
KeyEntry == [location : Locations, key_id : Nat, condition : Conditions,
             key : Seq(Ids \cup Nat)]

Typed ==
    /\ now \in Nat
    /\ keys \in [Ids -> Seq(KeyEntry)]
    /\ made \in [Ids -> Seq(KeyEntry)]
    /\ writing \subseteq [id : Ids, keys : Seq(KeyEntry)]
    /\ pending \in [Holders -> {None} \cup
                               [handle : Handle, keys : Seq(KeyEntry)]]
    /\ held \in [Holders -> Handle]
    /\ minted \in [Ids -> Seq(Caveat)]
    /\ genuine \subseteq Holders

Continues(m) ==
    \E rest \in Seq(Element) :
        m.caveats = encoded(minted[m.identifier]) \o rest

Authentic(h) ==
    /\ h \in genuine <=> verify_signature(held[h])
    /\ h \in genuine => Continues(held[h])

Bound(d) ==
    /\ d.id \in Ids
    /\ d.upTo \in Seq(Element)
    /\ d.wire.binding =
          hmac_compute(chain(d.id, d.upTo), d.wire.discharge_signature)
    /\ d.wire.seconds \in 0..MaxTimestamp /\ d.until \in Nat
    /\ d.wire.seconds * TicksPerSecond <= d.until
    /\ {"discharge_signature", "binding"} \subseteq DOMAIN d.wire

Awaited(h) ==
    pending[h] # None => /\ verify_signature(pending[h].handle)
                         /\ Continues(pending[h].handle)

MacInv ==
    /\ Typed
    /\ \A h \in Holders : Awaited(h)
    /\ \A h \in Holders : Authentic(h)
    /\ \A d \in discharges : Bound(d)

LEMMA MacInit == Init => MacInv
<1> SUFFICES ASSUME Init PROVE MacInv
  BY Zenon
<1>1. minted \in [Ids -> Seq(Caveat)]
  BY MacaroonAssumption, Zenon DEF Init
<1>2. ASSUME NEW h \in Holders
      PROVE  /\ held[h] \in Handle
             /\ verify_signature(held[h])
             /\ Continues(held[h])
  <2>1. PICK id \in Ids : held[h] = mint(id, minted[id])
    BY <1>2, Zenon DEF Init
  <2>2. encoded(minted[id]) \in Seq(Element)
    BY <1>1, EncodedTyped, Zenon
  <2>3. chain(id, encoded(minted[id])) \in Seq(Element)
    BY <2>2, ChainIs, Zenon
  <2>4. /\ held[h].identifier = id
        /\ held[h].caveats = encoded(minted[id])
        /\ held[h].signature = chain(id, encoded(minted[id]))
        /\ held[h] \in Handle
    BY <2>1, <2>2, <2>3 DEF mint, Handle
  <2>5. encoded(minted[id]) = encoded(minted[id]) \o <<>> /\ <<>> \in Seq(Element)
    BY <2>2, ConcatEmptySeq
  <2> QED
    BY <2>4, <2>5, ZenonT(30) DEF verify_signature, Continues
<1>3. held \in [Holders -> Handle]
  <2>1. held \in [Holders -> {mint(id, minted[id]) : id \in Ids}]
    BY Zenon DEF Init
  <2> QED
    BY <2>1, <1>2, Zenon
<1>4. Typed
  BY <1>1, <1>3 DEF Init, Typed
<1> QED
  BY <1>2, <1>4, Zenon DEF Init, MacInv, Authentic, Awaited

-----------------------------------------------------------------------------
LEMMA Received ==
    ASSUME NEW h \in Holders, NEW m, Receive(h, m), Typed
    PROVE  held'[h] = m /\ \A k \in Holders \ {h} : held'[k] = held[k]
BY Zenon DEF Receive, deserialize, serialize, Typed

LEMMA HeldTyped ==
    ASSUME NEW h \in Holders, NEW m \in Handle, Receive(h, m), Typed
    PROVE  held' \in [Holders -> Handle]
BY Zenon DEF Receive, deserialize, serialize, Typed

(***************************************************************************)
(* A genuine handle that grows stays genuine, and whoever receives a       *)
(* genuine handle has one.                                                 *)
(***************************************************************************)
LEMMA GrownGenuine ==
    ASSUME Typed, NEW m \in Handle, NEW t \in Seq(Element),
           verify_signature(m), Continues(m)
    PROVE  /\ Grow(m, t) \in Handle
           /\ verify_signature(Grow(m, t))
           /\ Continues(Grow(m, t))
<1>1. /\ Grow(m, t) \in Handle
      /\ Grow(m, t).identifier = m.identifier
      /\ Grow(m, t).caveats = m.caveats \o t
      /\ verify_signature(Grow(m, t))
  BY Grows, ZenonT(30)
<1>2. PICK rest \in Seq(Element) :
         m.caveats = encoded(minted[m.identifier]) \o rest
  BY Zenon DEF Continues
<1>3. encoded(minted[m.identifier]) \in Seq(Element)
  BY EncodedTyped, Zenon DEF Typed, Handle
<1>4. rest \o t \in Seq(Element)
  BY ConcatProperties, Zenon
<1>5. \A e \in Seq(Element) : (e \o rest) \o t = e \o (rest \o t)
  BY ConcatAssociative, SMTT(30)
<1>6. m.caveats \o t = encoded(minted[m.identifier]) \o (rest \o t)
  BY <1>2, <1>3, <1>5, Zenon
<1> QED
  BY <1>1, <1>4, <1>6, ZenonT(30) DEF Continues

LEMMA ReceivedGenuine ==
    ASSUME MacInv, NEW h \in Holders, NEW m \in Handle,
           verify_signature(m), Continues(m), Receive(h, m),
           minted' = minted, genuine' = genuine \cup {h}
    PROVE  held' \in [Holders -> Handle] /\ \A k \in Holders : Authentic(k)'
<1>1. Typed
  BY Zenon DEF MacInv
<1>2. /\ held'[h] = m
      /\ \A k \in Holders \ {h} : held'[k] = held[k]
      /\ held' \in [Holders -> Handle]
  BY <1>1, Received, HeldTyped, Zenon
<1>3. ASSUME NEW k \in Holders
      PROVE  Authentic(k)'
  <2>1. CASE k = h
    BY <2>1, <1>2, ZenonT(30) DEF Authentic, Continues, verify_signature
  <2>2. CASE k # h
    <3>1. Authentic(k)
      BY Zenon DEF MacInv
    <3> QED
      BY <2>2, <3>1, <1>2, ZenonT(30)
         DEF Authentic, Continues, verify_signature
  <2> QED
    BY <2>1, <2>2, Zenon
<1> QED
  BY <1>2, <1>3, Zenon

LEMMA AwaitedKept ==
    ASSUME MacInv, pending' = pending, minted' = minted
    PROVE  \A h \in Holders : Awaited(h)'
BY Zenon DEF MacInv, Awaited, Continues, verify_signature

LEMMA PassStep ==
    ASSUME NEW h \in Holders, NEW other \in Holders, MacInv, Pass(h, other)
    PROVE  MacInv'
<1>1. held[h] \in Handle /\ Typed
  BY Zenon DEF MacInv, Typed
<1>2. /\ held'[other] = held[h]
      /\ \A k \in Holders \ {other} : held'[k] = held[k]
      /\ held' \in [Holders -> Handle]
  BY <1>1, Received, HeldTyped, Zenon DEF Pass
<1>3. /\ UNCHANGED <<now, keys, writing, pending, made, discharges, minted>>
      /\ genuine' \subseteq Holders
      /\ other \in genuine' <=> h \in genuine
      /\ \A k \in Holders \ {other} : k \in genuine' <=> k \in genuine
  BY <1>1, Zenon DEF Pass, Typed, storeVars
<1>4. ASSUME NEW k \in Holders
      PROVE  Authentic(k)'
  <2>1. CASE k = other
    <3>1. Authentic(h)
      BY Zenon DEF MacInv
    <3> QED
      BY <2>1, <3>1, <1>2, <1>3, ZenonT(30)
         DEF Authentic, Continues, verify_signature
  <2>2. CASE k # other
    <3>1. Authentic(k)
      BY Zenon DEF MacInv
    <3> QED
      BY <2>2, <3>1, <1>2, <1>3, ZenonT(30)
         DEF Authentic, Continues, verify_signature
  <2> QED
    BY <2>1, <2>2, Zenon
<1>5. Typed'
  BY <1>1, <1>2, <1>3, Zenon DEF Typed
<1>6. \A d \in discharges' : Bound(d)'
  BY <1>3, Zenon DEF MacInv, Bound
<1> QED
  BY <1>3, <1>4, <1>5, <1>6, AwaitedKept, Zenon DEF MacInv

LEMMA AddStep ==
    ASSUME NEW h \in Holders, NEW text \in ForeignTexts, MacInv, Add(h, text)
    PROVE  MacInv'
<1>1. held[h] \in Handle /\ Typed /\ text \in Element /\ Authentic(h)
  BY Zenon DEF MacInv, Typed, Element
<1>2. add_text(held[h], text) = Grow(held[h], <<text>>) /\ <<text>> \in Seq(Element)
  BY <1>1, AddTextGrows, Zenon
<1>3. /\ h \in genuine /\ genuine' = genuine \cup {h}
      /\ UNCHANGED <<now, keys, writing, pending, made, discharges, minted, genuine>>
      /\ Receive(h, Grow(held[h], <<text>>))
  BY <1>2, Zenon DEF Add, storeVars
<1>4. held' \in [Holders -> Handle] /\ \A k \in Holders : Authentic(k)'
  <2>1. /\ Grow(held[h], <<text>>) \in Handle
        /\ verify_signature(Grow(held[h], <<text>>))
        /\ Continues(Grow(held[h], <<text>>))
    BY <1>1, <1>2, <1>3, GrownGenuine, Zenon DEF Authentic
  <2> QED
    BY <1>3, <2>1, ReceivedGenuine, Zenon
<1>5. Typed'
  BY <1>1, <1>3, <1>4, Zenon DEF Typed
<1> QED
  BY <1>3, <1>4, <1>5, AwaitedKept, Zenon DEF MacInv, Bound

LEMMA GrowTwice ==
    ASSUME NEW m \in Handle, NEW t \in Seq(Element), NEW u \in Seq(Element)
    PROVE  /\ Grow(Grow(m, t), u) = Grow(m, t \o u)
           /\ t \o u \in Seq(Element)
<1>1. m.caveats \in Seq(Element) /\ m.signature \in Seq(Element)
  BY Zenon DEF Handle
<1>2. \A s \in Seq(Element) : (s \o t) \o u = s \o (t \o u)
  BY ConcatAssociative, SMTT(30)
<1>3. /\ (m.caveats \o t) \o u = m.caveats \o (t \o u)
      /\ (m.signature \o t) \o u = m.signature \o (t \o u)
  BY <1>1, <1>2, ZenonT(30)
<1>4. t \o u \in Seq(Element)
  BY ConcatProperties, Zenon
<1> QED
  BY <1>3, <1>4, ZenonT(30) DEF Grow, Handle

LEMMA AttenuateStep ==
    ASSUME NEW h \in Holders, NEW first \in MoreCaveats,
           NEW third \in {None} \cup (Locations \X Conditions),
           MacInv, Attenuate(h, first, third)
    PROVE  MacInv'
<1> DEFINE id == held[h].identifier
           t == encoded(first)
           entry == FreshKey(id, third)
<1>1. held[h] \in Handle /\ Typed /\ Authentic(h) /\ id \in Ids
  BY Zenon DEF MacInv, Typed, Handle
<1>2. t \in Seq(Element)
  BY MacaroonAssumption, EncodedTyped, Zenon
<1>3. add_caveats(held[h], first) = Grow(held[h], t)
  BY Zenon DEF add_caveats, Grow
<1>4. Grow(held[h], t) \in Handle
  BY <1>1, <1>2, Grows, Zenon
<1>5. /\ h \in genuine /\ verify_signature(held[h]) /\ Continues(held[h])
      /\ genuine' = genuine \cup {h}
      /\ UNCHANGED <<now, discharges, minted, genuine>>
  BY <1>1, Zenon DEF Attenuate, Authentic
<1> HIDE DEF t
<1>6. CASE third = None
  <2>1. /\ Receive(h, Grow(held[h], t))
        /\ UNCHANGED <<keys, writing, pending, made>>
    BY <1>3, <1>6, Zenon DEF Attenuate, storeVars
  <2>2. /\ verify_signature(Grow(held[h], t)) /\ Continues(Grow(held[h], t))
    BY <1>1, <1>2, <1>5, GrownGenuine, Zenon
  <2>3. held' \in [Holders -> Handle] /\ \A k \in Holders : Authentic(k)'
    BY <1>4, <1>5, <2>1, <2>2, ReceivedGenuine, Zenon
  <2>4. Typed'
    BY <1>1, <1>5, <2>1, <2>3, Zenon DEF Typed
  <2> QED
    BY <1>5, <2>1, <2>3, <2>4, AwaitedKept, Zenon DEF MacInv, Bound
<1>7. CASE third # None
  <2> DEFINE c == [type |-> "ThirdParty", value |-> <<third[1], entry.key_id>>]
             full == add_caveat(Grow(held[h], t), c)
             p == [handle |-> full, keys |-> Append(keys[id], entry)]
  <2>1. /\ made' = [made EXCEPT ![id] = Append(@, entry)]
        /\ pending' = [pending EXCEPT ![h] = p]
        /\ UNCHANGED <<keys, writing, held>>
    BY <1>3, <1>7, Zenon DEF Attenuate
  <2>2. third[1] \in Locations /\ third[2] \in Conditions
    BY <1>7, Zenon
  <2>3. /\ Len(made[id]) + 1 \in Nat /\ made[id] \in Seq(KeyEntry)
        /\ keys[id] \in Seq(KeyEntry)
    BY <1>1 DEF Typed
  <2>4. entry \in KeyEntry /\ entry.key_id \in Nat
    <3>1. <<id, Len(made[id]) + 1>> \in Seq(Ids \cup Nat)
      BY <1>1, <2>3
    <3> QED
      BY <2>2, <2>3, <3>1, Zenon DEF FreshKey, KeyEntry
  <2> HIDE DEF entry
  <2>5. c \in Caveat
    BY <2>2, <2>4, Zenon DEF Caveat
  <2>6. encode(c) \in Element
    BY <2>5, Zenon DEF Element
  <2> HIDE DEF c
  <2>7. /\ full = Grow(held[h], t \o <<encode(c)>>)
        /\ t \o <<encode(c)>> \in Seq(Element)
    BY <1>1, <1>2, <1>4, <2>6, AddTextGrows, GrowTwice, ZenonT(30)
       DEF add_caveat
  <2> HIDE DEF full
  <2>8. full \in Handle /\ verify_signature(full) /\ Continues(full)
    BY <1>1, <1>5, <2>7, GrownGenuine, ZenonT(30)
  <2>9. /\ Append(made[id], entry) \in Seq(KeyEntry)
        /\ Append(keys[id], entry) \in Seq(KeyEntry)
    BY <2>3, <2>4, AppendProperties, Zenon
  <2>10. /\ p \in [handle : Handle, keys : Seq(KeyEntry)]
         /\ p.handle = full
    BY <2>8, <2>9, Zenon
  <2> HIDE DEF p
  <2>11. Typed'
    <3>1. made' \in [Ids -> Seq(KeyEntry)]
      BY <1>1, <2>1, <2>9, Zenon DEF Typed
    <3>2. pending' \in [Holders -> {None} \cup
                                  [handle : Handle, keys : Seq(KeyEntry)]]
      BY <1>1, <2>1, <2>10, Zenon DEF Typed
    <3> QED
      BY <1>1, <1>5, <2>1, <3>1, <3>2, Zenon DEF Typed
  <2>12. ASSUME NEW k \in Holders
         PROVE  Awaited(k)'
    <3>1. pending'[k] = IF k = h THEN p ELSE pending[k]
      BY <1>1, <2>1, Zenon DEF Typed
    <3>2. CASE k = h
      BY <1>5, <2>8, <2>10, <3>1, <3>2, ZenonT(30)
         DEF Awaited, Continues, verify_signature
    <3>3. CASE k # h
      <4>1. Awaited(k) /\ pending'[k] = pending[k]
        BY <3>1, <3>3, Zenon DEF MacInv
      <4> QED
        BY <1>5, <4>1, ZenonT(30) DEF Awaited, Continues, verify_signature
    <3> QED
      BY <3>2, <3>3, Zenon
  <2>13. ASSUME NEW k \in Holders
         PROVE  Authentic(k)'
    <3>1. Authentic(k)
      BY Zenon DEF MacInv
    <3> QED
      BY <1>5, <2>1, <3>1, ZenonT(30) DEF Authentic, Continues, verify_signature
  <2> QED
    BY <1>5, <2>11, <2>12, <2>13, Zenon DEF MacInv, Bound
<1> QED
  BY <1>6, <1>7, Zenon

(***************************************************************************)
(* A store task keeps keys: whatever it wrote or gave up, types are kept,  *)
(* and nothing that a chain is about changes.                              *)
(***************************************************************************)
LEMMA PendingIs ==
    ASSUME MacInv, NEW h \in Holders, pending[h] # None
    PROVE  /\ pending[h].handle \in Handle /\ pending[h].keys \in Seq(KeyEntry)
           /\ pending[h].handle.identifier \in Ids
           /\ verify_signature(pending[h].handle) /\ Continues(pending[h].handle)
<1>1. pending[h] \in [handle : Handle, keys : Seq(KeyEntry)] /\ Awaited(h)
  BY Zenon DEF MacInv, Typed
<1> QED
  BY <1>1, Zenon DEF Awaited, Handle

LEMMA PendingDropped ==
    ASSUME MacInv, NEW h \in Holders, minted' = minted,
           pending' = [pending EXCEPT ![h] = None]
    PROVE  /\ pending' \in [Holders -> {None} \cup
                                [handle : Handle, keys : Seq(KeyEntry)]]
           /\ \A k \in Holders : Awaited(k)'
<1>1. Typed
  BY Zenon DEF MacInv
<1>2. pending' \in [Holders -> {None} \cup
                              [handle : Handle, keys : Seq(KeyEntry)]]
  BY <1>1, Zenon DEF Typed
<1>3. ASSUME NEW k \in Holders
      PROVE  Awaited(k)'
  <2>1. pending'[k] = IF k = h THEN None ELSE pending[k]
    BY <1>1, Zenon DEF Typed
  <2>2. Awaited(k)
    BY Zenon DEF MacInv
  <2> QED
    BY <2>1, <2>2, ZenonT(30) DEF Awaited, Continues, verify_signature
<1> QED
  BY <1>2, <1>3, Zenon

LEMMA AttenuatedStep ==
    ASSUME NEW h \in Holders, MacInv, Attenuated(h)
    PROVE  MacInv'
<1> DEFINE m == pending[h].handle
<1>1. /\ pending[h] # None /\ Typed
      /\ keys' = [keys EXCEPT ![m.identifier] = pending[h].keys]
      /\ pending' = [pending EXCEPT ![h] = None]
      /\ Receive(h, m) /\ genuine' = genuine \cup {h}
      /\ UNCHANGED <<now, writing, discharges, made, minted>>
  BY Zenon DEF Attenuated, MacInv
<1>2. /\ m \in Handle /\ m.identifier \in Ids
      /\ pending[h].keys \in Seq(KeyEntry)
      /\ verify_signature(m) /\ Continues(m)
  BY <1>1, PendingIs, Zenon
<1> HIDE DEF m
<1>3. held' \in [Holders -> Handle] /\ \A k \in Holders : Authentic(k)'
  BY <1>1, <1>2, ReceivedGenuine, Zenon
<1>4. keys' \in [Ids -> Seq(KeyEntry)] /\ genuine' \subseteq Holders
  BY <1>1, <1>2, Zenon DEF Typed
<1>5. /\ pending' \in [Holders -> {None} \cup
                              [handle : Handle, keys : Seq(KeyEntry)]]
      /\ \A k \in Holders : Awaited(k)'
  BY <1>1, PendingDropped, Zenon
<1>6. Typed'
  BY <1>1, <1>3, <1>4, <1>5, Zenon DEF Typed
<1> QED
  BY <1>1, <1>3, <1>5, <1>6, Zenon DEF MacInv, Bound

LEMMA GiveUpStep ==
    ASSUME NEW h \in Holders, MacInv, GiveUp(h)
    PROVE  MacInv'
<1> DEFINE w == [id |-> pending[h].handle.identifier, keys |-> pending[h].keys]
<1>1. /\ pending[h] # None /\ Typed
      /\ writing' = writing \cup {w}
      /\ pending' = [pending EXCEPT ![h] = None]
      /\ UNCHANGED <<now, keys, held, discharges, made, minted, genuine>>
  BY Zenon DEF GiveUp, MacInv
<1>2. w \in [id : Ids, keys : Seq(KeyEntry)]
  BY <1>1, PendingIs, Zenon
<1> HIDE DEF w
<1>3. writing' \subseteq [id : Ids, keys : Seq(KeyEntry)]
  BY <1>1, <1>2, Zenon DEF Typed
<1>4. /\ pending' \in [Holders -> {None} \cup
                              [handle : Handle, keys : Seq(KeyEntry)]]
      /\ \A k \in Holders : Awaited(k)'
  BY <1>1, PendingDropped, Zenon
<1>5. Typed'
  BY <1>1, <1>3, <1>4, Zenon DEF Typed
<1> QED
  BY <1>1, <1>4, <1>5, ZenonT(30)
     DEF MacInv, Bound, Authentic, Continues, verify_signature

LEMMA ReadStep ==
    ASSUME NEW id \in Ids, MacInv, Read(id)
    PROVE  MacInv'
<1> DEFINE w == [id |-> id, keys |-> keys[id]]
<1>1. /\ Typed /\ keys[id] \in Seq(KeyEntry)
      /\ writing' = writing \cup {w}
      /\ UNCHANGED <<now, keys, pending, held, discharges, made, minted, genuine>>
  BY Zenon DEF Read, MacInv, Typed
<1>2. writing' \subseteq [id : Ids, keys : Seq(KeyEntry)]
  <2>1. w \in [id : Ids, keys : Seq(KeyEntry)]
    BY <1>1, Zenon
  <2> HIDE DEF w
  <2> QED
    BY <1>1, <2>1, Zenon DEF Typed
<1>3. Typed'
  BY <1>1, <1>2, Zenon DEF Typed
<1> QED
  BY <1>1, <1>3, AwaitedKept, ZenonT(30)
     DEF MacInv, Bound, Authentic, Continues, verify_signature

LEMMA WriteBackStep ==
    ASSUME NEW w \in writing, MacInv, WriteBack(w)
    PROVE  MacInv'
<1>1. /\ Typed /\ w \in [id : Ids, keys : Seq(KeyEntry)]
      /\ keys' = [keys EXCEPT ![w.id] = w.keys]
      /\ writing' = writing \ {w}
      /\ UNCHANGED <<now, pending, held, discharges, made, minted, genuine>>
  BY Zenon DEF WriteBack, MacInv, Typed
<1>2. /\ writing' \subseteq [id : Ids, keys : Seq(KeyEntry)]
      /\ keys' \in [Ids -> Seq(KeyEntry)]
  BY <1>1, Zenon DEF Typed
<1>3. Typed'
  BY <1>1, <1>2, Zenon DEF Typed
<1> QED
  BY <1>1, <1>3, AwaitedKept, ZenonT(30)
     DEF MacInv, Bound, Authentic, Continues, verify_signature

-----------------------------------------------------------------------------
LEMMA WholeSeconds ==
    ASSUME NEW x \in Nat
    PROVE  /\ x \div TicksPerSecond \in Nat
           /\ (x \div TicksPerSecond) * TicksPerSecond <= x
           /\ x < (x \div TicksPerSecond) * TicksPerSecond + TicksPerSecond
<1>1. TicksPerSecond \in Nat /\ TicksPerSecond > 0
  BY MacaroonAssumption
<1>2. x \div TicksPerSecond \in Int
  BY <1>1
<1>3. x = TicksPerSecond * (x \div TicksPerSecond) + (x % TicksPerSecond)
      /\ x % TicksPerSecond \in 0..(TicksPerSecond - 1)
  BY <1>1
<1>4. x \div TicksPerSecond >= 0
  BY <1>1
<1> QED
  BY <1>1, <1>2, <1>3, <1>4

(***************************************************************************)
(* What a discharge is when it is minted.                                  *)
(***************************************************************************)
MintedAs(d, m, entry, i, x) ==
    /\ d.id = m.identifier
    /\ d.upTo = SubSeq(m.caveats, 1, i)
    /\ d.until = x /\ x \in Nat
    /\ d.wire.seconds = x \div TicksPerSecond
    /\ d.wire.location = entry.location
    /\ d.wire.condition = entry.condition
    /\ d.wire.discharge_signature = hmac_compute(entry.key, entry.condition)
    /\ d.wire.binding =
          hmac_compute(caveat_signature(m, i), d.wire.discharge_signature)
    /\ {"discharge_signature", "binding"} \subseteq DOMAIN d.wire

LEMMA MintedIs ==
    ASSUME Typed, NEW m, NEW entry, NEW i
    PROVE  MintedAs(Minted(m, entry, i), m, entry, i, now + DischargeTtl)
<1> DEFINE x == now + DischargeTtl
<1>1. x \in Nat
  BY MacaroonAssumption DEF Typed
<1>2. x # None
  BY <1>1, MacaroonAssumption
<1> DEFINE e == mint_with_expiry(entry.location, entry.condition, entry.key,
                                 caveat_signature(m, i), x)
           w == serialize_discharge(e)
<1>3. /\ Minted(m, entry, i).wire = w
      /\ Minted(m, entry, i).id = m.identifier
      /\ Minted(m, entry, i).upTo = SubSeq(m.caveats, 1, i)
      /\ Minted(m, entry, i).until = x
  BY Zenon DEF Minted
<1> HIDE DEF x
<1>4. /\ e.location = entry.location /\ e.condition = entry.condition
      /\ e.expires_at = x
      /\ e.discharge_signature = hmac_compute(entry.key, entry.condition)
      /\ e.binding = hmac_compute(caveat_signature(m, i), e.discharge_signature)
  BY Zenon DEF mint_with_expiry
<1> HIDE DEF e
<1>5. /\ w.location = e.location /\ w.condition = e.condition
      /\ w.seconds = e.expires_at \div TicksPerSecond
      /\ w.discharge_signature = e.discharge_signature
      /\ w.binding = e.binding
      /\ {"discharge_signature", "binding"} \subseteq DOMAIN w
  BY <1>2, <1>4 DEF serialize_discharge
<1> HIDE DEF w
<1>6. MintedAs(Minted(m, entry, i), m, entry, i, x)
  BY <1>1, <1>3, <1>4, <1>5, Zenon DEF MintedAs
<1> QED
  BY <1>6, Zenon DEF x

LEMMA MintStep ==
    ASSUME NEW h \in Holders, MacInv, MintDischarge(h)
    PROVE  MacInv'
<1>1. held[h] \in Handle /\ Typed
  BY Zenon DEF MacInv, Typed
<1>2. /\ UNCHANGED <<now, keys, writing, pending, made, held, minted, genuine>>
      /\ (now + DischargeTtl) \div TicksPerSecond <= MaxTimestamp
  BY Zenon DEF MintDischarge, storeVars
<1>3. ASSUME NEW i \in DOMAIN held[h].caveats, NEW entry
      PROVE  Bound(Minted(held[h], entry, i))
  <2>0. PICK d, x : d = Minted(held[h], entry, i) /\ x = now + DischargeTtl
    BY Zenon
  <2>1. held[h].identifier \in Ids /\ held[h].caveats \in Seq(Element)
    BY <1>1, Zenon DEF Handle
  <2>2. SubSeq(held[h].caveats, 1, i) \in Seq(Element)
    BY <2>1, PrefixTyped, Zenon
  <2>3. /\ d.id = held[h].identifier
        /\ d.upTo = SubSeq(held[h].caveats, 1, i)
        /\ d.until = x /\ x \in Nat
        /\ d.wire.seconds = x \div TicksPerSecond
        /\ d.wire.binding = hmac_compute(caveat_signature(held[h], i),
                                         d.wire.discharge_signature)
        /\ {"discharge_signature", "binding"} \subseteq DOMAIN d.wire
    <3>1. MintedAs(d, held[h], entry, i, x)
      BY <1>1, <2>0, MintedIs, ZenonT(30)
    <3> QED
      BY <3>1, Zenon DEF MintedAs
  <2>4. d.wire.seconds \in 0..MaxTimestamp /\ d.wire.seconds * TicksPerSecond <= d.until
    <3>1. x \div TicksPerSecond \in Nat
          /\ (x \div TicksPerSecond) * TicksPerSecond <= x
          /\ x \div TicksPerSecond <= MaxTimestamp /\ MaxTimestamp \in Nat
      BY <1>2, <2>0, <2>3, WholeSeconds, MacaroonAssumption, SMTT(30)
    <3> QED
      BY <2>3, <3>1
  <2> QED
    BY <2>0, <2>1, <2>2, <2>3, <2>4, Zenon DEF Bound, caveat_signature
<1>4. \A d \in discharges' : Bound(d)
  BY <1>3, Zenon DEF MintDischarge, MacInv
<1>5. Typed' /\ \A k \in Holders : Authentic(k)'
  BY <1>1, <1>2, ZenonT(30)
     DEF MacInv, Typed, Authentic, Continues, verify_signature
<1> QED
  BY <1>2, <1>4, <1>5, AwaitedKept, Zenon DEF MacInv, Bound

(***************************************************************************)
(* An edited copy has the signature of the handle that it was, and is not  *)
(* that handle.                                                            *)
(***************************************************************************)
LEMMA EditedIs ==
    ASSUME NEW m \in Handle, NEW e \in Edited(m)
    PROVE  e \in Handle /\ e.signature = m.signature /\ e # m
<1>1. m.caveats \in Seq(Element) /\ Len(m.caveats) \in Nat
  BY DEF Handle
<1>2. ASSUME NEW i \in DOMAIN m.caveats, e = [m EXCEPT !.caveats = Without(@, i)]
      PROVE  e \in Handle /\ e.signature = m.signature
  <2>1. i \in 1..Len(m.caveats) /\ \A j \in 1..Len(m.caveats) : m.caveats[j] \in Element
    BY <1>1
  <2>2. SubSeq(m.caveats, 1, i - 1) \in Seq(Element)
    BY <1>1, <2>1, SubSeqProperties
  <2>3. SubSeq(m.caveats, i + 1, Len(m.caveats)) \in Seq(Element)
    BY <1>1, <2>1, SubSeqProperties
  <2>4. Without(m.caveats, i) \in Seq(Element)
    BY <2>2, <2>3, ConcatProperties, Zenon DEF Without
  <2> QED
    BY <1>2, <2>4, Zenon DEF Handle
<1>3. ASSUME NEW i \in 1..(Len(m.caveats) - 1),
             e = [m EXCEPT !.caveats[i] = m.caveats[i + 1],
                           !.caveats[i + 1] = m.caveats[i]]
      PROVE  e \in Handle /\ e.signature = m.signature
  <2>1. i \in 1..Len(m.caveats) /\ i + 1 \in 1..Len(m.caveats)
    BY <1>1
  <2>2. m.caveats[i] \in Element /\ m.caveats[i + 1] \in Element
    BY <1>1, <2>1
  <2> DEFINE a == [m.caveats EXCEPT ![i] = m.caveats[i + 1]]
             b == [a EXCEPT ![i + 1] = m.caveats[i]]
  <2>3. a \in Seq(Element) /\ Len(a) = Len(m.caveats)
    BY <1>1, <2>1, <2>2, ExceptSeq
  <2>4. e = [m EXCEPT !.caveats = b]
    BY <1>3, ZenonT(30) DEF Handle
  <2> HIDE DEF a
  <2>5. b \in Seq(Element)
    BY <2>1, <2>2, <2>3, ExceptSeq, Zenon
  <2> HIDE DEF b
  <2> QED
    BY <2>4, <2>5, Zenon DEF Handle
<1>4. ASSUME NEW id \in Ids, e = [m EXCEPT !.identifier = id]
      PROVE  e \in Handle /\ e.signature = m.signature
  BY <1>4, Zenon DEF Handle
<1> QED
  BY <1>2, <1>3, <1>4, ZenonT(30) DEF Edited

LEMMA EditStep ==
    ASSUME NEW h \in Holders, MacInv, Edit(h)
    PROVE  MacInv'
<1>1. held[h] \in Handle /\ Typed /\ verify_signature(held[h])
  BY Zenon DEF MacInv, Typed, Edit
<1>2. PICK m \in Edited(held[h]) : Receive(h, m)
  BY Zenon DEF Edit
<1>3. m \in Handle /\ m.signature = held[h].signature /\ m # held[h]
  BY <1>1, EditedIs, Zenon
<1>4. ~verify_signature(m)
  <2> SUFFICES ASSUME verify_signature(m) PROVE FALSE
    BY Zenon
  <2>1. /\ chain(m.identifier, m.caveats) =
             chain(held[h].identifier, held[h].caveats)
        /\ m.identifier \in Ids /\ held[h].identifier \in Ids
        /\ m.caveats \in Seq(Element) /\ held[h].caveats \in Seq(Element)
    BY <1>1, <1>3, Zenon DEF verify_signature, Handle
  <2>2. m.identifier = held[h].identifier /\ m.caveats = held[h].caveats
    BY <2>1, ChainInjective
  <2> QED
    BY <2>2, <1>1, <1>3 DEF Handle
<1>5. /\ held'[h] = m
      /\ \A k \in Holders \ {h} : held'[k] = held[k]
      /\ held' \in [Holders -> Handle]
  BY <1>1, <1>2, <1>3, Received, HeldTyped, Zenon
<1>6. /\ genuine' = genuine \ {h}
      /\ UNCHANGED <<now, keys, writing, pending, made, discharges, minted>>
  BY Zenon DEF Edit, storeVars
<1>7. ASSUME NEW k \in Holders
      PROVE  Authentic(k)'
  <2>1. CASE k = h
    BY <2>1, <1>4, <1>5, <1>6, Zenon DEF Authentic, verify_signature
  <2>2. CASE k # h
    <3>1. Authentic(k)
      BY Zenon DEF MacInv
    <3> QED
      BY <2>2, <3>1, <1>5, <1>6, ZenonT(30)
         DEF Authentic, Continues, verify_signature
  <2> QED
    BY <2>1, <2>2, Zenon
<1>8. Typed'
  BY <1>1, <1>5, <1>6, Zenon DEF Typed
<1> QED
  BY <1>6, <1>7, <1>8, AwaitedKept, Zenon DEF MacInv, Bound

(***************************************************************************)
(* MacInv is inductive: every handle is the chain of its caveats or was    *)
(* edited.                                                                 *)
(***************************************************************************)
LEMMA MacInvariant == Spec => []MacInv
<1>1. MacInv /\ [Next]_vars => MacInv'
  <2> SUFFICES ASSUME MacInv, [Next]_vars PROVE MacInv'
    BY Zenon
  <2>1. CASE Tick
    <3>1. /\ now' \in Nat
          /\ UNCHANGED <<keys, writing, pending, made, held, discharges, minted,
                         genuine>>
      BY <2>1 DEF Tick, MacInv, Typed, storeVars
    <3> QED
      BY <3>1, AwaitedKept, ZenonT(30)
         DEF MacInv, Typed, Authentic, Continues, verify_signature, Bound
  <2>2. CASE UNCHANGED vars
    BY <2>2, AwaitedKept, ZenonT(30)
       DEF vars, MacInv, Typed, Authentic, Continues, verify_signature, Bound
  <2> QED
    BY <2>1, <2>2, PassStep, AddStep, AttenuateStep, AttenuatedStep, GiveUpStep,
       ReadStep, WriteBackStep, MintStep, EditStep, Zenon DEF Next
<1> QED
  BY <1>1, MacInit, PTL DEF Spec

-----------------------------------------------------------------------------
(***************************************************************************)
(* "nobody can REMOVE them" (macaroon_caveats.rs:4-5), for any handles and *)
(* holders: what unwrap accepts, nobody edited, and it begins with the     *)
(* caveats that it was minted with.                                        *)
(***************************************************************************)
THEOREM NobodyCanRemove == Spec => []NobodyRemoves
<1>1. ASSUME MacInv, NEW h \in Holders, NEW context \in Contexts,
             Accepted(held[h], context, Presentable)
      PROVE  /\ h \in genuine
             /\ Begins(mint(held[h].identifier,
                            minted[held[h].identifier]).caveats,
                       held[h].caveats)
  <2> DEFINE t == encoded(minted[held[h].identifier])
  <2>1. h \in genuine /\ Continues(held[h])
    BY <1>1, Zenon DEF MacInv, Authentic, Accepted, verify
  <2>2. t \in Seq(Element) /\ Len(t) \in Nat
    BY <1>1, EncodedTyped DEF MacInv, Typed, Handle
  <2>3. PICK rest \in Seq(Element) : held[h].caveats = t \o rest
    BY <2>1, Zenon DEF Continues
  <2>4. mint(held[h].identifier, minted[held[h].identifier]).caveats = t
    BY Zenon DEF mint
  <2> HIDE DEF t
  <2>5. Len(t) <= Len(t \o rest)
    <3>1. Len(t \o rest) = Len(t) + Len(rest) /\ Len(rest) \in Nat
      BY <2>2, ConcatProperties
    <3> QED
      BY <2>2, <3>1
  <2>6. SubSeq(t, 1, Len(t)) = SubSeq(t \o rest, 1, Len(t))
    <3>1. CASE Len(t) = 0
      BY <3>1, SubSeqEmpty
    <3>2. CASE Len(t) # 0
      <4>1. Len(t) \in 1..Len(t)
        BY <3>2, <2>2
      <4> QED
        BY <4>1, <2>2, PrefixOfConcat, Zenon
    <3> QED
      BY <3>1, <3>2, Zenon
  <2>7. SubSeq(t, 1, Len(t)) = t
    BY <2>2, SubSeqFull, Zenon
  <2> QED
    BY <2>1, <2>3, <2>4, <2>5, <2>6, <2>7, Zenon DEF Begins
<1>2. MacInv => NobodyRemoves
  BY <1>1, Zenon DEF NobodyRemoves
<1> QED
  BY <1>2, MacInvariant, PTL

(***************************************************************************)
(* Monotonic attenuation (macaroon_caveats.rs:163-167, 185-204), for any   *)
(* handles, texts, discharges and contexts.                                *)
(***************************************************************************)
THEOREM AddingAlwaysNarrows == Spec => []AddingNarrows
<1>1. \A c \in UNION {Range(cs) : cs \in MoreCaveats} : c \in Caveat
  BY MacaroonAssumption DEF Range
<1>2. {encode(c) : c \in UNION {Range(cs) : cs \in MoreCaveats}}
        \cup ForeignTexts \subseteq Element
  BY <1>1, Zenon DEF Element
<1>3. MacInv => AddingNarrows
  <2> SUFFICES ASSUME MacInv, NEW h \in Holders, NEW context \in Contexts,
                      NEW text \in {encode(c) : c \in
                                     UNION {Range(cs) : cs \in MoreCaveats}}
                                    \cup ForeignTexts,
                      Accepted(add_text(held[h], text), context, Presentable)
               PROVE  Accepted(held[h], context, Presentable)
    BY Zenon DEF AddingNarrows
  <2>1. held[h] \in Handle
    BY Zenon DEF MacInv, Typed
  <2>2. text \in Element
    BY <1>2, Zenon
  <2> QED
    BY <2>1, <2>2, NarrowsOne, Zenon
<1> QED
  BY <1>3, MacInvariant, PTL

(***************************************************************************)
(* Soundness of the verifier (macaroon_caveats.rs:185-204, 357-380,        *)
(* 579-617), for any handles, caveats, third parties and expiries that     *)
(* discharges are presented with: an accepted handle has every caveat met, *)
(* a third party caveat by a discharge that was minted for this handle up  *)
(* to this caveat, and that still lives if all are presented as issued.    *)
(***************************************************************************)
LEMMA PresentedIs ==
    ASSUME MacInv, NEW w \in Presentable
    PROVE  \E d \in discharges :
              /\ w.binding = d.wire.binding
              /\ w.discharge_signature = d.wire.discharge_signature
<1>1. CASE w \in Issued
  BY <1>1, Zenon DEF Issued
<1>2. CASE \E u \in Issued, s \in Timestamps : w = [u EXCEPT !.seconds = s]
  <2>1. PICK u \in Issued, s \in Timestamps : w = [u EXCEPT !.seconds = s]
    BY <1>2, Zenon
  <2>2. PICK d \in discharges : u = d.wire
    BY Zenon DEF Issued
  <2>3. {"discharge_signature", "binding"} \subseteq DOMAIN u
    BY <2>2, Zenon DEF MacInv, Bound
  <2>4. w.binding = u.binding /\ w.discharge_signature = u.discharge_signature
    BY <2>1, <2>3, Zenon
  <2> QED
    BY <2>2, <2>4, Zenon
<1> QED
  BY <1>1, <1>2 DEF Presentable

LEMMA IssuedLives ==
    ASSUME MacInv, NEW d \in discharges
    PROVE  /\ deserialize_discharge(d.wire).expires_at =
                 d.wire.seconds * TicksPerSecond
           /\ deserialize_discharge(d.wire).expires_at # None
           /\ d.wire.seconds * TicksPerSecond \in Int
<1>1. d.wire.seconds \in 0..MaxTimestamp
  BY Zenon DEF MacInv, Bound
<1>2. /\ d.wire.seconds \in -MaxTimestamp..MaxTimestamp
      /\ d.wire.seconds # None
      /\ d.wire.seconds * TicksPerSecond \in Int
  BY <1>1, MacaroonAssumption
<1>3. d.wire.seconds * TicksPerSecond # None
  BY <1>2, MacaroonAssumption, Zenon
<1>4. deserialize_discharge(d.wire).expires_at = d.wire.seconds * TicksPerSecond
  BY <1>2, Zenon DEF deserialize_discharge, from_timestamp
<1> QED
  BY <1>2, <1>3, <1>4, Zenon

LEMMA DischargedBy ==
    ASSUME MacInv, NEW m \in Handle, NEW i \in DOMAIN m.caveats, NEW context,
           NEW wires, wires \subseteq Presentable, NEW location, NEW key_id,
           Discharged(Verifier(m.identifier, context, wires), location, key_id,
                      caveat_signature(m, i))
    PROVE  \E d \in discharges : /\ d.id = m.identifier
                                 /\ d.upTo = SubSeq(m.caveats, 1, i)
                                 /\ wires = Issued => now <= d.until
<1> DEFINE primary == caveat_signature(m, i)
<1>1. m.caveats \in Seq(Element) /\ m.identifier \in Ids /\ now \in Nat
  BY Zenon DEF MacInv, Typed, Handle
<1>2. SubSeq(m.caveats, 1, i) \in Seq(Element)
  BY <1>1, PrefixTyped, Zenon
<1>3. PICK w \in wires :
         /\ deserialize_discharge(w).expires_at # None =>
               now <= deserialize_discharge(w).expires_at
         /\ deserialize_discharge(w).binding =
               hmac_compute(primary, deserialize_discharge(w).discharge_signature)
  BY ZenonT(30) DEF Discharged, verify_discharge, Verifier
<1>4. w.binding = hmac_compute(primary, w.discharge_signature)
  BY <1>3, Zenon DEF deserialize_discharge
<1>5. PICK d \in discharges : /\ w.binding = d.wire.binding
                              /\ w.discharge_signature = d.wire.discharge_signature
                              /\ wires = Issued => w = d.wire
  <2>1. CASE wires = Issued
    BY <2>1, Zenon DEF Issued
  <2>2. CASE wires # Issued
    BY <2>2, PresentedIs, Zenon
  <2> QED
    BY <2>1, <2>2, Zenon
<1>6. Bound(d)
  BY Zenon DEF MacInv
<1>7. Append(chain(d.id, d.upTo), d.wire.discharge_signature) =
        Append(chain(m.identifier, SubSeq(m.caveats, 1, i)),
               d.wire.discharge_signature)
  BY <1>4, <1>5, <1>6, Zenon DEF Bound, hmac_compute, caveat_signature
<1>8. d.id \in Ids /\ d.upTo \in Seq(Element)
  BY <1>6, Zenon DEF Bound
<1>9. d.id = m.identifier /\ d.upTo = SubSeq(m.caveats, 1, i)
  <2> DEFINE id == m.identifier
             t == SubSeq(m.caveats, 1, i)
  <2>1. id \in Ids /\ t \in Seq(Element)
    BY <1>1, <1>2, Zenon
  <2>2. Append(chain(d.id, d.upTo), d.wire.discharge_signature) =
          Append(chain(id, t), d.wire.discharge_signature)
    BY <1>7, Zenon
  <2> HIDE DEF id, t
  <2>3. chain(d.id, d.upTo) \in Seq(Element) /\ chain(id, t) \in Seq(Element)
    BY <1>8, <2>1, ChainIs, ZenonT(30)
  <2>4. chain(d.id, d.upTo) = chain(id, t)
    BY <2>2, <2>3, AppendEqual
  <2>5. d.id = id /\ d.upTo = t
    BY <1>8, <2>1, <2>4, ChainInjective, Zenon
  <2> QED
    BY <2>5, Zenon DEF id, t
<1>10. ASSUME wires = Issued PROVE now <= d.until
  <2>1. now <= d.wire.seconds * TicksPerSecond
        /\ d.wire.seconds * TicksPerSecond \in Int
    BY <1>3, <1>5, <1>10, IssuedLives, Zenon
  <2>2. d.wire.seconds * TicksPerSecond <= d.until /\ d.until \in Nat
    BY <1>6, Zenon DEF Bound
  <2> QED
    BY <1>1, <2>1, <2>2
<1> QED
  BY <1>9, <1>10, Zenon

THEOREM AcceptedIsAlwaysMet == Spec => []AcceptedIsMet
<1>1. ASSUME MacInv, NEW h \in Holders, NEW context \in Contexts,
             NEW wires, wires \subseteq Presentable, NEW t,
             t = 0 \/ (t = now /\ wires = Issued),
             Accepted(held[h], context, wires), NEW i \in DOMAIN held[h].caveats
      PROVE  Parses(held[h].caveats[i]) /\ Met(held[h], i, context, t)
  <2> DEFINE m == held[h]
             c == parse(m.caveats[i])
             v == Verifier(m.identifier, context, wires)
             primary == caveat_signature(m, i)
  <2>1. m \in Handle
    BY <1>1, Zenon DEF MacInv, Typed
  <2>2. Parses(m.caveats[i]) /\ check(v, c, primary)
    BY <1>1, Zenon DEF Accepted, verify
  <2>3. v.now = now /\ v.context = context
    BY Zenon DEF Verifier
  <2>4. ASSUME c.type = "ThirdParty"
        PROVE  \E d \in discharges : /\ d.id = m.identifier
                                     /\ d.upTo = SubSeq(m.caveats, 1, i)
                                     /\ t <= d.until
    <3>1. Discharged(v, c.value[1], c.value[2], primary)
      BY <2>2, <2>4, ZenonT(30) DEF check
    <3>2. PICK d \in discharges : /\ d.id = m.identifier
                                  /\ d.upTo = SubSeq(m.caveats, 1, i)
                                  /\ wires = Issued => now <= d.until
      BY <1>1, <2>1, <3>1, DischargedBy, ZenonT(30)
    <3>3. d.until \in Nat
      BY <1>1, Zenon DEF MacInv, Bound
    <3>4. t <= d.until
      BY <1>1, <3>2, <3>3
    <3> QED
      BY <3>2, <3>4, Zenon
  <2>5. /\ c.type \in FirstParty => context[c.type] = c.value[1]
        /\ c.type = "Expires" => now <= c.value[1]
    BY <2>2, <2>3, ZenonT(30) DEF check
  <2>6. c.type \in FirstParty \cup {"Expires", "MaxUses", "ThirdParty"}
    <3>1. DOMAIN CaveatKey = FirstParty \cup {"Expires", "MaxUses", "ThirdParty"}
      BY Zenon DEF CaveatKey, FirstParty
    <3>2. PICK type \in DOMAIN CaveatKey : CaveatKey[type] = m.caveats[i].key
      BY <2>2, Zenon DEF Parses
    <3>3. (CHOOSE x \in DOMAIN CaveatKey : CaveatKey[x] = m.caveats[i].key)
            \in DOMAIN CaveatKey
      BY <3>2, Zenon
    <3> QED
      BY <3>1, <3>3, Zenon DEF parse
  <2> HIDE DEF c
  <2>7. Met(m, i, context, t)
    BY <2>4, <2>5, <2>6, ZenonT(30) DEF Met, c, FirstParty
  <2> QED
    BY <2>2, <2>7, Zenon
<1>2. Issued \subseteq Presentable
  BY DEF Presentable
<1>3. ASSUME MacInv, NEW h \in Holders, NEW context \in Contexts,
             Accepted(held[h], context, Presentable)
      PROVE  AllMet(held[h], context, 0)
  BY <1>1, <1>3, Zenon DEF AllMet
<1>4. ASSUME MacInv, NEW h \in Holders, NEW context \in Contexts,
             Accepted(held[h], context, Issued)
      PROVE  AllMet(held[h], context, now)
  BY <1>1, <1>2, <1>4, Zenon DEF AllMet
<1>5. MacInv => AcceptedIsMet
  BY <1>3, <1>4, Zenon DEF AcceptedIsMet
<1> QED
  BY <1>5, MacInvariant, PTL

-----------------------------------------------------------------------------
(***************************************************************************)
(* What makes the verifier complete: the keys made for a record are        *)
(* numbered in the order in which they were made, whatever the record, or  *)
(* a task that will write it, has is one of them, and a discharge was      *)
(* minted with one of them, for the last of the caveats that it is bound   *)
(* to.                                                                     *)
(***************************************************************************)
Numbered == \A id \in Ids : \A n \in DOMAIN made[id] : made[id][n].key_id = n

Known(id, ks) == Range(ks) \subseteq Range(made[id])

KnownTo(h) ==
    pending[h] # None => Known(pending[h].handle.identifier, pending[h].keys)

MintedWith(d, entry) ==
    /\ parse(d.upTo[Len(d.upTo)]) =
          [type |-> "ThirdParty", value |-> <<entry.location, entry.key_id>>]
    /\ d.wire.location = entry.location
    /\ d.wire.condition = entry.condition
    /\ d.wire.discharge_signature = hmac_compute(entry.key, entry.condition)
    /\ d.until < d.wire.seconds * TicksPerSecond + TicksPerSecond

Keyed(d) == \E n \in DOMAIN made[d.id] : MintedWith(d, made[d.id][n])

KeyInv ==
    /\ Numbered
    /\ \A id \in Ids : Known(id, keys[id])
    /\ \A w \in writing : Known(w.id, w.keys)
    /\ \A h \in Holders : KnownTo(h)
    /\ \A d \in discharges : Keyed(d)

LEMMA KeptKeyed ==
    ASSUME KeyInv, UNCHANGED <<made, discharges>>,
           \A id \in Ids : Known(id, keys[id])',
           \A w \in writing' : Known(w.id, w.keys)',
           \A h \in Holders : KnownTo(h)'
    PROVE  KeyInv'
<1>1. Numbered'
  BY Zenon DEF KeyInv, Numbered
<1>2. \A d \in discharges' : Keyed(d)'
  BY Zenon DEF KeyInv, Keyed, MintedWith
<1> QED
  BY <1>1, <1>2, Zenon DEF KeyInv

LEMMA SameKeyed ==
    ASSUME KeyInv, UNCHANGED <<keys, writing, pending, made, discharges>>
    PROVE  KeyInv'
<1>1. \A id \in Ids : Known(id, keys[id])'
  BY Zenon DEF KeyInv, Known
<1>2. \A w \in writing' : Known(w.id, w.keys)'
  BY Zenon DEF KeyInv, Known
<1>3. \A h \in Holders : KnownTo(h)'
  BY Zenon DEF KeyInv, KnownTo, Known
<1> QED
  BY <1>1, <1>2, <1>3, KeptKeyed, Zenon

LEMMA MintKeyed ==
    ASSUME MacInv, KeyInv, NEW h \in Holders, MintDischarge(h)
    PROVE  KeyInv'
<1>1. held[h] \in Handle /\ Typed /\ held[h].identifier \in Ids
  BY Zenon DEF MacInv, Typed, Handle
<1>2. PICK i \in DOMAIN held[h].caveats,
           entry \in Range(keys[held[h].identifier]) :
         /\ BindsAt(held[h], entry.location, entry.key_id, i)
         /\ discharges' = discharges \cup {Minted(held[h], entry, i)}
  BY Zenon DEF MintDischarge, discharge_keys_for_record
<1>3. UNCHANGED <<keys, writing, pending, made>>
  BY Zenon DEF MintDischarge, storeVars
<1> DEFINE d == Minted(held[h], entry, i)
           x == now + DischargeTtl
<1>4. held[h].caveats \in Seq(Element) /\ i \in 1..Len(held[h].caveats)
  BY <1>1 DEF Handle
<1>5. /\ Len(SubSeq(held[h].caveats, 1, i)) = i
      /\ SubSeq(held[h].caveats, 1, i)[i] = held[h].caveats[i]
  BY <1>4, SubSeqProperties
<1>6. MintedAs(d, held[h], entry, i, x)
  BY <1>1, MintedIs, Zenon
<1> HIDE DEF d, x
<1>7. d.until < d.wire.seconds * TicksPerSecond + TicksPerSecond
  <2>1. d.until = x /\ x \in Nat /\ d.wire.seconds = x \div TicksPerSecond
    BY <1>6, Zenon DEF MintedAs
  <2>2. x < (x \div TicksPerSecond) * TicksPerSecond + TicksPerSecond
    BY <2>1, WholeSeconds
  <2> QED
    BY <2>1, <2>2, Zenon
<1>8. parse(held[h].caveats[i]) =
        [type |-> "ThirdParty", value |-> <<entry.location, entry.key_id>>]
  BY <1>2, Zenon DEF BindsAt, Matching
<1>9. MintedWith(d, entry) /\ d.id = held[h].identifier
  BY <1>5, <1>6, <1>7, <1>8, Zenon DEF MintedWith, MintedAs
<1>10. PICK j \in DOMAIN made[held[h].identifier] :
          entry = made[held[h].identifier][j]
  <2>1. Known(held[h].identifier, keys[held[h].identifier])
    BY <1>1, Zenon DEF KeyInv
  <2> QED
    BY <1>2, <2>1, Zenon DEF Known, Range
<1>11. Keyed(d)
  BY <1>9, <1>10, Zenon DEF Keyed
<1>12. \A e \in discharges' : Keyed(e)
  BY <1>2, <1>11, Zenon DEF KeyInv, d
<1>13. \A e \in discharges' : Keyed(e)'
  BY <1>3, <1>12, Zenon DEF Keyed, MintedWith
<1>14. Numbered' /\ \A id \in Ids : Known(id, keys[id])'
  BY <1>3, Zenon DEF KeyInv, Numbered, Known
<1>15. \A w \in writing' : Known(w.id, w.keys)'
  BY <1>3, Zenon DEF KeyInv, Known
<1>16. \A k \in Holders : KnownTo(k)'
  BY <1>3, Zenon DEF KeyInv, KnownTo, Known
<1> QED
  BY <1>13, <1>14, <1>15, <1>16, Zenon DEF KeyInv

(***************************************************************************)
(* What is in a sequence, or a function, is in one that extends it.        *)
(***************************************************************************)
LEMMA Extended ==
    ASSUME NEW f, NEW g,
           \A j \in DOMAIN f : j \in DOMAIN g /\ g[j] = f[j]
    PROVE  Range(f) \subseteq Range(g)
<1>1. ASSUME NEW e \in Range(f)
      PROVE  e \in Range(g)
  <2>1. PICK j \in DOMAIN f : e = f[j]
    BY <1>1, Zenon DEF Range
  <2>2. j \in DOMAIN g /\ g[j] = e
    BY <2>1, Zenon
  <2> QED
    BY <2>2, Zenon DEF Range
<1> QED
  BY <1>1, Zenon

(***************************************************************************)
(* An attenuation appends a key with the next number to the keys made.     *)
(***************************************************************************)
LEMMA KeyMade ==
    ASSUME Typed, NEW id \in Ids, NEW entry, entry.key_id = Len(made[id]) + 1,
           Numbered, made' = [made EXCEPT ![id] = Append(@, entry)]
    PROVE  /\ Numbered'
           /\ entry \in Range(made'[id])
           /\ \A k \in Ids : \A j \in DOMAIN made[k] :
                 j \in DOMAIN made'[k] /\ made'[k][j] = made[k][j]
           /\ \A k \in Ids : Range(made[k]) \subseteq Range(made'[k])
<1>1. made \in [Ids -> Seq(KeyEntry)] /\ made[id] \in Seq(KeyEntry)
  BY Zenon DEF Typed
<1>2. made'[id] = Append(made[id], entry)
      /\ \A k \in Ids : k # id => made'[k] = made[k]
  BY <1>1, Zenon
<1>3. /\ DOMAIN made[id] = 1..Len(made[id]) /\ Len(made[id]) \in Nat
      /\ DOMAIN made'[id] = 1..(Len(made[id]) + 1)
      /\ \A n \in 1..Len(made[id]) : made'[id][n] = made[id][n]
      /\ made'[id][Len(made[id]) + 1] = entry
  <2> DEFINE s == made[id]
  <2>1. s \in Seq(KeyEntry \cup {entry}) /\ entry \in KeyEntry \cup {entry}
    BY <1>1, SeqMonotonic, Zenon
  <2> HIDE DEF s
  <2>2. /\ Append(s, entry) \in Seq(KeyEntry \cup {entry})
        /\ Len(Append(s, entry)) = Len(s) + 1 /\ Len(s) \in Nat
        /\ \A n \in 1..Len(s) : Append(s, entry)[n] = s[n]
        /\ Append(s, entry)[Len(s) + 1] = entry
    BY <2>1, AppendProperties
  <2>3. DOMAIN s = 1..Len(s) /\ DOMAIN Append(s, entry) = 1..(Len(s) + 1)
    BY <2>1, <2>2
  <2> QED
    BY <1>2, <2>2, <2>3, Zenon DEF s
<1>4. ASSUME NEW n \in DOMAIN made'[id]
      PROVE  made'[id][n].key_id = n
  BY <1>3, <1>4 DEF Numbered
<1>5. Numbered'
  BY <1>2, <1>4, Zenon DEF Numbered
<1>6. Len(made[id]) + 1 \in DOMAIN made'[id]
      /\ \A j \in DOMAIN made[id] : j \in DOMAIN made'[id]
  BY <1>3
<1>7. \A k \in Ids : \A j \in DOMAIN made[k] :
         j \in DOMAIN made'[k] /\ made'[k][j] = made[k][j]
  BY <1>2, <1>3, <1>6, Zenon
<1>8. ASSUME NEW k \in Ids
      PROVE  Range(made[k]) \subseteq Range(made'[k])
  <2>1. \A j \in DOMAIN made[k] : j \in DOMAIN made'[k] /\ made'[k][j] = made[k][j]
    BY <1>7, Zenon
  <2> QED
    BY ONLY <2>1, Extended, Zenon
<1>9. entry \in Range(made'[id])
  BY <1>3, <1>6, Zenon DEF Range
<1> QED
  BY <1>5, <1>7, <1>8, <1>9, Zenon

LEMMA Appended ==
    ASSUME NEW ks \in Seq(KeyEntry), NEW entry
    PROVE  Range(Append(ks, entry)) \subseteq Range(ks) \cup {entry}
<1>1. ks \in Seq(KeyEntry \cup {entry}) /\ entry \in KeyEntry \cup {entry}
  BY SeqMonotonic, Zenon
<1>2. /\ Append(ks, entry) \in Seq(KeyEntry \cup {entry})
      /\ Len(Append(ks, entry)) = Len(ks) + 1 /\ Len(ks) \in Nat
      /\ \A j \in 1..Len(ks) : Append(ks, entry)[j] = ks[j]
      /\ Append(ks, entry)[Len(ks) + 1] = entry
  BY <1>1, AppendProperties
<1>3. /\ DOMAIN ks = 1..Len(ks)
      /\ \A n \in DOMAIN Append(ks, entry) : n \in 1..Len(ks) \/ n = Len(ks) + 1
  BY <1>1, <1>2
<1> QED
  BY <1>2, <1>3, Zenon DEF Range

LEMMA AttenuateKeyed ==
    ASSUME MacInv, KeyInv, NEW h \in Holders, NEW first, NEW third,
           Attenuate(h, first, third)
    PROVE  KeyInv'
<1> DEFINE id == held[h].identifier
           entry == FreshKey(id, third)
<1>1. /\ Typed /\ held[h] \in Handle /\ id \in Ids /\ discharges' = discharges
      /\ \A d \in discharges : d.id \in Ids
  BY Zenon DEF MacInv, Typed, Handle, Attenuate, Bound
<1>2. CASE third = None
  <2>1. UNCHANGED <<keys, writing, pending, made, discharges>>
    BY <1>1, <1>2, Zenon DEF Attenuate, storeVars
  <2> QED
    BY <2>1, SameKeyed, Zenon
<1>3. CASE third # None
  <2> DEFINE full == add_caveat(add_caveats(held[h], first),
                                [type |-> "ThirdParty",
                                 value |-> <<third[1], entry.key_id>>])
             p == [handle |-> full, keys |-> Append(keys[id], entry)]
  <2>1. /\ made' = [made EXCEPT ![id] = Append(@, entry)]
        /\ pending' = [pending EXCEPT ![h] = p]
        /\ UNCHANGED <<keys, writing>>
    BY <1>3, Zenon DEF Attenuate
  <2>2. full.identifier = id
    BY <1>1, ZenonT(30) DEF add_caveat, add_text, add_caveats, Handle
  <2>3. entry.key_id = Len(made[id]) + 1
    BY Zenon DEF FreshKey
  <2> HIDE DEF full, entry
  <2>4. p.handle.identifier = id /\ p.keys = Append(keys[id], entry)
    BY <2>2, Zenon
  <2> HIDE DEF p, id
  <2>5. /\ Numbered'
        /\ entry \in Range(made'[id])
        /\ \A k \in Ids : \A j \in DOMAIN made[k] :
              j \in DOMAIN made'[k] /\ made'[k][j] = made[k][j]
        /\ \A k \in Ids : Range(made[k]) \subseteq Range(made'[k])
    <3>1. Numbered
      BY Zenon DEF KeyInv
    <3> QED
      BY <1>1, <2>1, <2>3, <3>1, KeyMade, Zenon
  <2>6. ASSUME NEW k \in Ids, NEW ks, Known(k, ks)
        PROVE  Range(ks) \subseteq Range(made'[k])
    BY <2>5, <2>6, Zenon DEF Known
  <2>7. ASSUME NEW k \in Ids
        PROVE  Known(k, keys[k])'
    <3>1. Known(k, keys[k])
      BY Zenon DEF KeyInv
    <3> QED
      BY <2>1, <2>6, <3>1, Zenon DEF Known
  <2>8. ASSUME NEW w \in writing'
        PROVE  Known(w.id, w.keys)'
    <3>1. Known(w.id, w.keys) /\ w.id \in Ids
      BY <1>1, <2>1, <2>8, Zenon DEF KeyInv, Typed
    <3> QED
      BY <2>6, <3>1, Zenon DEF Known
  <2>9. ASSUME NEW k \in Holders
        PROVE  KnownTo(k)'
    <3>1. pending'[k] = IF k = h THEN p ELSE pending[k]
      BY <1>1, <2>1, Zenon DEF Typed
    <3>2. CASE k = h
      <4>1. keys[id] \in Seq(KeyEntry) /\ Known(id, keys[id])
        BY <1>1, Zenon DEF Typed, KeyInv
      <4>2. Range(p.keys) \subseteq Range(keys[id]) \cup {entry}
        BY <2>4, <4>1, Appended, Zenon
      <4>3. Range(p.keys) \subseteq Range(made'[id])
        BY <1>1, <2>5, <2>6, <4>1, <4>2, Zenon
      <4>4. pending'[k] = p
        BY <3>1, <3>2, Zenon
      <4> QED
        BY <2>4, <4>3, <4>4, Zenon DEF KnownTo, Known
    <3>3. CASE k # h /\ pending[k] # None
      <4>1. pending[k].handle.identifier \in Ids
        BY <3>3, PendingIs, Zenon
      <4>2. Known(pending[k].handle.identifier, pending[k].keys)
        BY <3>3, Zenon DEF KeyInv, KnownTo
      <4>3. Range(pending[k].keys) \subseteq
              Range(made'[pending[k].handle.identifier])
        BY <2>6, <4>1, <4>2, Zenon
      <4>4. pending'[k] = pending[k]
        BY <3>1, <3>3, Zenon
      <4> QED
        BY <4>3, <4>4, Zenon DEF KnownTo, Known
    <3>4. CASE k # h /\ pending[k] = None
      BY <3>1, <3>4, Zenon DEF KnownTo
    <3> QED
      BY <3>2, <3>3, <3>4, Zenon
  <2>10. ASSUME NEW d \in discharges
         PROVE  Keyed(d)'
    <3>1. PICK n \in DOMAIN made[d.id] : MintedWith(d, made[d.id][n])
      BY Zenon DEF KeyInv, Keyed
    <3>2. n \in DOMAIN made'[d.id] /\ made'[d.id][n] = made[d.id][n]
      BY <1>1, <2>5, Zenon
    <3> QED
      BY <3>1, <3>2, Zenon DEF Keyed, MintedWith
  <2> QED
    BY <1>1, <2>5, <2>7, <2>8, <2>9, <2>10, Zenon DEF KeyInv
<1> QED
  BY <1>2, <1>3, Zenon

(***************************************************************************)
(* The other operations on the store only move keys that were made.        *)
(***************************************************************************)
LEMMA AttenuatedKeyed ==
    ASSUME MacInv, KeyInv, NEW h \in Holders, Attenuated(h)
    PROVE  KeyInv'
<1> DEFINE id == pending[h].handle.identifier
<1>1. /\ pending[h] # None /\ Typed
      /\ keys' = [keys EXCEPT ![id] = pending[h].keys]
      /\ pending' = [pending EXCEPT ![h] = None]
      /\ UNCHANGED <<writing, discharges, made>>
  BY Zenon DEF Attenuated, MacInv
<1>2. Known(id, pending[h].keys)
  <2>1. KnownTo(h)
    BY Zenon DEF KeyInv
  <2> QED
    BY <1>1, <2>1, Zenon DEF KnownTo
<1> HIDE DEF id
<1>3. \A k \in Ids : Known(k, keys[k])'
  <2> SUFFICES ASSUME NEW k \in Ids PROVE Known(k, keys[k])'
    BY Zenon
  <2>1. keys'[k] = IF k = id THEN pending[h].keys ELSE keys[k]
    BY <1>1, Zenon DEF Typed
  <2>2. Known(k, keys[k])
    BY Zenon DEF KeyInv
  <2> QED
    BY <1>1, <1>2, <2>1, <2>2, Zenon DEF Known
<1>4. \A k \in Holders : KnownTo(k)'
  <2> SUFFICES ASSUME NEW k \in Holders PROVE KnownTo(k)'
    BY Zenon
  <2>1. pending'[k] = IF k = h THEN None ELSE pending[k]
    BY <1>1, Zenon DEF Typed
  <2>2. KnownTo(k)
    BY Zenon DEF KeyInv
  <2> QED
    BY <1>1, <2>1, <2>2, Zenon DEF KnownTo, Known
<1>5. \A u \in writing' : Known(u.id, u.keys)'
  BY <1>1, Zenon DEF KeyInv, Known
<1> QED
  BY <1>1, <1>3, <1>4, <1>5, KeptKeyed, Zenon

LEMMA GiveUpKeyed ==
    ASSUME MacInv, KeyInv, NEW h \in Holders, GiveUp(h)
    PROVE  KeyInv'
<1> DEFINE w == [id |-> pending[h].handle.identifier, keys |-> pending[h].keys]
<1>1. /\ pending[h] # None /\ Typed
      /\ writing' = writing \cup {w}
      /\ pending' = [pending EXCEPT ![h] = None]
      /\ UNCHANGED <<keys, discharges, made>>
  BY Zenon DEF GiveUp, MacInv
<1>2. Known(w.id, w.keys)
  <2>1. KnownTo(h)
    BY Zenon DEF KeyInv
  <2> QED
    BY <1>1, <2>1, Zenon DEF KnownTo
<1> HIDE DEF w
<1>3. \A u \in writing' : Known(u.id, u.keys)'
  <2>1. \A u \in writing : Known(u.id, u.keys)
    BY Zenon DEF KeyInv
  <2> QED
    BY <1>1, <1>2, <2>1, Zenon DEF Known
<1>4. \A k \in Holders : KnownTo(k)'
  <2> SUFFICES ASSUME NEW k \in Holders PROVE KnownTo(k)'
    BY Zenon
  <2>1. pending'[k] = IF k = h THEN None ELSE pending[k]
    BY <1>1, Zenon DEF Typed
  <2>2. KnownTo(k)
    BY Zenon DEF KeyInv
  <2> QED
    BY <1>1, <2>1, <2>2, Zenon DEF KnownTo, Known
<1>5. \A k \in Ids : Known(k, keys[k])'
  BY <1>1, Zenon DEF KeyInv, Known
<1> QED
  BY <1>1, <1>3, <1>4, <1>5, KeptKeyed, Zenon

LEMMA ReadKeyed ==
    ASSUME KeyInv, NEW id \in Ids, Read(id)
    PROVE  KeyInv'
<1> DEFINE w == [id |-> id, keys |-> keys[id]]
<1>1. writing' = writing \cup {w} /\ UNCHANGED <<keys, pending, discharges, made>>
  BY Zenon DEF Read
<1>2. Known(w.id, w.keys)
  BY Zenon DEF KeyInv
<1> HIDE DEF w
<1>3. \A u \in writing' : Known(u.id, u.keys)'
  <2>1. \A u \in writing : Known(u.id, u.keys)
    BY Zenon DEF KeyInv
  <2> QED
    BY <1>1, <1>2, <2>1, Zenon DEF Known
<1>4. \A k \in Holders : KnownTo(k)'
  BY <1>1, Zenon DEF KeyInv, KnownTo, Known
<1>5. \A k \in Ids : Known(k, keys[k])'
  BY <1>1, Zenon DEF KeyInv, Known
<1> QED
  BY <1>1, <1>3, <1>4, <1>5, KeptKeyed, Zenon

LEMMA WriteBackKeyed ==
    ASSUME MacInv, KeyInv, NEW w \in writing, WriteBack(w)
    PROVE  KeyInv'
<1>1. /\ Typed /\ keys' = [keys EXCEPT ![w.id] = w.keys]
      /\ writing' = writing \ {w}
      /\ UNCHANGED <<pending, discharges, made>>
  BY Zenon DEF WriteBack, MacInv
<1>2. Known(w.id, w.keys)
  BY Zenon DEF KeyInv
<1>3. \A k \in Ids : Known(k, keys[k])'
  <2> SUFFICES ASSUME NEW k \in Ids PROVE Known(k, keys[k])'
    BY Zenon
  <2>1. keys'[k] = IF k = w.id THEN w.keys ELSE keys[k]
    BY <1>1, Zenon DEF Typed
  <2>2. Known(k, keys[k])
    BY Zenon DEF KeyInv
  <2> QED
    BY <1>1, <1>2, <2>1, <2>2, Zenon DEF Known
<1>4. \A k \in Holders : KnownTo(k)'
  BY <1>1, Zenon DEF KeyInv, KnownTo, Known
<1>5. \A u \in writing' : Known(u.id, u.keys)'
  BY <1>1, Zenon DEF KeyInv, Known
<1> QED
  BY <1>1, <1>3, <1>4, <1>5, KeptKeyed, Zenon

(***************************************************************************)
(* KeyInv is inductive: the keys of the broker and the discharges agree.   *)
(***************************************************************************)
LEMMA KeyInvariant == Spec => [](MacInv /\ KeyInv)
<1>1. Init => KeyInv
  BY DEF Init, KeyInv, Numbered, Known, KnownTo
<1>2. ASSUME MacInv, KeyInv, [Next]_vars
      PROVE  KeyInv'
  <2>1. ASSUME UNCHANGED <<keys, writing, pending, made, discharges>>
        PROVE  KeyInv'
    BY <1>2, <2>1, SameKeyed, Zenon
  <2> QED
    BY <1>2, <2>1, MintKeyed, AttenuateKeyed, AttenuatedKeyed, GiveUpKeyed,
       ReadKeyed, WriteBackKeyed, Zenon
       DEF Next, Pass, Add, Edit, Tick, vars, storeVars
<1> QED
  BY <1>1, <1>2, MacInvariant, PTL DEF Spec

(***************************************************************************)
(* Completeness of the verifier (macaroon_caveats.rs:163-167, 206-236,     *)
(* 330-346), for any handles, caveats and third parties: a handle that     *)
(* nobody edited is accepted wherever its caveats are met, as long as the  *)
(* sealed record has kept their keys (sealed_store.rs:411); a discharge is *)
(* refused early only in the second in which it ends.                      *)
(***************************************************************************)
LEMMA KeyOfDischarge ==
    ASSUME MacInv, KeyInv, NEW id \in Ids, NEW n \in DOMAIN keys[id],
           NEW d \in discharges, d.id = id, NEW c,
           parse(d.upTo[Len(d.upTo)]) = c,
           KeyFits(keys[id][n], c.value[1], c.value[2])
    PROVE  MintedWith(d, keys[id][n])
<1>1. Known(id, keys[id]) /\ Keyed(d) /\ Numbered
  BY Zenon DEF KeyInv
<1>2. PICK j \in DOMAIN made[id] : keys[id][n] = made[id][j]
  BY <1>1, Zenon DEF Known, Range
<1>3. PICK k \in DOMAIN made[id] : MintedWith(d, made[id][k])
  BY <1>1, Zenon DEF Keyed
<1>4. made[id][j].key_id = j /\ made[id][k].key_id = k
  BY <1>1, Zenon DEF Numbered
<1>5. c = [type |-> "ThirdParty",
           value |-> <<made[id][k].location, made[id][k].key_id>>]
  BY <1>3, Zenon DEF MintedWith
<1>6. c.value[2] = made[id][k].key_id
  BY <1>5
<1>7. keys[id][n].key_id = c.value[2]
  BY Zenon DEF KeyFits
<1> QED
  BY <1>2, <1>3, <1>4, <1>6, <1>7, Zenon

THEOREM MetIsAlwaysAccepted == Spec => []MetIsAccepted
<1>1. ASSUME MacInv, KeyInv, NEW h \in genuine, NEW context \in Contexts,
             NEW i \in DOMAIN held[h].caveats, Parses(held[h].caveats[i]),
             Met(held[h], i, context, now + TicksPerSecond - 1),
             KeysThere(held[h], context)
      PROVE  check(Verifier(held[h].identifier, context, Issued),
                   parse(held[h].caveats[i]), caveat_signature(held[h], i))
  <2> DEFINE m == held[h]
             c == parse(m.caveats[i])
             v == Verifier(m.identifier, context, Issued)
             primary == caveat_signature(m, i)
  <2>1. /\ m.caveats \in Seq(Element) /\ m.identifier \in Ids
        /\ now \in Nat /\ keys \in [Ids -> Seq(KeyEntry)]
    BY <1>1, Zenon DEF MacInv, Typed, Handle
  <2>2. /\ v.now = now /\ v.context = context
        /\ v.discharges = {deserialize_discharge(w) : w \in Issued}
        /\ v.discharge_keys = keys[m.identifier]
    BY Zenon DEF Verifier, discharge_keys_for_record
  <2>3. /\ c.type \in FirstParty => context[c.type] = c.value[1]
        /\ c.type = "Expires" => now <= c.value[1]
    BY <1>1, ZenonT(30) DEF Met, FirstParty
  <2>4. ASSUME c.type = "ThirdParty"
        PROVE  Discharged(v, c.value[1], c.value[2], primary)
    <3>1. PICK d \in discharges :
             /\ d.id = m.identifier
             /\ d.upTo = SubSeq(m.caveats, 1, i)
             /\ now + TicksPerSecond - 1 <= d.until
      BY <1>1, <2>4, ZenonT(30) DEF Met, FirstParty
    <3>2. Bound(d)
      BY <1>1, Zenon DEF MacInv
    <3>3. PICK n \in DOMAIN keys[m.identifier] :
             FirstKey(Verifier(m.identifier, context, {}),
                      c.value[1], c.value[2], n)
      BY <1>1, <2>4, Zenon DEF KeysThere
    <3>4. /\ FirstKey(v, c.value[1], c.value[2], n)
          /\ KeyFits(keys[m.identifier][n], c.value[1], c.value[2])
      <4>1. Verifier(m.identifier, context, {}).discharge_keys =
              keys[m.identifier]
        BY Zenon DEF Verifier, discharge_keys_for_record
      <4> HIDE DEF v, c
      <4> QED
        BY <2>2, <3>3, <4>1, Zenon DEF FirstKey
    <3>5. i \in 1..Len(m.caveats)
      BY <2>1
    <3>6. /\ Len(SubSeq(m.caveats, 1, i)) = i
          /\ SubSeq(m.caveats, 1, i)[i] = m.caveats[i]
      BY <2>1, <3>5, SubSeqProperties
    <3>7. parse(d.upTo[Len(d.upTo)]) = c
      BY <3>1, <3>6, Zenon
    <3>8. PICK entry : entry = keys[m.identifier][n]
      BY Zenon
    <3> HIDE DEF c, v, primary, m
    <3>9. MintedWith(d, entry)
      BY <1>1, <2>1, <3>1, <3>4, <3>7, <3>8, KeyOfDischarge, Zenon
    <3>10. now <= d.wire.seconds * TicksPerSecond
      <4>1. d.until < d.wire.seconds * TicksPerSecond + TicksPerSecond
        BY <3>9, Zenon DEF MintedWith
      <4>2. d.until \in Nat /\ d.wire.seconds * TicksPerSecond \in Int
        BY <1>1, <3>2, IssuedLives, Zenon DEF Bound
      <4> QED
        BY <2>1, <3>1, <4>1, <4>2, MacaroonAssumption
    <3>11. PICK e : e = deserialize_discharge(d.wire)
      BY Zenon
    <3>12. /\ e.location = entry.location
           /\ e.condition = entry.condition
           /\ e.discharge_signature = hmac_compute(entry.key, entry.condition)
           /\ e.binding = hmac_compute(primary, e.discharge_signature)
           /\ now <= e.expires_at
      <4>1. /\ deserialize_discharge(d.wire).location = d.wire.location
            /\ deserialize_discharge(d.wire).condition = d.wire.condition
            /\ deserialize_discharge(d.wire).discharge_signature =
                 d.wire.discharge_signature
            /\ deserialize_discharge(d.wire).binding = d.wire.binding
        BY Zenon DEF deserialize_discharge
      <4>2. d.wire.binding = hmac_compute(primary, d.wire.discharge_signature)
        BY <3>1, <3>2, Zenon DEF Bound, caveat_signature, primary
      <4>3. now <= e.expires_at
        BY <1>1, <3>10, <3>11, IssuedLives, Zenon
      <4>4. /\ e.location = d.wire.location /\ e.condition = d.wire.condition
            /\ e.discharge_signature = d.wire.discharge_signature
            /\ e.binding = d.wire.binding
        BY <3>11, <4>1, Zenon
      <4>5. /\ d.wire.location = entry.location
            /\ d.wire.condition = entry.condition
            /\ d.wire.discharge_signature = hmac_compute(entry.key, entry.condition)
        BY <3>9, Zenon DEF MintedWith
      <4> QED
        BY <4>2, <4>3, <4>4, <4>5, Zenon
    <3>13. verify_discharge(e, entry.condition, entry.key, primary, v.now)
      BY <2>2, <3>12, Zenon DEF verify_discharge
    <3>14. e \in v.discharges /\ v.discharge_keys[n] = entry
           /\ n \in DOMAIN v.discharge_keys
      BY <2>2, <3>8, <3>11, Zenon DEF Issued
    <3>15. entry.location = c.value[1]
      BY <3>4, <3>8, Zenon DEF KeyFits
    <3> QED
      BY <3>4, <3>12, <3>13, <3>14, <3>15, ZenonT(30) DEF Discharged
  <2> HIDE DEF c, v, primary, m
  <2>5. check(v, c, primary)
    BY <2>2, <2>3, <2>4 DEF check, USE_COUNT
  <2> QED
    BY <2>5, Zenon DEF c, v, primary, m
<1>2. ASSUME MacInv, NEW h \in genuine
      PROVE  verify_signature(held[h])
  BY <1>2, Zenon DEF MacInv, Authentic, Typed
<1>3. MacInv /\ KeyInv => MetIsAccepted
  BY <1>1, <1>2, ZenonT(60) DEF MetIsAccepted, AllMet, Accepted, verify
<1> QED
  BY <1>3, KeyInvariant, PTL
=============================================================================
