-------------------------- MODULE SnowYears_proofs ---------------------------
(***************************************************************************)
(* The snow of the climate model's dump, over the years of a run.           *)
(* SnowAdjust: whatever the packs, areas and anomalies, packs are left in   *)
(* regular layers, the mass of the grid box changes by what was given and   *)
(* taken, and no snow moves within a pack that is divided again.            *)
(* SnowIceExchange: the mass of snow and ice is kept where one becomes the  *)
(* other, within the amounts the property names.                            *)
(* UmUpdate: what the suite does with the dump, for any number of years and *)
(* attempts and any mass balance.                                           *)
(***************************************************************************)
EXTENDS UmUpdate, SnowIceExchange, Finite_proofs

-------------------------------------------------------------------------------
(* Layers *)

\* What is assumed of the standard layers.
LEMMA Standards ==
  /\ nsmax \in Nat \ {0} /\ Len(dzsnow) = nsmax /\ 1 \in 1..nsmax
  /\ \A n \in 1..nsmax : dzsnow[n] \in Rationals /\ Less(Zero, dzsnow[n])
  /\ glimmer_ice_density \in Rationals /\ Less(Zero, glimmer_ice_density)
  /\ Zero \in Rationals
<1>1. Len(dzsnow) \in Nat \ {0} /\ \A n \in 1..Len(dzsnow) : dzsnow[n] \in Rationals
  BY LayerAssumption, EmptySeq, ElementOfSeq
<1> QED
  BY <1>1, LayerAssumption, ZeroIs DEF nsmax

\* The standard layers above a depth, one more at a time.
LEMMA AboveIs ==
  /\ Above(0) = Zero
  /\ \A n \in 0..nsmax : Above(n) \in Rationals
  /\ \A n \in 1..nsmax : Above(n) = Plus(Above(n - 1), dzsnow[n])
<1>1. /\ Len(dzsnow) \in Nat /\ nsmax = Len(dzsnow)
      /\ \A n \in 1..Len(dzsnow) : dzsnow[n] \in Rationals
  BY Standards
<1>2. \A n \in 0..nsmax : Above(n) = Totalling(dzsnow)[n]
  BY <1>1, TotalOfFirst DEF Above
<1>3. \A n \in 0..nsmax : Totalling(dzsnow)[n] \in Rationals
  BY <1>1, TotallingRational
<1>4. /\ Totalling(dzsnow)[0] = Zero
      /\ \A n \in 1..nsmax : Totalling(dzsnow)[n] = Plus(Totalling(dzsnow)[n - 1], dzsnow[n])
  BY <1>1, TotallingStep
<1>5. 0 \in 0..nsmax /\ \A n \in 1..nsmax : n \in 0..nsmax /\ n - 1 \in 0..nsmax
  BY <1>1
<1> QED
  BY <1>2, <1>3, <1>4, <1>5

\* The last layer is the first that need not be divided.
LEMMA LayerCountIs ==
  ASSUME NEW depth
  PROVE  LET last == LayerCount(depth)
         IN  /\ last \in 1..nsmax
             /\ last < nsmax => AtMost(Minus(depth, Above(last)), dzsnow[last])
             /\ \A n \in 1..(last - 1) : ~AtMost(Minus(depth, Above(n)), dzsnow[n])
<1> DEFINE Can == {n \in 1..nsmax : n = nsmax \/ AtMost(Minus(depth, Above(n)), dzsnow[n])}
<1>1. Can \in SUBSET Nat /\ nsmax \in Can
  BY Standards
<1>2. LayerCount(depth) = Min(Can)
  BY DEF LayerCount
<1>3. Min(Can) \in Can /\ \A n \in Can : Min(Can) <= n
  <2> HIDE DEF Can
  <2>1. \E n \in Can : \A m \in Can : n <= m
    BY <1>1, LeastOne
  <2> QED
    BY <2>1 DEF Min
<1> DEFINE last == LayerCount(depth)
<1>4. last \in Can /\ \A n \in Can : last <= n
  BY <1>2, <1>3
<1> HIDE DEF last
<1>5. last \in 1..nsmax /\ (last = nsmax \/ AtMost(Minus(depth, Above(last)), dzsnow[last]))
  BY <1>4
<1>6. ASSUME NEW n \in 1..(last - 1) PROVE ~AtMost(Minus(depth, Above(n)), dzsnow[n])
  <2>1. n \in 1..nsmax /\ n \notin Can
    BY <1>4, <1>5, Standards
  <2> QED
    BY <2>1
<1> QED
  BY <1>5, <1>6, Standards DEF last

\* A pack that is divided is in layers, if its first is thick enough, and as deep as before.
LEMMA DividedIs ==
  ASSUME NEW depth \in Rationals
  PROVE  LET last == LayerCount(depth)
             ds == Divided(depth)
         IN  /\ last \in 1..nsmax /\ ds \in [1..nsmax -> Rationals]
             /\ \A n \in 1..(last - 1) : ds[n] = dzsnow[n]
             /\ \A n \in (last + 1)..nsmax : ds[n] = Zero
             /\ last > 1 => Less(dzsnow[last - 1], ds[last])
             /\ last < nsmax => AtMost(ds[last], Times(Q(2), dzsnow[last]))
             /\ SeqTotal(ds) = depth
<1> DEFINE last == LayerCount(depth)
           ds == Divided(depth)
           rest == Minus(depth, Above(last - 1))
<1>1. /\ last \in 1..nsmax
      /\ last < nsmax => AtMost(Minus(depth, Above(last)), dzsnow[last])
      /\ \A n \in 1..(last - 1) : ~AtMost(Minus(depth, Above(n)), dzsnow[n])
  BY LayerCountIs
<1>2. ds = [n \in 1..nsmax |-> CASE n < last -> dzsnow[n] [] n = last -> rest [] OTHER -> Zero]
  BY DEF Divided
<1> HIDE DEF last, ds
<1>3. /\ last - 1 \in 0..nsmax /\ last \in 0..nsmax /\ nsmax \in Nat /\ last \in Nat
      /\ \A n \in 1..nsmax : n \in Int
  BY <1>1, Standards
<1>4. Above(last - 1) \in Rationals /\ Above(last) \in Rationals
  BY <1>3, AboveIs
<1>5. rest \in Rationals
  BY <1>4, PlusLaws
<1>6. /\ ds \in [1..nsmax -> Rationals]
      /\ \A n \in 1..(last - 1) : ds[n] = dzsnow[n]
      /\ ds[last] = rest
      /\ \A n \in (last + 1)..nsmax : ds[n] = Zero
  <2> HIDE DEF rest
  <2>1. ASSUME NEW n \in 1..nsmax PROVE ds[n] \in Rationals
    BY <1>2, <1>5, Standards
  <2>2. \A n \in 1..(last - 1) : ds[n] = dzsnow[n]
    BY <1>1, <1>2, <1>3
  <2>3. ds[last] = rest
    BY <1>1, <1>2, <1>3
  <2>4. \A n \in (last + 1)..nsmax : ds[n] = Zero
    BY <1>1, <1>2, <1>3
  <2> QED
    BY <1>2, <2>1, <2>2, <2>3, <2>4
<1>7. ASSUME last > 1 PROVE Less(dzsnow[last - 1], rest)
  <2>1. last - 1 \in 1..(last - 1) /\ last - 1 \in 1..nsmax
    BY <1>3, <1>7
  <2>2. ~AtMost(rest, dzsnow[last - 1])
    BY <1>1, <2>1
  <2>3. dzsnow[last - 1] \in Rationals
    BY <2>1, Standards
  <2> HIDE DEF rest
  <2> QED
    BY <1>5, <2>2, <2>3, OrderLaws
<1>8. ASSUME last < nsmax PROVE AtMost(rest, Times(Q(2), dzsnow[last]))
  <2> DEFINE dz == dzsnow[last]
  <2>1. dz \in Rationals /\ AtMost(Minus(depth, Above(last)), dz)
    BY <1>1, <1>8, Standards
  <2>2. Above(last) = Plus(Above(last - 1), dz)
    BY <1>1, AboveIs
  <2>3. Minus(depth, Above(last)) = Minus(rest, dz)
    <3>1. \A p, q, r \in Rationals : Minus(p, Plus(q, r)) = Minus(Minus(p, q), r)
      BY PlusLaws, SMTT(30)
    <3>2. dz \in Rationals
      BY <2>1
    <3> HIDE DEF dz
    <3>3. Minus(depth, Plus(Above(last - 1), dz)) = Minus(Minus(depth, Above(last - 1)), dz)
      BY <1>4, <3>1, <3>2
    <3> QED
      BY <2>2, <3>3 DEF dz
  <2>4. AtMost(rest, Plus(dz, dz))
    <3> HIDE DEF rest
    <3> QED
      BY <1>5, <2>1, <2>3, OrderLaws
  <2>5. Times(Q(2), dz) = Plus(dz, dz)
    BY <2>1, Twice
  <2> QED
    BY <2>4, <2>5
<1>9. SeqTotal(ds) = depth
  <2>1. Len(ds) = nsmax /\ ds \in Seq(Rationals)
    BY <1>3, <1>6, SeqDef, LenProperties
  <2>2. SeqTotal(ds) = Totalling(ds)[last]
    <3>1. \A n \in 1..nsmax : ds[n] \in Rationals
      BY <1>6
    <3> QED
      BY <1>3, <1>6, <2>1, <3>1, TotallingZeros
  <2>3. Totalling(ds)[last] = Plus(Totalling(ds)[last - 1], rest)
    BY <1>1, <1>3, <1>6, <2>1, TotallingStep, SMTT(40)
  <2>4. Totalling(ds)[last - 1] = Totalling(dzsnow)[last - 1]
    BY <1>3, <1>6, <2>1, Standards, TotallingAgrees
  <2>5. Totalling(dzsnow)[last - 1] = Above(last - 1)
    BY <1>3, Standards, TotalOfFirst DEF Above
  <2> QED
    BY <1>4, <2>2, <2>3, <2>4, <2>5, PlusLaws
<1> QED
  BY <1>1, <1>6, <1>7, <1>8, <1>9 DEF last, ds

-------------------------------------------------------------------------------
(* What the operations on packs keep *)

\* Layers as a division of a pack leaves them: the first may be too thin.
Layered(p) ==
  /\ \A n \in 1..(p.nsnow - 1) : p.ds[n] = dzsnow[n]
  /\ p.nsnow > 1 => AtMost(dzsnow[p.nsnow - 1], p.ds[p.nsnow])
  /\ p.nsnow < nsmax => AtMost(p.ds[p.nsnow], Times(Q(2), dzsnow[p.nsnow]))
  /\ \A n \in (p.nsnow + 1)..nsmax : p.ds[n] = Zero

Stacked(p) ==
  /\ DOMAIN p = {"nsnow", "ds", "mass", "snow_tile", "snowdepth"}
  /\ p.nsnow \in 0..nsmax /\ p.ds \in [1..nsmax -> Rationals] /\ p.snowdepth \in Rationals
  /\ p.nsnow > 0 => Layered(p)

\* A pack without layers is thinner than a layer.
Thin(p) == p.nsnow = 0 => Less(p.snowdepth, dzsnow[1])

\* The empty pack has no layers and no thickness.
LEMMA EmptyIs == Stacked(EmptyPack) /\ Thin(EmptyPack)
<1>1. Zero \in Rationals /\ 1 \in 1..nsmax /\ Less(Zero, dzsnow[1]) /\ nsmax \in Nat \ {0}
  BY Standards
<1> QED
  BY <1>1 DEF EmptyPack, NoLayers, Stacked, Thin

\* Packs that JULES leaves are packs.
LEMMA PackIs ==
  ASSUME NEW p \in Packs \union {IcePack}
  PROVE  Stacked(p) /\ Thin(p) /\ p \in Pack
<1>1. p \in Pack /\ IF p.nsnow = 0 THEN Less(p.snowdepth, dzsnow[1]) ELSE InLayers(p)
  BY SnowAssumption DEF Regular
<1>2. /\ DOMAIN p = {"nsnow", "ds", "mass", "snow_tile", "snowdepth"}
      /\ p.nsnow \in 0..nsmax /\ p.ds \in [1..nsmax -> Rationals] /\ p.snowdepth \in Rationals
  BY <1>1 DEF Pack
<1>3. ASSUME p.nsnow > 0 PROVE Layered(p)
  BY <1>1, <1>2, <1>3, Standards DEF InLayers, Layered
<1> QED
  BY <1>1, <1>2, <1>3 DEF Stacked, Thin

\* Any pack divided again.
LEMMA DividedAgain ==
  ASSUME NEW p, NEW q, NEW depth \in Rationals,
         DOMAIN p = {"nsnow", "ds", "mass", "snow_tile", "snowdepth"},
         DOMAIN q = DOMAIN p,
         q.nsnow = LayerCount(depth), q.ds = Divided(depth), q.snowdepth = depth
  PROVE  Stacked(q) /\ q.nsnow > 0 /\ Thin(q)
<1>1. /\ q.nsnow \in 1..nsmax /\ q.ds \in [1..nsmax -> Rationals]
      /\ \A n \in 1..(q.nsnow - 1) : q.ds[n] = dzsnow[n]
      /\ \A n \in (q.nsnow + 1)..nsmax : q.ds[n] = Zero
      /\ q.nsnow > 1 => Less(dzsnow[q.nsnow - 1], q.ds[q.nsnow])
      /\ q.nsnow < nsmax => AtMost(q.ds[q.nsnow], Times(Q(2), dzsnow[q.nsnow]))
  <2> DEFINE last == LayerCount(depth)
             ds == Divided(depth)
  <2>1. /\ last \in 1..nsmax /\ ds \in [1..nsmax -> Rationals]
        /\ \A n \in 1..(last - 1) : ds[n] = dzsnow[n]
        /\ \A n \in (last + 1)..nsmax : ds[n] = Zero
        /\ last > 1 => Less(dzsnow[last - 1], ds[last])
        /\ last < nsmax => AtMost(ds[last], Times(Q(2), dzsnow[last]))
    BY DividedIs, Zenon
  <2>2. q.nsnow = last /\ q.ds = ds
    OBVIOUS
  <2> HIDE DEF last, ds
  <2> QED
    BY <2>1, <2>2, Zenon
<1>2. ASSUME q.nsnow > 1 PROVE AtMost(dzsnow[q.nsnow - 1], q.ds[q.nsnow])
  <2>1. q.nsnow - 1 \in 1..nsmax /\ q.nsnow \in 1..nsmax
    BY <1>1, <1>2, Standards
  <2>2. dzsnow[q.nsnow - 1] \in Rationals /\ q.ds[q.nsnow] \in Rationals
    BY <1>1, <2>1, Standards
  <2> QED
    BY <1>1, <1>2, <2>2, OrderLaws
<1>3. q.nsnow > 0 /\ q.nsnow \in 0..nsmax
  BY <1>1, Standards
<1> QED
  BY <1>1, <1>2, <1>3 DEF Stacked, Layered, Thin

\* Dividing a pack again makes at least one layer, of standard thicknesses.
LEMMA WithLayersIs ==
  ASSUME NEW p, DOMAIN p = {"nsnow", "ds", "mass", "snow_tile", "snowdepth"},
         NEW d0 \in [1..nsmax -> Rationals], NEW s
  PROVE  LET q == WithLayers(p, d0, s)
         IN  Stacked(q) /\ q.nsnow > 0 /\ Thin(q)
<1> DEFINE q == WithLayers(p, d0, s)
<1>1. Len(d0) = nsmax /\ SeqTotal(d0) \in Rationals
  <2>1. nsmax \in Nat /\ d0 \in Seq(Rationals) /\ Len(d0) = nsmax
    BY Standards, SeqDef, LenProperties
  <2>2. \A n \in 1..nsmax : d0[n] \in Rationals
    OBVIOUS
  <2> QED
    BY <2>1, <2>2, TotallingRational
<1>2. /\ DOMAIN q = DOMAIN p
      /\ q.nsnow = LayerCount(SeqTotal(d0)) /\ q.ds = Divided(SeqTotal(d0)) /\ q.snowdepth = SeqTotal(d0)
  BY DEF WithLayers
<1> HIDE DEF q
<1>3. Stacked(q) /\ q.nsnow > 0 /\ Thin(q)
  BY <1>1, <1>2, DividedAgain
<1> QED
  BY <1>3 DEF q

\* A pack that is spread out is in layers.
LEMMA ScaledIs ==
  ASSUME NEW p, DOMAIN p = {"nsnow", "ds", "mass", "snow_tile", "snowdepth"},
         p.ds \in [1..nsmax -> Rationals], NEW f \in Rationals, f # Zero
  PROVE  LET q == scale_snowpack(p, f)
         IN  Stacked(q) /\ q.nsnow > 0 /\ Thin(q)
<1>1. [n \in 1..nsmax |-> Over(p.ds[n], f)] \in [1..nsmax -> Rationals]
  <2>1. ASSUME NEW n \in 1..nsmax PROVE Over(p.ds[n], f) \in Rationals
    BY OverIs
  <2> QED
    BY <2>1
<1> QED
  BY <1>1, WithLayersIs DEF scale_snowpack

\* Two packs put together are in layers.
LEMMA AddedIs ==
  ASSUME NEW p, NEW in, DOMAIN p = {"nsnow", "ds", "mass", "snow_tile", "snowdepth"},
         p.ds \in [1..nsmax -> Rationals], in.ds \in [1..nsmax -> Rationals]
  PROVE  LET q == add_snowpacks(p, in)
         IN  Stacked(q) /\ q.nsnow > 0 /\ Thin(q)
<1>1. [n \in 1..nsmax |-> Plus(p.ds[n], in.ds[n])] \in [1..nsmax -> Rationals]
  <2>1. ASSUME NEW n \in 1..nsmax PROVE Plus(p.ds[n], in.ds[n]) \in Rationals
    <3>1. p.ds[n] \in Rationals /\ in.ds[n] \in Rationals
      OBVIOUS
    <3> QED
      BY <3>1, PlusLaws
  <2> QED
    BY <2>1
<1> QED
  BY <1>1, WithLayersIs DEF add_snowpacks

\* A pack of which snow is taken is in layers.
LEMMA SubtractedIs ==
  ASSUME NEW p, Stacked(p), NEW sice0 \in Rationals
  PROVE  LET q == subtract_snowpacks(p, sice0)
         IN  Stacked(q) /\ q.nsnow > 0 /\ Thin(q)
<1> DEFINE q == subtract_snowpacks(p, sice0)
           depth == Plus(SeqTotal(SubSeq(p.ds, 1, p.nsnow)), Over(sice0, glimmer_ice_density))
<1>1. /\ DOMAIN q = DOMAIN p
      /\ q.nsnow = LayerCount(depth) /\ q.ds = Divided(depth) /\ q.snowdepth = depth
      /\ DOMAIN p = {"nsnow", "ds", "mass", "snow_tile", "snowdepth"}
  BY DEF subtract_snowpacks, Stacked
<1>2. depth \in Rationals
  <2>1. /\ Len(p.ds) = nsmax /\ nsmax \in Nat /\ p.nsnow \in 0..nsmax
        /\ \A n \in 1..nsmax : p.ds[n] \in Rationals
    BY Standards, SeqDef, LenProperties DEF Stacked
  <2>2. SeqTotal(SubSeq(p.ds, 1, p.nsnow)) \in Rationals
    BY <2>1, TotalOfFirst, TotallingRational
  <2>3. glimmer_ice_density # Zero
    BY Standards, OrderLaws
  <2>4. Over(sice0, glimmer_ice_density) \in Rationals
    BY <2>3, Standards, OverIs
  <2> QED
    BY <2>2, <2>4, PlusLaws
<1> HIDE DEF q, depth
<1>3. Stacked(q) /\ q.nsnow > 0 /\ Thin(q)
  BY <1>1, <1>2, DividedAgain
<1> QED
  BY <1>3 DEF q

-------------------------------------------------------------------------------
(* An adjustment *)

\* The share of the non-ice tile, where there is one.
LEMMA FracsAre ==
  ASSUME NEW f \in Areas
  PROVE  /\ f.ni \in Rationals /\ AtMost(Zero, f.ni) /\ f.ice \in Rationals /\ AtMost(Zero, f.ice)
         /\ f.ni # Zero => Less(Zero, f.ni)
         /\ f.ni # Zero => NoniceShare(f) \in Rationals /\ Less(Zero, NoniceShare(f))
<1>1. f.ni \in Rationals /\ AtMost(Zero, f.ni) /\ f.ice \in Rationals /\ AtMost(Zero, f.ice)
  BY DEF Areas, Amounts
<1>2. f.ni # Zero => Less(Zero, f.ni)
  BY <1>1, ZeroIs, OrderLaws
<1>3. ASSUME f.ni # Zero PROVE NoniceShare(f) \in Rationals /\ Less(Zero, NoniceShare(f))
  <2> DEFINE both == Plus(f.ni, f.ice)
  <2>1. both \in Rationals
    BY <1>1, PlusLaws, Zenon
  <2>2. Less(Zero, both)
    <3>0. Zero \in Rationals
      BY ZeroIs
    <3>1. AtMost(Plus(Zero, f.ni), Plus(f.ice, f.ni)) /\ Plus(Zero, f.ni) = f.ni
      <4>1. \A p, q, r \in Rationals : AtMost(Plus(p, r), Plus(q, r)) <=> AtMost(p, q)
        BY OrderLaws
      <4>2. AtMost(Plus(Zero, f.ni), Plus(f.ice, f.ni))
        BY <1>1, <3>0, <4>1
      <4> QED
        BY <1>1, <4>2, PlusLaws
    <3>2. Plus(f.ice, f.ni) = both
      BY <1>1, PlusLaws
    <3> QED
      BY <1>1, <1>2, <1>3, <2>1, <3>1, <3>2, ZeroIs, OrderLaws
  <2> HIDE DEF both
  <2>3. Over(f.ni, both) \in Rationals /\ Less(Zero, Over(f.ni, both))
    BY <1>1, <1>2, <1>3, <2>1, <2>2, OverSign
  <2> QED
    BY <2>3 DEF NoniceShare, both
<1> QED
  BY <1>1, <1>2, <1>3

\* A changed area leaves a pack.
LEMMA RearrangedIs ==
  ASSUME NEW old \in Areas, NEW new \in Areas, NEW p, Stacked(p), Thin(p)
  PROVE  LET q == Vanished(Rearranged(p, old, new), new)
         IN  Stacked(q) /\ Thin(q)
<1> DEFINE r == Rearranged(p, old, new)
<1>1. CASE Grows(old, new) /\ old.ni = Zero
  <2>1. r = EmptyPack
    BY <1>1 DEF Rearranged
  <2>2. Stacked(r) /\ Thin(r)
    BY <2>1, EmptyIs
  <2> QED
    BY <2>2 DEF Vanished, Stacked, Thin, Layered
<1>2. CASE Grows(old, new) /\ old.ni # Zero
  <2> DEFINE f == Over(new.ni, old.ni)
  <2>1. r = Spread(p, f)
    BY <1>2 DEF Rearranged
  <2>2. f \in Rationals /\ f # Zero
    <3>1. /\ new.ni \in Rationals /\ old.ni \in Rationals /\ Less(Zero, old.ni)
          /\ Less(old.ni, new.ni) /\ Zero \in Rationals
      BY <1>2, FracsAre, ZeroIs DEF Grows
    <3>2. new.ni # Zero
      BY <3>1, OrderLaws
    <3> QED
      BY <3>1, <3>2, OverSign
  <2> HIDE DEF f
  <2>3. Stacked(r) /\ Thin(r)
    <3>1. CASE p.nsnow > 0
      <4>1. r = scale_snowpack(p, f)
        BY <2>1, <3>1 DEF Spread
      <4>2. p.ds \in [1..nsmax -> Rationals] /\ DOMAIN p = {"nsnow", "ds", "mass", "snow_tile", "snowdepth"}
        BY DEF Stacked
      <4> HIDE DEF r
      <4> QED
        BY <2>2, <4>1, <4>2, ScaledIs
    <3>2. CASE ~(p.nsnow > 0)
      <4>1. r = [p EXCEPT !.snow_tile = Over(@, f)]
        BY <2>1, <3>2 DEF Spread
      <4> HIDE DEF r
      <4> QED
        BY <4>1 DEF Stacked, Thin, Layered
    <3> QED
      BY <3>1, <3>2
  <2> HIDE DEF r
  <2>4. Stacked(Vanished(r, new)) /\ Thin(Vanished(r, new))
    BY <2>3 DEF Vanished, Stacked, Thin, Layered
  <2> QED
    BY <2>4 DEF r
<1>3. CASE ~Grows(old, new)
  <2>1. r = p
    BY <1>3 DEF Rearranged
  <2> HIDE DEF r
  <2>2. Stacked(Vanished(r, new)) /\ Thin(Vanished(r, new))
    BY <2>1 DEF Vanished, Stacked, Thin, Layered
  <2> QED
    BY <2>2 DEF r
<1> QED
  BY <1>1, <1>2, <1>3

\* Snow from the ice sheet leaves a pack.
LEMMA GivenIs ==
  ASSUME NEW new \in Areas, new.ni # Zero, NEW anomaly \in Rationals, Less(dzsnow[1], anomaly),
         NEW p, Stacked(p)
  PROVE  Stacked(Give(p, new, anomaly))
<1> DEFINE iced == Times(anomaly, glimmer_ice_density)
           mass == SeqTotal(IcePack.mass)
           share == NoniceShare(new)
           area_factor == Times(Over(mass, iced), share)
           thick == IF p.nsnow = 0 THEN OneLayer(p) ELSE p
           snow == scale_snowpack(IcePack, area_factor)
<1>1. area_factor \in Rationals /\ area_factor # Zero
  <2>1. /\ Zero \in Rationals /\ dzsnow[1] \in Rationals /\ Less(Zero, dzsnow[1])
        /\ glimmer_ice_density \in Rationals /\ Less(Zero, glimmer_ice_density)
    BY Standards
  <2>2. Less(Zero, anomaly)
    BY <2>1, OrderLaws
  <2>3. iced \in Rationals /\ Less(Zero, iced)
    BY <2>1, <2>2, TimesLaws, TimesSign
  <2>4. mass \in Rationals /\ mass # Zero
    <3>1. IcePack.mass \in [1..nsmax -> Rationals] /\ Less(Zero, mass)
      BY PackIs, SnowAssumption DEF Pack
    <3>2. Len(IcePack.mass) = nsmax /\ nsmax \in Nat
      BY <3>1, Standards, SeqDef, LenProperties
    <3>3. mass \in Rationals
      BY <3>1, <3>2, TotallingRational
    <3> QED
      BY <2>1, <3>1, <3>3, OrderLaws
  <2>5. share \in Rationals /\ Less(Zero, share)
    BY FracsAre
  <2>6. share # Zero
    BY <2>1, <2>5, OrderLaws
  <2> HIDE DEF iced, mass, share
  <2> DEFINE o == Over(mass, iced)
  <2>7. o \in Rationals /\ o # Zero
    BY <2>3, <2>4, OverSign
  <2> HIDE DEF o
  <2>8. Times(o, share) \in Rationals /\ Times(o, share) # Zero
    BY <2>5, <2>6, <2>7, TimesLaws, TimesSign
  <2> QED
    BY <2>8 DEF o
<1>2. Give(p, new, anomaly) = add_snowpacks(thick, snow)
  BY DEF Give
<1>3. DOMAIN thick = {"nsnow", "ds", "mass", "snow_tile", "snowdepth"} /\ thick.ds \in [1..nsmax -> Rationals]
  <2>1. CASE p.nsnow = 0
    <3>1. thick = OneLayer(p)
      BY <2>1
    <3>2. dzsnow[1] \in Rationals /\ Zero \in Rationals
      BY Standards
    <3> HIDE DEF thick
    <3> QED
      BY <3>1, <3>2 DEF OneLayer, Stacked, NoLayers
  <2>2. CASE p.nsnow # 0
    BY <2>2 DEF Stacked
  <2> QED
    BY <2>1, <2>2
<1>4. snow.ds \in [1..nsmax -> Rationals]
  <2>1. DOMAIN IcePack = {"nsnow", "ds", "mass", "snow_tile", "snowdepth"}
        /\ IcePack.ds \in [1..nsmax -> Rationals]
    BY PackIs DEF Stacked
  <2> HIDE DEF area_factor
  <2>2. Stacked(snow)
    BY <1>1, <2>1, ScaledIs
  <2> QED
    BY <2>2 DEF Stacked
<1> HIDE DEF thick, snow
<1>5. Stacked(add_snowpacks(thick, snow))
  BY <1>3, <1>4, AddedIs
<1> QED
  BY <1>2, <1>5

\* Snow taken by the ice sheet leaves a pack.
LEMMA TakenIs ==
  ASSUME NEW new \in Areas, new.ni # Zero, NEW anomaly \in Rationals, Less(anomaly, Zero),
         NEW p, Stacked(p), Thin(p)
  PROVE  Stacked(Take(p, new, anomaly))
<1> DEFINE depth == Over(anomaly, NoniceShare(new))
           mass == Times(depth, glimmer_ice_density)
           q == [p EXCEPT !.snowdepth = Plus(@, depth), !.snow_tile = Plus(@, mass)]
           thin == \/ Less(q.snowdepth, dzsnow[1])
                   \/ Less(q.snow_tile, Times(dzsnow[1], glimmer_ice_density))
<1>1. depth \in Rationals /\ Less(depth, Zero)
  BY FracsAre, OverSign
<1>2. mass \in Rationals
  BY <1>1, Standards, TimesLaws
<1>3. Take(p, new, anomaly)
        = IF thin THEN [EmptyPack EXCEPT !.snow_tile = Clipped(Plus(q.snow_tile, mass))]
                  ELSE subtract_snowpacks(q, mass)
  BY DEF Take
<1> HIDE DEF depth, mass
<1>4. CASE thin
  <2>1. \A x : Stacked([EmptyPack EXCEPT !.snow_tile = x])
    BY EmptyIs DEF Stacked, Layered
  <2> QED
    BY <1>3, <1>4, <2>1
<1>5. CASE ~thin
  <2>1. q.snowdepth = Plus(p.snowdepth, depth) /\ p.snowdepth \in Rationals
    BY DEF Stacked
  <2>2. Plus(p.snowdepth, depth) \in Rationals
    BY <1>1, <2>1, PlusLaws
  <2>3. Stacked(q)
    BY <2>1, <2>2 DEF Stacked, Layered
  <2> HIDE DEF q
  <2>4. Stacked(subtract_snowpacks(q, mass))
    BY <1>2, <2>3, SubtractedIs
  <2> QED
    BY <1>3, <1>5, <2>4
<1> QED
  BY <1>4, <1>5

\* The three ways leave a pack.
LEMMA AlteredIs ==
  ASSUME NEW new \in Areas, NEW anomaly \in Rationals, NEW p, Stacked(p), Thin(p)
  PROVE  Stacked(Altered(p, new, anomaly))
<1>1. anomaly \in Rationals
  OBVIOUS
<1> DEFINE x == dzsnow[1]
           y == Minus(Zero, x)
<1>2. Less(anomaly, y) => Less(anomaly, Zero) /\ ~Less(x, anomaly)
  <2>1. Zero \in Rationals /\ x \in Rationals /\ Less(Zero, x)
    BY Standards
  <2> HIDE DEF x
  <2>2. y \in Rationals /\ Plus(y, x) = Zero
    BY <2>1, PlusLaws
  <2> HIDE DEF y
  <2>3. Less(y, Zero)
    <3>1. Less(Plus(Zero, y), Plus(x, y))
      BY <2>1, <2>2, OrderLaws
    <3>2. Plus(x, y) = Zero /\ Plus(Zero, y) = y
      BY <2>1, <2>2, PlusLaws
    <3> QED
      BY <3>1, <3>2
  <2> QED
    BY <1>1, <2>1, <2>2, <2>3, OrderLaws
<1>3. CASE new.ni # Zero /\ Less(x, anomaly)
  <2>1. Stacked(Give(p, new, anomaly))
    BY <1>1, <1>3, GivenIs
  <2>2. Altered(p, new, anomaly) = Give(p, new, anomaly)
    BY <1>2, <1>3 DEF Altered
  <2> QED
    BY <2>1, <2>2
<1>4. CASE new.ni # Zero /\ Less(anomaly, y)
  <2>1. Stacked(Take(p, new, anomaly))
    BY <1>1, <1>2, <1>4, TakenIs
  <2>2. Altered(p, new, anomaly) = Take(p, new, anomaly)
    BY <1>2, <1>4 DEF Altered
  <2> QED
    BY <2>1, <2>2
<1>5. CASE ~(new.ni # Zero /\ Less(x, anomaly)) /\ ~(new.ni # Zero /\ Less(anomaly, y))
  <2>1. Altered(p, new, anomaly) = p
    BY <1>5 DEF Altered
  <2> QED
    BY <2>1
<1> QED
  BY <1>3, <1>4, <1>5

\* What is returned to JULES.
LEMMA RegularisedIs ==
  ASSUME NEW p, Stacked(p)
  PROVE  LET q == Regularised(p)
         IN  /\ Stacked(q)
             /\ IF q.nsnow = 0 THEN q.snowdepth = Zero ELSE Regular(q)
<1> DEFINE q == Regularised(p)
<1>1. CASE p.nsnow > 0 /\ AtMost(dzsnow[1], p.ds[1])
  <2> DEFINE mass == [n \in 1..nsmax |-> IF n <= p.nsnow THEN p.mass[n] ELSE Zero]
  <2>1. q = [p EXCEPT !.mass = mass, !.snow_tile = SeqTotal(mass),
                      !.snowdepth = SeqTotal(SubSeq(p.ds, 1, p.nsnow))]
    BY <1>1 DEF Regularised
  <2> HIDE DEF mass, q
  <2>2. /\ q.nsnow = p.nsnow /\ q.ds = p.ds /\ q.mass = mass /\ q.snow_tile = SeqTotal(mass)
        /\ q.snowdepth = SeqTotal(SubSeq(p.ds, 1, p.nsnow))
        /\ DOMAIN q = {"nsnow", "ds", "mass", "snow_tile", "snowdepth"}
        /\ p.nsnow \in 1..nsmax /\ p.ds \in [1..nsmax -> Rationals] /\ Layered(p)
        /\ nsmax \in Nat
    BY <1>1, <2>1, Standards DEF Stacked
  <2>3. SeqTotal(SubSeq(p.ds, 1, p.nsnow)) = SeqTotal(p.ds) /\ SeqTotal(p.ds) \in Rationals
    <3>1. Len(p.ds) = nsmax /\ \A n \in 1..nsmax : p.ds[n] \in Rationals
      BY <2>2, SeqDef, LenProperties
    <3>2. \A n \in (p.nsnow + 1)..nsmax : p.ds[n] = Zero
      BY <2>2 DEF Layered
    <3>3. SeqTotal(SubSeq(p.ds, 1, p.nsnow)) = Totalling(p.ds)[p.nsnow]
      BY <2>2, <3>1, TotalOfFirst
    <3>4. SeqTotal(p.ds) = Totalling(p.ds)[p.nsnow]
      BY <2>2, <3>1, <3>2, TotallingZeros
    <3> QED
      BY <2>2, <3>1, <3>3, <3>4, TotallingRational
  <2>4. InLayers(q)
    <3>1. \A n \in (q.nsnow + 1)..nsmax : q.mass[n] = Zero
      BY <2>2 DEF mass
    <3> QED
      BY <1>1, <2>2, <3>1 DEF Layered, InLayers
  <2>5. Stacked(q)
    BY <2>2, <2>3 DEF Layered, Stacked
  <2> QED
    BY <2>2, <2>3, <2>4, <2>5 DEF q, Regular
<1>2. CASE ~(p.nsnow > 0 /\ AtMost(dzsnow[1], p.ds[1]))
  <2>1. q = [p EXCEPT !.nsnow = 0, !.mass = NoLayers, !.snowdepth = Zero]
    BY <1>2 DEF Regularised
  <2> HIDE DEF q
  <2>2. q.nsnow = 0 /\ q.snowdepth = Zero
    BY <2>1 DEF Stacked
  <2>3. Stacked(q)
    BY <2>1, <2>2, Standards DEF Stacked
  <2> QED
    BY <2>2, <2>3 DEF q
<1> QED
  BY <1>1, <1>2

-------------------------------------------------------------------------------
(* Amounts *)

\* Sums, products and quotients of amounts are amounts.
LEMMA AmountLaws ==
  /\ Zero \in Amounts /\ Amounts \subseteq Rationals
  /\ \A p, q \in Amounts : Plus(p, q) \in Amounts /\ Times(p, q) \in Amounts
  /\ \A p, q \in Amounts : q # Zero => Less(Zero, q) /\ Over(p, q) \in Amounts
  /\ \A p, q \in Rationals : AtMost(p, q) => Minus(q, p) \in Amounts
<1>0. Zero \in Rationals /\ AtMost(Zero, Zero)
  BY ZeroIs, OrderLaws
<1>1. ASSUME NEW p \in Amounts, NEW q \in Amounts PROVE Plus(p, q) \in Amounts
  <2>1. p \in Rationals /\ q \in Rationals /\ AtMost(Zero, p) /\ AtMost(Zero, q)
    BY DEF Amounts
  <2>2. AtMost(Plus(Zero, Zero), Plus(p, q))
    BY <1>0, <2>1, PlusOrder
  <2>3. Plus(Zero, Zero) = Zero /\ Plus(p, q) \in Rationals
    BY <1>0, <2>1, PlusLaws
  <2> QED
    BY <2>2, <2>3 DEF Amounts
<1>2. ASSUME NEW p \in Amounts, NEW q \in Amounts PROVE Times(p, q) \in Amounts
  <2>1. p \in Rationals /\ q \in Rationals /\ AtMost(Zero, p) /\ AtMost(Zero, q)
    BY DEF Amounts
  <2>2. Times(p, q) \in Rationals
    BY <2>1, TimesLaws
  <2> QED
    BY <2>1, <2>2, TimesSign DEF Amounts
<1>3. ASSUME NEW p \in Amounts, NEW q \in Amounts, q # Zero PROVE Less(Zero, q) /\ Over(p, q) \in Amounts
  <2>1. p \in Rationals /\ q \in Rationals /\ AtMost(Zero, p) /\ AtMost(Zero, q)
    BY DEF Amounts
  <2>2. Less(Zero, q)
    BY <1>0, <1>3, <2>1, OrderLaws
  <2> QED
    BY <2>1, <2>2, OverSign DEF Amounts
<1>4. ASSUME NEW p \in Rationals, NEW q \in Rationals, AtMost(p, q) PROVE Minus(q, p) \in Amounts
  <2>1. AtMost(Zero, Minus(q, p))
    BY <1>4, MinusLaws
  <2>2. Minus(q, p) \in Rationals
    BY PlusLaws
  <2> QED
    BY <2>1, <2>2 DEF Amounts
<1> QED
  BY <1>0, <1>1, <1>2, <1>3, <1>4 DEF Amounts

-------------------------------------------------------------------------------
(* Pouring old layers into new ones *)

\* While a layer of thickness d is poured.
Pouring(d) ==
  {a \in [left : Amounts, done : BOOLEAN, iznew : Nat,
          room : [1..nsmax -> Amounts], mass : [1..nsmax -> Amounts]] :
     d = Zero => a.left = Zero}

\* No room, mass or rest gets negative.
LEMMA PourIntoIs ==
  ASSUME NEW d \in Amounts, NEW m \in Amounts, NEW a \in Pouring(d), NEW n \in 1..nsmax
  PROVE  PourInto(d, m, a, n) \in Pouring(d)
<1>1. /\ a \in [left : Amounts, done : BOOLEAN, iznew : Nat,
                room : [1..nsmax -> Amounts], mass : [1..nsmax -> Amounts]]
      /\ d = Zero => a.left = Zero
  BY DEF Pouring
<1>2. a.room[n] \in Amounts /\ a.left \in Amounts /\ a.mass[n] \in Amounts /\ n + 1 \in Nat
  <2>1. /\ a.left \in Amounts /\ a.room \in [1..nsmax -> Amounts] /\ a.mass \in [1..nsmax -> Amounts]
    BY <1>1
  <2>2. n + 1 \in Nat
    BY Standards
  <2> QED
    BY <2>1, <2>2
<1>3. a.room[n] \in Rationals /\ a.left \in Rationals /\ AtMost(Zero, a.room[n]) /\ Zero \in Rationals
  BY <1>2, ZeroIs DEF Amounts
<1>4. CASE a.done \/ n < a.iznew
  BY <1>4 DEF PourInto
<1>5. CASE ~(a.done \/ n < a.iznew) /\ Less(a.room[n], a.left)
  <2> DEFINE left == Minus(a.left, a.room[n])
             mass == Plus(a.mass[n], Over(Times(m, a.room[n]), d))
  <2>1. d # Zero
    <3>1. a.left # Zero
      BY <1>3, <1>5, OrderLaws
    <3> QED
      BY <1>1, <3>1
  <2>2. left \in Amounts
    <3>1. AtMost(a.room[n], a.left)
      BY <1>3, <1>5, OrderLaws
    <3> QED
      BY <1>3, <3>1, AmountLaws
  <2>3. mass \in Amounts
    <3>1. Times(m, a.room[n]) \in Amounts
      BY <1>2, AmountLaws
    <3>2. Over(Times(m, a.room[n]), d) \in Amounts
      BY <2>1, <3>1, AmountLaws
    <3> QED
      BY <1>2, <3>2, AmountLaws
  <2>4. PourInto(d, m, a, n)
          = [a EXCEPT !.left = left, !.iznew = n + 1, !.mass[n] = mass]
    BY <1>5 DEF PourInto
  <2> HIDE DEF left, mass
  <2> DEFINE b == [a EXCEPT !.left = left, !.iznew = n + 1, !.mass[n] = mass]
  <2>5. b \in [left : Amounts, done : BOOLEAN, iznew : Nat,
                room : [1..nsmax -> Amounts], mass : [1..nsmax -> Amounts]]
    BY <1>1, <1>2, <2>2, <2>3
  <2> QED
    BY <2>1, <2>4, <2>5 DEF Pouring
<1>6. CASE ~(a.done \/ n < a.iznew) /\ ~Less(a.room[n], a.left)
  <2> DEFINE room == Minus(a.room[n], a.left)
             mass == IF d = Zero THEN a.mass[n] ELSE Plus(a.mass[n], Over(Times(m, a.left), d))
  <2>1. room \in Amounts
    <3>1. AtMost(a.left, a.room[n])
      BY <1>6 DEF AtMost
    <3> QED
      BY <1>3, <3>1, AmountLaws
  <2>2. mass \in Amounts
    <3>1. CASE d = Zero
      BY <1>2, <3>1
    <3>2. CASE d # Zero
      <4>1. Times(m, a.left) \in Amounts
        BY <1>2, AmountLaws
      <4>2. Over(Times(m, a.left), d) \in Amounts
        BY <3>2, <4>1, AmountLaws
      <4>3. Plus(a.mass[n], Over(Times(m, a.left), d)) \in Amounts
        BY <1>2, <4>2, AmountLaws
      <4> QED
        BY <3>2, <4>3
    <3> QED
      BY <3>1, <3>2
  <2>3. PourInto(d, m, a, n) = [a EXCEPT !.done = TRUE, !.room[n] = room, !.mass[n] = mass]
    BY <1>6 DEF PourInto, RoomLeft
  <2> HIDE DEF room, mass
  <2> DEFINE b == [a EXCEPT !.done = TRUE, !.room[n] = room, !.mass[n] = mass]
  <2>4. b \in [left : Amounts, done : BOOLEAN, iznew : Nat,
                room : [1..nsmax -> Amounts], mass : [1..nsmax -> Amounts]]
    BY <1>1, <1>2, <2>1, <2>2
  <2>5. b.left = a.left
    BY <1>1
  <2> QED
    BY <1>1, <2>3, <2>4, <2>5 DEF Pouring
<1> QED
  BY <1>4, <1>5, <1>6

\* One old layer, of thickness d and mass m, is poured over the first new layers.
Poured(d, m, a, last) ==
  FoldLeft(LAMBDA b, n : PourInto(d, m, b, n), [a EXCEPT !.left = d, !.done = FALSE],
           [n \in 1..last |-> n])

\* It goes into one layer after the other.
PouringRun(run, d, m, a, last) ==
  /\ run \in [0..last -> Pouring(d)]
  /\ run[0] = [a EXCEPT !.left = d, !.done = FALSE]
  /\ \A n \in 1..last : run[n] = PourInto(d, m, run[n - 1], n)
  /\ Poured(d, m, a, last) = run[last]

\* A fold is a run: one new layer after the other.
LEMMA PouredIs ==
  ASSUME NEW d \in Amounts, NEW m \in Amounts, NEW a \in Pouring(Q(1)), NEW last \in 1..nsmax
  PROVE  \E run : PouringRun(run, d, m, a, last)
<1> DEFINE base == [a EXCEPT !.left = d, !.done = FALSE]
           State == Pouring(d)
           seq == [n \in 1..last |-> n]
           steps == [n \in 1..last |-> [b \in State |-> PourInto(d, m, b, n)]]
           IsFold(fold) == fold = [s \in SUBSET (DOMAIN seq) |->
              IF s = {} THEN base ELSE PourInto(d, m, fold[s \ {Max(s)}], seq[Max(s)])]
           fold == CHOOSE fold : IsFold(fold)
<1>1. Poured(d, m, a, last) = fold[DOMAIN seq]
  BY DEF Poured, FoldLeft, MapThenFoldSet
<1>0. last \in Nat /\ 1..last \subseteq 1..nsmax /\ DOMAIN seq = 1..last /\ \A n \in 1..last : seq[n] = n
  BY Standards
<1>2. base \in State
  <2>1. a \in [left : Amounts, done : BOOLEAN, iznew : Nat,
                room : [1..nsmax -> Amounts], mass : [1..nsmax -> Amounts]]
    BY DEF Pouring
  <2>2. base \in [left : Amounts, done : BOOLEAN, iznew : Nat,
                   room : [1..nsmax -> Amounts], mass : [1..nsmax -> Amounts]]
        /\ base.left = d
    BY <2>1
  <2> HIDE DEF base
  <2> QED
    BY <2>2 DEF Pouring
<1>3. \A n \in 1..last : \A b \in State : PourInto(d, m, b, n) \in State
  BY <1>0, PourIntoIs
<1>4. steps \in [1..last -> [State -> State]]
  <2> HIDE DEF State
  <2> QED
    BY <1>3
<1> HIDE DEF base, State, seq, fold
<1>5. PICK g \in [SUBSET (1..last) -> State] : IsFolding(g, last, base, steps)
  <2> HIDE DEF steps
  <2> QED
    BY <1>0, <1>2, <1>4, FoldingExists
<1>6. ASSUME NEW s \in SUBSET (1..last), s # {}
      PROVE  Max(s) \in 1..last /\ s \ {Max(s)} \in SUBSET (1..last)
  BY <1>0, <1>6, MaxInUpTo
<1>7. IsFold(g)
  <2>1. ASSUME NEW s \in SUBSET (1..last), s # {}
        PROVE  steps[Max(s)][g[s \ {Max(s)}]] = PourInto(d, m, g[s \ {Max(s)}], seq[Max(s)])
    BY <1>0, <1>5, <1>6, <2>1
  <2>2. g = [s \in SUBSET (1..last) |-> IF s = {} THEN base ELSE steps[Max(s)][g[s \ {Max(s)}]]]
    BY <1>5 DEF IsFolding
  <2> HIDE DEF steps
  <2> DEFINE h == [s \in SUBSET (1..last) |->
              IF s = {} THEN base ELSE PourInto(d, m, g[s \ {Max(s)}], seq[Max(s)])]
  <2>3. \A s \in SUBSET (1..last) : g[s] = h[s]
    BY <2>1, <2>2
  <2>4. g = h
    <3>1. g = [s \in SUBSET (1..last) |-> g[s]]
      BY <1>5
    <3> HIDE DEF h
    <3> QED
      BY <2>3, <3>1 DEF h
  <2> QED
    BY <1>0, <2>4
<1>8. IsFold(fold)
  <2> HIDE DEF IsFold
  <2> QED
    BY <1>7 DEF fold
<1> DEFINE run == [n \in 0..last |-> fold[1..n]]
<1>9. run[0] = base
  BY <1>0, <1>8
<1>10. ASSUME NEW n \in 1..last PROVE run[n] = PourInto(d, m, run[n - 1], n)
  <2>1. /\ 1..n \in SUBSET (1..last) /\ 1..n # {} /\ (1..n) \ {n} = 1..(n - 1)
        /\ n \in 0..last /\ n - 1 \in 0..last /\ seq[n] = n
    <3>1. n \in Nat /\ n \in 1..n /\ n <= last
      BY <1>0
    <3>2. (1..n) \ {n} = 1..(n - 1) /\ 1..n \in SUBSET (1..last)
      BY <1>0, <3>1
    <3> QED
      BY <1>0, <3>1, <3>2
  <2>2. Max(1..n) = n
    BY MaxOfUpTo
  <2>3. fold[1..n] = PourInto(d, m, fold[(1..n) \ {Max(1..n)}], seq[Max(1..n)])
    BY <1>0, <1>8, <2>1
  <2> QED
    BY <2>1, <2>2, <2>3
<1> DEFINE Good == {n \in 0..last : run[n] \in State}
<1> HIDE DEF run
<1>11. \A n \in 0..last : run[n] \in State
  <2>1. 0 \in Good
    BY <1>0, <1>2, <1>9
  <2>2. ASSUME NEW n \in 0..(last - 1), n \in Good PROVE n + 1 \in Good
    <3>1. n + 1 \in 1..last /\ (n + 1) - 1 = n /\ n + 1 \in 0..last
      BY <1>0
    <3> QED
      BY <1>3, <1>10, <2>2, <3>1
  <2> HIDE DEF Good
  <2>3. \A n \in 0..last : n \in Good
    BY <1>0, <2>1, <2>2, OneByOne
  <2> QED
    BY <2>3 DEF Good
<1>12. run \in [0..last -> State] /\ run[last] = Poured(d, m, a, last)
  BY <1>0, <1>1, <1>11 DEF run
<1>13. PouringRun(run, d, m, a, last)
  BY <1>9, <1>10, <1>12 DEF base, State, PouringRun
<1> QED
  BY <1>13

\* A depth is divided into amounts.
LEMMA DividedAmounts ==
  ASSUME NEW depth \in Amounts
  PROVE  Divided(depth) \in [1..nsmax -> Amounts]
<1> DEFINE last == LayerCount(depth)
           ds == Divided(depth)
<1>1. depth \in Rationals /\ AtMost(Zero, depth)
  BY DEF Amounts
<1>2. /\ last \in 1..nsmax /\ ds \in [1..nsmax -> Rationals]
      /\ \A n \in 1..(last - 1) : ds[n] = dzsnow[n]
      /\ \A n \in (last + 1)..nsmax : ds[n] = Zero
      /\ last > 1 => Less(dzsnow[last - 1], ds[last])
      /\ SeqTotal(ds) = depth
  BY <1>1, DividedIs, Zenon
<1> HIDE DEF last, ds
<1>3. nsmax \in Nat /\ last \in Int /\ \A n \in 1..nsmax : dzsnow[n] \in Rationals /\ AtMost(Zero, dzsnow[n])
  <2>1. \A n \in 1..nsmax : dzsnow[n] \in Rationals /\ Less(Zero, dzsnow[n]) /\ Zero \in Rationals
    BY Standards
  <2>2. \A n \in 1..nsmax : AtMost(Zero, dzsnow[n])
    BY <2>1, OrderLaws
  <2> QED
    BY <1>2, <2>1, <2>2, Standards
<1>4. ds[last] \in Rationals /\ AtMost(Zero, ds[last])
  <2>1. CASE last > 1
    <3>1. last - 1 \in 1..nsmax /\ last \in 1..nsmax
      BY <1>2, <1>3, <2>1
    <3>2. dzsnow[last - 1] \in Rationals /\ AtMost(Zero, dzsnow[last - 1]) /\ ds[last] \in Rationals
      BY <1>2, <1>3, <3>1
    <3> QED
      BY <1>2, <2>1, <3>2, ZeroIs, OrderLaws
  <2>2. CASE ~(last > 1)
    <3>1. last = 1
      BY <1>2, <1>3, <2>2
    <3>2. Len(ds) = nsmax /\ \A n \in 1..nsmax : ds[n] \in Rationals
      BY <1>2, <1>3, SeqDef, LenProperties
    <3>3. SeqTotal(ds) = Totalling(ds)[1]
      BY <1>2, <1>3, <3>1, <3>2, TotallingZeros
    <3>4. Totalling(ds)[1] = Plus(Totalling(ds)[0], ds[1]) /\ Totalling(ds)[0] = Zero
      <4>1. 1 \in 1..nsmax /\ 1 - 1 = 0
        BY Standards
      <4> QED
        BY <1>3, <3>2, <4>1, TotallingStep
    <3>5. ds[1] \in Rationals
      BY <3>2, Standards
    <3>6. Plus(Zero, ds[1]) = ds[1]
      BY <3>5, PlusLaws
    <3> QED
      BY <1>1, <1>2, <3>1, <3>3, <3>4, <3>5, <3>6
  <2> QED
    BY <2>1, <2>2
<1>5. ASSUME NEW n \in 1..nsmax PROVE ds[n] \in Amounts
  <2>1. n < last \/ n = last \/ n > last
    BY <1>3
  <2>2. CASE n < last
    BY <1>2, <1>3, <2>2 DEF Amounts
  <2>3. CASE n > last
    <3>1. ds[n] = Zero
      BY <1>2, <1>3, <2>3
    <3> QED
      BY <3>1, AmountLaws
  <2> QED
    BY <1>4, <2>1, <2>2, <2>3 DEF Amounts
<1>6. ds \in [1..nsmax -> Amounts]
  BY <1>2, <1>5
<1> QED
  BY <1>6 DEF ds

\* An old layer has been poured.
LEMMA PouredState ==
  ASSUME NEW d \in Amounts, NEW m \in Amounts, NEW a \in Pouring(Q(1)), NEW last \in 1..nsmax
  PROVE  Poured(d, m, a, last) \in Pouring(Q(1))
<1>1. PICK run : PouringRun(run, d, m, a, last)
  BY PouredIs
<1>2. last \in 0..last
  BY Standards
<1>3. Q(1) # Zero
  BY DEF Q, Zero
<1>4. Poured(d, m, a, last) \in Pouring(d)
  BY <1>1, <1>2 DEF PouringRun
<1> QED
  BY <1>3, <1>4 DEF Pouring

\* The old layers are poured one after the other.
RelayerRun(run, d0, s0) ==
  /\ run \in [0..nsmax -> Pouring(Q(1))]
  /\ run[0] = [left |-> Zero, done |-> FALSE, iznew |-> 1,
               room |-> Divided(SeqTotal(d0)), mass |-> NoLayers]
  /\ \A n \in 1..nsmax : run[n] = Poured(d0[n], s0[n], run[n - 1], LayerCount(SeqTotal(d0)))
  /\ Relayer(d0, s0) = run[nsmax].mass

\* So is the fold over the old layers.
LEMMA RelayerIs ==
  ASSUME NEW d0 \in [1..nsmax -> Amounts], NEW s0 \in [1..nsmax -> Amounts], SeqTotal(d0) \in Amounts
  PROVE  \E run : RelayerRun(run, d0, s0)
<1> DEFINE base == [left |-> Zero, done |-> FALSE, iznew |-> 1,
                    room |-> Divided(SeqTotal(d0)), mass |-> NoLayers]
           last == nsmax
           lowest == LayerCount(SeqTotal(d0))
           State == Pouring(Q(1))
           seq == [n \in 1..last |-> n]
           steps == [n \in 1..last |-> [b \in State |-> Poured(d0[n], s0[n], b, lowest)]]
           IsFold(fold) == fold = [s \in SUBSET (DOMAIN seq) |->
              IF s = {} THEN base ELSE Poured(d0[seq[Max(s)]], s0[seq[Max(s)]], fold[s \ {Max(s)}], lowest)]
           fold == CHOOSE fold : IsFold(fold)
<1>1. Relayer(d0, s0) = fold[DOMAIN seq].mass
  <2>1. Relayer(d0, s0) = FoldLeft(LAMBDA b, n : Poured(d0[n], s0[n], b, lowest), base, seq).mass
    BY DEF Relayer, Poured
  <2> HIDE DEF base, lowest
  <2>2. FoldLeft(LAMBDA b, n : Poured(d0[n], s0[n], b, lowest), base, seq) = fold[DOMAIN seq]
    BY DEF FoldLeft, MapThenFoldSet
  <2> QED
    BY <2>1, <2>2 DEF base, lowest
<1>0. last \in Nat /\ 1..last \subseteq 1..nsmax /\ DOMAIN seq = 1..last /\ \A n \in 1..last : seq[n] = n
  BY Standards
<1>2. base \in State
  <2>1. /\ Divided(SeqTotal(d0)) \in [1..nsmax -> Amounts] /\ Zero \in Amounts
        /\ NoLayers \in [1..nsmax -> Amounts]
    BY DividedAmounts, AmountLaws DEF NoLayers
  <2> DEFINE room == Divided(SeqTotal(d0))
  <2> HIDE DEF room
  <2>2. [left |-> Zero, done |-> FALSE, iznew |-> 1, room |-> room, mass |-> NoLayers] \in State
    BY <2>1 DEF Pouring, room
  <2> QED
    BY <2>2 DEF room
<1>3. \A n \in 1..last : \A b \in State : Poured(d0[n], s0[n], b, lowest) \in State
  <2>1. lowest \in 1..nsmax
    BY LayerCountIs
  <2> HIDE DEF lowest
  <2> QED
    BY <1>0, <2>1, PouredState
<1>4. steps \in [1..last -> [State -> State]]
  <2> HIDE DEF State
  <2> QED
    BY <1>3
<1> HIDE DEF base, State, seq, fold
<1>5. PICK g \in [SUBSET (1..last) -> State] : IsFolding(g, last, base, steps)
  <2> HIDE DEF steps
  <2> QED
    BY <1>0, <1>2, <1>4, FoldingExists
<1>6. ASSUME NEW s \in SUBSET (1..last), s # {}
      PROVE  Max(s) \in 1..last /\ s \ {Max(s)} \in SUBSET (1..last)
  BY <1>0, <1>6, MaxInUpTo
<1>7. IsFold(g)
  <2>1. ASSUME NEW s \in SUBSET (1..last), s # {}
        PROVE  steps[Max(s)][g[s \ {Max(s)}]] = Poured(d0[seq[Max(s)]], s0[seq[Max(s)]], g[s \ {Max(s)}], lowest)
    BY <1>0, <1>5, <1>6, <2>1
  <2>2. g = [s \in SUBSET (1..last) |-> IF s = {} THEN base ELSE steps[Max(s)][g[s \ {Max(s)}]]]
    BY <1>5 DEF IsFolding
  <2> HIDE DEF steps
  <2> DEFINE h == [s \in SUBSET (1..last) |->
              IF s = {} THEN base ELSE Poured(d0[seq[Max(s)]], s0[seq[Max(s)]], g[s \ {Max(s)}], lowest)]
  <2>3. \A s \in SUBSET (1..last) : g[s] = h[s]
    BY <2>1, <2>2
  <2>4. g = h
    <3>1. g = [s \in SUBSET (1..last) |-> g[s]]
      BY <1>5
    <3> HIDE DEF h
    <3> QED
      BY <2>3, <3>1 DEF h
  <2> QED
    BY <1>0, <2>4
<1>8. IsFold(fold)
  <2> HIDE DEF IsFold
  <2> QED
    BY <1>7 DEF fold
<1> DEFINE run == [n \in 0..last |-> fold[1..n]]
<1>9. run[0] = base
  BY <1>0, <1>8
<1>10. ASSUME NEW n \in 1..last PROVE run[n] = Poured(d0[n], s0[n], run[n - 1], lowest)
  <2>1. /\ 1..n \in SUBSET (1..last) /\ 1..n # {} /\ (1..n) \ {n} = 1..(n - 1)
        /\ n \in 0..last /\ n - 1 \in 0..last /\ seq[n] = n
    <3>1. n \in Nat /\ n \in 1..n /\ n <= last
      BY <1>0
    <3>2. (1..n) \ {n} = 1..(n - 1) /\ 1..n \in SUBSET (1..last)
      BY <1>0, <3>1
    <3> QED
      BY <1>0, <3>1, <3>2, SMTT(40)
  <2>2. Max(1..n) = n
    BY MaxOfUpTo
  <2>3. fold[1..n] = Poured(d0[seq[Max(1..n)]], s0[seq[Max(1..n)]], fold[(1..n) \ {Max(1..n)}], lowest)
    BY <1>0, <1>8, <2>1
  <2> QED
    BY <2>1, <2>2, <2>3
<1> DEFINE Good == {n \in 0..last : run[n] \in State}
<1> HIDE DEF run
<1>11. \A n \in 0..last : run[n] \in State
  <2>1. 0 \in Good
    BY <1>0, <1>2, <1>9
  <2>2. ASSUME NEW n \in 0..(last - 1), n \in Good PROVE n + 1 \in Good
    <3>1. n + 1 \in 1..last /\ (n + 1) - 1 = n /\ n + 1 \in 0..last
      BY <1>0
    <3> QED
      BY <1>3, <1>10, <2>2, <3>1
  <2> HIDE DEF Good
  <2>3. \A n \in 0..last : n \in Good
    BY <1>0, <2>1, <2>2, OneByOne
  <2> QED
    BY <2>3 DEF Good
<1>12. run \in [0..last -> State] /\ Relayer(d0, s0) = run[last].mass
  BY <1>0, <1>1, <1>11 DEF run
<1>13. RelayerRun(run, d0, s0)
  BY <1>9, <1>10, <1>12 DEF base, State, lowest, RelayerRun
<1> QED
  BY <1>13

-------------------------------------------------------------------------------
(* The mass above a depth *)

\* Layers that have a mass where they have a thickness.
Solid(d0, s0) ==
  /\ d0 \in [1..nsmax -> Amounts] /\ s0 \in [1..nsmax -> Amounts]
  /\ \A n \in 1..nsmax : d0[n] = Zero => s0[n] = Zero

\* Running totals of amounts.
LEMMA RunningIs ==
  ASSUME NEW seq \in [1..nsmax -> Amounts]
  PROVE  /\ Len(seq) = nsmax /\ nsmax \in Nat
         /\ \A n \in 1..nsmax : seq[n] \in Rationals /\ AtMost(Zero, seq[n])
         /\ \A n \in 0..nsmax : Totalling(seq)[n] \in Amounts
         /\ Totalling(seq)[0] = Zero
         /\ \A n \in 1..nsmax : Totalling(seq)[n] = Plus(Totalling(seq)[n - 1], seq[n])
         /\ \A m, n \in 0..nsmax : m <= n => AtMost(Totalling(seq)[m], Totalling(seq)[n])
         /\ SeqTotal(seq) = Totalling(seq)[nsmax]
         /\ \A n \in 0..nsmax : SeqTotal(SubSeq(seq, 1, n)) = Totalling(seq)[n]
<1>1. Len(seq) = nsmax /\ nsmax \in Nat
  BY Standards, SeqDef, LenProperties
<1>2. \A n \in 1..nsmax : seq[n] \in Rationals /\ AtMost(Zero, seq[n])
  BY DEF Amounts
<1>3. /\ \A n \in 0..nsmax : Totalling(seq)[n] \in Rationals /\ AtMost(Zero, Totalling(seq)[n])
      /\ \A m, n \in 0..nsmax : m <= n => AtMost(Totalling(seq)[m], Totalling(seq)[n])
  BY <1>1, <1>2, TotallingRational, TotallingGrows
<1>4. \A n \in 0..nsmax : SeqTotal(SubSeq(seq, 1, n)) = Totalling(seq)[n]
  BY <1>1, <1>2, TotalOfFirst
<1>5. /\ Totalling(seq)[0] = Zero /\ SeqTotal(seq) = Totalling(seq)[nsmax]
      /\ \A n \in 1..nsmax : Totalling(seq)[n] = Plus(Totalling(seq)[n - 1], seq[n])
  BY <1>1, TotallingStep
<1> QED
  BY <1>1, <1>2, <1>3, <1>4, <1>5 DEF Amounts

\* The mass above a depth within a layer: that of the layers above, and its share of this one.
LEMMA MassAboveIs ==
  ASSUME NEW d0, NEW s0, Solid(d0, s0), NEW k \in 1..nsmax, NEW z \in Rationals,
         AtMost(Totalling(d0)[k - 1], z), AtMost(z, Totalling(d0)[k])
  PROVE  MassAbove(d0, s0, z)
           = Plus(Totalling(s0)[k - 1],
                  IF d0[k] = Zero THEN Zero
                  ELSE Over(Times(s0[k], Minus(z, Totalling(d0)[k - 1])), d0[k]))
<1> DEFINE x == Totalling(d0)
           Part(n) == Over(Times(s0[n], Minus(z, x[n - 1])), d0[n])
           share == [n \in 1..nsmax |-> IF AtMost(x[n], z) THEN s0[n]
                                        ELSE IF AtMost(z, x[n - 1]) THEN Zero ELSE Part(n)]
           piece == IF d0[k] = Zero THEN Zero ELSE Part(k)
<1>1. d0 \in [1..nsmax -> Amounts] /\ s0 \in [1..nsmax -> Amounts] /\ \A n \in 1..nsmax : d0[n] = Zero => s0[n] = Zero
  BY DEF Solid
<1>2. /\ nsmax \in Nat /\ \A n \in 0..nsmax : x[n] \in Rationals
      /\ \A n \in 1..nsmax : x[n] = Plus(x[n - 1], d0[n])
      /\ \A m, n \in 0..nsmax : m <= n => AtMost(x[m], x[n])
      /\ \A n \in 0..nsmax : SeqTotal(SubSeq(d0, 1, n)) = x[n]
  BY <1>1, RunningIs DEF Amounts
<1>20. ASSUME NEW n \in 1..nsmax, AtMost(x[n], z), AtMost(z, x[n - 1]) PROVE s0[n] = Zero
  <2> HIDE DEF x
  <2>0. n \in 0..nsmax /\ n - 1 \in 0..nsmax /\ n - 1 <= n
    BY <1>2
  <2>1. x[n] \in Rationals /\ x[n - 1] \in Rationals /\ AtMost(x[n - 1], x[n])
    BY <1>2, <2>0
  <2>2. AtMost(x[n], x[n - 1])
    BY <1>20, <2>1, OrderLaws
  <2>3. x[n] = x[n - 1]
    BY <2>1, <2>2, OrderLaws
  <2>4. d0[n] \in Rationals /\ x[n] = Plus(x[n - 1], d0[n])
    BY <1>1, <1>2 DEF Amounts
  <2>5. \A p, q \in Rationals : Minus(Plus(p, q), p) = q /\ Minus(p, p) = Zero
    BY MinusLaws, PlusLaws
  <2>6. d0[n] = Zero
    BY <2>1, <2>3, <2>4, <2>5
  <2> QED
    BY <1>1, <2>6
<1>3. MassAbove(d0, s0, z) = SeqTotal(share)
  <2> DEFINE Top(n) == SeqTotal(SubSeq(d0, 1, n - 1))
             Share(n) == CASE AtMost(Plus(Top(n), d0[n]), z) -> s0[n]
                           [] AtMost(z, Top(n)) -> Zero
                           [] OTHER -> Over(Times(s0[n], Minus(z, Top(n))), d0[n])
  <2>1. \A n \in 1..nsmax : Top(n) = x[n - 1] /\ Plus(x[n - 1], d0[n]) = x[n]
    BY <1>2
  <2>2. MassAbove(d0, s0, z) = SeqTotal([n \in 1..nsmax |-> Share(n)])
    BY DEF MassAbove
  <2>3. ASSUME NEW n \in 1..nsmax PROVE Share(n) = share[n]
    <3>1. Top(n) = x[n - 1] /\ Plus(Top(n), d0[n]) = x[n]
      BY <2>1
    <3> DEFINE top == Top(n)
    <3> HIDE DEF Top, x, top
    <3>2. top = x[n - 1] /\ Plus(top, d0[n]) = x[n]
      BY <3>1 DEF top
    <3>3. Share(n) = CASE AtMost(x[n], z) -> s0[n]
                       [] AtMost(z, x[n - 1]) -> Zero
                       [] OTHER -> Over(Times(s0[n], Minus(z, x[n - 1])), d0[n])
      BY <3>2 DEF top
    <3>4. AtMost(x[n], z) /\ AtMost(z, x[n - 1]) => s0[n] = Zero
      BY <1>20
    <3> DEFINE part == Over(Times(s0[n], Minus(z, x[n - 1])), d0[n])
               a == AtMost(x[n], z)
               b == AtMost(z, x[n - 1])
    <3>5. share[n] = IF a THEN s0[n] ELSE IF b THEN Zero ELSE part
      OBVIOUS
    <3>6. Share(n) = CASE a -> s0[n] [] b -> Zero [] OTHER -> part
      BY <3>3
    <3> HIDE DEF Share, share, a, b, part
    <3>7. a /\ b => s0[n] = Zero
      BY <3>4 DEF a, b
    <3> QED
      BY <3>5, <3>6, <3>7
  <2>4. [n \in 1..nsmax |-> Share(n)] = share
    <3>1. share = [n \in 1..nsmax |-> share[n]]
      OBVIOUS
    <3> HIDE DEF share, Share
    <3> QED
      BY <2>3, <3>1
  <2> QED
    BY <2>2, <2>4
<1> HIDE DEF x
<1>4. k - 1 \in 0..nsmax /\ k \in 0..nsmax /\ k \in Nat /\ AtMost(x[k - 1], z) /\ AtMost(z, x[k])
      /\ x[k - 1] \in Rationals /\ x[k] \in Rationals
  BY <1>2 DEF x
<1>5. ASSUME NEW n \in 1..(k - 1) PROVE share[n] = s0[n]
  <2>1. n \in 1..nsmax /\ n \in 0..nsmax /\ n <= k - 1
    BY <1>2, <1>4
  <2>2. AtMost(x[n], x[k - 1]) /\ x[n] \in Rationals
    BY <1>2, <1>4, <2>1
  <2>3. AtMost(x[n], z)
    BY <1>4, <2>2, OrderLaws
  <2> QED
    BY <2>1, <2>3
<1>6. ASSUME NEW n \in (k + 1)..nsmax PROVE share[n] = Zero
  <2>1. n \in 1..nsmax /\ n \in 0..nsmax /\ n - 1 \in 0..nsmax /\ k <= n - 1
    BY <1>2, <1>4
  <2>2. AtMost(x[k], x[n - 1]) /\ x[n - 1] \in Rationals /\ x[n] \in Rationals
    BY <1>2, <1>4, <2>1
  <2>3. AtMost(z, x[n - 1])
    BY <1>4, <2>2, OrderLaws
  <2>4. AtMost(x[n], z) => s0[n] = Zero
    BY <1>20, <2>1, <2>3
  <2> QED
    BY <2>1, <2>3, <2>4
<1>7. share[k] = piece /\ piece \in Rationals
  <2>0. /\ d0[k] \in Rationals /\ s0[k] \in Rationals /\ Zero \in Rationals
        /\ x[k] = Plus(x[k - 1], d0[k])
    BY <1>1, <1>2, ZeroIs DEF Amounts
  <2>1. CASE d0[k] = Zero
    <3>1. s0[k] = Zero
      BY <1>1, <2>1
    <3>2. x[k] = x[k - 1]
      <4>1. \A p \in Rationals : Plus(p, Zero) = p
        BY PlusLaws
      <4> QED
        BY <1>4, <2>0, <2>1, <4>1
    <3>3. AtMost(z, x[k - 1])
      BY <1>4, <3>2
    <3> QED
      BY <2>0, <2>1, <3>1, <3>3
  <2>2. CASE d0[k] # Zero
    <3>1. Minus(z, x[k - 1]) \in Rationals
      BY <1>4, PlusLaws
    <3>2. Part(k) \in Rationals
      <4>1. Times(s0[k], Minus(z, x[k - 1])) \in Rationals
        BY <2>0, <3>1, TimesLaws
      <4> QED
        BY <2>0, <2>2, <4>1, OverIs
    <3>3. AtMost(x[k], z) => Part(k) = s0[k]
      <4> SUFFICES ASSUME AtMost(x[k], z) PROVE Part(k) = s0[k]
        OBVIOUS
      <4>1. z = x[k]
        BY <1>4, OrderLaws
      <4>2. Minus(z, x[k - 1]) = d0[k]
        BY <1>4, <2>0, <4>1, MinusLaws
      <4> QED
        BY <2>0, <2>2, <4>2, OverLaws
    <3>4. AtMost(z, x[k - 1]) => Part(k) = Zero
      <4> SUFFICES ASSUME AtMost(z, x[k - 1]) PROVE Part(k) = Zero
        OBVIOUS
      <4>1. z = x[k - 1]
        BY <1>4, OrderLaws
      <4>2. Minus(z, x[k - 1]) = Zero
        BY <1>4, <4>1, PlusLaws
      <4>3. Times(s0[k], Zero) = Zero
        BY <2>0, TimesLaws
      <4> QED
        BY <2>0, <2>2, <4>2, <4>3, OverLaws
    <3> HIDE DEF Part
    <3> QED
      BY <2>2, <3>2, <3>3, <3>4
  <2> QED
    BY <2>1, <2>2
<1>8. Len(share) = nsmax /\ \A n \in 1..nsmax : share[n] \in Rationals
  <2>1. ASSUME NEW n \in 1..nsmax PROVE share[n] \in Rationals
    <3>1. n \in 1..(k - 1) \/ n = k \/ n \in (k + 1)..nsmax
      BY <1>2, <1>4
    <3>2. s0[n] \in Rationals /\ Zero \in Rationals
      BY <1>1, ZeroIs DEF Amounts
    <3> HIDE DEF share, piece
    <3> QED
      BY <1>5, <1>6, <1>7, <3>1, <3>2
  <2>2. Len(share) = nsmax
    <3>1. share = [n \in 1..nsmax |-> share[n]]
      OBVIOUS
    <3> HIDE DEF share
    <3> QED
      BY <1>2, <2>1, <3>1, SeqDef, LenProperties
  <2> QED
    BY <2>1, <2>2
<1> HIDE DEF share, piece
<1>9. SeqTotal(share) = Totalling(share)[k]
  BY <1>2, <1>4, <1>6, <1>8, TotallingZeros
<1>10. Totalling(share)[k] = Plus(Totalling(share)[k - 1], piece)
  BY <1>2, <1>7, <1>8, TotallingStep
<1>11. Totalling(share)[k - 1] = Totalling(s0)[k - 1]
  <2>1. Len(s0) = nsmax /\ k - 1 \in Nat /\ k - 1 <= nsmax /\ k - 1 \in 0..(k - 1)
    BY <1>1, <1>2, <1>4, RunningIs
  <2>2. \A n \in 0..(k - 1) : Totalling(share)[n] = Totalling(s0)[n]
    BY <1>2, <1>5, <1>8, <2>1, TotallingAgrees
  <2> QED
    BY <2>1, <2>2
<1> QED
  BY <1>3, <1>9, <1>10, <1>11 DEF piece, x

\* The mass above the lower side of an old layer.
LEMMA MassAboveEnds ==
  ASSUME NEW d0, NEW s0, Solid(d0, s0), NEW k \in 0..nsmax
  PROVE  MassAbove(d0, s0, Totalling(d0)[k]) = Totalling(s0)[k]
<1> DEFINE x == Totalling(d0)
           mm == Totalling(s0)
<1>1. d0 \in [1..nsmax -> Amounts] /\ s0 \in [1..nsmax -> Amounts] /\ \A n \in 1..nsmax : d0[n] = Zero => s0[n] = Zero
  BY DEF Solid
<1>2. /\ nsmax \in Nat /\ \A n \in 0..nsmax : x[n] \in Rationals
      /\ \A n \in 1..nsmax : x[n] = Plus(x[n - 1], d0[n])
      /\ \A i, j \in 0..nsmax : i <= j => AtMost(x[i], x[j])
  BY <1>1, RunningIs DEF Amounts
<1>3. /\ \A n \in 0..nsmax : mm[n] \in Rationals
      /\ \A n \in 1..nsmax : mm[n] = Plus(mm[n - 1], s0[n])
  BY <1>1, RunningIs DEF Amounts
<1>4. \A n \in 1..nsmax : d0[n] \in Rationals /\ s0[n] \in Rationals
  BY <1>1 DEF Amounts
<1>5. \A p \in Rationals : Plus(p, Zero) = p /\ Minus(p, p) = Zero
  BY PlusLaws
<1>6. CASE k = 0
  <2>1. 1 \in 1..nsmax /\ 1 - 1 = 0 /\ 0 \in 0..nsmax /\ 1 \in 0..nsmax /\ 0 <= 1
    BY Standards
  <2>2. x[0] \in Rationals /\ AtMost(x[0], x[0]) /\ AtMost(x[0], x[1])
    BY <1>2, <2>1, OrderLaws
  <2>3. MassAbove(d0, s0, x[0])
           = Plus(mm[0], IF d0[1] = Zero THEN Zero ELSE Over(Times(s0[1], Minus(x[0], x[0])), d0[1]))
    BY <2>1, <2>2, MassAboveIs
  <2>4. d0[1] # Zero => Over(Times(s0[1], Minus(x[0], x[0])), d0[1]) = Zero
    <3> SUFFICES ASSUME d0[1] # Zero PROVE Over(Times(s0[1], Minus(x[0], x[0])), d0[1]) = Zero
      OBVIOUS
    <3>1. Minus(x[0], x[0]) = Zero
      BY <1>5, <2>2
    <3>2. Times(s0[1], Zero) = Zero
      BY <1>4, <2>1, TimesLaws
    <3>3. Over(Zero, d0[1]) = Zero
      BY <1>4, <2>1, OverLaws, ZeroIs
    <3> QED
      BY <3>1, <3>2, <3>3
  <2> HIDE DEF x, mm
  <2> QED
    BY <1>3, <1>5, <1>6, <2>1, <2>3, <2>4 DEF x, mm
<1>7. CASE k # 0
  <2>1. k \in 1..nsmax /\ k - 1 \in 0..nsmax /\ k - 1 <= k
    BY <1>2, <1>7
  <2>2. x[k] \in Rationals /\ x[k - 1] \in Rationals /\ AtMost(x[k - 1], x[k]) /\ AtMost(x[k], x[k])
    BY <1>2, <2>1, OrderLaws
  <2>3. MassAbove(d0, s0, x[k])
           = Plus(mm[k - 1], IF d0[k] = Zero THEN Zero ELSE Over(Times(s0[k], Minus(x[k], x[k - 1])), d0[k]))
    BY <2>1, <2>2, MassAboveIs
  <2>4. Minus(x[k], x[k - 1]) = d0[k]
    BY <1>2, <1>4, <2>1, <2>2, MinusLaws
  <2>5. d0[k] # Zero => Over(Times(s0[k], d0[k]), d0[k]) = s0[k]
    BY <1>4, <2>1, OverLaws
  <2> HIDE DEF x, mm
  <2> QED
    BY <1>1, <1>3, <2>1, <2>3, <2>4, <2>5 DEF x, mm
<1> QED
  BY <1>6, <1>7

\* The mass between two depths within an old layer.
LEMMA MassBetween ==
  ASSUME NEW d0, NEW s0, Solid(d0, s0), NEW k \in 1..nsmax, d0[k] # Zero,
         NEW y \in Rationals, NEW e \in Rationals, NEW w \in Rationals, w = Plus(y, e),
         AtMost(Totalling(d0)[k - 1], y), AtMost(y, w), AtMost(w, Totalling(d0)[k])
  PROVE  MassAbove(d0, s0, w) = Plus(MassAbove(d0, s0, y), Over(Times(s0[k], e), d0[k]))
<1> DEFINE x == Totalling(d0)[k - 1]
           u == Totalling(d0)[k]
           t == Totalling(s0)[k - 1]
           d == d0[k]
           m == s0[k]
<1>1. d0 \in [1..nsmax -> Amounts] /\ s0 \in [1..nsmax -> Amounts]
  BY DEF Solid
<1>2. k - 1 \in 0..nsmax /\ k \in 0..nsmax
  BY Standards
<1>3. x \in Rationals /\ u \in Rationals /\ t \in Rationals /\ d \in Rationals /\ m \in Rationals
  BY <1>1, <1>2, RunningIs DEF Amounts
<1>4. AtMost(x, w) /\ AtMost(y, u)
  <2> HIDE DEF x, u
  <2>1. AtMost(x, y) /\ AtMost(w, u)
    BY DEF x, u
  <2> QED
    BY <1>3, <2>1, OrderLaws
<1>5. /\ MassAbove(d0, s0, w) = Plus(t, Over(Times(m, Minus(w, x)), d))
      /\ MassAbove(d0, s0, y) = Plus(t, Over(Times(m, Minus(y, x)), d))
  BY <1>4, MassAboveIs
<1> HIDE DEF x, u, t, m, d
<1>6. d # Zero
  BY DEF d
<1> DEFINE f == Minus(y, x)
<1>7. Minus(w, x) = Plus(f, e) /\ f \in Rationals
  <2>1. \A p, q \in Rationals : Plus(p, q) = Plus(q, p) /\ Minus(p, q) \in Rationals
    BY PlusLaws
  <2>2. \A p, q, r \in Rationals : Plus(p, Minus(q, r)) = Minus(Plus(p, q), r)
    BY MinusLaws
  <2>3. Plus(e, Minus(y, x)) = Minus(Plus(e, y), x)
    BY <1>3, <2>2
  <2> QED
    BY <1>3, <2>1, <2>3
<1> HIDE DEF f
<1>8. Times(m, Plus(f, e)) = Plus(Times(m, f), Times(m, e)) /\ Times(m, f) \in Rationals /\ Times(m, e) \in Rationals
  BY <1>3, <1>7, TimesLaws
<1>9. Over(Plus(Times(m, f), Times(m, e)), d) = Plus(Over(Times(m, f), d), Over(Times(m, e), d))
      /\ Over(Times(m, f), d) \in Rationals /\ Over(Times(m, e), d) \in Rationals
  BY <1>3, <1>6, <1>8, OverLaws
<1>10. \A p, q, r \in Rationals : Plus(p, Plus(q, r)) = Plus(Plus(p, q), r)
  BY PlusLaws
<1> QED
  BY <1>3, <1>5, <1>7, <1>8, <1>9, <1>10 DEF f, m, d

-------------------------------------------------------------------------------
(* The mass that was poured *)

\* The new layers of what is d0 thick in all, the lowest of them and their lower sides.
NewLayers(d0) == Divided(SeqTotal(d0))
Lowest(d0) == LayerCount(SeqTotal(d0))
Sides(d0) == Totalling(NewLayers(d0))

\* They reach as far down as the old layers.
LEMMA DivisionIs ==
  ASSUME NEW d0 \in [1..nsmax -> Amounts]
  PROVE  /\ nsmax \in Nat /\ Lowest(d0) \in 1..nsmax /\ NewLayers(d0) \in [1..nsmax -> Amounts]
         /\ \A n \in 0..nsmax : Sides(d0)[n] \in Rationals
         /\ Sides(d0)[0] = Zero
         /\ \A n \in 1..nsmax : Sides(d0)[n] = Plus(Sides(d0)[n - 1], NewLayers(d0)[n])
         /\ \A m, n \in 0..nsmax : m <= n => AtMost(Sides(d0)[m], Sides(d0)[n])
         /\ \A n \in Lowest(d0)..nsmax : Sides(d0)[n] = SeqTotal(d0)
<1> DEFINE depth == SeqTotal(d0)
           ds == Divided(depth)
           last == LayerCount(depth)
<1>1. depth \in Amounts
  BY RunningIs, Standards
<1> HIDE DEF depth
<1>2. depth \in Rationals
  BY <1>1 DEF Amounts
<1>3. last \in 1..nsmax /\ SeqTotal(ds) = depth /\ \A n \in (last + 1)..nsmax : ds[n] = Zero
  BY <1>2, DividedIs, Zenon
<1>4. ds \in [1..nsmax -> Amounts]
  BY <1>1, DividedAmounts
<1> HIDE DEF ds, last
<1>5. /\ Len(ds) = nsmax /\ nsmax \in Nat
      /\ \A n \in 1..nsmax : ds[n] \in Rationals /\ AtMost(Zero, ds[n])
      /\ \A n \in 0..nsmax : Totalling(ds)[n] \in Amounts
      /\ Totalling(ds)[0] = Zero
      /\ \A n \in 1..nsmax : Totalling(ds)[n] = Plus(Totalling(ds)[n - 1], ds[n])
      /\ \A m, n \in 0..nsmax : m <= n => AtMost(Totalling(ds)[m], Totalling(ds)[n])
  BY <1>4, RunningIs
<1>6. last \in 0..Len(ds)
  BY <1>3, <1>5
<1>7. SeqTotal(ds) = Totalling(ds)[last]
  BY <1>3, <1>5, <1>6, TotallingZeros
<1>8. \A n \in last..nsmax : Totalling(ds)[n] = Totalling(ds)[last]
  BY <1>3, <1>5, <1>6, TotallingStays
<1>9. \A n \in 0..nsmax : Totalling(ds)[n] \in Rationals
  BY <1>5 DEF Amounts
<1> QED
  BY <1>3, <1>4, <1>5, <1>7, <1>8, <1>9 DEF NewLayers, Lowest, Sides, ds, last, depth

Lower(p, q) == IF AtMost(p, q) THEN p ELSE q

\* What was above depth y is in the new layers, of which i is the first with room.
Filled(i, room, mass, y, d0, s0) ==
  /\ room \in [1..nsmax -> Amounts] /\ mass \in [1..nsmax -> Amounts]
  /\ y \in Rationals /\ i \in 1..Lowest(d0)
  /\ AtMost(Sides(d0)[i - 1], y) /\ AtMost(y, Sides(d0)[i])
  /\ room[i] = Minus(Sides(d0)[i], y)
  /\ \A n \in (i + 1)..nsmax : room[n] = NewLayers(d0)[n] /\ mass[n] = Zero
  /\ \A n \in 0..nsmax : Totalling(mass)[n] = MassAbove(d0, s0, Lower(Sides(d0)[n], y))

\* Layer i is filled down to depth w, with the mass e that was between.
Filling(i, room, mass, y, w, e, into, d0, s0) ==
  /\ Filled(i, room, mass, y, d0, s0)
  /\ w \in Rationals /\ AtMost(y, w) /\ AtMost(w, Sides(d0)[i])
  /\ e \in Rationals /\ MassAbove(d0, s0, w) = Plus(MassAbove(d0, s0, y), e)
  /\ into \in [1..nsmax -> Amounts] /\ into[i] = Plus(mass[i], e)
  /\ \A n \in 1..nsmax : n # i => into[n] = mass[n]

\* One new layer is filled, down to depth w: above it there is what was above w.
LEMMA FillOne ==
  ASSUME NEW d0, NEW s0, Solid(d0, s0), NEW i, NEW room, NEW mass, NEW y, NEW w, NEW e, NEW into,
         Filling(i, room, mass, y, w, e, into, d0, s0)
  PROVE  \A n \in 0..nsmax : Totalling(into)[n] = MassAbove(d0, s0, Lower(Sides(d0)[n], w))
<1> DEFINE z == Sides(d0)
           F(v) == MassAbove(d0, s0, v)
           was == Totalling(mass)
           goes == Totalling(into)
<1>1. /\ mass \in [1..nsmax -> Amounts] /\ y \in Rationals /\ i \in 1..Lowest(d0)
      /\ AtMost(z[i - 1], y) /\ AtMost(y, z[i])
      /\ \A n \in (i + 1)..nsmax : mass[n] = Zero
      /\ \A n \in 0..nsmax : was[n] = F(Lower(z[n], y))
  BY DEF Filling, Filled
<1>0. /\ w \in Rationals /\ AtMost(y, w) /\ AtMost(w, z[i])
      /\ e \in Rationals /\ F(w) = Plus(F(y), e)
      /\ into \in [1..nsmax -> Amounts] /\ into[i] = Plus(mass[i], e)
      /\ \A n \in 1..nsmax : n # i => into[n] = mass[n]
  BY DEF Filling
<1>2. /\ nsmax \in Nat /\ Lowest(d0) \in 1..nsmax
      /\ \A n \in 0..nsmax : z[n] \in Rationals
      /\ \A m, n \in 0..nsmax : m <= n => AtMost(z[m], z[n])
  BY DivisionIs DEF Solid
<1>3. /\ Len(mass) = nsmax /\ \A n \in 1..nsmax : mass[n] \in Rationals
      /\ \A n \in 0..nsmax : was[n] \in Rationals
      /\ \A n \in 1..nsmax : was[n] = Plus(was[n - 1], mass[n])
  BY <1>1, RunningIs DEF Amounts
<1>4. /\ Len(into) = nsmax /\ \A n \in 1..nsmax : into[n] \in Rationals
      /\ \A n \in 0..nsmax : goes[n] \in Rationals
      /\ \A n \in 1..nsmax : goes[n] = Plus(goes[n - 1], into[n])
  BY <1>0, RunningIs DEF Amounts
<1>5. i \in 1..nsmax /\ i - 1 \in 0..nsmax /\ i \in 0..nsmax /\ i \in Nat /\ i - 1 \in Nat
  BY <1>1, <1>2
<1>6. into[i] = Plus(mass[i], e) /\ \A n \in 1..nsmax : n # i => into[n] = mass[n]
  BY <1>0
<1>7. AtMost(w, z[i])
  BY <1>0
<1> HIDE DEF z, F, was, goes
<1>8. \A p, q, r \in Rationals : AtMost(p, q) /\ AtMost(q, r) => AtMost(p, r)
  BY OrderLaws
<1>9. \A p, q \in Rationals : AtMost(p, q) /\ AtMost(q, p) => p = q
  BY OrderLaws
<1>10. \A n \in 0..(i - 1) : goes[n] = was[n]
  <2> DEFINE j == i - 1
  <2>1. \A n \in 1..j : into[n] = mass[n]
    <3>1. \A n \in 1..j : n \in 1..nsmax /\ n # i
      BY <1>2, <1>5
    <3> HIDE DEF j
    <3> QED
      BY <1>6, <3>1
  <2>2. j \in Nat /\ j <= Len(into) /\ j <= Len(mass) /\ Len(into) \in Nat /\ Len(mass) \in Nat
    <3>1. j \in Nat /\ j <= nsmax /\ Len(into) = nsmax /\ Len(mass) = nsmax /\ nsmax \in Nat
      BY <1>2, <1>3, <1>4, <1>5
    <3> HIDE DEF j
    <3> QED
      BY <3>1
  <2> HIDE DEF j
  <2>3. \A n \in 0..j : Totalling(into)[n] = Totalling(mass)[n]
    BY <2>1, <2>2, TotallingAgrees
  <2> QED
    BY <2>3 DEF goes, was, j
<1>11. ASSUME NEW n \in 0..(i - 1) PROVE goes[n] = F(Lower(z[n], w))
  <2>1. n \in 0..nsmax /\ n <= i - 1
    BY <1>2, <1>5
  <2>2. AtMost(z[n], z[i - 1]) /\ z[n] \in Rationals /\ z[i - 1] \in Rationals
    BY <1>2, <1>5, <2>1
  <2>3. AtMost(z[n], y)
    BY <1>0, <1>1, <1>8, <2>2
  <2>4. AtMost(z[n], w)
    BY <1>0, <1>1, <1>8, <2>2, <2>3
  <2> QED
    BY <1>1, <1>10, <2>1, <2>3, <2>4 DEF Lower
<1>12. goes[i] = F(w)
  <2>1. goes[i] = Plus(was[i - 1], Plus(mass[i], e))
    BY <1>0, <1>4, <1>5, <1>6, <1>10
  <2>2. Plus(was[i - 1], Plus(mass[i], e)) = Plus(Plus(was[i - 1], mass[i]), e)
    <3>1. \A p, q, r \in Rationals : Plus(p, Plus(q, r)) = Plus(Plus(p, q), r)
      BY PlusLaws
    <3> QED
      BY <1>0, <1>3, <1>5, <3>1
  <2>3. goes[i] = Plus(was[i], e)
    BY <1>3, <1>5, <2>1, <2>2
  <2>4. was[i] = F(y)
    <3>1. Lower(z[i], y) = y
      BY <1>1, <1>2, <1>5, <1>9 DEF Lower
    <3> QED
      BY <1>1, <1>5, <3>1
  <2> QED
    BY <1>0, <2>3, <2>4 DEF F
<1>13. ASSUME NEW n \in i..nsmax PROVE goes[n] = F(Lower(z[n], w))
  <2>1. \A k \in (i + 1)..nsmax : into[k] = Zero
    <3>1. \A k \in (i + 1)..nsmax : k \in 1..nsmax /\ k # i
      BY <1>2, <1>5
    <3> QED
      BY <1>1, <1>6, <3>1
  <2>2. goes[n] = goes[i]
    <3>1. Len(into) \in Nat /\ i \in 0..Len(into) /\ n \in i..Len(into)
      BY <1>2, <1>4, <1>5
    <3>2. /\ \A k \in 1..Len(into) : into[k] \in Rationals
          /\ \A k \in (i + 1)..Len(into) : into[k] = Zero
      BY <1>4, <2>1
    <3>3. \A k \in i..Len(into) : Totalling(into)[k] = Totalling(into)[i]
      BY <3>1, <3>2, TotallingStays
    <3> QED
      BY <3>1, <3>3 DEF goes
  <2>3. n \in 0..nsmax /\ i <= n
    BY <1>2, <1>5
  <2>4. AtMost(z[i], z[n]) /\ z[i] \in Rationals /\ z[n] \in Rationals
    BY <1>2, <1>5, <2>3
  <2>5. AtMost(w, z[n])
    BY <1>0, <1>7, <1>8, <2>4
  <2>6. Lower(z[n], w) = w
    BY <1>0, <1>9, <2>4, <2>5 DEF Lower
  <2> QED
    BY <1>12, <2>2, <2>6
<1>14. \A n \in 0..nsmax : n \in 0..(i - 1) \/ n \in i..nsmax
  BY <1>2, <1>5
<1> QED
  BY <1>11, <1>13, <1>14 DEF goes, F, z

\* Old layer k is poured over the first n new layers: down to depth y its mass is in them.
Going(b, n, k, y, d0, s0) ==
  /\ b \in Pouring(d0[k])
  /\ Filled(b.iznew, b.room, b.mass, y, d0, s0)
  /\ AtMost(Totalling(d0)[k - 1], y) /\ AtMost(y, Totalling(d0)[k])
  /\ IF b.done THEN y = Totalling(d0)[k] ELSE b.left = Minus(Totalling(d0)[k], y) /\ n < b.iznew

\* It is poured over one more.
LEMMA GoesOn ==
  ASSUME NEW d0, NEW s0, Solid(d0, s0), NEW k \in 1..nsmax, NEW n \in 1..Lowest(d0),
         NEW a, NEW y, Going(a, n - 1, k, y, d0, s0)
  PROVE  \E w : Going(PourInto(d0[k], s0[k], a, n), n, k, w, d0, s0)
<1> DEFINE x == Totalling(d0)
           z == Sides(d0)
           b == PourInto(d0[k], s0[k], a, n)
           F(v) == MassAbove(d0, s0, v)
<1>1. d0 \in [1..nsmax -> Amounts] /\ s0 \in [1..nsmax -> Amounts]
  BY DEF Solid
<1>2. /\ nsmax \in Nat /\ Lowest(d0) \in 1..nsmax /\ NewLayers(d0) \in [1..nsmax -> Amounts]
      /\ \A m \in 0..nsmax : z[m] \in Rationals
      /\ \A m \in 1..nsmax : z[m] = Plus(z[m - 1], NewLayers(d0)[m])
      /\ \A l, m \in 0..nsmax : l <= m => AtMost(z[l], z[m])
      /\ \A m \in Lowest(d0)..nsmax : z[m] = SeqTotal(d0)
  BY <1>1, DivisionIs
<1>3. /\ \A m \in 0..nsmax : x[m] \in Rationals
      /\ \A l, m \in 0..nsmax : l <= m => AtMost(x[l], x[m])
      /\ SeqTotal(d0) = x[nsmax]
  BY <1>1, RunningIs DEF Amounts
<1>4. /\ a \in [left : Amounts, done : BOOLEAN, iznew : Nat,
                room : [1..nsmax -> Amounts], mass : [1..nsmax -> Amounts]]
      /\ d0[k] = Zero => a.left = Zero
      /\ a \in Pouring(d0[k])
  BY DEF Going, Pouring
<1>5. /\ Filled(a.iznew, a.room, a.mass, y, d0, s0)
      /\ AtMost(x[k - 1], y) /\ AtMost(y, x[k])
      /\ IF a.done THEN y = x[k] ELSE a.left = Minus(x[k], y) /\ n - 1 < a.iznew
  BY DEF Going
<1>6. /\ k - 1 \in 0..nsmax /\ k \in 0..nsmax /\ n \in Nat /\ n \in 1..nsmax /\ nsmax \in 0..nsmax
      /\ d0[k] \in Amounts /\ s0[k] \in Amounts
  BY <1>1, <1>2
<1>7. b \in Pouring(d0[k])
  BY <1>4, <1>6, PourIntoIs
<1>8. CASE a.done \/ n < a.iznew
  <2>1. b = a
    BY <1>8 DEF PourInto
  <2>2. a.iznew \in Nat
    BY <1>4
  <2>3. Going(a, n, k, y, d0, s0)
    BY <1>4, <1>5, <1>6, <1>8, <2>2 DEF Going
  <2> QED
    BY <2>1, <2>3
<1>9. CASE ~(a.done \/ n < a.iznew)
  <2>1. ~a.done /\ a.iznew = n /\ a.left = Minus(x[k], y)
    BY <1>4, <1>5, <1>6, <1>9
  <2>2. /\ a.room \in [1..nsmax -> Amounts] /\ a.mass \in [1..nsmax -> Amounts]
        /\ y \in Rationals
        /\ AtMost(z[n - 1], y) /\ AtMost(y, z[n])
        /\ a.room[n] = Minus(z[n], y)
        /\ \A m \in (n + 1)..nsmax : a.room[m] = NewLayers(d0)[m] /\ a.mass[m] = Zero
    BY <1>5, <2>1 DEF Filled
  <2>3. /\ z[n] \in Rationals /\ x[k] \in Rationals /\ x[k - 1] \in Rationals
        /\ a.room[n] \in Rationals /\ a.left \in Rationals /\ a.mass[n] \in Rationals
    <3>1. z[n] \in Rationals /\ x[k] \in Rationals /\ x[k - 1] \in Rationals
      BY <1>2, <1>3, <1>6
    <3>2. a.room[n] \in Amounts /\ a.left \in Amounts /\ a.mass[n] \in Amounts
      BY <1>4, <1>6
    <3> HIDE DEF x, z
    <3> QED
      BY <3>1, <3>2 DEF Amounts
  <2>4. Filled(n, a.room, a.mass, y, d0, s0)
    BY <1>5, <2>1
  <2>5. (Less(a.room[n], a.left) <=> Less(z[n], x[k]))
    <3> HIDE DEF x, z
    <3> QED
      BY <2>1, <2>2, <2>3, MinusLaws
  <2>6. CASE Less(a.room[n], a.left)
    <3> DEFINE e == Over(Times(s0[k], a.room[n]), d0[k])
    <3>1. AtMost(z[n], x[k])
      <4> HIDE DEF x, z
      <4> QED
        BY <2>3, <2>5, <2>6, OrderLaws
    <3>2. d0[k] # Zero
      <4>1. a.left # Zero
        <5>1. AtMost(Zero, a.room[n])
          BY <1>4, <1>6 DEF Amounts
        <5> QED
          BY <2>3, <2>6, <5>1, ZeroIs, OrderLaws
      <4> QED
        BY <1>4, <4>1
    <3>3. z[n] = Plus(y, a.room[n])
      <4>1. Plus(y, Minus(z[n], y)) = z[n]
        <5>1. \A p, q \in Rationals : Plus(p, Minus(q, p)) = q
          BY PlusLaws
        <5> HIDE DEF z
        <5> QED
          BY <2>2, <2>3, <5>1
      <4> QED
        BY <2>2, <4>1
    <3>4. F(z[n]) = Plus(F(y), e)
      BY <1>5, <2>2, <2>3, <3>1, <3>2, <3>3, MassBetween
    <3>5. e \in Rationals
      <4>1. s0[k] \in Rationals /\ d0[k] \in Rationals
        BY <1>6 DEF Amounts
      <4>2. Times(s0[k], a.room[n]) \in Rationals
        BY <2>3, <4>1, TimesLaws
      <4> QED
        BY <3>2, <4>1, <4>2, OverIs
    <3>6. b = [a EXCEPT !.left = Minus(@, a.room[n]), !.iznew = n + 1, !.mass[n] = Plus(@, e)]
      BY <2>1, <2>6 DEF PourInto
    <3> HIDE DEF e, b
    <3>7. /\ b.left = Minus(a.left, a.room[n]) /\ b.iznew = n + 1 /\ b.done = a.done /\ b.room = a.room
          /\ b.mass = [a.mass EXCEPT ![n] = Plus(@, e)]
      BY <1>4, <3>6
    <3>8. b.mass \in [1..nsmax -> Amounts]
      BY <1>7 DEF Pouring
    <3>9. b.mass[n] = Plus(a.mass[n], e) /\ \A m \in 1..nsmax : m # n => b.mass[m] = a.mass[m]
      BY <1>6, <2>2, <3>7
    <3>10. AtMost(z[n], z[n])
      <4> HIDE DEF z
      <4> QED
        BY <2>3, OrderLaws
    <3>11. \A m \in 0..nsmax : Totalling(b.mass)[m] = F(Lower(z[m], z[n]))
      <4> DEFINE into == b.mass
                 mass == a.mass
                 room == a.room
                 w == z[n]
      <4>1. /\ into \in [1..nsmax -> Amounts] /\ into[n] = Plus(mass[n], e)
            /\ \A m \in 1..nsmax : m # n => into[m] = mass[m]
        BY <3>8, <3>9
      <4>2. /\ w \in Rationals /\ AtMost(y, w) /\ AtMost(w, Sides(d0)[n]) /\ e \in Rationals
            /\ MassAbove(d0, s0, w) = Plus(MassAbove(d0, s0, y), e)
            /\ Filled(n, room, mass, y, d0, s0)
        BY <2>2, <2>3, <2>4, <3>4, <3>5, <3>10
      <4> HIDE DEF into, mass, room, w, z
      <4>3. Filling(n, room, mass, y, w, e, into, d0, s0)
        BY <4>1, <4>2 DEF Filling
      <4>4. \A m \in 0..nsmax : Totalling(into)[m] = MassAbove(d0, s0, Lower(Sides(d0)[m], w))
        BY <4>3, FillOne
      <4> QED
        BY <4>4 DEF into, w, z
    <3>12. n + 1 \in 1..Lowest(d0) /\ n + 1 \in 1..nsmax
      <4>1. n # Lowest(d0)
        <5> SUFFICES ASSUME n = Lowest(d0) PROVE FALSE
          OBVIOUS
        <5>1. z[n] = x[nsmax]
          BY <1>2, <1>3, <1>6
        <5>2. AtMost(x[k], x[nsmax]) /\ x[nsmax] \in Rationals
          BY <1>2, <1>3, <1>6
        <5> HIDE DEF x, z
        <5> QED
          BY <2>3, <2>5, <2>6, <5>1, <5>2, OrderLaws
      <4> QED
        BY <1>2, <1>6, <4>1
    <3>13. b.room[n + 1] = Minus(z[n + 1], z[n])
      <4>1. n + 1 \in (n + 1)..nsmax /\ n + 1 \in 1..nsmax /\ (n + 1) - 1 = n
        BY <1>2, <1>6, <3>12
      <4>2. b.room[n + 1] = NewLayers(d0)[n + 1] /\ NewLayers(d0)[n + 1] \in Rationals
        BY <1>2, <2>2, <3>7, <4>1 DEF Amounts
      <4>3. z[n + 1] = Plus(z[n], NewLayers(d0)[n + 1]) /\ z[n + 1] \in Rationals
        BY <1>2, <4>1
      <4> HIDE DEF z
      <4> QED
        BY <2>3, <4>2, <4>3, MinusLaws
    <3>14. \A m \in (n + 2)..nsmax : b.room[m] = NewLayers(d0)[m] /\ b.mass[m] = Zero
      <4>1. \A m \in (n + 2)..nsmax : m \in (n + 1)..nsmax /\ m \in 1..nsmax /\ m # n
        BY <1>2, <1>6
      <4> QED
        BY <2>2, <3>7, <3>9, <4>1
    <3>15. AtMost(z[n], z[n + 1]) /\ (n + 1) - 1 = n /\ (n + 1) + 1 = n + 2
      BY <1>2, <1>6, <3>12
    <3>16. Filled(n + 1, b.room, b.mass, z[n], d0, s0)
      <4>1. AtMost(z[(n + 1) - 1], z[n]) /\ AtMost(z[n], z[n + 1])
        BY <3>10, <3>15
      <4>2. \A m \in ((n + 1) + 1)..nsmax : b.room[m] = NewLayers(d0)[m] /\ b.mass[m] = Zero
        BY <3>14, <3>15
      <4> QED
        BY <2>2, <2>3, <3>7, <3>8, <3>11, <3>12, <3>13, <4>1, <4>2 DEF Filled
    <3>17. b.left = Minus(x[k], z[n])
      <4> HIDE DEF x, z
      <4> QED
        BY <2>1, <2>2, <2>3, <3>7, MinusLaws
    <3>18. AtMost(x[k - 1], z[n])
      <4> HIDE DEF x, z
      <4>1. AtMost(x[k - 1], y)
        BY <1>5
      <4> QED
        BY <2>2, <2>3, <4>1, OrderLaws
    <3>19. Going(b, n, k, z[n], d0, s0)
      BY <1>6, <1>7, <2>1, <3>1, <3>7, <3>16, <3>17, <3>18 DEF Going
    <3> QED
      BY <3>19 DEF b
  <2>7. CASE ~Less(a.room[n], a.left)
    <3> DEFINE e == IF d0[k] = Zero THEN Zero ELSE Over(Times(s0[k], a.left), d0[k])
    <3>1. AtMost(x[k], z[n])
      <4> HIDE DEF x, z
      <4> QED
        BY <2>3, <2>5, <2>7, OrderLaws
    <3>2. x[k] = Plus(y, a.left) /\ AtMost(x[k], x[k])
      <4>1. Plus(y, Minus(x[k], y)) = x[k]
        <5>1. \A p, q \in Rationals : Plus(p, Minus(q, p)) = q
          BY PlusLaws
        <5> HIDE DEF x
        <5> QED
          BY <2>2, <2>3, <5>1
      <4> HIDE DEF x
      <4> QED
        BY <2>1, <2>3, <4>1, OrderLaws
    <3>3. F(x[k]) = Plus(F(y), e) /\ e \in Rationals
      <4>1. CASE d0[k] = Zero
        <5>1. a.left = Zero
          BY <1>4, <4>1
        <5>2. x[k] = y
          BY <2>2, <3>2, <5>1, PlusLaws
        <5>3. F(y) \in Rationals
          <6>1. F(y) = F(x[k]) /\ F(x[k]) = Totalling(s0)[k]
            BY <1>6, <5>2, MassAboveEnds
          <6>2. Totalling(s0)[k] \in Rationals
            BY <1>1, <1>6, RunningIs DEF Amounts
          <6> QED
            BY <6>1, <6>2
        <5>4. Plus(F(y), Zero) = F(y)
          <6> HIDE DEF F
          <6> QED
            BY <5>3, PlusLaws
        <5> QED
          BY <4>1, <5>2, <5>4, ZeroIs
      <4>2. CASE d0[k] # Zero
        <5>1. F(x[k]) = Plus(F(y), Over(Times(s0[k], a.left), d0[k]))
          BY <1>5, <2>2, <2>3, <3>2, <4>2, MassBetween
        <5>2. s0[k] \in Rationals /\ d0[k] \in Rationals
          BY <1>6 DEF Amounts
        <5>3. Times(s0[k], a.left) \in Rationals
          BY <2>3, <5>2, TimesLaws
        <5>4. Over(Times(s0[k], a.left), d0[k]) \in Rationals
          BY <4>2, <5>2, <5>3, OverIs
        <5> QED
          BY <4>2, <5>1, <5>4
      <4> QED
        BY <4>1, <4>2
    <3>4. b = [a EXCEPT !.done = TRUE, !.room[n] = Minus(@, a.left),
                        !.mass[n] = IF d0[k] = Zero THEN @ ELSE Plus(@, e)]
      BY <2>1, <2>7 DEF PourInto, RoomLeft
    <3>5. (IF d0[k] = Zero THEN a.mass[n] ELSE Plus(a.mass[n], e)) = Plus(a.mass[n], e)
      <4>1. Plus(a.mass[n], Zero) = a.mass[n]
        BY <2>3, PlusLaws
      <4> QED
        BY <4>1
    <3> HIDE DEF e, b
    <3>6. /\ b.left = a.left /\ b.iznew = n /\ b.done = TRUE
          /\ b.room = [a.room EXCEPT ![n] = Minus(@, a.left)]
          /\ b.mass = [a.mass EXCEPT ![n] = IF d0[k] = Zero THEN @ ELSE Plus(@, e)]
      BY <1>4, <2>1, <3>4
    <3>7. b.mass \in [1..nsmax -> Amounts] /\ b.room \in [1..nsmax -> Amounts]
      BY <1>7 DEF Pouring
    <3>8. /\ b.mass[n] = Plus(a.mass[n], e) /\ \A m \in 1..nsmax : m # n => b.mass[m] = a.mass[m]
          /\ b.room[n] = Minus(a.room[n], a.left) /\ \A m \in 1..nsmax : m # n => b.room[m] = a.room[m]
      <4>1. b.mass[n] = IF d0[k] = Zero THEN a.mass[n] ELSE Plus(a.mass[n], e)
        BY <1>6, <2>2, <3>6
      <4>2. b.room[n] = Minus(a.room[n], a.left)
        BY <1>6, <2>2, <3>6
      <4>3. \A m \in 1..nsmax : m # n => b.mass[m] = a.mass[m] /\ b.room[m] = a.room[m]
        BY <1>6, <2>2, <3>6
      <4> QED
        BY <3>5, <4>1, <4>2, <4>3
    <3>9. \A m \in 0..nsmax : Totalling(b.mass)[m] = F(Lower(z[m], x[k]))
      <4> DEFINE into == b.mass
                 mass == a.mass
                 room == a.room
                 w == x[k]
      <4>1. /\ into \in [1..nsmax -> Amounts] /\ into[n] = Plus(mass[n], e)
            /\ \A m \in 1..nsmax : m # n => into[m] = mass[m]
        BY <3>7, <3>8
      <4>2. /\ w \in Rationals /\ AtMost(y, w) /\ AtMost(w, Sides(d0)[n]) /\ e \in Rationals
            /\ MassAbove(d0, s0, w) = Plus(MassAbove(d0, s0, y), e)
            /\ Filled(n, room, mass, y, d0, s0)
        BY <1>5, <2>2, <2>3, <2>4, <3>1, <3>3
      <4> HIDE DEF into, mass, room, w, z
      <4>3. Filling(n, room, mass, y, w, e, into, d0, s0)
        BY <4>1, <4>2 DEF Filling
      <4>4. \A m \in 0..nsmax : Totalling(into)[m] = MassAbove(d0, s0, Lower(Sides(d0)[m], w))
        BY <4>3, FillOne
      <4> QED
        BY <4>4 DEF into, w, z
    <3>10. b.room[n] = Minus(z[n], x[k])
      <4>1. \A p, q, r \in Rationals : Minus(Minus(p, q), Minus(r, q)) = Minus(p, r)
        BY MinusLaws
      <4> HIDE DEF x, z
      <4> QED
        BY <2>1, <2>2, <2>3, <3>8, <4>1
    <3>11. \A m \in (n + 1)..nsmax : b.room[m] = NewLayers(d0)[m] /\ b.mass[m] = Zero
      <4>1. \A m \in (n + 1)..nsmax : m \in 1..nsmax /\ m # n
        BY <1>2, <1>6
      <4> QED
        BY <2>2, <3>8, <4>1
    <3>12. AtMost(z[n - 1], x[k])
      <4>1. n - 1 \in 0..nsmax
        BY <1>6
      <4>2. z[n - 1] \in Rationals /\ AtMost(y, x[k])
        BY <1>2, <1>5, <4>1
      <4> HIDE DEF x, z
      <4> QED
        BY <2>2, <2>3, <4>2, OrderLaws
    <3>13. Filled(n, b.room, b.mass, x[k], d0, s0)
      BY <2>3, <3>1, <3>7, <3>9, <3>10, <3>11, <3>12 DEF Filled
    <3>14. AtMost(x[k - 1], x[k])
      BY <1>3, <1>6
    <3>15. Going(b, n, k, x[k], d0, s0)
      BY <1>7, <3>2, <3>6, <3>13, <3>14 DEF Going
    <3> QED
      BY <3>15 DEF b
  <2> QED
    BY <2>6, <2>7
<1> QED
  BY <1>8, <1>9

\* A state between two old layers, of which k are in the new layers.
Rests(a, k, d0, s0) ==
  /\ a \in Pouring(Q(1))
  /\ Filled(a.iznew, a.room, a.mass, Totalling(d0)[k], d0, s0)

\* The next is poured.
LEMMA LayerPoured ==
  ASSUME NEW d0, NEW s0, Solid(d0, s0), NEW k \in 1..nsmax, NEW a, Rests(a, k - 1, d0, s0)
  PROVE  Rests(Poured(d0[k], s0[k], a, Lowest(d0)), k, d0, s0)
<1> DEFINE x == Totalling(d0)
           last == Lowest(d0)
<1>1. d0 \in [1..nsmax -> Amounts] /\ s0 \in [1..nsmax -> Amounts]
  BY DEF Solid
<1>2. nsmax \in Nat /\ last \in 1..nsmax
  BY <1>1, DivisionIs
<1>3. a \in Pouring(Q(1)) /\ Filled(a.iznew, a.room, a.mass, x[k - 1], d0, s0)
  BY DEF Rests
<1>4. PICK run : PouringRun(run, d0[k], s0[k], a, last)
  <2>1. d0[k] \in Amounts /\ s0[k] \in Amounts
    BY <1>1
  <2> QED
    BY <1>2, <1>3, <2>1, PouredIs
<1>5. /\ run[0] = [a EXCEPT !.left = d0[k], !.done = FALSE] /\ run[0] \in Pouring(d0[k])
      /\ \A n \in 1..last : run[n] = PourInto(d0[k], s0[k], run[n - 1], n)
      /\ Poured(d0[k], s0[k], a, last) = run[last]
  BY <1>2, <1>4 DEF PouringRun
<1>6. /\ k - 1 \in 0..nsmax /\ k \in 0..nsmax
      /\ x[k - 1] \in Rationals /\ x[k] \in Rationals
      /\ AtMost(x[k - 1], x[k]) /\ x[k] = Plus(x[k - 1], d0[k]) /\ d0[k] \in Rationals
  BY <1>1, RunningIs DEF Amounts
<1>7. Going(run[0], 0, k, x[k - 1], d0, s0)
  <2>1. a \in [left : Amounts, done : BOOLEAN, iznew : Nat,
                room : [1..nsmax -> Amounts], mass : [1..nsmax -> Amounts]]
    BY <1>3 DEF Pouring
  <2>2. /\ run[0].left = d0[k] /\ run[0].done = FALSE /\ run[0].iznew = a.iznew
        /\ run[0].room = a.room /\ run[0].mass = a.mass
    BY <1>5, <2>1
  <2>3. d0[k] = Minus(x[k], x[k - 1]) /\ AtMost(x[k - 1], x[k - 1])
    <3> HIDE DEF x
    <3> QED
      BY <1>6, MinusLaws, OrderLaws
  <2>4. 0 < a.iznew
    BY <1>2, <1>3 DEF Filled
  <2> QED
    BY <1>3, <1>5, <1>6, <2>2, <2>3, <2>4 DEF Going
<1> DEFINE Good == {n \in 0..last : \E y : Going(run[n], n, k, y, d0, s0)}
<1>8. 0 \in Good
  BY <1>2, <1>7
<1>9. ASSUME NEW n \in 0..(last - 1), n \in Good PROVE n + 1 \in Good
  <2>1. PICK y : Going(run[n], n, k, y, d0, s0)
    BY <1>9
  <2>2. n + 1 \in 1..last /\ (n + 1) - 1 = n /\ n + 1 \in 0..last
    BY <1>2
  <2>3. \E w : Going(PourInto(d0[k], s0[k], run[n], n + 1), n + 1, k, w, d0, s0)
    BY <2>1, <2>2, GoesOn
  <2>4. run[n + 1] = PourInto(d0[k], s0[k], run[n], n + 1)
    BY <1>5, <2>2
  <2> QED
    BY <2>2, <2>3, <2>4
<1>10. last \in Good
  <2> HIDE DEF Good
  <2>1. last \in Nat /\ last \in 0..last
    BY <1>2
  <2> HIDE DEF last
  <2>2. \A n \in 0..last : n \in Good
    BY <1>8, <1>9, <2>1, OneByOne
  <2> QED
    BY <2>1, <2>2
<1>11. PICK y : Going(run[last], last, k, y, d0, s0)
  BY <1>10
<1>12. run[last].iznew \in 1..last
  BY <1>11 DEF Going, Filled
<1>13. y = x[k]
  BY <1>2, <1>11, <1>12 DEF Going
<1>14. run[last] \in Pouring(Q(1))
  <2>1. run[last] \in Pouring(d0[k]) /\ Q(1) # Zero
    <3>1. Q(1) # Zero
      BY DEF Q, Zero
    <3> QED
      BY <1>11, <3>1 DEF Going
  <2> QED
    BY <2>1 DEF Pouring
<1> QED
  <2>1. Filled(run[last].iznew, run[last].room, run[last].mass, x[k], d0, s0)
    BY <1>11, <1>13 DEF Going
  <2> QED
    BY <1>5, <1>14, <2>1 DEF Rests

\* The masses of the layers that have none are nothing, and above every lower side of a new layer
\* there is the mass that was there.
LEMMA RelayerProfile ==
  ASSUME NEW d0, NEW s0, Solid(d0, s0)
  PROVE  /\ Relayer(d0, s0) \in [1..nsmax -> Amounts]
         /\ \A n \in 0..nsmax : Totalling(Relayer(d0, s0))[n] = MassAbove(d0, s0, Sides(d0)[n])
<1> DEFINE x == Totalling(d0)
           z == Sides(d0)
           mass == Relayer(d0, s0)
           base == [left |-> Zero, done |-> FALSE, iznew |-> 1,
                    room |-> NewLayers(d0), mass |-> NoLayers]
<1>1. d0 \in [1..nsmax -> Amounts] /\ s0 \in [1..nsmax -> Amounts]
  BY DEF Solid
<1>2. /\ nsmax \in Nat /\ Lowest(d0) \in 1..nsmax /\ NewLayers(d0) \in [1..nsmax -> Amounts]
      /\ \A m \in 0..nsmax : z[m] \in Rationals
      /\ z[0] = Zero
      /\ \A m \in 1..nsmax : z[m] = Plus(z[m - 1], NewLayers(d0)[m])
      /\ \A l, m \in 0..nsmax : l <= m => AtMost(z[l], z[m])
      /\ \A m \in Lowest(d0)..nsmax : z[m] = SeqTotal(d0)
  BY <1>1, DivisionIs
<1>3. /\ \A m \in 0..nsmax : x[m] \in Rationals
      /\ SeqTotal(d0) = x[nsmax] /\ x[0] = Zero /\ SeqTotal(d0) \in Amounts
  BY <1>1, RunningIs, Standards, SMTT(40) DEF Amounts
<1>4. PICK run : RelayerRun(run, d0, s0)
  BY <1>1, <1>3, RelayerIs
<1>5. /\ run \in [0..nsmax -> Pouring(Q(1))] /\ run[0] = base
      /\ \A n \in 1..nsmax : run[n] = Poured(d0[n], s0[n], run[n - 1], Lowest(d0))
      /\ mass = run[nsmax].mass
  BY <1>4 DEF RelayerRun, Lowest, NewLayers
<1>6. Rests(run[0], 0, d0, s0)
  <2>1. run[0] \in Pouring(Q(1))
    <3>1. 0 \in 0..nsmax
      BY <1>2
    <3> QED
      BY <1>5, <3>1
  <2>2. /\ NoLayers \in [1..nsmax -> Amounts] /\ \A n \in 1..nsmax : NoLayers[n] = Zero
        /\ Zero \in Rationals /\ AtMost(Zero, Zero)
    BY AmountLaws DEF NoLayers, Amounts
  <2>3. 1 \in 1..Lowest(d0) /\ 1 - 1 = 0 /\ 1 \in 1..nsmax /\ 1 \in 0..nsmax /\ 0 \in 0..nsmax /\ 0 <= 1
    BY <1>2
  <2>4. AtMost(z[0], z[1]) /\ z[1] = Plus(z[0], NewLayers(d0)[1]) /\ NewLayers(d0)[1] \in Rationals
    BY <1>2, <2>3 DEF Amounts
  <2>5. NewLayers(d0)[1] = Minus(z[1], Zero)
    <3> HIDE DEF z
    <3>1. \A p \in Rationals : Plus(Zero, p) = p /\ Minus(p, Zero) = p
      BY PlusLaws
    <3> QED
      BY <1>2, <2>4, <3>1
  <2>6. ASSUME NEW n \in 0..nsmax
        PROVE  Totalling(NoLayers)[n] = MassAbove(d0, s0, Lower(z[n], Zero))
    <3>1. Lower(z[n], Zero) = Zero
      <4>1. AtMost(Zero, z[n]) /\ z[n] \in Rationals
        <5>1. 0 \in 0..nsmax /\ 0 <= n
          BY <1>2
        <5> QED
          BY <1>2, <5>1
      <4> HIDE DEF z
      <4> QED
        BY <2>2, <4>1, OrderLaws DEF Lower
    <3>2. MassAbove(d0, s0, x[0]) = Totalling(s0)[0]
      BY <2>3, MassAboveEnds
    <3>3. Totalling(s0)[0] = Zero
      BY <1>1, RunningIs
    <3>4. Totalling(NoLayers)[n] = Totalling(NoLayers)[0] /\ Totalling(NoLayers)[0] = Zero
      <4> DEFINE none == NoLayers
      <4>1. none \in [1..nsmax -> Amounts] /\ \A k \in 1..nsmax : none[k] = Zero
        BY <2>2
      <4> HIDE DEF none
      <4>2. /\ Len(none) = nsmax /\ Totalling(none)[0] = Zero
            /\ \A k \in 1..nsmax : none[k] \in Rationals
        BY <4>1, RunningIs
      <4>3. Len(none) \in Nat /\ 0 \in 0..Len(none) /\ n \in 0..Len(none)
        BY <1>2, <4>2
      <4>4. /\ \A k \in 1..Len(none) : none[k] \in Rationals
            /\ \A k \in (0 + 1)..Len(none) : none[k] = Zero
        BY <4>1, <4>2
      <4>5. \A k \in 0..Len(none) : Totalling(none)[k] = Totalling(none)[0]
        BY <4>3, <4>4, TotallingStays
      <4> QED
        BY <4>2, <4>3, <4>5 DEF none
    <3> QED
      BY <1>3, <3>1, <3>2, <3>3, <3>4
  <2>7. \A n \in (1 + 1)..nsmax : NewLayers(d0)[n] = NewLayers(d0)[n] /\ NoLayers[n] = Zero
    BY <2>2
  <2>8. Filled(1, NewLayers(d0), NoLayers, Zero, d0, s0)
    BY <1>2, <2>2, <2>3, <2>4, <2>5, <2>6, <2>7 DEF Filled
  <2> QED
    BY <1>3, <1>5, <2>1, <2>8 DEF Rests
<1> DEFINE Good == {k \in 0..nsmax : Rests(run[k], k, d0, s0)}
<1>7. 0 \in Good
  BY <1>2, <1>6
<1>8. ASSUME NEW k \in 0..(nsmax - 1), k \in Good PROVE k + 1 \in Good
  <2>1. k + 1 \in 1..nsmax /\ (k + 1) - 1 = k /\ k + 1 \in 0..nsmax
    BY <1>2
  <2>2. Rests(run[k], (k + 1) - 1, d0, s0)
    BY <1>8, <2>1
  <2>3. Rests(Poured(d0[k + 1], s0[k + 1], run[k], Lowest(d0)), k + 1, d0, s0)
    BY <2>1, <2>2, LayerPoured
  <2>4. run[k + 1] = Poured(d0[k + 1], s0[k + 1], run[k], Lowest(d0))
    BY <1>5, <2>1
  <2> QED
    BY <2>1, <2>3, <2>4
<1>9. nsmax \in Good
  <2> HIDE DEF Good
  <2>1. \A k \in 0..nsmax : k \in Good
    BY <1>2, <1>7, <1>8, OneByOne
  <2> QED
    BY <1>2, <2>1
<1>10. /\ mass \in [1..nsmax -> Amounts]
       /\ \A n \in 0..nsmax : Totalling(mass)[n] = MassAbove(d0, s0, Lower(z[n], x[nsmax]))
  BY <1>5, <1>9 DEF Rests, Filled
<1>11. ASSUME NEW n \in 0..nsmax PROVE Lower(z[n], x[nsmax]) = z[n]
  <2>1. nsmax \in 0..nsmax /\ n <= nsmax /\ nsmax \in Lowest(d0)..nsmax
    BY <1>2
  <2>2. AtMost(z[n], z[nsmax]) /\ z[nsmax] = x[nsmax]
    BY <1>2, <1>3, <2>1
  <2> QED
    BY <2>2 DEF Lower
<1> QED
  BY <1>10, <1>11

\* Dividing layers again keeps their mass, above the lower side of every new layer and in all.
LEMMA RelayerKeeps ==
  ASSUME NEW d0, NEW s0, Solid(d0, s0)
  PROVE  /\ Solid(NewLayers(d0), Relayer(d0, s0))
         /\ \A n \in (Lowest(d0) + 1)..nsmax : NewLayers(d0)[n] = Zero /\ Relayer(d0, s0)[n] = Zero
         /\ SeqTotal(Relayer(d0, s0)) = SeqTotal(s0)
         /\ \A n \in 0..nsmax :
              SeqTotal(SubSeq(Relayer(d0, s0), 1, n))
                = MassAbove(d0, s0, SeqTotal(SubSeq(NewLayers(d0), 1, n)))
<1> DEFINE x == Totalling(d0)
           z == Sides(d0)
           ds == NewLayers(d0)
           mass == Relayer(d0, s0)
           t == Totalling(mass)
<1>1. d0 \in [1..nsmax -> Amounts] /\ s0 \in [1..nsmax -> Amounts]
  BY DEF Solid
<1>2. /\ nsmax \in Nat /\ Lowest(d0) \in 1..nsmax /\ ds \in [1..nsmax -> Amounts]
      /\ \A m \in 0..nsmax : z[m] \in Rationals
      /\ \A m \in 1..nsmax : z[m] = Plus(z[m - 1], ds[m])
      /\ \A m \in Lowest(d0)..nsmax : z[m] = SeqTotal(d0)
  BY <1>1, DivisionIs
<1>3. /\ mass \in [1..nsmax -> Amounts]
      /\ \A n \in 0..nsmax : t[n] = MassAbove(d0, s0, z[n])
  BY RelayerProfile
<1>4. /\ \A n \in 0..nsmax : t[n] \in Rationals
      /\ \A n \in 1..nsmax : t[n] = Plus(t[n - 1], mass[n])
      /\ SeqTotal(mass) = t[nsmax]
      /\ \A n \in 0..nsmax : SeqTotal(SubSeq(mass, 1, n)) = t[n]
  BY <1>3, RunningIs DEF Amounts
<1>5. \A n \in 0..nsmax : SeqTotal(SubSeq(ds, 1, n)) = z[n]
  BY <1>2, RunningIs DEF Sides
<1>6. \A p, q, r \in Rationals : Plus(p, q) = Plus(p, r) => q = r
  <2>1. \A p, q, r \in Rationals : Plus(p, r) = Plus(q, r) => p = q
    BY PlusLaws
  <2>2. \A p, q \in Rationals : Plus(p, q) = Plus(q, p)
    BY PlusLaws
  <2> QED
    BY <2>1, <2>2
<1>7. \A p \in Rationals : Plus(p, Zero) = p
  BY PlusLaws
<1>8. ASSUME NEW n \in 1..nsmax, z[n] = z[n - 1] PROVE mass[n] = Zero
  <2>1. n \in 0..nsmax /\ n - 1 \in 0..nsmax
    BY <1>2
  <2>2. t[n] = t[n - 1] /\ t[n - 1] \in Rationals /\ t[n] = Plus(t[n - 1], mass[n])
    BY <1>3, <1>4, <1>8, <2>1
  <2>3. mass[n] \in Rationals
    BY <1>3 DEF Amounts
  <2> HIDE DEF t, mass
  <2> QED
    BY <1>6, <1>7, <2>2, <2>3, ZeroIs
<1>9. ASSUME NEW n \in 1..nsmax, ds[n] = Zero PROVE mass[n] = Zero
  <2>1. n - 1 \in 0..nsmax
    BY <1>2
  <2>2. z[n] = z[n - 1]
    BY <1>2, <1>7, <1>9, <2>1
  <2> QED
    BY <1>8, <2>2
<1>10. ASSUME NEW n \in (Lowest(d0) + 1)..nsmax PROVE ds[n] = Zero /\ mass[n] = Zero
  <2>1. /\ n \in 1..nsmax /\ n \in Lowest(d0)..nsmax /\ n - 1 \in Lowest(d0)..nsmax
        /\ n \in 0..nsmax /\ n - 1 \in 0..nsmax
    BY <1>2
  <2>2. z[n] = z[n - 1] /\ z[n - 1] \in Rationals /\ z[n] = Plus(z[n - 1], ds[n])
    BY <1>2, <2>1
  <2>3. ds[n] \in Rationals
    BY <1>2, <2>1 DEF Amounts
  <2>4. ds[n] = Zero
    <3> HIDE DEF z, ds
    <3> QED
      BY <1>6, <1>7, <2>2, <2>3, ZeroIs
  <2> QED
    BY <1>9, <2>1, <2>4
<1>11. SeqTotal(mass) = SeqTotal(s0)
  <2>1. nsmax \in 0..nsmax /\ nsmax \in Lowest(d0)..nsmax
    BY <1>2
  <2>2. x[nsmax] = SeqTotal(d0) /\ Totalling(s0)[nsmax] = SeqTotal(s0)
    BY <1>1, RunningIs
  <2>3. z[nsmax] = x[nsmax]
    BY <1>2, <2>1, <2>2
  <2>4. MassAbove(d0, s0, x[nsmax]) = Totalling(s0)[nsmax]
    BY <2>1, MassAboveEnds
  <2> QED
    BY <1>3, <1>4, <2>1, <2>2, <2>3, <2>4
<1>12. Solid(ds, mass)
  BY <1>2, <1>3, <1>9 DEF Solid
<1> HIDE DEF t, z, ds, mass
<1>13. \A n \in 0..nsmax : SeqTotal(SubSeq(mass, 1, n)) = MassAbove(d0, s0, SeqTotal(SubSeq(ds, 1, n)))
  BY <1>3, <1>4, <1>5
<1> QED
  BY <1>10, <1>11, <1>12, <1>13 DEF ds, mass

-------------------------------------------------------------------------------
(* What packs weigh *)

\* A pack of the given mass: without layers, or with the mass and the depth of its layers.
Weighs(p, total) ==
  /\ p.mass \in [1..nsmax -> Amounts] /\ p.snow_tile \in Amounts
  /\ IF p.nsnow = 0 THEN total = p.snow_tile
     ELSE /\ total = SeqTotal(p.mass) /\ p.snowdepth = SeqTotal(p.ds)
          /\ Solid(p.ds, p.mass)
          /\ \A n \in (p.nsnow + 1)..nsmax : p.ds[n] = Zero /\ p.mass[n] = Zero

\* Regular layers weigh what is kept beside them.
LEMMA RegularWeighs ==
  ASSUME NEW p, Stacked(p), p.mass \in [1..nsmax -> Amounts], p.snow_tile \in Amounts,
         p.nsnow > 0 => Regular(p)
  PROVE  Weighs(p, p.snow_tile)
<1>1. CASE p.nsnow = 0
  BY <1>1 DEF Weighs
<1>2. CASE p.nsnow # 0
  <2>1. p.nsnow \in 1..nsmax /\ nsmax \in Nat /\ p.ds \in [1..nsmax -> Rationals]
    BY <1>2, Standards DEF Stacked
  <2>2. /\ \A n \in 1..(p.nsnow - 1) : p.ds[n] = dzsnow[n]
        /\ AtMost(dzsnow[IF p.nsnow = 1 THEN 1 ELSE p.nsnow - 1], p.ds[p.nsnow])
        /\ \A n \in (p.nsnow + 1)..nsmax : p.ds[n] = Zero /\ p.mass[n] = Zero
        /\ p.snowdepth = SeqTotal(p.ds) /\ p.snow_tile = SeqTotal(p.mass)
    BY <2>1 DEF Regular, InLayers
  <2> DEFINE ds == p.ds
             last == p.nsnow
  <2>3. ASSUME NEW n \in 1..last PROVE Less(Zero, ds[n]) /\ ds[n] \in Rationals
    <3>1. CASE n < last
      <4>1. n \in 1..(last - 1) /\ n \in 1..nsmax
        BY <2>1, <3>1
      <4> QED
        BY <2>2, <4>1, Standards
    <3>2. CASE ~(n < last)
      <4> DEFINE m == IF last = 1 THEN 1 ELSE last - 1
      <4>1. n = last /\ n \in 1..nsmax /\ m \in 1..nsmax
        BY <2>1, <3>2
      <4>2. AtMost(dzsnow[m], ds[n]) /\ dzsnow[m] \in Rationals /\ Less(Zero, dzsnow[m]) /\ ds[n] \in Rationals
        BY <2>1, <2>2, <4>1, Standards
      <4> HIDE DEF ds, m
      <4> QED
        BY <4>2, ZeroIs, OrderLaws
    <3> QED
      BY <3>1, <3>2
  <2>4. ASSUME NEW n \in 1..nsmax PROVE ds[n] \in Amounts /\ (ds[n] = Zero => p.mass[n] = Zero)
    <3>1. CASE n \in 1..last
      <4>1. ds[n] \in Rationals /\ Less(Zero, ds[n]) /\ Zero \in Rationals
        BY <2>3, <3>1, ZeroIs
      <4>2. AtMost(Zero, ds[n]) /\ ds[n] # Zero
        <5> HIDE DEF ds
        <5> QED
          BY <4>1, OrderLaws
      <4> QED
        BY <4>1, <4>2 DEF Amounts
    <3>2. CASE n \in (last + 1)..nsmax
      BY <2>2, <3>2, AmountLaws
    <3> QED
      BY <2>1, <3>1, <3>2
  <2>5. Solid(p.ds, p.mass)
    <3>1. p.ds \in [1..nsmax -> Amounts]
      BY <2>1, <2>4
    <3> QED
      BY <2>4, <3>1 DEF Solid
  <2> QED
    BY <1>2, <2>2, <2>5 DEF Weighs
<1> QED
  BY <1>1, <1>2

\* Packs that JULES leaves weigh what is kept beside them.
LEMMA HeldWeighs ==
  ASSUME NEW p \in Packs \union {IcePack}
  PROVE  Weighs(p, p.snow_tile)
<1>1. p.nsnow # 0 => Regular(p)
  BY SnowAssumption
<1>2. p.mass \in [1..nsmax -> Amounts] /\ p.snow_tile \in Amounts
  BY SnowAssumption
<1>3. Stacked(p) /\ (p.nsnow > 0 => p.nsnow # 0)
  BY PackIs
<1> QED
  BY <1>1, <1>2, <1>3, RegularWeighs

\* Layers divided again weigh what they did.
LEMMA WithLayersWeighs ==
  ASSUME NEW p, DOMAIN p = {"nsnow", "ds", "mass", "snow_tile", "snowdepth"}, p.snow_tile \in Amounts,
         NEW d0, NEW s0, Solid(d0, s0)
  PROVE  LET q == WithLayers(p, d0, s0)
         IN  /\ Stacked(q) /\ q.nsnow > 0 /\ Weighs(q, SeqTotal(s0))
             /\ q.nsnow = Lowest(d0) /\ q.ds = NewLayers(d0) /\ q.mass = Relayer(d0, s0)
             /\ q.snow_tile = p.snow_tile
<1> DEFINE q == WithLayers(p, d0, s0)
<1>1. /\ q.nsnow = Lowest(d0) /\ q.ds = NewLayers(d0) /\ q.mass = Relayer(d0, s0)
      /\ q.snow_tile = p.snow_tile /\ q.snowdepth = SeqTotal(d0)
  BY DEF WithLayers, Lowest, NewLayers
<1>2. d0 \in [1..nsmax -> Amounts] /\ d0 \in [1..nsmax -> Rationals]
  BY DEF Solid, Amounts
<1>3. Stacked(q) /\ q.nsnow > 0
  BY <1>2, WithLayersIs
<1> HIDE DEF q
<1>4. /\ Solid(q.ds, q.mass) /\ SeqTotal(q.mass) = SeqTotal(s0)
      /\ \A n \in (q.nsnow + 1)..nsmax : q.ds[n] = Zero /\ q.mass[n] = Zero
  BY <1>1, RelayerKeeps
<1>5. SeqTotal(q.ds) = SeqTotal(d0)
  <2>1. SeqTotal(d0) \in Rationals
    BY <1>2, RunningIs, Standards DEF Amounts
  <2> DEFINE depth == SeqTotal(d0)
  <2> HIDE DEF depth
  <2>2. SeqTotal(Divided(depth)) = depth
    BY <2>1, DividedIs DEF depth
  <2> QED
    BY <1>1, <2>2 DEF depth, NewLayers
<1>6. q.mass \in [1..nsmax -> Amounts] /\ q.snow_tile \in Amounts
  BY <1>1, <1>4 DEF Solid
<1>7. Weighs(q, SeqTotal(s0))
  BY <1>1, <1>3, <1>4, <1>5, <1>6 DEF Weighs
<1> QED
  BY <1>1, <1>3, <1>7 DEF q

\* What is f times as much, of layers.
SpreadOver(s, f) == [n \in 1..nsmax |-> Over(s[n], f)]

\* A pack that is spread out weighs less by what its area is more.
LEMMA ScaledWeighs ==
  ASSUME NEW p, Stacked(p), NEW T, Weighs(p, T), p.nsnow > 0, NEW f \in Rationals, Less(Zero, f)
  PROVE  LET q == scale_snowpack(p, f)
         IN  /\ Stacked(q) /\ q.nsnow > 0 /\ Weighs(q, Over(T, f)) /\ q.snow_tile = p.snow_tile
             /\ Solid(SpreadOver(p.ds, f), SpreadOver(p.mass, f))
             /\ q.nsnow = Lowest(SpreadOver(p.ds, f)) /\ q.ds = NewLayers(SpreadOver(p.ds, f))
             /\ q.mass = Relayer(SpreadOver(p.ds, f), SpreadOver(p.mass, f))
<1> DEFINE d0 == SpreadOver(p.ds, f)
           s0 == SpreadOver(p.mass, f)
<1>1. /\ p.ds \in [1..nsmax -> Amounts] /\ p.mass \in [1..nsmax -> Amounts] /\ p.snow_tile \in Amounts
      /\ \A n \in 1..nsmax : p.ds[n] = Zero => p.mass[n] = Zero
      /\ \A n \in (p.nsnow + 1)..nsmax : p.mass[n] = Zero
      /\ T = SeqTotal(p.mass) /\ p.nsnow \in 1..nsmax
  BY DEF Weighs, Solid, Stacked
<1>2. ASSUME NEW e \in Amounts PROVE Over(e, f) \in Amounts /\ (Over(e, f) = Zero <=> e = Zero)
  <2>1. e \in Rationals /\ AtMost(Zero, e)
    BY DEF Amounts
  <2> QED
    BY <2>1, OverSign DEF Amounts
<1>3. Solid(d0, s0)
  <2>1. ASSUME NEW n \in 1..nsmax
        PROVE  Over(p.ds[n], f) \in Amounts /\ Over(p.mass[n], f) \in Amounts
               /\ (Over(p.ds[n], f) = Zero => Over(p.mass[n], f) = Zero)
    BY <1>1, <1>2
  <2> QED
    BY <2>1 DEF Solid, SpreadOver
<1>4. scale_snowpack(p, f) = WithLayers(p, d0, s0)
  <2> DEFINE part == [n \in 1..nsmax |-> IF n <= p.nsnow THEN Over(p.mass[n], f) ELSE Zero]
  <2>1. ASSUME NEW n \in 1..nsmax PROVE part[n] = Over(p.mass[n], f)
    <3>1. n <= p.nsnow \/ n \in (p.nsnow + 1)..nsmax
      BY <1>1, Standards
    <3>2. Over(Zero, f) = Zero
      BY ZeroIs, OverSign
    <3> QED
      BY <1>1, <3>1, <3>2
  <2>2. part = s0
    <3>1. part = [n \in 1..nsmax |-> part[n]]
      OBVIOUS
    <3> HIDE DEF part
    <3> QED
      BY <2>1, <3>1 DEF SpreadOver
  <2>3. scale_snowpack(p, f) = WithLayers(p, d0, part)
    BY DEF scale_snowpack, SpreadOver
  <2> QED
    BY <2>2, <2>3
<1>5. SeqTotal(s0) = Over(T, f)
  <2>1. /\ Len(p.mass) = nsmax /\ nsmax \in Nat /\ SeqTotal(p.mass) = Totalling(p.mass)[nsmax]
        /\ \A n \in 1..nsmax : p.mass[n] \in Rationals
    BY <1>1, RunningIs
  <2>2. s0 \in [1..nsmax -> Amounts] /\ \A n \in 1..nsmax : s0[n] = Over(p.mass[n], f)
    BY <1>3 DEF Solid, SpreadOver
  <2>3. f # Zero
    BY OverSign, ZeroIs
  <2> DEFINE s == p.mass
  <2> HIDE DEF s0, s
  <2>4. Len(s0) = nsmax /\ SeqTotal(s0) = Totalling(s0)[nsmax]
    BY <2>2, RunningIs
  <2>5. /\ Len(s) \in Nat /\ Len(s0) = Len(s) /\ nsmax \in 0..Len(s)
        /\ \A n \in 1..Len(s) : s[n] \in Rationals /\ s0[n] = Over(s[n], f)
    BY <2>1, <2>2, <2>4 DEF s
  <2>6. Totalling(s0)[nsmax] = Over(Totalling(s)[nsmax], f)
    BY <2>3, <2>5, TotallingOver
  <2> QED
    BY <1>1, <2>1, <2>4, <2>6 DEF s
<1>6. DOMAIN p = {"nsnow", "ds", "mass", "snow_tile", "snowdepth"}
  BY DEF Stacked
<1> HIDE DEF d0, s0
<1> DEFINE q == WithLayers(p, d0, s0)
<1>7. /\ Stacked(q) /\ q.nsnow > 0 /\ Weighs(q, SeqTotal(s0))
      /\ q.nsnow = Lowest(d0) /\ q.ds = NewLayers(d0) /\ q.mass = Relayer(d0, s0)
      /\ q.snow_tile = p.snow_tile
  BY <1>1, <1>3, <1>6, WithLayersWeighs
<1> HIDE DEF q
<1> QED
  BY <1>3, <1>4, <1>5, <1>7 DEF q, d0, s0

\* The first layer of what is as thick as a layer is as thick.
LEMMA FirstLayer ==
  ASSUME NEW depth \in Rationals, AtMost(dzsnow[1], depth)
  PROVE  AtMost(dzsnow[1], Divided(depth)[1])
<1> DEFINE last == LayerCount(depth)
           ds == Divided(depth)
<1>1. /\ last \in 1..nsmax /\ nsmax \in Nat \ {0} /\ dzsnow[1] \in Rationals
      /\ ds = [n \in 1..nsmax |-> CASE n < last -> dzsnow[n]
                                   [] n = last -> Minus(depth, Above(last - 1))
                                   [] OTHER -> Zero]
  BY LayerCountIs, Standards DEF Divided
<1> HIDE DEF last, ds
<1>2. CASE last = 1
  <2>1. ds[1] = Minus(depth, Zero)
    <3>1. Above(0) = Zero /\ last - 1 = 0 /\ 1 \in 1..nsmax
      BY <1>1, <1>2, AboveIs
    <3>2. ds[1] = Minus(depth, Above(last - 1))
      BY <1>1, <1>2, <3>1
    <3> QED
      BY <3>1, <3>2
  <2>2. Minus(depth, Zero) = depth
    BY PlusLaws
  <2> QED
    BY <2>1, <2>2 DEF ds
<1>3. CASE last # 1
  <2>1. ds[1] = dzsnow[1]
    <3>1. 1 < last /\ 1 \in 1..nsmax
      BY <1>1, <1>3
    <3> QED
      BY <1>1, <3>1
  <2>2. AtMost(dzsnow[1], dzsnow[1])
    BY <1>1, OrderLaws
  <2> QED
    BY <2>1, <2>2 DEF ds
<1> QED
  BY <1>2, <1>3

\* What is made one layer weighs what it did, and is as thick as a layer.
LEMMA OneLayerWeighs ==
  ASSUME NEW p, Stacked(p), NEW T, Weighs(p, T), p.nsnow = 0
  PROVE  LET q == OneLayer(p)
         IN  /\ Stacked(q) /\ q.nsnow > 0 /\ Weighs(q, T) /\ q.snow_tile = p.snow_tile
             /\ SeqTotal(q.ds) = dzsnow[1]
<1> DEFINE q == OneLayer(p)
           ds == [NoLayers EXCEPT ![1] = dzsnow[1]]
           mass == [NoLayers EXCEPT ![1] = p.snow_tile]
<1>1. p.snow_tile \in Amounts /\ T = p.snow_tile
  BY DEF Weighs
<1>2. dzsnow[1] \in Amounts /\ dzsnow[1] # Zero /\ 1 \in 1..nsmax /\ nsmax \in Nat \ {0} /\ Zero \in Amounts
  <2>1. dzsnow[1] \in Rationals /\ Less(Zero, dzsnow[1]) /\ Zero \in Rationals
    BY Standards
  <2>2. AtMost(Zero, dzsnow[1]) /\ dzsnow[1] # Zero
    BY <2>1, OrderLaws
  <2> QED
    BY <2>1, <2>2, Standards, AmountLaws DEF Amounts
<1>3. /\ q.nsnow = 1 /\ q.ds = ds /\ q.mass = mass /\ q.snow_tile = p.snow_tile /\ q.snowdepth = dzsnow[1]
      /\ DOMAIN q = {"nsnow", "ds", "mass", "snow_tile", "snowdepth"}
  BY DEF OneLayer, Stacked
<1>4. /\ ds \in [1..nsmax -> Amounts] /\ mass \in [1..nsmax -> Amounts]
      /\ ds[1] = dzsnow[1] /\ mass[1] = p.snow_tile
      /\ \A n \in 2..nsmax : ds[n] = Zero /\ mass[n] = Zero
  BY <1>1, <1>2 DEF NoLayers
<1> HIDE DEF q, ds, mass
<1>5. ASSUME NEW s \in [1..nsmax -> Amounts], \A n \in 2..nsmax : s[n] = Zero
      PROVE  SeqTotal(s) = s[1]
  <2>1. /\ Len(s) = nsmax /\ \A n \in 1..nsmax : s[n] \in Rationals
        /\ Totalling(s)[0] = Zero /\ \A n \in 1..nsmax : Totalling(s)[n] = Plus(Totalling(s)[n - 1], s[n])
    BY RunningIs
  <2>2. SeqTotal(s) = Totalling(s)[1]
    <3>1. \A n \in (1 + 1)..Len(s) : s[n] = Zero
      BY <1>5, <2>1
    <3>2. Len(s) \in Nat /\ 1 \in 0..Len(s) /\ \A n \in 1..Len(s) : s[n] \in Rationals
      BY <1>2, <2>1
    <3> QED
      BY <3>1, <3>2, TotallingZeros
  <2>3. Totalling(s)[1] = Plus(Zero, s[1]) /\ s[1] \in Rationals
    <3>1. 1 - 1 = 0
      OBVIOUS
    <3> QED
      BY <1>2, <2>1, <3>1
  <2>4. Plus(Zero, s[1]) = s[1]
    BY <2>3, PlusLaws
  <2> QED
    BY <2>2, <2>3, <2>4
<1>6. SeqTotal(ds) = dzsnow[1] /\ SeqTotal(mass) = p.snow_tile
  BY <1>4, <1>5
<1>7. Solid(ds, mass)
  <2>1. \A n \in 1..nsmax : n = 1 \/ n \in 2..nsmax
    BY <1>2
  <2> QED
    BY <1>2, <1>4, <2>1 DEF Solid
<1>8. Weighs(q, T)
  <2>1. \A n \in (q.nsnow + 1)..nsmax : q.ds[n] = Zero /\ q.mass[n] = Zero
    BY <1>3, <1>4
  <2> QED
    BY <1>1, <1>3, <1>4, <1>6, <1>7, <2>1 DEF Weighs
<1>9. Stacked(q)
  <2>1. ds \in [1..nsmax -> Rationals]
    BY <1>4 DEF Amounts
  <2>2. dzsnow[1] \in Rationals /\ Less(Zero, dzsnow[1])
    BY Standards
  <2>3. AtMost(dzsnow[1], Times(Q(2), dzsnow[1]))
    <3>1. Times(Q(2), dzsnow[1]) = Plus(dzsnow[1], dzsnow[1])
      BY <2>2, Twice
    <3>2. AtMost(Plus(Zero, dzsnow[1]), Plus(dzsnow[1], dzsnow[1])) /\ Plus(Zero, dzsnow[1]) = dzsnow[1]
      <4>1. AtMost(Zero, dzsnow[1]) /\ Zero \in Rationals
        BY <2>2, ZeroIs, OrderLaws
      <4>2. \A x, y, z \in Rationals : AtMost(Plus(x, z), Plus(y, z)) <=> AtMost(x, y)
        BY OrderLaws
      <4>3. Plus(Zero, dzsnow[1]) = dzsnow[1]
        BY <2>2, PlusLaws
      <4> QED
        BY <2>2, <4>1, <4>2, <4>3
    <3> QED
      BY <3>1, <3>2
  <2>4. Layered(q)
    BY <1>3, <1>4, <2>3 DEF Layered
  <2> QED
    BY <1>2, <1>3, <2>1, <2>2, <2>4 DEF Stacked
<1> QED
  BY <1>3, <1>6, <1>8, <1>9 DEF q

\* Two amounts that are nothing together are nothing each.
LEMMA NothingTogether ==
  ASSUME NEW a \in Amounts, NEW b \in Amounts, Plus(a, b) = Zero
  PROVE  a = Zero /\ b = Zero
<1>1. a \in Rationals /\ b \in Rationals /\ AtMost(Zero, a) /\ AtMost(Zero, b) /\ Zero \in Rationals
  BY ZeroIs DEF Amounts
<1>2. AtMost(Plus(Zero, b), Plus(a, b)) /\ AtMost(Plus(Zero, a), Plus(b, a))
  <2>1. \A x, y, z \in Rationals : AtMost(Plus(x, z), Plus(y, z)) <=> AtMost(x, y)
    BY OrderLaws
  <2> QED
    BY <1>1, <2>1
<1>3. Plus(Zero, b) = b /\ Plus(Zero, a) = a /\ Plus(b, a) = Plus(a, b)
  BY <1>1, PlusLaws
<1> QED
  BY <1>1, <1>2, <1>3, OrderLaws

\* Layers put together have the total of both.
LEMMA LayersTogether ==
  ASSUME NEW s \in [1..nsmax -> Amounts], NEW t \in [1..nsmax -> Amounts],
         NEW both \in [1..nsmax -> Amounts], \A n \in 1..nsmax : both[n] = Plus(s[n], t[n])
  PROVE  SeqTotal(both) = Plus(SeqTotal(s), SeqTotal(t))
<1>1. /\ Len(s) = nsmax /\ nsmax \in Nat /\ SeqTotal(s) = Totalling(s)[nsmax]
      /\ \A n \in 1..nsmax : s[n] \in Rationals
  BY RunningIs
<1>2. /\ Len(t) = nsmax /\ SeqTotal(t) = Totalling(t)[nsmax]
      /\ \A n \in 1..nsmax : t[n] \in Rationals
  BY RunningIs
<1>3. Len(both) = nsmax /\ SeqTotal(both) = Totalling(both)[nsmax]
  BY RunningIs
<1>4. /\ Len(s) \in Nat /\ Len(t) = Len(s) /\ Len(both) = Len(s)
      /\ \A n \in 1..Len(s) : s[n] \in Rationals /\ t[n] \in Rationals /\ both[n] = Plus(s[n], t[n])
  BY <1>1, <1>2, <1>3
<1>5. \A n \in 0..Len(s) : Totalling(both)[n] = Plus(Totalling(s)[n], Totalling(t)[n])
  BY <1>4, TotallingPairs, ZenonT(60)
<1>6. nsmax \in 0..Len(s)
  BY <1>1
<1>7. Totalling(both)[nsmax] = Plus(Totalling(s)[nsmax], Totalling(t)[nsmax])
  BY <1>5, <1>6
<1> QED
  BY <1>1, <1>2, <1>3, <1>7

\* Two packs put together weigh what they weighed.
LEMMA AddedWeighs ==
  ASSUME NEW p, Stacked(p), NEW T, Weighs(p, T), p.nsnow > 0,
         NEW in, Stacked(in), NEW U, Weighs(in, U), in.nsnow > 0
  PROVE  LET q == add_snowpacks(p, in)
         IN  /\ Stacked(q) /\ q.nsnow > 0 /\ Weighs(q, Plus(T, U)) /\ q.snow_tile = p.snow_tile
             /\ AtMost(dzsnow[1], SeqTotal(p.ds)) => AtMost(dzsnow[1], q.ds[1])
<1> DEFINE d0 == [n \in 1..nsmax |-> Plus(p.ds[n], in.ds[n])]
           s0 == [n \in 1..nsmax |-> Plus(p.mass[n], in.mass[n])]
           q == WithLayers(p, d0, s0)
<1>1. /\ p.ds \in [1..nsmax -> Amounts] /\ p.mass \in [1..nsmax -> Amounts] /\ p.snow_tile \in Amounts
      /\ \A n \in 1..nsmax : p.ds[n] = Zero => p.mass[n] = Zero
      /\ T = SeqTotal(p.mass)
  BY DEF Weighs, Solid, Stacked
<1>2. /\ in.ds \in [1..nsmax -> Amounts] /\ in.mass \in [1..nsmax -> Amounts]
      /\ \A n \in 1..nsmax : in.ds[n] = Zero => in.mass[n] = Zero
      /\ U = SeqTotal(in.mass)
  BY DEF Weighs, Solid, Stacked
<1>3. d0 \in [1..nsmax -> Amounts] /\ s0 \in [1..nsmax -> Amounts]
  <2>1. ASSUME NEW n \in 1..nsmax PROVE Plus(p.ds[n], in.ds[n]) \in Amounts /\ Plus(p.mass[n], in.mass[n]) \in Amounts
    <3>1. p.ds[n] \in Amounts /\ in.ds[n] \in Amounts /\ p.mass[n] \in Amounts /\ in.mass[n] \in Amounts
      BY <1>1, <1>2
    <3> QED
      BY <3>1, AmountLaws
  <2> QED
    BY <2>1
<1>4. Solid(d0, s0)
  <2>1. ASSUME NEW n \in 1..nsmax, d0[n] = Zero PROVE s0[n] = Zero
    <3>1. p.ds[n] \in Amounts /\ in.ds[n] \in Amounts /\ Plus(p.ds[n], in.ds[n]) = Zero
      BY <1>1, <1>2, <2>1
    <3>2. p.mass[n] = Zero /\ in.mass[n] = Zero
      BY <1>1, <1>2, <3>1, NothingTogether
    <3>3. Plus(Zero, Zero) = Zero
      BY ZeroIs, PlusLaws
    <3> QED
      BY <3>2, <3>3
  <2> QED
    BY <1>3, <2>1 DEF Solid
<1>6. SeqTotal(s0) = Plus(T, U) /\ SeqTotal(d0) = Plus(SeqTotal(p.ds), SeqTotal(in.ds))
  <2>1. SeqTotal(s0) = Plus(SeqTotal(p.mass), SeqTotal(in.mass))
    BY <1>1, <1>2, <1>3, LayersTogether
  <2>2. SeqTotal(d0) = Plus(SeqTotal(p.ds), SeqTotal(in.ds))
    BY <1>1, <1>2, <1>3, LayersTogether
  <2> QED
    BY <1>1, <1>2, <2>1, <2>2
<1>7. add_snowpacks(p, in) = q
  BY DEF add_snowpacks
<1>8. DOMAIN p = {"nsnow", "ds", "mass", "snow_tile", "snowdepth"}
  BY DEF Stacked
<1> HIDE DEF d0, s0
<1>9. /\ Stacked(q) /\ q.nsnow > 0 /\ Weighs(q, SeqTotal(s0))
      /\ q.ds = NewLayers(d0) /\ q.snow_tile = p.snow_tile
  BY <1>1, <1>4, <1>8, WithLayersWeighs
<1> HIDE DEF q
<1>10. ASSUME AtMost(dzsnow[1], SeqTotal(p.ds)) PROVE AtMost(dzsnow[1], q.ds[1])
  <2>1. /\ SeqTotal(p.ds) \in Rationals /\ SeqTotal(in.ds) \in Rationals /\ AtMost(Zero, SeqTotal(in.ds))
        /\ dzsnow[1] \in Rationals /\ Zero \in Rationals /\ nsmax \in Nat \ {0}
    <3>1. nsmax \in 0..nsmax /\ nsmax \in Nat \ {0}
      BY Standards
    <3>2. Totalling(p.ds)[nsmax] \in Amounts /\ Totalling(in.ds)[nsmax] \in Amounts
          /\ SeqTotal(p.ds) = Totalling(p.ds)[nsmax] /\ SeqTotal(in.ds) = Totalling(in.ds)[nsmax]
      BY <1>1, <1>2, <3>1, RunningIs
    <3> QED
      BY <3>1, <3>2, Standards DEF Amounts
  <2> DEFINE dz == dzsnow[1]
             D == SeqTotal(d0)
             x == SeqTotal(p.ds)
             y == SeqTotal(in.ds)
  <2>2. D = Plus(x, y) /\ AtMost(dz, x) /\ D \in Rationals
    BY <1>6, <1>10, <2>1, PlusLaws
  <2>3. AtMost(dz, D)
    <3> HIDE DEF dz, D, x, y
    <3>1. x \in Rationals /\ y \in Rationals /\ AtMost(Zero, y) /\ dz \in Rationals /\ Zero \in Rationals
      BY <2>1 DEF x, y, dz
    <3>2. AtMost(Plus(dz, Zero), Plus(x, y))
      BY <2>2, <3>1, PlusOrder
    <3>3. Plus(dz, Zero) = dz
      BY <3>1, PlusLaws
    <3> QED
      BY <2>2, <3>2, <3>3
  <2> QED
    BY <1>9, <2>2, <2>3, FirstLayer DEF NewLayers
<1> QED
  BY <1>6, <1>7, <1>9, <1>10 DEF q

-------------------------------------------------------------------------------
(* Taking mass off *)

Taking == [done : BOOLEAN, remains : Rationals, mass : [1..nsmax -> Rationals]]

\* What is left is layers still.
LEMMA TakeOffIs ==
  ASSUME NEW ds, NEW a \in Taking, NEW n \in 1..nsmax
  PROVE  TakeOff(ds, a, n) \in Taking
<1>1. /\ a.done \in BOOLEAN /\ a.remains \in Rationals /\ a.mass \in [1..nsmax -> Rationals]
      /\ a.mass[n] \in Rationals /\ Zero \in Rationals
  BY ZeroIs DEF Taking
<1> DEFINE sum == Plus(a.mass[n], a.remains)
           left == Plus(a.remains, a.mass[n])
           b == [a EXCEPT !.done = TRUE, !.mass[n] = sum]
           c == [a EXCEPT !.mass[n] = Zero, !.remains = left]
<1>2. sum \in Rationals /\ left \in Rationals
  BY <1>1, PlusLaws
<1>3. TakeOff(ds, a, n) = a \/ TakeOff(ds, a, n) = b \/ TakeOff(ds, a, n) = c
  BY DEF TakeOff
<1> HIDE DEF sum, left
<1>4. b \in Taking /\ c \in Taking
  BY <1>1, <1>2 DEF Taking
<1> QED
  BY <1>3, <1>4

\* From the lowest of the old layers up.
TakenOff(ds, s, nold) ==
  FoldLeft(LAMBDA a, n : TakeOff(ds, a, n), [done |-> FALSE, remains |-> Zero, mass |-> s],
           [k \in 1..nold |-> nold + 1 - k])

TakingRun(run, ds, s, nold) ==
  /\ run \in [0..nold -> Taking]
  /\ run[0] = [done |-> FALSE, remains |-> Zero, mass |-> s]
  /\ \A k \in 1..nold : run[k] = TakeOff(ds, run[k - 1], nold + 1 - k)
  /\ TakenOff(ds, s, nold) = run[nold]

\* That fold is a run, too.
LEMMA TakingIs ==
  ASSUME NEW ds, NEW s \in [1..nsmax -> Rationals], NEW nold \in 1..nsmax
  PROVE  \E run : TakingRun(run, ds, s, nold)
<1> DEFINE base == [done |-> FALSE, remains |-> Zero, mass |-> s]
           State == Taking
           seq == [k \in 1..nold |-> nold + 1 - k]
           steps == [k \in 1..nold |-> [b \in State |-> TakeOff(ds, b, nold + 1 - k)]]
           IsFold(fold) == fold = [t \in SUBSET (DOMAIN seq) |->
              IF t = {} THEN base ELSE TakeOff(ds, fold[t \ {Max(t)}], seq[Max(t)])]
           fold == CHOOSE fold : IsFold(fold)
<1>1. TakenOff(ds, s, nold) = fold[DOMAIN seq]
  BY DEF TakenOff, FoldLeft, MapThenFoldSet
<1>0. /\ nold \in Nat /\ DOMAIN seq = 1..nold
      /\ \A n \in 1..nold : seq[n] = nold + 1 - n /\ nold + 1 - n \in 1..nsmax
  BY Standards
<1>2. base \in State
  BY ZeroIs DEF Taking
<1>3. \A n \in 1..nold : \A b \in State : TakeOff(ds, b, nold + 1 - n) \in State
  BY <1>0, TakeOffIs
<1>4. steps \in [1..nold -> [State -> State]]
  <2> HIDE DEF State
  <2> QED
    BY <1>3
<1> HIDE DEF base, State, seq, fold
<1>5. PICK g \in [SUBSET (1..nold) -> State] : IsFolding(g, nold, base, steps)
  <2> HIDE DEF steps
  <2> QED
    BY <1>0, <1>2, <1>4, FoldingExists
<1>6. ASSUME NEW t \in SUBSET (1..nold), t # {}
      PROVE  Max(t) \in 1..nold /\ t \ {Max(t)} \in SUBSET (1..nold)
  BY <1>0, <1>6, MaxInUpTo
<1>7. IsFold(g)
  <2>1. ASSUME NEW t \in SUBSET (1..nold), t # {}
        PROVE  steps[Max(t)][g[t \ {Max(t)}]] = TakeOff(ds, g[t \ {Max(t)}], seq[Max(t)])
    BY <1>0, <1>5, <1>6, <2>1
  <2>2. g = [t \in SUBSET (1..nold) |-> IF t = {} THEN base ELSE steps[Max(t)][g[t \ {Max(t)}]]]
    BY <1>5 DEF IsFolding
  <2> HIDE DEF steps
  <2> DEFINE h == [t \in SUBSET (1..nold) |->
              IF t = {} THEN base ELSE TakeOff(ds, g[t \ {Max(t)}], seq[Max(t)])]
  <2>3. \A t \in SUBSET (1..nold) : g[t] = h[t]
    BY <2>1, <2>2
  <2>4. g = h
    <3>1. g = [t \in SUBSET (1..nold) |-> g[t]]
      BY <1>5
    <3> HIDE DEF h
    <3> QED
      BY <2>3, <3>1 DEF h
  <2> QED
    BY <1>0, <2>4
<1>8. IsFold(fold)
  <2> HIDE DEF IsFold
  <2> QED
    BY <1>7 DEF fold
<1> DEFINE run == [n \in 0..nold |-> fold[1..n]]
<1>9. run[0] = base
  BY <1>0, <1>8
<1>10. ASSUME NEW n \in 1..nold PROVE run[n] = TakeOff(ds, run[n - 1], nold + 1 - n)
  <2>1. /\ 1..n \in SUBSET (1..nold) /\ 1..n # {} /\ (1..n) \ {n} = 1..(n - 1)
        /\ n \in 0..nold /\ n - 1 \in 0..nold /\ seq[n] = nold + 1 - n
    <3>1. n \in Nat /\ n \in 1..n /\ n <= nold
      BY <1>0
    <3>2. (1..n) \ {n} = 1..(n - 1) /\ 1..n \in SUBSET (1..nold)
      BY <1>0, <3>1
    <3> QED
      BY <1>0, <3>1, <3>2
  <2>2. Max(1..n) = n
    BY MaxOfUpTo
  <2>3. fold[1..n] = TakeOff(ds, fold[(1..n) \ {Max(1..n)}], seq[Max(1..n)])
    BY <1>0, <1>8, <2>1
  <2> QED
    BY <2>1, <2>2, <2>3
<1> DEFINE Good == {n \in 0..nold : run[n] \in State}
<1> HIDE DEF run
<1>11. \A n \in 0..nold : run[n] \in State
  <2>1. 0 \in Good
    BY <1>0, <1>2, <1>9
  <2>2. ASSUME NEW n \in 0..(nold - 1), n \in Good PROVE n + 1 \in Good
    <3>1. n + 1 \in 1..nold /\ (n + 1) - 1 = n /\ n + 1 \in 0..nold
      BY <1>0
    <3> QED
      BY <1>3, <1>10, <2>2, <3>1
  <2> HIDE DEF Good
  <2>3. \A n \in 0..nold : n \in Good
    BY <1>0, <2>1, <2>2, OneByOne
  <2> QED
    BY <2>3 DEF Good
<1>12. run \in [0..nold -> State] /\ run[nold] = TakenOff(ds, s, nold)
  <2>1. run = [n \in 0..nold |-> run[n]]
    BY DEF run
  <2>2. run \in [0..nold -> State]
    BY <1>11, <2>1, Zenon
  <2>3. nold \in 0..nold
    BY <1>0
  <2>4. run[nold] = fold[1..nold]
    BY <2>3, Zenon DEF run
  <2> QED
    BY <1>0, <1>1, <2>2, <2>4
<1>13. TakingRun(run, ds, s, nold)
  BY <1>9, <1>10, <1>12 DEF base, State, TakingRun
<1> QED
  BY <1>13

\* After layers nold to j + 1: either mass is left, or all of it came off from j layers.
Came(a, j, last, s, nold) ==
  /\ a \in Taking
  /\ IF a.done
     THEN /\ a.mass \in [1..nsmax -> Amounts] /\ SeqTotal(a.mass) = SeqTotal(s)
          /\ \A n \in (last + 1)..nsmax : a.mass[n] = Zero
     ELSE /\ \A n \in 1..j : a.mass[n] = s[n]
          /\ \A n \in (j + 1)..nsmax : a.mass[n] = Zero
          /\ Plus(a.remains, Totalling(s)[j]) = SeqTotal(s)
          /\ j = 0 => AtMost(SeqTotal(s), Zero)

\* What the lowest old layer is to lose comes off, or all there is.
LEMMA TakenOffIs ==
  ASSUME NEW ds \in [1..nsmax -> Rationals], NEW last \in 1..nsmax, Less(Zero, ds[1]),
         \A n \in (last + 1)..nsmax : ds[n] = Zero,
         NEW nold \in 1..nsmax, NEW s \in [1..nsmax -> Rationals],
         \A n \in 1..nsmax : n # nold => s[n] \in Amounts,
         \A n \in (nold + 1)..nsmax : s[n] = Zero
  PROVE  LET mass == TakenOff(ds, s, nold).mass
         IN  /\ mass \in [1..nsmax -> Amounts] /\ SeqTotal(mass) = Larger(Zero, SeqTotal(s))
             /\ \A n \in (last + 1)..nsmax : mass[n] = Zero
<1> DEFINE S == SeqTotal(s)
           t == Totalling(s)
<1>0. nsmax \in Nat \ {0} /\ Zero \in Amounts /\ Zero \in Rationals
  BY Standards, AmountLaws
<1>1. /\ Len(s) = nsmax /\ \A n \in 1..nsmax : s[n] \in Rationals
      /\ t[0] = Zero /\ \A n \in 1..nsmax : t[n] = Plus(t[n - 1], s[n])
      /\ \A n \in 0..nsmax : t[n] \in Rationals
      /\ S = t[nold] /\ S \in Rationals
  <2>1. Len(s) = nsmax /\ \A n \in 1..nsmax : s[n] \in Rationals
    BY <1>0, SeqDef, LenProperties
  <2>2. nold \in 0..Len(s) /\ Len(s) \in Nat
    BY <1>0, <2>1
  <2>3. S = t[nold]
    BY <2>1, <2>2, TotallingZeros
  <2>4. t[0] = Zero /\ \A n \in 1..Len(s) : t[n] = Plus(t[n - 1], s[n])
    BY <2>2, TotallingStep
  <2>5. (\A n \in 0..Len(s) : t[n] \in Rationals) /\ S \in Rationals
    BY <2>1, <2>2, TotallingRational
  <2> QED
    BY <2>1, <2>3, <2>4, <2>5
<1> HIDE DEF S, t
<1>2. PICK run : TakingRun(run, ds, s, nold)
  BY TakingIs
<1>3. /\ run \in [0..nold -> Taking] /\ run[0] = [done |-> FALSE, remains |-> Zero, mass |-> s]
      /\ \A k \in 1..nold : run[k] = TakeOff(ds, run[k - 1], nold + 1 - k)
      /\ TakenOff(ds, s, nold) = run[nold]
  BY <1>2 DEF TakingRun
<1>4. Came(run[0], nold, last, s, nold)
  <2>1. run[0] \in Taking /\ nold # 0
    BY <1>0, <1>3
  <2>2. run[0].done = FALSE /\ run[0].remains = Zero /\ run[0].mass = s
    BY <1>3
  <2>3. Plus(Zero, t[nold]) = S
    BY <1>1, PlusLaws
  <2> QED
    BY <2>1, <2>2, <2>3 DEF Came, S, t
<1>5. ASSUME NEW j \in 1..nold, NEW a, Came(a, j, last, s, nold)
      PROVE  Came(TakeOff(ds, a, j), j - 1, last, s, nold)
  <2>1. /\ j \in 1..nsmax /\ j - 1 \in 0..nsmax /\ j \in 0..nsmax /\ j \in Nat
        /\ a \in Taking /\ a.remains \in Rationals /\ a.mass \in [1..nsmax -> Rationals]
    BY <1>0, <1>5 DEF Came, Taking
  <2>2. TakeOff(ds, a, j) \in Taking
    BY <2>1, TakeOffIs
  <2>3. CASE a.done
    <3>1. TakeOff(ds, a, j) = a
      BY <2>3 DEF TakeOff
    <3> QED
      BY <1>5, <2>3, <3>1 DEF Came
  <2>4. CASE ~a.done
    <3>1. /\ \A n \in 1..j : a.mass[n] = s[n]
          /\ \A n \in (j + 1)..nsmax : a.mass[n] = Zero
          /\ Plus(a.remains, t[j]) = S
      BY <1>5, <2>4 DEF Came, S, t
    <3>2. a.mass[j] = s[j] /\ s[j] \in Rationals /\ t[j] = Plus(t[j - 1], s[j]) /\ t[j - 1] \in Rationals
      BY <1>1, <2>1, <3>1
    <3> DEFINE sum == Plus(s[j], a.remains)
    <3>3. sum \in Rationals /\ Plus(a.remains, s[j]) = sum /\ Plus(t[j - 1], sum) = S /\ Plus(sum, t[j - 1]) = S
      <4>1. \A p, q \in Rationals : Plus(p, q) = Plus(q, p) /\ Plus(p, q) \in Rationals
        BY PlusLaws
      <4>2. \A p, q, r \in Rationals : Plus(p, Plus(q, r)) = Plus(Plus(p, q), r)
        BY PlusLaws
      <4>3. Plus(t[j - 1], Plus(s[j], a.remains)) = Plus(t[j], a.remains)
        BY <2>1, <3>2, <4>2
      <4> QED
        BY <1>1, <2>1, <3>1, <3>2, <4>1, <4>3
    <3> HIDE DEF sum
    <3>4. CASE Less(Zero, sum) /\ Less(Zero, ds[j])
      <4> DEFINE b == TakeOff(ds, a, j)
      <4>1. b = [a EXCEPT !.done = TRUE, !.mass[j] = sum]
        BY <2>4, <3>2, <3>4 DEF TakeOff, sum
      <4> HIDE DEF b
      <4>2. b.done = TRUE /\ b.mass = [a.mass EXCEPT ![j] = sum]
        BY <2>1, <4>1 DEF Taking
      <4>3. b.mass[j] = sum /\ \A n \in 1..nsmax : n # j => b.mass[n] = a.mass[n]
        BY <2>1, <4>2
      <4>4. sum \in Amounts
        <5>1. AtMost(Zero, sum)
          BY <1>0, <3>3, <3>4, OrderLaws
        <5> QED
          BY <3>3, <5>1 DEF Amounts
      <4>5. \A n \in 1..(j - 1) : b.mass[n] = s[n] /\ s[n] \in Amounts
        <5>1. \A n \in 1..(j - 1) : n \in 1..nsmax /\ n # j /\ n # nold /\ n \in 1..j
          BY <1>0, <2>1
        <5> QED
          BY <3>1, <4>3, <5>1
      <4>6. \A n \in (j + 1)..nsmax : b.mass[n] = Zero
        <5>1. \A n \in (j + 1)..nsmax : n \in 1..nsmax /\ n # j
          BY <1>0, <2>1
        <5> QED
          BY <3>1, <4>3, <5>1
      <4>7. b.mass \in [1..nsmax -> Amounts]
        <5>1. \A n \in 1..nsmax : n \in 1..(j - 1) \/ n = j \/ n \in (j + 1)..nsmax
          BY <1>0, <2>1
        <5>2. \A n \in 1..nsmax : b.mass[n] \in Amounts
          BY <1>0, <4>3, <4>4, <4>5, <4>6, <5>1
        <5>3. b.mass \in [1..nsmax -> Rationals]
          BY <2>1, <3>3, <4>2
        <5> QED
          BY <5>2, <5>3
      <4>8. SeqTotal(b.mass) = S
        <5> DEFINE m == b.mass
                   i == j - 1
        <5>1. /\ Len(m) = nsmax /\ \A n \in 1..nsmax : m[n] \in Rationals
              /\ \A n \in 1..nsmax : Totalling(m)[n] = Plus(Totalling(m)[n - 1], m[n])
          BY <4>7, RunningIs
        <5>2. m[j] = sum /\ (\A n \in (j + 1)..nsmax : m[n] = Zero) /\ \A n \in 1..i : m[n] = s[n]
          BY <4>3, <4>5, <4>6
        <5>3. /\ i \in Nat /\ i <= nsmax /\ i \in 0..i /\ j \in 0..nsmax
          BY <1>0, <2>1
        <5> HIDE DEF m, i
        <5>4. SeqTotal(m) = Totalling(m)[j]
          <6>1. Len(m) \in Nat /\ j \in 0..Len(m) /\ (\A n \in 1..Len(m) : m[n] \in Rationals)
                /\ \A n \in (j + 1)..Len(m) : m[n] = Zero
            BY <1>0, <5>1, <5>2, <5>3
          <6> QED
            BY <6>1, TotallingZeros
        <5>5. \A n \in 0..i : Totalling(m)[n] = Totalling(s)[n]
          <6>1. Len(m) \in Nat /\ Len(s) \in Nat /\ i <= Len(m) /\ i <= Len(s)
            BY <1>0, <1>1, <5>1, <5>3
          <6>2. \A n \in 1..i : m[n] = s[n]
            BY <5>2, <5>3
          <6>3. i \in Nat
            BY <5>3
          <6> QED
            BY <6>1, <6>2, <6>3, TotallingAgrees, ZenonT(60)
        <5>6. Totalling(m)[j] = Plus(Totalling(m)[i], m[j])
          BY <2>1, <5>1 DEF i
        <5>7. Totalling(m)[i] = t[j - 1]
          BY <5>3, <5>5 DEF i, t
        <5> QED
          BY <3>3, <5>2, <5>4, <5>6, <5>7 DEF m
      <4>9. \A n \in (last + 1)..nsmax : b.mass[n] = Zero
        <5>1. j <= last
          <6> SUFFICES ASSUME ~(j <= last) PROVE FALSE
            OBVIOUS
          <6>1. j \in (last + 1)..nsmax
            BY <1>0, <2>1
          <6>2. ds[j] = Zero
            BY <6>1
          <6> QED
            BY <1>0, <3>4, <6>2, OrderLaws
        <5>2. \A n \in (last + 1)..nsmax : n \in (j + 1)..nsmax
          BY <1>0, <2>1, <5>1
        <5> QED
          BY <4>6, <5>2
      <4>10. Came(b, j - 1, last, s, nold)
        BY <2>2, <4>2, <4>7, <4>8, <4>9 DEF Came, S, b
      <4> QED
        BY <4>10 DEF b
    <3>5. CASE ~(Less(Zero, sum) /\ Less(Zero, ds[j]))
      <4> DEFINE b == TakeOff(ds, a, j)
      <4>1. b = [a EXCEPT !.mass[j] = Zero, !.remains = Plus(@, s[j])]
        BY <2>4, <3>2, <3>5 DEF TakeOff, sum
      <4> HIDE DEF b
      <4>2. /\ b.done = a.done /\ b.mass = [a.mass EXCEPT ![j] = Zero]
            /\ b.remains = Plus(a.remains, s[j])
        BY <2>1, <4>1 DEF Taking
      <4>3. b.mass[j] = Zero /\ \A n \in 1..nsmax : n # j => b.mass[n] = a.mass[n]
        BY <2>1, <4>2
      <4>4. \A n \in 1..(j - 1) : b.mass[n] = s[n]
        <5>1. \A n \in 1..(j - 1) : n \in 1..nsmax /\ n # j /\ n \in 1..j
          BY <1>0, <2>1
        <5> QED
          BY <3>1, <4>3, <5>1
      <4>5. \A n \in ((j - 1) + 1)..nsmax : b.mass[n] = Zero
        <5>1. (j - 1) + 1 = j
          BY <2>1
        <5>2. ASSUME NEW n \in j..nsmax PROVE b.mass[n] = Zero
          <6>1. CASE n = j
            BY <4>3, <6>1
          <6>2. CASE n # j
            <7>1. n \in (j + 1)..nsmax /\ n \in 1..nsmax
              BY <1>0, <2>1, <6>2
            <7> QED
              BY <3>1, <4>3, <6>2, <7>1
          <6> QED
            BY <6>1, <6>2
        <5> QED
          BY <5>1, <5>2
      <4>6. Plus(b.remains, t[j - 1]) = S
        BY <3>3, <4>2
      <4>7. j - 1 = 0 => AtMost(S, Zero)
        <5> SUFFICES ASSUME j - 1 = 0 PROVE AtMost(S, Zero)
          OBVIOUS
        <5>1. j = 1 /\ t[j - 1] = Zero
          BY <1>1, <2>1
        <5>2. S = sum
          <6>1. Plus(sum, Zero) = sum
            BY <3>3, PlusLaws
          <6> QED
            BY <3>3, <5>1, <6>1
        <5>3. ~Less(Zero, sum)
          BY <3>5, <5>1
        <5> QED
          BY <5>2, <5>3 DEF AtMost
      <4>8. Came(b, j - 1, last, s, nold)
        BY <2>2, <2>4, <4>2, <4>4, <4>5, <4>6, <4>7 DEF Came, S, t, b
      <4> QED
        BY <4>8 DEF b
    <3> QED
      BY <3>4, <3>5
  <2> QED
    BY <2>3, <2>4
<1> DEFINE Good == {k \in 0..nold : Came(run[k], nold - k, last, s, nold)}
<1>6. 0 \in Good
  BY <1>0, <1>4
<1>7. ASSUME NEW k \in 0..(nold - 1), k \in Good PROVE k + 1 \in Good
  <2>1. /\ k + 1 \in 1..nold /\ (k + 1) - 1 = k /\ k + 1 \in 0..nold /\ nold - k \in 1..nold
        /\ nold + 1 - (k + 1) = nold - k /\ (nold - k) - 1 = nold - (k + 1)
    BY <1>0
  <2>2. Came(TakeOff(ds, run[k], nold - k), (nold - k) - 1, last, s, nold)
    BY <1>5, <1>7, <2>1
  <2>3. run[k + 1] = TakeOff(ds, run[k], nold - k)
    BY <1>3, <2>1
  <2> QED
    BY <2>1, <2>2, <2>3
<1>8. Came(run[nold], 0, last, s, nold)
  <2> HIDE DEF Good
  <2>1. nold \in Nat /\ nold \in 0..nold /\ nold - nold = 0
    BY <1>0
  <2>2. \A k \in 0..nold : k \in Good
    BY <1>6, <1>7, <2>1, OneByOne
  <2> QED
    BY <2>1, <2>2 DEF Good
<1> DEFINE a == run[nold]
<1> HIDE DEF a
<1>9. a \in Taking /\ Came(a, 0, last, s, nold) /\ TakenOff(ds, s, nold) = a
  BY <1>3, <1>8 DEF Came, a
<1>10. CASE a.done
  <2>1. /\ a.mass \in [1..nsmax -> Amounts] /\ SeqTotal(a.mass) = S
        /\ \A n \in (last + 1)..nsmax : a.mass[n] = Zero
    BY <1>9, <1>10 DEF Came, S
  <2>2. AtMost(Zero, S)
    BY <1>0, <2>1, RunningIs DEF Amounts
  <2>3. Larger(Zero, S) = S
    BY <1>0, <1>1, <2>2, OrderLaws DEF Larger
  <2> QED
    BY <1>9, <2>1, <2>3 DEF S
<1>11. CASE ~a.done
  <2>1. /\ a.mass \in [1..nsmax -> Rationals] /\ \A n \in 1..nsmax : a.mass[n] = Zero
        /\ AtMost(S, Zero)
    <3>1. \A n \in (0 + 1)..nsmax : a.mass[n] = Zero
      BY <1>9, <1>11 DEF Came
    <3> QED
      BY <1>9, <1>11, <3>1 DEF Came, S, Taking
  <2>2. Larger(Zero, S) = Zero
    BY <2>1 DEF Larger, AtMost
  <2>3. a.mass \in [1..nsmax -> Amounts]
    BY <1>0, <2>1
  <2>4. SeqTotal(a.mass) = Zero
    <3> DEFINE m == a.mass
    <3>1. /\ m \in [1..nsmax -> Amounts] /\ Len(m) = nsmax /\ Totalling(m)[0] = Zero
          /\ \A n \in 1..nsmax : m[n] \in Rationals /\ m[n] = Zero
      BY <2>1, <2>3, RunningIs
    <3> HIDE DEF m
    <3>2. Len(m) \in Nat /\ 0 \in 0..Len(m) /\ (\A n \in 1..Len(m) : m[n] \in Rationals)
          /\ \A n \in (0 + 1)..Len(m) : m[n] = Zero
      BY <1>0, <3>1
    <3>3. SeqTotal(m) = Totalling(m)[0]
      BY <3>2, TotallingZeros
    <3> QED
      BY <3>1, <3>3 DEF m
  <2>5. \A n \in (last + 1)..nsmax : a.mass[n] = Zero
    BY <1>0, <2>1
  <2> QED
    BY <1>9, <2>2, <2>3, <2>4, <2>5 DEF S
<1> QED
  BY <1>10, <1>11

\* A divided pack that is as thick as a layer has no layer of no thickness.
LEMMA DividedThick ==
  ASSUME NEW depth \in Rationals, AtMost(dzsnow[1], depth)
  PROVE  /\ Divided(depth) \in [1..nsmax -> Amounts]
         /\ \A n \in 1..LayerCount(depth) : Less(Zero, Divided(depth)[n])
<1> DEFINE last == LayerCount(depth)
           ds == Divided(depth)
<1>1. /\ last \in 1..nsmax /\ ds \in [1..nsmax -> Rationals]
      /\ \A n \in 1..(last - 1) : ds[n] = dzsnow[n]
      /\ \A n \in (last + 1)..nsmax : ds[n] = Zero
      /\ last > 1 => Less(dzsnow[last - 1], ds[last])
  BY DividedIs
<1>2. AtMost(dzsnow[1], ds[1])
  BY FirstLayer
<1>3. /\ nsmax \in Nat \ {0} /\ Zero \in Rationals /\ 1 \in 1..nsmax
      /\ \A n \in 1..nsmax : dzsnow[n] \in Rationals /\ Less(Zero, dzsnow[n])
  BY Standards
<1> HIDE DEF last, ds
<1>4. ASSUME NEW n \in 1..last PROVE Less(Zero, ds[n]) /\ ds[n] \in Amounts
  <2>1. n \in 1..nsmax /\ ds[n] \in Rationals
    BY <1>1, <1>3
  <2>2. Less(Zero, ds[n])
    <3>1. CASE n < last
      <4>1. n \in 1..(last - 1)
        BY <1>1, <3>1
      <4> QED
        BY <1>1, <1>3, <2>1, <4>1
    <3>2. CASE n = last /\ last > 1
      <4>1. last - 1 \in 1..nsmax
        BY <1>1, <1>3, <3>2
      <4>2. dzsnow[last - 1] \in Rationals /\ Less(Zero, dzsnow[last - 1]) /\ Less(dzsnow[last - 1], ds[last])
        BY <1>1, <1>3, <3>2, <4>1
      <4> QED
        BY <1>3, <2>1, <3>2, <4>2, OrderLaws
    <3>3. CASE n = last /\ last = 1
      <4>1. dzsnow[1] \in Rationals /\ Less(Zero, dzsnow[1]) /\ AtMost(dzsnow[1], ds[n])
        BY <1>2, <1>3, <3>3
      <4> QED
        BY <1>3, <2>1, <4>1, OrderLaws
    <3> QED
      BY <1>1, <1>3, <3>1, <3>2, <3>3
  <2>3. AtMost(Zero, ds[n])
    BY <1>3, <2>1, <2>2, OrderLaws
  <2> QED
    BY <2>1, <2>2, <2>3 DEF Amounts
<1>5. ds \in [1..nsmax -> Amounts]
  <2>1. ASSUME NEW n \in 1..nsmax PROVE ds[n] \in Amounts
    <3>1. n \in 1..last \/ n \in (last + 1)..nsmax
      BY <1>1, <1>3
    <3> QED
      BY <1>1, <1>4, <3>1, AmountLaws
  <2> QED
    BY <1>1, <2>1
<1> QED
  BY <1>4, <1>5 DEF last, ds

\* What is taken from a pack in layers comes off its weight, and leaves it in layers.
LEMMA SubtractedWeighs ==
  ASSUME NEW p, Stacked(p), p.nsnow > 0, Solid(p.ds, p.mass), p.snow_tile \in Amounts,
         \A n \in (p.nsnow + 1)..nsmax : p.ds[n] = Zero /\ p.mass[n] = Zero,
         NEW sice0 \in Rationals,
         AtMost(dzsnow[1], Plus(SeqTotal(p.ds), Over(sice0, glimmer_ice_density)))
  PROVE  LET q == subtract_snowpacks(p, sice0)
         IN  /\ Stacked(q) /\ q.nsnow > 0
             /\ Weighs(q, Larger(Zero, Plus(SeqTotal(p.mass), sice0)))
             /\ AtMost(dzsnow[1], q.ds[1]) /\ q.snow_tile = p.snow_tile
<1> DEFINE q == subtract_snowpacks(p, sice0)
           nold == p.nsnow
           depth == Plus(SeqTotal(SubSeq(p.ds, 1, nold)), Over(sice0, glimmer_ice_density))
           s == [p.mass EXCEPT ![nold] = Plus(@, sice0)]
           ds == Divided(depth)
           last == LayerCount(depth)
<1>1. /\ nold \in 1..nsmax /\ nsmax \in Nat \ {0}
      /\ p.ds \in [1..nsmax -> Amounts] /\ p.mass \in [1..nsmax -> Amounts]
  BY Standards DEF Solid, Stacked
<1>2. /\ q.nsnow = last /\ q.ds = ds /\ q.mass = TakenOff(ds, s, nold).mass
      /\ q.snowdepth = depth /\ q.snow_tile = p.snow_tile
  BY DEF subtract_snowpacks, TakenOff, Stacked
<1>3. Stacked(q) /\ q.nsnow > 0
  BY SubtractedIs
<1>4. depth \in Rationals /\ AtMost(dzsnow[1], depth)
  <2>1. /\ Len(p.ds) = nsmax /\ \A n \in 1..nsmax : p.ds[n] \in Rationals
        /\ SeqTotal(p.ds) = Totalling(p.ds)[nsmax]
        /\ \A n \in 0..nsmax : Totalling(p.ds)[n] \in Amounts
    BY <1>1, RunningIs
  <2> DEFINE t == p.ds
  <2>2. /\ Len(t) \in Nat /\ nold \in 0..Len(t) /\ \A n \in 1..Len(t) : t[n] \in Rationals
        /\ \A n \in (nold + 1)..Len(t) : t[n] = Zero
    BY <1>1, <2>1
  <2> HIDE DEF t
  <2>3. SeqTotal(t) = Totalling(t)[nold] /\ SeqTotal(SubSeq(t, 1, nold)) = Totalling(t)[nold]
    BY <2>2, TotallingZeros, TotalOfFirst
  <2>4. SeqTotal(SubSeq(p.ds, 1, nold)) = SeqTotal(p.ds) /\ SeqTotal(p.ds) \in Rationals
    BY <2>2, <2>3, TotallingRational DEF t
  <2>5. Over(sice0, glimmer_ice_density) \in Rationals
    BY Standards, OverSign, OrderLaws, OverIs
  <2> QED
    BY <2>4, <2>5, PlusLaws
<1>5. /\ s \in [1..nsmax -> Rationals] /\ s[nold] = Plus(p.mass[nold], sice0)
      /\ \A n \in 1..nsmax : n # nold => s[n] \in Amounts /\ s[n] = p.mass[n]
      /\ \A n \in (nold + 1)..nsmax : s[n] = Zero
  <2>1. p.mass[nold] \in Rationals /\ \A n \in 1..nsmax : p.mass[n] \in Rationals
    BY <1>1, AmountLaws
  <2>2. Plus(p.mass[nold], sice0) \in Rationals
    BY <2>1, PlusLaws
  <2>3. /\ s[nold] = Plus(p.mass[nold], sice0)
        /\ \A n \in 1..nsmax : n # nold => s[n] = p.mass[n] /\ p.mass[n] \in Amounts
    BY <1>1
  <2>4. \A n \in (nold + 1)..nsmax : n \in 1..nsmax /\ n # nold
    BY <1>1
  <2>5. s \in [1..nsmax -> Rationals]
    <3> DEFINE m == p.mass
               v == Plus(m[nold], sice0)
    <3>1. m \in [1..nsmax -> Rationals] /\ v \in Rationals
      BY <1>1, <2>1, <2>2
    <3> HIDE DEF m, v
    <3>2. [m EXCEPT ![nold] = v] \in [1..nsmax -> Rationals]
      BY <3>1
    <3> QED
      BY <3>2 DEF m, v
  <2> HIDE DEF s
  <2> QED
    BY <2>3, <2>4, <2>5
<1> HIDE DEF s, depth, q
<1>6. SeqTotal(s) = Plus(SeqTotal(p.mass), sice0)
  <2> DEFINE i == nold - 1
             m == p.mass
  <2>1. /\ Len(m) = nsmax /\ \A n \in 1..nsmax : m[n] \in Rationals
        /\ \A n \in 1..nsmax : Totalling(m)[n] = Plus(Totalling(m)[n - 1], m[n])
        /\ \A n \in 0..nsmax : Totalling(m)[n] \in Amounts
    BY <1>1, RunningIs
  <2>2. Len(s) = nsmax /\ \A n \in 1..nsmax : s[n] \in Rationals
    BY <1>1, <1>5, SeqDef, LenProperties
  <2>3. /\ i \in Nat /\ i <= nsmax /\ i \in 0..i /\ nold \in 0..nsmax /\ i \in 0..nsmax
        /\ \A n \in 1..i : n \in 1..nsmax /\ n # nold
    BY <1>1
  <2>4. (\A n \in 1..i : s[n] = m[n]) /\ \A n \in (nold + 1)..nsmax : m[n] = Zero
    BY <1>5, <2>3
  <2>5. Totalling(s)[nold] = Plus(Totalling(s)[i], s[nold]) /\ Totalling(m)[nold] = Plus(Totalling(m)[i], m[nold])
    <3>1. Len(s) \in Nat /\ nold \in 1..Len(s)
      BY <1>1, <2>2
    <3>2. Totalling(s)[nold] = Plus(Totalling(s)[nold - 1], s[nold])
      BY <3>1, TotallingStep
    <3> QED
      BY <1>1, <2>1, <3>2
  <2> HIDE DEF i, m
  <2>6. SeqTotal(s) = Totalling(s)[nold]
    <3>1. Len(s) \in Nat /\ nold \in 0..Len(s) /\ (\A n \in 1..Len(s) : s[n] \in Rationals)
          /\ \A n \in (nold + 1)..Len(s) : s[n] = Zero
      BY <1>1, <1>5, <2>2, <2>3
    <3> QED
      BY <3>1, TotallingZeros
  <2>7. SeqTotal(m) = Totalling(m)[nold]
    <3>1. Len(m) \in Nat /\ nold \in 0..Len(m) /\ (\A n \in 1..Len(m) : m[n] \in Rationals)
          /\ \A n \in (nold + 1)..Len(m) : m[n] = Zero
      BY <1>1, <2>1, <2>3, <2>4
    <3> QED
      BY <3>1, TotallingZeros
  <2>8. Totalling(s)[i] = Totalling(m)[i]
    <3>1. Len(s) \in Nat /\ Len(m) \in Nat /\ i <= Len(s) /\ i <= Len(m)
      BY <1>1, <2>1, <2>2, <2>3
    <3>2. \A n \in 0..i : Totalling(s)[n] = Totalling(m)[n]
      BY <2>3, <2>4, <3>1, TotallingAgrees
    <3> QED
      BY <2>3, <3>2
  <2>9. Totalling(m)[i] \in Rationals /\ m[nold] \in Rationals
    BY <1>1, <2>1, <2>3, AmountLaws
  <2>10. Plus(Totalling(m)[i], Plus(m[nold], sice0)) = Plus(Plus(Totalling(m)[i], m[nold]), sice0)
    <3>1. \A x, y, z \in Rationals : Plus(x, Plus(y, z)) = Plus(Plus(x, y), z)
      BY PlusLaws
    <3> QED
      BY <2>9, <3>1
  <2>11. s[nold] = Plus(m[nold], sice0)
    BY <1>5 DEF m
  <2> QED
    BY <2>5, <2>6, <2>7, <2>8, <2>10, <2>11 DEF m
<1>7. /\ last \in 1..nsmax /\ ds \in [1..nsmax -> Amounts]
      /\ \A n \in 1..last : Less(Zero, ds[n])
      /\ \A n \in (last + 1)..nsmax : ds[n] = Zero
      /\ SeqTotal(ds) = depth /\ AtMost(dzsnow[1], ds[1])
  BY <1>4, DividedThick, DividedIs, FirstLayer
<1> HIDE DEF ds, last
<1> DEFINE mass == TakenOff(ds, s, nold).mass
<1>8. /\ mass \in [1..nsmax -> Amounts] /\ SeqTotal(mass) = Larger(Zero, SeqTotal(s))
      /\ \A n \in (last + 1)..nsmax : mass[n] = Zero
  <2>1. ds \in [1..nsmax -> Rationals] /\ Less(Zero, ds[1])
    BY <1>1, <1>7, AmountLaws
  <2>2. (\A n \in (last + 1)..nsmax : ds[n] = Zero) /\ (\A n \in 1..nsmax : n # nold => s[n] \in Amounts)
    BY <1>5, <1>7
  <2>3. /\ nold \in 1..nsmax /\ s \in [1..nsmax -> Rationals] /\ last \in 1..nsmax
        /\ \A n \in (nold + 1)..nsmax : s[n] = Zero
    BY <1>1, <1>5, <1>7
  <2> HIDE DEF nold
  <2> QED
    BY <2>1, <2>2, <2>3, TakenOffIs, Zenon
<1> HIDE DEF mass
<1>9. Solid(ds, mass)
  <2>1. ASSUME NEW n \in 1..nsmax, ds[n] = Zero PROVE mass[n] = Zero
    <3>1. n \notin 1..last
      BY <1>7, <2>1, ZeroIs, OrderLaws
    <3>2. n \in (last + 1)..nsmax
      BY <1>1, <1>7, <3>1
    <3> QED
      BY <1>8, <3>2
  <2> QED
    BY <1>7, <1>8, <2>1 DEF Solid
<1>10. Weighs(q, Larger(Zero, Plus(SeqTotal(p.mass), sice0)))
  BY <1>2, <1>3, <1>6, <1>7, <1>8, <1>9 DEF Weighs, mass
<1> QED
  BY <1>2, <1>3, <1>7, <1>10 DEF q

-------------------------------------------------------------------------------
(* The mass of a pack over its tile *)

\* What falls on the share of both tiles that is the non-ice tile's fell on both.
LEMMA ShareOut ==
  ASSUME NEW f \in Areas, f.ni # Zero, NEW x \in Rationals
  PROVE  LET share == NoniceShare(f)
         IN  Times(Over(x, share), f.ni) = Times(x, Plus(f.ni, f.ice))
<1> DEFINE n == f.ni
           both == Plus(f.ni, f.ice)
           share == NoniceShare(f)
<1>1. /\ n \in Rationals /\ Less(Zero, n) /\ f.ice \in Rationals /\ AtMost(Zero, f.ice)
      /\ share \in Rationals /\ Less(Zero, share) /\ Zero \in Rationals
  BY FracsAre, ZeroIs
<1>2. both \in Rationals /\ Less(Zero, both)
  <2> DEFINE i == f.ice
  <2>1. i \in Rationals /\ AtMost(Zero, i)
    BY <1>1
  <2>2. both = Plus(n, i)
    OBVIOUS
  <2> HIDE DEF n, i, both
  <2>3. Less(Plus(Zero, i), Plus(n, i)) /\ Plus(Zero, i) = i /\ Plus(n, i) \in Rationals
    BY <1>1, <2>1, OrderLaws, PlusLaws
  <2> QED
    BY <1>1, <2>1, <2>2, <2>3, OrderLaws
<1>3. share = Over(n, both)
  BY DEF NoniceShare
<1> HIDE DEF n, both, share
<1> DEFINE y == Over(x, share)
<1>4. Times(share, both) = n
  BY <1>1, <1>2, <1>3, OverSign
<1>5. y \in Rationals /\ Times(y, share) = x
  BY <1>1, OverSign
<1> HIDE DEF y
<1>6. Times(y, n) = Times(Times(y, share), both)
  <2>1. \A p, q, r \in Rationals : Times(p, Times(q, r)) = Times(Times(p, q), r)
    BY TimesLaws
  <2>2. Times(y, Times(share, both)) = Times(Times(y, share), both)
    BY <1>1, <1>2, <1>5, <2>1
  <2> QED
    BY <1>4, <2>2
<1> QED
  BY <1>5, <1>6 DEF y, n, both, share

\* The larger of nothing and something, over a tile.
LEMMA LargerTimes ==
  ASSUME NEW x \in Rationals, NEW n \in Rationals, Less(Zero, n)
  PROVE  /\ Larger(Zero, x) \in Amounts
         /\ Times(Larger(Zero, x), n) = Larger(Zero, Times(x, n))
         /\ x \in Amounts => Larger(Zero, x) = x
<1>1. Zero \in Rationals /\ Times(Zero, n) = Zero /\ Times(x, n) \in Rationals /\ Zero \in Amounts
  BY ZeroIs, TimesLaws, AmountLaws
<1>2. CASE Less(Zero, x)
  <2>1. Less(Zero, Times(x, n)) /\ AtMost(Zero, x)
    BY <1>1, <1>2, TimesSign, OrderLaws
  <2> QED
    BY <1>1, <1>2, <2>1 DEF Larger, Amounts
<1>3. CASE ~Less(Zero, x)
  <2>1. Larger(Zero, x) = Zero
    BY <1>3 DEF Larger
  <2>2. x \in Amounts => x = Zero
    BY <1>1, <1>3, OrderLaws DEF Amounts
  <2>3. ~Less(Zero, Times(x, n))
    BY <1>3, TimesSign
  <2>4. Larger(Zero, Times(x, n)) = Zero
    BY <2>3 DEF Larger
  <2> QED
    BY <1>1, <2>1, <2>2, <2>4
<1> QED
  BY <1>2, <1>3

\* What is returned to JULES weighs what the pack did, if it is in layers or was without.
LEMMA RegularisedWeighs ==
  ASSUME NEW p, Stacked(p), NEW T, Weighs(p, T)
  PROVE  LET q == Regularised(p)
         IN  /\ Weighs(q, q.snow_tile)
             /\ q.nsnow > 0 => /\ p.nsnow > 0 /\ q.snow_tile = T
                               /\ q.nsnow = p.nsnow /\ q.ds = p.ds /\ q.mass = p.mass
             /\ p.nsnow = 0 => q.nsnow = 0 /\ q.snow_tile = T
             /\ p.nsnow > 0 /\ AtMost(dzsnow[1], p.ds[1]) => q.nsnow > 0
<1> DEFINE q == Regularised(p)
<1>0. /\ nsmax \in Nat /\ Zero \in Amounts /\ p.nsnow \in 0..nsmax
      /\ p.mass \in [1..nsmax -> Amounts] /\ p.snow_tile \in Amounts
      /\ Stacked(q) /\ (q.nsnow > 0 => Regular(q))
  <2>1. Stacked(q) /\ IF q.nsnow = 0 THEN q.snowdepth = Zero ELSE Regular(q)
    BY RegularisedIs
  <2> HIDE DEF q
  <2> QED
    BY <2>1, Standards, AmountLaws DEF Weighs, Stacked
<1>1. CASE p.nsnow > 0 /\ AtMost(dzsnow[1], p.ds[1])
  <2> DEFINE mass == [n \in 1..nsmax |-> IF n <= p.nsnow THEN p.mass[n] ELSE Zero]
  <2>1. q = [p EXCEPT !.mass = mass, !.snow_tile = SeqTotal(mass),
                      !.snowdepth = SeqTotal(SubSeq(p.ds, 1, p.nsnow))]
    BY <1>1 DEF Regularised
  <2>2. \A n \in (p.nsnow + 1)..nsmax : p.mass[n] = Zero
    BY <1>1 DEF Weighs
  <2>3. mass = p.mass
    <3>1. ASSUME NEW n \in 1..nsmax PROVE mass[n] = p.mass[n]
      <4>1. n <= p.nsnow \/ n \in (p.nsnow + 1)..nsmax
        BY <1>0
      <4> QED
        BY <2>2, <4>1
    <3>2. mass = [n \in 1..nsmax |-> mass[n]] /\ p.mass = [n \in 1..nsmax |-> p.mass[n]]
      BY <1>0
    <3> HIDE DEF mass
    <3> QED
      BY <3>1, <3>2
  <2> HIDE DEF mass, q
  <2>4. q.nsnow = p.nsnow /\ q.ds = p.ds /\ q.mass = p.mass /\ q.snow_tile = SeqTotal(p.mass)
    BY <2>1, <2>3 DEF Stacked
  <2>5. T = SeqTotal(p.mass)
    BY <1>1 DEF Weighs
  <2>6. q.snow_tile \in Amounts
    <3>1. nsmax \in 0..nsmax
      BY <1>0
    <3> QED
      BY <1>0, <2>4, <3>1, RunningIs
  <2>7. Weighs(q, q.snow_tile)
    BY <1>0, <2>4, <2>6, RegularWeighs
  <2> QED
    BY <1>1, <2>4, <2>5, <2>7 DEF q
<1>2. CASE ~(p.nsnow > 0 /\ AtMost(dzsnow[1], p.ds[1]))
  <2>1. q = [p EXCEPT !.nsnow = 0, !.mass = NoLayers, !.snowdepth = Zero]
    BY <1>2 DEF Regularised
  <2> HIDE DEF q
  <2>2. q.nsnow = 0 /\ q.mass = NoLayers /\ q.snow_tile = p.snow_tile
    BY <2>1 DEF Stacked
  <2>3. NoLayers \in [1..nsmax -> Amounts]
    BY <1>0 DEF NoLayers
  <2>4. Weighs(q, q.snow_tile)
    BY <1>0, <2>2, <2>3 DEF Weighs
  <2>5. p.nsnow = 0 => T = p.snow_tile
    BY DEF Weighs
  <2> QED
    BY <1>2, <2>2, <2>4, <2>5 DEF q
<1> QED
  BY <1>1, <1>2

\* What a pack weighs is an amount.
LEMMA WeightIs ==
  ASSUME NEW p, NEW T, Weighs(p, T)
  PROVE  T \in Amounts /\ T \in Rationals
<1>1. CASE p.nsnow = 0
  BY <1>1, AmountLaws DEF Weighs
<1>2. CASE p.nsnow # 0
  <2>1. T = SeqTotal(p.mass) /\ p.mass \in [1..nsmax -> Amounts]
    BY <1>2 DEF Weighs
  <2>2. nsmax \in 0..nsmax
    BY Standards
  <2> QED
    BY <2>1, <2>2, RunningIs, AmountLaws
<1> QED
  BY <1>1, <1>2

\* A pack over a changed area weighs as much as was kept.
LEMMA RearrangedWeighs ==
  ASSUME NEW f \in Areas, NEW g \in Areas, NEW p, Stacked(p), NEW T, Weighs(p, T)
  PROVE  LET q == Vanished(Rearranged(p, f, g), g)
             kept == IF Shrinks(f, g) THEN Times(T, g.ni) ELSE Times(T, f.ni)
         IN  \E U : /\ Weighs(q, U) /\ Times(U, g.ni) = kept
                    /\ p.nsnow = 0 => q.nsnow = 0
<1> DEFINE r == Rearranged(p, f, g)
           q == Vanished(r, g)
           kept == IF Shrinks(f, g) THEN Times(T, g.ni) ELSE Times(T, f.ni)
<1>0. /\ f.ni \in Rationals /\ g.ni \in Rationals /\ AtMost(Zero, f.ni) /\ AtMost(Zero, g.ni)
      /\ Zero \in Rationals /\ Zero \in Amounts /\ nsmax \in Nat
  BY FracsAre, AmountLaws, Standards
<1>1. T \in Rationals
  BY WeightIs
<1>2. CASE g.ni = Zero
  <2>1. q = [r EXCEPT !.snow_tile = Zero]
    BY <1>2 DEF Vanished
  <2>2. ~Grows(f, g) /\ r = p
    <3>1. ~Less(f.ni, g.ni)
      BY <1>0, <1>2, OrderLaws
    <3> QED
      BY <3>1 DEF Grows, Rearranged
  <2>3. kept = Zero
    <3>1. ~Shrinks(f, g) => f.ni = Zero
      <4>1. Less(g.ni, f.ni) \/ f.ni = Zero
        BY <1>0, <1>2, OrderLaws
      <4> QED
        BY <4>1 DEF Shrinks
    <3>2. Times(T, Zero) = Zero
      BY <1>1, TimesLaws
    <3> QED
      BY <1>2, <3>1, <3>2
  <2> DEFINE U == IF p.nsnow = 0 THEN Zero ELSE T
  <2>4. U \in Rationals /\ Times(U, g.ni) = kept
    <3>1. U \in Rationals
      BY <1>0, <1>1
    <3>2. Times(U, Zero) = Zero
      BY <3>1, TimesLaws
    <3> QED
      BY <1>2, <2>3, <3>1, <3>2
  <2>5. /\ q.nsnow = p.nsnow /\ q.mass = p.mass /\ q.ds = p.ds /\ q.snowdepth = p.snowdepth
        /\ q.snow_tile = Zero
    BY <2>1, <2>2 DEF Stacked
  <2> HIDE DEF q, r
  <2>6. Weighs(q, U)
    BY <1>0, <2>5 DEF Weighs
  <2> HIDE DEF U
  <2> QED
    BY <2>4, <2>5, <2>6 DEF q, r
<1>3. CASE g.ni # Zero
  <2>1. q = r
    BY <1>3 DEF Vanished
  <2>2. CASE Grows(f, g) /\ f.ni = Zero
    <3>1. r = EmptyPack
      BY <2>2 DEF Rearranged
    <3>2. r.nsnow = 0 /\ r.mass = NoLayers /\ r.snow_tile = Zero
      BY <3>1 DEF EmptyPack
    <3>3. NoLayers \in [1..nsmax -> Amounts]
      BY <1>0 DEF NoLayers
    <3> HIDE DEF r
    <3>4. Weighs(r, Zero)
      BY <1>0, <3>2, <3>3 DEF Weighs
    <3>5. kept = Zero /\ Times(Zero, g.ni) = Zero
      <4>1. ~Shrinks(f, g)
        BY <1>0, <2>2, OrderLaws DEF Shrinks, Grows
      <4>2. Times(T, Zero) = Zero /\ Times(Zero, g.ni) = Zero
        BY <1>0, <1>1, TimesLaws
      <4> QED
        BY <2>2, <4>1, <4>2
    <3> QED
      BY <2>1, <3>2, <3>4, <3>5 DEF r
  <2>3. CASE Grows(f, g) /\ f.ni # Zero
    <3> DEFINE e == Over(g.ni, f.ni)
               U == Over(T, e)
    <3>1. r = Spread(p, e)
      BY <2>3 DEF Rearranged
    <3>2. Less(Zero, f.ni) /\ Less(Zero, g.ni)
      BY <1>3, <2>3, FracsAre
    <3>3. e \in Rationals /\ Less(Zero, e) /\ Times(e, f.ni) = g.ni
      BY <1>0, <3>2, OverSign
    <3>4. kept = Times(T, f.ni)
      <4>1. ~Shrinks(f, g)
        BY <1>0, <2>3, OrderLaws DEF Shrinks, Grows
      <4> QED
        BY <4>1
    <3> HIDE DEF e
    <3>5. U \in Rationals /\ Times(U, e) = T
      BY <1>1, <3>3, OverSign
    <3>6. Times(U, g.ni) = kept
      <4>1. \A x, y, z \in Rationals : Times(x, Times(y, z)) = Times(Times(x, y), z)
        BY TimesLaws
      <4> HIDE DEF U
      <4>2. Times(U, Times(e, f.ni)) = Times(Times(U, e), f.ni)
        BY <1>0, <3>3, <3>5, <4>1
      <4> QED
        BY <3>3, <3>4, <3>5, <4>2
    <3>7. Weighs(r, U) /\ (p.nsnow = 0 => r.nsnow = 0)
      <4>1. CASE p.nsnow > 0
        <5>1. r = scale_snowpack(p, e)
          BY <3>1, <4>1 DEF Spread
        <5> HIDE DEF r
        <5> QED
          BY <3>3, <4>1, <5>1, ScaledWeighs
      <4>2. CASE ~(p.nsnow > 0)
        <5>1. p.nsnow = 0
          BY <4>2 DEF Stacked
        <5>2. r = [p EXCEPT !.snow_tile = Over(@, e)]
          BY <3>1, <4>2 DEF Spread
        <5>3. T = p.snow_tile /\ T \in Amounts
          BY <5>1 DEF Weighs
        <5>4. U \in Amounts
          <6>1. T \in Rationals /\ AtMost(Zero, T)
            BY <5>3 DEF Amounts
          <6> QED
            BY <3>3, <6>1, OverSign DEF Amounts
        <5> HIDE DEF U
        <5>5. r.nsnow = 0 /\ r.mass = p.mass /\ r.snow_tile = U
          BY <5>1, <5>2, <5>3 DEF Stacked, U
        <5> HIDE DEF r
        <5> QED
          BY <5>1, <5>4, <5>5 DEF Weighs
      <4> QED
        BY <4>1, <4>2
    <3> HIDE DEF U
    <3> QED
      BY <2>1, <3>6, <3>7
  <2>4. CASE ~Grows(f, g)
    <3>1. r = p
      BY <2>4 DEF Rearranged
    <3>2. kept = Times(T, g.ni)
      <4>1. Less(g.ni, f.ni) \/ g.ni = f.ni
        BY <1>0, <2>4, OrderLaws DEF Grows
      <4> QED
        BY <4>1 DEF Shrinks
    <3> QED
      BY <2>1, <3>1, <3>2
  <2> QED
    BY <2>2, <2>3, <2>4
<1> QED
  BY <1>2, <1>3

\* Snow from the ice sheet adds what fell on both tiles to what is on the non-ice tile.
LEMMA GivenWeighs ==
  ASSUME NEW new \in Areas, new.ni # Zero, NEW anomaly \in Rationals, Less(dzsnow[1], anomaly),
         NEW p, Stacked(p), NEW T, Weighs(p, T)
  PROVE  LET q == Give(p, new, anomaly)
         IN  /\ q.nsnow > 0
             /\ p.nsnow = 0 => AtMost(dzsnow[1], q.ds[1])
             /\ \E U : /\ Weighs(q, U)
                       /\ Times(U, new.ni) = Plus(Times(T, new.ni),
                            Times(Times(anomaly, glimmer_ice_density), Plus(new.ni, new.ice)))
<1> DEFINE iced == Times(anomaly, glimmer_ice_density)
           mass == SeqTotal(IcePack.mass)
           share == NoniceShare(new)
           o == Over(mass, iced)
           area_factor == Times(o, share)
           thick == IF p.nsnow = 0 THEN OneLayer(p) ELSE p
           snow == scale_snowpack(IcePack, area_factor)
           V == Over(mass, area_factor)
           both == Plus(new.ni, new.ice)
           n == new.ni
<1>1. /\ Zero \in Rationals /\ dzsnow[1] \in Rationals /\ Less(Zero, dzsnow[1])
      /\ glimmer_ice_density \in Rationals /\ Less(Zero, glimmer_ice_density)
  BY Standards
<1>2. Less(Zero, anomaly)
  BY <1>1, OrderLaws
<1>3. iced \in Rationals /\ Less(Zero, iced)
  BY <1>1, <1>2, TimesLaws, TimesSign
<1>4. /\ Stacked(IcePack) /\ IcePack.nsnow > 0 /\ Weighs(IcePack, mass)
      /\ mass \in Rationals /\ Less(Zero, mass)
  <2>1. Weighs(IcePack, IcePack.snow_tile) /\ Stacked(IcePack) /\ IcePack.nsnow > 0 /\ Less(Zero, mass)
    BY HeldWeighs, PackIs, SnowAssumption
  <2>2. IcePack.nsnow # 0
    BY <2>1
  <2>3. Weighs(IcePack, mass)
    BY <2>1, <2>2 DEF Weighs
  <2> HIDE DEF mass
  <2> QED
    BY <2>1, <2>3, WeightIs
<1>5. share \in Rationals /\ Less(Zero, share) /\ n \in Rationals /\ new.ice \in Rationals
  BY FracsAre
<1>6. both \in Rationals
  <2> DEFINE i == new.ice
  <2>1. i \in Rationals /\ n \in Rationals /\ both = Plus(n, i)
    BY <1>5
  <2> HIDE DEF i, n, both
  <2> QED
    BY <2>1, PlusLaws
<1>7. \A x \in Rationals : Times(Over(x, share), n) = Times(x, both)
  BY ShareOut
<1>8. Give(p, new, anomaly) = add_snowpacks(thick, snow)
  BY DEF Give
<1> HIDE DEF iced, mass, share, both, n
<1>9. o \in Rationals /\ Less(Zero, o) /\ Times(o, iced) = mass
  BY <1>3, <1>4, OverSign
<1> HIDE DEF o
<1>10. area_factor \in Rationals /\ Less(Zero, area_factor)
  BY <1>5, <1>9, TimesLaws, TimesSign
<1>11. V \in Rationals /\ Times(V, area_factor) = mass
  BY <1>4, <1>10, OverSign
<1>12. Times(V, n) = Times(iced, both)
  <2> HIDE DEF V
  <2>1. \A x, y, z \in Rationals : Times(x, Times(y, z)) = Times(Times(x, y), z)
    BY TimesLaws
  <2>2. \A x, y \in Rationals : Times(x, y) = Times(y, x) /\ Times(x, y) \in Rationals
    BY TimesLaws
  \* Of V spread out again, and of mass.
  <2> DEFINE w == Times(V, o)
  <2>3. w \in Rationals /\ Times(w, share) = mass
    BY <1>5, <1>9, <1>11, <2>1, <2>2
  <2>4. w = Over(mass, share)
    <3> HIDE DEF w
    <3>1. share # Zero
      BY <1>1, <1>5, OrderLaws
    <3> QED
      BY <1>4, <1>5, <2>3, <3>1, OverIs
  <2>5. Times(w, n) = Times(mass, both)
    BY <1>4, <1>7, <2>4
  <2>6. Times(Times(V, n), o) = Times(w, n)
    BY <1>5, <1>9, <1>11, TimesSwap
  <2>7. Times(Times(iced, both), o) = Times(mass, both)
    <3>1. Times(Times(iced, both), o) = Times(Times(iced, o), both)
      BY <1>3, <1>6, <1>9, TimesSwap
    <3>2. Times(iced, o) = mass
      BY <1>3, <1>9, <2>2
    <3> QED
      BY <3>1, <3>2
  <2> DEFINE x == Times(V, n)
             y == Times(iced, both)
  <2>8. x \in Rationals /\ y \in Rationals /\ Times(x, o) = Times(y, o) /\ o # Zero
    BY <1>1, <1>3, <1>5, <1>6, <1>9, <1>11, <2>2, <2>5, <2>6, <2>7, OrderLaws
  <2> HIDE DEF x, y
  <2>9. x = y
    BY <1>9, <2>8, TimesCancels
  <2> QED
    BY <2>9 DEF x, y
<1>13. Stacked(snow) /\ snow.nsnow > 0 /\ Weighs(snow, V)
  <2> HIDE DEF area_factor
  <2> QED
    BY <1>4, <1>10, ScaledWeighs
<1>14. /\ Stacked(thick) /\ thick.nsnow > 0 /\ Weighs(thick, T)
       /\ p.nsnow = 0 => AtMost(dzsnow[1], SeqTotal(thick.ds))
  <2>1. CASE p.nsnow = 0
    <3>1. thick = OneLayer(p)
      BY <2>1
    <3>2. AtMost(dzsnow[1], dzsnow[1])
      BY <1>1, OrderLaws
    <3> HIDE DEF thick
    <3> QED
      BY <2>1, <3>1, <3>2, OneLayerWeighs
  <2>2. CASE p.nsnow # 0
    <3>1. thick = p /\ p.nsnow > 0
      BY <2>2 DEF Stacked
    <3> HIDE DEF thick
    <3> QED
      BY <2>2, <3>1
  <2> QED
    BY <2>1, <2>2
<1> HIDE DEF thick, snow, V
<1> DEFINE q == add_snowpacks(thick, snow)
           U == Plus(T, V)
<1>15. /\ q.nsnow > 0 /\ Weighs(q, U)
       /\ p.nsnow = 0 => AtMost(dzsnow[1], q.ds[1])
  BY <1>13, <1>14, AddedWeighs
<1>16. Times(U, n) = Plus(Times(T, n), Times(iced, both))
  <2>1. T \in Rationals
    BY WeightIs
  <2>2. \A x, y, z \in Rationals : Times(Plus(x, y), z) = Plus(Times(x, z), Times(y, z))
    BY TimesLaws
  <2> QED
    BY <1>5, <1>11, <1>12, <2>1, <2>2
<1> HIDE DEF q, U
<1> QED
  BY <1>8, <1>15, <1>16 DEF q, n, iced, both

\* Snow that the ice sheet takes comes off what is there, if there are layers to take it from
\* and layers left.
LEMMA TakenWeighs ==
  ASSUME NEW new \in Areas, new.ni # Zero, NEW anomaly \in Rationals, Less(anomaly, Zero),
         NEW p, Stacked(p), Thin(p), NEW T, Weighs(p, T)
  PROVE  LET q == Take(p, new, anomaly)
         IN  \E U : /\ Weighs(q, U)
                    /\ q.nsnow > 0 => Times(U, new.ni) = Larger(Zero, Plus(Times(T, new.ni),
                         Times(Times(anomaly, glimmer_ice_density), Plus(new.ni, new.ice))))
<1> DEFINE share == NoniceShare(new)
           depth == Over(anomaly, share)
           mass == Times(depth, glimmer_ice_density)
           taken == [p EXCEPT !.snowdepth = Plus(@, depth), !.snow_tile = Plus(@, mass)]
           thin == \/ Less(taken.snowdepth, dzsnow[1])
                   \/ Less(taken.snow_tile, Times(dzsnow[1], glimmer_ice_density))
           both == Plus(new.ni, new.ice)
           n == new.ni
<1>1. /\ Zero \in Rationals /\ dzsnow[1] \in Rationals /\ Less(Zero, dzsnow[1])
      /\ glimmer_ice_density \in Rationals /\ Less(Zero, glimmer_ice_density)
      /\ Zero \in Amounts /\ nsmax \in Nat
  BY Standards, AmountLaws
<1>2. /\ share \in Rationals /\ Less(Zero, share) /\ n \in Rationals /\ Less(Zero, n)
      /\ new.ice \in Rationals
  BY FracsAre
<1>3. Times(Over(anomaly, share), n) = Times(anomaly, both)
  BY ShareOut
<1>4. both \in Rationals
  <2> DEFINE i == new.ice
  <2>1. i \in Rationals /\ n \in Rationals /\ both = Plus(n, i)
    BY <1>2
  <2> HIDE DEF i, n, both
  <2> QED
    BY <2>1, PlusLaws
<1>5. Take(p, new, anomaly)
        = IF thin THEN [EmptyPack EXCEPT !.snow_tile = Clipped(Plus(taken.snow_tile, mass))]
                  ELSE subtract_snowpacks(taken, mass)
  BY DEF Take
<1> HIDE DEF share, both, n
<1>6. depth \in Rationals /\ Less(depth, Zero)
  BY <1>2, OverSign
<1>7. mass \in Rationals /\ Times(mass, n) = Times(Times(anomaly, glimmer_ice_density), both)
  <2>1. Times(depth, n) = Times(anomaly, both)
    BY <1>3
  <2> HIDE DEF depth
  <2>2. Times(Times(depth, glimmer_ice_density), n) = Times(Times(depth, n), glimmer_ice_density)
    BY <1>1, <1>2, <1>6, TimesSwap
  <2>3. Times(Times(anomaly, both), glimmer_ice_density) = Times(Times(anomaly, glimmer_ice_density), both)
    BY <1>1, <1>4, TimesSwap
  <2>4. mass \in Rationals
    BY <1>1, <1>6, TimesLaws
  <2> QED
    BY <2>1, <2>2, <2>3, <2>4
<1>8. Over(mass, glimmer_ice_density) = depth
  <2> HIDE DEF depth
  <2>1. glimmer_ice_density # Zero
    BY <1>1, OrderLaws
  <2> QED
    BY <1>1, <1>6, <2>1, OverLaws
<1> HIDE DEF depth, mass
<1>9. /\ p.snow_tile \in Amounts /\ p.snow_tile \in Rationals /\ p.snowdepth \in Rationals
      /\ p.nsnow \in 0..nsmax
  BY AmountLaws DEF Weighs, Stacked
<1>10. /\ taken.snowdepth = Plus(p.snowdepth, depth) /\ taken.snowdepth \in Rationals
       /\ taken.snow_tile \in Rationals
       /\ taken.nsnow = p.nsnow /\ taken.ds = p.ds /\ taken.mass = p.mass
       /\ DOMAIN taken = DOMAIN p
  <2>1. Plus(p.snowdepth, depth) \in Rationals /\ Plus(p.snow_tile, mass) \in Rationals
    BY <1>6, <1>7, <1>9, PlusLaws
  <2> QED
    BY <2>1 DEF Stacked
<1>11. Stacked(taken)
  BY <1>10 DEF Stacked, Layered
<1> HIDE DEF taken
<1>12. CASE thin
  <2> DEFINE x == Clipped(Plus(taken.snow_tile, mass))
             q == [EmptyPack EXCEPT !.snow_tile = x]
  <2>1. x \in Amounts
    <3>1. Plus(taken.snow_tile, mass) \in Rationals
      BY <1>7, <1>10, PlusLaws
    <3> DEFINE v == Plus(taken.snow_tile, mass)
    <3> HIDE DEF v
    <3>2. v \in Rationals => Larger(v, Zero) \in Amounts
      <4> SUFFICES ASSUME v \in Rationals PROVE Larger(v, Zero) \in Amounts
        OBVIOUS
      <4>1. CASE Less(v, Zero)
        BY <1>1, <4>1 DEF Larger
      <4>2. CASE ~Less(v, Zero)
        <5>1. AtMost(Zero, v)
          BY <4>2 DEF AtMost
        <5> QED
          BY <4>2, <5>1 DEF Larger, Amounts
      <4> QED
        BY <4>1, <4>2
    <3> QED
      BY <3>1, <3>2 DEF v, Clipped
  <2> HIDE DEF x
  <2>2. q.nsnow = 0 /\ q.mass = NoLayers /\ q.snow_tile = x
    BY DEF EmptyPack
  <2>3. NoLayers \in [1..nsmax -> Amounts]
    BY <1>1 DEF NoLayers
  <2>4. Take(p, new, anomaly) = q
    BY <1>5, <1>12 DEF x
  <2> HIDE DEF q
  <2>5. Weighs(q, x)
    BY <2>1, <2>2, <2>3 DEF Weighs
  <2> QED
    BY <2>2, <2>4, <2>5
<1>13. CASE ~thin
  <2>1. AtMost(dzsnow[1], taken.snowdepth) /\ AtMost(Times(dzsnow[1], glimmer_ice_density), taken.snow_tile)
    BY <1>13 DEF AtMost
  <2>2. taken.snow_tile \in Amounts
    <3>1. AtMost(Zero, dzsnow[1]) /\ AtMost(Zero, glimmer_ice_density)
      BY <1>1, OrderLaws
    <3> DEFINE v == Times(dzsnow[1], glimmer_ice_density)
    <3>2. v \in Rationals /\ AtMost(Zero, v)
      BY <1>1, <3>1, TimesLaws, TimesSign
    <3>3. AtMost(v, taken.snow_tile)
      BY <2>1
    <3> HIDE DEF v
    <3>4. AtMost(Zero, taken.snow_tile)
      BY <1>1, <1>10, <3>2, <3>3, OrderLaws
    <3> QED
      BY <1>10, <3>4 DEF Amounts
  <2>3. p.nsnow > 0
    <3> SUFFICES ASSUME p.nsnow = 0 PROVE FALSE
      BY <1>9
    <3>1. Less(p.snowdepth, dzsnow[1])
      BY DEF Thin
    <3> DEFINE d == p.snowdepth
               t == Plus(d, depth)
    <3>2. d \in Rationals /\ Less(d, dzsnow[1]) /\ AtMost(dzsnow[1], t) /\ t \in Rationals
      BY <1>9, <1>10, <2>1, <3>1
    <3> HIDE DEF d
    <3>3. Less(Plus(depth, d), Plus(Zero, d)) /\ Plus(Zero, d) = d /\ Plus(depth, d) = t
      BY <1>1, <1>6, <3>2, OrderLaws, PlusLaws
    <3> HIDE DEF t
    <3>4. Less(t, d)
      BY <3>3
    <3> QED
      BY <1>1, <3>2, <3>4, OrderLaws
  <2>4. /\ T = SeqTotal(p.mass) /\ p.snowdepth = SeqTotal(p.ds) /\ Solid(p.ds, p.mass)
        /\ \A m \in (p.nsnow + 1)..nsmax : p.ds[m] = Zero /\ p.mass[m] = Zero
    BY <2>3 DEF Weighs
  <2>5. /\ taken.nsnow > 0 /\ Solid(taken.ds, taken.mass)
        /\ \A m \in (taken.nsnow + 1)..nsmax : taken.ds[m] = Zero /\ taken.mass[m] = Zero
        /\ AtMost(dzsnow[1], Plus(SeqTotal(taken.ds), Over(mass, glimmer_ice_density)))
        /\ SeqTotal(taken.mass) = T
    BY <1>8, <1>10, <2>1, <2>3, <2>4
  <2> DEFINE q == subtract_snowpacks(taken, mass)
             X == Plus(T, mass)
             U == Larger(Zero, X)
  <2>6. Weighs(q, Larger(Zero, Plus(SeqTotal(taken.mass), mass)))
    BY <1>7, <1>11, <2>2, <2>5, SubtractedWeighs
  <2>7. Weighs(q, U)
    BY <2>5, <2>6
  <2>8. T \in Rationals
    BY WeightIs
  <2>9. X \in Rationals /\ Times(X, n) = Plus(Times(T, n), Times(mass, n))
    BY <1>2, <1>7, <2>8, PlusLaws, TimesLaws
  <2> HIDE DEF X
  <2>10. Times(U, n) = Larger(Zero, Times(X, n))
    BY <1>2, <2>9, LargerTimes
  <2>11. Take(p, new, anomaly) = q
    BY <1>5, <1>13
  <2> HIDE DEF q, U
  <2> QED
    BY <1>7, <2>7, <2>9, <2>10, <2>11 DEF n, both
<1> QED
  BY <1>12, <1>13

\* Which anomalies give, which take, and how much.
LEMMA WhatIsGiven ==
  ASSUME NEW new, NEW anomaly \in Rationals
  PROVE  LET thick == dzsnow[1]
         IN  /\ Less(thick, anomaly) => AtMost(Zero, anomaly)
             /\ Less(anomaly, Minus(Zero, thick)) => /\ Less(anomaly, Zero) /\ ~AtMost(Zero, anomaly)
                                                     /\ ~Less(thick, anomaly)
             /\ Given(new, anomaly) =
                  IF new.ni # Zero /\ (Less(thick, anomaly) \/ Less(anomaly, Minus(Zero, thick)))
                  THEN Times(Times(anomaly, glimmer_ice_density), Plus(new.ni, new.ice)) ELSE Zero
<1> DEFINE x == dzsnow[1]
           y == Minus(Zero, x)
           m == Minus(Zero, anomaly)
           all == Times(Times(anomaly, glimmer_ice_density), Plus(new.ni, new.ice))
<1>1. Zero \in Rationals /\ x \in Rationals /\ Less(Zero, x)
  BY Standards
<1>2. Given(new, anomaly) = IF new.ni = Zero \/ AtMost(IF Less(anomaly, Zero) THEN m ELSE anomaly, x)
                            THEN Zero ELSE all
  BY DEF Given
<1> HIDE DEF x, all
<1>3. y \in Rationals /\ m \in Rationals /\ Plus(y, x) = Zero /\ Plus(m, anomaly) = Zero
  BY <1>1, PlusLaws
<1> HIDE DEF y, m
<1>4. Less(anomaly, y) <=> Less(Plus(anomaly, x), Zero)
  BY <1>1, <1>3, OrderLaws
<1>5. Less(x, m) <=> Less(Plus(anomaly, x), Zero)
  <2>1. Less(x, m) <=> Less(Plus(x, anomaly), Plus(m, anomaly))
    BY <1>1, <1>3, OrderLaws
  <2>2. Plus(x, anomaly) = Plus(anomaly, x)
    BY <1>1, PlusLaws
  <2> QED
    BY <1>3, <2>1, <2>2
<1>6. Less(x, anomaly) => AtMost(Zero, anomaly) /\ ~Less(anomaly, Zero)
  BY <1>1, OrderLaws
<1>7. Less(anomaly, y) => Less(anomaly, Zero) /\ ~AtMost(Zero, anomaly) /\ ~Less(x, anomaly)
  <2>1. Less(Plus(Zero, y), Plus(x, y)) /\ Plus(x, y) = Zero /\ Plus(Zero, y) = y
    <3>1. Less(Plus(Zero, y), Plus(x, y))
      BY <1>1, <1>3, OrderLaws
    <3> QED
      BY <1>1, <1>3, <3>1, PlusLaws
  <2>2. Less(y, Zero)
    BY <2>1
  <2> QED
    BY <1>1, <1>3, <2>2, OrderLaws
<1>8. AtMost(m, x) <=> ~Less(anomaly, y)
  BY <1>4, <1>5 DEF AtMost
<1>9. AtMost(anomaly, x) <=> ~Less(x, anomaly)
  BY DEF AtMost
<1> QED
  BY <1>2, <1>6, <1>7, <1>8, <1>9 DEF x, y, all

\* The pack over the tile weighs what was kept and given, less what was taken.
LEMMA AlteredWeighs ==
  ASSUME NEW new \in Areas, NEW anomaly \in Rationals,
         NEW p, Stacked(p), Thin(p), NEW T, Weighs(p, T)
  PROVE  LET q == Altered(p, new, anomaly)
         IN  \E U :
               /\ Weighs(q, U)
               /\ new.ni # Zero /\ (q.nsnow > 0 \/ (p.nsnow = 0 /\ AtMost(Zero, anomaly))) =>
                    Times(U, new.ni) = Larger(Zero, Plus(Times(T, new.ni), Given(new, anomaly)))
               /\ p.nsnow = 0 /\ AtMost(Zero, anomaly) /\ q.nsnow > 0 => AtMost(dzsnow[1], q.ds[1])
<1> DEFINE thick == dzsnow[1]
           less == Minus(Zero, thick)
           given == Given(new, anomaly)
           all == Times(Times(anomaly, glimmer_ice_density), Plus(new.ni, new.ice))
           q == Altered(p, new, anomaly)
<1>1. /\ anomaly \in Rationals /\ T \in Rationals /\ T \in Amounts /\ new.ni \in Rationals
      /\ (new.ni # Zero => Less(Zero, new.ni)) /\ Zero \in Rationals /\ AtMost(Zero, new.ni)
      /\ p.nsnow \in 0..nsmax /\ nsmax \in Nat
  BY SnowAssumption, WeightIs, FracsAre, Standards DEF Stacked
<1>2. /\ Less(thick, anomaly) => AtMost(Zero, anomaly)
      /\ Less(anomaly, less) => /\ Less(anomaly, Zero) /\ ~AtMost(Zero, anomaly)
                                /\ ~Less(thick, anomaly)
      /\ given = IF new.ni # Zero /\ (Less(thick, anomaly) \/ Less(anomaly, less)) THEN all ELSE Zero
  BY <1>1, WhatIsGiven
<1>3. CASE new.ni # Zero /\ Less(thick, anomaly)
  <2>1. q = Give(p, new, anomaly)
    BY <1>2, <1>3 DEF Altered
  <2> DEFINE r == Give(p, new, anomaly)
  <2>2. /\ r.nsnow > 0 /\ (p.nsnow = 0 => AtMost(thick, r.ds[1]))
        /\ \E U : Weighs(r, U) /\ Times(U, new.ni) = Plus(Times(T, new.ni), all)
    BY <1>1, <1>3, GivenWeighs
  <2> HIDE DEF r, all
  <2>3. PICK U : Weighs(r, U) /\ Times(U, new.ni) = Plus(Times(T, new.ni), all)
    BY <2>2
  <2>4. Times(U, new.ni) = Larger(Zero, Plus(Times(T, new.ni), given))
    <3>1. U \in Amounts
      BY <2>3, WeightIs
    <3>2. new.ni \in Amounts
      BY <1>1 DEF Amounts
    <3>3. Times(U, new.ni) \in Amounts /\ Times(U, new.ni) \in Rationals
      BY <3>1, <3>2, AmountLaws
    <3> DEFINE v == Times(U, new.ni)
    <3>4. v \in Rationals /\ v \in Amounts
      BY <3>3
    <3> HIDE DEF v
    <3>5. Larger(Zero, v) = v
      BY <1>1, <1>3, <3>4, LargerTimes
    <3>6. given = all
      BY <1>2, <1>3
    <3> QED
      BY <2>3, <3>5, <3>6 DEF v
  <2> HIDE DEF q, given
  <2> QED
    BY <2>1, <2>2, <2>3, <2>4 DEF r, q, given
<1>4. CASE new.ni # Zero /\ Less(anomaly, less)
  <2>1. q = Take(p, new, anomaly)
    BY <1>2, <1>4 DEF Altered
  <2> DEFINE r == Take(p, new, anomaly)
  <2>2. \E U : /\ Weighs(r, U)
               /\ r.nsnow > 0 => Times(U, new.ni) = Larger(Zero, Plus(Times(T, new.ni), all))
    BY <1>1, <1>2, <1>4, TakenWeighs
  <2>3. given = all /\ ~AtMost(Zero, anomaly)
    BY <1>2, <1>4
  <2> HIDE DEF r, q, given, all
  <2> QED
    BY <2>1, <2>2, <2>3 DEF r, q, given
<1>5. CASE ~(new.ni # Zero /\ Less(thick, anomaly)) /\ ~(new.ni # Zero /\ Less(anomaly, less))
  <2>1. q = p
    BY <1>5 DEF Altered
  <2>2. given = Zero
    BY <1>2, <1>5
  <2>3. ASSUME new.ni # Zero PROVE Times(T, new.ni) = Larger(Zero, Plus(Times(T, new.ni), Zero))
    <3>1. new.ni \in Amounts
      BY <1>1 DEF Amounts
    <3> DEFINE v == Times(T, new.ni)
    <3>2. v \in Amounts /\ v \in Rationals
      BY <1>1, <3>1, AmountLaws
    <3> HIDE DEF v
    <3>3. Plus(v, Zero) = v
      BY <3>2, PlusLaws
    <3>4. Larger(Zero, v) = v
      BY <1>1, <2>3, <3>2, LargerTimes
    <3> QED
      BY <3>3, <3>4 DEF v
  <2>4. ~(p.nsnow = 0 /\ p.nsnow > 0)
    BY <1>1
  <2> HIDE DEF q, given
  <2> QED
    BY <2>1, <2>2, <2>3, <2>4 DEF q, given
<1> QED
  BY <1>3, <1>4, <1>5

\* The year's change, of areas and of snow.
LEMMA AdjustWeighs ==
  ASSUME frac \in Areas, Stacked(pack), Thin(pack), Weighs(pack, pack.snow_tile),
         NEW new \in Areas, NEW anomaly \in Rationals, NEW elsewhere
  PROVE  LET p == IF new # frac \/ elsewhere
                  THEN Vanished(Rearranged(pack, frac, new), new) ELSE pack
             q == Regularised(Altered(p, new, anomaly))
         IN  /\ Weighs(q, q.snow_tile)
             /\ q.nsnow > 0 \/ (pack.nsnow = 0 /\ AtMost(Zero, anomaly)) =>
                  Times(q.snow_tile, new.ni)
                    = Larger(Zero, Plus(Kept(frac, new), Given(new, anomaly)))
<1> DEFINE p == IF new # frac \/ elsewhere
                THEN Vanished(Rearranged(pack, frac, new), new) ELSE pack
           r == Altered(p, new, anomaly)
           q == Regularised(r)
           kept == Kept(frac, new)
           T == pack.snow_tile
<1>1. Stacked(p) /\ Thin(p)
  BY RearrangedIs
<1>2. kept = IF Shrinks(frac, new) THEN Times(T, new.ni) ELSE Times(T, frac.ni)
  BY DEF Kept, AreaMass
<1>3. /\ T \in Rationals /\ frac.ni \in Rationals /\ new.ni \in Rationals /\ Zero \in Rationals
      /\ AtMost(Zero, frac.ni)
  BY WeightIs, FracsAre, Standards
<1>4. \E S : Weighs(p, S) /\ Times(S, new.ni) = kept /\ (pack.nsnow = 0 => p.nsnow = 0)
  <2>1. CASE new # frac \/ elsewhere
    <3>1. p = Vanished(Rearranged(pack, frac, new), new)
      BY <2>1
    <3> HIDE DEF p, kept
    <3> QED
      BY <1>2, <3>1, RearrangedWeighs
  <2>2. CASE ~(new # frac \/ elsewhere)
    <3>1. p = pack /\ new = frac
      BY <2>2
    <3>2. kept = Times(T, new.ni)
      <4>1. ~Shrinks(frac, new)
        BY <1>3, <3>1, OrderLaws DEF Shrinks
      <4> QED
        BY <1>2, <3>1, <4>1
    <3> HIDE DEF p, kept
    <3> QED
      BY <3>1, <3>2
  <2> QED
    BY <2>1, <2>2
<1> HIDE DEF p, kept
<1>5. PICK S : Weighs(p, S) /\ Times(S, new.ni) = kept /\ (pack.nsnow = 0 => p.nsnow = 0)
  BY <1>4
<1>6. Stacked(r)
  BY <1>1, AlteredIs
<1>7. \E U :
        /\ Weighs(r, U)
        /\ new.ni # Zero /\ (r.nsnow > 0 \/ (p.nsnow = 0 /\ AtMost(Zero, anomaly))) =>
             Times(U, new.ni) = Larger(Zero, Plus(Times(S, new.ni), Given(new, anomaly)))
        /\ p.nsnow = 0 /\ AtMost(Zero, anomaly) /\ r.nsnow > 0 => AtMost(dzsnow[1], r.ds[1])
  BY <1>1, <1>5, AlteredWeighs
<1> HIDE DEF r
<1>8. PICK U :
        /\ Weighs(r, U)
        /\ new.ni # Zero /\ (r.nsnow > 0 \/ (p.nsnow = 0 /\ AtMost(Zero, anomaly))) =>
             Times(U, new.ni) = Larger(Zero, Plus(kept, Given(new, anomaly)))
        /\ p.nsnow = 0 /\ AtMost(Zero, anomaly) /\ r.nsnow > 0 => AtMost(dzsnow[1], r.ds[1])
  BY <1>5, <1>7
<1>9. /\ Weighs(q, q.snow_tile)
      /\ q.nsnow > 0 => r.nsnow > 0 /\ q.snow_tile = U
      /\ r.nsnow = 0 => q.nsnow = 0 /\ q.snow_tile = U
      /\ r.nsnow > 0 /\ AtMost(dzsnow[1], r.ds[1]) => q.nsnow > 0
  BY <1>6, <1>8, RegularisedWeighs
<1>10. r.nsnow = 0 \/ r.nsnow > 0
  BY <1>6, Standards DEF Stacked
<1> HIDE DEF q
<1>11. ASSUME q.nsnow > 0 \/ (pack.nsnow = 0 /\ AtMost(Zero, anomaly))
       PROVE  Times(q.snow_tile, new.ni) = Larger(Zero, Plus(kept, Given(new, anomaly)))
  <2>1. CASE new.ni = Zero
    <3>1. kept = Zero
      <4>1. Times(T, Zero) = Zero
        BY <1>3, TimesLaws
      <4>2. Less(new.ni, frac.ni) \/ frac.ni = Zero
        BY <1>3, <2>1, OrderLaws
      <4> QED
        BY <1>2, <2>1, <4>1, <4>2 DEF Shrinks
    <3>2. Given(new, anomaly) = Zero
      BY <2>1 DEF Given
    <3>3. q.snow_tile \in Rationals
      BY <1>9, WeightIs
    <3>4. Times(q.snow_tile, Zero) = Zero /\ Plus(Zero, Zero) = Zero /\ Larger(Zero, Zero) = Zero
      BY <1>3, <3>3, TimesLaws, PlusLaws DEF Larger
    <3> QED
      BY <2>1, <3>1, <3>2, <3>4
  <2>2. CASE new.ni # Zero
    BY <1>5, <1>8, <1>9, <1>10, <1>11, <2>2
  <2> QED
    BY <2>1, <2>2
<1> QED
  BY <1>9, <1>11 DEF p, q, r, kept

-------------------------------------------------------------------------------
(* The inductive invariant *)

SnowInv ==
  /\ frac \in Areas
  /\ Stacked(pack) /\ Thin(pack) /\ Weighs(pack, pack.snow_tile)
  /\ LayersRegular

\* The empty pack weighs nothing.
LEMMA EmptyWeighs == Weighs(EmptyPack, EmptyPack.snow_tile)
<1>1. NoLayers \in [1..nsmax -> Amounts] /\ Zero \in Amounts
  BY AmountLaws DEF NoLayers
<1> QED
  BY <1>1 DEF EmptyPack, Weighs

\* JULES has packs at first.
LEMMA SnowInit == AdjustInit => SnowInv
<1> SUFFICES ASSUME AdjustInit PROVE SnowInv
  OBVIOUS
<1>1. frac \in Areas /\ (pack = EmptyPack \/ pack \in Packs) /\ phase = "coupling"
  BY SnowAssumption DEF AdjustInit
<1> QED
  BY <1>1, EmptyIs, EmptyWeighs, PackIs, HeldWeighs DEF SnowInv, LayersRegular

\* Whatever the areas and the anomaly, the adjustment does not break the invariant.
LEMMA AdjustStep ==
  ASSUME SnowInv, NEW new \in Areas, NEW anomaly \in Rationals, NEW elsewhere,
         Adjust(new, anomaly, elsewhere), frac' = new
  PROVE  SnowInv'
<1>1. /\ frac \in Areas /\ Stacked(pack) /\ Thin(pack) /\ LayersRegular
      /\ Weighs(pack, pack.snow_tile)
  BY DEF SnowInv
<1> DEFINE p == IF new # frac \/ elsewhere
                THEN Vanished(Rearranged(pack, frac, new), new) ELSE pack
           q == Regularised(Altered(p, new, anomaly))
<1>2. pack' = q
  BY DEF Adjust
<1>3. Stacked(p) /\ Thin(p)
  BY <1>1, RearrangedIs
<1>4. Weighs(q, q.snow_tile)
  BY <1>1, AdjustWeighs
<1> HIDE DEF p
<1>5. Stacked(Altered(p, new, anomaly))
  BY <1>3, AlteredIs
<1>6. /\ Stacked(pack')
      /\ IF pack'.nsnow = 0 THEN pack'.snowdepth = Zero ELSE Regular(pack')
  BY <1>2, <1>5, RegularisedIs
<1>7. Thin(pack')
  BY <1>6, Standards DEF Thin
<1> HIDE DEF q
<1>8. Weighs(pack, pack.snow_tile)'
  BY <1>2, <1>4 DEF Weighs, Solid, q
<1> QED
  BY <1>6, <1>7, <1>8 DEF SnowInv, LayersRegular, Regular, Stacked, Thin, InLayers, Layered

\* Nor does the weather.
LEMMA SeasonStep == ASSUME SnowInv, Season PROVE SnowInv'
<1>1. phase' = "coupling" /\ frac' = frac /\ (pack' = pack \/ pack' \in Packs)
  BY DEF Season
<1>2. Stacked(pack') /\ Thin(pack')
  BY <1>1, PackIs DEF SnowInv
<1>3. Weighs(pack, pack.snow_tile)'
  BY <1>1, HeldWeighs DEF SnowInv, Weighs, Solid
<1> QED
  BY <1>1, <1>2, <1>3 DEF SnowInv, LayersRegular, Stacked, Thin, Layered

\* Nor does what leaves the snow alone.
LEMMA SnowStutter == ASSUME SnowInv, UNCHANGED snowVars PROVE SnowInv'
BY DEF snowVars, SnowInv, LayersRegular, Regular, InLayers, Stacked, Thin, Layered,
   Weighs, Solid

\* Every step keeps it.
LEMMA SnowStep == SnowInv /\ [AdjustNext]_snowVars => SnowInv'
<1> SUFFICES ASSUME SnowInv, [AdjustNext]_snowVars PROVE SnowInv'
  OBVIOUS
<1>1. CASE adjust_snow
  <2>1. PICK new \in Areas, anomaly \in Rationals, elsewhere \in BOOLEAN :
          Adjust(new, anomaly, elsewhere) /\ frac' = new
    BY <1>1, SnowAssumption DEF adjust_snow
  <2> QED
    BY <2>1, AdjustStep
<1> QED
  BY <1>1, SeasonStep, SnowStutter DEF AdjustNext

\* So it always holds.
LEMMA SnowAlways == AdjustSpec => []SnowInv
<1>1. AdjustInit => SnowInv
  BY SnowInit
<1>2. SnowInv /\ [AdjustNext]_snowVars => SnowInv'
  BY SnowStep
<1> QED
  BY <1>1, <1>2, PTL DEF AdjustSpec

-------------------------------------------------------------------------------
(* The theorems about the snow on the tile *)

\* adjust_snow leaves packs in regular layers, or without: whatever the packs that
\* JULES makes, the areas and the anomalies.
THEOREM SnowLayersRegular == AdjustSpec => []LayersRegular
<1>1. SnowInv => LayersRegular
  BY DEF SnowInv
<1> QED
  BY <1>1, SnowAlways, PTL

\* The account of a year's adjustment: what is owed to the ice is what the tile does not
\* keep, and the pack is what it keeps and what is given.
LEMMA BudgetStep ==
  ASSUME SnowInv, adjust_snow,
         pack'.nsnow > 0 \/ (pack.nsnow = 0 /\ AtMost(Zero, nonice_snowdepth'))
  PROVE  Balanced
<1> SUFFICES ASSUME ~Unaccounted(frac, frac')
             PROVE  Plus(AreaMass(pack', frac'), Moved(frac, frac'))
                      = Plus(Minus(AreaMass(pack, frac), Kept(frac, frac')),
                             Larger(Zero, Plus(Kept(frac, frac'), Given(frac', nonice_snowdepth'))))
  BY DEF Balanced
<1>1. PICK new \in Areas, anomaly \in Rationals, elsewhere \in BOOLEAN :
        Adjust(new, anomaly, elsewhere) /\ frac' = new /\ nonice_snowdepth' = anomaly
  BY SnowAssumption DEF adjust_snow
<1> DEFINE p == IF new # frac \/ elsewhere
                THEN Vanished(Rearranged(pack, frac, new), new) ELSE pack
           q == Regularised(Altered(p, new, anomaly))
           T == pack.snow_tile
           kept == Kept(frac, new)
           whole == Larger(Zero, Plus(kept, Given(new, anomaly)))
           moved == Times(smb_from_nisnow', new.ice)
<1>2. /\ pack' = q
      /\ smb_from_nisnow' = IF new # frac \/ elsewhere THEN Owed(pack, frac, new) ELSE Zero
  BY <1>1 DEF Adjust
<1>3. frac \in Areas /\ Stacked(pack) /\ Thin(pack) /\ Weighs(pack, T)
  BY DEF SnowInv
<1>4. Times(pack'.snow_tile, new.ni) = whole
  <2>1. q.nsnow > 0 \/ (pack.nsnow = 0 /\ AtMost(Zero, anomaly)) => Times(q.snow_tile, new.ni) = whole
    BY <1>3, AdjustWeighs
  <2> HIDE DEF q, whole
  <2> QED
    BY <1>1, <1>2, <2>1
<1>5. /\ T \in Rationals /\ frac.ni \in Rationals /\ new.ni \in Rationals
      /\ new.ice \in Rationals /\ AtMost(Zero, new.ice) /\ Zero \in Rationals
  BY <1>3, WeightIs, FracsAre, Standards
<1> DEFINE t0 == Times(T, frac.ni)
           t1 == Times(T, new.ni)
<1>6. /\ kept = IF Shrinks(frac, new) THEN t1 ELSE t0
      /\ t0 \in Rationals /\ t1 \in Rationals
  BY <1>5, TimesLaws DEF Kept, AreaMass
<1>7. moved = Minus(t0, kept)
  <2>1. CASE Shrinks(frac, new)
    <3>1. new.ice # Zero /\ Less(dzsnow[1], T)
      BY <1>1, <2>1 DEF Unaccounted, AtMost
    <3>2. new # frac
      BY <1>5, <2>1, OrderLaws DEF Shrinks
    <3> DEFINE less == Minus(frac.ni, new.ni)
               lost == Times(T, less)
    <3>3. smb_from_nisnow' = Over(lost, new.ice)
      BY <1>2, <2>1, <3>1, <3>2 DEF Owed
    <3>4. less \in Rationals /\ Plus(less, new.ni) = frac.ni
      <4> DEFINE x == frac.ni
                 y == new.ni
      <4>1. x \in Rationals /\ y \in Rationals /\ less = Minus(x, y)
        BY <1>5
      <4> HIDE DEF less, x, y
      <4>2. less \in Rationals /\ Plus(less, y) = x
        BY <4>1, PlusLaws
      <4> QED
        BY <4>2 DEF x, y
    <3> HIDE DEF less
    <3>5. lost \in Rationals /\ Plus(lost, t1) = t0
      <4>1. \A x, y, z \in Rationals : Times(x, Plus(y, z)) = Plus(Times(x, y), Times(x, z))
        BY TimesLaws
      <4>2. Times(T, Plus(less, new.ni)) = Plus(Times(T, less), Times(T, new.ni))
        BY <1>5, <3>4, <4>1
      <4> QED
        BY <1>5, <3>4, <4>2, TimesLaws
    <3> HIDE DEF lost, t0, t1
    <3>6. Minus(Plus(lost, t1), t1) = lost
      BY <1>6, <3>5, PlusLaws
    <3>7. Times(Over(lost, new.ice), new.ice) = lost
      BY <1>5, <3>1, <3>5, OverIs
    <3> QED
      BY <1>6, <2>1, <3>3, <3>5, <3>6, <3>7
  <2>2. CASE ~Shrinks(frac, new)
    <3>1. smb_from_nisnow' = Zero
      BY <1>2, <2>2 DEF Owed
    <3>2. Times(Zero, new.ice) = Zero
      BY <1>5, TimesLaws
    <3> HIDE DEF t0, t1
    <3>3. Minus(t0, t0) = Zero
      BY <1>6, PlusLaws
    <3> QED
      BY <1>6, <2>2, <3>1, <3>2, <3>3
  <2> QED
    BY <2>1, <2>2
<1>8. whole \in Rationals /\ moved \in Rationals
  <2>1. pack'.snow_tile \in Rationals
    <3>1. Weighs(q, q.snow_tile)
      BY <1>3, AdjustWeighs
    <3> HIDE DEF q
    <3> QED
      BY <1>2, <3>1, WeightIs
  <2>2. Times(pack'.snow_tile, new.ni) \in Rationals
    BY <1>5, <2>1, TimesLaws
  <2>3. Minus(t0, kept) \in Rationals
    <3> HIDE DEF t0, t1, kept
    <3> QED
      BY <1>6, PlusLaws
  <2> QED
    BY <1>4, <1>7, <2>2, <2>3
<1> HIDE DEF whole, moved, kept
<1>9. Plus(whole, moved) = Plus(moved, whole)
  BY <1>8, PlusLaws
<1> QED
  BY <1>1, <1>4, <1>7, <1>9 DEF AreaMass, Moved, whole, moved, kept

\* adjust_snow keeps the mass of snow in the grid box, of packs that are in layers
\* afterwards and of those without from which nothing is taken: for every pack, area
\* and anomaly, and any number of layers of any thickness.
THEOREM SnowBudgetKept == AdjustSpec => LayeredBudgetKept
<1> DEFINE Account == phase' = "season"
                        /\ (pack'.nsnow > 0 \/ (pack.nsnow = 0 /\ AtMost(Zero, nonice_snowdepth')))
                      => Balanced
<1>1. SnowInv /\ [AdjustNext]_snowVars => [Account]_snowVars
  <2> SUFFICES ASSUME SnowInv, AdjustNext PROVE Account
    OBVIOUS
  <2>1. CASE adjust_snow
    BY <2>1, BudgetStep
  <2>2. CASE Season
    BY <2>2 DEF Season
  <2> QED
    BY <2>1, <2>2 DEF AdjustNext
<1> QED
  BY <1>1, SnowAlways, PTL DEF AdjustSpec, LayeredBudgetKept

\* A pack that is spread over a larger tile, and no more.
LEMMA ProfileStep ==
  ASSUME SnowInv, adjust_snow, Grows(frac, frac'), nonice_snowdepth' = Zero,
         pack.nsnow > 0, pack'.nsnow > 0
  PROVE  LET f == Over(frac'.ni, frac.ni)
             Spreading(q) == [n \in 1..nsmax |-> Over(q[n], f)]
         IN \A k \in 1..pack'.nsnow :
              LET z == SeqTotal(SubSeq(pack'.ds, 1, k)) IN
              SeqTotal(SubSeq(pack'.mass, 1, k))
                = MassAbove(Spreading(pack.ds), Spreading(pack.mass), z)
<1>1. PICK new \in Areas, anomaly \in Rationals, elsewhere \in BOOLEAN :
        Adjust(new, anomaly, elsewhere) /\ frac' = new /\ nonice_snowdepth' = anomaly
  BY SnowAssumption DEF adjust_snow
<1> DEFINE r == Rearranged(pack, frac, new)
           p == IF new # frac \/ elsewhere THEN Vanished(r, new) ELSE pack
           f == Over(new.ni, frac.ni)
           d0 == SpreadOver(pack.ds, f)
           s0 == SpreadOver(pack.mass, f)
<1>2. frac \in Areas /\ Stacked(pack) /\ Weighs(pack, pack.snow_tile)
  BY DEF SnowInv
<1>3. /\ frac.ni \in Rationals /\ new.ni \in Rationals /\ AtMost(Zero, frac.ni)
      /\ Less(frac.ni, new.ni) /\ Zero \in Rationals /\ nsmax \in Nat
  BY <1>1, <1>2, FracsAre, Standards DEF Grows
<1>4. Less(Zero, new.ni) /\ new.ni # Zero /\ new # frac
  BY <1>3, OrderLaws
<1>5. p = r
  BY <1>4 DEF Vanished
<1>6. Altered(p, new, anomaly) = p
  <2> DEFINE x == dzsnow[1]
             y == Minus(Zero, x)
  <2>1. x \in Rationals /\ Less(Zero, x) /\ anomaly = Zero
    BY <1>1, Standards
  <2>2. ~Less(x, anomaly)
    BY <1>3, <2>1, OrderLaws
  <2>3. ~Less(anomaly, y)
    <3>1. Less(anomaly, y) => ~AtMost(Zero, anomaly)
      BY <1>3, <2>1, WhatIsGiven
    <3>2. AtMost(Zero, Zero)
      BY <1>3, OrderLaws
    <3> QED
      BY <2>1, <3>1, <3>2
  <2> QED
    BY <2>2, <2>3 DEF Altered
<1>7. pack' = Regularised(r)
  BY <1>1, <1>5, <1>6 DEF Adjust
<1>8. frac.ni # Zero
  <2> SUFFICES ASSUME frac.ni = Zero PROVE FALSE
    OBVIOUS
  <2>1. r = EmptyPack
    BY <1>1 DEF Rearranged
  <2> QED
    BY <1>7, <2>1 DEF Regularised, EmptyPack
<1>9. f \in Rationals /\ Less(Zero, f)
  <2>1. Less(Zero, frac.ni)
    BY <1>2, <1>8, FracsAre
  <2> QED
    BY <1>3, <1>4, <2>1, OverSign
<1>10. r = scale_snowpack(pack, f)
  BY <1>1, <1>8 DEF Rearranged, Spread
<1> HIDE DEF r, f, p
<1>11. /\ Stacked(r) /\ Weighs(r, Over(pack.snow_tile, f)) /\ Solid(d0, s0)
       /\ r.ds = NewLayers(d0) /\ r.mass = Relayer(d0, s0)
  BY <1>2, <1>9, <1>10, ScaledWeighs
<1>12. /\ pack'.ds = NewLayers(d0) /\ pack'.mass = Relayer(d0, s0) /\ pack'.nsnow \in 0..nsmax
  <2>1. pack'.nsnow = r.nsnow /\ pack'.ds = r.ds /\ pack'.mass = r.mass
    BY <1>7, <1>11, RegularisedWeighs
  <2> QED
    BY <1>11, <2>1 DEF Stacked
<1>13. \A n \in 0..nsmax : SeqTotal(SubSeq(Relayer(d0, s0), 1, n))
                            = MassAbove(d0, s0, SeqTotal(SubSeq(NewLayers(d0), 1, n)))
  BY <1>11, RelayerKeeps
<1>14. \A k \in 1..pack'.nsnow : k \in 0..nsmax
  BY <1>3, <1>12
<1> HIDE DEF d0, s0
<1>15. \A k \in 1..pack'.nsnow : SeqTotal(SubSeq(pack'.mass, 1, k))
                                  = MassAbove(d0, s0, SeqTotal(SubSeq(pack'.ds, 1, k)))
  BY <1>12, <1>13, <1>14
<1> QED
  BY <1>1, <1>15 DEF d0, s0, f, SpreadOver

\* adjust_snow, dividing the pack of a tile that has grown, moves no snow within it: above
\* the lower side of every new layer there is what was there before, spread over the new
\* area.  For every pack, and any number of layers of any thickness.
THEOREM SnowProfileKept == AdjustSpec => ProfileKept
<1> DEFINE Profile ==
      phase' = "season" /\ Grows(frac, frac') /\ nonice_snowdepth' = Zero
        /\ pack.nsnow > 0 /\ pack'.nsnow > 0 =>
        LET f == Over(frac'.ni, frac.ni)
            Spreading(q) == [n \in 1..nsmax |-> Over(q[n], f)]
        IN \A k \in 1..pack'.nsnow :
             LET z == SeqTotal(SubSeq(pack'.ds, 1, k)) IN
             SeqTotal(SubSeq(pack'.mass, 1, k))
               = MassAbove(Spreading(pack.ds), Spreading(pack.mass), z)
<1>1. SnowInv /\ [AdjustNext]_snowVars => [Profile]_snowVars
  <2> SUFFICES ASSUME SnowInv, AdjustNext PROVE Profile
    OBVIOUS
  <2>1. CASE adjust_snow
    BY <2>1, ProfileStep
  <2>2. CASE Season
    BY <2>2 DEF Season
  <2> QED
    BY <2>1, <2>2 DEF AdjustNext
<1> QED
  BY <1>1, SnowAlways, PTL DEF AdjustSpec, ProfileKept

-------------------------------------------------------------------------------
(* The means of the cells *)

\* What is divided by the same keeps its order.
LEMMA OverOrder ==
  ASSUME NEW p \in Rationals, NEW q \in Rationals, NEW f \in Rationals, Less(Zero, f)
  PROVE  /\ Over(p, f) \in Rationals /\ Over(q, f) \in Rationals
         /\ AtMost(Over(p, f), Over(q, f)) <=> AtMost(p, q)
         /\ Less(Over(p, f), Over(q, f)) <=> Less(p, q)
<1> DEFINE x == Over(p, f)
           y == Over(q, f)
<1>1. x \in Rationals /\ Times(x, f) = p /\ y \in Rationals /\ Times(y, f) = q
  BY OverSign
<1> HIDE DEF x, y
<1>2. (Less(Times(x, f), Times(y, f)) <=> Less(x, y)) /\ (AtMost(Times(x, f), Times(y, f)) <=> AtMost(x, y))
  BY <1>1, TimesOrder
<1> QED
  BY <1>1, <1>2 DEF x, y

\* The larger of two.
LEMMA UnitLarger ==
  ASSUME NEW u, IsUnit(u), NEW m \in Int, NEW n \in Int
  PROVE  Larger(u[m], u[n]) = u[IF m < n THEN n ELSE m]
<1>1. Less(u[m], u[n]) <=> m < n
  BY DEF IsUnit
<1> QED
  BY <1>1 DEF Larger

\* Whole numbers are counted in ones.
LEMMA WholeUnits ==
  \A m, n \in Int : /\ Q(m) \in Rationals /\ Plus(Q(m), Q(n)) = Q(m + n)
                    /\ Less(Q(m), Q(n)) <=> m < n
                    /\ m > 0 => Less(Zero, Q(m))
<1> DEFINE u == [m \in Int |-> Ratio(m, 1)]
<1>1. IsUnit(u)
  BY UnitIs
<1>2. \A m \in Int : Q(m) = u[m] /\ Q(m) \in Rationals
  BY QIs
<1> HIDE DEF u
<1>3. \A m, n \in Int : Plus(u[m], u[n]) = u[m + n] /\ (Less(u[m], u[n]) <=> m < n)
  BY <1>1 DEF IsUnit
<1>4. \A m, n \in Int : Plus(Q(m), Q(n)) = Q(m + n) /\ (Less(Q(m), Q(n)) <=> m < n)
  <2> SUFFICES ASSUME NEW m \in Int, NEW n \in Int
               PROVE  Plus(Q(m), Q(n)) = Q(m + n) /\ (Less(Q(m), Q(n)) <=> m < n)
    OBVIOUS
  <2>1. m + n \in Int
    OBVIOUS
  <2>2. Q(m) = u[m] /\ Q(n) = u[n] /\ Q(m + n) = u[m + n]
    BY <1>2, <2>1
  <2> QED
    BY <1>3, <2>2
<1>5. Q(0) = Zero
  BY ZeroIs
<1>6. ASSUME NEW m \in Int, m > 0 PROVE Less(Zero, Q(m))
  <2>0. 0 \in Int
    OBVIOUS
  <2>1. Less(Q(0), Q(m)) <=> 0 < m
    BY <1>4, <2>0, Zenon
  <2> QED
    BY <1>5, <1>6, <2>1
<1> QED
  BY <1>2, <1>4, <1>6

\* Calculating in units.
LEMMA UnitLaws ==
  ASSUME NEW u, IsUnit(u)
  PROVE  /\ Zero = u[0] /\ \A x \in Int : u[x] \in Rationals
         /\ \A x, y \in Int : Plus(u[x], u[y]) = u[x + y] /\ Minus(u[x], u[y]) = u[x - y]
         /\ \A x, y \in Int : AtMost(u[x], u[y]) <=> x <= y
         /\ \A x, y \in Int : Less(u[x], u[y]) <=> x < y
         /\ \A x, y \in Int : Larger(u[x], u[y]) = u[IF x < y THEN y ELSE x]
<1>1. /\ Zero = u[0]
      /\ \A x, y \in Int : Plus(u[x], u[y]) = u[x + y] /\ Minus(u[x], u[y]) = u[x - y]
      /\ \A x, y \in Int : AtMost(u[x], u[y]) <=> x <= y
      /\ \A x, y \in Int : Less(u[x], u[y]) <=> x < y
  <2>1. Zero = u[0]
    BY DEF IsUnit
  <2>2. ASSUME NEW x \in Int, NEW y \in Int
        PROVE  /\ Plus(u[x], u[y]) = u[x + y] /\ Minus(u[x], u[y]) = u[x - y]
               /\ AtMost(u[x], u[y]) <=> x <= y
               /\ Less(u[x], u[y]) <=> x < y
    BY DEF IsUnit
  <2> QED
    BY <2>1, <2>2
<1>2. ASSUME NEW x \in Int PROVE u[x] \in Rationals
  BY DEF IsUnit
<1>3. \A x, y \in Int : Larger(u[x], u[y]) = u[IF x < y THEN y ELSE x]
  BY <1>1 DEF Larger
<1> QED
  BY <1>1, <1>2, <1>3

\* The number of cells.
LEMMA CellsAre ==
  /\ IsFiniteSet(Cells) /\ Q(Cardinality(Cells)) \in Rationals
  /\ Less(Zero, Q(Cardinality(Cells))) /\ Q(Cardinality(Cells)) # Zero
<1>1. IsFiniteSet(Cells) /\ Cells # {}
  BY ExchangeAssumption
<1> DEFINE n == Cardinality(Cells)
<1>2. n \in Nat /\ n # 0
  BY <1>1, FS_CardinalityType, FS_EmptySet
<1> HIDE DEF n
<1>3. Q(n) \in Rationals /\ Less(Zero, Q(n))
  BY <1>2, WholeUnits
<1> QED
  BY <1>1, <1>3, ZeroIs, OrderLaws DEF n

\* Means are sums, divided.
LEMMA MeanIs == ASSUME NEW f PROVE Mean(f) = Over(Summed(f, Cells), Q(Cardinality(Cells)))
BY DEF Mean, Summed

\* Means of sums, of multiples and of what is ordered.
LEMMA MeanLaws ==
  ASSUME NEW f, NEW g, NEW h, NEW k \in Rationals,
         \A c \in Cells : f[c] \in Rationals /\ g[c] \in Rationals /\ h[c] \in Rationals
  PROVE  /\ Mean(f) \in Rationals
         /\ (\A c \in Cells : h[c] = Plus(f[c], g[c])) => Mean(h) = Plus(Mean(f), Mean(g))
         /\ (\A c \in Cells : g[c] = Times(k, f[c])) => Mean(g) = Times(k, Mean(f))
         /\ (\A c \in Cells : AtMost(f[c], g[c])) => AtMost(Mean(f), Mean(g))
<1> DEFINE n == Q(Cardinality(Cells))
           a == Summed(f, Cells)
           b == Summed(g, Cells)
           e == Summed(h, Cells)
<1>1. n \in Rationals /\ Less(Zero, n) /\ n # Zero /\ IsFiniteSet(Cells)
  BY CellsAre
<1>2. a \in Rationals /\ b \in Rationals /\ e \in Rationals
  BY <1>1, SummedRational
<1>3. Mean(f) = Over(a, n) /\ Mean(g) = Over(b, n) /\ Mean(h) = Over(e, n)
  BY MeanIs
<1>4. /\ (\A c \in Cells : h[c] = Plus(f[c], g[c])) => e = Plus(a, b)
      /\ (\A c \in Cells : g[c] = Times(k, f[c])) => b = Times(k, a)
      /\ (\A c \in Cells : AtMost(f[c], g[c])) => AtMost(a, b)
  BY <1>1, SummedLaws
<1> HIDE DEF n, a, b, e
<1>5. /\ Over(a, n) \in Rationals /\ Plus(Over(a, n), Over(b, n)) = Over(Plus(a, b), n)
      /\ Times(k, Over(a, n)) = Over(Times(k, a), n)
  BY <1>1, <1>2, OverLaws
<1>6. AtMost(Over(a, n), Over(b, n)) <=> AtMost(a, b)
  BY <1>1, <1>2, OverOrder
<1> QED
  BY <1>3, <1>4, <1>5, <1>6

\* The mean of nothing.
LEMMA MeanOfNothing == Mean(Nothing) = Zero
<1>1. \A c \in Cells : Nothing[c] = Zero /\ Zero \in Rationals /\ Zero = Times(Zero, Zero)
  BY ZeroIs, TimesLaws DEF Nothing
<1>2. Mean(Nothing) \in Rationals /\ Mean(Nothing) = Times(Zero, Mean(Nothing))
  <2> DEFINE f == Nothing
  <2>1. \A c \in Cells : f[c] \in Rationals /\ f[c] = Times(Zero, f[c])
    BY <1>1
  <2> HIDE DEF f
  <2>2. Mean(f) \in Rationals /\ Mean(f) = Times(Zero, Mean(f))
    BY <2>1, ZeroIs, MeanLaws
  <2> QED
    BY <2>2 DEF f
<1> QED
  BY <1>2, TimesLaws

\* The mean of ones.
LEMMA MeanOfOnes == ASSUME NEW f, \A c \in Cells : f[c] = Q(1) PROVE Mean(f) = Q(1)
<1> DEFINE Good == {T \in SUBSET Cells : Summed(f, T) = Q(Cardinality(T))}
<1>0. IsFiniteSet(Cells)
  BY CellsAre
<1>1. {} \in Good
  <2>1. Summed(f, {}) = Zero /\ Cardinality({}) = 0
    BY FS_EmptySet, SummedStep
  <2> QED
    BY <2>1, ZeroIs
<1>2. ASSUME NEW T \in SUBSET Cells, T # {} PROVE \E x \in T : T \ {x} \in Good => T \in Good
  <2>1. IsFiniteSet(T)
    BY <1>0, FS_Subset
  <2> DEFINE x == OneOf(T)
  <2>2. x \in T /\ Summed(f, T) = Plus(Summed(f, T \ {x}), f[x])
    BY <1>2, <2>1, SummedStep
  <2> HIDE DEF x
  <2>3. /\ Cardinality(T) \in Nat /\ Cardinality(T \ {x}) \in Nat
        /\ Cardinality(T) = Cardinality(T \ {x}) + 1
    <3>1. Cardinality(T) \in Nat /\ IsFiniteSet(T \ {x})
      BY <2>1, FS_CardinalityType, FS_Subset
    <3>2. Cardinality(T \ {x}) = Cardinality(T) - 1
      BY <2>1, <2>2, FS_RemoveElement
    <3>3. Cardinality(T \ {x}) \in Nat
      BY <3>1, FS_CardinalityType
    <3> QED
      BY <3>1, <3>2, <3>3
  <2>4. Plus(Q(Cardinality(T \ {x})), Q(1)) = Q(Cardinality(T \ {x}) + 1)
    BY <2>3, WholeUnits
  <2> QED
    BY <2>2, <2>3, <2>4
<1>3. Cells \in Good
  <2> HIDE DEF Good
  <2> QED
    BY <1>0, <1>1, <1>2, FiniteSetsGrow
<1> DEFINE n == Q(Cardinality(Cells))
<1>4. Mean(f) = Over(n, n)
  BY <1>3, MeanIs
<1>5. n \in Rationals /\ n # Zero
  BY CellsAre
<1> HIDE DEF n
<1> QED
  BY <1>4, <1>5, OverLaws

\* The areas of the tiles of any ice.
LEMMA TilesAre ==
  ASSUME NEW t
  PROVE  /\ TilesOf(t) \in Areas
         /\ Plus(TilesOf(t).ni, TilesOf(t).ice) = Q(1)
<1> DEFINE f == [c \in Cells |-> IF Less(min_thck, t[c]) THEN Q(1) ELSE Zero]
           o == [c \in Cells |-> Q(1)]
           iced == Mean(f)
<1>1. Q(1) \in Rationals /\ Zero \in Rationals /\ Less(Zero, Q(1)) /\ AtMost(Zero, Q(1)) /\ AtMost(Q(1), Q(1))
      /\ AtMost(Zero, Zero)
  BY WholeUnits, ZeroIs, OrderLaws
<1>2. \A c \in Cells : /\ Nothing[c] \in Rationals /\ f[c] \in Rationals /\ o[c] \in Rationals
                       /\ AtMost(Nothing[c], f[c]) /\ AtMost(f[c], o[c])
  BY <1>1 DEF Nothing
<1>3. Mean(o) = Q(1)
  BY MeanOfOnes
<1>4. TilesOf(t) = [ni |-> Minus(Q(1), iced), ice |-> iced]
  BY DEF TilesOf
<1> HIDE DEF f, o
<1>5. iced \in Rationals /\ AtMost(Zero, iced) /\ AtMost(iced, Q(1))
  <2>1. AtMost(Mean(Nothing), Mean(f)) /\ Mean(f) \in Rationals
    BY <1>1, <1>2, MeanLaws
  <2>2. AtMost(Mean(f), Mean(o))
    BY <1>1, <1>2, MeanLaws
  <2> QED
    BY <1>3, <2>1, <2>2, MeanOfNothing
<1> HIDE DEF iced
<1>6. /\ Minus(Q(1), iced) \in Amounts /\ iced \in Amounts /\ Plus(Minus(Q(1), iced), iced) = Q(1)
  BY <1>1, <1>5, AmountLaws, PlusLaws DEF Amounts
<1> QED
  BY <1>4, <1>6 DEF Areas

-------------------------------------------------------------------------------
(* A time-step of the ice, in one cell and over the cells *)

\* What an excess z of the converted C over C itself makes of it, if it is at most e.
LEMMA CellKeeps ==
  ASSUME NEW t \in Rationals, NEW a \in Rationals, NEW C \in Rationals, NEW z \in Rationals,
         NEW e \in Rationals,
         AtMost(Zero, t), AtMost(Minus(Zero, C), t), AtMost(z, e), AtMost(Zero, Plus(e, z))
  PROVE  LET left == Plus(Larger(Zero, Plus(t, Plus(a, Plus(z, C)))), Minus(Zero, C))
         IN  /\ AtMost(Plus(t, a), Plus(left, e))
             /\ AtMost(left, Plus(t, Plus(Larger(Zero, a), e)))
<1> DEFINE left == Plus(Larger(Zero, Plus(t, Plus(a, Plus(z, C)))), Minus(Zero, C))
<1> DEFINE All == {t, a, C, z, e}
<1>0. IsFiniteSet(All) /\ All \subseteq Rationals
  BY FiveAreFinite
<1>1. PICK u : IsUnit(u) /\ \A q \in All : \E n \in Int : q = u[n]
  <2> HIDE DEF All
  <2> QED
    BY <1>0, UnitOf
<1>2. PICK i \in Int, j \in Int, k \in Int, l \in Int, m \in Int :
        IsUnit(u) /\ t = u[i] /\ a = u[j] /\ C = u[k] /\ z = u[l] /\ e = u[m]
  BY <1>1
<1>3. /\ \A x, y \in Int : Plus(u[x], u[y]) = u[x + y] /\ Minus(u[x], u[y]) = u[x - y]
      /\ \A x, y \in Int : AtMost(u[x], u[y]) <=> x <= y
      /\ Zero = u[0]
  BY <1>2, UnitLaws
<1> DEFINE all == i + (j + (l + k))
           more == IF 0 < all THEN all ELSE 0
           added == IF 0 < j THEN j ELSE 0
<1>4. /\ l + k \in Int /\ j + (l + k) \in Int /\ all \in Int /\ more \in Int /\ added \in Int
      /\ 0 - k \in Int /\ more + (0 - k) \in Int /\ i + j \in Int /\ (more + (0 - k)) + m \in Int
      /\ added + m \in Int /\ i + (added + m) \in Int /\ m + l \in Int /\ 0 \in Int
  OBVIOUS
<1>5. Plus(t, Plus(a, Plus(z, C))) = u[all]
  BY <1>2, <1>3, <1>4
<1>6. Larger(Zero, u[all]) = u[more] /\ Larger(Zero, u[j]) = u[added]
  <2>1. \A x \in Int : Larger(u[0], u[x]) = u[IF 0 < x THEN x ELSE 0]
    BY <1>2, UnitLaws
  <2>2. Zero = u[0] /\ all \in Int
    BY <1>3, <1>4
  <2> HIDE DEF all
  <2> QED
    BY <1>2, <2>1, <2>2
<1> HIDE DEF all, more, added
<1>7. left = u[more + (0 - k)]
  <2>1. Minus(Zero, C) = u[0 - k]
    BY <1>2, <1>3, <1>4
  <2> QED
    BY <1>3, <1>4, <1>5, <1>6, <2>1
<1>8. Plus(t, a) = u[i + j] /\ Plus(left, e) = u[(more + (0 - k)) + m]
  BY <1>2, <1>3, <1>4, <1>7
<1>9. Plus(t, Plus(Larger(Zero, a), e)) = u[i + (added + m)]
  BY <1>2, <1>3, <1>4, <1>6
<1>10. 0 <= i /\ 0 - k <= i /\ l <= m /\ 0 <= m + l
  <2>1. /\ AtMost(u[0], u[i]) /\ AtMost(u[0 - k], u[i]) /\ AtMost(u[l], u[m])
        /\ AtMost(u[0], u[m + l])
    BY <1>2, <1>3, <1>4
  <2> QED
    BY <1>3, <1>4, <2>1
<1>11. i + j <= (more + (0 - k)) + m /\ more + (0 - k) <= i + (added + m)
  BY <1>10 DEF all, more, added
<1>12. AtMost(u[i + j], u[(more + (0 - k)) + m]) /\ AtMost(u[more + (0 - k)], u[i + (added + m)])
  BY <1>3, <1>4, <1>11
<1> QED
  BY <1>7, <1>8, <1>9, <1>12

\* Negation.
LEMMA NegationLaws ==
  \A p, q \in Rationals :
    /\ Minus(Zero, p) \in Rationals /\ Minus(Zero, Minus(Zero, p)) = p
    /\ Plus(p, Minus(Zero, q)) = Minus(p, q)
    /\ AtMost(Zero, p) /\ AtMost(Zero, q) => AtMost(Minus(Zero, p), q)
    /\ AtMost(Minus(Zero, p), q) <=> AtMost(Zero, Plus(p, q))
<1> SUFFICES ASSUME NEW p \in Rationals, NEW q \in Rationals
    PROVE  /\ Minus(Zero, p) \in Rationals /\ Minus(Zero, Minus(Zero, p)) = p
           /\ Plus(p, Minus(Zero, q)) = Minus(p, q)
           /\ AtMost(Zero, p) /\ AtMost(Zero, q) => AtMost(Minus(Zero, p), q)
           /\ AtMost(Minus(Zero, p), q) <=> AtMost(Zero, Plus(p, q))
  OBVIOUS
<1> DEFINE All == {p, q, p, p, p}
<1>0. IsFiniteSet(All) /\ All \subseteq Rationals
  BY FiveAreFinite
<1>1. PICK u : IsUnit(u) /\ \A x \in All : \E n \in Int : x = u[n]
  <2> HIDE DEF All
  <2> QED
    BY <1>0, UnitOf
<1>2. PICK i \in Int, j \in Int : p = u[i] /\ q = u[j]
  BY <1>1
<1>3. /\ Zero = u[0] /\ \A x \in Int : u[x] \in Rationals
      /\ \A x, y \in Int : Plus(u[x], u[y]) = u[x + y] /\ Minus(u[x], u[y]) = u[x - y]
      /\ \A x, y \in Int : AtMost(u[x], u[y]) <=> x <= y
  BY <1>1, UnitLaws
<1>4. 0 - i \in Int /\ 0 - (0 - i) = i /\ 0 - j \in Int /\ i + (0 - j) = i - j /\ 0 \in Int /\ i + j \in Int
  OBVIOUS
<1>5. /\ Minus(Zero, p) = u[0 - i] /\ Minus(Zero, q) = u[0 - j] /\ Plus(p, q) = u[i + j]
      /\ Minus(p, q) = u[i - j]
  BY <1>2, <1>3, <1>4
<1>6. Minus(Zero, Minus(Zero, p)) = p /\ Plus(p, Minus(Zero, q)) = Minus(p, q)
  <2>1. Minus(u[0], u[0 - i]) = u[0 - (0 - i)] /\ Plus(u[i], u[0 - j]) = u[i + (0 - j)]
    BY <1>3, <1>4, Zenon
  <2>2. Minus(Zero, Minus(Zero, p)) = u[0 - (0 - i)] /\ Plus(p, Minus(Zero, q)) = u[i + (0 - j)]
    BY <1>2, <1>3, <1>5, <2>1, Zenon
  <2> QED
    BY <1>2, <1>4, <1>5, <2>2
<1>7. /\ AtMost(Zero, p) <=> 0 <= i
      /\ AtMost(Zero, q) <=> 0 <= j
      /\ AtMost(Minus(Zero, p), q) <=> 0 - i <= j
      /\ AtMost(Zero, Plus(p, q)) <=> 0 <= i + j
  <2>1. /\ AtMost(u[0], u[i]) <=> 0 <= i
        /\ AtMost(u[0], u[j]) <=> 0 <= j
        /\ AtMost(u[0 - i], u[j]) <=> 0 - i <= j
        /\ AtMost(u[0], u[i + j]) <=> 0 <= i + j
    BY <1>3, <1>4, Zenon
  <2>2. Zero = u[0]
    BY <1>3
  <2> QED
    BY <1>2, <1>5, <2>1, <2>2, Zenon
<1> QED
  BY <1>3, <1>4, <1>5, <1>6, <1>7

\* The larger of two is one of them and no less than the other.
LEMMA LargerIs ==
  ASSUME NEW p \in Rationals, NEW q \in Rationals
  PROVE  /\ Larger(p, q) \in Rationals /\ AtMost(p, Larger(p, q)) /\ AtMost(q, Larger(p, q))
         /\ AtMost(p, q) => Larger(p, q) = q
         /\ AtMost(q, p) => Larger(p, q) = p
<1>1. CASE Less(p, q)
  <2>1. AtMost(p, q) /\ AtMost(q, q) /\ ~AtMost(q, p)
    BY <1>1, OrderLaws
  <2> QED
    BY <1>1, <2>1 DEF Larger
<1>2. CASE ~Less(p, q)
  <2>1. AtMost(q, p) /\ AtMost(p, p)
    BY <1>2, OrderLaws DEF AtMost
  <2>2. AtMost(p, q) => p = q
    BY <2>1, OrderLaws
  <2> QED
    BY <1>2, <2>1, <2>2 DEF Larger
<1> QED
  BY <1>1, <1>2

-------------------------------------------------------------------------------
(* What is always so in the exchange *)

\* The packs, areas and thicknesses are what they should be, and the balance is one for
\* all cells.
ExchangeInv ==
  /\ SnowInv /\ Plus(frac.ni, frac.ice) = Q(1)
  /\ step \in -1..IceSteps /\ thk \in [Cells -> Amounts] /\ sdep_l \in [Cells -> Rationals]
  /\ \E b \in Rationals : mbal = [c \in Cells |-> b]

\* What is converted in a cell is no more ice than there is.
LEMMA CreatedIs ==
  ASSUME ExchangeInv, NEW c \in Cells
  PROVE  /\ thk[c] \in Rationals /\ AtMost(Zero, thk[c])
         /\ Created(c) \in Rationals /\ AtMost(Minus(Zero, Created(c)), thk[c])
         /\ Masked(c) \in Rationals
<1> DEFINE t == thk[c]
           s == sdep_l[c]
<1>1. t \in Rationals /\ AtMost(Zero, t) /\ s \in Rationals
  BY DEF ExchangeInv, Amounts
<1>2. Zero \in Rationals /\ mbal[c] \in Rationals
  BY ZeroIs DEF ExchangeInv
<1>3. depth_snow2ice \in Rationals /\ min_thck \in Rationals /\ Less(Zero, depth_snow2ice)
  BY <1>2, ExchangeAssumption, OrderLaws
<1>4. /\ SnowToIce(c) => Created(c) = s /\ Less(depth_snow2ice, s)
      /\ ~SnowToIce(c) => Created(c) = Minus(Zero, t) \/ Created(c) = Zero
  BY DEF Created, SnowToIce, IceToSnow
<1> HIDE DEF s, t
<1>5. /\ SnowToIce(c) => AtMost(Zero, s)
      /\ Minus(Zero, t) \in Rationals /\ Minus(Zero, Minus(Zero, t)) = t
      /\ AtMost(Minus(Zero, Zero), t) /\ AtMost(t, t)
      /\ AtMost(Zero, s) => AtMost(Minus(Zero, s), t)
  <2>1. Less(depth_snow2ice, s) => AtMost(Zero, s)
    BY <1>1, <1>2, <1>3, OrderLaws
  <2>2. AtMost(t, t) /\ Minus(Zero, Zero) = Zero
    BY <1>1, <1>2, OrderLaws, PlusLaws
  <2>3. /\ Minus(Zero, t) \in Rationals /\ Minus(Zero, Minus(Zero, t)) = t
        /\ AtMost(Zero, s) => AtMost(Minus(Zero, s), t)
    BY <1>1, NegationLaws
  <2> QED
    BY <1>1, <1>4, <2>1, <2>2, <2>3
<1>6. Created(c) \in Rationals /\ AtMost(Minus(Zero, Created(c)), t)
  BY <1>1, <1>2, <1>4, <1>5
<1>7. Masked(c) \in Rationals
  BY <1>2 DEF Masked
<1> QED
  BY <1>1, <1>6, <1>7 DEF t

\* The share of what is converted that is taken for water.
Factor == Minus(water_to_ice, Q(1))
Turned(c) == Larger(Created(c), SnowChange(c))

\* A cell's ice and snow after a time-step, but for that share: what was there, and at most
\* what the surface mass balance adds, at least what it leaves.
LEMMA CellAccount ==
  ASSUME ExchangeInv, NEW c \in Cells
  PROVE  LET a == Times(water_to_ice, Masked(c))
             e == Times(Factor, Turned(c))
             iced == Larger(Zero, Plus(thk[c], Times(water_to_ice, Plus(Masked(c), Created(c)))))
             left == Plus(iced, SnowChange(c))
         IN  /\ a \in Rationals /\ e \in Rationals /\ iced \in Amounts /\ left \in Rationals
             /\ Factor \in Rationals /\ Turned(c) \in Rationals /\ SnowChange(c) \in Rationals
             /\ AtMost(Plus(thk[c], a), Plus(left, e))
             /\ AtMost(left, Plus(thk[c], Plus(Larger(Zero, a), e)))
<1> DEFINE t == thk[c]
           m == Masked(c)
           C == Created(c)
           N == SnowChange(c)
           w == water_to_ice
           v == Factor
           L == Turned(c)
           a == Times(w, m)
           z == Times(v, C)
           e == Times(v, L)
           P == Minus(L, C)
           change == Plus(t, Times(w, Plus(m, C)))
           iced == Larger(Zero, change)
           left == Plus(iced, N)
<1>1. /\ t \in Rationals /\ AtMost(Zero, t) /\ C \in Rationals /\ AtMost(Minus(Zero, C), t)
      /\ m \in Rationals /\ N = Minus(Zero, C) /\ Zero \in Rationals /\ Q(1) \in Rationals
  BY CreatedIs, ZeroIs, WholeUnits DEF SnowChange
<1>2. w \in Rationals /\ v \in Amounts /\ v \in Rationals /\ w = Plus(v, Q(1))
  <2>1. w \in Rationals /\ AtMost(Q(1), w)
    BY ExchangeAssumption
  <2>2. Plus(Minus(w, Q(1)), Q(1)) = w /\ Minus(w, Q(1)) \in Rationals
    BY <1>1, <2>1, PlusLaws
  <2> QED
    BY <1>1, <2>1, <2>2, AmountLaws DEF Factor
<1>3. N \in Rationals /\ Minus(Zero, N) = C
  BY <1>1, NegationLaws
<1>4. L \in Rationals /\ AtMost(C, L) /\ AtMost(N, L)
  BY <1>1, <1>3, LargerIs DEF Turned
<1> HIDE DEF t, m, C, N, w, v, L
<1>5. P \in Amounts /\ P \in Rationals /\ L = Plus(C, P) /\ Plus(L, C) \in Amounts
  <2>1. Minus(L, C) \in Amounts /\ Minus(L, N) \in Amounts
    BY <1>1, <1>3, <1>4, AmountLaws
  <2>2. Plus(L, Minus(Zero, N)) = Minus(L, N)
    BY <1>3, <1>4, NegationLaws
  <2>3. Plus(C, Minus(L, C)) = L
    BY <1>1, <1>4, PlusLaws
  <2> QED
    BY <1>3, <2>1, <2>2, <2>3, AmountLaws
<1> HIDE DEF P
<1>6. /\ a \in Rationals /\ z \in Rationals /\ e \in Rationals
      /\ Times(v, P) \in Amounts /\ Times(v, P) \in Rationals /\ e = Plus(z, Times(v, P))
      /\ Plus(e, z) \in Amounts
  <2>1. \A x, y, r \in Rationals : /\ Times(x, y) \in Rationals
                                   /\ Times(x, Plus(y, r)) = Plus(Times(x, y), Times(x, r))
    BY TimesLaws
  <2>2. Times(v, P) \in Amounts /\ Times(v, Plus(L, C)) \in Amounts
    BY <1>2, <1>5, AmountLaws
  <2>3. Times(v, Plus(C, P)) = Plus(z, Times(v, P)) /\ Times(v, Plus(L, C)) = Plus(e, z)
    BY <1>1, <1>2, <1>4, <1>5, <2>1
  <2> QED
    BY <1>1, <1>2, <1>4, <1>5, <2>1, <2>2, <2>3, AmountLaws
<1>7. Times(w, Plus(m, C)) = Plus(a, Plus(z, C))
  <2>1. \A x, y, r \in Rationals : /\ Times(x, Plus(y, r)) = Plus(Times(x, y), Times(x, r))
                                   /\ Times(Plus(x, y), r) = Plus(Times(x, r), Times(y, r))
                                   /\ Times(Q(1), x) = x
    BY TimesLaws
  <2>2. Times(w, Plus(m, C)) = Plus(a, Times(w, C))
    BY <1>1, <1>2, <2>1
  <2>3. Times(Plus(v, Q(1)), C) = Plus(z, C)
    BY <1>1, <1>2, <2>1
  <2> QED
    BY <1>2, <2>2, <2>3
<1>8. AtMost(z, e) /\ AtMost(Zero, Plus(e, z))
  <2> DEFINE g == Times(v, P)
  <2>1. z \in Rationals /\ e \in Rationals /\ g \in Rationals /\ AtMost(Zero, g) /\ e = Plus(z, g)
    BY <1>6 DEF Amounts
  <2> HIDE DEF g, z, e
  <2>2. Minus(e, z) = g
    BY <2>1, MinusLaws
  <2> QED
    BY <1>6, <2>1, <2>2, OrderLaws DEF Amounts, z, e
<1>9. change \in Rationals
  <2>1. \A x, y \in Rationals : Plus(x, y) \in Rationals
    BY PlusLaws
  <2> QED
    BY <1>1, <1>6, <1>7, <2>1
<1>10. iced \in Amounts /\ left \in Rationals
  <2> HIDE DEF change
  <2>1. iced \in Rationals /\ AtMost(Zero, iced)
    BY <1>1, <1>9, LargerIs
  <2> HIDE DEF iced
  <2> QED
    BY <1>3, <2>1, PlusLaws DEF Amounts
<1>11. iced = Larger(Zero, Plus(t, Plus(a, Plus(z, C))))
  BY <1>7
<1> HIDE DEF a, z, e, change, iced
<1>12. /\ AtMost(Plus(t, a), Plus(left, e))
       /\ AtMost(left, Plus(t, Plus(Larger(Zero, a), e)))
  <2>1. left = Plus(Larger(Zero, Plus(t, Plus(a, Plus(z, C)))), Minus(Zero, C))
    BY <1>1, <1>11
  <2> HIDE DEF left
  <2> QED
    BY <1>1, <1>6, <1>8, <2>1, CellKeeps
<1> QED
  BY <1>2, <1>3, <1>4, <1>6, <1>10, <1>12 DEF t, m, C, N, w, v, L, a, e, change, iced, left

\* The mean of sums is the sum of the means.
LEMMA MeanOfSums ==
  ASSUME NEW f, NEW g, NEW h,
         \A c \in Cells : /\ f[c] \in Rationals /\ g[c] \in Rationals /\ h[c] \in Rationals
                         /\ h[c] = Plus(f[c], g[c])
  PROVE  Mean(f) \in Rationals /\ Mean(g) \in Rationals /\ Mean(h) = Plus(Mean(f), Mean(g))
<1>1. \A c \in Cells : f[c] \in Rationals /\ g[c] \in Rationals /\ h[c] \in Rationals
  OBVIOUS
<1>2. Mean(f) \in Rationals /\ Mean(h) = Plus(Mean(f), Mean(g))
  BY <1>1, ZeroIs, MeanLaws
<1>3. Mean(g) \in Rationals
  BY <1>1, ZeroIs, MeanLaws
<1> QED
  BY <1>2, <1>3

\* Means are in the order of what they are of.
LEMMA MeansInOrder ==
  ASSUME NEW f, NEW g,
         \A c \in Cells : f[c] \in Rationals /\ g[c] \in Rationals /\ AtMost(f[c], g[c])
  PROVE  AtMost(Mean(f), Mean(g))
<1>1. \A c \in Cells : f[c] \in Rationals /\ g[c] \in Rationals
  OBVIOUS
<1> QED
  BY <1>1, ZeroIs, MeanLaws

\* So it is over the cells: the first time-step of an ice call keeps the mass.
LEMMA StepKeeps ==
  ASSUME ExchangeInv, IceStep, step = 0
  PROVE  StepKeepsMass
<1> DEFINE A == [c \in Cells |-> Times(water_to_ice, Masked(c))]
           E == [c \in Cells |-> Times(Factor, Turned(c))]
           L == [c \in Cells |-> Turned(c)]
           K == [c \in Cells |-> Larger(Zero, A[c])]
           Left == [c \in Cells |-> Plus(thk'[c], sdep_l'[c])]
           Low == [c \in Cells |-> Plus(thk[c], A[c])]
           High == [c \in Cells |-> Plus(Left[c], E[c])]
           More == [c \in Cells |-> Plus(K[c], E[c])]
           Top == [c \in Cells |-> Plus(thk[c], More[c])]
<1>1. /\ step' = 1
      /\ thk' = [c \in Cells |->
            Larger(Zero, Plus(thk[c], Times(water_to_ice, Plus(Masked(c), Created(c)))))]
      /\ sdep_l' = [c \in Cells |-> SnowChange(c)]
  BY DEF IceStep
<1>2. ASSUME NEW c \in Cells
      PROVE  /\ A[c] \in Rationals /\ E[c] \in Rationals /\ L[c] \in Rationals
             /\ E[c] = Times(Factor, L[c]) /\ Factor \in Rationals
             /\ thk[c] \in Rationals /\ thk'[c] \in Rationals /\ sdep_l'[c] \in Rationals
             /\ Left[c] \in Rationals /\ AtMost(Low[c], High[c]) /\ AtMost(Left[c], Top[c])
  <2> DEFINE iced == Larger(Zero, Plus(thk[c], Times(water_to_ice, Plus(Masked(c), Created(c)))))
             a == Times(water_to_ice, Masked(c))
             e == Times(Factor, Turned(c))
             left == Plus(iced, SnowChange(c))
  <2>1. /\ a \in Rationals /\ e \in Rationals /\ iced \in Amounts /\ left \in Rationals
        /\ Factor \in Rationals /\ Turned(c) \in Rationals /\ SnowChange(c) \in Rationals
        /\ AtMost(Plus(thk[c], a), Plus(left, e))
        /\ AtMost(left, Plus(thk[c], Plus(Larger(Zero, a), e)))
    BY CellAccount
  <2>2. thk[c] \in Rationals
    BY CreatedIs
  <2>3. iced \in Rationals
    BY <2>1, AmountLaws
  <2>4. thk'[c] = iced /\ sdep_l'[c] = SnowChange(c) /\ A[c] = a /\ E[c] = e /\ L[c] = Turned(c)
    BY <1>1
  <2>5. Left[c] = left /\ K[c] = Larger(Zero, a)
    BY <2>4
  <2> HIDE DEF iced, a, e, left
  <2>6. Low[c] = Plus(thk[c], a) /\ High[c] = Plus(left, e)
        /\ Top[c] = Plus(thk[c], Plus(Larger(Zero, a), e))
    BY <2>4, <2>5
  <2> QED
    BY <2>1, <2>2, <2>3, <2>4, <2>5, <2>6 DEF e
<1>3. Factor \in Rationals /\ Zero \in Rationals
  <2>1. water_to_ice \in Rationals /\ Q(1) \in Rationals
    BY ExchangeAssumption, WholeUnits
  <2> QED
    BY <2>1, ZeroIs, PlusLaws DEF Factor
<1>4. ASSUME NEW c \in Cells
      PROVE  /\ K[c] \in Rationals /\ Low[c] = Plus(thk[c], A[c]) /\ Low[c] \in Rationals
             /\ High[c] = Plus(Left[c], E[c]) /\ High[c] \in Rationals
             /\ More[c] = Plus(K[c], E[c]) /\ More[c] \in Rationals
             /\ Top[c] = Plus(thk[c], More[c]) /\ Top[c] \in Rationals
             /\ Left[c] = Plus(thk'[c], sdep_l'[c])
             /\ K[c] = Larger(Zero, A[c])
  <2>1. K[c] = Larger(Zero, A[c]) /\ K[c] \in Rationals
    BY <1>2, <1>3, LargerIs
  <2>2. \A x, y \in Rationals : Plus(x, y) \in Rationals
    BY PlusLaws
  <2> QED
    BY <1>2, <2>1, <2>2
<1>5. PICK b \in Rationals : mbal = [c \in Cells |-> b]
  BY DEF ExchangeInv
<1>6. \A c \in Cells : Masked(c) = b \/ (Masked(c) = Zero /\ Less(b, Zero))
  BY <1>5 DEF Masked
<1> DEFINE newthk == thk'
           newsdep == sdep_l'
<1> HIDE DEF A, E, L, K, Left, Low, High, More, Top, newthk, newsdep
<1>7. AtMost(Mean(K), Larger(Zero, Mean(A)))
  <2>0. water_to_ice \in Rationals /\ Less(Zero, water_to_ice) /\ Q(1) \in Rationals
    <3>1. water_to_ice \in Rationals /\ AtMost(Q(1), water_to_ice) /\ Q(1) \in Rationals
          /\ Less(Zero, Q(1))
      BY ExchangeAssumption, WholeUnits
    <3> QED
      BY <1>3, <3>1, OrderLaws
  <2>1. Mean(A) \in Rationals
    BY <1>2, <1>3, MeanLaws
  <2>2. CASE Less(b, Zero)
    <3>1. \A c \in Cells : AtMost(A[c], Zero)
      <4> SUFFICES ASSUME NEW c \in Cells PROVE AtMost(A[c], Zero)
        OBVIOUS
      <4>1. AtMost(Masked(c), Zero) /\ Masked(c) \in Rationals
        BY <1>3, <1>5, <1>6, <2>2, OrderLaws
      <4>2. Times(Masked(c), water_to_ice) = Times(water_to_ice, Masked(c))
        BY <2>0, <4>1, TimesLaws
      <4>3. AtMost(Times(Masked(c), water_to_ice), Zero)
        BY <2>0, <4>1, TimesSign
      <4> QED
        BY <4>2, <4>3 DEF A
    <3>2. \A c \in Cells : K[c] = Zero
      BY <1>2, <1>3, <1>4, <3>1, LargerIs
    <3>3. Mean(K) = Zero
      <4>1. K = Nothing
        BY <3>2 DEF K, Nothing
      <4> QED
        BY <4>1, MeanOfNothing
    <3> QED
      BY <1>3, <2>1, <3>3, LargerIs
  <2>3. CASE ~Less(b, Zero)
    <3>1. \A c \in Cells : AtMost(Zero, A[c])
      <4> SUFFICES ASSUME NEW c \in Cells PROVE AtMost(Zero, A[c])
        OBVIOUS
      <4>1. AtMost(Zero, Masked(c)) /\ Masked(c) \in Rationals
        BY <1>5, <1>6, <2>3 DEF AtMost
      <4>2. Times(Masked(c), water_to_ice) = Times(water_to_ice, Masked(c))
        BY <2>0, <4>1, TimesLaws
      <4>3. AtMost(Zero, Times(Masked(c), water_to_ice))
        BY <2>0, <4>1, TimesSign
      <4> QED
        BY <4>2, <4>3 DEF A
    <3>2. \A c \in Cells : K[c] = A[c]
      BY <1>2, <1>3, <1>4, <3>1, LargerIs
    <3>3. K = A
      BY <3>2 DEF K, A
    <3> QED
      BY <1>3, <2>1, <3>3, LargerIs
  <2> QED
    BY <2>2, <2>3
<1>8. /\ Mean(Low) = Plus(Mean(thk), Mean(A)) /\ Mean(High) = Plus(Mean(Left), Mean(E))
      /\ Mean(More) = Plus(Mean(K), Mean(E)) /\ Mean(Top) = Plus(Mean(thk), Mean(More))
      /\ Mean(Left) = Plus(Mean(newthk), Mean(newsdep)) /\ Mean(E) = Times(Factor, Mean(L))
      /\ AtMost(Mean(Low), Mean(High)) /\ AtMost(Mean(Left), Mean(Top))
      /\ Mean(thk) \in Rationals /\ Mean(A) \in Rationals /\ Mean(E) \in Rationals
      /\ Mean(K) \in Rationals /\ Mean(Left) \in Rationals
  <2>0. \A c \in Cells : /\ newthk[c] \in Rationals /\ newsdep[c] \in Rationals
                         /\ Left[c] = Plus(newthk[c], newsdep[c])
    BY <1>2, <1>4 DEF newthk, newsdep
  <2>1. \A c \in Cells : /\ thk[c] \in Rationals /\ A[c] \in Rationals /\ Low[c] \in Rationals
                         /\ Low[c] = Plus(thk[c], A[c])
    BY <1>2, <1>4
  <2>2. \A c \in Cells : /\ Left[c] \in Rationals /\ E[c] \in Rationals /\ High[c] \in Rationals
                         /\ High[c] = Plus(Left[c], E[c]) /\ AtMost(Low[c], High[c])
    BY <1>2, <1>4
  <2>3. \A c \in Cells : /\ K[c] \in Rationals /\ More[c] \in Rationals
                         /\ More[c] = Plus(K[c], E[c])
    BY <1>2, <1>4
  <2>4. \A c \in Cells : /\ Top[c] \in Rationals /\ Top[c] = Plus(thk[c], More[c])
                         /\ AtMost(Left[c], Top[c])
    BY <1>2, <1>4
  <2>5. Mean(Low) = Plus(Mean(thk), Mean(A)) /\ Mean(thk) \in Rationals /\ Mean(A) \in Rationals
    BY <2>1, MeanOfSums
  <2>6. Mean(High) = Plus(Mean(Left), Mean(E)) /\ Mean(Left) \in Rationals /\ Mean(E) \in Rationals
    BY <2>2, MeanOfSums
  <2>7. Mean(More) = Plus(Mean(K), Mean(E)) /\ Mean(K) \in Rationals
    BY <2>2, <2>3, MeanOfSums
  <2>8. Mean(Top) = Plus(Mean(thk), Mean(More))
    BY <2>1, <2>3, <2>4, MeanOfSums
  <2>9. Mean(Left) = Plus(Mean(newthk), Mean(newsdep))
    BY <2>0, <2>2, MeanOfSums
  <2>10. Mean(E) = Times(Factor, Mean(L))
    <3>1. \A c \in Cells : L[c] \in Rationals /\ E[c] \in Rationals /\ E[c] = Times(Factor, L[c])
      BY <1>2
    <3> QED
      BY <1>3, <3>1, MeanLaws
  <2>11. AtMost(Mean(Low), Mean(High))
    BY <2>1, <2>2, MeansInOrder
  <2>12. AtMost(Mean(Left), Mean(Top))
    BY <2>2, <2>4, MeansInOrder
  <2> QED
    BY <2>5, <2>6, <2>7, <2>8, <2>9, <2>10, <2>11, <2>12
<1> DEFINE before == Mean(thk)
           a == Mean(A)
           e == Mean(E)
           k == Mean(K)
           after == Mean(Left)
<1>9. /\ before \in Rationals /\ a \in Rationals /\ e \in Rationals /\ k \in Rationals
      /\ after \in Rationals /\ AtMost(Plus(before, a), Plus(after, e))
      /\ AtMost(after, Plus(before, Plus(k, e))) /\ AtMost(k, Larger(Zero, a))
  BY <1>7, <1>8
<1>10. /\ Plus(Ice(thk), Pending) = before
       /\ Plus(Ice(thk'), Pending') = after
       /\ Mean([c \in Cells |-> Times(water_to_ice, Masked(c))]) = a
       /\ Times(Minus(water_to_ice, Q(1)), Mean([c \in Cells |-> Larger(Created(c), SnowChange(c))])) = e
  <2>1. Pending = Zero /\ Ice(thk) = Mean(thk)
    BY DEF Pending, Ice
  <2>2. Plus(Ice(thk), Pending) = before
    BY <1>9, <2>1, PlusLaws
  <2>3. Pending' = Mean(newsdep) /\ Ice(thk') = Mean(newthk)
    <3>1. Mean(sdep_l)' = Mean(sdep_l')
      OBVIOUS
    <3>2. Pending' = Mean(sdep_l)'
      BY <1>1 DEF Pending
    <3> QED
      BY <3>1, <3>2 DEF Ice, newsdep, newthk
  <2>4. Plus(Ice(thk'), Pending') = after
    BY <1>8, <2>3
  <2>5. Mean([c \in Cells |-> Times(water_to_ice, Masked(c))]) = a
    BY DEF A
  <2>6. Times(Minus(water_to_ice, Q(1)), Mean([c \in Cells |-> Larger(Created(c), SnowChange(c))])) = e
    BY <1>8 DEF L, Factor, Turned
  <2> QED
    BY <2>2, <2>4, <2>5, <2>6
<1> HIDE DEF before, a, e, k, after
<1>11. AtMost(Minus(Plus(before, a), e), after)
  <2>1. Plus(before, a) \in Rationals /\ Plus(after, e) = Plus(e, after)
    BY <1>9, PlusLaws
  <2> QED
    BY <1>9, <2>1, OrderLaws
<1>12. AtMost(after, Plus(Plus(before, Larger(Zero, a)), e))
  <2> DEFINE l == Larger(Zero, a)
  <2>1. l \in Rationals /\ AtMost(k, l)
    BY <1>3, <1>9, LargerIs
  <2> HIDE DEF l
  <2>2. AtMost(e, e) /\ AtMost(before, before)
    BY <1>9, OrderLaws
  <2>3. Plus(k, e) \in Rationals /\ Plus(l, e) \in Rationals /\ Plus(before, Plus(k, e)) \in Rationals
        /\ Plus(before, Plus(l, e)) \in Rationals /\ Plus(before, Plus(l, e)) = Plus(Plus(before, l), e)
    <3>1. Plus(k, e) \in Rationals /\ Plus(l, e) \in Rationals
      BY <1>9, <2>1, PlusLaws
    <3>2. \A x, y \in Rationals : Plus(x, y) \in Rationals
      BY PlusLaws
    <3>3. \A x, y, z \in Rationals : Plus(x, Plus(y, z)) = Plus(Plus(x, y), z)
      BY PlusLaws
    <3> QED
      BY <1>9, <2>1, <3>1, <3>2, <3>3
  <2>4. AtMost(Plus(k, e), Plus(l, e))
    BY <1>9, <2>1, <2>2, PlusOrder
  <2>5. AtMost(Plus(before, Plus(k, e)), Plus(before, Plus(l, e)))
    BY <1>9, <2>2, <2>3, <2>4, PlusOrder
  <2>6. AtMost(after, Plus(before, Plus(l, e)))
    BY <1>9, <2>3, <2>5, OrderLaws
  <2> QED
    BY <2>3, <2>6 DEF l
<1> QED
  BY <1>10, <1>11, <1>12 DEF StepKeepsMass

-------------------------------------------------------------------------------
(* The dump, adjusted to an ice call *)

\* What is divided by the same, when it is added, subtracted and compared.
LEMMA OverLinear ==
  ASSUME NEW f \in Rationals, Less(Zero, f), NEW p \in Rationals, NEW q \in Rationals
  PROVE  /\ Over(p, f) \in Rationals /\ Over(q, f) \in Rationals /\ Over(Zero, f) = Zero
         /\ Over(Plus(p, q), f) = Plus(Over(p, f), Over(q, f))
         /\ Over(Minus(p, q), f) = Minus(Over(p, f), Over(q, f))
         /\ Over(Larger(p, q), f) = Larger(Over(p, f), Over(q, f))
         /\ AtMost(Over(p, f), Over(q, f)) <=> AtMost(p, q)
<1>1. f # Zero
  BY OverSign
<1>2. /\ \A x, y \in Rationals : Plus(Over(x, f), Over(y, f)) = Over(Plus(x, y), f)
      /\ \A x \in Rationals : Over(x, f) \in Rationals
      /\ Over(Zero, f) = Zero
  BY <1>1, ZeroIs, OverLaws
<1>3. Minus(p, q) \in Rationals /\ Plus(Minus(p, q), q) = p
  BY PlusLaws
<1>4. Over(Minus(p, q), f) = Minus(Over(p, f), Over(q, f))
  <2> DEFINE d == Over(Minus(p, q), f)
             x == Over(p, f)
             y == Over(q, f)
  <2>1. d \in Rationals /\ x \in Rationals /\ y \in Rationals /\ Plus(d, y) = x
    BY <1>2, <1>3
  <2> HIDE DEF d, x, y
  <2>2. Minus(Plus(d, y), y) = d
    BY <2>1, PlusLaws
  <2> QED
    BY <2>1, <2>2 DEF d, x, y
<1>5. /\ AtMost(Over(p, f), Over(q, f)) <=> AtMost(p, q)
      /\ Less(Over(p, f), Over(q, f)) <=> Less(p, q)
  BY OverOrder
<1>6. Over(Larger(p, q), f) = Larger(Over(p, f), Over(q, f))
  BY <1>5 DEF Larger
<1> QED
  BY <1>2, <1>4, <1>5, <1>6

\* What is known of a dump, and what is to be shown of it: K of the snow stayed with the
\* tile, M was moved to the ice and U was not; P is the change, X the snow there is then.
DumpKnown(K, M, U, P, X, S, small, gone, thin) ==
  /\ {K, M, U, P, X, S} \subseteq Rationals /\ {small, gone, thin} \subseteq BOOLEAN
  /\ AtMost(Zero, K) /\ AtMost(Zero, U) /\ AtMost(Zero, S)
  /\ gone => K = Zero /\ X = Zero
  /\ LET D == IF gone \/ small THEN Zero ELSE P
         All == Larger(Zero, Plus(K, D))
     IN  IF thin THEN AtMost(Minus(All, Size(D)), X) /\ AtMost(X, Plus(All, S)) ELSE X = All
DumpAccount(K, M, U, P, X, S, small, gone, thin) ==
  LET before == Plus(Plus(K, Plus(M, U)), P)
      after == Plus(X, M)
      unapplied == IF small THEN Size(P) ELSE Zero
      notile == IF gone THEN Larger(Zero, P) ELSE Zero
      thinned == IF thin THEN Size(P) ELSE Zero
      stretched == IF thin THEN S ELSE Zero
      overdraft == Larger(Zero, Minus(Minus(Zero, P), K))
      lost == Plus(Plus(unapplied, U), Plus(notile, thinned))
      gained == Plus(unapplied, Plus(overdraft, stretched))
  IN  AtMost(Minus(before, lost), after) /\ AtMost(after, Plus(before, gained))

\* The account of a dump follows.
LEMMA DumpAdds ==
  ASSUME NEW K, NEW M, NEW U, NEW P, NEW X, NEW S, NEW small, NEW gone, NEW thin,
         DumpKnown(K, M, U, P, X, S, small, gone, thin)
  PROVE  DumpAccount(K, M, U, P, X, S, small, gone, thin)
<1>a. /\ K \in Rationals /\ M \in Rationals /\ U \in Rationals /\ P \in Rationals
      /\ X \in Rationals /\ S \in Rationals
      /\ small \in BOOLEAN /\ gone \in BOOLEAN /\ thin \in BOOLEAN
      /\ AtMost(Zero, K) /\ AtMost(Zero, U) /\ AtMost(Zero, S)
      /\ gone => K = Zero /\ X = Zero
  BY DEF DumpKnown
<1>b. LET D == IF gone \/ small THEN Zero ELSE P
          All == Larger(Zero, Plus(K, D))
      IN  IF thin THEN AtMost(Minus(All, Size(D)), X) /\ AtMost(X, Plus(All, S)) ELSE X = All
  BY DEF DumpKnown
<1> DEFINE All == {K, M, U, P, X} \union {S}
<1>0. IsFiniteSet(All) /\ All \subseteq Rationals
  BY <1>a, FiveAreFinite, FS_AddElement
<1>1. PICK u : IsUnit(u) /\ \A q \in All : \E n \in Int : q = u[n]
  <2> HIDE DEF All
  <2> QED
    BY <1>0, UnitOf
<1>2. PICK k \in Int, m \in Int, w \in Int : K = u[k] /\ M = u[m] /\ U = u[w]
  BY <1>1
<1>3. PICK p \in Int, x \in Int, s \in Int : P = u[p] /\ X = u[x] /\ S = u[s]
  BY <1>1
<1> HIDE DEF All
<1>4. /\ Zero = u[0]
      /\ \A a, b \in Int : Plus(u[a], u[b]) = u[a + b] /\ Minus(u[a], u[b]) = u[a - b]
      /\ \A a, b \in Int : AtMost(u[a], u[b]) <=> a <= b
      /\ \A a, b \in Int : Larger(u[a], u[b]) = u[IF a < b THEN b ELSE a]
  BY <1>1, UnitLaws
<1> DEFINE size(a) == IF a < 0 - a THEN 0 - a ELSE a
           pos(a) == IF 0 < a THEN a ELSE 0
           d == IF gone \/ small THEN 0 ELSE p
           all == pos(k + d)
<1>5. ASSUME NEW a \in Int
      PROVE  /\ size(a) \in Int /\ pos(a) \in Int /\ Size(u[a]) = u[size(a)]
             /\ Larger(Zero, u[a]) = u[pos(a)]
  <2>1. 0 \in Int /\ 0 - a \in Int /\ size(a) \in Int /\ pos(a) \in Int
    OBVIOUS
  <2>2. Minus(Zero, u[a]) = u[0 - a]
    BY <1>4, <2>1
  <2>3. Larger(u[a], u[0 - a]) = u[IF a < 0 - a THEN 0 - a ELSE a]
    BY <1>4, <2>1, Zenon
  <2>4. Larger(u[0], u[a]) = u[IF 0 < a THEN a ELSE 0]
    BY <1>4, <2>1, Zenon
  <2> QED
    BY <1>4, <2>1, <2>2, <2>3, <2>4 DEF Size
<1>6. 0 <= k /\ 0 <= w /\ 0 <= s
  <2>1. AtMost(u[0], u[k]) /\ AtMost(u[0], u[w]) /\ AtMost(u[0], u[s])
    BY <1>a, <1>2, <1>3, <1>4
  <2> QED
    BY <1>4, <2>1
<1>7. d \in Int /\ k + d \in Int /\ all \in Int
  OBVIOUS
<1> HIDE DEF size, pos
<1>8. gone => k = 0 /\ x = 0
  <2> SUFFICES ASSUME gone PROVE k = 0 /\ x = 0
    OBVIOUS
  <2>1. u[k] = u[0] /\ u[x] = u[0]
    BY <1>a, <1>2, <1>3, <1>4
  <2>2. AtMost(u[k], u[0]) /\ AtMost(u[0], u[k]) /\ AtMost(u[x], u[0]) /\ AtMost(u[0], u[x])
    <3>1. AtMost(u[0], u[0])
      BY <1>4
    <3> QED
      BY <2>1, <3>1
  <2>3. k <= 0 /\ 0 <= k /\ x <= 0 /\ 0 <= x
    BY <1>4, <2>2
  <2> QED
    BY <2>3
<1>9. IF thin THEN all - size(d) <= x /\ x <= all + s ELSE x = all
  <2> DEFINE D == IF gone \/ small THEN Zero ELSE P
  <2>1. D = u[d]
    BY <1>3, <1>4
  <2> HIDE DEF d
  <2>2. Plus(K, D) = u[k + d]
    BY <1>2, <1>4, <1>7, <2>1
  <2>3. Larger(Zero, Plus(K, D)) = u[all] /\ Size(D) = u[size(d)] /\ size(d) \in Int
    BY <1>5, <1>7, <2>1, <2>2
  <2>4. IF thin THEN AtMost(Minus(u[all], u[size(d)]), u[x]) /\ AtMost(u[x], Plus(u[all], u[s]))
                ELSE u[x] = u[all]
    BY <1>b, <1>3, <2>3
  <2> HIDE DEF all, D
  <2>5. CASE thin
    <3>1. Minus(u[all], u[size(d)]) = u[all - size(d)] /\ Plus(u[all], u[s]) = u[all + s]
      BY <1>4, <1>7, <2>3
    <3>2. all - size(d) \in Int /\ all + s \in Int
      BY <1>7, <2>3
    <3>3. all - size(d) <= x /\ x <= all + s
      BY <1>4, <2>4, <2>5, <3>1, <3>2
    <3> QED
      BY <2>5, <3>3
  <2>6. CASE ~thin
    <3>1. u[x] = u[all] /\ AtMost(u[x], u[x])
      BY <1>4, <2>4, <2>6
    <3>2. x <= all /\ all <= x
      BY <1>4, <1>7, <3>1
    <3> QED
      BY <1>7, <2>6, <3>2
  <2> QED
    BY <2>5, <2>6
<1> DEFINE unapplied == IF small THEN size(p) ELSE 0
           notile == IF gone THEN pos(p) ELSE 0
           thinned == IF thin THEN size(p) ELSE 0
           stretched == IF thin THEN s ELSE 0
           over == pos((0 - p) - k)
           lost == (unapplied + w) + (notile + thinned)
           gained == unapplied + (over + stretched)
           before == (k + (m + w)) + p
<1>10. before - lost <= x + m /\ x + m <= before + gained
  BY <1>6, <1>8, <1>9 DEF size, pos, all, d
<1>11. /\ (IF small THEN Size(P) ELSE Zero) = u[unapplied] /\ unapplied \in Int
       /\ (IF gone THEN Larger(Zero, P) ELSE Zero) = u[notile] /\ notile \in Int
       /\ (IF thin THEN Size(P) ELSE Zero) = u[thinned] /\ thinned \in Int
       /\ (IF thin THEN S ELSE Zero) = u[stretched] /\ stretched \in Int
  <2>1. Size(P) = u[size(p)] /\ size(p) \in Int /\ Larger(Zero, P) = u[pos(p)] /\ pos(p) \in Int
    BY <1>3, <1>5
  <2>2. S = u[s] /\ Zero = u[0] /\ 0 \in Int
    BY <1>3, <1>4
  <2>3. (IF small THEN Size(P) ELSE Zero) = u[unapplied] /\ unapplied \in Int
    BY <2>1, <2>2, Zenon
  <2>4. (IF gone THEN Larger(Zero, P) ELSE Zero) = u[notile] /\ notile \in Int
    BY <2>1, <2>2, Zenon
  <2>5. (IF thin THEN Size(P) ELSE Zero) = u[thinned] /\ thinned \in Int
    BY <2>1, <2>2, Zenon
  <2>6. (IF thin THEN S ELSE Zero) = u[stretched] /\ stretched \in Int
    BY <2>2, Zenon
  <2> QED
    BY <2>3, <2>4, <2>5, <2>6
<1>12. Larger(Zero, Minus(Minus(Zero, P), K)) = u[over] /\ over \in Int
  <2>1. 0 - p \in Int /\ (0 - p) - k \in Int /\ 0 \in Int
    OBVIOUS
  <2>2. Minus(Zero, P) = u[0 - p]
    BY <1>3, <1>4, <2>1
  <2>3. Minus(Minus(Zero, P), K) = u[(0 - p) - k]
    BY <1>2, <1>4, <2>1, <2>2
  <2> QED
    BY <1>5, <2>1, <2>3
<1> HIDE DEF unapplied, notile, thinned, stretched, over
<1>13. /\ unapplied + w \in Int /\ notile + thinned \in Int /\ lost \in Int
       /\ over + stretched \in Int /\ gained \in Int
       /\ m + w \in Int /\ k + (m + w) \in Int /\ before \in Int /\ x + m \in Int
       /\ before - lost \in Int /\ before + gained \in Int
  BY <1>11, <1>12
<1>14. Plus(Plus(u[unapplied], u[w]), Plus(u[notile], u[thinned])) = u[lost]
  BY <1>4, <1>11, <1>13
<1>15. Plus(u[unapplied], Plus(u[over], u[stretched])) = u[gained]
  <2>1. Plus(u[over], u[stretched]) = u[over + stretched]
    BY <1>4, <1>11, <1>12
  <2>2. Plus(u[unapplied], u[over + stretched]) = u[unapplied + (over + stretched)]
    BY <1>4, <1>11, <1>13
  <2> QED
    BY <2>1, <2>2
<1>16. Plus(Plus(u[k], Plus(u[m], u[w])), u[p]) = u[before] /\ Plus(u[x], u[m]) = u[x + m]
  <2>1. Plus(u[m], u[w]) = u[m + w] /\ Plus(u[x], u[m]) = u[x + m]
    BY <1>4
  <2>2. Plus(u[k], u[m + w]) = u[k + (m + w)]
    BY <1>4, <1>13
  <2>3. Plus(u[k + (m + w)], u[p]) = u[before]
    BY <1>4, <1>13
  <2> QED
    BY <2>1, <2>2, <2>3
<1> HIDE DEF lost, gained, before
<1>17. Minus(u[before], u[lost]) = u[before - lost] /\ Plus(u[before], u[gained]) = u[before + gained]
  BY <1>4, <1>13
<1>18. AtMost(u[before - lost], u[x + m]) /\ AtMost(u[x + m], u[before + gained])
  BY <1>4, <1>10, <1>13
<1> HIDE DEF unapplied, notile, thinned, stretched, over
<1>19. DumpAccount(K, M, U, P, X, S, small, gone, thin)
  BY <1>2, <1>3, <1>11, <1>12, <1>14, <1>15, <1>16, <1>17, <1>18 DEF DumpAccount
<1> QED
  BY <1>19

\* The snow that a layered pack gains with a larger tile, if its mass per area is kept.
Gain(f, g) == IF pack.nsnow > 0 /\ Grows(f, g) /\ f.ni # Zero
              THEN Minus(Times(pack.snow_tile, g.ni), Times(pack.snow_tile, f.ni)) ELSE Zero

\* What the tile keeps, and gains, is an amount.
LEMMA KeptIs ==
  ASSUME NEW f \in Areas, NEW g \in Areas, pack.snow_tile \in Amounts
  PROVE  /\ Kept(f, g) \in Amounts /\ Gain(f, g) \in Amounts
         /\ g.ni = Zero => Kept(f, g) = Zero /\ Gain(f, g) = Zero
<1> DEFINE T == pack.snow_tile
           a == f.ni
           b == g.ni
<1>1. /\ T \in Amounts /\ T \in Rationals /\ a \in Amounts /\ b \in Amounts
      /\ a \in Rationals /\ b \in Rationals /\ AtMost(Zero, a) /\ Zero \in Amounts /\ Zero \in Rationals
  BY AmountLaws DEF Areas, Amounts
<1>2. Kept(f, g) = IF Less(b, a) THEN Times(T, b) ELSE Times(T, a)
  BY DEF Kept, AreaMass, Shrinks
<1>3. Gain(f, g) = IF pack.nsnow > 0 /\ Less(a, b) /\ a # Zero THEN Minus(Times(T, b), Times(T, a)) ELSE Zero
  BY DEF Gain, Grows
<1> HIDE DEF T, a, b
<1>4. Times(T, a) \in Amounts /\ Times(T, b) \in Amounts /\ Times(T, a) \in Rationals /\ Times(T, b) \in Rationals
  BY <1>1, AmountLaws
<1>5. Less(a, b) => Minus(Times(T, b), Times(T, a)) \in Amounts
  <2> SUFFICES ASSUME Less(a, b) PROVE Minus(Times(T, b), Times(T, a)) \in Amounts
    OBVIOUS
  <2>1. Minus(b, a) \in Amounts /\ Plus(a, Minus(b, a)) = b
    <3>1. AtMost(a, b)
      BY <1>1, OrderLaws
    <3> QED
      BY <1>1, <3>1, AmountLaws, PlusLaws
  <2> DEFINE d == Minus(b, a)
  <2>2. d \in Amounts /\ d \in Rationals /\ Plus(a, d) = b
    BY <2>1, AmountLaws
  <2> HIDE DEF d
  <2>3. Times(T, b) = Plus(Times(T, a), Times(T, d)) /\ Times(T, d) \in Amounts /\ Times(T, d) \in Rationals
    <3>1. Times(T, Plus(a, d)) = Plus(Times(T, a), Times(T, d))
      BY <1>1, <2>2, TimesLaws
    <3> QED
      BY <1>1, <2>2, <3>1, AmountLaws
  <2>4. Minus(Times(T, b), Times(T, a)) = Times(T, d)
    BY <1>4, <2>3, MinusLaws
  <2> QED
    BY <2>3, <2>4
<1>6. ASSUME b = Zero PROVE ~Less(a, b) /\ (IF Less(b, a) THEN Times(T, b) ELSE Times(T, a)) = Zero
  <2>1. ~Less(a, b) /\ (~Less(b, a) => a = Zero)
    BY <1>1, <1>6, OrderLaws
  <2>2. Times(T, Zero) = Zero
    BY <1>1, TimesLaws
  <2> QED
    BY <1>6, <2>1, <2>2
<1> QED
  BY <1>1, <1>2, <1>3, <1>4, <1>5, <1>6 DEF b

\* The mass per area that a pack is rearranged to have, over the tile.
LEMMA RearrangedHolds ==
  ASSUME frac \in Areas, Stacked(pack), pack.snow_tile \in Amounts,
         NEW new \in Areas, new.ni # Zero, NEW elsewhere
  PROVE  LET p == IF new # frac \/ elsewhere
                  THEN Vanished(Rearranged(pack, frac, new), new) ELSE pack
         IN  Times(p.snow_tile, new.ni) = Plus(Kept(frac, new), Gain(frac, new))
<1> DEFINE p == IF new # frac \/ elsewhere
                THEN Vanished(Rearranged(pack, frac, new), new) ELSE pack
           r == Rearranged(pack, frac, new)
           T == pack.snow_tile
           a == frac.ni
           b == new.ni
<1>1. /\ T \in Rationals /\ a \in Rationals /\ b \in Rationals /\ AtMost(Zero, a) /\ Less(Zero, b)
      /\ Zero \in Rationals
  BY AmountLaws, FracsAre, ZeroIs
<1>2. /\ Kept(frac, new) = IF Less(b, a) THEN Times(T, b) ELSE Times(T, a)
      /\ Gain(frac, new) = IF pack.nsnow > 0 /\ Less(a, b) /\ a # Zero
                           THEN Minus(Times(T, b), Times(T, a)) ELSE Zero
  BY DEF Kept, AreaMass, Shrinks, Gain, Grows
<1>3. p = r
  <2>1. CASE new # frac \/ elsewhere
    BY <2>1 DEF Vanished
  <2>2. CASE ~(new # frac \/ elsewhere)
    <3>1. p = pack /\ new = frac
      BY <2>2
    <3>2. ~Less(a, b)
      BY <1>1, <3>1, OrderLaws
    <3> QED
      BY <3>1, <3>2 DEF Rearranged, Grows
  <2> QED
    BY <2>1, <2>2
<1>4. r.snow_tile = CASE Less(a, b) /\ a = Zero -> Zero
                      [] Less(a, b) /\ a # Zero /\ pack.nsnow = 0 -> Over(T, Over(b, a))
                      [] OTHER -> T
  <2>1. CASE Less(a, b) /\ a = Zero
    <3>1. r = EmptyPack
      BY <2>1 DEF Rearranged, Grows
    <3> QED
      BY <2>1, <3>1 DEF EmptyPack
  <2>2. CASE Less(a, b) /\ a # Zero
    <3>1. r = Spread(pack, Over(b, a))
      BY <2>2 DEF Rearranged, Grows
    <3>2. pack.nsnow = 0 \/ pack.nsnow > 0
      BY Standards DEF Stacked
    <3>3. CASE pack.nsnow > 0
      <4>1. r = scale_snowpack(pack, Over(b, a))
        BY <3>1, <3>3 DEF Spread
      <4>2. r.snow_tile = T
        BY <4>1 DEF scale_snowpack, WithLayers, Stacked
      <4> QED
        BY <2>2, <3>3, <4>2
    <3>4. CASE pack.nsnow = 0
      <4>1. r = [pack EXCEPT !.snow_tile = Over(@, Over(b, a))]
        BY <3>1, <3>4 DEF Spread
      <4>2. r.snow_tile = Over(T, Over(b, a))
        BY <4>1 DEF Stacked
      <4> QED
        BY <2>2, <3>4, <4>2
    <3> QED
      BY <3>2, <3>3, <3>4
  <2>3. CASE ~Less(a, b)
    <3>1. r = pack
      BY <2>3 DEF Rearranged, Grows
    <3> QED
      BY <2>3, <3>1
  <2> QED
    BY <2>1, <2>2, <2>3
<1> DEFINE x == r.snow_tile
<1>5. p.snow_tile = x
  BY <1>3
<1> HIDE DEF p, r, T, a, b
<1>6. Times(x, b) = Plus(Kept(frac, new), Gain(frac, new))
  <2>0. Times(T, a) \in Rationals /\ Times(T, b) \in Rationals /\ Times(T, Zero) = Zero /\ Times(Zero, b) = Zero
    BY <1>1, TimesLaws
  <2>1. CASE Less(a, b) /\ a = Zero
    <3>1. x = Zero /\ ~Less(b, a)
      BY <1>1, <1>4, <2>1, OrderLaws
    <3>2. Kept(frac, new) = Zero /\ Gain(frac, new) = Zero
      BY <1>2, <2>0, <2>1, <3>1
    <3> QED
      BY <1>1, <2>0, <3>1, <3>2, PlusLaws
  <2>2. CASE Less(a, b) /\ a # Zero /\ pack.nsnow = 0
    <3> DEFINE e == Over(b, a)
    <3>1. x = Over(T, e) /\ ~Less(b, a) /\ Less(Zero, a)
      BY <1>1, <1>4, <2>2, OrderLaws
    <3>2. e \in Rationals /\ Less(Zero, e) /\ Times(e, a) = b
      BY <1>1, <3>1, OverSign
    <3> HIDE DEF e
    <3>3. x \in Rationals /\ Times(x, e) = T
      BY <1>1, <3>1, <3>2, OverSign
    <3>4. Times(x, Times(e, a)) = Times(Times(x, e), a)
      <4>1. \A i, j, k \in Rationals : Times(i, Times(j, k)) = Times(Times(i, j), k)
        BY TimesLaws
      <4> HIDE DEF x
      <4> QED
        BY <1>1, <3>2, <3>3, <4>1
    <3>5. Kept(frac, new) = Times(T, a) /\ Gain(frac, new) = Zero
      BY <1>2, <2>2, <3>1
    <3>6. Times(x, b) = Times(T, a)
      BY <3>2, <3>3, <3>4
    <3> QED
      BY <2>0, <3>5, <3>6, PlusLaws
  <2>3. CASE Less(a, b) /\ a # Zero /\ pack.nsnow # 0
    <3>1. x = T /\ ~Less(b, a)
      BY <1>1, <1>4, <2>3, OrderLaws
    <3>2. pack.nsnow > 0
      BY <2>3, Standards DEF Stacked
    <3>3. Kept(frac, new) = Times(T, a) /\ Gain(frac, new) = Minus(Times(T, b), Times(T, a))
      BY <1>2, <2>3, <3>1, <3>2
    <3> QED
      BY <2>0, <3>1, <3>3, PlusLaws
  <2>4. CASE ~Less(a, b)
    <3>1. x = T /\ (~Less(b, a) => a = b)
      BY <1>1, <1>4, <2>4, OrderLaws
    <3>2. Kept(frac, new) = Times(T, b) /\ Gain(frac, new) = Zero
      BY <1>2, <2>4, <3>1
    <3> QED
      BY <2>0, <3>1, <3>2, PlusLaws
  <2> QED
    BY <2>1, <2>2, <2>3, <2>4
<1> QED
  BY <1>5, <1>6 DEF p, b

\* What is on the tile when the pack has got thin, from K, what the pack had before over
\* the tile, and G, what is given or taken.
LEMMA ThinHolds ==
  ASSUME NEW new \in Areas, new.ni # Zero, Plus(new.ni, new.ice) = Q(1), NEW anomaly \in Rationals,
         NEW p, Stacked(p), Thin(p), p.snow_tile \in Amounts
  PROVE  LET q == Regularised(Altered(p, new, anomaly))
             x == Times(q.snow_tile, new.ni)
             k == Times(p.snow_tile, new.ni)
             g == Given(new, anomaly)
         IN  q.nsnow = 0 =>
               \/ x = k /\ AtMost(Zero, g)
               \/ Less(g, Zero) /\ x = Larger(Plus(Plus(k, g), g), Zero)
               \/ Less(g, Zero) /\ x = Plus(k, g) /\ AtMost(Zero, x)
<1> DEFINE r == Altered(p, new, anomaly)
           q == Regularised(r)
           n == new.ni
           T == p.snow_tile
           k == Times(T, n)
           g == Given(new, anomaly)
           thick == dzsnow[1]
<1> SUFFICES ASSUME q.nsnow = 0
             PROVE  \/ Times(q.snow_tile, n) = k /\ AtMost(Zero, g)
                    \/ Less(g, Zero) /\ Times(q.snow_tile, n) = Larger(Plus(Plus(k, g), g), Zero)
                    \/ /\ Less(g, Zero) /\ Times(q.snow_tile, n) = Plus(k, g)
                       /\ AtMost(Zero, Times(q.snow_tile, n))
  OBVIOUS
<1>1. /\ T \in Rationals /\ AtMost(Zero, T) /\ n \in Rationals /\ Less(Zero, n) /\ Zero \in Rationals
      /\ n # Zero /\ thick \in Rationals /\ Less(Zero, thick)
      /\ glimmer_ice_density \in Rationals /\ Less(Zero, glimmer_ice_density)
  BY AmountLaws, FracsAre, ZeroIs, Standards DEF Amounts
<1>2. Stacked(r)
  BY AlteredIs
<1>3. q.snow_tile = r.snow_tile
  <2> HIDE DEF r
  <2>1. CASE r.nsnow > 0 /\ AtMost(dzsnow[1], r.ds[1])
    <3>1. q.nsnow = r.nsnow
      BY <1>2, <2>1 DEF Regularised, Stacked
    <3> QED
      BY <2>1, <3>1
  <2>2. CASE ~(r.nsnow > 0 /\ AtMost(dzsnow[1], r.ds[1]))
    <3>1. q = [r EXCEPT !.nsnow = 0, !.mass = NoLayers, !.snowdepth = Zero]
      BY <2>2 DEF Regularised
    <3> HIDE DEF q
    <3> QED
      BY <1>2, <3>1 DEF Stacked
  <2> QED
    BY <2>1, <2>2
<1> DEFINE iced == Times(anomaly, glimmer_ice_density)
           less == Minus(Zero, thick)
<1>4. /\ Less(thick, anomaly) => AtMost(Zero, anomaly)
      /\ Less(anomaly, less) => Less(anomaly, Zero) /\ ~Less(thick, anomaly)
      /\ g = IF Less(thick, anomaly) \/ Less(anomaly, less) THEN iced ELSE Zero
  <2>1. iced \in Rationals /\ Times(iced, Q(1)) = iced
    BY <1>1, TimesLaws
  <2>2. /\ Less(thick, anomaly) => AtMost(Zero, anomaly)
        /\ Less(anomaly, less) => Less(anomaly, Zero) /\ ~Less(thick, anomaly)
        /\ g = IF Less(thick, anomaly) \/ Less(anomaly, less)
               THEN Times(iced, Plus(n, new.ice)) ELSE Zero
    BY <1>1, WhatIsGiven
  <2> HIDE DEF g, iced, less, thick, n
  <2> QED
    BY <2>1, <2>2 DEF n
<1>5. CASE Less(thick, anomaly)
  <2>1. r = Give(p, new, anomaly)
    BY <1>4, <1>5 DEF Altered
  <2>2. r.snow_tile = T
    <3> DEFINE o == IF p.nsnow = 0 THEN OneLayer(p) ELSE p
               in == scale_snowpack(IcePack, Times(Over(SeqTotal(IcePack.mass), iced), NoniceShare(new)))
    <3>1. r = add_snowpacks(o, in)
      BY <2>1 DEF Give
    <3>2. o.snow_tile = T /\ DOMAIN o = DOMAIN p
      BY DEF OneLayer, Stacked
    <3> HIDE DEF o, in, r, T
    <3> QED
      BY <3>1, <3>2 DEF add_snowpacks, WithLayers, Stacked
  <2>3. AtMost(Zero, g)
    <3>1. AtMost(Zero, anomaly) /\ AtMost(Zero, glimmer_ice_density) /\ g = iced
      BY <1>1, <1>4, <1>5, OrderLaws
    <3> QED
      BY <1>1, <3>1, TimesSign
  <2> HIDE DEF r, g, T, n
  <2> QED
    BY <1>3, <2>2, <2>3
<1>6. CASE ~Less(thick, anomaly) /\ ~Less(anomaly, less)
  <2>1. r = p
    BY <1>6 DEF Altered
  <2>2. g = Zero /\ AtMost(Zero, Zero)
    BY <1>1, <1>4, <1>6, OrderLaws
  <2> HIDE DEF g
  <2> QED
    BY <1>3, <2>1, <2>2
<1>7. CASE Less(anomaly, less)
  <2> DEFINE share == NoniceShare(new)
             depth == Over(anomaly, share)
             mass == Times(depth, glimmer_ice_density)
             taken == [p EXCEPT !.snowdepth = Plus(@, depth), !.snow_tile = Plus(@, mass)]
             floor == Times(dzsnow[1], glimmer_ice_density)
             thin == Less(taken.snowdepth, dzsnow[1]) \/ Less(taken.snow_tile, floor)
  <2>0. Less(anomaly, Zero) /\ ~Less(thick, anomaly) /\ g = iced
    BY <1>4, <1>7
  <2>1. r = IF thin THEN [EmptyPack EXCEPT !.snow_tile = Clipped(Plus(taken.snow_tile, mass))]
                    ELSE subtract_snowpacks(taken, mass)
    BY <1>7, <2>0 DEF Altered, Take
  <2>2. Over(anomaly, share) \in Rationals /\ Times(Over(anomaly, share), n) = anomaly
    <3>1. Times(Over(anomaly, share), n) = Times(anomaly, Plus(n, new.ice))
      BY ShareOut
    <3>2. Times(anomaly, Plus(n, new.ice)) = anomaly
      BY TimesLaws
    <3>3. share \in Rationals /\ Less(Zero, share)
      BY FracsAre
    <3> QED
      BY <3>1, <3>2, <3>3, OverSign
  <2> HIDE DEF share
  <2>3. depth \in Rationals /\ Times(depth, n) = anomaly
    BY <2>2
  <2> HIDE DEF depth
  <2>4. mass \in Rationals /\ Times(mass, n) = g /\ g \in Rationals /\ Less(g, Zero)
    <3>1. Times(Times(depth, glimmer_ice_density), n) = Times(Times(depth, n), glimmer_ice_density)
      BY <1>1, <2>3, TimesSwap
    <3>2. mass \in Rationals /\ iced \in Rationals
      BY <1>1, <2>3, TimesLaws
    <3>3. Less(iced, Zero)
      BY <1>1, <2>0, TimesSign
    <3> QED
      BY <2>0, <2>3, <3>1, <3>2, <3>3
  <2> HIDE DEF mass, g
  <2>5. taken.snow_tile = Plus(T, mass) /\ taken.snow_tile \in Rationals
    <3>1. taken.snow_tile = Plus(T, mass)
      BY DEF Stacked
    <3>2. Plus(T, mass) \in Rationals
      BY <1>1, <2>4, PlusLaws
    <3> HIDE DEF taken, T
    <3> QED
      BY <3>1, <3>2
  <2> DEFINE t == Plus(T, mass)
  <2>6. t \in Rationals /\ Times(t, n) = Plus(k, g) /\ k \in Rationals
    <3>1. \A a, b, c \in Rationals : Times(Plus(a, b), c) = Plus(Times(a, c), Times(b, c))
      BY TimesLaws
    <3> HIDE DEF T, n
    <3>2. k \in Rationals
      BY <1>1, TimesLaws
    <3>3. t \in Rationals
      BY <1>1, <2>4, PlusLaws
    <3>4. Times(Plus(T, mass), n) = Plus(Times(T, n), Times(mass, n))
      BY <1>1, <2>4, <3>1
    <3> QED
      BY <2>4, <3>2, <3>3, <3>4
  <2>7. CASE thin
    <3> DEFINE v == Plus(t, mass)
    <3>1. r.snow_tile = Larger(v, Zero)
      BY <2>1, <2>5, <2>7 DEF Clipped, EmptyPack
    <3> HIDE DEF r, T, n, t
    <3>2. v \in Rationals /\ Times(v, n) = Plus(Plus(k, g), g)
      <4>1. \A a, b, c \in Rationals : Times(Plus(a, b), c) = Plus(Times(a, c), Times(b, c))
        BY TimesLaws
      <4>2. v \in Rationals
        BY <2>4, <2>6, PlusLaws
      <4>3. n \in Rationals
        BY <1>1
      <4> HIDE DEF k
      <4>4. Times(v, n) = Plus(Times(t, n), Times(mass, n))
        BY <2>4, <2>6, <4>1, <4>3
      <4> QED
        BY <2>4, <2>6, <4>2, <4>4
    <3> DEFINE y == Plus(Plus(k, g), g)
    <3> HIDE DEF v, y
    <3>3. Times(Larger(v, Zero), n) = Larger(Times(v, n), Zero)
      <4>1. Less(Times(v, n), Times(Zero, n)) <=> Less(v, Zero)
        BY <1>1, <3>2, TimesOrder
      <4>2. Times(Zero, n) = Zero
        BY <1>1, TimesLaws
      <4> QED
        BY <4>1, <4>2 DEF Larger
    <3>4. Times(q.snow_tile, n) = Larger(y, Zero)
      BY <1>3, <3>1, <3>2, <3>3 DEF y
    <3> QED
      BY <2>4, <3>4 DEF y
  <2>8. CASE ~thin
    <3>1. r.snow_tile = t
      BY <2>1, <2>5, <2>8 DEF subtract_snowpacks, Stacked
    <3>2. AtMost(Zero, t)
      <4>1. ~Less(t, floor)
        BY <2>5, <2>8
      <4>2. floor \in Rationals /\ AtMost(Zero, floor)
        <5>1. AtMost(Zero, thick) /\ AtMost(Zero, glimmer_ice_density)
          BY <1>1, OrderLaws
        <5> QED
          BY <1>1, <5>1, TimesLaws, TimesSign
      <4> HIDE DEF t, floor
      <4>3. AtMost(floor, t)
        BY <4>1 DEF AtMost
      <4> QED
        BY <1>1, <2>6, <4>2, <4>3, OrderLaws
    <3> HIDE DEF r, T, n, t
    <3>3. AtMost(Zero, Times(t, n))
      BY <1>1, <2>6, <3>2, TimesSign
    <3>4. Times(q.snow_tile, n) = Plus(k, g) /\ AtMost(Zero, Times(q.snow_tile, n))
      BY <1>3, <2>6, <3>1, <3>3
    <3> QED
      BY <2>4, <3>4
  <2> QED
    BY <2>7, <2>8
<1> QED
  BY <1>5, <1>6, <1>7

\* What that comes to: no more is lost than is given or taken, or gained than by the area.
LEMMA ThinBounds ==
  ASSUME NEW k \in Rationals, NEW S \in Rationals, NEW g \in Rationals, NEW x \in Rationals,
         AtMost(Zero, k), AtMost(Zero, S),
         \/ x = Plus(k, S) /\ AtMost(Zero, g)
         \/ Less(g, Zero) /\ x = Larger(Plus(Plus(Plus(k, S), g), g), Zero)
         \/ Less(g, Zero) /\ x = Plus(Plus(k, S), g) /\ AtMost(Zero, x)
  PROVE  LET all == Larger(Zero, Plus(k, g))
         IN  AtMost(Minus(all, Size(g)), x) /\ AtMost(x, Plus(all, S))
<1> DEFINE All == {k, S, g, x, x}
<1>0. IsFiniteSet(All) /\ All \subseteq Rationals
  BY FiveAreFinite
<1>1. PICK u : IsUnit(u) /\ \A q \in All : \E n \in Int : q = u[n]
  <2> HIDE DEF All
  <2> QED
    BY <1>0, UnitOf
<1>2. PICK i \in Int, s \in Int, j \in Int, y \in Int : k = u[i] /\ S = u[s] /\ g = u[j] /\ x = u[y]
  BY <1>1
<1> HIDE DEF All
<1>3. /\ Zero = u[0]
      /\ \A a, b \in Int : Plus(u[a], u[b]) = u[a + b] /\ Minus(u[a], u[b]) = u[a - b]
      /\ \A a, b \in Int : AtMost(u[a], u[b]) <=> a <= b
      /\ \A a, b \in Int : Less(u[a], u[b]) <=> a < b
      /\ \A a, b \in Int : Larger(u[a], u[b]) = u[IF a < b THEN b ELSE a]
  BY <1>1, UnitLaws
<1>4. \A a, b \in Int : u[a] = u[b] => a = b
  <2> SUFFICES ASSUME NEW a \in Int, NEW b \in Int, u[a] = u[b] PROVE a = b
    OBVIOUS
  <2>1. (AtMost(u[a], u[b]) <=> a <= b) /\ (AtMost(u[b], u[a]) <=> b <= a) /\ (AtMost(u[a], u[a]) <=> a <= a)
    BY <1>3
  <2> QED
    BY <2>1
<1> DEFINE all == IF 0 < i + j THEN i + j ELSE 0
           size == IF j < 0 - j THEN 0 - j ELSE j
           twice == ((i + s) + j) + j
           taken == IF twice < 0 THEN 0 ELSE twice
<1>5. /\ 0 \in Int /\ i + j \in Int /\ all \in Int /\ 0 - j \in Int /\ size \in Int /\ all - size \in Int
      /\ i + s \in Int /\ (i + s) + j \in Int /\ twice \in Int /\ taken \in Int /\ all + s \in Int
  OBVIOUS
<1>6. /\ Plus(k, S) = u[i + s] /\ Plus(Plus(k, S), g) = u[(i + s) + j] /\ Plus(k, g) = u[i + j]
      /\ Minus(Zero, g) = u[0 - j]
  <2>1. Plus(k, S) = u[i + s] /\ Plus(k, g) = u[i + j] /\ Minus(Zero, g) = u[0 - j]
    BY <1>2, <1>3, <1>5
  <2>2. Plus(u[i + s], u[j]) = u[(i + s) + j]
    BY <1>3, <1>5
  <2> QED
    BY <1>2, <2>1, <2>2
<1>7. Larger(Zero, Plus(k, g)) = u[all]
  <2>1. Larger(u[0], u[i + j]) = u[all]
    BY <1>3, <1>5, Zenon
  <2> QED
    BY <1>3, <1>6, <2>1
<1>8. Size(g) = u[size]
  <2>1. Larger(u[j], u[0 - j]) = u[size]
    BY <1>3, <1>5, Zenon
  <2> QED
    BY <1>2, <1>6, <2>1 DEF Size
<1>9. Larger(Plus(Plus(Plus(k, S), g), g), Zero) = u[taken]
  <2>1. Plus(u[(i + s) + j], u[j]) = u[twice]
    BY <1>3, <1>5
  <2>2. Larger(u[twice], u[0]) = u[taken]
    BY <1>3, <1>5, Zenon
  <2> QED
    BY <1>2, <1>3, <1>6, <2>1, <2>2
<1>10. 0 <= i /\ 0 <= s
  BY <1>2, <1>3, <1>5
<1>11. \/ y = i + s /\ 0 <= j
       \/ j < 0 /\ y = taken
       \/ j < 0 /\ y = (i + s) + j /\ 0 <= y
  <2> HIDE DEF taken, all, size
  <2>1. (AtMost(Zero, g) <=> 0 <= j) /\ (Less(g, Zero) <=> j < 0) /\ (AtMost(Zero, x) <=> 0 <= y)
    BY <1>2, <1>3, <1>5
  <2>2. /\ x = Plus(k, S) => y = i + s
        /\ x = Plus(Plus(k, S), g) => y = (i + s) + j
        /\ x = Larger(Plus(Plus(Plus(k, S), g), g), Zero) => y = taken
    BY <1>2, <1>4, <1>5, <1>6, <1>9
  <2> QED
    BY <2>1, <2>2
<1>12. all - size <= y /\ y <= all + s
  BY <1>10, <1>11
<1> HIDE DEF all, size, taken
<1>13. Minus(u[all], u[size]) = u[all - size] /\ Plus(u[all], S) = u[all + s]
  BY <1>2, <1>3, <1>5
<1>14. AtMost(u[all - size], u[y]) /\ AtMost(u[y], u[all + s])
  BY <1>3, <1>5, <1>12
<1> QED
  BY <1>2, <1>7, <1>8, <1>13, <1>14

\* So there is on the tile after the dump, whatever has become of the pack.
LEMMA DumpHolds ==
  ASSUME frac \in Areas, Stacked(pack), Thin(pack), Weighs(pack, pack.snow_tile),
         NEW new \in Areas, Plus(new.ni, new.ice) = Q(1), NEW anomaly \in Rationals, NEW elsewhere
  PROVE  LET p == IF new # frac \/ elsewhere
                  THEN Vanished(Rearranged(pack, frac, new), new) ELSE pack
             q == Regularised(Altered(p, new, anomaly))
             x == Times(q.snow_tile, new.ni)
             g == Given(new, anomaly)
             all == Larger(Zero, Plus(Kept(frac, new), g))
         IN  /\ x \in Rationals /\ g \in Rationals /\ (new.ni = Zero => x = Zero)
             /\ IF q.nsnow = 0
                THEN AtMost(Minus(all, Size(g)), x) /\ AtMost(x, Plus(all, Gain(frac, new)))
                ELSE x = all
<1> DEFINE p == IF new # frac \/ elsewhere
                THEN Vanished(Rearranged(pack, frac, new), new) ELSE pack
           q == Regularised(Altered(p, new, anomaly))
           x == Times(q.snow_tile, new.ni)
           g == Given(new, anomaly)
           k == Kept(frac, new)
           s == Gain(frac, new)
           all == Larger(Zero, Plus(k, g))
<1>1. /\ Weighs(q, q.snow_tile)
      /\ q.nsnow > 0 => x = all
  BY AdjustWeighs
<1>2. pack.snow_tile \in Amounts
  BY DEF Weighs
<1>3. Stacked(p) /\ Thin(p)
  BY RearrangedIs
<1>4. /\ k \in Amounts /\ s \in Amounts /\ k \in Rationals /\ s \in Rationals
      /\ AtMost(Zero, k) /\ AtMost(Zero, s) /\ (new.ni = Zero => k = Zero /\ s = Zero)
      /\ Zero \in Rationals /\ AtMost(Zero, Zero)
  <2>1. k \in Amounts /\ s \in Amounts /\ (new.ni = Zero => k = Zero /\ s = Zero)
    BY <1>2, KeptIs
  <2> HIDE DEF k, s
  <2> QED
    BY <2>1, AmountLaws, ZeroIs DEF Amounts
<1>5. new.ni \in Rationals /\ new.ice \in Rationals
  BY FracsAre
<1>6. g \in Rationals /\ (new.ni = Zero => g = Zero)
  <2> DEFINE m == Times(anomaly, glimmer_ice_density)
  <2>1. m \in Rationals
    BY Standards, TimesLaws
  <2> HIDE DEF m
  <2>2. Times(m, Plus(new.ni, new.ice)) \in Rationals
    <3>1. Times(m, Q(1)) = m
      BY <2>1, TimesLaws
    <3> QED
      BY <2>1, <3>1
  <2> QED
    BY <1>4, <2>2 DEF Given, m
<1>7. Stacked(q) /\ q.snow_tile \in Rationals
  <2>1. Stacked(Altered(p, new, anomaly))
    <3> HIDE DEF p
    <3> QED
      BY <1>3, AlteredIs
  <2>2. Stacked(q)
    <3> DEFINE r == Altered(p, new, anomaly)
    <3> HIDE DEF r
    <3> QED
      BY <2>1, RegularisedIs DEF r
  <2> HIDE DEF q
  <2> QED
    BY <1>1, <2>2, WeightIs
<1>8. x \in Rationals /\ (new.ni = Zero => x = Zero)
  <2> DEFINE v == q.snow_tile
             n == new.ni
  <2>1. v \in Rationals /\ n \in Rationals
    BY <1>5, <1>7
  <2> HIDE DEF q, v, n
  <2>2. Times(v, n) \in Rationals /\ Times(v, Zero) = Zero
    BY <2>1, TimesLaws
  <2> QED
    BY <2>2 DEF v, n
<1>9. CASE new.ni = Zero
  <2>1. AtMost(Minus(all, Size(g)), x) /\ AtMost(x, Plus(all, s)) /\ x = all
    <3>1. x = Zero /\ k = Zero /\ s = Zero /\ g = Zero
      BY <1>4, <1>6, <1>8, <1>9
    <3>2. Plus(Zero, Zero) = Zero /\ Minus(Zero, Zero) = Zero /\ Larger(Zero, Zero) = Zero /\ Size(Zero) = Zero
      <4>1. Plus(Zero, Zero) = Zero /\ Minus(Zero, Zero) = Zero
        BY <1>4, PlusLaws
      <4> QED
        BY <4>1 DEF Larger, Size
    <3> HIDE DEF x, k, s, g
    <3> QED
      BY <1>4, <3>1, <3>2
  <2> HIDE DEF x, all, s, g, q
  <2> QED
    BY <1>6, <1>8, <2>1 DEF x, all, s, g, q, k, p
<1>10. CASE new.ni # Zero
  <2>1. q.nsnow = 0 => AtMost(Minus(all, Size(g)), x) /\ AtMost(x, Plus(all, s))
    <3> SUFFICES ASSUME q.nsnow = 0 PROVE AtMost(Minus(all, Size(g)), x) /\ AtMost(x, Plus(all, s))
      OBVIOUS
    <3>1. Times(p.snow_tile, new.ni) = Plus(k, s)
      BY <1>2, <1>10, RearrangedHolds
    <3>2. p.snow_tile \in Amounts
      <4>1. p.snow_tile = pack.snow_tile \/ p.snow_tile \in Amounts
        <5>1. \E S : Weighs(p, S)
          <6>1. CASE new # frac \/ elsewhere
            <7>1. p = Vanished(Rearranged(pack, frac, new), new)
              BY <6>1
            <7> HIDE DEF p
            <7> QED
              BY <7>1, RearrangedWeighs
          <6>2. CASE ~(new # frac \/ elsewhere)
            BY <6>2
          <6> QED
            BY <6>1, <6>2
        <5> QED
          BY <5>1 DEF Weighs
      <4> QED
        BY <1>2, <4>1
    <3> HIDE DEF p
    <3> DEFINE h == Times(p.snow_tile, new.ni)
    <3>3. \/ x = h /\ AtMost(Zero, g)
          \/ Less(g, Zero) /\ x = Larger(Plus(Plus(h, g), g), Zero)
          \/ Less(g, Zero) /\ x = Plus(h, g) /\ AtMost(Zero, x)
      BY <1>3, <1>10, <3>2, ThinHolds
    <3> HIDE DEF x, g, k, s, h, q
    <3>4. \/ x = Plus(k, s) /\ AtMost(Zero, g)
          \/ Less(g, Zero) /\ x = Larger(Plus(Plus(Plus(k, s), g), g), Zero)
          \/ Less(g, Zero) /\ x = Plus(Plus(k, s), g) /\ AtMost(Zero, x)
      BY <3>1, <3>3 DEF h
    <3> QED
      BY <1>4, <1>6, <1>8, <3>4, ThinBounds
  <2>2. q.nsnow = 0 \/ q.nsnow > 0
    <3> HIDE DEF q
    <3> QED
      BY <1>7, Standards DEF Stacked
  <2> HIDE DEF x, all, s, g, q
  <2> QED
    BY <1>1, <1>6, <1>8, <2>1, <2>2 DEF x, all, s, g, q, k, p
<1> QED
  BY <1>9, <1>10

\* The snow of the tile before: what it keeps, what the ice is owed, and what is not moved.
LEMMA MovedIs ==
  ASSUME NEW f \in Areas, NEW g \in Areas, Plus(f.ni, f.ice) = Q(1), Plus(g.ni, g.ice) = Q(1),
         pack.snow_tile \in Amounts, NEW elsewhere
  PROVE  LET T == pack.snow_tile
             moved == Times(IF g # f \/ elsewhere THEN Owed(pack, f, g) ELSE Zero, g.ice)
             stays == IF Shrinks(f, g) /\ AtMost(T, dzsnow[1])
                      THEN Minus(Times(T, f.ni), Times(T, g.ni)) ELSE Zero
         IN  /\ moved \in Rationals /\ stays \in Rationals /\ AtMost(Zero, stays)
             /\ Times(T, f.ni) = Plus(Kept(f, g), Plus(moved, stays))
<1> DEFINE T == pack.snow_tile
           a == f.ni
           b == g.ni
           i == g.ice
           owed == IF g # f \/ elsewhere THEN Owed(pack, f, g) ELSE Zero
           moved == Times(owed, i)
           stays == IF Shrinks(f, g) /\ AtMost(T, dzsnow[1]) THEN Minus(Times(T, a), Times(T, b)) ELSE Zero
           gone == Minus(Times(T, a), Times(T, b))
<1>1. /\ T \in Rationals /\ AtMost(Zero, T) /\ a \in Rationals /\ b \in Rationals /\ i \in Rationals
      /\ AtMost(Zero, i) /\ Zero \in Rationals /\ f.ice \in Rationals /\ AtMost(Zero, f.ice)
      /\ dzsnow[1] \in Rationals
  BY AmountLaws, FracsAre, ZeroIs, Standards DEF Amounts
<1>2. Kept(f, g) = IF Less(b, a) THEN Times(T, b) ELSE Times(T, a)
  BY DEF Kept, AreaMass, Shrinks
<1>3. Shrinks(f, g) <=> Less(b, a)
  BY DEF Shrinks
<1>4. Less(b, a) => i # Zero /\ f # g
  <2> SUFFICES ASSUME Less(b, a) PROVE i # Zero /\ f # g
    OBVIOUS
  <2> DEFINE o == f.ice
  <2>1. Plus(a, o) = Plus(b, i) /\ o \in Rationals /\ AtMost(Zero, o)
    BY <1>1
  <2>2. f # g
    BY <1>1, OrderLaws
  <2> HIDE DEF a, b, i, o
  <2>3. ASSUME i = Zero PROVE FALSE
    <3>1. Plus(a, o) = b
      BY <1>1, <2>1, <2>3, PlusLaws
    <3>2. AtMost(Plus(Zero, a), Plus(o, a)) /\ Plus(Zero, a) = a /\ Plus(o, a) = Plus(a, o)
      BY <1>1, <2>1, OrderLaws, PlusLaws
    <3> QED
      BY <1>1, <3>1, <3>2, OrderLaws
  <2> QED
    BY <2>2, <2>3
<1>5. owed = IF Less(b, a) /\ Less(dzsnow[1], T) THEN Over(Times(T, Minus(a, b)), i) ELSE Zero
  <2>1. Owed(pack, f, g) = IF Less(b, a) /\ Less(dzsnow[1], T) /\ i # Zero
                           THEN Over(Times(T, Minus(a, b)), i) ELSE Zero
    BY <1>3 DEF Owed
  <2> QED
    BY <1>4, <2>1
<1>6. Kept(f, g) = (IF Less(b, a) THEN Times(T, b) ELSE Times(T, a))
      /\ stays = IF Less(b, a) /\ AtMost(T, dzsnow[1]) THEN gone ELSE Zero
  BY <1>2, <1>3
<1> DEFINE k == Kept(f, g)
<1> HIDE DEF T, a, b, i, owed, k
<1>7. /\ Times(T, a) \in Rationals /\ Times(T, b) \in Rationals /\ gone \in Rationals
      /\ Plus(Times(T, b), gone) = Times(T, a)
      /\ Minus(a, b) \in Rationals /\ Times(T, Minus(a, b)) = gone
  <2>1. Times(T, a) \in Rationals /\ Times(T, b) \in Rationals /\ Minus(a, b) \in Rationals
    BY <1>1, TimesLaws, PlusLaws
  <2>2. gone \in Rationals /\ Plus(Times(T, b), gone) = Times(T, a)
    BY <2>1, PlusLaws
  <2>3. Times(T, a) = Plus(Times(T, b), Times(T, Minus(a, b)))
    <3>1. Plus(b, Minus(a, b)) = a
      BY <1>1, PlusLaws
    <3>2. Times(T, Plus(b, Minus(a, b))) = Plus(Times(T, b), Times(T, Minus(a, b)))
      BY <1>1, <2>1, TimesLaws
    <3> QED
      BY <3>1, <3>2
  <2>4. Times(T, Minus(a, b)) \in Rationals
    BY <1>1, <2>1, TimesLaws
  <2>5. gone = Times(T, Minus(a, b))
    BY <2>1, <2>3, <2>4, MinusLaws
  <2> QED
    BY <2>1, <2>2, <2>5
<1>8. Less(b, a) => AtMost(Zero, gone)
  <2> SUFFICES ASSUME Less(b, a) PROVE AtMost(Zero, gone)
    OBVIOUS
  <2>1. AtMost(Zero, Minus(a, b))
    BY <1>1, <1>7, OrderLaws
  <2> QED
    BY <1>1, <1>7, <2>1, TimesSign
<1> HIDE DEF gone
<1> DEFINE Accounted == /\ moved \in Rationals /\ stays \in Rationals /\ AtMost(Zero, stays)
                        /\ Times(T, a) = Plus(k, Plus(moved, stays))
<1>9. ASSUME Less(b, a), AtMost(T, dzsnow[1]) PROVE Accounted
  <2>1. owed = Zero /\ stays = gone /\ k = Times(T, b)
    BY <1>1, <1>5, <1>6, <1>9, OrderLaws DEF k
  <2>2. moved = Zero
    BY <1>1, <2>1, TimesLaws
  <2>3. Plus(moved, stays) = gone
    BY <1>7, <2>1, <2>2, PlusLaws
  <2> HIDE DEF moved, stays
  <2> QED
    BY <1>1, <1>7, <1>8, <1>9, <2>1, <2>2, <2>3
<1>10. ASSUME Less(b, a), ~AtMost(T, dzsnow[1]) PROVE Accounted
  <2>1. owed = Over(gone, i) /\ stays = Zero /\ k = Times(T, b)
    BY <1>1, <1>5, <1>6, <1>7, <1>10, OrderLaws DEF k
  <2>2. Less(Zero, i)
    BY <1>1, <1>4, <1>10, OrderLaws DEF i
  <2>3. moved = gone
    BY <1>1, <1>7, <2>1, <2>2, OverSign
  <2>4. Plus(moved, stays) = gone /\ AtMost(Zero, Zero)
    <3>1. AtMost(Zero, Zero)
      BY <1>1, OrderLaws
    <3>2. Plus(gone, Zero) = gone
      BY <1>7, PlusLaws
    <3> HIDE DEF moved, stays
    <3> QED
      BY <2>1, <2>3, <3>1, <3>2
  <2> HIDE DEF moved, stays
  <2> QED
    BY <1>1, <1>7, <2>1, <2>3, <2>4
<1>11. ASSUME ~Less(b, a) PROVE Accounted
  <2>1. owed = Zero /\ stays = Zero /\ k = Times(T, a)
    BY <1>5, <1>6, <1>11 DEF k
  <2>2. moved = Zero
    BY <1>1, <2>1, TimesLaws
  <2>3. Plus(k, Plus(moved, stays)) = k /\ AtMost(Zero, Zero)
    <3>1. AtMost(Zero, Zero)
      BY <1>1, OrderLaws
    <3>2. k \in Rationals
      BY <1>7, <2>1
    <3>3. Plus(Zero, Zero) = Zero /\ Plus(k, Zero) = k
      BY <1>1, <3>2, PlusLaws
    <3> HIDE DEF moved, stays
    <3> QED
      BY <2>1, <2>2, <3>1, <3>3
  <2> HIDE DEF moved, stays
  <2> QED
    BY <1>1, <2>1, <2>2, <2>3
<1>12. Accounted
  BY <1>9, <1>10, <1>11
<1> HIDE DEF moved, stays
<1> QED
  BY <1>12 DEF moved, stays, k, T, a, b, i, owed

\* The size of a change is what is compared with the thickness of a layer.
LEMMA SizeIs ==
  ASSUME NEW q \in Rationals
  PROVE  Size(q) = IF Less(q, Zero) THEN Minus(Zero, q) ELSE q
<1> DEFINE m == Minus(Zero, q)
<1>1. Zero \in Rationals /\ m \in Rationals
  BY ZeroIs, PlusLaws
<1>2. Less(q, m) <=> Less(q, Zero)
  <2> DEFINE All == {q, q, q, q, q}
  <2>0. IsFiniteSet(All) /\ All \subseteq Rationals
    BY FiveAreFinite
  <2>1. PICK u : IsUnit(u) /\ \A x \in All : \E n \in Int : x = u[n]
    <3> HIDE DEF All
    <3> QED
      BY <2>0, UnitOf
  <2>2. PICK i \in Int : q = u[i]
    BY <2>1
  <2> HIDE DEF All, m
  <2>3. /\ Zero = u[0] /\ \A x, y \in Int : Minus(u[x], u[y]) = u[x - y]
        /\ \A x, y \in Int : Less(u[x], u[y]) <=> x < y
    BY <2>1, UnitLaws
  <2>4. m = u[0 - i] /\ 0 - i \in Int /\ 0 \in Int
    BY <2>2, <2>3 DEF m
  <2>5. (Less(u[i], u[0 - i]) <=> i < 0 - i) /\ (Less(u[i], u[0]) <=> i < 0)
    BY <2>3, <2>4
  <2>6. i < 0 - i <=> i < 0
    OBVIOUS
  <2> QED
    BY <2>2, <2>3, <2>4, <2>5, <2>6
<1> QED
  BY <1>2 DEF Size, Larger

\* The dump keeps the mass, but for what is named.
LEMMA DumpKeeps ==
  ASSUME ExchangeInv, AdjustDump
  PROVE  DumpKeepsMass
<1> DEFINE f == frac
           g == TilesOf(thk)
           P == Mean(sdep_l)
           d == glimmer_ice_density
           T == pack.snow_tile
<1>1. PICK elsewhere \in BOOLEAN : Adjust(g, P, elsewhere) /\ frac' = g /\ nonice_snowdepth' = P
  BY DEF AdjustDump
<1>2. /\ f \in Areas /\ Stacked(pack) /\ Thin(pack) /\ Weighs(pack, T) /\ Plus(f.ni, f.ice) = Q(1)
      /\ T \in Amounts /\ T \in Rationals
  BY AmountLaws DEF ExchangeInv, SnowInv, Weighs
<1>3. g \in Areas /\ Plus(g.ni, g.ice) = Q(1)
  BY TilesAre DEF ExchangeInv
<1>4. P \in Rationals /\ Pending = P
  <2>1. \A c \in Cells : sdep_l[c] \in Rationals
    BY DEF ExchangeInv
  <2>2. Mean(sdep_l) \in Rationals
    BY <2>1, ZeroIs, MeanLaws
  <2>3. step > 0
    BY ExchangeAssumption DEF AdjustDump
  <2> QED
    BY <2>2, <2>3 DEF Pending
<1>5. d \in Rationals /\ Less(Zero, d) /\ d # Zero /\ Zero \in Rationals
  BY Standards, ZeroIs, OverSign
<1>6. f.ni \in Rationals /\ g.ni \in Rationals /\ g.ice \in Rationals /\ Times(T, f.ni) \in Rationals
      /\ Times(T, g.ni) \in Rationals
  <2>1. f.ni \in Rationals /\ g.ni \in Rationals /\ g.ice \in Rationals
    BY <1>2, <1>3, FracsAre
  <2> HIDE DEF f, g, T
  <2> QED
    BY <1>2, <2>1, TimesLaws
<1> DEFINE p == IF g # f \/ elsewhere THEN Vanished(Rearranged(pack, f, g), g) ELSE pack
           q == Regularised(Altered(p, g, P))
           owed == IF g # f \/ elsewhere THEN Owed(pack, f, g) ELSE Zero
           x == Times(q.snow_tile, g.ni)
           given == Given(g, P)
           k == Kept(f, g)
           s == Gain(f, g)
           all == Larger(Zero, Plus(k, given))
           moved == Times(owed, g.ice)
           stays == IF Shrinks(f, g) /\ AtMost(T, dzsnow[1])
                    THEN Minus(Times(T, f.ni), Times(T, g.ni)) ELSE Zero
<1>7. pack' = q /\ smb_from_nisnow' = owed
  BY <1>1 DEF Adjust
<1>8. /\ x \in Rationals /\ given \in Rationals /\ (g.ni = Zero => x = Zero)
      /\ IF q.nsnow = 0 THEN AtMost(Minus(all, Size(given)), x) /\ AtMost(x, Plus(all, s)) ELSE x = all
  <2> HIDE DEF g, P
  <2> QED
    BY <1>2, <1>3, <1>4, DumpHolds
<1>9. /\ k \in Amounts /\ s \in Amounts /\ (g.ni = Zero => k = Zero /\ s = Zero)
  <2> HIDE DEF g
  <2> QED
    BY <1>2, <1>3, KeptIs
<1>10. /\ moved \in Rationals /\ stays \in Rationals /\ AtMost(Zero, stays)
       /\ Times(T, f.ni) = Plus(k, Plus(moved, stays))
  <2> HIDE DEF g
  <2> QED
    BY <1>2, <1>3, MovedIs
<1>11. given = IF g.ni = Zero \/ AtMost(Size(P), dzsnow[1]) THEN Zero ELSE Times(P, d)
  <2> DEFINE y == Times(P, d)
  <2>1. Size(P) = IF Less(P, Zero) THEN Minus(Zero, P) ELSE P
    BY <1>4, SizeIs
  <2>2. y \in Rationals
    <3> HIDE DEF P, d
    <3> QED
      BY <1>4, <1>5, TimesLaws
  <2>3. Times(y, Plus(g.ni, g.ice)) = y
    <3> HIDE DEF y
    <3> QED
      BY <1>3, <2>2, TimesLaws
  <2> HIDE DEF P, g
  <2> QED
    BY <2>1, <2>3 DEF Given
<1> DEFINE small == AtMost(Size(P), dzsnow[1])
           gone == g.ni = Zero
           thin == q.nsnow = 0
           K == Over(k, d)
           M == Over(moved, d)
           U == Over(stays, d)
           X == Over(x, d)
           S == Over(s, d)
           before == Plus(Plus(K, Plus(M, U)), P)
           after == Plus(X, M)
           unapplied == IF small THEN Size(P) ELSE Zero
           notile == IF gone THEN Larger(Zero, P) ELSE Zero
           thinned == IF thin THEN Size(P) ELSE Zero
           stretched == IF thin THEN S ELSE Zero
           overdraft == Larger(Zero, Minus(Minus(Zero, P), K))
           lost == Plus(Plus(unapplied, U), Plus(notile, thinned))
           gained == Plus(unapplied, Plus(overdraft, stretched))
<1>12. Snow(pack, frac) = Plus(K, Plus(M, U))
  <2> DEFINE e == Plus(moved, stays)
             t == Times(T, f.ni)
  <2>1. /\ k \in Rationals /\ moved \in Rationals /\ stays \in Rationals /\ e \in Rationals
        /\ t = Plus(k, e)
    <3> HIDE DEF moved, stays, k, t
    <3> QED
      BY <1>9, <1>10, AmountLaws, PlusLaws DEF t
  <2>2. Snow(pack, frac) = Over(t, d)
    BY DEF Snow
  <2> HIDE DEF moved, stays, k, t, d
  <2>3. Over(e, d) = Plus(M, U)
    BY <1>5, <2>1, OverLinear
  <2> HIDE DEF e
  <2>4. Over(Plus(k, e), d) = Plus(K, Over(e, d))
    BY <1>5, <2>1, OverLinear
  <2> QED
    BY <2>1, <2>2, <2>3, <2>4
<1>13. Snow(pack', frac') = X /\ Over(Times(smb_from_nisnow', frac'.ice), d) = M /\ frac'.ni = g.ni
  BY <1>1, <1>7 DEF Snow
<1>14. Unmoved = U
  <2> DEFINE a == Times(T, f.ni)
             b == Times(T, g.ni)
  <2>1. Snow(pack, frac) = Over(a, d) /\ Snow(pack, frac') = Over(b, d)
    BY <1>1 DEF Snow
  <2>2. Unmoved = IF Shrinks(f, g) /\ AtMost(T, dzsnow[1])
                  THEN Minus(Snow(pack, frac), Snow(pack, frac')) ELSE Zero
    BY <1>1 DEF Unmoved
  <2>3. stays = IF Shrinks(f, g) /\ AtMost(T, dzsnow[1]) THEN Minus(a, b) ELSE Zero
    OBVIOUS
  <2> HIDE DEF a, b, stays, d, T, g
  <2>4. Over(Minus(a, b), d) = Minus(Over(a, d), Over(b, d)) /\ Over(Zero, d) = Zero
    BY <1>5, <1>6, OverLinear DEF a, b
  <2> QED
    BY <2>1, <2>2, <2>3, <2>4
<1>15. Stretched = stretched
  <2> DEFINE a == Times(T, f.ni)
             b == Times(T, g.ni)
  <2>1. Snow(pack, frac) = Over(a, d) /\ Snow(pack, frac') = Over(b, d)
    BY <1>1 DEF Snow
  <2>2. Stretched = IF pack.nsnow > 0 /\ thin /\ Grows(f, g) /\ f.ni # Zero
                    THEN Minus(Snow(pack, frac'), Snow(pack, frac)) ELSE Zero
    BY <1>1, <1>7 DEF Stretched
  <2>3. s = IF pack.nsnow > 0 /\ Grows(f, g) /\ f.ni # Zero THEN Minus(b, a) ELSE Zero
    BY DEF Gain
  <2> HIDE DEF a, b, s, d, T, g, thin
  <2>4. Over(Minus(b, a), d) = Minus(Over(b, d), Over(a, d)) /\ Over(Zero, d) = Zero
    BY <1>5, <1>6, OverLinear DEF a, b
  <2> QED
    BY <2>1, <2>2, <2>3, <2>4
<1>16. /\ Unapplied = unapplied /\ NoTile = notile /\ Thinned = thinned
       /\ Overdraft = overdraft
  <2>1. Unapplied = unapplied
    BY <1>4 DEF Unapplied
  <2>2. NoTile = notile
    BY <1>1, <1>4 DEF NoTile
  <2>3. Thinned = thinned
    BY <1>4, <1>7 DEF Thinned
  <2>4. Overdraft = overdraft
    BY <1>1, <1>4 DEF Overdraft
  <2> QED
    BY <2>1, <2>2, <2>3, <2>4
<1>17. /\ K \in Rationals /\ M \in Rationals /\ U \in Rationals /\ X \in Rationals /\ S \in Rationals
       /\ AtMost(Zero, K) /\ AtMost(Zero, U) /\ AtMost(Zero, S)
       /\ gone => K = Zero /\ X = Zero
  <2>1. k \in Rationals /\ AtMost(Zero, k) /\ s \in Rationals /\ AtMost(Zero, s)
    <3> HIDE DEF k, s
    <3> QED
      BY <1>9, AmountLaws DEF Amounts
  <2> HIDE DEF k, s, moved, stays, x, d, g
  <2>2. K \in Rationals /\ M \in Rationals /\ U \in Rationals /\ X \in Rationals /\ S \in Rationals
    BY <1>5, <1>8, <1>10, <2>1, OverSign
  <2>3. AtMost(Zero, K) /\ AtMost(Zero, U) /\ AtMost(Zero, S)
    BY <1>5, <1>10, <2>1, OverSign
  <2>4. Over(Zero, d) = Zero
    BY <1>5, OverSign
  <2> QED
    BY <1>8, <1>9, <2>2, <2>3, <2>4
<1>18. LET D == IF gone \/ small THEN Zero ELSE P
           A == Larger(Zero, Plus(K, D))
       IN  IF thin THEN AtMost(Minus(A, Size(D)), X) /\ AtMost(X, Plus(A, S)) ELSE X = A
  <2> DEFINE D == IF gone \/ small THEN Zero ELSE P
             A == Larger(Zero, Plus(K, D))
             y == Times(P, d)
             size == Size(given)
  <2>1. k \in Rationals /\ s \in Rationals
    <3> HIDE DEF k, s
    <3> QED
      BY <1>9, AmountLaws
  <2>2. Over(given, d) = D
    <3>1. y \in Rationals /\ Over(y, d) = P
      <4> HIDE DEF P, d
      <4> QED
        BY <1>4, <1>5, TimesLaws, OverLaws
    <3>2. Over(Zero, d) = Zero
      BY <1>5, OverSign
    <3>3. given = IF gone \/ small THEN Zero ELSE y
      BY <1>11
    <3> HIDE DEF given, y, d, P, gone, small
    <3> QED
      BY <3>1, <3>2, <3>3
  <2> HIDE DEF k, s, x, d, given, D, thin
  <2>3. Plus(k, given) \in Rationals /\ Over(Plus(k, given), d) = Plus(K, D)
    <3>1. Over(Plus(k, given), d) = Plus(Over(k, d), Over(given, d))
      BY <1>5, <1>8, <2>1, OverLinear
    <3>2. Plus(k, given) \in Rationals
      BY <1>8, <2>1, PlusLaws
    <3> QED
      BY <2>2, <3>1, <3>2
  <2>4. all \in Rationals /\ Over(all, d) = A
    <3> DEFINE h == Plus(k, given)
    <3>1. h \in Rationals /\ Over(h, d) = Plus(K, D)
      BY <2>3
    <3> HIDE DEF h
    <3>2. Over(Larger(Zero, h), d) = Larger(Over(Zero, d), Over(h, d)) /\ Over(Zero, d) = Zero
      BY <1>5, <3>1, OverLinear
    <3>3. Larger(Zero, h) \in Rationals
      BY <1>5, <3>1, LargerIs
    <3> QED
      BY <3>1, <3>2, <3>3 DEF h
  <2>5. size \in Rationals /\ Over(size, d) = Size(D)
    <3> DEFINE m == Minus(Zero, given)
    <3>1. m \in Rationals /\ Over(m, d) = Minus(Zero, D)
      <4>1. Over(m, d) = Minus(Over(Zero, d), Over(given, d)) /\ Over(Zero, d) = Zero
        BY <1>5, <1>8, OverLinear
      <4>2. m \in Rationals
        BY <1>5, <1>8, PlusLaws
      <4> QED
        BY <2>2, <4>1, <4>2
    <3>2. size = Larger(given, m)
      BY DEF Size
    <3> HIDE DEF m
    <3>3. Over(Larger(given, m), d) = Larger(Over(given, d), Over(m, d))
      BY <1>5, <1>8, <3>1, OverLinear
    <3>4. Larger(given, m) \in Rationals
      BY <1>8, <3>1, LargerIs
    <3> QED
      BY <2>2, <3>1, <3>2, <3>3, <3>4 DEF Size
  <2> HIDE DEF all, A, size
  <2>6. Minus(all, size) \in Rationals /\ Plus(all, s) \in Rationals
    BY <2>1, <2>4, <2>5, PlusLaws
  <2>7. Over(Minus(all, size), d) = Minus(A, Size(D)) /\ Over(Plus(all, s), d) = Plus(A, S)
    BY <1>5, <2>1, <2>4, <2>5, OverLinear
  <2>8. CASE thin
    <3>1. AtMost(Minus(all, size), x) /\ AtMost(x, Plus(all, s))
      BY <1>8, <2>8 DEF size, thin
    <3> DEFINE low == Minus(all, size)
               high == Plus(all, s)
    <3> HIDE DEF low, high
    <3>2. low \in Rationals /\ high \in Rationals /\ AtMost(low, x) /\ AtMost(x, high)
      BY <2>6, <3>1 DEF low, high
    <3>3. AtMost(Over(low, d), Over(x, d)) /\ AtMost(Over(x, d), Over(high, d))
      BY <1>5, <1>8, <3>2, OverOrder
    <3>4. AtMost(Minus(A, Size(D)), X) /\ AtMost(X, Plus(A, S))
      BY <2>7, <3>3 DEF low, high
    <3> QED
      BY <2>8, <3>4 DEF A, D
  <2>9. CASE ~thin
    <3>1. x = all
      BY <1>8, <2>9 DEF thin
    <3>2. X = A
      BY <2>4, <3>1
    <3> QED
      BY <2>9, <3>2 DEF A, D
  <2> QED
    BY <2>8, <2>9
<1>19. small \in BOOLEAN /\ gone \in BOOLEAN /\ thin \in BOOLEAN
  BY DEF AtMost
<1>20. AtMost(Minus(before, lost), after) /\ AtMost(after, Plus(before, gained))
  <2> HIDE DEF K, M, U, X, S, P, small, gone, thin
  <2>1. /\ K \in Rationals /\ M \in Rationals /\ U \in Rationals /\ X \in Rationals /\ S \in Rationals
        /\ AtMost(Zero, K) /\ AtMost(Zero, U) /\ AtMost(Zero, S)
        /\ (gone => K = Zero /\ X = Zero) /\ P \in Rationals
    BY <1>4, <1>17 DEF K, M, U, X, S, P, gone
  <2>2. LET D == IF gone \/ small THEN Zero ELSE P
            A == Larger(Zero, Plus(K, D))
        IN  IF thin THEN AtMost(Minus(A, Size(D)), X) /\ AtMost(X, Plus(A, S)) ELSE X = A
    BY <1>18 DEF K, X, S, P, small, gone, thin
  <2>3. small \in BOOLEAN /\ gone \in BOOLEAN /\ thin \in BOOLEAN
    BY <1>19 DEF small, gone, thin
  <2>4. DumpKnown(K, M, U, P, X, S, small, gone, thin)
    BY <2>1, <2>2, <2>3 DEF DumpKnown
  <2>5. DumpAccount(K, M, U, P, X, S, small, gone, thin)
    BY <2>4, DumpAdds
  <2> QED
    BY <2>5 DEF DumpAccount
<1> HIDE DEF unapplied, notile, thinned, stretched, overdraft
<1>21. /\ Plus(Snow(pack, frac), Pending) = before
       /\ Plus(Snow(pack', frac'), Over(Times(smb_from_nisnow', frac'.ice), glimmer_ice_density)) = after
  BY <1>4, <1>12, <1>13
<1>22. /\ Plus(Plus(Unapplied, Unmoved), Plus(NoTile, Thinned)) = lost
       /\ Plus(Unapplied, Plus(Overdraft, Stretched)) = gained
  BY <1>14, <1>15, <1>16
<1> HIDE DEF before, after, lost, gained
<1> QED
  BY <1>20, <1>21, <1>22 DEF DumpKeepsMass

-------------------------------------------------------------------------------
(* Every ice call and every dump *)

\* At first there is no ice call.
LEMMA ExchangeStart == ExchangeInit => ExchangeInv
<1> SUFFICES ASSUME ExchangeInit PROVE ExchangeInv
  OBVIOUS
<1>1. SnowInv
  BY SnowInit DEF ExchangeInit
<1>2. Plus(frac.ni, frac.ice) = Q(1)
  BY TilesAre DEF ExchangeInit
<1>3. step \in -1..IceSteps /\ thk \in [Cells -> Amounts]
  BY ExchangeAssumption DEF ExchangeInit
<1>4. sdep_l \in [Cells -> Rationals] /\ \E b \in Rationals : mbal = [c \in Cells |-> b]
  BY ZeroIs DEF ExchangeInit, Nothing
<1> QED
  BY <1>1, <1>2, <1>3, <1>4 DEF ExchangeInv

\* What is interpolated is a depth.
LEMMA DownscaledIs ==
  ASSUME ExchangeInv, NEW c \in Cells, NEW next \in Neighbours
  PROVE  Downscaled(c, next) \in Rationals
<1> DEFINE w == Nearness[c]
           s == pack.snow_tile
           d == glimmer_ice_density
<1>1. /\ w \in Rationals /\ next \in Rationals /\ s \in Rationals /\ d \in Rationals /\ d # Zero
      /\ Q(1) \in Rationals
  <2>1. Nearness \in [Cells -> Amounts] /\ next \in Amounts
    BY ExchangeAssumption
  <2>2. s \in Amounts
    BY DEF ExchangeInv, SnowInv, Weighs
  <2>3. d \in Rationals /\ Less(Zero, d) /\ Zero \in Rationals
    BY Standards, ZeroIs
  <2>4. d # Zero
    BY <2>3, OrderLaws
  <2> QED
    BY <2>1, <2>2, <2>3, <2>4, AmountLaws, WholeUnits
<1>2. Downscaled(c, next) = Plus(Times(w, Over(s, d)), Times(Minus(Q(1), w), next))
  BY DEF Downscaled
<1> HIDE DEF w, s, d
<1>3. Over(s, d) \in Rationals /\ Minus(Q(1), w) \in Rationals
  BY <1>1, OverLaws, PlusLaws
<1>4. \A x, y \in Rationals : Times(x, y) \in Rationals /\ Plus(x, y) \in Rationals
  BY TimesLaws, PlusLaws
<1> QED
  BY <1>1, <1>2, <1>3, <1>4

\* The beginning of an ice call.
LEMMA StartKept == ASSUME ExchangeInv, StartIceCall PROVE ExchangeInv'
<1>1. step' \in -1..IceSteps
  BY ExchangeAssumption DEF StartIceCall
<1>2. sdep_l' \in [Cells -> Rationals]
  <2>1. PICK next \in Neighbours : sdep_l' = [c \in Cells |-> Downscaled(c, next)]
    BY DEF StartIceCall
  <2>2. \A c \in Cells : Downscaled(c, next) \in Rationals
    BY DownscaledIs
  <2> QED
    BY <2>1, <2>2
<1>3. \E b \in Rationals : mbal' = [c \in Cells |-> b]
  BY ExchangeAssumption DEF StartIceCall
<1>4. SnowInv' /\ frac' = frac /\ thk' = thk
  BY SnowStutter DEF ExchangeInv, StartIceCall, snowVars
<1>5. Plus(frac.ni, frac.ice)' = Q(1)
  BY <1>4 DEF ExchangeInv
<1> QED
  BY <1>1, <1>2, <1>3, <1>4, <1>5 DEF ExchangeInv

\* A time-step of the ice.
LEMMA IceStepKept == ASSUME ExchangeInv, IceStep PROVE ExchangeInv'
<1>1. step' \in -1..IceSteps
  BY ExchangeAssumption DEF IceStep
<1>2. ASSUME NEW c \in Cells
      PROVE  /\ Larger(Zero, Plus(thk[c], Times(water_to_ice, Plus(Masked(c), Created(c))))) \in Amounts
             /\ SnowChange(c) \in Rationals
  BY CellAccount
<1>3. thk' \in [Cells -> Amounts]
  BY <1>2 DEF IceStep
<1>4. sdep_l' \in [Cells -> Rationals]
  BY <1>2 DEF IceStep
<1>5. SnowInv' /\ frac' = frac /\ mbal' = mbal
  BY SnowStutter DEF ExchangeInv, IceStep, snowVars
<1>6. Plus(frac.ni, frac.ice)' = Q(1) /\ \E b \in Rationals : mbal' = [c \in Cells |-> b]
  BY <1>5 DEF ExchangeInv
<1> QED
  BY <1>1, <1>3, <1>4, <1>5, <1>6 DEF ExchangeInv

\* The dump.
LEMMA DumpKept == ASSUME ExchangeInv, AdjustDump PROVE ExchangeInv'
<1> DEFINE g == TilesOf(thk)
           P == Mean(sdep_l)
<1>1. PICK elsewhere \in BOOLEAN : Adjust(g, P, elsewhere) /\ frac' = g
  BY DEF AdjustDump
<1>2. g \in Areas /\ Plus(g.ni, g.ice) = Q(1)
  BY TilesAre
<1>3. P \in Rationals
  <2>1. \A c \in Cells : sdep_l[c] \in Rationals
    BY DEF ExchangeInv
  <2> QED
    BY <2>1, ZeroIs, MeanLaws
<1>4. SnowInv'
  <2> HIDE DEF g, P
  <2> QED
    BY <1>1, <1>2, <1>3, AdjustStep DEF ExchangeInv
<1>5. Plus(frac.ni, frac.ice)' = Q(1)
  BY <1>1, <1>2
<1>6. step' \in -1..IceSteps /\ thk' = thk
  BY ExchangeAssumption DEF AdjustDump
<1>7. sdep_l' \in [Cells -> Rationals] /\ \E b \in Rationals : mbal' = [c \in Cells |-> b]
  BY ZeroIs DEF AdjustDump, Nothing
<1> QED
  BY <1>4, <1>5, <1>6, <1>7 DEF ExchangeInv

\* The weather, and what changes nothing.
LEMMA RestKept ==
  ASSUME ExchangeInv, (Season /\ UNCHANGED iceVars) \/ UNCHANGED allVars PROVE ExchangeInv'
<1>1. SnowInv' /\ frac' = frac
  <2>1. SnowInv
    BY DEF ExchangeInv
  <2> QED
    BY <2>1, SeasonStep, SnowStutter DEF Season, allVars, snowVars
<1>2. step' = step /\ thk' = thk /\ sdep_l' = sdep_l /\ mbal' = mbal
  BY DEF iceVars, allVars
<1> QED
  BY <1>1, <1>2 DEF ExchangeInv

\* Every step keeps what is always so, and the mass where there is one time-step of the
\* ice to an ice call.
LEMMA ExchangeStep ==
  ASSUME ExchangeInv, [ExchangeNext]_allVars
  PROVE  /\ ExchangeInv'
         /\ IceSteps = 1 =>
              /\ step \in 0..(IceSteps - 1) /\ step' = step + 1 => StepKeepsMass
              /\ step = IceSteps /\ step' = -1 => DumpKeepsMass
<1>1. CASE StartIceCall
  BY <1>1, StartKept, ExchangeAssumption DEF StartIceCall
<1>2. CASE IceStep
  <2>1. IceSteps = 1 => step = 0 /\ step' = 1
    BY <1>2 DEF IceStep
  <2>2. IceSteps = 1 => StepKeepsMass
    BY <1>2, <2>1, StepKeeps
  <2> QED
    BY <1>2, <2>1, <2>2, IceStepKept
<1>3. CASE AdjustDump
  <2>1. step = IceSteps /\ step' = -1 /\ IceSteps \in Nat
    BY <1>3, ExchangeAssumption DEF AdjustDump
  <2> QED
    BY <1>3, <2>1, DumpKept, DumpKeeps
<1>4. CASE (Season /\ UNCHANGED iceVars) \/ UNCHANGED allVars
  <2>1. step' = step /\ step \in Int /\ IceSteps \in Nat
    BY <1>4, ExchangeAssumption DEF iceVars, allVars, ExchangeInv
  <2> QED
    BY <1>4, <2>1, RestKept
<1> QED
  BY <1>1, <1>2, <1>3, <1>4 DEF ExchangeNext

\* Making and removing ice keeps the mass of snow and ice, within what is named, for every
\* ice sheet and any packs, layers and densities, where an ice call is one time-step.
THEOREM ExchangeHolds == IceSteps = 1 => (ExchangeSpec => ExchangeKeepsMass)
<1> SUFFICES ASSUME IceSteps = 1 PROVE ExchangeSpec => ExchangeKeepsMass
  OBVIOUS
<1>1. ExchangeInit => ExchangeInv
  BY ExchangeStart
<1>2. ExchangeInv /\ [ExchangeNext]_allVars => ExchangeInv'
  BY ExchangeStep
<1>3. ExchangeInv /\ [ExchangeNext]_allVars =>
        [/\ step \in 0..(IceSteps - 1) /\ step' = step + 1 => StepKeepsMass
         /\ step = IceSteps /\ step' = -1 => DumpKeepsMass]_allVars
  BY ExchangeStep
<1> QED
  BY <1>1, <1>2, <1>3, PTL DEF ExchangeSpec, ExchangeKeepsMass

-------------------------------------------------------------------------------
(* The years of the suite (UmUpdate) *)

\* The range of the variables that the steps below calculate with.
LEMMA Ranges ==
  ASSUME TypeOK
  PROVE  /\ Years \in Nat \ {0} /\ Full \in Nat \ {0} /\ Spare \in Int
         /\ SMBs \subseteq Int /\ Sizes \subseteq 0..Full
         /\ climate \in 0..Years /\ ice \in 0..Years /\ pp \in Int
         /\ \A y \in 0..Years : toice[y] \in ToIce /\ toice[y].smb \in Int
BY ConstantsAssumption DEF TypeOK, ToIce

\* What the steps below do to a dump makes a dump.
LEMMA DumpTypes ==
  /\ NoDump \in Dump
  /\ \A p \in Int, y \in 0..Years : [year |-> y, pack |-> p, size |-> Full] \in Dump
  /\ \A dump \in Dump :
       /\ dump.pack \in Int
       /\ \A size \in 0..Full : [dump EXCEPT !.size = size] \in Dump
       /\ \A p \in Int : [dump EXCEPT !.pack = p] \in Dump
<1>1. 0..Years \subseteq -1..Years /\ -1 \in -1..Years /\ 0 \in 0..Full /\ Full \in 0..Full
  BY ConstantsAssumption
<1> QED
  BY <1>1 DEF NoDump, Dump

\* Of the sizes a write may leave, only the whole one passes the comparison.
LEMMA OnlyWholePasses ==
  ASSUME AsInSuite, NEW size \in Sizes, SizesAgree,
         um_input.size = Full, um_temp.size = size, Full \in Nat \ {0}, Sizes \subseteq 0..Full
  PROVE  size = Full
<1>1. TempDump.size = size
  BY DEF TempDump, TempName, AsInSuite
<1>2. size \in 0..Full /\ Full - size >= 0
  OBVIOUS
<1>3. (Full - size) * 100 < Full
  BY <1>1, <1>2 DEF SizesAgree
<1> QED
  BY <1>2, <1>3 DEF AsInSuite

\* At first there are no files.
LEMMA InitInv == ASSUME AsInSuite, Init PROVE UpdateInv
<1>1. TypeOK
  <2>1. 0 \in 0..Years /\ 0 \in 0..MaxAttempts /\ Spare \in Int /\ pp \in SMBs /\ pp \in Int
    BY ConstantsAssumption DEF Init
  <2>2. toice \in [0..Years -> ToIce]
    BY <2>1 DEF Init, ToIce, Absent
  <2>3. um_output \in Dump
    BY <2>1, DumpTypes DEF Init
  <2> QED
    BY <2>1, <2>2, <2>3, DumpTypes DEF Init, TypeOK
<1>2. Lockstep /\ Forcing /\ Dumps
  BY ConstantsAssumption DEF Init, Lockstep, Forcing, Dumps, Absent
<1>3. InTransit = pp
  BY ConstantsAssumption DEF Init, InTransit, Due
<1>4. Ledger
  BY <1>1, <1>3 DEF Init, Ledger, TypeOK
<1> QED
  BY <1>1, <1>2, <1>4 DEF UpdateInv, Init

-------------------------------------------------------------------------------
(* The two models *)

\* A year of the climate model.
LEMMA ClimateYearInv == ASSUME AsInSuite, UpdateInv, ClimateYear PROVE UpdateInv'
<1> USE Ranges DEF UpdateInv, ClimateYear
<1>1. /\ climate + 1 \in 0..Years /\ ice \in {climate, climate + 1}
      /\ um_output.pack = Spare /\ pp' \in Int
  <2>1. climate + 1 \in 0..Years /\ ice \in {climate, climate + 1}
    BY DEF Lockstep, TypeOK
  <2>2. um_output.pack = Spare
    BY DEF Dumps
  <2>3. pp' \in Int
    BY DEF TypeOK
  <2> QED
    BY <2>1, <2>2, <2>3
<1>2. TypeOK'
  <2>1. um_input' \in Dump
    <3>1. um_output.pack + pp' \in Int
      BY <1>1
    <3> QED
      BY <1>1, <3>1, DumpTypes
  <2>2. pp' \in SMBs /\ fallen' \in Int /\ 0 \in 0..MaxAttempts
    BY <1>1, ConstantsAssumption DEF TypeOK
  <2> QED
    BY <1>1, <2>1, <2>2, DumpTypes DEF TypeOK
<1>3. Lockstep' /\ Dumps'
  BY <1>1 DEF Lockstep, Dumps
<1>4. Forcing' /\ toice[climate].state = "whole" /\ toice'[climate + 1] = Absent
  BY <1>1 DEF Forcing, Absent
<1>5. InTransit' = InTransit + pp'
  <2>1. CASE ice = climate
    BY <1>1, <1>4, <2>1 DEF InTransit, Due, Absent
  <2>2. CASE ice = climate + 1
    BY <1>1, <1>4, <2>2 DEF InTransit, Due, Absent
  <2> QED
    BY <1>1, <2>1, <2>2
<1>6. InTransit \in Int
  BY <1>1 DEF InTransit, Due, TypeOK
<1>7. Ledger'
  <2>1. ice_mass \in Int /\ InTransit + ice_mass = fallen
    BY DEF Ledger, TypeOK
  <2>2. fallen' = fallen + pp' /\ ice_mass' = ice_mass
    OBVIOUS
  <2>3. InTransit' + ice_mass' = fallen'
    BY <1>1, <1>5, <1>6, <2>1, <2>2
  <2> QED
    BY <2>3 DEF Ledger
<1> QED
  BY <1>2, <1>3, <1>4, <1>7

\* What it left is made input of the ice sheet.
LEMMA AtmosToIceInv == ASSUME AsInSuite, UpdateInv, AtmosToIce PROVE UpdateInv'
<1> USE Ranges DEF UpdateInv, AtmosToIce, suiteVars
<1>1. TypeOK' /\ toice'[climate] = [smb |-> pp, state |-> "whole"]
      /\ \A y \in 0..Years : y # climate => toice'[y] = toice[y]
  BY DEF TypeOK, ToIce
<1>2. Lockstep' /\ Dumps'
  BY DEF Lockstep, Dumps
<1>3. Forcing'
  BY <1>1 DEF Forcing
<1>4. ice < climate => ice \in 0..Years /\ toice'[ice] = toice[ice]
  BY <1>1 DEF Lockstep
<1>5. InTransit' = InTransit
  BY <1>1, <1>4 DEF InTransit, Due, Lockstep
<1> QED
  BY <1>1, <1>2, <1>3, <1>5 DEF Ledger

\* A year of the ice sheet.
LEMMA IceYearInv == ASSUME AsInSuite, UpdateInv, IceYear PROVE UpdateInv'
<1> USE Ranges DEF UpdateInv, IceYear, fileVars
<1>1. ice \in 0..Years /\ ice <= climate /\ ice >= climate - 1
  BY DEF Forcing, Lockstep, Absent
<1>2. TypeOK'
  BY <1>1 DEF TypeOK
<1>3. Lockstep' /\ Dumps' /\ Forcing'
  BY <1>1 DEF Lockstep, Dumps, Forcing
<1>4. InTransit' = InTransit - toice[ice].smb
  <2>1. CASE ice = climate
    BY <1>1, <2>1 DEF InTransit, Due
  <2>2. CASE ice = climate - 1
    BY <1>1, <2>2 DEF InTransit, Due, Forcing
  <2> QED
    BY <1>1, <2>1, <2>2
<1>5. InTransit \in Int
  BY <1>1 DEF InTransit, Due
<1>6. Ledger'
  <2>1. ice_mass \in Int /\ InTransit + ice_mass = fallen
    BY DEF Ledger, TypeOK
  <2>2. fallen' = fallen /\ ice_mass' = ice_mass + toice[ice].smb /\ toice[ice].smb \in Int
    BY <1>1
  <2>3. InTransit' + ice_mass' = fallen'
    BY <1>4, <1>5, <2>1, <2>2
  <2> QED
    BY <2>3 DEF Ledger
<1> QED
  BY <1>2, <1>3, <1>6

-------------------------------------------------------------------------------
(* The task *)

\* A step of the task that leaves the models, the forcing and the account alone
\* keeps what the invariant says of them.
LEMMA TaskStep ==
  ASSUME UpdateInv, UNCHANGED <<suiteVars, toice, fallen>>, pc # "idle"
  PROVE  /\ Lockstep' /\ Ledger'
         /\ pc \notin {"load", "append"} \/ pc' = "idle" => Forcing'
<1>1. Lockstep'
  BY DEF UpdateInv, Lockstep, suiteVars
<1>2. Ledger'
  BY DEF UpdateInv, Ledger, InTransit, Due, suiteVars
<1>3. pc \notin {"load", "append"} \/ pc' = "idle" => Forcing'
  BY DEF UpdateInv, Forcing, suiteVars
<1> QED
  BY <1>1, <1>2, <1>3

\* An attempt of the task is submitted.
LEMMA SubmitInv == ASSUME AsInSuite, UpdateInv, Submit PROVE UpdateInv'
<1> USE Ranges DEF UpdateInv, Submit, suiteVars, fileVars
<1>1. TypeOK' /\ Lockstep' /\ Dumps'
  <2>1. TypeOK'
    BY ConstantsAssumption DEF TypeOK
  <2>2. Lockstep' /\ Dumps'
    BY DEF TypeOK, Lockstep, Dumps
  <2> QED
    BY <2>1, <2>2
<1>2. Forcing'
  BY DEF Forcing, TypeOK, ToIce
<1>3. Ledger'
  BY DEF Ledger, InTransit, Due
<1> QED
  BY <1>1, <1>2, <1>3

\* The steps that decide whether to go on, and the two ways out of the task.
LEMMA ControlInv ==
  ASSUME AsInSuite, UpdateInv, LoadInputs \/ Succeed \/ Interrupt
  PROVE  UpdateInv'
<1> USE Ranges DEF UpdateInv, fileVars, LoadInputs, Succeed, Interrupt
<1>1. TypeOK' /\ Dumps'
  BY DEF TypeOK, Dumps, suiteVars
<1>2. pc # "idle" /\ UNCHANGED <<suiteVars, toice, fallen>>
  OBVIOUS
<1>3. Forcing'
  BY <1>2 DEF Forcing, suiteVars
<1>4. Lockstep' /\ Ledger'
  BY <1>2, TaskStep
<1> QED
  BY <1>1, <1>3, <1>4

\* It makes a dump of the climate model's.
LEMMA ResetSnowpackInv == ASSUME AsInSuite, UpdateInv, ResetSnowpack PROVE UpdateInv'
<1> USE Ranges DEF UpdateInv, fileVars, ResetSnowpack
<1>1. toice[climate].smb = pp /\ um_dump = um_input /\ um_dump.pack - SmbIce = Spare
  BY DEF Forcing, Dumps, SmbIce
<1>2. TypeOK' /\ Dumps'
  <2>1. um_dump' \in Dump
    <3>1. um_dump \in Dump /\ Spare \in Int
      BY DEF TypeOK
    <3> QED
      BY <1>1, <3>1, DumpTypes
  <2>2. TypeOK'
    BY <2>1 DEF TypeOK, suiteVars
  <2>3. Dumps'
    BY <1>1 DEF Dumps, suiteVars
  <2> QED
    BY <2>2, <2>3
<1>3. Lockstep' /\ Forcing' /\ Ledger'
  BY TaskStep
<1> QED
  BY <1>2, <1>3

\* Shuffling rewrites the file of forcing, but not the mass balance in it.
LEMMA ShuffleInv == ASSUME AsInSuite, UpdateInv, ShuffleSnow \/ AppendOverflow PROVE UpdateInv'
<1> USE Ranges DEF UpdateInv, suiteVars, ShuffleSnow, AppendOverflow
<1>1. /\ \A y \in 0..Years : y # climate => toice'[y] = toice[y]
      /\ toice'[climate].smb = toice[climate].smb
      /\ toice[climate].state # "absent" /\ toice'[climate].state # "absent"
      /\ pc' # "append" => toice'[climate].state = "whole"
      /\ pc' \in {"append", "write"}
  BY DEF Forcing, TypeOK, ToIce
<1>2. toice' \in [0..Years -> ToIce]
  <2>1. toice \in [0..Years -> ToIce]
    BY DEF TypeOK
  <2>2. \A st \in {"partial", "whole"} : [toice[climate] EXCEPT !.state = st] \in ToIce
    BY <2>1 DEF ToIce
  <2>3. toice' = toice \/ \E st \in {"partial", "whole"} :
          toice' = [toice EXCEPT ![climate] = [toice[climate] EXCEPT !.state = st]]
    OBVIOUS
  <2> QED
    BY <2>1, <2>2, <2>3
<1>3. TypeOK' /\ Dumps' /\ Lockstep'
  BY <1>2 DEF TypeOK, Dumps, Lockstep
<1>4. Forcing'
  BY <1>1 DEF Forcing
<1>5. InTransit' = InTransit
  <2>1. ice < climate => toice'[ice] = toice[ice]
    BY <1>1
  <2> QED
    BY <1>1, <2>1 DEF InTransit, Due, Lockstep
<1>6. Ledger'
  BY <1>5 DEF Ledger
<1> QED
  BY <1>3, <1>4, <1>6

\* It writes it, in part or whole.
LEMMA WriteInv == ASSUME AsInSuite, UpdateInv, OpenTemp \/ FillTemp PROVE UpdateInv'
<1> USE Ranges DEF UpdateInv, fileVars, OpenTemp, FillTemp, SizeOnDisk
<1>1. UNCHANGED <<um_input, um_output, um_dump>>
      /\ \E size \in Sizes \cup {0} : um_temp' = [um_dump EXCEPT !.size = size]
  BY DEF WriteTemp, TempName, AsInSuite
<1>2. um_temp' \in Dump
  <2>1. um_dump \in Dump /\ Sizes \cup {0} \subseteq 0..Full
    BY ConstantsAssumption DEF TypeOK
  <2> QED
    BY <1>1, <2>1, DumpTypes
<1>3. TypeOK'
  BY <1>1, <1>2 DEF TypeOK, suiteVars
<1>4. Dumps'
  BY <1>1 DEF Dumps, WriteTemp, TempName, AsInSuite, suiteVars
<1>5. Lockstep' /\ Forcing' /\ Ledger'
  BY TaskStep
<1> QED
  BY <1>3, <1>4, <1>5

\* It gives it the name the climate model reads.
LEMMA PublishInv == ASSUME AsInSuite, UpdateInv, PublishDump PROVE UpdateInv'
<1> USE Ranges DEF UpdateInv, PublishDump
<1>1. PICK size \in Sizes : um_temp = [um_dump EXCEPT !.size = size]
  BY DEF Dumps
<1>2. um_dump = [year |-> climate, pack |-> Spare, size |-> Full] /\ um_input.size = Full
  BY DEF Dumps
<1>3. um_temp.size = size
  BY <1>1, <1>2
<1>4. SizesAgree => um_temp = [year |-> climate, pack |-> Spare, size |-> Full]
  <2>1. SizesAgree => size = Full
    BY <1>2, <1>3, OnlyWholePasses
  <2> QED
    BY <1>1, <1>2, <2>1
<1>5. UNCHANGED um_input /\ (SizesAgree => um_output' = um_temp /\ um_temp' = NoDump)
  BY DEF WriteTemp, TempDump, TempName, AsInSuite
<1>6. TypeOK'
  <2>1. um_temp' \in Dump /\ um_output' \in Dump
    BY <1>5, DumpTypes DEF TypeOK
  <2> QED
    BY <1>5, <2>1 DEF TypeOK, suiteVars
<1>7. Dumps'
  BY <1>4, <1>5 DEF Dumps, suiteVars
<1>8. Lockstep' /\ Forcing' /\ Ledger'
  BY TaskStep
<1> QED
  BY <1>6, <1>7, <1>8

-------------------------------------------------------------------------------
(* The theorems *)

\* Every step keeps the invariant.
LEMMA StepInv == ASSUME AsInSuite, UpdateInv, [Next]_vars PROVE UpdateInv'
<1>1. CASE UNCHANGED vars
  BY <1>1 DEF vars, suiteVars, fileVars, UpdateInv, TypeOK, Lockstep, Forcing, Dumps, Ledger,
     InTransit, Due
<1>2. CASE Next
  BY <1>2, ClimateYearInv, AtmosToIceInv, IceYearInv, SubmitInv, ControlInv,
     ResetSnowpackInv, ShuffleInv, WriteInv, PublishInv DEF Next, Update
<1> QED
  BY <1>1, <1>2

\* As the suite runs it, the update keeps its invariant: the two models stay
\* within a year of each other and every file is what its name says.
THEOREM UpdateCorrect == AsInSuite => (Spec => []UpdateInv)
<1>1. ASSUME AsInSuite PROVE Spec => []UpdateInv
  <2>1. Init => UpdateInv
    BY <1>1, InitInv
  <2>2. UpdateInv /\ [Next]_vars => UpdateInv'
    BY <1>1, StepInv
  <2> QED
    BY <2>1, <2>2, PTL DEF Spec
<1> QED
  BY <1>1

\* Nothing that falls on the ice is lost or counted twice on its way from the
\* climate model's snowpack to the ice sheet.
THEOREM Carried == AsInSuite => (Spec => []MassCarried)
<1>1. ASSUME UpdateInv PROVE MassCarried
  BY <1>1, Ranges DEF UpdateInv, MassCarried, Dumps, Ledger, InTransit, Due, TypeOK
<1> QED
  BY <1>1, UpdateCorrect, PTL

\* The climate model is never given a dump that is cut short.
THEOREM Whole == AsInSuite => (Spec => []DumpWhole)
<1>1. ASSUME UpdateInv PROVE DumpWhole
  BY <1>1 DEF UpdateInv, DumpWhole, Dumps
<1> QED
  BY <1>1, UpdateCorrect, PTL

\* A pack that outlasts the worst year outlasts any number of them.
THEOREM Lasting == AsInSuite => (Spec => []EnoughSnow)
<1>1. ASSUME UpdateInv PROVE EnoughSnow
  BY <1>1, Ranges DEF UpdateInv, EnoughSnow, Dumps, TypeOK
<1> QED
  BY <1>1, UpdateCorrect, PTL

==============================================================================
