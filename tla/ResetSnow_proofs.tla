---------------------------- MODULE ResetSnow_proofs ----------------------------
(***************************************************************************)
(* Proofs about ResetSnow: the stacks of a dump come apart into arrays and   *)
(* go back together the same way, and the packs of the ice tiles are the     *)
(* standard ones again whatever the dump and its sizes.                      *)
(***************************************************************************)
EXTENDS ResetSnow, Finite_proofs, SequenceTheorems

-------------------------------------------------------------------------------
(* The order of a stack *)

\* Division by a number that is not fixed.
LEMMA DivMod ==
  ASSUME NEW a \in Nat, NEW m \in Nat \ {0}
  PROVE  /\ a \div m \in Nat /\ a % m \in 0..(m - 1)
         /\ a = (m * (a \div m)) + (a % m)
OBVIOUS

LEMMA DivModOf ==
  ASSUME NEW m \in Nat \ {0}, NEW q \in Nat, NEW r \in 0..(m - 1)
  PROVE  (m * q + r) \div m = q /\ (m * q + r) % m = r
OBVIOUS

\* The place of a tile and layer in a stack.
TileIn(i) == ((i - 1) % (2 * nelev)) + 1
PlaceOf(t, l) == 2 * nelev * (l - 1) + t

LEMMA Sizes ==
  /\ nelev \in 1..24 /\ nsmax \in 1..999 /\ 2 * nelev * nsmax \in Nat
  /\ \A stash : Places(stash) = IF stash \in OnTiles THEN 1..(2 * nelev)
                                ELSE 1..(2 * nelev * nsmax)
BY ResetAssumption DEF ResetAssumption, max_number_elevs, Places

LEMMA PlaceIsTileAndLayer ==
  ASSUME NEW i \in 1..(2 * nelev * nsmax)
  PROVE  TileIn(i) \in 1..(2 * nelev) /\ LayerAt(i) \in 1..nsmax /\ i = PlaceOf(TileIn(i), LayerAt(i))
<1> DEFINE m == 2 * nelev
<1>1. m \in Nat \ {0} /\ nsmax \in Nat \ {0} /\ i \in Nat /\ i <= m * nsmax /\ i - 1 \in Nat
  BY Sizes
<1>2. /\ (i - 1) \div m \in Nat /\ (i - 1) % m \in 0..(m - 1)
      /\ i - 1 = (m * ((i - 1) \div m)) + ((i - 1) % m)
  BY <1>1, DivMod
<1> DEFINE q == (i - 1) \div m
           r == (i - 1) % m
<1>3. q \in Nat /\ r \in Nat /\ r <= m - 1 /\ i = m * q + r + 1
  BY <1>1, <1>2
<1>4. TileIn(i) = r + 1 /\ LayerAt(i) = q + 1 /\ PlaceOf(r + 1, q + 1) = m * ((q + 1) - 1) + (r + 1)
  BY DEF TileIn, LayerAt, PlaceOf
<1> HIDE DEF q, r, m
<1>5. q < nsmax
  <2> SUFFICES ASSUME q >= nsmax PROVE FALSE
    BY <1>1, <1>3
  <2>1. m * q >= m * nsmax
    BY <1>1, <1>3
  <2>2. m * q \in Nat /\ m * nsmax \in Nat
    BY <1>1, <1>3
  <2> QED
    BY <1>1, <1>3, <2>1, <2>2
<1>6. (q + 1) - 1 = q /\ m * q \in Nat
  BY <1>1, <1>3
<1>7. r + 1 \in 1..m /\ q + 1 \in 1..nsmax /\ i = m * q + (r + 1)
  BY <1>1, <1>3, <1>5, <1>6
<1> QED
  BY <1>4, <1>6, <1>7 DEF m

LEMMA TileAndLayerIsPlace ==
  ASSUME NEW t \in 1..(2 * nelev), NEW l \in 1..nsmax
  PROVE  /\ PlaceOf(t, l) \in 1..(2 * nelev * nsmax)
         /\ TileIn(PlaceOf(t, l)) = t /\ LayerAt(PlaceOf(t, l)) = l
<1> DEFINE m == 2 * nelev
           q == l - 1
           r == t - 1
<1>1. m \in Nat \ {0} /\ nsmax \in Nat /\ q \in Nat /\ q + 1 <= nsmax /\ r \in 0..(m - 1)
  BY Sizes
<1>2. PlaceOf(t, l) = m * q + t /\ t = r + 1 /\ l = q + 1
  BY <1>1 DEF PlaceOf
<1>3. TileIn(PlaceOf(t, l)) = ((PlaceOf(t, l) - 1) % m) + 1
  BY DEF TileIn
<1>4. LayerAt(PlaceOf(t, l)) = ((PlaceOf(t, l) - 1) \div m) + 1
  BY DEF LayerAt
<1>5. t \in Nat /\ l \in Nat /\ t >= 1 /\ t <= m
  OBVIOUS
<1>a. m * nsmax = 2 * nelev * nsmax
  OBVIOUS
<1> HIDE DEF m, q, r
<1>6. m * q \in Nat /\ m * (q + 1) = m * q + m /\ m * (q + 1) <= m * nsmax /\ m * nsmax \in Nat
  BY <1>1
<1>7. PlaceOf(t, l) - 1 = m * q + r
  BY <1>1, <1>2, <1>5, <1>6
<1>8. (m * q + r) % m = r /\ (m * q + r) \div m = q
  BY <1>1, DivModOf
<1>9. m * q + t \in 1..(m * nsmax)
  BY <1>1, <1>2, <1>5, <1>6
<1> QED
  BY <1>2, <1>3, <1>4, <1>7, <1>8, <1>9, <1>a

\* The tiles of a stack are the elevated tiles, each once, ice before rock.
LEMMA TilesAre ==
  /\ nelev \in 1..24
  /\ IceTiles = 901..(900 + nelev) /\ RockTiles = 926..(925 + nelev)
  /\ \A t \in 1..(2 * nelev) : TileAt(t) = IF t <= nelev THEN 900 + t ELSE 925 - nelev + t
<1>1. nelev \in 1..24
  BY Sizes
<1>2. \A t \in 1..(2 * nelev) : TileAt(t) = IF t <= nelev THEN 900 + t ELSE 925 - nelev + t
  BY <1>1 DEF TileAt, start_tile_id_elev_ice, start_tile_id_elev_rock
<1> QED
  BY <1>1, <1>2 DEF IceTiles, RockTiles, start_tile_id_elev_ice, start_tile_id_elev_rock

LEMMA IceTilesAre ==
  ASSUME NEW p \in IceTiles
  PROVE  p \in Int /\ 901 <= p /\ p <= 900 + nelev
<1>1. IceTiles = start_tile_id_elev_ice..(start_tile_id_elev_ice + nelev - 1)
  BY DEF IceTiles
<1>2. nelev \in Int /\ start_tile_id_elev_ice = 901
  BY Sizes DEF start_tile_id_elev_ice
<1>3. p \in start_tile_id_elev_ice..(start_tile_id_elev_ice + nelev - 1)
  BY <1>1
<1> QED
  BY <1>2, <1>3

LEMMA TileAtIs ==
  ASSUME NEW t \in 1..(2 * nelev)
  PROVE  /\ TileAt(t) \in ElevTiles /\ TileAt(t) \in 901..950
         /\ (TileAt(t) \in IceTiles) <=> (t <= nelev)
         /\ t <= nelev => TileAt(t) = start_tile_id_elev_ice + t - 1
         /\ \A u \in 1..(2 * nelev) : TileAt(t) = TileAt(u) => t = u
<1>1. nelev \in 1..24 /\ IceTiles = 901..(900 + nelev) /\ RockTiles = 926..(925 + nelev)
  BY TilesAre
<1>2. \A u \in 1..(2 * nelev) : TileAt(u) = IF u <= nelev THEN 900 + u ELSE 925 - nelev + u
  BY TilesAre
<1>3. TileAt(t) \in ElevTiles /\ TileAt(t) \in 901..950
  <2>1. nelev \in Int /\ t \in Int /\ 1 <= t /\ t <= 2 * nelev /\ 1 <= nelev /\ nelev <= 24
    BY <1>1
  <2>2. CASE t <= nelev
    <3>1. TileAt(t) = 900 + t
      BY <1>2, <2>2
    <3> QED
      BY <1>1, <2>1, <2>2, <3>1 DEF ElevTiles
  <2>3. CASE ~ (t <= nelev)
    <3>1. TileAt(t) = 925 - nelev + t
      BY <1>2, <2>3
    <3>2. 925 - nelev + t \in 926..(925 + nelev)
      BY <2>1, <2>3
    <3> QED
      BY <1>1, <2>1, <3>1, <3>2 DEF ElevTiles
  <2> QED
    BY <2>2, <2>3
<1>4. (TileAt(t) \in IceTiles) <=> (t <= nelev)
  BY <1>1, <1>2
<1>5. t <= nelev => TileAt(t) = start_tile_id_elev_ice + t - 1
  BY <1>1, <1>2 DEF start_tile_id_elev_ice
<1>6. ASSUME NEW u \in 1..(2 * nelev), TileAt(t) = TileAt(u) PROVE t = u
  BY <1>1, <1>2, <1>6
<1> QED
  BY <1>3, <1>4, <1>5, <1>6

LEMMA ElevTilesAt ==
  /\ \A p \in ElevTiles : \E t \in 1..(2 * nelev) : TileAt(t) = p
  /\ \A p \in IceTiles : \E t \in 1..nelev : TileAt(t) = p
<1>1. nelev \in 1..24
  BY TilesAre
<1>2. \A t \in 1..(2 * nelev) : TileAt(t) = IF t <= nelev THEN 900 + t ELSE 925 - nelev + t
  BY TilesAre
<1>3. IceTiles = 901..(900 + nelev) /\ RockTiles = 926..(925 + nelev)
  BY TilesAre
<1>4. ASSUME NEW p \in ElevTiles PROVE \E t \in 1..(2 * nelev) : TileAt(t) = p
  <2>1. CASE p \in IceTiles
    <3>1. p - 900 \in 1..(2 * nelev) /\ p - 900 <= nelev
      BY <1>1, <1>3, <2>1
    <3>2. TileAt(p - 900) = 900 + (p - 900)
      BY <1>2, <3>1
    <3> QED
      BY <1>1, <1>3, <2>1, <3>1, <3>2
  <2>2. CASE p \in RockTiles
    <3>1. p - 925 + nelev \in 1..(2 * nelev) /\ ~ (p - 925 + nelev <= nelev)
      BY <1>1, <1>3, <2>2
    <3>2. TileAt(p - 925 + nelev) = 925 - nelev + (p - 925 + nelev)
      BY <1>2, <3>1
    <3> QED
      BY <1>1, <1>3, <2>2, <3>1, <3>2
  <2> QED
    BY <2>1, <2>2 DEF ElevTiles
<1>5. ASSUME NEW p \in IceTiles PROVE \E t \in 1..nelev : TileAt(t) = p
  <2>1. p - 900 \in 1..(2 * nelev) /\ p - 900 <= nelev /\ p - 900 \in 1..nelev
    BY <1>1, <1>3
  <2>2. TileAt(p - 900) = 900 + (p - 900)
    BY <1>2, <2>1
  <2> QED
    BY <1>1, <1>3, <2>1, <2>2
<1> QED
  BY <1>4, <1>5

\* A pseudo-level tells the tile, and the layer; no two places of a stack have the same.
LEMMA PslevsTell ==
  ASSUME NEW stash, NEW i \in Places(stash)
  PROVE  /\ PslevAt(stash, i) \in Nat /\ IsElevated(PslevAt(stash, i))
         /\ stash \in OnTiles => i \in 1..(2 * nelev) /\ PslevAt(stash, i) = TileAt(i)
         /\ stash \notin OnTiles =>
              /\ i \in 1..(2 * nelev * nsmax)
              /\ PslevAt(stash, i) % 1000 = LayerAt(i)
              /\ PslevAt(stash, i) \div 1000 = TileAt(TileIn(i))
         /\ \A j \in Places(stash) : PslevAt(stash, i) = PslevAt(stash, j) => i = j
<1>1. CASE stash \in OnTiles
  <2>1. Places(stash) = 1..(2 * nelev)
    BY <1>1, Sizes
  <2>2. \A j \in Places(stash) : PslevAt(stash, j) = TileAt(j)
    BY <1>1 DEF PslevAt
  <2>3. IsElevated(TileAt(i)) /\ TileAt(i) \in Nat
    <3>0. i \in 1..(2 * nelev)
      BY <2>1
    <3>1. TileAt(i) \in 901..950
      BY <3>0, TileAtIs
    <3> QED
      BY <3>1 DEF IsElevated, start_tile_id_elev_ice, start_tile_id_snowlayers
  <2> QED
    BY <1>1, <2>1, <2>2, <2>3, TileAtIs
<1>2. CASE stash \notin OnTiles
  <2>1. Places(stash) = 1..(2 * nelev * nsmax)
    BY <1>2, Sizes
  <2>2. \A j \in Places(stash) : PslevAt(stash, j) = 1000 * TileAt(TileIn(j)) + LayerAt(j)
    BY <1>2 DEF PslevAt, TileIn
  <2>3. \A j \in Places(stash) :
          TileIn(j) \in 1..(2 * nelev) /\ LayerAt(j) \in 1..nsmax /\ j = PlaceOf(TileIn(j), LayerAt(j))
    BY <2>1, PlaceIsTileAndLayer
  <2>4. ASSUME NEW j \in Places(stash)
        PROVE  /\ PslevAt(stash, j) \in Nat /\ IsElevated(PslevAt(stash, j))
               /\ PslevAt(stash, j) % 1000 = LayerAt(j)
               /\ PslevAt(stash, j) \div 1000 = TileAt(TileIn(j))
    <3> DEFINE T == TileAt(TileIn(j))
               L == LayerAt(j)
    <3>0. TileIn(j) \in 1..(2 * nelev)
      BY <2>3
    <3>1. T \in 901..950 /\ L \in 1..999
      <4>1. T \in 901..950
        BY <3>0, TileAtIs
      <4>2. nsmax \in 1..999 /\ L \in 1..nsmax
        BY <2>3, Sizes
      <4> HIDE DEF T, L
      <4>3. L \in 1..999
        BY <4>2
      <4> QED
        BY <4>1, <4>3
    <3>2. PslevAt(stash, j) = 1000 * T + L
      BY <2>2
    <3> HIDE DEF T, L
    <3>3. (1000 * T + L) % 1000 = L /\ (1000 * T + L) \div 1000 = T /\ 1000 * T + L \in Nat
      BY <3>1
    <3>4. IsElevated(1000 * T + L)
      BY <3>1 DEF IsElevated, start_tile_id_elev_ice_snowlayers, start_tile_id_elev_ice
    <3> QED
      BY <3>2, <3>3, <3>4 DEF T, L
  <2>5. ASSUME NEW j \in Places(stash), PslevAt(stash, i) = PslevAt(stash, j) PROVE i = j
    <3>1. LayerAt(i) = LayerAt(j) /\ TileAt(TileIn(i)) = TileAt(TileIn(j))
      BY <2>4, <2>5
    <3>2. TileIn(i) = TileIn(j)
      BY <2>3, <3>1, TileAtIs
    <3>3. i = PlaceOf(TileIn(i), LayerAt(i)) /\ j = PlaceOf(TileIn(j), LayerAt(j))
      BY <2>3
    <3> QED
      BY <3>1, <3>2, <3>3
  <2> QED
    BY <1>2, <2>1, <2>4, <2>5
<1> QED
  BY <1>1, <1>2

-------------------------------------------------------------------------------
(* The stacks of a dump *)

\* A dump with the fields of a layout.
Headed(dump, layout) ==
  /\ DOMAIN dump = DOMAIN layout
  /\ \A k \in DOMAIN layout :
       dump[k] = [stash |-> layout[k].stash, pslev |-> layout[k].pslev, data |-> dump[k].data]

\* Its stacks are those of the layout.
LEMMA HeadsTell ==
  ASSUME NEW layout, NEW dump, Headed(dump, layout), NEW stash
  PROVE  /\ findindex(dump, stash) = findindex(layout, stash)
         /\ ElevIndices(dump, stash) = ElevIndices(layout, stash)
         /\ TilesIn(dump) = TilesIn(layout)
<1>1. /\ DOMAIN dump = DOMAIN layout
      /\ \A k \in DOMAIN layout : dump[k].stash = layout[k].stash /\ dump[k].pslev = layout[k].pslev
  BY DEF Headed
<1>2. findindex(dump, stash) = findindex(layout, stash)
  BY <1>1 DEF findindex
<1>3. findindex(dump, stash) \subseteq DOMAIN layout
  BY <1>2 DEF findindex
<1>4. {k \in findindex(dump, stash) : IsElevated(dump[k].pslev)}
        = {k \in findindex(layout, stash) : IsElevated(layout[k].pslev)}
  BY <1>1, <1>2, <1>3
<1>5. ElevIndices(dump, stash) = ElevIndices(layout, stash)
  BY <1>4, Zenon DEF ElevIndices, select_elev_indices
<1>6. \A k \in DOMAIN layout : TileOf(dump[k]) = TileOf(layout[k])
  BY <1>1 DEF TileOf
<1>7. TilesIn(dump) = TilesIn(layout)
  BY <1>1, <1>6 DEF TilesIn
<1> QED
  BY <1>2, <1>5, <1>7

\* The stack of a quantity has each of its elevated fields in one place.
LEMMA StackIs ==
  ASSUME NEW layout \in Layouts, NEW stash \in OnLayers \cup OnTiles
  PROVE  LET E == ElevIndices(layout, stash)
         IN  /\ DOMAIN E = Places(stash)
             /\ \A i \in Places(stash) :
                  /\ E[i] \in DOMAIN layout /\ layout[E[i]].stash = stash
                  /\ layout[E[i]].pslev = PslevAt(stash, i)
                  /\ \A j \in Places(stash) : E[i] = E[j] => i = j
             /\ \A k \in DOMAIN layout :
                  layout[k].stash = stash /\ IsElevated(layout[k].pslev) =>
                    \E i \in Places(stash) : E[i] = k
<1> DEFINE S == {k \in findindex(layout, stash) : IsElevated(layout[k].pslev)}
           E == ElevIndices(layout, stash)
<1>1. layout \in Seq([stash : STRING, pslev : Nat])
  BY ResetAssumption DEF ResetAssumption
<1>2. DOMAIN layout = 1..Len(layout) /\ Len(layout) \in Nat
  BY <1>1
<1>3. IsFiniteSet(DOMAIN layout) /\ DOMAIN layout \subseteq Int
  BY <1>2, FS_Interval
<1>4. S \in SUBSET DOMAIN layout
  BY DEF findindex
<1>5. S \in SUBSET Int /\ IsFiniteSet(S)
  BY <1>3, <1>4, FS_Subset
<1>6. E = InOrder(S)
  BY DEF ElevIndices, select_elev_indices
<1>7. ElevPslevs(layout, stash) = [i \in Places(stash) |-> PslevAt(stash, i)]
  BY ResetAssumption DEF ResetAssumption
<1>8. ElevPslevs(layout, stash) = [i \in DOMAIN E |-> layout[E[i]].pslev]
  BY DEF ElevPslevs, find_pslevs
<1>9. \A k \in S : k \in DOMAIN layout /\ layout[k].stash = stash
  BY DEF findindex
<1>10. \A k \in DOMAIN layout : layout[k].stash = stash /\ IsElevated(layout[k].pslev) => k \in S
  BY DEF findindex
<1> HIDE DEF S, E
<1>11. DOMAIN E = Places(stash)
  BY <1>7, <1>8
<1>12. \A i \in Places(stash) : layout[E[i]].pslev = PslevAt(stash, i)
  BY <1>7, <1>8, <1>11
<1>13. (\A i \in DOMAIN E : E[i] \in S) /\ \A k \in S : \E i \in DOMAIN E : E[i] = k
  BY <1>5, <1>6, InOrderIs
<1>14. \A i, j \in Places(stash) : E[i] = E[j] => i = j
  BY <1>12, PslevsTell
<1> QED
  BY <1>9, <1>10, <1>11, <1>12, <1>13, <1>14 DEF E

\* Of a quantity on the grid there is a field, and the first is taken.
Single(stash) == stash \in {"snow_amount", "vol_smc_sat"}
First(layout, stash) == Min(findindex(layout, stash))

LEMMA FirstIs ==
  ASSUME NEW layout \in Layouts, NEW stash, Single(stash)
  PROVE  First(layout, stash) \in DOMAIN layout /\ layout[First(layout, stash)].stash = stash
<1> DEFINE S == findindex(layout, stash)
<1>1. layout \in Seq([stash : STRING, pslev : Nat]) /\ S # {}
  BY ResetAssumption DEF ResetAssumption, Single
<1>2. DOMAIN layout = 1..Len(layout) /\ Len(layout) \in Nat
  BY <1>1
<1>3. S \in SUBSET DOMAIN layout
  BY DEF findindex
<1>4. IsFiniteSet(S) /\ S \in SUBSET Int
  <2> HIDE DEF S
  <2>1. IsFiniteSet(DOMAIN layout) /\ DOMAIN layout \subseteq Int
    BY <1>2, FS_Interval
  <2> QED
    BY <1>3, <2>1, FS_Subset
<1>5. Min(S) \in S
  BY <1>1, <1>4, MinIs
<1> QED
  BY <1>5 DEF First, findindex

\* The places of its elevated fields, of which there is one array.
Stack(stash) == stash \in OnLayers \cup OnTiles

LEMMA TakenFromStack ==
  ASSUME NEW layout \in Layouts, NEW dump, Headed(dump, layout), NEW stash, Stack(stash)
  PROVE  um_to_np_3d(dump, stash)
           = [i \in Places(stash) |-> dump[ElevIndices(layout, stash)[i]].data]
<1>1. ElevIndices(dump, stash) = ElevIndices(layout, stash)
  BY HeadsTell
<1>2. DOMAIN ElevIndices(layout, stash) = Places(stash)
  BY StackIs DEF Stack
<1> QED
  BY <1>1, <1>2 DEF um_to_np_3d, get_data3d

LEMMA LevelsOfStack ==
  ASSUME NEW layout \in Layouts, NEW dump, Headed(dump, layout), NEW stash, Stack(stash)
  PROVE  ElevPslevs(dump, stash) = [i \in Places(stash) |-> PslevAt(stash, i)]
<1>1. ElevIndices(dump, stash) = ElevIndices(layout, stash)
  BY HeadsTell
<1>2. \A i \in DOMAIN ElevIndices(layout, stash) :
        /\ ElevIndices(layout, stash)[i] \in DOMAIN layout
        /\ i \in Places(stash)
        /\ layout[ElevIndices(layout, stash)[i]].pslev = PslevAt(stash, i)
  BY StackIs DEF Stack
<1>3. DOMAIN ElevIndices(layout, stash) = Places(stash)
  BY StackIs DEF Stack
<1>4. \A k \in DOMAIN layout : dump[k].pslev = layout[k].pslev
  BY DEF Headed
<1> QED
  BY <1>1, <1>2, <1>3, <1>4 DEF ElevPslevs, find_pslevs

\* The dimensions of a stack of snow layers.
LEMMA LayersOfStack ==
  ASSUME NEW stash \in OnLayers, NEW pslev, pslev = [i \in Places(stash) |-> PslevAt(stash, i)]
  PROVE  /\ Places(stash) = 1..(2 * nelev * nsmax)
         /\ LayerCount(pslev) = nsmax /\ TileCount(pslev) = 2 * nelev
         /\ \A i \in Places(stash) :
              TileIndex(i, pslev) = TileIn(i) /\ Layer(pslev[i]) = LayerAt(i)
<1>1. stash \notin OnTiles
  BY DEF OnLayers, OnTiles, TileTotals
<1>2. Places(stash) = 1..(2 * nelev * nsmax) /\ 2 * nelev * nsmax \in Nat
      /\ nelev \in 1..24 /\ nsmax \in 1..999
  BY <1>1, Sizes
<1>3. ASSUME NEW i \in Places(stash)
      PROVE  Layer(pslev[i]) = LayerAt(i) /\ pslev[i] \in Nat /\ LayerAt(i) \in 1..nsmax
  BY <1>1, <1>2, PslevsTell, PlaceIsTileAndLayer DEF Layer
<1>4. LayerCount(pslev) = nsmax
  <2> DEFINE S == {Layer(pslev[i]) : i \in DOMAIN pslev}
  <2>1. \A k \in S : k \in 1..nsmax
    BY <1>3
  <2>2. PlaceOf(1, nsmax) \in Places(stash) /\ LayerAt(PlaceOf(1, nsmax)) = nsmax
    <3>1. 1 \in 1..(2 * nelev) /\ nsmax \in 1..nsmax
      BY <1>2
    <3> QED
      BY <1>2, <3>1, TileAndLayerIsPlace
  <2>3. nsmax \in S
    <3>1. Layer(pslev[PlaceOf(1, nsmax)]) = nsmax
      BY <1>3, <2>2
    <3> QED
      BY <2>2, <3>1
  <2>4. S \in SUBSET Int /\ \A k \in S : k <= nsmax
    BY <1>2, <2>1
  <2> HIDE DEF S
  <2>5. Max(S) = nsmax
    BY <2>3, <2>4, MaxIs
  <2> QED
    BY <2>5 DEF S, LayerCount
<1>5. TileCount(pslev) = 2 * nelev
  <2>1. pslev \in Seq(Nat)
    <3> DEFINE top == 2 * nelev * nsmax
    <3>1. pslev \in [1..top -> Nat] /\ top \in Nat
      BY <1>2, <1>3
    <3> HIDE DEF top
    <3> QED
      BY <3>1
  <2>2. Len(pslev) = 2 * nelev * nsmax
    <3>1. DOMAIN pslev = 1..Len(pslev) /\ Len(pslev) \in Nat
      BY <2>1, LenProperties
    <3>2. 2 * nelev * nsmax >= 1
      <4>1. 2 * nelev >= 1 /\ nsmax >= 1 /\ 2 * nelev \in Nat /\ nsmax \in Nat
        BY <1>2
      <4> QED
        BY <4>1
    <3> QED
      BY <1>2, <3>1, <3>2
  <2>3. (2 * nelev * nsmax) \div nsmax = 2 * nelev
    <3> DEFINE m == 2 * nelev
    <3>1. m \in Nat /\ nsmax \in Nat \ {0} /\ 0 \in 0..(nsmax - 1)
      BY <1>2
    <3>2. (nsmax * m + 0) \div nsmax = m
      <4> HIDE DEF m
      <4> QED
        BY <3>1, DivModOf
    <3>3. nsmax * m + 0 = 2 * nelev * nsmax
      BY <1>2
    <3> QED
      BY <3>2, <3>3
  <2> QED
    BY <1>4, <2>2, <2>3 DEF TileCount
<1>6. \A i \in Places(stash) : TileIndex(i, pslev) = TileIn(i)
  BY <1>5 DEF TileIndex, TileIn
<1> QED
  BY <1>2, <1>3, <1>4, <1>5, <1>6

LEMMA TakenInLayers ==
  ASSUME NEW layout \in Layouts, NEW dump, Headed(dump, layout), NEW stash \in OnLayers
  PROVE  um_to_np_4d(dump, stash)
           = [t \in 1..(2 * nelev) |-> [l \in 1..nsmax |->
               dump[ElevIndices(layout, stash)[PlaceOf(t, l)]].data]]
<1> DEFINE pslev == ElevPslevs(dump, stash)
           field3d == um_to_np_3d(dump, stash)
           Slices(t, l) == {i \in DOMAIN pslev : TileIndex(i, pslev) = t /\ Layer(pslev[i]) = l}
<1>1. pslev = [i \in Places(stash) |-> PslevAt(stash, i)]
  BY LevelsOfStack DEF Stack
<1>2. field3d = [i \in Places(stash) |-> dump[ElevIndices(layout, stash)[i]].data]
  BY TakenFromStack DEF Stack
<1>3. um_to_np_4d(dump, stash)
        = [t \in 1..TileCount(pslev) |-> [l \in 1..LayerCount(pslev) |->
            IF Slices(t, l) = {} THEN [y \in Rows |-> 0] ELSE field3d[Max(Slices(t, l))]]]
  BY DEF um_to_np_4d
<1>4. DOMAIN pslev = Places(stash)
  BY <1>1
<1> HIDE DEF pslev, field3d
<1>5. /\ Places(stash) = 1..(2 * nelev * nsmax)
      /\ LayerCount(pslev) = nsmax /\ TileCount(pslev) = 2 * nelev
      /\ \A i \in Places(stash) : TileIndex(i, pslev) = TileIn(i) /\ Layer(pslev[i]) = LayerAt(i)
  BY <1>1, LayersOfStack
<1>6. ASSUME NEW t \in 1..(2 * nelev), NEW l \in 1..nsmax
      PROVE  /\ Slices(t, l) # {} /\ Max(Slices(t, l)) = PlaceOf(t, l)
             /\ PlaceOf(t, l) \in Places(stash)
  <2>1. /\ PlaceOf(t, l) \in Places(stash)
        /\ TileIn(PlaceOf(t, l)) = t /\ LayerAt(PlaceOf(t, l)) = l
    BY <1>5, TileAndLayerIsPlace
  <2>2. PlaceOf(t, l) \in Slices(t, l)
    BY <1>4, <1>5, <2>1
  <2>3. ASSUME NEW i \in Slices(t, l) PROVE i = PlaceOf(t, l)
    <3>1. i \in Places(stash) /\ TileIn(i) = t /\ LayerAt(i) = l
      BY <1>4, <1>5
    <3> QED
      BY <1>5, <3>1, PlaceIsTileAndLayer
  <2> DEFINE S == Slices(t, l)
  <2>4. S = {PlaceOf(t, l)}
    BY <2>2, <2>3
  <2>5. PlaceOf(t, l) \in Int
    BY <1>5, <2>1
  <2>6. Max(S) = PlaceOf(t, l)
    <3> HIDE DEF S
    <3>1. S \in SUBSET Int /\ PlaceOf(t, l) \in S /\ \A k \in S : k <= PlaceOf(t, l)
      BY <2>4, <2>5
    <3> QED
      BY <3>1, MaxIs
  <2> QED
    BY <2>1, <2>2, <2>6
<1> HIDE DEF Slices
<1>7. ASSUME NEW t \in 1..(2 * nelev), NEW l \in 1..nsmax
      PROVE  (IF Slices(t, l) = {} THEN [y \in Rows |-> 0] ELSE field3d[Max(Slices(t, l))])
               = dump[ElevIndices(layout, stash)[PlaceOf(t, l)]].data
  BY <1>2, <1>6
<1> QED
  BY <1>3, <1>5, <1>7

\* What is put back at the places of a stack is there, and nothing else changes.
IsPutAt(after, dump, place, slice, n) ==
  /\ \A i \in 1..n : after[place[i]].data = slice[i]
  /\ \A k \in DOMAIN dump : (\A i \in 1..n : place[i] # k) => after[k] = dump[k]

LEMMA PutBack ==
  ASSUME NEW layout, NEW dump, Headed(dump, layout), NEW n \in Nat,
         NEW indices, DOMAIN indices = 1..n,
         \A i \in 1..n : indices[i] \in DOMAIN layout,
         \A i, j \in 1..n : indices[i] = indices[j] => i = j,
         NEW array
  PROVE  /\ Headed(put_data3d(dump, indices, array), layout)
         /\ IsPutAt(put_data3d(dump, indices, array), dump, indices, array, n)
<1> DEFINE after == put_data3d(dump, indices, array)
           at(k) == CHOOSE i \in DOMAIN indices : indices[i] = k
<1>1. DOMAIN after = DOMAIN layout /\ DOMAIN dump = DOMAIN layout
  BY DEF put_data3d, Headed
<1>2. \A k \in DOMAIN layout :
        after[k] = IF \E i \in 1..n : indices[i] = k
                   THEN [dump[k] EXCEPT !.data = array[at(k)]] ELSE dump[k]
  BY <1>1 DEF put_data3d
<1>3. ASSUME NEW i \in 1..n PROVE at(indices[i]) = i
  <2>1. at(indices[i]) \in 1..n /\ indices[at(indices[i])] = indices[i]
    OBVIOUS
  <2> QED
    BY <2>1
<1>4. \A k \in DOMAIN layout :
        dump[k] = [stash |-> layout[k].stash, pslev |-> layout[k].pslev, data |-> dump[k].data]
  BY DEF Headed
<1> HIDE DEF after, at
<1>5. ASSUME NEW k \in DOMAIN layout, NEW d
      PROVE  [dump[k] EXCEPT !.data = d]
               = [stash |-> layout[k].stash, pslev |-> layout[k].pslev, data |-> d]
  <2> DEFINE s == layout[k].stash
             p == layout[k].pslev
             e == dump[k].data
  <2>1. dump[k] = [stash |-> s, pslev |-> p, data |-> e]
    BY <1>4
  <2> HIDE DEF s, p, e
  <2>2. [dump[k] EXCEPT !.data = d] = [stash |-> s, pslev |-> p, data |-> d]
    BY <2>1
  <2> QED
    BY <2>2 DEF s, p
<1>6. \A k \in DOMAIN layout :
        after[k] = [stash |-> layout[k].stash, pslev |-> layout[k].pslev, data |-> after[k].data]
  <2> TAKE k \in DOMAIN layout
  <2>1. CASE \E i \in 1..n : indices[i] = k
    <3> DEFINE d == array[at(k)]
               s == layout[k].stash
               p == layout[k].pslev
    <3>1. after[k] = [stash |-> s, pslev |-> p, data |-> d]
      BY <1>2, <1>5, <2>1
    <3> HIDE DEF d, s, p
    <3>2. after[k] = [stash |-> s, pslev |-> p, data |-> after[k].data]
      BY <3>1
    <3> QED
      BY <3>2 DEF s, p
  <2>2. CASE ~ \E i \in 1..n : indices[i] = k
    BY <1>2, <1>4, <2>2
  <2> QED
    BY <2>1, <2>2
<1>7. Headed(after, layout)
  BY <1>1, <1>6, Zenon DEF Headed
<1>8. \A i \in 1..n : after[indices[i]].data = array[i]
  <2> TAKE i \in 1..n
  <2>1. indices[i] \in DOMAIN layout
    OBVIOUS
  <2>2. after[indices[i]] = [dump[indices[i]] EXCEPT !.data = array[at(indices[i])]]
    BY <1>2, <2>1
  <2>3. after[indices[i]] = [stash |-> layout[indices[i]].stash, pslev |-> layout[indices[i]].pslev,
                             data |-> array[i]]
    BY <1>3, <1>5, <2>1, <2>2
  <2> QED
    BY <2>3
<1>9. \A k \in DOMAIN dump : (\A i \in 1..n : indices[i] # k) => after[k] = dump[k]
  BY <1>1, <1>2
<1> QED
  BY <1>7, <1>8, <1>9 DEF IsPutAt, after

LEMMA PutBackField ==
  ASSUME NEW layout \in Layouts, NEW dump, Headed(dump, layout), NEW stash, Single(stash), NEW array
  PROVE  /\ Headed(np_to_um_2d(dump, stash, array), layout)
         /\ np_to_um_2d(dump, stash, array)[First(layout, stash)].data = array
         /\ \A k \in DOMAIN layout : k # First(layout, stash) =>
              np_to_um_2d(dump, stash, array)[k] = dump[k]
<1> DEFINE indices == <<First(layout, stash)>>
           slices == <<array>>
           after == put_data3d(dump, indices, slices)
<1>1. np_to_um_2d(dump, stash, array) = after
  BY HeadsTell DEF np_to_um_2d, First
<1>2. DOMAIN indices = 1..1 /\ indices[1] = First(layout, stash) /\ slices[1] = array
  OBVIOUS
<1>3. \A i \in 1..1 : i = 1
  OBVIOUS
<1>4. /\ \A i \in 1..1 : indices[i] \in DOMAIN layout
      /\ \A i, j \in 1..1 : indices[i] = indices[j] => i = j
  <2> HIDE DEF indices
  <2> QED
    BY <1>2, <1>3, FirstIs
<1> HIDE DEF indices, slices
<1>5. Headed(after, layout) /\ IsPutAt(after, dump, indices, slices, 1)
  BY <1>2, <1>4, PutBack
<1>6. DOMAIN dump = DOMAIN layout /\ 1 \in 1..1
  BY DEF Headed
<1> QED
  BY <1>1, <1>2, <1>3, <1>5, <1>6 DEF IsPutAt

LEMMA PutBackStack ==
  ASSUME NEW layout \in Layouts, NEW dump, Headed(dump, layout), NEW stash, Stack(stash), NEW slices
  PROVE  LET after == put_data3d(dump, ElevIndices(dump, stash), slices)
         IN  /\ Headed(after, layout)
             /\ \A i \in Places(stash) : after[ElevIndices(layout, stash)[i]].data = slices[i]
             /\ \A k \in DOMAIN layout :
                  (\A i \in Places(stash) : ElevIndices(layout, stash)[i] # k) => after[k] = dump[k]
<1> DEFINE E == ElevIndices(layout, stash)
           after == put_data3d(dump, E, slices)
<1>1. ElevIndices(dump, stash) = E
  BY HeadsTell
<1>2. PICK n \in Nat : Places(stash) = 1..n
  BY Sizes
<1>3. /\ DOMAIN E = 1..n
      /\ \A i \in 1..n : E[i] \in DOMAIN layout
      /\ \A i, j \in 1..n : E[i] = E[j] => i = j
  BY <1>2, StackIs DEF Stack
<1> HIDE DEF E
<1>4. Headed(after, layout) /\ IsPutAt(after, dump, E, slices, n)
  BY <1>3, PutBack
<1>5. DOMAIN dump = DOMAIN layout
  BY DEF Headed
<1> QED
  BY <1>1, <1>2, <1>4, <1>5 DEF E, IsPutAt

LEMMA PutBackLayers ==
  ASSUME NEW layout \in Layouts, NEW dump, Headed(dump, layout), NEW stash \in OnLayers, NEW field4d
  PROVE  LET after == np_to_um_4d(dump, stash, field4d)
         IN  /\ Headed(after, layout)
             /\ \A i \in Places(stash) :
                  after[ElevIndices(layout, stash)[i]].data = field4d[TileIn(i)][LayerAt(i)]
             /\ \A k \in DOMAIN layout :
                  (\A i \in Places(stash) : ElevIndices(layout, stash)[i] # k) => after[k] = dump[k]
<1> DEFINE pslev == ElevPslevs(dump, stash)
           slices == [i \in DOMAIN pslev |-> field4d[TileIndex(i, pslev)][Layer(pslev[i])]]
<1>1. np_to_um_4d(dump, stash, field4d) = put_data3d(dump, ElevIndices(dump, stash), slices)
  BY DEF np_to_um_4d
<1>2. pslev = [i \in Places(stash) |-> PslevAt(stash, i)]
  BY LevelsOfStack DEF Stack
<1>3. \A i \in Places(stash) : TileIndex(i, pslev) = TileIn(i) /\ Layer(pslev[i]) = LayerAt(i)
  <2> HIDE DEF pslev
  <2> QED
    BY <1>2, LayersOfStack
<1>4. \A i \in Places(stash) : slices[i] = field4d[TileIn(i)][LayerAt(i)]
  BY <1>2, <1>3
<1> HIDE DEF pslev, slices
<1> QED
  BY <1>1, <1>4, PutBackStack DEF Stack

-------------------------------------------------------------------------------
(* The task's arrays as functions of the dump and of the mass balance *)

IceRows(dump) == {y \in Rows : IsIce(dump, y)}
In(a, t, y) == t \in 1..a.n /\ y \in a.ice
LessIn(a, b) ==
  [t \in DOMAIN b |-> [y \in Rows |-> IF In(a, t, y) THEN b[t][y] - a.smb[t][y] ELSE b[t][y]]]
Quotient(a, b, m, d) ==
  [t \in DOMAIN b |-> [y \in Rows |-> IF In(a, t, y) THEN <<m[t][y], d[t][y]>> ELSE b[t][y]]]
Mean(a, y) == Total([t \in 1..a.nt |-> a.mass[t][y] * a.frac[t][y]], 1..a.nt)

Read(dump, smb) ==
  [is |-> "arrays", n |-> Elevs(ElevPslevs(dump, "nsnow_layrs_tiles")),
   nt |-> Len(ElevPslevs(dump, "nsnow_layrs_tiles")), ice |-> IceRows(dump),
   smb |-> SmbIce(smb),
   frac |-> um_to_np_3d(dump, "frac_surf_type"),
   gbm |-> um_to_np_2d(dump, "snow_amount"),
   mass |-> um_to_np_3d(dump, "snow_tile"),
   dep |-> um_to_np_3d(dump, "snowdep_grd_tile"),
   rho |-> um_to_np_3d(dump, "snowpack_bk_dens"),
   layer_mass |-> um_to_np_4d(dump, "snow_ice_tile"),
   layer_dep |-> um_to_np_4d(dump, "snow_laythk_tiles"),
   layer_den |-> um_to_np_4d(dump, "snow_laydns_tiles")]

LayersReset(a) ==
  LET m == LessIn(a, Bottom(a.layer_mass))
      d == LessIn(a, Bottom(a.layer_dep))
  IN [a EXCEPT !.layer_mass = WithBottom(@, m), !.layer_dep = WithBottom(@, d),
               !.layer_den = WithBottom(@, Quotient(a, Bottom(@), m, d))]
TilesReset(a) ==
  LET m == LessIn(a, a.mass)
      d == LessIn(a, a.dep)
  IN [a EXCEPT !.mass = m, !.dep = d, !.rho = Quotient(a, @, m, d)]
MeanReset(a) == [a EXCEPT !.gbm = [y \in Rows |-> IF y \in a.ice THEN Mean(a, y) ELSE @[y]]]
AllReset(dump, smb) == MeanReset(TilesReset(LayersReset(Read(dump, smb))))

Stored(dump, a) ==
  LET d1 == np_to_um_2d(dump, "snow_amount", a.gbm)
      d2 == np_to_um_3d(d1, "snow_tile", a.mass)
      d3 == np_to_um_3d(d2, "snowdep_grd_tile", a.dep)
      d4 == np_to_um_3d(d3, "snowpack_bk_dens", a.rho)
      d5 == np_to_um_4d(d4, "snow_ice_tile", a.layer_mass)
      d6 == np_to_um_4d(d5, "snow_laythk_tiles", a.layer_dep)
  IN np_to_um_4d(d6, "snow_laydns_tiles", a.layer_den)

\* What each stage changes of them.
Names == {"is", "n", "nt", "ice", "smb", "frac", "gbm", "mass", "dep", "rho",
          "layer_mass", "layer_dep", "layer_den"}
Same(a, b, S) == \A f \in S : a[f] = b[f]
LayerNames == {"layer_mass", "layer_dep", "layer_den"}
TileNames == {"mass", "dep", "rho"}

LEMMA LayersResetIs ==
  ASSUME NEW a, DOMAIN a = Names
  PROVE  LET b == LayersReset(a)
             m == LessIn(a, Bottom(a.layer_mass))
             d == LessIn(a, Bottom(a.layer_dep))
         IN  /\ DOMAIN b = Names /\ Same(b, a, Names \ LayerNames)
             /\ b.layer_mass = WithBottom(a.layer_mass, m)
             /\ b.layer_dep = WithBottom(a.layer_dep, d)
             /\ b.layer_den = WithBottom(a.layer_den, Quotient(a, Bottom(a.layer_den), m, d))
<1> DEFINE x == WithBottom(a.layer_mass, LessIn(a, Bottom(a.layer_mass)))
           y == WithBottom(a.layer_dep, LessIn(a, Bottom(a.layer_dep)))
           z == WithBottom(a.layer_den,
                           Quotient(a, Bottom(a.layer_den), LessIn(a, Bottom(a.layer_mass)),
                                    LessIn(a, Bottom(a.layer_dep))))
           b == [a EXCEPT !.layer_mass = x, !.layer_dep = y, !.layer_den = z]
<1>1. LayersReset(a) = b
  BY DEF LayersReset
<1>2. /\ DOMAIN b = Names /\ Same(b, a, Names \ LayerNames)
      /\ b.layer_mass = x /\ b.layer_dep = y /\ b.layer_den = z
  <2> HIDE DEF x, y, z
  <2> QED
    BY DEF Names, Same, LayerNames
<1> HIDE DEF b
<1> QED
  BY <1>1, <1>2, Zenon

LEMMA TilesResetIs ==
  ASSUME NEW a, DOMAIN a = Names
  PROVE  LET b == TilesReset(a)
         IN  /\ DOMAIN b = Names /\ Same(b, a, Names \ TileNames)
             /\ b.mass = LessIn(a, a.mass) /\ b.dep = LessIn(a, a.dep)
             /\ b.rho = Quotient(a, a.rho, LessIn(a, a.mass), LessIn(a, a.dep))
<1> DEFINE x == LessIn(a, a.mass)
           y == LessIn(a, a.dep)
           z == Quotient(a, a.rho, x, y)
           b == [a EXCEPT !.mass = x, !.dep = y, !.rho = z]
<1>1. TilesReset(a) = b
  BY DEF TilesReset
<1>2. /\ DOMAIN b = Names /\ Same(b, a, Names \ TileNames)
      /\ b.mass = x /\ b.dep = y /\ b.rho = z
  <2> HIDE DEF x, y, z
  <2> QED
    BY DEF Names, Same, TileNames
<1> HIDE DEF b
<1> QED
  BY <1>1, <1>2, Zenon

LEMMA MeanResetIs ==
  ASSUME NEW a, DOMAIN a = Names
  PROVE  LET b == MeanReset(a)
         IN  /\ DOMAIN b = Names /\ Same(b, a, Names \ {"gbm"})
             /\ b.gbm = [y \in Rows |-> IF y \in a.ice THEN Mean(a, y) ELSE a.gbm[y]]
<1>1. ASSUME NEW x
      PROVE  LET b == [a EXCEPT !.gbm = x]
             IN  DOMAIN b = Names /\ Same(b, a, Names \ {"gbm"}) /\ b.gbm = x
  BY DEF Names, Same
<1>2. MeanReset(a) =
        [a EXCEPT !.gbm = [y \in Rows |-> IF y \in a.ice THEN Mean(a, y) ELSE a.gbm[y]]]
  BY DEF MeanReset
<1> QED
  BY <1>1, <1>2

\* What the reset as a whole makes of the arrays it read.
LEMMA AllResetIs ==
  ASSUME NEW dump, NEW smb
  PROVE  LET a == Read(dump, smb)
             b == AllReset(dump, smb)
             m == LessIn(a, Bottom(a.layer_mass))
             d == LessIn(a, Bottom(a.layer_dep))
         IN  /\ b.mass = LessIn(a, a.mass) /\ b.dep = LessIn(a, a.dep)
             /\ b.rho = Quotient(a, a.rho, LessIn(a, a.mass), LessIn(a, a.dep))
             /\ b.layer_mass = WithBottom(a.layer_mass, m)
             /\ b.layer_dep = WithBottom(a.layer_dep, d)
             /\ b.layer_den = WithBottom(a.layer_den, Quotient(a, Bottom(a.layer_den), m, d))
             /\ b.gbm = [y \in Rows |->
                           IF y \in a.ice
                           THEN Total([t \in 1..a.nt |-> b.mass[t][y] * a.frac[t][y]], 1..a.nt)
                           ELSE a.gbm[y]]
<1> DEFINE a == Read(dump, smb)
           a1 == LayersReset(a)
           a2 == TilesReset(a1)
           b == MeanReset(a2)
<1>1. DOMAIN a = Names
  BY DEF Read, Names
<1>2. b = AllReset(dump, smb)
  BY DEF AllReset
<1> HIDE DEF a
<1>3. /\ DOMAIN a1 = Names /\ Same(a1, a, Names \ LayerNames)
      /\ LET m == LessIn(a, Bottom(a.layer_mass))
             d == LessIn(a, Bottom(a.layer_dep))
         IN  /\ a1.layer_mass = WithBottom(a.layer_mass, m)
             /\ a1.layer_dep = WithBottom(a.layer_dep, d)
             /\ a1.layer_den = WithBottom(a.layer_den, Quotient(a, Bottom(a.layer_den), m, d))
  BY <1>1, LayersResetIs, Zenon
<1> HIDE DEF a1
<1>4. /\ DOMAIN a2 = Names /\ Same(a2, a1, Names \ TileNames)
      /\ a2.mass = LessIn(a1, a1.mass) /\ a2.dep = LessIn(a1, a1.dep)
      /\ a2.rho = Quotient(a1, a1.rho, LessIn(a1, a1.mass), LessIn(a1, a1.dep))
  BY <1>3, TilesResetIs, Zenon
<1> HIDE DEF a2
<1>5. /\ DOMAIN b = Names /\ Same(b, a2, Names \ {"gbm"})
      /\ b.gbm = [y \in Rows |-> IF y \in a2.ice THEN Mean(a2, y) ELSE a2.gbm[y]]
  BY <1>4, MeanResetIs, Zenon
<1> HIDE DEF b
<1>6. /\ a1.n = a.n /\ a1.nt = a.nt /\ a1.ice = a.ice /\ a1.smb = a.smb /\ a1.frac = a.frac
      /\ a1.gbm = a.gbm /\ a1.mass = a.mass /\ a1.dep = a.dep /\ a1.rho = a.rho
  BY <1>3 DEF Same, Names, LayerNames
<1>7. /\ a2.nt = a1.nt /\ a2.ice = a1.ice /\ a2.frac = a1.frac /\ a2.gbm = a1.gbm
      /\ a2.layer_mass = a1.layer_mass /\ a2.layer_dep = a1.layer_dep
      /\ a2.layer_den = a1.layer_den
  BY <1>4 DEF Same, Names, TileNames
<1>8. /\ b.mass = a2.mass /\ b.dep = a2.dep /\ b.rho = a2.rho /\ b.layer_mass = a2.layer_mass
      /\ b.layer_dep = a2.layer_dep /\ b.layer_den = a2.layer_den
  BY <1>5 DEF Same, Names
<1>9. \A x, m, d : LessIn(a1, x) = LessIn(a, x) /\ Quotient(a1, x, m, d) = Quotient(a, x, m, d)
  BY <1>6 DEF LessIn, Quotient, In
<1>10. \A y : Mean(a2, y) = Total([t \in 1..a.nt |-> b.mass[t][y] * a.frac[t][y]], 1..a.nt)
  BY <1>6, <1>7, <1>8 DEF Mean
<1>11. b.gbm = [y \in Rows |->
                  IF y \in a.ice
                  THEN Total([t \in 1..a.nt |-> b.mass[t][y] * a.frac[t][y]], 1..a.nt)
                  ELSE a.gbm[y]]
  BY <1>5, <1>6, <1>7, <1>10
<1>12. b.mass = LessIn(a, a.mass) /\ b.dep = LessIn(a, a.dep)
       /\ b.rho = Quotient(a, a.rho, LessIn(a, a.mass), LessIn(a, a.dep))
  BY <1>4, <1>6, <1>8, <1>9
<1>13. LET m == LessIn(a, Bottom(a.layer_mass))
           d == LessIn(a, Bottom(a.layer_dep))
       IN  /\ b.layer_mass = WithBottom(a.layer_mass, m)
           /\ b.layer_dep = WithBottom(a.layer_dep, d)
           /\ b.layer_den = WithBottom(a.layer_den, Quotient(a, Bottom(a.layer_den), m, d))
  BY <1>3, <1>7, <1>8
<1> QED
  BY <1>2, <1>11, <1>12, <1>13 DEF a

-------------------------------------------------------------------------------
(* The dump with the arrays put back *)

\* After a stack is written its fields have their slices, other fields what they had.
Wrote(after, before, layout, stash, slices) ==
  /\ Headed(after, layout)
  /\ \A i \in Places(stash) : after[ElevIndices(layout, stash)[i]].data = slices[i]
  /\ \A k \in DOMAIN layout :
       layout[k].stash # stash \/ (\A i \in Places(stash) : ElevIndices(layout, stash)[i] # k) =>
         after[k] = before[k]

LEMMA WroteTiles ==
  ASSUME NEW layout \in Layouts, NEW dump, Headed(dump, layout), NEW stash \in OnTiles, NEW array
  PROVE  Wrote(np_to_um_3d(dump, stash, array), dump, layout, stash, array)
<1> DEFINE after == put_data3d(dump, ElevIndices(dump, stash), array)
           E == ElevIndices(layout, stash)
<1>1. /\ Headed(after, layout)
      /\ \A i \in Places(stash) : after[E[i]].data = array[i]
      /\ \A k \in DOMAIN layout : (\A i \in Places(stash) : E[i] # k) => after[k] = dump[k]
  <2>1. Stack(stash)
    BY DEF Stack
  <2> QED
    BY <2>1, PutBackStack
<1>2. \A i \in Places(stash) : layout[E[i]].stash = stash
  BY StackIs
<1>3. after = np_to_um_3d(dump, stash, array)
  BY DEF np_to_um_3d
<1> HIDE DEF after
<1>4. \A k \in DOMAIN layout :
        layout[k].stash # stash \/ (\A i \in Places(stash) : E[i] # k) => after[k] = dump[k]
  BY <1>1, <1>2
<1> QED
  BY <1>1, <1>3, <1>4 DEF Wrote

LayerSlices(stash, field4d) == [i \in Places(stash) |-> field4d[TileIn(i)][LayerAt(i)]]

LEMMA WroteLayers ==
  ASSUME NEW layout \in Layouts, NEW dump, Headed(dump, layout), NEW stash \in OnLayers, NEW field4d
  PROVE  Wrote(np_to_um_4d(dump, stash, field4d), dump, layout, stash, LayerSlices(stash, field4d))
<1> DEFINE after == np_to_um_4d(dump, stash, field4d)
           E == ElevIndices(layout, stash)
<1>1. /\ Headed(after, layout)
      /\ \A i \in Places(stash) : after[E[i]].data = field4d[TileIn(i)][LayerAt(i)]
      /\ \A k \in DOMAIN layout : (\A i \in Places(stash) : E[i] # k) => after[k] = dump[k]
  BY PutBackLayers
<1>2. \A i \in Places(stash) : layout[E[i]].stash = stash
  BY StackIs
<1> HIDE DEF after
<1>3. \A k \in DOMAIN layout :
        layout[k].stash # stash \/ (\A i \in Places(stash) : E[i] # k) => after[k] = dump[k]
  BY <1>1, <1>2
<1>4. \A i \in Places(stash) : LayerSlices(stash, field4d)[i] = field4d[TileIn(i)][LayerAt(i)]
  BY DEF LayerSlices
<1> QED
  BY <1>1, <1>3, <1>4 DEF Wrote, after

\* The slices that are written, by stash code.
NewSlices(a, stash) ==
  CASE stash = "snow_tile" -> a.mass
    [] stash = "snowdep_grd_tile" -> a.dep
    [] stash = "snowpack_bk_dens" -> a.rho
    [] stash = "snow_ice_tile" -> LayerSlices(stash, a.layer_mass)
    [] stash = "snow_laythk_tiles" -> LayerSlices(stash, a.layer_dep)
    [] stash = "snow_laydns_tiles" -> LayerSlices(stash, a.layer_den)
Written == TileTotals \cup OnLayers

LEMMA StoredIs ==
  ASSUME NEW layout \in Layouts, NEW dump, Headed(dump, layout), NEW a
  PROVE  LET e == Stored(dump, a)
         IN  /\ Headed(e, layout)
             /\ e[First(layout, "snow_amount")].data = a.gbm
             /\ \A stash \in Written : \A i \in Places(stash) :
                  e[ElevIndices(layout, stash)[i]].data = NewSlices(a, stash)[i]
             /\ \A k \in DOMAIN layout :
                  /\ k # First(layout, "snow_amount")
                  /\ \A stash \in Written : \A i \in Places(stash) : ElevIndices(layout, stash)[i] # k
                  => e[k] = dump[k]
<1> DEFINE d1 == np_to_um_2d(dump, "snow_amount", a.gbm)
           d2 == np_to_um_3d(d1, "snow_tile", a.mass)
           d3 == np_to_um_3d(d2, "snowdep_grd_tile", a.dep)
           d4 == np_to_um_3d(d3, "snowpack_bk_dens", a.rho)
           d5 == np_to_um_4d(d4, "snow_ice_tile", a.layer_mass)
           d6 == np_to_um_4d(d5, "snow_laythk_tiles", a.layer_dep)
           d7 == np_to_um_4d(d6, "snow_laydns_tiles", a.layer_den)
           k0 == First(layout, "snow_amount")
           E(stash) == ElevIndices(layout, stash)
<1>0. Stored(dump, a) = d7
  BY DEF Stored
<1>1. /\ Headed(d1, layout) /\ d1[k0].data = a.gbm
      /\ \A k \in DOMAIN layout : k # k0 => d1[k] = dump[k]
  <2>1. Single("snow_amount")
    BY DEF Single
  <2> QED
    BY <2>1, PutBackField
<1> HIDE DEF d1
<1>2. Wrote(d2, d1, layout, "snow_tile", a.mass)
  BY <1>1, WroteTiles DEF OnTiles, TileTotals
<1>a. Headed(d2, layout)
  BY <1>2 DEF Wrote
<1> HIDE DEF d2
<1>3. Wrote(d3, d2, layout, "snowdep_grd_tile", a.dep)
  BY <1>a, WroteTiles DEF OnTiles, TileTotals
<1>b. Headed(d3, layout)
  BY <1>3 DEF Wrote
<1> HIDE DEF d3
<1>4. Wrote(d4, d3, layout, "snowpack_bk_dens", a.rho)
  BY <1>b, WroteTiles DEF OnTiles, TileTotals
<1>c. Headed(d4, layout)
  BY <1>4 DEF Wrote
<1> HIDE DEF d4
<1>5. Wrote(d5, d4, layout, "snow_ice_tile", LayerSlices("snow_ice_tile", a.layer_mass))
  BY <1>c, WroteLayers DEF OnLayers
<1>d. Headed(d5, layout)
  BY <1>5 DEF Wrote
<1> HIDE DEF d5
<1>6. Wrote(d6, d5, layout, "snow_laythk_tiles", LayerSlices("snow_laythk_tiles", a.layer_dep))
  BY <1>d, WroteLayers DEF OnLayers
<1>e. Headed(d6, layout)
  BY <1>6 DEF Wrote
<1> HIDE DEF d6
<1>7. Wrote(d7, d6, layout, "snow_laydns_tiles", LayerSlices("snow_laydns_tiles", a.layer_den))
  BY <1>e, WroteLayers DEF OnLayers
<1>f. Headed(d7, layout)
  BY <1>7 DEF Wrote
<1> HIDE DEF d7
<1>8. k0 \in DOMAIN layout /\ layout[k0].stash = "snow_amount"
  BY FirstIs DEF Single
<1>9. ASSUME NEW k \in DOMAIN layout, layout[k].stash \notin Written
      PROVE  d7[k] = d1[k]
  <2>1. /\ layout[k].stash # "snow_tile" /\ layout[k].stash # "snowdep_grd_tile"
        /\ layout[k].stash # "snowpack_bk_dens" /\ layout[k].stash # "snow_ice_tile"
        /\ layout[k].stash # "snow_laythk_tiles" /\ layout[k].stash # "snow_laydns_tiles"
    BY <1>9 DEF Written, TileTotals, OnLayers
  <2> QED
    BY <2>1, <1>2, <1>3, <1>4, <1>5, <1>6, <1>7 DEF Wrote
<1>10. ASSUME NEW stash \in Written, NEW i \in Places(stash)
       PROVE  d7[E(stash)[i]].data = NewSlices(a, stash)[i]
  <2>1. E(stash)[i] \in DOMAIN layout /\ layout[E(stash)[i]].stash = stash
    BY StackIs DEF Written, OnTiles
  <2>2. CASE stash = "snow_tile"
    BY <2>1, <2>2, <1>2, <1>3, <1>4, <1>5, <1>6, <1>7 DEF Wrote, NewSlices
  <2>3. CASE stash = "snowdep_grd_tile"
    BY <2>1, <2>3, <1>3, <1>4, <1>5, <1>6, <1>7 DEF Wrote, NewSlices
  <2>4. CASE stash = "snowpack_bk_dens"
    BY <2>1, <2>4, <1>4, <1>5, <1>6, <1>7 DEF Wrote, NewSlices
  <2>5. CASE stash = "snow_ice_tile"
    BY <2>1, <2>5, <1>5, <1>6, <1>7 DEF Wrote, NewSlices
  <2>6. CASE stash = "snow_laythk_tiles"
    BY <2>1, <2>6, <1>6, <1>7 DEF Wrote, NewSlices
  <2>7. CASE stash = "snow_laydns_tiles"
    BY <2>1, <2>7, <1>7 DEF Wrote, NewSlices
  <2> QED
    BY <2>2, <2>3, <2>4, <2>5, <2>6, <2>7 DEF Written, TileTotals, OnLayers
<1>11. ASSUME NEW k \in DOMAIN layout, k # k0,
              \A stash \in Written : \A i \in Places(stash) : E(stash)[i] # k
       PROVE  d7[k] = dump[k]
  <2>1. /\ {"snow_tile", "snowdep_grd_tile", "snowpack_bk_dens"} \subseteq Written
        /\ {"snow_ice_tile", "snow_laythk_tiles", "snow_laydns_tiles"} \subseteq Written
    BY DEF Written, TileTotals, OnLayers
  <2>2. d2[k] = d1[k] /\ d3[k] = d2[k] /\ d4[k] = d3[k]
    BY <1>2, <1>3, <1>4, <1>11, <2>1 DEF Wrote
  <2>3. d5[k] = d4[k] /\ d6[k] = d5[k] /\ d7[k] = d6[k]
    BY <1>5, <1>6, <1>7, <1>11, <2>1 DEF Wrote
  <2> QED
    BY <1>1, <1>11, <2>2, <2>3
<1>12. d7[k0].data = a.gbm
  <2>1. layout[k0].stash \notin Written
    BY <1>8 DEF Written, TileTotals, OnLayers
  <2> QED
    BY <1>1, <1>8, <1>9, <2>1
<1> QED
  BY <1>0, <1>f, <1>10, <1>11, <1>12

-------------------------------------------------------------------------------
(* A year's dump and the arrays made of it *)

\* A dump the climate model makes, the mass balance of the year in its packs.
Came(dump, smb, layout, ice, fracs, gain) ==
  /\ layout \in Layouts /\ ice \subseteq Rows /\ ice # {}
  /\ fracs \in [ElevTiles -> Int] /\ gain \in [TilesIn(layout) -> [Rows -> Int]]
  /\ smb \in [1..nelev -> [Rows -> Int]]
  /\ dump = DumpOf(layout, ice, fracs, gain)
  /\ \A t \in 1..nelev : \A y \in ice : gain[TileAt(t)][y] = smb[t][y] * coupling_period

LEMMA DumpIs ==
  ASSUME NEW layout \in Layouts, NEW ice, NEW fracs, NEW gain, ice \subseteq Rows
  PROVE  LET dump == DumpOf(layout, ice, fracs, gain)
         IN  /\ Headed(dump, layout)
             /\ \A k \in DOMAIN layout : \A y \in Rows :
                  dump[k].data[y] = ValueOf(layout[k], y, ice, fracs, gain)
             /\ IceRows(dump) = ice
<1> DEFINE dump == DumpOf(layout, ice, fracs, gain)
           k0 == First(layout, "vol_smc_sat")
<1>1. /\ DOMAIN dump = DOMAIN layout
      /\ \A k \in DOMAIN layout :
           dump[k] = [stash |-> layout[k].stash, pslev |-> layout[k].pslev,
                      data |-> [y \in Rows |-> ValueOf(layout[k], y, ice, fracs, gain)]]
  BY DEF DumpOf
<1> HIDE DEF dump
<1>2. \A k \in DOMAIN layout :
        dump[k].data = [y \in Rows |-> ValueOf(layout[k], y, ice, fracs, gain)]
  BY <1>1
<1>3. Headed(dump, layout)
  <2>1. \A k \in DOMAIN layout :
          dump[k] = [stash |-> layout[k].stash, pslev |-> layout[k].pslev, data |-> dump[k].data]
    BY <1>1, <1>2
  <2> QED
    BY <1>1, <2>1, Zenon DEF Headed
<1>4. k0 \in DOMAIN layout /\ layout[k0].stash = "vol_smc_sat"
  BY FirstIs DEF Single
<1>5. um_to_np_2d(dump, "vol_smc_sat") = dump[k0].data
  BY <1>3, HeadsTell DEF um_to_np_2d, First
<1> HIDE DEF k0
<1>6. \A y \in Rows : dump[k0].data[y] = IF y \in ice THEN 0 ELSE 1
  <2> TAKE y \in Rows
  <2>1. dump[k0].data[y] = ValueOf(layout[k0], y, ice, fracs, gain)
    BY <1>2, <1>4
  <2>2. ValueOf(layout[k0], y, ice, fracs, gain) = IF y \in ice THEN 0 ELSE 1
    BY <1>4 DEF ValueOf
  <2> QED
    BY <2>1, <2>2
<1>7. IceRows(dump) = ice
  BY <1>5, <1>6 DEF IceRows, IsIce
<1> QED
  BY <1>2, <1>3, <1>7 DEF dump

\* The tile and layer of a field in its place.
LEMMA TileInPlace ==
  ASSUME NEW layout \in Layouts
  PROVE  /\ \A stash \in OnTiles : \A t \in 1..(2 * nelev) :
              LET f == layout[ElevIndices(layout, stash)[t]]
              IN  /\ ElevIndices(layout, stash)[t] \in DOMAIN layout /\ t \in Places(stash)
                  /\ f.stash = stash /\ f.pslev = TileAt(t) /\ TileOf(f) = TileAt(t)
                  /\ TileAt(t) \in TilesIn(layout)
         /\ \A stash \in OnLayers : \A t \in 1..(2 * nelev) : \A l \in 1..nsmax :
              LET f == layout[ElevIndices(layout, stash)[PlaceOf(t, l)]]
              IN  /\ ElevIndices(layout, stash)[PlaceOf(t, l)] \in DOMAIN layout
                  /\ PlaceOf(t, l) \in Places(stash)
                  /\ f.stash = stash /\ Layer(f.pslev) = l /\ TileOf(f) = TileAt(t)
                  /\ TileAt(t) \in TilesIn(layout)
<1>1. ASSUME NEW stash \in OnTiles, NEW t \in 1..(2 * nelev)
      PROVE  LET f == layout[ElevIndices(layout, stash)[t]]
             IN  /\ ElevIndices(layout, stash)[t] \in DOMAIN layout /\ t \in Places(stash)
                 /\ f.stash = stash /\ f.pslev = TileAt(t) /\ TileOf(f) = TileAt(t)
                 /\ TileAt(t) \in TilesIn(layout)
  <2> DEFINE k == ElevIndices(layout, stash)[t]
  <2>1. t \in Places(stash)
    BY Sizes
  <2>2. k \in DOMAIN layout /\ layout[k].stash = stash /\ layout[k].pslev = PslevAt(stash, t)
    BY <2>1, StackIs
  <2>3. PslevAt(stash, t) = TileAt(t)
    BY DEF PslevAt
  <2> HIDE DEF k
  <2>4. TileOf(layout[k]) = TileAt(t)
    BY <2>2, <2>3 DEF TileOf, OnTiles, TileTotals, OnLayers
  <2> QED
    BY <2>1, <2>2, <2>3, <2>4 DEF k, TilesIn
<1>2. ASSUME NEW stash \in OnLayers, NEW t \in 1..(2 * nelev), NEW l \in 1..nsmax
      PROVE  LET f == layout[ElevIndices(layout, stash)[PlaceOf(t, l)]]
             IN  /\ ElevIndices(layout, stash)[PlaceOf(t, l)] \in DOMAIN layout
                 /\ PlaceOf(t, l) \in Places(stash)
                 /\ f.stash = stash /\ Layer(f.pslev) = l /\ TileOf(f) = TileAt(t)
                 /\ TileAt(t) \in TilesIn(layout)
  <2> DEFINE i == PlaceOf(t, l)
             k == ElevIndices(layout, stash)[i]
  <2>0. stash \notin OnTiles
    BY DEF OnTiles, TileTotals, OnLayers
  <2>1. i \in 1..(2 * nelev * nsmax) /\ TileIn(i) = t /\ LayerAt(i) = l
    BY TileAndLayerIsPlace
  <2>2. i \in Places(stash)
    BY <2>0, <2>1, Sizes
  <2> HIDE DEF i
  <2>3. k \in DOMAIN layout /\ layout[k].stash = stash /\ layout[k].pslev = PslevAt(stash, i)
    BY <2>2, StackIs
  <2>4. PslevAt(stash, i) % 1000 = l /\ PslevAt(stash, i) \div 1000 = TileAt(t)
    BY <2>0, <2>1, <2>2, PslevsTell
  <2> HIDE DEF k
  <2>5. TileOf(layout[k]) = TileAt(t) /\ Layer(layout[k].pslev) = l
    BY <2>3, <2>4 DEF TileOf, Layer
  <2> QED
    BY <2>2, <2>3, <2>5 DEF i, k, TilesIn
<1> QED
  BY <1>1, <1>2

\* Snow on an ice tile is in a place of its stack that is an ice tile's.
Snow(f) == f.stash \in Written /\ TileOf(f) \in IceTiles

LEMMA SnowHasPlace ==
  ASSUME NEW layout \in Layouts, NEW k \in DOMAIN layout, Snow(layout[k])
  PROVE  \E i \in Places(layout[k].stash) : ElevIndices(layout, layout[k].stash)[i] = k
<1>1. layout \in Seq([stash : STRING, pslev : Nat])
  BY ResetAssumption DEF ResetAssumption
<1>2. layout[k].pslev \in Nat
  <2>1. layout[k] \in [stash : STRING, pslev : Nat]
    <3> DEFINE F == [stash : STRING, pslev : Nat]
    <3> HIDE DEF F
    <3>1. layout \in Seq(F) /\ k \in DOMAIN layout
      BY <1>1 DEF F
    <3>2. layout[k] \in F
      BY <3>1
    <3> QED
      BY <3>2 DEF F
  <2> QED
    BY <2>1
<1>3. TileOf(layout[k]) \in 901..925
  <2>1. TileOf(layout[k]) \in IceTiles
    BY DEF Snow
  <2> DEFINE p == TileOf(layout[k])
  <2> HIDE DEF p
  <2>2. p \in IceTiles
    BY <2>1 DEF p
  <2>3. p \in Int /\ 901 <= p /\ p <= 900 + nelev
    BY <2>2, IceTilesAre
  <2>4. nelev \in Int /\ nelev <= 24
    BY Sizes
  <2>5. p \in 901..925
    BY <2>3, <2>4
  <2> QED
    BY <2>5 DEF p
<1>4. IsElevated(layout[k].pslev)
  <2>1. CASE layout[k].stash \in OnLayers
    <3>1. layout[k].pslev \div 1000 \in 901..925
      BY <1>3, <2>1 DEF TileOf
    <3> QED
      BY <1>2, <3>1 DEF IsElevated, start_tile_id_elev_ice_snowlayers, start_tile_id_elev_ice
  <2>2. CASE layout[k].stash \notin OnLayers
    <3>1. layout[k].pslev \in 901..925
      BY <1>3, <2>2 DEF TileOf
    <3> QED
      BY <3>1 DEF IsElevated, start_tile_id_elev_ice, start_tile_id_snowlayers
  <2> QED
    BY <2>1, <2>2
<1> QED
  BY <1>4, StackIs DEF Snow, Written, OnTiles

\* The number of elevations is read off the highest tile.
LEMMA ElevsAre ==
  ASSUME NEW pslev, pslev = [i \in Places("nsnow_layrs_tiles") |-> PslevAt("nsnow_layrs_tiles", i)]
  PROVE  Elevs(pslev) = nelev /\ Len(pslev) = 2 * nelev
<1>1. nelev \in 1..24 /\ Places("nsnow_layrs_tiles") = 1..(2 * nelev)
      /\ pslev = [i \in 1..(2 * nelev) |-> TileAt(i)]
  BY Sizes DEF OnTiles, PslevAt
<1>2. \A i \in 1..(2 * nelev) : TileAt(i) \in Nat /\ TileAt(i) <= 925 + nelev
  <2> TAKE i \in 1..(2 * nelev)
  <2>1. TileAt(i) = IF i <= nelev THEN 900 + i ELSE 925 - nelev + i
    BY TilesAre
  <2> QED
    BY <1>1, <2>1
<1>3. TileAt(2 * nelev) = 925 + nelev /\ 2 * nelev \in 1..(2 * nelev)
  <2>1. 2 * nelev \in 1..(2 * nelev)
    BY <1>1
  <2>2. TileAt(2 * nelev) = IF 2 * nelev <= nelev THEN 900 + 2 * nelev ELSE 925 - nelev + 2 * nelev
    BY <2>1, TilesAre
  <2> QED
    BY <1>1, <2>1, <2>2
<1>4. Max(Range(pslev)) = 925 + nelev
  <2>1. Range(pslev) = {TileAt(i) : i \in 1..(2 * nelev)}
    BY <1>1 DEF Range
  <2> DEFINE S == Range(pslev)
             top == 925 + nelev
  <2>2. S \in SUBSET Int /\ top \in S /\ \A k \in S : k <= top
    BY <1>2, <1>3, <2>1
  <2> HIDE DEF S, top
  <2>3. Max(S) = top
    BY <2>2, MaxIs
  <2> QED
    BY <2>3 DEF S, top
<1>5. (925 + nelev) % 25 = nelev
  BY <1>1
<1>6. Len(pslev) = 2 * nelev
  <2> DEFINE top == 2 * nelev
  <2>1. pslev \in [1..top -> Nat] /\ top \in Nat /\ top >= 1 /\ DOMAIN pslev = 1..top
    BY <1>1, <1>2
  <2> HIDE DEF top
  <2>2. pslev \in Seq(Nat)
    BY <2>1
  <2>3. DOMAIN pslev = 1..Len(pslev) /\ Len(pslev) \in Nat
    BY <2>2, LenProperties
  <2>4. Len(pslev) = top
    BY <2>1, <2>3
  <2> QED
    BY <2>4 DEF top
<1> QED
  BY <1>4, <1>5, <1>6 DEF Elevs, max_number_elevs

\* Its slices by tile, by tile and layer, and what the year brought them.
TileSlices(dump, layout, stash) ==
  [t \in 1..(2 * nelev) |-> dump[ElevIndices(layout, stash)[t]].data]
LayerStack(dump, layout, stash) ==
  [t \in 1..(2 * nelev) |-> [l \in 1..nsmax |->
     dump[ElevIndices(layout, stash)[PlaceOf(t, l)]].data]]
YearsGain(smb) == [t \in 1..nelev |-> [y \in Rows |-> smb[t][y] * coupling_period]]

LEMMA ReadIs ==
  ASSUME NEW dump, NEW smb, NEW layout, NEW ice, NEW fracs, NEW gain,
         Came(dump, smb, layout, ice, fracs, gain)
  PROVE  LET a == Read(dump, smb)
         IN  /\ a.n = nelev /\ a.nt = 2 * nelev /\ a.ice = ice
             /\ a.smb = YearsGain(smb)
             /\ a.frac = TileSlices(dump, layout, "frac_surf_type")
             /\ a.mass = TileSlices(dump, layout, "snow_tile")
             /\ a.dep = TileSlices(dump, layout, "snowdep_grd_tile")
             /\ a.rho = TileSlices(dump, layout, "snowpack_bk_dens")
             /\ a.layer_mass = LayerStack(dump, layout, "snow_ice_tile")
             /\ a.layer_dep = LayerStack(dump, layout, "snow_laythk_tiles")
             /\ a.layer_den = LayerStack(dump, layout, "snow_laydns_tiles")
<1> DEFINE a == Read(dump, smb)
           Tiles(stash) == TileSlices(dump, layout, stash)
           Layers(stash) == LayerStack(dump, layout, stash)
<1>1. /\ layout \in Layouts /\ ice \subseteq Rows /\ smb \in [1..nelev -> [Rows -> Int]]
      /\ dump = DumpOf(layout, ice, fracs, gain)
  BY DEF Came
<1>2. Headed(dump, layout) /\ IceRows(dump) = ice
  BY <1>1, DumpIs
<1>a. layout \in Layouts /\ Headed(dump, layout)
  BY <1>1, <1>2
<1>3. /\ a.n = Elevs(ElevPslevs(dump, "nsnow_layrs_tiles"))
      /\ a.nt = Len(ElevPslevs(dump, "nsnow_layrs_tiles")) /\ a.ice = IceRows(dump)
      /\ a.smb = SmbIce(smb)
      /\ a.frac = um_to_np_3d(dump, "frac_surf_type")
      /\ a.mass = um_to_np_3d(dump, "snow_tile")
      /\ a.dep = um_to_np_3d(dump, "snowdep_grd_tile")
      /\ a.rho = um_to_np_3d(dump, "snowpack_bk_dens")
      /\ a.layer_mass = um_to_np_4d(dump, "snow_ice_tile")
      /\ a.layer_dep = um_to_np_4d(dump, "snow_laythk_tiles")
      /\ a.layer_den = um_to_np_4d(dump, "snow_laydns_tiles")
  BY DEF Read
<1>4. SmbIce(smb) = YearsGain(smb)
  <2>1. ice_to_np(smb, FALSE) = [t \in 1..nelev |-> [y \in Rows |-> smb[t][y]]]
    BY <1>1 DEF ice_to_np
  <2> DEFINE s == ice_to_np(smb, FALSE)
  <2>2. SmbIce(smb) = [t \in DOMAIN s |-> [y \in Rows |-> s[t][y] * coupling_period]]
    BY DEF SmbIce
  <2> HIDE DEF s
  <2>3. DOMAIN s = 1..nelev /\ \A t \in 1..nelev : \A y \in Rows : s[t][y] = smb[t][y]
    BY <2>1 DEF s
  <2> QED
    BY <2>2, <2>3 DEF YearsGain
<1>5. ElevPslevs(dump, "nsnow_layrs_tiles")
        = [i \in Places("nsnow_layrs_tiles") |-> PslevAt("nsnow_layrs_tiles", i)]
  BY <1>1, <1>2, LevelsOfStack DEF Stack, OnTiles
<1>6. Elevs(ElevPslevs(dump, "nsnow_layrs_tiles")) = nelev
      /\ Len(ElevPslevs(dump, "nsnow_layrs_tiles")) = 2 * nelev
  BY <1>5, ElevsAre
<1>7. ASSUME NEW stash \in OnTiles PROVE um_to_np_3d(dump, stash) = Tiles(stash)
  <2> DEFINE slices == um_to_np_3d(dump, stash)
  <2>1. Places(stash) = 1..(2 * nelev)
    BY Sizes
  <2>2. slices = [i \in Places(stash) |-> dump[ElevIndices(layout, stash)[i]].data]
    BY <1>a, TakenFromStack DEF Stack
  <2> HIDE DEF slices
  <2>3. slices = Tiles(stash)
    BY <2>1, <2>2 DEF TileSlices
  <2> QED
    BY <2>3 DEF slices
<1>8. ASSUME NEW stash \in OnLayers PROVE um_to_np_4d(dump, stash) = Layers(stash)
  BY <1>a, TakenInLayers DEF LayerStack
<1>9. /\ {"frac_surf_type", "snow_tile", "snowdep_grd_tile", "snowpack_bk_dens"} \subseteq OnTiles
      /\ {"snow_ice_tile", "snow_laythk_tiles", "snow_laydns_tiles"} \subseteq OnLayers
  BY DEF OnTiles, TileTotals, OnLayers
<1> HIDE DEF a
<1>10. /\ a.n = nelev /\ a.nt = 2 * nelev /\ a.ice = ice
       /\ a.smb = YearsGain(smb)
  BY <1>2, <1>3, <1>4, <1>6
<1>11. /\ a.frac = Tiles("frac_surf_type") /\ a.mass = Tiles("snow_tile")
       /\ a.dep = Tiles("snowdep_grd_tile") /\ a.rho = Tiles("snowpack_bk_dens")
       /\ a.layer_mass = Layers("snow_ice_tile") /\ a.layer_dep = Layers("snow_laythk_tiles")
       /\ a.layer_den = Layers("snow_laydns_tiles")
  BY <1>3, <1>7, <1>8, <1>9
<1> QED
  BY <1>10, <1>11 DEF a

\* A field of a standard pack.
StandardOf(f, y) == ValueOf(f, y, {}, <<>>, [p \in {TileOf(f)} |-> [x \in Rows |-> 0]])

LEMMA StandardIs ==
  ASSUME NEW f, NEW y \in Rows
  PROVE  /\ f.stash = "snow_tile" => StandardOf(f, y) = nsmax * LayerMass
         /\ f.stash = "snowdep_grd_tile" => StandardOf(f, y) = nsmax * LayerDepth
         /\ f.stash = "snowpack_bk_dens" => StandardOf(f, y) = <<nsmax * LayerMass, nsmax * LayerDepth>>
         /\ f.stash = "snow_ice_tile" => StandardOf(f, y) = LayerMass
         /\ f.stash = "snow_laythk_tiles" => StandardOf(f, y) = LayerDepth
         /\ f.stash = "snow_laydns_tiles" => StandardOf(f, y) = <<LayerMass, LayerDepth>>
<1>1. nsmax \in Nat /\ LayerMass \in Nat /\ LayerDepth \in Nat
  BY ResetAssumption DEF ResetAssumption
<1>2. nsmax * LayerMass \in Nat /\ nsmax * LayerDepth \in Nat
  BY <1>1
<1> DEFINE g == [p \in {TileOf(f)} |-> [x \in Rows |-> 0]]
<1>3. g[TileOf(f)][y] = 0
  OBVIOUS
<1> HIDE DEF g
<1>4. StandardOf(f, y) = ValueOf(f, y, {}, <<>>, g)
  BY DEF StandardOf, g
<1> QED
  BY <1>1, <1>2, <1>3, <1>4 DEF ValueOf

\* A field of a pack that has gained something.
LEMMA GainedIs ==
  ASSUME NEW f, NEW y, NEW ice, NEW fracs, NEW gain, NEW g, gain[TileOf(f)][y] = g,
         NEW l, l = Layer(f.pslev)
  PROVE  LET v == ValueOf(f, y, ice, fracs, gain)
             bottom == IF l = nsmax THEN g ELSE 0
         IN  /\ f.stash = "snow_tile" => v = nsmax * LayerMass + g
             /\ f.stash = "snowdep_grd_tile" => v = nsmax * LayerDepth + g
             /\ f.stash = "snow_ice_tile" => v = LayerMass + bottom
             /\ f.stash = "snow_laythk_tiles" => v = LayerDepth + bottom
             /\ f.stash = "snow_laydns_tiles" => v = <<LayerMass + bottom, LayerDepth + bottom>>
BY DEF ValueOf

\* Every slice that is written is of the standard pack on the ice, and as it was elsewhere.
LEMMA NewTilesAre ==
  ASSUME NEW dump, NEW smb, NEW layout, NEW ice, NEW fracs, NEW gain,
         Came(dump, smb, layout, ice, fracs, gain),
         NEW stash \in TileTotals, NEW t \in 1..(2 * nelev), NEW y \in Rows
  PROVE  NewSlices(AllReset(dump, smb), stash)[t][y]
           = LET k == ElevIndices(layout, stash)[t]
             IN IF TileOf(layout[k]) \in IceTiles /\ y \in ice
                THEN StandardOf(layout[k], y) ELSE dump[k].data[y]
<1> DEFINE a == Read(dump, smb)
           b == AllReset(dump, smb)
           E(s) == ElevIndices(layout, s)
           Tiles(s) == TileSlices(dump, layout, s)
           OnIce == t <= nelev /\ y \in ice
           less == a.smb[t][y]
<1>1. /\ layout \in Layouts /\ ice \subseteq Rows /\ smb \in [1..nelev -> [Rows -> Int]]
      /\ dump = DumpOf(layout, ice, fracs, gain)
      /\ \A u \in 1..nelev : \A x \in ice : gain[TileAt(u)][x] = smb[u][x] * coupling_period
  BY DEF Came
<1>2. /\ a.n = nelev /\ a.ice = ice
      /\ a.smb = YearsGain(smb)
      /\ a.mass = Tiles("snow_tile") /\ a.dep = Tiles("snowdep_grd_tile")
      /\ a.rho = Tiles("snowpack_bk_dens")
  BY ReadIs
<1>3. /\ b.mass = LessIn(a, a.mass) /\ b.dep = LessIn(a, a.dep)
      /\ b.rho = Quotient(a, a.rho, LessIn(a, a.mass), LessIn(a, a.dep))
  BY AllResetIs, ZenonT(60)
<1>4. \A k \in DOMAIN layout : \A x \in Rows :
        dump[k].data[x] = ValueOf(layout[k], x, ice, fracs, gain)
  BY <1>1, DumpIs
<1> HIDE DEF a, b
<1>5. nelev \in Nat /\ (t \in 1..nelev <=> t <= nelev)
  BY Sizes
<1>6. /\ b.mass[t][y] = IF OnIce THEN a.mass[t][y] - less ELSE a.mass[t][y]
      /\ b.dep[t][y] = IF OnIce THEN a.dep[t][y] - less ELSE a.dep[t][y]
      /\ b.rho[t][y] = IF OnIce THEN <<a.mass[t][y] - less, a.dep[t][y] - less>> ELSE a.rho[t][y]
  <2>1. DOMAIN a.mass = 1..(2 * nelev) /\ DOMAIN a.dep = 1..(2 * nelev)
        /\ DOMAIN a.rho = 1..(2 * nelev)
    BY <1>2 DEF TileSlices
  <2>2. In(a, t, y) <=> OnIce
    BY <1>2, <1>5 DEF In
  <2>3. \A x : DOMAIN x = 1..(2 * nelev) =>
          LessIn(a, x)[t][y] = IF In(a, t, y) THEN x[t][y] - a.smb[t][y] ELSE x[t][y]
    BY DEF LessIn
  <2>4. \A x, m, d : DOMAIN x = 1..(2 * nelev) =>
          Quotient(a, x, m, d)[t][y] = IF In(a, t, y) THEN <<m[t][y], d[t][y]>> ELSE x[t][y]
    BY DEF Quotient
  <2>5. b.mass[t][y] = IF OnIce THEN a.mass[t][y] - less ELSE a.mass[t][y]
    BY <1>3, <2>1, <2>2, <2>3
  <2>6. b.dep[t][y] = IF OnIce THEN a.dep[t][y] - less ELSE a.dep[t][y]
    BY <1>3, <2>1, <2>2, <2>3
  <2>7. b.rho[t][y]
          = IF OnIce THEN <<LessIn(a, a.mass)[t][y], LessIn(a, a.dep)[t][y]>> ELSE a.rho[t][y]
    BY <1>3, <2>1, <2>2, <2>4
  <2>8. OnIce => LessIn(a, a.mass)[t][y] = a.mass[t][y] - less
                 /\ LessIn(a, a.dep)[t][y] = a.dep[t][y] - less
    BY <2>1, <2>2, <2>3
  <2> HIDE DEF less, OnIce
  <2> QED
    BY <2>5, <2>6, <2>7, <2>8
<1>7. ASSUME NEW s \in TileTotals
      PROVE  /\ E(s)[t] \in DOMAIN layout /\ layout[E(s)[t]].stash = s
             /\ TileOf(layout[E(s)[t]]) = TileAt(t) /\ Tiles(s)[t] = dump[E(s)[t]].data
  BY <1>1, TileInPlace DEF OnTiles, TileSlices
<1>8. (TileAt(t) \in IceTiles) <=> (t <= nelev)
  BY TileAtIs
<1>9. {"snow_tile", "snowdep_grd_tile", "snowpack_bk_dens"} \subseteq TileTotals
  BY DEF TileTotals
<1>10. ASSUME OnIce
       PROVE  /\ a.mass[t][y] - less = nsmax * LayerMass
              /\ a.dep[t][y] - less = nsmax * LayerDepth
  <2>1. less = smb[t][y] * coupling_period /\ gain[TileAt(t)][y] = smb[t][y] * coupling_period
        /\ less \in Int
    <3>1. t \in 1..nelev /\ y \in ice /\ y \in Rows
      BY <1>1, <1>5, <1>10
    <3>2. smb[t][y] \in Int
      BY <1>1, <3>1
    <3>c. coupling_period \in Int
      BY ResetAssumption DEF ResetAssumption
    <3>3. smb[t][y] * coupling_period \in Int
      BY <3>2, <3>c
    <3>4. less = smb[t][y] * coupling_period
      BY <1>2, <3>1 DEF YearsGain
    <3>5. gain[TileAt(t)][y] = smb[t][y] * coupling_period
      BY <1>1, <3>1
    <3> HIDE DEF less
    <3> QED
      BY <3>3, <3>4, <3>5
  <2>2. nsmax * LayerMass \in Int /\ nsmax * LayerDepth \in Int
    BY ResetAssumption DEF ResetAssumption
  <2>3. a.mass[t][y] = nsmax * LayerMass + less
    <3> DEFINE k == E("snow_tile")[t]
    <3>1. /\ k \in DOMAIN layout /\ layout[k].stash = "snow_tile" /\ TileOf(layout[k]) = TileAt(t)
          /\ a.mass[t][y] = dump[k].data[y]
      BY <1>2, <1>7, <1>9
    <3> HIDE DEF k
    <3> QED
      BY <1>4, <2>1, <3>1, GainedIs
  <2>4. a.dep[t][y] = nsmax * LayerDepth + less
    <3> DEFINE k == E("snowdep_grd_tile")[t]
    <3>1. /\ k \in DOMAIN layout /\ layout[k].stash = "snowdep_grd_tile"
          /\ TileOf(layout[k]) = TileAt(t) /\ a.dep[t][y] = dump[k].data[y]
      BY <1>2, <1>7, <1>9
    <3> HIDE DEF k
    <3> QED
      BY <1>4, <2>1, <3>1, GainedIs
  <2> HIDE DEF less
  <2> QED
    BY <2>1, <2>2, <2>3, <2>4
<1> DEFINE k == E(stash)[t]
<1>11. k \in DOMAIN layout /\ layout[k].stash = stash /\ TileOf(layout[k]) = TileAt(t)
       /\ Tiles(stash)[t] = dump[k].data
  BY <1>7
<1> HIDE DEF k, less
<1>12. NewSlices(b, stash)[t][y]
         = IF OnIce THEN StandardOf(layout[k], y) ELSE dump[k].data[y]
  <2>1. CASE stash = "snow_tile"
    <3>1. NewSlices(b, stash) = b.mass
      BY <2>1 DEF NewSlices
    <3> QED
      BY <1>2, <1>6, <1>10, <1>11, <2>1, <3>1, StandardIs
  <2>2. CASE stash = "snowdep_grd_tile"
    <3>1. NewSlices(b, stash) = b.dep
      BY <2>2 DEF NewSlices
    <3> QED
      BY <1>2, <1>6, <1>10, <1>11, <2>2, <3>1, StandardIs
  <2>3. CASE stash = "snowpack_bk_dens"
    <3>1. NewSlices(b, stash) = b.rho
      BY <2>3 DEF NewSlices
    <3> QED
      BY <1>2, <1>6, <1>10, <1>11, <2>3, <3>1, StandardIs
  <2> QED
    BY <2>1, <2>2, <2>3 DEF TileTotals
<1> QED
  BY <1>8, <1>11, <1>12 DEF b, k

\* A layer of an array whose bottom layers were replaced.
LEMMA BottomReplaced ==
  ASSUME NEW field, NEW new, DOMAIN field = 1..(2 * nelev),
         \A u \in 1..(2 * nelev) : DOMAIN field[u] = 1..nsmax,
         NEW t \in 1..(2 * nelev), NEW l \in 1..nsmax
  PROVE  WithBottom(field, new)[t][l] = IF l = nsmax THEN new[t] ELSE field[t][l]
BY DEF WithBottom

LEMMA NewLayersAre ==
  ASSUME NEW dump, NEW smb, NEW layout, NEW ice, NEW fracs, NEW gain,
         Came(dump, smb, layout, ice, fracs, gain),
         NEW stash \in OnLayers, NEW t \in 1..(2 * nelev), NEW l \in 1..nsmax, NEW y \in Rows
  PROVE  NewSlices(AllReset(dump, smb), stash)[PlaceOf(t, l)][y]
           = LET k == ElevIndices(layout, stash)[PlaceOf(t, l)]
             IN IF TileOf(layout[k]) \in IceTiles /\ y \in ice
                THEN StandardOf(layout[k], y) ELSE dump[k].data[y]
<1> DEFINE a == Read(dump, smb)
           b == AllReset(dump, smb)
           E(s) == ElevIndices(layout, s)
           Stk(s) == LayerStack(dump, layout, s)
           OnIce == t <= nelev /\ y \in ice
           less == a.smb[t][y]
           m == LessIn(a, Bottom(a.layer_mass))
           d == LessIn(a, Bottom(a.layer_dep))
           r == Quotient(a, Bottom(a.layer_den), m, d)
<1>1. /\ layout \in Layouts /\ ice \subseteq Rows /\ smb \in [1..nelev -> [Rows -> Int]]
      /\ dump = DumpOf(layout, ice, fracs, gain)
      /\ \A u \in 1..nelev : \A x \in ice : gain[TileAt(u)][x] = smb[u][x] * coupling_period
  BY DEF Came
<1>2. /\ a.n = nelev /\ a.ice = ice /\ a.smb = YearsGain(smb)
      /\ a.layer_mass = Stk("snow_ice_tile") /\ a.layer_dep = Stk("snow_laythk_tiles")
      /\ a.layer_den = Stk("snow_laydns_tiles")
  BY ReadIs
<1>3. /\ b.layer_mass = WithBottom(a.layer_mass, m)
      /\ b.layer_dep = WithBottom(a.layer_dep, d)
      /\ b.layer_den = WithBottom(a.layer_den, r)
  BY AllResetIs, ZenonT(60)
<1>4. \A k \in DOMAIN layout : \A x \in Rows :
        dump[k].data[x] = ValueOf(layout[k], x, ice, fracs, gain)
  BY <1>1, DumpIs
<1> HIDE DEF a, b
<1>5. nelev \in Nat /\ (t \in 1..nelev <=> t <= nelev) /\ nsmax \in 1..nsmax
  BY Sizes
<1>6. \A s : /\ DOMAIN Stk(s) = 1..(2 * nelev)
             /\ \A u \in 1..(2 * nelev) : DOMAIN Stk(s)[u] = 1..nsmax
             /\ \A q \in 1..nsmax : Stk(s)[t][q] = dump[E(s)[PlaceOf(t, q)]].data
  BY DEF LayerStack
<1>7. /\ In(a, t, y) <=> OnIce
      /\ \A x : DOMAIN x = 1..(2 * nelev) =>
           LessIn(a, x)[t][y] = IF In(a, t, y) THEN x[t][y] - a.smb[t][y] ELSE x[t][y]
      /\ \A x, p, q : DOMAIN x = 1..(2 * nelev) =>
           Quotient(a, x, p, q)[t][y] = IF In(a, t, y) THEN <<p[t][y], q[t][y]>> ELSE x[t][y]
  BY <1>2, <1>5 DEF In, LessIn, Quotient
<1>8. \A x : DOMAIN x = 1..(2 * nelev) =>
        DOMAIN Bottom(x) = 1..(2 * nelev) /\ Bottom(x)[t] = x[t][nsmax]
  BY DEF Bottom
<1> DEFINE om == a.layer_mass[t][nsmax][y]
           od == a.layer_dep[t][nsmax][y]
<1>9. /\ m[t][y] = IF OnIce THEN om - less ELSE om
      /\ d[t][y] = IF OnIce THEN od - less ELSE od
      /\ r[t][y] = IF OnIce THEN <<om - less, od - less>> ELSE a.layer_den[t][nsmax][y]
  <2>1. /\ DOMAIN Bottom(a.layer_mass) = 1..(2 * nelev) /\ DOMAIN Bottom(a.layer_dep) = 1..(2 * nelev)
        /\ DOMAIN Bottom(a.layer_den) = 1..(2 * nelev)
        /\ Bottom(a.layer_mass)[t] = a.layer_mass[t][nsmax]
        /\ Bottom(a.layer_dep)[t] = a.layer_dep[t][nsmax]
        /\ Bottom(a.layer_den)[t] = a.layer_den[t][nsmax]
    BY <1>2, <1>6, <1>8
  <2>2. m[t][y] = IF OnIce THEN om - less ELSE om
    BY <1>7, <2>1
  <2>3. d[t][y] = IF OnIce THEN od - less ELSE od
    BY <1>7, <2>1
  <2>4. r[t][y] = IF OnIce THEN <<m[t][y], d[t][y]>> ELSE a.layer_den[t][nsmax][y]
    <3> HIDE DEF m, d
    <3> QED
      BY <1>7, <2>1
  <2> HIDE DEF m, d, r, om, od, less, OnIce
  <2> QED
    BY <2>2, <2>3, <2>4
<1>10. /\ b.layer_mass[t][l] = IF l = nsmax THEN m[t] ELSE a.layer_mass[t][l]
       /\ b.layer_dep[t][l] = IF l = nsmax THEN d[t] ELSE a.layer_dep[t][l]
       /\ b.layer_den[t][l] = IF l = nsmax THEN r[t] ELSE a.layer_den[t][l]
  <2> HIDE DEF m, d, r
  <2> QED
    BY <1>2, <1>3, <1>6, BottomReplaced
<1>11. ASSUME NEW s \in OnLayers, NEW q \in 1..nsmax
       PROVE  /\ E(s)[PlaceOf(t, q)] \in DOMAIN layout
              /\ layout[E(s)[PlaceOf(t, q)]].stash = s
              /\ Layer(layout[E(s)[PlaceOf(t, q)]].pslev) = q
              /\ TileOf(layout[E(s)[PlaceOf(t, q)]]) = TileAt(t)
  BY <1>1, TileInPlace
<1>12. (TileAt(t) \in IceTiles) <=> (t <= nelev)
  BY TileAtIs
<1>13. /\ "snow_ice_tile" \in OnLayers /\ "snow_laythk_tiles" \in OnLayers
       /\ "snow_laydns_tiles" \in OnLayers
  BY DEF OnLayers
<1>14. OnIce => /\ less = smb[t][y] * coupling_period /\ less \in Int
                /\ gain[TileAt(t)][y] = less
  <2> SUFFICES ASSUME OnIce PROVE /\ less = smb[t][y] * coupling_period /\ less \in Int
                                  /\ gain[TileAt(t)][y] = less
    OBVIOUS
  <2>1. t \in 1..nelev /\ y \in ice
    BY <1>5
  <2>2. smb[t][y] \in Int /\ coupling_period \in Int
    BY <1>1, <2>1, ResetAssumption DEF ResetAssumption
  <2> QED
    BY <1>1, <1>2, <2>1, <2>2 DEF YearsGain
<1>15. LayerMass \in Int /\ LayerDepth \in Int
  BY ResetAssumption DEF ResetAssumption
<1> HIDE DEF m, d, r, less
\* What the layer held: its share of a standard pack, and at the bottom what was gained.
<1>16. ASSUME OnIce, NEW q \in 1..nsmax
       PROVE  /\ a.layer_mass[t][q][y] = LayerMass + (IF q = nsmax THEN less ELSE 0)
              /\ a.layer_dep[t][q][y] = LayerDepth + (IF q = nsmax THEN less ELSE 0)
              /\ a.layer_den[t][q][y]
                   = <<LayerMass + (IF q = nsmax THEN less ELSE 0),
                       LayerDepth + (IF q = nsmax THEN less ELSE 0)>>
  <2>1. gain[TileAt(t)][y] = less
    BY <1>14, <1>16
  <2> DEFINE km == E("snow_ice_tile")[PlaceOf(t, q)]
             kd == E("snow_laythk_tiles")[PlaceOf(t, q)]
             kr == E("snow_laydns_tiles")[PlaceOf(t, q)]
  <2>2. /\ km \in DOMAIN layout /\ layout[km].stash = "snow_ice_tile"
        /\ Layer(layout[km].pslev) = q /\ TileOf(layout[km]) = TileAt(t)
        /\ a.layer_mass[t][q] = dump[km].data
    BY <1>2, <1>6, <1>11, <1>13
  <2>3. /\ kd \in DOMAIN layout /\ layout[kd].stash = "snow_laythk_tiles"
        /\ Layer(layout[kd].pslev) = q /\ TileOf(layout[kd]) = TileAt(t)
        /\ a.layer_dep[t][q] = dump[kd].data
    BY <1>2, <1>6, <1>11, <1>13
  <2>4. /\ kr \in DOMAIN layout /\ layout[kr].stash = "snow_laydns_tiles"
        /\ Layer(layout[kr].pslev) = q /\ TileOf(layout[kr]) = TileAt(t)
        /\ a.layer_den[t][q] = dump[kr].data
    BY <1>2, <1>6, <1>11, <1>13
  <2> HIDE DEF km, kd, kr
  <2>5. a.layer_mass[t][q][y] = LayerMass + (IF q = nsmax THEN less ELSE 0)
    BY <1>4, <2>1, <2>2, GainedIs
  <2>6. a.layer_dep[t][q][y] = LayerDepth + (IF q = nsmax THEN less ELSE 0)
    BY <1>4, <2>1, <2>3, GainedIs
  <2>7. a.layer_den[t][q][y] = <<LayerMass + (IF q = nsmax THEN less ELSE 0),
                                 LayerDepth + (IF q = nsmax THEN less ELSE 0)>>
    BY <1>4, <2>1, <2>4, GainedIs
  <2> QED
    BY <2>5, <2>6, <2>7
<1>17. OnIce => om = LayerMass + less /\ od = LayerDepth + less
  BY <1>5, <1>16
<1>18. /\ b.layer_mass[t][l][y] = IF OnIce THEN LayerMass ELSE a.layer_mass[t][l][y]
       /\ b.layer_dep[t][l][y] = IF OnIce THEN LayerDepth ELSE a.layer_dep[t][l][y]
       /\ b.layer_den[t][l][y] = IF OnIce THEN <<LayerMass, LayerDepth>> ELSE a.layer_den[t][l][y]
  <2>1. CASE l = nsmax
    <3>1. OnIce => om - less = LayerMass /\ od - less = LayerDepth
      BY <1>14, <1>15, <1>17
    <3> HIDE DEF OnIce
    <3> QED
      BY <1>9, <1>10, <2>1, <3>1
  <2>2. CASE l # nsmax
    <3>1. OnIce => /\ a.layer_mass[t][l][y] = LayerMass /\ a.layer_dep[t][l][y] = LayerDepth
                   /\ a.layer_den[t][l][y] = <<LayerMass, LayerDepth>>
      BY <1>15, <1>16, <2>2
    <3> HIDE DEF OnIce
    <3> QED
      BY <1>10, <2>2, <3>1
  <2> QED
    BY <2>1, <2>2
<1> DEFINE k == E(stash)[PlaceOf(t, l)]
<1>19. /\ k \in DOMAIN layout /\ layout[k].stash = stash /\ TileOf(layout[k]) = TileAt(t)
       /\ Stk(stash)[t][l] = dump[k].data
  BY <1>6, <1>11
<1> HIDE DEF k
<1>20. LayerSlices(stash, b.layer_mass)[PlaceOf(t, l)] = b.layer_mass[t][l]
       /\ LayerSlices(stash, b.layer_dep)[PlaceOf(t, l)] = b.layer_dep[t][l]
       /\ LayerSlices(stash, b.layer_den)[PlaceOf(t, l)] = b.layer_den[t][l]
  <2>1. TileIn(PlaceOf(t, l)) = t /\ LayerAt(PlaceOf(t, l)) = l
    BY TileAndLayerIsPlace
  <2>2. PlaceOf(t, l) \in Places(stash)
    BY <1>1, TileInPlace
  <2> QED
    BY <2>1, <2>2 DEF LayerSlices
<1>21. NewSlices(b, stash)[PlaceOf(t, l)][y]
         = IF OnIce THEN StandardOf(layout[k], y) ELSE dump[k].data[y]
  <2>1. CASE stash = "snow_ice_tile"
    <3>1. NewSlices(b, stash) = LayerSlices(stash, b.layer_mass)
      BY <2>1 DEF NewSlices
    <3> HIDE DEF OnIce
    <3> QED
      BY <1>2, <1>18, <1>19, <1>20, <2>1, <3>1, StandardIs
  <2>2. CASE stash = "snow_laythk_tiles"
    <3>1. NewSlices(b, stash) = LayerSlices(stash, b.layer_dep)
      BY <2>2 DEF NewSlices
    <3> HIDE DEF OnIce
    <3> QED
      BY <1>2, <1>18, <1>19, <1>20, <2>2, <3>1, StandardIs
  <2>3. CASE stash = "snow_laydns_tiles"
    <3>1. NewSlices(b, stash) = LayerSlices(stash, b.layer_den)
      BY <2>3 DEF NewSlices
    <3> HIDE DEF OnIce
    <3> QED
      BY <1>2, <1>18, <1>19, <1>20, <2>3, <3>1, StandardIs
  <2> QED
    BY <2>1, <2>2, <2>3 DEF OnLayers
<1> QED
  BY <1>12, <1>19, <1>21 DEF b, k

-------------------------------------------------------------------------------
(* The dump that is left *)

\* Packs on the ice standard, their row's mean that of the tiles, the rest as it was.
IsReset(after, dump, layout, ice) ==
  /\ Headed(after, layout)
  /\ \A k \in DOMAIN layout : \A y \in Rows :
       /\ Snow(layout[k]) /\ y \in ice => after[k].data[y] = StandardOf(layout[k], y)
       /\ \/ y \notin ice
          \/ ~ Snow(layout[k]) /\ layout[k].stash # "snow_amount"
          => after[k].data[y] = dump[k].data[y]
  /\ \A y \in ice :
       after[First(layout, "snow_amount")].data[y]
         = Total([t \in 1..(2 * nelev) |->
                    after[ElevIndices(layout, "snow_tile")[t]].data[y]
                    * after[ElevIndices(layout, "frac_surf_type")[t]].data[y]],
                 1..(2 * nelev))

LEMMA ResetDumpIs ==
  ASSUME NEW dump, NEW smb, NEW layout, NEW ice, NEW fracs, NEW gain,
         Came(dump, smb, layout, ice, fracs, gain)
  PROVE  IsReset(Stored(dump, AllReset(dump, smb)), dump, layout, ice)
<1> DEFINE a == Read(dump, smb)
           b == AllReset(dump, smb)
           after == Stored(dump, b)
           E(s) == ElevIndices(layout, s)
           k0 == First(layout, "snow_amount")
<1>1. layout \in Layouts /\ ice \subseteq Rows /\ dump = DumpOf(layout, ice, fracs, gain)
  BY DEF Came
<1>2. layout \in Layouts /\ Headed(dump, layout)
  BY <1>1, DumpIs
<1>3. /\ Headed(after, layout) /\ after[k0].data = b.gbm
      /\ \A s \in Written : \A i \in Places(s) : after[E(s)[i]].data = NewSlices(b, s)[i]
      /\ \A k \in DOMAIN layout :
           /\ k # k0
           /\ \A s \in Written : \A i \in Places(s) : E(s)[i] # k
           => after[k] = dump[k]
  <2> HIDE DEF b
  <2> QED
    BY <1>2, StoredIs
<1>4. k0 \in DOMAIN layout /\ layout[k0].stash = "snow_amount" /\ a.gbm = dump[k0].data
  <2>1. k0 \in DOMAIN layout /\ layout[k0].stash = "snow_amount"
    BY <1>2, FirstIs DEF Single
  <2>2. um_to_np_2d(dump, "snow_amount") = dump[k0].data
    BY <1>2, HeadsTell DEF um_to_np_2d, First
  <2> QED
    BY <2>1, <2>2 DEF Read
<1>5. b.gbm = [y \in Rows |->
                 IF y \in a.ice
                 THEN Total([t \in 1..a.nt |-> b.mass[t][y] * a.frac[t][y]], 1..a.nt)
                 ELSE a.gbm[y]]
  BY AllResetIs
<1>6. /\ a.nt = 2 * nelev /\ a.ice = ice
      /\ a.frac = TileSlices(dump, layout, "frac_surf_type")
  BY ReadIs
<1> HIDE DEF a, after
<1>7. ASSUME NEW s \in Written, NEW i \in Places(s), NEW y \in Rows
      PROVE  after[E(s)[i]].data[y]
               = IF TileOf(layout[E(s)[i]]) \in IceTiles /\ y \in ice
                 THEN StandardOf(layout[E(s)[i]], y) ELSE dump[E(s)[i]].data[y]
  <2>1. CASE s \in TileTotals
    <3>1. i \in 1..(2 * nelev)
      BY <2>1, Sizes DEF OnTiles
    <3> QED
      BY <1>3, <2>1, <3>1, NewTilesAre
  <2>2. CASE s \in OnLayers
    <3>1. s \notin OnTiles
      BY <2>2 DEF OnLayers, OnTiles, TileTotals
    <3>2. i \in 1..(2 * nelev * nsmax)
      BY <3>1, Sizes
    <3>3. TileIn(i) \in 1..(2 * nelev) /\ LayerAt(i) \in 1..nsmax /\ i = PlaceOf(TileIn(i), LayerAt(i))
      BY <3>2, PlaceIsTileAndLayer
    <3> DEFINE t == TileIn(i)
               l == LayerAt(i)
    <3> HIDE DEF t, l
    <3>4. t \in 1..(2 * nelev) /\ l \in 1..nsmax /\ i = PlaceOf(t, l)
      BY <3>3 DEF t, l
    <3>5. NewSlices(b, s)[PlaceOf(t, l)][y]
            = LET k == E(s)[PlaceOf(t, l)]
              IN IF TileOf(layout[k]) \in IceTiles /\ y \in ice
                 THEN StandardOf(layout[k], y) ELSE dump[k].data[y]
      BY <2>2, <3>4, NewLayersAre
    <3> QED
      BY <1>3, <3>4, <3>5
  <2> QED
    BY <2>1, <2>2 DEF Written
<1> HIDE DEF k0, b
<1>8. ASSUME NEW k \in DOMAIN layout, NEW y \in Rows, Snow(layout[k]), y \in ice
      PROVE  after[k].data[y] = StandardOf(layout[k], y)
  <2>1. layout[k].stash \in Written /\ TileOf(layout[k]) \in IceTiles
    BY <1>8 DEF Snow
  <2>2. PICK i \in Places(layout[k].stash) : E(layout[k].stash)[i] = k
    BY <1>2, <1>8, SnowHasPlace
  <2> QED
    BY <1>7, <1>8, <2>1, <2>2
<1>9. ASSUME NEW k \in DOMAIN layout, NEW y \in Rows,
             y \notin ice \/ (~ Snow(layout[k]) /\ layout[k].stash # "snow_amount")
      PROVE  after[k].data[y] = dump[k].data[y]
  <2>1. CASE k = k0
    <3>1. y \notin ice
      BY <1>4, <1>9, <2>1
    <3>2. b.gbm[y] = a.gbm[y]
      BY <1>5, <1>6, <3>1
    <3>3. after[k].data = b.gbm /\ dump[k].data = a.gbm
      BY <1>3, <1>4, <2>1
    <3> QED
      BY <3>2, <3>3
  <2>2. CASE k # k0 /\ \E s \in Written : \E i \in Places(s) : E(s)[i] = k
    <3>1. PICK s \in Written : \E i \in Places(s) : E(s)[i] = k
      BY <2>2
    <3>2. PICK i \in Places(s) : E(s)[i] = k
      BY <3>1
    <3>3. layout[k].stash = s
      BY <1>2, <3>2, StackIs DEF Written, OnTiles
    <3>4. ~ (TileOf(layout[k]) \in IceTiles /\ y \in ice)
      BY <1>9, <3>3 DEF Snow
    <3> QED
      BY <1>7, <3>2, <3>4
  <2>3. CASE k # k0 /\ ~ \E s \in Written : \E i \in Places(s) : E(s)[i] = k
    BY <1>3, <2>3
  <2> QED
    BY <2>1, <2>2, <2>3
<1>10. ASSUME NEW y \in ice
       PROVE  after[k0].data[y]
                = Total([t \in 1..(2 * nelev) |->
                           after[E("snow_tile")[t]].data[y] * after[E("frac_surf_type")[t]].data[y]],
                        1..(2 * nelev))
  <2>0. y \in Rows
    BY <1>1
  <2>1. after[k0].data[y]
          = Total([t \in 1..(2 * nelev) |-> b.mass[t][y] * a.frac[t][y]], 1..(2 * nelev))
    BY <1>3, <1>5, <1>6, <2>0
  <2>2. ASSUME NEW t \in 1..(2 * nelev)
        PROVE  /\ b.mass[t][y] = after[E("snow_tile")[t]].data[y]
               /\ a.frac[t][y] = after[E("frac_surf_type")[t]].data[y]
    <3>1. "snow_tile" \in Written /\ t \in Places("snow_tile") /\ NewSlices(b, "snow_tile") = b.mass
      BY Sizes DEF Written, TileTotals, OnTiles, NewSlices
    <3>2. after[E("snow_tile")[t]].data = b.mass[t]
      BY <1>3, <3>1
    <3> DEFINE k == E("frac_surf_type")[t]
    <3>3. k \in DOMAIN layout /\ layout[k].stash = "frac_surf_type"
      BY <1>2, TileInPlace DEF OnTiles
    <3>4. ~ Snow(layout[k]) /\ layout[k].stash # "snow_amount"
      BY <3>3 DEF Snow, Written, TileTotals, OnLayers
    <3>5. a.frac[t] = dump[k].data
      BY <1>6 DEF TileSlices
    <3> HIDE DEF k
    <3>6. after[k].data[y] = dump[k].data[y]
      BY <1>9, <2>0, <3>3, <3>4
    <3> QED
      BY <3>2, <3>5, <3>6 DEF k
  <2>3. [t \in 1..(2 * nelev) |-> b.mass[t][y] * a.frac[t][y]]
          = [t \in 1..(2 * nelev) |->
               after[E("snow_tile")[t]].data[y] * after[E("frac_surf_type")[t]].data[y]]
    BY <2>2
  <2> QED
    BY <2>1, <2>3
<1> QED
  BY <1>3, <1>8, <1>9, <1>10 DEF IsReset, k0, b, after

-------------------------------------------------------------------------------
(* The next year's dump *)

\* A field's value does not depend on what it holds.
LEMMA SameField ==
  ASSUME NEW f, NEW g, f.stash = g.stash, f.pslev = g.pslev,
         NEW y, NEW ice, NEW fracs, NEW gain
  PROVE  /\ TileOf(f) = TileOf(g)
         /\ ValueOf(f, y, ice, fracs, gain) = ValueOf(g, y, ice, fracs, gain)
         /\ StandardOf(f, y) = StandardOf(g, y)
<1>1. TileOf(f) = TileOf(g)
  BY DEF TileOf
<1>2. ASSUME NEW i, NEW r, NEW n PROVE ValueOf(f, y, i, r, n) = ValueOf(g, y, i, r, n)
  BY <1>1 DEF ValueOf
<1>3. StandardOf(f, y) = StandardOf(g, y)
  BY <1>1, <1>2 DEF StandardOf
<1> QED
  BY <1>1, <1>2, <1>3

\* A dump whose ice tiles hold standard packs: what the climate model goes on from.
Ready(dump, layout) ==
  /\ layout \in Layouts /\ Headed(dump, layout) /\ IceRows(dump) # {}
  /\ \A k \in DOMAIN layout : \A y \in Rows :
       /\ layout[k].stash \in {"snow_tile", "frac_surf_type"} => dump[k].data[y] \in Int
       /\ layout[k].stash = "snow_tile" /\ TileOf(layout[k]) \in IceTiles /\ y \in IceRows(dump) =>
            dump[k].data[y] = nsmax * LayerMass

\* What the ice tiles' snow and the tile fractions are in a dump of the climate model.
LEMMA ValuesAreInt ==
  ASSUME NEW layout \in Layouts, NEW k \in DOMAIN layout, NEW y \in Rows, NEW ice, NEW fracs, NEW gain,
         fracs \in [ElevTiles -> Int], gain \in [TilesIn(layout) -> [Rows -> Int]],
         layout[k].stash \in {"snow_tile", "frac_surf_type"}
  PROVE  ValueOf(layout[k], y, ice, fracs, gain) \in Int
<1>1. nsmax * LayerMass \in Int
  BY ResetAssumption DEF ResetAssumption
<1>2. TileOf(layout[k]) \in TilesIn(layout)
  BY DEF TilesIn
<1>3. gain[TileOf(layout[k])][y] \in Int
  BY <1>2
<1>4. CASE layout[k].stash = "snow_tile"
  BY <1>1, <1>3, <1>4, GainedIs
<1>5. CASE layout[k].stash = "frac_surf_type"
  <2> DEFINE p == TileOf(layout[k])
  <2>1. ValueOf(layout[k], y, ice, fracs, gain) = IF p \in ElevTiles /\ y \in ice THEN fracs[p] ELSE 0
    BY <1>5 DEF ValueOf
  <2> HIDE DEF p
  <2>2. p \in ElevTiles => fracs[p] \in Int
    OBVIOUS
  <2> QED
    BY <2>1, <2>2
<1> QED
  BY <1>4, <1>5

LEMMA FreshIsReady ==
  ASSUME NEW layout \in Layouts, NEW ice, ice \subseteq Rows, ice # {},
         NEW fracs \in [ElevTiles -> Int]
  PROVE  Ready(DumpOf(layout, ice, fracs, [p \in TilesIn(layout) |-> [y \in Rows |-> 0]]), layout)
<1> DEFINE gain == [p \in TilesIn(layout) |-> [y \in Rows |-> 0]]
           dump == DumpOf(layout, ice, fracs, gain)
<1>1. /\ gain \in [TilesIn(layout) -> [Rows -> Int]]
      /\ \A p \in TilesIn(layout) : \A y \in Rows : gain[p][y] = 0
  OBVIOUS
<1> HIDE DEF gain
<1>2. /\ Headed(dump, layout) /\ IceRows(dump) = ice
      /\ \A k \in DOMAIN layout : \A y \in Rows :
           dump[k].data[y] = ValueOf(layout[k], y, ice, fracs, gain)
  BY DumpIs
<1> HIDE DEF dump
<1>3. ASSUME NEW k \in DOMAIN layout, NEW y \in Rows, layout[k].stash = "snow_tile"
      PROVE  dump[k].data[y] = nsmax * LayerMass
  <2>1. nsmax * LayerMass \in Int
    BY ResetAssumption DEF ResetAssumption
  <2>2. gain[TileOf(layout[k])][y] = 0
    BY <1>1 DEF TilesIn
  <2>3. ValueOf(layout[k], y, ice, fracs, gain) = nsmax * LayerMass + 0
    BY <1>3, <2>2, GainedIs
  <2> QED
    BY <1>2, <2>1, <2>3
<1>4. ASSUME NEW k \in DOMAIN layout, NEW y \in Rows,
             layout[k].stash \in {"snow_tile", "frac_surf_type"}
      PROVE  dump[k].data[y] \in Int
  BY <1>1, <1>2, <1>4, ValuesAreInt
<1> QED
  BY <1>2, <1>3, <1>4 DEF Ready, dump, gain

\* What the reset leaves is on ice where the dump was.
LEMMA ResetKeepsIce ==
  ASSUME NEW after, NEW dump, NEW layout \in Layouts, NEW ice,
         Headed(dump, layout), IceRows(dump) = ice, IsReset(after, dump, layout, ice)
  PROVE  /\ Headed(after, layout) /\ IceRows(after) = ice
         /\ \A y \in Rows : IsIce(after, y) <=> IsIce(dump, y)
<1> DEFINE k0 == First(layout, "vol_smc_sat")
<1>1. Headed(after, layout)
  BY DEF IsReset
<1>2. k0 \in DOMAIN layout /\ layout[k0].stash = "vol_smc_sat"
  BY FirstIs DEF Single
<1>3. um_to_np_2d(after, "vol_smc_sat") = after[k0].data
      /\ um_to_np_2d(dump, "vol_smc_sat") = dump[k0].data
  BY <1>1, HeadsTell DEF um_to_np_2d, First
<1> HIDE DEF k0
<1>4. ~ Snow(layout[k0]) /\ layout[k0].stash # "snow_amount"
  BY <1>2 DEF Snow, Written, TileTotals, OnLayers
<1>5. \A y \in Rows : after[k0].data[y] = dump[k0].data[y]
  BY <1>2, <1>4 DEF IsReset
<1>6. \A y \in Rows : IsIce(after, y) <=> IsIce(dump, y)
  BY <1>3, <1>5 DEF IsIce
<1> QED
  BY <1>1, <1>6 DEF IceRows

LEMMA ResetIsReady ==
  ASSUME NEW dump, NEW smb, NEW layout, NEW ice, NEW fracs, NEW gain,
         Came(dump, smb, layout, ice, fracs, gain), NEW after, IsReset(after, dump, layout, ice)
  PROVE  Ready(after, layout)
<1>1. /\ layout \in Layouts /\ ice \subseteq Rows /\ ice # {}
      /\ fracs \in [ElevTiles -> Int] /\ gain \in [TilesIn(layout) -> [Rows -> Int]]
      /\ dump = DumpOf(layout, ice, fracs, gain)
  BY DEF Came
<1>2. /\ Headed(dump, layout) /\ IceRows(dump) = ice
      /\ \A k \in DOMAIN layout : \A y \in Rows :
           dump[k].data[y] = ValueOf(layout[k], y, ice, fracs, gain)
  BY <1>1, DumpIs
<1>3. Headed(after, layout) /\ IceRows(after) = ice
  BY <1>1, <1>2, ResetKeepsIce
<1>4. ASSUME NEW k \in DOMAIN layout, NEW y \in Rows,
             layout[k].stash = "snow_tile", TileOf(layout[k]) \in IceTiles, y \in ice
      PROVE  after[k].data[y] = nsmax * LayerMass
  <2>1. Snow(layout[k])
    BY <1>4 DEF Snow, Written, TileTotals
  <2>2. after[k].data[y] = StandardOf(layout[k], y)
    BY <1>4, <2>1 DEF IsReset
  <2> QED
    BY <1>4, <2>2, StandardIs
<1>5. ASSUME NEW k \in DOMAIN layout, NEW y \in Rows,
             layout[k].stash \in {"snow_tile", "frac_surf_type"}
      PROVE  after[k].data[y] \in Int
  <2>1. ValueOf(layout[k], y, ice, fracs, gain) \in Int
    BY <1>1, <1>5, ValuesAreInt
  <2>2. CASE Snow(layout[k]) /\ y \in ice
    <3>1. layout[k].stash = "snow_tile" /\ TileOf(layout[k]) \in IceTiles
      BY <1>5, <2>2 DEF Snow, Written, TileTotals, OnLayers
    <3>2. nsmax * LayerMass \in Int
      BY ResetAssumption DEF ResetAssumption
    <3> QED
      BY <1>4, <2>2, <3>1, <3>2
  <2>3. CASE ~ (Snow(layout[k]) /\ y \in ice)
    <3>1. after[k].data[y] = dump[k].data[y]
      BY <1>5, <2>3 DEF IsReset
    <3> QED
      BY <1>2, <2>1, <3>1
  <2> QED
    BY <2>2, <2>3
<1> QED
  BY <1>1, <1>3, <1>4, <1>5 DEF Ready

\* The year's snow in the packs of a dump: each has what it had gained and what falls on it,
\* which is the mass balance on the ice.
YearsFracs(o) ==
  LET ice == {y \in Rows : IsIce(o, y)}
      y0 == CHOOSE y \in ice : TRUE
      frac == um_to_np_3d(o, "frac_surf_type")
      tiles == ElevPslevs(o, "frac_surf_type")
  IN [p \in ElevTiles |-> frac[CHOOSE i \in DOMAIN tiles : tiles[i] = p][y0]]
AllGained(o, smb, w) ==
  [p \in TilesIn(o) |-> [y \in Rows |->
     Gain(o, p, y)
     + IF p \in IceTiles /\ y \in {x \in Rows : IsIce(o, x)}
       THEN smb[p - start_tile_id_elev_ice + 1][y] * coupling_period
       ELSE w[p]]]

LEMMA FracsAreInt ==
  ASSUME NEW o, NEW layout, Ready(o, layout)
  PROVE  YearsFracs(o) \in [ElevTiles -> Int]
<1> DEFINE ice == {y \in Rows : IsIce(o, y)}
           y0 == CHOOSE y \in ice : TRUE
           frac == um_to_np_3d(o, "frac_surf_type")
           tiles == ElevPslevs(o, "frac_surf_type")
           E == ElevIndices(layout, "frac_surf_type")
<1>1. layout \in Layouts /\ Headed(o, layout) /\ IceRows(o) # {}
  BY DEF Ready
<1>2. y0 \in Rows
  BY <1>1 DEF IceRows
<1>3. "frac_surf_type" \in OnTiles /\ Stack("frac_surf_type")
      /\ Places("frac_surf_type") = 1..(2 * nelev)
  BY Sizes DEF OnTiles, Stack
<1>4. frac = [i \in Places("frac_surf_type") |-> o[E[i]].data]
  BY <1>1, <1>3, TakenFromStack
<1>5. tiles = [i \in Places("frac_surf_type") |-> PslevAt("frac_surf_type", i)]
  BY <1>1, <1>3, LevelsOfStack
<1> HIDE DEF y0, frac, tiles
<1>6. ASSUME NEW t \in 1..(2 * nelev) PROVE frac[t][y0] \in Int
  <2>1. E[t] \in DOMAIN layout /\ layout[E[t]].stash = "frac_surf_type"
    BY <1>1, <1>3, TileInPlace
  <2>2. o[E[t]].data[y0] \in Int
    BY <1>2, <2>1 DEF Ready
  <2> QED
    BY <1>3, <1>4, <2>2
<1>7. ASSUME NEW p \in ElevTiles
      PROVE  (CHOOSE i \in DOMAIN tiles : tiles[i] = p) \in 1..(2 * nelev)
  <2>1. PICK t \in 1..(2 * nelev) : TileAt(t) = p
    BY ElevTilesAt
  <2>2. t \in DOMAIN tiles /\ tiles[t] = p /\ DOMAIN tiles = 1..(2 * nelev)
    BY <1>3, <1>5, <2>1 DEF PslevAt
  <2> QED
    BY <2>2
<1>8. YearsFracs(o) = [p \in ElevTiles |-> frac[CHOOSE i \in DOMAIN tiles : tiles[i] = p][y0]]
  BY DEF YearsFracs, y0, frac, tiles
<1> QED
  BY <1>6, <1>7, <1>8

LEMMA GainIs ==
  ASSUME NEW o, NEW layout, Ready(o, layout), NEW p, NEW y \in Rows
  PROVE  /\ Gain(o, p, y) \in Int
         /\ p \in IceTiles /\ y \in IceRows(o) => Gain(o, p, y) = 0
<1> DEFINE At == {k \in DOMAIN o : o[k].stash = "snow_tile" /\ o[k].pslev = p}
           k == CHOOSE k \in At : TRUE
<1>1. Gain(o, p, y) = IF At = {} THEN 0 ELSE o[k].data[y] - nsmax * LayerMass
  BY DEF Gain
<1>2. nsmax * LayerMass \in Int
  BY ResetAssumption DEF ResetAssumption
<1>3. CASE At = {}
  BY <1>1, <1>3
<1>4. CASE At # {}
  <2>1. k \in At
    BY <1>4
  <2> HIDE DEF k
  <2>2. k \in DOMAIN layout /\ layout[k].stash = "snow_tile" /\ layout[k].pslev = p
    BY <2>1 DEF Ready, Headed
  <2>3. TileOf(layout[k]) = p
    BY <2>2 DEF TileOf, OnLayers
  <2>4. o[k].data[y] \in Int
    BY <2>2 DEF Ready
  <2>5. p \in IceTiles /\ y \in IceRows(o) => o[k].data[y] = nsmax * LayerMass
    BY <2>2, <2>3 DEF Ready
  <2>6. Gain(o, p, y) = o[k].data[y] - nsmax * LayerMass
    BY <1>1, <1>4
  <2> QED
    BY <1>2, <2>4, <2>5, <2>6
<1> QED
  BY <1>3, <1>4

LEMMA YearComes ==
  ASSUME NEW o, NEW layout, Ready(o, layout), NEW smb \in MassBalances, NEW w \in Snowfalls
  PROVE  Came(DumpOf(o, IceRows(o), YearsFracs(o), AllGained(o, smb, w)),
              smb, layout, IceRows(o), YearsFracs(o), AllGained(o, smb, w))
<1> DEFINE ice == IceRows(o)
           fracs == YearsFracs(o)
           gain == AllGained(o, smb, w)
<1>1. layout \in Layouts /\ Headed(o, layout) /\ ice # {} /\ ice \subseteq Rows
  BY DEF Ready, IceRows
<1>2. fracs \in [ElevTiles -> Int]
  BY FracsAreInt
<1>3. smb \in [1..nelev -> [Rows -> Int]] /\ coupling_period \in Int
  BY ResetAssumption DEF ResetAssumption
<1>4. TilesIn(o) = TilesIn(layout)
  BY <1>1, HeadsTell
<1>5. \A p \in TilesIn(layout) : w[p] \in Int
  BY <1>1, ResetAssumption DEF ResetAssumption
<1>6. IceTiles = 901..(900 + nelev) /\ start_tile_id_elev_ice = 901
  BY TilesAre DEF start_tile_id_elev_ice
<1>7. \A p \in TilesIn(layout) : \A y \in Rows :
        gain[p][y] = Gain(o, p, y)
                     + IF p \in IceTiles /\ y \in ice
                       THEN smb[p - start_tile_id_elev_ice + 1][y] * coupling_period ELSE w[p]
  BY <1>4 DEF AllGained, IceRows
<1>8. gain = [p \in TilesIn(layout) |-> [y \in Rows |-> gain[p][y]]]
  BY <1>4 DEF AllGained
<1> HIDE DEF fracs, gain, ice
<1>9. ASSUME NEW p \in IceTiles, NEW y \in ice
      PROVE  /\ p - start_tile_id_elev_ice + 1 \in 1..nelev
             /\ smb[p - start_tile_id_elev_ice + 1][y] * coupling_period \in Int
  <2>1. p \in Int /\ 901 <= p /\ p <= 900 + nelev /\ start_tile_id_elev_ice = 901
    BY <1>6, IceTilesAre
  <2>2. nelev \in Nat
    BY Sizes
  <2>3. p - start_tile_id_elev_ice + 1 \in 1..nelev
    BY <2>1, <2>2
  <2>4. smb[p - start_tile_id_elev_ice + 1][y] \in Int
    <3>1. y \in Rows
      BY <1>1
    <3> QED
      BY <1>3, <2>3, <3>1
  <2> QED
    BY <1>3, <2>3, <2>4
<1>10. \A p \in TilesIn(layout) : \A y \in Rows : gain[p][y] \in Int
  <2> TAKE p \in TilesIn(layout)
  <2> TAKE y \in Rows
  <2>1. Gain(o, p, y) \in Int
    BY GainIs
  <2>2. CASE p \in IceTiles /\ y \in ice
    BY <1>7, <1>9, <2>1, <2>2
  <2>3. CASE ~ (p \in IceTiles /\ y \in ice)
    BY <1>5, <1>7, <2>1, <2>3
  <2> QED
    BY <2>2, <2>3
<1>11. gain \in [TilesIn(layout) -> [Rows -> Int]]
  BY <1>8, <1>10
<1>12. ASSUME NEW t \in 1..nelev, NEW y \in ice
       PROVE  gain[TileAt(t)][y] = smb[t][y] * coupling_period
  <2>1. t \in 1..(2 * nelev) /\ t <= nelev /\ t \in Int /\ y \in Rows
    BY <1>1, Sizes
  <2>2. TileAt(t) \in IceTiles /\ TileAt(t) = start_tile_id_elev_ice + t - 1
    BY <2>1, TileAtIs
  <2>3. TileAt(t) \in TilesIn(layout)
    <3>1. "snow_tile" \in OnTiles
      BY DEF OnTiles, TileTotals
    <3> QED
      BY <1>1, <2>1, <3>1, TileInPlace
  <2>4. Gain(o, TileAt(t), y) = 0
    BY <2>1, <2>2, GainIs DEF ice
  <2>5. TileAt(t) - start_tile_id_elev_ice + 1 = t
    BY <1>6, <2>1, <2>2
  <2>6. smb[t][y] * coupling_period \in Int
    BY <1>9, <2>2, <2>5
  <2>7. gain[TileAt(t)][y] = Gain(o, TileAt(t), y) + smb[t][y] * coupling_period
    BY <1>7, <2>1, <2>2, <2>3, <2>5
  <2> QED
    BY <2>4, <2>6, <2>7
<1>13. DumpOf(o, ice, fracs, gain) = DumpOf(layout, ice, fracs, gain)
  <2>1. \A k \in DOMAIN layout : o[k].stash = layout[k].stash /\ o[k].pslev = layout[k].pslev
    BY <1>1 DEF Headed
  <2>2. DOMAIN o = DOMAIN layout
    BY <1>1 DEF Headed
  <2>3. \A k \in DOMAIN layout : \A y \in Rows :
          ValueOf(o[k], y, ice, fracs, gain) = ValueOf(layout[k], y, ice, fracs, gain)
    BY <2>1, SameField
  <2> QED
    BY <2>1, <2>2, <2>3 DEF DumpOf
<1> QED
  BY <1>1, <1>2, <1>3, <1>11, <1>12, <1>13 DEF Came, ice, fracs, gain

-------------------------------------------------------------------------------
(* The inductive invariant *)

Stages == {"done", "idle", "load", "read", "layers", "tiles", "mean", "store", "open", "fill",
           "failed"}
Come == \E layout, ice, fracs, gain : Came(um_input, toice_input, layout, ice, fracs, gain)

\* The task holds the dump, and arrays that are a function of it and the mass balance;
\* what it leaves is too.
TaskHolds ==
  /\ pc \in {"read", "layers", "tiles", "mean", "store"} => um_dump = um_input
  /\ pc = "layers" => np = Read(um_input, toice_input)
  /\ pc = "tiles" => np = LayersReset(Read(um_input, toice_input))
  /\ pc = "mean" => np = TilesReset(LayersReset(Read(um_input, toice_input)))
  /\ pc = "store" => np = AllReset(um_input, toice_input)
  /\ pc \in {"open", "fill"} => um_dump = Stored(um_input, AllReset(um_input, toice_input))

ResetInv ==
  /\ year \in Nat /\ pc \in Stages
  /\ year = 0 => pc = "done" /\ \E layout : Ready(um_output, layout)
  /\ year > 0 => Come
  /\ TaskHolds
  /\ pc = "done" /\ year > 0 => um_output = Stored(um_input, AllReset(um_input, toice_input))

LEMMA ResetInit == Init => ResetInv
<1> SUFFICES ASSUME Init PROVE ResetInv
  OBVIOUS
<1>1. PICK layout \in Layouts, ice \in (SUBSET Rows) \ {{}}, fracs \in Fractions :
        um_output = DumpOf(layout, ice, fracs, [p \in TilesIn(layout) |-> [y \in Rows |-> 0]])
  BY DEF Init
<1>2. fracs \in [ElevTiles -> Int] /\ ice \subseteq Rows /\ ice # {}
  BY ResetAssumption DEF ResetAssumption
<1>3. Ready(um_output, layout)
  BY <1>1, <1>2, FreshIsReady
<1>4. year = 0 /\ pc = "done"
  BY DEF Init
<1> QED
  BY <1>3, <1>4 DEF ResetInv, TaskHolds, Stages

\* What the climate model goes on from: the first dump, or the one that is left.
LEMMA DoneIsReady ==
  ASSUME ResetInv, pc = "done"
  PROVE  \E layout : Ready(um_output, layout)
<1>1. CASE year = 0
  BY <1>1 DEF ResetInv
<1>2. CASE year > 0
  <2>1. PICK layout, ice, fracs, gain : Came(um_input, toice_input, layout, ice, fracs, gain)
    BY <1>2 DEF ResetInv, Come
  <2>2. um_output = Stored(um_input, AllReset(um_input, toice_input))
    BY <1>2 DEF ResetInv
  <2>3. IsReset(um_output, um_input, layout, ice)
    BY <2>1, <2>2, ResetDumpIs
  <2> QED
    BY <2>1, <2>3, ResetIsReady
<1> QED
  BY <1>1, <1>2 DEF ResetInv

LEMMA ClimateYearKeeps == ResetInv /\ ClimateYear => ResetInv'
<1> SUFFICES ASSUME ResetInv, ClimateYear PROVE ResetInv'
  OBVIOUS
<1>1. year \in Nat /\ pc = "done" /\ year' = year + 1 /\ pc' = "idle"
  BY DEF ResetInv, ClimateYear
<1>2. PICK layout : Ready(um_output, layout)
  BY <1>1, DoneIsReady
<1>3. PICK smb \in MassBalances, w \in Snowfalls :
        /\ toice_input' = smb
        /\ um_input' = DumpOf(um_output, IceRows(um_output), YearsFracs(um_output),
                              AllGained(um_output, smb, w))
  BY Zenon DEF ClimateYear, IceRows, YearsFracs, AllGained
<1>4. Came(um_input', toice_input', layout, IceRows(um_output), YearsFracs(um_output),
           AllGained(um_output, smb, w))
  BY <1>2, <1>3, YearComes
<1>5. Come'
  BY <1>4 DEF Come
<1>6. TaskHolds'
  BY <1>1 DEF TaskHolds
<1> QED
  BY <1>1, <1>5, <1>6 DEF ResetInv, Stages

\* Within an update the climate model's files do not change.
LEMMA FilesKeep ==
  ASSUME ResetInv, UNCHANGED <<year, um_input, toice_input>>, year # 0,
         pc' \in Stages, TaskHolds',
         pc' = "done" => um_output' = Stored(um_input, AllReset(um_input, toice_input))
  PROVE  ResetInv'
<1>1. year \in Nat /\ year' = year /\ year > 0 /\ Come
  BY DEF ResetInv
<1>2. Come'
  BY <1>1 DEF Come
<1> QED
  BY <1>1, <1>2 DEF ResetInv

LEMMA ArraysAreRead ==
  ASSUME um_dump = um_input, ReadArrays, pc' # "failed"
  PROVE  pc' = "layers" /\ np' = Read(um_input, toice_input)
BY Zenon DEF ReadArrays, Read, IceRows

LEMMA ArraysReset ==
  /\ ResetLayers => np' = LayersReset(np)
  /\ ResetTiles => np' = TilesReset(np)
  /\ ResetMean => np' = MeanReset(np)
<1>1. \A a : LessSmb(a) = LessIn(np, a)
  BY DEF LessSmb, LessIn, InMask, In
<1>2. \A a, m, d : LayerDensity(a, m, d) = Quotient(np, a, m, d)
  BY DEF LayerDensity, Quotient, InMask, In
<1>3. \A y : GridboxMean(y) = Mean(np, y)
  BY DEF GridboxMean, Mean
<1>4. ResetLayers => np' = LayersReset(np)
  BY <1>1, <1>2 DEF ResetLayers, LayersReset
<1>5. ResetTiles => np' = TilesReset(np)
  BY <1>1, <1>2 DEF ResetTiles, TilesReset
<1>6. ResetMean => np' = MeanReset(np)
  BY <1>3 DEF ResetMean, MeanReset
<1> QED
  BY <1>4, <1>5, <1>6

LEMMA ResetNext == ResetInv /\ [Next]_vars => ResetInv'
<1> SUFFICES ASSUME ResetInv, [Next]_vars PROVE ResetInv'
  OBVIOUS
<1> USE DEF Stages
<1>0. pc # "done" => year # 0
  BY DEF ResetInv
<1>t. TaskHolds /\ pc \in Stages
  BY DEF ResetInv
<1>1. CASE ClimateYear
  BY <1>1, ClimateYearKeeps
<1>2. CASE Submit
  <2>1. pc = "idle" /\ pc' = "load" /\ UNCHANGED <<year, um_input, toice_input>>
    BY <1>2 DEF Submit
  <2>2. TaskHolds'
    BY <2>1 DEF TaskHolds
  <2> QED
    BY <1>0, <2>1, <2>2, FilesKeep
<1>3. CASE Load
  <2>1. pc = "load" /\ pc' = "read" /\ UNCHANGED <<year, um_input, toice_input>>
        /\ um_dump' = um_input
    BY <1>3 DEF Load, suiteVars
  <2>2. TaskHolds'
    BY <2>1 DEF TaskHolds
  <2> QED
    BY <1>0, <2>1, <2>2, FilesKeep
<1>4. CASE ReadArrays
  <2>1. pc = "read" /\ UNCHANGED <<year, um_input, toice_input, um_dump>>
        /\ (pc' = "failed" \/ pc' = "layers")
    BY <1>4 DEF ReadArrays, suiteVars
  <2>2. um_dump = um_input
    BY <1>t, <2>1 DEF TaskHolds
  <2>3. TaskHolds'
    BY <1>4, <2>1, <2>2, ArraysAreRead DEF TaskHolds
  <2> QED
    BY <1>0, <2>1, <2>3, FilesKeep
<1>5. CASE ResetLayers
  <2>1. pc = "layers" /\ pc' = "tiles" /\ UNCHANGED <<year, um_input, toice_input, um_dump>>
    BY <1>5 DEF ResetLayers, suiteVars
  <2>2. TaskHolds'
    BY <1>5, <1>t, <2>1, ArraysReset DEF TaskHolds
  <2> QED
    BY <1>0, <2>1, <2>2, FilesKeep
<1>6. CASE ResetTiles
  <2>1. pc = "tiles" /\ pc' = "mean" /\ UNCHANGED <<year, um_input, toice_input, um_dump>>
    BY <1>6 DEF ResetTiles, suiteVars
  <2>2. TaskHolds'
    BY <1>6, <1>t, <2>1, ArraysReset DEF TaskHolds
  <2> QED
    BY <1>0, <2>1, <2>2, FilesKeep
<1>7. CASE ResetMean
  <2>1. pc = "mean" /\ pc' = "store" /\ UNCHANGED <<year, um_input, toice_input, um_dump>>
    BY <1>7 DEF ResetMean, suiteVars
  <2>2. TaskHolds'
    BY <1>7, <1>t, <2>1, ArraysReset DEF TaskHolds, AllReset
  <2> QED
    BY <1>0, <2>1, <2>2, FilesKeep
<1>8. CASE Store
  <2>1. pc = "store" /\ pc' = "open" /\ UNCHANGED <<year, um_input, toice_input>>
        /\ um_dump' = Stored(um_dump, np)
    BY <1>8 DEF Store, suiteVars, Stored
  <2>2. TaskHolds'
    BY <1>t, <2>1 DEF TaskHolds
  <2> QED
    BY <1>0, <2>1, <2>2, FilesKeep
<1>9. CASE OpenOutput
  <2>1. pc = "open" /\ pc' = "fill" /\ UNCHANGED <<year, um_input, toice_input, um_dump>>
    BY <1>9 DEF OpenOutput, suiteVars
  <2>2. TaskHolds'
    BY <1>t, <2>1 DEF TaskHolds
  <2> QED
    BY <1>0, <2>1, <2>2, FilesKeep
<1>10. CASE FillOutput
  <2>1. pc = "fill" /\ pc' = "done" /\ UNCHANGED <<year, um_input, toice_input>>
        /\ um_output' = um_dump
    BY <1>10 DEF FillOutput, suiteVars
  <2>2. TaskHolds' /\ um_dump = Stored(um_input, AllReset(um_input, toice_input))
    BY <1>t, <2>1 DEF TaskHolds
  <2> QED
    BY <1>0, <2>1, <2>2, FilesKeep
<1>11. CASE Interrupt
  <2>1. pc # "done" /\ pc' = "idle" /\ UNCHANGED <<year, um_input, toice_input>>
    BY <1>11 DEF Interrupt, suiteVars
  <2>2. TaskHolds'
    BY <2>1 DEF TaskHolds
  <2> QED
    BY <1>0, <2>1, <2>2, FilesKeep
<1>12. CASE UNCHANGED vars
  BY <1>12 DEF ResetInv, TaskHolds, Come, vars, suiteVars
<1> QED
  BY <1>1, <1>2, <1>3, <1>4, <1>5, <1>6, <1>7, <1>8, <1>9, <1>10, <1>11, <1>12 DEF Next, Task

\* From one year to the next the task has the dump the climate model made, packs with the
\* year's mass balance in them, and arrays made of it alone, however often it starts again.
THEOREM ResetHolds == Spec => []ResetInv
BY ResetInit, ResetNext, PTL DEF Spec

-------------------------------------------------------------------------------
(* What an update leaves *)

\* The climate model's dump and the one left for it have the fields of one layout.
LEMMA UpdatedIs ==
  ASSUME ResetInv, Updated
  PROVE  \E layout \in Layouts, ice \in SUBSET Rows :
           /\ Headed(um_input, layout) /\ Headed(um_output, layout)
           /\ \A y \in Rows : (y \in ice <=> IsIce(um_input, y)) /\ (y \in ice <=> IsIce(um_output, y))
           /\ IsReset(um_output, um_input, layout, ice) /\ Ready(um_output, layout)
<1>1. pc = "done" /\ year > 0
  BY DEF Updated
<1>2. PICK layout, ice, fracs, gain : Came(um_input, toice_input, layout, ice, fracs, gain)
  BY <1>1 DEF ResetInv, Come
<1>3. um_output = Stored(um_input, AllReset(um_input, toice_input))
  BY <1>1 DEF ResetInv
<1>4. layout \in Layouts /\ ice \in SUBSET Rows
  BY <1>2 DEF Came
<1>5. Headed(um_input, layout) /\ IceRows(um_input) = ice
  BY <1>2, DumpIs DEF Came
<1>6. IsReset(um_output, um_input, layout, ice)
  BY <1>2, <1>3, ResetDumpIs
<1>7. Headed(um_output, layout) /\ IceRows(um_output) = ice
  BY <1>4, <1>5, <1>6, ResetKeepsIce
<1>8. Ready(um_output, layout)
  BY <1>2, <1>6, ResetIsReady
<1>9. \A y \in Rows : (y \in ice <=> IsIce(um_input, y)) /\ (y \in ice <=> IsIce(um_output, y))
  BY <1>5, <1>7 DEF IceRows
<1> QED
  BY <1>4, <1>5, <1>6, <1>7, <1>8, <1>9

LEMMA OnlySnowChanges == ResetInv => OnlySnowOnIce
<1> SUFFICES ASSUME ResetInv, Updated
             PROVE  /\ DOMAIN um_output = DOMAIN um_input
                    /\ \A k \in DOMAIN um_input :
                         /\ um_output[k].stash = um_input[k].stash
                         /\ um_output[k].pslev = um_input[k].pslev
                         /\ \A y \in Rows : um_output[k].data[y] # um_input[k].data[y] =>
                              /\ IsIce(um_input, y)
                              /\ \/ um_input[k].stash = "snow_amount"
                                 \/ /\ um_input[k].stash \in TileTotals \cup OnLayers
                                    /\ TileOf(um_input[k]) \in IceTiles
  BY DEF OnlySnowOnIce
<1>1. PICK layout \in Layouts, ice \in SUBSET Rows :
        /\ Headed(um_input, layout) /\ Headed(um_output, layout)
        /\ \A y \in Rows : (y \in ice <=> IsIce(um_input, y)) /\ (y \in ice <=> IsIce(um_output, y))
        /\ IsReset(um_output, um_input, layout, ice) /\ Ready(um_output, layout)
  BY UpdatedIs
<1>2. DOMAIN um_output = DOMAIN layout /\ DOMAIN um_input = DOMAIN layout
  BY <1>1 DEF Headed
<1>3. ASSUME NEW k \in DOMAIN layout
      PROVE  /\ um_output[k].stash = layout[k].stash /\ um_output[k].pslev = layout[k].pslev
             /\ um_input[k].stash = layout[k].stash /\ um_input[k].pslev = layout[k].pslev
             /\ TileOf(um_input[k]) = TileOf(layout[k])
  BY <1>1 DEF Headed, TileOf
<1>4. ASSUME NEW k \in DOMAIN layout, NEW y \in Rows, um_output[k].data[y] # um_input[k].data[y]
      PROVE  y \in ice /\ (layout[k].stash = "snow_amount" \/ Snow(layout[k]))
  BY <1>1, <1>4 DEF IsReset
<1> QED
  BY <1>1, <1>2, <1>3, <1>4 DEF Snow, Written

LEMMA PacksAreStandard == ResetInv => StandardPack
<1> SUFFICES ASSUME ResetInv, Updated, NEW k \in DOMAIN um_output, NEW y \in Rows,
                    IsIce(um_output, y), TileOf(um_output[k]) \in IceTiles,
                    um_output[k].stash \in TileTotals \cup OnLayers
             PROVE  um_output[k].data[y] = StandardOf(um_output[k], y)
  BY DEF StandardPack, StandardOf
<1>1. PICK layout \in Layouts, ice \in SUBSET Rows :
        /\ Headed(um_input, layout) /\ Headed(um_output, layout)
        /\ \A x \in Rows : (x \in ice <=> IsIce(um_input, x)) /\ (x \in ice <=> IsIce(um_output, x))
        /\ IsReset(um_output, um_input, layout, ice) /\ Ready(um_output, layout)
  BY UpdatedIs
<1>2. k \in DOMAIN layout /\ um_output[k].stash = layout[k].stash
      /\ um_output[k].pslev = layout[k].pslev
  BY <1>1 DEF Headed
<1>3. TileOf(um_output[k]) = TileOf(layout[k]) /\ StandardOf(um_output[k], y) = StandardOf(layout[k], y)
  BY <1>2, SameField
<1>4. Snow(layout[k])
  BY <1>2, <1>3 DEF Snow, Written
<1>5. y \in ice
  BY <1>1
<1> QED
  BY <1>1, <1>2, <1>3, <1>4, <1>5 DEF IsReset

\* The value of a quantity on a tile is that of the only field there is.
ValueAt(dump, stash, p, y) ==
  CHOOSE v \in {dump[k].data[y] : k \in {j \in DOMAIN dump : /\ dump[j].stash = stash
                                                            /\ dump[j].pslev = p}} : TRUE

LEMMA ValueAtIs ==
  ASSUME NEW layout \in Layouts, NEW dump, Headed(dump, layout),
         NEW stash \in OnTiles, NEW t \in 1..(2 * nelev), NEW y
  PROVE  ValueAt(dump, stash, TileAt(t), y) = dump[ElevIndices(layout, stash)[t]].data[y]
<1> DEFINE E == ElevIndices(layout, stash)
           p == TileAt(t)
           At == {j \in DOMAIN dump : dump[j].stash = stash /\ dump[j].pslev = p}
<1>1. E[t] \in DOMAIN layout /\ layout[E[t]].stash = stash /\ layout[E[t]].pslev = p
      /\ t \in Places(stash)
  BY TileInPlace
<1>2. \A j \in DOMAIN layout : dump[j].stash = layout[j].stash /\ dump[j].pslev = layout[j].pslev
  BY DEF Headed
<1>3. E[t] \in At
  BY <1>1, <1>2 DEF Headed
<1>4. ASSUME NEW j \in At PROVE j = E[t]
  <2>1. j \in DOMAIN layout /\ layout[j].stash = stash /\ layout[j].pslev = p
    BY <1>2 DEF Headed
  <2>2. IsElevated(p) /\ PslevAt(stash, t) = p
    BY <1>1, PslevsTell
  <2>3. PICK i \in Places(stash) : E[i] = j
    BY <2>1, <2>2, StackIs
  <2>4. layout[E[i]].pslev = PslevAt(stash, i)
    BY StackIs
  <2>5. PslevAt(stash, t) = PslevAt(stash, i)
    BY <2>1, <2>2, <2>3, <2>4
  <2>6. \A u \in Places(stash) : PslevAt(stash, t) = PslevAt(stash, u) => t = u
    BY <1>1, PslevsTell
  <2> QED
    BY <2>3, <2>5, <2>6
<1> HIDE DEF E, p
<1>5. At = {E[t]}
  BY <1>3, <1>4
<1> HIDE DEF At
<1>6. {dump[k].data[y] : k \in At} = {dump[E[t]].data[y]}
  BY <1>5
<1>7. ValueAt(dump, stash, p, y) = CHOOSE v \in {dump[k].data[y] : k \in At} : TRUE
  BY DEF ValueAt, At
<1> QED
  BY <1>6, <1>7 DEF E, p

LEMMA ElevTilesFinite == IsFiniteSet(ElevTiles) /\ IsFiniteSet(1..(2 * nelev))
<1>1. nelev \in 1..24 /\ IceTiles = 901..(900 + nelev) /\ RockTiles = 926..(925 + nelev)
  BY TilesAre
<1>2. IsFiniteSet(IceTiles) /\ IsFiniteSet(RockTiles)
  <2>1. 900 + nelev \in Int /\ 925 + nelev \in Int /\ 901 \in Int /\ 926 \in Int
    BY <1>1
  <2> QED
    BY <1>1, <2>1, FS_Interval
<1>3. IsFiniteSet(ElevTiles)
  BY <1>2, FS_Union DEF ElevTiles
<1>4. 2 * nelev \in Int
  BY <1>1
<1> QED
  BY <1>3, <1>4, FS_Interval

LEMMA MeanIsOfTiles == ResetInv => MeanOfItsTiles
<1> DEFINE Of(stash, p, y) == ValueAt(um_output, stash, p, y)
           Terms(y) == [p \in ElevTiles |-> Of("snow_tile", p, y) * Of("frac_surf_type", p, y)]
<1> SUFFICES ASSUME ResetInv, Updated, NEW y \in Rows, IsIce(um_output, y)
             PROVE  um_to_np_2d(um_output, "snow_amount")[y] = Total(Terms(y), ElevTiles)
  BY Zenon DEF MeanOfItsTiles, ValueAt
<1>1. PICK layout \in Layouts, ice \in SUBSET Rows :
        /\ Headed(um_input, layout) /\ Headed(um_output, layout)
        /\ \A x \in Rows : (x \in ice <=> IsIce(um_input, x)) /\ (x \in ice <=> IsIce(um_output, x))
        /\ IsReset(um_output, um_input, layout, ice) /\ Ready(um_output, layout)
  BY UpdatedIs
<1> DEFINE C == 1..(2 * nelev)
           E(stash) == ElevIndices(layout, stash)
           snow(t) == um_output[E("snow_tile")[t]].data[y]
           frac(t) == um_output[E("frac_surf_type")[t]].data[y]
           g == [t \in C |-> snow(t) * frac(t)]
           pair == [t \in C |-> TileAt(t)]
           home == [p \in ElevTiles |-> CHOOSE t \in C : TileAt(t) = p]
           f == Terms(y)
<1>2. um_to_np_2d(um_output, "snow_amount")[y] = Total(g, C)
  <2>1. um_to_np_2d(um_output, "snow_amount") = um_output[First(layout, "snow_amount")].data
    BY <1>1, HeadsTell DEF um_to_np_2d, First
  <2>2. y \in ice
    BY <1>1
  <2> QED
    BY <1>1, <2>1, <2>2 DEF IsReset
<1>3. ASSUME NEW t \in C
      PROVE  /\ TileAt(t) \in ElevTiles /\ snow(t) \in Int /\ frac(t) \in Int
             /\ Of("snow_tile", TileAt(t), y) = snow(t)
             /\ Of("frac_surf_type", TileAt(t), y) = frac(t)
             /\ \A u \in C : TileAt(t) = TileAt(u) => t = u
  <2>1. "snow_tile" \in OnTiles /\ "frac_surf_type" \in OnTiles
    BY DEF OnTiles, TileTotals
  <2>2. Of("snow_tile", TileAt(t), y) = snow(t) /\ Of("frac_surf_type", TileAt(t), y) = frac(t)
    BY <1>1, <2>1, ValueAtIs
  <2>3. /\ E("snow_tile")[t] \in DOMAIN layout /\ layout[E("snow_tile")[t]].stash = "snow_tile"
        /\ E("frac_surf_type")[t] \in DOMAIN layout
        /\ layout[E("frac_surf_type")[t]].stash = "frac_surf_type"
    BY <2>1, TileInPlace
  <2>4. snow(t) \in Int /\ frac(t) \in Int
    BY <1>1, <2>3 DEF Ready
  <2> QED
    BY <2>2, <2>4, TileAtIs
<1>4. ASSUME NEW p \in ElevTiles PROVE home[p] \in C /\ TileAt(home[p]) = p
  BY ElevTilesAt
<1> HIDE DEF C, snow, frac, E, Of
<1>5. \A t \in C : pair[t] \in ElevTiles /\ home[pair[t]] = t /\ g[t] = f[pair[t]]
  <2> TAKE t \in C
  <2>1. pair[t] = TileAt(t) /\ TileAt(t) \in ElevTiles
    BY <1>3
  <2>2. home[TileAt(t)] \in C /\ TileAt(home[TileAt(t)]) = TileAt(t)
    BY <1>4, <2>1
  <2>3. home[TileAt(t)] = t
    BY <1>3, <2>2
  <2>4. g[t] = f[TileAt(t)]
    BY <1>3, <2>1
  <2> QED
    BY <2>1, <2>3, <2>4
<1>6. \A p \in ElevTiles : home[p] \in C /\ pair[home[p]] = p
  BY <1>4
<1>7. \A p \in ElevTiles : f[p] \in Int
  <2> TAKE p \in ElevTiles
  <2> DEFINE t == home[p]
  <2>1. t \in C /\ TileAt(t) = p
    BY <1>4
  <2> HIDE DEF t
  <2>2. f[p] = snow(t) * frac(t) /\ snow(t) \in Int /\ frac(t) \in Int
    BY <1>3, <2>1
  <2> QED
    BY <2>2
<1>8. IsFiniteSet(ElevTiles) /\ IsFiniteSet(C)
  BY ElevTilesFinite DEF C
<1> HIDE DEF f, g, pair, home
<1>9. Total(g, C) = Total(f, ElevTiles)
  BY <1>5, <1>6, <1>7, <1>8, TotalOfPairs
<1> QED
  BY <1>2, <1>9 DEF f

-------------------------------------------------------------------------------
(* The theorems *)

\* An update of the climate model's dump changes the snow on the ice tiles in the rows of
\* ice and those rows' mean, and nothing else (reset_icetile_snowpack).
THEOREM OnlySnowHolds == Spec => []OnlySnowOnIce
BY ResetHolds, OnlySnowChanges, PTL

\* However many years and interrupted attempts there were, an update leaves the standard
\* pack on every ice tile, layer by layer and as a whole.
THEOREM StandardPackHolds == Spec => []StandardPack
BY ResetHolds, PacksAreStandard, PTL

\* The mean an update leaves for a row of ice is that of the snow it leaves on the row's
\* tiles, ice and rock.
THEOREM MeanHolds == Spec => []MeanOfItsTiles
BY ResetHolds, MeanIsOfTiles, PTL
===============================================================================
