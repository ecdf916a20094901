-------------------------------- MODULE Agari --------------------------------
(***************************************************************************)
(* The value of a won hand (libriichi/src/algo/agari.rs, point.rs).  The   *)
(* calculator tries each division of the concealed tiles into sets and a   *)
(* pair, settles in which set the winning tile goes with one rule of       *)
(* thumb, and keeps the largest by han and then by fu.  The reference      *)
(* below tries every place of the winning tile and keeps the most points.  *)
(*                                                                         *)
(* A tile is its number in tile.rs, a set that of its lowest tile.  A hand *)
(* is a record as AgariCalculator, with the tiles of `tehai' counted and   *)
(* the winning tile among them.  The table of divisions is data: it is     *)
(* modelled by what it holds.  Kokushi has no division and is left out.    *)
(***************************************************************************)
EXTENDS Integers, FiniteSets, SequencesExt

Kinds == 0..33
Winds == 27..30
Dragons == 31..33
Simple(t) == t < 27 /\ t % 9 \in 1..7
Yaokyuu(t) == ~Simple(t)
Ceil(n, d) == ((n + d - 1) \div d) * d
Sum(f(_), S) == FoldSet(LAMBDA x, n : f(x) + n, 0, S)
If(cond, x) == IF cond THEN {x} ELSE {}

-----------------------------------------------------------------------------
(***************************************************************************)
(* Divisions: AGARI_TABLE at the key of the hand.                          *)
(***************************************************************************)
Minus(h, tiles) == [t \in Kinds |-> h[t] - (IF t \in tiles THEN 1 ELSE 0)]
RECURSIVE Sets(_)
Sets(h) ==
  IF \A t \in Kinds : h[t] = 0 THEN {[kotsu |-> {}, shuntsu |-> <<>>]}
  ELSE LET t == CHOOSE k \in Kinds : h[k] > 0 /\ \A j \in 0..(k - 1) : h[j] = 0
           run == t < 27 /\ t % 9 <= 6 /\ h[t + 1] > 0 /\ h[t + 2] > 0
       IN  (IF h[t] >= 3 THEN {[d EXCEPT !.kotsu = @ \cup {t}] : d \in Sets([h EXCEPT ![t] = @ - 3])}
            ELSE {})
           \cup (IF run THEN {[d EXCEPT !.shuntsu = <<t>> \o @] : d \in Sets(Minus(h, t..(t + 2)))}
                 ELSE {})
Pairs(h) == {t \in Kinds : h[t] = 2}
Div(p, d, chitoi) == [pair |-> p, kotsu |-> d.kotsu, shuntsu |-> d.shuntsu, chitoi |-> chitoi]
Divisions(h) ==
  UNION {{Div(p, d, {}) : d \in Sets([h EXCEPT ![p] = @ - 2])} : p \in {t \in Kinds : h[t] >= 2}}
  \cup {Div(Nobody, [kotsu |-> {}, shuntsu |-> <<>>], Pairs(h)) : Nobody \in If(Cardinality(Pairs(h)) = 7, 34)}

(* Runs that come in twos. *)
Twins(d) == Sum(LAMBDA s : Cardinality({i \in DOMAIN d.shuntsu : d.shuntsu[i] = s}) \div 2,
                ToSet(d.shuntsu))
has_chuuren(h, d) ==
  /\ d.chitoi = {} /\ Cardinality(d.kotsu) + Len(d.shuntsu) = 4
  /\ \E suit \in 0..2 : /\ \A n \in 0..8 : h.tehai[9 * suit + n] >= (IF n \in {0, 8} THEN 3 ELSE 1)
                        /\ \A t \in Kinds : t \div 9 # suit => h.tehai[t] = 0

-----------------------------------------------------------------------------
(***************************************************************************)
(* DivWorker: one division.                                                *)
(***************************************************************************)
Kans(h) == h.minkans \cup h.ankans
all_kotsu_and_kantsu(h, d) == d.kotsu \cup h.pons \cup Kans(h)
all_shuntsu(h, d) == ToSet(d.shuntsu) \cup ToSet(h.chis)
Ends(h, d) == IF d.chitoi # {} THEN d.chitoi ELSE all_kotsu_and_kantsu(h, d) \cup {d.pair}
is_menzen(h) == h.chis = <<>> /\ h.pons = {} /\ h.minkans = {}

(* A ron on a tile of a concealed triplet opens it, unless a run can take
   the tile. *)
MinkouAlways(h, d) == h.is_ron /\ h.winning_tile \in d.kotsu   \* mutant
winning_tile_makes_minkou(h, d) ==
  /\ h.is_ron /\ h.winning_tile \in d.kotsu
  /\ \/ h.winning_tile >= 27
     \/ LET n == h.winning_tile % 9
            suit == h.winning_tile - n
            low == IF n < 2 THEN 0 ELSE n - 2
            high == IF n < 6 THEN n ELSE 6
        IN  (suit + low)..(suit + high) \cap ToSet(d.shuntsu) = {}

Fu(t, simple) == IF Yaokyuu(t) THEN 2 * simple ELSE simple
PairFu(h, t) ==
  IF t \in Dragons THEN 2
  ELSE (IF t = h.bakaze THEN 2 ELSE 0) + (IF t = h.jikaze THEN 2 ELSE 0)
MeldFu(h) == Sum(LAMBDA t : Fu(t, 2), h.pons) + Sum(LAMBDA t : Fu(t, 16), h.ankans)
             + Sum(LAMBDA t : Fu(t, 8), h.minkans)

calc_fu(h, d, has_pinfu) ==
  LET minkou == winning_tile_makes_minkou(h, d)
      kotsu(t) == Fu(t, IF minkou /\ t = h.winning_tile THEN 2 ELSE 4)
      sets == 20 + Sum(kotsu, d.kotsu) + MeldFu(h) + PairFu(h, d.pair)
      closed == \E s \in ToSet(d.shuntsu) : \/ s + 1 = h.winning_tile
                                            \/ s % 9 = 0 /\ s + 2 = h.winning_tile
                                            \/ s % 9 = 6 /\ s = h.winning_tile
      won == IF ~h.is_ron THEN 2 ELSE IF is_menzen(h) THEN 10 ELSE 0
      wait == IF ~minkou /\ (d.pair = h.winning_tile \/ closed) THEN 2 ELSE 0
  IN  CASE d.chitoi # {} -> 25
        [] d.chitoi = {} /\ sets = 20 ->
             IF ~is_menzen(h) THEN 30
             ELSE IF has_pinfu THEN IF h.is_ron THEN 30 ELSE 20 ELSE IF h.is_ron THEN 40 ELSE 30
        [] OTHER -> Ceil(sets + won + wait, 10)

(* What each yaku is worth, concealed or not; a yakuman is worth 13. *)
Han(yaku, menzen) ==
  LET closed == IF menzen THEN 1 ELSE 0 IN
  CASE yaku \in {"pinfu", "tanyao", "iipeikou", "round", "seat", "haku", "hatsu", "chun"} -> 1
    [] yaku \in {"chiitoitsu", "toitoi", "doukou", "sanankou", "sankantsu", "shousangen", "honroutou"} -> 2
    [] yaku = "ryanpeikou" -> 3
    [] yaku \in {"ittsuu", "doujun", "chanta"} -> 1 + closed
    [] yaku \in {"honitsu", "junchan"} -> 2 + closed
    [] yaku = "chinitsu" -> 5 + closed
is_yakuman == {"chuuren", "tsuuiisou", "suuankou", "suukantsu", "ryuuiisou", "daisangen",
               "shousuushii", "daisuushii", "chinroutou"}

has_pinfu(h, d) ==
  /\ Len(d.shuntsu) = 4 /\ PairFu(h, d.pair) = 0
  /\ \E s \in ToSet(d.shuntsu) : \/ s % 9 <= 5 /\ s = h.winning_tile
                                 \/ s % 9 >= 1 /\ s + 2 = h.winning_tile

(* The yaku that are told from the sets alone, and those that ask how the
   hand was won: `ankous' triplets are concealed, `pinfu' is the wait. *)
YakuOf(h, d, pinfu, ankous) ==
  LET ends == Ends(h, d)
      runs == all_shuntsu(h, d)
      triplets == all_kotsu_and_kantsu(h, d)
      sets == d.chitoi = {}
      suits == {t \div 9 : t \in ends \cup runs}
      honors == 3 \in suits
      toitoi == sets /\ runs = {}
      outside == \A t \in ends : Yaokyuu(t)
      three(S) == \E n \in 0..8 : {n, n + 9, n + 18} \subseteq S
      doujun == three(runs)
      dragons == triplets \cap Dragons
      winds == triplets \cap Winds
  IN  If(pinfu, "pinfu") \cup If(~sets, "chiitoitsu")
      \cup If(sets /\ Twins(d) = 2, "ryanpeikou") \cup If(has_chuuren(h, d), "chuuren")
      \cup If(sets /\ Twins(d) = 1 /\ is_menzen(h), "iipeikou")
      \cup If((\A t \in ends : Simple(t)) /\ \A s \in runs : s % 9 \in 1..5, "tanyao")
      \cup If(toitoi, "toitoi")
      \cup If(suits = {3}, "tsuuiisou")
      \cup If(Cardinality(suits \ {3}) = 1, IF honors THEN "honitsu" ELSE "chinitsu")
      \cup If(\E suit \in {0, 9, 18} : {suit, suit + 3, suit + 6} \subseteq runs, "ittsuu")
      \cup If(doujun, "doujun") \cup If(~doujun /\ three({t \in triplets : t < 27}), "doukou")
      \cup If(ankous = 4, "suuankou") \cup If(ankous = 3, "sanankou")
      \cup If(Cardinality(Kans(h)) = 4, "suukantsu") \cup If(Cardinality(Kans(h)) = 3, "sankantsu")
      \cup If(sets /\ runs \subseteq {19} /\ ends \subseteq {19, 20, 21, 23, 25, 32}, "ryuuiisou")
      \cup If(h.bakaze \in triplets, "round") \cup If(h.jikaze \in triplets, "seat")
      \cup {<<"haku", "hatsu", "chun">>[t - 30] : t \in dragons} \cup If(Cardinality(dragons) = 3, "daisangen")
      \cup If(Cardinality(dragons) = 2 /\ sets /\ d.pair \in Dragons, "shousangen")
      \cup If(Cardinality(winds) = 4, "daisuushii")
      \cup If(Cardinality(winds) = 3 /\ sets /\ d.pair \in Winds, "shousuushii")
      \cup If(outside /\ (toitoi \/ ~sets), IF honors THEN "honroutou" ELSE "chinroutou")
      \cup If(outside /\ sets /\ ~toitoi /\ (\A s \in runs : s % 9 \in {0, 6}),
              IF honors THEN "chanta" ELSE "junchan")

(* An Agari: [yakuman |-> n] counts above every [han, fu]. *)
Worth(h, yakus, fu) ==
  LET yakuman == yakus \cap is_yakuman
      han == Sum(LAMBDA y : Han(y, is_menzen(h)), yakus \ is_yakuman)
  IN  IF yakuman # {} THEN [yakuman |-> Cardinality(yakuman), han |-> 0, fu |-> 0]
      ELSE [yakuman |-> 0, han |-> han, fu |-> IF han >= 5 THEN 0 ELSE fu]

search_yakus(h, d) ==
  LET pinfu == has_pinfu(h, d)
      ankous == Cardinality(h.ankans) + Cardinality(d.kotsu)
                - (IF winning_tile_makes_minkou(h, d) THEN 1 ELSE 0)
  IN  Worth(h, YakuOf(h, d, pinfu, ankous), calc_fu(h, d, pinfu))

AtLeast(a, b) ==   \* Ord for Agari
  \/ a.yakuman > b.yakuman
  \/ a.yakuman = b.yakuman /\ (a.han > b.han \/ (a.han = b.han /\ a.fu >= b.fu))
Largest(agaris) == CHOOSE a \in agaris : \A b \in agaris : AtLeast(a, b)

NoYaku == [yakuman |-> 0, han |-> 0, fu |-> 0]
agari(h, additional_hans, doras) ==
  LET divs == Divisions(h.tehai)
      worth == {w \in {search_yakus(h, d) : d \in divs} : w.yakuman > 0 \/ w.han > 0}
      best == Largest(worth)
      more == additional_hans + doras
      fus == {calc_fu(h, d, FALSE) : d \in divs}
  IN  IF worth # {} THEN IF best.yakuman > 0 THEN best ELSE [best EXCEPT !.han = @ + more]
      ELSE IF additional_hans = 0 THEN NoYaku
      ELSE [yakuman |-> 0, han |-> more,
            fu |-> IF more >= 5 THEN 0 ELSE CHOOSE f \in fus : \A g \in fus : g <= f]

-----------------------------------------------------------------------------
(***************************************************************************)
(* Points.                                                                 *)
(***************************************************************************)
(* The combinations Point::calc has an arm for. *)
possible(a) ==
  a.yakuman = 0 /\ a.han < 5 =>
    /\ a.han >= 1 /\ a.fu \in {20, 25} \cup {10 * n : n \in 3..11}
    /\ a.fu < 30 => a.han >= 2

Basic(a) ==
  CASE a.yakuman > 0 -> 8000 * a.yakuman
    [] a.yakuman = 0 /\ a.han >= 13 -> 8000
    [] a.yakuman = 0 /\ a.han \in 11..12 -> 6000
    [] a.yakuman = 0 /\ a.han \in 8..10 -> 4000
    [] a.yakuman = 0 /\ a.han \in 6..7 -> 3000
    [] OTHER -> LET base == a.fu * 2 ^ (a.han + 2) IN
                IF a.han = 5 \/ base > 1920 THEN 2000 ELSE base
point(a, is_oya) ==
  LET up(n) == Ceil(n * Basic(a), 100) IN
  IF is_oya THEN [ron |-> up(6), tsumo_ko |-> up(2), tsumo_oya |-> 0]
  ELSE [ron |-> up(4), tsumo_ko |-> up(1), tsumo_oya |-> up(2)]
Total(a, h, is_oya) ==
  LET p == point(a, is_oya) IN
  IF h.is_ron THEN p.ron ELSE IF is_oya THEN 3 * p.tsumo_ko ELSE 2 * p.tsumo_ko + p.tsumo_oya

-----------------------------------------------------------------------------
(***************************************************************************)
(* The rules of the game: a reading of the hand says in which of the       *)
(* concealed sets the winning tile is, each set is open or concealed and   *)
(* each wait one or two sided.                                             *)
(***************************************************************************)
Readings(h, d) ==
  {<<"pair", t>> : t \in (d.chitoi \cup {d.pair}) \cap {h.winning_tile}}
  \cup {<<"triplet", t>> : t \in d.kotsu \cap {h.winning_tile}}
  \cup {<<"run", s>> : s \in {s \in ToSet(d.shuntsu) : h.winning_tile \in s..(s + 2)}}

OneSided(h, r) ==
  \/ r[1] = "pair"
  \/ r[1] = "run" /\ (h.winning_tile = r[2] + 1 \/ (r[2] % 9 = 0 /\ h.winning_tile = r[2] + 2)
                      \/ (r[2] % 9 = 6 /\ h.winning_tile = r[2]))
Opened(h, r) == h.is_ron /\ r[1] = "triplet"
Read(h, d, r) ==
  LET concealed == d.kotsu \ If(Opened(h, r), h.winning_tile)
      pinfu == /\ is_menzen(h) /\ d.chitoi = {} /\ Ends(h, d) = {d.pair} /\ h.ankans = {}
               /\ PairFu(h, d.pair) = 0 /\ ~OneSided(h, r)
      sum == 20 + MeldFu(h) + Sum(LAMBDA t : Fu(t, 4), concealed)
             + Sum(LAMBDA t : Fu(t, 2), d.kotsu \ concealed) + PairFu(h, d.pair)
             + (IF OneSided(h, r) THEN 2 ELSE 0)
             + (IF h.is_ron /\ is_menzen(h) THEN 10 ELSE 0)
             + (IF ~h.is_ron /\ ~pinfu THEN 2 ELSE 0)
      fu == IF d.chitoi # {} THEN 25 ELSE IF sum = 20 /\ ~is_menzen(h) THEN 30 ELSE Ceil(sum, 10)
  IN  Worth(h, YakuOf(h, d, pinfu, Cardinality(h.ankans) + Cardinality(concealed)), fu)

Score(a, more) == IF a.yakuman > 0 THEN a ELSE [a EXCEPT !.han = @ + more]
Best(h, additional_hans, doras, is_oya) ==
  LET all == UNION {{Read(h, d, r) : r \in Readings(h, d)} : d \in Divisions(h.tehai)}
      wins == {a \in all : a.yakuman > 0 \/ a.han > 0 \/ additional_hans > 0}
      totals == {Total(Score(a, additional_hans + doras), h, is_oya) : a \in wins}
  IN  IF totals = {} THEN 0 ELSE CHOOSE t \in totals : \A u \in totals : u <= t

(* What is paid is the most that any reading of the hand is worth, whatever
   set the winning tile was put into and however many dora or hans come on
   top of it; and it is one of the amounts the table of points has. *)
IsBest(h, additional_hans, doras, is_oya) ==
  LET a == agari(h, additional_hans, doras) IN
  /\ a # NoYaku => possible(a)
  /\ (IF a = NoYaku THEN 0 ELSE Total(a, h, is_oya)) = Best(h, additional_hans, doras, is_oya)
=============================================================================
