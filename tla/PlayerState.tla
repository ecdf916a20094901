----------------------------- MODULE PlayerState -----------------------------
(***************************************************************************)
(* PlayerState (libriichi/src/state/{update,action,agent_helper}.rs): what *)
(* one seat knows of a kyoku, kept up to date event by event, and the      *)
(* actions that seat is offered.  Waits, shanten, furiten and doras are    *)
(* all kept incrementally; the invariants compare them with what the       *)
(* hand, the melds and the events seen so far make of them.                *)
(*                                                                         *)
(* Seats are relative: 0 is the player, 3 the one before it.  A tile is    *)
(* its kind (its number in tile.rs), or Red for the red five.  The game is *)
(* played with the tiles in Kinds and hands of Sets sets and a pair.  The  *)
(* other seats play any tile the player has not seen four of.              *)
(***************************************************************************)
EXTENDS Integers, FiniteSets, SequencesExt

CONSTANTS
  Kinds,        \* the kinds of tiles in the set
  Red, Five,    \* the red five, and its kind; Red \notin Kinds
  Sets,         \* tehai_len_div3 of a haipai: stands for 4
  Deals,        \* the haipais looked at, with the indicator, who draws first, and the wall for 70
  Played,       \* bound: the tiles the others discard
  Callers,      \* bound: the others that make melds
  Markers,      \* bound: the indicators of kans
  HasYaku(_, _),\* has_yaku of algo/agari.rs, for a full hand and melds
  Nobody        \* None of an Option<Tile>

ASSUME KindAssumption == Kinds \subseteq 0..33 /\ Five \in Kinds /\ Red \notin Kinds
ASSUME SizeAssumption == Sets \in Nat
ASSUME DealAssumption ==
  \A d \in Deals : d.first \in 0..3 /\ d.wall \in Nat /\ d.tiles \in Seq(Kinds \cup {Red}) /\ Len(d.tiles) = 3 * Sets + 1
ASSUME BoundAssumption == Played \cup Markers \subseteq Kinds \cup {Red} /\ Callers \subseteq 1..3

VARIABLES
  s,          \* the PlayerState
  phase,      \* of the board: "draw", "act", "react", "chankan", "end"
  turn,       \* the seat that draws or has drawn
  owed,       \* indicators not turned over yet: need_new_dora_at_discard, _at_tsumo
  passed,     \* history: winning tiles of the others since the player's last turn
  own         \* history: kinds the player has discarded

vars == <<s, phase, turn, owed, passed, own>>
Tiles == Kinds \cup {Red}
Total(f) == FoldFunction(+, 0, f)

-----------------------------------------------------------------------------
(***************************************************************************)
(* Tiles and hands.                                                        *)
(***************************************************************************)
deaka(t) == IF t = Red THEN Five ELSE t
is_jihai(t) == t >= 27
next(t) ==
  LET k == deaka(t) IN
  IF k < 27 THEN (k \div 9) * 9 + ((k + 1) % 9)
  ELSE IF k < 31 THEN 27 + ((k - 26) % 4) ELSE 31 + ((k - 30) % 3)

Bag(h) == UNION {(4 * t + 1)..(4 * t + h[t]) : t \in Kinds}     \* the tiles by number
NoTiles == [t \in Kinds |-> 0]
Put(h, t) == [h EXCEPT ![t] = @ + 1]
Take(h, t) == [h EXCEPT ![t] = @ - 1]

Triplets == {[NoTiles EXCEPT ![t] = 3] : t \in Kinds}
Runs == {[t \in Kinds |-> IF t \in k..(k + 2) THEN 1 ELSE 0] :
           k \in {t \in Kinds : ~is_jihai(t) /\ t % 9 <= 6 /\ {t + 1, t + 2} \subseteq Kinds}}
Complete[k \in 0..Sets] ==
  IF k = 0 THEN {[NoTiles EXCEPT ![t] = 2] : t \in Kinds}
  ELSE {[t \in Kinds |-> h[t] + m[t]] : h \in Complete[k - 1], m \in Triplets \cup Runs}
AgariHands == [k \in 0..Sets |-> {h \in Complete[k] : \A t \in Kinds : h[t] <= 4}]
AgariBags == [k \in 0..Sets |-> {Bag(h) : h \in AgariHands[k]}]

(* Tiles missing to the nearest complete hand, less one. *)
calc_all(h, k) ==
  LET bag == Bag(h)
      missing == {Cardinality(a \ bag) : a \in AgariBags[k]}
  IN  (CHOOSE n \in missing : \A m \in missing : n <= m) - 1
Wins(h, k, t) == h[t] < 4 /\ Put(h, t) \in AgariHands[k]

-----------------------------------------------------------------------------
(***************************************************************************)
(* Bookkeeping.                                                            *)
(***************************************************************************)
Fail(st) == [st EXCEPT !.error = TRUE]

witness_tile(st, t) ==
  LET k == deaka(t) IN
  IF st.tiles_seen[k] >= 4 THEN Fail(st)
  ELSE [st EXCEPT !.tiles_seen[k] = @ + 1, !.akas_seen = @ \/ t = Red,
                  !.doras_seen = @ + st.dora_factor[k] + (IF t = Red THEN 1 ELSE 0)]
Witness(st, tiles) == FoldLeft(witness_tile, st, tiles)

Worth(st, t) == st.dora_factor[deaka(t)] + (IF t = Red THEN 1 ELSE 0)
update_doras_owned(st, rel, t) == [st EXCEPT !.doras_owned[rel] = @ + Worth(st, t)]
Owns(st, rel, tiles) == FoldLeft(LAMBDA a, t : update_doras_owned(a, rel, t), st, tiles)

(* move_tile: a drawn tile, a discarded one, and one laid open in a meld. *)
Gain(st, t) ==
  LET moved == [st EXCEPT !.tehai = Put(@, deaka(t)), !.aka_in_hand = @ \/ t = Red]
  IN  update_doras_owned(moved, 0, t)
Lay(st, t) ==
  IF st.tehai[deaka(t)] = 0 THEN Fail(st)
  ELSE [st EXCEPT !.tehai = Take(@, deaka(t)), !.aka_in_hand = @ /\ t # Red]
Drop(st, t) == [Lay(st, t) EXCEPT !.doras_owned[0] = @ - Worth(st, t)]
LayAll(st, tiles) == FoldLeft(Lay, st, tiles)

CountIn(tiles, k) == Cardinality({i \in DOMAIN tiles : deaka(tiles[i]) = k})
InMelds(st, rel, k) == FoldLeft(LAMBDA n, m : n + CountIn(m, k), 0, st.fuuro[rel])
                       + (IF k \in st.ankan_overview[rel] THEN 4 ELSE 0)

add_dora_indicator(st0, t) ==
  LET st == witness_tile(st0, t)
      k == next(t)
  IN  IF k \notin Kinds THEN st
      ELSE [st EXCEPT !.dora_factor[k] = @ + 1,
                      !.doras_owned = [rel \in 0..3 |-> @[rel] + InMelds(st, rel, k)
                                                        + (IF rel = 0 THEN st.tehai[k] ELSE 0)],
                      !.doras_seen = @ + st.tiles_seen[k]]

-----------------------------------------------------------------------------
(***************************************************************************)
(* Shanten, waits and furiten.                                             *)
(***************************************************************************)
update_shanten(st) ==
  LET n == calc_all(st.tehai, st.tehai_len_div3)
  IN  [st EXCEPT !.shanten = IF n < 0 THEN 0 ELSE n]

update_shanten_discards(st) ==
  LET after == [t \in {k \in Kinds : st.tehai[k] > 0} |->
                  calc_all(Take(st.tehai, t), st.tehai_len_div3)]
  IN  [st EXCEPT !.next_shanten_discards = {t \in DOMAIN after : after[t] < st.shanten},
                 !.keep_shanten_discards = {t \in DOMAIN after : after[t] = st.shanten}]

update_waits_and_furiten(st) ==
  LET shape == IF st.shanten > 0 THEN {}
               ELSE {t \in Kinds : Wins(st.tehai, st.tehai_len_div3, t)}
  IN  [st EXCEPT !.waits = {t \in shape : st.tiles_seen[t] < 4},
                 !.at_furiten = shape \cap st.discarded_tiles # {}]

(* The shanten after a tile has left the hand, by the tables of the draw. *)
Recount(st, t) ==
  IF deaka(t) \in st.next_shanten_discards THEN [st EXCEPT !.shanten = @ - 1]
  ELSE IF deaka(t) \in st.keep_shanten_discards THEN st ELSE update_shanten(st)

-----------------------------------------------------------------------------
(***************************************************************************)
(* The events.  Every one of them first takes back what was offered and    *)
(* settles what the player has let go.                                     *)
(***************************************************************************)
Begin(st) ==
  [st EXCEPT !.cans = {}, !.ankan_candidates = {}, !.kakan_candidates = {},
             !.at_furiten = @ \/ st.to_mark_same_cycle_furiten,
             !.to_mark_same_cycle_furiten = FALSE,
             !.at_ippatsu = @ /\ ~st.chankan_chance, !.chankan_chance = FALSE]

Offer(st, acts) == [st EXCEPT !.cans = @ \cup acts]
If(cond, act) == IF cond THEN {act} ELSE {}

check_ankan_after_riichi(h, k, t) ==
  LET before == Take(h, t)
      waits == {w \in Kinds : Wins(before, k, w)}
      after == [h EXCEPT ![t] = 0]
  IN  /\ h[t] = 4
      /\ is_jihai(t) \/ \A w \in waits : w # t /\ Put(after, w) \in AgariHands[k - 1]

tsumo_other(st) ==
  IF st.tiles_left = 0 THEN Fail(st) ELSE [Begin(st) EXCEPT !.tiles_left = @ - 1]

tsumo(st0, t) ==
  LET drawn == Gain(witness_tile([tsumo_other(st0) EXCEPT !.last_self_tsumo = t], t), t)
      st == IF drawn.riichi_accepted THEN drawn ELSE update_shanten_discards(drawn)
      last == st.tiles_left = 0
      agari == /\ deaka(t) \in st.waits
               /\ \/ st.is_menzen \/ st.riichi_accepted \/ last \/ st.at_rinshan \/ st.can_w_riichi
                  \/ HasYaku(st.tehai, st.fuuro[0])
      kans == ~last /\ st.kans_on_board < 4
      ankans == IF st.riichi_accepted
                THEN If(check_ankan_after_riichi(st.tehai, st.tehai_len_div3, deaka(t)), deaka(t))
                ELSE {k \in Kinds : st.tehai[k] = 4}
      kakans == IF st.riichi_accepted THEN {}
                ELSE {k \in st.pons : st.tehai[k] \in 1..3}
      riichi == /\ ~last /\ ~st.riichi_accepted
                /\ st.is_menzen /\ st.tiles_left >= 4
                /\ st.shanten = 0 \/ (st.shanten = 1 /\ st.next_shanten_discards # {})
      offered == {"discard"} \cup If(agari, "tsumo_agari") \cup If(riichi, "riichi")
                 \cup If(kans /\ ankans # {}, "ankan") \cup If(kans /\ kakans # {}, "kakan")
  IN  [Offer(st, offered) EXCEPT !.ankan_candidates = IF kans THEN ankans ELSE {},
                                 !.kakan_candidates = IF kans THEN kakans ELSE {}]

dahai_own(st0, t) ==
  LET gone == [Drop(Begin(st0), t) EXCEPT
                 !.last_kawa_tile = t, !.forbidden_tiles = {}, !.at_rinshan = FALSE,
                 !.at_ippatsu = FALSE, !.can_w_riichi = FALSE,
                 !.discarded_tiles = @ \cup {deaka(t)}]
  IN  IF gone.riichi_accepted
      THEN [gone EXCEPT !.at_furiten = @ \/ deaka(t) \in gone.waits]
      ELSE update_waits_and_furiten(Recount(gone, t))

(* A chi must leave a tile that may be discarded. *)
Leaves(h, used, barred) ==
  /\ \A k \in used : k \in Kinds /\ h[k] > 0
  /\ \E k \in Kinds \ barred : h[k] - (IF k \in used THEN 1 ELSE 0) > 0
ChiOffers(h, k) ==
  LET n == (k % 9) + 1 IN
  If(n <= 7 /\ Leaves(h, {k + 1, k + 2}, {k} \cup If(n < 7, k + 3)), "chi_low")
  \cup If(n \in 2..8 /\ Leaves(h, {k - 1, k + 1}, {k}), "chi_mid")
  \cup If(n >= 3 /\ Leaves(h, {k - 2, k - 1}, {k} \cup If(n > 3, k - 3)), "chi_high")

(* A discard of seat rel.  The tile that is not won marks the player as
   furiten: at once without a yaku, on the next event with one. *)
MissesLate(st, win) == IF win THEN st ELSE [st EXCEPT !.at_furiten = TRUE]   \* mutant
Misses(st, win) ==
  IF win THEN [st EXCEPT !.to_mark_same_cycle_furiten = TRUE] ELSE [st EXCEPT !.at_furiten = TRUE]

dahai_other(st0, rel, t) ==
  LET st == [witness_tile(Begin(st0), t) EXCEPT !.last_kawa_tile = t]
      k == deaka(t)
      waited == ~st.at_furiten /\ k \in st.waits
      win == /\ waited
             /\ \/ st.riichi_accepted \/ st.tiles_left = 0
                \/ HasYaku(Put(st.tehai, k), st.fuuro[0])
      seen == IF waited THEN Misses(st, win) ELSE st
      calls == If(st.tehai[k] >= 2, "pon")
               \cup If(st.kans_on_board < 4 /\ st.tehai[k] = 3, "daiminkan")
               \cup (IF rel = 3 /\ ~is_jihai(k) /\ st.tehai_len_div3 > 0
                     THEN ChiOffers(st.tehai, k) ELSE {})
  IN  Offer(seen, If(win, "ron_agari")
                  \cup (IF st.riichi_accepted \/ st.tiles_left = 0 THEN {} ELSE calls))

(* A meld of another seat, with the tile called or on its own. *)
Broken(st) == [st EXCEPT !.can_w_riichi = FALSE, !.at_ippatsu = FALSE]
meld_other(st0, rel, consumed, t) ==
  LET st == [Begin(st0) EXCEPT !.fuuro[rel] = Append(@, Append(consumed, t)),
                               !.kans_on_board = @ + (IF Len(consumed) = 3 THEN 1 ELSE 0)]
  IN  Broken(Owns(Witness(st, consumed), rel, Append(consumed, t)))

ankan_other(st0, rel, consumed) ==
  LET st == [Begin(st0) EXCEPT !.ankan_overview[rel] = @ \cup {deaka(consumed[1])},
                               !.kans_on_board = @ + 1]
  IN  Owns(Witness(Broken(st), consumed), rel, consumed)

Extend(melds, t) == [i \in DOMAIN melds |->
  IF deaka(melds[i][1]) = deaka(t) THEN Append(melds[i], t) ELSE melds[i]]
kakan_other(st0, rel, t) ==
  LET st == [Begin(st0) EXCEPT !.fuuro[rel] = Extend(@, t), !.kans_on_board = @ + 1,
                               !.last_kawa_tile = t]
      seen == update_doras_owned(witness_tile(st, t), rel, t)
  IN  IF ~seen.at_furiten /\ deaka(t) \in seen.waits
      THEN [Offer(seen, {"ron_agari"}) EXCEPT !.to_mark_same_cycle_furiten = TRUE,
                                              !.chankan_chance = TRUE]
      ELSE [seen EXCEPT !.at_ippatsu = FALSE]

(* The player's own melds.  Only chi and pon are followed by a discard. *)
Call(st0, consumed, t) ==
  LET st == [Begin(st0) EXCEPT !.fuuro[0] = Append(@, Append(consumed, t)),
                               !.is_menzen = FALSE, !.tehai_len_div3 = @ - 1]
  IN  LayAll(update_doras_owned(st, 0, t), consumed)

KuikaeOverEnds(h, consumed, t) ==   \* mutant: the next suit's tile is taken for a like
  LET low == IF deaka(consumed[1]) < deaka(consumed[2]) THEN deaka(consumed[1]) ELSE deaka(consumed[2])
      high == deaka(consumed[1]) + deaka(consumed[2]) - low
      k == deaka(t)
      other == If(k < low, high + 1) \cup If(k > high, low - 1)
  IN  {x \in ({k} \cup other) \cap Kinds : h[x] > 0}
Kuikae(h, consumed, t) ==
  LET low == IF deaka(consumed[1]) < deaka(consumed[2]) THEN deaka(consumed[1]) ELSE deaka(consumed[2])
      high == deaka(consumed[1]) + deaka(consumed[2]) - low
      k == deaka(t)
      other == If(k < low /\ high % 9 < 8, high + 1) \cup If(k > high /\ low % 9 # 0, low - 1)
  IN  {x \in ({k} \cup other) \cap Kinds : h[x] > 0}

ToDiscard(st) ==
  update_shanten_discards(update_shanten(Offer([st EXCEPT !.last_self_tsumo = Nobody], {"discard"})))
chi(st0, consumed, t) ==
  LET st == Call(st0, consumed, t)
  IN  ToDiscard([st EXCEPT !.forbidden_tiles = @ \cup Kuikae(st.tehai, consumed, t)])
pon(st0, consumed, t) ==
  LET st == Call(st0, consumed, t)
  IN  ToDiscard([st EXCEPT !.pons = @ \cup {deaka(t)},
                           !.forbidden_tiles = @ \cup If(st.tehai[deaka(t)] > 0, deaka(t))])
daiminkan(st0, consumed, t) ==
  LET st == Call([st0 EXCEPT !.kans_on_board = @ + 1, !.at_rinshan = TRUE], consumed, t)
  IN  update_waits_and_furiten(update_shanten(st))
kakan_keeps(st0, t) ==   \* mutant: the waits of before the draw are kept
  LET st == [Begin(st0) EXCEPT !.fuuro[0] = Extend(@, t), !.kans_on_board = @ + 1,
                               !.at_rinshan = TRUE, !.pons = @ \ {deaka(t)}]
  IN  Recount(Lay(st, t), t)
kakan(st0, t) ==
  LET st == [Begin(st0) EXCEPT !.fuuro[0] = Extend(@, t), !.kans_on_board = @ + 1,
                               !.at_rinshan = TRUE, !.pons = @ \ {deaka(t)}]
  IN  update_waits_and_furiten(Recount(Lay(st, t), t))
ankan(st0, consumed) ==
  LET st == [Broken(Begin(st0)) EXCEPT
               !.ankan_overview[0] = @ \cup {deaka(consumed[1])}, !.kans_on_board = @ + 1,
               !.at_rinshan = TRUE, !.tehai_len_div3 = @ - 1]
      laid == LayAll(st, consumed)
  IN  IF st.riichi_accepted THEN laid ELSE update_waits_and_furiten(update_shanten(laid))

dora(st, t) == add_dora_indicator(Begin(st), t)
reach(st) == [Offer(Begin(st), {"discard"}) EXCEPT
                !.riichi_declared = TRUE, !.is_w_riichi = st.can_w_riichi]
reach_accepted(st) == [Begin(st) EXCEPT !.riichi_accepted = TRUE, !.at_ippatsu = TRUE]

New ==
  [error |-> FALSE, tehai |-> NoTiles, aka_in_hand |-> FALSE, akas_seen |-> FALSE,
   waits |-> {}, shanten |-> 0, next_shanten_discards |-> {}, keep_shanten_discards |-> {},
   forbidden_tiles |-> {}, discarded_tiles |-> {}, tiles_seen |-> NoTiles,
   dora_factor |-> NoTiles, doras_owned |-> [rel \in 0..3 |-> 0], doras_seen |-> 0,
   at_furiten |-> FALSE, to_mark_same_cycle_furiten |-> FALSE, chankan_chance |-> FALSE,
   at_ippatsu |-> FALSE, at_rinshan |-> FALSE, is_menzen |-> TRUE, can_w_riichi |-> TRUE,
   is_w_riichi |-> FALSE, fuuro |-> [rel \in 0..3 |-> <<>>],
   ankan_overview |-> [rel \in 0..3 |-> {}], pons |-> {}, kans_on_board |-> 0,
   tehai_len_div3 |-> Sets, tiles_left |-> 0, riichi_declared |-> FALSE,
   riichi_accepted |-> FALSE, last_self_tsumo |-> Nobody, last_kawa_tile |-> Nobody,
   cans |-> {}, ankan_candidates |-> {}, kakan_candidates |-> {}]
start_kyoku(marker, tiles, wall) ==
  LET dealt == FoldLeft(LAMBDA st, t : Gain(witness_tile(st, t), t),
                        add_dora_indicator([New EXCEPT !.tiles_left = wall], marker), tiles)
  IN  update_waits_and_furiten(update_shanten(dealt))

-----------------------------------------------------------------------------
(***************************************************************************)
(* What the state is asked for.                                            *)
(***************************************************************************)
(* A kind as the tiles of the hand that are one: the red five and the rest. *)
Aka(st, kinds) ==
  (kinds \ If(st.aka_in_hand /\ st.tehai[Five] = 1, Five))
  \cup If(st.aka_in_hand /\ Five \in kinds, Red)
Held(st) == {k \in Kinds : st.tehai[k] > 0}

discard_candidates_aka(st) ==
  LET allowed == IF ~st.riichi_declared THEN Held(st) \ st.forbidden_tiles
                 ELSE IF st.shanten = 1 THEN Held(st) \cap st.next_shanten_discards
                 ELSE Held(st) \cap st.keep_shanten_discards
  IN  IF st.riichi_accepted THEN {st.last_self_tsumo} ELSE Aka(st, allowed)

real_time_shanten(st) ==
  IF "discard" \notin st.cans THEN st.shanten
  ELSE IF st.shanten > 0
  THEN st.shanten - (IF st.next_shanten_discards # {} THEN 1 ELSE 0)
  ELSE IF st.last_self_tsumo # Nobody
  THEN IF deaka(st.last_self_tsumo) \in st.waits THEN -1 ELSE 0
  ELSE calc_all(st.tehai, st.tehai_len_div3)

(* The discards after which the hand can be won for real. *)
Real(st, hand, shapes) ==
  /\ shapes \cap st.discarded_tiles = {}
  /\ \E t \in shapes : st.tiles_seen[t] < 4 /\ HasYaku(Put(hand, t), st.fuuro[0])
discard_candidates_with_unconditional_tenpai(st) ==
  LET tenpai == IF st.shanten = 1 THEN st.next_shanten_discards ELSE st.keep_shanten_discards
      won == IF st.last_self_tsumo # Nobody THEN deaka(st.last_self_tsumo) \in st.waits
             ELSE calc_all(st.tehai, st.tehai_len_div3) = -1
      shapes(d) == {t \in Kinds \ {d} : Wins(Take(st.tehai, d), st.tehai_len_div3, t)}
      real(d) == Real(st, Take(st.tehai, d), shapes(d))
  IN  IF st.tiles_left = 0 \/ st.shanten > 1 \/ won THEN {}
      ELSE IF st.riichi_accepted
      THEN If(~st.at_furiten, deaka(st.last_self_tsumo))
      ELSE {d \in tenpai \ st.forbidden_tiles : real(d)}

ensure_tiles_in_hand(st, tiles) ==
  \A t \in ToSet(tiles) : st.tehai[deaka(t)] > 0 /\ (t = Red => st.aka_in_hand)
(* A discard, the reaction that the board lets through. *)
validate_reaction(st, t, tsumogiri) ==
  /\ "discard" \in st.cans /\ ensure_tiles_in_hand(st, <<t>>)
  /\ tsumogiri => st.last_self_tsumo = t

-----------------------------------------------------------------------------
(***************************************************************************)
(* The kyoku, as the board plays it.                                       *)
(***************************************************************************)
Unseen(st, t) ==
  CASE t = Red -> IF st.akas_seen THEN 0 ELSE 1
    [] t = Five -> 4 - st.tiles_seen[t] - (IF st.akas_seen THEN 0 ELSE 1)
    [] OTHER -> 4 - st.tiles_seen[t]
InHand(st, t) ==
  CASE t = Red -> IF st.aka_in_hand THEN 1 ELSE 0
    [] t = Five -> st.tehai[t] - (IF st.aka_in_hand THEN 1 ELSE 0)
    [] OTHER -> st.tehai[t]
HasAll(have(_, _), st, tiles) ==
  \A t \in ToSet(tiles) : Cardinality({i \in DOMAIN tiles : tiles[i] = t}) <= have(st, t)

(* The kinds of a run: three in a row of one suit. *)
Rows == {a..(a + 2) : a \in {k \in 0..26 : k % 9 <= 6}}

(* The tiles that make a set of n + 1 of the tile t, or a run with it. *)
Same(t, n) == LET plain == [i \in 1..n |-> deaka(t)]
              IN  {plain} \cup (IF deaka(t) = Five THEN {[plain EXCEPT ![1] = Red]} ELSE {})
Runs3(t) == LET k == deaka(t)
            IN  {c \in Tiles \X Tiles :
                   /\ deaka(c[1]) < deaka(c[2])
                   /\ {k, deaka(c[1]), deaka(c[2])} \in Rows}
ChiType(c, t) == IF deaka(t) < deaka(c[1]) THEN "chi_low"
                 ELSE IF deaka(t) > deaka(c[2]) THEN "chi_high" ELSE "chi_mid"

Init ==
  /\ \E d \in Deals : s = start_kyoku(d.marker, d.tiles, d.wall) /\ turn = d.first
  /\ phase = "draw" /\ owed = 0 /\ passed = 0 /\ own = {}

Shape == {t \in Kinds : Wins(s.tehai, s.tehai_len_div3, t)}
(* Winning tiles of the others add up until the player's own turn. *)
Offered(t) == passed' = passed + (IF deaka(t) \in Shape THEN 1 ELSE 0)
OwnTurn == passed' = IF s.riichi_accepted THEN passed ELSE 0
Settled == s.riichi_declared => s.riichi_accepted

(* The indicator a kan owes is turned over, if there is one. *)
Free(st) == {t \in Tiles : Unseen(st, t) > 0}
Shown(st, n) == IF n > 0 THEN {dora(st, m) : m \in Free(st) \cap Markers} ELSE {st}

Tsumo ==
  /\ phase \in {"draw", "chankan"} \/ (phase = "react" /\ Settled)
  /\ s.tiles_left > 0
  /\ turn' = IF phase = "react" THEN (turn + 1) % 4 ELSE turn
  /\ \E st \in Shown(s, owed - 1) :
       IF turn' = 0 THEN \E t \in Free(st) : s' = tsumo(st, t) ELSE s' = tsumo_other(st)
  /\ owed' = IF owed = 2 THEN 1 ELSE owed
  /\ phase' = "act" /\ UNCHANGED <<passed, own>>

ReachAccepted ==
  /\ phase = "react" /\ ~Settled
  /\ s' = reach_accepted(s) /\ UNCHANGED <<phase, turn, owed, passed, own>>

Dahai ==
  /\ phase = "act" /\ turn = 0
  /\ \E t \in discard_candidates_aka(s), st \in Shown(s, owed) :
       s' = dahai_own(st, t) /\ own' = own \cup {deaka(t)}
  /\ OwnTurn /\ phase' = "react" /\ owed' = 0 /\ UNCHANGED turn
DahaiOther ==
  /\ phase = "act" /\ turn # 0
  /\ \E st \in Shown(s, owed) : \E t \in Free(st) \cap Played : s' = dahai_other(st, turn, t) /\ Offered(t)
  /\ phase' = "react" /\ owed' = 0 /\ UNCHANGED <<turn, own>>

Reach == /\ phase = "act" /\ turn = 0 /\ "riichi" \in s.cans
         /\ s' = reach(s) /\ UNCHANGED <<phase, turn, owed, passed, own>>

(* The player calls the discard it reacts to. *)
Called == /\ phase = "react" /\ turn # 0
          /\ turn' = 0 /\ OwnTurn /\ UNCHANGED own
Chi == /\ Called /\ phase' = "act" /\ UNCHANGED owed
       /\ \E c \in Runs3(s.last_kawa_tile) :
            /\ HasAll(InHand, s, c) /\ ChiType(c, s.last_kawa_tile) \in s.cans
            /\ s' = chi(s, c, s.last_kawa_tile)
Pon == /\ Called /\ phase' = "act" /\ UNCHANGED owed
       /\ "pon" \in s.cans
       /\ \E c \in Same(s.last_kawa_tile, 2) :
            HasAll(InHand, s, c) /\ s' = pon(s, c, s.last_kawa_tile)
Daiminkan == /\ Called /\ phase' = "draw" /\ owed' = 1
             /\ "daiminkan" \in s.cans
             /\ \E c \in Same(s.last_kawa_tile, 3) :
                  HasAll(InHand, s, c) /\ s' = daiminkan(s, c, s.last_kawa_tile)
Ankan == /\ phase = "act" /\ turn = 0 /\ "ankan" \in s.cans
         /\ \E k \in s.ankan_candidates, st \in Shown(s, owed) : \E c \in Same(k, 4) :
              HasAll(InHand, s, c) /\ s' \in Shown(ankan(st, c), 1)
         /\ OwnTurn /\ phase' = "draw" /\ owed' = 0 /\ UNCHANGED <<turn, own>>
Kakan == /\ phase = "act" /\ turn = 0 /\ "kakan" \in s.cans
         /\ \E k \in s.kakan_candidates : \E t \in Aka(s, {k}) : s' = kakan(s, t)
         /\ OwnTurn /\ phase' = "draw" /\ owed' = owed + 1 /\ UNCHANGED <<turn, own>>

(* Melds of the others: one of them calls a discard, or declares a kan. *)
MeldOther ==
  /\ phase = "react" /\ Settled /\ s.tiles_left > 0
  /\ \E rel \in Callers : \E c \in Same(s.last_kawa_tile, 2) \cup Same(s.last_kawa_tile, 3)
                               \cup (IF rel = (turn + 1) % 4 THEN Runs3(s.last_kawa_tile) ELSE {}) :
       /\ rel # turn /\ HasAll(Unseen, s, c)
       /\ Len(c) = 3 => s.kans_on_board < 4
       /\ s' = meld_other(s, rel, c, s.last_kawa_tile)
       /\ turn' = rel
       /\ phase' = IF Len(c) = 3 THEN "draw" ELSE "act"
       /\ owed' = IF Len(c) = 3 THEN 1 ELSE 0
  /\ UNCHANGED <<passed, own>>

AnkanOther ==
  /\ phase = "act" /\ turn \in Callers /\ s.kans_on_board < 4 /\ s.tiles_left > 0
  /\ \E k \in Kinds, st \in Shown(s, owed) : \E c \in Same(k, 4) :
       HasAll(Unseen, st, c) /\ s' \in Shown(ankan_other(st, turn, c), 1)
  /\ phase' = "draw" /\ owed' = 0 /\ UNCHANGED <<turn, passed, own>>
KakanOther ==
  /\ phase = "act" /\ turn \in Callers /\ s.kans_on_board < 4 /\ s.tiles_left > 0
  /\ \E m \in ToSet(s.fuuro[turn]), t \in Free(s) :
       /\ Len(m) = 3 /\ \A x \in ToSet(m) : deaka(x) = deaka(t)
       /\ s' = kakan_other(s, turn, t) /\ Offered(t)
  /\ phase' = "chankan" /\ owed' = owed + 1 /\ UNCHANGED <<turn, own>>

(* A win, or the last tile of the wall. *)
End ==
  /\ \/ {"tsumo_agari", "ron_agari"} \cap s.cans # {}
     \/ phase = "react" /\ s.tiles_left = 0
  /\ phase' = "end" /\ UNCHANGED <<s, turn, owed, passed, own>>

Next == \/ Tsumo \/ ReachAccepted \/ Dahai \/ DahaiOther \/ Reach
        \/ Chi \/ Pon \/ Daiminkan \/ Ankan \/ Kakan
        \/ MeldOther \/ AnkanOther \/ KakanOther \/ End

Spec == Init /\ [][Next]_vars

-----------------------------------------------------------------------------
Acting == phase = "act" /\ turn = 0        \* the hand is one of 3n + 2 tiles
Live == phase # "end"

(* No event of a kyoku played by the rules is taken for a violation of them,
   and the tiles counted are those that are there. *)
TypeOK ==
  /\ ~s.error
  /\ \A k \in Kinds : s.tehai[k] \in 0..s.tiles_seen[k] /\ s.tiles_seen[k] \in 0..4
  /\ Live => Total(s.tehai) = 3 * s.tehai_len_div3 + (IF Acting THEN 2 ELSE 1)
  /\ s.aka_in_hand => s.tehai[Five] > 0 /\ s.akas_seen

(* Furiten is exact: with a hand that waits, the player is furiten, or is
   about to be at the next event, exactly when one of its winning tiles lies
   in its own discards or was let go since its last turn, or ever since its
   riichi; and a ron is offered on the first such tile only. *)
FuritenIsExact ==
  Live /\ ~Acting =>
    /\ (s.at_furiten \/ s.to_mark_same_cycle_furiten) = (Shape \cap own # {} \/ passed > 0)
    /\ "ron_agari" \in s.cans <=>
         /\ phase \in {"react", "chankan"} /\ turn # 0
         /\ passed = 1 /\ Shape \cap own = {}
         /\ LET k == deaka(s.last_kawa_tile) IN
              /\ k \in Shape
              /\ \/ phase = "chankan" \/ s.riichi_accepted \/ s.tiles_left = 0
                 \/ HasYaku(Put(s.tehai, k), s.fuuro[0])

(* Waits: among the tiles not all seen they are those that
   complete the hand, after a kan, and a riichi's kan, as well. *)
WaitsAreCurrent ==
  Live /\ ~Acting =>
    \A k \in Kinds : s.tiles_seen[k] < 4 => (k \in s.waits <=> k \in Shape)

(* The shanten kept by the tables of discards is that of the hand. *)
ShantenIsCurrent == real_time_shanten(s) = calc_all(s.tehai, s.tehai_len_div3)

(* The doras that are counted one by one, as tiles move and indicators turn
   over, are the doras of every hand and meld and of all tiles seen. *)
Doras(rel) ==
  LET factor(k) == s.dora_factor[k]
      inHand == Total([k \in Kinds |-> IF rel = 0 THEN s.tehai[k] * factor(k) ELSE 0])
                + (IF rel = 0 /\ s.aka_in_hand THEN 1 ELSE 0)
      melds == Total([k \in Kinds |-> InMelds(s, rel, k) * factor(k)])
      akas == Cardinality({m \in ToSet(s.fuuro[rel]) : Red \in ToSet(m)})
              + (IF Five \in s.ankan_overview[rel] THEN 1 ELSE 0)
  IN  inHand + melds + akas
DorasCounted ==
  /\ \A rel \in 0..3 : s.doras_owned[rel] = Doras(rel)
  /\ s.doras_seen = Total([k \in Kinds |-> s.tiles_seen[k] * s.dora_factor[k]])
                    + (IF s.akas_seen THEN 1 ELSE 0)

(* What the state keeps from one event to the next is what a new state would
   compute: no event is taken for a violation of the rules, and the waits, the
   shanten and the doras that are carried along are those of the hand. *)
StateIsCurrent == TypeOK /\ WaitsAreCurrent /\ ShantenIsCurrent /\ DorasCounted

(* There is always a tile to discard, the board accepts each one offered,
   none swaps the called tile for its like (kuikae), and none breaks the
   hand of a riichi; a discard that is withheld would have done so. *)
Kuikae2(k) ==
  LET m == Last(s.fuuro[0])
      kinds == {deaka(m[1]), deaka(m[2]), k}
  IN  IF deaka(m[1]) = deaka(m[2]) THEN kinds = {k} ELSE kinds \in Rows
      \/ k = deaka(m[3])
DiscardsAreLegal ==
  LET offered == discard_candidates_aka(s)
      kept == {deaka(t) : t \in offered}
  IN  Acting =>
        /\ offered # {}
        /\ \A t \in offered : validate_reaction(s, t, s.last_self_tsumo = t)
        /\ s.last_self_tsumo = Nobody => kept = {k \in Held(s) : ~Kuikae2(k)}
        /\ s.riichi_declared =>
             \A k \in kept : calc_all(Take(s.tehai, k), s.tehai_len_div3) = 0

(* The discards named as a real tenpai leave a hand that waits for a tile
   not yet seen, with a yaku, and that is not furiten. *)
TenpaiDiscardsAreReal ==
  Acting /\ ~s.riichi_accepted /\ s.tiles_left > 0 =>
    discard_candidates_with_unconditional_tenpai(s) =
      {d \in Held(s) \ s.forbidden_tiles :
         LET hand == Take(s.tehai, d)
             shape == {t \in Kinds : Wins(hand, s.tehai_len_div3, t)}
         IN  /\ shape \cap (own \cup {d}) = {}
             /\ \E t \in shape : s.tiles_seen[t] < 4 /\ HasYaku(Put(hand, t), s.fuuro[0])}

(* The discards a player is offered are right, those that may be made and
   those that are named as a tenpai. *)
DiscardsAreRight == DiscardsAreLegal /\ TenpaiDiscardsAreReal

(* Every discard that the board would accept is one the player may make. *)
AcceptedDiscardsAreLegal ==
  Acting => \A t \in Tiles, tsumogiri \in BOOLEAN :
    validate_reaction(s, t, tsumogiri) => t \in discard_candidates_aka(s)
=============================================================================
